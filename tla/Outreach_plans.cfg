SPECIFICATION FairOutreachSpec
CONSTANTS
    c1 = c1  p1 = p1  p2 = p2
    a1 = a1  a2 = a2  a3 = a3
    e1 = e1  e2 = e2  e3 = e3
    None = None
    Contacts = {c1}
    Recipients = {c1}
    Plans = {p1, p2}
    Assignments = {a1, a3}
    Executions = {e1, e3}
    Mails = {e1}
    ContactOf <- OneContact
    PlanOf <- TwoPlans
    AssignmentOf <- StepOf
    RecipientOf <- ToContact
    Ticks = {"tick"}
    Callers = {"job1", "job2"}
    MaxAttempts = 2
    MaxFaults = 2
INVARIANTS
    FiresOnce
    OneActivePlan
    SentMeansAccepted
    AttemptsBounded
PROPERTIES
    MailSettles
    SuppressedMailDies
    StepsSettle
    SkippedStaysQuiet
CHECK_DEADLOCK FALSE
