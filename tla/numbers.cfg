SPECIFICATION AccountSpec
CONSTANTS
    Handlers = {h1, h2}
    Clients = {c1}
    PlanSubs = {s1}
    AddonSubs = {s3, s4}
    LeadSubs = {}
    Phones = {n1, n2}
    Included = 1
    TrialCap = 2
    Requests = {"buy", "behalf", "delete", "renew", "endTrial"}
    Faults = {"card", "slowSignup", "stripe"}
    Ordered = FALSE
    MaxTrouble = 3
    MaxEvents = 4
    None = None
INVARIANTS
    LineBacked
    BilledAddonIsKnown
CONSTRAINT NumbersBound
SYMMETRY Alike
CHECK_DEADLOCK FALSE
