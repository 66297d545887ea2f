SPECIFICATION AccountSpec
CONSTANTS
    Handlers = {h1}
    Clients = {c1}
    PlanSubs = {s1}
    AddonSubs = {}
    LeadSubs = {}
    Phones = {n1, n2}
    Included = 2
    TrialCap = 1
    Requests = {"cancel"}
    Faults = {}
    Ordered = TRUE
    MaxTrouble = 2
    MaxEvents = 3
    None = None
INVARIANTS
    CancelledKeepsAccess
CHECK_DEADLOCK FALSE
