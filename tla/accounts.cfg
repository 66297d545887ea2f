SPECIFICATION FairAccountSpec
CONSTANTS
    Handlers = {h1}
    Clients = {c1}
    PlanSubs = {s1, s2}
    AddonSubs = {}
    LeadSubs = {s4}
    Phones = {n1}
    Included = 1
    TrialCap = 1
    Requests = {"cancel", "card", "change", "suspend", "subscribe", "lead", "deleteUser"}
    Faults = {"crash", "cutSignup", "signup", "topUp", "undo", "release"}
    Ordered = TRUE
    MaxTrouble = 2
    MaxEvents = 4
    None = None
INVARIANTS
    AccessMirrorsPlan
    SignupIsWhole
PROPERTIES
    EndedPlanReleased
CHECK_DEADLOCK FALSE
