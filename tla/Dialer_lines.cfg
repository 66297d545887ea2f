SPECIFICATION Spec
CONSTANTS
    l1 = l1  l2 = l2  l3 = l3  c1 = c1  c2 = c2
    s1 = s1  s2 = s2  s3 = s3
    None = None
    Leads = {l1, l2, l3}
    Contacts = {c1, c2}
    ContactOf <- OneEach
    Rank <- Descending
    Sids = {s1, s2, s3}
    Pacing = 2
    MaxAttempts = 1
    AmdModes = {TRUE}
    Hazards = {"trim"}
    MaxSessions = 1
    MaxDials = 1
SYMMETRY Slots
INVARIANTS
    TypeOK
    ConversationHoldsLock
    PostCallIsFree
    LinesWithinPacing
CHECK_DEADLOCK FALSE
