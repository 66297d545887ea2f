SPECIFICATION Spec
CONSTANTS
    l1 = l1  l2 = l2  l3 = l3  c1 = c1  c2 = c2
    s1 = s1  s2 = s2  s3 = s3
    None = None
    Leads = {l1}
    Contacts = {c1, c2}
    ContactOf <- OneEach
    Rank <- Descending
    Sids = {s1, s2}
    Pacing = 2
    MaxAttempts = 1
    AmdModes = {FALSE}
    Hazards = {"stop", "staleLock", "closed", "blocked", "lateVoice", "purge"}
    MaxSessions = 2
    MaxDials = 2
SYMMETRY Slots
INVARIANTS
    OrphanLockTerminated
PROPERTIES
    LockLastsTheCall
CHECK_DEADLOCK FALSE
