SPECIFICATION FairSpec
CONSTANTS
    l1 = l1  l2 = l2  l3 = l3  c1 = c1  c2 = c2
    s1 = s1  s2 = s2  s3 = s3
    None = None
    Leads = {l1, l2}
    Contacts = {c1, c2}
    ContactOf <- OneEach
    Rank <- Descending
    Sids = {s1, s2}
    Pacing = 1
    MaxAttempts = 1
    AmdModes = {TRUE, FALSE}
    Hazards = {"lateVoice", "placeFail"}
    MaxSessions = 1
    MaxDials = 1
PROPERTIES
    QueueAdvances
    LockEventuallyReleased
    PostCallEnds
CHECK_DEADLOCK FALSE
