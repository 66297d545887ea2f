SPECIFICATION FairSpec
CONSTANTS
    l1 = l1  l2 = l2  l3 = l3  c1 = c1  c2 = c2
    s1 = s1  s2 = s2  s3 = s3
    None = None
    Leads = {l1}
    Contacts = {c1}
    ContactOf <- OnePerson
    Rank <- Descending
    Sids = {s1, s2}
    Pacing = 2
    MaxAttempts = 2
    AmdModes = {TRUE}
    Hazards = {"placeFail", "frozen", "restFail", "lateProgress", "slowDb", "slowCreate", "purge", "dbFail", "lateVoice"}
    MaxSessions = 1
    MaxDials = 3
INVARIANTS
    OnePlacePerCard
    InFlightBacked
PROPERTIES
    CallsForgotten
CHECK_DEADLOCK FALSE
