SPECIFICATION MCSpec
CONSTANTS
    c1 = c1
    c2 = c2
    c3 = c3
    l1 = l1
    l2 = l2
    f1 = f1
    g1 = g1
    n1 = n1
    n2 = n2
    s1 = s1
    Parts = {"places", "filing", "backups", "calls", "funnel", "leads"}
    Contacts = {c1, c2, c3}
    Lists = {l1, l2}
    Folders = {f1}
    Groups = {g1}
    Dnc = Dnc
    Trash = Trash
    Numbers = {n1, n2}
    Listings = {m1, m2}
    Stages = {s1}
    Workers = {w1, w2}
    MaxBackups = 4
    MaxEvents = 4
    MaxGci = 1
    MaxDay = 1
    MaxRequests = 3
    None = None
INVARIANTS
    NothingLost
    OneContactPerListing
PROPERTIES
    FunnelKept
CHECK_DEADLOCK FALSE
