SPECIFICATION MCSpec
CONSTANTS
    c1 = c1
    c2 = c2
    n1 = n1
    n2 = n2
    Calls = {1, 2, 3}
    Clients = {c1, c2}
    NoInsights = FALSE
    Phones = {n1, n2}
    MaxTexts = 3
    None = None
    Items = {1, 2}
    Contacts = {c1}
    Quiet = {2}
    MaxNow = 3
    Ahead = 1
    Behind = 1
    MissedAfter = 2
    Snooze = 1
    ReminderLead = 1
    TaskLead = 2
    MaxRemote = 2
    MaxHandlers = 2
    MaxEdits = 2
    Unset = Unset
    Agents = {1, 2, 3}
    Seats = {i1, i2}
    SeatSubs = {s1, s2}
    Makers = {m1, m2}
    Buyers = {b1, b2}
    Erasers = {e1, e2}
    SeatCap = 1
    Logs = {1, 2}
    AgentLogs = {2}
    LogDays = 2
    UrlDays = 1
    AwayDays = 1
    MaxAsked = 3
    MaxDays = 4
    Nobody = Nobody
    People = {p1, p2}
    AgentsOf = {p2}
    AwayFor = 1
    UnsubscribedFor = 2
    CancelledFor = 1
    TrialDays = 3
    Advance = 1
    CardFrom = 2
    CardUntil = 5
    Remembered25 = 2
    LastDay = 5
    MaxChanges = 3
    Unknown = Unknown
    a1 = a1
    Members = {a1, a2}
    Deals = {d1}
    Sources = {l1}
    Untagged = Untagged
    Floor = 1
    Weekend = {5, 6}
    Weekday0 = 4
    Window = 2
    LastShown = 3
    MaxActs = 3
INVARIANTS
    RecordingOfContact
    ScreensWhole
    AgendaAgrees
    SeatsCovered
    NudgedOnce
PROPERTIES
    MachineKept
CHECK_DEADLOCK FALSE
