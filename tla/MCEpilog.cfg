SPECIFICATION FairSpec
CONSTANTS
    a = a
    b = b
    t1 = t1
    t2 = t2
    k = k
    Clients = {a, b}
    Threads = {t1, t2}
    Main = Main
    Classes = {k}
    CategoryOf <- MCCategoryOf
    QueueSize = 2
    WireSize = 1
    MaxSessions = 2
    MaxNested = 2
    Plans <- MCPlans
    NoConnection = NoConnection
    Session = Session
    ServerQueueSize = 1
    PayloadSize = 1
    Hide <- MCHide
    Show <- MCNone
    Level = 1
INVARIANTS
    ShownAsLogged
    QuitFlushes
    HiddenStaysHidden
PROPERTIES
    LogsAreHandled
CHECK_DEADLOCK FALSE
