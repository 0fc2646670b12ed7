SPECIFICATION FairSpec
CONSTANTS
    c1 = c1
    c2 = c2
    w1 = w1
    w2 = w2
    b1 = b1
    b2 = b2
    b3 = b3
    Clients <- MCClients
    Stoppers <- MCStoppers
    Workers <- MCWorkers
    Batches <- MCBatches
    Global = Global
    None = None
    QueueSize = 2
    MaxTasks = 2
    MaxStops = 1
    MaxBlocking = 1
INVARIANTS FinishedIsQuiet PoolIsWhole
PROPERTIES FinishReturns StopEnds
CHECK_DEADLOCK FALSE
