SPECIFICATION SynchronizationSpec
CONSTANTS
    w1 = w1
    w2 = w2
    Words <- MCWords
    MaxVersion <- MCMaxVersion
    NoVersion = NoVersion
    t1 = t1
    t2 = t2
    t3 = t3
    NoThread = NoThread
    Threads <- MCThreads
    WaiterSets <- MCWaiterSets
    Ops <- MCOps
    MaxSignal = 2
    MaxCount = 2
    JdThreads <- MCJdThreads
    Slow <- MCSlow
    Polling <- MCSlow
    SpawnFails = TRUE
    NoJdThread = NoJdThread
INVARIANTS
    NoTornRead NoLostWakeup NoThreadLeft TeardownGetsResult
PROPERTIES
    GroomsOnlyDead
    CallsReturn
    ImplementsLatestValue
    LastVersionReachesReader
    SleeperGetsPermit
