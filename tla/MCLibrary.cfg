SPECIFICATION LibrarySpec
CONSTANTS
    f1 = f1
    f2 = f2
    f3 = f3
    l1 = l1
    l2 = l2
    l3 = l3
    ring = ring
    r = r
    t1 = t1
    t2 = t2
    x1 = x1
    x2 = x2
    x3 = x3
    none = none
    Fibers <- MCFibers
    Home = Home
    Nobody = Nobody
    Tables <- MCTables
    RowIds <- MCRowIds
    NativeIds <- MCNativeIds
    Messages <- MCMessages
    Faults <- MCFaults
    MaxSequence = 2
    Links <- MCLinks
    RingHead = ring
    MaxConnections = 3
    MaxEmissions = 2
    MaxDepth = 2
    Threads <- MCThreads
    Requests <- MCRequests
    Buffers <- MCBuffers
    IndexWidth = 8
INVARIANTS
    ContextsAreLive OnlyTheDeadFault StatusIsTrue
    StoredIsFetched TablesAreKept EmissionsAreSafe StructuresAreKept
PROPERTY ImplementsCoroutines
CHECK_DEADLOCK FALSE
