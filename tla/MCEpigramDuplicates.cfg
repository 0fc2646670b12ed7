SPECIFICATION Spec
CONSTANTS
    a = a
    b = b
    m1 = m1
    m2 = m2
    h1 = h1
    none = none
    Epigrams <- MCEpigrams
    HeapBlocks <- MCHeapBlocks
    StackSize <- MCStackSize
    Base = 2
    Keys <- MCKeys
    NoKey <- MCNoKey
    Values <- MCValues
    IntegerTypes <- MCIntegerTypes
    StringType = 3
    ArrayFlag = 32
    Handles <- MCHandles
    NoHandle = none
    MaxBytes <- MCMaxBytes
    Indexed = {a}
    MaxSequence <- MCMaxSequence
SYMMETRY Symmetry
INVARIANT FirstIsFound
CHECK_DEADLOCK FALSE
