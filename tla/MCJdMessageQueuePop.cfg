SPECIFICATION FairSpec
CONSTANTS
    p1 = p1
    p2 = p2
    c1 = c1
    c2 = c2
    none = none
    Producers <- TwoProducers
    Consumers <- TwoConsumers
    ProducerOps <- UntimedPush
    ConsumerOps <- Pops
    QueueSize = 2
    MaxTicket = 4
    SpuriousWakeups = TRUE
    StaleFront <- NoStaleFront
    NoThread = none
INVARIANTS
    DeliveredInOrder
    CountIsExact
    WaiterIsSignalled
CHECK_DEADLOCK FALSE
