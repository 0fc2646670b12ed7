SPECIFICATION Spec
CONSTANTS
    p1 = p1
    p2 = p2
    c1 = c1
    c2 = c2
    none = none
    Producers <- TwoProducers
    Consumers <- OneConsumer
    ProducerOps <- AnyPush
    ConsumerOps <- Pops
    QueueSize = 2
    MaxTicket = 6
    SpuriousWakeups = FALSE
    StaleFront <- NoStaleFront
    NoThread = none
INVARIANTS
    NothingTwice
    NoTicketLost
CHECK_DEADLOCK FALSE
