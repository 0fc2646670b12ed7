SPECIFICATION Spec
CONSTANTS
    p1 = p1
    p2 = p2
    c1 = c1
    c2 = c2
    none = none
    Producers <- OneProducer
    Consumers <- OneConsumer
    ProducerOps <- UntimedPush
    ConsumerOps <- RawReads
    QueueSize = 2
    MaxTicket = 4
    SpuriousWakeups = FALSE
    StaleFront <- NoStaleFront
    NoThread = none
INVARIANT
    SleeperHasNoSpace
CHECK_DEADLOCK FALSE
