SPECIFICATION ReaderSpec
CONSTANTS
    p1 = p1
    p2 = p2
    c1 = c1
    none = none
    Producers <- TwoProducers
    Consumers <- OneConsumer
    ProducerOps <- UntimedPush
    ConsumerOps <- UntimedReads
    QueueSize = 2
    MaxTicket = 5
    SpuriousWakeups = TRUE
    StaleFront <- NoStaleFront
    NoThread = none
INVARIANTS
    WriterOwnsSlot
PROPERTIES
    ImplementsBoundedFifo
    CommittedIsDelivered
CHECK_DEADLOCK FALSE
