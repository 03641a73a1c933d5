SPECIFICATION FairSpec
CONSTANTS
    Budgets <- Scenarios
    Epochs <- TwoEpochs
    Ring = 5
    InlineCap = 1
    QueueCapacity = 2
    MaxBatch = 2
    SpoolCapacity = 2
CHECK_DEADLOCK FALSE
INVARIANTS
    TypeOK
    EventsInOrder
    NothingLostSilently
    ProvenHasBytes
    MirrorAgrees
    ViewerMissesNothing
PROPERTIES
    NamedIsNotStranded
    EverythingIsSent
