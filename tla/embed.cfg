SPECIFICATION FairSpec
CHECK_DEADLOCK FALSE
CONSTANTS
    c1 = c1
    c2 = c2
    Calls <- TwoCalls
    Inputs <- FewInputs
    BatchSize = 2
    Concurrency = 2
    UseBatch = TRUE
INVARIANTS PermitsAddUp NotFoundsBounded VectorsAligned Placed
PROPERTY EveryCallEnds
