SPECIFICATION FairSpec
CONSTANTS
    d1 = d1
    d2 = d2
    short = short
    long = long
    other = other
    m1 = m1
    m2 = m2
    c1 = c1
    c2 = c2
    NoBatch = NoBatch
    NoModel = NoModel
    Docs <- TwoDocs
    Batches <- TwoBatches
    Clients = {c1, c2}
    p1 = p1
    Processes = {p1}
    ProcessOf <- OneProcess
    ChunkCount <- Counts
    Models <- TwoModels
    ModelOf <- Embedded
    DimOf <- TwoDims
    SharedHash = TRUE
    ProbeErrs = TRUE
    Failable <- Anywhere
INVARIANTS AnswersHold
PROPERTY EveryRequestEnds
