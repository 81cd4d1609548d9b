SPECIFICATION Spec
CONSTANTS
    d1 = d1
    d2 = d2
    short = short
    long = long
    other = other
    m1 = m1
    m2 = m2
    c1 = c1
    c2 = c2
    NoBatch = NoBatch
    NoModel = NoModel
    Docs <- TwoDocs
    Batches <- ThreeBatches
    Clients = {c1, c2}
    p1 = p1
    Processes = {p1}
    ProcessOf <- OneProcess
    ChunkCount <- Counts
    Models <- TwoModels
    ModelOf <- Embedded
    DimOf <- TwoDims
    SharedHash = FALSE
    ProbeErrs = TRUE
    Failable <- OutsideMetaSwap
INVARIANTS AnswersHold OneUpload MetaDescribesKb IngestInv
SYMMETRY Alike
