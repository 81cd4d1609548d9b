SPECIFICATION RagSpec
CONSTANTS
    d1 = d1
    d2 = d2
    old = old
    new = new
    other = other
    m1 = m1
    m2 = m2
    c1 = c1
    p1 = p1
    r1 = r1
    NoBatch = NoBatch
    NoModel = NoModel
    Docs <- TwoDocs
    Batches <- TwoBatches
    Clients = {c1}
    Processes = {p1}
    ProcessOf <- OneProcess
    ChunkCount <- OneChunk
    Models <- TwoModels
    ModelOf <- Embedded
    DimOf <- SameDim
    SharedHash = FALSE
    ProbeErrs = TRUE
    Failable <- BetweenStores
    K = 60
    LexicalWeight = 4
    VectorWeight = 6
    TopK = 1
    RerankTopN = 20
    Askers = {r1}
    RagModel = m1
    Hybrid = TRUE
SYMMETRY Alike
INVARIANTS PromisedIsFound VectorHitsSurvive GuardProtects ReadInv
PROPERTY LexicalIndexLives
