SPECIFICATION Spec
CONSTANTS
    d1 = d1
    d2 = d2
    short = short
    long = long
    c1 = c1
    c2 = c2
    NoBatch = NoBatch
    Docs <- TwoDocs
    Batches <- TwoBatches
    Clients <- TwoClients
    MaxChunks = 3
    ChunkCount <- Counts
    ScanHits <- Plain
    Serialise = "per_document"
    InitialLegacy <- Fresh
PROPERTY ImplementsKnowledgeBase
