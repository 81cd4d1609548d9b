SPECIFICATION Spec
CONSTANTS
    d1 = d1
    d2 = d2
    short = short
    long = long
    c1 = c1
    c2 = c2
    NoBatch = NoBatch
    Docs <- TwoDocs
    Batches <- TwoBatches
    Clients <- TwoClients
    MaxChunks = 2
    ChunkCount <- Counts
    ScanHits <- Nested
    Serialise = "nothing"
    InitialLegacy <- Upgraded
SYMMETRY ClientSymmetry
INVARIANTS NoTornDocument StoreInv
PROPERTIES NoDocumentVanishes OthersUntouched
