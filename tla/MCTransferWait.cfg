SPECIFICATION FairFreshSpec
CONSTANTS
    a = a
    b = b
    blob1 = blob1
    blob2 = blob2
    NoBlob = NoBlob
    OldBlob = OldBlob
    OldPut = OldPut
    Empty = {}
    BlocksAnyway = {}
    Xfers <- MCTransfers
    NumChunks <- MCTwoAndOne
    Dests = {blob1, blob2}
    DestOf <- MCOwnDest
    Workers = 1
    ChunkChSize = 1
    RamLimit = 1
PROPERTY TransfersEnd
