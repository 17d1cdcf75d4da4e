SPECIFICATION EndsSpec
CONSTANTS
    a = a
    b = b
    x1 = x1
    x2 = x2
    blob1 = blob1
    blob2 = blob2
    LastPart = 1
    Transfers <- MCTransfers
    PartOf <- MCPartOf
    Outcomes = {"Success", "Failed"}
    DesiredStatuses = {"Cancelling", "Paused"}
    MaxCancels = 2
    PartsChannelSize = 1
    TransferChannelSize = 1
    XferDoneSize = 1
    PartCreatedSize = 1
    NoBlob = NoBlob
    OldBlob = OldBlob
    OldPut = OldPut
    Xfers <- MCXfers
    NumChunks <- MCTwoAndOne
    Empty = {x2}
    BlocksAnyway = {}
    Dests = {blob1, blob2}
    DestOf <- MCOwnDest
    Workers = 1
    ChunkChSize = 1
    RamLimit = 3
INVARIANT LastSummaryCovers
PROPERTIES
    JobDoesEnd
    CancelDoesWindDown
    ProgressDoesEnd
    TransfersReachTheirEnd
