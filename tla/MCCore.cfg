SPECIFICATION CoreSpec
CONSTANTS
    a = a
    b = b
    c = c
    x1 = x1
    x2 = x2
    blob1 = blob1
    LastPart = 1
    Transfers <- MCTransfers
    PartOf <- MCPartOf
    Outcomes = {"Failed", "Skipped"}
    DesiredStatuses = {"Cancelling", "Paused"}
    MaxCancels = 2
    PartsChannelSize = 1
    TransferChannelSize = 1
    XferDoneSize = 1
    NoBlob = NoBlob
    OldBlob = OldBlob
    OldPut = OldPut
    Empty = {}
    BlocksAnyway = {x2}
    Xfers <- MCXfers
    NumChunks <- MCTwoAndOne
    Dests = {blob1}
    DestOf <- MCSameDest
    Workers = 2
    ChunkChSize = 1
    RamLimit = 3
SYMMETRY SameInPart
INVARIANTS
    IndInv
    CompletionCoversJob
    StatusIsBacked
    DrainedWhenDone
    TransferIndInv
    ReportedOnceAtTheEnd
    OutcomesAreTrue
PROPERTIES
    ImplementsJobCompletion
    BlockListsSurvive
    BlocksUndisturbed
