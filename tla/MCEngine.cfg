SPECIFICATION EngineSpec
CONSTANTS
    InitialPool = 1
    MaxPool = 5
    Benchmarking = TRUE
    CallbackCap = 1
    MaxSubscribers = 1
    MaxChunks = 2
    MaxSlowTune = 1
    Patience = TRUE
    WindowSize = 2
    WindowCap = 5
    DurationsCap = 2
    MaxSamples = 8
    TreeFiles <- MCFiles
    TreeFolders <- MCFolders
    ParentOf <- MCParent
    Root = "/"
    Order <- MCOrder
    IsFolder <- MCIsFolder
    PathOf <- MCPath
    PartOf <- MCPart
    IndexOf <- MCIndex
    Overwrite = "false"
    MaxCrashes = 1
    Files = {"a", "b"}
    NumChunks <- MCNumChunks
    RamLimit = 2
    FewChunks = 0
    TempPath = TRUE
    MaxInt = 3
    Lengths = {0, 3, 4}
    Checked = {"Source", "Destination", "Metadata"}
    Properties <- MCProperties
    NumTransfers = 2
    SenderKinds = {"append", "page", "disk", "file", "adls"}
    MaxCells = 2
    MaxTries = 2
    FlushThreshold = 1
    Askers = {"copy", "body"}
    Bytes <- MCBytes
    Buffered = {"body"}
    Cap = 1
    NewCaps <- MCNewCaps
    Expected = 0
INVARIANTS
    PoolIsCounted
    
    DownloadedWhole
    ReadBack
    AllOrNothing
PROPERTIES
    PoolDoesServe
    EmptyFoldersDoGo
    CreationsAreHonoured
    TransfersDoEnd
    PacedRequestsDoEnd
CHECK_DEADLOCK FALSE
