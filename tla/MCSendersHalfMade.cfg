SPECIFICATION SenderSpec
CONSTANTS
    SenderKinds = {"append", "page", "disk", "file", "adls"}
    MaxCells = 2
    MaxTries = 2
    FlushThreshold = 1
INVARIANT HalfMadeIsRemoved
CHECK_DEADLOCK FALSE
