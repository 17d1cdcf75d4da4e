SPECIFICATION FrontEndSpec
CONSTANTS
    Names = {"n1", "n2"}
    Versions = {1, 2}
    Ways = {"upload", "other", "copy"}
    Deletions = {"true", "prompt"}
    PartSize = 1
    Changes = 1
    Workers = {"w1", "w2"}
    Transformers = {"x1", "x2"}
    Modes = {"walk", "blob", "file"}
    Root = "root"
    FilesIn <- MCFilesIn
    Subdirs <- MCSubdirs
    BadDirs = {"d1"}
    BadFiles = {"f2"}
    ChannelCap = 1
    Timeouts = 1
    Askers = {"f1", "dir1"}
    TypeOf <- MCTypeOf
    LinesCap = 2
    Records = {"r1", "r2", "r3"}
    Kinds = {"Full", "DeltaDelete"}
    ScanErrors = {"to 36 characters", "37 to 99 characters", "listing"}
    Recreations = 1
    LastPart = 1
    Transfers = {"t1", "t2"}
    PartOf <- MCPartOf
    Outcomes = {"success", "failed", "skipped"}
    MaxLives = 3
    Removals = TRUE
    Folders = {"top", "start", "sub"}
    Leaves = {"file", "other"}
    Links = {"link", "loop"}
    PathTo <- MCPathTo
    Nowhere = "nowhere"
    Start = "start"
    LinkTargets = {"top", "start", "sub", "file", "other", "nowhere"}
    Rejected = {{}, {"link"}, {"sub"}}
    FlagSets <- MCFlagSets
    Systems = {"linux", "windows"}
INVARIANT SingleFilesKeepTheirName
CHECK_DEADLOCK FALSE
