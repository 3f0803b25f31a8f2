SPECIFICATION FairSpec
CONSTANTS
    l1 = l1
    l2 = l2
    x = x
    y = y
    NoEntry = NoEntry
    NoJob = NoJob
    NoTask = NoTask
    Name <- MCName
    Local = {l1}
    Changing = {l1}
    RawPath <- OnePath
    Directory = {}
    Selection = {}
    Content <- MCContent
    Hash <- OneHash
    MaxIndex = 1
    ChunkSize = 2
    BufSize = 1
    Job = {"j1"}
    Task = {"t1"}
    EventCap = 1
    SaveMayTear = FALSE
INVARIANTS
    TypeOK
    MetaTiles
PROPERTIES
    TransferEnds
    UploadEnds
