SPECIFICATION Spec
CONSTANTS
    l1 = l1
    l2 = l2
    x = x
    y = y
    NoEntry = NoEntry
    NoJob = NoJob
    NoTask = NoTask
    Name <- MCName
    Local = {l1, l2}
    Changing = {}
    RawPath = {}
    Directory <- Root
    Selection <- Both
    Content <- OneContent
    Hash <- LongHash
    MaxIndex = 1
    ChunkSize = 2
    BufSize = 2
    Job = {"j1"}
    Task = {"t1"}
    EventCap = 1
    SaveMayTear = TRUE
INVARIANTS
    MetaTiles
    SentIsChunk
PROPERTIES
    PublishedUnlessDead
