SPECIFICATION TransferSpec
CONSTANTS
    l1 = l1
    x = x
    y = y
    NoPath = NoPath
    NoEntry = NoEntry
    NoFile = NoFile
    NoJob = NoJob
    NoTask = NoTask
    Path <- MCPath
    Local = {l1}
    Locals <- AnyLocals
    Byte = {x, y}
    Zero = y
    Data <- MCData
    Meta <- MCMeta
    UpCap = 2
    MaxHashed = 8
    SaveMayTear = FALSE
    Original <- MCOriginal
    Listed <- MCListed
    Task = {"t1", "t2"}
    ChunkSize = 1
    BufSize = 2
    MaxIndex = 1
    EventCap = 1
    NetCap = 2
    MaxClicks = 3
    MaxLost = 2
PROPERTIES
    ResumeCompletes
