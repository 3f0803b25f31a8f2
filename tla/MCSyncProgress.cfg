SPECIFICATION SyncSpec
CONSTANTS
    p1 = p1
    p2 = p2
    l1 = l1
    l2 = l2
    x = x
    NoPath = NoPath
    NoEntry = NoEntry
    NoFile = NoFile
    Path = {p1, p2}
    Local = {l1, l2}
    Locals <- OwnLocals
    Byte = {x}
    Zero = x
    Data <- MCData
    Meta <- MCMeta
    Offer <- MCOffer
    UpCap = 1
    MaxHashed = 1
    SaveMayTear = FALSE
    MaxTime = 1
    MaxNew = 2
    NetCap = 2
PROPERTIES
    ProgressKept
