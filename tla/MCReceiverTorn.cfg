SPECIFICATION Spec
CONSTANTS
    p1 = p1
    l1 = l1
    l2 = l2
    x = x
    y = y
    NoPath = NoPath
    NoEntry = NoEntry
    NoFile = NoFile
    Path = {p1}
    Local = {l1, l2}
    Locals <- AnyLocals
    Byte = {x, y}
    Zero = y
    Data <- MCData
    Meta <- MCMeta
    UpCap = 1
    MaxHashed = 3
    SaveMayTear = TRUE
INVARIANTS
    ResumePossible
