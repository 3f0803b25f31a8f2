SPECIFICATION FairSpec
CONSTANTS
    big = big
    empty = empty
    Path = {big, empty}
    ChunkCount <- MCChunkCount
    Unknown = Unknown
    NoPath = NoPath
    Stored <- MCStored
    MaxFiles = 2
    MaxClicks = 3
    MaxPushes = 1
    Cap = 2
CHECK_DEADLOCK FALSE
INVARIANTS
    TypeOK
    GuiAgrees
    PanicNeedsCrossing
    ButtonsBack
PROPERTIES
    StartedShown
    ConnectedShown
    EndShown
