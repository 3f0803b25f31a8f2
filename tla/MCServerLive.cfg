SPECIFICATION FairSpec
CONSTANTS
    a1 = a1
    a2 = a2
    a3 = a3
    f1 = f1
    p1 = p1
    c1 = c1
    b1 = b1
    NoMeta = NoMeta
    Addr = {a1, a2}
    Path = {p1}
    File = {f1}
    Chunk = {c1}
    Block = {b1}
    MessageCap = 1
    OutgoingCap = 2
    MaxTime = 1
    SaveMayFail = TRUE
    Key = {"receiver_token", "sender_token"}
    PeerSends = {"Login", "PublishMeta", "RequestMeta", "RemoveMeta", "Error"}
INVARIANTS
    LoginFirst
PROPERTIES
    RoleFreed
    LoginAnswered
