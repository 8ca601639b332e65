CONSTANTS
    Users = {1}
    Rooms = {r1}
    NULL = NULL
    Ids = {m1}
    Runs = {h1, h2}
    MaxFrames = 1
SPECIFICATION WsSpec
INVARIANTS
    WsTypeOK
PROPERTIES
    PostsReliably
    SendIsStored
    ShownIsSubscribed
