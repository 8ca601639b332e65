CONSTANTS
    Users = {1, 2}
    Rooms = {r1}
    NULL = NULL
    Ids = {m1}
    Runs = {h1}
    MaxFrames = 1
SPECIFICATION WsSafety
INVARIANT ResendStoresOnce
