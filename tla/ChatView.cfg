CONSTANTS
    Users = {}
    Rooms = {r1, r2}
    NULL = NULL
    Old = 2
    PageSize = 1
    MaxMessages = 4
    MaxVisits = 2
SPECIFICATION ViewSpec
INVARIANTS
    ViewTypeOK
    ShownInOrder
    NothingElseIsMissing
    LoadingIsAwaited
