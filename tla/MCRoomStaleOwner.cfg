CONSTANTS
    Users = {1, 2}
    Rooms = {r1}
    NULL = NULL
    Passwords = {p1, p2}
    Reqs = {q1}
    FailThreshold = 2
    MaxMembersArgs = {2}
    TicksPerSecond = 1
    MaxTime = 0
SPECIFICATION RoomSpec
SYMMETRY SlotSymmetry
PROPERTIES
    OnlyOwnerSetsPassword
