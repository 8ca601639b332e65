CONSTANTS
    Users = {1, 2, 3}
    Rooms = {r1}
    NULL = NULL
    Passwords = {p1, p2}
    Reqs = {q1, q2}
    FailThreshold = 2
    MaxMembersArgs = {0, 2}
    TicksPerSecond = 2
    MaxTime = 1
SPECIFICATION RoomSpec
SYMMETRY SlotSymmetry
INVARIANTS
    RoomTypeOK
    OwnerSeated
    WithinCapacity
    GuessBound
PROPERTIES
    SeniorityKept
    DeletionIsFinal
    BanIsFinal
