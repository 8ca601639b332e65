CONSTANTS
    Users = {1, 2}
    Rooms = {r1}
    NULL = NULL
    Conns = {c1, c2, c3}
    Passwords = {p1, p2}
    Reqs = {q1}
    FailThreshold = 1
    MaxMembersArgs = {2}
    TicksPerSecond = 1
    MaxTime = 0
SPECIFICATION ChatSpec
SYMMETRY ChatSymmetry
INVARIANTS
    ChatTypeOK
    SubscribersAreMembers
    FramesTellTheTruth
