CONSTANTS
    Users = {1, 2}
    Rooms = {r1}
    NULL = NULL
    Conns = {c1}
    Passwords = {p1}
    Reqs = {q1}
    FailThreshold = 1
    MaxMembersArgs = {2}
    TicksPerSecond = 1
    MaxTime = 0
SPECIFICATION ChatSpec
SYMMETRY ChatSymmetry
INVARIANTS
    NoAudienceInDeletedRoom
