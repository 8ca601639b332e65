CONSTANTS
    Users = {1, 2}
    Rooms = {r1}
    NULL = NULL
    Conns = {c1, c2}
SPECIFICATION PresenceSpec
PROPERTIES
    GoneIsAnnounced
