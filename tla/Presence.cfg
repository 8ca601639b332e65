CONSTANTS
    Users = {1, 2}
    Rooms = {r1}
    NULL = NULL
    Conns = {c1, c2, c3}
SPECIFICATION PresenceSpec
INVARIANTS
    PresenceTypeOK
    HubConsistent
    TimerOnlyWhenAway
    HereIsShown
PROPERTIES
    LeaverIsShownOffline
    GoneIsForgotten
