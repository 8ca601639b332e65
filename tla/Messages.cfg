CONSTANTS
    Users = {1}
    Rooms = {r1, r2}
    NULL = NULL
    Keys = {k1}
    EmptyKey = empty
    Readers = {1}
    Limits = {1, 2}
    MaxMessages = 3
SPECIFICATION MessageSpec
INVARIANTS
    MessageTypeOK
    KeyNamesOneMessage
    AnnouncedOnceInOrder
    PagesHaveNoGaps
PROPERTIES
    ReadingEnds
