CONSTANTS
    Throttle = 1
    Stop = 2
    MaxMatches = 2
    NULL = NULL
    Expiry = 3
    MaxLine = 2
SPECIFICATION PeopleSafety
PROPERTIES
    EscapeCloses
