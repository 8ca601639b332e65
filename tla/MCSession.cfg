CONSTANTS
    Names = {n1}
    Passwords = {p1, p2}
    Calls = {k1, k2}
    LoginMax = 1
    LoginWindow = 1
    RegisterMax = 1
    RegisterWindow = 2
    MaxTime = 2
    NULL = NULL
SPECIFICATION SessionSpec
SYMMETRY CallSymmetry
INVARIANTS
    SessionTypeOK
    EnrolledCanLogIn
    LimitHolds
    RefusalIsDue
PROPERTY OnlyAnswersStrand
