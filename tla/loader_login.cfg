\* One client against one server in a release build: the version check and two logins.
CONSTANTS
    Tokens = {u1, u2}
    NoToken = NoToken
    NoCred = NoCred
    NoMsg = NoMsg
    DebugBuild = FALSE
    MaxRequests = 3
SPECIFICATION Spec
SYMMETRY MCSymmetry
INVARIANTS
    TypeOK
    ServerAgrees
    NoRaceOnServer
    RequestsConserved
    NothingLate
PROPERTIES
    RunsProtocol
\* Both programs may end.
CHECK_DEADLOCK FALSE
