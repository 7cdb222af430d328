\* One user token, the server in a debug build, the version check and two logins.
CONSTANTS
    Tokens = {u1}
    NoToken = NoToken
    NoCred = NoCred
    NoMsg = NoMsg
    DebugBuild = TRUE
    MaxRequests = 3
SPECIFICATION Spec
INVARIANTS
    AlwaysUnderstood
PROPERTIES
    LoginHasOutcome
\* Both programs may end.
CHECK_DEADLOCK FALSE
