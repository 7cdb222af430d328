\* A client with two tokens to choose from and a server that may do anything.
CONSTANTS
    Tokens = {u1, u2}
    NoToken = NoToken
SPECIFICATION Spec
INVARIANTS
    TypeOK
    OneRequestAtATime
    LoginAfterVersion
    LossIsNotForgotten
PROPERTIES
    FatalBoxEndsClient
    ServerLossEndsClient
\* The process may end.
CHECK_DEADLOCK FALSE
