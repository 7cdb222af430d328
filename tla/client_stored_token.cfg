\* The user edits the token while the login is in flight.
CONSTANTS
    Tokens = {u1, u2}
    NoToken = NoToken
SPECIFICATION Spec
INVARIANTS
    StoresTheCredentials
CHECK_DEADLOCK FALSE
