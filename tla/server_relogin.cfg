\* Two logins in flight on one connection, against what LoginAsync's exception says.
CONSTANTS
    Conns = {c1}
    Tasks = {t1, t2}
    Creds = {u1, u2}
    NoCred = NoCred
    NoMsg = NoMsg
    DebugBuild = FALSE
SPECIFICATION Spec
PROPERTIES
    LoginRefusedOnceAuthenticated
CHECK_DEADLOCK FALSE
