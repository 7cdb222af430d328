\* One connection, three overlapping messages: the interleavings of handlers.
CONSTANTS
    Conns = {c1}
    Tasks = {t1, t2, t3}
    Creds = {u1, u2}
    NoCred = NoCred
    NoMsg = NoMsg
    DebugBuild = FALSE
SPECIFICATION Spec
SYMMETRY MCSymmetry
INVARIANTS
    TypeOK
    OneIdentity
    ToldOnlyWhenComplete
PROPERTIES
    SilentOnceTold
\* The server may be stopped, every connection closed and every task used up.
CHECK_DEADLOCK FALSE
