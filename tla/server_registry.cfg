\* Two connections against Stop: registration, removal, unanswered calls, independence.
CONSTANTS
    Conns = {c1, c2}
    Tasks = {t1, t2}
    Creds = {u1}
    NoCred = NoCred
    NoMsg = NoMsg
    DebugBuild = TRUE
SPECIFICATION FairSpec
INVARIANTS
    ClosedExactlyOnce
    NoGhostClients
PROPERTIES
    EveryCallIsAnswered
    ConnectionsIndependent
\* The server may be stopped, every connection closed and every task used up.
CHECK_DEADLOCK FALSE
