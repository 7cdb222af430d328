------------------------------ MODULE ServerViews ------------------------------
(***************************************************************************)
(* The server as one connection sees it.  ServerCore keeps one registry and *)
(* one pool of handlers for all connections; View(c) is the same server     *)
(* with c as its only connection.  What it shows of the registry is the     *)
(* entry of c, and of the handlers those that work on a message of c; the   *)
(* others have not started there.  Stop is the only thing shared.           *)
(***************************************************************************)
EXTENDS ServerCore

\* Handler t works, or has worked, on a message of connection c.
Serves(t, c) == msg[t] # NoMsg /\ msg[t].conn = c

\* A per-task function as connection c sees it.
SeenBy(c, f, unstarted) == [t \in Tasks |-> IF Serves(t, c) THEN f[t] ELSE unstarted]

View(c) == INSTANCE ServerCore WITH
    Conns      <- {c},
    socket     <- [d \in {c} |-> socket[d]],
    clients    <- clients \intersect {c},
    closes     <- [d \in {c} |-> closes[d]],
    stage      <- [d \in {c} |-> stage[d]],
    identity   <- [d \in {c} |-> identity[d]],
    pc         <- SeenBy(c, pc, "idle"),
    msg        <- SeenBy(c, msg, NoMsg),
    result     <- SeenBy(c, result, "failure"),
    written    <- SeenBy(c, written, 0),
    replies    <- [d \in {c} |-> replies[d]],
    toVisit    <- toVisit \intersect {c},
    overlapped <- overlapped \intersect {c}

\* Connections do not interfere: to each of them, whatever the others send,
\* lose or are told, and whenever Stop comes, the server behaves like one that
\* serves this connection alone.  Nothing that ServerCore or ClientUser keeps
\* for one client is reached from a handler of another (WebSocket.cs, _clients).
ConnectionsIndependent ==
    /\ \A c \in Conns : View(c)!Init
    /\ [][\A c \in Conns : [View(c)!Next]_(View(c)!vars)]_vars
===============================================================================
