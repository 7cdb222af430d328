---------------------------- MODULE LoginProtocol -----------------------------
(***************************************************************************)
(* What client and server promise together: a client asks with one token at *)
(* a time, the server grants at most one token, and the client is in only   *)
(* with the token granted.  Either side may go away at any time.            *)
(***************************************************************************)
CONSTANTS Tokens, NoToken

VARIABLES
    phase,      \* the client's: "unverified", "verified", "asking", "in" or "out"
    asked,      \* the token of the login in flight
    granted     \* the token with which the server authenticated the client

protocolVars == <<phase, asked, granted>>

ProtocolInit == phase = "unverified" /\ asked = NoToken /\ granted = NoToken

Verify == phase = "unverified" /\ phase' = "verified" /\ UNCHANGED <<asked, granted>>

Ask(token) ==
    /\ phase = "verified" /\ granted = NoToken
    /\ phase' = "asking" /\ asked' = token
    /\ UNCHANGED granted

\* The server may be late: the client may be out already.
Grant ==
    /\ asked # NoToken /\ granted = NoToken
    /\ granted' = asked
    /\ UNCHANGED <<phase, asked>>

Enter ==
    /\ phase = "asking" /\ granted = asked
    /\ phase' = "in" /\ asked' = NoToken
    /\ UNCHANGED granted

Refuse ==
    /\ phase = "asking" /\ granted = NoToken
    /\ phase' = "verified" /\ asked' = NoToken
    /\ UNCHANGED granted

\* A client that is out may drop the answer to its request, too.
Leave ==
    /\ phase # "in"
    /\ phase' = "out" /\ asked' \in {asked, NoToken}
    /\ UNCHANGED granted

ProtocolNext == Verify \/ (\E token \in Tokens : Ask(token)) \/ Grant \/ Enter \/ Refuse \/ Leave

ProtocolSpec == ProtocolInit /\ [][ProtocolNext]_protocolVars
===============================================================================
