----------------------------- MODULE LoaderSystem -----------------------------
(***************************************************************************)
(* The client program and the server joined by one websocket: ServerCore    *)
(* and LoginClient over their own variables, the requests under way between *)
(* them, and the loss of the connection or of the server process.           *)
(*                                                                          *)
(* TCP delivers in order or the connection breaks, which each end notices   *)
(* by itself.  A peer that vanishes without its kernel closing the socket   *)
(* is beyond this model: neither program sends pings.                       *)
(***************************************************************************)
EXTENDS Naturals, Sequences, FiniteSets

CONSTANTS
    Tokens, NoToken,    \* see LoginClient
    NoCred, NoMsg, DebugBuild,  \* see ServerCore
    MaxRequests         \* bounds the requests of the client

ASSUME MaxRequestsAssumption == MaxRequests \in Nat \ {0}

VARIABLES queue, target, active, live, mailbox, lost, halted,
          net, requests, ui, boxes, loggedIn, button, edit, stored, accepted, versionOK

VARIABLES socket, clients, closes, stage, identity, pc, msg, result, written,
          replies, server, toVisit, overlapped

VARIABLES
    uplink,     \* requests sent that the server has not received
    read,       \* how many of the server's replies the client has received
    up          \* the server process runs

Conn == "conn"
Tasks == 1..MaxRequests

Client == INSTANCE LoginClient
Server == INSTANCE ServerCore WITH Conns <- {Conn}, Creds <- Tokens \union {NoToken}
INSTANCE Wire

ASSUME ServerAssumptions ==
    /\ NoCred \notin Tokens \union {NoToken}
    /\ NoMsg \notin Server!Messages
    /\ DebugBuild \in BOOLEAN

clientVars == <<queue, target, active, live, mailbox, lost, halted, net, requests, ui, boxes,
                loggedIn, button, edit, stored, accepted, versionOK>>
serverVars == <<socket, clients, closes, stage, identity, pc, msg, result, written,
                replies, server, toVisit, overlapped>>
linkVars == <<uplink, read>>
vars == <<clientVars, serverVars, linkVars, up>>

Init ==
    /\ Client!Init
    /\ Server!Init
    /\ uplink = <<>>
    /\ read = 0
    /\ up = TRUE

-------------------------------------------------------------------------------
(* The connection.                                                          *)

\* Fleck registers the connection as soon as it has answered the handshake.
Accept ==
    /\ up /\ net = "connecting"
    /\ Server!OnOpen(Conn)
    /\ UNCHANGED <<clientVars, linkVars, up>>

Connected ==
    /\ Client!Running /\ socket[Conn] # "idle"
    /\ Client!OnConnect
    /\ UNCHANGED <<serverVars, linkVars, up>>

\* The client fails to connect or loses its connection.
ClientLoses ==
    /\ Client!Running
    /\ Client!OnFail \/ Client!OnClose
    /\ UNCHANGED <<serverVars, linkVars, up>>

ServerLoses ==
    /\ up
    /\ Server!OnError(Conn) \/ Server!OnClose(Conn)
    /\ UNCHANGED <<clientVars, linkVars, up>>

\* A crash, or Main's return after Stop.
ServerEnds ==
    /\ up /\ up' = FALSE
    /\ UNCHANGED <<clientVars, serverVars, linkVars>>

-------------------------------------------------------------------------------
(* The programs.                                                            *)

Unused == {t \in Tasks : pc[t] = "idle"}

\* What a step of the client adds to its requests goes onto the wire.
Transmit ==
    /\ IF requests' \subseteq requests
       THEN UNCHANGED uplink
       ELSE /\ Len(uplink) < Cardinality(Unused)
            /\ \E r \in requests' \ requests : uplink' = Append(uplink, r)
    /\ UNCHANGED <<serverVars, read, up>>

ClientDispatches == Client!OnClientEvent /\ Transmit
ClientDialogs == Client!Dialogs /\ Transmit
ClientPosts == Client!Posting /\ Transmit
ClientUsed == (Client!User \/ Client!NotifierDies) /\ Transmit

\* The kind is what the server makes of the request.
Receive ==
    /\ up /\ uplink # <<>>
    /\ \E t \in Unused :
        /\ \A u \in Unused : t <= u
        /\ Server!OnMessage(t, [conn |-> Conn, kind |-> RequestKind(Head(uplink).id),
                                cred |-> Head(uplink).token])
    /\ uplink' = Tail(uplink)
    /\ UNCHANGED <<clientVars, read, up>>

ServerHandles ==
    /\ up
    /\ \E t \in Tasks : Server!HandlerStep(t)
    /\ UNCHANGED <<clientVars, linkVars, up>>

ServerStops ==
    /\ up
    /\ Server!Stop
    /\ UNCHANGED <<clientVars, linkVars, up>>

\* A reply answers the request of its kind that is in flight, unless the client
\* has no handler for its id.
Deliver ==
    /\ Client!Running /\ net = "open"
    /\ read < Len(replies[Conn])
    /\ LET reply == replies[Conn][read + 1] IN
       \E event \in ReplyEvents(reply) :
          IF event = NoEvent THEN UNCHANGED clientVars
          ELSE \E request \in requests :
                  request.id = reply.kind /\ Client!OnReply(request, event)
    /\ read' = read + 1
    /\ UNCHANGED <<serverVars, uplink, up>>

-------------------------------------------------------------------------------
Next ==
    \/ Accept \/ Connected \/ ClientLoses \/ ServerLoses \/ ServerEnds
    \/ ClientDispatches \/ ClientDialogs \/ ClientPosts \/ ClientUsed
    \/ Receive \/ ServerHandles \/ ServerStops \/ Deliver

ServerGone == ~up \/ socket[Conn] \in {"failed", "closed"}

\* Both programs' own fairness; the network delivers or lets the client know;
\* the enumeration in Stop ends, and the process with it.
Fairness ==
    /\ WF_vars(~halted /\ ClientPosts)
    /\ WF_vars(ClientDispatches)
    /\ WF_vars(ClientDialogs)
    /\ WF_vars(Receive)
    /\ WF_vars(Deliver)
    /\ WF_vars(ServerHandles)
    /\ WF_vars(server = "stopping" /\ ServerStops)
    /\ WF_vars(server = "stopped" /\ ServerEnds)
    /\ WF_vars(ServerGone /\ ClientLoses)

Spec == Init /\ [][Next]_vars /\ Fairness

-------------------------------------------------------------------------------
TypeOK ==
    /\ Client!TypeOK /\ Server!TypeOK
    /\ uplink \in Seq(Client!Requests)
    /\ read \in 0..Len(replies[Conn])
    /\ up \in BOOLEAN

\* The client is logged in only if the server authenticated its connection and
\* every identity field there is from the login the client was told of, although
\* the server sets them one by one and the dialogs learn of it three threads later
\* (ClientUser.cs, LoginAsync; LoginDlg.cpp, OnLoginSuccess).
ServerAgrees ==
    loggedIn => /\ stage[Conn] = "Authenticated"
                /\ \A f \in Server!Fields : identity[Conn][f] = accepted

\* The server's unguarded window between check and authentication is never met
\* by this client: no two of its logins are in flight on the server at once, nor
\* does it send what the server drops unread (ClientUser.cs, LoginAsync).
NoRaceOnServer == overlapped = {} /\ \A t \in Tasks : pc[t] # "dropped" \/ Conn \notin clients

\* What is on its way: on the wire, with a handler of the server, or in replies
\* that the client has not received.
Handling == {t \in Tasks : pc[t] \in {"calling", "storing", "sending"}}
UnderWay == Len(uplink) + Cardinality(Handling) + (Len(replies[Conn]) - read)

\* Nothing between the programs makes a request vanish, answers one twice or
\* answers what was not asked: what is on its way is as much as the client waits
\* for, and less only after the server removed the client (WebSocket.cs,
\* ProcessMessageAsync and the handlers; WebSocketClient.cpp, OnMessage).
RequestsConserved ==
    /\ UnderWay <= Cardinality(requests)
    /\ Conn \in clients => UnderWay = Cardinality(requests)

\* Once the server authenticated the client, nothing else of it is between the two:
\* no request on the wire, and neither a handler past its check nor an unread
\* answer but of a login.  So the version request that passed its check before the login
\* and is answered after it, which the server allows, is not one of this client
\* (ClientUser.cs, VerifyVersionAsync; LoginDlg.cpp, OnOK and OnVersionSuccess).
NothingLate ==
    stage[Conn] = "Authenticated" =>
        /\ uplink = <<>>
        /\ \A t \in Handling : msg[t].kind = "login"
        /\ \A i \in read + 1..Len(replies[Conn]) : replies[Conn][i].kind = "login"

\* Whatever the API answers, and in both builds of the server, the client can
\* read what the server sends, from the envelope through the response to the body
\* inside it: it never ends with "Failed to parse message" (Message.cs and
\* ClientUser.cs against MessageHandlers.hpp and WebSocketClient.cpp, OnMessage).
AlwaysUnderstood ==
    \A e \in queue \union lost \union UNION {{mailbox[w][i] : i \in DOMAIN mailbox[w]} :
                                                w \in DOMAIN mailbox} :
        e.type # "ParseMessageError"

\* There is no timeout for a reply, yet a login never leaves the user with a
\* disabled button for good: it is answered, the client notices that the server
\* is gone, or a box asks for the user (WebSocketClient.cpp, SendMessageAsync).
LoginHasOutcome ==
    (\E r \in requests : r.id = "login")
        ~> (button \/ loggedIn \/ ui = "ended" \/ Client!WaitsForUser \/ halted)

-------------------------------------------------------------------------------
(* Client and server together implement LoginProtocol.                      *)

\* The login in flight: requested and not answered, or answered and not handled.
LoginTokens ==
    {r.token : r \in {q \in requests : q.id = "login"}}
        \union {e.token : e \in {d \in Client!Unhandled : d.type \in {"LoginSuccess", "LoginFailed"}}}

Phase ==
    CASE loggedIn -> "in"
      [] ~loggedIn /\ ui \in {"closing", "closed", "ended"} -> "out"
      [] ~loggedIn /\ ui \in {"start", "login"} ->
            IF LoginTokens # {} THEN "asking" ELSE IF versionOK THEN "verified" ELSE "unverified"

Asked == IF LoginTokens = {} \/ loggedIn THEN NoToken ELSE CHOOSE token \in LoginTokens : TRUE

Granted == LET last == identity[Conn][Server!LastField] IN IF last = NoCred THEN NoToken ELSE last

Protocol == INSTANCE LoginProtocol WITH phase <- Phase, asked <- Asked, granted <- Granted

\* Threads, queues, boxes and setters aside, the two programs run LoginProtocol:
\* in particular the server's last setter comes before the client enters, and a
\* refused client was not granted anything (LoginDlg.cpp, ClientUser.cs).
RunsProtocol == Protocol!ProtocolSpec
===============================================================================
