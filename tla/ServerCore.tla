------------------------------ MODULE ServerCore ------------------------------
(***************************************************************************)
(* The websocket server of server/ServerCore: WebSocketServer (the registry *)
(* of connected clients and the message handlers) and ClientUser (the       *)
(* per-connection login state).                                             *)
(*                                                                          *)
(* Fleck raises OnOpen, OnMessage, OnError and OnClose for each connection. *)
(* OnMessage is an async lambda: a handler runs up to its first await (the  *)
(* call of the web API), returns to Fleck, and is resumed on some pool      *)
(* thread when the API answers.  Handlers of one connection therefore       *)
(* overlap.  A task below is one such handler invocation.                   *)
(***************************************************************************)
EXTENDS Naturals, Sequences, FiniteSets

CONSTANTS
    Conns,      \* connections Fleck may accept
    Tasks,      \* handler invocations; bounds the number of messages
    Creds,      \* user tokens that a login message may carry
    NoCred,     \* an identity field nobody has written (string.Empty)
    NoMsg,      \* the message of a task that has not started
    DebugBuild  \* TRUE iff ServerCore is compiled with DEBUG

VARIABLES
    socket,     \* the connection as Fleck sees it
    clients,    \* keys of _clients: the connections with a registered ClientUser
    closes,     \* how often ClientUser.Close ran for the connection
    stage,      \* ClientUser._stage
    identity,   \* the identity fields of the ClientUser
    pc,         \* where each handler invocation stands
    msg,        \* the message each handler invocation works on
    result,     \* what the handler is about to report
    written,    \* how many identity fields a login handler has stored
    replies,    \* messages sent to each connection, in order
    server,     \* life cycle of the server
    toVisit,    \* registered connections that Stop still has to visit
    overlapped  \* history: connections on which two logins were in flight at once

registry == <<clients, closes>>
userVars == <<stage, identity>>
taskVars == <<pc, msg, result, written>>
stopVars == <<server, toVisit>>
vars == <<socket, registry, userVars, taskVars, replies, stopVars, overlapped>>

-------------------------------------------------------------------------------
SocketStates == {"idle", "open", "failed", "closed"}
Stages       == {"Unauthenticated", "Authenticated"}
Kinds        == {"version", "login", "other"}
Results      == {"success", "update", "failure"}
PCs == {"idle", "calling", "storing", "sending", "answered", "unsent", "dropped"}

\* The identity fields in the order LoginAsync sets them: user id, JWT, cheat
\* (from the API's answer), user token, hardware id, hardware info (from the
\* request).  A field's value is abstracted to the token whose login wrote it.
Fields == 1..6
LastField == 6

\* "other" is every message that HandleMessage or a handler rejects before it
\* calls the API: undecodable, of an unknown id, or with an empty parameter.
Messages == [conn : Conns, kind : Kinds, cred : Creds]

Replies == [task : Tasks, kind : Kinds, result : Results]

\* How the HTTP call ends: with every field the handler needs, with an error
\* status or a field missing, or with an exception (HttpClient's timeout too).
ApiOutcomes == {"complete", "incomplete", "exception"}

ASSUME NoCredAssumption == NoCred \notin Creds
ASSUME NoMsgAssumption == NoMsg \notin Messages
ASSUME DebugBuildAssumption == DebugBuild \in BOOLEAN

Init ==
    /\ socket = [c \in Conns |-> "idle"]
    /\ clients = {}
    /\ closes = [c \in Conns |-> 0]
    /\ stage = [c \in Conns |-> "Unauthenticated"]
    /\ identity = [c \in Conns |-> [f \in Fields |-> NoCred]]
    /\ pc = [t \in Tasks |-> "idle"]
    /\ msg = [t \in Tasks |-> NoMsg]
    /\ result = [t \in Tasks |-> "failure"]
    /\ written = [t \in Tasks |-> 0]
    /\ replies = [c \in Conns |-> <<>>]
    /\ server = "running"
    /\ toVisit = {}
    /\ overlapped = {}

-------------------------------------------------------------------------------
(* The registry of clients.                                                *)

\* A connection object is new to the dictionary, so TryAdd succeeds.
AddClient(c) == clients' = clients \union {c} /\ UNCHANGED closes

\* Mutant: the client is closed whether or not this caller removed it.
RemoveClient_AlwaysCloses(c) ==
    /\ clients' = clients \ {c}
    /\ closes' = [closes EXCEPT ![c] = @ + 1]

\* TryRemove hands the client to one caller only, and that caller closes it.
RemoveClient(c) ==
    /\ clients' = clients \ {c}
    /\ closes' = IF c \in clients THEN [closes EXCEPT ![c] = @ + 1] ELSE closes

\* Also after Stop: Dispose closes the listener, not a handshake under way.
OnOpen(c) ==
    /\ socket[c] = "idle"
    /\ socket' = [socket EXCEPT ![c] = "open"]
    /\ AddClient(c)
    /\ UNCHANGED <<userVars, taskVars, replies, stopVars, overlapped>>

\* Mutant: OnError only logs and leaves the client to OnClose.
OnError_KeepsClient(c) ==
    /\ socket[c] = "open"
    /\ socket' = [socket EXCEPT ![c] = "failed"]
    /\ UNCHANGED <<registry, userVars, taskVars, replies, stopVars, overlapped>>

OnError(c) ==
    /\ socket[c] = "open"
    /\ socket' = [socket EXCEPT ![c] = "failed"]
    /\ RemoveClient(c)
    /\ UNCHANGED <<userVars, taskVars, replies, stopVars, overlapped>>

OnClose(c) ==
    /\ socket[c] \in {"open", "failed"}
    /\ socket' = [socket EXCEPT ![c] = "closed"]
    /\ RemoveClient(c)
    /\ UNCHANGED <<userVars, taskVars, replies, stopVars, overlapped>>

\* Stop walks the dictionary while Fleck's threads still change it.
StopBegin ==
    /\ server = "running"
    /\ server' = "stopping"
    /\ toVisit' = clients
    /\ UNCHANGED <<socket, registry, userVars, taskVars, replies, overlapped>>

\* The enumerator visits every key present from start to end, and may or may
\* not visit one added meanwhile.
StopVisit(c) ==
    /\ server = "stopping"
    /\ c \in toVisit \union clients
    /\ RemoveClient(c)
    /\ toVisit' = toVisit \ {c}
    /\ UNCHANGED <<socket, userVars, taskVars, replies, server, overlapped>>

StopEnd ==
    /\ server = "stopping"
    /\ toVisit = {}
    /\ server' = "stopped"
    /\ UNCHANGED <<socket, registry, userVars, taskVars, replies, toVisit, overlapped>>

-------------------------------------------------------------------------------
(* A handler up to its first await.                                        *)

Drop(t) == pc' = [pc EXCEPT ![t] = "dropped"] /\ UNCHANGED overlapped

LoginsInFlight(c) ==
    {t \in Tasks : pc[t] = "calling" /\ msg[t].kind = "login" /\ msg[t].conn = c}

\* Mutant: VerifyVersionAsync without the stage check.
VerifyVersionAsync_NoCheck(t, m) ==
    /\ pc' = [pc EXCEPT ![t] = "calling"]
    /\ UNCHANGED overlapped

\* VerifyVersionAsync throws unless the client is unauthenticated; the handler
\* catches the exception and returns without a reply.
VerifyVersionAsync(t, m) ==
    /\ IF stage[m.conn] = "Unauthenticated"
       THEN pc' = [pc EXCEPT ![t] = "calling"]
       ELSE pc' = [pc EXCEPT ![t] = "dropped"]
    /\ UNCHANGED overlapped

\* Mutant: LoginAsync without the stage check.
LoginAsync_NoCheck(t, m) ==
    /\ pc' = [pc EXCEPT ![t] = "calling"]
    /\ overlapped' = IF LoginsInFlight(m.conn) = {} THEN overlapped
                     ELSE overlapped \union {m.conn}

\* LoginAsync: the same check, then the API call is started.
LoginAsync(t, m) ==
    IF stage[m.conn] = "Unauthenticated"
    THEN /\ pc' = [pc EXCEPT ![t] = "calling"]
         /\ overlapped' = IF LoginsInFlight(m.conn) = {} THEN overlapped
                          ELSE overlapped \union {m.conn}
    ELSE Drop(t)

HandleMessage(t, m) ==
    \/ m.kind = "version" /\ VerifyVersionAsync(t, m)
    \/ m.kind = "login" /\ LoginAsync(t, m)
    \/ m.kind = "other" /\ Drop(t)

\* A message of a connection that is not (or no longer) registered is ignored.
ProcessMessageAsync(t, m) ==
    IF m.conn \in clients THEN HandleMessage(t, m) ELSE Drop(t)

OnMessage(t, m) ==
    /\ pc[t] = "idle"
    /\ socket[m.conn] = "open"
    /\ msg' = [msg EXCEPT ![t] = m]
    /\ ProcessMessageAsync(t, m)
    /\ UNCHANGED <<socket, registry, userVars, result, written, replies, stopVars>>

-------------------------------------------------------------------------------
(* A handler after the API call.                                           *)

\* What VerifyVersionAsync returns.  The DEBUG build answers "no update"
\* whatever status and fields came back; only an exception fails it.
VersionResults(outcome) ==
    CASE outcome = "exception" -> {"failure"}
      [] outcome # "exception" /\ DebugBuild -> {"success"}
      [] outcome = "complete" /\ ~DebugBuild -> {"success", "update"}
      [] outcome = "incomplete" /\ ~DebugBuild -> {"failure"}

VersionAnswer(t, outcome) ==
    /\ pc[t] = "calling"
    /\ msg[t].kind = "version"
    /\ \E r \in VersionResults(outcome) : result' = [result EXCEPT ![t] = r]
    /\ pc' = [pc EXCEPT ![t] = "sending"]
    /\ UNCHANGED <<socket, registry, userVars, msg, written, replies, stopVars, overlapped>>

\* Mutant: _stage is static, one stage for all clients.
LoginAccepted_SharedStage(t) ==
    /\ stage' = [c \in Conns |-> "Authenticated"]
    /\ pc' = [pc EXCEPT ![t] = "storing"]
    /\ result' = [result EXCEPT ![t] = "success"]

\* The stage is set first, without looking at it again.
LoginAccepted(t) ==
    /\ stage' = [stage EXCEPT ![msg[t].conn] = "Authenticated"]
    /\ pc' = [pc EXCEPT ![t] = "storing"]
    /\ result' = [result EXCEPT ![t] = "success"]

\* Mutant: the exception of a failed API call leaves LoginAsync uncaught.
LoginAnswer_ExceptionEscapes(t, outcome) ==
    /\ pc[t] = "calling"
    /\ msg[t].kind = "login"
    /\ IF outcome = "complete"
       THEN LoginAccepted(t)
       ELSE /\ pc' = [pc EXCEPT ![t] =
                         IF outcome = "exception" THEN "dropped" ELSE "sending"]
            /\ UNCHANGED <<stage, result>>
    /\ UNCHANGED <<socket, registry, identity, msg, written, replies, stopVars, overlapped>>

LoginAnswer(t, outcome) ==
    /\ pc[t] = "calling"
    /\ msg[t].kind = "login"
    /\ IF outcome = "complete"
       THEN LoginAccepted(t)
       ELSE pc' = [pc EXCEPT ![t] = "sending"] /\ UNCHANGED <<stage, result>>
    /\ UNCHANGED <<socket, registry, identity, msg, written, replies, stopVars, overlapped>>

\* Mutant: the reply is sent one setter early.
StoreField_LastMissing(t) ==
    /\ pc[t] = "storing"
    /\ LET f == written[t] + 1 IN
       /\ identity' = [identity EXCEPT ![msg[t].conn][f] = msg[t].cred]
       /\ written' = [written EXCEPT ![t] = f]
       /\ pc' = [pc EXCEPT ![t] = IF f = LastField - 1 THEN "sending" ELSE "storing"]
    /\ UNCHANGED <<socket, registry, stage, msg, result, replies, stopVars, overlapped>>

\* Mutant: one setter too many.
StoreField_OneTooMany(t) ==
    /\ pc[t] = "storing"
    /\ LET f == written[t] + 1 IN
       /\ identity' = [identity EXCEPT ![msg[t].conn] =
                          [g \in Fields \union {f} |-> IF g = f THEN msg[t].cred ELSE @[g]]]
       /\ written' = [written EXCEPT ![t] = f]
       /\ pc' = [pc EXCEPT ![t] = IF f > LastField THEN "sending" ELSE "storing"]
    /\ UNCHANGED <<socket, registry, stage, msg, result, replies, stopVars, overlapped>>

\* One of the setters of LoginAsync; other threads run between two of them.
StoreField(t) ==
    /\ pc[t] = "storing"
    /\ LET f == written[t] + 1 IN
       /\ identity' = [identity EXCEPT ![msg[t].conn][f] = msg[t].cred]
       /\ written' = [written EXCEPT ![t] = f]
       /\ pc' = [pc EXCEPT ![t] = IF f = LastField THEN "sending" ELSE "storing"]
    /\ UNCHANGED <<socket, registry, stage, msg, result, replies, stopVars, overlapped>>

\* SendMessageAsync on a usable connection.  The handler returns true, which
\* makes ProcessMessageAsync refresh the receive time; nothing reads that.
Reply(t) ==
    /\ pc[t] = "sending"
    /\ socket[msg[t].conn] \in {"open", "failed"}
    /\ replies' = [replies EXCEPT ![msg[t].conn] =
                      Append(@, [task |-> t, kind |-> msg[t].kind, result |-> result[t]])]
    /\ pc' = [pc EXCEPT ![t] = "answered"]
    /\ UNCHANGED <<socket, registry, userVars, msg, result, written, stopVars, overlapped>>

\* Send throws on a connection that is closing or closed; the handler returns false.
SendThrows(t) ==
    /\ pc[t] = "sending"
    /\ socket[msg[t].conn] \in {"failed", "closed"}
    /\ pc' = [pc EXCEPT ![t] = "unsent"]
    /\ UNCHANGED <<socket, registry, userVars, msg, result, written, replies, stopVars, overlapped>>

-------------------------------------------------------------------------------
HandlerStep(t) ==
    \/ \E o \in ApiOutcomes : VersionAnswer(t, o) \/ LoginAnswer(t, o)
    \/ StoreField(t)
    \/ Reply(t)
    \/ SendThrows(t)

SocketEvent(c) == OnOpen(c) \/ OnError(c) \/ OnClose(c)

Stop == StopBegin \/ (\E c \in Conns : StopVisit(c)) \/ StopEnd

Next ==
    \/ \E c \in Conns : SocketEvent(c)
    \/ \E t \in Tasks, m \in Messages : OnMessage(t, m)
    \/ \E t \in Tasks : HandlerStep(t)
    \/ Stop

Spec == Init /\ [][Next]_vars

\* The pool runs every resumed continuation, and HttpClient's default timeout
\* ends every API call, so a handler past its check never stays where it is.
FairSpec == Spec /\ \A t \in Tasks : WF_vars(HandlerStep(t))

-------------------------------------------------------------------------------
TypeOK ==
    /\ socket \in [Conns -> SocketStates]
    /\ clients \in SUBSET Conns
    /\ closes \in [Conns -> Nat]
    /\ stage \in [Conns -> Stages]
    /\ identity \in [Conns -> [Fields -> Creds \union {NoCred}]]
    /\ pc \in [Tasks -> PCs]
    /\ msg \in [Tasks -> Messages \union {NoMsg}]
    /\ result \in [Tasks -> Results]
    /\ written \in [Tasks -> 0..LastField]
    /\ replies \in [Conns -> Seq(Replies)]
    /\ server \in {"running", "stopping", "stopped"}
    /\ toVisit \in SUBSET Conns
    /\ overlapped \in SUBSET Conns

\* Every client that was ever registered is still registered or was closed,
\* and closed once, although OnError, OnClose and Stop all remove it, possibly
\* at the same time (WebSocket.cs, RemoveClient).
ClosedExactlyOnce ==
    \A c \in Conns :
        closes[c] = IF socket[c] = "idle" \/ c \in clients THEN 0 ELSE 1

\* The dictionary holds no client of a connection that failed or closed, in
\* whatever order the callbacks and Stop came (WebSocket.cs, Start and Stop).
NoGhostClients == \A c \in clients : socket[c] = "open"

\* A login on connection c whose identity has been stored in full.
Stored(t, c) ==
    /\ pc[t] \in {"sending", "answered", "unsent"}
    /\ msg[t].kind = "login" /\ msg[t].conn = c
    /\ result[t] = "success"

\* On a connection whose logins never overlapped, the identity left behind by
\* a finished login is that login's alone: no field of another attempt, failed
\* or successful, survives in it (ClientUser.cs, LoginAsync).
OneIdentity ==
    \A c \in Conns \ overlapped : \A t \in Tasks :
        Stored(t, c) => \A f \in Fields : identity[c][f] = msg[t].cred

LoginReported(c) ==
    \E i \in DOMAIN replies[c] :
        replies[c][i].kind = "login" /\ replies[c][i].result = "success"

\* The peer is told that its login succeeded only when the client is in stage
\* Authenticated and every identity field is stored, however handlers of the
\* connection interleave (ClientUser.cs, LoginAsync before the reply).
ToldOnlyWhenComplete ==
    \A c \in Conns : LoginReported(c) =>
        /\ stage[c] = "Authenticated"
        /\ \A f \in Fields : identity[c][f] # NoCred

\* Once a connection was told that its login succeeded, no later message of it
\* reaches the API: all of them fail the stage check and stay unanswered
\* (ClientUser.cs, the checks of VerifyVersionAsync and LoginAsync).
SilentOnceTold ==
    [][\A t \in Tasks : pc[t] = "idle" /\ pc'[t] = "calling"
                            => ~LoginReported(msg'[t].conn)]_vars

\* A request that got past its check is answered or its connection is gone:
\* an API error, a missing field or an exception never swallows the reply
\* (WebSocket.cs, HandleVersionRequest and HandleLoginRequest).
EveryCallIsAnswered ==
    \A t \in Tasks, c \in Conns :
        (pc[t] = "calling" /\ msg[t].conn = c)
            ~> (pc[t] = "answered" \/ socket[c] \in {"failed", "closed"})

\* What LoginAsync's exception says: a login is not processed because the client
\* is already authenticated.  The check is made before the await, so two logins
\* in flight both pass it and the second re-authenticates the client.
LoginRefusedOnceAuthenticated ==
    [][\A t \in Tasks : pc[t] = "calling" /\ pc'[t] = "storing"
                            => stage[msg[t].conn] = "Unauthenticated"]_vars
===============================================================================
