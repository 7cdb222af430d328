-------------------------- MODULE LoaderSystemProofs --------------------------
(***************************************************************************)
(* Proofs about LoaderSystem for any set of tokens, both builds of the      *)
(* server and any number of requests: it runs the client and the server as  *)
(* LoginClient and ServerCore describe them, the server's race between two  *)
(* logins does not occur, both sides agree on who is logged in, no request   *)
(* vanishes between them, and every message is understood.                  *)
(***************************************************************************)
EXTENDS LoaderSystem, FiniteSetTheorems, SequenceTheorems, TLAPS

CP == INSTANCE LoginClientProofs
SP == INSTANCE ServerCoreProofs WITH Conns <- {Conn}, Creds <- Tokens \union {NoToken}

-------------------------------------------------------------------------------
(* LoginClientProofs and ServerCoreProofs speak of their own instances of the *)
(* components; expanded, they are those of LoaderSystem.                      *)

LEMMA SameClient == Client!Next <=> CP!Next
  BY DEF
     Client!EventTypes, Client!ClientEvents, Client!UrgentEvents, Client!Event, Client!Requests,
     Client!Notice, Client!Orphan, Client!Goodbye, Client!eventVars, Client!netVars,
     Client!formVars, Client!infoVars, Client!OnConnect, Client!OnFail, Client!OnClose,
     Client!ReplyTypes, Client!OnReply, Client!OnMessage, Client!SendMessageAsync, Client!Show,
     Client!OnConnectSuccess, Client!OnVersionUpdate, Client!OnVersionFailed,
     Client!OnVersionSuccess, Client!OnLoginSuccess, Client!OnLoginFailed, Client!OnError,
     Client!Dispatch, Client!DispatchMain, Client!OnClientEvent, Client!Enabled, Client!EditToken,
     Client!OnOK, Client!OnCloseDialog, Client!OpenLogin, Client!DestroyLogin, Client!DestroyMain,
     Client!EndProcess, Client!LeaveDialog, Client!CloseBox, Client!BoxWaits, Client!BoxExpires,
     Client!UserClosesBox, Client!Running, Client!Network, Client!Posting, Client!NotifierDies,
     Client!User, Client!Dialogs, Client!Next, Client!NoWindow, Client!Notify, Client!Aim,
     Client!Foremost, Client!Post, Client!Move, Client!Halt, Client!Open, Client!Reset,
     Client!Destroy, Client!Handle, CP!EventTypes, CP!ClientEvents, CP!UrgentEvents, CP!Event,
     CP!Requests, CP!Notice, CP!Orphan, CP!Goodbye, CP!eventVars, CP!netVars, CP!formVars,
     CP!infoVars, CP!OnConnect, CP!OnFail, CP!OnClose, CP!ReplyTypes, CP!OnReply, CP!OnMessage,
     CP!SendMessageAsync, CP!Show, CP!OnConnectSuccess, CP!OnVersionUpdate, CP!OnVersionFailed,
     CP!OnVersionSuccess, CP!OnLoginSuccess, CP!OnLoginFailed, CP!OnError, CP!Dispatch,
     CP!DispatchMain, CP!OnClientEvent, CP!Enabled, CP!EditToken, CP!OnOK, CP!OnCloseDialog,
     CP!OpenLogin, CP!DestroyLogin, CP!DestroyMain, CP!EndProcess, CP!LeaveDialog, CP!CloseBox,
     CP!BoxWaits, CP!BoxExpires, CP!UserClosesBox, CP!Running, CP!Network, CP!Posting,
     CP!NotifierDies, CP!User, CP!Dialogs, CP!Next, CP!NoWindow, CP!Notify, CP!Aim, CP!Foremost,
     CP!Post, CP!Move, CP!Halt, CP!Open, CP!Reset, CP!Destroy, CP!Handle

LEMMA SameClientInit == Client!Init <=> CP!Init
  BY DEF Client!Init, Client!BusInit, Client!NoWindow, CP!Init, CP!BusInit, CP!NoWindow

LEMMA SameServer == Server!Next <=> SP!Next
  BY DEF
     Server!registry, Server!userVars, Server!taskVars, Server!stopVars, Server!vars, Server!Kinds,
     Server!Fields, Server!LastField, Server!Messages, Server!ApiOutcomes, Server!AddClient,
     Server!RemoveClient, Server!OnOpen, Server!OnError, Server!OnClose, Server!StopBegin,
     Server!StopVisit, Server!StopEnd, Server!Drop, Server!LoginsInFlight,
     Server!VerifyVersionAsync, Server!LoginAsync, Server!HandleMessage, Server!ProcessMessageAsync,
     Server!OnMessage, Server!VersionResults, Server!VersionAnswer, Server!LoginAccepted,
     Server!LoginAnswer, Server!StoreField, Server!Reply, Server!SendThrows, Server!HandlerStep,
     Server!SocketEvent, Server!Stop, Server!Next, SP!registry, SP!userVars, SP!taskVars,
     SP!stopVars, SP!vars, SP!Kinds, SP!Fields, SP!LastField, SP!Messages, SP!ApiOutcomes,
     SP!AddClient, SP!RemoveClient, SP!OnOpen, SP!OnError, SP!OnClose, SP!StopBegin, SP!StopVisit,
     SP!StopEnd, SP!Drop, SP!LoginsInFlight, SP!VerifyVersionAsync, SP!LoginAsync, SP!HandleMessage,
     SP!ProcessMessageAsync, SP!OnMessage, SP!VersionResults, SP!VersionAnswer, SP!LoginAccepted,
     SP!LoginAnswer, SP!StoreField, SP!Reply, SP!SendThrows, SP!HandlerStep, SP!SocketEvent,
     SP!Stop, SP!Next

-------------------------------------------------------------------------------
(* The client in the system is LoginClient.                                 *)

\* Out of its envelope, a reply goes to the client's handler of its kind.
LEMMA ReplyOpened ==
    ASSUME NEW reply, reply.kind \in {"version", "login"}
    PROVE  ReplyEvents(reply) = {IF reply.kind = "version" THEN VersionEvent(m) ELSE LoginEvent(m) :
                                    m \in MsgResponses(reply.kind, reply.result)}
  <1>1. ASSUME NEW m
        PROVE  OnMessage(ServerHeader(reply.kind, m)) =
                   IF reply.kind = "version" THEN VersionEvent(m) ELSE LoginEvent(m)
    BY DEF OnMessage, ServerHeader, ClientReadsHeader
  <1> QED
    BY <1>1 DEF ReplyEvents

\* The events a response can be reported with are those the client's handlers
\* of the kind report.
LEMMA ReplyEventsFit ==
    ASSUME NEW reply, NEW request \in Client!Requests, request.id = reply.kind,
           NEW event \in ReplyEvents(reply)
    PROVE  event \in Client!ReplyTypes(request)
  <1>1. PICK m \in MsgResponses(reply.kind, reply.result) :
            event = IF reply.kind = "version" THEN VersionEvent(m) ELSE LoginEvent(m)
    BY ReplyOpened DEF Client!Requests
  <1>2. VersionEvent(m) \in {"VersionFailed", "VersionUpdate", "VersionSuccess", "ParseMessageError"}
    BY DEF VersionEvent
  <1>3. LoginEvent(m) \in {"LoginFailed", "LoginSuccess", "ParseMessageError"}
    BY DEF LoginEvent
  <1>4. reply.kind \in {"version", "login"}
    BY DEF Client!Requests
  <1> QED
    BY <1>1, <1>2, <1>3, <1>4 DEF Client!ReplyTypes

UplinkOK == uplink \in Seq(Client!Requests)
ClientInv == CP!TurnInv /\ UplinkOK

LEMMA RequestsTyped == CP!TurnInv => requests \subseteq Client!Requests
  BY DEF CP!TurnInv, CP!TypeOK, CP!Requests, Client!Requests

LEMMA ClientSteps == ClientInv /\ [Next]_vars => [Client!Next]_clientVars
  <1> SUFFICES ASSUME ClientInv, [Next]_vars PROVE Client!Next \/ UNCHANGED clientVars
    OBVIOUS
  <1>1. CASE UNCHANGED vars
    BY <1>1 DEF vars
  <1>2. CASE Accept \/ ServerLoses \/ ServerEnds \/ Receive \/ ServerHandles \/ ServerStops
    BY <1>2 DEF Accept, ServerLoses, ServerEnds, Receive, ServerHandles, ServerStops
  <1>3. CASE Connected \/ ClientLoses
    BY <1>3 DEF Connected, ClientLoses, Client!Next, Client!Network
  <1>4. CASE ClientDispatches \/ ClientDialogs \/ ClientPosts \/ ClientUsed
    BY <1>4 DEF ClientDispatches, ClientDialogs, ClientPosts, ClientUsed, Client!Next
  <1>5. CASE Deliver /\ ~UNCHANGED clientVars
    <2>1. PICK request \in requests, event \in ReplyEvents(replies[Conn][read + 1]) :
              /\ request.id = replies[Conn][read + 1].kind
              /\ Client!OnReply(request, event)
      BY <1>5 DEF Deliver
    <2>2. request \in Client!Requests
      BY RequestsTyped DEF ClientInv
    <2>3. Client!OnMessage(request)
      BY <2>1, <2>2, ReplyEventsFit DEF Client!OnMessage
    <2> QED
      BY <1>5, <2>2, <2>3 DEF Deliver, Client!Next, Client!Network
  <1> QED
    BY <1>1, <1>2, <1>3, <1>4, <1>5 DEF Next

LEMMA TurnStays == CP!TurnInv /\ [Client!Next]_clientVars => CP!TurnInv'
  <1> SUFFICES ASSUME CP!TurnInv, [Client!Next]_clientVars PROVE CP!TurnInv'
    OBVIOUS
  <1>1. [CP!Next]_(CP!vars)
    BY SameClient DEF clientVars, CP!vars, CP!eventVars, CP!netVars, CP!formVars, CP!infoVars
  <1> QED
    BY <1>1, CP!TypeStep, CP!TurnStep DEF CP!TurnInv

LEMMA UplinkStays == ClientInv /\ CP!TurnInv' /\ [Next]_vars => UplinkOK'
  <1> SUFFICES ASSUME ClientInv, CP!TurnInv', [Next]_vars PROVE UplinkOK'
    OBVIOUS
  <1> USE DEF ClientInv, UplinkOK
  <1>1. CASE UNCHANGED uplink
    BY <1>1
  <1>2. CASE Receive
    BY <1>2, HeadTailProperties DEF Receive
  <1>3. CASE Transmit
    <2>1. requests' \subseteq Client!Requests
      BY DEF CP!TurnInv, CP!TypeOK, CP!Requests, Client!Requests
    <2>2. ASSUME NEW r \in requests' \ requests, uplink' = Append(uplink, r) PROVE UplinkOK'
      BY <2>1, <2>2, AppendProperties
    <2> QED
      BY <1>1, <1>3, <2>2 DEF Transmit
  <1> QED
    BY <1>1, <1>2, <1>3 DEF Next, vars, linkVars, Accept, Connected, ClientLoses, ServerLoses,
       ServerEnds, ClientDispatches, ClientDialogs, ClientPosts, ClientUsed, ServerHandles,
       ServerStops, Deliver

LEMMA ClientInvariant == Spec => []ClientInv
  <1>1. Init => ClientInv
    BY SameClientInit, CP!TypeInit, CP!TurnInit, EmptySeq DEF Init, ClientInv, UplinkOK, CP!TurnInv
  <1>2. ClientInv /\ [Next]_vars => ClientInv'
    BY ClientSteps, TurnStays, UplinkStays DEF ClientInv
  <1> QED
    BY <1>1, <1>2, PTL DEF Spec

\* Every behaviour of the system is, on the client's variables, one of LoginClient:
\* whatever the server does, the client that talks to it gets no reply that
\* LoginClient does not allow for.
THEOREM RunsLoginClient == Spec => Client!Init /\ [][Client!Next]_clientVars
  <1>1. Init => Client!Init
    BY DEF Init
  <1> QED
    BY <1>1, ClientInvariant, ClientSteps, PTL DEF Spec

-------------------------------------------------------------------------------
(* The server in the system is ServerCore.                                  *)

LEMMA KnownRequest == \A id \in {"version", "login"} : RequestKind(id) = id
  <1>1. ReadsVersion(MsgVersion)
    BY DEF ReadsVersion, MsgVersion
  <1>2. ReadsLogin(MsgLogin)
    BY DEF ReadsLogin, MsgLogin
  <1>3. \A body : ServerReadsHeader(ClientHeader("version", body))
                   /\ ServerReadsHeader(ClientHeader("login", body))
    BY DEF ServerReadsHeader, ClientHeader
  <1>4. \A id, body : ClientHeader(id, body).id = id /\ ClientHeader(id, body).data = body
    BY DEF ClientHeader
  <1> QED
    BY <1>1, <1>2, <1>3, <1>4 DEF RequestKind, HandleMessage

\* What Receive hands to the server.
LEMMA ReceivedMessage ==
    ASSUME ClientInv, Receive
    PROVE  LET r == Head(uplink)
               m == [conn |-> Conn, kind |-> r.id, cred |-> r.token]
           IN  /\ r \in Client!Requests
               /\ m \in Server!Messages
               /\ \E t \in Tasks : Server!OnMessage(t, m)
  <1>1. Head(uplink) \in Client!Requests
    BY HeadTailProperties DEF ClientInv, UplinkOK, Receive
  <1>2. RequestKind(Head(uplink).id) = Head(uplink).id
    BY <1>1, KnownRequest DEF Client!Requests
  <1>3. [conn |-> Conn, kind |-> Head(uplink).id, cred |-> Head(uplink).token] \in Server!Messages
    BY <1>1 DEF Client!Requests, Server!Messages, Server!Kinds
  <1> QED
    BY <1>1, <1>2, <1>3 DEF Receive, Unused

LEMMA ServerSteps == ClientInv /\ [Next]_vars => [Server!Next]_(Server!vars)
  <1> SUFFICES ASSUME ClientInv, [Next]_vars PROVE Server!Next \/ UNCHANGED serverVars
    BY DEF serverVars, Server!vars, Server!registry, Server!userVars, Server!taskVars, Server!stopVars
  <1>1. CASE UNCHANGED vars
    BY <1>1 DEF vars
  <1>2. CASE Connected \/ ClientLoses \/ ServerEnds \/ Deliver
    BY <1>2 DEF Connected, ClientLoses, ServerEnds, Deliver
  <1>3. CASE ClientDispatches \/ ClientDialogs \/ ClientPosts \/ ClientUsed
    BY <1>3 DEF ClientDispatches, ClientDialogs, ClientPosts, ClientUsed, Transmit
  <1>4. CASE Accept \/ ServerLoses
    BY <1>4 DEF Accept, ServerLoses, Server!Next, Server!SocketEvent
  <1>5. CASE Receive
    BY <1>5, ReceivedMessage DEF Server!Next
  <1>6. CASE ServerHandles \/ ServerStops
    BY <1>6 DEF ServerHandles, ServerStops, Server!Next
  <1> QED
    BY <1>1, <1>2, <1>3, <1>4, <1>5, <1>6 DEF Next

\* Every behaviour of the system is, on the server's variables, one of ServerCore.
THEOREM RunsServerCore == Spec => Server!Spec
  <1>1. Init => Server!Init
    BY DEF Init
  <1> QED
    BY <1>1, ClientInvariant, ServerSteps, PTL DEF Spec, Server!Spec

\* So what is proved of ServerCore holds here.
LEMMA RunsSP == Spec => SP!Spec
  <1>1. Server!Init => SP!Init
    BY DEF Server!Init, Server!Fields, SP!Init, SP!Fields
  <1>2. [Server!Next]_(Server!vars) => [SP!Next]_(SP!vars)
    BY SameServer DEF Server!vars, Server!registry, Server!userVars, Server!taskVars,
       Server!stopVars, SP!vars, SP!registry, SP!userVars, SP!taskVars, SP!stopVars
  <1> QED
    BY <1>1, <1>2, RunsServerCore, PTL DEF Server!Spec, SP!Spec

LEMMA ServerAssumed == NoCred \notin Tokens \union {NoToken} /\ NoMsg \notin SP!Messages /\ DebugBuild \in BOOLEAN
  BY ServerAssumptions DEF Server!Messages, Server!Kinds, SP!Messages, SP!Kinds

LEMMA ServerInvariant == Spec => [](SP!TypeInv /\ SP!LoginInv)
  <1>1. SP!Spec => [](SP!TypeInv /\ SP!LoginInv)
    BY ServerAssumed, SP!LoginInvariant
  <1> QED
    BY <1>1, RunsSP, PTL

LEMMA ServerRegistry == Spec => []SP!NoGhostClients
  <1>1. SP!Spec => []SP!NoGhostClients
    BY ServerAssumed, SP!RegistryHasNoGhosts
  <1> QED
    BY <1>1, RunsSP, PTL

-------------------------------------------------------------------------------
(* One request between the two programs.                                    *)

Busy == {t \in Tasks : pc[t] \in {"calling", "storing", "sending"}}
Unread == {i \in DOMAIN replies[Conn] : i > read}
Fits(t, r) == msg[t].kind = r.id /\ msg[t].cred = r.token

\* The client's request is in one place: on the wire, with a handler of the
\* server, in a reply under way, or nowhere any more.
PipeInv ==
    /\ \A i \in DOMAIN uplink : i = 1 /\ uplink[i] \in requests /\ Busy = {} /\ Unread = {}
    /\ \A t, u \in Busy : t = u
    /\ \A t \in Busy : Unread = {} /\ \E r \in requests : Fits(t, r)
    /\ \A i, j \in Unread : i = j
    /\ \A i \in Unread : \E r \in requests : Fits(replies[Conn][i].task, r)

\* A reply says what its handler found.
ReplyInv ==
    /\ \A i \in DOMAIN replies[Conn] :
           LET reply == replies[Conn][i] IN
           /\ reply.task \in Tasks
           /\ pc[reply.task] = "answered"
           /\ msg[reply.task].kind = reply.kind
           /\ result[reply.task] = reply.result
    /\ \A t \in Tasks : pc[t] # "idle" /\ msg[t].kind = "login" => result[t] # "update"

\* An event that gives the dialog another turn.
Reviving(e) == e.type \in {"ConnectSuccess", "VersionSuccess", "LoginFailed"}
LoginEvents == queue \union {mailbox["login"][i] : i \in DOMAIN mailbox["login"]}

\* Once the server authenticated the client, nothing makes it ask again.
SpentInv ==
    stage[Conn] = "Authenticated" =>
        /\ ~button /\ net # "connecting" /\ uplink = <<>>
        /\ \A e \in LoginEvents : ~Reviving(e)
        /\ \A t \in Busy : msg[t].kind = "login" /\ result[t] = "success"
        /\ \A i \in Unread : replies[Conn][i].kind = "login" /\ replies[Conn][i].result = "success"

\* Success reaches the client only of a login that the server stored.
StoredFor(token) == \E t \in Tasks : SP!Stored(t, Conn) /\ msg[t].cred = token

GrantInv ==
    /\ \A e \in LoginEvents : e.type = "LoginSuccess" => StoredFor(e.token)
    /\ loggedIn => StoredFor(accepted)

\* Only a connection that is gone makes the server drop a request.
CleanInv ==
    /\ NoRaceOnServer
    /\ (\E t \in Tasks : pc[t] # "idle") => socket[Conn] # "idle"

\* The client has not received more replies than were sent.
ReadInv == read \in 0..Len(replies[Conn])

LinkInv == ReadInv /\ PipeInv /\ ReplyInv /\ SpentInv /\ GrantInv /\ CleanInv


LEMMA LinkInit == Init => LinkInv
  BY EmptySeq DEF Init, Client!Init, Client!BusInit, Server!Init, LinkInv, ReadInv, PipeInv, ReplyInv,
     SpentInv, GrantInv, CleanInv, NoRaceOnServer, Busy, Unread, LoginEvents

\* What the client makes of a reply.
LEMMA ReplyEventsTruthful ==
    ASSUME NEW reply, reply.kind = "login", NEW event \in ReplyEvents(reply)
    PROVE  /\ event # "ConnectSuccess" /\ event # "VersionSuccess"
           /\ reply.result # "failure" => event # "LoginFailed"
           /\ reply.result = "failure" => event # "LoginSuccess"
  <1>1. PICK m \in MsgResponses(reply.kind, reply.result) : event = LoginEvent(m)
    BY ReplyOpened
  <1>2. m.success = IF reply.result = "failure" THEN "false" ELSE "true"
    BY DEF MsgResponses
  <1> QED
    BY <1>1, <1>2 DEF LoginEvent

LEMMA VersionIsNoLogin ==
    ASSUME NEW reply, reply.kind = "version", NEW event \in ReplyEvents(reply)
    PROVE  event # "LoginSuccess"
  BY ReplyOpened DEF VersionEvent

-------------------------------------------------------------------------------
(* The client's own steps.                                                  *)

Mailboxes == [{"login", "main"} -> Seq(Client!ClientEvents)]

LEMMA MailboxesTyped == CP!TurnInv => mailbox \in Mailboxes
  BY DEF CP!TurnInv, CP!TypeOK, CP!BusTypeOK, Mailboxes, CP!ClientEvents, Client!ClientEvents,
     CP!EventTypes, Client!EventTypes

\* Only Notify adds to what the login dialog may still have to handle.
LEMMA NoNewEvents ==
    ASSUME mailbox \in Mailboxes,
           \/ Client!Move \/ Client!Halt \/ Client!Reset
           \/ \E w \in {"login", "main"} : Client!Open(w) \/ Client!Destroy(w) \/ Client!Handle(w)
    PROVE  LoginEvents' \subseteq LoginEvents
  <1> DEFINE mail == mailbox["login"]
  <1> USE DEF LoginEvents
  <1>1. mail \in Seq(Client!ClientEvents) /\ Len(mail) \in Nat /\ DOMAIN mail = 1..Len(mail)
    BY LenProperties DEF Mailboxes
  <1>2. CASE UNCHANGED <<queue, mail>>
    BY <1>2
  <1>3. ASSUME NEW e \in Client!ClientEvents, Client!Post(e) PROVE LoginEvents' \subseteq LoginEvents
    <2>1. e \in queue /\ queue' = queue \ {e}
      BY <1>3 DEF Client!Post, Client!Foremost
    <2>2. CASE mailbox'["login"] = Append(mail, e)
      <3>1. \A i \in DOMAIN mailbox'["login"] : i \in DOMAIN mail \/ i = Len(mail) + 1
        BY <1>1, <2>2, AppendProperties, LenProperties
      <3>2. \A i \in DOMAIN mailbox'["login"] : mailbox'["login"][i] \in {mail[j] : j \in DOMAIN mail} \union {e}
        BY <1>1, <2>2, <3>1, AppendProperties
      <3> QED
        BY <2>1, <3>2
    <2>3. CASE mailbox'["login"] = mail
      BY <2>1, <2>3
    <2> QED
      BY <1>3, <2>2, <2>3 DEF Client!Post, Mailboxes
  <1>4. CASE Client!Destroy("login")
    <2>1. mailbox'["login"] = <<>> /\ queue' = queue
      BY <1>4 DEF Client!Destroy, Mailboxes
    <2> QED
      BY <2>1, EmptySeq
  <1>5. CASE Client!Handle("login")
    <2>1. mail # <<>> /\ mailbox'["login"] = Tail(mail) /\ queue' = queue
      BY <1>5 DEF Client!Handle, Mailboxes
    <2>2. \A i \in DOMAIN mailbox'["login"] : i + 1 \in DOMAIN mail /\ mailbox'["login"][i] = mail[i + 1]
      BY <1>1, <2>1, HeadTailProperties, LenProperties, EmptySeq
    <2> QED
      BY <2>1, <2>2
  <1>6. CASE Client!Destroy("main") \/ Client!Handle("main")
    BY <1>6, <1>2 DEF Client!Destroy, Client!Handle, Mailboxes
  <1>7. CASE \/ Client!Aim \/ Client!Halt \/ Client!Reset
             \/ \E w \in {"login", "main"} : Client!Open(w)
    BY <1>2, <1>7 DEF Client!Aim, Client!Halt, Client!Reset, Client!Open
  <1> QED
    BY <1>3, <1>4, <1>5, <1>6, <1>7 DEF Client!Move

\* The button and a Reviving event are what the client may turn into a request.
Ready == button \/ \E e \in LoginEvents : Reviving(e)

ClientMoves ==
    /\ net' = net
    /\ LoginEvents' \subseteq LoginEvents
    /\ requests' = requests \/ (Ready /\ requests = {} /\ net # "connecting" /\ \E r : requests' = {r})
    /\ button' => Ready
    /\ loggedIn' => \/ loggedIn /\ accepted' = accepted
                    \/ \E e \in LoginEvents : e.type = "LoginSuccess" /\ e.token = accepted'

LEMMA TurnFacts ==
    ASSUME CP!TurnInv
    PROVE  /\ button => requests = {} /\ net # "connecting"
           /\ \A e \in LoginEvents : e.type # "ConnectError" =>
                  requests = {} /\ ~button /\ net # "connecting"
           /\ net = "connecting" => requests = {}
           /\ \A r1, r2 \in requests : r1 = r2
  BY DEF CP!TurnInv, CP!Turn, CP!Asking, CP!Queued, CP!Arrived, CP!Posted, CP!Carries, LoginEvents

LEMMA HandlerMoves ==
    ASSUME CP!TurnInv, Client!Handle("login"), Client!Dispatch(Head(mailbox["login"]))
    PROVE  ClientMoves
  <1> DEFINE e == Head(mailbox["login"])
  <1>1. LoginEvents' \subseteq LoginEvents
    BY MailboxesTyped, NoNewEvents
  <1>2. e \in LoginEvents
    <2>1. mailbox["login"] \in Seq(Client!ClientEvents) /\ mailbox["login"] # <<>>
      BY MailboxesTyped DEF Mailboxes, Client!Handle
    <2>2. 1 \in DOMAIN mailbox["login"] /\ e = mailbox["login"][1]
      BY <2>1, LenProperties, EmptySeq
    <2> QED
      BY <2>2 DEF LoginEvents
  <1>3. Client!Dispatch(e)
    OBVIOUS
  <1> HIDE DEF e
  <1> USE DEF ClientMoves, Client!netVars, Client!formVars, Client!infoVars
  <1>4. CASE e.type = "ConnectSuccess" /\ Client!OnConnectSuccess
    <2>1. Ready /\ requests = {} /\ net # "connecting"
      BY <1>2, <1>4, TurnFacts DEF Ready, Reviving
    <2>2. UNCHANGED <<net, button, loggedIn, accepted>>
      BY <1>4 DEF Client!OnConnectSuccess, Client!SendMessageAsync
    <2>3. requests' = requests \/ requests' = {[id |-> "version", token |-> NoToken]}
      BY <1>4, <2>1 DEF Client!OnConnectSuccess, Client!SendMessageAsync
    <2> QED
      BY <1>1, <2>1, <2>2, <2>3
  <1>5. CASE \/ e.type = "VersionSuccess" /\ Client!OnVersionSuccess
             \/ e.type = "LoginFailed" /\ Client!OnLoginFailed
    <2>1. Ready
      BY <1>2, <1>5 DEF Ready, Reviving
    <2> QED
      BY <1>1, <1>5, <2>1 DEF Client!OnVersionSuccess, Client!OnLoginFailed
  <1>6. CASE e.type = "LoginSuccess" /\ Client!OnLoginSuccess(e.token)
    BY <1>1, <1>2, <1>6 DEF Client!OnLoginSuccess, Ready
  <1>7. CASE Client!OnError \/ Client!OnVersionUpdate \/ Client!OnVersionFailed
    BY <1>1, <1>7 DEF Client!OnError, Client!OnVersionUpdate, Client!OnVersionFailed, Ready
  <1> QED
    BY <1>3, <1>4, <1>5, <1>6, <1>7 DEF Client!Dispatch

LEMMA OwnMoves ==
    ASSUME CP!TurnInv,
           \/ Client!OnClientEvent \/ Client!Dialogs \/ Client!Posting \/ Client!User
           \/ Client!NotifierDies
    PROVE  ClientMoves
  <1>0. mailbox \in Mailboxes
    BY MailboxesTyped
  <1> USE DEF Client!eventVars, Client!netVars, Client!formVars, Client!infoVars
  <1>1. ASSUME LoginEvents' \subseteq LoginEvents,
               UNCHANGED <<net, requests, button, loggedIn, accepted>>
        PROVE  ClientMoves
    BY <1>1 DEF ClientMoves, Ready
  <1>2. UNCHANGED <<queue, mailbox>> => LoginEvents' \subseteq LoginEvents
    BY DEF LoginEvents
  <1>3. CASE Client!OnClientEvent
    <2>1. CASE Client!Handle("login") /\ Client!Dispatch(Head(mailbox["login"]))
      BY <2>1, HandlerMoves
    <2>2. CASE Client!Handle("main") /\ Client!DispatchMain(Head(mailbox["main"]))
      BY <1>0, <1>1, <2>2, NoNewEvents DEF Client!DispatchMain, Client!OnError
    <2> QED
      BY <1>3, <2>1, <2>2 DEF Client!OnClientEvent
  <1>4. CASE Client!Dialogs \/ Client!Posting \/ Client!NotifierDies
    <2>1. UNCHANGED <<net, requests, button, loggedIn, accepted>>
      BY <1>4 DEF Client!Dialogs, Client!OpenLogin, Client!DestroyLogin, Client!DestroyMain,
         Client!LeaveDialog, Client!BoxExpires, Client!CloseBox, Client!Posting, Client!NotifierDies
    <2>2. LoginEvents' \subseteq LoginEvents
      BY <1>0, <1>2, <1>4, NoNewEvents DEF Client!Dialogs, Client!OpenLogin, Client!DestroyLogin,
         Client!DestroyMain, Client!LeaveDialog, Client!BoxExpires, Client!CloseBox,
         Client!EndProcess, Client!Posting, Client!NotifierDies
    <2> QED
      BY <1>1, <2>1, <2>2
  <1>5. CASE Client!OnOK
    <2>1. Ready /\ requests = {} /\ net # "connecting" /\ UNCHANGED <<queue, mailbox, net, loggedIn, accepted>>
      BY <1>5, TurnFacts DEF Ready, Client!OnOK, Client!SendMessageAsync
    <2>2. requests' = requests \/ requests' = {[id |-> "login", token |-> edit]}
      BY <1>5, <2>1 DEF Client!OnOK, Client!SendMessageAsync
    <2> QED
      BY <1>2, <2>1, <2>2 DEF ClientMoves
  <1>6. CASE \/ Client!OnCloseDialog \/ Client!UserClosesBox
             \/ \E token \in Tokens \union {NoToken} : Client!EditToken(token)
    <2>1. UNCHANGED <<net, requests, button, loggedIn, accepted>>
      BY <1>6 DEF Client!OnCloseDialog, Client!UserClosesBox, Client!CloseBox, Client!EditToken
    <2>2. LoginEvents' \subseteq LoginEvents
      BY <1>0, <1>2, <1>6, NoNewEvents DEF Client!OnCloseDialog, Client!UserClosesBox,
         Client!CloseBox, Client!EndProcess, Client!EditToken
    <2> QED
      BY <1>1, <2>1, <2>2
  <1> QED
    BY <1>3, <1>4, <1>5, <1>6 DEF Client!User

-------------------------------------------------------------------------------
(* The invariant is kept.                                                   *)

LEMMA NoUplink ==
    ASSUME UplinkOK
    PROVE  uplink = <<>> <=> DOMAIN uplink = {}
  <1>1. Len(uplink) \in Nat /\ DOMAIN uplink = 1..Len(uplink)
    BY LenProperties DEF UplinkOK
  <1>2. CASE DOMAIN uplink = {}
    <2>1. Len(uplink) = 0
      BY <1>1, <1>2
    <2>2. uplink \in Seq(Client!Requests) /\ <<>> \in Seq(Client!Requests) /\ Len(<<>>) = 0
      BY EmptySeq DEF UplinkOK
    <2> QED
      BY <1>2, <2>1, <2>2, SeqEqual
  <1> QED
    BY <1>1, <1>2, EmptySeq

\* The request that a step of the client sends goes onto an empty pipe, and only
\* as long as the server has not authenticated the client.
LEMMA LinkOwn ==
    ASSUME ClientInv, LinkInv, ClientMoves, Transmit
    PROVE  LinkInv'
  <1>0. UplinkOK /\ UNCHANGED <<pc, msg, result, replies, stage, socket, clients, overlapped, read>>
    BY DEF ClientInv, Transmit, serverVars
  <1>1. UNCHANGED <<Busy, Unread>> /\ \A t \in Tasks, c \in {Conn} : SP!Stored(t, c)' <=> SP!Stored(t, c)
    BY <1>0 DEF Busy, Unread, SP!Stored
  <1>2. ReadInv' /\ ReplyInv' /\ CleanInv'
    BY <1>0 DEF LinkInv, ReadInv, ReplyInv, CleanInv, NoRaceOnServer
  <1>3. GrantInv'
    <2>1. \A token : StoredFor(token)' <=> StoredFor(token)
      BY <1>0, <1>1 DEF StoredFor
    <2> QED
      BY <2>1 DEF LinkInv, GrantInv, ClientMoves
  <1>4. CASE requests' = requests
    <2>1. uplink' = uplink
      BY <1>4 DEF Transmit
    <2>2. PipeInv'
      BY <1>0, <1>1, <1>4, <2>1 DEF LinkInv, PipeInv, Fits
    <2>3. SpentInv'
      BY <1>0, <1>1, <2>1 DEF LinkInv, SpentInv, ClientMoves, Ready
    <2> QED
      BY <1>2, <1>3, <2>2, <2>3 DEF LinkInv
  <1>5. CASE Ready /\ requests = {} /\ \E r : requests' = {r}
    <2>1. PICK r : requests' = {r}
      BY <1>5
    <2>2. DOMAIN uplink = {} /\ Busy = {} /\ Unread = {}
      BY <1>5 DEF LinkInv, PipeInv
    <2>3. uplink = <<>>
      BY <1>0, <2>2, NoUplink
    <2>4. uplink' = <<r>>
      BY <1>5, <2>1, <2>3 DEF Transmit
    <2>5. PipeInv'
      BY <1>1, <2>1, <2>2, <2>4 DEF PipeInv
    <2>6. stage[Conn] # "Authenticated"
      BY <1>5 DEF LinkInv, SpentInv, Ready
    <2>7. SpentInv'
      BY <1>0, <2>6 DEF SpentInv
    <2> QED
      BY <1>2, <1>3, <2>5, <2>7 DEF LinkInv
  <1> QED
    BY <1>4, <1>5 DEF ClientMoves

\* Steps of the connection and of the server that no handler is part of.
quietVars == <<queue, mailbox, requests, button, loggedIn, accepted, uplink, read, pc, msg, result,
               replies, stage, overlapped>>

LEMMA LinkQuiet ==
    ASSUME LinkInv, UNCHANGED quietVars, net' # "connecting" \/ net' = net,
           socket[Conn] # "idle" => socket'[Conn] # "idle",
           clients' \subseteq clients \/ socket[Conn] = "idle"
    PROVE  LinkInv'
  <1> USE DEF quietVars, LinkInv
  <1>1. /\ UNCHANGED <<Busy, Unread, LoginEvents>>
        /\ \A token : StoredFor(token)' <=> StoredFor(token)
    BY DEF Busy, Unread, LoginEvents, StoredFor, SP!Stored
  <1>2. ReadInv' /\ ReplyInv' /\ PipeInv'
    BY <1>1 DEF ReadInv, ReplyInv, PipeInv, Fits
  <1>3. SpentInv' /\ GrantInv'
    BY <1>1 DEF SpentInv, GrantInv
  <1>4. CleanInv'
    BY DEF CleanInv, NoRaceOnServer
  <1> QED
    BY <1>2, <1>3, <1>4

\* Connecting and losing the connection add an event.
LEMMA LinkNetwork ==
    ASSUME LinkInv, Connected \/ ClientLoses
    PROVE  LinkInv'
  <1>1. PICK type \in {"ConnectSuccess", "ConnectError"} :
            /\ queue' = queue \union {Client!Event(type)}
            /\ type = "ConnectSuccess" => net = "connecting"
    BY DEF Connected, ClientLoses, Client!OnConnect, Client!OnFail, Client!OnClose, Client!Notify
  <1>2. /\ net' # "connecting"
        /\ UNCHANGED <<mailbox, requests, button, loggedIn, accepted, uplink, read, pc, msg, result,
                       replies, stage, socket, clients, overlapped>>
    BY DEF Connected, ClientLoses, Client!OnConnect, Client!OnFail, Client!OnClose, Client!Notify,
       Client!formVars, Client!infoVars, serverVars, linkVars
  <1>3. LoginEvents' = LoginEvents \union {Client!Event(type)} /\ Client!Event(type).type = type
    BY <1>1, <1>2 DEF LoginEvents, Client!Event
  <1>4. /\ UNCHANGED <<Busy, Unread>>
        /\ \A token : StoredFor(token)' <=> StoredFor(token)
    BY <1>2 DEF Busy, Unread, StoredFor, SP!Stored
  <1>5. ReadInv' /\ ReplyInv' /\ PipeInv' /\ CleanInv'
    BY <1>2, <1>4 DEF LinkInv, ReadInv, ReplyInv, PipeInv, Fits, CleanInv, NoRaceOnServer
  <1>6. SpentInv'
    BY <1>1, <1>2, <1>3, <1>4 DEF LinkInv, SpentInv, Reviving
  <1>7. GrantInv'
    BY <1>1, <1>2, <1>3, <1>4 DEF LinkInv, GrantInv
  <1> QED
    BY <1>5, <1>6, <1>7 DEF LinkInv

\* The server receives the request while none of its handlers is busy, so the
\* history of overlaps stays empty; it drops it only if the client is gone.
LEMMA LinkReceive ==
    ASSUME ClientInv, SP!TypeInv, LinkInv, Receive
    PROVE  LinkInv'
  <1> DEFINE r == Head(uplink)
             m == [conn |-> Conn, kind |-> r.id, cred |-> r.token]
  <1>0. UNCHANGED <<queue, mailbox, net, requests, button, loggedIn, accepted, read>>
    BY DEF Receive, clientVars
  <1>1. PICK t \in Tasks : Server!OnMessage(t, m)
    BY ReceivedMessage
  <1>2. r \in Client!Requests /\ r.id \in {"version", "login"}
    BY ReceivedMessage DEF Client!Requests
  <1>3. r \in requests /\ Busy = {} /\ Unread = {} /\ uplink # <<>> /\ uplink' = <<>>
    <2>1. uplink # <<>> /\ uplink \in Seq(Client!Requests) /\ uplink' = Tail(uplink)
      BY DEF Receive, ClientInv, UplinkOK
    <2>2. Len(uplink) \in Nat /\ DOMAIN uplink = 1..Len(uplink) /\ 1 \in DOMAIN uplink
      BY <2>1, LenProperties, NoUplink DEF ClientInv
    <2>3. uplink[1] \in requests /\ Busy = {} /\ Unread = {} /\ Len(uplink) = 1
      <3>1. \A i \in DOMAIN uplink : i = 1 /\ uplink[i] \in requests /\ Busy = {} /\ Unread = {}
        BY DEF LinkInv, PipeInv
      <3>2. Len(uplink) \in DOMAIN uplink
        BY <2>2
      <3> QED
        BY <2>2, <3>1, <3>2
    <2>4. Tail(uplink) \in Seq(Client!Requests) /\ Len(Tail(uplink)) = 0
      BY <2>1, <2>3, HeadTailProperties
    <2>5. Tail(uplink) = <<>>
      BY <2>4, EmptySeq, SeqEqual
    <2> QED
      BY <2>1, <2>3, <2>5
  <1>4. stage[Conn] = "Unauthenticated"
    BY <1>3 DEF LinkInv, SpentInv, SP!TypeInv, SP!TypeOK, SP!Stages
  <1> HIDE DEF r
  <1>5. /\ pc[t] = "idle" /\ socket[Conn] = "open"
        /\ msg' = [msg EXCEPT ![t] = m]
        /\ UNCHANGED <<socket, clients, stage, result, replies>>
    BY <1>1 DEF Server!OnMessage, Server!registry, Server!userVars
  <1>6. /\ overlapped' = overlapped
        /\ \/ Conn \in clients /\ pc' = [pc EXCEPT ![t] = "calling"]
           \/ Conn \notin clients /\ pc' = [pc EXCEPT ![t] = "dropped"]
    <2>1. Server!LoginsInFlight(Conn) = {}
      BY <1>3 DEF Server!LoginsInFlight, Busy
    <2>2. m.conn = Conn /\ m.kind \in {"version", "login"}
      BY <1>2
    <2>3. Server!ProcessMessageAsync(t, m)
      BY <1>1 DEF Server!OnMessage
    <2> HIDE DEF m
    <2> QED
      BY <1>4, <2>1, <2>2, <2>3 DEF Server!ProcessMessageAsync, Server!HandleMessage,
         Server!VerifyVersionAsync, Server!LoginAsync, Server!Drop
  <1>7. pc \in [Tasks -> SP!PCs] /\ msg \in [Tasks -> SP!Messages \union {NoMsg}] /\ result[t] = "failure"
    BY <1>5 DEF SP!TypeInv, SP!TypeOK, SP!TaskInv
  <1>8. /\ msg'[t] = m /\ pc'[t] \in {"calling", "dropped"}
        /\ \A u \in Tasks \ {t} : msg'[u] = msg[u] /\ pc'[u] = pc[u]
    BY <1>5, <1>6, <1>7
  <1>9. Busy' \subseteq {t} /\ Unread' = {}
    <2>1. \A u \in Tasks : pc[u] \notin {"calling", "storing", "sending"}
      BY <1>3 DEF Busy
    <2>2. Busy' \subseteq {t}
      BY <1>8, <2>1 DEF Busy
    <2>3. Unread' = {}
      BY <1>0, <1>3, <1>5 DEF Unread
    <2> QED
      BY <2>2, <2>3
  <1>10. ReadInv' /\ SpentInv'
    BY <1>0, <1>4, <1>5 DEF LinkInv, ReadInv, SpentInv
  <1>11. PipeInv'
    <2>1. PICK q \in requests : q = r
      BY <1>3
    <2>2. Fits(t, q)'
      BY <1>8, <2>1 DEF Fits
    <2>3. DOMAIN uplink' = {}
      BY <1>3
    <2> QED
      BY <1>0, <1>9, <2>2, <2>3 DEF PipeInv
  <1>12. ReplyInv'
    BY <1>5, <1>7, <1>8 DEF LinkInv, ReplyInv
  <1>13. GrantInv'
    <2>1. \A token : StoredFor(token) => StoredFor(token)'
      BY <1>5, <1>8 DEF StoredFor, SP!Stored
    <2> QED
      BY <1>0, <2>1 DEF LinkInv, GrantInv, LoginEvents
  <1>14. CleanInv'
    BY <1>5, <1>6, <1>7, <1>8 DEF LinkInv, CleanInv, NoRaceOnServer
  <1> QED
    BY <1>10, <1>11, <1>12, <1>13, <1>14 DEF LinkInv

\* A busy handler holds the request that the client waits for.
LEMMA BusyFacts ==
    ASSUME ClientInv, SP!TypeInv, LinkInv, NEW t \in Busy
    PROVE  /\ t \in Tasks /\ Busy = {t} /\ Unread = {} /\ uplink = <<>>
           /\ \E r \in requests : Fits(t, r)
           /\ ~button /\ net # "connecting" /\ \A e \in LoginEvents : ~Reviving(e)
           /\ msg[t] \in SP!Messages /\ msg[t].conn = Conn
           /\ pc \in [Tasks -> SP!PCs] /\ result \in [Tasks -> SP!Results]
           /\ replies \in [{Conn} -> Seq(SP!Replies)]
  <1>1. t \in Tasks /\ Busy = {t} /\ Unread = {} /\ \E r \in requests : Fits(t, r)
    BY DEF LinkInv, PipeInv, Busy
  <1>2. uplink = <<>>
    BY NoUplink DEF LinkInv, PipeInv, ClientInv
  <1>3. ~button /\ net # "connecting" /\ \A e \in LoginEvents : ~Reviving(e)
    BY <1>1, TurnFacts DEF Reviving, ClientInv
  <1>4. msg[t] \in SP!Messages
    BY <1>1 DEF Busy, SP!TypeInv, SP!TaskInv
  <1> QED
    BY <1>1, <1>2, <1>3, <1>4 DEF SP!Messages, SP!TypeInv, SP!TypeOK

\* A handler's steps other than its reply.
LEMMA LinkWork ==
    ASSUME ClientInv, SP!TypeInv, SP!LoginInv, LinkInv, NEW t \in Tasks,
           \/ \E o \in Server!ApiOutcomes : Server!VersionAnswer(t, o) \/ Server!LoginAnswer(t, o)
           \/ Server!StoreField(t) \/ Server!SendThrows(t),
           UNCHANGED <<clientVars, linkVars>>
    PROVE  LinkInv'
  <1>0. UNCHANGED <<queue, mailbox, net, requests, button, loggedIn, accepted, uplink, read>>
    BY DEF clientVars, linkVars
  <1>1. t \in Busy
    BY DEF Server!VersionAnswer, Server!LoginAnswer, Server!StoreField, Server!SendThrows, Busy
  <1>2. /\ Busy = {t} /\ Unread = {} /\ uplink = <<>> /\ \E r \in requests : Fits(t, r)
        /\ ~button /\ net # "connecting" /\ \A e \in LoginEvents : ~Reviving(e)
        /\ msg[t].conn = Conn
        /\ pc \in [Tasks -> SP!PCs] /\ result \in [Tasks -> SP!Results]
    BY <1>1, BusyFacts
  <1>3. UNCHANGED <<msg, replies, socket, clients, overlapped, LoginEvents>>
    BY <1>0 DEF Server!VersionAnswer, Server!LoginAnswer, Server!StoreField, Server!SendThrows,
       Server!registry, LoginEvents
  <1>4. /\ pc'[t] \in {"storing", "sending", "unsent"}
        /\ \A u \in Tasks \ {t} : pc'[u] = pc[u] /\ result'[u] = result[u]
        /\ pc[t] = "sending" => pc'[t] = "unsent" /\ result'[t] = result[t]
        /\ pc[t] # "calling" => result'[t] = result[t]
        /\ msg[t].kind = "login" => result'[t] = result[t] \/ result'[t] = "success"
        /\ stage' = stage \/ (msg[t].kind = "login" /\ result'[t] = "success")
    BY <1>2 DEF Server!VersionAnswer, Server!LoginAnswer, Server!LoginAccepted, Server!StoreField,
       Server!SendThrows, Server!userVars
  <1>5. ReadInv' /\ CleanInv'
    BY <1>0, <1>1, <1>3, <1>4 DEF LinkInv, ReadInv, CleanInv, NoRaceOnServer, Busy
  <1>6. Busy' \subseteq {t} /\ Unread' = {}
    BY <1>0, <1>2, <1>3, <1>4 DEF Busy, Unread
  <1>7. PipeInv'
    <2>1. DOMAIN uplink' = {}
      BY <1>0, <1>2
    <2>2. \E r \in requests' : Fits(t, r)'
      BY <1>0, <1>2, <1>3 DEF Fits
    <2> QED
      BY <1>6, <2>1, <2>2 DEF PipeInv
  <1>8. ReplyInv'
    <2>1. pc[t] # "answered" /\ pc[t] # "idle"
      BY <1>1 DEF Busy
    <2> QED
      BY <1>3, <1>4, <2>1 DEF LinkInv, ReplyInv
  <1>9. SpentInv'
    <2>1. CASE stage[Conn] = "Authenticated"
      <3>1. msg[t].kind = "login" /\ result[t] = "success"
        BY <1>1, <2>1 DEF LinkInv, SpentInv
      <3>2. pc[t] # "calling"
        BY <3>1 DEF SP!LoginInv, SP!ResultInv
      <3> QED
        BY <1>0, <1>2, <1>3, <1>4, <1>6, <3>1, <3>2 DEF SpentInv
    <2>2. CASE stage[Conn] # "Authenticated"
      BY <1>0, <1>2, <1>3, <1>4, <1>6, <2>2 DEF SpentInv
    <2> QED
      BY <2>1, <2>2
  <1>10. GrantInv'
    <2>1. \A token : StoredFor(token) => StoredFor(token)'
      BY <1>1, <1>3, <1>4 DEF StoredFor, SP!Stored, Busy
    <2> QED
      BY <1>0, <1>3, <2>1 DEF LinkInv, GrantInv
  <1> QED
    BY <1>5, <1>7, <1>8, <1>9, <1>10 DEF LinkInv

LEMMA LinkReply ==
    ASSUME ClientInv, SP!TypeInv, LinkInv, NEW t \in Tasks, Server!Reply(t),
           UNCHANGED <<clientVars, linkVars>>
    PROVE  LinkInv'
  <1> DEFINE reply == [task |-> t, kind |-> msg[t].kind, result |-> result[t]]
             sent == replies[Conn]
             n == Len(sent) + 1
  <1>0. UNCHANGED <<queue, mailbox, net, requests, button, loggedIn, accepted, uplink, read>>
    BY DEF clientVars, linkVars
  <1>1. t \in Busy
    BY DEF Server!Reply, Busy
  <1>2. /\ Busy = {t} /\ Unread = {} /\ uplink = <<>> /\ \E r \in requests : Fits(t, r)
        /\ msg[t] \in SP!Messages /\ msg[t].conn = Conn
        /\ pc \in [Tasks -> SP!PCs] /\ result \in [Tasks -> SP!Results]
        /\ replies \in [{Conn} -> Seq(SP!Replies)]
    BY <1>1, BusyFacts
  <1>3. UNCHANGED <<msg, result, stage, socket, clients, overlapped, LoginEvents>>
    BY <1>0 DEF Server!Reply, Server!registry, Server!userVars, LoginEvents
  <1>4. pc' = [pc EXCEPT ![t] = "answered"] /\ replies'[Conn] = Append(sent, reply)
    BY <1>2 DEF Server!Reply
  <1>5. reply \in SP!Replies
    BY <1>2 DEF SP!Replies, SP!Messages
  <1>6. /\ Len(sent) \in Nat /\ DOMAIN sent = 1..Len(sent)
        /\ DOMAIN replies'[Conn] = 1..n
        /\ \A i \in DOMAIN sent : replies'[Conn][i] = sent[i]
        /\ replies'[Conn][n] = reply /\ Len(replies'[Conn]) = n
    <2>1. sent \in Seq(SP!Replies)
      BY <1>2
    <2> HIDE DEF sent, reply
    <2> QED
      BY <1>4, <1>5, <2>1, AppendProperties, LenProperties
  <1>7. read = Len(sent)
    BY <1>2, <1>6 DEF LinkInv, ReadInv, Unread
  <1> HIDE DEF sent
  <1>8. Busy' = {} /\ Unread' = {n}
    <2>1. Busy' = {}
      BY <1>2, <1>4 DEF Busy
    <2>2. Unread' = {n}
      BY <1>0, <1>6, <1>7 DEF Unread
    <2> QED
      BY <2>1, <2>2
  <1>9. ReadInv'
    BY <1>0, <1>6, <1>7 DEF ReadInv
  <1>10. PipeInv'
    <2>1. DOMAIN uplink' = {}
      BY <1>0, <1>2
    <2>2. \E r \in requests' : msg'[t].kind = r.id /\ msg'[t].cred = r.token
      BY <1>0, <1>2, <1>3 DEF Fits
    <2>3. replies'[Conn][n].task = t
      BY <1>6
    <2> QED
      BY <1>8, <2>1, <2>2, <2>3 DEF PipeInv, Fits
  <1>11. ReplyInv'
    <2>1. \A i \in DOMAIN sent : sent[i].task # t
      BY <1>1 DEF LinkInv, ReplyInv, Busy, sent
    <2>2. \A i \in DOMAIN replies'[Conn] : i \in DOMAIN sent \/ i = n
      BY <1>6
    <2>3. reply.task = t /\ reply.kind = msg[t].kind /\ reply.result = result[t]
      OBVIOUS
    <2> HIDE DEF reply
    <2>4. ASSUME NEW i \in DOMAIN sent
          PROVE  /\ sent[i].task \in Tasks /\ pc'[sent[i].task] = "answered"
                 /\ msg[sent[i].task].kind = sent[i].kind /\ result[sent[i].task] = sent[i].result
      BY <1>2, <1>4, <2>1, <2>4 DEF LinkInv, ReplyInv, sent
    <2>5. \A u \in Tasks : pc'[u] # "idle" /\ msg'[u].kind = "login" => result'[u] # "update"
      BY <1>1, <1>2, <1>3, <1>4 DEF LinkInv, ReplyInv, Busy
    <2> QED
      BY <1>2, <1>3, <1>4, <1>6, <2>2, <2>3, <2>4, <2>5 DEF ReplyInv
  <1>12. SpentInv'
    BY <1>0, <1>1, <1>3, <1>6, <1>8 DEF LinkInv, SpentInv
  <1>13. GrantInv'
    <2>1. \A token : StoredFor(token) => StoredFor(token)'
      BY <1>2, <1>3, <1>4 DEF StoredFor, SP!Stored
    <2> QED
      BY <1>0, <1>3, <2>1 DEF LinkInv, GrantInv
  <1>14. CleanInv'
    BY <1>1, <1>2, <1>3, <1>4 DEF LinkInv, CleanInv, NoRaceOnServer, Busy
  <1> QED
    BY <1>9, <1>10, <1>11, <1>12, <1>13, <1>14 DEF LinkInv

\* The reply under way answers a request, so its id has a handler.
LEMMA Delivered ==
    ASSUME ClientInv, SP!TypeInv, LinkInv, Deliver
    PROVE  \E request \in requests, event \in ReplyEvents(replies[Conn][read + 1]) :
               /\ request.id = replies[Conn][read + 1].kind
               /\ Client!OnReply(request, event)
  <1> DEFINE reply == replies[Conn][read + 1]
  <1>1. read + 1 \in Unread
    <2>1. Len(replies[Conn]) \in Nat /\ DOMAIN replies[Conn] = 1..Len(replies[Conn])
      BY LenProperties DEF SP!TypeInv, SP!TypeOK
    <2> QED
      BY <2>1 DEF Deliver, LinkInv, ReadInv, Unread
  <1>2. \E r \in requests : r.id = reply.kind
    BY <1>1 DEF LinkInv, PipeInv, ReplyInv, Fits, Unread
  <1>3. reply.kind \in {"version", "login"}
    BY <1>2, RequestsTyped DEF ClientInv, Client!Requests
  <1>4. PICK event \in ReplyEvents(reply) :
            IF event = NoEvent THEN UNCHANGED clientVars
            ELSE \E request \in requests : request.id = reply.kind /\ Client!OnReply(request, event)
    BY DEF Deliver
  <1> HIDE DEF reply
  <1>5. event # NoEvent
    <2>1. \A m : VersionEvent(m) # NoEvent /\ LoginEvent(m) # NoEvent
      BY DEF VersionEvent, LoginEvent, NoEvent
    <2>2. PICK m \in MsgResponses(reply.kind, reply.result) :
              event = IF reply.kind = "version" THEN VersionEvent(m) ELSE LoginEvent(m)
      BY <1>3, <1>4, ReplyOpened
    <2> QED
      BY <2>1, <2>2
  <1> QED
    BY <1>4, <1>5 DEF reply

\* The reply under way answers the only request, with an event that tells what the
\* server stored.
LEMMA LinkDeliver ==
    ASSUME ClientInv, SP!TypeInv, LinkInv, Deliver
    PROVE  LinkInv'
  <1> DEFINE n == read + 1
             reply == replies[Conn][n]
  <1>1. PICK request \in requests, event \in ReplyEvents(reply) :
            request.id = reply.kind /\ Client!OnReply(request, event)
    BY Delivered
  <1>2. /\ read' = n
        /\ UNCHANGED <<uplink, pc, msg, result, replies, stage, socket, clients, overlapped>>
    BY DEF Deliver, serverVars
  <1>3. /\ queue' = queue \union {[type |-> event, token |-> request.token]}
        /\ requests' = requests \ {request}
        /\ UNCHANGED <<net, mailbox, button, loggedIn, accepted>>
    BY <1>1 DEF Client!OnReply, Client!Notify, Client!formVars, Client!infoVars
  <1>4. request.id \in {"version", "login"}
    BY RequestsTyped DEF ClientInv, Client!Requests
  <1>5. Len(replies[Conn]) \in Nat /\ DOMAIN replies[Conn] = 1..Len(replies[Conn])
    BY LenProperties DEF SP!TypeInv, SP!TypeOK
  <1>6. n \in DOMAIN replies[Conn] /\ n \in Unread /\ read \in Nat
    BY <1>5 DEF Deliver, LinkInv, ReadInv, Unread
  <1>7. Busy = {} /\ Unread' = {} /\ DOMAIN uplink = {}
    <2>1. \A i \in Unread : i = n
      BY <1>6 DEF LinkInv, PipeInv
    <2>2. Unread' = {}
      BY <1>2, <1>5, <1>6, <2>1 DEF Unread
    <2> QED
      BY <1>6, <2>2 DEF LinkInv, PipeInv
  <1>8. ReadInv' /\ ReplyInv' /\ CleanInv'
    BY <1>2, <1>5, <1>6 DEF LinkInv, ReadInv, ReplyInv, CleanInv, NoRaceOnServer
  <1>9. PipeInv'
    <2>1. Busy' = {} /\ DOMAIN uplink' = {}
      BY <1>2, <1>7 DEF Busy
    <2> QED
      BY <1>7, <2>1 DEF PipeInv
  <1>10. LoginEvents' = LoginEvents \union {[type |-> event, token |-> request.token]}
    BY <1>3 DEF LoginEvents
  <1>11. SpentInv'
    <2> SUFFICES ASSUME stage[Conn] = "Authenticated" PROVE SpentInv'
      BY <1>2 DEF SpentInv
    <2>1. reply.kind = "login" /\ reply.result = "success"
      BY <1>6 DEF LinkInv, SpentInv
    <2> HIDE DEF reply
    <2>2. event \notin {"ConnectSuccess", "VersionSuccess", "LoginFailed"}
      BY <2>1, ReplyEventsTruthful
    <2>3. Busy' = {}
      BY <1>2, <1>7 DEF Busy
    <2> QED
      BY <1>2, <1>3, <1>7, <1>10, <2>2, <2>3 DEF LinkInv, SpentInv, Reviving
  <1>12. event = "LoginSuccess" => StoredFor(request.token)
    <2> SUFFICES ASSUME event = "LoginSuccess" PROVE StoredFor(request.token)
      OBVIOUS
    <2>1. /\ reply.task \in Tasks /\ pc[reply.task] = "answered"
          /\ msg[reply.task].kind = reply.kind /\ result[reply.task] = reply.result
      BY <1>6 DEF LinkInv, ReplyInv
    <2>2. reply.kind = "login" /\ reply.result # "failure"
      <3> HIDE DEF reply
      <3> QED
        BY <1>1, <1>4, VersionIsNoLogin, ReplyEventsTruthful
    <2>3. \E r \in requests : Fits(reply.task, r)
      BY <1>6 DEF LinkInv, PipeInv
    <2> HIDE DEF reply
    <2>4. msg[reply.task].cred = request.token
      BY <2>3, TurnFacts DEF Fits, ClientInv
    <2>5. result[reply.task] = "success"
      BY <2>1, <2>2 DEF LinkInv, ReplyInv, SP!TypeInv, SP!TypeOK, SP!Results
    <2>6. msg[reply.task].conn = Conn
      BY <2>1 DEF SP!TypeInv, SP!TaskInv, SP!Messages
    <2> QED
      BY <2>1, <2>2, <2>4, <2>5, <2>6 DEF StoredFor, SP!Stored
  <1>13. GrantInv'
    <2>1. \A token : StoredFor(token)' <=> StoredFor(token)
      BY <1>2 DEF StoredFor, SP!Stored
    <2> QED
      BY <1>3, <1>10, <1>12, <2>1 DEF LinkInv, GrantInv
  <1> QED
    BY <1>8, <1>9, <1>11, <1>13 DEF LinkInv

LEMMA LinkStep ==
    ClientInv /\ SP!TypeInv /\ SP!LoginInv /\ LinkInv /\ [Next]_vars => LinkInv'
  <1> SUFFICES ASSUME ClientInv, SP!TypeInv, SP!LoginInv, LinkInv, [Next]_vars PROVE LinkInv'
    OBVIOUS
  <1>1. CASE UNCHANGED vars \/ ServerEnds
    BY <1>1, LinkQuiet DEF vars, ServerEnds, clientVars, serverVars, linkVars, quietVars
  <1>2. CASE Accept \/ ServerLoses
    BY <1>2, LinkQuiet DEF Accept, ServerLoses, Server!OnOpen, Server!OnError, Server!OnClose,
       Server!AddClient, Server!RemoveClient, Server!userVars, Server!taskVars, clientVars,
       linkVars, quietVars, SP!TypeInv, SP!TypeOK
  <1>3. CASE ServerStops
    BY <1>3, LinkQuiet DEF ServerStops, Server!Stop, Server!StopBegin, Server!StopVisit,
       Server!StopEnd, Server!RemoveClient, Server!registry, Server!userVars, Server!taskVars,
       clientVars, linkVars, quietVars
  <1>4. CASE Connected \/ ClientLoses
    BY <1>4, LinkNetwork
  <1>5. CASE ClientDispatches \/ ClientDialogs \/ ClientPosts \/ ClientUsed
    BY <1>5, OwnMoves, LinkOwn DEF ClientDispatches, ClientDialogs, ClientPosts, ClientUsed, ClientInv
  <1>6. CASE Receive
    BY <1>6, LinkReceive
  <1>7. CASE ServerHandles
    BY <1>7, LinkWork, LinkReply DEF ServerHandles, Server!HandlerStep
  <1>8. CASE Deliver
    BY <1>8, LinkDeliver
  <1> QED
    BY <1>1, <1>2, <1>3, <1>4, <1>5, <1>6, <1>7, <1>8 DEF Next

LEMMA LinkInvariant == Spec => [](ClientInv /\ SP!TypeInv /\ SP!LoginInv /\ LinkInv)
  BY LinkInit, LinkStep, ClientInvariant, ServerInvariant, PTL DEF Spec

\* However threads, sockets, Stop and the user interleave, no two logins of this
\* client meet in the server's check-then-authenticate window, and the server drops
\* none of its requests but those of a client it removed.
THEOREM NoRace == Spec => []NoRaceOnServer
  <1>1. LinkInv => NoRaceOnServer
    BY DEF LinkInv, CleanInv
  <1> QED
    BY <1>1, LinkInvariant, PTL

\* A client that is logged in is authenticated on the server under the very token
\* whose login it was told of.
THEOREM BothSidesAgree == Spec => []ServerAgrees
  <1>1. ClientInv /\ SP!TypeInv /\ SP!LoginInv /\ LinkInv => ServerAgrees
    <2> SUFFICES ASSUME SP!TypeInv, SP!LoginInv, LinkInv, loggedIn
                 PROVE  /\ stage[Conn] = "Authenticated"
                        /\ \A f \in Server!Fields : identity[Conn][f] = accepted
      BY DEF ServerAgrees
    <2>1. PICK t \in Tasks : SP!Stored(t, Conn) /\ msg[t].cred = accepted
      BY DEF LinkInv, GrantInv, StoredFor
    <2>2. SP!Accepted(t, Conn) /\ pc[t] # "storing"
      BY <2>1 DEF SP!Stored, SP!Accepted
    <2>3. Conn \in {Conn} \ overlapped
      BY DEF LinkInv, CleanInv, NoRaceOnServer
    <2>4. stage[Conn] = "Authenticated" /\ written[t] = SP!LastField
      BY <2>2 DEF SP!LoginInv, SP!AcceptedInv
    <2>5. \A f \in 1..written[t] : identity[Conn][f] = msg[t].cred
      BY <2>2, <2>3 DEF SP!LoginInv, SP!AloneInv
    <2> QED
      BY <2>1, <2>4, <2>5 DEF Server!Fields, SP!LastField
  <1> QED
    BY <1>1, LinkInvariant, PTL

-------------------------------------------------------------------------------
(* No request vanishes.                                                      *)

\* As long as the client is registered its request is somewhere.
FlowInv ==
    Conn \in clients /\ requests # {} => DOMAIN uplink # {} \/ Busy # {} \/ Unread # {}

\* Where nothing leaves the pipe and nothing new is asked.
LEMMA FlowQuiet ==
    ASSUME FlowInv, UNCHANGED <<requests, uplink, read, pc, replies>>,
           clients' \subseteq clients \/ requests = {}
    PROVE  FlowInv'
  BY DEF FlowInv, Busy, Unread

\* A handler that the client is registered for ends only by replying.
LEMMA FlowWork ==
    ASSUME ClientInv, SP!TypeInv, SP!NoGhostClients, LinkInv, FlowInv,
           NEW t \in Tasks, Server!HandlerStep(t), UNCHANGED <<clientVars, linkVars>>
    PROVE  FlowInv'
  <1>0. UNCHANGED <<requests, uplink, read>>
    BY DEF clientVars, linkVars
  <1>1. CASE \/ \E o \in Server!ApiOutcomes : Server!VersionAnswer(t, o) \/ Server!LoginAnswer(t, o)
             \/ Server!StoreField(t)
    <2>1. t \in Busy
      BY <1>1 DEF Server!VersionAnswer, Server!LoginAnswer, Server!StoreField, Busy
    <2>2. pc \in [Tasks -> SP!PCs]
      BY DEF SP!TypeInv, SP!TypeOK
    <2>3. pc'[t] \in {"storing", "sending"}
      BY <1>1, <2>2 DEF Server!VersionAnswer, Server!LoginAnswer, Server!LoginAccepted, Server!StoreField
    <2>4. t \in Busy'
      BY <2>3 DEF Busy
    <2> QED
      BY <2>4 DEF FlowInv
  <1>2. CASE Server!SendThrows(t)
    <2>1. t \in Busy
      BY <1>2 DEF Server!SendThrows, Busy
    <2>2. msg[t].conn = Conn
      BY <2>1, BusyFacts
    <2>3. socket[Conn] # "open" /\ clients' = clients
      BY <1>2, <2>2 DEF Server!SendThrows, Server!registry
    <2>4. Conn \notin clients'
      BY <2>3 DEF SP!NoGhostClients
    <2> QED
      BY <2>4 DEF FlowInv
  <1>3. CASE Server!Reply(t)
    <2> DEFINE reply == [task |-> t, kind |-> msg[t].kind, result |-> result[t]]
               sent == replies[Conn]
    <2>1. t \in Busy
      BY <1>3 DEF Server!Reply, Busy
    <2>2. /\ msg[t] \in SP!Messages /\ msg[t].conn = Conn
          /\ result \in [Tasks -> SP!Results] /\ sent \in Seq(SP!Replies)
          /\ replies \in [{Conn} -> Seq(SP!Replies)]
      BY <2>1, BusyFacts
    <2>3. reply \in SP!Replies /\ replies'[Conn] = Append(sent, reply)
      BY <1>3, <2>2 DEF SP!Replies, SP!Messages, Server!Reply
    <2> HIDE DEF reply, sent
    <2>4. Len(sent) \in Nat /\ DOMAIN replies'[Conn] = 1..Len(sent) + 1
      BY <2>2, <2>3, AppendProperties, LenProperties
    <2>5. read' <= Len(sent)
      BY <1>0, <2>4 DEF LinkInv, ReadInv, sent
    <2>6. Len(sent) + 1 \in Unread'
      <3>1. read \in Nat
        BY <2>4 DEF LinkInv, ReadInv, sent
      <3> QED
        BY <1>0, <2>4, <2>5, <3>1 DEF Unread
    <2> QED
      BY <2>6 DEF FlowInv
  <1> QED
    BY <1>1, <1>2, <1>3 DEF Server!HandlerStep

LEMMA FlowStep ==
    ClientInv /\ SP!TypeInv /\ SP!NoGhostClients /\ LinkInv /\ FlowInv /\ [Next]_vars => FlowInv'
  <1> SUFFICES ASSUME ClientInv, SP!TypeInv, SP!NoGhostClients, LinkInv, FlowInv, [Next]_vars
               PROVE  FlowInv'
    OBVIOUS
  <1>1. CASE UNCHANGED vars \/ ServerEnds
    BY <1>1, FlowQuiet DEF vars, ServerEnds, clientVars, serverVars, linkVars
  \* A client that is not accepted yet has asked nothing.
  <1>2. CASE Accept
    <2>1. requests = {}
      BY <1>2, TurnFacts DEF Accept, ClientInv
    <2> QED
      BY <1>2, <2>1, FlowQuiet DEF Accept, Server!OnOpen, Server!taskVars, clientVars, linkVars
  <1>3. CASE ServerLoses
    BY <1>3, FlowQuiet DEF ServerLoses, Server!OnError, Server!OnClose, Server!RemoveClient,
       Server!taskVars, clientVars, linkVars
  <1>4. CASE ServerStops
    BY <1>4, FlowQuiet DEF ServerStops, Server!Stop, Server!StopBegin, Server!StopVisit,
       Server!StopEnd, Server!RemoveClient, Server!registry, Server!taskVars, clientVars, linkVars
  <1>5. CASE Connected \/ ClientLoses
    BY <1>5, FlowQuiet DEF Connected, ClientLoses, Client!OnConnect, Client!OnFail, Client!OnClose,
       serverVars, linkVars
  <1>6. CASE ClientDispatches \/ ClientDialogs \/ ClientPosts \/ ClientUsed
    <2>1. ClientMoves /\ Transmit
      BY <1>6, OwnMoves DEF ClientDispatches, ClientDialogs, ClientPosts, ClientUsed, ClientInv
    <2>2. UNCHANGED <<read, pc, replies, clients>>
      BY <2>1 DEF Transmit, serverVars
    <2>3. CASE requests' \subseteq requests
      <3>1. uplink' = uplink /\ (requests' # {} => requests # {})
        BY <2>1, <2>3 DEF Transmit
      <3> QED
        BY <2>2, <3>1 DEF FlowInv, Busy, Unread
    <2>4. CASE ~(requests' \subseteq requests)
      <3>1. PICK r \in requests' : uplink' = Append(uplink, r)
        BY <2>1, <2>4 DEF Transmit
      <3>2. requests' \subseteq Client!Requests
        <4>1. CP!TurnInv'
          BY <1>6, ClientSteps, TurnStays DEF Next, ClientInv
        <4> QED
          BY <4>1 DEF CP!TurnInv, CP!TypeOK, CP!Requests, Client!Requests
      <3>3. uplink \in Seq(Client!Requests) /\ r \in Client!Requests
        BY <3>2 DEF ClientInv, UplinkOK
      <3>4. Len(uplink) \in Nat /\ DOMAIN uplink' = 1..Len(uplink) + 1
        BY <3>1, <3>3, AppendProperties, LenProperties
      <3>5. 1 \in DOMAIN uplink'
        BY <3>4
      <3> QED
        BY <3>5 DEF FlowInv
    <2> QED
      BY <2>3, <2>4
  \* The server drops a request only if it removed the client.
  <1>7. CASE Receive
    <2>1. PICK t \in Tasks : \E m : Server!OnMessage(t, m) /\ m.kind \in {"version", "login"}
      BY <1>7, ReceivedMessage DEF Client!Requests
    <2>2. pc'[t] \in {"calling", "dropped"}
      <3>1. pc \in [Tasks -> SP!PCs]
        BY DEF SP!TypeInv, SP!TypeOK
      <3> QED
        BY <2>1, <3>1 DEF Server!OnMessage, Server!ProcessMessageAsync, Server!HandleMessage,
           Server!VerifyVersionAsync, Server!LoginAsync, Server!Drop
    <2>3. LinkInv'
      BY <1>7, LinkReceive
    <2>4. Conn \in clients' => t \in Busy'
      BY <2>2, <2>3 DEF LinkInv, CleanInv, NoRaceOnServer, Busy
    <2> QED
      BY <2>4 DEF FlowInv
  <1>8. CASE ServerHandles
    BY <1>8, FlowWork DEF ServerHandles
  \* What is received was the only request.
  <1>9. CASE Deliver
    <2>1. PICK request \in requests : requests' = requests \ {request}
      BY <1>9, Delivered DEF Client!OnReply
    <2>2. requests' = {}
      BY <2>1, TurnFacts DEF ClientInv
    <2> QED
      BY <2>2 DEF FlowInv
  <1> QED
    BY <1>1, <1>2, <1>3, <1>4, <1>5, <1>6, <1>7, <1>8, <1>9 DEF Next

LEMMA FlowInvariant == Spec => []FlowInv
  <1>1. Init => FlowInv
    BY DEF Init, Client!Init, FlowInv
  <1> QED
    BY <1>1, FlowStep, ClientInvariant, ServerInvariant, ServerRegistry, LinkInvariant, PTL DEF Spec

\* What the three places hold, in numbers.
LEMMA PlaceCounts ==
    ASSUME ClientInv, SP!TypeInv, LinkInv
    PROVE  /\ Len(uplink) = IF DOMAIN uplink = {} THEN 0 ELSE 1
           /\ Cardinality(Handling) = IF Busy = {} THEN 0 ELSE 1
           /\ Len(replies[Conn]) - read = IF Unread = {} THEN 0 ELSE 1
           /\ Cardinality(requests) = IF requests = {} THEN 0 ELSE 1
  <1>1. Len(uplink) = IF DOMAIN uplink = {} THEN 0 ELSE 1
    <2>1. Len(uplink) \in Nat /\ DOMAIN uplink = 1..Len(uplink)
      BY LenProperties DEF ClientInv, UplinkOK
    <2>2. \A i \in 1..Len(uplink) : i = 1
      BY <2>1 DEF LinkInv, PipeInv
    <2>3. Len(uplink) > 1 => 2 \in 1..Len(uplink)
      BY <2>1
    <2>4. Len(uplink) = 1 => 1 \in DOMAIN uplink
      BY <2>1
    <2> QED
      BY <2>1, <2>2, <2>3, <2>4
  <1>2. Cardinality(Handling) = IF Busy = {} THEN 0 ELSE 1
    <2>1. Handling = Busy
      BY DEF Handling, Busy
    <2>2. Busy = {} \/ \E t : Busy = {t}
      BY DEF LinkInv, PipeInv
    <2> HIDE DEF Handling, Busy
    <2> QED
      BY <2>1, <2>2, FS_EmptySet, FS_Singleton
  <1>3. Len(replies[Conn]) - read = IF Unread = {} THEN 0 ELSE 1
    <2> DEFINE n == Len(replies[Conn])
    <2>1. n \in Nat /\ DOMAIN replies[Conn] = 1..n
      BY LenProperties DEF SP!TypeInv, SP!TypeOK
    <2>2. read \in 0..n /\ \A i, j \in Unread : i = j
      BY DEF LinkInv, ReadInv, PipeInv
    <2> HIDE DEF n
    <2>3. Unread = read + 1..n
      BY <2>1, <2>2 DEF Unread
    <2>4. read < n - 1 => n \in Unread /\ n - 1 \in Unread
      BY <2>1, <2>2, <2>3
    <2>5. read = n - 1 => n \in Unread
      BY <2>1, <2>2, <2>3
    <2>6. read = n => Unread = {}
      BY <2>1, <2>2, <2>3
    <2>7. read >= n - 1
      BY <2>1, <2>2, <2>4
    <2> QED
      BY <2>1, <2>2, <2>5, <2>6, <2>7 DEF n
  <1>4. Cardinality(requests) = IF requests = {} THEN 0 ELSE 1
    <2>1. \A q, r \in requests : q = r
      BY TurnFacts DEF ClientInv
    <2>2. requests = {} \/ \E r : requests = {r}
      BY <2>1
    <2> QED
      BY <2>2, FS_EmptySet, FS_Singleton
  <1> QED
    BY <1>1, <1>2, <1>3, <1>4

\* However threads, losses and Stop interleave, the client's request is in exactly
\* one place between sending and receiving until the server removes the client, and
\* nothing else is under way.
THEOREM NothingVanishes == Spec => []RequestsConserved
  <1>1. ClientInv /\ SP!TypeInv /\ LinkInv /\ FlowInv => RequestsConserved
    <2> SUFFICES ASSUME ClientInv, SP!TypeInv, LinkInv, FlowInv PROVE RequestsConserved
      OBVIOUS
    <2>1. /\ Len(uplink) = IF DOMAIN uplink = {} THEN 0 ELSE 1
          /\ Cardinality(Handling) = IF Busy = {} THEN 0 ELSE 1
          /\ Len(replies[Conn]) - read = IF Unread = {} THEN 0 ELSE 1
          /\ Cardinality(requests) = IF requests = {} THEN 0 ELSE 1
      BY PlaceCounts
    <2>2. DOMAIN uplink # {} => Busy = {} /\ Unread = {} /\ requests # {}
      BY DEF LinkInv, PipeInv
    <2>3. Busy # {} => Unread = {} /\ requests # {}
      BY DEF LinkInv, PipeInv
    <2>4. Unread # {} => requests # {}
      BY DEF LinkInv, PipeInv
    <2>5. Conn \in clients /\ requests # {} => DOMAIN uplink # {} \/ Busy # {} \/ Unread # {}
      BY DEF FlowInv
    <2> HIDE DEF Handling, Busy, Unread
    <2>6. UnderWay = (IF DOMAIN uplink = {} THEN 0 ELSE 1) + (IF Busy = {} THEN 0 ELSE 1)
                         + (IF Unread = {} THEN 0 ELSE 1)
      BY <2>1 DEF UnderWay
    <2> HIDE DEF UnderWay
    <2>7. UnderWay = IF DOMAIN uplink = {} /\ Busy = {} /\ Unread = {} THEN 0 ELSE 1
      <3>1. CASE DOMAIN uplink # {}
        <4>1. UnderWay = 1 + 0 + 0
          BY <2>2, <2>6, <3>1
        <4> QED
          BY <3>1, <4>1
      <3>2. CASE DOMAIN uplink = {} /\ Busy # {}
        <4>1. UnderWay = 0 + 1 + 0
          BY <2>3, <2>6, <3>2
        <4> QED
          BY <3>2, <4>1
      <3>3. CASE DOMAIN uplink = {} /\ Busy = {}
        <4>1. UnderWay = 0 + 0 + (IF Unread = {} THEN 0 ELSE 1)
          BY <2>6, <3>3
        <4> QED
          BY <3>3, <4>1
      <3> QED
        BY <3>1, <3>2, <3>3
    <2> QED
      BY <2>1, <2>2, <2>3, <2>4, <2>5, <2>7 DEF RequestsConserved
  <1> QED
    BY <1>1, FlowInvariant, LinkInvariant, PTL

\* For any number of requests, no version request is answered late and no second
\* login is under way once the server authenticated the client.
THEOREM NothingComesLate == Spec => []NothingLate
  <1>1. ClientInv /\ SP!TypeInv /\ LinkInv => NothingLate
    <2> SUFFICES ASSUME ClientInv, SP!TypeInv, LinkInv, stage[Conn] = "Authenticated"
                 PROVE  /\ uplink = <<>>
                        /\ \A t \in Handling : msg[t].kind = "login"
                        /\ \A i \in read + 1..Len(replies[Conn]) : replies[Conn][i].kind = "login"
      BY DEF NothingLate
    <2>1. /\ uplink = <<>>
          /\ \A t \in Busy : msg[t].kind = "login"
          /\ \A i \in Unread : replies[Conn][i].kind = "login"
      BY DEF LinkInv, SpentInv
    <2>2. read \in Nat /\ Len(replies[Conn]) \in Nat /\ DOMAIN replies[Conn] = 1..Len(replies[Conn])
      BY LenProperties DEF LinkInv, ReadInv, SP!TypeInv, SP!TypeOK
    <2>3. \A i \in read + 1..Len(replies[Conn]) : i \in Unread
      BY <2>2 DEF Unread
    <2> QED
      BY <2>1, <2>3 DEF Handling, Busy
  <1> QED
    BY <1>1, LinkInvariant, PTL

-------------------------------------------------------------------------------
(* Types and the wire.                                                      *)

\* The system's variables keep their types.
THEOREM TypeCorrect == Spec => []TypeOK
  <1> DEFINE UpOK == up \in BOOLEAN
  <1>1. CP!TurnInv => Client!TypeOK
    BY DEF CP!TurnInv, CP!TypeOK, CP!BusTypeOK, CP!NoWindow, CP!ClientEvents, CP!EventTypes,
       CP!Requests, CP!Boxes, Client!TypeOK, Client!BusTypeOK, Client!NoWindow,
       Client!ClientEvents, Client!EventTypes, Client!Requests, Client!Boxes
  <1>2. SP!TypeInv => Server!TypeOK
    BY DEF SP!TypeInv, SP!TypeOK, SP!SocketStates, SP!Stages, SP!Fields, SP!PCs, SP!Messages,
       SP!Kinds, SP!Results, SP!LastField, SP!Replies, Server!TypeOK, Server!SocketStates,
       Server!Stages, Server!Fields, Server!PCs, Server!Messages, Server!Kinds, Server!Results,
       Server!LastField, Server!Replies
  <1>3. Init => UpOK
    BY DEF Init
  <1>4. UpOK /\ [Next]_vars => UpOK'
    BY DEF Next, vars, Accept, Connected, ClientLoses, ServerLoses, ServerEnds, ClientDispatches,
       ClientDialogs, ClientPosts, ClientUsed, Transmit, Receive, ServerHandles, ServerStops, Deliver
  <1>5. ClientInv /\ SP!TypeInv /\ LinkInv /\ UpOK => TypeOK
    BY <1>1, <1>2 DEF ClientInv, UplinkOK, LinkInv, ReadInv, TypeOK
  <1> HIDE DEF UpOK
  <1> QED
    BY <1>3, <1>4, <1>5, LinkInvariant, PTL DEF Spec

\* Every response that the server may send can be read, in both of its builds.
LEMMA ResponsesUnderstood ==
    ASSUME NEW reply, reply.kind \in {"version", "login"},
           reply.result \in {"success", "update", "failure"}
    PROVE  "ParseMessageError" \notin ReplyEvents(reply)
  <1> SUFFICES ASSUME NEW m \in MsgResponses(reply.kind, reply.result)
               PROVE  /\ reply.kind = "version" => VersionEvent(m) # "ParseMessageError"
                      /\ reply.kind = "login" => LoginEvent(m) # "ParseMessageError"
    BY ReplyOpened
  <1>1. CASE reply.result = "failure"
    <2>1. m.success = "false" /\ m.message = "text"
      BY <1>1 DEF MsgResponses, FailureText
    <2> QED
      BY <2>1 DEF VersionEvent, LoginEvent, ReadsResponse
  <1>2. CASE reply.result # "failure"
    <2>1. m.success = "true" /\ m.message = "text"
      BY <1>2 DEF MsgResponses
    <2>2. CASE reply.kind = "version"
      <3>1. m.data = MsgVersionResponse(reply.result)
        BY <1>2, <2>2 DEF MsgResponses
      <3>2. ReadsVersionResponse(m.data)
        BY <3>1 DEF MsgVersionResponse, ReadsVersionResponse
      <3> QED
        BY <2>1, <2>2, <3>2 DEF VersionEvent, ReadsResponse
    <2>3. CASE reply.kind = "login"
      <3>1. m.data = MsgLoginResponse
        BY <1>2, <2>3 DEF MsgResponses
      <3>2. ReadsLoginResponse(m.data)
        BY <3>1 DEF MsgLoginResponse, ReadsLoginResponse
      <3> QED
        BY <2>1, <2>3, <3>2 DEF LoginEvent, ReadsResponse
    <2> QED
      BY <2>2, <2>3
  <1> QED
    BY <1>1, <1>2

\* The same as AlwaysUnderstood, one place of an event at a time.
Understood ==
    /\ \A e \in queue \union lost : e.type # "ParseMessageError"
    /\ \A w \in {"login", "main"} : \A i \in DOMAIN mailbox[w] :
           mailbox[w][i].type # "ParseMessageError"

LEMMA UnderstoodMoves ==
    ASSUME mailbox \in Mailboxes, Understood,
           \/ Client!Move \/ Client!Halt \/ Client!Reset
           \/ \E w \in {"login", "main"} : Client!Open(w) \/ Client!Destroy(w) \/ Client!Handle(w)
    PROVE  Understood'
  <1> USE DEF Understood
  <1>1. \A w \in {"login", "main"} : /\ mailbox[w] \in Seq(Client!ClientEvents)
                                     /\ Len(mailbox[w]) \in Nat
                                     /\ DOMAIN mailbox[w] = 1..Len(mailbox[w])
    BY LenProperties DEF Mailboxes
  <1>2. ASSUME NEW e \in Client!ClientEvents, Client!Post(e) PROVE Understood'
    <2>1. e \in queue /\ queue' \subseteq queue
      BY <1>2 DEF Client!Post, Client!Foremost
    <2>2. CASE target \in live
      <3>1. mailbox' = [mailbox EXCEPT ![target] = Append(mailbox[target], e)] /\ lost' = lost
        BY <1>2, <2>2 DEF Client!Post
      <3>2. ASSUME NEW w \in {"login", "main"}, NEW i \in DOMAIN mailbox'[w]
            PROVE  mailbox'[w][i].type # "ParseMessageError"
        <4>1. CASE w = target
          <5>1. mailbox'[w] = Append(mailbox[w], e)
            BY <3>1, <4>1 DEF Mailboxes
          <5>2. i \in DOMAIN mailbox[w] \/ i = Len(mailbox[w]) + 1
            BY <1>1, <3>2, <5>1, AppendProperties, LenProperties
          <5>3. mailbox'[w][i] = e \/ (i \in DOMAIN mailbox[w] /\ mailbox'[w][i] = mailbox[w][i])
            BY <1>1, <5>1, <5>2, AppendProperties
          <5> QED
            BY <2>1, <5>3
        <4>2. CASE w # target
          <5>1. mailbox'[w] = mailbox[w]
            BY <3>1, <4>2 DEF Mailboxes
          <5> QED
            BY <3>2, <5>1
        <4> QED
          BY <4>1, <4>2
      <3> QED
        BY <2>1, <3>1, <3>2
    <2>3. CASE target \notin live
      BY <1>2, <2>1, <2>3 DEF Client!Post
    <2> QED
      BY <2>2, <2>3
  <1>3. ASSUME NEW w \in {"login", "main"}, Client!Destroy(w) PROVE Understood'
    <2>1. mailbox' = [mailbox EXCEPT ![w] = <<>>] /\ DOMAIN <<>> = {}
      BY <1>3, EmptySeq DEF Client!Destroy
    <2>2. \A v \in {"login", "main"} : \A i \in DOMAIN mailbox'[v] :
              i \in DOMAIN mailbox[v] /\ mailbox'[v][i] = mailbox[v][i]
      BY <2>1 DEF Mailboxes
    <2> QED
      BY <1>3, <2>2 DEF Client!Destroy
  <1>4. ASSUME NEW w \in {"login", "main"}, Client!Handle(w) PROVE Understood'
    <2>1. mailbox' = [mailbox EXCEPT ![w] = Tail(@)] /\ mailbox[w] # <<>>
      BY <1>4 DEF Client!Handle
    <2>2. \A i \in DOMAIN Tail(mailbox[w]) :
              i + 1 \in DOMAIN mailbox[w] /\ Tail(mailbox[w])[i] = mailbox[w][i + 1]
      BY <1>1, <2>1, HeadTailProperties, LenProperties, EmptySeq
    <2>3. ASSUME NEW v \in {"login", "main"}, NEW i \in DOMAIN mailbox'[v]
          PROVE  \E j \in DOMAIN mailbox[v] : mailbox'[v][i] = mailbox[v][j]
      BY <2>1, <2>2, <2>3 DEF Mailboxes
    <2> QED
      BY <1>4, <2>3 DEF Client!Handle
  <1>5. CASE \/ Client!Aim \/ Client!Halt \/ Client!Reset
             \/ \E w \in {"login", "main"} : Client!Open(w)
    BY <1>5 DEF Client!Aim, Client!Halt, Client!Reset, Client!Open
  <1> QED
    BY <1>2, <1>3, <1>4, <1>5 DEF Client!Move

LEMMA UnderstoodStep ==
    ClientInv /\ SP!TypeInv /\ LinkInv /\ Understood /\ [Next]_vars => Understood'
  <1> SUFFICES ASSUME ClientInv, SP!TypeInv, LinkInv, Understood, [Next]_vars PROVE Understood'
    OBVIOUS
  <1>1. CASE UNCHANGED <<queue, lost, mailbox>>
    BY <1>1 DEF Understood
  <1>2. ASSUME NEW e, Client!Notify(e), e.type # "ParseMessageError" PROVE Understood'
    BY <1>2 DEF Client!Notify, Understood
  <1>3. CASE Connected \/ ClientLoses
    <2>1. /\ Client!Event("ConnectSuccess").type = "ConnectSuccess"
          /\ Client!Event("ConnectError").type = "ConnectError"
      BY DEF Client!Event
    <2> QED
      BY <1>2, <1>3, <2>1 DEF Connected, ClientLoses, Client!OnConnect, Client!OnFail, Client!OnClose
  <1>4. CASE Deliver
    <2> DEFINE reply == replies[Conn][read + 1]
    <2>1. PICK request \in requests, event \in ReplyEvents(reply) :
              request.id = reply.kind /\ Client!OnReply(request, event)
      BY <1>4, Delivered
    <2>2. reply \in SP!Replies
      <3>1. replies[Conn] \in Seq(SP!Replies)
        BY DEF SP!TypeInv, SP!TypeOK
      <3>2. read + 1 \in 1..Len(replies[Conn])
        BY <1>4, LenProperties, <3>1 DEF Deliver, LinkInv, ReadInv
      <3> QED
        BY <3>1, <3>2, ElementOfSeq
    <2>3. reply.kind \in {"version", "login"}
      BY <2>1, RequestsTyped DEF ClientInv, Client!Requests
    <2>4. reply.result \in {"success", "update", "failure"}
      BY <2>2 DEF SP!Replies, SP!Results
    <2> HIDE DEF reply
    <2>5. event # "ParseMessageError"
      BY <2>1, <2>3, <2>4, ResponsesUnderstood
    <2> QED
      BY <1>2, <2>1, <2>5 DEF Client!OnReply
  <1>5. CASE ClientDispatches \/ ClientDialogs \/ ClientPosts \/ ClientUsed
    <2>1. mailbox \in Mailboxes
      BY MailboxesTyped DEF ClientInv
    <2> QED
      BY <1>1, <1>5, <2>1, UnderstoodMoves DEF ClientDispatches, ClientDialogs, ClientPosts,
         ClientUsed, Client!OnClientEvent, Client!Dialogs, Client!OpenLogin, Client!DestroyLogin,
         Client!DestroyMain, Client!LeaveDialog, Client!BoxExpires, Client!CloseBox,
         Client!EndProcess, Client!Posting, Client!NotifierDies, Client!User, Client!EditToken,
         Client!OnOK, Client!OnCloseDialog, Client!UserClosesBox, Client!eventVars
  <1>6. CASE UNCHANGED vars
    BY <1>1, <1>6 DEF vars, clientVars
  <1>7. CASE Accept \/ ServerLoses \/ ServerEnds \/ Receive \/ ServerHandles \/ ServerStops
    BY <1>1, <1>7 DEF Accept, ServerLoses, ServerEnds, Receive, ServerHandles, ServerStops, clientVars
  <1> QED
    BY <1>3, <1>4, <1>5, <1>6, <1>7 DEF Next

\* Whatever the web API answers and however the server was built, the client never
\* meets a message it cannot read.
THEOREM Understanding == Spec => []AlwaysUnderstood
  <1>1. Init => Understood
    BY EmptySeq DEF Init, Client!Init, Client!BusInit, Understood
  <1>2. ClientInv /\ Understood => AlwaysUnderstood
    <2> SUFFICES ASSUME ClientInv, Understood PROVE AlwaysUnderstood
      OBVIOUS
    <2>1. DOMAIN mailbox = {"login", "main"}
      BY MailboxesTyped DEF ClientInv, Mailboxes
    <2> QED
      BY <2>1 DEF Understood, AlwaysUnderstood
  <1> QED
    BY <1>1, <1>2, UnderstoodStep, LinkInvariant, PTL DEF Spec
===============================================================================
