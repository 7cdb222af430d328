------------------------ MODULE LoaderRefinementProofs ------------------------
(***************************************************************************)
(* Client and server together implement LoginProtocol, for any set of       *)
(* tokens, both builds of the server and any number of requests.            *)
(***************************************************************************)
EXTENDS LoaderSystemProofs

-------------------------------------------------------------------------------
(* The token of the login in flight, as a predicate.                        *)

Answers(e) == e.type \in {"LoginSuccess", "LoginFailed"}

Pending(a) ==
    \/ \E r \in requests : r.id = "login" /\ r.token = a
    \/ \E e \in LoginEvents : Answers(e) /\ e.token = a

LEMMA PendingTokens ==
    /\ \A a : a \in LoginTokens <=> Pending(a)
    /\ \A a : a \in LoginTokens' <=> Pending(a)'
  BY DEF LoginTokens, Client!Unhandled, LoginEvents, Pending, Answers

\* There is one thing at most on its way through the client.
LEMMA OneOnItsWay ==
    ASSUME CP!TurnInv
    PROVE  \A d, e \in LoginEvents : d.type # "ConnectError" /\ e.type # "ConnectError" => d = e
  BY DEF CP!TurnInv, CP!Turn, CP!Queued, CP!Arrived, CP!Posted, CP!Carries, LoginEvents

LEMMA OnePending == CP!TurnInv => \A a, b : Pending(a) /\ Pending(b) => a = b
  <1> SUFFICES ASSUME CP!TurnInv, NEW a, NEW b, Pending(a), Pending(b) PROVE a = b
    OBVIOUS
  <1>1. \A e \in LoginEvents : Answers(e) => e.type # "ConnectError" /\ requests = {}
    BY TurnFacts DEF Answers
  <1>2. \A d, e \in LoginEvents : Answers(d) /\ Answers(e) => d = e
    BY <1>1, OneOnItsWay
  <1>3. \A q, r \in requests : q = r
    BY TurnFacts
  <1> QED
    BY <1>1, <1>2, <1>3 DEF Pending

-------------------------------------------------------------------------------
(* The refinement mapping, one situation of the client at a time.           *)

Early == ui \in {"start", "login"}
Gone == ui \in {"closing", "closed", "ended"}

Mapping ==
    /\ \A a : Pending(a) /\ ~loggedIn => Asked = a /\ (Early => Phase = "asking")
    /\ (\A a : ~Pending(a)) =>
           /\ Asked = NoToken
           /\ Early /\ ~loggedIn => Phase = IF versionOK THEN "verified" ELSE "unverified"
    /\ loggedIn => Phase = "in" /\ Asked = NoToken
    /\ Gone /\ ~loggedIn => Phase = "out"

LEMMA MappingHolds == CP!TurnInv => Mapping
  <1> SUFFICES ASSUME CP!TurnInv PROVE Mapping
    OBVIOUS
  <1>1. ASSUME NEW a, Pending(a), ~loggedIn PROVE Asked = a /\ (Early => Phase = "asking")
    <2>1. LoginTokens = {a}
      BY <1>1, OnePending, PendingTokens
    <2> HIDE DEF LoginTokens
    <2> QED
      BY <1>1, <2>1 DEF Asked, Phase, Early
  <1>2. ASSUME \A a : ~Pending(a)
        PROVE  /\ Asked = NoToken
               /\ Early /\ ~loggedIn => Phase = IF versionOK THEN "verified" ELSE "unverified"
    <2>1. LoginTokens = {}
      BY <1>2, PendingTokens
    <2> HIDE DEF LoginTokens
    <2> QED
      BY <2>1 DEF Asked, Phase, Early
  <1>3. loggedIn => Phase = "in" /\ Asked = NoToken
    BY DEF Phase, Asked
  <1>4. Gone /\ ~loggedIn => Phase = "out"
    BY DEF Phase, Gone
  <1> QED
    BY <1>1, <1>2, <1>3, <1>4 DEF Mapping

LEMMA MappingNext == CP!TurnInv' => Mapping'
  BY MappingHolds, PTL

-------------------------------------------------------------------------------
(* Where the UI thread is and where events go.                              *)

\* Until the login dialog ends, what is posted reaches it; the main dialog comes
\* after a login only.
DialogInv ==
    /\ ui \in {"main", "closingMain", "closedMain"} => loggedIn
    /\ ui = "start" => active = Client!NoWindow /\ target = Client!NoWindow
    /\ ui = "login" => /\ "login" \in live /\ active = "login"
                       /\ target \in {"login", Client!NoWindow}

LEMMA DialogInit == Init => DialogInv
  BY DEF Init, Client!Init, Client!BusInit, DialogInv

\* A login succeeds at most once and is not taken back.
LEMMA LoggedInStays == loggedIn /\ [Client!Next]_clientVars => loggedIn'
  <1> SUFFICES ASSUME loggedIn, [Client!Next]_clientVars PROVE loggedIn'
    OBVIOUS
  <1> USE DEF Client!infoVars
  <1>1. CASE UNCHANGED clientVars
    BY <1>1 DEF clientVars
  <1>2. CASE Client!Network \/ Client!Posting \/ Client!NotifierDies
    BY <1>2 DEF Client!Network, Client!OnConnect, Client!OnFail, Client!OnClose, Client!OnMessage,
       Client!OnReply, Client!Posting, Client!NotifierDies
  <1>3. CASE Client!User \/ Client!Dialogs
    BY <1>3 DEF Client!User, Client!EditToken, Client!OnOK, Client!OnCloseDialog,
       Client!UserClosesBox, Client!CloseBox, Client!Dialogs, Client!OpenLogin,
       Client!DestroyLogin, Client!DestroyMain, Client!LeaveDialog, Client!BoxExpires
  <1>4. CASE Client!OnClientEvent
    <2>1. ASSUME NEW e, Client!Dispatch(e) PROVE loggedIn'
      BY <2>1 DEF Client!Dispatch, Client!OnError, Client!OnConnectSuccess, Client!OnVersionUpdate,
         Client!OnVersionFailed, Client!OnVersionSuccess, Client!OnLoginSuccess, Client!OnLoginFailed
    <2>2. ASSUME NEW e, Client!DispatchMain(e) PROVE loggedIn'
      BY <2>2 DEF Client!DispatchMain, Client!OnError
    <2> QED
      BY <1>4, <2>1, <2>2 DEF Client!OnClientEvent
  <1> QED
    BY <1>1, <1>2, <1>3, <1>4 DEF Client!Next

LEMMA DialogStep == DialogInv /\ [Client!Next]_clientVars => DialogInv'
  <1> SUFFICES ASSUME DialogInv, [Client!Next]_clientVars PROVE DialogInv'
    OBVIOUS
  <1>0. loggedIn => loggedIn'
    BY LoggedInStays
  <1> USE DEF DialogInv
  <1>1. CASE UNCHANGED <<ui, active, target, live>>
    BY <1>0, <1>1
  <1>2. CASE Client!Network
    BY <1>1, <1>2 DEF Client!Network, Client!OnConnect, Client!OnFail, Client!OnClose,
       Client!OnMessage, Client!OnReply, Client!Notify
  <1>3. CASE Client!Posting
    BY <1>0, <1>3 DEF Client!Posting, Client!Move, Client!Aim, Client!Post
  <1>4. CASE Client!NotifierDies
    BY <1>1, <1>4 DEF Client!NotifierDies, Client!Halt
  <1>5. CASE Client!OnClientEvent
    <2>1. UNCHANGED <<active, target, live>>
      BY <1>5 DEF Client!OnClientEvent, Client!Handle
    <2>2. CASE ui = "login" /\ Client!Dispatch(Head(mailbox["login"]))
      <3>1. ui' \in {"login", "closing"}
        BY <2>2 DEF Client!Dispatch, Client!OnError, Client!OnConnectSuccess,
           Client!OnVersionUpdate, Client!OnVersionFailed, Client!OnVersionSuccess,
           Client!OnLoginSuccess, Client!OnLoginFailed
      <3> QED
        BY <2>1, <2>2, <3>1
    <2>3. CASE ui = "main" /\ Client!DispatchMain(Head(mailbox["main"]))
      BY <1>1, <2>1, <2>3 DEF Client!DispatchMain, Client!OnError
    <2> QED
      BY <1>5, <2>2, <2>3 DEF Client!OnClientEvent
  <1>6. ASSUME NEW token, Client!EditToken(token) PROVE DialogInv'
    BY <1>1, <1>6 DEF Client!EditToken, Client!eventVars
  <1>7. CASE Client!OnOK
    BY <1>1, <1>7 DEF Client!OnOK, Client!eventVars
  <1>8. CASE Client!OnCloseDialog
    BY <1>0, <1>8 DEF Client!OnCloseDialog
  <1>9. CASE Client!UserClosesBox \/ Client!BoxExpires
    <2>1. ui' = "ended" \/ UNCHANGED <<ui, active, target, live>>
      BY <1>9 DEF Client!UserClosesBox, Client!BoxExpires, Client!CloseBox, Client!EndProcess,
         Client!eventVars
    <2> QED
      BY <1>1, <2>1
  <1>10. CASE Client!OpenLogin
    BY <1>10 DEF Client!OpenLogin, Client!Open
  <1>11. CASE Client!DestroyLogin \/ Client!DestroyMain \/ Client!LeaveDialog
    BY <1>0, <1>11 DEF Client!DestroyLogin, Client!DestroyMain, Client!LeaveDialog, Client!EndProcess
  <1>12. CASE UNCHANGED clientVars
    BY <1>1, <1>12 DEF clientVars
  <1> QED
    BY <1>2, <1>3, <1>4, <1>5, <1>6, <1>7, <1>8, <1>9, <1>10, <1>11, <1>12
       DEF Client!Next, Client!User, Client!Dialogs

-------------------------------------------------------------------------------
(* What the server granted.                                                 *)

LastCred == identity[Conn][Server!LastField]

LEMMA GrantedIs == Granted = IF LastCred = NoCred THEN NoToken ELSE LastCred
  BY DEF Granted, LastCred

\* The last identity field is written only by a login that thereby stored all.
FieldInv == LastCred # NoCred => \E t \in Tasks : SP!Stored(t, Conn)

LEMMA FieldInit == Init => FieldInv
  BY DEF Init, Server!Init, FieldInv, LastCred, Server!LastField, Server!Fields

\* What the setters of a login find and leave.
LEMMA SetterFacts ==
    ASSUME SP!TypeInv, SP!LoginInv, CleanInv, FieldInv, NEW t \in Tasks, Server!StoreField(t)
    PROVE  /\ LastCred = NoCred
           /\ \/ LastCred' = NoCred
              \/ LastCred' = msg[t].cred /\ SP!Stored(t, Conn)'
  <1>1. /\ pc[t] = "storing" /\ msg[t].kind = "login" /\ result[t] = "success"
        /\ msg[t] \in SP!Messages /\ msg[t].conn = Conn
        /\ pc \in [Tasks -> SP!PCs] /\ written[t] \in 0..SP!LastField
        /\ identity \in [{Conn} -> [SP!Fields -> (Tokens \union {NoToken}) \union {NoCred}]]
    BY DEF Server!StoreField, SP!TypeInv, SP!TypeOK, SP!TaskInv, SP!Messages
  <1>2. \A u \in Tasks : ~SP!Stored(u, Conn)
    <2> SUFFICES ASSUME NEW u \in Tasks, SP!Stored(u, Conn) PROVE FALSE
      OBVIOUS
    <2>1. SP!Accepted(t, Conn) /\ SP!Accepted(u, Conn) /\ u # t
      BY <1>1 DEF SP!Accepted, SP!Stored
    <2>2. Conn \in {Conn} \ overlapped
      BY DEF CleanInv, NoRaceOnServer
    <2> QED
      BY <2>1, <2>2 DEF SP!LoginInv, SP!AloneInv
  <1>3. LastCred = NoCred
    BY <1>2 DEF FieldInv
  <1>4. /\ identity' = [identity EXCEPT ![Conn][written[t] + 1] = msg[t].cred]
        /\ pc' = [pc EXCEPT ![t] = IF written[t] + 1 = Server!LastField THEN "sending" ELSE "storing"]
        /\ UNCHANGED <<msg, result>>
    BY <1>1 DEF Server!StoreField
  <1>5. CASE written[t] + 1 = Server!LastField
    <2>1. pc'[t] = "sending"
      BY <1>1, <1>4, <1>5
    <2>2. SP!Stored(t, Conn)'
      BY <1>1, <1>4, <2>1 DEF SP!Stored
    <2>3. LastCred' = msg[t].cred
      BY <1>1, <1>4, <1>5 DEF LastCred, Server!LastField, SP!Fields
    <2> QED
      BY <1>3, <2>2, <2>3
  <1>6. CASE written[t] + 1 # Server!LastField
    <2>1. LastCred' = LastCred
      BY <1>1, <1>4, <1>6 DEF LastCred, Server!LastField, SP!Fields
    <2> QED
      BY <1>3, <2>1
  <1> QED
    BY <1>5, <1>6

\* Nothing else writes identity fields, and a finished login stays one.
LEMMA OtherSteps ==
    ASSUME SP!TypeInv, [Server!Next]_(Server!vars),
           \A t \in Tasks : ~Server!StoreField(t)
    PROVE  /\ identity' = identity
           /\ \A t \in Tasks : SP!Stored(t, Conn) => SP!Stored(t, Conn)'
  <1>0. pc \in [Tasks -> SP!PCs] /\ result \in [Tasks -> SP!Results]
    BY DEF SP!TypeInv, SP!TypeOK
  <1> USE DEF SP!Stored, Server!registry, Server!userVars, Server!taskVars, Server!stopVars
  <1>1. CASE UNCHANGED <<identity, pc, msg, result>>
    BY <1>1
  <1>2. CASE UNCHANGED Server!vars
    BY <1>1, <1>2 DEF Server!vars
  <1>3. CASE Server!SocketEvent(Conn) \/ Server!Stop
    BY <1>1, <1>3 DEF Server!SocketEvent, Server!OnOpen, Server!OnError, Server!OnClose,
       Server!Stop, Server!StopBegin, Server!StopVisit, Server!StopEnd
  <1>4. ASSUME NEW t \in Tasks, NEW m \in Server!Messages, Server!OnMessage(t, m)
        PROVE  identity' = identity /\ \A u \in Tasks : SP!Stored(u, Conn) => SP!Stored(u, Conn)'
    <2>1. pc[t] = "idle" /\ msg' = [msg EXCEPT ![t] = m] /\ UNCHANGED <<identity, result>>
      BY <1>4 DEF Server!OnMessage
    <2>2. \E p : pc' = [pc EXCEPT ![t] = p]
      BY <1>4 DEF Server!OnMessage, Server!ProcessMessageAsync, Server!HandleMessage,
         Server!VerifyVersionAsync, Server!LoginAsync, Server!Drop
    <2>3. \A u \in Tasks \ {t} : pc'[u] = pc[u] /\ msg'[u] = msg[u]
      BY <1>0, <2>1, <2>2 DEF SP!TypeInv, SP!TypeOK
    <2> QED
      BY <2>1, <2>3
  <1>5. ASSUME NEW t \in Tasks, NEW o \in Server!ApiOutcomes,
               Server!VersionAnswer(t, o) \/ Server!LoginAnswer(t, o)
        PROVE  identity' = identity /\ \A u \in Tasks : SP!Stored(u, Conn) => SP!Stored(u, Conn)'
    <2>1. pc[t] = "calling" /\ UNCHANGED <<identity, msg>>
      BY <1>5 DEF Server!VersionAnswer, Server!LoginAnswer
    <2>2. \A u \in Tasks \ {t} : pc'[u] = pc[u] /\ result'[u] = result[u]
      BY <1>0, <1>5 DEF Server!VersionAnswer, Server!LoginAnswer, Server!LoginAccepted
    <2> QED
      BY <2>1, <2>2
  <1>6. ASSUME NEW t \in Tasks, Server!Reply(t) \/ Server!SendThrows(t)
        PROVE  identity' = identity /\ \A u \in Tasks : SP!Stored(u, Conn) => SP!Stored(u, Conn)'
    BY <1>0, <1>6 DEF Server!Reply, Server!SendThrows
  <1> QED
    BY <1>2, <1>3, <1>4, <1>5, <1>6 DEF Server!Next, Server!HandlerStep

LEMMA FieldStep ==
    ASSUME SP!TypeInv, SP!LoginInv, CleanInv, FieldInv, [Server!Next]_(Server!vars)
    PROVE  FieldInv'
  <1>1. ASSUME NEW t \in Tasks, Server!StoreField(t) PROVE FieldInv'
    BY <1>1, SetterFacts DEF FieldInv
  <1>2. CASE \A t \in Tasks : ~Server!StoreField(t)
    <2>1. LastCred' = LastCred
      BY <1>2, OtherSteps DEF LastCred
    <2> QED
      BY <1>2, <2>1, OtherSteps DEF FieldInv
  <1> QED
    BY <1>1, <1>2

\* A login that stored all was granted, and authenticated the client.
LEMMA StoredIsGranted ==
    ASSUME SP!TypeInv, SP!LoginInv, CleanInv, NEW token, StoredFor(token)
    PROVE  LastCred = token
  <1>1. PICK t \in Tasks : SP!Stored(t, Conn) /\ msg[t].cred = token
    BY DEF StoredFor
  <1>2. SP!Accepted(t, Conn) /\ pc[t] # "storing"
    BY <1>1 DEF SP!Stored, SP!Accepted
  <1>3. Conn \in {Conn} \ overlapped
    BY DEF CleanInv, NoRaceOnServer
  <1>4. written[t] = SP!LastField
    BY <1>2 DEF SP!LoginInv, SP!AcceptedInv
  <1>5. \A f \in 1..written[t] : identity[Conn][f] = msg[t].cred
    BY <1>2, <1>3 DEF SP!LoginInv, SP!AloneInv
  <1> QED
    BY <1>1, <1>4, <1>5 DEF LastCred, Server!LastField, SP!LastField

LEMMA GrantedIsAuthenticated ==
    ASSUME SP!LoginInv, FieldInv, LastCred # NoCred
    PROVE  stage[Conn] = "Authenticated"
  <1>1. PICK t \in Tasks : SP!Stored(t, Conn)
    BY DEF FieldInv
  <1>2. SP!Accepted(t, Conn)
    BY <1>1 DEF SP!Stored, SP!Accepted
  <1> QED
    BY <1>2 DEF SP!LoginInv, SP!AcceptedInv

-------------------------------------------------------------------------------
(* How the login in flight travels.                                         *)

SamePending == \A a : Pending(a)' <=> Pending(a)
LessPending == \A a : Pending(a)' => Pending(a)

LEMMA QuietPending == LoginEvents' = LoginEvents /\ requests' = requests => SamePending
  BY DEF SamePending, Pending

LEMMA ShrinkingPending ==
    LoginEvents' \subseteq LoginEvents /\ requests' \subseteq requests => LessPending
  BY DEF LessPending, Pending

LEMMA ConnectionPending ==
    ASSUME Connected \/ ClientLoses
    PROVE  SamePending
  <1>1. PICK type \in {"ConnectSuccess", "ConnectError"} : queue' = queue \union {Client!Event(type)}
    BY DEF Connected, ClientLoses, Client!OnConnect, Client!OnFail, Client!OnClose, Client!Notify
  <1>2. UNCHANGED <<mailbox, requests>>
    BY DEF Connected, ClientLoses, Client!OnConnect, Client!OnFail, Client!OnClose, Client!Notify
  <1>3. LoginEvents' = LoginEvents \union {Client!Event(type)} /\ ~Answers(Client!Event(type))
    BY <1>1, <1>2 DEF LoginEvents, Client!Event, Answers
  <1> QED
    BY <1>2, <1>3 DEF SamePending, Pending

\* The request's token lives on in the event that reports its answer.
LEMMA DeliverPending ==
    ASSUME ClientInv, SP!TypeInv, LinkInv, Deliver
    PROVE  SamePending
  <1> DEFINE reply == replies[Conn][read + 1]
  <1>1. PICK request \in requests : \E event \in ReplyEvents(reply) :
            request.id = reply.kind /\ Client!OnReply(request, event)
    BY Delivered
  <1>2. PICK event \in ReplyEvents(reply) :
            request.id = reply.kind /\ Client!OnReply(request, event)
    BY <1>1
  <1>3. reply \in SP!Replies
    <2>1. replies[Conn] \in Seq(SP!Replies)
      BY DEF SP!TypeInv, SP!TypeOK
    <2>2. read + 1 \in 1..Len(replies[Conn])
      BY <2>1, LenProperties DEF Deliver, LinkInv, ReadInv
    <2> QED
      BY <2>1, <2>2, ElementOfSeq
  <1>4. request.id \in {"version", "login"}
    BY RequestsTyped DEF ClientInv, Client!Requests
  <1>5. reply.kind = request.id /\ reply.result \in {"success", "update", "failure"}
    BY <1>2, <1>3 DEF SP!Replies, SP!Results
  <1> HIDE DEF reply
  <1>6. event # "ParseMessageError"
    BY <1>4, <1>5, ResponsesUnderstood
  <1>7. request.id = "login" <=> event \in {"LoginSuccess", "LoginFailed"}
    BY <1>2, <1>4, <1>5, <1>6, ReplyOpened DEF VersionEvent, LoginEvent
  <1> DEFINE e == [type |-> event, token |-> request.token]
  <1>8. (Answers(e) <=> request.id = "login") /\ e.token = request.token
    BY <1>7 DEF Answers
  <1>9. LoginEvents' = LoginEvents \union {e} /\ requests' = requests \ {request}
    BY <1>2 DEF Client!OnReply, Client!Notify, LoginEvents
  <1> HIDE DEF e
  <1>10. \A r \in requests : r = request
    BY TurnFacts DEF ClientInv
  <1> QED
    BY <1>8, <1>9, <1>10 DEF SamePending, Pending

LEMMA HandleKeeps ==
    ASSUME mailbox \in Mailboxes, Client!Handle("login")
    PROVE  LoginEvents \subseteq LoginEvents' \union {Head(mailbox["login"])}
  <1> DEFINE mail == mailbox["login"]
  <1>1. mail \in Seq(Client!ClientEvents) /\ mail # <<>>
    BY DEF Mailboxes, Client!Handle
  <1>2. mailbox'["login"] = Tail(mail) /\ queue' = queue
    BY DEF Mailboxes, Client!Handle
  <1>3. Len(mail) \in Nat /\ DOMAIN mail = 1..Len(mail) /\ Head(mail) = mail[1]
    BY <1>1, LenProperties
  <1>4. DOMAIN Tail(mail) = 1..Len(mail) - 1 /\ \A i \in DOMAIN Tail(mail) : Tail(mail)[i] = mail[i + 1]
    BY <1>1, <1>3, HeadTailProperties, LenProperties
  <1> HIDE DEF mail
  <1>5. ASSUME NEW i \in DOMAIN mail, i # 1 PROVE i - 1 \in DOMAIN Tail(mail) /\ Tail(mail)[i - 1] = mail[i]
    BY <1>3, <1>4, <1>5
  <1>6. ASSUME NEW i \in DOMAIN mail PROVE mail[i] \in LoginEvents' \union {Head(mail)}
    BY <1>2, <1>3, <1>5, <1>6 DEF LoginEvents
  <1> QED
    BY <1>2, <1>6 DEF LoginEvents, mail

\* While the login dialog is up, posting an event brings it to the dialog.
LEMMA PostingKeeps ==
    ASSUME mailbox \in Mailboxes, Client!Move, DialogInv, Early
    PROVE  LoginEvents' = LoginEvents
  <1>1. LoginEvents' \subseteq LoginEvents
    BY NoNewEvents
  <1>2. CASE Client!Aim
    BY <1>2 DEF Client!Aim, LoginEvents
  <1>3. ASSUME NEW e \in Client!ClientEvents, Client!Post(e) PROVE LoginEvents \subseteq LoginEvents'
    <2> DEFINE mail == mailbox["login"]
    <2>1. target = "login" /\ target \in live /\ queue' = queue \ {e}
      BY <1>3 DEF Client!Post, DialogInv, Early, Client!NoWindow
    <2>2. mailbox'["login"] = Append(mail, e)
      BY <1>3, <2>1 DEF Client!Post, Mailboxes
    <2>3. mail \in Seq(Client!ClientEvents)
      BY DEF Mailboxes
    <2>4. Len(mail) \in Nat /\ DOMAIN mail = 1..Len(mail)
      BY <2>3, LenProperties
    <2> HIDE DEF mail
    <2>5. /\ DOMAIN Append(mail, e) = 1..Len(mail) + 1
          /\ \A i \in DOMAIN mail : Append(mail, e)[i] = mail[i]
          /\ Append(mail, e)[Len(mail) + 1] = e
      BY <2>3, <2>4, AppendProperties, LenProperties
    <2>6. e \in LoginEvents'
      BY <2>2, <2>4, <2>5 DEF LoginEvents
    <2>7. \A i \in DOMAIN mail : mail[i] \in LoginEvents'
      BY <2>2, <2>4, <2>5 DEF LoginEvents
    <2> QED
      BY <2>1, <2>6, <2>7 DEF LoginEvents, mail
  <1> QED
    BY <1>1, <1>2, <1>3 DEF Client!Move

\* The handler of an answer ends the login; other handlers leave it alone.
LEMMA HandlerPending ==
    ASSUME CP!TurnInv, Client!Handle("login"), NEW e, e = Head(mailbox["login"]),
           Client!Dispatch(e)
    PROVE  /\ e \in LoginEvents
           /\ Answers(e) => Pending(e.token) /\ \A a : ~Pending(a)'
           /\ ~Answers(e) => SamePending
  <1>0. mailbox \in Mailboxes
    BY MailboxesTyped
  <1>1. LoginEvents' \subseteq LoginEvents /\ LoginEvents \subseteq LoginEvents' \union {e}
    BY <1>0, NoNewEvents, HandleKeeps
  <1>2. e \in LoginEvents
    <2>1. mailbox["login"] \in Seq(Client!ClientEvents) /\ mailbox["login"] # <<>>
      BY <1>0 DEF Mailboxes, Client!Handle
    <2>2. 1 \in DOMAIN mailbox["login"] /\ e = mailbox["login"][1]
      BY <2>1, LenProperties, EmptySeq
    <2> QED
      BY <2>2 DEF LoginEvents
  <1>3. requests' = requests \/ requests' = requests \union {[id |-> "version", token |-> NoToken]}
    BY DEF Client!Dispatch, Client!OnError, Client!OnConnectSuccess, Client!SendMessageAsync,
       Client!OnVersionUpdate, Client!OnVersionFailed, Client!OnVersionSuccess,
       Client!OnLoginSuccess, Client!OnLoginFailed, Client!netVars
  <1>4. ASSUME Answers(e) PROVE Pending(e.token) /\ \A a : ~Pending(a)'
    <2>1. requests = {} /\ requests' = requests
      <3>1. e.type # "ConnectError" /\ e.type # "ConnectSuccess"
        BY <1>4 DEF Answers
      <3>2. requests = {}
        BY <1>2, <3>1, TurnFacts
      <3> QED
        BY <3>1, <3>2, <1>4 DEF Client!Dispatch, Client!OnError, Client!OnVersionUpdate,
           Client!OnVersionFailed, Client!OnVersionSuccess, Client!OnLoginSuccess,
           Client!OnLoginFailed, Client!netVars, Answers
    <2>2. /\ CP!Carries(e) /\ CP!BusTypeOK /\ CP!Turn /\ CP!Verified /\ CP!Handle("login")
          /\ e \in CP!ClientEvents
      BY <1>0, <1>1, <1>2, <1>4 DEF CP!TurnInv, CP!TypeOK, CP!Handle, Client!Handle, CP!Carries,
         Answers, LoginEvents, CP!BusTypeOK
    <2>3. ~CP!Arrived' /\ ~CP!Queued /\ queue' = queue
      BY <2>2, CP!HandleTurn
    <2>4. \A d \in LoginEvents' : ~Answers(d)
      BY <2>3 DEF LoginEvents, CP!Arrived, CP!Queued, CP!Carries, Answers, CP!Posted
    <2> QED
      BY <1>2, <1>4, <2>1, <2>4 DEF Pending
  <1>5. ASSUME ~Answers(e) PROVE SamePending
    <2>1. \A r : r.id = "login" => (r \in requests' <=> r \in requests)
      BY <1>3
    <2>2. \A d : Answers(d) => (d \in LoginEvents' <=> d \in LoginEvents)
      BY <1>1, <1>5
    <2> QED
      BY <2>1, <2>2 DEF SamePending, Pending
  <1> QED
    BY <1>2, <1>4, <1>5

\* The user's request: nothing was pending, and what is asked with is a token.
LEMMA OkPending ==
    ASSUME CP!TurnInv, Client!OnOK
    PROVE  /\ \A a : ~Pending(a)
           /\ button /\ versionOK /\ ui = "login"
           /\ UNCHANGED <<ui, loggedIn, versionOK>>
           /\ \/ SamePending
              \/ edit \in Tokens \ {NoToken} /\ \A a : Pending(a)' <=> a = edit
  <1>1. button /\ ui = "login" /\ UNCHANGED <<ui, loggedIn, versionOK, queue, mailbox>>
    BY DEF Client!OnOK, Client!infoVars, Client!eventVars
  <1>2. versionOK
    BY <1>1 DEF CP!TurnInv, CP!Verified
  <1>3. requests = {} /\ \A e \in LoginEvents : ~Answers(e)
    BY <1>1, TurnFacts DEF Answers
  <1>4. \A a : ~Pending(a)
    BY <1>3 DEF Pending
  <1>5. LoginEvents' = LoginEvents
    BY <1>1 DEF LoginEvents
  <1>6. CASE requests' = requests
    BY <1>1, <1>2, <1>4, <1>5, <1>6, QuietPending
  <1>7. CASE edit # NoToken /\ requests' = requests \union {[id |-> "login", token |-> edit]}
    <2>1. edit \in Tokens \ {NoToken}
      BY <1>7 DEF CP!TurnInv, CP!TypeOK
    <2>2. \A a : Pending(a)' <=> a = edit
      BY <1>3, <1>5, <1>7 DEF Pending
    <2> QED
      BY <1>1, <1>2, <1>4, <2>1, <2>2
  <1> QED
    BY <1>6, <1>7 DEF Client!OnOK, Client!SendMessageAsync, Client!netVars

OtherUse ==
    \/ Client!Dialogs \/ Client!Posting \/ Client!NotifierDies
    \/ Client!OnCloseDialog \/ Client!UserClosesBox
    \/ \E token \in Tokens \union {NoToken} : Client!EditToken(token)

\* No other step of the user, the dialogs or the notifier brings up a login.
LEMMA OtherPending ==
    ASSUME CP!TurnInv, OtherUse
    PROVE  LessPending /\ UNCHANGED <<loggedIn, versionOK>>
  <1> USE DEF OtherUse
  <1>1. LoginEvents' \subseteq LoginEvents
    BY OwnMoves DEF ClientMoves, Client!User
  <1>2. UNCHANGED <<requests, loggedIn, versionOK>>
    BY DEF Client!Dialogs, Client!OpenLogin, Client!DestroyLogin, Client!DestroyMain,
       Client!LeaveDialog, Client!BoxExpires, Client!CloseBox, Client!Posting, Client!NotifierDies,
       Client!OnCloseDialog, Client!UserClosesBox, Client!EditToken, Client!netVars, Client!infoVars
  <1> QED
    BY <1>1, <1>2, ShrinkingPending

LEMMA MainPending ==
    ASSUME CP!TurnInv, Client!Handle("main"), NEW e, Client!DispatchMain(e)
    PROVE  LessPending /\ UNCHANGED <<ui, loggedIn, versionOK>>
  <1>1. LoginEvents' \subseteq LoginEvents
    BY MailboxesTyped, NoNewEvents
  <1>2. UNCHANGED <<ui, requests, loggedIn, versionOK>>
    BY DEF Client!DispatchMain, Client!OnError, Client!netVars, Client!infoVars
  <1> QED
    BY <1>1, <1>2, ShrinkingPending

LEMMA ServerPending ==
    ASSUME UNCHANGED clientVars
    PROVE  SamePending /\ UNCHANGED <<Phase, Asked>>
  <1>1. UNCHANGED <<Phase, Asked>>
    BY DEF clientVars, Phase, Asked, LoginTokens, Client!Unhandled
  <1>2. LoginEvents' = LoginEvents /\ requests' = requests
    BY DEF clientVars, LoginEvents
  <1> QED
    BY <1>1, <1>2, QuietPending

\* The dialog does not ask with an empty token.
TokenInv == ~Pending(NoToken)

LEMMA TokenInit == Init => TokenInv
  BY EmptySeq DEF Init, Client!Init, Client!BusInit, TokenInv, Pending, LoginEvents

LEMMA TokenStep ==
    ASSUME ClientInv, SP!TypeInv, LinkInv, TokenInv, [Next]_vars
    PROVE  TokenInv'
  <1>0. CP!TurnInv
    BY DEF ClientInv
  <1>1. CASE SamePending \/ LessPending
    BY <1>1 DEF SamePending, LessPending, TokenInv
  <1>2. CASE UNCHANGED clientVars
    BY <1>1, <1>2, ServerPending
  <1>3. CASE Connected \/ ClientLoses
    BY <1>1, <1>3, ConnectionPending
  <1>4. CASE Deliver
    BY <1>1, <1>4, DeliverPending
  <1>5. CASE Client!OnOK
    BY <1>0, <1>1, <1>5, OkPending DEF TokenInv
  <1>6. CASE OtherUse
    BY <1>0, <1>1, <1>6, OtherPending
  <1>7. CASE Client!OnClientEvent
    <2>1. CASE Client!Handle("login") /\ Client!Dispatch(Head(mailbox["login"]))
      BY <1>0, <1>1, <2>1, HandlerPending DEF TokenInv
    <2>2. CASE Client!Handle("main") /\ Client!DispatchMain(Head(mailbox["main"]))
      BY <1>0, <1>1, <2>2, MainPending
    <2> QED
      BY <1>7, <2>1, <2>2 DEF Client!OnClientEvent
  <1> QED
    BY <1>2, <1>3, <1>4, <1>5, <1>6, <1>7 DEF Next, vars, Accept, ServerLoses, ServerEnds, Receive,
       ServerHandles, ServerStops, ClientDispatches, ClientDialogs, ClientPosts, ClientUsed,
       Client!User, OtherUse

\* As long as the login dialog is up, its events are kept.
LEMMA OtherKeeps ==
    ASSUME CP!TurnInv, DialogInv, OtherUse, Early'
    PROVE  Early /\ SamePending
  <1>1. Early /\ requests' = requests
    BY DEF Early, OtherUse, Client!Dialogs, Client!OpenLogin, Client!DestroyLogin,
       Client!DestroyMain, Client!LeaveDialog, Client!BoxExpires, Client!CloseBox,
       Client!EndProcess, Client!Posting, Client!NotifierDies, Client!OnCloseDialog,
       Client!UserClosesBox, Client!EditToken, Client!netVars
  <1>2. CASE Client!Posting
    BY <1>1, <1>2, MailboxesTyped, PostingKeeps, QuietPending DEF Client!Posting
  <1>3. CASE ~Client!Posting
    <2>1. UNCHANGED <<queue, mailbox>>
      BY <1>3 DEF Early, OtherUse, Client!Dialogs, Client!OpenLogin, Client!Open,
         Client!DestroyLogin, Client!DestroyMain, Client!LeaveDialog, Client!BoxExpires,
         Client!CloseBox, Client!EndProcess, Client!Halt, Client!NotifierDies,
         Client!OnCloseDialog, Client!Reset, Client!UserClosesBox, Client!EditToken,
         Client!eventVars
    <2>2. LoginEvents' = LoginEvents
      BY <2>1 DEF LoginEvents
    <2> QED
      BY <1>1, <2>2, QuietPending
  <1> QED
    BY <1>2, <1>3

-------------------------------------------------------------------------------
(* Every step is one of LoginProtocol or none.                              *)

SystemInv == /\ ClientInv /\ SP!TypeInv /\ SP!LoginInv /\ LinkInv
             /\ DialogInv /\ FieldInv /\ TokenInv

ProtocolStep == [Protocol!ProtocolNext]_(Protocol!protocolVars)

\* A client that is not in is in its login dialog, or out.
LEMMA EarlyOrGone == SystemInv /\ ~loggedIn => (Early \/ Gone) /\ ~(Early /\ Gone)
  BY DEF SystemInv, ClientInv, CP!TurnInv, CP!TypeOK, DialogInv, Early, Gone

\* The client moves nothing that the protocol knows of.
LEMMA StayingStutters ==
    ASSUME Mapping, Mapping', SamePending, UNCHANGED <<loggedIn, versionOK>>,
           loggedIn \/ (Early /\ Early') \/ (Gone /\ Gone')
    PROVE  UNCHANGED <<Asked>> /\ (Phase' = Phase)
  <1>1. CASE loggedIn
    BY <1>1 DEF Mapping
  <1>2. ASSUME ~loggedIn, NEW a, Pending(a) PROVE UNCHANGED <<Asked>> /\ Phase' = Phase
    BY <1>2 DEF Mapping, SamePending
  <1>3. CASE ~loggedIn /\ \A a : ~Pending(a)
    BY <1>3 DEF Mapping, SamePending
  <1> QED
    BY <1>1, <1>2, <1>3

\* The dialog is closed or the process ends.
LEMMA GoneLeaves ==
    ASSUME Mapping, Mapping', LessPending, ~loggedIn, ~loggedIn', Early \/ Gone, Gone',
           Granted' = Granted
    PROVE  Protocol!Leave
  <1>1. Phase' = "out" /\ Phase # "in"
    BY DEF Mapping
  <1>2. Asked' = Asked \/ Asked' = NoToken
    <2>1. ASSUME NEW a, Pending(a)' PROVE Asked' = Asked
      BY <2>1 DEF Mapping, LessPending
    <2>2. CASE \A a : ~Pending(a)'
      BY <2>2 DEF Mapping
    <2> QED
      BY <2>1, <2>2
  <1> QED
    BY <1>1, <1>2 DEF Protocol!Leave

\* The server's last setter grants what is asked; nothing else of it shows.
LEMMA ServerRefines ==
    ASSUME SystemInv, Mapping, UNCHANGED clientVars, [Server!Next]_(Server!vars)
    PROVE  ProtocolStep
  <1>0. Phase' = Phase /\ Asked' = Asked
    BY ServerPending
  <1>1. ASSUME Granted' = Granted PROVE ProtocolStep
    BY <1>0, <1>1 DEF ProtocolStep, Protocol!protocolVars
  <1>2. ASSUME NEW t \in Tasks, Server!StoreField(t) PROVE ProtocolStep
    <2>1. /\ LastCred = NoCred
          /\ LastCred' = NoCred \/ LastCred' = msg[t].cred
      BY <1>2, SetterFacts DEF SystemInv, LinkInv
    <2>2. Granted = NoToken /\ Granted' = IF LastCred' = NoCred THEN NoToken ELSE LastCred'
      <3>1. Granted' = IF LastCred' = NoCred THEN NoToken ELSE LastCred'
        BY DEF Granted, LastCred
      <3> QED
        BY <2>1, <3>1, GrantedIs
    <2>3. CASE LastCred' = NoCred
      BY <1>1, <2>2, <2>3
    <2>4. CASE LastCred' = msg[t].cred /\ LastCred' # NoCred
      <3>1. t \in Busy /\ msg[t].kind = "login"
        BY <1>2 DEF Server!StoreField, Busy, SystemInv, SP!TypeInv, SP!TaskInv
      <3>2. PICK r \in requests : Fits(t, r)
        BY <3>1 DEF SystemInv, LinkInv, PipeInv
      <3>3. Pending(msg[t].cred)
        BY <3>1, <3>2 DEF Fits, Pending
      <3>4. ~loggedIn
        <4>1. loggedIn => LastCred = accepted
          BY StoredIsGranted DEF SystemInv, LinkInv, GrantInv
        <4>2. accepted # NoCred
          BY ServerAssumptions DEF SystemInv, ClientInv, CP!TurnInv, CP!TypeOK
        <4> QED
          BY <2>1, <4>1, <4>2
      <3>5. Asked = msg[t].cred
        BY <3>3, <3>4 DEF Mapping
      <3>6. Asked # NoToken
        BY <3>3, <3>5 DEF SystemInv, TokenInv
      <3>7. Protocol!Grant
        BY <1>0, <2>2, <2>4, <3>5, <3>6 DEF Protocol!Grant
      <3> QED
        BY <3>7 DEF ProtocolStep, Protocol!ProtocolNext
    <2> QED
      BY <2>1, <2>3, <2>4
  <1>3. CASE \A t \in Tasks : ~Server!StoreField(t)
    <2>1. identity' = identity
      BY <1>3, OtherSteps DEF SystemInv
    <2>2. Granted' = Granted
      BY <2>1 DEF Granted
    <2> QED
      BY <1>1, <2>2
  <1> QED
    BY <1>2, <1>3

\* The user asks.
LEMMA OkRefines ==
    ASSUME SystemInv, Mapping, Mapping', Client!OnOK, Granted' = Granted
    PROVE  ProtocolStep
  <1>1. /\ \A a : ~Pending(a)
        /\ button /\ versionOK /\ ui = "login" /\ UNCHANGED <<ui, loggedIn, versionOK>>
        /\ SamePending \/ (edit \in Tokens \ {NoToken} /\ \A a : Pending(a)' <=> a = edit)
    BY OkPending DEF SystemInv, ClientInv
  <1>2. Early /\ Early'
    BY <1>1 DEF Early
  <1>3. CASE SamePending \/ loggedIn
    <2>1. Asked' = Asked /\ Phase' = Phase
      <3>1. CASE loggedIn
        BY <1>1, <3>1 DEF Mapping
      <3>2. CASE SamePending
        BY <1>1, <1>2, <3>2, StayingStutters
      <3> QED
        BY <1>3, <3>1, <3>2
    <2> QED
      BY <2>1 DEF ProtocolStep, Protocol!protocolVars
  <1>4. CASE ~loggedIn /\ edit \in Tokens \ {NoToken} /\ \A a : Pending(a)' <=> a = edit
    <2>1. Phase = "verified"
      BY <1>1, <1>2, <1>4 DEF Mapping
    <2>2. edit' = edit /\ Pending(edit)'
      BY <1>4 DEF Client!OnOK
    <2>3. Phase' = "asking" /\ Asked' = edit
      BY <1>1, <1>2, <1>4, <2>2 DEF Mapping
    <2>4. stage[Conn] # "Authenticated"
      BY <1>1 DEF SystemInv, LinkInv, SpentInv
    <2>5. LastCred = NoCred
      BY <2>4, GrantedIsAuthenticated DEF SystemInv
    <2>6. Granted = NoToken
      BY <2>5, GrantedIs
    <2>7. Protocol!Ask(edit)
      BY <2>1, <2>3, <2>6 DEF Protocol!Ask
    <2> QED
      BY <1>4, <2>7 DEF ProtocolStep, Protocol!ProtocolNext
  <1> QED
    BY <1>1, <1>3, <1>4

\* The dialog handles an event.
LEMMA HandlerRefines ==
    ASSUME SystemInv, Mapping, Mapping', Granted' = Granted, ui = "login",
           Client!Handle("login"), Client!Dispatch(Head(mailbox["login"])), loggedIn => loggedIn'
    PROVE  ProtocolStep
  <1> DEFINE e == Head(mailbox["login"])
  <1>0. CP!TurnInv
    BY DEF SystemInv, ClientInv
  <1>1. /\ e \in LoginEvents
        /\ Answers(e) => Pending(e.token) /\ \A a : ~Pending(a)'
        /\ ~Answers(e) => SamePending
    BY <1>0, HandlerPending
  <1>2. Client!Dispatch(e)
    OBVIOUS
  <1> HIDE DEF e
  <1>3. ASSUME Asked' = Asked /\ Phase' = Phase PROVE ProtocolStep
    BY <1>3 DEF ProtocolStep, Protocol!protocolVars
  <1>4. CASE loggedIn
    BY <1>3, <1>4 DEF Mapping
  <1>5. ASSUME ~loggedIn, ~Answers(e), UNCHANGED <<ui, loggedIn, versionOK>> PROVE ProtocolStep
    BY <1>1, <1>3, <1>5, StayingStutters DEF Early
  <1>6. CASE ~loggedIn /\ e.type = "LoginSuccess" /\ Client!OnLoginSuccess(e.token)
    <2>1. Asked = e.token /\ Phase = "asking"
      BY <1>1, <1>6 DEF Answers, Mapping, Early
    <2>2. Phase' = "in" /\ Asked' = NoToken
      BY <1>6 DEF Client!OnLoginSuccess, Mapping
    <2>3. StoredFor(e.token)
      BY <1>1, <1>6 DEF SystemInv, LinkInv, GrantInv
    <2>4. LastCred = e.token
      BY <2>3, StoredIsGranted DEF SystemInv, LinkInv
    <2>5. e.token # NoCred
      <3>1. e \in Client!ClientEvents
        <4>1. mailbox["login"] \in Seq(Client!ClientEvents) /\ mailbox["login"] # <<>>
          BY <1>0, MailboxesTyped DEF Mailboxes, Client!Handle
        <4> QED
          BY <4>1, HeadTailProperties DEF e
      <3> QED
        BY <3>1, ServerAssumptions DEF Client!ClientEvents
    <2>6. Granted = Asked
      BY <2>1, <2>4, <2>5, GrantedIs
    <2>7. Protocol!Enter
      BY <2>1, <2>2, <2>6 DEF Protocol!Enter
    <2> QED
      BY <2>7 DEF ProtocolStep, Protocol!ProtocolNext
  <1>7. CASE ~loggedIn /\ e.type = "LoginFailed" /\ Client!OnLoginFailed
    <2>1. Asked = e.token /\ Phase = "asking"
      BY <1>1, <1>7 DEF Answers, Mapping, Early
    <2>2. UNCHANGED <<ui, loggedIn, versionOK>>
      BY <1>7 DEF Client!OnLoginFailed, Client!infoVars
    <2>3. versionOK
      <3>1. \/ e \in queue
            \/ \E i \in DOMAIN mailbox["login"] : mailbox["login"][i] = e
        BY <1>1 DEF LoginEvents
      <3> QED
        BY <1>0, <1>7, <3>1 DEF CP!TurnInv, CP!Verified, CP!Posted
    <2>4. Phase' = "verified" /\ Asked' = NoToken
      BY <1>1, <1>7, <2>2, <2>3 DEF Answers, Mapping, Early
    <2>5. stage[Conn] # "Authenticated"
      BY <1>1, <1>7 DEF SystemInv, LinkInv, SpentInv, Reviving
    <2>6. LastCred = NoCred
      BY <2>5, GrantedIsAuthenticated DEF SystemInv
    <2>7. Granted = NoToken
      BY <2>6, GrantedIs
    <2>8. Protocol!Refuse
      BY <2>1, <2>4, <2>7 DEF Protocol!Refuse
    <2> QED
      BY <2>8 DEF ProtocolStep, Protocol!ProtocolNext
  <1>8. CASE ~loggedIn /\ e.type = "VersionSuccess" /\ Client!OnVersionSuccess
    <2>1. requests = {} /\ \A d \in LoginEvents : ~Answers(d)
      BY <1>0, <1>1, <1>8, TurnFacts, OneOnItsWay DEF Answers
    <2>2. \A a : ~Pending(a) /\ ~Pending(a)'
      BY <1>1, <1>8, <2>1 DEF Answers, Pending, SamePending
    <2>3. UNCHANGED <<ui, loggedIn>> /\ versionOK'
      BY <1>8 DEF Client!OnVersionSuccess
    <2>4. /\ Asked = NoToken /\ Asked' = NoToken /\ Phase' = "verified"
          /\ Phase = IF versionOK THEN "verified" ELSE "unverified"
      BY <1>8, <2>2, <2>3 DEF Mapping, Early
    <2>5. CASE versionOK
      BY <1>3, <2>4, <2>5
    <2>6. CASE ~versionOK
      <3>1. Protocol!Verify
        BY <2>4, <2>6 DEF Protocol!Verify
      <3> QED
        BY <3>1 DEF ProtocolStep, Protocol!ProtocolNext
    <2> QED
      BY <2>5, <2>6
  <1>9. CASE /\ ~loggedIn
             /\ \/ e.type = "ConnectSuccess" /\ Client!OnConnectSuccess
                \/ e.type = "VersionUpdate" /\ Client!OnVersionUpdate
                \/ e.type = "VersionFailed" /\ Client!OnVersionFailed
                \/ e.type \in {"ConnectError", "ParseMessageError"} /\ Client!OnError
    BY <1>5, <1>9 DEF Answers, Client!OnConnectSuccess, Client!OnVersionUpdate,
       Client!OnVersionFailed, Client!OnError, Client!infoVars
  <1> QED
    BY <1>2, <1>4, <1>6, <1>7, <1>8, <1>9 DEF Client!Dispatch

\* What else a running client does: the login dialog goes on, or the client leaves.
LEMMA OtherRefines ==
    ASSUME SystemInv, SystemInv', Mapping, Mapping', Granted' = Granted,
           LessPending, UNCHANGED <<loggedIn, versionOK>>, Early' => Early /\ SamePending
    PROVE  ProtocolStep
  <1>1. CASE loggedIn
    BY <1>1 DEF Mapping, ProtocolStep, Protocol!protocolVars
  <1>2. CASE ~loggedIn /\ Early'
    BY <1>2, StayingStutters DEF ProtocolStep, Protocol!protocolVars
  <1>3. CASE ~loggedIn /\ ~Early'
    <2>1. Early \/ Gone
      BY <1>3, EarlyOrGone
    <2>2. Gone'
      BY <1>3 DEF SystemInv, ClientInv, CP!TurnInv, CP!TypeOK, DialogInv, Early, Gone
    <2>3. Protocol!Leave
      BY <1>3, <2>1, <2>2, GoneLeaves
    <2> QED
      BY <2>3 DEF ProtocolStep, Protocol!ProtocolNext
  <1> QED
    BY <1>1, <1>2, <1>3

LEMMA NextRefines ==
    ASSUME SystemInv, SystemInv', [Next]_vars
    PROVE  ProtocolStep
  <1>0. CP!TurnInv /\ CP!TurnInv' /\ Mapping /\ Mapping'
    BY MappingHolds, MappingNext DEF SystemInv, ClientInv
  <1>1. ASSUME UNCHANGED clientVars PROVE ProtocolStep
    <2>1. [Server!Next]_(Server!vars)
      BY ServerSteps DEF SystemInv
    <2> QED
      BY <1>0, <1>1, <2>1, ServerRefines
  <1>2. UNCHANGED identity => Granted' = Granted
    BY DEF Granted
  <1>3. loggedIn => loggedIn'
    BY ClientSteps, LoggedInStays DEF SystemInv
  <1>4. ASSUME Connected \/ ClientLoses \/ Deliver PROVE ProtocolStep
    <2>1. SamePending
      BY <1>4, ConnectionPending, DeliverPending DEF SystemInv
    <2>2. UNCHANGED <<ui, loggedIn, versionOK, identity>>
      BY <1>4 DEF Connected, ClientLoses, Deliver, Client!OnConnect, Client!OnFail,
         Client!OnClose, Client!OnReply, Client!infoVars, clientVars, serverVars
    <2>3. (Early' <=> Early) /\ LessPending
      BY <2>1, <2>2 DEF Early, SamePending, LessPending
    <2> QED
      BY <1>0, <1>2, <2>1, <2>2, <2>3, OtherRefines
  <1>5. ASSUME ClientDispatches \/ ClientDialogs \/ ClientPosts \/ ClientUsed PROVE ProtocolStep
    <2>1. Granted' = Granted
      BY <1>2, <1>5 DEF ClientDispatches, ClientDialogs, ClientPosts, ClientUsed, Transmit, serverVars
    <2>2. CASE Client!OnOK
      BY <1>0, <2>1, <2>2, OkRefines
    <2>3. CASE OtherUse
      <3>1. LessPending /\ UNCHANGED <<loggedIn, versionOK>>
        BY <1>0, <2>3, OtherPending
      <3>2. Early' => Early /\ SamePending
        BY <1>0, <2>3, OtherKeeps DEF SystemInv
      <3> QED
        BY <1>0, <2>1, <3>1, <3>2, OtherRefines
    <2>4. CASE ui = "login" /\ Client!Handle("login") /\ Client!Dispatch(Head(mailbox["login"]))
      BY <1>0, <1>3, <2>1, <2>4, HandlerRefines
    <2>5. CASE ui = "main" /\ Client!Handle("main") /\ Client!DispatchMain(Head(mailbox["main"]))
      <3>1. LessPending /\ UNCHANGED <<ui, loggedIn, versionOK>>
        BY <1>0, <2>5, MainPending
      <3>2. ~Early'
        BY <2>5, <3>1 DEF Early
      <3> QED
        BY <1>0, <2>1, <3>1, <3>2, OtherRefines
    <2> QED
      BY <1>5, <2>2, <2>3, <2>4, <2>5 DEF ClientDispatches, ClientDialogs, ClientPosts, ClientUsed,
         Client!OnClientEvent, Client!User, OtherUse
  <1>6. CASE Accept \/ ServerLoses \/ ServerEnds \/ Receive \/ ServerHandles \/ ServerStops
    BY <1>1, <1>6 DEF Accept, ServerLoses, ServerEnds, Receive, ServerHandles, ServerStops
  <1> QED
    BY <1>1, <1>4, <1>5, <1>6 DEF Next, vars

LEMMA InitRefines == Init => Protocol!ProtocolInit
  <1> SUFFICES ASSUME Init PROVE Protocol!ProtocolInit
    OBVIOUS
  <1>1. LoginTokens = {}
    BY EmptySeq DEF Init, Client!Init, Client!BusInit, LoginTokens, Client!Unhandled
  <1> HIDE DEF LoginTokens
  <1>2. Phase = "unverified" /\ Asked = NoToken
    BY <1>1 DEF Init, Client!Init, Phase, Asked
  <1>3. Granted = NoToken
    BY DEF Init, Server!Init, Granted, Server!LastField, Server!Fields
  <1> QED
    BY <1>2, <1>3 DEF Protocol!ProtocolInit

LEMMA SystemInvariant == Spec => []SystemInv
  <1>1. Init => DialogInv /\ FieldInv /\ TokenInv
    BY DialogInit, FieldInit, TokenInit
  <1>2. /\ ClientInv /\ SP!TypeInv /\ SP!LoginInv /\ LinkInv
        /\ DialogInv /\ FieldInv /\ TokenInv
        /\ [Next]_vars
        => DialogInv' /\ FieldInv' /\ TokenInv'
    <2> SUFFICES ASSUME ClientInv, SP!TypeInv, SP!LoginInv, LinkInv,
                        DialogInv, FieldInv, TokenInv, [Next]_vars
                 PROVE  DialogInv' /\ FieldInv' /\ TokenInv'
      OBVIOUS
    <2>1. DialogInv'
      BY ClientSteps, DialogStep
    <2>2. FieldInv'
      BY ServerSteps, FieldStep DEF LinkInv
    <2>3. TokenInv'
      BY TokenStep
    <2> QED
      BY <2>1, <2>2, <2>3
  <1> QED
    BY <1>1, <1>2, LinkInvariant, PTL DEF Spec, SystemInv

\* The threads, queues, boxes, setters and failures of the two programs show nothing
\* but LoginProtocol: the server grants what is asked before the client enters, a
\* client it refuses has no grant, and none asks again after a grant.
THEOREM ImplementsProtocol == Spec => RunsProtocol
  <1>1. SystemInv /\ SystemInv' /\ [Next]_vars => [Protocol!ProtocolNext]_(Protocol!protocolVars)
    BY NextRefines DEF ProtocolStep
  <1> QED
    BY <1>1, InitRefines, SystemInvariant, PTL DEF Spec, RunsProtocol, Protocol!ProtocolSpec
===============================================================================
