-------------------------- MODULE LoginClientProofs ---------------------------
(***************************************************************************)
(* Proofs about LoginClient for any set of tokens: type correctness, that    *)
(* the client has one request at a time, that it logs in only after its      *)
(* version was found up to date, and that it does not forget the loss of its *)
(* server.                                                                   *)
(***************************************************************************)
EXTENDS LoginClient, FiniteSetTheorems, SequenceTheorems, TLAPS

-------------------------------------------------------------------------------
(* Every step is written with those of the bus, which the types use.        *)

LEMMA EventsAreEvents ==
    \A type \in EventTypes : Event(type) \in ClientEvents
  BY DEF Event, ClientEvents

LEMMA NetworkUsesBus == Network => BusNext
  <1> SUFFICES ASSUME Network PROVE \E e \in ClientEvents : Notify(e)
    BY DEF BusNext
  <1>1. CASE OnConnect \/ OnFail \/ OnClose
    BY <1>1, EventsAreEvents DEF OnConnect, OnFail, OnClose, EventTypes
  <1>2. ASSUME NEW r \in Requests, OnMessage(r) PROVE \E e \in ClientEvents : Notify(e)
    <2> PICK type \in ReplyTypes(r) : OnReply(r, type)
      BY <1>2 DEF OnMessage
    <2>1. [type |-> type, token |-> r.token] \in ClientEvents
      BY DEF ReplyTypes, ClientEvents, EventTypes, Requests
    <2> QED
      BY <2>1 DEF OnReply
  <1> QED
    BY <1>1, <1>2 DEF Network

LEMMA StepsUseBus == [Next]_vars => [BusNext]_busVars
  <1> SUFFICES ASSUME [Next]_vars PROVE BusNext \/ UNCHANGED busVars
    OBVIOUS
  <1> USE DEF BusNext, busVars, eventVars
  <1>1. CASE UNCHANGED vars
    BY <1>1 DEF vars
  <1>2. CASE Network
    BY <1>2, NetworkUsesBus
  <1>3. CASE Posting \/ NotifierDies \/ OnClientEvent
    BY <1>3 DEF Posting, NotifierDies, OnClientEvent
  <1>4. CASE User
    BY <1>4 DEF User, EditToken, OnOK, OnCloseDialog, UserClosesBox, CloseBox, EndProcess
  <1>5. CASE Dialogs
    BY <1>5 DEF Dialogs, OpenLogin, DestroyLogin, DestroyMain, LeaveDialog, BoxExpires, CloseBox,
                EndProcess
  <1> QED
    BY <1>1, <1>2, <1>3, <1>4, <1>5 DEF Next

-------------------------------------------------------------------------------
(* Types.                                                                   *)

LEMMA BusTypes == BusTypeOK /\ [BusNext]_busVars => BusTypeOK'
  <1> SUFFICES ASSUME BusTypeOK, [BusNext]_busVars PROVE BusTypeOK'
    OBVIOUS
  <1> USE DEF BusTypeOK
  <1>1. CASE UNCHANGED busVars
    BY <1>1 DEF busVars
  <1>2. ASSUME NEW e \in ClientEvents, Notify(e) PROVE BusTypeOK'
    BY <1>2 DEF Notify
  <1>3. CASE Aim
    BY <1>3 DEF Aim
  <1>4. ASSUME NEW e \in ClientEvents, Post(e) PROVE BusTypeOK'
    <2>1. CASE target \in live
      <3>1. Append(mailbox[target], e) \in Seq(ClientEvents)
        BY <2>1, AppendProperties
      <3> QED
        BY <1>4, <2>1, <3>1 DEF Post
    <2>2. CASE target \notin live
      BY <1>4, <2>2 DEF Post
    <2> QED
      BY <2>1, <2>2
  <1>5. CASE Halt \/ Reset
    BY <1>5 DEF Halt, Reset
  <1>6. ASSUME NEW w \in {"login", "main"}, Open(w) PROVE BusTypeOK'
    BY <1>6 DEF Open
  <1>7. ASSUME NEW w \in {"login", "main"}, Destroy(w) PROVE BusTypeOK'
    <2>1. {mailbox[w][i] : i \in DOMAIN mailbox[w]} \subseteq ClientEvents
      BY LenProperties, ElementOfSeq
    <2>2. <<>> \in Seq(ClientEvents)
      BY EmptySeq
    <2> QED
      BY <1>7, <2>1, <2>2 DEF Destroy
  <1>8. ASSUME NEW w \in {"login", "main"}, Handle(w) PROVE BusTypeOK'
    BY <1>8, HeadTailProperties DEF Handle
  <1> QED
    BY <1>1, <1>2, <1>3, <1>4, <1>5, <1>6, <1>7, <1>8 DEF BusNext, Move

\* What TypeOK says of the other variables.
RestTypeOK ==
    /\ net \in {"connecting", "open", "done"}
    /\ requests \subseteq Requests
    /\ ui \in {"start", "login", "closing", "closed", "main", "closingMain",
               "closedMain", "ended"}
    /\ boxes \in Seq(Boxes)
    /\ loggedIn \in BOOLEAN /\ button \in BOOLEAN /\ versionOK \in BOOLEAN
    /\ {edit, stored, accepted} \subseteq Tokens \union {NoToken}

LEMMA ShowTypes ==
    ASSUME boxes \in Seq(Boxes), NEW box \in {Notice, Orphan, Goodbye}, Show(box)
    PROVE  boxes' \in Seq(Boxes)
  <1>1. Notice \in Boxes /\ Orphan \in Boxes /\ Goodbye \in Boxes
    BY Zenon DEF Notice, Orphan, Goodbye, Boxes
  <1> QED
    BY <1>1, AppendProperties DEF Show

LEMMA CloseTypes ==
    ASSUME boxes \in Seq(Boxes), CloseBox
    PROVE  boxes' \in Seq(Boxes)
  <1>1. Len(boxes) \in Nat /\ \A i \in 1..Len(boxes) - 1 : boxes[i] \in Boxes
    BY ElementOfSeq, LenProperties
  <1> QED
    BY <1>1, SubSeqProperties DEF CloseBox

LEMMA DispatchTypes ==
    ASSUME RestTypeOK, NEW e \in ClientEvents, Dispatch(e) \/ DispatchMain(e)
    PROVE  RestTypeOK'
  <1> USE DEF RestTypeOK, netVars, formVars, infoVars
  <1>1. CASE OnError
    BY <1>1, ShowTypes DEF OnError
  <1>2. CASE OnConnectSuccess
    <2>1. [id |-> "version", token |-> NoToken] \in Requests
      BY DEF Requests
    <2> QED
      BY <1>2, <2>1, ShowTypes DEF OnConnectSuccess, SendMessageAsync
  <1>3. CASE OnVersionUpdate \/ OnVersionFailed \/ OnLoginFailed
    BY <1>3, ShowTypes DEF OnVersionUpdate, OnVersionFailed, OnLoginFailed
  <1>4. CASE OnVersionSuccess
    BY <1>4 DEF OnVersionSuccess
  <1>5. CASE OnLoginSuccess(e.token)
    BY <1>5 DEF OnLoginSuccess, ClientEvents
  <1>6. CASE UNCHANGED <<netVars, ui, boxes, formVars, infoVars>>
    BY <1>6
  <1> QED
    BY <1>1, <1>2, <1>3, <1>4, <1>5, <1>6 DEF Dispatch, DispatchMain

LEMMA RestTypes == BusTypeOK /\ RestTypeOK /\ [Next]_vars => RestTypeOK'
  <1> SUFFICES ASSUME BusTypeOK, RestTypeOK, [Next]_vars PROVE RestTypeOK'
    OBVIOUS
  <1> USE DEF RestTypeOK, netVars, formVars, infoVars
  <1>1. CASE UNCHANGED vars
    BY <1>1 DEF vars
  <1>2. CASE Network
    BY <1>2 DEF Network, OnConnect, OnFail, OnClose, OnMessage, OnReply
  <1>3. CASE Posting \/ NotifierDies
    BY <1>3 DEF Posting, NotifierDies
  <1>4. CASE OnClientEvent
    <2>1. \A w \in {"login", "main"} : Handle(w) => Head(mailbox[w]) \in ClientEvents
      BY HeadTailProperties DEF Handle, BusTypeOK
    <2> QED
      BY <1>4, <2>1, DispatchTypes DEF OnClientEvent
  <1>5. ASSUME NEW token \in Tokens \union {NoToken}, EditToken(token) PROVE RestTypeOK'
    BY <1>5 DEF EditToken
  <1>6. CASE OnOK
    <2>1. [id |-> "login", token |-> edit] \in Requests
      BY DEF Requests
    <2> QED
      BY <1>6, <2>1, ShowTypes DEF OnOK, SendMessageAsync
  <1>7. CASE OnCloseDialog \/ OpenLogin \/ DestroyLogin \/ DestroyMain \/ LeaveDialog
    BY <1>7 DEF OnCloseDialog, OpenLogin, DestroyLogin, DestroyMain, LeaveDialog, EndProcess
  <1>8. CASE UserClosesBox \/ BoxExpires
    BY <1>8, CloseTypes DEF UserClosesBox, BoxExpires, CloseBox, EndProcess
  <1> QED
    BY <1>1, <1>2, <1>3, <1>4, <1>5, <1>6, <1>7, <1>8 DEF Next, User, Dialogs

LEMMA TypeParts == TypeOK <=> BusTypeOK /\ RestTypeOK
  BY DEF TypeOK, RestTypeOK

LEMMA TypeInit == Init => TypeOK
  BY EmptySeq DEF Init, BusInit, TypeOK, BusTypeOK

LEMMA TypeStep == TypeOK /\ [Next]_vars => TypeOK'
  <1> SUFFICES ASSUME TypeOK, [Next]_vars PROVE BusTypeOK' /\ RestTypeOK'
    BY DEF TypeOK, RestTypeOK
  <1> QED
    BY TypeParts, StepsUseBus, BusTypes, RestTypes

\* The client's variables keep their types, whatever user, server and network do.
THEOREM TypeCorrect == Spec => []TypeOK
  BY TypeInit, TypeStep, PTL DEF Spec

-------------------------------------------------------------------------------
(* One turn: from the connection's success, through the request, its answer *)
(* and the handler of the answer, to the button and back, there is one thing *)
(* at most on its way.  Errors of the connection come on top of that.        *)

Carries(e) == e.type # "ConnectError"
Posted == DOMAIN mailbox["login"]

Queued == \E e \in queue : Carries(e)
Arrived == \E i \in Posted : Carries(mailbox["login"][i])
Asking == requests # {}

\* Each place holds one turn at most, and no two places hold one.
Turn ==
    /\ \A r1, r2 \in requests : r1 = r2
    /\ \A e1, e2 \in queue : Carries(e1) /\ Carries(e2) => e1 = e2
    /\ \A i, j \in Posted :
           Carries(mailbox["login"][i]) /\ Carries(mailbox["login"][j]) => i = j
    /\ net = "connecting" => ~Asking /\ ~Queued /\ ~Arrived /\ ~button
    /\ Asking => ~Queued /\ ~Arrived /\ ~button
    /\ Queued => ~Arrived /\ ~button
    /\ Arrived => ~button

\* What only a client with an accepted version can be doing.
Verified ==
    ~versionOK =>
        /\ ~button
        /\ \A r \in requests : r.id # "login"
        /\ \A e \in queue : e.type # "LoginFailed"
        /\ \A i \in Posted : mailbox["login"][i].type # "LoginFailed"

TurnInv == TypeOK /\ Turn /\ Verified

LEMMA TurnInit == Init => Turn /\ Verified
  BY DEF Init, BusInit, Turn, Verified, Asking, Queued, Arrived, Posted

\* Steps that move nothing.
LEMMA NothingMoves ==
    ASSUME Turn, Verified,
           UNCHANGED <<queue, mailbox, net, requests, button, versionOK>>
    PROVE  Turn' /\ Verified'
  BY DEF Turn, Verified, Asking, Queued, Arrived, Posted, Carries

\* Handing over an event: it needs the turn unless it is a connection error.
LEMMA NotifyTurn ==
    ASSUME Turn, Verified, NEW e \in ClientEvents, Notify(e),
           UNCHANGED <<button, versionOK>>, requests' \subseteq requests,
           net' # "connecting" \/ net' = net,
           Carries(e) => /\ net = "connecting" \/ Asking
                         /\ net' # "connecting" /\ ~Asking',
           e.type = "LoginFailed" => versionOK
    PROVE  Turn' /\ Verified'
  <1> USE DEF Turn, Asking, Queued, Arrived, Posted
  <1>1. queue' = queue \union {e} /\ mailbox' = mailbox
    BY DEF Notify
  <1>2. Verified'
    BY <1>1 DEF Verified
  <1>3. CASE Carries(e)
    BY <1>1, <1>2, <1>3 DEF Carries
  <1>4. CASE ~Carries(e)
    BY <1>1, <1>2, <1>4 DEF Carries
  <1> QED
    BY <1>3, <1>4

LEMMA NetworkTurn == Turn /\ Verified /\ RestTypeOK /\ Network => Turn' /\ Verified'
  <1> SUFFICES ASSUME Turn, Verified, RestTypeOK, Network PROVE Turn' /\ Verified'
    OBVIOUS
  <1> USE NotifyTurn, EventsAreEvents DEF formVars, infoVars, Carries, Asking
  <1>1. CASE OnConnect
    <2>1. Event("ConnectSuccess") \in ClientEvents /\ Event("ConnectSuccess").type = "ConnectSuccess"
      BY DEF EventTypes, Event
    <2>2. ~Asking'
      BY <1>1 DEF OnConnect, Turn
    <2> QED
      BY <1>1, <2>1, <2>2 DEF OnConnect
  <1>2. CASE OnFail \/ OnClose
    <2>1. Event("ConnectError") \in ClientEvents /\ Event("ConnectError").type = "ConnectError"
      BY DEF EventTypes, Event
    <2> QED
      BY <1>2, <2>1 DEF OnFail, OnClose
  <1>3. ASSUME NEW r \in Requests, OnMessage(r) PROVE Turn' /\ Verified'
    <2> PICK type \in ReplyTypes(r) : OnReply(r, type)
      BY <1>3 DEF OnMessage
    <2> DEFINE e == [type |-> type, token |-> r.token]
    <2>1. e \in ClientEvents /\ e.type = type
      BY DEF ReplyTypes, ClientEvents, EventTypes, Requests
    <2>2. requests' \subseteq requests /\ r \in requests /\ ~Asking'
      BY DEF OnReply, Turn
    <2>3. type = "LoginFailed" => versionOK
      BY <2>2 DEF ReplyTypes, Requests, Verified
    <2> HIDE DEF e
    <2>4. Notify(e) /\ UNCHANGED <<net, button, versionOK>> /\ net = "open"
      BY DEF OnReply, e
    <2> QED
      BY <2>1, <2>2, <2>3, <2>4
  <1> QED
    BY <1>1, <1>2, <1>3 DEF Network

\* Posting moves a turn from the queue to the dialog, or loses it.
LEMMA PostTurn ==
    ASSUME BusTypeOK, Turn, Verified, NEW e \in ClientEvents, Post(e),
           UNCHANGED <<net, requests, button, versionOK>>
    PROVE  Turn' /\ Verified'
  <1> DEFINE mail == mailbox["login"]
  <1>1. mail \in Seq(ClientEvents) /\ Len(mail) \in Nat /\ Posted = 1..Len(mail)
    BY LenProperties DEF BusTypeOK, Posted
  <1>2. e \in queue /\ queue' = queue \ {e}
    BY DEF Post, Foremost
  <1>3. CASE mailbox' = [mailbox EXCEPT !["login"] = Append(mail, e)]
    <2>1. mailbox'["login"] = Append(mail, e)
      BY <1>3 DEF BusTypeOK
    <2>2. /\ Posted' = 1..Len(mail) + 1
          /\ \A i \in Posted : mailbox'["login"][i] = mail[i]
          /\ mailbox'["login"][Len(mail) + 1] = e
      BY <1>1, <2>1, AppendProperties, LenProperties DEF Posted
    <2>3. Verified'
      BY <1>1, <1>2, <2>2 DEF Verified
    <2>4. Carries(e) => ~Queued' /\ ~Arrived /\ ~button /\ ~Asking /\ net # "connecting"
      BY <1>2 DEF Turn, Queued, Asking
    <2> HIDE DEF mail
    <2>5. Arrived' <=> Arrived \/ Carries(e)
      BY <1>1, <2>2 DEF Arrived, Carries, mail
    <2>6. \A i, j \in Posted' :
              Carries(mailbox'["login"][i]) /\ Carries(mailbox'["login"][j]) => i = j
      BY <1>1, <2>2, <2>4 DEF Turn, Arrived, mail
    <2>7. Queued' => Queued
      BY <1>2 DEF Queued
    <2> QED
      BY <1>2, <2>3, <2>4, <2>5, <2>6, <2>7 DEF Turn, Asking, Queued, Carries
  <1>4. CASE mailbox'["login"] = mail
    BY <1>2, <1>4 DEF Turn, Verified, Asking, Queued, Arrived, Posted, Carries
  <1> QED
    BY <1>3, <1>4 DEF Post, BusTypeOK

\* Handling an event takes the turn it carries out of the dialog's mailbox.
LEMMA HandleTurn ==
    ASSUME BusTypeOK, Turn, Verified, Handle("login"),
           NEW e, e = Head(mailbox["login"])
    PROVE  /\ Carries(e) => ~Arrived' /\ ~Asking /\ ~Queued /\ ~button /\ net # "connecting"
           /\ Arrived' => Arrived
           /\ \A i, j \in Posted' :
                  Carries(mailbox'["login"][i]) /\ Carries(mailbox'["login"][j]) => i = j
           /\ ~versionOK => /\ e.type # "LoginFailed"
                            /\ \A i \in Posted' : mailbox'["login"][i].type # "LoginFailed"
           /\ queue' = queue
  <1> DEFINE mail == mailbox["login"]
  <1>1. mail \in Seq(ClientEvents) /\ mail # <<>>
    BY DEF BusTypeOK, Handle
  <1>2. mailbox'["login"] = Tail(mail) /\ queue' = queue
    BY DEF BusTypeOK, Handle
  <1>3. Len(mail) \in Nat /\ Len(mail) # 0 /\ Posted = 1..Len(mail) /\ mail[1] = e
    BY <1>1, LenProperties, EmptySeq DEF Posted
  <1>4. /\ Posted' = 1..Len(mail) - 1
        /\ \A i \in Posted' : i + 1 \in Posted /\ mailbox'["login"][i] = mail[i + 1]
    BY <1>1, <1>2, <1>3, HeadTailProperties, LenProperties DEF Posted
  <1> HIDE DEF mail
  <1>5. Arrived' => Arrived
    BY <1>4 DEF Arrived, mail
  <1>6. \A i, j \in Posted' :
            Carries(mailbox'["login"][i]) /\ Carries(mailbox'["login"][j]) => i = j
    <2> SUFFICES ASSUME NEW i \in Posted', NEW j \in Posted',
                        Carries(mailbox'["login"][i]), Carries(mailbox'["login"][j])
                 PROVE  i = j
      OBVIOUS
    <2>1. Carries(mail[i + 1]) /\ Carries(mail[j + 1])
      BY <1>4 DEF Carries
    <2>2. i + 1 = j + 1
      BY <1>4, <2>1 DEF Turn, mail
    <2> QED
      BY <1>3, <1>4, <2>2
  <1>7. Carries(e) => Arrived /\ ~Arrived'
    <2> SUFFICES ASSUME Carries(e) PROVE Arrived /\ \A i \in Posted' : ~Carries(mailbox'["login"][i])
      BY DEF Arrived
    <2>1. 1 \in Posted /\ Carries(mail[1])
      BY <1>3
    <2>2. \A i \in Posted' : Carries(mailbox'["login"][i]) => i + 1 = 1
      BY <1>4, <2>1 DEF Turn, mail, Carries
    <2> QED
      BY <1>3, <1>4, <2>1, <2>2 DEF Arrived, mail
  <1>8. ~versionOK => /\ e.type # "LoginFailed"
                      /\ \A i \in Posted' : mailbox'["login"][i].type # "LoginFailed"
    <2>1. 1 \in Posted
      BY <1>3
    <2> QED
      BY <1>3, <1>4, <2>1 DEF Verified, mail
  <1> QED
    BY <1>2, <1>5, <1>6, <1>7, <1>8 DEF Turn

\* The handlers: they pass the turn on to a request or the button, or end it.
LEMMA DispatchTurn ==
    ASSUME BusTypeOK, Turn, Verified, Handle("login"), Dispatch(Head(mailbox["login"]))
    PROVE  Turn' /\ Verified'
  <1> DEFINE e == Head(mailbox["login"])
  <1> USE DEF netVars, formVars, infoVars, Turn, Verified, Asking, Queued
  <1>1. /\ Carries(e) => ~Arrived' /\ ~Asking /\ ~Queued /\ ~button /\ net # "connecting"
        /\ Arrived' => Arrived
        /\ \A i, j \in Posted' :
               Carries(mailbox'["login"][i]) /\ Carries(mailbox'["login"][j]) => i = j
        /\ ~versionOK => /\ e.type # "LoginFailed"
                         /\ \A i \in Posted' : mailbox'["login"][i].type # "LoginFailed"
        /\ queue' = queue
    BY HandleTurn
  <1>2. Dispatch(e)
    OBVIOUS
  <1> HIDE DEF e
  <1>3. CASE UNCHANGED <<net, requests, button, versionOK>>
    BY <1>1, <1>3 DEF Carries
  <1>4. CASE e.type = "ConnectSuccess" /\ OnConnectSuccess
    <2>1. CASE SendMessageAsync([id |-> "version", token |-> NoToken]) /\ net = "open"
      <3>1. requests' = {[id |-> "version", token |-> NoToken]} /\ net' = net
        BY <1>1, <1>4, <2>1 DEF SendMessageAsync, Carries
      <3> QED
        BY <1>1, <1>4, <2>1, <3>1 DEF OnConnectSuccess, Carries
    <2> QED
      BY <1>1, <1>3, <1>4, <2>1 DEF OnConnectSuccess, SendMessageAsync
  <1>5. CASE e.type = "VersionSuccess" /\ OnVersionSuccess
    BY <1>1, <1>5 DEF OnVersionSuccess, Carries
  <1>6. CASE e.type = "LoginFailed" /\ OnLoginFailed
    BY <1>1, <1>6 DEF OnLoginFailed, Carries
  <1> QED
    BY <1>2, <1>3, <1>4, <1>5, <1>6 DEF Dispatch, OnError, OnVersionUpdate, OnVersionFailed,
       OnLoginSuccess

\* A mailbox that is not the login dialog's does not matter, an emptied one frees
\* what it held.
LEMMA MailboxTurn ==
    ASSUME BusTypeOK, Turn, Verified, UNCHANGED <<queue, net, requests, button, versionOK>>,
           Destroy("login") \/ Destroy("main") \/ Handle("main")
    PROVE  Turn' /\ Verified'
  <1>1. mailbox'["login"] = mailbox["login"] \/ mailbox'["login"] = <<>>
    BY DEF Destroy, Handle, BusTypeOK
  <1>2. CASE mailbox'["login"] = <<>>
    <2>1. Posted' = {}
      BY <1>2, EmptySeq DEF Posted
    <2> QED
      BY <2>1 DEF Turn, Verified, Asking, Queued, Arrived
  <1>3. CASE mailbox'["login"] = mailbox["login"]
    BY <1>3 DEF Turn, Verified, Asking, Queued, Arrived, Posted
  <1> QED
    BY <1>1, <1>2, <1>3

\* The button is given up for the request it sends.
LEMMA OnOKTurn == Turn /\ Verified /\ OnOK => Turn' /\ Verified'
  <1> SUFFICES ASSUME Turn, Verified, OnOK PROVE Turn' /\ Verified'
    OBVIOUS
  <1> DEFINE r == [id |-> "login", token |-> edit]
  <1>1. button /\ ~Asking /\ ~Queued /\ ~Arrived /\ net # "connecting" /\ versionOK
    BY DEF OnOK, Turn, Verified
  <1>2. UNCHANGED <<queue, mailbox, versionOK, net>>
    BY DEF OnOK, eventVars, netVars, infoVars, SendMessageAsync
  <1>3. CASE UNCHANGED <<requests, button>>
    BY <1>2, <1>3, NothingMoves
  <1>4. CASE requests' \in {{}, {r}} /\ button' = FALSE
    BY <1>1, <1>2, <1>4 DEF Turn, Verified, Asking, Queued, Arrived, Posted
  <1> QED
    <2>1. requests = {}
      BY <1>1 DEF Asking
    <2> QED
      BY <1>3, <1>4, <2>1 DEF OnOK, netVars, SendMessageAsync

LEMMA TurnStep == TypeOK /\ Turn /\ Verified /\ [Next]_vars => Turn' /\ Verified'
  <1> SUFFICES ASSUME TypeOK, Turn, Verified, [Next]_vars PROVE Turn' /\ Verified'
    OBVIOUS
  <1>0. BusTypeOK /\ RestTypeOK
    BY TypeParts
  <1> USE DEF eventVars, netVars, formVars, infoVars
  <1>1. CASE UNCHANGED vars
    BY <1>1, NothingMoves DEF vars
  <1>2. CASE Network
    BY <1>0, <1>2, NetworkTurn
  <1>3. CASE Posting \/ NotifierDies
    <2>1. CASE Aim \/ Halt
      BY <1>3, <2>1, NothingMoves DEF Posting, NotifierDies, Aim, Halt
    <2>2. ASSUME NEW e \in ClientEvents, Post(e) PROVE Turn' /\ Verified'
      BY <1>0, <1>3, <2>2, PostTurn DEF Posting, NotifierDies
    <2> QED
      BY <1>3, <2>1, <2>2 DEF Posting, NotifierDies, Move
  <1>4. CASE OnClientEvent
    <2>1. CASE Handle("login") /\ Dispatch(Head(mailbox["login"]))
      BY <1>0, <2>1, DispatchTurn
    <2>2. CASE Handle("main") /\ DispatchMain(Head(mailbox["main"]))
      BY <1>0, <2>2, MailboxTurn DEF DispatchMain, OnError, Handle
    <2> QED
      BY <1>4, <2>1, <2>2 DEF OnClientEvent
  <1>5. CASE User
    <2>1. CASE OnOK
      BY <2>1, OnOKTurn
    <2>2. CASE OnCloseDialog \/ UserClosesBox \/ \E token \in Tokens \union {NoToken} : EditToken(token)
      BY <2>2, NothingMoves DEF OnCloseDialog, Reset, UserClosesBox, CloseBox, EndProcess, Halt, EditToken
    <2> QED
      BY <1>5, <2>1, <2>2 DEF User
  <1>6. CASE DestroyLogin \/ DestroyMain
    BY <1>0, <1>6, MailboxTurn DEF DestroyLogin, DestroyMain, Destroy
  <1>7. CASE OpenLogin \/ LeaveDialog \/ BoxExpires
    BY <1>7, NothingMoves DEF OpenLogin, LeaveDialog, Open, BoxExpires, CloseBox, EndProcess, Halt
  <1> QED
    BY <1>1, <1>2, <1>3, <1>4, <1>5, <1>6, <1>7 DEF Next, Dialogs

LEMMA TurnAlways == Spec => []TurnInv
  <1>1. Init => TurnInv
    BY TypeInit, TurnInit DEF TurnInv
  <1>2. TurnInv /\ [Next]_vars => TurnInv'
    BY TypeStep, TurnStep DEF TurnInv
  <1> QED
    BY <1>1, <1>2, PTL DEF Spec

LEMMA TurnIsOneRequest == TurnInv => OneRequestAtATime
  <1> SUFFICES ASSUME TurnInv PROVE OneRequestAtATime
    OBVIOUS
  <1> USE DEF TurnInv, Turn, Asking
  <1>1. \A e \in Unhandled : Carries(e) /\ (Queued \/ Arrived)
    BY DEF Unhandled, Carries, Queued, Arrived, Posted
  <1>2. \A d, e \in Unhandled : d = e
    <2> SUFFICES ASSUME NEW d \in Unhandled, NEW e \in Unhandled PROVE d = e
      OBVIOUS
    <2>1. CASE d \in queue /\ e \in queue
      BY <1>1, <2>1
    <2>2. CASE d \notin queue /\ e \notin queue
      <3> PICK i \in Posted : d = mailbox["login"][i]
        BY <2>2 DEF Unhandled, Posted
      <3> PICK j \in Posted : e = mailbox["login"][j]
        BY <2>2 DEF Unhandled, Posted
      <3> QED
        BY <1>1
    <2>3. ~(Queued /\ Arrived)
      OBVIOUS
    <2> QED
      BY <1>1, <2>1, <2>2, <2>3 DEF Unhandled, Queued, Arrived, Posted
  <1>3. requests = {} \/ \E r : requests = {r}
    OBVIOUS
  <1>4. Unhandled = {} \/ \E e : Unhandled = {e}
    <2>1. CASE \E e : e \in Unhandled
      <3> PICK e : e \in Unhandled
        BY <2>1
      <3>1. Unhandled = {e}
        BY <1>2
      <3> QED
        BY <3>1
    <2> HIDE DEF Unhandled
    <2> QED
      BY <2>1
  <1>5. requests = {} \/ Unhandled = {}
    BY <1>1
  <1>6. button => requests = {} /\ Unhandled = {}
    BY <1>1
  <1>7. Cardinality(requests) \in {0, 1} /\ (requests = {} => Cardinality(requests) = 0)
    BY <1>3, FS_EmptySet, FS_Singleton
  <1>8. Cardinality(Unhandled) \in {0, 1} /\ (Unhandled = {} => Cardinality(Unhandled) = 0)
    <2> HIDE DEF Unhandled
    <2> QED
      BY <1>4, FS_EmptySet, FS_Singleton
  <1>9. Cardinality(requests) + Cardinality(Unhandled) <= 1
    BY <1>5, <1>7, <1>8
  <1> QED
    BY <1>6, <1>9 DEF OneRequestAtATime

\* However the replies are posted, nested boxes handle them and the user clicks,
\* the client has one request on its way at a time.
THEOREM OneRequest == Spec => []OneRequestAtATime
  BY TurnAlways, TurnIsOneRequest, PTL

\* The client sends a login only after the server accepted its version.
THEOREM LoginNeedsVersion == Spec => []LoginAfterVersion
  <1>1. TurnInv => LoginAfterVersion
    BY DEF TurnInv, Verified, LoginAfterVersion
  <1> QED
    BY <1>1, TurnAlways, PTL

-------------------------------------------------------------------------------
(* The loss of the connection is not forgotten: where the error can be.      *)

\* Which dialog exists, and where a round of posts can go before the first one
\* is destroyed.
DialogInv ==
    /\ ui \in {"login", "closing"} => live = {"login"} /\ {target, active} \subseteq {"login", NoWindow}
    /\ ui \in {"main", "closingMain"} => live = {"main"}
    /\ ui \in {"start", "closed", "closedMain"} => live = {}
    /\ ui = "start" => target = NoWindow /\ active = NoWindow

Loss == Event("ConnectError")
Holds(w) == \E i \in DOMAIN mailbox[w] : mailbox[w][i] = Loss
Alarmed == \E i \in DOMAIN boxes : boxes[i].fatal
Destroyed == ui \notin {"start", "login", "closing"}

Known == Loss \in queue \/ (\E w \in live : Holds(w)) \/ Alarmed \/ (Loss \in lost /\ Destroyed)

LossInv == net = "done" /\ ui # "ended" => Known

LEMMA LossIsInv == LossInv <=> LossIsNotForgotten
  BY DEF LossInv, LossIsNotForgotten, Known, Holds, Alarmed, Destroyed, Loss

LEMMA DialogInit == Init => DialogInv
  BY DEF Init, BusInit, DialogInv

LEMMA DialogStep == DialogInv /\ [Next]_vars => DialogInv'
  <1> SUFFICES ASSUME DialogInv, [Next]_vars PROVE DialogInv'
    OBVIOUS
  <1> USE DEF DialogInv, eventVars, netVars, formVars, infoVars
  <1>1. CASE UNCHANGED vars
    BY <1>1 DEF vars
  <1>2. CASE Network
    BY <1>2 DEF Network, OnConnect, OnFail, OnClose, OnMessage, OnReply, Notify
  <1>3. CASE Posting \/ NotifierDies
    BY <1>3 DEF Posting, NotifierDies, Move, Aim, Post, Halt
  <1>4. CASE OnClientEvent
    <2>1. CASE ui = "login" /\ Handle("login") /\ Dispatch(Head(mailbox["login"]))
      <3>1. ui' \in {"login", "closing"}
        BY <2>1 DEF Dispatch, OnError, OnConnectSuccess, OnVersionUpdate, OnVersionFailed,
                    OnVersionSuccess, OnLoginSuccess, OnLoginFailed
      <3> QED
        BY <2>1, <3>1 DEF Handle
    <2>2. CASE ui = "main" /\ Handle("main") /\ DispatchMain(Head(mailbox["main"]))
      BY <2>2 DEF DispatchMain, OnError, Handle
    <2> QED
      BY <1>4, <2>1, <2>2 DEF OnClientEvent
  <1>5. CASE User
    BY <1>5 DEF User, EditToken, OnOK, OnCloseDialog, Reset, UserClosesBox, CloseBox, EndProcess, Halt
  <1>6. CASE OpenLogin \/ DestroyLogin \/ DestroyMain
    BY <1>6 DEF OpenLogin, DestroyLogin, DestroyMain, Open, Destroy
  <1>7. CASE LeaveDialog \/ BoxExpires
    BY <1>7 DEF LeaveDialog, Open, BoxExpires, CloseBox, EndProcess, Halt
  <1> QED
    BY <1>1, <1>2, <1>3, <1>4, <1>5, <1>6, <1>7 DEF Next, Dialogs

\* The boxes: showing one keeps the alarm, closing one keeps it or ends the process.
LEMMA ShowKeepsAlarm ==
    ASSUME boxes \in Seq(Boxes), NEW box \in {Notice, Orphan, Goodbye}, Show(box)
    PROVE  (Alarmed => Alarmed') /\ (box = Goodbye => Alarmed')
  <1>1. box \in Boxes
    <2>1. Notice \in Boxes /\ Orphan \in Boxes /\ Goodbye \in Boxes
      BY Zenon DEF Notice, Orphan, Goodbye, Boxes
    <2> QED
      BY <2>1
  <1>2. /\ Len(boxes) \in Nat /\ DOMAIN boxes = 1..Len(boxes)
        /\ DOMAIN boxes' = 1..Len(boxes) + 1 /\ boxes'[Len(boxes) + 1] = box
        /\ \A i \in 1..Len(boxes) : boxes'[i] = boxes[i]
    BY <1>1, AppendProperties, LenProperties DEF Show
  <1>3. box = Goodbye => boxes'[Len(boxes) + 1].fatal
    BY <1>2 DEF Goodbye
  <1> QED
    BY <1>2, <1>3 DEF Alarmed

LEMMA CloseKeepsAlarm ==
    ASSUME boxes \in Seq(Boxes), boxes # <<>>, CloseBox
    PROVE  ui' = "ended" \/ (Alarmed => Alarmed')
  <1>1. /\ Len(boxes) \in Nat \ {0} /\ DOMAIN boxes = 1..Len(boxes)
    BY LenProperties, EmptySeq
  <1>2. /\ DOMAIN boxes' = 1..Len(boxes) - 1
        /\ \A i \in 1..Len(boxes) - 1 : boxes'[i] = boxes[i]
    <2>1. \A i \in 1..Len(boxes) - 1 : boxes[i] \in Boxes
      BY <1>1, ElementOfSeq
    <2>2. boxes' = SubSeq(boxes, 1, Len(boxes) - 1)
      BY DEF CloseBox
    <2> QED
      BY <1>1, <2>1, <2>2
  <1>3. ui' # "ended" => ~boxes[Len(boxes)].fatal
    BY DEF CloseBox, EndProcess
  <1> QED
    BY <1>1, <1>2, <1>3 DEF Alarmed

\* The mailboxes: a post keeps the error and brings it if it is the event posted;
\* the dispatch of another event leaves it there.
LEMMA PostKeepsLoss ==
    ASSUME BusTypeOK, NEW e \in ClientEvents, Post(e)
    PROVE  /\ \A w \in live : Holds(w) => Holds(w)'
           /\ e = Loss => (\E w \in live : Holds(w)') \/ (Loss \in lost' /\ target \notin live)
  <1>1. mailbox \in [{"login", "main"} -> Seq(ClientEvents)] /\ live \subseteq {"login", "main"}
    BY DEF BusTypeOK
  <1>2. CASE target \notin live
    BY <1>2 DEF Post, Holds
  <1>3. CASE target \in live
    <2> PICK t \in live : t = target
      BY <1>3
    <2> DEFINE mail == mailbox[t]
    <2>1. mail \in Seq(ClientEvents) /\ Len(mail) \in Nat /\ DOMAIN mail = 1..Len(mail)
      BY <1>1, LenProperties
    <2>2. /\ mailbox'[t] = Append(mail, e)
          /\ \A w \in live : w # t => mailbox'[w] = mailbox[w]
      BY <1>1 DEF Post
    <2>3. /\ DOMAIN mailbox'[t] = 1..Len(mail) + 1
          /\ \A i \in 1..Len(mail) : mailbox'[t][i] = mail[i]
          /\ mailbox'[t][Len(mail) + 1] = e
      BY <2>1, <2>2, AppendProperties, LenProperties
    <2>4. \A w \in live : w # t => (Holds(w) => Holds(w)')
      BY <2>2 DEF Holds
    <2>5. Holds(t) => Holds(t)'
      BY <2>1, <2>3 DEF Holds
    <2>6. e = Loss => Holds(t)'
      BY <2>1, <2>3 DEF Holds
    <2> QED
      BY <2>4, <2>5, <2>6
  <1> QED
    BY <1>2, <1>3

LEMMA HandleKeepsLoss ==
    ASSUME BusTypeOK, NEW w \in {"login", "main"}, Handle(w), Holds(w), Head(mailbox[w]) # Loss
    PROVE  Holds(w)'
  <1> DEFINE mail == mailbox[w]
  <1>1. mail \in Seq(ClientEvents) /\ mail # <<>> /\ mailbox'[w] = Tail(mail)
    BY DEF BusTypeOK, Handle
  <1>2. Len(mail) \in Nat /\ Len(mail) # 0 /\ DOMAIN mail = 1..Len(mail) /\ mail[1] # Loss
    BY <1>1, LenProperties, EmptySeq
  <1>3. /\ DOMAIN mailbox'[w] = 1..Len(mail) - 1
        /\ \A i \in 1..Len(mail) - 1 : mailbox'[w][i] = mail[i + 1]
    BY <1>1, <1>2, HeadTailProperties, LenProperties
  <1>4. PICK i \in DOMAIN mail : mail[i] = Loss
    BY DEF Holds
  <1>5. i - 1 \in 1..Len(mail) - 1 /\ mailbox'[w][i - 1] = Loss
    BY <1>2, <1>3, <1>4
  <1> QED
    BY <1>3, <1>5 DEF Holds

\* A handler opens a box or none, and for the error one that ends the process.
LEMMA DispatchKeepsAlarm ==
    ASSUME boxes \in Seq(Boxes), NEW e, Dispatch(e) \/ DispatchMain(e)
    PROVE  (Alarmed => Alarmed') /\ (e = Loss => Alarmed')
  <1>1. CASE e.type \in {"ConnectError", "ParseMessageError"} /\ OnError
    BY <1>1, ShowKeepsAlarm DEF OnError
  <1>2. e = Loss => e.type = "ConnectError"
    BY DEF Loss, Event
  <1>3. CASE UNCHANGED boxes /\ e.type # "ConnectError"
    BY <1>2, <1>3 DEF Alarmed
  <1>4. ASSUME NEW box \in {Notice, Orphan, Goodbye}, Show(box), e.type # "ConnectError"
        PROVE  (Alarmed => Alarmed') /\ (e = Loss => Alarmed')
    BY <1>2, <1>4, ShowKeepsAlarm
  <1> QED
    BY <1>1, <1>3, <1>4 DEF Dispatch, DispatchMain, OnConnectSuccess, OnVersionUpdate,
       OnVersionFailed, OnVersionSuccess, OnLoginSuccess, OnLoginFailed

LEMMA LossInit == Init => LossInv
  BY DEF Init, LossInv

LEMMA LossStep == TypeOK /\ DialogInv /\ LossInv /\ [Next]_vars => LossInv'
  <1> SUFFICES ASSUME TypeOK, DialogInv, LossInv, [Next]_vars, net' = "done", ui' # "ended"
               PROVE  Known'
    BY DEF LossInv
  <1>0. BusTypeOK /\ boxes \in Seq(Boxes) /\ boxes \in Seq(Boxes)
    BY DEF TypeOK
  <1> USE DEF eventVars, netVars, formVars, infoVars
  \* What moves nothing the error could be in.
  <1>a. ASSUME UNCHANGED <<net, mailbox, live>>, queue \subseteq queue', lost \subseteq lost',
               Alarmed => Alarmed', Destroyed => Destroyed', ui # "ended"
        PROVE  Known'
    BY <1>a DEF LossInv, Known, Holds
  <1>1. CASE UNCHANGED vars
    BY <1>1, <1>a DEF vars, Alarmed, Destroyed
  <1>2. CASE Network
    <2>0. UNCHANGED <<mailbox, live, lost, boxes, ui>> /\ queue \subseteq queue' /\ ui # "ended"
      BY <1>2 DEF Network, Running, OnConnect, OnFail, OnClose, OnMessage, OnReply, Notify
    <2>1. CASE OnFail \/ OnClose
      <3>1. Loss \in queue'
        BY <2>1 DEF OnFail, OnClose, Notify, Loss
      <3> QED
        BY <3>1 DEF Known
    <2>2. CASE net' = net
      BY <1>a, <2>0, <2>2 DEF Alarmed, Destroyed
    <2>3. ~OnConnect
      BY DEF OnConnect
    <2> QED
      BY <1>2, <2>1, <2>2, <2>3 DEF Network, OnMessage, OnReply
  <1>3. CASE Posting \/ NotifierDies
    <2>0. UNCHANGED <<net, live, boxes, ui>> /\ ui # "ended"
      BY <1>3 DEF Posting, NotifierDies, Running, Move, Aim, Post, Halt
    <2>1. CASE Aim \/ Halt
      BY <1>a, <2>0, <2>1 DEF Aim, Halt, Alarmed, Destroyed
    <2>2. ASSUME NEW e \in ClientEvents, Post(e) PROVE Known'
      <3>1. queue' = queue \ {e} /\ lost \subseteq lost' /\ target # NoWindow
        BY <2>2 DEF Post
      <3>2. /\ \A w \in live : Holds(w) => Holds(w)'
            /\ e = Loss => (\E w \in live : Holds(w)') \/ (Loss \in lost' /\ target \notin live)
        BY <1>0, <2>2, PostKeepsLoss
      <3>3. target \notin live => Destroyed'
        BY <2>0, <3>1 DEF DialogInv, Destroyed
      <3>4. Known
        BY <2>0 DEF LossInv
      <3> QED
        BY <2>0, <3>1, <3>2, <3>3, <3>4 DEF Known, Alarmed, Destroyed
    <2> QED
      BY <1>3, <2>1, <2>2 DEF Posting, NotifierDies, Move
  <1>4. CASE OnClientEvent
    <2>1. ASSUME NEW w \in {"login", "main"}, ui = w, Handle(w), NEW e, e = Head(mailbox[w]),
                 (w = "login" /\ Dispatch(e)) \/ DispatchMain(e)
          PROVE  Known'
      <3>1. UNCHANGED <<queue, live, lost>> /\ live = {w}
        BY <2>1 DEF Handle, DialogInv
      <3>2. net' = net /\ (Destroyed => Destroyed')
        BY <2>1 DEF Dispatch, DispatchMain, OnError, OnConnectSuccess, SendMessageAsync,
                    OnVersionUpdate, OnVersionFailed, OnVersionSuccess, OnLoginSuccess,
                    OnLoginFailed, Destroyed
      <3>3. (Alarmed => Alarmed') /\ (e = Loss => Alarmed')
        BY <1>0, <2>1, DispatchKeepsAlarm
      <3>4. Holds(w) => Holds(w)' \/ Alarmed'
        BY <1>0, <2>1, <3>3, HandleKeepsLoss
      <3>5. Known
        <4>1. ui # "ended"
          BY <2>1
        <4> QED
          BY <3>2, <4>1 DEF LossInv
      <3> QED
        BY <3>1, <3>2, <3>3, <3>4, <3>5 DEF Known
    <2> QED
      BY <1>4, <2>1 DEF OnClientEvent
  <1>5. ASSUME NEW token \in Tokens \union {NoToken}, EditToken(token) PROVE Known'
    BY <1>5, <1>a DEF EditToken, Alarmed, Destroyed
  <1>6. CASE OnOK
    <2>1. Alarmed => Alarmed'
      BY <1>0, <1>6, ShowKeepsAlarm DEF OnOK, Alarmed
    <2> QED
      BY <1>6, <1>a, <2>1 DEF OnOK, SendMessageAsync, Destroyed
  <1>7. CASE OnCloseDialog
    BY <1>7, <1>a DEF OnCloseDialog, Reset, Alarmed, Destroyed
  <1>8. CASE UserClosesBox \/ BoxExpires
    <2>1. CloseBox /\ boxes # <<>> /\ ui # "ended"
      BY <1>8 DEF UserClosesBox, BoxExpires, BoxWaits
    <2>2. Alarmed => Alarmed'
      BY <1>0, <2>1, CloseKeepsAlarm
    <2>3. UNCHANGED <<queue, mailbox, live, lost, net, ui>>
      BY <2>1 DEF CloseBox, EndProcess
    <2> QED
      BY <1>a, <2>1, <2>2, <2>3 DEF Destroyed
  \* Dialogs: before the first one nothing was posted; one that goes takes its
  \* mailbox along.
  <1>9. CASE OpenLogin \/ LeaveDialog
    <2>1. live = {} /\ UNCHANGED <<queue, lost, boxes, net>> /\ ui # "ended"
      BY <1>9 DEF OpenLogin, LeaveDialog, Open, EndProcess, DialogInv
    <2>2. Destroyed => Destroyed'
      BY <1>9 DEF OpenLogin, LeaveDialog, EndProcess, Destroyed
    <2>3. Known
      BY <2>1 DEF LossInv
    <2> QED
      BY <2>1, <2>2, <2>3 DEF Known, Alarmed
  <1>10. ASSUME NEW w \in {"login", "main"}, Destroy(w), UNCHANGED <<net, boxes>>,
                ui # "ended", live = {w}, Destroyed'
         PROVE  Known'
    <2>1. Holds(w) => Loss \in lost'
      BY <1>10 DEF Destroy, Holds
    <2>2. queue' = queue /\ lost \subseteq lost'
      BY <1>10 DEF Destroy
    <2>3. Known
      BY <1>10 DEF LossInv
    <2> QED
      BY <1>10, <2>1, <2>2, <2>3 DEF Known, Alarmed
  <1>11. CASE DestroyLogin
    BY <1>10, <1>11 DEF DestroyLogin, DialogInv, Destroyed
  <1>12. CASE DestroyMain
    BY <1>10, <1>12 DEF DestroyMain, DialogInv, Destroyed
  <1> QED
    BY <1>1, <1>2, <1>3, <1>4, <1>5, <1>6, <1>7, <1>8, <1>9, <1>11, <1>12 DEF Next, User, Dialogs

\* Whatever the user and the boxes do, a client that lost its server knows it or
\* lost the error with a dialog that is gone.
THEOREM LossKnown == Spec => []LossIsNotForgotten
  <1>1. Spec => []DialogInv
    BY DialogInit, DialogStep, PTL DEF Spec
  <1>2. Spec => []LossInv
    BY <1>1, TypeCorrect, LossInit, LossStep, PTL DEF Spec
  <1> QED
    BY <1>2, LossIsInv, PTL
===============================================================================
