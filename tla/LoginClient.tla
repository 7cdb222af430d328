----------------------------- MODULE LoginClient ------------------------------
(***************************************************************************)
(* The client program: the UI thread with the login and the main dialog, the *)
(* network thread with the websocket, and the events between them.           *)
(*                                                                           *)
(* EventBus is the event manager seen from outside.  A dialog's handlers run *)
(* in the UI thread's message loop; a message box shown by a handler runs a  *)
(* message loop of its own, in which further events are handled before the   *)
(* handler goes on, so open boxes form a stack.                              *)
(***************************************************************************)
EXTENDS Naturals, Sequences, FiniteSets

CONSTANTS
    Tokens,     \* user tokens a user may type
    NoToken     \* the empty edit box, or nothing stored yet

VARIABLES queue, target, active, live, mailbox, lost, halted    \* see EventBus

VARIABLES
    net,        \* the connection: "connecting", "open" or "done"
    requests,   \* requests sent and not answered
    ui,         \* where the UI thread stands, below the open boxes
    boxes,      \* open message boxes, the innermost last
    loggedIn,   \* cLoginDlg::_loggedIn
    button,     \* the login button is enabled
    edit,       \* content of the user token box
    stored,     \* the token in login.ini
    accepted,   \* history: the token of the login that succeeded
    versionOK   \* history: the version was found to be up to date

\* An event carries the token of the login it reports, for the properties only.
EventTypes == {"ConnectSuccess", "ConnectError", "ParseMessageError", "VersionSuccess",
               "VersionUpdate", "VersionFailed", "LoginSuccess", "LoginFailed"}
ClientEvents == [type : EventTypes, token : Tokens \union {NoToken}]
UrgentEvents == {e \in ClientEvents : e.type \in {"ConnectError", "ParseMessageError"}}

Event(type) == [type |-> type, token |-> NoToken]

INSTANCE EventBus WITH Windows <- {"login", "main"}, Events <- ClientEvents,
                       Urgent <- UrgentEvents

Requests == [id : {"version", "login"}, token : Tokens \union {NoToken}]

\* owned: shown with the dialog as owner, which is disabled meanwhile;
\* timed: MessageBoxTimeout closes it after 15 s; fatal: ExitProcess follows.
Boxes == [owned : BOOLEAN, timed : BOOLEAN, fatal : BOOLEAN]
Notice  == [owned |-> TRUE,  timed |-> FALSE, fatal |-> FALSE]
Orphan  == [owned |-> FALSE, timed |-> FALSE, fatal |-> FALSE]
Goodbye == [owned |-> TRUE,  timed |-> TRUE,  fatal |-> TRUE]

eventVars == <<queue, target, active, live, mailbox, lost, halted>>
netVars == <<net, requests>>
formVars == <<button, edit>>
infoVars == <<loggedIn, stored, accepted, versionOK>>
vars == <<eventVars, netVars, ui, boxes, formVars, infoVars>>

\* OnInit of the login dialog: it shows the stored token, the button is disabled.
Init ==
    /\ BusInit
    /\ net = "connecting"
    /\ requests = {}
    /\ ui = "start"
    /\ boxes = <<>>
    /\ loggedIn = FALSE
    /\ button = FALSE
    /\ stored \in Tokens \union {NoToken}
    /\ edit = stored
    /\ accepted = NoToken
    /\ versionOK = FALSE

-------------------------------------------------------------------------------
(* The network thread.                                                       *)

OnConnect ==
    /\ net = "connecting"
    /\ net' = "open"
    /\ Notify(Event("ConnectSuccess"))
    /\ UNCHANGED <<requests, ui, boxes, formVars, infoVars>>

\* Mutant: ConnectFailed is delivered like the other events.
OnFail_ConnectFailed ==
    /\ net = "connecting"
    /\ net' = "done"
    /\ Notify(Event("ConnectFailed"))
    /\ UNCHANGED <<requests, ui, boxes, formVars, infoVars>>

\* ConnectFailed has no priority, so NotifyEvent throws; the exception leaves
\* run() and ClientNetworkThread reports a connect error instead.
OnFail ==
    /\ net = "connecting"
    /\ net' = "done"
    /\ Notify(Event("ConnectError"))
    /\ UNCHANGED <<requests, ui, boxes, formVars, infoVars>>

\* run() returns after this; nothing connects again.
OnClose ==
    /\ net = "open"
    /\ net' = "done"
    /\ Notify(Event("ConnectError"))
    /\ UNCHANGED <<requests, ui, boxes, formVars, infoVars>>

ReplyTypes(request) ==
    {"ParseMessageError"} \union
    (IF request.id = "version" THEN {"VersionSuccess", "VersionUpdate", "VersionFailed"}
                               ELSE {"LoginSuccess", "LoginFailed"})

\* The server answers a request once or never.
OnReply(request, type) ==
    /\ net = "open"
    /\ request \in requests
    /\ requests' = requests \ {request}
    /\ Notify([type |-> type, token |-> request.token])
    /\ UNCHANGED <<net, ui, boxes, formVars, infoVars>>

OnMessage(request) == \E type \in ReplyTypes(request) : OnReply(request, type)

\* send() reports an error on a connection that is not open; it is ignored.
SendMessageAsync(request) ==
    /\ requests' = IF net = "open" THEN requests \union {request} ELSE requests
    /\ UNCHANGED net

-------------------------------------------------------------------------------
(* The UI thread's handlers of events.                                       *)

Show(box) == boxes' = Append(boxes, box)

\* Mutant: the button is enabled as soon as there is a connection.
OnConnectSuccess_Enables ==
    /\ SendMessageAsync([id |-> "version", token |-> NoToken])
    /\ button' = TRUE
    /\ UNCHANGED <<ui, boxes, edit, infoVars>>

\* Hashing the executable may fail; then a box without an owner appears.
OnConnectSuccess ==
    /\ \/ SendMessageAsync([id |-> "version", token |-> NoToken]) /\ UNCHANGED boxes
       \/ Show(Orphan) /\ UNCHANGED netVars
    /\ UNCHANGED <<ui, formVars, infoVars>>

OnVersionUpdate ==
    /\ Show(Goodbye)
    /\ UNCHANGED <<netVars, ui, formVars, infoVars>>

\* Mutant: a failed version check enables the login button, too.
OnVersionFailed_Enables ==
    /\ button' = TRUE
    /\ Show(Notice)
    /\ UNCHANGED <<netVars, ui, edit, infoVars>>

OnVersionFailed ==
    /\ Show(Notice)
    /\ UNCHANGED <<netVars, ui, formVars, infoVars>>

OnVersionSuccess ==
    /\ button' = TRUE
    /\ versionOK' = TRUE
    /\ UNCHANGED <<netVars, ui, boxes, edit, loggedIn, stored, accepted>>

\* What is stored is the content of the edit box now, not the token sent.  The
\* dialog destroys itself next, without resetting the active window.
OnLoginSuccess(token) ==
    /\ stored' = edit
    /\ loggedIn' = TRUE
    /\ accepted' = token
    /\ ui' = "closing"
    /\ UNCHANGED <<netVars, boxes, formVars, versionOK>>

OnLoginFailed ==
    /\ button' = TRUE
    /\ Show(Notice)
    /\ UNCHANGED <<netVars, ui, edit, infoVars>>

\* OnConnectError and OnParseMessageError, of both dialogs.
OnError ==
    /\ Show(Goodbye)
    /\ UNCHANGED <<netVars, ui, formVars, infoVars>>

Dispatch(e) ==
    \/ e.type \in {"ConnectError", "ParseMessageError"} /\ OnError
    \/ e.type = "ConnectSuccess" /\ OnConnectSuccess
    \/ e.type = "VersionUpdate" /\ OnVersionUpdate
    \/ e.type = "VersionFailed" /\ OnVersionFailed
    \/ e.type = "VersionSuccess" /\ OnVersionSuccess
    \/ e.type = "LoginSuccess" /\ OnLoginSuccess(e.token)
    \/ e.type = "LoginFailed" /\ OnLoginFailed

\* Mutant: the main dialog replaces the base class's event handlers.
DispatchMain_NoErrors(e) == UNCHANGED <<netVars, ui, boxes, formVars, infoVars>>

\* The main dialog has handlers for the two errors only.
DispatchMain(e) ==
    IF e.type \in {"ConnectError", "ParseMessageError"} THEN OnError
    ELSE UNCHANGED <<netVars, ui, boxes, formVars, infoVars>>

OnClientEvent ==
    \/ ui = "login" /\ Handle("login") /\ Dispatch(Head(mailbox["login"]))
    \/ ui = "main" /\ Handle("main") /\ DispatchMain(Head(mailbox["main"]))

-------------------------------------------------------------------------------
(* The user.  A dialog that owns an open box takes no input.                  *)

Enabled == \A i \in DOMAIN boxes : ~boxes[i].owned

EditToken(token) ==
    /\ ui = "login" /\ Enabled
    /\ edit' = token
    /\ UNCHANGED <<eventVars, netVars, ui, boxes, button, infoVars>>

\* Mutant: the button stays enabled while a login is in flight.
OnOK_KeepsButton ==
    /\ ui = "login" /\ Enabled /\ button
    /\ IF edit = NoToken
       THEN Show(Notice) /\ UNCHANGED netVars
       ELSE SendMessageAsync([id |-> "login", token |-> edit]) /\ UNCHANGED boxes
    /\ UNCHANGED <<eventVars, ui, formVars, infoVars>>

OnOK ==
    /\ ui = "login" /\ Enabled /\ button
    /\ IF edit = NoToken
       THEN Show(Notice) /\ UNCHANGED <<netVars, button>>
       ELSE /\ button' = FALSE
            /\ \/ SendMessageAsync([id |-> "login", token |-> edit]) /\ UNCHANGED boxes
               \/ Show(Orphan) /\ UNCHANGED netVars
    /\ UNCHANGED <<eventVars, ui, edit, infoVars>>

\* cDialog::OnClose resets the active window and then destroys the dialog.
OnCloseDialog ==
    /\ ui \in {"login", "main"} /\ Enabled
    /\ Reset
    /\ ui' = IF ui = "login" THEN "closing" ELSE "closingMain"
    /\ UNCHANGED <<netVars, boxes, formVars, infoVars>>

-------------------------------------------------------------------------------
(* The UI thread between and after its dialogs.                              *)

OpenLogin ==
    /\ ui = "start"
    /\ Open("login")
    /\ ui' = "login"
    /\ UNCHANGED <<netVars, boxes, formVars, infoVars>>

DestroyLogin ==
    /\ ui = "closing"
    /\ Destroy("login")
    /\ ui' = "closed"
    /\ UNCHANGED <<netVars, boxes, formVars, infoVars>>

DestroyMain ==
    /\ ui = "closingMain"
    /\ Destroy("main")
    /\ ui' = "closedMain"
    /\ UNCHANGED <<netVars, boxes, formVars, infoVars>>

\* exit and ExitProcess end the other threads, the notifier among them.
EndProcess == ui' = "ended" /\ Halt

\* RunModeless returns once the handlers below the boxes have; without a login
\* the process exits.
LeaveDialog ==
    /\ boxes = <<>>
    /\ \/ ui = "closed" /\ loggedIn /\ Open("main") /\ ui' = "main"
       \/ ui = "closed" /\ ~loggedIn /\ EndProcess
       \/ ui = "closedMain" /\ EndProcess
    /\ UNCHANGED <<netVars, boxes, formVars, infoVars>>

\* Mutant: exit_on_close is ignored.
CloseBox_NoExit ==
    /\ boxes' = SubSeq(boxes, 1, Len(boxes) - 1)
    /\ UNCHANGED <<eventVars, netVars, ui, formVars, infoVars>>

\* MessageBoxTimeout returns to the handler that showed the box.
CloseBox ==
    /\ boxes' = SubSeq(boxes, 1, Len(boxes) - 1)
    /\ IF boxes[Len(boxes)].fatal THEN EndProcess ELSE UNCHANGED <<eventVars, ui>>
    /\ UNCHANGED <<netVars, formVars, infoVars>>

\* A box takes input while its message loop, the innermost, runs.
BoxWaits == boxes # <<>> /\ ui \notin {"closing", "closingMain", "ended"}

\* The box's time is up, or its owner was destroyed and took it along.
BoxExpires ==
    /\ BoxWaits
    /\ boxes[Len(boxes)].timed \/ (boxes[Len(boxes)].owned /\ live = {})
    /\ CloseBox

UserClosesBox == BoxWaits /\ CloseBox

-------------------------------------------------------------------------------
Running == ui # "ended"

Network ==
    /\ Running
    /\ OnConnect \/ OnFail \/ OnClose \/ \E r \in Requests : OnMessage(r)

Posting ==
    /\ Running
    /\ Move
    /\ UNCHANGED <<netVars, ui, boxes, formVars, infoVars>>

NotifierDies ==
    /\ Running
    /\ Halt
    /\ UNCHANGED <<netVars, ui, boxes, formVars, infoVars>>

User ==
    \/ \E token \in Tokens \union {NoToken} : EditToken(token)
    \/ OnOK \/ OnCloseDialog \/ UserClosesBox

Dialogs == OpenLogin \/ DestroyLogin \/ DestroyMain \/ LeaveDialog \/ BoxExpires

Next == Network \/ Posting \/ NotifierDies \/ User \/ OnClientEvent \/ Dialogs

\* The message loop dispatches what is posted, timers fire, and the notifier
\* posts unless it died.  User and network owe nothing.
Fairness ==
    /\ WF_vars(~halted /\ Posting)
    /\ WF_vars(OnClientEvent)
    /\ WF_vars(Dialogs)

Spec == Init /\ [][Next]_vars /\ Fairness

-------------------------------------------------------------------------------
TypeOK ==
    /\ BusTypeOK
    /\ net \in {"connecting", "open", "done"}
    /\ requests \subseteq Requests
    /\ ui \in {"start", "login", "closing", "closed", "main", "closingMain",
               "closedMain", "ended"}
    /\ boxes \in Seq(Boxes)
    /\ loggedIn \in BOOLEAN /\ button \in BOOLEAN /\ versionOK \in BOOLEAN
    /\ {edit, stored, accepted} \subseteq Tokens \union {NoToken}

\* Replies the network thread received and the login dialog has not handled.
Unhandled ==
    {e \in queue \union {mailbox["login"][i] : i \in DOMAIN mailbox["login"]} :
        e.type \notin {"ConnectSuccess", "ConnectError"}}

\* The client never has two requests in flight, an answered one whose event the
\* dialog still has to handle included, and the button is enabled only when
\* there is none: the server's check-then-authenticate race is out of this
\* client's reach (LoginDlg.cpp, OnOK and the handlers that enable the button).
OneRequestAtATime ==
    /\ Cardinality(requests) + Cardinality(Unhandled) <= 1
    /\ button => requests = {} /\ Unhandled = {}

\* A login leaves the client only after the server found its version up to date
\* (LoginDlg.cpp, OnVersionSuccess).
LoginAfterVersion == \A r \in requests : r.id = "login" => versionOK

\* What the README promises: the credentials stored upon a successful login are
\* those that logged in.  OnLoginSuccess stores the edit box's present content.
StoresTheCredentials == loggedIn => stored = accepted

\* Once the server is lost or was not reached, the error that says so is queued,
\* posted to a dialog that exists, or on the screen as a box that ends the process;
\* it is lost only with a dialog that was destroyed, never before the first one
\* appears or while it is up, whatever boxes and handlers come in between
\* (WebSocketClient.cpp, OnFail and OnClose; Dialog.hpp, OnConnectError).
LossIsNotForgotten ==
    net = "done" /\ ui # "ended" =>
        \/ Event("ConnectError") \in queue
        \/ \E w \in live : \E i \in DOMAIN mailbox[w] : mailbox[w][i] = Event("ConnectError")
        \/ \E i \in DOMAIN boxes : boxes[i].fatal
        \/ Event("ConnectError") \in lost /\ ui \notin {"start", "login", "closing"}

\* The innermost box has no timeout.
WaitsForUser == boxes # <<>> /\ ~boxes[Len(boxes)].timed

\* A fatal box ends the process although events handled by its message loop may
\* close the dialog under it or open further boxes; only a box without a timeout
\* on top of it can hold the exit up (Message.hpp, Show).
FatalBoxEndsClient ==
    (\E i \in DOMAIN boxes : boxes[i].fatal) ~> (ui = "ended" \/ WaitsForUser)

\* Losing the server, or failing to reach it, ends the client in whichever
\* dialog it is, except when the error was posted to a dialog just closed, the
\* notifier died, or a box without a timeout waits for the user (WebSocketClient.cpp,
\* OnFail and OnClose; Dialog.hpp, OnConnectError).
ServerLossEndsClient ==
    (net = "done") ~> (ui = "ended" \/ WaitsForUser \/ halted \/ Event("ConnectError") \in lost)
===============================================================================
