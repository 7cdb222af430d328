------------------------------- MODULE EventBus -------------------------------
(***************************************************************************)
(* What the client's event manager and its windows promise each other: the  *)
(* network thread hands events over, they are posted to the window that is   *)
(* registered as active, and the UI thread takes them from that window's     *)
(* message queue.  No threads, mutexes or condition variables here; those    *)
(* are in EventManager, which implements this module.                        *)
(***************************************************************************)
EXTENDS Sequences

CONSTANTS
    Windows,    \* window handles
    Events,     \* events
    Urgent      \* the events of EventPriority::High

VARIABLES
    queue,      \* events handed over and not posted yet (_eventQueue)
    target,     \* the window the current round of posts goes to
    active,     \* the registered window (ActiveWindowManager::_activeWindow)
    live,       \* windows that exist
    mailbox,    \* posted and unhandled events of each window
    lost,       \* events nobody will ever handle
    halted      \* the notifier thread is gone, or about to go

busVars == <<queue, target, active, live, mailbox, lost, halted>>

NoWindow == "no window"

BusTypeOK ==
    /\ queue \subseteq Events
    /\ target \in Windows \union {NoWindow}
    /\ active \in Windows \union {NoWindow}
    /\ live \subseteq Windows
    /\ mailbox \in [Windows -> Seq(Events)]
    /\ lost \subseteq Events
    /\ halted \in BOOLEAN

BusInit ==
    /\ queue = {}
    /\ target = NoWindow
    /\ active = NoWindow
    /\ live = {}
    /\ mailbox = [w \in Windows |-> <<>>]
    /\ lost = {}
    /\ halted = FALSE

-------------------------------------------------------------------------------
\* NotifyEvent waits for the mutex, which the notifier holds while it posts.
Notify(e) ==
    /\ target = NoWindow
    /\ e \notin queue
    /\ queue' = queue \union {e}
    /\ UNCHANGED <<target, active, live, mailbox, lost, halted>>

\* The notifier reads the active window once and then posts the whole queue.
Aim ==
    /\ target = NoWindow
    /\ queue # {}
    /\ active # NoWindow
    /\ target' = active
    /\ UNCHANGED <<queue, active, live, mailbox, lost, halted>>

\* priority_queue::top: an event of the highest priority queued.  It is no
\* FIFO, so among events of one priority any may come first.
Foremost == IF queue \intersect Urgent # {} THEN queue \intersect Urgent ELSE queue

\* PostMessage to a window that was destroyed since it was read fails.
Post(e) ==
    /\ target # NoWindow
    /\ e \in Foremost
    /\ queue' = queue \ {e}
    /\ IF target \in live
       THEN mailbox' = [mailbox EXCEPT ![target] = Append(@, e)] /\ UNCHANGED lost
       ELSE lost' = lost \union {e} /\ UNCHANGED mailbox
    /\ target' = IF queue' = {} THEN NoWindow ELSE target
    /\ UNCHANGED <<active, live, halted>>

Move == Aim \/ \E e \in Events : Post(e)

\* The process stops posting: the destructor told the notifier to stop, or the
\* notifier never got to run.
Halt ==
    /\ halted' = TRUE
    /\ UNCHANGED <<queue, target, active, live, mailbox, lost>>

-------------------------------------------------------------------------------
\* CreateDialog, whose WM_INITDIALOG registers the window.
Open(w) ==
    /\ live = {}
    /\ live' = {w}
    /\ active' = w
    /\ UNCHANGED <<queue, target, mailbox, lost, halted>>

Reset ==
    /\ active' = NoWindow
    /\ UNCHANGED <<queue, target, live, mailbox, lost, halted>>

\* DestroyWindow discards the messages posted to the window.
Destroy(w) ==
    /\ w \in live
    /\ live' = live \ {w}
    /\ lost' = lost \union {mailbox[w][i] : i \in DOMAIN mailbox[w]}
    /\ mailbox' = [mailbox EXCEPT ![w] = <<>>]
    /\ UNCHANGED <<queue, target, active, halted>>

\* The message loop dispatches WM_CLIENT_EVENT to the dialog.
Handle(w) ==
    /\ mailbox[w] # <<>>
    /\ mailbox' = [mailbox EXCEPT ![w] = Tail(@)]
    /\ UNCHANGED <<queue, target, active, live, lost, halted>>

BusNext ==
    \/ \E e \in Events : Notify(e)
    \/ Move
    \/ Halt
    \/ \E w \in Windows : Open(w) \/ Destroy(w) \/ Handle(w)
    \/ Reset

\* A round of posts starts while the notifier lives, and each one ends.
BusSpec == BusInit /\ [][BusNext]_busVars /\ WF_busVars(~halted /\ Move)
===============================================================================
