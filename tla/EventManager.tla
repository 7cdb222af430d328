----------------------------- MODULE EventManager -----------------------------
(***************************************************************************)
(* CEventManager with its notifier thread, mutex and condition variable; the *)
(* network thread that calls NotifyEvent, the UI thread that opens and       *)
(* closes dialogs, and the destructor that runs when the UI thread leaves    *)
(* main.                                                                     *)
(*                                                                           *)
(* Only the notifier keeps _eventMutex over several steps, so the mutex is   *)
(* held exactly when the notifier is in its critical section; the short one  *)
(* of NotifyEvent is one action that waits until the notifier is out of it.  *)
(***************************************************************************)
EXTENDS Sequences

CONSTANTS
    Windows,    \* the dialogs, each opened once
    Events,     \* events; each is notified at most once
    Urgent      \* those of EventPriority::High

VARIABLES
    ready,      \* _stopThread, _eventMutex and _eventQueue are constructed
    stopThread, \* _stopThread
    notifier,   \* where EventNotifyThread stands
    queue,      \* _eventQueue
    target,     \* EventNotifyThread's local activeWindow
    notified,   \* history: the events passed to NotifyEvent
    active,     \* ActiveWindowManager::_activeWindow
    opened,     \* dialogs created so far
    live,       \* windows that exist
    mailbox,    \* the part of each window's message queue that holds events
    handled,    \* history: events the UI thread dispatched
    lost,       \* history: events posted to a window that is gone
    destructor, \* where ~CEventManager stands
    missed      \* history: notify_one came between the predicate and the wait

windowVars == <<active, opened, live, mailbox, handled>>
vars == <<ready, stopThread, notifier, queue, target, notified, windowVars, lost,
          destructor, missed>>

NoWindow == "no window"

ASSUME NoWindowAssumption == NoWindow \notin Windows

NotifierStates == {"test", "lock", "predicate", "blocking", "waiting", "checkStop",
                   "readWindow", "posting", "exited", "stuck"}

\* The notifier is inside the scope of its unique_lock and not blocked in wait.
HoldsMutex == notifier \in {"predicate", "blocking", "checkStop", "readWindow", "posting"}

Init ==
    /\ ready = FALSE
    /\ stopThread = FALSE
    /\ notifier = "test"
    /\ queue = {}
    /\ target = NoWindow
    /\ notified = {}
    /\ active = NoWindow
    /\ opened = {}
    /\ live = {}
    /\ mailbox = [w \in Windows |-> <<>>]
    /\ handled = {}
    /\ lost = {}
    /\ destructor = "not run"
    /\ missed = FALSE

-------------------------------------------------------------------------------
(* EventNotifyThread.  _thread is declared, hence started, before the members *)
(* that the thread uses.                                                      *)

\* The constructor's remaining members; main and its threads run after it.
ConstructMembers ==
    /\ ~ready
    /\ ready' = TRUE
    /\ UNCHANGED <<stopThread, notifier, queue, target, notified, windowVars, lost,
                   destructor, missed>>

\* Before its construction _stopThread holds whatever the heap block held.
TestStop ==
    /\ notifier = "test"
    /\ \E stop \in (IF ready THEN {stopThread} ELSE BOOLEAN) :
           notifier' = IF stop THEN "exited" ELSE "lock"
    /\ UNCHANGED <<ready, stopThread, queue, target, notified, windowVars, lost,
                   destructor, missed>>

\* Locking the mutex before its construction, or being in it when it and the
\* condition variable are constructed, leaves the thread blocked for good.
Lock ==
    /\ notifier = "lock"
    /\ notifier' = IF ready THEN "predicate" ELSE "stuck"
    /\ UNCHANGED <<ready, stopThread, queue, target, notified, windowVars, lost,
                   destructor, missed>>

\* Mutant: the predicate forgets _stopThread.
Predicate_IgnoresStop ==
    /\ notifier = "predicate"
    /\ notifier' = IF queue # {} THEN "checkStop" ELSE "blocking"
    /\ UNCHANGED <<ready, stopThread, queue, target, notified, windowVars, lost,
                   destructor, missed>>

\* wait(lock, predicate): the predicate is evaluated under the mutex.
Predicate ==
    /\ notifier = "predicate"
    /\ notifier' = IF queue # {} \/ stopThread THEN "checkStop" ELSE "blocking"
    /\ UNCHANGED <<ready, stopThread, queue, target, notified, windowVars, lost,
                   destructor, missed>>

\* ... and then the thread blocks and releases the mutex in one step.
Block ==
    /\ notifier = "blocking"
    /\ notifier' = "waiting"
    /\ UNCHANGED <<ready, stopThread, queue, target, notified, windowVars, lost,
                   destructor, missed>>

\* notify_one wakes the notifier if it waits and is forgotten otherwise.  Woken,
\* it competes for the mutex and looks at the predicate again.
NotifyOne == notifier' = IF notifier = "waiting" THEN "lock" ELSE notifier

SpuriousWakeup ==
    /\ notifier = "waiting"
    /\ notifier' = "lock"
    /\ UNCHANGED <<ready, stopThread, queue, target, notified, windowVars, lost,
                   destructor, missed>>

CheckStop ==
    /\ notifier = "checkStop"
    /\ notifier' = IF stopThread THEN "exited" ELSE "readWindow"
    /\ UNCHANGED <<ready, stopThread, queue, target, notified, windowVars, lost,
                   destructor, missed>>

\* Mutant: events are posted to a null window, too.
ReadWindow_NullToo ==
    /\ notifier = "readWindow"
    /\ target' = active
    /\ notifier' = "posting"
    /\ UNCHANGED <<ready, stopThread, queue, notified, windowVars, lost,
                   destructor, missed>>

\* Without an active window the loop is left, the mutex released, and the
\* thread starts over: it spins until a window is registered.
ReadWindow ==
    /\ notifier = "readWindow"
    /\ target' = active
    /\ notifier' = IF active = NoWindow THEN "test" ELSE "posting"
    /\ UNCHANGED <<ready, stopThread, queue, notified, windowVars, lost,
                   destructor, missed>>

\* Mutant: the comparison of events is the wrong way round.
Top_Reversed == {e \in queue : e \notin Urgent \/ queue \subseteq Urgent}

\* The comparison of Event orders by priority only; the heap is not stable.
Top == {e \in queue : e \in Urgent \/ queue \intersect Urgent = {}}

\* Mutant: the event is not popped before it is posted.
PostEvent_NoPop(e) ==
    /\ notifier = "posting"
    /\ e \in Top
    /\ mailbox' = [mailbox EXCEPT ![target] = Append(@, e)]
    /\ notifier' = "test" /\ target' = NoWindow
    /\ UNCHANGED <<ready, stopThread, queue, lost, notified, active, opened, live,
                   handled, destructor, missed>>

\* Mutant: the window read for one round is kept for the next.
PostEvent_KeepsTarget(e) ==
    /\ notifier = "posting"
    /\ e \in Top
    /\ queue' = queue \ {e}
    /\ mailbox' = [mailbox EXCEPT ![target] = Append(@, e)]
    /\ notifier' = IF queue = {e} THEN "test" ELSE notifier
    /\ UNCHANGED <<ready, stopThread, target, lost, notified, active, opened, live,
                   handled, destructor, missed>>

PostEvent(e) ==
    /\ notifier = "posting"
    /\ e \in Top
    /\ queue' = queue \ {e}
    /\ IF target \in live
       THEN mailbox' = [mailbox EXCEPT ![target] = Append(@, e)] /\ UNCHANGED lost
       ELSE lost' = lost \union {e} /\ UNCHANGED mailbox
    /\ IF queue = {e}
       THEN notifier' = "test" /\ target' = NoWindow
       ELSE UNCHANGED <<notifier, target>>
    /\ UNCHANGED <<ready, stopThread, notified, active, opened, live, handled,
                   destructor, missed>>

-------------------------------------------------------------------------------
(* The network thread.                                                       *)

\* Mutant: the event is queued without waking the notifier.
NotifyEvent_NoWakeup(e) ==
    /\ ready /\ destructor # "done"
    /\ e \notin notified
    /\ ~HoldsMutex
    /\ queue' = queue \union {e}
    /\ notified' = notified \union {e}
    /\ UNCHANGED <<ready, stopThread, notifier, target, windowVars, lost, destructor,
                   missed>>

\* Detached, it may still call NotifyEvent while the destructor runs; a call
\* after the members are gone is outside this model.
NotifyEvent(e) ==
    /\ ready /\ destructor # "done"
    /\ e \notin notified
    /\ ~HoldsMutex
    /\ queue' = queue \union {e}
    /\ notified' = notified \union {e}
    /\ NotifyOne
    /\ UNCHANGED <<ready, stopThread, target, windowVars, lost, destructor, missed>>

-------------------------------------------------------------------------------
(* The UI thread.  Dialogs follow one another; closing one resets the active  *)
(* window first, unless the login dialog closes itself after a login.         *)

OpenDialog(w) ==
    /\ ready /\ destructor = "not run"
    /\ live = {} /\ w \notin opened
    /\ opened' = opened \union {w}
    /\ live' = {w}
    /\ active' = w
    /\ UNCHANGED <<ready, stopThread, notifier, queue, target, notified, mailbox,
                   handled, lost, destructor, missed>>

ResetWindow ==
    /\ live # {} /\ active # NoWindow
    /\ active' = NoWindow
    /\ UNCHANGED <<ready, stopThread, notifier, queue, target, notified, opened, live,
                   mailbox, handled, lost, destructor, missed>>

CloseDialog(w) ==
    /\ w \in live
    /\ live' = {}
    /\ lost' = lost \union {mailbox[w][i] : i \in DOMAIN mailbox[w]}
    /\ mailbox' = [mailbox EXCEPT ![w] = <<>>]
    /\ UNCHANGED <<ready, stopThread, notifier, queue, target, notified, active, opened,
                   handled, destructor, missed>>

OnClientEvent(w) ==
    /\ mailbox[w] # <<>>
    /\ handled' = handled \union {Head(mailbox[w])}
    /\ mailbox' = [mailbox EXCEPT ![w] = Tail(@)]
    /\ UNCHANGED <<ready, stopThread, notifier, queue, target, notified, active, opened,
                   live, lost, destructor, missed>>

\* ~CEventManager: neither the flag nor the notification takes the mutex.
SetStop ==
    /\ ready /\ destructor = "not run" /\ live = {}
    /\ stopThread' = TRUE
    /\ destructor' = "stop set"
    /\ UNCHANGED <<ready, notifier, queue, target, notified, windowVars, lost, missed>>

NotifyStop ==
    /\ destructor = "stop set"
    /\ NotifyOne
    /\ missed' = (notifier = "blocking")
    /\ destructor' = "joining"
    /\ UNCHANGED <<ready, stopThread, queue, target, notified, windowVars, lost>>

Join ==
    /\ destructor = "joining"
    /\ notifier = "exited"
    /\ destructor' = "done"
    /\ UNCHANGED <<ready, stopThread, notifier, queue, target, notified, windowVars, lost,
                   missed>>

-------------------------------------------------------------------------------
NotifierStep ==
    \/ TestStop \/ Lock \/ Predicate \/ Block \/ CheckStop \/ ReadWindow
    \/ \E e \in Events : PostEvent(e)

Destruct == SetStop \/ NotifyStop \/ Join

Next ==
    \/ ConstructMembers
    \/ NotifierStep
    \/ SpuriousWakeup
    \/ \E e \in Events : NotifyEvent(e)
    \/ \E w \in Windows : OpenDialog(w) \/ CloseDialog(w) \/ OnClientEvent(w)
    \/ ResetWindow
    \/ Destruct

\* The scheduler runs every thread that can run.  When a dialog opens, closes
\* or an event arrives is up to the user and the server.
Fairness ==
    /\ WF_vars(ConstructMembers)
    /\ WF_vars(NotifierStep)
    /\ WF_vars(NotifyStop \/ Join)

Spec == Init /\ [][Next]_vars /\ Fairness

-------------------------------------------------------------------------------
TypeOK ==
    /\ ready \in BOOLEAN /\ stopThread \in BOOLEAN
    /\ notifier \in NotifierStates
    /\ queue \subseteq Events
    /\ target \in Windows \union {NoWindow}
    /\ target # NoWindow <=> notifier = "posting"
    /\ active \in Windows \union {NoWindow}
    /\ notified \subseteq Events /\ handled \subseteq Events /\ lost \subseteq Events
    /\ live \subseteq opened /\ opened \subseteq Windows
    /\ mailbox \in [Windows -> Seq(Events)]
    /\ destructor \in {"not run", "stop set", "joining", "done"}
    /\ missed \in BOOLEAN

Gone == stopThread \/ notifier \in {"exited", "stuck"}

Bus == INSTANCE EventBus WITH halted <- Gone

\* Mutex, condition variable, stop flag and construction order together give
\* what EventBus promises, the progress of posting included: no wakeup of
\* NotifyEvent is lost (EventManager.cpp, EventNotifyThread).
ImplementsBus == Bus!BusSpec

Posted == UNION {{mailbox[w][i] : i \in DOMAIN mailbox[w]} : w \in Windows}

\* An event is queued, posted, handled or lost, in one of these places only and
\* never twice, whatever windows come and go meanwhile (EventManager.cpp, the
\* copy, pop and post of an event).
EachEventOnce ==
    /\ notified = queue \union Posted \union handled \union lost
    /\ queue \intersect Posted = {}
    /\ (queue \union Posted) \intersect (handled \union lost) = {}
    /\ handled \intersect lost = {}
    /\ \A w, x \in Windows : \A i \in DOMAIN mailbox[w], j \in DOMAIN mailbox[x] :
           mailbox[w][i] = mailbox[x][j] => w = x /\ i = j

\* As long as no dialog was closed no event is lost: those that arrive before
\* the first dialog exists stay queued for it (EventManager.cpp, the test of
\* activeWindow).
NothingLostBeforeClose == lost # {} => opened \ live # {}

\* No wakeup is lost: a notifier that blocks, or is about to, has nothing to post
\* and was not told to stop before it looked, whatever came between its look at
\* the predicate and its wait; only the destructor's notification, sent without
\* the mutex, can fall there (EventManager.cpp, wait, NotifyEvent and
\* ~CEventManager).
SleepsOnlyWhenIdle ==
    notifier \in {"blocking", "waiting"} =>
        queue = {} /\ (destructor \in {"not run", "stop set"} \/ missed)

\* A queued event is posted unless the window goes away or the notifier does.
\* In particular the notifier never sleeps while events are queued.
QueueDrains ==
    \A e \in Events : (e \in queue) ~> (e \notin queue \/ active = NoWindow \/ Gone)

\* The destructor returns, except when its notification fell between the
\* predicate and the wait, or the notifier was stuck from the beginning
\* (EventManager.cpp, ~CEventManager, which stores and notifies unlocked).
JoinReturns ==
    (destructor = "joining" /\ ~missed /\ notifier # "stuck") ~> (destructor = "done")
===============================================================================
