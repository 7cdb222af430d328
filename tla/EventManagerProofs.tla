-------------------------- MODULE EventManagerProofs --------------------------
(***************************************************************************)
(* Proofs about EventManager for any number of windows and events: type      *)
(* correctness, no loss of events before a dialog closes, that each event is  *)
(* in one place only, that no wakeup is lost, and that every step is a step   *)
(* of EventBus or leaves it alone.                                            *)
(***************************************************************************)
EXTENDS EventManager, Naturals, TLAPS

\* Windows are known before anybody refers to them, dialogs exist one at a
\* time, and a round of posts begins only when something is queued.
WindowInv ==
    /\ {target, active} \subseteq opened \union {NoWindow}
    /\ \A v, w \in live : v = w
    /\ notifier \in {"readWindow", "posting"} => queue # {}
    /\ notifier = "checkStop" => queue # {} \/ stopThread
    /\ queue \subseteq notified

IndInv == TypeOK /\ WindowInv /\ NothingLostBeforeClose

LEMMA IndInvInit == Init => IndInv
  <1> SUFFICES ASSUME Init PROVE IndInv
    OBVIOUS
  <1>0. <<>> \in Seq(Events)
    OBVIOUS
  <1>1. mailbox \in [Windows -> Seq(Events)]
    BY <1>0 DEF Init
  <1>2. TypeOK
    BY <1>1 DEF Init, TypeOK, NotifierStates
  <1>3. WindowInv
    BY DEF Init, WindowInv
  <1>4. NothingLostBeforeClose
    BY DEF Init, NothingLostBeforeClose
  <1> QED
    BY <1>2, <1>3, <1>4 DEF IndInv

\* The steps of the notifier that touch nothing but its own position.
LEMMA NotifierMoves ==
    ASSUME IndInv,
           notifier # "posting", notifier' # "posting", notifier' \in NotifierStates,
           notifier' = "readWindow" => queue # {},
           notifier' = "checkStop" => queue # {} \/ stopThread,
           UNCHANGED <<ready, stopThread, queue, target, notified, windowVars, lost,
                       destructor, missed>>
    PROVE  IndInv'
  BY DEF IndInv, TypeOK, WindowInv, NothingLostBeforeClose, windowVars

LEMMA IndInvStep == IndInv /\ [Next]_vars => IndInv'
  <1> SUFFICES ASSUME IndInv, [Next]_vars PROVE IndInv'
    OBVIOUS
  <1>1. CASE UNCHANGED vars
    BY <1>1 DEF IndInv, TypeOK, WindowInv, NothingLostBeforeClose, vars, windowVars
  <1>2. CASE ConstructMembers
    BY <1>2 DEF IndInv, TypeOK, WindowInv, NothingLostBeforeClose, ConstructMembers, windowVars
  <1>3. CASE TestStop
    BY <1>3, NotifierMoves DEF TestStop, NotifierStates
  <1>4. CASE Lock
    BY <1>4, NotifierMoves DEF Lock, NotifierStates
  <1>5. CASE Predicate
    BY <1>5, NotifierMoves DEF Predicate, NotifierStates
  <1>6. CASE Block
    BY <1>6, NotifierMoves DEF Block, NotifierStates
  <1>7. CASE CheckStop
    <2>1. notifier' = "readWindow" => queue # {}
      BY <1>7 DEF CheckStop, IndInv, WindowInv
    <2> QED
      BY <1>7, <2>1, NotifierMoves DEF CheckStop, NotifierStates
  <1>8. CASE ReadWindow
    BY <1>8, NoWindowAssumption DEF IndInv, TypeOK, WindowInv, NothingLostBeforeClose,
                                   ReadWindow, windowVars, NotifierStates
  <1>9. ASSUME NEW e \in Events, PostEvent(e) PROVE IndInv'
    <2>1. target \in Windows /\ target \in opened
      BY <1>9 DEF IndInv, TypeOK, WindowInv, PostEvent
    <2>2. mailbox[target] \in Seq(Events)
      BY <2>1 DEF IndInv, TypeOK
    <2>3. Append(mailbox[target], e) \in Seq(Events)
      BY <2>2
    <2>4. /\ mailbox' \in [Windows -> Seq(Events)] /\ lost' \subseteq Events
          /\ lost' # lost => target \in opened \ live
      BY <1>9, <2>1, <2>3 DEF IndInv, TypeOK, PostEvent
    <2>5. TypeOK'
      BY <1>9, <2>4, NoWindowAssumption DEF IndInv, TypeOK, PostEvent, NotifierStates
    <2>6. WindowInv'
      BY <1>9 DEF IndInv, WindowInv, PostEvent, Top
    <2>7. NothingLostBeforeClose'
      BY <1>9, <2>4 DEF IndInv, NothingLostBeforeClose, PostEvent
    <2> QED
      BY <2>5, <2>6, <2>7 DEF IndInv
  <1>10. CASE SpuriousWakeup
    BY <1>10, NotifierMoves DEF SpuriousWakeup, NotifierStates
  <1>11. ASSUME NEW e \in Events, NotifyEvent(e) PROVE IndInv'
    BY <1>11 DEF IndInv, TypeOK, WindowInv, NothingLostBeforeClose, NotifyEvent, NotifyOne,
                 HoldsMutex, windowVars, NotifierStates
  <1>12. ASSUME NEW w \in Windows, OpenDialog(w) PROVE IndInv'
    BY <1>12 DEF IndInv, TypeOK, WindowInv, NothingLostBeforeClose, OpenDialog
  <1>13. ASSUME NEW w \in Windows, CloseDialog(w) PROVE IndInv'
    <2>1. mailbox[w] \in Seq(Events)
      BY DEF IndInv, TypeOK
    <2>2. {mailbox[w][i] : i \in DOMAIN mailbox[w]} \subseteq Events
      BY <2>1
    <2>0. <<>> \in Seq(Events)
      OBVIOUS
    <2>3. mailbox' \in [Windows -> Seq(Events)]
      BY <1>13, <2>0 DEF IndInv, TypeOK, CloseDialog
    <2>4. TypeOK'
      BY <1>13, <2>2, <2>3 DEF IndInv, TypeOK, CloseDialog
    <2>5. WindowInv' /\ NothingLostBeforeClose'
      BY <1>13 DEF IndInv, TypeOK, WindowInv, NothingLostBeforeClose, CloseDialog
    <2> QED
      BY <2>4, <2>5 DEF IndInv
  <1>14. ASSUME NEW w \in Windows, OnClientEvent(w) PROVE IndInv'
    <2>1. mailbox[w] \in Seq(Events) /\ mailbox[w] # <<>>
      BY <1>14 DEF IndInv, TypeOK, OnClientEvent
    <2>2. Head(mailbox[w]) \in Events /\ Tail(mailbox[w]) \in Seq(Events)
      BY <2>1
    <2>3. mailbox' \in [Windows -> Seq(Events)] /\ handled' \subseteq Events
      BY <1>14, <2>2 DEF IndInv, TypeOK, OnClientEvent
    <2>4. TypeOK'
      BY <1>14, <2>3 DEF IndInv, TypeOK, OnClientEvent
    <2>5. WindowInv' /\ NothingLostBeforeClose'
      BY <1>14 DEF IndInv, WindowInv, NothingLostBeforeClose, OnClientEvent
    <2> QED
      BY <2>4, <2>5 DEF IndInv
  <1>15. CASE ResetWindow
    BY <1>15 DEF IndInv, TypeOK, WindowInv, NothingLostBeforeClose, ResetWindow
  <1>16. CASE SetStop
    BY <1>16 DEF IndInv, TypeOK, WindowInv, NothingLostBeforeClose, SetStop, windowVars
  <1>17. CASE NotifyStop
    BY <1>17 DEF IndInv, TypeOK, WindowInv, NothingLostBeforeClose, NotifyStop, NotifyOne,
                 windowVars, NotifierStates
  <1>18. CASE Join
    BY <1>18 DEF IndInv, TypeOK, WindowInv, NothingLostBeforeClose, Join, windowVars
  <1> QED
    BY <1>1, <1>2, <1>3, <1>4, <1>5, <1>6, <1>7, <1>8, <1>9, <1>10, <1>11, <1>12, <1>13,
       <1>14, <1>15, <1>16, <1>17, <1>18 DEF Next, NotifierStep, Destruct

LEMMA IndInvariant == Spec => []IndInv
  BY IndInvInit, IndInvStep, PTL DEF Spec

\* Every variable keeps its type, and a window handle is held during a round of
\* posts only, for any number of windows and events.
THEOREM TypeCorrect == Spec => []TypeOK
  <1>1. IndInv => TypeOK
    BY DEF IndInv
  <1> QED
    BY <1>1, IndInvariant, PTL

\* No event is lost before a dialog was closed.
THEOREM NoEarlyLoss == Spec => []NothingLostBeforeClose
  <1>1. IndInv => NothingLostBeforeClose
    BY DEF IndInv
  <1> QED
    BY <1>1, IndInvariant, PTL

-------------------------------------------------------------------------------
(* Each event is in one place.  What happens to mailboxes is that an event is *)
(* appended to one, that its first is taken, or that it is emptied.           *)

Contents(boxes) == UNION {{boxes[w][i] : i \in DOMAIN boxes[w]} : w \in Windows}

Distinct(boxes) ==
    \A w, x \in Windows : \A i \in DOMAIN boxes[w], j \in DOMAIN boxes[x] :
        boxes[w][i] = boxes[x][j] => w = x /\ i = j

LEMMA InContents ==
    \A boxes, e : e \in Contents(boxes) <=> \E w \in Windows : \E i \in DOMAIN boxes[w] : e = boxes[w][i]
  BY DEF Contents

\* Kept folded where the lemma below is used: the provers rewrite what they see.
Longer(box, e, longer) == longer = Append(box, e)
Joined(boxes, e, more) == Contents(more) = Contents(boxes) \union {e}
Held(boxes, w) == {boxes[w][i] : i \in DOMAIN boxes[w]}

LEMMA AppendKeepsDistinct ==
    ASSUME NEW boxes \in [Windows -> Seq(Events)], NEW more \in [Windows -> Seq(Events)],
           NEW w \in Windows, NEW e \in Events,
           Longer(boxes[w], e, more[w]), \A x \in Windows : x # w => more[x] = boxes[x],
           Distinct(boxes), e \notin Contents(boxes)
    PROVE  Distinct(more) /\ Joined(boxes, e, more)
  <1> DEFINE last == Len(boxes[w]) + 1
  <1>1. boxes[w] \in Seq(Events) /\ more[w] = Append(boxes[w], e) /\ Len(boxes[w]) \in Nat
    BY DEF Longer
  <1>2. /\ DOMAIN boxes[w] = 1..Len(boxes[w]) /\ DOMAIN more[w] = 1..last
        /\ \A i \in 1..Len(boxes[w]) : more[w][i] = boxes[w][i]
        /\ more[w][last] = e
    BY <1>1
  <1>3. \A x \in Windows : x # w => more[x] = boxes[x]
    OBVIOUS
  <1>4. ASSUME NEW x \in Windows, NEW i \in DOMAIN more[x]
        PROVE  \/ x = w /\ i = last /\ more[x][i] = e
               \/ i \in DOMAIN boxes[x] /\ more[x][i] = boxes[x][i]
    <2>1. CASE x = w
      <3>1. i \in 1..last
        BY <1>2, <2>1
      <3>2. i = last \/ i \in 1..Len(boxes[w])
        BY <1>1, <3>1
      <3> HIDE DEF last
      <3> QED
        BY <1>2, <2>1, <3>2
    <2>2. CASE x # w
      BY <1>3, <2>2
    <2> QED
      BY <2>1, <2>2
  <1>5. \A x \in Windows : \A i \in DOMAIN boxes[x] : boxes[x][i] # e
    BY InContents
  <1>6. Distinct(more)
    BY <1>4, <1>5 DEF Distinct
  <1>7. ASSUME NEW x \in Windows, NEW i \in DOMAIN boxes[x]
        PROVE  i \in DOMAIN more[x] /\ more[x][i] = boxes[x][i]
    <2>1. CASE x = w
      <3>1. i \in 1..Len(boxes[w]) /\ i \in 1..last
        BY <1>1, <1>2, <2>1
      <3> QED
        BY <1>2, <2>1, <3>1
    <2>2. CASE x # w
      BY <1>3, <2>2
    <2> QED
      BY <2>1, <2>2
  <1>8. last \in DOMAIN more[w]
    BY <1>1, <1>2
  <1>9. ASSUME NEW d \in Contents(more) PROVE d \in Contents(boxes) \union {e}
    <2>0. PICK x \in Windows : \E i \in DOMAIN more[x] : d = more[x][i]
      BY InContents
    <2>1. PICK i \in DOMAIN more[x] : d = more[x][i]
      BY <2>0
    <2>2. CASE i \in DOMAIN boxes[x] /\ more[x][i] = boxes[x][i]
      <3>1. d \in Contents(boxes)
        BY <2>1, <2>2, InContents
      <3> QED
        BY <3>1
    <2> QED
      BY <1>4, <2>1, <2>2
  <1>10. ASSUME NEW d \in Contents(boxes) \union {e} PROVE d \in Contents(more)
    <2>1. CASE d = e
      BY <1>2, <1>8, <2>1, InContents
    <2>2. CASE d \in Contents(boxes)
      <3>0. PICK x \in Windows : \E i \in DOMAIN boxes[x] : d = boxes[x][i]
        BY <2>2, InContents
      <3>1. PICK i \in DOMAIN boxes[x] : d = boxes[x][i]
        BY <3>0
      <3>2. i \in DOMAIN more[x] /\ d = more[x][i]
        BY <1>7, <3>1
      <3> QED
        BY <3>2, InContents
    <2> QED
      BY <2>1, <2>2
  <1> QED
    BY <1>6, <1>9, <1>10 DEF Joined

LEMMA TailKeepsDistinct ==
    ASSUME NEW boxes \in [Windows -> Seq(Events)], NEW fewer \in [Windows -> Seq(Events)],
           NEW w \in Windows, boxes[w] # <<>>,
           fewer[w] = Tail(boxes[w]), \A x \in Windows : x # w => fewer[x] = boxes[x],
           Distinct(boxes)
    PROVE  Distinct(fewer) /\ Contents(fewer) = Contents(boxes) \ {Head(boxes[w])}
  <1>1. /\ boxes[w] \in Seq(Events) /\ fewer[w] = Tail(boxes[w]) /\ Len(boxes[w]) \in Nat \ {0}
        /\ Head(boxes[w]) = boxes[w][1]
    OBVIOUS
  <1>2. /\ DOMAIN boxes[w] = 1..Len(boxes[w]) /\ DOMAIN fewer[w] = 1..(Len(boxes[w]) - 1)
        /\ \A i \in DOMAIN fewer[w] : i + 1 \in DOMAIN boxes[w] /\ fewer[w][i] = boxes[w][i + 1]
        /\ 1 \in DOMAIN boxes[w]
    BY <1>1
  <1>3. \A x \in Windows : x # w => fewer[x] = boxes[x]
    OBVIOUS
  <1>4. ASSUME NEW x \in Windows, NEW y \in Windows, NEW i \in DOMAIN fewer[x],
               NEW j \in DOMAIN fewer[y], fewer[x][i] = fewer[y][j]
        PROVE  x = y /\ i = j
    <2>1. CASE x = w /\ y = w
      <3>1. /\ i + 1 \in DOMAIN boxes[w] /\ j + 1 \in DOMAIN boxes[w]
            /\ boxes[w][i + 1] = boxes[w][j + 1]
        BY <1>2, <1>4, <2>1
      <3>2. i + 1 = j + 1
        BY <3>1 DEF Distinct
      <3>3. i \in Nat /\ j \in Nat
        BY <1>1, <1>2, <2>1
      <3> QED
        BY <2>1, <3>2, <3>3
    <2>2. CASE x = w /\ y # w
      BY <1>2, <1>3, <1>4, <2>2 DEF Distinct
    <2>3. CASE x # w /\ y = w
      BY <1>2, <1>3, <1>4, <2>3 DEF Distinct
    <2>4. CASE x # w /\ y # w
      BY <1>3, <1>4, <2>4 DEF Distinct
    <2> QED
      BY <2>1, <2>2, <2>3, <2>4
  <1>5. ASSUME NEW d \in Contents(fewer) PROVE d \in Contents(boxes) \ {Head(boxes[w])}
    <2>0. PICK x \in Windows : \E i \in DOMAIN fewer[x] : d = fewer[x][i]
      BY InContents
    <2>1. PICK i \in DOMAIN fewer[x] : d = fewer[x][i]
      BY <2>0
    <2>2. CASE x = w
      <3>1. i \in Nat /\ i # 0 /\ i + 1 \in DOMAIN boxes[w] /\ d = boxes[w][i + 1]
        BY <1>1, <1>2, <2>1, <2>2
      <3>2. i + 1 # 1
        BY <3>1
      <3>3. \A j \in DOMAIN boxes[w] : boxes[w][j] = boxes[w][1] => j = 1
        BY <1>2 DEF Distinct
      <3>4. d # boxes[w][1]
        BY <3>1, <3>2, <3>3
      <3> QED
        BY <1>1, <3>1, <3>4, InContents
    <2>3. CASE x # w
      <3>1. i \in DOMAIN boxes[x] /\ d = boxes[x][i]
        BY <1>3, <2>1, <2>3
      <3>2. d # boxes[w][1]
        BY <1>2, <2>3, <3>1 DEF Distinct
      <3> QED
        BY <1>1, <3>1, <3>2, InContents
    <2> QED
      BY <2>2, <2>3
  <1>6. ASSUME NEW d \in Contents(boxes) \ {Head(boxes[w])} PROVE d \in Contents(fewer)
    <2>0. PICK x \in Windows : \E i \in DOMAIN boxes[x] : d = boxes[x][i]
      BY InContents
    <2>1. PICK i \in DOMAIN boxes[x] : d = boxes[x][i]
      BY <2>0
    <2>2. CASE x = w
      <3>1. i \in 1..Len(boxes[w]) /\ i # 1
        BY <1>1, <1>2, <2>1, <2>2
      <3>2. i - 1 \in DOMAIN fewer[w] /\ (i - 1) + 1 = i
        BY <1>1, <1>2, <3>1
      <3>3. fewer[w][i - 1] = boxes[w][(i - 1) + 1]
        BY <1>2, <3>2
      <3>4. fewer[w][i - 1] = d
        BY <2>1, <2>2, <3>2, <3>3
      <3> QED
        BY <3>2, <3>4, InContents
    <2>3. CASE x # w
      BY <1>3, <2>1, <2>3, InContents
    <2> QED
      BY <2>2, <2>3
  <1> QED
    BY <1>4, <1>5, <1>6 DEF Distinct

LEMMA ClearKeepsDistinct ==
    ASSUME NEW boxes \in [Windows -> Seq(Events)], NEW fewer \in [Windows -> Seq(Events)],
           NEW w \in Windows,
           fewer[w] = <<>>, \A x \in Windows : x # w => fewer[x] = boxes[x],
           Distinct(boxes)
    PROVE  /\ Distinct(fewer)
           /\ Contents(fewer) = Contents(boxes) \ Held(boxes, w)
  <1>1. fewer[w] = <<>> /\ DOMAIN fewer[w] = {}
    OBVIOUS
  <1>2. \A x \in Windows : x # w => fewer[x] = boxes[x]
    OBVIOUS
  <1>3. ASSUME NEW x \in Windows, NEW i \in DOMAIN fewer[x]
        PROVE  x # w /\ i \in DOMAIN boxes[x] /\ fewer[x][i] = boxes[x][i]
    BY <1>1, <1>2, <1>3
  <1>4. Distinct(fewer)
    BY <1>3 DEF Distinct
  <1>5. ASSUME NEW d \in Contents(fewer)
        PROVE  d \in Contents(boxes) \ Held(boxes, w)
    <2>0. PICK x \in Windows : \E i \in DOMAIN fewer[x] : d = fewer[x][i]
      BY InContents
    <2>1. PICK i \in DOMAIN fewer[x] : d = fewer[x][i]
      BY <2>0
    <2>2. x # w /\ i \in DOMAIN boxes[x] /\ d = boxes[x][i]
      BY <1>3, <2>1
    <2>3. d \in Contents(boxes)
      BY <2>2, InContents
    <2>4. \A j \in DOMAIN boxes[w] : d # boxes[w][j]
      BY <2>2 DEF Distinct
    <2> QED
      BY <2>3, <2>4 DEF Held
  <1>6. ASSUME NEW d \in Contents(boxes) \ Held(boxes, w)
        PROVE  d \in Contents(fewer)
    <2>0. PICK x \in Windows : \E i \in DOMAIN boxes[x] : d = boxes[x][i]
      BY InContents
    <2>1. PICK i \in DOMAIN boxes[x] : d = boxes[x][i]
      BY <2>0
    <2>2. x # w
      BY <2>1 DEF Held
    <2>3. i \in DOMAIN fewer[x] /\ d = fewer[x][i]
      BY <1>2, <2>1, <2>2
    <2> QED
      BY <2>3, InContents
  <1> QED
    BY <1>4, <1>5, <1>6

OnceInv ==
    /\ notified = queue \union Contents(mailbox) \union handled \union lost
    /\ queue \intersect Contents(mailbox) = {}
    /\ (queue \union Contents(mailbox)) \intersect (handled \union lost) = {}
    /\ handled \intersect lost = {}
    /\ Distinct(mailbox)

LEMMA OnceInvInit == Init => OnceInv
  <1> SUFFICES ASSUME Init PROVE OnceInv
    OBVIOUS
  <1>0. DOMAIN <<>> = {}
    OBVIOUS
  <1>1. \A w \in Windows : mailbox[w] = <<>> /\ DOMAIN mailbox[w] = {}
    BY <1>0 DEF Init
  <1>2. Contents(mailbox) = {}
    BY <1>1 DEF Contents
  <1>3. Distinct(mailbox)
    BY <1>1 DEF Distinct
  <1> QED
    BY <1>2, <1>3 DEF Init, OnceInv

LEMMA OnceInvStep == IndInv /\ IndInv' /\ OnceInv /\ [Next]_vars => OnceInv'
  <1> SUFFICES ASSUME IndInv, IndInv', OnceInv, [Next]_vars PROVE OnceInv'
    OBVIOUS
  <1>0. mailbox \in [Windows -> Seq(Events)] /\ mailbox' \in [Windows -> Seq(Events)]
    BY DEF IndInv, TypeOK
  <1>d. Distinct(mailbox) /\ queue \intersect Contents(mailbox) = {}
    BY DEF OnceInv
  <1>1. CASE UNCHANGED <<notified, queue, mailbox, handled, lost>>
    BY <1>1 DEF OnceInv
  <1>2. ASSUME NEW e \in Events, PostEvent(e) PROVE OnceInv'
    <2>1. target \in Windows /\ e \in queue
      BY <1>2 DEF IndInv, TypeOK, PostEvent, Top
    <2>2. CASE target \in live
      <3>1. mailbox' = [mailbox EXCEPT ![target] = Append(@, e)] /\ lost' = lost
        BY <1>2, <2>2 DEF PostEvent
      <3>2. Distinct(mailbox') /\ Contents(mailbox') = Contents(mailbox) \union {e}
        <4>1. e \notin Contents(mailbox)
          BY <1>d, <2>1
        <4> PICK w \in Windows : w = target
          BY <2>1
        <4>2. /\ Longer(mailbox[w], e, mailbox'[w])
              /\ \A x \in Windows : x # w => mailbox'[x] = mailbox[x]
          BY <1>0, <2>1, <3>1 DEF Longer
        <4> QED
          <5>1. Distinct(mailbox') /\ Joined(mailbox, e, mailbox')
            BY <1>0, <1>d, <4>1, <4>2, AppendKeepsDistinct
          <5> QED
            BY <5>1 DEF Joined
      <3> QED
        BY <1>2, <2>1, <3>1, <3>2 DEF OnceInv, PostEvent
    <2>3. CASE target \notin live
      BY <1>2, <2>1, <2>3 DEF OnceInv, PostEvent
    <2> QED
      BY <2>2, <2>3
  <1>3. ASSUME NEW e \in Events, NotifyEvent(e) PROVE OnceInv'
    BY <1>3 DEF OnceInv, NotifyEvent, windowVars
  <1>4. ASSUME NEW w \in Windows, CloseDialog(w) PROVE OnceInv'
    <2>1. mailbox' = [mailbox EXCEPT ![w] = <<>>] /\ lost' = lost \union Held(mailbox, w)
      BY <1>4 DEF CloseDialog, Held
    <2>2. Distinct(mailbox') /\ Contents(mailbox') = Contents(mailbox) \ Held(mailbox, w)
      <3>1. /\ mailbox'[w] = <<>>
            /\ \A x \in Windows : x # w => mailbox'[x] = mailbox[x]
        BY <1>0, <2>1
      <3> QED
        BY <1>0, <1>d, <3>1, ClearKeepsDistinct
    <2>3. Held(mailbox, w) \subseteq Contents(mailbox)
      BY InContents DEF Held
    <2>4. UNCHANGED <<notified, queue, handled>>
      BY <1>4 DEF CloseDialog
    <2> QED
      BY <2>1, <2>2, <2>3, <2>4 DEF OnceInv
  <1>5. ASSUME NEW w \in Windows, OnClientEvent(w) PROVE OnceInv'
    <2> DEFINE first == Head(mailbox[w])
    <2>1. mailbox[w] # <<>> /\ mailbox' = [mailbox EXCEPT ![w] = Tail(@)]
      BY <1>5 DEF OnClientEvent
    <2>2. Distinct(mailbox') /\ Contents(mailbox') = Contents(mailbox) \ {first}
      <3>1. /\ mailbox[w] # <<>> /\ mailbox'[w] = Tail(mailbox[w])
            /\ \A x \in Windows : x # w => mailbox'[x] = mailbox[x]
        BY <1>0, <2>1
      <3> QED
        BY <1>0, <1>d, <3>1, TailKeepsDistinct
    <2>3. mailbox[w] \in Seq(Events) /\ first = mailbox[w][1] /\ 1 \in DOMAIN mailbox[w]
      BY <1>0, <2>1
    <2>4. first \in Contents(mailbox)
      BY <2>3, InContents
    <2> HIDE DEF first
    <2>5. handled' = handled \union {first} /\ UNCHANGED <<notified, queue, lost>>
      BY <1>5 DEF OnClientEvent, first
    <2> QED
      BY <2>2, <2>4, <2>5 DEF OnceInv
  <1>6. CASE UNCHANGED vars
    BY <1>1, <1>6 DEF vars, windowVars
  <1>7. CASE ConstructMembers \/ TestStop \/ Lock \/ Predicate \/ Block \/ CheckStop
    BY <1>1, <1>7 DEF ConstructMembers, TestStop, Lock, Predicate, Block, CheckStop, windowVars
  <1>8. CASE ReadWindow \/ SpuriousWakeup \/ SetStop \/ NotifyStop \/ Join
    BY <1>1, <1>8 DEF ReadWindow, SpuriousWakeup, SetStop, NotifyStop, Join, windowVars
  <1>9. ASSUME NEW w \in Windows, OpenDialog(w) \/ ResetWindow PROVE OnceInv'
    BY <1>1, <1>9 DEF OpenDialog, ResetWindow
  <1>10. CASE ResetWindow
    BY <1>1, <1>10 DEF ResetWindow
  <1> QED
    BY <1>2, <1>3, <1>4, <1>5, <1>6, <1>7, <1>8, <1>9, <1>10 DEF Next, NotifierStep, Destruct

\* An event is queued, posted, handled or lost, in one of these places only and
\* never twice, for any number of windows and events.
THEOREM EventsHappenOnce == Spec => []EachEventOnce
  <1>1. OnceInv => EachEventOnce
    BY DEF OnceInv, EachEventOnce, Posted, Contents, Distinct
  <1> QED
    BY <1>1, IndInvariant, OnceInvInit, OnceInvStep, PTL DEF Spec

-------------------------------------------------------------------------------
(* No wakeup is lost.                                                        *)

\* The destructor sets the flag before it does anything else, so the predicate
\* sees it in every later look.
WakeupInv ==
    /\ SleepsOnlyWhenIdle
    /\ destructor # "not run" => stopThread

LEMMA WakeupInvInit == Init => WakeupInv
  BY DEF Init, WakeupInv, SleepsOnlyWhenIdle

LEMMA WakeupInvStep == WakeupInv /\ [Next]_vars => WakeupInv'
  <1> SUFFICES ASSUME WakeupInv, [Next]_vars PROVE WakeupInv'
    OBVIOUS
  <1> USE DEF WakeupInv, SleepsOnlyWhenIdle
  <1>1. CASE UNCHANGED vars
    BY <1>1 DEF vars
  <1>2. CASE ConstructMembers
    BY <1>2 DEF ConstructMembers
  <1>3. CASE TestStop \/ Lock \/ CheckStop \/ ReadWindow \/ SpuriousWakeup
    BY <1>3 DEF TestStop, Lock, CheckStop, ReadWindow, SpuriousWakeup
  \* Nobody queues an event while the notifier looks, and whoever stops it later
  \* finds it at "blocking" or woken.
  <1>4. CASE Predicate
    BY <1>4 DEF Predicate
  <1>5. CASE Block
    BY <1>5 DEF Block
  <1>6. ASSUME NEW e \in Events, PostEvent(e) PROVE WakeupInv'
    BY <1>6 DEF PostEvent
  <1>7. ASSUME NEW e \in Events, NotifyEvent(e) PROVE WakeupInv'
    BY <1>7 DEF NotifyEvent, NotifyOne, HoldsMutex
  <1>8. ASSUME NEW w \in Windows, OpenDialog(w) \/ CloseDialog(w) \/ OnClientEvent(w)
        PROVE  WakeupInv'
    BY <1>8 DEF OpenDialog, CloseDialog, OnClientEvent
  <1>9. CASE ResetWindow
    BY <1>9 DEF ResetWindow
  <1>10. CASE SetStop
    BY <1>10 DEF SetStop
  <1>11. CASE NotifyStop
    BY <1>11 DEF NotifyStop, NotifyOne
  <1>12. CASE Join
    BY <1>12 DEF Join
  <1> QED
    BY <1>1, <1>2, <1>3, <1>4, <1>5, <1>6, <1>7, <1>8, <1>9, <1>10, <1>11, <1>12
       DEF Next, NotifierStep, Destruct

\* The notifier never sleeps on a queued event, nor on a stop flag whose
\* notification it could have received.
THEOREM NoWakeupLost == Spec => []SleepsOnlyWhenIdle
  <1>1. WakeupInv => SleepsOnlyWhenIdle
    BY DEF WakeupInv
  <1> QED
    BY <1>1, WakeupInvInit, WakeupInvStep, PTL DEF Spec

-------------------------------------------------------------------------------
(* Refinement of EventBus, safety.                                           *)

LEMMA BusInitially == Init => Bus!BusInit
  BY DEF Init, Bus!BusInit, Gone, NoWindow, Bus!NoWindow

\* A notifier step that leaves the data alone is a stutter of the bus, or the
\* notifier's end.
LEMMA BusHalts ==
    ASSUME UNCHANGED <<queue, target, active, live, mailbox, lost>>, Gone => Gone'
    PROVE  [Bus!BusNext]_(Bus!busVars)
  <1>1. CASE Gone' = TRUE
    BY <1>1 DEF Bus!BusNext, Bus!Halt
  <1>2. CASE Gone' = Gone
    BY <1>2 DEF Bus!busVars
  <1> QED
    BY <1>1, <1>2 DEF Gone

LEMMA BusStep == IndInv /\ [Next]_vars => [Bus!BusNext]_(Bus!busVars)
  <1> SUFFICES ASSUME IndInv, [Next]_vars PROVE [Bus!BusNext]_(Bus!busVars)
    OBVIOUS
  <1>1. CASE UNCHANGED vars
    BY <1>1, BusHalts DEF vars, windowVars, Gone
  <1>2. CASE \/ ConstructMembers \/ TestStop \/ Lock \/ Predicate \/ Block \/ CheckStop
             \/ SpuriousWakeup \/ SetStop \/ NotifyStop \/ Join
    <2>1. UNCHANGED <<queue, target, active, live, mailbox, lost>>
      BY <1>2 DEF ConstructMembers, TestStop, Lock, Predicate, Block, CheckStop,
                  SpuriousWakeup, SetStop, NotifyStop, Join, windowVars
    <2>2. stopThread' = TRUE \/ stopThread' = stopThread
      BY <1>2 DEF ConstructMembers, TestStop, Lock, Predicate, Block, CheckStop,
                  SpuriousWakeup, SetStop, NotifyStop, Join
    <2>3. notifier \in {"exited", "stuck"} => notifier' = notifier
      BY <1>2 DEF ConstructMembers, TestStop, Lock, Predicate, Block, CheckStop,
                  SpuriousWakeup, SetStop, NotifyStop, NotifyOne, Join
    <2> QED
      BY <2>1, <2>2, <2>3, BusHalts DEF Gone
  <1>3. CASE ReadWindow
    <2>1. notifier = "readWindow" /\ target = NoWindow /\ queue # {}
      BY <1>3 DEF ReadWindow, IndInv, TypeOK, WindowInv
    <2>2. CASE active = NoWindow
      <3>1. UNCHANGED <<queue, target, active, live, mailbox, lost>> /\ (Gone => Gone')
        BY <1>3, <2>1, <2>2 DEF ReadWindow, windowVars, Gone
      <3> QED
        BY <3>1, BusHalts
    <2>3. CASE active # NoWindow
      <3>1. Bus!Aim
        BY <1>3, <2>1, <2>3 DEF ReadWindow, windowVars, Gone, NoWindow, Bus!Aim, Bus!NoWindow
      <3> QED
        BY <3>1 DEF Bus!BusNext, Bus!Move
    <2> QED
      BY <2>2, <2>3
  <1>4. ASSUME NEW e \in Events, PostEvent(e) PROVE Bus!Post(e)
    <2>1. target # NoWindow /\ e \in queue /\ queue \subseteq Events
      BY <1>4 DEF PostEvent, Top, IndInv, TypeOK
    <2>2. e \in Bus!Foremost
      BY <1>4 DEF PostEvent, Top, Bus!Foremost
    <2>3. queue' = {} <=> queue = {e}
      BY <1>4, <2>1 DEF PostEvent
    <2> QED
      BY <1>4, <2>1, <2>2, <2>3 DEF PostEvent, Gone, NoWindow, Bus!Post, Bus!NoWindow
  <1>5. ASSUME NEW e \in Events, NotifyEvent(e) PROVE Bus!Notify(e)
    <2>1. target = NoWindow /\ e \notin queue
      BY <1>5 DEF NotifyEvent, HoldsMutex, IndInv, TypeOK, WindowInv
    <2> QED
      BY <1>5, <2>1 DEF NotifyEvent, NotifyOne, windowVars, Gone, NoWindow, Bus!Notify,
                        Bus!NoWindow
  <1>6. ASSUME NEW w \in Windows, OpenDialog(w) PROVE Bus!Open(w)
    BY <1>6 DEF OpenDialog, Gone, Bus!Open
  <1>7. ASSUME NEW w \in Windows, CloseDialog(w) PROVE Bus!Destroy(w)
    <2>1. live \ {w} = {}
      BY <1>7 DEF CloseDialog, IndInv, WindowInv
    <2> QED
      BY <1>7, <2>1 DEF CloseDialog, Gone, Bus!Destroy
  <1>8. ASSUME NEW w \in Windows, OnClientEvent(w) PROVE Bus!Handle(w)
    BY <1>8 DEF OnClientEvent, Gone, Bus!Handle
  <1>9. CASE ResetWindow
    BY <1>9 DEF ResetWindow, Gone, NoWindow, Bus!BusNext, Bus!Reset, Bus!NoWindow
  <1> QED
    BY <1>1, <1>2, <1>3, <1>4, <1>5, <1>6, <1>7, <1>8, <1>9
       DEF Next, NotifierStep, Destruct, Bus!BusNext, Bus!Move

\* The event manager with its threads and locks does what EventBus allows and
\* nothing else: the safety half of ImplementsBus.
THEOREM RefinesBus == Spec => Bus!BusInit /\ [][Bus!BusNext]_(Bus!busVars)
  BY BusInitially, BusStep, IndInvariant, PTL DEF Spec
===============================================================================
