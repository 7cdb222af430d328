--------------------------- MODULE ServerViewsProofs ---------------------------
(***************************************************************************)
(* The proof that connections are independent: for every number of          *)
(* connections, each step of the server is, to any one connection, a step   *)
(* of a server that serves it alone, or no step at all.                     *)
(***************************************************************************)
EXTENDS ServerViews, ServerCoreProofs

-------------------------------------------------------------------------------
(* What a step leaves of the view of c, one part of the state at a time.    *)

SocketKept(c)   == socket'[c] = socket[c]
RegistryKept(c) == (c \in clients' <=> c \in clients) /\ closes'[c] = closes[c]
UserKept(c)     == stage'[c] = stage[c] /\ identity'[c] = identity[c]
RepliesKept(c)  == replies'[c] = replies[c]
StopKept(c)     == server' = server /\ (c \in toVisit' <=> c \in toVisit)
OverlapKept(c)  == c \in overlapped' <=> c \in overlapped

\* The handlers that work for c stay the same, at the same point.
ServesKept(c) == \A t \in Tasks : Serves(t, c)' <=> Serves(t, c)
TasksKept(c) ==
    /\ ServesKept(c)
    /\ \A t \in Tasks : Serves(t, c) =>
           pc'[t] = pc[t] /\ msg'[t] = msg[t] /\ result'[t] = result[t] /\ written'[t] = written[t]

LEMMA SocketOfView == ASSUME NEW c, SocketKept(c) PROVE UNCHANGED [d \in {c} |-> socket[d]]
  BY DEF SocketKept

LEMMA RepliesOfView == ASSUME NEW c, RepliesKept(c) PROVE UNCHANGED [d \in {c} |-> replies[d]]
  BY DEF RepliesKept

LEMMA OverlapOfView == ASSUME NEW c, OverlapKept(c) PROVE UNCHANGED (overlapped \intersect {c})
  BY DEF OverlapKept

LEMMA RegistryOfView == ASSUME NEW c, RegistryKept(c) PROVE UNCHANGED View(c)!registry
  <1>1. UNCHANGED (clients \intersect {c})
    BY DEF RegistryKept
  <1>2. UNCHANGED [d \in {c} |-> closes[d]]
    BY DEF RegistryKept
  <1> QED
    BY <1>1, <1>2 DEF View!registry

LEMMA UserOfView == ASSUME NEW c, UserKept(c) PROVE UNCHANGED View(c)!userVars
  BY DEF UserKept, View!userVars

LEMMA StopOfView == ASSUME NEW c, StopKept(c) PROVE UNCHANGED View(c)!stopVars
  <1>1. UNCHANGED (toVisit \intersect {c})
    BY DEF StopKept
  <1> QED
    BY <1>1 DEF StopKept, View!stopVars

LEMMA TasksOfView == ASSUME NEW c, TasksKept(c) PROVE UNCHANGED View(c)!taskVars
  BY DEF TasksKept, ServesKept, SeenBy, View!taskVars

LEMMA ViewKept ==
    ASSUME NEW c, SocketKept(c), RegistryKept(c), UserKept(c), TasksKept(c), RepliesKept(c),
           StopKept(c), OverlapKept(c)
    PROVE  UNCHANGED View(c)!vars
  BY SocketOfView, RegistryOfView, UserOfView, TasksOfView, RepliesOfView, StopOfView,
     OverlapOfView DEF View!vars, View!registry, View!userVars, View!taskVars, View!stopVars

\* What a step leaves alone for everyone it leaves alone for c.
LEMMA KeptForAll ==
    ASSUME NEW c
    PROVE  /\ UNCHANGED socket => SocketKept(c)
           /\ UNCHANGED registry => RegistryKept(c)
           /\ UNCHANGED userVars => UserKept(c)
           /\ UNCHANGED taskVars => TasksKept(c)
           /\ UNCHANGED replies => RepliesKept(c)
           /\ UNCHANGED stopVars => StopKept(c)
           /\ UNCHANGED overlapped => OverlapKept(c)
  BY DEF SocketKept, RegistryKept, UserKept, TasksKept, ServesKept, Serves, RepliesKept,
     StopKept, OverlapKept, registry, userVars, taskVars, stopVars

-------------------------------------------------------------------------------
LEMMA ViewInit == ASSUME NEW c \in Conns, Init PROVE View(c)!Init
  BY DEF Init, View!Init, SeenBy, Serves, View!Fields, Fields

(* The registry.                                                            *)

\* The entry of c in a registry from which a step removes a client.
LEMMA RemovedFromView ==
    ASSUME NEW c \in Conns, TypeOK, RemoveClient(c)
    PROVE  View(c)!RemoveClient(c)
  <1>1. clients' \intersect {c} = (clients \intersect {c}) \ {c}
    BY DEF RemoveClient
  <1>2. closes'[c] = IF c \in clients THEN closes[c] + 1 ELSE closes[c]
    BY DEF RemoveClient, TypeOK
  <1>3. [d \in {c} |-> closes'[d]] =
            IF c \in clients \intersect {c}
            THEN [[d \in {c} |-> closes[d]] EXCEPT ![c] = closes[c] + 1]
            ELSE [d \in {c} |-> closes[d]]
    BY <1>2
  <1> QED
    BY <1>1, <1>3 DEF View!RemoveClient

LEMMA RemovedElsewhere ==
    ASSUME NEW c \in Conns, NEW d \in Conns, d # c, TypeOK, RemoveClient(d)
    PROVE  RegistryKept(c)
  BY DEF RemoveClient, RegistryKept, TypeOK

LEMMA ViewSocketEvent ==
    ASSUME NEW c \in Conns, NEW d \in Conns, TypeOK, SocketEvent(d)
    PROVE  [View(c)!SocketEvent(c)]_(View(c)!vars)
  <1>1. /\ UNCHANGED <<userVars, taskVars, replies, stopVars, overlapped>>
        /\ UserKept(c) /\ TasksKept(c) /\ RepliesKept(c) /\ StopKept(c) /\ OverlapKept(c)
    <2>1. UNCHANGED <<userVars, taskVars, replies, stopVars, overlapped>>
      BY DEF SocketEvent, OnOpen, OnError, OnClose
    <2> QED
      BY <2>1, KeptForAll
  <1>2. CASE d # c
    <2>1. socket' = [socket EXCEPT ![d] = socket'[d]]
      BY DEF SocketEvent, OnOpen, OnError, OnClose, TypeOK
    <2>2. SocketKept(c)
      BY <1>2, <2>1 DEF TypeOK, SocketKept
    <2>3. AddClient(d) \/ RemoveClient(d)
      BY DEF SocketEvent, OnOpen, OnError, OnClose
    <2>4. AddClient(d) => RegistryKept(c)
      BY <1>2 DEF AddClient, RegistryKept
    <2>5. RegistryKept(c)
      BY <1>2, <2>3, <2>4, RemovedElsewhere
    <2> QED
      BY <1>1, <2>2, <2>5, ViewKept
  <1>3. CASE d = c
    <2> DEFINE sock == [e \in {c} |-> socket[e]]
    <2>1. /\ UNCHANGED View(c)!userVars /\ UNCHANGED View(c)!taskVars
          /\ UNCHANGED [e \in {c} |-> replies[e]]
          /\ UNCHANGED View(c)!stopVars /\ UNCHANGED (overlapped \intersect {c})
      BY <1>1, UserOfView, TasksOfView, RepliesOfView, StopOfView, OverlapOfView
    <2>2. sock[c] = socket[c]
      OBVIOUS
    <2>3. CASE OnOpen(c)
      <3>1. socket'[c] = "open"
        BY <2>3 DEF OnOpen, TypeOK
      <3>2. sock' = [sock EXCEPT ![c] = "open"]
        BY <3>1
      <3>3. clients' \intersect {c} = (clients \intersect {c}) \union {c}
        BY <2>3 DEF OnOpen, AddClient
      <3>4. [e \in {c} |-> closes'[e]] = [e \in {c} |-> closes[e]]
        BY <2>3 DEF OnOpen, AddClient
      <3>5. View(c)!AddClient(c)
        BY <3>3, <3>4 DEF View!AddClient
      <3>6. sock[c] = "idle"
        BY <2>3, <2>2 DEF OnOpen
      <3> QED
        BY <2>1, <3>2, <3>5, <3>6 DEF View!SocketEvent, View!OnOpen
    <2>4. CASE OnError(c)
      <3>1. socket'[c] = "failed"
        BY <2>4 DEF OnError, TypeOK
      <3>2. sock' = [sock EXCEPT ![c] = "failed"]
        BY <3>1
      <3>3. View(c)!RemoveClient(c)
        BY <2>4, RemovedFromView DEF OnError
      <3>4. sock[c] = "open"
        BY <2>4, <2>2 DEF OnError
      <3> QED
        BY <2>1, <3>2, <3>3, <3>4 DEF View!SocketEvent, View!OnError
    <2>5. CASE OnClose(c)
      <3>1. socket'[c] = "closed"
        BY <2>5 DEF OnClose, TypeOK
      <3>2. sock' = [sock EXCEPT ![c] = "closed"]
        BY <3>1
      <3>3. View(c)!RemoveClient(c)
        BY <2>5, RemovedFromView DEF OnClose
      <3>4. sock[c] \in {"open", "failed"}
        BY <2>5, <2>2 DEF OnClose
      <3> QED
        BY <2>1, <3>2, <3>3, <3>4 DEF View!SocketEvent, View!OnClose
    <2> QED
      BY <1>3, <2>3, <2>4, <2>5 DEF SocketEvent
  <1> QED
    BY <1>2, <1>3

(* Stop.                                                                    *)

LEMMA ViewStop ==
    ASSUME NEW c \in Conns, TypeOK, Stop
    PROVE  [View(c)!Stop]_(View(c)!vars)
  <1>1. /\ SocketKept(c) /\ UserKept(c) /\ TasksKept(c) /\ RepliesKept(c) /\ OverlapKept(c)
        /\ UNCHANGED [e \in {c} |-> socket[e]] /\ UNCHANGED View(c)!userVars
        /\ UNCHANGED View(c)!taskVars /\ UNCHANGED [e \in {c} |-> replies[e]]
        /\ UNCHANGED (overlapped \intersect {c})
    <2>1. UNCHANGED <<socket, userVars, taskVars, replies, overlapped>>
      BY DEF Stop, StopBegin, StopVisit, StopEnd
    <2>2. SocketKept(c) /\ UserKept(c) /\ TasksKept(c) /\ RepliesKept(c) /\ OverlapKept(c)
      BY <2>1, KeptForAll
    <2> QED
      BY <2>2, SocketOfView, UserOfView, TasksOfView, RepliesOfView, OverlapOfView
  <1>2. CASE StopBegin
    <2>1. UNCHANGED View(c)!registry
      BY <1>2, KeptForAll, RegistryOfView DEF StopBegin
    <2>2. /\ server = "running" /\ server' = "stopping"
          /\ toVisit' \intersect {c} = clients \intersect {c}
      BY <1>2 DEF StopBegin
    <2> QED
      BY <1>1, <2>1, <2>2 DEF View!Stop, View!StopBegin
  <1>3. ASSUME NEW d \in Conns, StopVisit(d) PROVE [View(c)!Stop]_(View(c)!vars)
    <2>1. /\ server = "stopping" /\ d \in toVisit \union clients
          /\ RemoveClient(d)
          /\ toVisit' = toVisit \ {d} /\ server' = server
      BY <1>3 DEF StopVisit
    <2>2. CASE d # c
      <3>1. RegistryKept(c) /\ StopKept(c)
        BY <2>1, <2>2, RemovedElsewhere DEF StopKept
      <3> QED
        BY <1>1, <3>1, ViewKept
    <2>3. CASE d = c
      <3>1. View(c)!RemoveClient(c)
        BY <2>1, <2>3, RemovedFromView
      <3>2. /\ c \in (toVisit \intersect {c}) \union (clients \intersect {c})
            /\ toVisit' \intersect {c} = (toVisit \intersect {c}) \ {c}
        BY <2>1, <2>3
      <3>3. View(c)!StopVisit(c)
        BY <1>1, <2>1, <3>1, <3>2 DEF View!StopVisit
      <3> QED
        BY <3>3 DEF View!Stop
    <2> QED
      BY <2>2, <2>3
  <1>4. CASE StopEnd
    <2>1. UNCHANGED View(c)!registry
      BY <1>4, KeptForAll, RegistryOfView DEF StopEnd
    <2>2. /\ server = "stopping" /\ server' = "stopped"
          /\ toVisit \intersect {c} = {} /\ UNCHANGED (toVisit \intersect {c})
      BY <1>4 DEF StopEnd
    <2> QED
      BY <1>1, <2>1, <2>2 DEF View!Stop, View!StopEnd
  <1> QED
    BY <1>2, <1>3, <1>4 DEF Stop

-------------------------------------------------------------------------------
(* Handlers.                                                                *)

\* A handler that has not started has no message, so it serves nobody.
IdleInv == \A t \in Tasks : pc[t] = "idle" => msg[t] = NoMsg

LEMMA IdleInvStep == TypeInv /\ IdleInv /\ [Next]_vars => IdleInv'
  <1> SUFFICES ASSUME TypeInv, IdleInv, [Next]_vars PROVE IdleInv'
    OBVIOUS
  <1>0. pc \in [Tasks -> PCs] /\ msg \in [Tasks -> Messages \union {NoMsg}]
    BY DEF TypeInv, TypeOK
  <1>1. CASE UNCHANGED taskVars
    BY <1>1 DEF IdleInv, taskVars
  <1>2. ASSUME NEW t \in Tasks, NEW m \in Messages, OnMessage(t, m) PROVE IdleInv'
    <2>1. msg' = [msg EXCEPT ![t] = m]
      BY <1>2 DEF OnMessage
    <2>2. pc' = [pc EXCEPT ![t] = "calling"] \/ pc' = [pc EXCEPT ![t] = "dropped"]
      BY <1>2 DEF OnMessage, ProcessMessageAsync, HandleMessage, VerifyVersionAsync,
                  LoginAsync, Drop
    <2> QED
      BY <1>0, <2>1, <2>2 DEF IdleInv
  <1>3. ASSUME NEW t \in Tasks, HandlerStep(t) PROVE IdleInv'
    <2>1. msg' = msg
      BY <1>3 DEF HandlerStep, VersionAnswer, LoginAnswer, StoreField, Reply, SendThrows
    <2>2. \E p \in PCs \ {"idle"} : pc' = [pc EXCEPT ![t] = p]
      BY <1>3 DEF HandlerStep, VersionAnswer, LoginAnswer, LoginAccepted, StoreField, Reply,
                  SendThrows, PCs
    <2> QED
      BY <1>0, <2>1, <2>2 DEF IdleInv
  <1>4. CASE \E c \in Conns : SocketEvent(c)
    BY <1>1, <1>4 DEF SocketEvent, OnOpen, OnError, OnClose
  <1>5. CASE Stop
    BY <1>1, <1>5 DEF Stop, StopBegin, StopVisit, StopEnd
  <1> QED
    BY <1>1, <1>2, <1>3, <1>4, <1>5 DEF Next, vars

\* What c sees of a handler that serves it, and of one that does not.
LEMMA Seen ==
    ASSUME NEW c, NEW f, NEW unstarted, NEW t \in Tasks
    PROVE  /\ Serves(t, c) => SeenBy(c, f, unstarted)[t] = f[t]
           /\ ~Serves(t, c) => SeenBy(c, f, unstarted)[t] = unstarted
  BY DEF SeenBy

\* A handler that moves on works on the message of exactly one connection, and
\* only the view of that connection changes.
LEMMA HandlerServes ==
    ASSUME NEW t \in Tasks, TypeInv, HandlerStep(t)
    PROVE  /\ msg[t] \in Messages /\ msg[t].conn \in Conns
           /\ \A c \in Conns : Serves(t, c) <=> c = msg[t].conn
           /\ UNCHANGED <<socket, registry, msg, stopVars, overlapped>>
  <1>1. pc[t] # "idle" /\ UNCHANGED <<socket, registry, msg, stopVars, overlapped>>
    BY DEF HandlerStep, VersionAnswer, LoginAnswer, StoreField, Reply, SendThrows
  <1>2. msg[t] \in Messages
    BY <1>1 DEF TypeInv, TaskInv
  <1>3. msg[t] # NoMsg /\ msg[t].conn \in Conns
    BY <1>2, NoMsgAssumption DEF Messages
  <1> QED
    BY <1>1, <1>2, <1>3 DEF Serves

LEMMA HandlerElsewhere ==
    ASSUME NEW c \in Conns, NEW t \in Tasks, TypeInv, HandlerStep(t), c # msg[t].conn
    PROVE  UNCHANGED View(c)!vars
  <1>1. /\ ~Serves(t, c)
        /\ UNCHANGED <<socket, registry, msg, stopVars, overlapped>>
    BY HandlerServes
  <1>2. SocketKept(c) /\ RegistryKept(c) /\ StopKept(c) /\ OverlapKept(c) /\ ServesKept(c)
    BY <1>1, KeptForAll DEF ServesKept, Serves
  <1>3. \A s \in Tasks \ {t} : pc'[s] = pc[s] /\ result'[s] = result[s] /\ written'[s] = written[s]
    BY DEF HandlerStep, VersionAnswer, LoginAnswer, LoginAccepted, StoreField, Reply, SendThrows,
           TypeInv, TypeOK
  <1>4. TasksKept(c)
    BY <1>1, <1>2, <1>3 DEF TasksKept
  <1>5. UserKept(c) /\ RepliesKept(c)
    BY DEF HandlerStep, VersionAnswer, LoginAnswer, LoginAccepted, StoreField, Reply, SendThrows,
           TypeInv, TypeOK, UserKept, RepliesKept, userVars
  <1> QED
    BY <1>2, <1>4, <1>5, ViewKept

\* Handler t moves to p, to report r, with w fields stored; the others stay.
PcMoves(t, p)      == \A s \in Tasks : pc'[s] = IF s = t THEN p ELSE pc[s]
ResultMoves(t, r)  == \A s \in Tasks : result'[s] = IF s = t THEN r ELSE result[s]
WrittenMoves(t, w) == \A s \in Tasks : written'[s] = IF s = t THEN w ELSE written[s]

\* A handler of c moves in the view of c as it moves in the server.
LEMMA SeenPc ==
    ASSUME NEW c, ServesKept(c), NEW t \in Tasks, Serves(t, c), NEW p, PcMoves(t, p)
    PROVE  SeenBy(c, pc, "idle")' = [SeenBy(c, pc, "idle") EXCEPT ![t] = p]
  BY DEF ServesKept, SeenBy, PcMoves

LEMMA SeenResult ==
    ASSUME NEW c, ServesKept(c), NEW t \in Tasks, Serves(t, c), NEW r, ResultMoves(t, r)
    PROVE  SeenBy(c, result, "failure")' = [SeenBy(c, result, "failure") EXCEPT ![t] = r]
  BY DEF ServesKept, SeenBy, ResultMoves

LEMMA SeenWritten ==
    ASSUME NEW c, ServesKept(c), NEW t \in Tasks, Serves(t, c), NEW w, WrittenMoves(t, w)
    PROVE  SeenBy(c, written, 0)' = [SeenBy(c, written, 0) EXCEPT ![t] = w]
  BY DEF ServesKept, SeenBy, WrittenMoves

LEMMA SeenKept ==
    ASSUME NEW c, ServesKept(c)
    PROVE  /\ UNCHANGED msg => UNCHANGED SeenBy(c, msg, NoMsg)
           /\ UNCHANGED result => UNCHANGED SeenBy(c, result, "failure")
           /\ UNCHANGED written => UNCHANGED SeenBy(c, written, 0)
  BY DEF ServesKept, SeenBy

\* A step of a handler of c leaves the socket, the registry and Stop alone, and
\* the handlers that work for c.
LEMMA HandlerKeeps ==
    ASSUME NEW t \in Tasks, TypeInv, HandlerStep(t), NEW c \in Conns
    PROVE  /\ ServesKept(c)
           /\ UNCHANGED SeenBy(c, msg, NoMsg)
           /\ UNCHANGED [d \in {c} |-> socket[d]] /\ UNCHANGED View(c)!registry
           /\ UNCHANGED View(c)!stopVars /\ UNCHANGED (overlapped \intersect {c})
           /\ UNCHANGED userVars => UNCHANGED View(c)!userVars
           /\ UNCHANGED replies => UNCHANGED [d \in {c} |-> replies[d]]
           /\ UNCHANGED result => UNCHANGED SeenBy(c, result, "failure")
           /\ UNCHANGED written => UNCHANGED SeenBy(c, written, 0)
  <1>1. UNCHANGED <<socket, registry, msg, stopVars, overlapped>>
    BY HandlerServes
  <1>2. ServesKept(c)
    BY <1>1 DEF ServesKept, Serves
  <1>3. UNCHANGED userVars => UNCHANGED View(c)!userVars
    BY KeptForAll, UserOfView
  <1>4. UNCHANGED replies => UNCHANGED [d \in {c} |-> replies[d]]
    BY KeptForAll, RepliesOfView
  <1> QED
    BY <1>1, <1>2, <1>3, <1>4, SeenKept, KeptForAll, SocketOfView, RegistryOfView, StopOfView,
       OverlapOfView

\* One lemma for each step of a handler of c.
LEMMA ViewVersionAnswer ==
    ASSUME NEW t \in Tasks, NEW o \in ApiOutcomes, NEW c \in Conns, TypeInv,
           Serves(t, c), VersionAnswer(t, o)
    PROVE  View(c)!VersionAnswer(t, o)
  <1>1. /\ pc[t] = "calling" /\ msg[t].kind = "version"
        /\ PcMoves(t, "sending")
        /\ UNCHANGED <<userVars, written, replies>>
    BY DEF VersionAnswer, PcMoves, TypeInv, TypeOK
  <1>2. PICK r \in VersionResults(o) : ResultMoves(t, r)
    BY DEF VersionAnswer, ResultMoves, TypeInv, TypeOK
  <1>3. r \in View(c)!VersionResults(o)
    BY <1>2 DEF VersionResults, View!VersionResults
  <1>4. SeenBy(c, pc, "idle")[t] = "calling" /\ SeenBy(c, msg, NoMsg)[t].kind = "version"
    BY <1>1, Seen
  <1>5. HandlerStep(t)
    BY DEF HandlerStep
  <1>6. /\ SeenBy(c, pc, "idle")' = [SeenBy(c, pc, "idle") EXCEPT ![t] = "sending"]
        /\ SeenBy(c, result, "failure")' = [SeenBy(c, result, "failure") EXCEPT ![t] = r]
    BY <1>1, <1>2, <1>5, HandlerKeeps, SeenPc, SeenResult
  <1> QED
    BY <1>1, <1>3, <1>4, <1>5, <1>6, HandlerKeeps DEF View!VersionAnswer

LEMMA ViewSendThrows ==
    ASSUME NEW t \in Tasks, NEW c \in Conns, TypeInv, Serves(t, c), SendThrows(t)
    PROVE  View(c)!SendThrows(t)
  <1>1. /\ pc[t] = "sending" /\ socket[c] \in {"failed", "closed"}
        /\ PcMoves(t, "unsent")
        /\ UNCHANGED <<userVars, result, written, replies>>
    BY DEF SendThrows, PcMoves, TypeInv, TypeOK, Serves
  <1>2. /\ SeenBy(c, pc, "idle")[t] = "sending"
        /\ SeenBy(c, msg, NoMsg)[t].conn = c
        /\ [d \in {c} |-> socket[d]][c] = socket[c]
    BY <1>1, Seen DEF Serves
  <1>3. HandlerStep(t)
    BY DEF HandlerStep
  <1>4. SeenBy(c, pc, "idle")' = [SeenBy(c, pc, "idle") EXCEPT ![t] = "unsent"]
    BY <1>1, <1>3, HandlerKeeps, SeenPc
  <1> QED
    BY <1>1, <1>2, <1>3, <1>4, HandlerKeeps DEF View!SendThrows

LEMMA ViewLoginAnswer ==
    ASSUME NEW t \in Tasks, NEW o \in ApiOutcomes, NEW c \in Conns, TypeInv,
           Serves(t, c), LoginAnswer(t, o)
    PROVE  View(c)!LoginAnswer(t, o)
  <1> DEFINE vstage == [d \in {c} |-> stage[d]]
  <1>1. /\ pc[t] = "calling" /\ msg[t].kind = "login" /\ msg[t].conn = c
        /\ UNCHANGED <<identity, written, replies>>
    BY DEF LoginAnswer, Serves
  <1>2. /\ SeenBy(c, pc, "idle")[t] = "calling" /\ SeenBy(c, msg, NoMsg)[t].kind = "login"
        /\ SeenBy(c, msg, NoMsg)[t].conn = c
    BY <1>1, Seen
  <1>3. HandlerStep(t)
    BY DEF HandlerStep
  <1>4. UNCHANGED [d \in {c} |-> identity[d]]
    BY <1>1
  <1>5. CASE o = "complete"
    <2>1. PcMoves(t, "storing") /\ ResultMoves(t, "success") /\ stage'[c] = "Authenticated"
      BY <1>1, <1>5 DEF LoginAnswer, LoginAccepted, PcMoves, ResultMoves, TypeInv, TypeOK
    <2>2. /\ SeenBy(c, pc, "idle")' = [SeenBy(c, pc, "idle") EXCEPT ![t] = "storing"]
          /\ SeenBy(c, result, "failure")' = [SeenBy(c, result, "failure") EXCEPT ![t] = "success"]
      BY <2>1, <1>3, HandlerKeeps, SeenPc, SeenResult
    <2>3. vstage' = [vstage EXCEPT ![c] = "Authenticated"]
      BY <2>1
    <2>4. View(c)!LoginAccepted(t)
      BY <1>2, <2>2, <2>3 DEF View!LoginAccepted
    <2> QED
      BY <1>1, <1>2, <1>3, <1>4, <1>5, <2>4, HandlerKeeps DEF View!LoginAnswer
  <1>6. CASE o # "complete"
    <2>1. PcMoves(t, "sending") /\ UNCHANGED <<stage, result>>
      BY <1>1, <1>6 DEF LoginAnswer, PcMoves, TypeInv, TypeOK
    <2>2. SeenBy(c, pc, "idle")' = [SeenBy(c, pc, "idle") EXCEPT ![t] = "sending"]
      BY <2>1, <1>3, HandlerKeeps, SeenPc
    <2>3. UNCHANGED vstage
      BY <2>1
    <2> QED
      BY <1>1, <1>2, <1>3, <1>4, <1>6, <2>1, <2>2, <2>3, HandlerKeeps DEF View!LoginAnswer
  <1> QED
    BY <1>5, <1>6

LEMMA ViewStoreField ==
    ASSUME NEW t \in Tasks, NEW c \in Conns, TypeInv, Serves(t, c), StoreField(t)
    PROVE  View(c)!StoreField(t)
  <1> DEFINE videntity == [d \in {c} |-> identity[d]]
  <1>1. PICK f : f = written[t] + 1
    OBVIOUS
  <1>2. PICK p : p = IF f = LastField THEN "sending" ELSE "storing"
    OBVIOUS
  <1>3. /\ pc[t] = "storing" /\ msg[t].conn = c
        /\ PcMoves(t, p) /\ WrittenMoves(t, f)
        /\ identity'[c] = [identity[c] EXCEPT ![f] = msg[t].cred]
        /\ UNCHANGED <<stage, result, replies>>
    BY <1>1, <1>2 DEF StoreField, PcMoves, WrittenMoves, TypeInv, TypeOK, Serves
  <1>4. /\ SeenBy(c, pc, "idle")[t] = "storing"
        /\ SeenBy(c, written, 0)[t] = written[t]
        /\ SeenBy(c, msg, NoMsg)[t] = msg[t]
    BY <1>3, Seen
  <1>5. HandlerStep(t)
    BY DEF HandlerStep
  <1>6. /\ SeenBy(c, pc, "idle")' = [SeenBy(c, pc, "idle") EXCEPT ![t] = p]
        /\ SeenBy(c, written, 0)' = [SeenBy(c, written, 0) EXCEPT ![t] = f]
    BY <1>3, <1>5, HandlerKeeps, SeenPc, SeenWritten
  <1>7. videntity' = [videntity EXCEPT ![c][f] = msg[t].cred]
    BY <1>3
  <1>8. UNCHANGED [d \in {c} |-> stage[d]]
    BY <1>3
  <1> HIDE DEF videntity
  <1> QED
    BY <1>1, <1>2, <1>3, <1>4, <1>5, <1>6, <1>7, <1>8, HandlerKeeps
       DEF View!StoreField, View!LastField, LastField, videntity

LEMMA ViewReply ==
    ASSUME NEW t \in Tasks, NEW c \in Conns, TypeInv, Serves(t, c), Reply(t)
    PROVE  View(c)!Reply(t)
  <1> DEFINE vreplies == [d \in {c} |-> replies[d]]
  <1>1. PICK r : r = [task |-> t, kind |-> msg[t].kind, result |-> result[t]]
    OBVIOUS
  <1>2. /\ pc[t] = "sending" /\ msg[t].conn = c
        /\ socket[c] \in {"open", "failed"}
        /\ PcMoves(t, "answered")
        /\ replies'[c] = Append(replies[c], r)
        /\ UNCHANGED <<userVars, result, written>>
    BY <1>1 DEF Reply, PcMoves, TypeInv, TypeOK, Serves
  <1>3. /\ SeenBy(c, pc, "idle")[t] = "sending"
        /\ SeenBy(c, result, "failure")[t] = result[t]
        /\ SeenBy(c, msg, NoMsg)[t] = msg[t]
        /\ [d \in {c} |-> socket[d]][c] = socket[c]
    BY <1>2, Seen
  <1>4. HandlerStep(t)
    BY DEF HandlerStep
  <1>5. SeenBy(c, pc, "idle")' = [SeenBy(c, pc, "idle") EXCEPT ![t] = "answered"]
    BY <1>2, <1>4, HandlerKeeps, SeenPc
  <1>6. vreplies' = [vreplies EXCEPT ![c] = Append(vreplies[c], r)]
    BY <1>2
  <1> QED
    BY <1>1, <1>2, <1>3, <1>4, <1>5, <1>6, HandlerKeeps DEF View!Reply

LEMMA ViewHandlerStep ==
    ASSUME NEW c \in Conns, NEW t \in Tasks, TypeInv, HandlerStep(t)
    PROVE  [View(c)!HandlerStep(t)]_(View(c)!vars)
  <1>1. CASE ~Serves(t, c)
    BY <1>1, HandlerServes, HandlerElsewhere
  <1>2. CASE Serves(t, c)
    <2>1. View(c)!ApiOutcomes = ApiOutcomes
      BY DEF View!ApiOutcomes, ApiOutcomes
    <2> QED
      BY <1>2, <2>1, ViewVersionAnswer, ViewLoginAnswer, ViewStoreField, ViewReply, ViewSendThrows
         DEF HandlerStep, View!HandlerStep
  <1> QED
    BY <1>1, <1>2

\* What a message changes: the handler that takes it, and nothing of another's.
LEMMA MessageTaken ==
    ASSUME NEW t \in Tasks, NEW m \in Messages, TypeInv, IdleInv, OnMessage(t, m)
    PROVE  /\ pc[t] = "idle" /\ msg[t] = NoMsg /\ written[t] = 0 /\ result[t] = "failure"
           /\ \A s \in Tasks : msg'[s] = IF s = t THEN m ELSE msg[s]
           /\ \A s \in Tasks \ {t} : pc'[s] = pc[s]
           /\ UNCHANGED <<socket, registry, userVars, result, written, replies, stopVars>>
           /\ overlapped' \in {overlapped, overlapped \union {m.conn}}
  <1>1. /\ pc[t] = "idle" /\ msg' = [msg EXCEPT ![t] = m]
        /\ UNCHANGED <<socket, registry, userVars, result, written, replies, stopVars>>
    BY DEF OnMessage
  <1>2. msg[t] = NoMsg /\ written[t] = 0 /\ result[t] = "failure"
    BY <1>1 DEF IdleInv, TypeInv, TaskInv
  <1>3. \A s \in Tasks : msg'[s] = IF s = t THEN m ELSE msg[s]
    BY <1>1 DEF TypeInv, TypeOK
  <1>4. /\ \E p \in {"calling", "dropped"} : pc' = [pc EXCEPT ![t] = p]
        /\ overlapped' \in {overlapped, overlapped \union {m.conn}}
    BY DEF OnMessage, ProcessMessageAsync, HandleMessage, VerifyVersionAsync, LoginAsync, Drop
  <1> QED
    BY <1>1, <1>2, <1>3, <1>4 DEF TypeInv, TypeOK

LEMMA MessageElsewhere ==
    ASSUME NEW c \in Conns, NEW t \in Tasks, NEW m \in Messages, TypeInv, IdleInv,
           OnMessage(t, m), m.conn # c
    PROVE  UNCHANGED View(c)!vars
  <1>1. /\ SocketKept(c) /\ RegistryKept(c) /\ UserKept(c) /\ RepliesKept(c) /\ StopKept(c)
        /\ OverlapKept(c)
    <2>1. /\ UNCHANGED <<socket, registry, userVars, replies, stopVars>>
          /\ overlapped' \in {overlapped, overlapped \union {m.conn}}
      BY MessageTaken
    <2> QED
      BY <2>1, KeptForAll DEF OverlapKept
  <1>2. /\ ~Serves(t, c) /\ ~Serves(t, c)'
        /\ \A s \in Tasks \ {t} : /\ Serves(s, c)' <=> Serves(s, c)
                                  /\ pc'[s] = pc[s] /\ msg'[s] = msg[s]
        /\ UNCHANGED <<result, written>>
    BY MessageTaken DEF Serves
  <1>3. TasksKept(c)
    BY <1>2 DEF TasksKept, ServesKept
  <1> QED
    BY <1>1, <1>3, ViewKept

\* The view of c takes up its message: the handler is new there too.
LEMMA MessageSeen ==
    ASSUME NEW c \in Conns, NEW t \in Tasks, NEW m \in Messages, TypeInv, IdleInv,
           OnMessage(t, m), m.conn = c
    PROVE  /\ SeenBy(c, pc, "idle")[t] = "idle"
           /\ SeenBy(c, msg, NoMsg)' = [SeenBy(c, msg, NoMsg) EXCEPT ![t] = m]
           /\ UNCHANGED SeenBy(c, result, "failure") /\ UNCHANGED SeenBy(c, written, 0)
           /\ \A p : PcMoves(t, p) =>
                  SeenBy(c, pc, "idle")' = [SeenBy(c, pc, "idle") EXCEPT ![t] = p]
  <1>1. /\ ~Serves(t, c)
        /\ \A s \in Tasks \ {t} : Serves(s, c)' <=> Serves(s, c)
        /\ \A s \in Tasks : msg'[s] = IF s = t THEN m ELSE msg[s]
        /\ \A s \in Tasks : result'[s] = result[s] /\ written'[s] = written[s]
        /\ result'[t] = "failure" /\ written'[t] = 0
    BY MessageTaken DEF Serves
  <1>2. Serves(t, c)'
    BY <1>1, NoMsgAssumption DEF Serves
  <1>3. SeenBy(c, pc, "idle")[t] = "idle"
    BY <1>1, Seen
  <1>4. SeenBy(c, msg, NoMsg)' = [SeenBy(c, msg, NoMsg) EXCEPT ![t] = m]
    BY <1>1, <1>2 DEF SeenBy
  <1>5. UNCHANGED SeenBy(c, result, "failure")
    BY <1>1, <1>2 DEF SeenBy
  <1>6. UNCHANGED SeenBy(c, written, 0)
    BY <1>1, <1>2 DEF SeenBy
  <1>7. ASSUME NEW p, PcMoves(t, p)
        PROVE  SeenBy(c, pc, "idle")' = [SeenBy(c, pc, "idle") EXCEPT ![t] = p]
    BY <1>1, <1>2, <1>7 DEF SeenBy, PcMoves
  <1> QED
    BY <1>3, <1>4, <1>5, <1>6, <1>7

\* The logins in flight on c are the same to the server and to the view.
LEMMA SameLoginsInFlight ==
    ASSUME NEW c \in Conns, TypeInv
    PROVE  View(c)!LoginsInFlight(c) = LoginsInFlight(c)
  <1> SUFFICES ASSUME NEW t \in Tasks
               PROVE  (/\ SeenBy(c, pc, "idle")[t] = "calling"
                       /\ SeenBy(c, msg, NoMsg)[t].kind = "login"
                       /\ SeenBy(c, msg, NoMsg)[t].conn = c)
                      <=> (pc[t] = "calling" /\ msg[t].kind = "login" /\ msg[t].conn = c)
    BY DEF LoginsInFlight, View!LoginsInFlight
  <1>1. CASE Serves(t, c)
    BY <1>1, Seen
  <1>2. CASE ~Serves(t, c)
    <2>1. SeenBy(c, pc, "idle")[t] = "idle"
      BY <1>2, Seen
    <2>2. pc[t] = "calling" => msg[t] # NoMsg
      BY NoMsgAssumption DEF TypeInv, TaskInv
    <2> QED
      BY <1>2, <2>1, <2>2 DEF Serves
  <1> QED
    BY <1>1, <1>2

\* The handler of the view takes the same branch as the server's.
LEMMA ViewProcessMessage ==
    ASSUME NEW c \in Conns, NEW t \in Tasks, NEW m \in Messages, TypeInv, IdleInv,
           OnMessage(t, m), m.conn = c
    PROVE  View(c)!ProcessMessageAsync(t, m)
  <1> DEFINE vstage == [d \in {c} |-> stage[d]]
             vpc == SeenBy(c, pc, "idle")
             voverlapped == overlapped \intersect {c}
  <1>1. ProcessMessageAsync(t, m) /\ vstage[c] = stage[c]
    BY DEF OnMessage
  <1>2. ASSUME NEW p, pc' = [pc EXCEPT ![t] = p] PROVE vpc' = [vpc EXCEPT ![t] = p]
    <2>1. PcMoves(t, p)
      BY <1>2 DEF PcMoves, TypeInv, TypeOK
    <2> QED
      BY <2>1, MessageSeen
  <1>3. UNCHANGED overlapped => UNCHANGED voverlapped
    OBVIOUS
  <1>4. Drop(t) => View(c)!Drop(t)
    <2> HAVE Drop(t)
    <2>1. vpc' = [vpc EXCEPT ![t] = "dropped"] /\ UNCHANGED voverlapped
      BY <1>2, <1>3 DEF Drop
    <2> QED
      BY <2>1 DEF View!Drop
  <1>5. CASE c \notin clients
    <2>1. c \notin clients \intersect {c}
      BY <1>5
    <2> QED
      BY <1>1, <1>4, <1>5, <2>1 DEF ProcessMessageAsync, View!ProcessMessageAsync
  <1>6. CASE c \in clients
    <2>1. HandleMessage(t, m) /\ c \in clients \intersect {c}
      BY <1>1, <1>6 DEF ProcessMessageAsync
    <2>2. CASE m.kind = "other" /\ Drop(t)
      BY <1>4, <2>1, <2>2 DEF View!ProcessMessageAsync, View!HandleMessage
    <2>3. CASE m.kind = "version" /\ VerifyVersionAsync(t, m)
      <3>1. \E p : /\ p = IF stage[c] = "Unauthenticated" THEN "calling" ELSE "dropped"
                   /\ pc' = [pc EXCEPT ![t] = p]
                   /\ UNCHANGED overlapped
        BY <2>3 DEF VerifyVersionAsync
      <3>2. PICK p : /\ p = IF stage[c] = "Unauthenticated" THEN "calling" ELSE "dropped"
                     /\ vpc' = [vpc EXCEPT ![t] = p]
                     /\ UNCHANGED voverlapped
        BY <1>2, <1>3, <3>1
      <3>3. View(c)!VerifyVersionAsync(t, m)
        BY <1>1, <3>2 DEF View!VerifyVersionAsync
      <3> QED
        BY <2>1, <2>3, <3>3 DEF View!ProcessMessageAsync, View!HandleMessage
    <2>4. CASE m.kind = "login" /\ LoginAsync(t, m)
      <3>1. CASE stage[c] # "Unauthenticated"
        <4>1. View(c)!Drop(t)
          BY <1>4, <2>4, <3>1 DEF LoginAsync
        <4>2. View(c)!LoginAsync(t, m)
          BY <1>1, <3>1, <4>1 DEF View!LoginAsync
        <4> QED
          BY <2>1, <2>4, <4>2 DEF View!ProcessMessageAsync, View!HandleMessage
      <3>2. CASE stage[c] = "Unauthenticated"
        <4>1. /\ pc' = [pc EXCEPT ![t] = "calling"]
              /\ overlapped' = IF LoginsInFlight(c) = {} THEN overlapped
                               ELSE overlapped \union {c}
          BY <2>4, <3>2 DEF LoginAsync
        <4>2. vpc' = [vpc EXCEPT ![t] = "calling"]
          BY <1>2, <4>1
        <4>3. voverlapped' = IF LoginsInFlight(c) = {} THEN voverlapped
                             ELSE voverlapped \union {c}
          BY <4>1
        <4>4. View(c)!LoginsInFlight(c) = LoginsInFlight(c)
          BY SameLoginsInFlight
        <4>5. View(c)!LoginAsync(t, m)
          BY <1>1, <3>2, <4>2, <4>3, <4>4 DEF View!LoginAsync
        <4> QED
          BY <2>1, <2>4, <4>5 DEF View!ProcessMessageAsync, View!HandleMessage
      <3> QED
        BY <3>1, <3>2
    <2> QED
      BY <2>1, <2>2, <2>3, <2>4 DEF HandleMessage
  <1> QED
    BY <1>5, <1>6

LEMMA ViewOnMessage ==
    ASSUME NEW c \in Conns, NEW t \in Tasks, NEW m \in Messages, TypeInv, IdleInv, OnMessage(t, m)
    PROVE  (m \in View(c)!Messages /\ View(c)!OnMessage(t, m)) \/ UNCHANGED View(c)!vars
  <1>1. CASE m.conn # c
    BY <1>1, MessageElsewhere
  <1>2. CASE m.conn = c
    <2>1. m \in View(c)!Messages
      BY <1>2 DEF Messages, View!Messages, Kinds, View!Kinds
    <2>2. [d \in {c} |-> socket[d]][c] = "open"
      BY <1>2 DEF OnMessage
    <2>3. /\ UNCHANGED [d \in {c} |-> socket[d]] /\ UNCHANGED View(c)!registry
          /\ UNCHANGED View(c)!userVars /\ UNCHANGED [d \in {c} |-> replies[d]]
          /\ UNCHANGED View(c)!stopVars
      BY MessageTaken, KeptForAll, SocketOfView, RegistryOfView, UserOfView, RepliesOfView, StopOfView
    <2>4. View(c)!OnMessage(t, m)
      BY <1>2, <2>2, <2>3, MessageSeen, ViewProcessMessage DEF View!OnMessage
    <2> QED
      BY <2>1, <2>4
  <1> QED
    BY <1>1, <1>2

-------------------------------------------------------------------------------
(* All steps.                                                               *)

LEMMA ViewStep ==
    ASSUME NEW c \in Conns, TypeInv, IdleInv, [Next]_vars
    PROVE  [View(c)!Next]_(View(c)!vars)
  <1>1. CASE UNCHANGED vars
    BY <1>1, KeptForAll, ViewKept DEF vars
  <1>2. ASSUME NEW d \in Conns, SocketEvent(d) PROVE [View(c)!Next]_(View(c)!vars)
    BY <1>2, ViewSocketEvent DEF TypeInv, View!Next
  <1>3. ASSUME NEW t \in Tasks, NEW m \in Messages, OnMessage(t, m)
        PROVE  [View(c)!Next]_(View(c)!vars)
    BY <1>3, ViewOnMessage DEF View!Next
  <1>4. ASSUME NEW t \in Tasks, HandlerStep(t) PROVE [View(c)!Next]_(View(c)!vars)
    BY <1>4, ViewHandlerStep DEF View!Next
  <1>5. CASE Stop
    BY <1>5, ViewStop DEF TypeInv, View!Next
  <1> QED
    BY <1>1, <1>2, <1>3, <1>4, <1>5 DEF Next

\* Whatever the other connections do, each connection is served as if it were the
\* only one: the server refines, for every connection, the server of that one alone.
THEOREM ServedAsIfAlone == Spec => ConnectionsIndependent
  <1>1. Init => \A c \in Conns : View(c)!Init
    BY ViewInit
  <1>2. Init => TypeInv /\ IdleInv
    BY TypeInvInit DEF Init, IdleInv
  <1>3. TypeInv /\ IdleInv /\ [Next]_vars => TypeInv' /\ IdleInv'
    BY TypeInvStep, IdleInvStep
  <1>4. TypeInv /\ IdleInv /\ [Next]_vars => \A c \in Conns : [View(c)!Next]_(View(c)!vars)
    BY ViewStep
  <1> QED
    BY <1>1, <1>2, <1>3, <1>4, PTL DEF Spec, ConnectionsIndependent

===============================================================================
