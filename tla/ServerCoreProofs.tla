--------------------------- MODULE ServerCoreProofs ---------------------------
(***************************************************************************)
(* Proofs about ServerCore: type correctness, the registry invariants, and  *)
(* what a finished login leaves behind, for any number of connections,      *)
(* messages and user tokens.                                                *)
(***************************************************************************)
EXTENDS ServerCore, TLAPS

\* A task that has started works on a message, and a login handler never
\* stores more fields than there are.
TaskInv ==
    \A t \in Tasks :
        /\ pc[t] # "idle" => msg[t] \in Messages
        /\ pc[t] \in {"idle", "calling"} => written[t] = 0 /\ result[t] = "failure"
        /\ pc[t] = "storing" => /\ written[t] < LastField
                                /\ msg[t].kind = "login"
                                /\ result[t] = "success"

TypeInv == TypeOK /\ TaskInv

LEMMA TypeInvInit == Init => TypeInv
  <1> SUFFICES ASSUME Init PROVE TypeInv
    OBVIOUS
  <1>1. replies \in [Conns -> Seq(Replies)]
    BY DEF Init
  <1>2. TypeOK
    BY <1>1 DEF Init, TypeOK, SocketStates, Stages, Results, PCs, LastField
  <1>3. TaskInv
    BY DEF Init, TaskInv
  <1> QED
    BY <1>2, <1>3 DEF TypeInv

LEMMA TypeInvStep == TypeInv /\ [Next]_vars => TypeInv'
  <1> SUFFICES ASSUME TypeInv, [Next]_vars PROVE TypeInv'
    OBVIOUS
  <1> USE DEF TypeInv
  <1>1. CASE UNCHANGED vars
    BY <1>1 DEF TypeOK, TaskInv, vars, registry, userVars, taskVars, stopVars
  <1>2. ASSUME NEW c \in Conns, OnOpen(c) PROVE TypeInv'
    BY <1>2 DEF TypeOK, TaskInv, OnOpen, AddClient, userVars, taskVars, stopVars, SocketStates
  <1>3. ASSUME NEW c \in Conns, OnError(c) PROVE TypeInv'
    BY <1>3 DEF TypeOK, TaskInv, OnError, RemoveClient, userVars, taskVars, stopVars, SocketStates
  <1>4. ASSUME NEW c \in Conns, OnClose(c) PROVE TypeInv'
    BY <1>4 DEF TypeOK, TaskInv, OnClose, RemoveClient, userVars, taskVars, stopVars, SocketStates
  <1>5. ASSUME NEW t \in Tasks, NEW m \in Messages, OnMessage(t, m) PROVE TypeInv'
    <2>1. /\ pc[t] = "idle" /\ t \in Tasks
          /\ msg' = [msg EXCEPT ![t] = m]
          /\ UNCHANGED <<socket, clients, closes, stage, identity, result, written,
                         replies, server, toVisit>>
      BY <1>5 DEF OnMessage, registry, userVars, stopVars
    <2>2. /\ \/ pc' = [pc EXCEPT ![t] = "calling"]
             \/ pc' = [pc EXCEPT ![t] = "dropped"]
          /\ overlapped' = overlapped \/ overlapped' = overlapped \union {m.conn}
      BY <1>5 DEF OnMessage, ProcessMessageAsync, HandleMessage, VerifyVersionAsync,
                  LoginAsync, Drop
    <2>3. m.conn \in Conns
      BY DEF Messages
    <2>4. TypeOK'
      BY <2>1, <2>2, <2>3 DEF TypeOK, PCs
    <2>5. TaskInv'
      BY <2>1, <2>2 DEF TypeOK, TaskInv
    <2> QED
      BY <2>4, <2>5
  <1>6. ASSUME NEW t \in Tasks, NEW o \in ApiOutcomes, VersionAnswer(t, o) PROVE TypeInv'
    <2>1. VersionResults(o) \subseteq Results
      BY DebugBuildAssumption DEF VersionResults, Results, ApiOutcomes
    <2> QED
      BY <1>6, <2>1 DEF TypeOK, TaskInv, VersionAnswer, registry, userVars, stopVars, PCs
  <1>7. ASSUME NEW t \in Tasks, NEW o \in ApiOutcomes, LoginAnswer(t, o) PROVE TypeInv'
    <2>1. msg[t].conn \in Conns
      BY <1>7 DEF LoginAnswer, TaskInv, Messages
    <2>2. /\ pc[t] = "calling" /\ msg[t].kind = "login"
          /\ UNCHANGED <<socket, clients, closes, identity, msg, written, replies,
                         server, toVisit, overlapped>>
      BY <1>7 DEF LoginAnswer, registry, stopVars
    <2>3. \/ /\ stage' = [stage EXCEPT ![msg[t].conn] = "Authenticated"]
             /\ pc' = [pc EXCEPT ![t] = "storing"]
             /\ result' = [result EXCEPT ![t] = "success"]
          \/ pc' = [pc EXCEPT ![t] = "sending"] /\ UNCHANGED <<stage, result>>
      BY <1>7 DEF LoginAnswer, LoginAccepted
    <2>4. TypeOK'
      BY <2>1, <2>2, <2>3 DEF TypeOK, PCs, Stages, Results
    <2>5. TaskInv'
      BY <2>2, <2>3 DEF TypeOK, TaskInv, LastField
    <2> QED
      BY <2>4, <2>5
  <1>8. ASSUME NEW t \in Tasks, StoreField(t) PROVE TypeInv'
    <2>0. /\ pc[t] = "storing" /\ msg[t] \in Messages
          /\ written[t] < LastField /\ written[t] \in 0..LastField
      BY <1>8 DEF StoreField, TypeOK, TaskInv
    <2>1. /\ msg[t].conn \in Conns
          /\ msg[t].cred \in Creds
          /\ written[t] + 1 \in 1..LastField
      BY <2>0 DEF Messages, LastField
    <2>2. identity' \in [Conns -> [Fields -> Creds \union {NoCred}]]
      BY <1>8, <2>1 DEF StoreField, TypeOK, Fields, LastField
    <2>3. TypeOK'
      BY <1>8, <2>1, <2>2 DEF TypeOK, StoreField, registry, stopVars, PCs, LastField
    <2>4. TaskInv'
      BY <1>8, <2>1 DEF TypeOK, TaskInv, StoreField, LastField
    <2> QED
      BY <2>3, <2>4
  <1>9. ASSUME NEW t \in Tasks, Reply(t) PROVE TypeInv'
    <2>1. /\ msg[t].conn \in Conns
          /\ [task |-> t, kind |-> msg[t].kind, result |-> result[t]] \in Replies
      BY <1>9 DEF Reply, TypeOK, TaskInv, Messages, Replies
    <2>2. replies' \in [Conns -> Seq(Replies)]
      BY <1>9, <2>1 DEF Reply, TypeOK
    <2> QED
      BY <1>9, <2>2 DEF TypeOK, TaskInv, Reply, registry, userVars, stopVars, PCs
  <1>10. ASSUME NEW t \in Tasks, SendThrows(t) PROVE TypeInv'
    BY <1>10 DEF TypeOK, TaskInv, SendThrows, registry, userVars, stopVars, PCs
  <1>11. CASE Stop
    <2>1. CASE StopBegin
      BY <2>1 DEF TypeOK, TaskInv, StopBegin, registry, userVars, taskVars
    <2>2. ASSUME NEW c \in Conns, StopVisit(c) PROVE TypeInv'
      BY <2>2 DEF TypeOK, TaskInv, StopVisit, RemoveClient, userVars, taskVars
    <2>3. CASE StopEnd
      BY <2>3 DEF TypeOK, TaskInv, StopEnd, registry, userVars, taskVars
    <2> QED
      BY <1>11, <2>1, <2>2, <2>3 DEF Stop
  <1> QED
    BY <1>1, <1>2, <1>3, <1>4, <1>5, <1>6, <1>7, <1>8, <1>9, <1>10, <1>11
       DEF Next, SocketEvent, HandlerStep

\* Every variable keeps its type, whatever connections, messages and tokens there are.
THEOREM TypeCorrect == Spec => []TypeOK
  <1>1. TypeInv => TypeOK
    BY DEF TypeInv
  <1> QED
    BY TypeInvInit, TypeInvStep, <1>1, PTL DEF Spec

-------------------------------------------------------------------------------
(* The registry.  Only OnOpen registers and opens, and whoever removes a     *)
(* client from the dictionary closes it, so the two invariants are inductive *)
(* together.                                                                 *)

RegistryInv == TypeOK /\ NoGhostClients /\ ClosedExactlyOnce

LEMMA RegistryInvStep == RegistryInv /\ TypeOK' /\ [Next]_vars => RegistryInv'
  <1> SUFFICES ASSUME RegistryInv, TypeOK', [Next]_vars
               PROVE  NoGhostClients' /\ ClosedExactlyOnce'
    BY DEF RegistryInv
  <1> USE DEF RegistryInv, NoGhostClients, ClosedExactlyOnce
  <1>1. CASE UNCHANGED <<socket, clients, closes>>
    BY <1>1
  <1>2. ASSUME NEW c \in Conns, OnOpen(c) PROVE NoGhostClients' /\ ClosedExactlyOnce'
    BY <1>2 DEF TypeOK, OnOpen, AddClient
  <1>3. ASSUME NEW c \in Conns, OnError(c) PROVE NoGhostClients' /\ ClosedExactlyOnce'
    BY <1>3 DEF TypeOK, OnError, RemoveClient
  <1>4. ASSUME NEW c \in Conns, OnClose(c) PROVE NoGhostClients' /\ ClosedExactlyOnce'
    BY <1>4 DEF TypeOK, OnClose, RemoveClient
  <1>5. ASSUME NEW c \in Conns, StopVisit(c) PROVE NoGhostClients' /\ ClosedExactlyOnce'
    BY <1>5 DEF TypeOK, StopVisit, RemoveClient
  <1>6. ASSUME NEW t \in Tasks, NEW m \in Messages, OnMessage(t, m)
        PROVE  UNCHANGED <<socket, clients, closes>>
    BY <1>6 DEF OnMessage, registry
  <1>7. ASSUME NEW t \in Tasks, HandlerStep(t) PROVE UNCHANGED <<socket, clients, closes>>
    BY <1>7 DEF HandlerStep, VersionAnswer, LoginAnswer, StoreField, Reply, SendThrows, registry
  <1>8. CASE StopBegin \/ StopEnd
    BY <1>1, <1>8 DEF StopBegin, StopEnd, registry
  <1> QED
    BY <1>1, <1>2, <1>3, <1>4, <1>5, <1>6, <1>7, <1>8
       DEF Next, SocketEvent, Stop, vars, registry

LEMMA RegistryInvariant == Spec => []RegistryInv
  <1>1. Init => RegistryInv
    BY TypeInvInit DEF Init, TypeInv, RegistryInv, NoGhostClients, ClosedExactlyOnce
  <1> QED
    BY <1>1, RegistryInvStep, TypeCorrect, PTL DEF Spec

\* The dictionary holds clients of open connections only.
THEOREM RegistryHasNoGhosts == Spec => []NoGhostClients
  <1>1. RegistryInv => NoGhostClients
    BY DEF RegistryInv
  <1> QED
    BY <1>1, RegistryInvariant, PTL

\* A registered client is closed exactly once, whichever of OnError, OnClose
\* and Stop removes it first.
THEOREM ClientsClosedExactlyOnce == Spec => []ClosedExactlyOnce
  <1>1. RegistryInv => ClosedExactlyOnce
    BY DEF RegistryInv
  <1> QED
    BY <1>1, RegistryInvariant, PTL

-------------------------------------------------------------------------------
(* Logins.                                                                   *)

\* The logins of connection c that wait for the API, and those it accepted.
Waiting(t, c) == pc[t] = "calling" /\ msg[t].kind = "login" /\ msg[t].conn = c

Accepted(t, c) ==
    /\ pc[t] \in {"storing", "sending", "answered", "unsent"}
    /\ msg[t].kind = "login" /\ msg[t].conn = c
    /\ result[t] = "success"

\* Whoever has not reached the API has nothing to report.
ResultInv ==
    \A t \in Tasks : pc[t] \in {"idle", "calling", "dropped"} => result[t] = "failure"

\* An accepted login has authenticated the client, and the fields it stored
\* stay stored: a setter never clears a field.
AcceptedInv ==
    \A c \in Conns, t \in Tasks : Accepted(t, c) =>
        /\ stage[c] = "Authenticated"
        /\ pc[t] # "storing" => written[t] = LastField
        /\ \A f \in 1..written[t] : identity[c][f] # NoCred

\* Only a login that stored every field reports success.
ReportInv ==
    \A c \in Conns : LoginReported(c) =>
        \E t \in Tasks : Accepted(t, c) /\ pc[t] = "answered"

\* Where logins never overlapped, at most one waits and at most one was ever
\* accepted, and what that one stored is still there.
AloneInv ==
    \A c \in Conns \ overlapped :
        /\ \A t, u \in Tasks : Waiting(t, c) /\ Waiting(u, c) => t = u
        /\ \A t \in Tasks : Waiting(t, c) => stage[c] = "Unauthenticated"
        /\ \A t, u \in Tasks : Accepted(t, c) /\ Accepted(u, c) => t = u
        /\ \A t \in Tasks : Accepted(t, c) =>
               \A f \in 1..written[t] : identity[c][f] = msg[t].cred

LoginInv == ResultInv /\ AcceptedInv /\ ReportInv /\ AloneInv

\* What LoginInv speaks of.
loginVars == <<userVars, taskVars, replies, overlapped>>

LEMMA LoginInvStutter == LoginInv /\ UNCHANGED loginVars => LoginInv'
  BY DEF LoginInv, ResultInv, AcceptedInv, ReportInv, AloneInv, LoginReported, Accepted,
         Waiting, loginVars, userVars, taskVars

\* A message that arrives makes no login accepted; where it makes one wait,
\* the client was unauthenticated and no other login waited, or the history
\* variable notes the overlap.
LEMMA LoginInvOnMessage ==
    ASSUME TypeInv, LoginInv, NEW t \in Tasks, NEW m \in Messages, OnMessage(t, m)
    PROVE  LoginInv'
  <1>1. /\ pc[t] = "idle"
        /\ msg' = [msg EXCEPT ![t] = m]
        /\ pc' = [pc EXCEPT ![t] = "calling"] \/ pc' = [pc EXCEPT ![t] = "dropped"]
        /\ UNCHANGED <<stage, identity, result, written, replies>>
    BY DEF OnMessage, ProcessMessageAsync, HandleMessage, VerifyVersionAsync, LoginAsync,
           Drop, userVars
  <1>2. pc \in [Tasks -> PCs] /\ msg \in [Tasks -> Messages \union {NoMsg}]
    BY DEF TypeInv, TypeOK
  <1>3. \A u \in Tasks, c \in Conns : Accepted(u, c)' <=> Accepted(u, c)
    BY <1>1, <1>2 DEF Accepted
  <1>4. \A u \in Tasks, c \in Conns \ overlapped' :
            Waiting(u, c)' => \/ u # t /\ Waiting(u, c)
                             \/ /\ u = t
                                /\ stage[c] = "Unauthenticated"
                                /\ \A v \in Tasks : ~Waiting(v, c)
    BY <1>1, <1>2 DEF OnMessage, ProcessMessageAsync, HandleMessage, VerifyVersionAsync,
                      LoginAsync, Drop, LoginsInFlight, Waiting, Messages
  <1>5. overlapped \subseteq overlapped'
    BY DEF OnMessage, ProcessMessageAsync, HandleMessage, VerifyVersionAsync, LoginAsync, Drop
  <1>6. ResultInv'
    BY <1>1, <1>2 DEF LoginInv, ResultInv
  <1>7. AcceptedInv'
    <2> SUFFICES ASSUME NEW c \in Conns, NEW u \in Tasks, Accepted(u, c)
                 PROVE  /\ stage[c]' = "Authenticated"
                        /\ pc'[u] # "storing" => written'[u] = LastField
                        /\ \A f \in 1..written'[u] : identity'[c][f] # NoCred
      BY <1>3 DEF AcceptedInv
    <2>1. u # t
      BY <1>1 DEF Accepted
    <2> QED
      BY <1>1, <1>2, <2>1 DEF LoginInv, AcceptedInv
  <1>8. ReportInv'
    <2> SUFFICES ASSUME NEW c \in Conns, LoginReported(c)'
                 PROVE  \E u \in Tasks : Accepted(u, c)' /\ pc'[u] = "answered"
      BY DEF ReportInv
    <2>1. LoginReported(c)
      BY <1>1 DEF LoginReported
    <2>2. PICK u \in Tasks : Accepted(u, c) /\ pc[u] = "answered"
      BY <2>1 DEF LoginInv, ReportInv
    <2> QED
      BY <1>1, <1>2, <1>3, <2>2
  <1>9. AloneInv'
    <2> SUFFICES ASSUME NEW c \in Conns, c \notin overlapped'
                 PROVE  /\ \A u, v \in Tasks : Waiting(u, c)' /\ Waiting(v, c)' => u = v
                        /\ \A u \in Tasks : Waiting(u, c)' => stage'[c] = "Unauthenticated"
                        /\ \A u, v \in Tasks : Accepted(u, c)' /\ Accepted(v, c)' => u = v
                        /\ \A u \in Tasks : Accepted(u, c)' =>
                               \A f \in 1..written'[u] : identity'[c][f] = msg'[u].cred
      BY DEF AloneInv
    <2>1. c \notin overlapped
      BY <1>5
    <2>2. \A u, v \in Tasks : Waiting(u, c)' /\ Waiting(v, c)' => u = v
      BY <1>4, <2>1 DEF LoginInv, AloneInv
    <2>3. \A u \in Tasks : Waiting(u, c)' => stage'[c] = "Unauthenticated"
      BY <1>1, <1>4, <2>1 DEF LoginInv, AloneInv
    <2>4. \A u, v \in Tasks : Accepted(u, c)' /\ Accepted(v, c)' => u = v
      BY <1>3, <2>1 DEF LoginInv, AloneInv
    <2>5. \A u \in Tasks : Accepted(u, c) => u # t
      BY <1>1 DEF Accepted
    <2>6. \A u \in Tasks : Accepted(u, c)' =>
              \A f \in 1..written'[u] : identity'[c][f] = msg'[u].cred
      BY <1>1, <1>2, <1>3, <2>1, <2>5 DEF LoginInv, AloneInv
    <2> QED
      BY <2>2, <2>3, <2>4, <2>6
  <1> QED
    BY <1>6, <1>7, <1>8, <1>9 DEF LoginInv

\* A version handler is never an accepted login.
LEMMA LoginInvVersionAnswer ==
    ASSUME TypeInv, LoginInv, NEW t \in Tasks, NEW o \in ApiOutcomes, VersionAnswer(t, o)
    PROVE  LoginInv'
  <1>1. /\ pc[t] = "calling" /\ msg[t].kind = "version"
        /\ pc' = [pc EXCEPT ![t] = "sending"]
        /\ UNCHANGED <<stage, identity, msg, written, replies, overlapped>>
    BY DEF VersionAnswer, userVars
  <1>2. PICK r : result' = [result EXCEPT ![t] = r]
    BY DEF VersionAnswer
  <1>3. pc \in [Tasks -> PCs] /\ result \in [Tasks -> Results]
    BY DEF TypeInv, TypeOK
  <1>4. \A u \in Tasks, c \in Conns :
            /\ Accepted(u, c)' <=> Accepted(u, c)
            /\ Accepted(u, c) => u # t
            /\ Waiting(u, c)' <=> Waiting(u, c)
    BY <1>1, <1>2, <1>3 DEF Accepted, Waiting
  <1>5. ResultInv'
    BY <1>1, <1>2, <1>3 DEF LoginInv, ResultInv
  <1>6. AcceptedInv'
    BY <1>1, <1>3, <1>4 DEF LoginInv, AcceptedInv
  <1>7. ReportInv'
    BY <1>1, <1>3, <1>4 DEF LoginInv, ReportInv, LoginReported
  <1>8. AloneInv'
    BY <1>1, <1>3, <1>4 DEF LoginInv, AloneInv
  <1> QED
    BY <1>5, <1>6, <1>7, <1>8 DEF LoginInv

\* An answered login stops waiting.  If the API accepted it and logins never
\* overlapped on the connection, the client was unauthenticated, hence no
\* other login had been accepted.
LEMMA LoginInvLoginAnswer ==
    ASSUME TypeInv, LoginInv, NEW t \in Tasks, NEW o \in ApiOutcomes, LoginAnswer(t, o)
    PROVE  LoginInv'
  <1> DEFINE d == msg[t].conn
  <1>1. /\ Waiting(t, d) /\ d \in Conns /\ written[t] = 0 /\ result[t] = "failure"
        /\ UNCHANGED <<identity, msg, written, replies, overlapped>>
    BY DEF LoginAnswer, Waiting, TypeInv, TaskInv, Messages
  <1>2. /\ pc \in [Tasks -> PCs] /\ stage \in [Conns -> Stages]
        /\ result \in [Tasks -> Results]
    BY DEF TypeInv, TypeOK
  <1>3. CASE LoginAccepted(t)
    <2>1. /\ stage' = [stage EXCEPT ![d] = "Authenticated"]
          /\ pc' = [pc EXCEPT ![t] = "storing"]
          /\ result' = [result EXCEPT ![t] = "success"]
      BY <1>3 DEF LoginAccepted
    <2>2. \A u \in Tasks, c \in Conns :
              /\ Accepted(u, c)' <=> Accepted(u, c) \/ (u = t /\ c = d)
              /\ Accepted(u, c) => u # t
              /\ Waiting(u, c)' <=> Waiting(u, c) /\ u # t
      BY <1>1, <1>2, <2>1 DEF Accepted, Waiting
    <2>3. ResultInv'
      BY <1>2, <2>1 DEF LoginInv, ResultInv
    <2>4. AcceptedInv'
      BY <1>1, <1>2, <2>1, <2>2 DEF LoginInv, AcceptedInv
    <2>5. ReportInv'
      BY <1>1, <1>2, <2>1, <2>2 DEF LoginInv, ReportInv, LoginReported
    <2>6. AloneInv'
      <3> SUFFICES ASSUME NEW c \in Conns \ overlapped
                   PROVE  /\ \A u, v \in Tasks : Waiting(u, c)' /\ Waiting(v, c)' => u = v
                          /\ \A u \in Tasks : Waiting(u, c)' => stage'[c] = "Unauthenticated"
                          /\ \A u, v \in Tasks : Accepted(u, c)' /\ Accepted(v, c)' => u = v
                          /\ \A u \in Tasks : Accepted(u, c)' =>
                                 \A f \in 1..written'[u] : identity'[c][f] = msg'[u].cred
        BY <1>1 DEF AloneInv
      <3>1. \A u, v \in Tasks : Waiting(u, c)' /\ Waiting(v, c)' => u = v
        BY <2>2 DEF LoginInv, AloneInv
      <3>2. \A u \in Tasks : Waiting(u, c)' => stage'[c] = "Unauthenticated"
        <4>1. \A u \in Tasks : Waiting(u, c)' => c # d
          BY <1>1, <2>2 DEF LoginInv, AloneInv
        <4> QED
          BY <1>2, <2>1, <2>2, <4>1 DEF LoginInv, AloneInv
      <3>3. \A u, v \in Tasks : Accepted(u, c)' /\ Accepted(v, c)' => u = v
        <4>1. c = d => \A u \in Tasks : ~Accepted(u, c)
          BY <1>1 DEF LoginInv, AloneInv, AcceptedInv
        <4> QED
          BY <2>2, <4>1 DEF LoginInv, AloneInv
      <3>4. \A u \in Tasks : Accepted(u, c)' =>
                \A f \in 1..written'[u] : identity'[c][f] = msg'[u].cred
        BY <1>1, <2>2 DEF LoginInv, AloneInv
      <3> QED
        BY <3>1, <3>2, <3>3, <3>4
    <2> QED
      BY <2>3, <2>4, <2>5, <2>6 DEF LoginInv
  <1>4. CASE pc' = [pc EXCEPT ![t] = "sending"] /\ UNCHANGED <<stage, result>>
    <2>1. \A u \in Tasks, c \in Conns :
              /\ Accepted(u, c)' <=> Accepted(u, c)
              /\ Accepted(u, c) => u # t
              /\ Waiting(u, c)' <=> Waiting(u, c) /\ u # t
      BY <1>1, <1>2, <1>4 DEF Accepted, Waiting
    <2>2. ResultInv' /\ AcceptedInv' /\ AloneInv'
      BY <1>1, <1>2, <1>4, <2>1 DEF LoginInv, ResultInv, AcceptedInv, AloneInv
    <2>3. ReportInv'
      BY <1>1, <1>2, <1>4, <2>1 DEF LoginInv, ReportInv, LoginReported
    <2> QED
      BY <2>2, <2>3 DEF LoginInv
  <1> QED
    BY <1>3, <1>4 DEF LoginAnswer

\* A setter writes the token of its own login, never NoCred.  Where logins
\* never overlapped it is the only accepted login of the connection.
LEMMA LoginInvStoreField ==
    ASSUME TypeInv, LoginInv, NEW t \in Tasks, StoreField(t)
    PROVE  LoginInv'
  <1> DEFINE d == msg[t].conn
             g == written[t] + 1
  <1>1. /\ pc[t] = "storing" /\ Accepted(t, d)
        /\ d \in Conns /\ msg[t].cred \in Creds
        /\ written[t] \in 0..LastField /\ g \in Fields
    BY DEF StoreField, Accepted, TypeInv, TypeOK, TaskInv, Messages, Fields, LastField
  <1>2. /\ identity' = [identity EXCEPT ![d][g] = msg[t].cred]
        /\ written' = [written EXCEPT ![t] = g]
        /\ pc' = [pc EXCEPT ![t] = IF g = LastField THEN "sending" ELSE "storing"]
        /\ UNCHANGED <<stage, msg, result, replies, overlapped>>
    BY DEF StoreField
  <1>3. /\ pc \in [Tasks -> PCs] /\ written \in [Tasks -> 0..LastField]
        /\ identity \in [Conns -> [Fields -> Creds \union {NoCred}]]
    BY DEF TypeInv, TypeOK
  <1>4. /\ identity'[d][g] = msg[t].cred
        /\ \A c \in Conns, f \in Fields : c # d \/ f # g => identity'[c][f] = identity[c][f]
        /\ written'[t] = g
        /\ \A u \in Tasks : u # t => written'[u] = written[u]
    BY <1>1, <1>2, <1>3
  <1>5. \A u \in Tasks, c \in Conns :
            /\ Accepted(u, c)' <=> Accepted(u, c)
            /\ Waiting(u, c)' <=> Waiting(u, c)
    BY <1>1, <1>2, <1>3 DEF Accepted, Waiting
  <1>6. msg[t].cred # NoCred
    BY <1>1, NoCredAssumption
  <1>7. \A u \in Tasks : 1..written[u] \subseteq Fields /\ 1..written'[u] \subseteq Fields
    <2>1. \A u \in Tasks : written[u] \in 0..LastField /\ written'[u] \in 0..LastField
      BY <1>1, <1>3, <1>4 DEF Fields, LastField
    <2> QED
      BY <2>1 DEF Fields, LastField
  <1>8. 1..g = (1..written[t]) \union {g}
    BY <1>1
  <1>9. ResultInv'
    BY <1>1, <1>2, <1>3 DEF LoginInv, ResultInv
  <1>10. AcceptedInv'
    <2> SUFFICES ASSUME NEW c \in Conns, NEW u \in Tasks, Accepted(u, c)
                 PROVE  /\ stage'[c] = "Authenticated"
                        /\ pc'[u] # "storing" => written'[u] = LastField
                        /\ \A f \in 1..written'[u] : identity'[c][f] # NoCred
      BY <1>5 DEF AcceptedInv
    <2>1. /\ stage[c] = "Authenticated"
          /\ pc[u] # "storing" => written[u] = LastField
          /\ \A f \in 1..written[u] : identity[c][f] # NoCred
      BY DEF LoginInv, AcceptedInv
    <2>2. pc'[u] # "storing" => written'[u] = LastField
      BY <1>1, <1>2, <1>3, <2>1
    <2>3. \A f \in 1..written'[u] : identity'[c][f] # NoCred
      <3>1. CASE u = t
        <4>1. c = d
          BY <3>1 DEF Accepted
        <4> QED
          BY <1>4, <1>6, <1>7, <1>8, <2>1, <3>1, <4>1
      <3>2. CASE u # t
        BY <1>1, <1>4, <1>6, <1>7, <2>1, <3>2
      <3> QED
        BY <3>1, <3>2
    <2> QED
      BY <1>2, <2>1, <2>2, <2>3
  <1>11. ReportInv'
    <2> SUFFICES ASSUME NEW c \in Conns, LoginReported(c)'
                 PROVE  \E u \in Tasks : Accepted(u, c)' /\ pc'[u] = "answered"
      BY DEF ReportInv
    <2>1. PICK u \in Tasks : Accepted(u, c) /\ pc[u] = "answered"
      BY <1>2 DEF LoginInv, ReportInv, LoginReported
    <2> QED
      BY <1>1, <1>2, <1>3, <1>5, <2>1
  <1>12. AloneInv'
    <2> SUFFICES ASSUME NEW c \in Conns \ overlapped
                 PROVE  /\ \A u, v \in Tasks : Waiting(u, c)' /\ Waiting(v, c)' => u = v
                        /\ \A u \in Tasks : Waiting(u, c)' => stage'[c] = "Unauthenticated"
                        /\ \A u, v \in Tasks : Accepted(u, c)' /\ Accepted(v, c)' => u = v
                        /\ \A u \in Tasks : Accepted(u, c)' =>
                               \A f \in 1..written'[u] : identity'[c][f] = msg'[u].cred
      BY <1>2 DEF AloneInv
    <2>1. /\ \A u, v \in Tasks : Waiting(u, c)' /\ Waiting(v, c)' => u = v
          /\ \A u \in Tasks : Waiting(u, c)' => stage'[c] = "Unauthenticated"
          /\ \A u, v \in Tasks : Accepted(u, c)' /\ Accepted(v, c)' => u = v
      BY <1>2, <1>5 DEF LoginInv, AloneInv
    <2>2. ASSUME NEW u \in Tasks, Accepted(u, c), NEW f \in 1..written'[u]
          PROVE  identity'[c][f] = msg[u].cred
      <3>1. \A h \in 1..written[u] : identity[c][h] = msg[u].cred
        BY <2>2 DEF LoginInv, AloneInv
      <3>2. CASE u = t
        <4>1. c = d
          BY <2>2, <3>2 DEF Accepted
        <4> QED
          BY <1>4, <1>7, <1>8, <2>2, <3>1, <3>2, <4>1
      <3>3. CASE u # t
        <4>1. c # d
          BY <1>1, <2>2, <3>3 DEF LoginInv, AloneInv
        <4> QED
          BY <1>4, <1>7, <2>2, <3>1, <3>3, <4>1
      <3> QED
        BY <3>2, <3>3
    <2> QED
      BY <1>2, <1>5, <2>1, <2>2
  <1> QED
    BY <1>9, <1>10, <1>11, <1>12 DEF LoginInv

\* A reply of result success to a login is that of an accepted one.
LEMMA LoginInvReply ==
    ASSUME TypeInv, LoginInv, NEW t \in Tasks, Reply(t)
    PROVE  LoginInv'
  <1> DEFINE d == msg[t].conn
             r == [task |-> t, kind |-> msg[t].kind, result |-> result[t]]
  <1>1. /\ pc[t] = "sending" /\ d \in Conns
        /\ replies' = [replies EXCEPT ![d] = Append(@, r)]
        /\ pc' = [pc EXCEPT ![t] = "answered"]
        /\ UNCHANGED <<stage, identity, msg, result, written, overlapped>>
    BY DEF Reply, userVars, TypeInv, TaskInv, Messages
  <1>2. pc \in [Tasks -> PCs] /\ replies \in [Conns -> Seq(Replies)]
    BY DEF TypeInv, TypeOK
  <1>3. \A u \in Tasks, c \in Conns :
            /\ Accepted(u, c)' <=> Accepted(u, c)
            /\ Waiting(u, c)' <=> Waiting(u, c)
    BY <1>1, <1>2 DEF Accepted, Waiting
  <1>4. ResultInv'
    BY <1>1, <1>2 DEF LoginInv, ResultInv
  <1>5. AcceptedInv'
    BY <1>1, <1>2, <1>3 DEF LoginInv, AcceptedInv
  <1>6. ReportInv'
    <2> SUFFICES ASSUME NEW c \in Conns, LoginReported(c)'
                 PROVE  \E u \in Tasks : Accepted(u, c)' /\ pc'[u] = "answered"
      BY DEF ReportInv
    <2>1. CASE LoginReported(c)
      <3>1. PICK u \in Tasks : Accepted(u, c) /\ pc[u] = "answered"
        BY <2>1 DEF LoginInv, ReportInv
      <3> QED
        BY <1>1, <1>2, <1>3, <3>1
    <2>2. CASE ~LoginReported(c)
      <3>1. PICK i \in DOMAIN replies'[c] :
                replies'[c][i].kind = "login" /\ replies'[c][i].result = "success"
        BY DEF LoginReported
      <3>2. c = d
        BY <1>1, <1>2, <2>2, <3>1 DEF LoginReported
      <3>3. replies'[d] = Append(replies[d], r) /\ replies[d] \in Seq(Replies)
        BY <1>1, <1>2
      <3>4. i \in 1..Len(replies[d]) + 1
        BY <3>1, <3>2, <3>3
      <3>5. replies'[d][i] = IF i = Len(replies[d]) + 1 THEN r ELSE replies[d][i]
        BY <3>3, <3>4
      <3>6. i = Len(replies[d]) + 1
        BY <2>2, <3>1, <3>2, <3>3, <3>4, <3>5 DEF LoginReported
      <3>7. msg[t].kind = "login" /\ result[t] = "success"
        BY <3>1, <3>2, <3>5, <3>6
      <3>8. Accepted(t, c)
        BY <1>1, <3>2, <3>7 DEF Accepted
      <3> QED
        BY <1>1, <1>2, <1>3, <3>8
    <2> QED
      BY <2>1, <2>2
  <1>7. AloneInv'
    BY <1>1, <1>3 DEF LoginInv, AloneInv
  <1> QED
    BY <1>4, <1>5, <1>6, <1>7 DEF LoginInv

LEMMA LoginInvSendThrows ==
    ASSUME TypeInv, LoginInv, NEW t \in Tasks, SendThrows(t)
    PROVE  LoginInv'
  <1>1. /\ pc[t] = "sending"
        /\ pc' = [pc EXCEPT ![t] = "unsent"]
        /\ UNCHANGED <<stage, identity, msg, result, written, replies, overlapped>>
    BY DEF SendThrows, userVars
  <1>2. pc \in [Tasks -> PCs]
    BY DEF TypeInv, TypeOK
  <1>3. \A u \in Tasks, c \in Conns :
            /\ Accepted(u, c)' <=> Accepted(u, c)
            /\ Waiting(u, c)' <=> Waiting(u, c)
    BY <1>1, <1>2 DEF Accepted, Waiting
  <1>4. ResultInv' /\ AcceptedInv' /\ AloneInv'
    BY <1>1, <1>2, <1>3 DEF LoginInv, ResultInv, AcceptedInv, AloneInv
  <1>5. ReportInv'
    BY <1>1, <1>2, <1>3 DEF LoginInv, ReportInv, LoginReported
  <1> QED
    BY <1>4, <1>5 DEF LoginInv

LEMMA LoginInvStep == TypeInv /\ LoginInv /\ [Next]_vars => LoginInv'
  <1> SUFFICES ASSUME TypeInv, LoginInv, [Next]_vars PROVE LoginInv'
    OBVIOUS
  <1>1. CASE UNCHANGED vars
    BY <1>1, LoginInvStutter DEF vars, loginVars
  <1>2. ASSUME NEW c \in Conns, SocketEvent(c) PROVE UNCHANGED loginVars
    BY <1>2 DEF SocketEvent, OnOpen, OnError, OnClose, loginVars
  <1>3. CASE Stop
    <2>1. UNCHANGED loginVars
      BY <1>3 DEF Stop, StopBegin, StopVisit, StopEnd, loginVars
    <2> QED
      BY <2>1, LoginInvStutter
  <1>4. ASSUME NEW t \in Tasks, HandlerStep(t) PROVE LoginInv'
    BY <1>4, LoginInvVersionAnswer, LoginInvLoginAnswer, LoginInvStoreField, LoginInvReply,
       LoginInvSendThrows DEF HandlerStep
  <1> QED
    BY <1>1, <1>2, <1>3, <1>4, LoginInvStutter, LoginInvOnMessage DEF Next

LEMMA LoginInvariant == Spec => [](TypeInv /\ LoginInv)
  <1>1. Init => LoginInv
    BY DEF Init, LoginInv, ResultInv, AcceptedInv, ReportInv, AloneInv, LoginReported,
           Accepted, Waiting
  <1> QED
    BY <1>1, TypeInvInit, TypeInvStep, LoginInvStep, PTL DEF Spec

\* A finished login that overlapped with no other is the one whose data the
\* client keeps, in every field.
THEOREM IdentityIsOneLogins == Spec => []OneIdentity
  <1>1. TypeInv /\ LoginInv => OneIdentity
    BY DEF OneIdentity, Stored, LoginInv, AcceptedInv, AloneInv, Accepted, Fields, LastField
  <1> QED
    BY <1>1, LoginInvariant, PTL

\* A success is reported to authenticated clients with a full identity only.
LEMMA ReportedIsComplete == TypeInv /\ LoginInv => ToldOnlyWhenComplete
  <1> SUFFICES ASSUME TypeInv, LoginInv, NEW c \in Conns, LoginReported(c)
               PROVE  /\ stage[c] = "Authenticated"
                      /\ \A f \in Fields : identity[c][f] # NoCred
    BY DEF ToldOnlyWhenComplete
  <1>1. PICK t \in Tasks : Accepted(t, c) /\ pc[t] = "answered"
    BY DEF LoginInv, ReportInv
  <1> QED
    BY <1>1 DEF LoginInv, AcceptedInv, Fields, LastField

THEOREM SuccessIsComplete == Spec => []ToldOnlyWhenComplete
  BY LoginInvariant, ReportedIsComplete, PTL

\* After that report the stage check turns every later message away.
THEOREM SilenceOnceTold == Spec => SilentOnceTold
  <1> DEFINE Silent == \A t \in Tasks : pc[t] = "idle" /\ pc'[t] = "calling"
                                            => ~LoginReported(msg'[t].conn)
  <1>1. TypeInv /\ LoginInv /\ [Next]_vars => [Silent]_vars
    <2> SUFFICES ASSUME TypeInv, LoginInv, Next, NEW t \in Tasks,
                        pc[t] = "idle", pc'[t] = "calling"
                 PROVE  ~LoginReported(msg'[t].conn)
      OBVIOUS
    <2>1. ASSUME NEW c \in Conns, SocketEvent(c) PROVE FALSE
      BY <2>1 DEF SocketEvent, OnOpen, OnError, OnClose, taskVars
    <2>2. CASE Stop
      BY <2>2 DEF Stop, StopBegin, StopVisit, StopEnd, taskVars
    <2>3. ASSUME NEW u \in Tasks, HandlerStep(u) PROVE FALSE
      BY <2>3 DEF HandlerStep, VersionAnswer, LoginAnswer, LoginAccepted, StoreField, Reply,
                  SendThrows, TypeInv, TypeOK
    <2>4. ASSUME NEW u \in Tasks, NEW m \in Messages, OnMessage(u, m)
          PROVE  ~LoginReported(msg'[t].conn)
      <3>1. u = t
        BY <2>4 DEF OnMessage, ProcessMessageAsync, HandleMessage, VerifyVersionAsync,
                    LoginAsync, Drop, TypeInv, TypeOK
      <3>2. msg'[t] = m /\ m.conn \in Conns
        BY <2>4, <3>1 DEF OnMessage, TypeInv, TypeOK, Messages
      <3>3. stage[m.conn] = "Unauthenticated"
        BY <2>4, <3>1 DEF OnMessage, ProcessMessageAsync, HandleMessage, VerifyVersionAsync,
                          LoginAsync, Drop, TypeInv, TypeOK
      <3> QED
        BY <3>2, <3>3, ReportedIsComplete DEF ToldOnlyWhenComplete
    <2> QED
      BY <2>1, <2>2, <2>3, <2>4 DEF Next
  <1> QED
    BY <1>1, LoginInvariant, PTL DEF Spec, SilentOnceTold
===============================================================================
