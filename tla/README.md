# Loader client/server: formal model

TLA+ models, TLC runs and TLAPS proofs about the login system of this
repository: a Windows client (`client/`, C++) that talks over a websocket to a
server (`server/`, C#), which in turn asks a web API whether a version or a
user token is good.

    client (Win32)                         server (.NET)             web API
    UI thread   <--window messages--+
      login / main dialog           |
        | send                 notifier thread
        v                           ^ queue
    websocket  <--network thread----+
        |  version / login request
        +--------------------------------> Fleck callbacks
                                             HandleMessage --HTTP-->  answer
        <-------------------------------- reply

Contents: [the system](#1-the-system), [modules](#2-modules),
[runs](#3-runs), [fairness](#4-fairness), [proofs](#5-proofs),
[findings](#6-findings), [limits](#7-abstractions-and-limits),
[plan](#8-plan). Paths below are relative to the repository (`src/`).

## 1. The system

### Server

| Part | State | Operations | What makes it correct |
|---|---|---|---|
| Registry and handlers, `WebSocket.cs` | `_clients`, a concurrent dictionary from connection to `ClientUser`; the Fleck listener | Fleck's `OnOpen`, `OnMessage`, `OnError`, `OnClose`; `Stop`; `HandleVersionRequest`, `HandleLoginRequest` | each client is closed exactly once; no client outlives its connection; a request that got past its check is answered |
| Login state, `ClientUser.cs` | `_stage`; user id, JWT, cheat, token, hardware id and hardware info | `VerifyVersionAsync`, `LoginAsync`, `SendMessageAsync`, `Close` | the fields belong to one login; success is reported only when all are stored; nothing is processed after that |
| API client, `ApiInterface.cs` | one `HttpClient` | `SendPostRequestAsync` | three outcomes, all of which the callers survive |
| Process, `Program.cs` | `Settings` and the file `config.toml` | read, write defaults, run, Ctrl-C | a crash never leaves a file that stops every later start; restarts keep the settings; Ctrl-C ends the process |
| `Message.cs`, `Base64.cs` | none | (de)serialisation; `Base64.cs` has no caller | what one side writes the other can read |

### Client

| Part | State | Operations | What makes it correct |
|---|---|---|---|
| Event manager, `EventManager.*` | `_eventQueue` (a priority queue), `_eventMutex`, `_eventCondition`, `_stopThread`, the notifier thread | constructor, `NotifyEvent`, `EventNotifyThread`, destructor | no event is duplicated, none is lost while its window exists, no wakeup is lost, the destructor returns |
| Active window, `WindowManager.hpp` | `_activeWindow` | set, get, reset | it names a window that exists when a post uses it (it need not) |
| Dialogs and boxes, `Dialog.hpp`, `Message.hpp` | the window, its event table; nested message loops | create, dispatch, close, `Message::Show` | an error that ends the program does so whatever else happens |
| Login dialog, `LoginDlg.*` | `_loggedIn`, the token box, the login button | `OnInit`, `OnOK`, one handler per event | one request at a time, version before login, the stored token is the accepted one |
| Main dialog, `MainDlg.*` | its window | `OnInit`, the inherited error handlers | it notices the loss of the server |
| Websocket client, `WebSocketClient.*` | the connection | connect, `SendMessageAsync`, `OnConnect`, `OnFail`, `OnClose`, `OnMessage` | every outcome becomes one event |
| Messages, `MessageHandlers.hpp` | none | (de)serialisation, may throw | what one side writes the other can read |
| Stored token, `UserInfo.hpp` | `login.ini`, shared by all running clients | save, load | what is read is what was written; a stored token logs in again |
| `WinMain.cpp` | the sequence of threads and dialogs | `WinMain`, `ClientNetworkThread` | |
| `Utils`, `Security/*`, controls, thunks | none of their own | conversions, WMI, OpenSSL, single Win32 calls | pure |

### Interactions

* Network thread to UI thread: `NotifyEvent` puts an event into the priority
  queue under the mutex; the notifier thread reads the active window once and
  posts the whole queue to it; the window's message loop dispatches to the
  dialog's handler for the event.
* UI thread to server: `SendMessageAsync` from a dialog's handler. There is no
  reply timeout and no reconnection.
* Client to server: a version request after connecting, then login requests.
* Server to API: one HTTP POST per request, during which the handler is
  suspended and other handlers of the same connection run.
* UI thread to itself: a message box runs a message loop within the handler
  that shows it.

### Hard behaviours

The list with lines and covering properties is `hazards` in `PROJECT.json`.
In short: checks made before an `await` and used after it; six separate
setters on a pool thread; removal of one client by three callers; a thread
started before the members it uses are constructed; a stop flag set without
the mutex; an active window that is stale when the post happens; priorities
that reorder events; handlers re-entered through message boxes; a dialog
closed without resetting the active window; a configuration half read and
then overwritten; requests and replies without a timeout that cross a crash on
either side; two sets of message classes written by hand; one token through
three buffers of different sizes.

## 2. Modules

| Module | Models | Used by |
|---|---|---|
| `ServerCore` | `WebSocket.cs`, `ClientUser.cs`, the outcomes of `ApiInterface.cs` | `ServerViews`, `ServerCoreProofs`, `LoaderSystem` |
| `ServerViews` | the server as each connection sees it | `MCServerCore`, `ServerViewsProofs` |
| `ServerViewsProofs` | that connections are independent, one theorem | |
| `MCServerCore` | symmetry sets for TLC | the `server_*` runs |
| `ServerCoreProofs` | six theorems about `ServerCore` | |
| `ServerProcess` | `Program.cs`: configuration file, start, Ctrl-C, over several starts | `ServerProcessProofs` |
| `ServerProcessProofs` | three theorems about `ServerProcess` | |
| `EventBus` | abstract: what event manager and windows promise | `EventManager` implements it; `LoginClient` is built on it |
| `EventManager` | `EventManager.*` and the window registry, thread by thread | `EventManagerProofs` |
| `EventManagerProofs` | five theorems, refinement of `EventBus` among them | |
| `LoginClient` | the dialogs, message boxes, websocket client and entry point | the `client_*` runs, `LoginClientProofs`, `LoaderSystem` |
| `LoginClientProofs` | four theorems about `LoginClient` | `LoaderSystemProofs` |
| `Wire` | `Message.cs` and `MessageHandlers.hpp`: what each side writes and can read | `LoaderSystem` |
| `LoginProtocol` | abstract: what client and server promise together | `LoaderSystem` implements it |
| `LoaderSystem` | one client and the server over one connection, with losses and crashes | `MCLoaderSystem`, `LoaderSystemProofs` |
| `MCLoaderSystem` | symmetry sets for TLC | the `loader_*` runs |
| `LoaderSystemProofs` | eight theorems about the composition | `LoaderRefinementProofs` |
| `LoaderRefinementProofs` | that the composition implements `LoginProtocol` | |
| `UserInformation` | the token through edit box, request and `login.ini`, over several client processes | the `user_*` runs, `UserInformationProofs` |
| `UserInformationProofs` | two theorems about `UserInformation` | |

`map` in `PROJECT.json` gives the source lines of every definition. A
definition whose comment begins with "Mutant:" is a plausible bug in the
definition after it. No specification uses it; putting it in the place of
the definition it follows must make TLC report the property paired with it
under `mutants`, which shows that the property depends on that code.

### ServerCore

A *task* is one invocation of Fleck's `OnMessage` lambda. `pc[t]` says where
it stands: before the first `await` nothing else can be seen of it, so the
path from `OnMessage` to the start of the HTTP call is one action; `calling`
is the suspended handler, `storing` is `LoginAsync` between two setters,
`sending` is the handler about to call `SendMessageAsync`. It ends `answered`,
`unsent` (the send threw) or `dropped` (refused without a reply).

| Code | Model |
|---|---|
| `_clients` | `clients`, `closes` (how often `Close` ran) |
| `_stage`, the six properties set by `LoginAsync` | `stage`, `identity[c][f]`, field `f` in the order of the setters; its value is the token of the login that wrote it |
| `OnOpen`, `OnError`, `OnClose`, `Stop` | actions of the same names; `Stop` is `StopBegin`, one `StopVisit` per client enumerated, `StopEnd` |
| `ProcessMessageAsync`, `HandleMessage`, the handlers up to `await` | `OnMessage` and the operators it calls |
| the code after `await` | `VersionAnswer`, `LoginAnswer`, `StoreField`, `Reply`, `SendThrows` |
| `#if DEBUG` in `VerifyVersionAsync` | `DebugBuild` |

`overlapped` is a history variable: the connections on which a login passed
its check while another was in flight.

### ServerViews

`View(c)` is `ServerCore` with the one connection `c`, under a mapping from the
state of the whole server: the entry of `c` in every map, the intersection of
every set with `{c}`, and of the tasks those that work on a message of `c`; the
others have not started there. Only the life cycle of the server, `server`, is
shared as it is. `ConnectionsIndependent` says that the server is
`View(c)!Spec` for every `c`. What one client's handlers read and write must
therefore be that client's own, and `Stop`, which walks over all connections,
must be a `Stop` to each of them.

### ServerProcess

`main` is where `Main` stands, `"off"` when there is no process. Reading is
one action, `Read`: `Load` takes over the keys up to the first one whose lookup
or conversion throws and leaves the others at their defaults, and if one did
throw, `CreateDefaultConfig` follows (`TruncateFile`, `WriteFile`). A file that
is absent, cut off, not TOML or not read for an I/O error sets no key. A value is `"default"` or
`"custom"`, in the file also `"missing"` or `"invalid"`; the default API
address is the empty string, of which `ApiInterface` cannot make a `Uri`, so
`Build` fails for it. `Crash` may happen anywhere, an I/O error of
`CreateDefaultConfig` included, since nothing catches it. An operator may edit
the file at any time, also while it is being rewritten. `edited`, `known` and
`ran` are history variables: with which settings a server ran since the last
edit.

### EventBus and EventManager

`EventBus` has no threads: events are queued, a round of posts is aimed at
the window registered at that time, each is appended to that window's mailbox
or, if the window is gone, lost. `EventManager` has the notifier's program
counter, the mutex (held exactly when the notifier is in its critical section,
see `HoldsMutex`), the condition variable with spurious wakeups, the stop
flag, the destructor and the construction order. `_thread` is declared before
the flag, the mutex, the condition variable and the queue, so the thread may
run before they exist: the flag it reads then is whatever the memory holds
(both values are tried) and a lock of the unconstructed mutex is modelled as
the thread being stuck from then on.

`EventManager!ImplementsBus` is `EventBus!BusSpec` under the mapping that
keeps the variables of the same name and maps `halted` to "told to stop, or
the thread is no longer running".

### LoginClient

`INSTANCE EventBus` with the windows `"login"` and `"main"` and the client's
events; every action is written with one of the bus's operators or leaves the
bus alone. `ui` is where the UI thread stands below any message box;
`boxes` is the stack of open message boxes, innermost last; while a box with
an owner is open the dialog is disabled, but events are still dispatched to it
by the box's message loop. `net` and `requests` are the network thread and the
server as the client sees it: a request may be answered, in any of the ways
the protocol has, or never. `ConnectFailed` has no entry in the priority table,
so `NotifyEvent` throws, the exception leaves `run()`, and `WinMain.cpp`'s
handler reports `ConnectError` in its stead; `OnFail` is that whole path.

### Wire and LoaderSystem

`Wire` has the messages without their texts: an object maps its keys to the
sort of each value (`"text"`, `"empty"`, `"null"`, `"true"`, `"false"`). A
message is the envelope `MsgHeader` with an id and, under `data`, the request or
response, which in turn carries the answer proper. The writers are
`ToJsonString` on the client and the serialised classes on the server, in both
builds; the readers say when the other side's conversion throws or its checks
refuse, first for the envelope, then for the id, then for what is inside.
`RequestKind` is what the server's `HandleMessage` makes of a request the client
writes; `ReplyEvents` are the events the client's `OnMessage` may make of a reply:
one that cannot be read is reported, one under an id without a handler is not.

`LoaderSystem` is `LoginClient` and `ServerCore` over their own variables, the
latter with one connection, and three variables between them.

| Step of the system | Client | Server | Between |
|---|---|---|---|
| `Accept`, `Connected` | `OnConnect` | `OnOpen` | |
| `ClientDispatches`, `ClientDialogs`, `ClientPosts`, `ClientUsed` | its own actions | | a new request is appended to `uplink` |
| `Receive` | | `OnMessage`, for a message of the kind `Wire` gives it | the head of `uplink` |
| `ServerHandles`, `ServerStops` | | handler steps, `Stop` | |
| `Deliver` | `OnReply`, for an event that `Wire` gives, nothing for an unknown id | | the next of `replies`, counted by `read` |
| `ClientLoses`, `ServerLoses` | `OnFail`, `OnClose` | `OnError`, `OnClose` | |
| `ServerEnds` | | the process is gone | `up` |

So a reply is no longer whatever the client's model could imagine but what the
server sent, and the server's messages are those that this client sends. What
the two add up to is `LoginProtocol`: a client asks with one token at a time,
the server grants at most one token, and the client is in only with the token
granted. `RunsProtocol` is that specification under a mapping: `phase` comes
from `ui`, `versionOK` and `loggedIn`, `asked` is the token of the login that is
requested or answered and not yet handled by the dialog, and `granted` is the
*last* of the six identity fields. So the mapping makes the server's last setter
the moment of the grant, and `Enter` demands that it came first.

### UserInformation

A token is what was typed and what is left of it. `OnInit` fills the box with
at most 254 characters of `login.ini` (`wchar_t[256]`, of which
`ARRAYSIZE - 1` are passed, one for the terminator), the box returns at most
511 (`wchar_t[512]`), `OnLoginSuccess` stores what the box then returns. The
API accepts a token only whole. `sound` and `origin` are history variables:
whether the stored token is the one that logged in, and which such token a
client was started with and has not edited.

## 3. Runs

| Run | Instance | Question | Outcome |
|---|---|---|---|
| `server_logins` | 1 connection, 3 messages, 2 tokens, release build, symmetry | interleavings of the handlers of a connection at every `await` and setter: `OneIdentity`, `ToldOnlyWhenComplete`, `SilentOnceTold` | holds |
| `server_registry` | 2 connections, 2 messages, 1 token, debug build | open, error, close and `Stop` in every order: `ClosedExactlyOnce`, `NoGhostClients`, `EveryCallIsAnswered`, `ConnectionsIndependent` | holds |
| `server_relogin` | 1 connection, 2 messages, 2 tokens | is a login refused once the client is authenticated? | violated, finding 1 |
| `server_process` | every content of the file, any number of crashes, restarts and edits | `RestartsAlike`, `FileHeals`, `CancelEndsMain` | holds |
| `server_config` | the same | does a running server follow its configuration file? | violated, finding 3 |
| `events_delivery` | 2 dialogs, 3 events, one urgent | `EachEventOnce`, `NothingLostBeforeClose`, `SleepsOnlyWhenIdle`, refinement of `EventBus`, `QueueDrains`, `JoinReturns` | holds |
| `client_login` | 2 tokens | `OneRequestAtATime`, `LoginAfterVersion`, `LossIsNotForgotten`, `FatalBoxEndsClient`, `ServerLossEndsClient` | holds |
| `client_stored_token` | 2 tokens | is the stored token the one that logged in? | violated, finding 2 |
| `loader_login` | 2 tokens, 3 requests, release build, symmetry | client and server together: `ServerAgrees`, `NoRaceOnServer`, `RequestsConserved`, `NothingLate`, refinement of `LoginProtocol` | holds |
| `loader_outcome` | 1 token, 3 requests, debug build | `AlwaysUnderstood`, `LoginHasOutcome` | holds |
| `user_tokens` | 2 client processes, tokens of 254, 255 and 600 characters | `ShortTokenLogsInAgain` | holds |
| `user_long_token` | 1 client process, 254 and 255 characters | does every stored token log in again? | violated, finding 4 |

### Why the bounds are enough

* `server_logins`: two overlapping logins are needed to mix identities and a
  third message to come late, when one of them has already been reported. All
  three can be on the same connection: what a connection sees does not depend
  on the others, as `ConnectionsIndependent` says. `server_registry` checks that,
  and the dictionary, with two connections. There the messages are not the
  point, so one token does. The theorems remove these bounds.
* `server_process` has no bound but the two values per key: a property that
  compares settings needs no more than two that differ.
* `events_delivery`: two dialogs give every case of a stale window (not yet
  open, reset, destroyed, replaced), and three events give a queue in which an
  urgent one overtakes others while a round of posts is under way. A dialog is
  opened once and an event notified once, as in the program's run from login
  to exit.
* `client_login`: two tokens distinguish the one sent from the one in the box.
  The number of events is not bounded by the model: the client's own protocol
  bounds it. Only one request can be open at a time, the network thread
  reports one connection and one loss, and the boxes that may stack up are
  those of these events.
* `loader_login`: two tokens tell the login answered from the one typed next.
  Three requests are the version check, a login that fails and another one,
  hence everything that can follow an answer. After that the client can still
  lose the connection, close or wait, but not ask; both sides' losses and the
  server's end may come between any two steps. The safety theorems remove the
  bound.
* `loader_outcome`: which token it is does not matter to an outcome, so one
  does. It takes the debug build, whose version answer has null values;
  `loader_login` takes the release build. The theorem `Understanding` covers both.
* `user_tokens`: 254 and 255 are the two sides of the limit of reading, 600 is
  beyond what the box returns. Two processes suffice for one to store between
  any two steps of another; runs are not bounded.
* `Tasks` is the only bound on the length of a server run. It counts handler
  invocations, each of which is finished after at most ten steps.

`CHECK_DEADLOCK FALSE` is set where the system ends: the server is
stopped with every message used up, the destructor returns, the client exits.
`ServerProcess` and `UserInformation` can always be started again and are
checked for deadlock.

## 4. Fairness

* `ServerCore!FairSpec`: weak fairness of each handler past its check. The
  thread pool runs every resumed continuation, and `HttpClient` ends a call
  after its default timeout, so the call's end is certain. Nothing is assumed
  of peers or of Fleck.
* `ServerProcess!Spec`: weak fairness of `Main`'s own steps. Nobody has to start
  the process, press Ctrl-C or edit the file.
* `EventManager!Fairness`: weak fairness of the constructor, of the notifier
  thread and of the destructor once started: the scheduler runs threads that
  can run. Dialogs, events and the decision to quit are not fair.
* `EventBus!BusSpec`: a post that can happen while the notifier lives does.
  `EventManager` implements this, fairness included; `LoginClient` makes the
  same assumption for `Posting`.
* `LoginClient!Fairness`: in addition the message loop dispatches posted
  messages, dialogs that are closing close, and timed boxes expire. The user,
  the network and the server owe nothing. In particular a reply may never come.
* `LoaderSystem!Fairness`: what the two programs assume, joined. The network
  hands over what was sent, in order, for as long as both ends are there
  (`Receive`, `Deliver`); this is TCP. The handlers go on (`ServerHandles`). If
  the server's process or its end of the connection is gone, the client's
  kernel learns of it and `OnFail` or `OnClose` follows (`ClientLoses`). Once
  Ctrl-C was pressed, `Stop`'s loop and the process end. A peer that vanishes
  without its kernel closing the connection is excluded: neither program sends
  pings, so such a client would wait forever, and no property here says
  otherwise. The user and the API's verdict owe nothing.

## 5. Proofs

All proofs are for arbitrary sets of connections, messages in flight, tokens,
windows and events. They rest only on the assumptions stated in the modules:
`NoCred` is no token and `NoMsg` no message (they stand for "unset"),
`DebugBuild` is a Boolean, `NoWindow` (the null handle) is no window,
`MaxRequests` is a positive number, and the lengths of tokens are positive
numbers.

`ServerCoreProofs`

* `TypeCorrect`. `TypeOK` alone is not inductive, since `StoreField` indexes
  `identity` with the fields written so far. `TypeInv` adds what a task's
  position says of it: a task past `idle` has a message, one in `storing`
  works on a login and has fields left.
* `RegistryHasNoGhosts`, `ClientsClosedExactlyOnce`. The two are inductive
  together with `TypeOK`: that a removed client was closed once needs that only
  open connections are in the dictionary, and vice versa for `OnOpen`.
* `IdentityIsOneLogins`, `SuccessIsComplete`. `LoginInv` has four parts.
  `ResultInv`: only a task that has got an API answer has a result of success.
  `AcceptedInv`: a login being stored or stored has authenticated its
  connection and no field it wrote is empty. `ReportInv`: a reply of success
  was sent by a login that is stored. `AloneInv`: on a connection without
  overlap, an accepted login excludes every other login in flight or accepted,
  and the fields it wrote so far are its own. `AloneInv` is where the check in
  `LoginAsync` does its work.
* `SilenceOnceTold`, the action property, follows from `SuccessIsComplete` in
  one step: who was told is authenticated, and both checks refuse.

`ServerViewsProofs`

* `ServedAsIfAlone`: `ConnectionsIndependent`, for any number of connections and
  tasks. Each action is taken apart for a fixed connection `c`: a step of another
  connection leaves everything in `View(c)` as it is (`ViewKept`,
  `HandlerElsewhere`, `MessageElsewhere`, `RemovedElsewhere`), a step of `c` is
  the same action there (one `View...` lemma per action). Apart from `TypeInv`
  this needs that a task that has not started has no message (`IdleInv`), and
  that the logins in flight on `c` can be told from the view alone
  (`SameLoginsInFlight`). So every safety property of a server with one
  connection, that of `LoaderSystem` for instance, is true of each connection of
  a server with many.

`ServerProcessProofs`

* `TypeCorrect`, and `StartsHealTheFile`, the action property `FileHeals`.
* `RestartsKeepSettings`. `RestartsAlike` speaks of a server that runs, while what
  makes it true is in the file between two runs. `KnownInv` says that, once a
  server ran and nobody edited the file, it loads either as the settings of that
  run or as the defaults, and so did every start in progress; `BuiltInv` gives
  this for the first run; `UsableInv` excludes the defaults, which never get
  as far as a running server.

`EventManagerProofs`

* `TypeCorrect`, `NoEarlyLoss`. The strengthening `WindowInv`: window handles
  in use belong to dialogs that were opened, there is at most one dialog, a
  round of posts starts only with something queued.
* `EventsHappenOnce`. `EachEventOnce` is inductive with `TypeOK`; the work is in
  the mailboxes, about which three lemmas say that appending an event that is
  in none, taking the first and clearing keep all their entries distinct and
  what is then in them.
* `NoWakeupLost`. `SleepsOnlyWhenIdle` is the safety core of `QueueDrains` and
  `JoinReturns`: the mutex is held from the predicate to the wait, so no event can
  be queued in between, and a notification that finds the thread asleep sends it
  back to the predicate. `WakeupInv` adds that the flag is set once the
  destructor runs, without which a look at the predicate would not see it.
* `RefinesBus`: initial states map to initial states, and each step of
  `EventManager` is a step of `EventBus` or a stutter. It is the safety half of
  `ImplementsBus`.

`LoginClientProofs`

* `TypeCorrect`; the mailboxes' type comes from the bus (`BusTypes`), with whose
  operators the client's actions are written. `RefinesBus` is what connects these
  to the threads and locks of `EventManager`.
* `OneRequest`, `LoginNeedsVersion`. That the button is disabled while a request is
  in flight does not survive a single step by itself: the reply goes through
  queue and mailbox before a handler enables the button. `Turn` says that there
  is one turn, which is with the connection that is being made, the request, the
  event that answers it, the mailbox or the button, and never in two of these
  places; every step hands it on or drops it. `Verified` says who can have it
  before the version was accepted.
* `LossKnown`. `LossIsNotForgotten` is the safety core of `ServerLossEndsClient`: at
  no moment is the error nowhere. It follows the error from place to place,
  through handlers of other events that show boxes meanwhile. `DialogInv` is what
  it needs of the windows: while the login dialog is up, what is posted reaches
  it, and before the first dialog nothing is posted.

`LoaderSystemProofs`

* `RunsLoginClient`, `RunsServerCore`: the two halves of a behaviour are
  behaviours of the components, so that their theorems hold here (those of
  `ServerCore` are instantiated by `SP`, those of `LoginClient` by `CP`).
* `TypeCorrect`, `NoRace`, `BothSidesAgree`. They follow from the components'
  invariants and `LinkInv`. `PipeInv`: the one request is on the wire, with one
  handler, in one reply under way, or gone; its token and kind are the same in
  all of them. `ReplyInv`: a reply says what its handler found. `SpentInv`: once
  the server authenticated the client nothing can make the client ask again,
  neither the button nor an event on its way, which keeps a second login from
  meeting the unguarded check. `GrantInv`: an event of success is about a login
  that has been stored. `CleanInv`: no request is dropped on a connection that
  is open.
* `NothingVanishes`: `RequestsConserved`, the safety core of `LoginHasOutcome`.
  `PipeInv` says that there is at most one of everything on its way and that it
  is what the client waits for. `FlowInv` says that there is one as long as the
  server has the client: no handler of a registered client ends without a reply
  (`FlowWork`, which takes `NoGhostClients` from the server to know that the
  socket is usable), and no message of one is dropped (`CleanInv`). `PlaceCounts`
  turns both into the numbers of the property.
* `NothingComesLate`: `NothingLate`. A version request that has passed its check may
  be answered by the server after a login of the same connection authenticated
  it; `SilentOnceTold` does not exclude this, since it speaks of later messages
  only. `NothingLate` says that this client never has such a request. It is the
  part of `SpentInv` that concerns what is between the programs.
* `Understanding`: `AlwaysUnderstood`, for both builds. `ReplyOpened` takes the
  reply out of its envelope and finds the handler, `ResponsesUnderstood` reads the
  response and what it carries, and an invariant follows all events under way.
  `Delivered` adds that no reply meets an id without a handler.

`LoaderRefinementProofs`

* `ImplementsProtocol`: `RunsProtocol` is without fairness, so all of it is
  proved. `Mapping` spells out the mapping for each situation of the client
  through `Pending`, of which `Turn` says that it holds of one token at most.
  Three invariants come on top of those above. `DialogInv`: while the login
  dialog is up, posts reach it, and the main dialog comes after a login only.
  `FieldInv`: the last identity field is there only of a login that stored all
  six. `TokenInv`: no login is asked for with an empty token. With them a
  setter of the server is `Grant` or nothing (`ServerRefines`, where `AloneInv`
  excludes a second grant and `PipeInv` names the token asked with), the button
  is `Ask` (`OkRefines`: a grant would have made `SpentInv` disable it), a
  handled event is `Verify`, `Enter`, `Refuse` or nothing (`HandlerRefines`, with
  `GrantInv` for the one and `SpentInv` for the other), and everything else is
  `Leave` or nothing (`OtherRefines`).

`UserInformationProofs`

* `TypeCorrect` and `ShortTokensSurvive`, for any clients and lengths. That a
  client is not rejected says nothing about the file, which other clients write
  meanwhile. `SoundInv`: a token marked sound is one the API accepts.
  `OriginInv`: as long as nobody edits the box, box and request are what the
  start read, cut to the two buffers.

### Checked only by TLC

Liveness (`EveryCallIsAnswered`, `CancelEndsMain`, `QueueDrains`, `JoinReturns`,
`FatalBoxEndsClient`, `ServerLossEndsClient`, `LoginHasOutcome` and the fairness
half of `ImplementsBus`) is out of the prover's reach. Where it
depends on nothing being forgotten on the way, that part is proved:
`SleepsOnlyWhenIdle`, `LossIsNotForgotten` and `RequestsConserved`. Every other
property of a passing run is a theorem.

## 6. Findings

1. **A second login is processed on an authenticated client**
   (`server_relogin`). `LoginAsync` checks the stage before its `await` and sets
   it afterwards without a second look, while its exception text says that a
   login is not processed once the client is authenticated
   (`server/ServerCore/ClientUser.cs:129-131`). Two login messages sent
   back to back both pass; the later answer re-authenticates the client and
   overwrites its identity, field by field, possibly interleaved with the
   first. `OneIdentity` holds only where this did not happen. The repository's
   own client never does it (`OneRequestAtATime`).
2. **The stored token need not be the one that logged in**
   (`client_stored_token`). The token box stays editable while the login is in
   flight and `OnLoginSuccess` stores its present content
   (`client/client/Interface/Login/LoginDlg.cpp:90`); `README.md:37` promises
   to store the credentials "upon successful login".
3. **A start may replace the configuration it runs with** (`server_config`). A
   missing key makes `TomlTable`'s indexer throw after earlier keys were taken
   over; `Main` then writes a file of defaults over the old one and goes on with
   what it had read (`server/Server/Program.cs:38-50`). If only `api_key` is
   missing the server runs, with settings that are nowhere on disk any more,
   and the next start fails on the empty API address. `README.md:21` says that
   the server "can be easily configured using toml file".
4. **A long token is stored but not read back** (`user_long_token`). The
   constructor of `UserInformation` reads 254 characters
   (`client/client/UserInfo.hpp:8-11`), while the edit box returns up to 511 and
   all of them are stored. A token of 255 characters or more logs in, comes back
   cut off at the next start and is then refused. `README.md:37` promises to
   store the credentials. With tokens of up to 254 characters the promise
   holds, also with several clients at once (`user_tokens`).

Two qualifications in passing properties describe further behaviours of the
code: `JoinReturns` excepts the destructor's notification that falls between
the notifier's predicate and its wait (the flag is set without the mutex), and
a notifier stuck because it ran before the mutex was constructed;
`ServerLossEndsClient` excepts an error posted to a login dialog that has
closed itself after a login without resetting the active window.

## 7. Abstractions and limits

* In `ServerCore` a message is its connection, kind and token, and one that is
  undecodable is of kind "other" and dropped. `Wire` has the envelope, the keys and
  the sorts of values; the JSON text itself, escapes and encodings are left out, so
  text that was serialised from an object always parses. A key that the client
  misses is an assertion of its JSON library, undefined without assertions; the
  model takes the message as unreadable, and `AlwaysUnderstood` is that it never
  comes to this. For an id it does not know, `OnMessage` asserts in a debug build of
  the client and does nothing otherwise; the model has the latter.
* A request has no reply timeout in the code. `LoginClient` lets a reply stay
  away for good. In `LoaderSystem` there is a server to send it, and
  `LoginHasOutcome` shows what the missing timeout comes to: an answer, a lost
  connection or a box on the screen, under the fairness above.
* Of the profile functions of Windows only the size of the buffer is modelled.
  `GetPrivateProfileString` also strips quotes and blanks around a value; a
  token with such characters at its ends is outside `UserInformation`.
* `LoaderSystem` takes from Fleck that `OnOpen` comes before any message of the
  connection, and has one client. Whatever a server with many clients does to
  this one, a server with it alone could do, too: this is the theorem
  `ServedAsIfAlone`. It is about safety; that a server under load goes on is
  assumed for every handler (`ServerCore!FairSpec`).
* Fleck and Win32 are modelled from how the code uses them: `OnError` may or
  may not be followed by `OnClose`, sends to a connection that is closing throw,
  a concurrent dictionary's enumerator visits every key present throughout,
  `PostMessage` fails for a destroyed window and `DestroyWindow` discards posted
  messages. `closes` counts calls of `ClientUser.Close`, which only logs and closes
  no socket.
* Disposing the listener does not end handshakes under way, so `OnOpen` may come
  after `Stop`. How many there are is not tracked: any connection that is still
  idle may be one of them.
* `TomlTable`'s indexer throws for a key that is not there, as a .NET dictionary
  does. Ctrl-C before its handler is registered kills the process (`Crash`).
  `Cancel` runs `Stop` on the console's thread and `Main` may end the process
  before it is done; `ServerCore` models `Stop` as a walk that other steps, and
  the end of the behaviour, may interrupt.
* `_lastMessageReceivedTime` is left out: it is written and never read.
* The outcomes of using unconstructed members are reduced to two, a notifier
  that exits at once or is stuck for good; others (a crash) end the program.
* `NotifyEvent` on an event manager whose destructor has finished is not
  modelled. The network thread is detached, so the call is possible while the
  process exits.
* A box below the innermost one can be closed by its user on Windows, too; its
  handler still returns only after the inner ones, which is the order the
  model has.
* Each event is notified at most once in `EventManager`; the events of
  `LoginClient` may recur.

### Not modelled

* `Security/*`: queries of WMI and the registry and calls of OpenSSL, one after
  another and without state. Their exceptions are modelled where the dialogs
  meet them, as a send that fails.
* Controls, windows and thunks: each function wraps one Win32 call, the thunks
  are machine code written at run time. What dialogs and boxes do with them is
  in `LoginClient`. `RunModal`, `OnNotify`, the control table of `OnCommand` beyond
  its two uses, and subclassing are not used by any dialog.
* What the main dialog shows, and `Utils`: conversions without state. Two that
  can fail are listed as hazards.
* `Base64.cs`, `SendGetRequestAsync`, bearer tokens and
  `_lastMessageReceivedTime`: nothing calls or reads them.
* `client/thirdparty` (asio, websocketpp, nlohmann's json, OpenSSL, WMI and
  VMProtect): libraries, modelled only by what the code relies on. They are
  nearly all of the repository's lines.

## 8. Plan

In this order, because the login path is the purpose of the system:
`ServerCore` and its proofs, `EventBus` and `EventManager` with the refinement,
`LoginClient` on top of the bus, `ServerProcess` and its proofs; then `Wire`,
`LoginProtocol` and `LoaderSystem`, which compose the two programs,
`UserInformation`, and the proofs about `LoginClient`, `LoaderSystem` and
`UserInformation`; then `ServerViews`, which carries the results about one
connection over to many, and the safety cores of the liveness properties.

Left for later:

1. Several clients in `LoaderSystem`, with its theorems instantiated for each of
   them through `ServerViews`.
2. `NotifyEvent` after the destructor: needs a model of the process's exit with
   the detached network thread.
