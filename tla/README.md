# 996Server in TLA+

996Server is an actor server: C++ (asio, one main thread and a pool of worker
threads) that runs *services*, each a Lua state with a message queue.  This
directory holds TLA+ modules of its core, the TLC runs that check them, and
TLAPS proofs.  `PROJECT.json` lists, for each definition, the lines of the
repository it stands for, the runs, the hazards and the theorems.

Paths below are relative to the repository.

## 1. The system

| component | state | operations |
|---|---|---|
| Service registry (`src/service/serviceMgr.cpp`) | `mServices`, `mAutoId`, queue `mFreeServices`, stack `mPreDestroyServices` | `newService`, `destoryService`, `getService`, `send`, `poll`, `waitAllServiceClose` |
| Workers (`src/worker`) | `mFreeWorkers`, per worker `mService` and a thread | `useWorker`, `Worker::run`, the join in the destructors |
| Service (`src/service/service.cpp`) | Lua state, `mIsInit`, `mMsgs`, `mMsgLock` | constructor, `pushMsg`, `poll`, `close` |
| Message pool (`src/service/msg`) | `mPool`, `mLock` | `pop`, `push` |
| Lua runtime (`lualib/api.lua`) | `nextCoro`, `callCoro`, `autoSessionId`, timers, handlers | `onPoll`, `async`, `call`, `send`, `response`, `timeout`, `shutdown` |
| Main loop (`src/main.cpp`, `src/lua/luaApi.cpp`) | `IoContext`, `isRun` | start script, `IoContext.poll`, `ServiceMgr::poll`, `core.timer`, `core.exit` |
| Tcp server (`src/socket/tcp/server`, `session`, `lualib/net/tcp.lua`) | servers, sessions, callbacks, ids | `new`, `listen`, `send`, `close`, `destroy`, `getRemoteInfo`; `onAcceptor`, `onMsg` |
| Tcp client (`src/socket/tcp/client`, `lualib/net/tcp.lua`) | one socket, one buffer and the callbacks of each client | `new`, `connect`, `send`, `close`, `destroy`; `onConnect`, `onMsg` |
| Websocket server (`src/websocket/server`, `lualib/net/websocket.lua`) | `mSessions`, `mReverseSessions`, `mAutoId`, one thread per connection | `new`, `listen`, `send`, `close(fd)`, `destroy`; Open, Message, Close |
| Http client pool (`src/http/client`, `lualib/net/http.lua`) | `mClients`, `mFreeClients`, `mAutoId`, one thread per client | `get`, `post`: `newClient`, `performRequest`, the answer, `destroyClient` |
| Http server (`lualib/net/http.lua`) | routes | one read, one request, one answer, over the tcp server |
| Cluster (`services/clusterServ.lua`, `lualib/cluster.lua`) | `tcpClients` by node, the id of the cluster service each caller keeps | `send`, `call`, `onMsg`, `onClientResponse` over nodes |
| Databases, configuration tables, hot fix, console, encodings | connections; tables; - | see `PROJECT.json` |

How they interact.  The main thread runs the start script, which creates
services; then it loops over `IoContext.poll()` (asio handlers) and
`ServiceMgr::poll()` (deletes what was destroyed).  Each worker takes a pinned
service, or the next id of `mFreeServices`, and runs its `onPoll` with the
messages queued so far; `onPoll` calls back into C++ (`core.*`) on the worker's
thread.  Everything that talks to a service, timers, sockets, other services,
takes a message from the pool and posts it to the queue of the service.  All
locks are `try_lock` loops with a sleep.

What is hard: three kinds of threads over shared, partly unlocked state; a
service deleted by a thread that does not run it; shutdown while everything
still runs; timeouts against late answers; tables changed while Lua traverses
them; asio handlers with raw pointers to sessions that a worker frees; handlers
of an old connection that run on the new one; a library that calls back under
the lock of its caller; packets cut and joined by a stream.

What makes each component correct, in a sentence:

- *registry and workers*: one worker at a time in a Lua state; every registered
  roaming service is in rotation exactly once; a destroyed service is deleted
  once, and not while a worker may enter it; calls and the shutdown end;
- *queue*: nothing lost, doubled or reordered between a sender and an `onPoll`;
- *pool*: a message taken can be taken and given back again;
- *Lua runtime*: a suspended coroutine is resumed once, by the answer or the
  timeout of its own call; a Close ends the service;
- *main loop*: what was started with asio is completed;
- *tcp server*: a connection is announced, read and closed in this order, and
  reading and accepting go on until something fails;
- *tcp client*: a connect is answered once, an open connection has one reader,
  and what is due of an old connection does not end a new one;
- *websocket server*: the two maps agree and point to live connections, the lock
  comes back, and a script hears Open, Message*, Close of each connection;
- *http client pool*: one request at a time on a client, and every client taken
  is given back;
- *cluster*: a request runs once at most on the far node, and a call that
  returns true was run.

## 2. Modules

| module | models | extends / uses |
|---|---|---|
| `ServiceMgr` | registry, workers, main thread: creation, scheduling, destruction, deletion, shutdown | |
| `Channel` | abstract: what a message queue promises | |
| `ServiceQueue` | `pushMsg`, `poll`, `close` and the destruction of services; the pool is left open | implements `Channel` |
| `MsgPath` | the same with the real pool, timers and the shutdown | extends `ServiceQueue` and implements it |
| `LuaRuntime` | the coroutine scheduler of `lualib/api.lua` over that channel | |
| `IoLoop` | the io_context of main, timers and socket operations | |
| `TcpServer` | servers, sessions, callbacks against the asio handlers of main | |
| `TcpClient` | clients, their sockets and callbacks, against the asio handlers of main | |
| `WebsocketServer` | the server, its maps and lock, against the threads of the connections | |
| `HttpClient` | the pool of http clients | checked in `Cluster` |
| `Cluster` | requests between two nodes: lookup, tcp client, packets, answers | extends `HttpClient` and implements it |
| `*_proofs` | theorems and their proofs | extend the module of that name; those of `ServiceQueue` are in `MsgPath_proofs`, those of `HttpClient` in `Cluster_proofs` |
| `MC*` | values for the constants, symmetry where nothing tells the names apart (`queue`, `tcp_shared`) | extend the module of that name |

Names are those of the source.  What all modules have in common:

- A `try_lock` loop is an action guarded by the lock being free.  A critical
  section with no second lock and no callback in it is one step; where the code
  holds one lock and waits for another, the lock is a variable.
- What Lua scripts do is nondeterministic within what the API lets them do.
- A data race is resolved by a choice over what can come out: duplicate ids,
  a push on a `std::queue` that another push or a pop runs into, a half-assigned
  `std::function`.
- History variables are marked "history": they are read by properties only
  (`foreign`, `raced`, `log`, `result`, `closeLost`, `failed`, `early`, ...).
- An operator such as `UnpinNone` next to `Unpin` is a mutant: the operator
  under the plausible slip its name says.  No action uses it.  `PROJECT.json`
  pairs each property of a run with a mutant that breaks it.

### ServiceMgr

An object of `Services` is a `Service` in memory; its id is `sid[s]`, drawn from
`mAutoId` in two steps (`ReadId`, `BumpId`) because nothing locks it.
`newService` is `NewService .. UseWorker .. CtorReturn .. Insert ..` and either
`SetService` (unique) or `PushBegin`/`PushEnd` (the unlocked push to
`mFreeServices`, a window that other pushes and the pops of the workers can run
into), and `Return`. `OverlappedPush` lists what the `std::queue` may hold when
one did: both elements or one of the two, a slot with an id it held before, or
the popped id once more. Which contexts may create and which may destroy what is
up to `Creators` and `Destroys`; objects are taken in a fixed order (`Fresh`).
`destoryService` is `DestroyFind .. DestroyRetire` under `mServiceLock`; that
`Service::close` waits there for the lock of the queue is in `ServiceQueue`.
`Worker::run` is `ReadService`, `GetFreeServiceId`, `GetService`, `PollEnter`,
`PollReturn`, `RequeueBegin/End`, `WorkerStop`. Main is the start script (which
may fail), the loop with `MainPoll`/`DeleteTop`, `WaitAllServiceClose`, the
joins and the final deletes. `Start` stands for the start script as a caller.

Two facts of the code limit what holds. (1) If two calls draw one id, the second
service is not inserted but its id is queued twice, and two workers poll one Lua
state; if a push or a pop runs into an unlocked push, an id may be lost, doubled
or stale. `Calm` says neither happened; `ExclusivePoll`, `InRotationOnce` and
`NeverEntersDeleted` are about calm histories. (2) A script may destroy another
service: then a worker may hold a pointer to it, and enter it after the delete.
`foreign` records that; `NeverEntersDeleted` excludes it. Even a service that
destroys itself can be deleted while its `onPoll` is still returning; that one
is not excluded by any property because the code does it. The `Worker` objects
that `getServiceWorker` may still walk while main joins and deletes them are not
modelled.

### ServiceQueue, Channel, MsgPath

A service is polled by one thread at a time (`ExclusivePoll`), so a service and
the thread that polls it have one name.  `pushMsg` reads `mIsInit` without the
lock (`check`), then pushes (`push`); `poll` locks, fills the Lua table one
message at a time, gives each message back to the pool, and enters `onPoll`.
`ServiceQueue` implements `Channel` under `accepted <- Taken` (log, table and
queue) and `seen <- Len(log)`.

In `MsgPath` `ServiceMsgPool::pop` returns with `mLock` held, as the code has
it (`serviceMsgPool.cpp:45-64`).  So the first `pop` is the last: one message
ever is queued, the poll that takes it waits in `push` for good, holding
`mMsgLock` and the worker, no `onPoll` gets a message, and main hangs when it
wants a message for the first Close.  `OneMessageEver`, `NothingDelivered`,
`ReceiverStuck` and `NeverExits` state that, and `TimerReachesLua`, the promise
of the README's "- timer", is violated.  The other modules describe the rest of
the system as it would run past that line; `ServiceQueue` leaves the pool open
so that it covers both.

### LuaRuntime

`onPoll` has four parts (`phase`): coroutines of `api.async` from the end of
`nextCoro` backwards, calls that timed out, messages, Close.  `TimeOut` resumes
and only then clears (`Forget`), as the code does.  Messages are `Lua`,
`LuaResponse` and `Close`.  A response nobody waits for makes `onPoll` return
(`OnLateResponse`) and an error in a handler aborts it (`OnLuaError`): both drop
the rest of the batch.  A Close that is lost this way is marked `closeLost`.
`callCoro` is traversed with `pairs` while resumed coroutines may add to it:
what is visited after that is left open (`grown`).  Scripts call `api.call` from
coroutines that the runtime made, as the API requires, and may post with
`api.send` (session 0), whose answer nobody waits for: with it the batch of the
sender ends.  `Senders` bounds which coroutines do.  `CorosInPlace` names the
three places a coroutine can be: queued once, running, or suspended in the call
whose entry names it.

### IoLoop

An io_context that runs out of work is stopped and runs nothing until
`restart()`, which the sources never call.  `FiresUnlessStopped` says what holds
before.  `MainComesBack` says that `poll` returns to the loop, where main deletes
services and sees `core.exit`, unless some socket is ready again each time.

### TcpServer

Calls of a service are steps of its thread (`pc`), handlers are steps of main
(`mainPc`), in any interleaving.  `mLock` of `TcpServerMgr` is a variable since a
failed send holds it while it posts Close and enters the server.  A server has
the name of the service that made it; services may share one when they drew the
same id (`Distinct` excludes that).  A read is `waiting`, then `data` or `error`,
then its handler runs.  When a session was erased while its handler was due or
running, the handler uses freed memory: the process dies or the old contents
are read (`dangling`).  `bind` that throws and `getRemoteInfo` of a connection
that is gone end the process (`crashed`).  Connections accepted between
`doAcceptor` and `setOnConnectFunc` are never announced (`early`).  A script
learns an fd from a message.  The delivery of a post is left to `ServiceQueue`.

### TcpClient

As in `TcpServer`, calls of the service are steps of its thread (`pc`) and the
handlers of asio are steps of main (`mainPc`, on client `mainAt`, due for
connection `mainConn`).  A client has one socket and one buffer for one
connection after the other, and no lock.  Closing a socket makes its outstanding
operations due with an error; when the script connects again before main ran
them, they run on the new connection: they start a second reader or close it.
`hurried` marks the clients to which that can happen, `overlapped` those with
two `close()` at a time, `early` connections answered before `connect` had set
the callbacks.  `SocketInOrder` and `WellTold` are about all the others, and the
properties of liveness about every client.  `destroyClient` only takes the client
out of the map (`Destroy`): its socket stays as it is.

### WebsocketServer

The library gives each connection a thread; `onServerMsg` is `OpenDraw`,
`OpenRaise`,
`OpenInsert` and the post, `MessageFind` and the post, `Close ..` on that
thread, and the calls of Lua are steps of the worker (`luaPc`).  `mLock` is a
variable because the Close handler posts under it and because a write that
finds the connection broken makes the library run the Close handler on the
writing thread: there `send` holds the lock that this handler waits for (`luaPc =
"stuck"`), for good.  `mAutoId` is drawn and raised without the lock and the
connection inserted under it, so Opens may insert in another order than they drew,
and two may get one fd, of which the maps keep one; `Distinct` says that this did
not happen.
`close(fd)` uses the pointer it found after it gave the lock back: if the thread
of the connection has left by then, the process dies (`crashed`).

### HttpClient

A request takes the oldest free client or makes one (`NewClient`), is run by the
thread of the client (`PerformRequest`, `Respond`), which posts the answer and
gives the client back afterwards (`DestroyClient`).  A request with an empty url
returns between the two (`NotStarted`) and the client is `leaked`.

### Cluster

A request is posted to the near cluster service (`Ask`), dispatched to a
coroutine (`Dispatch`), sent on the tcp client of the node if there is one
(`SendOnClient`) or else after `http.get` of the address (`Lookup`, the steps of
`HttpClient`) on a new one (`Found`, `OnConnect`).  The far node runs it and
answers (`OnMsg`, `CallReturns`).  A packet is two chunks; a read is any
non-empty beginning of what is there, and both sides take it for one packet.
What does not unpack is an error of `onPoll`, which loses a beginning of the
rest of the batch (`DropNear`, `DropFar`).  Connections fail to open and break
at any time; a write may take part of a packet and returns true all the same; a
call is given up after its timeout (`TimeOut`).  An answer nobody waits for is
`stray`: it costs the caller the rest of its batch (`LuaRuntime` has that step).
The command `listen` makes the tcp server of the far node and is taken as done.

## 3. Runs

Mutants are run under the same configurations.  `CHECK_DEADLOCK FALSE`
everywhere: the process may exit or crash, and the bounds end the behaviour of
scripts and peers; that threads do not wait for each other for ever is stated by
liveness properties instead (`CallsReturn`, `JoinEnds`, `CallsAndHandlersEnd`,
`LockComesBack`).

| run | instance | checks |
|---|---|---|
| `sm_safe` | 2 workers, 3 services, any of them may create and destroy; 1 080 000 states | `TypeOK`, `WorkerBudget`, `ExclusivePoll`, `InRotationOnce`, `PreDestroyOnce`, `NeverEntersDeleted` |
| `sm_live` | 2 workers, 2 services, any of them may create, the first destroys itself, fair; 120 000 states | `CallsReturn`, `FreeServicePolled`, `Reclaimed`, `JoinEnds` |
| `queue` | 2 services posting to each other and themselves, 2 posts per pair | `TypeOK`, `NothingLost` (and nothing overtakes: `SenderOrder`), `QuietAfterClose`, `ImplementsChannel` |
| `path_safe` | 1 service, main and a connection thread, 1 pooled message | `PathBlocked` (`OneMessageEver`, `NothingDelivered` and the types), `NeverExits` |
| `path_timer` | the same, fair | `TimerReachesLua` is violated |
| `lua_live` | 1 service that calls itself, 2 calls, 4 coroutines, `api.send` from the second, fair; 720 000 states | `CorosInPlace` (`SuspendedIffListed`, `QueuedOnce` and the types), `ReturnsOnce`, `CallReturns`, `CloseHonoured` |
| `io_work` | 2 timers, 2 socket operations, fair | `FiresUnlessStopped`, `MainComesBack` |
| `tcp_shared` | 2 services, 1 connection, 2 reads, 1 call each; one server listens | `KeepsGoing` (`KeepsReading`, `KeepsAccepting` and the types), `CloseAnnounced`, `OneMessageLate` |
| `tcp_live` | 1 service, 2 connections, 2 reads each, fair | `ConnectFirst`, `CallsAndHandlersEnd` |
| `tcp_client` | 1 client, 3 connections one after the other, 1 read with data, fair; 165 000 states | `SocketInOrder` (`NotDeaf`, `OneReader`, `OwnEnd` and the types), `WellTold`, `ConnectAnswered`, `EndNoticed` |
| `websocket` | 2 connections, 1 message each, 2 calls of Lua, fair; 306 000 states | `MapsAgree` (`MapsInverse`, `SendSafe` and the types), `WellTold`, `LockComesBack`, `EndTold` |
| `cluster` | a call and a send, 1 http request each, 2 tcp clients; 542 000 states | `ExclusiveClient`, `PoolBounded`, `ExecutedOnce` (`AtMostOnce`, `NoFalseSuccess` and the types), `StrayOnlyLate`, `NoDeadEntry` |

Why the bounds are enough for the interesting cases. `sm_safe` has one service
more than workers, so the call that finds no worker happens, two calls overlap
in every step of `newService`, and a service can be destroyed by itself, by
another and by the start script, and pops and pushes run into an unlocked push.
`sm_live` has as many workers as services, so each call goes through all of
`newService`, two at a time: two roaming services whose pushes overlap, or one
that is pinned and one that roams on the worker left. The calls that find no
worker are in `sm_safe`; `Starving` is false in all of `sm_live`, which so shows
its properties without that escape. In `lua_live` a script queues up to two
coroutines before the first `onPoll`, so that one queues others while one is
queued below it, and the last is the one that Close takes. `queue` with two
posts per pair has overtaking, a drain in the middle of a post and services that
close each other in both. `tcp_shared` has both services on one server after a
duplicate id, or on two; its constraint `OneListens` keeps one of two unrelated
servers idle, since they share nothing but `mLock` and main. Two reads are
needed for a handler that is due when the session goes and one more after it. In
`tcp_client` the second connection meets what is due of the first, and the third
shows that nothing of it stays; one client is enough because clients share
nothing but main. In `websocket` two connections can draw one fd, or two and
insert them in either order, and two calls let Lua close a connection it has
sent to. In `cluster` both requests find no client and connect, so the second
connection replaces the first and the close of either empties the table; a call
and a send differ in what is answered; two requests take two http clients at a
time or one after the other.

Fairness. A thread inside a call or a loop goes on (weak fairness). A thread
that retries a lock gets it if it is free again and again: strong fairness of
the steps that wait for a lock, because `try_lock` and sleep have no queue but
also no systematic loser (in `FairSpec` of `ServiceMgr` for the steps of
`destoryService` of all callers together, as one of them has the lock). Scripts
are only fair in giving control back (`GiveBack` in `LuaRuntime`): nothing says
that a script ever calls anything, that a peer sends, or that a call is
answered. In `TcpClient` a connect succeeds or fails in the end and reads of a
connection whose peer is gone end. In `WebsocketServer` a handler that has begun
and a call of Lua that has begun go on, with strong fairness for the lock.
`Cluster` claims no liveness: a request may be lost in many ways, and the caller
is left to `CallReturns` of `LuaRuntime`. In `LuaRuntime` time passes and
services are polled (what `FreeServicePolled` says). In `IoLoop` timers expire
and an operation that is ready runs in the end; sockets need not complete. In
`MsgPath` all threads keep trying; the timer is lost all the same.

## 4. Proofs

For every value of the constants that satisfies the named assumptions
(`ConstantsAssumption`, `QueueAssumption`, `PathAssumption`,
`RuntimeAssumption`, `HttpAssumption`, `RequestAssumption`, and
`BoundAssumption` and `NameAssumption` of `TcpServer`, `TcpClient` and
`WebsocketServer`). They say that bounds are numbers, that names are distinct
from `Nil` and from each other, that `Services` of `TcpServer`, `Conns` and
`Users` are finite where something is counted, that somebody may make a request
(`Users` of `Cluster`), and that a service may have three coroutines at least,
one of them for Close (`MaxCoros` bounds a run, the code has no such limit).

### Services and their messages

| theorem | says | inductive invariant |
|---|---|---|
| `ServiceMgr_proofs!TypeCorrect` | `Spec => []TypeOK` | `TypeOK` |
| `ServiceMgr_proofs!WorkerBudgetHolds` | `Spec => []WorkerBudget` | `ClaimInv`: calls past `useWorker` hold distinct workers that are not free; the bound follows with `FS_Injection` |
| `ServiceMgr_proofs!PreDestroyOnceHolds` | `Spec => []PreDestroyOnce` | `RegistryInv`: who is in `destoryService` holds `mServiceLock`; what it destroys is registered until erased, then nowhere until it is on the stack; an object that is not inserted is nowhere |
| `ServiceMgr_proofs!ExclusivePollHolds`, `InRotationOnceHolds` | `Spec => []ExclusivePoll`, `Spec => []InRotationOnce` | `RotationInv`: the id of a roaming service is a token, in the queue or with one worker, once (`TokenInv`, of calm histories); who is pinned stays with the worker it claimed (`StageInv`, always) |
| `ServiceMgr_proofs!NeverEntersDeletedHolds` | `Spec => []NeverEntersDeleted` | `LeaveInv`: a service in `destoryService` is run by a worker that therefore holds its token or pin; past `setService(nullptr)` no worker has it |
| `MsgPath_proofs!QueueTypeCorrect` | `Spec => []TypeOK` (`ServiceQueue`) | `TypeInv`: and a thread past `pop` has a message in its hand |
| `MsgPath_proofs!QuietAfterCloseHolds` | `Spec => []QuietAfterClose` | `QuietInv`: an unregistered service has `mIsInit` false and is past the drain; who closes, closes itself |
| `MsgPath_proofs!NothingLostHolds` | `Spec => []NothingLost` | `LostInv`: a thread carries the number of the last post it began (`HandInv`), an unregistered service has `mIsInit` false (`ClosedInv`), and log, table and queue together have, in order, every number but the one in a hand (`CountInv`) |
| `MsgPath_proofs!ImplementsChannelHolds` | `Spec => ImplementsChannel`: a queue of two locks and a swap is a first-in first-out channel | `LostInv`; each step maps to an accept, a hand-over or a stutter |
| `MsgPath_proofs!ImplementsServiceQueue` | `PathSpec => Spec` | none: each step maps to a step or a stutter |
| `MsgPath_proofs!NothingDeliveredHolds`, `NeverExitsHolds`, `ReceiverStuckHolds` | the consequences of the pool lock, for any number of services, threads and messages | `PoolInv`: past the first `pop` the lock is taken; a table holds messages only while its poll is in `push` |
| `MsgPath_proofs!OneMessageEverHolds`, `PathBlockedHolds` | one message ever; the run's invariant as it stands | `OneInv`: while a thread carries the message all queues are empty |
| `LuaRuntime_proofs!CorosInPlaceHolds` | `Spec => []CorosInPlace` | `RuntimeInv`: for each service, its entries name distinct coroutines that wait for them, its queue has none of these, every coroutine it has is below `created`, and the entry still to be cleared is of a resumed call; a Close is last in what is read |
| `LuaRuntime_proofs!ReturnsOnceHolds` | `Spec => ReturnsOnce`, an action property | `Returned`: nobody waits in a call that has its result |
| `IoLoop_proofs!OperationsInPlace` | a timer posts once, and what posted is not outstanding | `InPlace` |

### Sockets

| theorem | says | inductive invariant |
|---|---|---|
| `TcpServer_proofs!KeepsGoingHolds` | `Spec => []KeepsGoing` | `KeepsInv`: pointers of calls, callbacks and handlers lead to a server that was made and has the id its holder drew (`TypeInv`), each connection of a registered server has a read outstanding, due or in main's hands (`ReadInv`), each acceptor one accept (`AcceptInv`) |
| `TcpServer_proofs!ConnectFirstHolds`, `CloseAnnouncedHolds`, `OneMessageLateHolds` | what a service hears of a connection, if ids are distinct | `TellInv`: who has the callbacks (`CallbackOk`), where a connection is against what was posted of it (`ConnectOk`, `CloseOk`), and that a session that is used without being in the map has no data left to read (`LateOk`) |
| `TcpClient_proofs!SocketInOrderHolds` | `Spec => []SocketInOrder` | `FlowInv`: unless it connected in a hurry a client has one token, the connect in progress, the read, the due handler or main's step, and it is of its present connection |
| `TcpClient_proofs!WellToldHolds` | `Spec => []WellTold` | `TellInv` on top of it: a socket being ended is open, what was told is in order, and what was told says how far the connection is (`TellNow`) |
| `WebsocketServer_proofs!MapsAgreeHolds` | `Spec => []MapsAgree` | `FdInv` (the fds drawn never get ahead of the connections that raised `mAutoId`), `MapInv` (what `mSessions` has, `mReverseSessions` has, and the other way if fds are distinct), `OverInv` (a connection that is over is in no map but while the Close Lua came upon is erasing it) |
| `WebsocketServer_proofs!WellToldHolds` | `Spec => []WellTold` | `TellInv`: what is told has the fd of its connection, Lua calls on what it was told of, and the step of the thread of the connection says which events are out |

### Http clients and the cluster

| theorem | says | inductive invariant |
|---|---|---|
| `Cluster_proofs!PoolTypeCorrect`, `ExclusiveClientHolds` | types; one request at a time on a client | `PoolInv`: and every client that is anywhere was made |
| `Cluster_proofs!PoolBoundedHolds` | `HttpSpec => []PoolBounded` | itself with `PoolInv`: what was made is busy, free or leaked, so a new client is made only when as many are busy as never before |
| `Cluster_proofs!ClusterUsesPool`, `ClusterExclusiveClient`, `ClusterPoolBounded` | every behaviour of the cluster is one of the pool, with what follows | none: each step maps to a step or a stutter |
| `Cluster_proofs!ClusterTypeCorrect` | `Spec => []TypeOK` | `ClusterType`, and `PoolInv` through `ClusterUsesPool` |
| `Cluster_proofs!ExecutedOnceHolds` | `Spec => []ExecutedOnce` | `AllOnce`: a request is in one place at most, an opening connection, a packet to the far node, a call there, or an answer, and there once (`OnePlace`); nothing of it is out before the near service is done with it (`Unsent`); the place says whether it was run (`Ran`); one that was answered is nowhere (`Answered`); and `LinkInv` of the events of a connection.  Alone neither half of `ExecutedOnce` is inductive: a second packet, or a second answer, must be excluded before it is read |
| `Cluster_proofs!StrayOnlyLateHolds` | `Spec => []StrayOnlyLate` | `AllOnce` and `Waits`: a call waits from the moment it is made |
| `Cluster_proofs!NoDeadEntryHolds` | `Spec => []NoDeadEntry` | `EntryInv`: the table of a service that is not gone has a client that lives |
| `Cluster_proofs!EarlyIsForGoodHolds` | a caller that came too early is refused for good | `KeptInv`: what `cluster.lua` kept decides of every request |

Queues that are cut, joined and searched (`to`, `from`, `posted`, `mMsgs`) are
reasoned about by positions: what stands for a request or an event is at one
index, a cut or a `Tail` maps the indices of the rest injectively into the old
ones (`LessCut`, `CutTakes`), and an `Append` or `\o` adds one (`LessJoin`,
`JoinAdds`).  Each step then adds nothing of any request but its own
(`NothingNew`) and moves its own on (`NowOpens`, `NowGoes`, `NowServes`,
`NowComes`, `NowGone`).

The invariants the theorems rest on are as the modules state them; `TypeOK` and
`NothingLost` of `ServiceQueue` carry over to `MsgPath` by
`ImplementsServiceQueue`.

Every invariant and action property of the runs is a theorem. Only model-checked
are the liveness properties (`CallsReturn`, `Reclaimed`, `JoinEnds`,
`FreeServicePolled`, `CallReturns`, `CloseHonoured`, `FiresUnlessStopped`,
`MainComesBack`, `CallsAndHandlersEnd`, `ConnectAnswered`, `EndNoticed`,
`LockComesBack`, `EndTold`): liveness under fairness and `ENABLED` are beyond
the prover, as is induction over data.

## 5. Where the code and its documents part

- `serviceMsgPool.cpp:45`: `pop` keeps `mLock`. README.md:26 lists "- timer"; no
  timer message reaches a service (`path_timer`).
- `main.cpp:328`: the io_context is not restarted after it ran out of work; a
  timer set later never fires (a rule of asio); `FiresUnlessStopped` holds until
  then.
- `lualib/api.lua:309`: a call that times out returns `false` and nothing else;
  the comment at `lualib/api.lua:260` announces an error message.

## 6. Not modelled, and the plan

Not modelled:

- the bytes of messages and partial writes, logging, command-line and
  configuration parsing, `core.env`, the registration tables of the Lua API;
- the branches of `onPoll` for sockets and timers, which only pass a message to
  a handler of the script, and that for `HttpClient`, which resumes the coroutine
  `httpCoro` lists;
- the http server, which takes one read for one request, keeps nothing but its
  routes and answers on the tcp server: what it would show is in `Cluster`;
- the command `listen` of the cluster service, and more than one far node: what
  is kept per node is not shared between nodes but for the http clients;
- `close()` of a whole websocket server, which has no caller;
- the database wrappers: blocking calls into client libraries by the one service
  that has the connection;
- the configuration tables: `luaConfig.cpp:105` replaces all of `mConfigs` at
  once and without a lock, so a service that reads while another loads races;
  the tables have no other state to check;
- the hot fix, a walk over upvalues within one Lua state; the console;
- encodings and third-party wrappers, which keep no state.

What is left, in this order:

1. The abstract specification of a connection (Connect, Msg*, Close) that the
   tcp and websocket modules implement as far as their `WellTold` and
   `ConnectFirst` allow, and the proofs that they do.
2. For the liveness properties, the invariants their arguments rest on, as far
   as they are not yet proved: who a thread that waits for a lock waits for.
3. The http server on `TcpServer`, if it ever keeps state between reads.
