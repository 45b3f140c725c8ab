# A TLA+ verification project for Clusterlib

Clusterlib is a C++ library on top of ZooKeeper. Processes of a cluster share a
tree of typed objects (*Notifyables*: applications, groups, nodes, process slots,
queues, property lists, data distributions), cache them, lock them, are called
back when they change, exchange RPCs through distributed queues, and have an
*active node* daemon start and stop their programs. This directory holds TLA+
models of its core logic, TLC configurations that check them, and TLAPS proofs.

## 1. Inventory

| component | state it keeps | operations | interacts with |
|---|---|---|---|
| ZooKeeper adapter (`zkadapter.cc`) | connection state, end state, two event queues, contexts of watches, session handle | connect, reconnect, disconnect, node calls with retries, `sync`, event dispatch | ZooKeeper C client, FactoryOps |
| FactoryOps (`factoryops.cc`) | cache of Notifyables, list of clients, signal maps, timer queue, sync ids, periodic threads, three threads | lookups and creation, `synchronize`, session and watch events, timers, periodic threads | everything |
| cached object handlers (`cachedobjectchangehandlers.cc`) | none of their own | re-read and re-watch a changed znode, produce a user event, signal waiters | event thread, cached data, signal maps |
| signal maps and locks (`signalmap.cc`, `mutex.cc`) | reference-counted condition variables with a sticky predicate | add, wait, signal, remove | locks, queues, RPC, sync |
| distributed locks (`distributedlocks.cc`) | bids in ZooKeeper, owner records per thread, a mutex per Notifyable | acquire (with a deadline), release, hasLock, getInfo | ZooKeeper adapter, signal map, sync |
| Notifyables and their cache (`notifyableimpl.cc`, `registerednotifyableimpl.cc`, `safenotifyablemap.cc`) | state READY/REMOVED, parent, children, reference counts | get/create, remove, lock children, release | FactoryOps, locks |
| cached data (`cached*impl.cc`) | value, version, history | get, set, publish, load | ZooKeeper, event thread |
| distributed queue (`queueimpl.cc`) | sequence nodes in ZooKeeper, one watch and one condition per process | put, take (with a deadline), front, size, clear, removeElement | ZooKeeper, signal map |
| clients and handlers (`clientimpl.cc`) | user event queue, handlers per key and event | register, cancel, dispatch | FactoryOps |
| timers (`event.h`, `factoryops.cc`) | queue of alarms by time, queue of expired timers, registry of payloads, two threads | register, cancel, fire, handle | clients, external event thread |
| data distributions (`cachedshardsimpl.cc`, `shard.cc`, `intervaltree.h`) | shards in a red-black interval tree, hash range, version | insert, remove, clear, publish, load, lookups by range, point and priority | cached data |
| JSON-RPC (`clusterlibrpc.cc`, `jsonrpc*handler.cc`) | request counter, response map, response signal map | send, wait, serve, complete | queues, clients |
| active node (`activenode/`) | per slot: current and desired state, child process | periodic check, process slot update, shutdown | cached state, locks, the operating system |
| ZooKeeper check (`zookeeperperiodiccheck.cc`) | aggregated health of servers | poll servers, publish | cached state, locks |
| JSON codec, key manipulation, hash ranges | - | pure functions | - |
| command line, GUI, unit tests, example | - | presentation | - |

How they interact. A call of a client thread goes straight through FactoryOps to
the ZooKeeper adapter and blocks there. What ZooKeeper reports comes back through
three threads: the C client's thread pushes into the adapter's queue, the
adapter's dispatch thread pushes into FactoryOps' queue, and FactoryOps' external
event thread runs the change handlers, which update the cache, put user events
into the clients' queues and signal threads that wait in a signal map. Each client
has a thread that runs the user's handlers. Two processes interact only through
ZooKeeper.

Hard behaviour: everything above is concurrent; watches are one-shot and can
only be set again after they fired; a reply can be lost after the operation took
effect, and the adapter retries; a session can end under a living process;
deadlines race with the answers they wait for; a thread can die holding bids; a
Notifyable can be removed while others use it. `PROJECT.json` lists the hazards
with the lines where they bite and the properties aimed at them.

Properties that make each part correct:

| component | what must hold |
|---|---|
| distributed locks | exclusion of owner records; locks granted in the order of the bids; no waiter whose wake-up got lost; no bid left behind by a timeout or a failure; every acquire returns |
| distributed queue | an element goes to one taker, in order; the shared condition lives as long as its waiters; a timed take returns; a put wakes a waiting taker |
| cached data and handlers | one watch at a time and never none; the cache never runs ahead of ZooKeeper and reaches its last version; a conditional publish undoes nobody's; what a lock holder reads is the latest version |
| active node | one program per slot; the published pid is the running child; the current state answers the desired one; starts are counted |
| JSON-RPC | a response is there when its waiter is signalled; one answer per request; no element beside an idle handler; the completed queue is bounded |
| Notifyables and their cache | a cached object is watched; a READY object is the cached one; a lock that was taken is held until its holder releases it; a removed object is gone with everything below it |
| adapter, session, clients | `synchronize` returns, after all that came before; no thread closes the session of another; the end event is the last a client gets; the destructor comes to its end |
| timers | a timer fires at most once, not before its time and not after a successful cancel; no payload is used after it was freed; no alarm is slept over |
| data distributions | the tree is balanced and sorted; it holds exactly the bag of shards the client edited; lookups give the shards that cover a point |

## 2. Modules

    AbstractLock   <---refines---  DistLock     <--EXTENDS-- MCDistLock, DistLockProofs
    AbstractQueue  <---refines---  DistQueue    <--EXTENDS-- MCDistQueue, DistQueueProofs
        ^ <---refines (its two queues: QueuesAreQueues)
        +------------------------  Rpc          <--EXTENDS-- MCRpc, RpcProofs
    AbstractTimers <---refines---  Timers       <--EXTENDS-- MCTimers, TimersProofs
    AbstractShards <---refines---  CachedShards <--EXTENDS-- MCCachedShards
                                     | EXTENDS
                                   IntervalTree
    Session (its promise is the marker of CachedState and Lifecycle) <-- MCSession, SessionProofs
    DistLock (its promise is `owner` of CachedState)  -> CachedState <-- MCCachedState, CachedStateProofs
    DistLock (its promise is `lock` of Lifecycle)     -> Lifecycle   <-- MCLifecycle, LifecycleProofs
        (both are proved to refine AbstractLock, too: OwnerIsLock, ParentIsLocked)
    CachedState (its promise is Begin of ProcessSlot) -> ProcessSlot <-- MCProcessSlot, ProcessSlotProofs

Each component is modelled in detail once; a component above it uses what was
checked of the one below. An arrow "its promise is" means that the upper module
has an atomic step where the lower one has a protocol, and that a run of the lower
module justifies the step: `DistLock` implements `AbstractLock`, so `CachedState`
has a variable `owner` and `Lifecycle` a variable `lock`; `CachedState` has
`LockedSeesLatest`, so the updater in
`ProcessSlot` copies the published desired state when it begins; `DistQueue`
implements `AbstractQueue`, so `Rpc` has sequences with atomic put and take
(a put may happen twice and a take may lose, after a lost reply). These three arrows are
proved at both ends: the lower module refines the abstract specification, and what the
upper one does with its variable is a behaviour of it (`OwnerIsLock`, `ParentIsLocked`,
`QueuesAreQueues`). The other two rest on the property of the lower module: `Session` has
`SyncSeesChanges`, so `CachedState` and `Lifecycle` put a marker into one queue.

In every module an action is the code between two points where somebody else can
interfere: a call to ZooKeeper, the taking or releasing of a mutex, a wait. Local
variables that live across such a point are fields of `call`, `mine` or `work`;
`pc` names the point.

### DistLock: `distributedlocks.cc`, owner records of `notifyableimpl.cc`

State. `bids[l]` are the ephemeral sequence nodes below the lock node, `nextSeq[l]`
ZooKeeper's counter for them, `watches` and `events` the exists-watches and what
became of them, `mutex[p]` the owner of `m_syncDistLock`, `held[t][l]` the entry of
`m_nameThreadLockMap`, `call[t]` the locals of `acquireWaitUsecs`, `proc[p]` the
process: up, expired (the session ended and the process does not know), crashed
(the process ended and ZooKeeper does not know) or gone.

| action | code |
|---|---|
| `CallAcquire`, `Enter`, `Reenter`, `ReenterFails` | the call, its mutex, and the owner record found at the start |
| `CreateBid`, `CreateBidFails` | `createNode` of the bid under `RetryHandler`; a lost reply makes two bids, a failure throws |
| `ScanOwns`, `ScanWaits`, `ScanThrows` | one round of the loop: children, the bids that precede, the two outcomes, the own bid missing |
| `WatchPred`, `WakeUp`, `DeadlinePasses`, `GiveUp` | exists with a watch on the preceding bid, the wait, its two ends, the withdrawal of the bid |
| `SyncReturns`, `ReadFails` | the `synchronize` a granted lock ends with; a read that throws |
| `Release`, `DeleteBid` | `release`: the count, and at zero the deletion of the bid |
| `CallHasLock`, `HasLock` | `hasLock`, which takes the mutex and looks at the owner record |
| `DeliverDeleted` | the event thread: signal of the waiter through the signal map |
| `Crash`, `SessionEnds`, `StartRemoval`, `RemoveBid`, `FinishRemoval` | the environment: processes, ZooKeeper, and a remover of the Notifyable |

### DistQueue: `queueimpl.cc`, `handleQueueChildChange`

`elements` are the children, `watch[p]` says where the one-shot watch of a process
is (armed, fired, signalled: the handler is between its signal and the new watch;
dead: setting it threw and ended the event thread), `cond[p]` is the
`PredMutexCond` the takers of a process share with its reference count and its
sticky predicate. A take lists (`List`), reads the data (`Fetch`), deletes (`Delete`,
`DeleteReplyLost`), and when the queue is empty enrolls, lists again, waits and
leaves (`Enroll`, `Recheck`, `Wait`, `Awake`, `Woken`, `Leave`, `GiveUp`). `Signal` and
`SetWatch` are the two halves of the handler. `CallOther` with `FinishFront`,
`DeleteSeen`, `DeleteSeenFails` are front, clear and removeElement.

### CachedState: `cachedstateimpl.cc`, `cacheddataimpl.cc`, the change handler, `synchronize`

`log` is what ZooKeeper's leader has, `view[p]` how far the server of process p has
applied it, `queue[p]` the events on their way to the event thread, markers of
synchronize among them, `ready[p]` the count that tells whether a watch is set or
its event under way, `cache[p]` the value with its version and history. `SetKey`,
`Publish`, `Reset` are the operations; `HandleChange` and `FinishChange` the two
steps of the handler: it clears the count, and later, in `Load`, reads and sets the
watch again unless `Reset` did so in between. `Acquire`, `SyncCompletes`, `Inject`,
`HandleSync` are the end of an `acquireLock`: the sync of ZooKeeper completes, its
completion is put into the event queue, and the thread waits until the event
thread comes to it. `BeginUnlocked` is a user without the lock. `program`, chosen at
the start from the constant `Programs` and never changed, says which threads lock and
whether publishes may be unconditional.

### Lifecycle: `getNotifyableWaitMsecs`, `remove`, `handleNotifyableRemovedChange`

One Notifyable below a parent that stays. `nodes` are its znodes (the key and, for all
below it, one state), `watch[p]` ZooKeeper's one-shot watches of process p, `ready[p]`
the `m_handlerKeyCallbackCount` entries, `queue[p]` events and markers on their way to
the event thread and `handling[p]` the event it is at, `objects[p]` every
`NotifyableImpl` the process made with its state, `cache[p]` the `SafeNotifyableMap`,
`lock[t]` what a thread holds of the parent's CHILD_LOCK, `handle[t]` the last object it
got. `age` counts removals and `born` says under which of them an object was loaded;
`outrun` is history, too, see below.

An event is that of the creation, the publish or the deletion of a znode (`Event`), for the
exists-watches of `registerednotifyableimpl.cc:64-72` fire for all three. They fire once, and
only the event thread sets them again, when it comes to the event and it is no deletion
(`Rearm`). A process that has not come to its event of a znode is `Behind` and may have no
watch there; the processes that are behind with every znode when a removal takes it are
`outrun`.

| action | code |
|---|---|
| `Get`, `GetLock`, `Load`, `Create`, `Insert`, `InitializeFails`, `Unlock` | `getNotifyableWaitMsecs` from the look into the cache to the release |
| `Remove`, `LockParent`, `LockSelf`, `Uncache`, `RemovedMeanwhile`, `Delete`, `DeleteKey`, `Release` | `remove(false)` |
| `QueueMarker`, `TakeMarker` | `synchronize`, at the end of an acquisition and of `remove` |
| `LookUp`, `Unset`, `RemoveFound`, `Rearm` | `updateCachedObject` (the cache is read before the handler runs) and the three steps of the handler |
| `AcquireNew`, `Reenter`, `ReenterFails`, `Released` | what every acquisition and release does with the parent's lock |
| `Publish`, `SetNodeData` | `publish` of the state: the check of the object, and the write, which needs no lock and may fail |
| `UserAcquire`, `UserRelease` | `acquireLock` and `releaseLock` of the parent by a client |
| `CallThrows`, `Crash` | a ZooKeeper call that throws, the end of a process and its next start |

### ProcessSlot: `processslotupdater.cc`, `activenode.cc`, command line and GUI

`desired` and `current` are the published states, `seen` and `work` the copies the
updater works on, `procs` the child processes in the order they were forked.
`Begin`, `DecideFails`, `DecideNone`, `DecideKill`, `DecideStart`, `Publish` are
`run()` and `determineAction`; `Refresh` the event thread that replaces the cached
desired state in the middle of it; `Restart` the end of the daemon and its next
start, which removes the old slot; `ProgramEnds` the operating system;
`ManageProcessSlot`, `Configure`, `GuiStart`, `GuiStop` the users.

### Rpc: `clusterlibrpc.cc`, `jsonrpcmethodhandler.cc`, `jsonrpcresponsehandler.cc`

`inbox` are the two queues, `completed` the size of the completed queue, `watch[h]`,
`event[h]` and `initial[h]` what brings a handler to run: the queue's watch, the user
events made of it and the run at registration. `SendRequest` to `Collect` are the
caller; `QueueEvent`, `Rewatch` the event thread; `Check`, `InitialRun`,
`HandleUserEvent`, `Take`, `TakeWaits`, `WaitEnds` the dispatch and the take of both
handlers; `RecordAndReturn`, `InvokeThrows`, `Respond`, `NoResponseQueue`, `Record`, `Trim`, `DropCompleted`, `Finish` the
method handler; `SetIdResponse` and `SignalResponse` the response handler;
`entry[r]` is the reference-counted condition in the response signal map.

### Session: `zkadapter.cc`, the threads, clients and destructor of `factoryops.cc`, `clientimpl.cc`

`session` is what ZooKeeper holds of the current handle, `state` the adapter's `m_state`
and `stateOwner` a thread that has thrown with `m_stateLock` in its hands; `events` and
`external` are the two queues an event passes, `adapter` and `dispatcher` the threads
that move it on; `caller[t]` is where a thread is in `synchronize()`, `client[c]` a
client's thread and queue, `clientsLock` the lock of `m_clients`, `factory` where the
constructor or `~FactoryOps` is.

| action | code |
|---|---|
| `Connect`, `Lose`, `Expire`, `Change` | what ZooKeeper's threads give to `zkWatcher` and `enqueueEvent` |
| `Synchronize`, `Verify`, `Awake`, `TimeOut`, `Ask`, `Answer`, `PutSync`, `Return` | `synchronize`, `verifyConnection` with `reconnect` and `waitUntilConnected`, `sync` with `waitCompletion` and its own event |
| `Process` | `processEvents`: the state of the adapter, the event on to the listeners, the end of the thread |
| `DispatchSession`, `DispatchSync`, `DispatchChange`, `DispatchEnd` | `dispatchExternalEvents` and what it calls for each event |
| `CreateClient`, `AddClient`, `RemoveClient`, `Removed` | `createClient` (the check of `m_connected` and the insertion are two steps), `removeClient` with the join in `~ClientImpl` |
| `Look`, `NoEvent`, `TakeEvent`, `Handled` | `consumeUserEvents`; a handler may call `synchronize` |
| `InjectEndEvent`, `WaitForThreads`, `DiscardClient`, `Discarded`, `Disconnect`, `Deleted` | `~FactoryOps` and `~ZooKeeperAdapter` |

### Timers: class `Timer` of `event.h`, the timers of `factoryops.cc`

An alarm goes from `alarms` (sorted, `Timer::m_queue`) through `external` (the external
events) to `expired` (`m_timerEventQueue`); `worker`, the external event thread and
`handler` take it from place to place. `payload[i]` is the `TimerEventPayload` with its
cancelled flag and whether it knows its id, `registry` the map from ids to payloads;
`user[u]` is a thread inside `registerTimer` or `cancelTimer`, which has the timers lock.
`Schedule` and `Register` are `registerTimer` (the alarm may fire in between), `Mark` and
`CancelAlarm` are `cancelTimer`, `Sleep`, `Wake`, `Pop`, `Fire` a round of `sendAlarms`,
`Dispatch`, `EndArrives`, `DispatchEnd` the external event thread, `Take`, `Check`, `Run`,
`Free` a round of `consumeTimerEvents`. `AbstractTimers` is what `client.h` promises.

### IntervalTree and CachedShards: `intervaltree.h`, `cachedshardsimpl.cc`, `shard.cc`

`IntervalTree` has the red-black tree as a value: a function from nodes to records with
color, parent, children, range and maximum, and the code's operations on it as operators
(`insertNode` with its fix-up, `deleteNode` that copies the successor, the rotations, the
correction of the maxima up to the ancestor that does not change, the two searches,
`checkTree`). `CachedShards` keeps what one process has of a data distribution, `tree` or
the array `unknown` with `count`, `range` and the `version` it was read or written at, and
`repo`, what is published; `edited` and `copied` are history. Its actions are `insert`,
`remove`, `clear`, `publish`, `load`, and `Foreign`, the publish of another process. Shards
of different priorities and Notifyables, shards inside others, equal shards, and a hash
range the process has not registered are among its inputs. `AbstractShards` is a bag of
shards.

## 3. Runs

`tlc -config X.cfg M`; a state count is that of distinct states. Every bound is a
CONSTANT of the module, named and commented there.

| run (`cfg`) | instance | what it shows |
|---|---|---|
| `dist_lock` | 3 threads in 2 processes, one lock, 3 calls, 1 lost reply, 1 expired session; threads of a process symmetric; 220,000 states | owner records stay exclusive (`MutualExclusion`) and in the order of the bids (`GrantedInBidOrder`); `NoLostWakeup`; `NoOrphanBid` |
| `dist_lock_nested` | 2 threads in 2 processes, re-entrant calls, deadlines, 1 crash, removal of the Notifyable; 200,000 | the recipe implements `AbstractLock`; every `acquireLock` returns |
| `dist_queue` | 2 threads of one process, 2 puts, 2 takes with and without deadline, 1 other call, 1 lost reply; 282,000 | `DistQueue` implements `AbstractQueue`; `CondCountsWaiters`; timed takes return |
| `cached_state` | 3 threads in 2 processes, history of 2, 3 uses, 2 sets, 1 reset, 1 lost reply; one thread locks and all publish conditionally, or all lock and may publish unconditionally; 941,000 | `ReadyTracksWatch`, `NoLostUpdate`, `LockedSeesLatest`; caches converge |
| `lifecycle` | 3 threads in 2 processes, 4 calls of get, publish, remove and acquireLock, or 3 and a crash, and with a failing call one more; the Notifyable there at first or not; threads of a process symmetric; 1,943,000 | `OneObject`, `RemovalArrives`, `RemoverAlone` |
| `process_slot` | 4 edits, one of them the GUI's, 2 exits, 1 failure, 1 restart, MAX_STARTS none or 2; 815,000 | `OneProgram`, `CurrentAnswersDesired`; `StartsAsAsked` and `FollowsDesired`: the count of starts, and that programs are started again and daemons end |
| `rpc` | 1 request, 2 servers, 1 failure of any kind, completed queue of 1; 2,330,000, servers symmetric | `ResponseBeforeSignal`, `NoStrandedElement`, `OneRequestOneAnswer` |
| `rpc_live` | 1 request, 1 server, 1 failure; 37,000 | `Answered`: requests are served, and an untimed wait ends unless something failed |
| `shards` | ranges over points 0 to 4, 4 kinds of shard, up to 6 in the tree, 1 publish here and 1 elsewhere, hash range registered or not; 51,600 | `TreeSound`, `LookupsAnswer`, `UpToDateIsRepository`; `RemovesThatShard`; `CachedShards` implements `AbstractShards` |
| `interval_search` | up to 7 shards, no publishes | violated: see 6 |
| `timers` | 2 threads, 2 timers, 2 cancels, 3 instants, two delays; 148,000 | `TimersAccounted`, `PromptAlarms`; `Timers` implements `AbstractTimers`; timers run |
| `session` | 1 thread of the program, 1 client whose handlers synchronize, too, 2 calls of `synchronize`, 2 changes, 2 lost connections or sessions, 1 wait that times out; 568,000 | `SyncSeesChanges`, `AdapterKnowsSession`, `EndIsLast`; the destructor ends, `synchronize` returns |

Why the bounds are enough. *Locks*: a waiter is disturbed by the bid it waits for,
by a third bid that comes or goes in between, and by the thread that shares its
mutex; three threads in two processes give all three, and one lost reply gives the
duplicate bid. The liveness run has two threads in different processes: each waiter
waits for one predecessor only; with a second thread of the same process that waits for
the mutex the code does hang (see 6). *Queue*: the shared condition is a matter of one process; two
takers, of which one consumes the signal the other needs, and two elements, of
which one may be lost, are the smallest instance of each hazard. *Cached state*: a
conflict needs a writer elsewhere (two processes), a second thread over the same
cache (two threads in one), and an event that arrives between set and publish; the
third use lets a writer go on after a conflict. *Lifecycle*: two loaders over one cache
need two threads in a process, a removal that must reach another cache the second
process; four calls are a load in each process, a removal by one and a creation by the
other: the shortest chain in which an event of the first Notifyable can meet an object of
the second. Four calls are also a creation, a load elsewhere, a publish and a removal, by
which a process is outrun: without the disjunct `p \in outrun` the run violates
`RemovalArrives` (see 6). A fifth call is needed for a thread that keeps the lock of the parent while its
removal fails half way, creates the Notifyable again and removes it: then its event thread is
faster (`RemovedMeanwhile`); `Budget` allows it after a failing call only, and the theorems
cover the rest. `RemovalOnItsWay` and the wholeness in `RemoverAlone` are stated for
behaviours without failures and crashes (`Undisturbed`), since both can leave a Notifyable
half made: after a crash between the znodes of a creation, who loads it watches a state that
is not there, and the watch is used up by the event of its creation. Until the handler has
set it again, the process caches the object and watches nothing: a removal by another process
in between goes unseen.
`RemovedInTime` needs only that no call failed, `EventThreadLives` and the rest of
`RemoverAlone` hold whatever fails. *Process slot*: edits of four kinds in a
row reach start, change, stop, start; two exits distinguish "once" from
"continuously" and reach a MAX_STARTS of 2. *Rpc*: two servers compete for one
element and trim one queue; the fault is a lost reply, an exception or a dead server
in any place. One request is enough for the orders between caller, server and
response handler, since requests meet only in the queue and in the completed
queue; the price is that two requests of one caller are not interleaved. *Shards*: six nodes
reach every case of both fix-ups and a delete whose successor is two levels down; seven
are needed for a maximum that goes wrong where a search meets it. *Timers*: two timers at
equal and at different times, each user inside a call while the other timer is fired; the
smallest instance in which a cancel meets every place of an alarm's way. *Session*: two
faults are a lost connection and its expiry; one client and one thread give the two kinds
of callers, and two calls of `synchronize` that overlap.

An invariant that is named by several parts (`RemovalArrives`, `OneProgram`, `TreeSound`,
`TimersAccounted`, `LookupsAnswer`) is their conjunction, and the first invariant of a run
contains the module's `TypeOK`.

Deadlock checking is off in every run because a behaviour ends when its bounds are
spent. Symmetry is used only for invariants.

## 4. Fairness

- `DistLock!Fairness`: a thread in a call goes on, a holder releases (acquireLock
  promises nothing against one that does not), a watch event is delivered, and
  ZooKeeper times out the session of a crashed process. Nothing forces a process
  to crash or to lose its session. `DeadlinePasses` is part of `Step`: time passes.
- `DistQueue!Fairness`: threads and event threads are scheduled, deadlines pass, and a
  wait past its deadline ends. No fairness for the waking of an untimed waiter:
  `pthread_cond_wait` returns when it is signalled, `Awake` is enabled then, and whether
  a signalled waiter is served first is not promised.
- `CachedState!FairSpec`: the event thread of each process handles what is in its queue.
- `ProcessSlot!FairSpec`: the updater runs again (every two seconds, `activenode.cc:37`)
  and a program that was sent SIGKILL ends. Nothing makes a program end by itself.
- `Rpc!FairSpec`: waits, event threads, client threads, servers and the response
  handler are scheduled. Their steps stay disabled after they died of an exception.
- `Timers!Fairness`: the clock goes on, the worker, the external event thread and the
  handler thread are scheduled, and a user inside a call leaves it. `Free` is strongly fair:
  it needs the timers lock, which others take again and again, and a mutex that is free
  infinitely often is got. Nobody has to register or cancel anything.
- `Session!Fairness`: ZooKeeper connects and answers, all threads are scheduled, a join
  ends with its thread and a lock that is free is taken; weak fairness only. Nothing forces
  a fault, a change, a call, a client or the destructor.

## 5. Proofs

`DistLockProofs` proves about `DistLock`, for any threads, processes, lock names and
bounds that satisfy `DistLockAssumption` (every process assignment is a function,
`NoThread` is nobody, bounds are naturals, there is a lock name):

| theorem | statement |
|---|---|
| `TypeCorrect` | `Spec => []TypeOK` |
| `BidOrderCorrect` | `Spec => []GrantedInBidOrder` |
| `MutualExclusionCorrect` | `Spec => []MutualExclusion` |
| `NoLostWakeupCorrect` | `Spec => []NoLostWakeup` |
| `NoOrphanBidCorrect` | `Spec => []NoOrphanBid` |
| `LockRefines` | `Spec => ImplementsAbstractLock` |

`MutualExclusion` is not inductive: it says nothing of the bids the decisions are
made from. It follows from `GrantedInBidOrder`, by comparing the numbers of the two
owners' bids: the younger one would have an older conflicting bid before it. That in
turn needs that numbers are unique and below ZooKeeper's counter (`SeqInv`), that the
bid a call remembers is its own and of the type it asked for while the call lasts, and
that it does not hold the lock yet (`CallInv`), and that an owner record's number is the
number of a bid of that thread or of none (`HeldInv`). `IInv` is the conjunction;
`IInvInit` and `IInvStep` show it inductive. The argument of the step: a step takes bids
away or adds younger ones (`FreshBids`), so no old owner gets an older bid before it
(`OrderKept`); the actions of another thread leave what is said of a thread alone
(`OthersUntouched`, `UntouchedKeeps`); a thread's own action is looked at case by case
(`OwnStep`, `GrantedStep`). `NoLostWakeup` is inductive with `TypeOK`: `WatchKept`
says that the removal of a watched bid makes its event.

`NoOrphanBid` needs to know which number a thread has in mind where (`PhaseInv`): none
before it has created a bid and none between two calls, that of its owner record while it
synchronizes, and no number in the record of a lock it does not hold. With it, each step of
the owner either keeps a bid in the call, passes it from the call to the owner record
(`ScanOwns`) or back (`Release`), or deletes it (`OwnBidStep`); without a failed call only
`CreateBid` adds one (`FaultlessBids`); and the "impossible" branch of the scan is not
reached with a bid at hand, since a second bid of the thread would itself be an orphan. For
the refinement, `ScanOwns`, `Reenter` and `Release` of a connected thread are the three
operations of `AbstractLock`, a crash or a lost session is its `Forget`, the removal of the
Notifyable its `Void`, and every other step a stutter; that the grant is compatible with the
other owners is `MutualExclusion` in the next state (`IInvExcludes`).

`TimersProofs` proves about `Timers`, for any users, delays and bounds that satisfy
`TimersAssumption` (delays and bounds are naturals):

| theorem | statement |
|---|---|
| `TypeCorrect` | `Spec => []TypeOK` |
| `TimersAccountedFor` | `Spec => []TimersAccounted` |
| `NoOversleeping` | `Spec => []PromptAlarms` |
| `TimersRefine` | `Spec => ImplementsAbstractTimers` |

The inductive invariant adds to these properties: who has the timers lock (`LockHeld`: at
most one user is inside a call), that only ids given out are in any place (`IdsInUse`),
that a timer that ran is past `Check` (`RunsOnce`: it has run at most once, and only if it
is freed or in the handler's hand), that an alarm that has left `alarms` is due
(`DueInFlight`), and that the end event comes once (`EndOnce`). `TimersAccounted` needs
them: a cancel that returns true has found the alarm in `alarms`, and by `OnePlace` it is
nowhere else, so nobody runs it; `Free` under the lock cannot come between `Mark` and
`CancelAlarm` by `LockHeld`, so the payload a canceller has marked is there until it leaves.
The lemmas about `InsertAlarm` and `EraseAlarm` say what the two do to the set of the
alarms, to their being distinct and to their order, without induction. For the refinement
every step is looked at: `Schedule` sets a timer, `CancelAlarm` cancels one, `Run` runs one
whose time has come, `Tick` is the clock, and every other step is a stutter.

`CachedStateProofs` proves about `CachedState`, for any threads, processes, programs and
bounds that satisfy `CachedStateAssumption` (every thread has a process, no thread is the
change event):

| theorem | statement |
|---|---|
| `FlagIsRight` | `Spec => []ReadyTracksWatch` |
| `UpdatesKept` | `Spec => []NoLostUpdate` |
| `OwnerSeesLatest` | `ASSUME MaxBadSyncs = 0 PROVE Spec => []LockedSeesLatest` |
| `StaleIsOnItsWay` | `Spec => []BehindIsUnderWay`: a cache is behind only while the server is, or while a change event is queued or being handled |
| `NothingGoesBack` | `Spec => [][Forward]_vars`: a version stays as it was written, no server and no cache goes back to an older one |
| `LockedUpdatesAreSerial` | `ASSUME MaxBadSyncs = 0 PROVE Spec => [][SerialUpdate]_vars`: while all lock and no reply is lost, a publish adds one version to the last one, and nothing else writes |
| `OwnerIsLock` | `Spec => OwnerLock!Spec`, the specification of `AbstractLock` for `owner` |

The first two are inductive together with `SeenIsWritten` (no server is ahead of the
leader); this is `IInv`. A conditional write finds `cache[p].ver = Latest`, so by
`CacheExtendsVersion` it writes on top of the last version (`LogStep`). The third needs the
path from the server to the cache. A set watch means that the process has cached what its
server has (`WatchedIsCached`), and the flag is unset only inside the handler
(`UnreadyIsHandled`). A thread's marker is in the queue of its process once, while the thread
waits (`Markers`), and every change event of that process is before it (`MarkerLast`), since
the server had applied everything when the sync completed (`OwnerSynced`) and nobody else
writes while the thread has the lock (`OwnerOnly`). So when the event thread takes the marker
(`LatestStep`, step `HandleSync`) there is no change event left, by `ReadyTracksWatch` the
watch is set, by `WatchedIsCached` the cache is what the server has, and that is the latest
version. `MaxBadSyncs = 0` is needed: with a sync that failed unnoticed the property is
violated (section 6).

`StaleIsOnItsWay` is the part of `CachesConverge` that is safety, and needs no assumption: a
cache at which nothing is under way has its flag set (`UnreadyIsHandled`), so its watch
(`ReadyTracksWatch`), so what its server has (`WatchedIsCached`), and that is the last
version. `WInv` is the conjunction, inductive with faults and failed syncs. `NothingGoesBack`
looks at every action: a load takes the cache to `view`, which is not behind it
(`CacheExtendsVersion`), and a write only appends to the log. `LockedUpdatesAreSerial` is
`LInv` used for a step: the publisher is the owner, its cache is at the last version and its
copy that version with its own sets, so the conditional write succeeds on top of it
(`PublishIsSerial`), and no other step touches the log (`OthersWriteNothing`). For
`OwnerIsLock` the record of `owner` is viewed as an owner record of `AbstractLock`; `Acquire`
and `Release` are its operations, every other step a stutter.

`DistQueueProofs` proves about `DistQueue`, for any threads, processes and bounds that
satisfy `DistQueueAssumption` (every thread has a process, bounds are naturals; the threads
may be infinitely many):

| theorem | statement |
|---|---|
| `RefsCountWaiters` | `Spec => []CondCountsWaiters` |
| `QueueRefines` | `Spec => ImplementsAbstractQueue` |
| `ElementsAccounted` | `Spec => []Accounted`: no element is handed out twice, or handed out and removed; what is left is younger than all that was taken; without a lost reply each is in the queue, taken or removed |

The inductive invariant is `TypeOK`, that ZooKeeper's counter is above every element
(`Bounded`), that what a call has seen is true while it acts on it (`SeenInv`: the element
a take goes for was the oldest one, and no older one can come after it), and that the
references of a process's condition are its waiters (`Counted`). The set of waiters is
finite because it starts empty and changes by one thread at a time. A take that deletes its
element deletes the least one: an older one would have been in the list it looked at. That
there is a least one at all follows from the well-foundedness of the naturals
(`FirstIsLeast`). For the refinement, `Put`, `Delete` and `DeleteSeen` are the operations of
`AbstractQueue`, a call whose reply is lost is its `Lose` or `LoseReply` (a put then adds two
elements), and every other step is a stutter. `ElementsAccounted` is proved from the steps of
`AbstractQueue` alone and carried over by this refinement (`RefinementStep`): a reader of
`queue.h` gets from it what the abstract queue means for the history of the elements.

`ProcessSlotProofs` proves about `ProcessSlot`, for any limits and bounds that satisfy
`ProcessSlotAssumption` (a limit on the starts is `Unlimited` or a natural that the model
counts to):

| theorem | statement |
|---|---|
| `OneProgramCorrect` | `Spec => []OneProgram` |
| `StartsAreAsked` | `Spec => StartsAsAsked` |
| `CurrentStateAnswers` | `Spec => []CurrentAnswersDesired` |

`OneProgram` speaks of the published state between two `run()`s. Its strengthening `RunInv`
says the same of the copy the updater works with inside `run()`, and that what runs before
the decision is `oldPid`, so that the kill before a start reaches it. `StartsAsAsked` needs two
more invariants. `LimitInv`: the counted starts are at least the starts there were, in the
published state between two `run()`s and in the copy within. `OnceInv`: a user's publish
has a stamp of its own (`StampInv`), so whatever was started with the stamp of the present
desired state was started by an updater that had seen it; a program of that desired state
that has returned is the one the current state tells of, or has been waited for
(`TellsOf`); and the current state came from that desired state (`CameFrom`). So
`determineAction` finds the current state satisfied (`ReturnedSatisfies`). The publishes of
users without the lock are covered: `SeenOnce` says what the updater saw is still true of
a desired state to run once that nobody has replaced.

`CurrentAnswersDesired` is stated for users who take the lock, as those who do not replace the
desired state behind the updater's back. `AnswerInv` carries it through `run()`: what the
updater has seen is what is published, the copy it is about to publish answers what it has
seen, and no time in either state is later than the last publish. So a new desired state has
a time that the current state cannot name yet, and the decision that names it makes one of the
outcomes (`DecideAnswers`).

`RpcProofs` proves about `Rpc`, for any requests, servers and bounds that satisfy
`RpcAssumption` (the client's handler is not a server, no request is `NoWork`, bounds are
naturals, `MaxCompleted` may be -1; the servers may be infinitely many):

| theorem | statement |
|---|---|
| `ResponseIsThere` | `Spec => []ResponseBeforeSignal` |
| `NothingIsStranded` | `Spec => []NoStrandedElement` |
| `OneAnswer` | `Spec => []OneRequestOneAnswer` |
| `QueuesAreQueues` | `ASSUME NEW q \in Inboxes PROVE HSpec => Queue(q)!Spec`, the specification of `AbstractQueue` for the queue `q` |

All three rest on `TypeOK` and `WorkInv` (what a handler works on is a request).
`ResponseIsThere`: a wait that was told, is awake or collects finds the response, and who
collects has left the signal map (`ToldInv`); the response that is signalled next is stored,
or was collected by a caller that is no longer in the map (`SignalInv`). So the second
signal of a repeated response tells nobody. `NothingIsStranded`: beside a queue with an
element, a handler that is not taking has its initial run, a watch that fired, the read of
the handler's children or a queued event before it, and only a dead process has lost its
watch (`PendingInv`). `OneAnswer` is a counting argument: each of the places a request or a
response can be in (the two queues, the hands of the handlers, the completed queue and those
that are trimming it, the caller) has a number of copies, `Total(r)` is their sum, and a step that
moves a copy takes from one summand what it adds to another (`OnePlace`). The positions of a
request in a queue are counted through a bijection with those in the tail or before the
append (`PlacesTail`, `PlacesAppend`). The bound on the completed queue counts those that
have appended and not yet trimmed (`BoundInv`).

`QueuesAreQueues` needs history variables, since a sequence of requests forgets what left it:
`gone` counts the elements that have left a queue, `handed` has the numbers of those each
handler got. `HSpec` is `Spec` with the two (`HistoryIsHistory`: they restrict nothing; each is
determined by the step). An element has the number of its put, so a queue is the interval
of the numbers from `gone` on, a put extends it at its end (`EndGrows`) and a take removes its
least (`FrontLeaves`). `StepKinds` sorts every step of `Rpc` into those that leave the queue
alone, add one element or with a lost reply two, take the first, or lose it.

`SessionProofs` proves about `Session`, for any threads, clients and bounds that satisfy
`SessionAssumption` (no thread is `NoThread`, no client is a user, bounds are naturals):

| theorem | statement |
|---|---|
| `SyncIsBehindChanges` | `Spec => []SyncSeesChanges` |
| `SessionIsKnown` | `Spec => []AdapterKnowsSession` |
| `EndEventIsLast` | `Spec => []EndIsLast` |
| `AnswersAreUnderWay` | `Spec => []AnswerUnderWay`: the event that a waiting `synchronize` needs is in one of the two queues |
| `EndsAreUnderWay` | `Spec => []EndUnderWay`: while `~FactoryOps` waits for a thread, that has ended or has the end event before it |

`SyncIsBehindChanges` counts the changes on their way: those that were handled, those in the
queue of external events and those in the adapter's are together all that ZooKeeper has told
of (`TotalInv`). So when a call puts its event at the end of the adapter's queue, the changes
it was told of are handled or before its event (`SeenInv`), and each of the two threads takes
from the front of one queue and puts at the end of the next, which leaves the sum of what is
before the event as it was (`CountAppend`, `CountTail`). That the event is found by nobody
else, and by the call only once it was put, needs that ids are given once (`IdInv`).
`SessionIsKnown` needs that a session's end is told of once (`ExpiredInv`), that the last event
of a connected session is its connection (`ConnectedInv`), and that nobody reconnects after
`disconnect` (`NobodyCalls`): a handler still in `synchronize` belongs to a client that is in
`m_clients`, or that a thread is removing with the clients lock (`RemoverInv`, `CallInv`), and
`~FactoryOps` waits for both. `EndEventIsLast`: an end event in a client's queue or hand means
that the external event thread has ended (`EndInv`), and only the clients in `m_clients`
are sent events.

The last two are the parts of `SyncReturns` and `ShutdownCompletes` that are safety: what is
waited for is on its way, so only a thread that has ended or stands still can keep it from
coming. Both rest on `QueueSteps`, what a step does to the two queues: it leaves them, adds one
event to the adapter's, moves the first of the adapter's to the other one, or takes the first
of that. `AnswersAreUnderWay` needs `IdInv` again: the event that is taken wakes the call it
belongs to, and nobody else waits for its id. `EndsAreUnderWay` has to say more than it wants
(`EndsInv`): no end event is in the adapter's queue before the destructor, so an expired
session, which ends the external event thread, leaves the adapter's own thread to be ended.

`LifecycleProofs` proves about `Lifecycle`, for any threads, processes and bounds that
satisfy `LifecycleAssumption` (every thread has a process, bounds are naturals) and
`ThreadsAreNoEvents` (a marker in a queue is not an event):

| theorem | statement |
|---|---|
| `OneObjectCorrect` | `Spec => []OneObject` |
| `RemoverIsAlone` | `Spec => []RemoverAlone` |
| `RemovalsArrive` | `Spec => []RemovalArrives` |
| `OwnersHaveHeard` | who holds the lock and has synchronized has no deletion on its way to its process, unless a call failed |
| `WatchesAccountedFor` | `Spec => []WatchInv` |
| `ParentIsLocked` | `Spec => ParentLock!Spec`, the specification of `AbstractLock` for the one lock of the parent |

All follow from one inductive invariant, the last from its types alone:
`LifecycleInv`, whose parts each have a section and a
lemma `Step...` that says under which other parts it is kept. They build on each other:

- `ObjectInv`: the live object of a process is the cached one. `removeCachedNotifyable` marks
  the object that the remover has got, so `RemoverHasIt` says that whoever is removing has
  got one, through both waits in `synchronize`, where the place it goes on at is a local of
  the call. A step leaves the objects, adds one to an empty cache, or removes the live one
  (`SameObjects`, `AddedObject`, `DroppedObject`).
- `MarkInv`: a marker in a queue is that of a thread of the process that waits for it, and is
  there once. So the event thread never sends a thread on that is elsewhere.
- `PlaceInv`: who loads, makes or inserts holds the parent's lock, who makes or removes
  holds it exclusively, and an exclusive holder is alone (`LockInv`). `Place` is where a
  thread is, or goes on after `synchronize`. From this, with `ShapeInv`, comes `RemoverAlone`.
- `ShapeInv`, while nobody failed or died: half of the znodes are there only while a thread
  makes or deletes the rest, and what a thread knows of them from its last call is still true,
  since only an exclusive holder changes them.
- `WatchInv`: a znode that counts as watched is watched, or has one event on its way. So
  `unsetHandlerCallbackReady` does not throw.
- `ClearInv`: who holds the lock, and has synchronized, has no deletion on its way to its
  process. It deleted nothing itself, others could not, and every deletion before the lock was
  got is before the marker. A thread whose call threw keeps the lock without having heard,
  hence `faults = 0`; but who is about to remove its object has synchronized once more, for
  the lock of the Notifyable itself, and `ClearInv` holds of it whatever failed before.
- `HandlerInv`: the object that the handler of a deletion has found is the cached one. The
  event thread looks it up before it removes it, and `uncache` may come in between: it does
  not, by `ClearInv` at "uncache", and an insertion meets an empty cache. So
  `removeCachedNotifyable` does not throw in the event thread.
- `TimeInv`: where a deletion is to come, the cached object was loaded before the removal began
  (`Doomed`); a load that comes later has heard of it by `ClearInv`. Hence `RemovedInTime`.
- `ArriveInv`, while nobody failed or died: a deletion that takes the cached object is on its
  way, or both znodes are guarded, and either the state is still there or the process was
  outrun (`Coming`). A znode is guarded when it is watched, or an event of it that is no
  deletion is on its way, after which the handler watches it again (`Guarded`). So a publish
  that uses up a watch leaves its znode guarded. When a deletion takes a znode that is
  guarded, either its watch fires or the process is behind with it; behind with one znode
  only, it hears of the other's deletion; behind with both, it is outrun. What a thread is
  about to insert is guarded already (`LoadSeen`), and half-made Notifyables, whose state may
  be created after the load, are why it needs `Undisturbed`.

`ParentIsLocked` closes a circle: `Lifecycle` takes the lock of `DistLock` as one step, and what
it does with it in its calls, in failures and in crashes (`AcquireNew`, `Reenter`, `Released`,
`Crash`) is a behaviour of the same `AbstractLock` that the recipe is proved to implement.

The statements that name no property of a run (`WatchesAccountedFor`, `StaleIsOnItsWay`,
`ElementsAccounted` and the like) were checked with TLC on the instances of section 3 before
they were proved.

Out of the prover's reach and left to TLC: the liveness properties (`AcquireReturns`,
`TimedTakeReturns`, `CachesConverge`, `FollowsDesired`, `Answered`,
`TimersRun`, `ShutdownCompletes`, `SyncReturns`), of which the theorems have the parts that are
safety where there is one (`NoLostWakeup`, `NoStrandedElement`, `PromptAlarms`,
`StaleIsOnItsWay`, `AnswersAreUnderWay`, `EndsAreUnderWay`), and all properties of the data
distributions (`TreeSound`, `LookupsAnswer`, `UpToDateIsRepository`, `RemovesThatShard`,
`ImplementsAbstractShards`): the operations of the red-black tree are recursive operators, and
what they make of a tree is an induction over trees. Every other safety property and refinement
of the runs is proved.

## 6. Where the code and its documents disagree

With a run that shows it (file names below `src/src/core` unless a path is given):

- `interval_search`: `deleteNode` (`intervaltree.h:1021`) copies the successor into the
  node before the maxima below it are right and corrects them upwards only as far as one
  does not change (`1759-1761`); an ancestor can keep the end of a range that is gone, and
  `intervalSearch`, which "find[s] a node that overlaps this inclusive range" (`578-586`),
  goes to the left for it and misses an overlapping range on the right. The lookups of data
  distributions go through all nodes and are not affected.

Met while modelling, stated here without a run. Locks, queue, Notifyables:

- The mutex taken at `distributedlocks.cc:103` belongs to the Notifyable and is held while
  waiting. A thread that holds a lock and enters it again, which line 166 says just
  increases the count, waits there for a thread of its process that waits for the lock:
  neither returns.
- `handleQueueChildChange` (`cachedobjectchangehandlers.cc:890`) signals before it sets the
  watch again and does not look at the children it then reads; an element put in between
  leaves a taker asleep beside it.
- `get` of an uncached Notifyable releases the parent's CHILD_LOCK even when its caller
  held it before the call (`factoryops.cc:1119`, `1169-1173`); `notifyable.h:345-347` says
  a lock is held until it is released.

- The same mutex serves every lock name of a Notifyable, though the comment at
  `distributedlocks.cc:99-102` says "on a lock granular basis": a thread that waits for
  one name blocks the holder it waits for at another name.
- A start from the GUI sets no `_processStateSetMsecs`, a stop sets it to a string
  (`clusterlib_jsonrpc_adaptor.cc:639-678`); the next check of the slot throws out of its
  thread (`processslotupdater.cc:101`), and the slot is not checked any more.
  `ProcessSlot` has it as `DecideFails`.
- A taker whose delete of the head took effect but lost its reply sees "no node" and
  drops the element (`queueimpl.cc:150`), against `queue.h:39`. `AbstractQueue` has
  this as `Lose`.
- `sync` does not look at the result of the asynchronous call (`zkadapter.cc:516`), so
  a failed one counts as done. `LockedSeesLatest` fails with `MaxBadSyncs = 1`.
- After the lost reply of a create a thread has two bids and knows one; the other
  stays until the session ends, since `distributedlocks.cc:256-263` throws.
  `NoOrphanBid` speaks of behaviours without failures.
- The sticky predicate of the shared condition stays set while one taker holds a
  reference, so other takers spin over the empty queue.
- `TOTAL_STARTS` counts failed starts, is never reset, and `MAX_STARTS` ends a program
  that is to run once, too.
- `waitedPid` is declared twice in `processslotupdater.cc`; SIGKILL can be sent to a pid
  that was waited for.
- `clusterlibrpc.h:258-259` says the completed queue is limited; error strings and the
  results of requests without parameters are put without trimming
  (`clusterlibrpc.cc:434-441`, `486-497`). `OneRequestOneAnswer` counts those apart.
- A response that comes twice ends the thread of the response handler.
- Request ids can be equal for two clients that one thread uses (`clusterlibrpc.cc:70`).
- The second of two threads of a process that load an uncached Notifyable throws in
  `uniqueInsert` (`safenotifyablemap.cc:45-49`), as does the second of two concurrent
  removers in its lock of the Notifyable; both leave the parent locked, and so does every
  call to ZooKeeper that throws, since `remove` catches `ObjectRemovedException` only.
- `notifyableimpl.cc:666` says the state is set after the repository entries are removed,
  so that an exception leaves it; `removeCachedNotifyable` comes first (693).
- "If any part of the NotifyableImpl is removed, it gets removed"
  (`cachedobjectchangehandlers.cc:88`) does not hold after a load or create that failed
  half way: the watches it left fire as created and are set again later, and a removal in
  between goes unseen. `RemovalArrives` speaks of behaviours without failures.
- Nor does it hold without failures. The watches on the znodes are used up by creations and
  publishes, too, and are set again only when the event thread comes to the event
  (`cachedobjectchangehandlers.cc:100-114`). Process 1 creates a DataDistribution, and the
  event of its key is on its way; process 2 loads it, publishes its shards and both states and
  removes it before process 1's event thread has come to any of these events. No znode has a
  watch of process 1 when it is deleted: process 1 keeps a READY object in its cache and
  no event of a deletion is on its way to it. The handler's `nodeExists` tells that the znodes
  are gone, but its result is not looked at. `RemovalOnItsWay` has the case as `outrun`: it
  takes an unhandled event of every znode, since the event of one deletion is enough.
- The rollback of `acquireLockWaitMsecs` over children releases `ntList[ntListIndex]`
  instead of the one at its own index (`notifyableimpl.cc:455-458`).

Session and clients (`Session` has them all unless said otherwise):

- `verifyConnection` unlocks `m_stateLock` when a `zk::ZooKeeperException` passes
  (`zkadapter.cc:919`); what `reconnect`, `waitUntilConnected` and it itself throw is an
  `Exception`, so after a wait that timed out the lock stays locked. The same class is
  caught, and never comes, in `SAFE_CALL_ZK` (`factoryops.h:25-53`).
- The event `sync` puts into the queue is a session event with `ZOO_CONNECTED_STATE`
  (`zkadapter.cc:573-576`): `processEvents` takes it for a connection and sets a lost or
  expired session to `AS_CONNECTED`.
- After a session has expired the external event thread ends (`factoryops.cc:897`), while
  `verifyConnection` connects again by itself: a `synchronize` that follows waits for ever.
- `removeClient` joins the client's thread with the clients lock in its hands
  (`factoryops.cc:444-453`). If a handler of that client is in `synchronize` and a change is
  on its way before the answer, the external event thread waits for the lock, the handler
  for the external event thread, and `removeClient` for the handler.
- `~ClientImpl` says "Wait till all events have been handled" (`clientimpl.cc:53-57`) and
  signals first; the loop looks at the signal before each event, so queued events, the end
  event among them, are dropped.
- `createClient` looks at `m_connected` before it inserts (`factoryops.cc:288-297`); a client
  inserted after `dispatchEndEvent` gets no end event. Its thread ends by the signal.
- `incrSyncEventIdCompleted` is called nowhere, so the ids of `synchronize` are never reset,
  although the comment at `factoryops.cc:357-360` says when they are.

Timers:

- `registerTimer` tells the payload its id after the alarm is scheduled
  (`factoryops.cc:1558-1573`): a handler can be called with the id 0, and `Free` then waits
  for the lock but erases the entry of timer 0 if its payload is not yet told.
- A timer that is cancelled in time leaves its payload and its entry in the registry for
  ever; `PayloadsLive` counts exactly those.
- Timers at the same time run in the reverse order of their registration
  (`lower_bound`, `event.h:745`).
- `~Timer` notifies without the lock (`event.h:714-715`), so the worker may see the
  termination only after its wait. Not in the model, which never deletes the timer source.

Data distributions:

- `getNotifyables` sorts shards with an assignment that keeps the old ranges
  (`shard.cc:113-129`): sorted by priority, the Notifyables change places and the ranges do
  not, and the order is from the lowest priority to the highest. Equal priorities are not
  safe either: `std::sort` (`cachedshardsimpl.cc:208`) is not stable, and libstdc++'s partition
  swaps equal elements of more than 16, so a distribution of 17 shards with the default
  priority 0 can give the Notifyable of another range. `SortByPriority` is the set of all
  orders the standard allows, and `LookupsAnswer` speaks of shards whose priorities rise with
  their ranges, or are equal for shards of one Notifyable (`PrioritiesFollowRanges`).
- The two filters of `getAllShards` add instead of filtering: a shard is taken once by
  each filter that is off or that it passes, and any priority but -1 counts as off
  (`cachedshardsimpl.cc:336-390`).
- `isCovered` of an empty distribution throws instead of returning false
  (`cachedshardsimpl.cc:234-276`).
- `checkTree` (`intervaltree.h:1204-1354`) rejects trees with equal nodes that a rotation
  has put to the right, although `insert` accepts equal shards.

## 7. Abstractions

- ZooKeeper is external and modelled by what the code relies on: sequence numbers grow,
  watches are one-shot and their events arrive in order per process, a write is atomic,
  a reply may be lost after the effect. The counter of a lock node that is removed and
  made anew starts again at zero; a removal is final in `DistLock`.
- The adapter's and FactoryOps' event queues are one FIFO in `CachedState`.
- The lock is `owner` in `CachedState` and the span from `Begin` to `Publish` in
  `ProcessSlot`.
- A state is the set of the `set()` calls that made it; keys and values are not told
  apart. Property lists, data distributions and queues' data use the same load and
  publish with another payload.
- `Lifecycle`: one Notifyable with two znodes and no children, so nobody contends for its
  own CHILD_LOCK. The key stands for the znodes that are only made and deleted, the state for
  those that are published: a DataDistribution, a PropertyList, a ProcessSlot and a Node have
  nothing else below their key. A Group, an Application, a Queue and the Root have znodes for
  their children besides, which nobody writes and on which the watch of a load therefore
  hears of the deletion: for them no process is outrun, and the model has more behaviours
  than the code. A write that fails, for its version or for the znode that is gone, changes
  nothing. `acquireLock` is one step of `AbstractLock` followed by `synchronize`. `hasLock`
  may block on the mutex of `dist_lock_reentry`; leaving that out only adds behaviours.
  ZooKeeper's servers do not lag here (that is `CachedState`), and a call that throws had no
  effect. A client uses the object it got last.
- `ProcessSlot`: pids are not used again; fork and kill are atomic with the decision;
  the child's failure to change directory or to exec is a program that ends; desired
  state strings the updater does not know are left out; `totalStarts` is counted up to
  `MaxCount`.
- `Rpc`: a request is its own id; the dequeue of a user event and the check for an empty
  queue are one step, since only the thread itself takes events; the status property
  list, method registration and the JSON text are left out; an exception nobody catches
  ends the process.
- `Session`: `m_userEvents` and the event adapters pass events on in order and are part of
  `external`; a timer event is not told apart there. `removeClient` and
  `discardAllClients` take the client out of `m_clients` at their start and under the
  lock, respectively. The constructor whose connect times out, and exceptions of the
  external event thread, are left out.
- `Timers`: one kind of handler, which does not throw; the 100 ms wait over an empty queue
  ends at any time; `now` is the clock of all threads; times that overflow are left out.
- `IntervalTree`: the tree is a value, node identities are numbers, NULL is a number; the
  locks of `CachedShards` make each operation one step, as `getCachedDataLock` does.
  `CachedShards` has two representations of its own, with the hash range registered and as
  an unknown one that keeps strings; the conversion between the two is left out.
- Pure reads that no property is about (`getInfo`, `size`, `empty`, `getAllElements`) are
  left out.

## 8. Plan

What is left, in the order of what it would show:

| order | module | what |
|---|---|---|
| 1 | `Lifecycle`, extended | children: the recursive removal, the locks over children and their rollback, `getNotifyableFromKey` |
| 2 | `Session`, extended | register, cancel and dispatch of user event handlers while a client is removed; periodic threads |
| 3 | `Algorithms` | key manipulation, hash ranges, JSON numbers, as functions against reference definitions |

Every safety property of the runs is proved but those of the data distributions. These would
need induction over trees: `UpToDateIsRepository`, too, which compares the repository with
`Contents`, the walk through the whole tree.

## 9. Not modelled

Pure input and output (command line, GUI presentation, logging, process services,
digests), generated, vendored and example code (jQuery is most of it), the wrappers of
pthread calls, the assembling of paths in `notifyablekeymanipulator.cc`, and the JSON
grammar. The classes of `healthchecker.h` are declared and used nowhere. The reasons for
each component are in `PROJECT.json`.
