------------------------------ MODULE Lifecycle ------------------------------
(***************************************************************************)
(* The life of a Notifyable: how processes load, create, cache and remove  *)
(* it (factoryops.cc, registerednotifyableimpl.cc, safenotifyablemap.cc,   *)
(* notifyableimpl.cc in src/src/core) and how the removal by one process   *)
(* reaches the caches of the others (cachedobjectchangehandlers.cc).       *)
(*                                                                         *)
(* A Notifyable is several znodes, here its key and, below it, its state,  *)
(* which is published.  Whoever loads it sets one-shot watches on them;    *)
(* whoever loads, creates or removes it holds the CHILD_LOCK of its        *)
(* parent, and nobody needs a lock to publish.  That lock is the one       *)
(* of AbstractLock, and its acquisition ends with synchronize(), which     *)
(* waits until the event thread of the process comes to a marker in its    *)
(* queue.  The parent is there all the time and cached by every process;   *)
(* children are left out, and so nobody contends for the Notifyable's own  *)
(* CHILD_LOCK.                                                             *)
(***************************************************************************)
EXTENDS Integers, Sequences, FiniteSets

CONSTANTS
  Threads,      \* client threads
  Procs,        \* client processes
  ProcOf,       \* the process of a thread
  UserLocks,    \* does a client acquire the parent's lock itself?
  MaxCalls,     \* bound: calls of get, publish, remove and acquireLock
  MaxFaults,    \* bound: calls to ZooKeeper that throw
  MaxCrashes    \* bound: crashes of a process, which starts again

ASSUME LifecycleAssumption ==
  /\ ProcOf \in [Threads -> Procs]
  /\ UserLocks \in BOOLEAN
  /\ {MaxCalls, MaxFaults, MaxCrashes} \subseteq Nat

VARIABLES
  nodes,      \* the znodes of the Notifyable that exist
  age,        \* history: how often a removal began to take them away
  outrun,     \* history: the processes that were behind with their events of each
              \* znode when the last removal took it away
  watch,      \* watch[p]: the znodes on which ZooKeeper has a watch of p
  ready,      \* ready[p]: m_handlerKeyCallbackCount of NOTIFYABLE_REMOVED_CHANGE
  queue,      \* queue[p]: events and markers on their way to the event thread
  handling,   \* handling[p]: the event that the event thread is at
  objects,    \* objects[p]: the NotifyableImpls that p has loaded, in order
  cache,      \* cache[p]: the object in the SafeNotifyableMap, or Nothing
  lock,       \* lock[t]: what t holds of the parent's CHILD_LOCK
  asked,      \* asked[t]: has t acquired that lock itself?
  handle,     \* handle[t]: the object that t has got, or Nothing
  pc,         \* where a thread is
  call,       \* arguments and locals of its current call
  calls, faults, crashes

repository == <<nodes, age, outrun, watch, queue>>
cached == <<objects, cache>>
clients == <<lock, asked, handle, pc, call>>
counters == <<calls, faults, crashes>>
vars == <<nodes, age, outrun, watch, ready, queue, handling, objects, cache,
          lock, asked, handle, pc, call, calls, faults, crashes>>

-----------------------------------------------------------------------------
\* generateRepositoryList and the states: in the order they are loaded and made.
Parts == <<"key", "state">>
Whole == {"key", "state"}

Nothing == 0
LockTypes == {"SHARED", "EXCL"}
Free == [type |-> "SHARED", count |-> 0]
Event == [part : Whole, kind : {"created", "changed", "deleted"}]
NoEvent == [part |-> "key", kind |-> "created", object |-> Nothing, at |-> "none"]
ASSUME ThreadsAreNoEvents == Threads \cap Event = {}
Object == [state : {"READY", "REMOVED"}, born : Nat]

\* "sync" and "await": synchronize() before and after its marker is queued.
PC == {"idle", "lock", "sync", "await", "load", "create", "insert", "unlock", "publish",
       "lockParent", "lockSelf", "uncache", "delete", "deleteKey", "release"}
Call == [create : BOOLEAN, part : 1 .. 2, again : BOOLEAN, then : PC]
NoCall == [create |-> FALSE, part |-> 1, again |-> FALSE, then |-> "idle"]

Init ==
  /\ nodes \in {{}, Whole}
  /\ age = 0 /\ outrun = {}
  /\ watch = [p \in Procs |-> {}]
  /\ ready = [p \in Procs |-> {}]
  /\ queue = [p \in Procs |-> <<>>]
  /\ handling = [p \in Procs |-> NoEvent]
  /\ objects = [p \in Procs |-> <<>>]
  /\ cache = [p \in Procs |-> Nothing]
  /\ lock = [t \in Threads |-> Free]
  /\ asked = [t \in Threads |-> FALSE]
  /\ handle = [t \in Threads |-> Nothing]
  /\ pc = [t \in Threads |-> "idle"]
  /\ call = [t \in Threads |-> NoCall]
  /\ calls = 0 /\ faults = 0 /\ crashes = 0

-----------------------------------------------------------------------------
(* Helpers *)

Goto(t, label) == pc' = [pc EXCEPT ![t] = label]
\* The call ends; its locals are forgotten.
Return(t) == Goto(t, "idle") /\ call' = [call EXCEPT ![t] = NoCall]

NewCall(t, label) ==
  /\ pc[t] = "idle" /\ calls < MaxCalls
  /\ calls' = calls + 1
  /\ Goto(t, label)

Fault == faults < MaxFaults /\ faults' = faults + 1

\* ZooKeeper makes the znodes be those of new: each watch on one that comes or
\* goes becomes an event of the process that set it.
Change(new) ==
  LET Differs(part) == (part \in nodes) # (part \in new)
      EventOf(part) == [part |-> part, kind |-> IF part \in new THEN "created" ELSE "deleted"]
      Fired(p, part) == IF part \in watch[p] /\ Differs(part) THEN <<EventOf(part)>> ELSE <<>>
  IN /\ nodes' = new
     /\ queue' = [p \in Procs |-> queue[p] \o Fired(p, "key") \o Fired(p, "state")]
     /\ watch' = [p \in Procs |-> {part \in watch[p] : ~Differs(part)}]

\* ZooKeeper writes the state: each watch on it becomes an event, too.
WriteState ==
  LET Fired(p) == "state" \in watch[p]
  IN /\ queue' = [p \in Procs |-> IF Fired(p)
                                  THEN Append(queue[p], [part |-> "state", kind |-> "changed"])
                                  ELSE queue[p]]
     /\ watch' = [p \in Procs |-> watch[p] \ {"state"}]
     /\ UNCHANGED nodes

\* An event of the znode, other than its deletion, is in the queue or not handled
\* to its end: until then p may have no watch on it.
Behind(p, part) ==
  \/ handling[p].at # "none" /\ handling[p].part = part /\ handling[p].kind # "deleted"
  \/ \E i \in DOMAIN queue[p] :
       queue[p][i] \notin Threads /\ queue[p][i].part = part /\ queue[p][i].kind # "deleted"

Compatible(t, type) ==
  \A u \in Threads \ {t} :
    lock[u].count > 0 => type = "SHARED" /\ lock[u].type = "SHARED"

\* DistributedLocks: who has got the lock synchronizes and then goes on at label.
AcquireNew(t, type, label) ==
  /\ lock[t].count = 0 /\ Compatible(t, type)
  /\ lock' = [lock EXCEPT ![t] = [type |-> type, count |-> 1]]
  /\ Goto(t, "sync")
  /\ call' = [call EXCEPT ![t].then = label]

\* A thread that holds the lock enters again, in the same type only.
Reenter(t, type, label) ==
  /\ lock[t].count > 0 /\ lock[t].type = type
  /\ lock' = [lock EXCEPT ![t].count = @ + 1]
  /\ Goto(t, label)
  /\ UNCHANGED call

ReenterFails(t, type) ==
  /\ lock[t].count > 0 /\ lock[t].type # type
  /\ Return(t)
  /\ UNCHANGED lock

\* DistributedLocks::release throws when the thread does not hold the lock.
Released(t) ==
  CASE lock[t].count > 1 -> [lock EXCEPT ![t].count = @ - 1]
    [] lock[t].count = 1 -> [lock EXCEPT ![t] = Free]
    [] OTHER -> lock

\* Fault: only the key is watched.
SetWatchOnKey(p, part) ==
  /\ ready' = [ready EXCEPT ![p] = @ \cup {part}]
  /\ watch' = [watch EXCEPT ![p] =
                 IF part \in ready[p] \/ part # "key" THEN @ ELSE @ \cup {part}]

\* SAFE_CALLBACK_ZK: the watch is set unless one is set, or has fired and waits to
\* be handled.
SetWatch(p, part) ==
  /\ ready' = [ready EXCEPT ![p] = @ \cup {part}]
  /\ watch' = [watch EXCEPT ![p] = IF part \in ready[p] THEN @ ELSE @ \cup {part}]

Set(p, object, state) == [objects EXCEPT ![p][object].state = state]

-----------------------------------------------------------------------------
(* getNotifyableWaitMsecs *)

\* An object in the cache is returned as it is.
Get(t, create) ==
  /\ calls < MaxCalls /\ pc[t] = "idle"
  /\ calls' = calls + 1
  /\ IF cache[ProcOf[t]] # Nothing
     THEN /\ handle' = [handle EXCEPT ![t] = cache[ProcOf[t]]]
          /\ UNCHANGED <<pc, call>>
     ELSE /\ Goto(t, "lock")
          /\ call' = [call EXCEPT ![t] = [NoCall EXCEPT !.create = create]]
          /\ UNCHANGED handle
  /\ UNCHANGED <<repository, ready, handling, cached, lock, asked, faults, crashes>>

\* A lock that the caller holds is enough, unless it is shared and a znode is to
\* be created: then the call throws.
GetLock(t) ==
  LET type == IF call[t].create THEN "EXCL" ELSE "SHARED"
  IN /\ pc[t] = "lock"
     /\ \/ AcquireNew(t, type, "load")
        \/ /\ lock[t].count > 0
           /\ IF call[t].create /\ lock[t].type = "SHARED"
              THEN Return(t)
              ELSE Goto(t, "load") /\ UNCHANGED call
           /\ UNCHANGED lock
     /\ UNCHANGED <<repository, ready, handling, cached, asked, handle, counters>>

\* loadNotifyableFromRepository asks for one znode after another and watches
\* each of them.
Load(t) ==
  LET p == ProcOf[t]
      part == Parts[call[t].part]
  IN /\ pc[t] = "load"
     /\ SetWatch(p, part)
     /\ \/ /\ part \in nodes /\ call[t].part < Len(Parts)
           /\ call' = [call EXCEPT ![t].part = @ + 1]
           /\ UNCHANGED pc
        \/ /\ part \in nodes /\ call[t].part = Len(Parts)
           /\ Goto(t, "insert") /\ UNCHANGED call
        \/ /\ part \notin nodes /\ call[t].create /\ ~call[t].again
           /\ Goto(t, "create")
           /\ call' = [call EXCEPT ![t].part = 1, ![t].again = TRUE]
        \/ /\ part \notin nodes /\ ~call[t].create
           /\ Goto(t, "unlock") /\ UNCHANGED call
        \/ /\ part \notin nodes /\ call[t].again
           /\ Return(t)
     /\ UNCHANGED <<nodes, age, outrun, queue, handling, cached, lock, asked, handle, counters>>

\* createRepositoryObjects makes the znodes, ancestors included, that are not
\* there; a call that fails on a connection that is up is logged and passed over.
Create(t) ==
  /\ pc[t] = "create"
  /\ \/ /\ Change(nodes \cup {Parts[i] : i \in 1 .. call[t].part})
        /\ UNCHANGED faults
     \/ Fault /\ UNCHANGED <<nodes, watch, queue>>
  /\ IF call[t].part < Len(Parts)
     THEN call' = [call EXCEPT ![t].part = @ + 1] /\ UNCHANGED pc
     ELSE call' = [call EXCEPT ![t].part = 1] /\ Goto(t, "load")
  /\ UNCHANGED <<age, outrun, ready, handling, cached, lock, asked, handle, calls, crashes>>

\* Fault: the object replaces the one that another thread has inserted.
InsertAnyway(t) ==
  LET p == ProcOf[t]
  IN /\ pc[t] = "insert"
     /\ objects' = [objects EXCEPT ![p] = Append(@, [state |-> "READY", born |-> age])]
     /\ cache' = [cache EXCEPT ![p] = Len(objects[p]) + 1]
     /\ handle' = [handle EXCEPT ![t] = Len(objects[p]) + 1]
     /\ Goto(t, "unlock")
     /\ UNCHANGED <<repository, ready, handling, lock, asked, call, counters>>

\* uniqueInsert throws when another thread was faster: the lock stays.
Insert(t) ==
  LET p == ProcOf[t]
  IN /\ pc[t] = "insert"
     /\ IF cache[p] = Nothing
        THEN /\ objects' = [objects EXCEPT ![p] = Append(@, [state |-> "READY", born |-> age])]
             /\ cache' = [cache EXCEPT ![p] = Len(objects[p]) + 1]
             /\ handle' = [handle EXCEPT ![t] = Len(objects[p]) + 1]
             /\ Goto(t, "unlock")
             /\ UNCHANGED call
        ELSE Return(t) /\ UNCHANGED <<cached, handle>>
     /\ UNCHANGED <<repository, ready, handling, lock, asked, counters>>

\* initialize() reads the two states and may throw: the object is cached, the lock
\* stays, and the caller gets nothing.
InitializeFails(t) ==
  LET p == ProcOf[t]
  IN /\ pc[t] = "insert" /\ cache[p] = Nothing
     /\ Fault
     /\ objects' = [objects EXCEPT ![p] = Append(@, [state |-> "READY", born |-> age])]
     /\ cache' = [cache EXCEPT ![p] = Len(objects[p]) + 1]
     /\ Return(t)
     /\ UNCHANGED <<repository, ready, handling, lock, asked, handle, calls, crashes>>

\* The lock is released even if it was the caller's.
Unlock(t) ==
  /\ pc[t] = "unlock"
  /\ lock' = Released(t)
  /\ Return(t)
  /\ UNCHANGED <<repository, ready, handling, cached, asked, handle, counters>>

-----------------------------------------------------------------------------
(* publish of a state *)

\* publish() of a removed object throws.
Publish(t) ==
  /\ handle[t] # Nothing
  /\ objects[ProcOf[t]][handle[t]].state = "READY"
  /\ NewCall(t, "publish")
  /\ UNCHANGED <<repository, ready, handling, cached, lock, asked, handle, call,
                 faults, crashes>>

\* The write fails when the znode is gone, and may fail when it is not: somebody else
\* has published, or the connection has a problem.
SetNodeData(t) ==
  /\ pc[t] = "publish"
  /\ \/ "state" \in nodes /\ WriteState
     \/ UNCHANGED <<nodes, watch, queue>>
  /\ Return(t)
  /\ UNCHANGED <<age, outrun, ready, handling, cached, lock, asked, handle, counters>>

-----------------------------------------------------------------------------
(* remove *)

Remove(t) ==
  /\ handle[t] # Nothing
  /\ objects[ProcOf[t]][handle[t]].state = "READY"
  /\ NewCall(t, "lockParent")
  /\ UNCHANGED <<repository, ready, handling, cached, lock, asked, handle, call,
                 faults, crashes>>

\* Fault: the lock of the parent is shared.
LockParentShared(t) ==
  /\ pc[t] = "lockParent"
  /\ AcquireNew(t, "SHARED", "lockSelf")
  /\ UNCHANGED <<repository, ready, handling, cached, asked, handle, counters>>

LockParent(t) ==
  /\ pc[t] = "lockParent"
  /\ \/ AcquireNew(t, "EXCL", "lockSelf")
     \/ Reenter(t, "EXCL", "lockSelf")
     \/ ReenterFails(t, "EXCL")
  /\ UNCHANGED <<repository, ready, handling, cached, asked, handle, counters>>

\* Another removal may have come first, or the Notifyable's own lock cannot be
\* made: the call throws and the lock of the parent stays.
LockSelf(t) ==
  /\ pc[t] = "lockSelf"
  /\ IF objects[ProcOf[t]][handle[t]].state = "REMOVED" \/ "key" \notin nodes
     THEN Return(t)
     ELSE Goto(t, "sync") /\ call' = [call EXCEPT ![t].then = "uncache"]
  /\ UNCHANGED <<repository, ready, handling, cached, lock, asked, handle, counters>>

\* removeCachedNotifyable, after getMyChildren has found no child.
Uncache(t) ==
  LET p == ProcOf[t]
  IN /\ pc[t] = "uncache"
     /\ objects[p][handle[t]].state = "READY"
     /\ objects' = Set(p, handle[t], "REMOVED")
     /\ cache' = [cache EXCEPT ![p] = Nothing]
     /\ Goto(t, "delete")
     /\ UNCHANGED <<repository, ready, handling, lock, asked, handle, call, counters>>

\* getMyChildren throws ObjectRemovedException, the one that is caught.
RemovedMeanwhile(t) ==
  /\ pc[t] = "uncache"
  /\ objects[ProcOf[t]][handle[t]].state = "REMOVED"
  /\ lock' = Released(t)
  /\ Return(t)
  /\ UNCHANGED <<repository, ready, handling, cached, asked, handle, counters>>

\* removeRepositoryEntries deletes what is below the key, then the key.
Delete(t) ==
  /\ pc[t] = "delete"
  /\ Change(nodes \ {"state"})
  /\ age' = age + 1
  /\ outrun' = {p \in Procs : Behind(p, "state")}
  /\ Goto(t, "deleteKey")
  /\ UNCHANGED <<ready, handling, cached, lock, asked, handle, call, counters>>

DeleteKey(t) ==
  /\ pc[t] = "deleteKey"
  /\ Change(nodes \ {"key"})
  /\ outrun' = {p \in outrun : Behind(p, "key")}
  /\ Goto(t, "release")
  /\ UNCHANGED <<age, ready, handling, cached, lock, asked, handle, call, counters>>

\* The lock of the parent is released before the synchronize() of remove.
Release(t) ==
  /\ pc[t] = "release"
  /\ lock' = Released(t)
  /\ Goto(t, "sync")
  /\ call' = [call EXCEPT ![t].then = "idle"]
  /\ UNCHANGED <<repository, ready, handling, cached, asked, handle, counters>>

\* Nothing but ObjectRemovedException is caught: a call to ZooKeeper that throws
\* leaves the locks.
CallThrows(t) ==
  /\ pc[t] \in {"load", "create", "delete", "deleteKey"}
  /\ Fault
  /\ Return(t)
  /\ UNCHANGED <<repository, ready, handling, cached, lock, asked, handle, calls, crashes>>

-----------------------------------------------------------------------------
(* synchronize, the user's own locks, crashes *)

QueueMarker(t) ==
  /\ pc[t] = "sync"
  /\ queue' = [queue EXCEPT ![ProcOf[t]] = Append(@, t)]
  /\ Goto(t, "await")
  /\ UNCHANGED <<nodes, age, outrun, watch, ready, handling, cached, lock, asked, handle,
                 call, counters>>

\* acquireLock and releaseLock of the parent by its user.
UserAcquire(t, type) ==
  /\ UserLocks /\ ~asked[t] /\ pc[t] = "idle" /\ calls < MaxCalls
  /\ calls' = calls + 1
  /\ \/ /\ AcquireNew(t, type, "idle") \/ Reenter(t, type, "idle")
        /\ asked' = [asked EXCEPT ![t] = TRUE]
     \/ ReenterFails(t, type) /\ UNCHANGED asked
  /\ UNCHANGED <<repository, ready, handling, cached, handle, faults, crashes>>

UserRelease(t) ==
  /\ asked[t] /\ pc[t] = "idle"
  /\ lock' = Released(t)
  /\ asked' = [asked EXCEPT ![t] = FALSE]
  /\ UNCHANGED <<repository, ready, handling, cached, handle, pc, call, counters>>

\* What a process keeps in memory, its watches and its locks go with it; what it
\* was making or removing stays as it is.  A process is started in its place.
Crash(p) ==
  LET Alive(t) == ProcOf[t] # p
  IN /\ crashes < MaxCrashes
     /\ crashes' = crashes + 1
     /\ pc' = [t \in Threads |-> IF Alive(t) THEN pc[t] ELSE "idle"]
     /\ call' = [t \in Threads |-> IF Alive(t) THEN call[t] ELSE NoCall]
     /\ lock' = [t \in Threads |-> IF Alive(t) THEN lock[t] ELSE Free]
     /\ asked' = [t \in Threads |-> Alive(t) /\ asked[t]]
     /\ handle' = [t \in Threads |-> IF Alive(t) THEN handle[t] ELSE Nothing]
     /\ watch' = [watch EXCEPT ![p] = {}]
     /\ ready' = [ready EXCEPT ![p] = {}]
     /\ queue' = [queue EXCEPT ![p] = <<>>]
     /\ handling' = [handling EXCEPT ![p] = NoEvent]
     /\ objects' = [objects EXCEPT ![p] = <<>>]
     /\ cache' = [cache EXCEPT ![p] = Nothing]
     /\ UNCHANGED <<nodes, age, outrun, calls, faults>>

-----------------------------------------------------------------------------
(* The event thread: updateCachedObject and handleNotifyableRemovedChange *)

TakeMarker(p) ==
  /\ handling[p] = NoEvent
  /\ queue[p] # <<>> /\ Head(queue[p]) \in Threads
  /\ queue' = [queue EXCEPT ![p] = Tail(@)]
  /\ LET t == Head(queue[p])
     IN /\ Goto(t, call[t].then)
        /\ call' = [call EXCEPT ![t].then = "idle"]
  /\ UNCHANGED <<nodes, age, outrun, watch, ready, handling, cached, lock, asked, handle,
                 counters>>

\* The object is looked up in the cache before the handler is called.
LookUp(p) ==
  /\ handling[p] = NoEvent
  /\ queue[p] # <<>> /\ Head(queue[p]) \notin Threads
  /\ queue' = [queue EXCEPT ![p] = Tail(@)]
  /\ LET e == Head(queue[p])
     IN handling' = [handling EXCEPT ![p] =
          [part |-> e.part, kind |-> e.kind, object |-> cache[p], at |-> "found"]]
  /\ UNCHANGED <<nodes, age, outrun, watch, ready, cached, clients, counters>>

\* unsetHandlerCallbackReady throws when it has not been set.
Unset(p) ==
  /\ handling[p].at = "found"
  /\ handling[p].part \in ready[p]
  /\ ready' = [ready EXCEPT ![p] = @ \ {handling[p].part}]
  /\ handling' = [handling EXCEPT ![p].at = "unset"]
  /\ UNCHANGED <<repository, cached, clients, counters>>

\* removeCachedNotifyable throws when the object is REMOVED already.
RemoveFound(p) ==
  LET object == handling[p].object
  IN /\ handling[p].at = "unset" /\ handling[p].kind = "deleted"
     /\ \/ object = Nothing /\ UNCHANGED cached
        \/ /\ object # Nothing
           /\ objects[p][object].state = "READY"
           /\ objects' = Set(p, object, "REMOVED")
           /\ cache' = [cache EXCEPT ![p] = Nothing]
     /\ handling' = [handling EXCEPT ![p] = NoEvent]
     /\ UNCHANGED <<repository, ready, clients, counters>>

\* Anything but a deletion: the watch is set again unless another thread did.
Rearm(p) ==
  LET part == handling[p].part
  IN /\ handling[p].at = "unset" /\ handling[p].kind # "deleted"
     /\ SetWatch(p, part)
     /\ handling' = [handling EXCEPT ![p] = NoEvent]
     /\ UNCHANGED <<nodes, age, outrun, queue, cached, clients, counters>>

EventStep(p) == TakeMarker(p) \/ LookUp(p) \/ Unset(p) \/ RemoveFound(p) \/ Rearm(p)

Step(t) ==
  \/ GetLock(t) \/ Load(t) \/ Create(t) \/ Insert(t)
  \/ InitializeFails(t) \/ Unlock(t) \/ SetNodeData(t)
  \/ LockParent(t) \/ LockSelf(t) \/ Uncache(t) \/ RemovedMeanwhile(t)
  \/ Delete(t) \/ DeleteKey(t)
  \/ Release(t) \/ CallThrows(t) \/ QueueMarker(t)

Next ==
  \/ \E t \in Threads :
       \/ \E create \in BOOLEAN : Get(t, create)
       \/ Publish(t) \/ Remove(t) \/ Step(t)
       \/ \E type \in LockTypes : UserAcquire(t, type)
       \/ UserRelease(t)
  \/ \E p \in Procs : EventStep(p) \/ Crash(p)

Spec == Init /\ [][Next]_vars

-----------------------------------------------------------------------------
(* Properties *)

\* The values of the repository, the caches and the locals.
TypeOK ==
  /\ nodes \subseteq Whole
  /\ age \in Nat /\ outrun \subseteq Procs
  /\ watch \in [Procs -> SUBSET Whole]
  /\ ready \in [Procs -> SUBSET Whole]
  /\ queue \in [Procs -> Seq(Event \cup Threads)]
  /\ objects \in [Procs -> Seq(Object)]
  /\ \A p \in Procs : cache[p] \in {Nothing} \cup DOMAIN objects[p]
  /\ \A t \in Threads : handle[t] \in {Nothing} \cup DOMAIN objects[ProcOf[t]]
  /\ lock \in [Threads -> [type : LockTypes, count : Nat]]
  /\ asked \in [Threads -> BOOLEAN]
  /\ pc \in [Threads -> PC]
  /\ call \in [Threads -> Call]

\* A process has at most one live object of a Notifyable, the one in its cache,
\* however its threads load, create and remove it at the same time.  (Every variable
\* has its type, too.)
OneObject ==
  /\ TypeOK
  /\ \A p \in Procs : \A i \in DOMAIN objects[p] :
       objects[p][i].state = "READY" <=> cache[p] = i

Undisturbed == faults = 0 /\ crashes = 0

\* "If this NotifyableImpl hasn't been removed (removed by a thread on another
\* FactoryOps), the actual change in state is propagated through this handler":
\* while a process caches an object of a Notifyable that is gone, an event is on
\* its way that will remove it, unless the removal has outrun it: a watch that has
\* fired is set again only when its event is handled, and so a process that was
\* behind with the events of every znode when that was deleted is not told.  Nor may
\* it be when a call failed, or somebody died and left a Notifyable half made: then
\* a process may watch what is not there.
RemovalOnItsWay ==
  \A p \in Procs :
    (Undisturbed /\ cache[p] # Nothing /\ "key" \notin nodes) =>
      \/ p \in outrun
      \/ handling[p].kind = "deleted" /\ handling[p].object = cache[p]
      \/ \E i \in DOMAIN queue[p] :
           queue[p][i] \notin Threads /\ queue[p][i].kind = "deleted"

\* An object becomes REMOVED only after the Notifyable it was loaded from began to
\* be removed: an event of an earlier Notifyable of that name does not reach the
\* object of the next one.  Without failures, the remover's own object aside.
RemovedInTime ==
  faults = 0 =>
    \A p \in Procs : \A i \in DOMAIN objects[p] :
      objects[p][i].state = "REMOVED" =>
        \/ objects[p][i].born < age
        \/ \E t \in Threads : ProcOf[t] = p /\ handle[t] = i /\ pc[t] = "delete"

\* remove: "This guarantees that nobody will try to modify this Notifyable at the
\* same time."  A remover that goes ahead finds the Notifyable whole, and nobody
\* else loads, makes or removes it until it is gone; whole, unless a call failed or
\* somebody died.
RemoverAlone ==
  \A t \in Threads : pc[t] \in {"uncache", "delete", "deleteKey"} =>
    /\ Undisturbed /\ pc[t] = "delete" => nodes = Whole
    /\ \A u \in Threads \ {t} :
         pc[u] \notin {"load", "create", "insert", "uncache", "delete", "deleteKey"}

\* The event thread never throws, which would end it: the watch whose event it
\* handles counts as set, and the object that it removes is live and cached.
EventThreadLives ==
  \A p \in Procs :
    LET e == handling[p]
    IN /\ e.at = "found" => e.part \in ready[p]
       /\ e.at # "none" /\ e.kind = "deleted" /\ e.object # Nothing =>
            cache[p] = e.object

\* A removal by another process arrives, at the objects it concerns and no others, and
\* does not end the event thread that brings it.
RemovalArrives == RemovalOnItsWay /\ RemovedInTime /\ EventThreadLives
=============================================================================
