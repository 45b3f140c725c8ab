----------------------------- MODULE CachedState -----------------------------
(***************************************************************************)
(* The cached data of one Notifyable in several processes (src/src/core/   *)
(* cacheddataimpl.cc, cachedstateimpl.cc), the watch that keeps a cache up *)
(* to date (cachedobjectchangehandlers.cc) and synchronize(), with which   *)
(* the acquisition of a distributed lock ends (factoryops.cc, zkadapter    *)
(* .cc).  ZooKeeper's leader orders the writes; the server of a process    *)
(* may lag behind it until a write or a sync of that process.  What        *)
(* ZooKeeper reports reaches the event thread of a process in order,       *)
(* through the queues of the adapter and of FactoryOps, which are one      *)
(* queue here.                                                             *)
(*                                                                         *)
(* A state is the set of the set() calls that made it.                     *)
(***************************************************************************)
EXTENDS Integers, Sequences

CONSTANTS
  Threads,        \* client threads
  Procs,          \* client processes
  ProcOf,         \* the process of a thread
  Programs,       \* which threads hold the NOTIFYABLE_LOCK when they publish (locking)
                  \* and how they may call publish (unconditional, a set of BOOLEANs)
  NoThread,       \* nobody holds the lock
  MaxHistory,     \* m_maxHistorySize
  MaxTurns,       \* bound: uses of the cached data (lock, set, publish, unlock)
  MaxSets,        \* bound: set calls
  MaxResets,      \* bound: reset calls
  MaxFaults,      \* bound: writes whose reply is lost
  MaxBadSyncs     \* bound: syncs that fail

ASSUME CachedStateAssumption ==
  /\ ProcOf \in [Threads -> Procs]
  /\ Programs \subseteq [locking : SUBSET Threads, unconditional : SUBSET BOOLEAN]
  /\ NoThread \notin Threads /\ "change" \notin Threads
  /\ MaxHistory \in Nat \ {0}
  /\ {MaxTurns, MaxSets, MaxResets, MaxFaults, MaxBadSyncs} \subseteq Nat

VARIABLES
  program,  \* the program that runs, one of Programs
  log,      \* log[v]: the record of version v, as ZooKeeper's leader has it
  view,     \* view[p]: the version the server of process p has applied
  watch,    \* watch[p]: is the data watch of p set?
  queue,    \* queue[p]: events on their way to the event thread of p
  ready,    \* ready[p]: m_handlerKeyCallbackCount, "a watch is set or fired"
  handling, \* handling[p]: is a change event between its unset and its load?
  cache,    \* cache[p]: m_stat.version, m_state and m_historyArr
  owner,    \* the holder of the distributed lock
  pc,       \* where a thread is
  mine,     \* mine[t]: what t has set since it last began
  turns, sets, resets, faults, badSyncs

zkVars == <<log, view, watch, queue>>
counters == <<turns, sets, resets, faults, badSyncs>>
vars == <<program, log, view, watch, queue, ready, handling, cache, owner, pc, mine,
          turns, sets, resets, faults, badSyncs>>

-----------------------------------------------------------------------------
State == SUBSET Nat
Record == [state : State, hist : Seq(State)]
Empty == [state |-> {}, hist |-> <<>>]
Cache == [ver : Nat, state : State, hist : Seq(State)]
PC == {"idle", "sync", "inject", "await", "edit", "finish"}

Latest == Len(log)
At(v) == IF v = 0 THEN Empty ELSE log[v]

Init ==
  /\ program \in Programs
  /\ log = <<>>
  /\ view = [p \in Procs |-> 0]
  /\ watch = [p \in Procs |-> TRUE]
  /\ queue = [p \in Procs |-> <<>>]
  /\ ready = [p \in Procs |-> TRUE]
  /\ handling = [p \in Procs |-> FALSE]
  /\ cache = [p \in Procs |-> [ver |-> 0, state |-> {}, hist |-> <<>>]]
  /\ owner = NoThread
  /\ pc = [t \in Threads |-> "idle"]
  /\ mine = [t \in Threads |-> {}]
  /\ turns = 0 /\ sets = 0 /\ resets = 0 /\ faults = 0 /\ badSyncs = 0

-----------------------------------------------------------------------------
(* ZooKeeper *)

\* The server of p applies the writes up to version v and triggers the watch.
Apply(p, v) ==
  /\ view' = [view EXCEPT ![p] = v]
  /\ IF watch[p] /\ v > view[p]
     THEN /\ watch' = [watch EXCEPT ![p] = FALSE]
          /\ queue' = [queue EXCEPT ![p] = Append(@, "change")]
     ELSE UNCHANGED <<watch, queue>>

CatchUp(p) ==
  /\ view[p] < Latest
  /\ Apply(p, view[p] + 1)
  /\ UNCHANGED <<log, ready, handling, cache, owner, pc, mine, counters>>

-----------------------------------------------------------------------------
(* acquireLock and synchronize *)

\* The bid of t has become the first: DistLock shows that nobody else owns the
\* lock then.  synchronize() has called zoo_async.
Acquire(t) ==
  /\ pc[t] = "idle" /\ t \in program.locking
  /\ turns < MaxTurns
  /\ owner = NoThread
  /\ owner' = t
  /\ pc' = [pc EXCEPT ![t] = "sync"]
  /\ turns' = turns + 1
  /\ UNCHANGED <<zkVars, ready, handling, cache, mine, sets, resets, faults, badSyncs>>

\* waitCompletion: the server has caught up, or the sync failed, which sc.rc
\* says and nobody reads.
SyncCompletes(t) ==
  /\ pc[t] = "sync"
  /\ \/ Apply(ProcOf[t], Latest) /\ UNCHANGED badSyncs
     \/ /\ badSyncs < MaxBadSyncs
        /\ badSyncs' = badSyncs + 1
        /\ UNCHANGED <<view, watch, queue>>
  /\ pc' = [pc EXCEPT ![t] = "inject"]
  /\ UNCHANGED <<log, ready, handling, cache, owner, mine, turns, sets, resets, faults>>

\* Fault: synchronize does not wait for its event to come through.
InjectAndGo(t) ==
  /\ pc[t] = "inject"
  /\ pc' = [pc EXCEPT ![t] = "edit"]
  /\ UNCHANGED <<zkVars, ready, handling, cache, owner, mine, counters>>

\* The sync event is put behind the events that came before it.
Inject(t) ==
  /\ pc[t] = "inject"
  /\ queue' = [queue EXCEPT ![ProcOf[t]] = Append(@, t)]
  /\ pc' = [pc EXCEPT ![t] = "await"]
  /\ UNCHANGED <<log, view, watch, ready, handling, cache, owner, mine, counters>>

\* A thread that does without the lock.
BeginUnlocked(t) ==
  /\ pc[t] = "idle" /\ t \notin program.locking
  /\ turns < MaxTurns
  /\ pc' = [pc EXCEPT ![t] = "edit"]
  /\ turns' = turns + 1
  /\ UNCHANGED <<zkVars, ready, handling, cache, owner, mine, sets, resets, faults, badSyncs>>

-----------------------------------------------------------------------------
(* The event thread *)

HandleSync(p) ==
  /\ queue[p] # <<>> /\ Head(queue[p]) \in Threads
  /\ ~handling[p]
  /\ queue' = [queue EXCEPT ![p] = Tail(@)]
  /\ pc' = [pc EXCEPT ![Head(queue[p])] = "edit"]
  /\ UNCHANGED <<log, view, watch, ready, handling, cache, owner, mine, counters>>

\* unsetHandlerCallbackReady, which throws if the flag is not set.
HandleChange(p) ==
  /\ queue[p] # <<>> /\ Head(queue[p]) = "change"
  /\ ~handling[p] /\ ready[p]
  /\ queue' = [queue EXCEPT ![p] = Tail(@)]
  /\ ready' = [ready EXCEPT ![p] = FALSE]
  /\ handling' = [handling EXCEPT ![p] = TRUE]
  /\ UNCHANGED <<log, view, watch, cache, owner, pc, mine, counters>>

\* Fault: the watch is set although somebody else has set it meanwhile.
LoadRewatches(p) ==
  LET new == At(view[p])
  IN /\ watch' = [watch EXCEPT ![p] = TRUE]
     /\ ready' = [ready EXCEPT ![p] = TRUE]
     /\ cache' = IF cache[p].ver < view[p]
                 THEN [cache EXCEPT ![p] = [ver |-> view[p], state |-> new.state,
                                            hist |-> new.hist]]
                 ELSE cache

\* Fault: only a version newer than the cached one is worth a new watch.
LoadWatchesNewer(p) ==
  LET new == At(view[p])
  IN IF cache[p].ver < view[p]
     THEN /\ watch' = [watch EXCEPT ![p] = TRUE]
          /\ ready' = [ready EXCEPT ![p] = TRUE]
          /\ cache' = [cache EXCEPT ![p] = [ver |-> view[p], state |-> new.state,
                                            hist |-> new.hist]]
     ELSE UNCHANGED <<watch, ready, cache>>

\* loadDataFromRepository: the read sets the watch unless one is set or has
\* fired and waits to be handled.  A version that is not newer is dropped.
Load(p) ==
  LET new == At(view[p])
  IN /\ IF ready[p] THEN UNCHANGED <<watch, ready>>
                    ELSE /\ watch' = [watch EXCEPT ![p] = TRUE]
                         /\ ready' = [ready EXCEPT ![p] = TRUE]
     /\ cache' = IF cache[p].ver < view[p]
                 THEN [cache EXCEPT ![p] = [ver |-> view[p], state |-> new.state,
                                            hist |-> new.hist]]
                 ELSE cache

FinishChange(p) ==
  /\ handling[p]
  /\ Load(p)
  /\ handling' = [handling EXCEPT ![p] = FALSE]
  /\ UNCHANGED <<log, view, queue, owner, pc, mine, counters>>

-----------------------------------------------------------------------------
(* What a thread does with the cached data *)

SetKey(t) ==
  /\ pc[t] = "edit"
  /\ sets < MaxSets
  /\ sets' = sets + 1
  /\ cache' = [cache EXCEPT ![ProcOf[t]].state = @ \cup {sets}]
  /\ mine' = [mine EXCEPT ![t] = @ \cup {sets}]
  /\ UNCHANGED <<zkVars, ready, handling, owner, pc, turns, resets, faults, badSyncs>>

Reset(t) ==
  /\ pc[t] = "edit"
  /\ resets < MaxResets
  /\ resets' = resets + 1
  /\ Load(ProcOf[t])
  /\ UNCHANGED <<log, view, queue, handling, owner, pc, mine, turns, sets, faults, badSyncs>>

\* m_historyArr with the new state in front, cut to its maximal size.
Pushed(c) ==
  LET h == <<c.state>> \o c.hist
  IN SubSeq(h, 1, IF Len(h) > MaxHistory THEN MaxHistory ELSE Len(h))

\* setNodeData reaches the leader n times, and p's server with the reply.
Write(p, hist, n) ==
  /\ log' = log \o [i \in 1 .. n |-> [state |-> cache[p].state, hist |-> hist]]
  /\ Apply(p, Latest + n)

\* What publish leaves in the cache: the history, and the version if it learns it.
Cached(p, hist, ver) == cache' = [cache EXCEPT ![p].hist = hist, ![p].ver = ver]

PublishFrame(t) ==
  /\ pc[t] = "edit"
  /\ pc' = [pc EXCEPT ![t] = "finish"]
  /\ UNCHANGED <<ready, handling, owner, mine, turns, sets, resets, badSyncs>>

\* Fault: the version of the cache is not compared.
PublishUnchecked(t, unconditional) ==
  LET p == ProcOf[t]
      hist == Pushed(cache[p])
  IN /\ PublishFrame(t)
     /\ Write(p, hist, 1)
     /\ Cached(p, hist, Latest + 1)
     /\ UNCHANGED faults

\* The state is pushed on the history before ZooKeeper is asked to write it.
\* The write succeeds or finds another version (PublishVersionException).  When
\* its reply is lost, publish throws with the data written or not, or repeats an
\* unconditional write.
Publish(t, unconditional) ==
  LET p == ProcOf[t]
      hist == Pushed(cache[p])
      matches == unconditional \/ cache[p].ver = Latest
  IN /\ PublishFrame(t)
     /\ \/ /\ matches
           /\ Write(p, hist, 1)
           /\ Cached(p, hist, Latest + 1)
           /\ UNCHANGED faults
        \/ /\ ~matches
           /\ UNCHANGED <<zkVars, faults>>
           /\ Cached(p, hist, cache[p].ver)
        \/ /\ faults < MaxFaults
           /\ faults' = faults + 1
           /\ \/ UNCHANGED zkVars /\ Cached(p, hist, cache[p].ver)
              \/ matches /\ Write(p, hist, 1) /\ Cached(p, hist, cache[p].ver)
              \/ unconditional /\ Write(p, hist, 2) /\ Cached(p, hist, Latest + 2)

\* releaseLock, or the end of an unlocked use.
Finish(t) ==
  /\ pc[t] = "finish"
  /\ owner' = IF owner = t THEN NoThread ELSE owner
  /\ mine' = [mine EXCEPT ![t] = {}]
  /\ pc' = [pc EXCEPT ![t] = "idle"]
  /\ UNCHANGED <<zkVars, ready, handling, cache, counters>>

-----------------------------------------------------------------------------
EventStep(p) == CatchUp(p) \/ HandleSync(p) \/ HandleChange(p) \/ FinishChange(p)

Next ==
  /\ UNCHANGED program
  /\ \/ \E t \in Threads :
          \/ Acquire(t) \/ SyncCompletes(t) \/ Inject(t) \/ BeginUnlocked(t)
          \/ SetKey(t) \/ Reset(t) \/ Finish(t)
          \/ \E u \in program.unconditional : Publish(t, u)
     \/ \E p \in Procs : EventStep(p)

Spec == Init /\ [][Next]_vars

\* ZooKeeper's servers catch up and deliver, and event threads run.
FairSpec == Spec /\ \A p \in Procs : WF_vars(EventStep(p) /\ UNCHANGED program)

-----------------------------------------------------------------------------
(* Properties *)

\* The values of ZooKeeper's log, the event queues, the caches and the locals.
TypeOK ==
  /\ program \in Programs
  /\ log \in Seq(Record)
  /\ view \in [Procs -> Nat]
  /\ watch \in [Procs -> BOOLEAN]
  /\ queue \in [Procs -> Seq({"change"} \cup Threads)]
  /\ ready \in [Procs -> BOOLEAN]
  /\ handling \in [Procs -> BOOLEAN]
  /\ cache \in [Procs -> Cache]
  /\ owner \in Threads \cup {NoThread}
  /\ pc \in [Threads -> PC]
  /\ mine \in [Threads -> State]
  /\ {turns, sets, resets, faults, badSyncs} \subseteq Nat

\* The flag that says whether a watch must be set is right at every moment: it is
\* set exactly while a watch is set or its event is still to be handled, however
\* the event thread and a reset() of a client thread interleave.  Otherwise a
\* handler throws and ends the event thread, or no watch is ever set again.
\* (Every variable has its type, too.)
ReadyTracksWatch ==
  /\ TypeOK
  /\ \A p \in Procs :
       LET pending == {i \in DOMAIN queue[p] : queue[p][i] = "change"}
       IN /\ ready[p] <=> (watch[p] \/ pending # {})
          /\ watch[p] => pending = {}
          /\ \A i, j \in pending : i = j

\* loadDataFromRepository reads no version older than the cached one, which would
\* throw "Impossible that new version is ...", and what a process has cached goes
\* beyond the version it read only by set() calls.
CacheExtendsVersion ==
  \A p \in Procs :
    /\ cache[p].ver <= view[p]
    /\ At(cache[p].ver).state \subseteq cache[p].state

\* When all publish conditionally each publishes on top of everything published
\* before, with or without the lock: a version never lacks a key set in an
\* earlier one; and no cache runs ahead of what was published.
NoLostUpdate ==
  /\ CacheExtendsVersion
  /\ TRUE \notin program.unconditional =>
       \A v \in 1 .. Latest - 1 : log[v].state \subseteq log[v + 1].state

\* When every thread locks.  handleSynchronizeChange: "This ensures that all zk events prior to this point
\* are visible by each client".  A thread that has acquired the lock works on the
\* latest version until it releases, and unless some publish failed on just that
\* version and what it has set itself: its publish cannot throw
\* PublishVersionException.
LockedSeesLatest ==
  program.locking = Threads => \A t \in Threads :
    (owner = t /\ pc[t] = "edit") =>
      /\ cache[ProcOf[t]].ver = Latest
      /\ faults = 0 => cache[ProcOf[t]].state = At(Latest).state \cup mine[t]

\* When nobody publishes any more, every process comes to cache the last version.
CachesConverge == <>[](\A p \in Procs : cache[p].ver = Latest)
=============================================================================
