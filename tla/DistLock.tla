------------------------------ MODULE DistLock ------------------------------
(***************************************************************************)
(* The distributed locks of one Notifyable (src/src/core/distributedlocks  *)
(* .cc and the owner records of notifyableimpl.cc).  A thread that wants a *)
(* lock takes the per-process mutex of the Notifyable (m_syncDistLock),    *)
(* creates an ephemeral sequence node, its bid, and keeps the mutex until  *)
(* no older incompatible bid is left, its deadline passes or a call to     *)
(* ZooKeeper throws.  While an older bid is in its way it waits for a      *)
(* watch on that one bid; ZooKeeper turns the removal of a watched bid     *)
(* into an event, which the process's event thread turns into a signal.    *)
(*                                                                         *)
(* Every action is the code between two points where another thread, the   *)
(* event thread of the process or ZooKeeper can interfere.                 *)
(***************************************************************************)
EXTENDS Integers, FiniteSets

CONSTANTS
  Threads,     \* threads of all client processes that lock this Notifyable
  Procs,       \* client processes, each with one FactoryOps and one session
  ProcOf,      \* the process of a thread
  Locks,       \* lock names used on the Notifyable
  NoThread,    \* the owner of a free mutex
  Nested,      \* may a thread that holds a lock acquire or query again?
  CanRemove,   \* may another client remove the Notifyable?
  MaxCalls,    \* bound: acquireLock and hasLock calls in a behaviour
  MaxFaults,   \* bound: ZooKeeper calls whose reply is lost
  MaxCrashes,  \* bound: processes that crash
  MaxExpired   \* bound: processes that lose their session and live on

ASSUME DistLockAssumption ==
  /\ ProcOf \in [Threads -> Procs]
  /\ NoThread \notin Threads
  /\ Locks # {}
  /\ Nested \in BOOLEAN
  /\ CanRemove \in BOOLEAN
  /\ MaxCalls \in Nat
  /\ MaxFaults \in Nat
  /\ MaxCrashes \in Nat
  /\ MaxExpired \in Nat

VARIABLES
  proc,        \* proc[p]: "up", "expired", "crashed" or "gone"
  removal,     \* removal of the Notifyable: "no", "started", "done"
  bids,        \* bids[l]: the children of the lock node l in ZooKeeper
  nextSeq,     \* nextSeq[l]: ZooKeeper's sequence counter of that node
  watches,     \* exists-watches set on bids
  events,      \* watch events on their way to the process
  mutex,       \* mutex[p]: owner of m_syncDistLock in process p
  pc,          \* where a thread is
  call,        \* arguments and locals of a thread's current call
  held,        \* m_nameThreadLockMap: owner record of a thread for a lock
  calls, faults

zkVars == <<bids, nextSeq, watches, events>>
vars == <<proc, removal, bids, nextSeq, watches, events, mutex, pc, call, held,
          calls, faults>>

-----------------------------------------------------------------------------
LockTypes == {"SHARED", "EXCL"}
NoBid == -1
BidNumber == Nat \cup {NoBid}
Bid == [seq : Nat, owner : Threads, type : LockTypes]
Call == [lock : Locks, type : LockTypes, timed : BOOLEAN,
         bid : BidNumber,          \* myBid
         pred : BidNumber,         \* the older bid the call waits for
         signalled : BOOLEAN]      \* m_pred of its PredMutexCond
NoCall == [lock |-> CHOOSE l \in Locks : TRUE, type |-> "SHARED", timed |-> FALSE,
           bid |-> NoBid, pred |-> NoBid, signalled |-> FALSE]
NameRef == [type : LockTypes, seq : BidNumber, count : Nat]
NotHeld == [type |-> "SHARED", seq |-> NoBid, count |-> 0]
WatchKey == [proc : Procs, lock : Locks, seq : Nat]
ProcState == {"up", "expired", "crashed", "gone"}
PC == {"idle", "enter", "bid", "scan", "watch", "wait", "giveup", "sync", "delete",
       "query"}

Init ==
  /\ proc = [p \in Procs |-> "up"]
  /\ removal = "no"
  /\ bids = [l \in Locks |-> {}]
  /\ nextSeq = [l \in Locks |-> 0]
  /\ watches = {}
  /\ events = {}
  /\ mutex = [p \in Procs |-> NoThread]
  /\ pc = [t \in Threads |-> "idle"]
  /\ call = [t \in Threads |-> NoCall]
  /\ held = [t \in Threads |-> [l \in Locks |-> NotHeld]]
  /\ calls = 0
  /\ faults = 0

-----------------------------------------------------------------------------
Up(t) == proc[ProcOf[t]] = "up"
Runs(t) == proc[ProcOf[t]] \in {"up", "expired"}
At(t, label) == Runs(t) /\ pc[t] = label
Goto(t, label) == pc' = [pc EXCEPT ![t] = label]
Return(t) == Goto(t, "idle") /\ call' = [call EXCEPT ![t] = NoCall]
Holds(t, l) == held[t][l].count > 0

Lock(t) == mutex' = [mutex EXCEPT ![ProcOf[t]] = t]
Unlock(t) == mutex' = [mutex EXCEPT ![ProcOf[t]] = NoThread]
Fault == faults < MaxFaults /\ faults' = faults + 1

\* ZooKeeper's children of the lock nodes become newBids; every watch on a bid
\* that is no longer there turns into an event.
SetBids(newBids) ==
  LET left == {k \in watches : \E b \in newBids[k.lock] : b.seq = k.seq}
  IN /\ bids' = newBids
     /\ watches' = left
     /\ events' = events \cup (watches \ left)
     /\ UNCHANGED nextSeq

WithoutBid(l, seq) == [bids EXCEPT ![l] = {b \in @ : b.seq # seq}]
WithoutProc(p) == [l \in Locks |-> {b \in bids[l] : ProcOf[b.owner] # p}]

\* The bids a create leaves behind: one, or two when the reply to the first
\* attempt is lost and RetryHandler repeats it.
AddBids(t, n) ==
  LET l == call[t].lock
      new(i) == [seq |-> nextSeq[l] + i, owner |-> t, type |-> call[t].type]
  IN /\ bids' = [bids EXCEPT ![l] = @ \cup {new(i) : i \in 0 .. n - 1}]
     /\ nextSeq' = [nextSeq EXCEPT ![l] = @ + n]
     /\ UNCHANGED <<watches, events>>

\* deleteNode on the own bid.  It may throw, when every retry failed, the last
\* one before or after ZooKeeper deleted the node.
DeleteOwnBid(t) ==
  \/ SetBids(WithoutBid(call[t].lock, call[t].bid)) /\ UNCHANGED faults
  \/ /\ Fault
     /\ UNCHANGED zkVars \/ SetBids(WithoutBid(call[t].lock, call[t].bid))

OwnBid(t, b) == b.owner = t /\ b.type = call[t].type

\* Another bid under the same host-pid-tid and lock type as the caller's own.
OtherOwnBids(t) == {b \in bids[call[t].lock] : OwnBid(t, b) /\ b.seq # call[t].bid}

\* Fault: an exclusive request overlooks the shared bids before it.
ConsideredExclOnly(t) ==
  {b \in bids[call[t].lock] : b.type = "EXCL" \/ OwnBid(t, b)}

\* The bids a shared or an exclusive request takes into account.
Considered(t) ==
  {b \in bids[call[t].lock] : \/ call[t].type = "EXCL"
                              \/ b.type = "EXCL"
                              \/ OwnBid(t, b)}
OlderBids(t) == {b \in Considered(t) : b.seq < call[t].bid}
OwnBidListed(t) == \E b \in Considered(t) : b.seq = call[t].bid

\* The path a waiting thread has watched, and its PredMutexCond is kept under.
PredKey(t) == [proc |-> ProcOf[t], lock |-> call[t].lock, seq |-> call[t].pred]

-----------------------------------------------------------------------------
(* acquireWaitUsecs *)

CallAcquire(t) ==
  /\ At(t, "idle")
  /\ calls < MaxCalls
  /\ Nested \/ \A l \in Locks : ~Holds(t, l)
  /\ \E l \in Locks, type \in LockTypes, timed \in BOOLEAN :
       call' = [call EXCEPT ![t] = [NoCall EXCEPT !.lock = l, !.type = type,
                                                  !.timed = timed]]
  /\ Goto(t, "enter")
  /\ calls' = calls + 1
  /\ UNCHANGED <<proc, removal, zkVars, mutex, held, faults>>

\* Take m_syncDistLock and find no owner record of this thread.
Enter(t) ==
  /\ At(t, "enter")
  /\ mutex[ProcOf[t]] = NoThread
  /\ ~Holds(t, call[t].lock)
  /\ Lock(t)
  /\ Goto(t, "bid")
  /\ UNCHANGED <<proc, removal, zkVars, call, held, calls, faults>>

\* Fault: a re-entrant attempt of the other type is counted as well.
ReenterAnyType(t) ==
  LET l == call[t].lock
  IN /\ At(t, "enter")
     /\ mutex[ProcOf[t]] = NoThread
     /\ Holds(t, l)
     /\ held' = [held EXCEPT ![t][l].count = @ + 1, ![t][l].type = call[t].type]
     /\ Return(t)
     /\ UNCHANGED <<proc, removal, zkVars, mutex, calls, faults>>

\* isReentrantLockAttempt: a record of the same type is counted up.
Reenter(t) ==
  LET l == call[t].lock
  IN /\ At(t, "enter")
     /\ mutex[ProcOf[t]] = NoThread
     /\ Holds(t, l)
     /\ held[t][l].type = call[t].type
     /\ held' = [held EXCEPT ![t][l].count = @ + 1]
     /\ Return(t)
     /\ UNCHANGED <<proc, removal, zkVars, mutex, calls, faults>>

\* A record of the other type throws InvalidArgumentsException; the creation of
\* the lock node, which comes first, throws when the Notifyable goes or ZooKeeper
\* fails.
ReenterFails(t) ==
  /\ At(t, "enter")
  /\ mutex[ProcOf[t]] = NoThread
  /\ Holds(t, call[t].lock)
  /\ \/ /\ held[t][call[t].lock].type # call[t].type \/ removal # "no"
        /\ UNCHANGED faults
     \/ Fault
  /\ Return(t)
  /\ UNCHANGED <<proc, removal, zkVars, mutex, held, calls>>

CreateBid(t) ==
  /\ At(t, "bid")
  /\ removal # "done"
  /\ \E n \in {1, 2} :
       /\ IF n = 1 THEN UNCHANGED faults ELSE Fault
       /\ AddBids(t, n)
       /\ call' = [call EXCEPT ![t].bid = nextSeq[call[t].lock] + n - 1]
  /\ Goto(t, "scan")
  /\ UNCHANGED <<proc, removal, mutex, held, calls>>

\* createSequence throws: the lock node is going, or every retry failed, the last
\* one before or after ZooKeeper created the node.
CreateBidFails(t) ==
  /\ At(t, "bid")
  /\ \/ removal # "no" /\ UNCHANGED <<zkVars, faults>>
     \/ removal # "done" /\ Fault /\ (UNCHANGED zkVars \/ AddBids(t, 1))
  /\ Unlock(t)
  /\ Return(t)
  /\ UNCHANGED <<proc, removal, held, calls>>

\* One pass over the children: no older bid counts and the own bid is listed.
ScanOwns(t) ==
  /\ At(t, "scan")
  /\ OtherOwnBids(t) = {} /\ OlderBids(t) = {} /\ OwnBidListed(t)
  /\ held' = [held EXCEPT ![t][call[t].lock] =
                [type |-> call[t].type, seq |-> call[t].bid, count |-> 1]]
  /\ Goto(t, "sync")
  /\ UNCHANGED <<proc, removal, zkVars, mutex, call, calls, faults>>

\* Older bids are in the way: pick the youngest of them and register the
\* PredMutexCond under its path before looking at the node.
ScanWaits(t) ==
  /\ At(t, "scan")
  /\ OtherOwnBids(t) = {}
  /\ \E b \in OlderBids(t) :
       /\ \A c \in OlderBids(t) : c.seq <= b.seq
       /\ call' = [call EXCEPT ![t].pred = b.seq, ![t].signalled = FALSE]
  /\ Goto(t, "watch")
  /\ UNCHANGED <<proc, removal, zkVars, mutex, held, calls, faults>>

\* "Impossible that ... already has bid", or no child counts any more.
ScanThrows(t) ==
  /\ At(t, "scan")
  /\ \/ OtherOwnBids(t) # {}
     \/ OlderBids(t) = {} /\ ~OwnBidListed(t)
  /\ Unlock(t)
  /\ Return(t)
  /\ UNCHANGED <<proc, removal, zkVars, held, calls, faults>>

\* Fault: the result of nodeExists is ignored.
WatchPredBlindly(t) ==
  /\ At(t, "watch")
  /\ watches' = IF \E b \in bids[call[t].lock] : b.seq = call[t].pred
                THEN watches \cup {PredKey(t)} ELSE watches
  /\ Goto(t, "wait")
  /\ UNCHANGED <<proc, removal, bids, nextSeq, events, mutex, call, held, calls, faults>>

\* nodeExists on the older bid sets the watch if it is still there; if it is
\* gone, the loop goes on or the deadline has passed.
WatchPred(t) ==
  /\ At(t, "watch")
  /\ IF \E b \in bids[call[t].lock] : b.seq = call[t].pred
     THEN watches' = watches \cup {PredKey(t)} /\ Goto(t, "wait")
     ELSE /\ UNCHANGED watches
          /\ \/ Goto(t, "scan")
             \/ call[t].timed /\ Goto(t, "giveup")
  /\ UNCHANGED <<proc, removal, bids, nextSeq, events, mutex, call, held, calls, faults>>

\* Fault: the waiter takes the lock as soon as the bid before it is gone.
WakeUpOwns(t) ==
  /\ At(t, "wait")
  /\ call[t].signalled
  /\ held' = [held EXCEPT ![t][call[t].lock] =
                [type |-> call[t].type, seq |-> call[t].bid, count |-> 1]]
  /\ Goto(t, "sync")
  /\ UNCHANGED <<proc, removal, zkVars, mutex, call, calls, faults>>

WakeUp(t) ==
  /\ At(t, "wait")
  /\ call[t].signalled
  /\ Goto(t, "scan")
  /\ UNCHANGED <<proc, removal, zkVars, mutex, call, held, calls, faults>>

\* The deadline passes in the wait or has passed when the wait is over: give
\* up, even if the signal came.
DeadlinePasses(t) ==
  /\ At(t, "wait")
  /\ call[t].timed
  /\ Goto(t, "giveup")
  /\ UNCHANGED <<proc, removal, zkVars, mutex, call, held, calls, faults>>

\* Fault: the bid of a call that timed out is left behind.
GiveUpKeepsBid(t) ==
  /\ At(t, "giveup")
  /\ Unlock(t)
  /\ Return(t)
  /\ UNCHANGED <<proc, removal, zkVars, held, calls, faults>>

\* Delete the own bid and return false (or throw).
GiveUp(t) ==
  /\ At(t, "giveup")
  /\ DeleteOwnBid(t)
  /\ Unlock(t)
  /\ Return(t)
  /\ UNCHANGED <<proc, removal, held, calls>>

\* synchronize() returns once the process's event thread handled the sync event,
\* which never happens after it gave up on an expired session; or it throws, and
\* then acquireLock throws while the owner record stays.
SyncReturns(t) ==
  /\ At(t, "sync")
  /\ \/ Up(t) /\ UNCHANGED faults
     \/ Fault
  /\ Unlock(t)
  /\ Return(t)
  /\ UNCHANGED <<proc, removal, zkVars, held, calls>>

\* A read of ZooKeeper in the loop throws: the bid stays behind.
ReadFails(t) ==
  /\ At(t, "scan") \/ At(t, "watch")
  /\ Fault
  /\ Unlock(t)
  /\ Return(t)
  /\ UNCHANGED <<proc, removal, zkVars, held, calls>>

-----------------------------------------------------------------------------
(* release and hasLock; release takes no mutex *)

\* Fault: release does not look whether the thread holds the lock.
ReleaseUnchecked(t, l) ==
  /\ At(t, "idle")
  /\ held' = [held EXCEPT ![t][l].count = @ - 1]
  /\ call' = [call EXCEPT ![t].lock = l, ![t].bid = held[t][l].seq]
  /\ Goto(t, "delete")
  /\ UNCHANGED <<proc, removal, zkVars, mutex, calls, faults>>

\* The owner record is counted down, and erased at the last count, before the
\* bid is deleted.
Release(t, l) ==
  /\ At(t, "idle")
  /\ Holds(t, l)
  /\ IF held[t][l].count > 1
     THEN /\ held' = [held EXCEPT ![t][l].count = @ - 1]
          /\ UNCHANGED <<pc, call>>
     ELSE /\ held' = [held EXCEPT ![t][l] = NotHeld]
          /\ call' = [call EXCEPT ![t].lock = l, ![t].bid = held[t][l].seq]
          /\ Goto(t, "delete")
  /\ UNCHANGED <<proc, removal, zkVars, mutex, calls, faults>>

\* Fault: release forgets the owner record only.
DeleteBidSkipped(t) ==
  /\ At(t, "delete")
  /\ Return(t)
  /\ UNCHANGED <<proc, removal, zkVars, mutex, held, calls, faults>>

DeleteBid(t) ==
  /\ At(t, "delete")
  /\ DeleteOwnBid(t)
  /\ Return(t)
  /\ UNCHANGED <<proc, removal, mutex, held, calls>>

CallHasLock(t) ==
  /\ At(t, "idle")
  /\ Nested
  /\ calls < MaxCalls
  /\ Goto(t, "query")
  /\ calls' = calls + 1
  /\ UNCHANGED <<proc, removal, zkVars, mutex, call, held, faults>>

HasLock(t) ==
  /\ At(t, "query")
  /\ mutex[ProcOf[t]] = NoThread
  /\ Goto(t, "idle")
  /\ UNCHANGED <<proc, removal, zkVars, mutex, call, held, calls, faults>>

-----------------------------------------------------------------------------
(* The event thread, ZooKeeper and the removal of the Notifyable *)

\* handlePrecLockNodeExistsChange: signal the PredMutexCond registered under the
\* path of the deleted bid, if there is one.
DeliverDeleted(k) ==
  /\ proc[k.proc] = "up"
  /\ events' = events \ {k}
  /\ call' = [t \in Threads |->
       IF /\ ProcOf[t] = k.proc
          /\ pc[t] \in {"watch", "wait"}
          /\ call[t].lock = k.lock
          /\ call[t].pred = k.seq
       THEN [call[t] EXCEPT !.signalled = TRUE]
       ELSE call[t]]
  /\ UNCHANGED <<proc, removal, bids, nextSeq, watches, mutex, pc, held, calls, faults>>

InState(S) == Cardinality({p \in Procs : proc[p] \in S})

Crash(p) ==
  /\ proc[p] = "up"
  /\ InState({"crashed", "gone"}) < MaxCrashes
  /\ proc' = [proc EXCEPT ![p] = "crashed"]
  /\ UNCHANGED <<removal, zkVars, mutex, pc, call, held, calls, faults>>

\* ZooKeeper ends the session of a crashed process, or of one that was cut off
\* for too long; the ephemeral bids go.  The cut-off process lives on with an
\* event thread that has stopped (dispatchSessionEvent sets m_shutdown).
SessionEnds(p) ==
  /\ \/ proc[p] = "crashed" /\ proc' = [proc EXCEPT ![p] = "gone"]
     \/ /\ proc[p] = "up"
        /\ InState({"expired"}) < MaxExpired
        /\ proc' = [proc EXCEPT ![p] = "expired"]
  /\ SetBids(WithoutProc(p))
  /\ UNCHANGED <<removal, mutex, pc, call, held, calls, faults>>

\* Another client removes the Notifyable: ZooKeeper's recursive delete takes the
\* lock nodes and the bids below them one by one.
StartRemoval ==
  /\ CanRemove /\ removal = "no"
  /\ removal' = "started"
  /\ UNCHANGED <<proc, zkVars, mutex, pc, call, held, calls, faults>>

RemoveBid(l) ==
  /\ removal = "started"
  /\ \E b \in bids[l] : SetBids(WithoutBid(l, b.seq))
  /\ UNCHANGED <<proc, removal, mutex, pc, call, held, calls, faults>>

FinishRemoval ==
  /\ removal = "started"
  /\ \A l \in Locks : bids[l] = {}
  /\ removal' = "done"
  /\ UNCHANGED <<proc, zkVars, mutex, pc, call, held, calls, faults>>

-----------------------------------------------------------------------------
\* What the code does once a call has begun.
Step(t) ==
  \/ Enter(t) \/ Reenter(t) \/ ReenterFails(t) \/ CreateBid(t) \/ CreateBidFails(t)
  \/ ScanOwns(t) \/ ScanWaits(t) \/ ScanThrows(t)
  \/ WatchPred(t) \/ WakeUp(t) \/ DeadlinePasses(t) \/ GiveUp(t)
  \/ SyncReturns(t) \/ ReadFails(t)
  \/ DeleteBid(t) \/ HasLock(t)

Next ==
  \/ \E t \in Threads :
       \/ CallAcquire(t) \/ CallHasLock(t) \/ Step(t)
       \/ \E l \in Locks : Release(t, l)
  \/ \E k \in events : DeliverDeleted(k)
  \/ \E p \in Procs : Crash(p) \/ SessionEnds(p)
  \/ StartRemoval \/ FinishRemoval
  \/ \E l \in Locks : RemoveBid(l)

Spec == Init /\ [][Next]_vars

\* A thread inside a call is scheduled, a holder lets go, a crashed session times
\* out and ZooKeeper's events are delivered.
Fairness ==
  /\ \A t \in Threads : WF_vars(Step(t)) /\ \A l \in Locks : WF_vars(Release(t, l))
  /\ WF_vars(\E k \in events : DeliverDeleted(k))
  /\ \A p \in Procs : WF_vars(proc[p] = "crashed" /\ SessionEnds(p))

FairSpec == Spec /\ Fairness

-----------------------------------------------------------------------------
(* Properties *)

\* The values of the owner records, bids, watches and locals.
TypeOK ==
  /\ proc \in [Procs -> ProcState]
  /\ removal \in {"no", "started", "done"}
  /\ bids \in [Locks -> SUBSET Bid]
  /\ nextSeq \in [Locks -> Nat]
  /\ watches \subseteq WatchKey
  /\ events \subseteq WatchKey
  /\ mutex \in [Procs -> Threads \cup {NoThread}]
  /\ pc \in [Threads -> PC]
  /\ call \in [Threads -> Call]
  /\ held \in [Threads -> [Locks -> NameRef]]
  /\ calls \in Nat
  /\ faults \in Nat

\* Two threads of connected processes own the same lock only if both own it
\* shared, whatever faults, timeouts and lost sessions came before: the owner
\* records that hasLock and release go by never contradict each other.
MutualExclusion ==
  removal = "no" =>
    \A t, u \in Threads, l \in Locks :
      (t # u /\ Up(t) /\ Up(u) /\ Holds(t, l) /\ Holds(u, l)) =>
        held[t][l].type = "SHARED" /\ held[u][l].type = "SHARED"

\* An owner record is backed by a bid in ZooKeeper, and no older bid that the
\* owner would have had to wait for is left: locks are granted in the order of
\* the bids, and nobody takes a lock past a waiter it conflicts with.
GrantedInBidOrder ==
  removal = "no" =>
    \A t \in Threads, l \in Locks :
      (Up(t) /\ Holds(t, l)) =>
        /\ [seq |-> held[t][l].seq, owner |-> t, type |-> held[t][l].type] \in bids[l]
        /\ \A b \in bids[l] :
             (b.seq < held[t][l].seq) => (held[t][l].type = "SHARED" /\ b.type = "SHARED")

\* A thread in the wait of acquireWaitUsecs has its wake-up coming: the bid it
\* waits for is still there and watched, its removal is on the way as an event,
\* or the signal has been given.
NoLostWakeup ==
  \A t \in Threads :
    (Up(t) /\ pc[t] = "wait") =>
      \/ call[t].signalled
      \/ PredKey(t) \in events
      \/ PredKey(t) \in watches /\ \E b \in bids[call[t].lock] : b.seq = call[t].pred

\* As long as no call to ZooKeeper fails, a bid stands for a call in progress or
\* for an owner record: a timeout, a release or a thrown exception leaves none
\* behind that would block the other clients until the session ends.
NoOrphanBid ==
  \A l \in Locks : \A b \in bids[l] :
    (faults = 0 /\ Up(b.owner)) =>
      \/ held[b.owner][l].seq = b.seq
      \/ call[b.owner].lock = l /\ call[b.owner].bid = b.seq

\* Every acquireLock returns, unless a thread enters again a lock that another thread
\* of its process waits for: the deadline passes, the lock is granted in turn, or the
\* thread's own process loses its session or dies.
AcquireReturns ==
  \A t \in Threads : (pc[t] = "enter") ~> (pc[t] = "idle" \/ ~Up(t))

(***************************************************************************)
(* The lock as its clients see it: a thread of a connected process holds   *)
(* what its owner records say.                                             *)
(***************************************************************************)
ClientView ==
  [t \in Threads |-> [l \in Locks |->
     IF Up(t) THEN [type |-> held[t][l].type, count |-> held[t][l].count]
              ELSE [type |-> "SHARED", count |-> 0]]]

Abstract == INSTANCE AbstractLock WITH holds <- ClientView, void <- (removal # "no")

\* Every behaviour of the recipe, seen through the owner records, is one of a
\* re-entrant shared/exclusive lock.
ImplementsAbstractLock == Abstract!Spec
=============================================================================
