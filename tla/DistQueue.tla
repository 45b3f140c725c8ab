------------------------------ MODULE DistQueue ------------------------------
(***************************************************************************)
(* The distributed queue (src/src/core/queueimpl.cc).  An element is a     *)
(* sequence node below the queue's parent node in ZooKeeper.  A take reads *)
(* the children and tries to delete the first of them; when there is none  *)
(* it waits for the PredMutexCond (mutex.cc) that all takers of its        *)
(* process share through the queue event signal map (signalmap.cc).  Each  *)
(* process has one watch on the children; its event thread signals one     *)
(* waiter and only then sets the watch again (cachedobjectchangehandlers   *)
(* .cc, handleQueueChildChange).                                           *)
(*                                                                         *)
(* Every action is the code between two points where another thread, the   *)
(* event thread of the process or ZooKeeper can interfere.                 *)
(***************************************************************************)
EXTENDS Integers, FiniteSets

CONSTANTS
  Threads,    \* client threads that use the queue
  Procs,      \* client processes
  ProcOf,     \* the process of a thread
  Timed,      \* does takeWaitMsecs get a timeout of 0 or more? a set of BOOLEANs
  MaxPuts,    \* bound: put calls
  MaxTakes,   \* bound: takeWaitMsecs calls
  MaxOthers,  \* bound: front, clear and removeElement calls
  MaxFaults   \* bound: ZooKeeper calls whose reply is lost

ASSUME DistQueueAssumption ==
  /\ ProcOf \in [Threads -> Procs]
  /\ Timed \subseteq BOOLEAN
  /\ MaxPuts \in Nat
  /\ MaxTakes \in Nat
  /\ MaxOthers \in Nat
  /\ MaxFaults \in Nat

VARIABLES
  elements,   \* the sequence numbers of the queue's children in ZooKeeper
  nextSeq,    \* ZooKeeper's sequence counter of the parent node
  watch,      \* watch[p]: where the one watch of process p is
  cond,       \* cond[p]: the PredMutexCond of process p
  pc,         \* where a thread is
  call,       \* arguments and locals of a thread's current call
  taken,      \* taken[t]: the elements thread t has got from its takes
  removed,    \* the elements clear and removeElement have deleted
  puts, takes, others, faults

queueVars == <<elements, nextSeq, taken, removed>>
counters == <<puts, takes, others, faults>>
vars == <<elements, nextSeq, watch, cond, pc, call, taken, removed,
          puts, takes, others, faults>>

-----------------------------------------------------------------------------
\* "armed": set in ZooKeeper; "fired": the event is on its way; "signalled":
\* the handler has signalled and not yet set the watch again; "dead": setting
\* it threw, which ended the event thread.
WatchState == {"armed", "fired", "signalled", "dead"}
\* No entry in the signal map is a PredMutexCond without references.
Cond == [refs : Nat, pred : BOOLEAN]
NoCond == [refs |-> 0, pred |-> FALSE]
Call == [timed : BOOLEAN, late : BOOLEAN, seen : SUBSET Nat]
NoCall == [timed |-> FALSE, late |-> FALSE, seen |-> {}]
PC == {"idle", "list", "fetch", "delete", "enroll", "recheck", "wait", "asleep",
       "woken", "leave", "giveup", "peek", "clear", "remove"}
\* Between addRefPredMutexCond and removeRefPredMutexCond.
Enrolled == {"recheck", "wait", "asleep", "woken", "leave", "giveup"}

Init ==
  /\ elements = {}
  /\ nextSeq = 0
  /\ watch = [p \in Procs |-> "armed"]
  /\ cond = [p \in Procs |-> NoCond]
  /\ pc = [t \in Threads |-> "idle"]
  /\ call = [t \in Threads |-> NoCall]
  /\ taken = [t \in Threads |-> {}]
  /\ removed = {}
  /\ puts = 0 /\ takes = 0 /\ others = 0 /\ faults = 0

-----------------------------------------------------------------------------
Goto(t, label) == pc' = [pc EXCEPT ![t] = label]
Return(t) == Goto(t, "idle") /\ call' = [call EXCEPT ![t] = NoCall]
See(t, S) == call' = [call EXCEPT ![t].seen = S]
Fault == faults < MaxFaults /\ faults' = faults + 1
First(S) == CHOOSE e \in S : \A f \in S : e <= f

\* A change of the children triggers the watches that are set on them.
Trigger == watch' = [p \in Procs |-> IF watch[p] = "armed" THEN "fired" ELSE watch[p]]

\* ZooKeeper creates n sequence nodes: two when RetryHandler repeats a create
\* whose reply was lost.
AddElements(n) ==
  /\ elements' = elements \cup (nextSeq .. nextSeq + n - 1)
  /\ nextSeq' = nextSeq + n
  /\ Trigger

DeleteElement(e) == elements' = elements \ {e} /\ Trigger /\ UNCHANGED nextSeq

AddRef(p) == cond' = [cond EXCEPT ![p].refs = @ + 1]
\* The last reference deletes the PredMutexCond and with it the predicate.
RemoveRef(p) ==
  cond' = [cond EXCEPT ![p] = IF cond[p].refs = 1 THEN NoCond
                              ELSE [cond[p] EXCEPT !.refs = @ - 1]]

-----------------------------------------------------------------------------
(* put *)

Put(t) ==
  /\ pc[t] = "idle"
  /\ puts < MaxPuts
  /\ puts' = puts + 1
  /\ \/ AddElements(1) /\ UNCHANGED faults
     \/ Fault /\ (AddElements(1) \/ AddElements(2) \/ UNCHANGED <<elements, nextSeq, watch>>)
  /\ UNCHANGED <<cond, pc, call, taken, removed, takes, others>>

-----------------------------------------------------------------------------
(* takeWaitMsecs; take is the call without a timeout *)

CallTake(t) ==
  /\ pc[t] = "idle"
  /\ takes < MaxTakes
  /\ takes' = takes + 1
  /\ \E timed \in Timed : call' = [call EXCEPT ![t].timed = timed]
  /\ Goto(t, "list")
  /\ UNCHANGED <<queueVars, watch, cond, puts, others, faults>>

\* The time of the call passes its maxUsecs.
DeadlinePasses(t) ==
  /\ call[t].timed /\ ~call[t].late
  /\ call' = [call EXCEPT ![t].late = TRUE]
  /\ UNCHANGED <<queueVars, watch, cond, pc, counters>>

List(t) ==
  /\ pc[t] = "list"
  /\ IF elements = {}
     THEN Goto(t, "enroll") /\ UNCHANGED call
     ELSE See(t, {First(elements)}) /\ Goto(t, "fetch")
  /\ UNCHANGED <<queueVars, watch, cond, counters>>

\* getNodeData: somebody else may have deleted the first child meanwhile.
Fetch(t) ==
  /\ pc[t] = "fetch"
  /\ Goto(t, IF call[t].seen \subseteq elements THEN "delete" ELSE "list")
  /\ UNCHANGED <<queueVars, watch, cond, call, counters>>

Got(t, e) ==
  /\ taken' = [taken EXCEPT ![t] = @ \cup {e}]
  /\ Return(t)

\* Fault: the result of deleteNode is ignored.
DeleteIgnored(t) ==
  /\ pc[t] = "delete"
  /\ \E e \in call[t].seen :
       /\ IF e \in elements THEN DeleteElement(e) ELSE UNCHANGED <<elements, nextSeq, watch>>
       /\ Got(t, e)
  /\ UNCHANGED <<cond, removed, counters>>

\* deleteNode says who took the element.
Delete(t) ==
  /\ pc[t] = "delete"
  /\ \E e \in call[t].seen :
       IF e \in elements
       THEN DeleteElement(e) /\ Got(t, e)
       ELSE Goto(t, "list") /\ UNCHANGED <<elements, nextSeq, watch, taken, call>>
  /\ UNCHANGED <<cond, removed, counters>>

\* The reply of a delete that took effect is lost: the next attempt of
\* RetryHandler finds no node and the take goes on, or all attempts failed and
\* it throws.
DeleteReplyLost(t) ==
  /\ pc[t] = "delete"
  /\ Fault
  /\ \E e \in call[t].seen \cap elements : DeleteElement(e)
  /\ (Goto(t, "list") /\ UNCHANGED call) \/ Return(t)
  /\ UNCHANGED <<cond, taken, removed, puts, takes, others>>

Enroll(t) ==
  /\ pc[t] = "enroll"
  /\ AddRef(ProcOf[t])
  /\ Goto(t, "recheck")
  /\ UNCHANGED <<queueVars, watch, call, counters>>

Recheck(t) ==
  /\ pc[t] = "recheck"
  /\ Goto(t, IF elements = {} THEN "wait" ELSE "leave")
  /\ UNCHANGED <<queueVars, watch, cond, call, counters>>

\* predWaitUsecs: no wait if the predicate is set.
Wait(t) ==
  /\ pc[t] = "wait"
  /\ Goto(t, IF cond[ProcOf[t]].pred THEN "woken" ELSE "asleep")
  /\ UNCHANGED <<queueVars, watch, cond, call, counters>>

\* The condition variable is left at the deadline, or, as POSIX allows, without
\* a signal; a waiter that finds the predicate unset goes back to sleep.
Awake(t) ==
  /\ pc[t] = "asleep"
  /\ call[t].late \/ cond[ProcOf[t]].pred
  /\ Goto(t, "woken")
  /\ UNCHANGED <<queueVars, watch, cond, call, counters>>

\* Fault: a waiter that was signalled does not look at the deadline any more.
WokenKeepsOn(t) ==
  /\ pc[t] = "woken"
  /\ Goto(t, IF call[t].late /\ ~cond[ProcOf[t]].pred THEN "giveup" ELSE "leave")
  /\ UNCHANGED <<queueVars, watch, cond, call, counters>>

\* Past the deadline the call gives up, even if it was signalled.
Woken(t) ==
  /\ pc[t] = "woken"
  /\ Goto(t, IF call[t].late THEN "giveup" ELSE "leave")
  /\ UNCHANGED <<queueVars, watch, cond, call, counters>>

Leave(t) ==
  /\ pc[t] = "leave"
  /\ RemoveRef(ProcOf[t])
  /\ Goto(t, "list")
  /\ UNCHANGED <<queueVars, watch, call, counters>>

\* Fault: a call that gives up keeps its reference.
GiveUpKeepsRef(t) ==
  /\ pc[t] = "giveup"
  /\ Return(t)
  /\ UNCHANGED <<queueVars, watch, cond, counters>>

GiveUp(t) ==
  /\ pc[t] = "giveup"
  /\ RemoveRef(ProcOf[t])
  /\ Return(t)
  /\ UNCHANGED <<queueVars, watch, counters>>

\* A read of ZooKeeper throws out of the call; after addRefPredMutexCond the
\* reference stays.
ReadFails(t) ==
  /\ pc[t] \in {"list", "fetch", "recheck", "peek"}
  /\ Fault
  /\ Return(t)
  /\ UNCHANGED <<queueVars, watch, cond, puts, takes, others>>

-----------------------------------------------------------------------------
(* front, clear and removeElement: a read of the children, then one call to *)
(* ZooKeeper for each child it is about.                                    *)

CallOther(t) ==
  /\ pc[t] = "idle"
  /\ others < MaxOthers
  /\ others' = others + 1
  /\ elements # {}
  /\ \/ See(t, {First(elements)}) /\ Goto(t, "peek")
     \/ See(t, elements) /\ Goto(t, "clear")
     \/ \E e \in elements : See(t, {e}) /\ Goto(t, "remove")
  /\ UNCHANGED <<queueVars, watch, cond, puts, takes, faults>>

FinishFront(t) ==
  /\ pc[t] = "peek"
  /\ Return(t)
  /\ UNCHANGED <<queueVars, watch, cond, counters>>

\* clear and removeElement delete what they saw and is still there.
DeleteSeen(t) ==
  /\ pc[t] \in {"clear", "remove"}
  /\ LET e == First(call[t].seen)
     IN /\ IF e \in elements
           THEN DeleteElement(e) /\ removed' = removed \cup {e}
           ELSE UNCHANGED <<elements, nextSeq, watch, removed>>
        /\ IF call[t].seen = {e}
           THEN Return(t)
           ELSE See(t, call[t].seen \ {e}) /\ UNCHANGED pc
  /\ UNCHANGED <<cond, taken, counters>>

\* An exception in clear or removeElement, before or after the delete.
DeleteSeenFails(t) ==
  /\ pc[t] \in {"clear", "remove"}
  /\ Fault
  /\ LET e == First(call[t].seen)
     IN IF e \in elements
        THEN DeleteElement(e) \/ UNCHANGED <<elements, nextSeq, watch>>
        ELSE UNCHANGED <<elements, nextSeq, watch>>
  /\ Return(t)
  /\ UNCHANGED <<cond, taken, removed, puts, takes, others>>

-----------------------------------------------------------------------------
(* The event thread of a process: handleQueueChildChange *)

\* signalPredMutexCond: with an entry in the map its predicate is set and one
\* sleeping waiter is woken.
Signal(p) ==
  /\ watch[p] = "fired"
  /\ watch' = [watch EXCEPT ![p] = "signalled"]
  /\ IF cond[p].refs = 0
     THEN UNCHANGED <<cond, pc>>
     ELSE LET sleepers == {t \in Threads : ProcOf[t] = p /\ pc[t] = "asleep"}
          IN /\ cond' = [cond EXCEPT ![p].pred = TRUE]
             /\ IF sleepers = {} THEN UNCHANGED pc
                                 ELSE \E t \in sleepers : Goto(t, "woken")
  /\ UNCHANGED <<queueVars, call, counters>>

\* establishQueueWatch: the children it reads are not looked at.
SetWatch(p) ==
  /\ watch[p] = "signalled"
  /\ \/ watch' = [watch EXCEPT ![p] = "armed"] /\ UNCHANGED faults
     \/ Fault /\ watch' = [watch EXCEPT ![p] = "dead"]
  /\ UNCHANGED <<queueVars, cond, pc, call, puts, takes, others>>

-----------------------------------------------------------------------------
\* What the code does once a call has begun.
Step(t) ==
  \/ List(t) \/ Fetch(t) \/ Delete(t) \/ DeleteReplyLost(t) \/ Enroll(t) \/ Recheck(t)
  \/ Wait(t) \/ Woken(t) \/ Leave(t) \/ GiveUp(t) \/ ReadFails(t)
  \/ FinishFront(t) \/ DeleteSeen(t) \/ DeleteSeenFails(t)

Next ==
  \/ \E t \in Threads :
       Put(t) \/ CallTake(t) \/ CallOther(t) \/ Step(t) \/ Awake(t) \/ DeadlinePasses(t)
  \/ \E p \in Procs : Signal(p) \/ SetWatch(p)

Spec == Init /\ [][Next]_vars

\* Threads inside a call and event threads are scheduled, time passes, a timed
\* wait ends at its deadline; nothing obliges a condition variable to wake a
\* waiter without a signal.
Fairness ==
  /\ \A t \in Threads :
       /\ WF_vars(Step(t))
       /\ WF_vars(DeadlinePasses(t))
       /\ WF_vars(call[t].late /\ Awake(t))
  /\ \A p \in Procs : WF_vars(Signal(p) \/ SetWatch(p))

FairSpec == Spec /\ Fairness

-----------------------------------------------------------------------------
(* Properties *)

\* The values of the elements, watches, conditions and locals; the reference
\* counts of the signal map never go below zero.
TypeOK ==
  /\ elements \subseteq Nat
  /\ nextSeq \in Nat
  /\ watch \in [Procs -> WatchState]
  /\ cond \in [Procs -> Cond]
  /\ pc \in [Threads -> PC]
  /\ call \in [Threads -> Call]
  /\ taken \in [Threads -> SUBSET Nat]
  /\ removed \subseteq Nat
  /\ puts \in Nat /\ takes \in Nat /\ others \in Nat /\ faults \in Nat

Waiters(p) == {t \in Threads : ProcOf[t] = p /\ pc[t] \in Enrolled}

\* The PredMutexCond of a process lives as long as somebody waits on it and no
\* longer: with every call its references are those of the calls between add and
\* remove, so none is deleted under a sleeping taker, and only an exception leaves
\* one behind.  (Every variable has its type, too.)
CondCountsWaiters ==
  /\ TypeOK
  /\ \A p \in Procs :
       /\ cond[p].refs >= Cardinality(Waiters(p))
       /\ faults = 0 => cond[p].refs = Cardinality(Waiters(p))

\* A takeWaitMsecs with a timeout returns, whatever other takers and a predicate
\* that stays set do meanwhile.
TimedTakeReturns ==
  \A t \in Threads : (call[t].timed) ~> (pc[t] = "idle")

Abstract == INSTANCE AbstractQueue WITH
  Takers <- Threads, queue <- elements, nextId <- nextSeq, lossy <- (faults > 0)

\* Every behaviour is one of a FIFO queue that hands each element to one taker:
\* between the read of the children and the delete of the first one, other takers,
\* clear and removeElement may interfere.
ImplementsAbstractQueue == Abstract!Spec
=============================================================================
