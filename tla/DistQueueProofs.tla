---------------------------- MODULE DistQueueProofs ----------------------------
(***************************************************************************)
(* The invariants of DistQueue and its refinement of AbstractQueue, for    *)
(* any number of threads and processes and any bounds.                     *)
(***************************************************************************)
EXTENDS DistQueue, FiniteSetTheorems, WellFoundedInduction, TLAPS

-----------------------------------------------------------------------------
(* The operators *)

\* A set of elements that is not empty has a first one.
LEMMA FirstIsLeast ==
  ASSUME NEW S \in SUBSET Nat, S # {}
  PROVE  First(S) \in S /\ First(S) \in Nat /\ \A f \in S : First(S) <= f
<1> DEFINE R == OpToRel(<, Nat)
<1>1. IsWellFoundedOn(R, Nat)
  BY NatLessThanWellFounded
<1> HIDE DEF R
<1>2. PICK e \in S : \A f \in S : ~ (<<f, e>> \in R)
  BY <1>1, WFMin
<1>3. \A x, y \in Nat : x < y => <<x, y>> \in R
  BY DEF R, OpToRel
<1>4. ASSUME NEW f \in S PROVE e <= f
  <2>1. e \in Nat /\ f \in Nat /\ ~ (<<f, e>> \in R)
    BY <1>2
  <2>2. ~ (f < e)
    BY <1>3, <2>1
  <2> QED BY <2>1, <2>2
<1> QED BY <1>2, <1>4 DEF First

\* What ZooKeeper's part of a step does: it takes elements away or adds ones with
\* numbers that were never used, and leaves the watches watches.
Fresh ==
  /\ nextSeq' \in Nat /\ nextSeq <= nextSeq'
  /\ elements' \subseteq Nat
  /\ \A e \in elements' : e < nextSeq' /\ (e \in elements \/ nextSeq <= e)
  /\ watch' \in [Procs -> WatchState]

\* The elements are below ZooKeeper's counter.
Bounded == \A e \in elements : e < nextSeq

\* A change of the children only fires watches.
LEMMA TriggerType ==
  ASSUME watch \in [Procs -> WatchState], Trigger
  PROVE  watch' \in [Procs -> WatchState]
BY DEF Trigger, WatchState

\* A put gives its elements new numbers.
LEMMA AddElementsEffect ==
  ASSUME TypeOK, Bounded, NEW n \in {1, 2}, AddElements(n)
  PROVE  Fresh
<1>1. watch' \in [Procs -> WatchState]
  BY TriggerType DEF AddElements, TypeOK
<1>2. nextSeq \in Nat /\ elements \subseteq Nat
  BY DEF TypeOK
<1>3. elements' = elements \cup (nextSeq .. nextSeq + n - 1) /\ nextSeq' = nextSeq + n
  BY DEF AddElements
<1>4. nextSeq' \in Nat /\ nextSeq <= nextSeq'
  BY <1>2, <1>3
<1>5. ASSUME NEW e \in elements'
      PROVE  e \in Nat /\ e < nextSeq' /\ (e \in elements \/ nextSeq <= e)
  <2>1. CASE e \in elements
    BY <1>2, <1>3, <2>1 DEF Bounded
  <2>2. CASE e \in nextSeq .. nextSeq + n - 1
    <3>1. n \in Nat /\ nextSeq + n - 1 \in Int
      BY <1>2
    <3>2. e \in Int /\ nextSeq <= e /\ e <= nextSeq + n - 1
      BY <1>2, <2>2, <3>1
    <3> QED BY <1>2, <1>3, <3>1, <3>2
  <2> QED BY <1>3, <2>1, <2>2
<1> QED BY <1>1, <1>4, <1>5 DEF Fresh

\* A delete takes one element away.
LEMMA DeleteElementEffect ==
  ASSUME TypeOK, Bounded, NEW e, DeleteElement(e)
  PROVE  Fresh
<1>1. watch' \in [Procs -> WatchState]
  BY TriggerType DEF DeleteElement, TypeOK
<1>2. elements' = elements \ {e} /\ nextSeq' = nextSeq
  BY DEF DeleteElement
<1>3. nextSeq \in Nat /\ elements \subseteq Nat
  BY DEF TypeOK
<1>4. \A f \in elements' : f \in elements /\ f \in Nat /\ f < nextSeq'
  BY <1>2, <1>3 DEF Bounded
<1>5. nextSeq' \in Nat /\ nextSeq <= nextSeq'
  BY <1>2, <1>3
<1> QED BY <1>1, <1>4, <1>5 DEF Fresh

\* Nothing happened to the elements.
LEMMA SameElements ==
  ASSUME TypeOK, Bounded, UNCHANGED <<elements, nextSeq>>, watch' \in [Procs -> WatchState]
  PROVE  Fresh
BY DEF Fresh, Bounded, TypeOK

\* Every step does one of these to the elements.
LEMMA FreshStep ==
  ASSUME TypeOK, Bounded, [Next]_vars
  PROVE  Fresh
<1>1. CASE UNCHANGED <<elements, nextSeq, watch>>
  BY <1>1, SameElements DEF TypeOK
<1>2. CASE UNCHANGED <<queueVars, watch>>
  BY <1>1, <1>2 DEF queueVars
<1>3. ASSUME NEW e, DeleteElement(e) PROVE Fresh
  BY <1>3, DeleteElementEffect
<1>4. ASSUME NEW t \in Threads, Put(t) PROVE Fresh
  BY <1>1, <1>4, AddElementsEffect DEF Put
<1>5. ASSUME NEW t \in Threads,
             Delete(t) \/ DeleteReplyLost(t) \/ DeleteSeen(t) \/ DeleteSeenFails(t)
      PROVE  Fresh
  <2>1. (\E e : DeleteElement(e)) \/ UNCHANGED <<elements, nextSeq, watch>>
    BY <1>5 DEF Delete, DeleteReplyLost, DeleteSeen, DeleteSeenFails
  <2> QED BY <1>1, <1>3, <2>1
<1>6. ASSUME NEW t \in Threads,
             \/ CallTake(t) \/ CallOther(t) \/ Awake(t) \/ DeadlinePasses(t)
             \/ List(t) \/ Fetch(t) \/ Enroll(t) \/ Recheck(t) \/ Wait(t) \/ Woken(t)
             \/ Leave(t) \/ GiveUp(t) \/ ReadFails(t) \/ FinishFront(t)
      PROVE  Fresh
  BY <1>2, <1>6 DEF CallTake, CallOther, Awake, DeadlinePasses, List, Fetch, Enroll, Recheck, Wait,
                    Woken, Leave, GiveUp, ReadFails, FinishFront
<1>7. ASSUME NEW p \in Procs, Signal(p) \/ SetWatch(p) PROVE Fresh
  <2>1. UNCHANGED queueVars
    BY <1>7 DEF Signal, SetWatch
  <2>2. watch' \in [Procs -> WatchState]
    BY <1>7 DEF Signal, SetWatch, TypeOK, WatchState
  <2> QED BY <2>1, <2>2, SameElements DEF queueVars
<1>8. CASE UNCHANGED vars
  BY <1>1, <1>8 DEF vars
<1> QED BY <1>4, <1>5, <1>6, <1>7, <1>8 DEF Next, Step

-----------------------------------------------------------------------------
(* The elements a call has seen *)

\* A take goes for one element with no older one beside it; clear and removeElement
\* have something left to delete.
SeenInv(t) ==
  /\ pc[t] \in {"fetch", "delete"} =>
       \E e \in Nat : call[t].seen = {e} /\ e < nextSeq /\ \A f \in elements : e <= f
  /\ pc[t] \in {"clear", "remove"} => call[t].seen # {}

\* A thread the step does not touch.
Untouched(t) == pc'[t] = pc[t] /\ call'[t].seen = call[t].seen

\* New elements are younger than what a take has seen.
LEMMA SeenKept ==
  ASSUME TypeOK, Fresh, NEW t \in Threads, Untouched(t), SeenInv(t)
  PROVE  SeenInv(t)'
<1>1. CASE pc[t] \in {"fetch", "delete"}
  <2>1. PICK e \in Nat : call[t].seen = {e} /\ e < nextSeq /\ \A f \in elements : e <= f
    BY <1>1 DEF SeenInv
  <2>2. nextSeq \in Nat /\ nextSeq' \in Nat /\ e < nextSeq' /\ elements' \subseteq Nat
    BY <2>1 DEF TypeOK, Fresh
  <2>3. \A f \in elements' : e <= f
    BY <2>1, <2>2 DEF Fresh
  <2> QED BY <1>1, <2>1, <2>2, <2>3 DEF SeenInv, Untouched
<1>2. CASE pc[t] \notin {"fetch", "delete"}
  BY <1>2 DEF SeenInv, Untouched
<1> QED BY <1>1, <1>2

\* Assignments to the locals of one call.
LEMMA CallUpdate ==
  ASSUME TypeOK, NEW t \in Threads
  PROVE  /\ call[t] \in Call /\ call[t].seen \subseteq Nat
         /\ NoCall \in Call /\ NoCall.seen = {}
         /\ \A c \in Call : [call EXCEPT ![t] = c] \in [Threads -> Call]
         /\ \A S \in SUBSET Nat : [call[t] EXCEPT !.seen = S] \in Call
         /\ \A b \in BOOLEAN : [call[t] EXCEPT !.timed = b] \in Call
         /\ [call[t] EXCEPT !.late = TRUE] \in Call
BY DEF TypeOK, Call, NoCall

\* What See writes.
LEMMA SeeEffect ==
  ASSUME TypeOK, NEW t \in Threads, NEW S \in SUBSET Nat, See(t, S)
  PROVE  call' \in [Threads -> Call] /\ call'[t].seen = S
<1>1. call' = [call EXCEPT ![t] = [call[t] EXCEPT !.seen = S]]
  BY DEF See
<1>2. [call[t] EXCEPT !.seen = S] \in Call
  BY CallUpdate
<1>3. [call[t] EXCEPT !.seen = S].seen = S
  BY CallUpdate DEF Call
<1> DEFINE c == [call[t] EXCEPT !.seen = S]
<1> HIDE DEF c
<1>4. call' = [call EXCEPT ![t] = c] /\ c \in Call /\ c.seen = S
  BY <1>1, <1>2, <1>3 DEF c
<1>5. call \in [Threads -> Call]
  BY DEF TypeOK
<1> QED BY <1>4, <1>5

\* What a return writes.
LEMMA ReturnEffect ==
  ASSUME TypeOK, NEW t \in Threads, Return(t)
  PROVE  /\ call' \in [Threads -> Call]
         /\ pc' \in [Threads -> PC] /\ pc'[t] = "idle"
BY CallUpdate DEF Return, Goto, TypeOK, PC

\* What a step does to the locals of the thread that takes it.
Moved(t) ==
  /\ pc' \in [Threads -> PC]
  /\ call' \in [Threads -> Call]
  /\ SeenInv(t)'

\* A thread that goes to a place where nothing is said of what it has seen.
LEMMA PlainMove ==
  ASSUME TypeOK, NEW t \in Threads, call' \in [Threads -> Call],
         NEW c \in PC \ {"fetch", "delete", "clear", "remove"}, Goto(t, c)
  PROVE  Moved(t)
BY DEF Moved, SeenInv, Goto, TypeOK

\* The steps of the threads keep the locals typed and SeenInv.
LEMMA OwnStep ==
  ASSUME TypeOK, Bounded, NEW t \in Threads, SeenInv(t),
         CallTake(t) \/ CallOther(t) \/ Step(t) \/ Awake(t)
  PROVE  Moved(t)
<1>a. /\ call \in [Threads -> Call] /\ pc \in [Threads -> PC]
      /\ elements \subseteq Nat /\ nextSeq \in Nat
  BY DEF TypeOK
<1>1. CASE CallTake(t)
  <2>1. PICK b \in BOOLEAN : call' = [call EXCEPT ![t] = [call[t] EXCEPT !.timed = b]]
    BY <1>1, DistQueueAssumption DEF CallTake
  <2>2. call' \in [Threads -> Call]
    BY <2>1, CallUpdate
  <2> QED BY <1>1, <2>2, PlainMove DEF CallTake, PC
<1>2. CASE CallOther(t)
  <2>1. elements # {} /\ First(elements) \in Nat
    BY <1>a, <1>2, FirstIsLeast DEF CallOther
  <2>2. CASE See(t, {First(elements)}) /\ Goto(t, "peek")
    <3>1. {First(elements)} \in SUBSET Nat
      BY <2>1
    <3>2. call' \in [Threads -> Call]
      BY <2>2, <3>1, SeeEffect
    <3> QED BY <2>2, <3>2, PlainMove DEF PC
  <2>3. CASE See(t, elements) /\ Goto(t, "clear")
    <3>1. call' \in [Threads -> Call] /\ call'[t].seen # {}
      BY <1>a, <2>1, <2>3, SeeEffect
    <3>2. pc' \in [Threads -> PC] /\ pc'[t] = "clear"
      BY <1>a, <2>3 DEF Goto, PC
    <3> QED BY <3>1, <3>2 DEF Moved, SeenInv
  <2>4. ASSUME NEW e \in elements, See(t, {e}), Goto(t, "remove") PROVE Moved(t)
    <3>0. {e} \in SUBSET Nat
      BY <1>a
    <3>1. call' \in [Threads -> Call] /\ call'[t].seen # {}
      BY <2>4, <3>0, SeeEffect
    <3>2. pc' \in [Threads -> PC] /\ pc'[t] = "remove"
      BY <1>a, <2>4 DEF Goto, PC
    <3> QED BY <3>1, <3>2 DEF Moved, SeenInv
  <2> QED BY <1>2, <2>2, <2>3, <2>4 DEF CallOther
<1>3. CASE List(t)
  <2>1. CASE elements = {}
    BY <1>a, <1>3, <2>1, PlainMove DEF List, PC
  <2>2. CASE elements # {}
    <3> DEFINE e == First(elements)
    <3>1. e \in elements /\ e \in Nat /\ \A f \in elements : e <= f
      BY <1>a, <2>2, FirstIsLeast
    <3>2. See(t, {e}) /\ Goto(t, "fetch") /\ UNCHANGED <<elements, nextSeq>>
      BY <1>3, <2>2 DEF List, queueVars
    <3> HIDE DEF e
    <3>3. {e} \in SUBSET Nat /\ e < nextSeq
      BY <3>1 DEF Bounded
    <3>4. call' \in [Threads -> Call] /\ call'[t].seen = {e}
      BY <3>2, <3>3, SeeEffect
    <3>5. pc' \in [Threads -> PC] /\ pc'[t] = "fetch"
      BY <1>a, <3>2 DEF Goto, PC
    <3> QED BY <3>1, <3>2, <3>3, <3>4, <3>5 DEF Moved, SeenInv
  <2> QED BY <2>1, <2>2
<1>4. CASE Fetch(t)
  <2>1. /\ pc[t] = "fetch" /\ UNCHANGED <<elements, nextSeq, call>>
        /\ Goto(t, "delete") \/ Goto(t, "list")
    BY <1>4 DEF Fetch, queueVars
  <2>2. CASE Goto(t, "delete")
    <3>1. pc' \in [Threads -> PC] /\ pc'[t] = "delete"
      BY <1>a, <2>2 DEF Goto, PC
    <3> QED BY <1>a, <2>1, <3>1 DEF Moved, SeenInv
  <2>3. CASE Goto(t, "list")
    BY <1>a, <2>1, <2>3, PlainMove DEF PC
  <2> QED BY <2>1, <2>2, <2>3
<1>5. CASE Return(t)
  BY <1>5, ReturnEffect DEF Moved, SeenInv
<1>6. CASE /\ call' = call
           /\ \E c \in {"list", "recheck", "wait", "leave", "asleep", "woken", "giveup"} : Goto(t, c)
  BY <1>a, <1>6, PlainMove DEF PC
<1>7. CASE DeleteSeen(t)
  <2> DEFINE e == First(call[t].seen)
  <2>1. call[t].seen # {} /\ call[t].seen \in SUBSET Nat
    BY <1>7, CallUpdate DEF DeleteSeen, SeenInv
  <2>2. CASE call[t].seen # {e}
    <3>1. See(t, call[t].seen \ {e}) /\ pc' = pc /\ pc[t] \in {"clear", "remove"}
      BY <1>7, <2>2 DEF DeleteSeen
    <3>2. e \in call[t].seen
      BY <2>1, FirstIsLeast
    <3> HIDE DEF e
    <3>3. call' \in [Threads -> Call] /\ call'[t].seen # {}
      <4>1. call[t].seen \ {e} \in SUBSET Nat /\ call[t].seen \ {e} # {}
        BY <2>1, <2>2, <3>2
      <4> QED BY <3>1, <4>1, SeeEffect
    <3> QED BY <1>a, <3>1, <3>3 DEF Moved, SeenInv
  <2>3. CASE call[t].seen = {e}
    BY <1>5, <1>7, <2>3 DEF DeleteSeen
  <2> QED BY <2>2, <2>3
<1>8. CASE Delete(t) \/ DeleteReplyLost(t)
  BY <1>5, <1>6, <1>8 DEF Delete, DeleteReplyLost, Got
<1>9. CASE Enroll(t) \/ Recheck(t) \/ Wait(t) \/ Woken(t) \/ Leave(t) \/ Awake(t)
  BY <1>6, <1>9 DEF Enroll, Recheck, Wait, Woken, Leave, Awake
<1>10. CASE GiveUp(t) \/ ReadFails(t) \/ FinishFront(t) \/ DeleteSeenFails(t)
  BY <1>5, <1>10 DEF GiveUp, ReadFails, FinishFront, DeleteSeenFails
<1> QED BY <1>1, <1>2, <1>3, <1>4, <1>7, <1>8, <1>9, <1>10 DEF Step

\* A step of one thread leaves the locals of the others alone.
LEMMA OthersUntouched ==
  ASSUME TypeOK, NEW t \in Threads, NEW u \in Threads, u # t,
         CallTake(t) \/ CallOther(t) \/ Step(t) \/ Awake(t)
  PROVE  Untouched(u)
<1>1. /\ pc' = pc \/ \E c : pc' = [pc EXCEPT ![t] = c]
      /\ call' = call \/ \E c : call' = [call EXCEPT ![t] = c]
  <2>1. CASE CallTake(t) \/ CallOther(t) \/ Awake(t)
    BY <2>1 DEF CallTake, CallOther, Awake, Goto, See
  <2>2. CASE List(t) \/ Fetch(t) \/ Enroll(t) \/ Recheck(t) \/ Wait(t) \/ Woken(t) \/ Leave(t)
    BY <2>2 DEF List, Fetch, Enroll, Recheck, Wait, Woken, Leave, Goto, See
  <2>3. CASE Delete(t) \/ DeleteReplyLost(t) \/ GiveUp(t) \/ ReadFails(t) \/ FinishFront(t)
             \/ DeleteSeen(t) \/ DeleteSeenFails(t)
    BY <2>3 DEF Delete, DeleteReplyLost, GiveUp, ReadFails, FinishFront, DeleteSeen,
                DeleteSeenFails, Got, Return, Goto, See
  <2> QED BY <2>1, <2>2, <2>3 DEF Step
<1> QED BY <1>1 DEF Untouched, TypeOK

\* Every step keeps the locals typed and what is said of the elements seen.
LEMMA SeenStep ==
  ASSUME TypeOK, Bounded, \A t \in Threads : SeenInv(t), [Next]_vars
  PROVE  /\ pc' \in [Threads -> PC]
         /\ call' \in [Threads -> Call]
         /\ \A t \in Threads : SeenInv(t)'
<1>a. Fresh /\ pc \in [Threads -> PC] /\ call \in [Threads -> Call]
  BY FreshStep DEF TypeOK
<1>1. ASSUME NEW t \in Threads, CallTake(t) \/ CallOther(t) \/ Step(t) \/ Awake(t)
      PROVE  /\ pc' \in [Threads -> PC] /\ call' \in [Threads -> Call]
             /\ \A u \in Threads : SeenInv(u)'
  <2>1. Moved(t)
    BY <1>1, OwnStep
  <2>2. ASSUME NEW u \in Threads, u # t PROVE SeenInv(u)'
    <3>1. Untouched(u)
      BY <1>1, <2>2, OthersUntouched
    <3> QED BY <1>a, <3>1, SeenKept
  <2> QED BY <2>1, <2>2 DEF Moved
<1>2. ASSUME pc' \in [Threads -> PC], call' \in [Threads -> Call],
             \A u \in Threads : Untouched(u)
      PROVE  /\ pc' \in [Threads -> PC] /\ call' \in [Threads -> Call]
             /\ \A u \in Threads : SeenInv(u)'
  BY <1>2, <1>a, SeenKept
<1>3. CASE UNCHANGED <<pc, call>>
  BY <1>2, <1>3, <1>a DEF Untouched
<1>4. ASSUME NEW t \in Threads, DeadlinePasses(t)
      PROVE  /\ pc' \in [Threads -> PC] /\ call' \in [Threads -> Call]
             /\ \A u \in Threads : SeenInv(u)'
  <2> DEFINE c == [call[t] EXCEPT !.late = TRUE]
  <2>1. call' = [call EXCEPT ![t] = c] /\ pc' = pc
    BY <1>4 DEF DeadlinePasses
  <2>2. c \in Call /\ c.seen = call[t].seen
    BY <1>a, CallUpdate DEF Call
  <2> HIDE DEF c
  <2>3. call' \in [Threads -> Call] /\ \A u \in Threads : call'[u].seen = call[u].seen
    BY <1>a, <2>1, <2>2
  <2> QED BY <1>2, <1>a, <2>1, <2>3 DEF Untouched
<1>5. ASSUME NEW p \in Procs, Signal(p)
      PROVE  /\ pc' \in [Threads -> PC] /\ call' \in [Threads -> Call]
             /\ \A u \in Threads : SeenInv(u)'
  <2>1. CASE pc' = pc
    BY <1>3, <1>5, <2>1 DEF Signal
  <2>2. ASSUME NEW t \in Threads, Goto(t, "woken")
        PROVE  /\ pc' \in [Threads -> PC] /\ call' \in [Threads -> Call]
               /\ \A u \in Threads : SeenInv(u)'
    <3>1. call' = call
      BY <1>5 DEF Signal
    <3>2. Moved(t)
      BY <1>a, <2>2, <3>1, PlainMove DEF PC
    <3>3. ASSUME NEW u \in Threads, u # t PROVE SeenInv(u)'
      <4>1. Untouched(u)
        BY <1>a, <2>2, <3>1, <3>3 DEF Goto, Untouched
      <4> QED BY <1>a, <4>1, SeenKept
    <3> QED BY <3>2, <3>3 DEF Moved
  <2> QED BY <1>5, <2>1, <2>2 DEF Signal
<1>6. CASE \/ \E t \in Threads : Put(t)
           \/ \E p \in Procs : SetWatch(p)
           \/ UNCHANGED vars
  BY <1>3, <1>6 DEF Put, SetWatch, vars
<1> QED BY <1>1, <1>4, <1>5, <1>6 DEF Next

-----------------------------------------------------------------------------
(* The references of the PredMutexConds *)

\* A thread that moves enters, leaves or keeps its place among the waiters of its
\* process.
LEMMA WaitersMove ==
  ASSUME TypeOK, NEW t \in Threads, NEW c, Goto(t, c), NEW p \in Procs
  PROVE  /\ ProcOf[t] # p => Waiters(p)' = Waiters(p)
         /\ (ProcOf[t] = p /\ c \in Enrolled) => Waiters(p)' = Waiters(p) \cup {t}
         /\ c \notin Enrolled => Waiters(p)' = Waiters(p) \ {t}
         /\ t \in Waiters(p) <=> (ProcOf[t] = p /\ pc[t] \in Enrolled)
         /\ (c \in Enrolled <=> pc[t] \in Enrolled) => Waiters(p)' = Waiters(p)
<1>1. \A u \in Threads : pc'[u] = IF u = t THEN c ELSE pc[u]
  BY DEF TypeOK, Goto
<1>2. \A u \in Threads : u \in Waiters(p) <=> (ProcOf[u] = p /\ pc[u] \in Enrolled)
  BY DEF Waiters
<1>3. \A u \in Threads : u \in Waiters(p)' <=> (ProcOf[u] = p /\ pc'[u] \in Enrolled)
  BY DEF Waiters
<1>4. Waiters(p) \subseteq Threads /\ Waiters(p)' \subseteq Threads
  BY DEF Waiters
<1> QED BY <1>1, <1>2, <1>3, <1>4

\* The references count the waiters, and more only after a fault.
Counted(p) ==
  /\ IsFiniteSet(Waiters(p))
  /\ cond[p].refs >= Cardinality(Waiters(p))
  /\ faults = 0 => cond[p].refs = Cardinality(Waiters(p))

\* What a step may do to the references and the waiters of a process.
Counts(p) ==
  \/ Waiters(p)' = Waiters(p) /\ cond'[p].refs = cond[p].refs
  \/ \E t \in Threads \ Waiters(p) :
       Waiters(p)' = Waiters(p) \cup {t} /\ cond'[p].refs = cond[p].refs + 1
  \/ \E t \in Waiters(p) :
       Waiters(p)' = Waiters(p) \ {t} /\ cond'[p].refs = cond[p].refs - 1
  \/ \E t \in Threads :
       faults' # 0 /\ Waiters(p)' = Waiters(p) \ {t} /\ cond'[p].refs = cond[p].refs

\* References that go with the waiters keep counting them.
LEMMA CountsKeep ==
  ASSUME TypeOK, NEW p \in Procs, Counted(p), Counts(p), faults' = 0 => faults = 0
  PROVE  Counted(p)'
<1> DEFINE W == Waiters(p)
           n == cond[p].refs
<1>1. /\ n \in Nat /\ IsFiniteSet(W) /\ n >= Cardinality(W)
      /\ faults = 0 => n = Cardinality(W)
  BY DEF Counted, TypeOK, Cond
<1>2. Cardinality(W) \in Nat
  BY <1>1, FS_CardinalityType
<1>3. CASE W' = W /\ cond'[p].refs = n
  BY <1>1, <1>3 DEF Counted
<1>4. ASSUME NEW t \in Threads \ W, W' = W \cup {t}, cond'[p].refs = n + 1
      PROVE  Counted(p)'
  <2>1. IsFiniteSet(W \cup {t}) /\ Cardinality(W \cup {t}) = Cardinality(W) + 1
    BY <1>1, <1>4, FS_AddElement
  <2>2. IsFiniteSet(W') /\ Cardinality(W') = Cardinality(W) + 1
    BY <1>4, <2>1
  <2> QED BY <1>1, <1>2, <1>4, <2>2 DEF Counted
<1>5. ASSUME NEW t \in W, W' = W \ {t}, cond'[p].refs = n - 1
      PROVE  Counted(p)'
  <2>1. IsFiniteSet(W \ {t}) /\ Cardinality(W \ {t}) = Cardinality(W) - 1
    BY <1>1, <1>5, FS_RemoveElement
  <2>2. IsFiniteSet(W') /\ Cardinality(W') = Cardinality(W) - 1
    BY <1>5, <2>1
  <2> QED BY <1>1, <1>2, <1>5, <2>2 DEF Counted
<1>6. ASSUME NEW t \in Threads, faults' # 0, W' = W \ {t}, cond'[p].refs = n
      PROVE  Counted(p)'
  <2>1. IsFiniteSet(W \ {t}) /\ Cardinality(W \ {t}) <= Cardinality(W)
    <3>1. /\ IsFiniteSet(W \ {t})
          /\ Cardinality(W \ {t}) = IF t \in W THEN Cardinality(W) - 1 ELSE Cardinality(W)
      BY <1>1, FS_RemoveElement
    <3> QED BY <1>2, <3>1
  <2>2. IsFiniteSet(W') /\ Cardinality(W') <= Cardinality(W)
    BY <1>6, <2>1
  <2>3. Cardinality(W') \in Nat
    BY <2>2, FS_CardinalityType
  <2> QED BY <1>1, <1>2, <1>6, <2>2, <2>3 DEF Counted
<1> QED BY <1>3, <1>4, <1>5, <1>6 DEF Counts

\* The last reference takes the predicate with it, an earlier one only itself.
LEMMA RemoveRefEffect ==
  ASSUME TypeOK, NEW p \in Procs, cond[p].refs > 0, RemoveRef(p)
  PROVE  /\ cond' \in [Procs -> Cond]
         /\ cond'[p].refs = cond[p].refs - 1
         /\ \A q \in Procs : q # p => cond'[q] = cond[q]
<1> DEFINE c == IF cond[p].refs = 1 THEN NoCond ELSE [cond[p] EXCEPT !.refs = cond[p].refs - 1]
<1>1. cond' = [cond EXCEPT ![p] = c]
  BY DEF RemoveRef
<1>2. cond[p] \in Cond /\ cond[p].refs \in Nat /\ cond \in [Procs -> Cond]
  BY DEF TypeOK, Cond
<1>3. c \in Cond /\ c.refs = cond[p].refs - 1
  BY <1>2 DEF Cond, NoCond
<1> HIDE DEF c
<1> QED BY <1>1, <1>2, <1>3

\* One more reference.
LEMMA AddRefEffect ==
  ASSUME TypeOK, NEW p \in Procs, AddRef(p)
  PROVE  /\ cond' \in [Procs -> Cond]
         /\ cond'[p].refs = cond[p].refs + 1
         /\ \A q \in Procs : q # p => cond'[q] = cond[q]
<1> DEFINE c == [cond[p] EXCEPT !.refs = cond[p].refs + 1]
<1>1. cond' = [cond EXCEPT ![p] = c]
  BY DEF AddRef
<1>2. cond[p] \in Cond /\ cond[p].refs \in Nat /\ cond \in [Procs -> Cond]
  BY DEF TypeOK, Cond
<1>3. c \in Cond /\ c.refs = cond[p].refs + 1
  BY <1>2 DEF Cond
<1> HIDE DEF c
<1> QED BY <1>1, <1>2, <1>3

\* A thread that enrolls adds a reference, one that leaves or gives up removes its
\* own, and only a read that fails forgets it.
LEMMA CountStep ==
  ASSUME TypeOK, \A p \in Procs : Counted(p), [Next]_vars
  PROVE  /\ cond' \in [Procs -> Cond]
         /\ \A p \in Procs : Counts(p)
         /\ faults' \in Nat /\ (faults' = 0 => faults = 0)
<1> DEFINE StepGoal == /\ cond' \in [Procs -> Cond]
                       /\ \A p \in Procs : Counts(p)
<1>a. /\ cond \in [Procs -> Cond] /\ pc \in [Threads -> PC] /\ faults \in Nat
      /\ \A p \in Procs : cond[p].refs \in Nat
  BY DEF TypeOK, Cond
<1>b. \A t \in Threads : ProcOf[t] \in Procs
  BY DistQueueAssumption
<1>c. Fault => faults' \in Nat /\ faults' # 0
  BY <1>a DEF Fault
<1>1. ASSUME UNCHANGED <<cond, pc>> PROVE StepGoal
  BY <1>1, <1>a DEF Counts, Waiters
<1>2. ASSUME NEW t \in Threads, NEW c, Goto(t, c), c \in Enrolled <=> pc[t] \in Enrolled,
             UNCHANGED cond
      PROVE  StepGoal
  BY <1>2, <1>a, WaitersMove DEF Counts
<1>3. ASSUME NEW t \in Threads, Enroll(t) PROVE StepGoal
  <2> DEFINE q == ProcOf[t]
  <2>1. pc[t] = "enroll" /\ Goto(t, "recheck") /\ AddRef(q)
    BY <1>3 DEF Enroll
  <2>2. /\ cond' \in [Procs -> Cond] /\ cond'[q].refs = cond[q].refs + 1
        /\ \A p \in Procs : p # q => cond'[p] = cond[p]
    BY <1>b, <2>1, AddRefEffect
  <2>3. "enroll" \notin Enrolled /\ "recheck" \in Enrolled
    BY DEF Enrolled
  <2>4. t \notin Waiters(q) /\ Waiters(q)' = Waiters(q) \cup {t}
    BY <1>b, <2>1, <2>3, WaitersMove
  <2>5. \A p \in Procs : p # q => Waiters(p)' = Waiters(p)
    BY <2>1, WaitersMove
  <2> QED BY <1>b, <2>2, <2>4, <2>5 DEF Counts
<1>4. ASSUME NEW t \in Threads, Leave(t) \/ GiveUp(t) PROVE StepGoal
  <2> DEFINE q == ProcOf[t]
  <2>1. PICK c \in {"list", "idle"} : Goto(t, c)
    BY <1>4 DEF Leave, GiveUp, Return
  <2>2. pc[t] \in Enrolled /\ c \notin Enrolled /\ RemoveRef(q)
    BY <1>4 DEF Leave, GiveUp, Enrolled
  <2>3. t \in Waiters(q) /\ Waiters(q)' = Waiters(q) \ {t}
    BY <1>b, <2>1, <2>2, WaitersMove
  <2>4. cond[q].refs > 0
    <3>1. IsFiniteSet(Waiters(q)) /\ cond[q].refs >= Cardinality(Waiters(q))
      BY <1>b DEF Counted
    <3>2. Cardinality(Waiters(q)) \in Nat /\ Cardinality(Waiters(q)) # 0
      BY <2>3, <3>1, FS_CardinalityType, FS_EmptySet
    <3> QED BY <1>a, <1>b, <3>1, <3>2
  <2>5. /\ cond' \in [Procs -> Cond] /\ cond'[q].refs = cond[q].refs - 1
        /\ \A p \in Procs : p # q => cond'[p] = cond[p]
    BY <1>b, <2>2, <2>4, RemoveRefEffect
  <2>6. \A p \in Procs : p # q => Waiters(p)' = Waiters(p)
    BY <2>1, WaitersMove
  <2> QED BY <1>b, <2>3, <2>5, <2>6 DEF Counts
<1>5. ASSUME NEW t \in Threads, ReadFails(t) PROVE StepGoal
  <2>1. Goto(t, "idle") /\ Fault /\ UNCHANGED cond
    BY <1>5 DEF ReadFails, Return
  <2>2. \A p \in Procs : Waiters(p)' = Waiters(p) \ {t}
    BY <2>1, WaitersMove DEF Enrolled
  <2> QED BY <1>a, <1>c, <2>1, <2>2 DEF Counts
<1>6. ASSUME NEW t \in Threads,
             \/ CallTake(t) \/ CallOther(t) \/ List(t) \/ Fetch(t) \/ Delete(t)
             \/ DeleteReplyLost(t) \/ FinishFront(t) \/ DeleteSeen(t) \/ DeleteSeenFails(t)
      PROVE  StepGoal
  <2>1. /\ UNCHANGED cond /\ pc[t] \notin Enrolled
        /\ \/ pc' = pc
           \/ \E c \in {"list", "peek", "clear", "remove", "fetch", "delete", "enroll", "idle"} :
                Goto(t, c)
    <3>1. CASE CallTake(t) \/ CallOther(t) \/ List(t) \/ Fetch(t)
      BY <3>1 DEF CallTake, CallOther, List, Fetch, Enrolled
    <3>2. CASE Delete(t) \/ DeleteReplyLost(t) \/ FinishFront(t) \/ DeleteSeen(t)
               \/ DeleteSeenFails(t)
      BY <3>2 DEF Delete, DeleteReplyLost, FinishFront, DeleteSeen, DeleteSeenFails, Got, Return,
                  Enrolled
    <3> QED BY <1>6, <3>1, <3>2
  <2> QED BY <1>1, <1>2, <2>1 DEF Enrolled
<1>7. ASSUME NEW t \in Threads, Recheck(t) \/ Wait(t) \/ Woken(t) \/ Awake(t)
      PROVE  StepGoal
  <2>1. /\ UNCHANGED cond /\ pc[t] \in Enrolled
        /\ \E c \in {"wait", "leave", "woken", "asleep", "giveup"} : Goto(t, c)
    BY <1>7 DEF Recheck, Wait, Woken, Awake, Enrolled
  <2> QED BY <1>2, <2>1 DEF Enrolled
<1>8. ASSUME NEW p \in Procs, Signal(p) PROVE StepGoal
  <2>1. CASE UNCHANGED <<cond, pc>>
    BY <1>1, <2>1
  <2>2. CASE cond' = [cond EXCEPT ![p].pred = TRUE]
    <3> DEFINE c == [cond[p] EXCEPT !.pred = TRUE]
    <3>1. cond' = [cond EXCEPT ![p] = c] /\ c \in Cond /\ c.refs = cond[p].refs
      BY <1>a, <2>2 DEF Cond
    <3> HIDE DEF c
    <3>2. cond' \in [Procs -> Cond] /\ \A q \in Procs : cond'[q].refs = cond[q].refs
      BY <1>a, <3>1
    <3>3. ASSUME NEW q \in Procs PROVE Waiters(q)' = Waiters(q)
      <4>1. pc' = pc \/ \E t \in Threads : pc[t] = "asleep" /\ Goto(t, "woken")
        BY <1>8, <2>2 DEF Signal
      <4>2. CASE pc' = pc
        BY <4>2 DEF Waiters
      <4>3. ASSUME NEW t \in Threads, pc[t] = "asleep", Goto(t, "woken")
            PROVE  Waiters(q)' = Waiters(q)
        BY <4>3, WaitersMove DEF Enrolled
      <4> QED BY <4>1, <4>2, <4>3
    <3> QED BY <3>2, <3>3 DEF Counts
  <2> QED BY <1>8, <2>1, <2>2 DEF Signal
<1>9. ASSUME \/ \E t \in Threads : Put(t) \/ DeadlinePasses(t)
             \/ \E p \in Procs : SetWatch(p)
             \/ UNCHANGED vars
      PROVE  StepGoal
  BY <1>1, <1>9 DEF Put, DeadlinePasses, SetWatch, vars
<1>10. StepGoal
  <2> HIDE DEF StepGoal
  <2> QED BY <1>3, <1>4, <1>5, <1>6, <1>7, <1>8, <1>9 DEF Next, Step
<1>11. faults' = faults \/ Fault
  BY DEF Next, Step, Put, CallTake, CallOther, Awake, DeadlinePasses, List, Fetch, Delete,
         DeleteReplyLost, Enroll, Recheck, Wait, Woken, Leave, GiveUp, ReadFails, FinishFront,
         DeleteSeen, DeleteSeenFails, Signal, SetWatch, vars, counters
<1> QED BY <1>a, <1>c, <1>10, <1>11

-----------------------------------------------------------------------------
(* The invariant *)

IInv ==
  /\ TypeOK
  /\ Bounded
  /\ \A t \in Threads : SeenInv(t)
  /\ \A p \in Procs : Counted(p)

\* What the takers got and what was removed stays a set of numbers, and the
\* counters stay numbers.
LEMMA RestTypes ==
  ASSUME TypeOK, [Next]_vars
  PROVE  /\ taken' \in [Threads -> SUBSET Nat] /\ removed' \subseteq Nat
         /\ puts' \in Nat /\ takes' \in Nat /\ others' \in Nat
<1>a. /\ taken \in [Threads -> SUBSET Nat] /\ removed \subseteq Nat /\ elements \subseteq Nat
      /\ puts \in Nat /\ takes \in Nat /\ others \in Nat
  BY DEF TypeOK
<1>1. taken' = taken \/ \E t \in Threads, e \in Nat : taken' = [taken EXCEPT ![t] = @ \cup {e}]
  <2>1. ASSUME NEW t \in Threads, Delete(t)
        PROVE  \/ taken' = taken
               \/ \E e \in Nat : taken' = [taken EXCEPT ![t] = @ \cup {e}]
    BY <1>a, <2>1 DEF Delete, Got
  <2> QED BY <2>1
       DEF Next, Step, Put, CallTake, CallOther, Awake, DeadlinePasses, List, Fetch,
           DeleteReplyLost, Enroll, Recheck, Wait, Woken, Leave, GiveUp, ReadFails, FinishFront,
           DeleteSeen, DeleteSeenFails, Signal, SetWatch, vars, queueVars
<1>2. removed' = removed \/ \E e \in Nat : removed' = removed \cup {e}
  <2>1. ASSUME NEW t \in Threads, DeleteSeen(t)
        PROVE  removed' = removed \/ \E e \in Nat : removed' = removed \cup {e}
    BY <1>a, <2>1 DEF DeleteSeen
  <2> QED BY <2>1
       DEF Next, Step, Put, CallTake, CallOther, Awake, DeadlinePasses, List, Fetch, Delete,
           DeleteReplyLost, Enroll, Recheck, Wait, Woken, Leave, GiveUp, ReadFails, FinishFront,
           DeleteSeenFails, Signal, SetWatch, vars, queueVars
<1>3. /\ puts' \in {puts, puts + 1}
      /\ takes' \in {takes, takes + 1}
      /\ others' \in {others, others + 1}
  BY DEF Next, Step, Put, CallTake, CallOther, Awake, DeadlinePasses, List, Fetch, Delete,
         DeleteReplyLost, Enroll, Recheck, Wait, Woken, Leave, GiveUp, ReadFails, FinishFront,
         DeleteSeen, DeleteSeenFails, Signal, SetWatch, vars, counters
<1>4. taken' \in [Threads -> SUBSET Nat]
  <2>1. ASSUME NEW t \in Threads, NEW e \in Nat, taken' = [taken EXCEPT ![t] = @ \cup {e}]
        PROVE  taken' \in [Threads -> SUBSET Nat]
    <3>1. taken[t] \cup {e} \in SUBSET Nat
      BY <1>a
    <3> QED BY <1>a, <2>1, <3>1
  <2> QED BY <1>a, <1>1, <2>1
<1>5. removed' \subseteq Nat
  BY <1>a, <1>2
<1>6. puts' \in Nat /\ takes' \in Nat /\ others' \in Nat
  BY <1>a, <1>3
<1> QED BY <1>4, <1>5, <1>6

\* The invariant is inductive.
LEMMA IInvStep ==
  ASSUME IInv, [Next]_vars
  PROVE  IInv'
<1>a. /\ TypeOK /\ Bounded
      /\ \A t \in Threads : SeenInv(t)
      /\ \A p \in Procs : Counted(p)
  BY DEF IInv
<1>1. Fresh
  BY <1>a, FreshStep
<1>2. /\ pc' \in [Threads -> PC] /\ call' \in [Threads -> Call]
      /\ \A t \in Threads : SeenInv(t)'
  BY <1>a, SeenStep
<1>3. /\ cond' \in [Procs -> Cond]
      /\ \A p \in Procs : Counts(p)
      /\ faults' \in Nat /\ (faults' = 0 => faults = 0)
  BY <1>a, CountStep
<1>4. TypeOK'
  BY <1>a, <1>1, <1>2, <1>3, RestTypes DEF TypeOK, Fresh
<1>5. \A p \in Procs : Counted(p)'
  BY <1>a, <1>3, CountsKeep
<1>6. Bounded'
  BY <1>1 DEF Bounded, Fresh
<1> QED BY <1>2, <1>4, <1>5, <1>6 DEF IInv

\* It holds before the first call.
LEMMA IInvInit == Init => IInv
<1> SUFFICES ASSUME Init PROVE IInv
  OBVIOUS
<1>1. TypeOK
  BY DEF Init, TypeOK, WatchState, Cond, NoCond, PC, Call, NoCall
<1>2. Bounded /\ \A t \in Threads : SeenInv(t)
  BY DEF Init, Bounded, SeenInv
<1>3. ASSUME NEW p \in Procs PROVE Counted(p)
  <2>1. Waiters(p) = {}
    BY DEF Init, Waiters, Enrolled
  <2>2. cond[p].refs = 0
    BY DEF Init, NoCond
  <2> QED BY <2>1, <2>2, FS_EmptySet DEF Counted
<1> QED BY <1>1, <1>2, <1>3 DEF IInv

\* It holds in every reachable state.
LEMMA AlwaysIInv == Spec => []IInv
<1>1. Init => IInv
  BY IInvInit
<1>2. IInv /\ [Next]_vars => IInv'
  BY IInvStep
<1> QED BY <1>1, <1>2, PTL DEF Spec

\* The references of a PredMutexCond are those of the calls between add and remove,
\* whatever signals, deadlines and other takers come between, and only an exception
\* leaves one behind.
THEOREM RefsCountWaiters == Spec => []CondCountsWaiters
<1>1. IInv => CondCountsWaiters
  BY DEF IInv, Counted, CondCountsWaiters
<1> QED BY <1>1, AlwaysIInv, PTL

-----------------------------------------------------------------------------
(* The refinement *)

\* What is deleted while no reply is lost is the oldest element, and goes to one taker.
LEMMA DeleteIsTake ==
  ASSUME IInv, NEW t \in Threads, Delete(t)
  PROVE  [Abstract!Next]_(Abstract!vars)
<1>a. pc[t] = "delete" /\ UNCHANGED <<removed, faults>>
  BY DEF Delete, counters
<1>1. PICK e \in call[t].seen :
        IF e \in elements
        THEN DeleteElement(e) /\ Got(t, e)
        ELSE Goto(t, "list") /\ UNCHANGED <<elements, nextSeq, watch, taken, call>>
  BY DEF Delete
<1>2. CASE e \notin elements
  BY <1>a, <1>1, <1>2 DEF Abstract!vars
<1>3. CASE e \in elements
  <2>1. \A f \in elements : e <= f
    BY <1>a, <1>1 DEF IInv, SeenInv
  <2>2. /\ elements' = elements \ {e} /\ nextSeq' = nextSeq
        /\ taken' = [taken EXCEPT ![t] = @ \cup {e}]
    BY <1>1, <1>3 DEF DeleteElement, Got
  <2>3. Abstract!Take(t)
    BY <1>a, <1>3, <2>1, <2>2 DEF Abstract!Take
  <2> QED BY <2>3 DEF Abstract!Next
<1> QED BY <1>2, <1>3

\* A call whose reply is lost may have taken one element away, or none.
LEMMA FaultIsLoss ==
  ASSUME TypeOK, Fault, UNCHANGED <<taken, removed, nextSeq>>,
         elements' = elements \/ \E e \in elements : elements' = elements \ {e}
  PROVE  Abstract!Next
<1>1. (faults > 0)' = TRUE
  BY DEF TypeOK, Fault
<1>2. CASE elements' = elements
  BY <1>1, <1>2 DEF Abstract!Next, Abstract!LoseReply
<1>3. CASE \E e \in elements : elements' = elements \ {e}
  BY <1>1, <1>3 DEF Abstract!Next, Abstract!Lose
<1> QED BY <1>2, <1>3

\* A put adds one element, or two when its first reply is lost.
LEMMA PutIsPut ==
  ASSUME TypeOK, NEW t \in Threads, Put(t)
  PROVE  Abstract!Next
<1>a. UNCHANGED <<taken, removed>> /\ faults \in Nat
  BY DEF Put, TypeOK
<1>1. ASSUME AddElements(1), UNCHANGED faults PROVE Abstract!Next
  <2>1. /\ elements' = elements \cup (nextSeq .. nextSeq + 1 - 1)
        /\ nextSeq' = nextSeq + 1
        /\ faults > 0 => (faults > 0)'
    BY <1>1 DEF AddElements
  <2>2. Abstract!Put
    BY <1>a, <2>1 DEF Abstract!Put
  <2> QED BY <2>2 DEF Abstract!Next
<1>2. ASSUME Fault, NEW n \in {1, 2}, AddElements(n) PROVE Abstract!Next
  <2>1. /\ elements' = elements \cup (nextSeq .. nextSeq + n - 1)
        /\ nextSeq' = nextSeq + n
        /\ (faults > 0)'
    BY <1>a, <1>2 DEF AddElements, Fault
  <2>2. Abstract!Put
    BY <1>a, <2>1 DEF Abstract!Put
  <2> QED BY <2>2 DEF Abstract!Next
<1>3. CASE Fault /\ UNCHANGED <<elements, nextSeq>>
  BY <1>a, <1>3, FaultIsLoss
<1> QED BY <1>1, <1>2, <1>3 DEF Put

\* clear and removeElement remove an element or find it gone.
LEMMA DeleteSeenIsRemove ==
  ASSUME NEW t \in Threads, DeleteSeen(t)
  PROVE  [Abstract!Next]_(Abstract!vars)
<1> DEFINE e == First(call[t].seen)
<1>1. /\ IF e \in elements
         THEN DeleteElement(e) /\ removed' = removed \cup {e}
         ELSE UNCHANGED <<elements, nextSeq, watch, removed>>
      /\ UNCHANGED <<taken, faults>>
  BY DEF DeleteSeen, counters
<1> HIDE DEF e
<1>2. CASE e \notin elements
  BY <1>1, <1>2 DEF Abstract!vars
<1>3. CASE e \in elements
  <2>1. /\ elements' = elements \ {e} /\ nextSeq' = nextSeq
        /\ removed' = removed \cup {e} /\ UNCHANGED taken
        /\ (faults > 0)' = (faults > 0)
    BY <1>1, <1>3 DEF DeleteElement
  <2>2. Abstract!Remove
    BY <1>3, <2>1 DEF Abstract!Remove
  <2> QED BY <2>2 DEF Abstract!Next
<1> QED BY <1>2, <1>3

\* Every step is one of the abstract queue, or none of it.
LEMMA RefinementStep ==
  ASSUME IInv, [Next]_vars
  PROVE  [Abstract!Next]_(Abstract!vars)
<1>a. TypeOK
  BY DEF IInv
<1>1. ASSUME UNCHANGED <<elements, nextSeq, taken, removed, faults>>
      PROVE  [Abstract!Next]_(Abstract!vars)
  BY <1>1 DEF Abstract!vars
<1>2. ASSUME NEW t \in Threads, DeleteReplyLost(t) \/ DeleteSeenFails(t) \/ ReadFails(t)
      PROVE  [Abstract!Next]_(Abstract!vars)
  <2>1. Fault /\ UNCHANGED <<taken, removed, nextSeq>>
    BY <1>2 DEF DeleteReplyLost, DeleteSeenFails, ReadFails, DeleteElement, queueVars
  <2>2. elements' = elements \/ \E e \in elements : elements' = elements \ {e}
    BY <1>2 DEF DeleteReplyLost, DeleteSeenFails, ReadFails, DeleteElement, queueVars
  <2> QED BY <1>a, <2>1, <2>2, FaultIsLoss
<1>3. ASSUME NEW t \in Threads,
             \/ CallTake(t) \/ CallOther(t) \/ Awake(t) \/ DeadlinePasses(t)
             \/ List(t) \/ Fetch(t) \/ Enroll(t) \/ Recheck(t) \/ Wait(t) \/ Woken(t)
             \/ Leave(t) \/ GiveUp(t) \/ FinishFront(t)
      PROVE  [Abstract!Next]_(Abstract!vars)
  <2>1. UNCHANGED <<elements, nextSeq, taken, removed, faults>>
    BY <1>3 DEF CallTake, CallOther, Awake, DeadlinePasses, List, Fetch, Enroll, Recheck, Wait,
                Woken, Leave, GiveUp, FinishFront, queueVars, counters
  <2> QED BY <1>1, <2>1
<1>4. ASSUME NEW p \in Procs, Signal(p) \/ SetWatch(p)
      PROVE  [Abstract!Next]_(Abstract!vars)
  <2>1. UNCHANGED <<elements, nextSeq, taken, removed>> /\ (UNCHANGED faults \/ Fault)
    BY <1>4 DEF Signal, SetWatch, queueVars, counters
  <2> QED BY <1>a, <1>1, <2>1, FaultIsLoss
<1>5. CASE UNCHANGED vars
  BY <1>1, <1>5 DEF vars
<1> QED BY <1>a, <1>2, <1>3, <1>4, <1>5, PutIsPut, DeleteIsTake, DeleteSeenIsRemove
     DEF Next, Step

\* The queue of queueimpl.cc is a FIFO queue that hands every element to one taker,
\* with any number of threads, processes and lost replies.
THEOREM QueueRefines == Spec => ImplementsAbstractQueue
<1>1. Init => Abstract!Init
  <2> SUFFICES ASSUME Init PROVE Abstract!Init
    OBVIOUS
  <2>1. (faults > 0) = FALSE
    BY DEF Init
  <2> QED BY <2>1 DEF Init, Abstract!Init
<1>2. IInv /\ [Next]_vars => [Abstract!Next]_(Abstract!vars)
  BY RefinementStep
<1> QED BY <1>1, <1>2, AlwaysIInv, PTL DEF Spec, ImplementsAbstractQueue, Abstract!Spec

-----------------------------------------------------------------------------
(* Where every element is *)

\* No element is handed out twice, or handed out and removed as well.
HandedOnce ==
  /\ \A t, u \in Threads : t # u => taken[t] \cap taken[u] = {}
  /\ \A t \in Threads : taken[t] \cap removed = {}
  /\ elements \cap removed = {}

\* What is still in the queue was put after everything that a taker got.
OldestFirst ==
  /\ \A t \in Threads : \A e \in taken[t] : e < nextSeq /\ \A f \in elements : e < f
  /\ \A e \in removed : e < nextSeq

\* As long as no reply is lost, an element is in the queue, or somebody has it, or it was
\* removed.
NoneLost ==
  faults = 0 =>
    \A e \in 0 .. nextSeq - 1 : e \in elements \/ e \in removed \/ \E t \in Threads : e \in taken[t]

Accounted == HandedOnce /\ OldestFirst /\ NoneLost

LEMMA AccountedStep ==
  ASSUME IInv, faults' \in Nat, Accounted, [Abstract!Next]_(Abstract!vars)
  PROVE  Accounted'
<1>1. /\ elements \subseteq Nat /\ nextSeq \in Nat /\ removed \subseteq Nat /\ faults \in Nat
      /\ taken \in [Threads -> SUBSET Nat]
      /\ \A e \in elements : e < nextSeq
  BY DEF IInv, TypeOK, Bounded
<1>2. ASSUME Abstract!Put PROVE Accounted'
  <2>1. PICK n \in {1, 2} :
          /\ n = 2 => (faults > 0)'
          /\ elements' = elements \cup (nextSeq .. nextSeq + n - 1) /\ nextSeq' = nextSeq + n
    BY <1>2 DEF Abstract!Put
  <2>2. UNCHANGED <<taken, removed>> /\ (faults' = 0 => faults = 0)
    BY <1>1, <1>2 DEF Abstract!Put
  <2>3. \A e \in nextSeq .. nextSeq + n - 1 : e \in Nat /\ nextSeq <= e /\ e < nextSeq'
    BY <1>1, <2>1
  <2>4. elements' \cap removed = {}
    BY <1>1, <2>1, <2>3 DEF Accounted, HandedOnce, OldestFirst
  <2>5. HandedOnce'
    BY <2>2, <2>4 DEF Accounted, HandedOnce
  <2>6. nextSeq < nextSeq' /\ nextSeq' \in Nat
    BY <1>1, <2>1
  <2>7. \A e \in removed : e < nextSeq'
    BY <1>1, <2>6 DEF Accounted, OldestFirst
  <2>8. \A t \in Threads : \A e \in taken[t] :
          e < nextSeq' /\ \A f \in elements' : e < f
    <3> SUFFICES ASSUME NEW t \in Threads, NEW e \in taken[t]
                 PROVE  e < nextSeq' /\ \A f \in elements' : e < f
      OBVIOUS
    <3>1. e \in Nat /\ e < nextSeq /\ \A f \in elements : e < f
      BY <1>1 DEF Accounted, OldestFirst
    <3> QED BY <1>1, <2>1, <2>3, <2>6, <3>1
  <2>9. OldestFirst'
    BY <2>2, <2>7, <2>8 DEF OldestFirst
  <2>10. \A e \in 0 .. nextSeq' - 1 : e \in 0 .. nextSeq - 1 \/ e \in elements'
    BY <1>1, <2>1
  <2>11. NoneLost'
    BY <2>1, <2>2, <2>10 DEF Accounted, NoneLost
  <2> QED BY <2>5, <2>9, <2>11 DEF Accounted
<1>3. ASSUME NEW t \in Threads, Abstract!Take(t) PROVE Accounted'
  <2>1. PICK e \in elements :
          /\ \A f \in elements : e <= f
          /\ elements' = elements \ {e}
          /\ taken' = [taken EXCEPT ![t] = @ \cup {e}]
    BY <1>3 DEF Abstract!Take
  <2>2. UNCHANGED <<nextSeq, removed>> /\ (faults' = 0 => faults = 0)
    BY <1>1, <1>3 DEF Abstract!Take
  <2>3. taken'[t] = taken[t] \cup {e} /\ \A u \in Threads : u # t => taken'[u] = taken[u]
    BY <1>1, <2>1
  <2>4. \A u \in Threads : e \notin taken[u]
    BY <1>1 DEF Accounted, OldestFirst
  <2>5. e \notin removed
    BY DEF Accounted, HandedOnce
  <2>6. HandedOnce'
    BY <2>1, <2>2, <2>3, <2>4, <2>5 DEF Accounted, HandedOnce
  <2>7. \A f \in elements' : e < f
    BY <1>1, <2>1
  <2>8. e < nextSeq
    BY <1>1
  <2>9. OldestFirst'
    BY <2>1, <2>2, <2>3, <2>7, <2>8 DEF Accounted, OldestFirst
  <2>10. \A f : f \in elements => f \in elements' \/ f \in taken'[t]
    BY <2>1, <2>3
  <2>11. \A u \in Threads : \A f \in taken[u] : f \in taken'[u]
    BY <2>3
  <2>12. NoneLost'
    BY <2>2, <2>10, <2>11 DEF Accounted, NoneLost
  <2> QED BY <2>6, <2>9, <2>12 DEF Accounted
<1>4. ASSUME Abstract!Remove PROVE Accounted'
  <2>1. PICK e \in elements : elements' = elements \ {e} /\ removed' = removed \cup {e}
    BY <1>4 DEF Abstract!Remove
  <2>2. UNCHANGED <<nextSeq, taken>> /\ (faults' = 0 => faults = 0)
    BY <1>1, <1>4 DEF Abstract!Remove
  <2>3. e < nextSeq /\ \A t \in Threads : e \notin taken[t]
    BY <1>1 DEF Accounted, OldestFirst
  <2>4. HandedOnce'
    BY <2>1, <2>2, <2>3 DEF Accounted, HandedOnce
  <2>5. OldestFirst'
    BY <2>1, <2>2, <2>3 DEF Accounted, OldestFirst
  <2>6. NoneLost'
    BY <2>1, <2>2 DEF Accounted, NoneLost
  <2> QED BY <2>4, <2>5, <2>6 DEF Accounted
<1>5. ASSUME Abstract!Lose \/ Abstract!LoseReply PROVE Accounted'
  <2>1. elements' \subseteq elements /\ UNCHANGED <<nextSeq, taken, removed>> /\ (faults > 0)'
    BY <1>5 DEF Abstract!Lose, Abstract!LoseReply
  <2>2. HandedOnce'
    BY <2>1 DEF Accounted, HandedOnce
  <2>3. OldestFirst'
    BY <2>1 DEF Accounted, OldestFirst
  <2>4. NoneLost'
    BY <2>1 DEF NoneLost
  <2> QED BY <2>2, <2>3, <2>4 DEF Accounted
<1>6. ASSUME UNCHANGED Abstract!vars PROVE Accounted'
  <2>1. UNCHANGED <<elements, nextSeq, taken, removed>> /\ (faults' = 0 => faults = 0)
    BY <1>1, <1>6 DEF Abstract!vars
  <2> QED BY <2>1 DEF Accounted, HandedOnce, OldestFirst, NoneLost
<1> QED BY <1>2, <1>3, <1>4, <1>5, <1>6 DEF Abstract!Next

\* takeWaitMsecs, clear and removeElement race for the children that they have read, and
\* still every element goes to one of them only, no taker gets one while an older one is
\* left, and unless a reply is lost none disappears.
THEOREM ElementsAccounted == Spec => []Accounted
<1>1. Init => Accounted
  BY DEF Init, Accounted, HandedOnce, OldestFirst, NoneLost
<1>2. IInv /\ Accounted /\ [Next]_vars => Accounted'
  <2> SUFFICES ASSUME IInv, Accounted, [Next]_vars PROVE Accounted'
    OBVIOUS
  <2>1. faults' \in Nat
    BY IInvStep DEF IInv, TypeOK
  <2> QED BY <2>1, RefinementStep, AccountedStep
<1> QED BY <1>1, <1>2, AlwaysIInv, PTL DEF Spec

=============================================================================
