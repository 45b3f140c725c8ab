--------------------------- MODULE DistLockProofs ---------------------------
(***************************************************************************)
(* The invariants of DistLock and its refinement of AbstractLock, for any  *)
(* number of threads, processes and locks, and any number of faults,       *)
(* crashes and lost sessions.                                              *)
(***************************************************************************)
EXTENDS DistLock, TLAPS

\* Deleting bids only takes bids and watches away and only adds events.
LEMMA SetBidsEffect ==
  ASSUME NEW newBids, SetBids(newBids)
  PROVE  /\ bids' = newBids
         /\ nextSeq' = nextSeq
         /\ watches' \subseteq watches
         /\ events' = events \cup (watches \ watches')
         /\ \A k \in watches' : \E b \in newBids[k.lock] : b.seq = k.seq
BY DEF SetBids

\* A record without the bid of one lock is still a record of the same type.
LEMMA WithoutBidType ==
  ASSUME TypeOK, NEW l \in Locks, NEW seq
  PROVE  /\ WithoutBid(l, seq) \in [Locks -> SUBSET Bid]
         /\ \A m \in Locks : WithoutBid(l, seq)[m] =
              {b \in bids[m] : m = l => b.seq # seq}
BY DEF TypeOK, WithoutBid

\* The bids that remain when a session has ended are bids of the same type.
LEMMA WithoutProcType ==
  ASSUME TypeOK, NEW p
  PROVE  WithoutProc(p) \in [Locks -> SUBSET Bid]
BY DEF TypeOK, WithoutProc

\* What a step may do to ZooKeeper's state: nothing but deletions, or the
\* creation of bids.
Deletes == /\ nextSeq' = nextSeq
           /\ bids' \in [Locks -> SUBSET Bid]
           /\ \A l \in Locks : bids'[l] \subseteq bids[l]
           /\ watches' \subseteq watches
           /\ events' = events \cup (watches \ watches')

\* What the deleteNode of release() and of the timeout path of acquireWaitUsecs()
\* does to the shared state.
LEMMA DeleteOwnBidEffect ==
  ASSUME TypeOK, NEW t \in Threads, DeleteOwnBid(t)
  PROVE  /\ Deletes
         /\ faults' \in Nat
         /\ \A l \in Locks : \A b \in bids[l] :
              b \in bids'[l] \/ (l = call[t].lock /\ b.seq = call[t].bid)
<1> DEFINE l == call[t].lock
           newBids == WithoutBid(l, call[t].bid)
<1>1. l \in Locks
  BY DEF TypeOK, Call
<1>2. newBids \in [Locks -> SUBSET Bid] /\ \A m \in Locks : newBids[m] =
              {b \in bids[m] : m = l => b.seq # call[t].bid}
  BY <1>1, WithoutBidType
<1>3. CASE SetBids(newBids)
  <2>1. faults' \in Nat
    BY DEF DeleteOwnBid, Fault, TypeOK
  <2> HIDE DEF newBids
  <2> QED BY <1>2, <1>3, <2>1, SetBidsEffect DEF Deletes
<1>4. CASE UNCHANGED zkVars
  <2>1. faults' \in Nat
    BY DEF DeleteOwnBid, Fault, TypeOK
  <2> QED BY <1>4, <2>1 DEF Deletes, zkVars, TypeOK
<1> QED BY <1>3, <1>4 DEF DeleteOwnBid

\* What one sequential create adds: one bid, or two when the adapter retried a
\* create that had taken effect, all of the creating thread and all the youngest.
LEMMA AddBidsEffect ==
  ASSUME TypeOK, NEW t \in Threads, NEW n \in {1, 2}, AddBids(t, n)
  PROVE  /\ bids' \in [Locks -> SUBSET Bid]
         /\ nextSeq' \in [Locks -> Nat]
         /\ UNCHANGED <<watches, events>>
         /\ \A l \in Locks : nextSeq[l] <= nextSeq'[l]
         /\ \A l \in Locks : bids[l] \subseteq bids'[l]
         /\ \A l \in Locks : \A b \in bids'[l] \ bids[l] :
              /\ l = call[t].lock
              /\ b.owner = t
              /\ b.type = call[t].type
              /\ nextSeq[l] <= b.seq
              /\ b.seq < nextSeq'[l]
         /\ \A l \in Locks : \A b, c \in bids'[l] \ bids[l] : b.seq = c.seq => b = c
<1> DEFINE l == call[t].lock
           new(i) == [seq |-> nextSeq[l] + i, owner |-> t, type |-> call[t].type]
<1>1. l \in Locks /\ nextSeq[l] \in Nat /\ call[t].type \in LockTypes
  BY DEF TypeOK, Call
<1>2. \A i \in 0 .. n - 1 : new(i) \in Bid /\ i < n /\ i \in Nat
  BY <1>1 DEF Bid
<1>3. /\ bids' = [bids EXCEPT ![l] = @ \cup {new(i) : i \in 0 .. n - 1}]
      /\ nextSeq' = [nextSeq EXCEPT ![l] = @ + n]
      /\ UNCHANGED <<watches, events>>
  BY DEF AddBids
<1>4. \A m \in Locks : bids'[m] = IF m = l THEN bids[l] \cup {new(i) : i \in 0 .. n - 1}
                                           ELSE bids[m]
  BY <1>1, <1>3 DEF TypeOK
<1>5. \A m \in Locks : nextSeq'[m] = IF m = l THEN nextSeq[l] + n ELSE nextSeq[m]
  BY <1>1, <1>3 DEF TypeOK
<1>6. bids' \in [Locks -> SUBSET Bid] /\ nextSeq' \in [Locks -> Nat]
  BY <1>1, <1>2, <1>3 DEF TypeOK
<1>7. ASSUME NEW m \in Locks, NEW b \in bids'[m], b \notin bids[m]
      PROVE  m = l /\ \E i \in 0 .. n - 1 : b = new(i)
  <2>1. m = l
    BY <1>4, <1>7
  <2>2. b \in {new(i) : i \in 0 .. n - 1}
    BY <1>4, <1>7, <2>1
  <2> QED BY <2>1, <2>2
<1>8. \A m \in Locks : nextSeq[m] \in Nat /\ nextSeq[m] <= nextSeq'[m]
  BY <1>1, <1>5 DEF TypeOK
<1>9. \A m \in Locks : bids[m] \subseteq bids'[m]
  BY <1>4
<1>10. ASSUME NEW m \in Locks, NEW b \in bids'[m] \ bids[m]
       PROVE  /\ m = l /\ b.owner = t /\ b.type = call[t].type
              /\ nextSeq[m] <= b.seq /\ b.seq < nextSeq'[m]
  <2>1. m = l
    BY <1>7, <1>10
  <2>2. PICK i \in 0 .. n - 1 : b = new(i)
    BY <1>7, <1>10
  <2>3. i \in Nat /\ i < n /\ nextSeq'[m] = nextSeq[m] + n
    BY <1>2, <1>5, <2>1
  <2>4. b.seq = nextSeq[m] + i /\ b.owner = t /\ b.type = call[t].type
    BY <2>1, <2>2
  <2> QED BY <1>8, <2>1, <2>3, <2>4
<1>11. ASSUME NEW m \in Locks, NEW b \in bids'[m] \ bids[m], NEW c \in bids'[m] \ bids[m],
              b.seq = c.seq
       PROVE  b = c
  <2>1. PICK i \in 0 .. n - 1 : b = new(i)
    BY <1>7, <1>11
  <2>2. PICK j \in 0 .. n - 1 : c = new(j)
    BY <1>7, <1>11
  <2>3. nextSeq[l] + i = nextSeq[l] + j
    BY <1>11, <2>1, <2>2
  <2> QED BY <1>1, <2>1, <2>2, <2>3
<1> QED BY <1>3, <1>6, <1>8, <1>9, <1>10, <1>11

\* Assignments to the locals of one call and to one owner record.
LEMMA CallUpdate ==
  ASSUME TypeOK, NEW t \in Threads
  PROVE  /\ call[t] \in Call
         /\ call[t].lock \in Locks
         /\ ProcOf[t] \in Procs
         /\ nextSeq[call[t].lock] \in Nat
         /\ \A c \in Call : [call EXCEPT ![t] = c] \in [Threads -> Call]
         /\ \A n \in BidNumber : [call[t] EXCEPT !.bid = n] \in Call
         /\ \A n \in BidNumber, g \in BOOLEAN :
              [call[t] EXCEPT !.pred = n, !.signalled = g] \in Call
         /\ \A l \in Locks, n \in BidNumber :
              [call[t] EXCEPT !.lock = l, !.bid = n] \in Call
BY DistLockAssumption DEF TypeOK, Call

\* Writing one owner record keeps the owner records typed.
LEMMA HeldUpdate ==
  ASSUME TypeOK, NEW t \in Threads, NEW l \in Locks
  PROVE  /\ held[t][l] \in NameRef
         /\ held[t][l].seq \in BidNumber
         /\ held[t][l].count \in Nat
         /\ \A r \in NameRef : [held EXCEPT ![t][l] = r] \in [Threads -> [Locks -> NameRef]]
         /\ \A n \in Nat : [held[t][l] EXCEPT !.count = n] \in NameRef
<1>1. held[t] \in [Locks -> NameRef] /\ held[t][l] \in NameRef
  BY DEF TypeOK
<1>2. held[t][l].seq \in BidNumber /\ held[t][l].count \in Nat
  BY <1>1 DEF NameRef
<1>3. ASSUME NEW r \in NameRef
      PROVE  [held EXCEPT ![t][l] = r] \in [Threads -> [Locks -> NameRef]]
  <2>1. [held EXCEPT ![t][l] = r] = [held EXCEPT ![t] = [held[t] EXCEPT ![l] = r]]
    BY DEF TypeOK
  <2>2. [held[t] EXCEPT ![l] = r] \in [Locks -> NameRef]
    BY <1>1
  <2> QED BY <2>1, <2>2 DEF TypeOK
<1>4. \A n \in Nat : [held[t][l] EXCEPT !.count = n] \in NameRef
  BY <1>1 DEF NameRef
<1> QED BY <1>1, <1>2, <1>3, <1>4

\* The values of a thread outside every call are values of the types.
LEMMA NoCallType == NoCall \in Call /\ NotHeld \in NameRef
BY DistLockAssumption DEF NoCall, Call, LockTypes, BidNumber, NotHeld, NameRef

\* Every action keeps the types.
LEMMA TypeStep ==
  ASSUME TypeOK, [Next]_vars
  PROVE  TypeOK'
<1> USE DistLockAssumption
<1>a. NoCall \in Call
  BY NoCallType
<1>1. ASSUME NEW t \in Threads, CallAcquire(t) PROVE TypeOK'
  <2>1. PICK l \in Locks, type \in LockTypes, timed \in BOOLEAN :
          call' = [call EXCEPT ![t] = [NoCall EXCEPT !.lock = l, !.type = type,
                                                     !.timed = timed]]
    BY <1>1 DEF CallAcquire
  <2>2. [NoCall EXCEPT !.lock = l, !.type = type, !.timed = timed] \in Call
    BY <1>a DEF Call
  <2>3. call' \in [Threads -> Call]
    BY <2>1, <2>2, CallUpdate
  <2> QED BY <1>1, <2>3 DEF TypeOK, CallAcquire, Goto, PC, zkVars
<1>2. ASSUME NEW t \in Threads, CallHasLock(t) PROVE TypeOK'
  BY <1>2 DEF TypeOK, CallHasLock, Goto, PC, zkVars
<1>3. ASSUME NEW t \in Threads, Enter(t) PROVE TypeOK'
  BY <1>3 DEF TypeOK, Enter, Lock, Goto, PC, zkVars
<1>4. ASSUME NEW t \in Threads, Reenter(t) PROVE TypeOK'
  <2>1. held' \in [Threads -> [Locks -> NameRef]]
    <3> DEFINE l == call[t].lock
    <3>1. l \in Locks /\ held[t][l].count + 1 \in Nat
      <4>1. l \in Locks
        BY CallUpdate
      <4>2. held[t][l].count \in Nat
        BY <4>1, HeldUpdate
      <4> QED BY <4>1, <4>2
    <3>2. held' = [held EXCEPT ![t][l] = [held[t][l] EXCEPT !.count = held[t][l].count + 1]]
      BY <1>4, <3>1 DEF Reenter, TypeOK
    <3> QED BY <3>1, <3>2, HeldUpdate
  <2> QED BY <1>4, <1>a, <2>1 DEF TypeOK, Reenter, Return, Goto, PC, zkVars
<1>5. ASSUME NEW t \in Threads, CreateBid(t) PROVE TypeOK'
  <2>1. PICK n \in {1, 2} :
          /\ IF n = 1 THEN UNCHANGED faults ELSE Fault
          /\ AddBids(t, n)
          /\ call' = [call EXCEPT ![t].bid = nextSeq[call[t].lock] + n - 1]
    BY <1>5 DEF CreateBid
  <2>2. call' \in [Threads -> Call]
    <3> DEFINE m == nextSeq[call[t].lock] + n - 1
    <3>1. m \in BidNumber
      <4>1. nextSeq[call[t].lock] \in Nat
        BY CallUpdate
      <4> QED BY <4>1 DEF BidNumber
    <3>2. call' = [call EXCEPT ![t] = [call[t] EXCEPT !.bid = m]]
      BY <2>1 DEF TypeOK
    <3> QED BY <3>1, <3>2, CallUpdate
  <2> QED BY <1>5, <2>1, <2>2, AddBidsEffect DEF TypeOK, CreateBid, Fault, Goto, PC
<1>6. ASSUME NEW t \in Threads, CreateBidFails(t) PROVE TypeOK'
  <2>1. CASE UNCHANGED zkVars
    BY <1>6, <1>a, <2>1 DEF TypeOK, CreateBidFails, Fault, Unlock, Return, Goto, PC, zkVars
  <2>2. CASE AddBids(t, 1)
    BY <1>6, <1>a, <2>2, AddBidsEffect
       DEF TypeOK, CreateBidFails, Fault, Unlock, Return, Goto, PC
  <2> QED BY <1>6, <2>1, <2>2 DEF CreateBidFails
<1>7. ASSUME NEW t \in Threads, ScanOwns(t) PROVE TypeOK'
  <2>1. held' \in [Threads -> [Locks -> NameRef]]
    BY <1>7 DEF TypeOK, ScanOwns, NameRef, Call
  <2> QED BY <1>7, <2>1 DEF TypeOK, ScanOwns, Goto, PC, zkVars
<1>8. ASSUME NEW t \in Threads, ScanWaits(t) PROVE TypeOK'
  <2>1. PICK b \in OlderBids(t) :
          call' = [call EXCEPT ![t].pred = b.seq, ![t].signalled = FALSE]
    BY <1>8 DEF ScanWaits
  <2>2. b \in Bid
    BY <2>1 DEF OlderBids, Considered, TypeOK, Call
  <2>3. call' \in [Threads -> Call]
    <3>1. call' = [call EXCEPT ![t] = [call[t] EXCEPT !.pred = b.seq, !.signalled = FALSE]]
      BY <2>1 DEF TypeOK
    <3>2. b.seq \in BidNumber
      BY <2>2 DEF Bid, BidNumber
    <3> QED BY <3>1, <3>2, CallUpdate
  <2> QED BY <1>8, <2>3 DEF TypeOK, ScanWaits, Goto, PC, zkVars
<1>9. ASSUME NEW t \in Threads, ScanThrows(t) PROVE TypeOK'
  BY <1>9, <1>a DEF TypeOK, ScanThrows, Unlock, Return, Goto, PC, zkVars
<1>10. ASSUME NEW t \in Threads, WatchPred(t) PROVE TypeOK'
  <2>1. watches' \subseteq WatchKey
    BY <1>10 DEF TypeOK, WatchPred, PredKey, WatchKey, Call, Bid
  <2> QED BY <1>10, <2>1 DEF TypeOK, WatchPred, Goto, PC
<1>11. ASSUME NEW t \in Threads, WakeUp(t) \/ DeadlinePasses(t) PROVE TypeOK'
  BY <1>11 DEF TypeOK, WakeUp, DeadlinePasses, Goto, PC, zkVars
<1>12. ASSUME NEW t \in Threads, GiveUp(t) PROVE TypeOK'
  BY <1>12, <1>a, DeleteOwnBidEffect
     DEF TypeOK, GiveUp, Deletes, Unlock, Return, Goto, PC
<1>13. ASSUME NEW t \in Threads, SyncReturns(t) \/ ReadFails(t) \/ ReenterFails(t)
       PROVE  TypeOK'
  <2>1. /\ UNCHANGED <<proc, removal, zkVars, held, calls>>
        /\ Unlock(t) \/ UNCHANGED mutex
        /\ Return(t)
        /\ UNCHANGED faults \/ Fault
    BY <1>13 DEF SyncReturns, ReadFails, ReenterFails
  <2>2. faults' \in Nat
    BY <2>1 DEF Fault, TypeOK
  <2> QED BY <1>a, <2>1, <2>2 DEF TypeOK, Unlock, Return, Goto, PC, zkVars
<1>14. ASSUME NEW t \in Threads, NEW l \in Locks, Release(t, l) PROVE TypeOK'
  <2>1. held' \in [Threads -> [Locks -> NameRef]]
    <3>1. CASE held[t][l].count > 1
      <4>1. held' = [held EXCEPT ![t][l] = [held[t][l] EXCEPT !.count = held[t][l].count - 1]]
        BY <1>14, <3>1 DEF Release, TypeOK
      <4>2. held[t][l].count - 1 \in Nat
        BY <3>1, HeldUpdate
      <4> QED BY <4>1, <4>2, HeldUpdate
    <3>2. CASE ~(held[t][l].count > 1)
      <4>1. held' = [held EXCEPT ![t][l] = NotHeld]
        BY <1>14, <3>2 DEF Release
      <4>2. NotHeld \in NameRef
        BY NoCallType
      <4> QED BY <4>1, <4>2, HeldUpdate
    <3> QED BY <3>1, <3>2
  <2>2. call' \in [Threads -> Call]
    <3>1. CASE UNCHANGED call
      BY <3>1 DEF TypeOK
    <3>2. CASE call' = [call EXCEPT ![t].lock = l, ![t].bid = held[t][l].seq]
      <4>1. call' = [call EXCEPT ![t] = [call[t] EXCEPT !.lock = l, !.bid = held[t][l].seq]]
        BY <3>2 DEF TypeOK
      <4> QED BY <4>1, CallUpdate, HeldUpdate
    <3> QED BY <1>14, <3>1, <3>2 DEF Release
  <2> QED BY <1>14, <2>1, <2>2 DEF TypeOK, Release, Goto, PC, zkVars
<1>15. ASSUME NEW t \in Threads, DeleteBid(t) PROVE TypeOK'
  BY <1>15, <1>a, DeleteOwnBidEffect DEF TypeOK, DeleteBid, Deletes, Return, Goto, PC
<1>16. ASSUME NEW t \in Threads, HasLock(t) PROVE TypeOK'
  BY <1>16 DEF TypeOK, HasLock, Goto, PC, zkVars
<1>17. ASSUME NEW k \in events, DeliverDeleted(k) PROVE TypeOK'
  <2>1. call' \in [Threads -> Call]
    BY <1>17, ZenonT(60) DEF TypeOK, DeliverDeleted, Call
  <2> QED BY <1>17, <2>1 DEF TypeOK, DeliverDeleted
<1>18. ASSUME NEW p \in Procs, Crash(p) PROVE TypeOK'
  BY <1>18 DEF TypeOK, Crash, ProcState, zkVars
<1>19. ASSUME NEW p \in Procs, SessionEnds(p) PROVE TypeOK'
  <2>1. SetBids(WithoutProc(p)) /\ proc' \in [Procs -> ProcState]
    BY <1>19 DEF TypeOK, SessionEnds, ProcState
  <2> QED BY <1>19, <2>1, SetBidsEffect, WithoutProcType DEF TypeOK, SessionEnds
<1>20. ASSUME StartRemoval \/ FinishRemoval PROVE TypeOK'
  BY <1>20 DEF TypeOK, StartRemoval, FinishRemoval, zkVars
<1>21. ASSUME NEW l \in Locks, RemoveBid(l) PROVE TypeOK'
  <2>1. PICK b \in bids[l] : SetBids(WithoutBid(l, b.seq))
    BY <1>21 DEF RemoveBid
  <2> QED BY <1>21, <2>1, SetBidsEffect, WithoutBidType DEF TypeOK, RemoveBid
<1>22. CASE UNCHANGED vars
  BY <1>22 DEF TypeOK, vars
<1> QED
  BY <1>1, <1>2, <1>3, <1>4, <1>5, <1>6, <1>7, <1>8, <1>9, <1>10, <1>11, <1>12, <1>13,
     <1>14, <1>15, <1>16, <1>17, <1>18, <1>19, <1>20, <1>21, <1>22
  DEF Next, Step

\* The types hold in every reachable state.
THEOREM TypeCorrect == Spec => []TypeOK
<1>1. Init => TypeOK
  BY DistLockAssumption, NoCallType
     DEF Init, TypeOK, ProcState, PC, WatchKey
<1>2. TypeOK /\ [Next]_vars => TypeOK'
  BY TypeStep
<1> QED BY <1>1, <1>2, PTL DEF Spec

-----------------------------------------------------------------------------
(* The inductive invariant: bid numbers are unique and never reused, so the  *)
(* number a call or an owner record carries can only be that of its own bid. *)

SeqInv ==
  \A l \in Locks : \A b, c \in bids[l] : b.seq < nextSeq[l] /\ (b.seq = c.seq => b = c)

CallInv(t) ==
  LET l == call[t].lock
  IN /\ call[t].bid < nextSeq[l]
     /\ \A b \in bids[l] : b.seq = call[t].bid =>
          /\ b.owner = t
          /\ pc[t] \in {"scan", "watch", "wait", "giveup"} => b.type = call[t].type
     /\ pc[t] \in {"bid", "scan", "watch", "wait", "giveup", "delete"} => ~Holds(t, l)

HeldInv(t) ==
  \A l \in Locks : Holds(t, l) =>
    /\ held[t][l].seq < nextSeq[l]
    /\ \A b \in bids[l] : b.seq = held[t][l].seq => b.owner = t

IInv ==
  /\ TypeOK
  /\ SeqInv
  /\ \A t \in Threads : CallInv(t) /\ HeldInv(t)
  /\ GrantedInBidOrder

\* What a step does to the bids: it takes some away and gives new ones numbers
\* that were never used.
FreshBids ==
  /\ \A l \in Locks :
       /\ nextSeq[l] <= nextSeq'[l]
       /\ \A b \in bids'[l] : b \in bids[l] \/ (nextSeq[l] <= b.seq /\ b.seq < nextSeq'[l])
  /\ \A l \in Locks : \A b, c \in bids'[l] \ bids[l] : b.seq = c.seq => b = c

\* Every bid a step adds carries a sequence number no bid had before.
LEMMA FreshBidsStep ==
  ASSUME TypeOK, [Next]_vars
  PROVE  FreshBids
<1>1. CASE nextSeq' = nextSeq /\ \A l \in Locks : bids'[l] \subseteq bids[l]
  BY <1>1 DEF FreshBids, TypeOK
<1>2. ASSUME NEW t \in Threads, NEW n \in {1, 2}, AddBids(t, n) PROVE FreshBids
  <2>1. \A l \in Locks : \A b \in bids'[l] : b \in bids[l] \/ b \in bids'[l] \ bids[l]
    OBVIOUS
  <2> QED BY <1>2, <2>1, AddBidsEffect DEF FreshBids
<1>3. CASE UNCHANGED zkVars
  BY <1>1, <1>3 DEF zkVars
<1>4. ASSUME NEW t \in Threads, CreateBid(t) \/ CreateBidFails(t) PROVE FreshBids
  BY <1>2, <1>3, <1>4 DEF CreateBid, CreateBidFails
<1>5. ASSUME NEW t \in Threads, GiveUp(t) \/ DeleteBid(t) PROVE FreshBids
  BY <1>1, <1>5, DeleteOwnBidEffect DEF GiveUp, DeleteBid, Deletes
<1>6. ASSUME NEW p \in Procs, SessionEnds(p) PROVE FreshBids
  <2>1. \A l \in Locks : WithoutProc(p)[l] \subseteq bids[l]
    BY DEF WithoutProc
  <2> QED BY <1>1, <1>6, <2>1, SetBidsEffect DEF SessionEnds
<1>7. ASSUME NEW l \in Locks, RemoveBid(l) PROVE FreshBids
  BY <1>1, <1>7, SetBidsEffect, WithoutBidType DEF RemoveBid
<1>8. ASSUME NEW t \in Threads, WatchPred(t) PROVE FreshBids
  BY <1>1, <1>8 DEF WatchPred
<1>9. ASSUME NEW k \in events, DeliverDeleted(k) PROVE FreshBids
  BY <1>1, <1>9 DEF DeliverDeleted
<1>10. ASSUME NEW t \in Threads, Step(t) PROVE FreshBids
  BY <1>3, <1>4, <1>5, <1>8, <1>10
     DEF Step, Enter, Reenter, ReenterFails, ScanOwns, ScanWaits, ScanThrows, WakeUp, DeadlinePasses,
         SyncReturns, ReadFails, HasLock
<1>11. CASE UNCHANGED vars
  BY <1>3, <1>11 DEF vars, zkVars
<1> QED
  BY <1>3, <1>6, <1>7, <1>9, <1>10, <1>11
     DEF Next, CallAcquire, CallHasLock, Release, Crash, StartRemoval, FinishRemoval

\* The sequence numbers stay unique and below the counter.
LEMMA SeqStep ==
  ASSUME TypeOK, TypeOK', SeqInv, FreshBids
  PROVE  SeqInv'
<1> SUFFICES ASSUME NEW l \in Locks, NEW b \in bids'[l], NEW c \in bids'[l]
             PROVE  b.seq < nextSeq'[l] /\ (b.seq = c.seq => b = c)
  BY DEF SeqInv
<1>1. /\ nextSeq[l] \in Nat /\ nextSeq'[l] \in Nat
      /\ b.seq \in Nat /\ c.seq \in Nat
  BY DEF TypeOK, Bid
<1>2. CASE b \in bids[l] /\ c \in bids[l]
  BY <1>1, <1>2 DEF SeqInv, FreshBids
<1>3. CASE b \notin bids[l] /\ c \notin bids[l]
  BY <1>3 DEF FreshBids
<1>4. CASE b \in bids[l] /\ c \notin bids[l]
  BY <1>1, <1>4 DEF SeqInv, FreshBids
<1>5. CASE b \notin bids[l] /\ c \in bids[l]
  BY <1>1, <1>5 DEF SeqInv, FreshBids
<1> QED BY <1>2, <1>3, <1>4, <1>5

\* A thread the step does not touch.
Untouched(t) ==
  /\ pc'[t] = pc[t]
  /\ call'[t].lock = call[t].lock
  /\ call'[t].bid = call[t].bid
  /\ call'[t].type = call[t].type
  /\ held'[t] = held[t]

\* What the invariant says of a thread survives a step that leaves its locals and
\* its own bids alone.
LEMMA UntouchedKeeps ==
  ASSUME TypeOK, TypeOK', FreshBids, NEW t \in Threads, Untouched(t), CallInv(t), HeldInv(t)
  PROVE  CallInv(t)' /\ HeldInv(t)'
<1>1. \A l \in Locks : /\ nextSeq[l] \in Nat /\ nextSeq'[l] \in Nat
                       /\ \A b \in bids'[l] : b.seq \in Nat
  BY DEF TypeOK, Bid
<1>2. call[t].lock \in Locks /\ call[t].bid \in Int
  BY DEF TypeOK, Call, BidNumber, NoBid
<1>3. \A l \in Locks : held[t][l].seq \in Int
  BY HeldUpdate DEF BidNumber, NoBid
<1>4. CallInv(t)'
  BY <1>1, <1>2 DEF CallInv, FreshBids, Untouched, Holds
<1>5. HeldInv(t)'
  BY <1>1, <1>3 DEF HeldInv, FreshBids, Untouched, Holds
<1> QED BY <1>4, <1>5

\* A step of one thread leaves the locals and the bids of the others alone.
LEMMA OthersUntouched ==
  ASSUME TypeOK, NEW t \in Threads, NEW u \in Threads, u # t,
         Step(t) \/ CallAcquire(t) \/ CallHasLock(t) \/ \E l \in Locks : Release(t, l)
  PROVE  Untouched(u)
<1>1. /\ pc' = pc \/ \E c : pc' = [pc EXCEPT ![t] = c]
      /\ call' = call \/ \E c : call' = [call EXCEPT ![t] = c]
      /\ held' = held \/ \E r : held' = [held EXCEPT ![t] = r]
  <2>1. CASE Step(t)
    <3>1. CASE Enter(t) \/ WatchPred(t) \/ WakeUp(t) \/ DeadlinePasses(t) \/ HasLock(t)
      BY <3>1 DEF Enter, WatchPred, WakeUp, DeadlinePasses, HasLock, Goto
    <3>2. CASE ReenterFails(t) \/ CreateBidFails(t) \/ ScanThrows(t) \/ GiveUp(t) \/ SyncReturns(t)
               \/ ReadFails(t) \/ DeleteBid(t)
      BY <3>2 DEF ReenterFails, CreateBidFails, ScanThrows, GiveUp, SyncReturns, ReadFails, DeleteBid,
                  Return, Goto
    <3>3. CASE Reenter(t) \/ ScanOwns(t)
      BY <3>3 DEF Reenter, ScanOwns, Return, Goto
    <3>4. CASE CreateBid(t) \/ ScanWaits(t)
      BY <3>4 DEF CreateBid, ScanWaits, Goto
    <3> QED BY <2>1, <3>1, <3>2, <3>3, <3>4 DEF Step
  <2>2. CASE CallAcquire(t) \/ CallHasLock(t)
    BY <2>2 DEF CallAcquire, CallHasLock, Goto
  <2>3. CASE \E l \in Locks : Release(t, l)
    BY <2>3 DEF Release, Goto
  <2> QED BY <2>1, <2>2, <2>3
<1> QED BY <1>1 DEF Untouched, TypeOK

\* A thread between two calls, without a bid of its own to mind.
LEMMA IdleCall ==
  ASSUME TypeOK', NEW t \in Threads, call'[t].bid = NoBid,
         pc'[t] \in {"idle", "enter", "query"}
  PROVE  CallInv(t)'
<1>1. call'[t].lock \in Locks
  BY DEF TypeOK, Call
<1>2. nextSeq'[call'[t].lock] \in Nat /\ \A b \in bids'[call'[t].lock] : b.seq \in Nat
  BY <1>1 DEF TypeOK, Bid
<1> QED BY <1>2 DEF CallInv, NoBid

\* Owner records that did not change and the step's effect on the bids.
LEMMA HeldKeeps ==
  ASSUME TypeOK, TypeOK', FreshBids, NEW t \in Threads, HeldInv(t), held'[t] = held[t]
  PROVE  HeldInv(t)'
<1>1. \A l \in Locks : /\ nextSeq[l] \in Nat /\ nextSeq'[l] \in Nat
                       /\ \A b \in bids'[l] : b.seq \in Nat
  BY DEF TypeOK, Bid
<1>2. \A l \in Locks : held[t][l].seq \in Int
  BY HeldUpdate DEF BidNumber, NoBid
<1> QED BY <1>1, <1>2 DEF HeldInv, FreshBids, Holds

\* What the invariant says of a thread survives that thread's own steps.
LEMMA OwnStep ==
  ASSUME IInv, TypeOK', FreshBids, NEW t \in Threads,
         Step(t) \/ CallAcquire(t) \/ CallHasLock(t) \/ \E l \in Locks : Release(t, l)
  PROVE  CallInv(t)' /\ HeldInv(t)'
<1>a. TypeOK /\ SeqInv /\ CallInv(t) /\ HeldInv(t)
  BY DEF IInv
<1>b. call[t].lock \in Locks /\ nextSeq[call[t].lock] \in Nat /\ call[t].bid \in Int
  BY <1>a DEF TypeOK, Call, BidNumber, NoBid
<1>1. CASE ReenterFails(t) \/ CreateBidFails(t) \/ ScanThrows(t) \/ GiveUp(t) \/ SyncReturns(t)
           \/ ReadFails(t) \/ DeleteBid(t)
  <2>1. pc'[t] = "idle" /\ call'[t] = NoCall /\ held' = held
    BY <1>1, <1>a DEF ReenterFails, CreateBidFails, ScanThrows, GiveUp, SyncReturns, ReadFails, DeleteBid,
                Return, Goto, TypeOK
  <2>2. call'[t].bid = NoBid
    BY <2>1 DEF NoCall
  <2> QED BY <1>a, <2>1, <2>2, IdleCall, HeldKeeps
<1>2. CASE CallAcquire(t)
  <2>1. PICK l \in Locks, type \in LockTypes, timed \in BOOLEAN :
          call' = [call EXCEPT ![t] = [NoCall EXCEPT !.lock = l, !.type = type,
                                                     !.timed = timed]]
    BY <1>2 DEF CallAcquire
  <2>2. call'[t].bid = NoBid
    BY <1>a, <2>1 DEF NoCall, TypeOK
  <2>3. pc'[t] = "enter" /\ held' = held
    BY <1>2, <1>a DEF CallAcquire, Goto, TypeOK
  <2> QED BY <1>a, <2>2, <2>3, IdleCall, HeldKeeps
<1>3. CASE Enter(t)
  <2>1. /\ pc'[t] = "bid" /\ call' = call /\ held' = held
        /\ bids' = bids /\ nextSeq' = nextSeq /\ ~Holds(t, call[t].lock)
    BY <1>3, <1>a DEF Enter, Goto, TypeOK, zkVars
  <2>2. CallInv(t)'
    BY <1>a, <2>1 DEF CallInv, Holds
  <2> QED BY <1>a, <2>1, <2>2, HeldKeeps
<1>4. CASE CallHasLock(t) \/ HasLock(t) \/ WatchPred(t) \/ WakeUp(t) \/ DeadlinePasses(t)
           \/ ScanWaits(t)
  <2>1. /\ pc'[t] \in {"idle", "query"}
           \/ /\ pc[t] \in {"scan", "watch", "wait"}
              /\ pc'[t] \in {"scan", "watch", "wait", "giveup"}
        /\ held' = held /\ bids' = bids /\ nextSeq' = nextSeq
    BY <1>4, <1>a DEF CallHasLock, HasLock, WatchPred, WakeUp, DeadlinePasses, ScanWaits, At,
                      Goto, TypeOK, zkVars
  <2>2. /\ call'[t].lock = call[t].lock
        /\ call'[t].bid = call[t].bid
        /\ call'[t].type = call[t].type
    <3>1. CASE call' = call
      BY <3>1
    <3>2. CASE ScanWaits(t)
      BY <3>2, <1>a DEF ScanWaits, TypeOK, Call
    <3> QED BY <1>4, <3>1, <3>2
         DEF CallHasLock, HasLock, WatchPred, WakeUp, DeadlinePasses
  <2>3. CallInv(t)'
    BY <1>a, <2>1, <2>2 DEF CallInv, Holds
  <2> QED BY <1>a, <2>1, <2>3, HeldKeeps
<1>5. CASE CreateBid(t)
  <2> DEFINE l == call[t].lock
  <2>1. PICK n \in {1, 2} :
          AddBids(t, n) /\ call' = [call EXCEPT ![t].bid = nextSeq[call[t].lock] + n - 1]
    BY <1>5 DEF CreateBid
  <2>2. /\ call'[t].lock = l /\ call'[t].type = call[t].type
        /\ call'[t].bid = nextSeq[l] + n - 1
        /\ pc[t] = "bid" /\ pc'[t] = "scan" /\ held' = held
    BY <1>5, <1>a, <2>1 DEF CreateBid, At, Goto, TypeOK, Call
  <2>3. nextSeq'[l] = nextSeq[l] + n
    BY <1>a, <1>b, <2>1 DEF AddBids, TypeOK
  <2>4. ASSUME NEW b \in bids'[l], b.seq = call'[t].bid
        PROVE  b.owner = t /\ b.type = call[t].type
    <3>1. b.seq >= nextSeq[l] /\ b.seq \in Nat
      BY <1>b, <2>2, <2>4 DEF TypeOK, Bid
    <3>2. b \notin bids[l]
      BY <1>a, <1>b, <3>1 DEF SeqInv
    <3> QED BY <1>a, <1>b, <2>1, <3>2, AddBidsEffect
  <2>5. CallInv(t)'
    <3>1. ~Holds(t, l)
      BY <1>a, <2>2 DEF CallInv
    <3> QED BY <1>b, <2>2, <2>3, <2>4, <3>1 DEF CallInv, Holds
  <2> QED BY <1>a, <2>2, <2>5, HeldKeeps
<1>6. CASE ScanOwns(t)
  <2> DEFINE l == call[t].lock
  <2>1. /\ pc[t] = "scan" /\ pc'[t] = "sync" /\ call' = call
        /\ bids' = bids /\ nextSeq' = nextSeq
        /\ held' = [held EXCEPT ![t][l] = [type |-> call[t].type, seq |-> call[t].bid, count |-> 1]]
    BY <1>6, <1>a DEF ScanOwns, At, Goto, TypeOK, zkVars
  <2>2. held'[t][l].seq = call[t].bid /\ \A m \in Locks : m # l => held'[t][m] = held[t][m]
    BY <1>a, <1>b, <2>1 DEF TypeOK
  <2>3. CallInv(t)'
    BY <1>a, <2>1 DEF CallInv
  <2>4. HeldInv(t)'
    BY <1>a, <2>1, <2>2 DEF CallInv, HeldInv, Holds
  <2> QED BY <2>3, <2>4
<1>7. CASE Reenter(t)
  <2> DEFINE l == call[t].lock
  <2>1. /\ pc'[t] = "idle" /\ call'[t] = NoCall
        /\ bids' = bids /\ nextSeq' = nextSeq /\ Holds(t, l)
        /\ held' = held \/ held' = [held EXCEPT ![t][l].count = @ + 1]
    BY <1>7, <1>a DEF Reenter, Return, Goto, TypeOK, zkVars
  <2>2. \A m \in Locks : held'[t][m].seq = held[t][m].seq /\ (Holds(t, m)' => Holds(t, m))
    <3>1. held[t] \in [Locks -> NameRef] /\ held[t][l] \in NameRef
      BY <1>a, <1>b DEF TypeOK
    <3>2. CASE held' = [held EXCEPT ![t][l].count = @ + 1]
      <4>1. /\ \A m \in Locks : m # l => held'[t][m] = held[t][m]
            /\ held'[t][l].seq = held[t][l].seq
        BY <1>a, <1>b, <3>1, <3>2 DEF TypeOK, NameRef
      <4> QED BY <2>1, <4>1 DEF Holds
    <3> QED BY <2>1, <3>2 DEF Holds
  <2>3. call'[t].bid = NoBid
    BY <2>1 DEF NoCall
  <2>4. HeldInv(t)'
    BY <1>a, <2>1, <2>2 DEF HeldInv
  <2> QED BY <2>1, <2>3, <2>4, IdleCall
<1>8. ASSUME NEW l \in Locks, Release(t, l) PROVE CallInv(t)' /\ HeldInv(t)'
  <2>1. bids' = bids /\ nextSeq' = nextSeq /\ Holds(t, l) /\ pc[t] = "idle"
    BY <1>8 DEF Release, At, zkVars
  <2>2. CASE held[t][l].count > 1
    <3>1. pc' = pc /\ call' = call /\ held' = [held EXCEPT ![t][l].count = @ - 1]
      BY <1>8, <2>2 DEF Release
    <3>2. \A m \in Locks : held'[t][m].seq = held[t][m].seq /\ (Holds(t, m)' => Holds(t, m))
      BY <1>a, <2>1, <3>1 DEF TypeOK, NameRef, Holds
    <3> QED BY <1>a, <2>1, <3>1, <3>2 DEF CallInv, HeldInv
  <2>3. CASE ~(held[t][l].count > 1)
    <3>1. /\ held' = [held EXCEPT ![t][l] = NotHeld]
          /\ call' = [call EXCEPT ![t].lock = l, ![t].bid = held[t][l].seq]
          /\ pc' = [pc EXCEPT ![t] = "delete"]
      BY <1>8, <2>3 DEF Release, Goto
    <3>2. /\ call'[t].lock = l /\ call'[t].bid = held[t][l].seq /\ pc'[t] = "delete"
          /\ \A m \in Locks : m # l => held'[t][m] = held[t][m]
          /\ held'[t][l].count = 0
      BY <1>a, <3>1 DEF TypeOK, Call, NotHeld
    <3>3. CallInv(t)'
      BY <1>a, <2>1, <3>2 DEF CallInv, HeldInv, Holds
    <3>4. HeldInv(t)'
      BY <1>a, <2>1, <3>2 DEF HeldInv, Holds
    <3> QED BY <3>3, <3>4
  <2> QED BY <2>2, <2>3
<1> QED BY <1>1, <1>2, <1>3, <1>4, <1>5, <1>6, <1>7, <1>8 DEF Step

\* An owner whose bid is still there keeps its place: a bid that was not there
\* before is younger.
LEMMA OrderKept ==
  ASSUME TypeOK, TypeOK', SeqInv, FreshBids, NEW t \in Threads, NEW l \in Locks,
         HeldInv(t), Holds(t, l),
         held'[t][l].seq = held[t][l].seq, held'[t][l].type = held[t][l].type,
         [seq |-> held[t][l].seq, owner |-> t, type |-> held[t][l].type] \in bids'[l],
         \A b \in bids[l] : (b.seq < held[t][l].seq)
                              => (held[t][l].type = "SHARED" /\ b.type = "SHARED")
  PROVE  /\ [seq |-> held'[t][l].seq, owner |-> t, type |-> held'[t][l].type] \in bids'[l]
         /\ \A b \in bids'[l] : (b.seq < held'[t][l].seq)
                                 => (held'[t][l].type = "SHARED" /\ b.type = "SHARED")
<1>1. /\ nextSeq[l] \in Nat /\ held[t][l].seq \in Int
      /\ \A b \in bids'[l] : b.seq \in Nat
  BY HeldUpdate DEF TypeOK, Bid, BidNumber, NoBid
<1>2. held[t][l].seq < nextSeq[l]
  BY DEF HeldInv
<1>3. ASSUME NEW b \in bids'[l], b.seq < held'[t][l].seq PROVE b \in bids[l]
  BY <1>1, <1>2, <1>3 DEF FreshBids
<1> QED BY <1>3

\* No step lets an owner lose its place before a conflicting bid.
LEMMA GrantedStep ==
  ASSUME IInv, TypeOK', FreshBids, [Next]_vars
  PROVE  GrantedInBidOrder'
<1> SUFFICES ASSUME removal' = "no", NEW t \in Threads, NEW l \in Locks, Up(t)', Holds(t, l)'
             PROVE  /\ [seq |-> held'[t][l].seq, owner |-> t, type |-> held'[t][l].type]
                         \in bids'[l]
                    /\ \A b \in bids'[l] : (b.seq < held'[t][l].seq)
                         => (held'[t][l].type = "SHARED" /\ b.type = "SHARED")
  BY DEF GrantedInBidOrder
<1> DEFINE mine == [seq |-> held[t][l].seq, owner |-> t, type |-> held[t][l].type]
<1>a. TypeOK /\ SeqInv /\ GrantedInBidOrder /\ \A u \in Threads : CallInv(u) /\ HeldInv(u)
  BY DEF IInv
<1>b. ASSUME removal = "no", Up(t), Holds(t, l),
             held'[t][l].seq = held[t][l].seq, held'[t][l].type = held[t][l].type,
             mine \in bids[l] => mine \in bids'[l]
      PROVE  /\ [seq |-> held'[t][l].seq, owner |-> t, type |-> held'[t][l].type]
                  \in bids'[l]
             /\ \A b \in bids'[l] : (b.seq < held'[t][l].seq)
                  => (held'[t][l].type = "SHARED" /\ b.type = "SHARED")
  <2>1. /\ mine \in bids[l]
        /\ \A b \in bids[l] : (b.seq < held[t][l].seq)
             => (held[t][l].type = "SHARED" /\ b.type = "SHARED")
    BY <1>a, <1>b DEF GrantedInBidOrder
  <2> QED BY <1>a, <1>b, <2>1, OrderKept
<1>c. proc' = proc => Up(t)
  BY DEF Up
<1>1. CASE UNCHANGED <<proc, removal, bids, held>>
  BY <1>b, <1>c, <1>1 DEF Holds
<1>2. ASSUME NEW u \in Threads, CreateBid(u) \/ CreateBidFails(u)
      PROVE  UNCHANGED <<proc, removal, held>> /\ bids[l] \subseteq bids'[l]
  <2>1. CASE UNCHANGED zkVars
    BY <1>2, <2>1 DEF CreateBid, CreateBidFails, zkVars
  <2>2. CASE \E n \in {1, 2} : AddBids(u, n)
    BY <1>2, <1>a, <2>2, AddBidsEffect DEF CreateBid, CreateBidFails
  <2> QED BY <1>2, <2>1, <2>2 DEF CreateBid, CreateBidFails
<1>3. ASSUME NEW u \in Threads, ScanOwns(u)
      PROVE  /\ [seq |-> held'[t][l].seq, owner |-> t, type |-> held'[t][l].type]
                  \in bids'[l]
             /\ \A b \in bids'[l] : (b.seq < held'[t][l].seq)
                  => (held'[t][l].type = "SHARED" /\ b.type = "SHARED")
  <2> DEFINE m == call[u].lock
  <2>1. /\ UNCHANGED <<proc, removal, bids>>
        /\ held' = [held EXCEPT ![u][m] =
                      [type |-> call[u].type, seq |-> call[u].bid, count |-> 1]]
        /\ OlderBids(u) = {} /\ OwnBidListed(u) /\ pc[u] = "scan"
    BY <1>3 DEF ScanOwns, At, zkVars
  <2>2. m \in Locks
    BY <1>a DEF TypeOK, Call
  <2>3. CASE t = u /\ l = m
    <3>1. held'[t][l] = [type |-> call[u].type, seq |-> call[u].bid, count |-> 1]
      BY <1>a, <2>1, <2>2, <2>3 DEF TypeOK
    <3>2. PICK b \in bids[l] : b.seq = call[u].bid
      BY <2>1, <2>3 DEF OwnBidListed, Considered
    <3>3. b \in Bid /\ b.owner = t /\ b.type = call[u].type
      BY <1>a, <2>1, <2>3, <3>2 DEF TypeOK, CallInv
    <3>4. b = [seq |-> held'[t][l].seq, owner |-> t, type |-> held'[t][l].type]
      BY <3>1, <3>2, <3>3 DEF Bid
    <3>5. ASSUME NEW c \in bids[l], c.seq < call[u].bid
          PROVE  call[u].type = "SHARED" /\ c.type = "SHARED"
      <4>1. c \notin Considered(u)
        BY <2>1, <2>3, <3>5 DEF OlderBids
      <4>2. call[u].type # "EXCL" /\ c.type # "EXCL"
        BY <2>3, <4>1 DEF Considered
      <4>3. call[u].type \in LockTypes /\ c.type \in LockTypes
        BY <1>a DEF TypeOK, Call, Bid
      <4> QED BY <4>2, <4>3 DEF LockTypes
    <3> QED BY <2>1, <3>1, <3>2, <3>4, <3>5
  <2>4. CASE ~(t = u /\ l = m)
    <3>1. held'[t][l] = held[t][l]
      BY <1>a, <2>1, <2>2, <2>4 DEF TypeOK
    <3> QED BY <1>b, <1>c, <2>1, <3>1 DEF Holds
  <2> QED BY <2>3, <2>4
<1>4. ASSUME NEW u \in Threads, Reenter(u)
      PROVE  /\ UNCHANGED <<proc, removal, bids>> /\ Holds(t, l)
             /\ held'[t][l].seq = held[t][l].seq /\ held'[t][l].type = held[t][l].type
  <2> DEFINE m == call[u].lock
  <2>1. /\ UNCHANGED <<proc, removal, bids>> /\ Holds(u, m)
        /\ held' = held \/ held' = [held EXCEPT ![u][m].count = @ + 1]
    BY <1>4 DEF Reenter, zkVars
  <2>2. m \in Locks
    BY <1>a DEF TypeOK, Call
  <2>3. CASE held' = held
    BY <2>1, <2>3 DEF Holds
  <2>4. CASE held' = [held EXCEPT ![u][m].count = @ + 1]
    <3>1. held[t][l] \in NameRef /\ held[u][m] \in NameRef
      BY <1>a, <2>2, HeldUpdate
    <3>2. CASE t = u /\ l = m
      BY <1>a, <2>1, <2>2, <2>4, <3>1, <3>2 DEF TypeOK, NameRef
    <3>3. CASE ~(t = u /\ l = m)
      <4>1. held'[t][l] = held[t][l]
        BY <1>a, <2>2, <2>4, <3>3 DEF TypeOK
      <4> QED BY <2>1, <4>1 DEF Holds
    <3> QED BY <2>1, <3>2, <3>3
  <2> QED BY <2>1, <2>3, <2>4
<1>5. ASSUME NEW u \in Threads, NEW m \in Locks, Release(u, m)
      PROVE  /\ UNCHANGED <<proc, removal, bids>> /\ Holds(t, l)
             /\ held'[t][l].seq = held[t][l].seq /\ held'[t][l].type = held[t][l].type
  <2>1. UNCHANGED <<proc, removal, bids>> /\ Holds(u, m)
    BY <1>5 DEF Release, zkVars
  <2>2. held[t][l] \in NameRef /\ held[u][m] \in NameRef
    BY <1>a, HeldUpdate
  <2>3. CASE held' = [held EXCEPT ![u][m].count = @ - 1]
    <3>1. CASE t = u /\ l = m
      BY <1>a, <2>1, <2>2, <2>3, <3>1 DEF TypeOK, NameRef
    <3>2. CASE ~(t = u /\ l = m)
      <4>1. held'[t][l] = held[t][l]
        BY <1>a, <2>3, <3>2 DEF TypeOK
      <4> QED BY <2>1, <4>1 DEF Holds
    <3> QED BY <2>1, <3>1, <3>2
  <2>4. CASE held' = [held EXCEPT ![u][m] = NotHeld]
    <3>1. CASE t = u /\ l = m
      <4>1. held'[t][l] = NotHeld
        BY <1>a, <2>4, <3>1 DEF TypeOK
      <4> QED BY <4>1 DEF Holds, NotHeld
    <3>2. CASE ~(t = u /\ l = m)
      <4>1. held'[t][l] = held[t][l]
        BY <1>a, <2>4, <3>2 DEF TypeOK
      <4> QED BY <2>1, <4>1 DEF Holds
    <3> QED BY <3>1, <3>2
  <2> QED BY <1>5, <2>3, <2>4 DEF Release
<1>6. ASSUME NEW u \in Threads, GiveUp(u) \/ DeleteBid(u)
      PROVE  UNCHANGED <<proc, removal, held>> /\ (Holds(t, l) /\ mine \in bids[l] => mine \in bids'[l])
  <2>1. /\ UNCHANGED <<proc, removal, held>> /\ pc[u] \in {"giveup", "delete"}
        /\ DeleteOwnBid(u)
    BY <1>6 DEF GiveUp, DeleteBid, At
  <2>2. ASSUME Holds(t, l), mine \in bids[l], mine \notin bids'[l] PROVE FALSE
    <3>1. l = call[u].lock /\ mine.seq = call[u].bid
      BY <1>a, <2>1, <2>2, DeleteOwnBidEffect
    <3>2. t = u
      BY <1>a, <2>2, <3>1 DEF CallInv
    <3>3. ~Holds(u, call[u].lock)
      BY <1>a, <2>1 DEF CallInv
    <3> QED BY <2>2, <3>1, <3>2, <3>3
  <2> QED BY <2>1, <2>2
<1>7. ASSUME NEW p \in Procs, Crash(p) \/ SessionEnds(p)
      PROVE  UNCHANGED <<removal, held>> /\ Up(t) /\ (mine \in bids[l] => mine \in bids'[l])
  <2>1. /\ UNCHANGED <<removal, held>>
        /\ proc' \in {[proc EXCEPT ![p] = s] : s \in {"crashed", "gone", "expired"}}
        /\ bids' = bids \/ bids' = WithoutProc(p)
    BY <1>7, SetBidsEffect DEF Crash, SessionEnds, zkVars
  <2>2. ProcOf[t] # p /\ Up(t)
    BY <1>a, <2>1, DistLockAssumption DEF TypeOK, Up
  <2> QED BY <2>1, <2>2 DEF WithoutProc
<1>8. ~(StartRemoval \/ FinishRemoval \/ \E m \in Locks : RemoveBid(m))
  BY DEF StartRemoval, FinishRemoval, RemoveBid
<1>9. ASSUME NEW u \in Threads, Step(u)
      PROVE  \/ UNCHANGED <<proc, removal, bids, held>>
             \/ CreateBid(u) \/ CreateBidFails(u) \/ ScanOwns(u) \/ Reenter(u)
             \/ GiveUp(u) \/ DeleteBid(u)
  BY <1>9 DEF Step, Enter, ReenterFails, ScanWaits, ScanThrows, WatchPred, WakeUp, DeadlinePasses,
              SyncReturns, ReadFails, HasLock, zkVars
<1>10. CASE \E u \in Threads : Step(u)
  <2>1. PICK u \in Threads : Step(u)
    BY <1>10
  <2>2. CASE CreateBid(u) \/ CreateBidFails(u)
    BY <1>2, <1>b, <1>c, <2>2 DEF Holds
  <2>3. CASE Reenter(u)
    <3>1. UNCHANGED <<proc, removal, bids>> /\ Holds(t, l)
      BY <1>4, <2>3
    <3> QED BY <1>4, <1>b, <1>c, <2>3, <3>1
  <2>4. CASE GiveUp(u) \/ DeleteBid(u)
    BY <1>6, <1>b, <1>c, <2>4 DEF Holds
  <2> QED BY <1>1, <1>3, <1>9, <2>1, <2>2, <2>3, <2>4
<1>11. CASE \E u \in Threads, m \in Locks : Release(u, m)
  <2>1. UNCHANGED <<proc, removal, bids>> /\ Holds(t, l)
    BY <1>5, <1>11
  <2> QED BY <1>5, <1>11, <1>b, <1>c, <2>1
<1>12. CASE \E p \in Procs : Crash(p) \/ SessionEnds(p)
  BY <1>7, <1>12, <1>b DEF Holds
<1>13. CASE \/ \E u \in Threads : CallAcquire(u) \/ CallHasLock(u)
            \/ \E k \in events : DeliverDeleted(k)
            \/ UNCHANGED vars
  BY <1>1, <1>13 DEF CallAcquire, CallHasLock, DeliverDeleted, vars, zkVars
<1> QED BY <1>8, <1>10, <1>11, <1>12, <1>13 DEF Next

\* The inductive invariant is inductive.
LEMMA IInvStep ==
  ASSUME IInv, [Next]_vars
  PROVE  IInv'
<1>1. TypeOK /\ SeqInv
  BY DEF IInv
<1>2. TypeOK' /\ FreshBids
  BY <1>1, TypeStep, FreshBidsStep
<1>3. SeqInv' /\ GrantedInBidOrder'
  BY <1>1, <1>2, SeqStep, GrantedStep
<1>4. ASSUME NEW u \in Threads PROVE CallInv(u)' /\ HeldInv(u)'
  <2>1. CASE Untouched(u)
    BY <1>1, <1>2, <2>1, UntouchedKeeps DEF IInv
  <2>2. ASSUME NEW t \in Threads,
               Step(t) \/ CallAcquire(t) \/ CallHasLock(t) \/ \E l \in Locks : Release(t, l)
        PROVE  CallInv(u)' /\ HeldInv(u)'
    <3>1. CASE t = u
      BY <1>2, <2>2, <3>1, OwnStep
    <3>2. CASE t # u
      BY <1>1, <2>1, <2>2, <3>2, OthersUntouched
    <3> QED BY <3>1, <3>2
  <2>3. ASSUME NEW k \in events, DeliverDeleted(k) PROVE Untouched(u)
    BY <1>1, <2>3 DEF DeliverDeleted, Untouched, TypeOK, Call
  <2>4. CASE \/ \E p \in Procs : Crash(p) \/ SessionEnds(p)
             \/ StartRemoval \/ FinishRemoval
             \/ \E l \in Locks : RemoveBid(l)
             \/ UNCHANGED vars
    <3>1. UNCHANGED <<pc, call, held>>
      BY <2>4 DEF Crash, SessionEnds, StartRemoval, FinishRemoval, RemoveBid, vars
    <3>2. Untouched(u)
      BY <3>1 DEF Untouched
    <3> QED BY <2>1, <3>2
  <2> QED BY <2>1, <2>2, <2>3, <2>4 DEF Next
<1> QED BY <1>2, <1>3, <1>4 DEF IInv

\* The inductive invariant holds before the first call.
LEMMA IInvInit == Init => IInv
<1> SUFFICES ASSUME Init PROVE IInv
  OBVIOUS
<1>1. TypeOK
  BY DistLockAssumption, NoCallType DEF Init, TypeOK, ProcState, PC, WatchKey
<1>2. \A t \in Threads, l \in Locks : ~Holds(t, l)
  BY DEF Init, Holds, NotHeld
<1>3. \A t \in Threads : /\ call[t].lock \in Locks /\ call[t].bid = NoBid
                         /\ pc[t] = "idle" /\ nextSeq[call[t].lock] = 0
                         /\ bids[call[t].lock] = {}
  BY DistLockAssumption DEF Init, NoCall
<1>4. \A t \in Threads : CallInv(t) /\ HeldInv(t)
  BY <1>2, <1>3 DEF CallInv, HeldInv, NoBid
<1>5. SeqInv /\ GrantedInBidOrder
  BY <1>2 DEF Init, SeqInv, GrantedInBidOrder
<1> QED BY <1>1, <1>4, <1>5 DEF IInv

\* The inductive invariant holds in every reachable state.
LEMMA IInvCorrect == Spec => []IInv
<1>1. Init => IInv
  BY IInvInit
<1>2. IInv /\ [Next]_vars => IInv'
  BY IInvStep
<1> QED BY <1>1, <1>2, PTL DEF Spec

\* Locks are granted in the order of the bids, for any number of threads and
\* processes and whatever faults, crashes and lost sessions there are.
THEOREM BidOrderCorrect == Spec => []GrantedInBidOrder
<1>1. IInv => GrantedInBidOrder
  BY DEF IInv
<1> QED BY <1>1, IInvCorrect, PTL

\* Owners that follow each other in the order of their bids do not exclude each other.
LEMMA IInvExcludes == IInv => MutualExclusion
<1>1. ASSUME IInv PROVE MutualExclusion
  <2> SUFFICES ASSUME removal = "no", NEW t \in Threads, NEW u \in Threads, NEW l \in Locks,
                      t # u, Up(t), Up(u), Holds(t, l), Holds(u, l)
               PROVE  held[t][l].type = "SHARED" /\ held[u][l].type = "SHARED"
    BY DEF MutualExclusion
  <2> DEFINE bid(v) == [seq |-> held[v][l].seq, owner |-> v, type |-> held[v][l].type]
  <2>1. /\ bid(t) \in bids[l] /\ bid(u) \in bids[l]
        /\ \A v \in {t, u} : \A b \in bids[l] : (b.seq < held[v][l].seq)
                             => (held[v][l].type = "SHARED" /\ b.type = "SHARED")
    BY <1>1 DEF IInv, GrantedInBidOrder
  <2>2. held[t][l].seq # held[u][l].seq
    <3>1. bid(t).owner # bid(u).owner
      OBVIOUS
    <3>2. bid(t) # bid(u)
      BY <3>1
    <3> QED BY <1>1, <2>1, <3>2 DEF IInv, SeqInv
  <2>3. held[t][l].seq \in Int /\ held[u][l].seq \in Int
    BY <1>1, HeldUpdate DEF IInv, BidNumber, NoBid
  <2> QED BY <2>1, <2>2, <2>3
<1> QED BY <1>1

\* No two connected threads have owner records that exclude each other.
THEOREM MutualExclusionCorrect == Spec => []MutualExclusion
BY IInvExcludes, IInvCorrect, PTL

-----------------------------------------------------------------------------
(* The hand-over of a watch from ZooKeeper to the event thread to the waiter *)

\* A watch on a bid that exists stays with the bid or turns into an event.
WatchKept ==
  \A k \in watches : (\E b \in bids[k.lock] : b.seq = k.seq) =>
    \/ k \in events'
    \/ k \in watches' /\ \E b \in bids'[k.lock] : b.seq = k.seq

\* A deletion takes no watch away without an event.
LEMMA SetBidsWatch ==
  ASSUME NEW newBids, SetBids(newBids)
  PROVE  WatchKept /\ events \subseteq events'
BY DEF SetBids, WatchKept

\* No step loses a watch, and only a delivery takes an event away.
LEMMA WatchKeptStep ==
  ASSUME TypeOK, [Next]_vars
  PROVE  WatchKept /\ (events \subseteq events' \/ \E k \in events : DeliverDeleted(k))
<1>1. CASE UNCHANGED <<watches, events>> /\ \A l \in Locks : bids[l] \subseteq bids'[l]
  BY <1>1 DEF WatchKept, TypeOK, WatchKey
<1>2. CASE UNCHANGED zkVars
  BY <1>1, <1>2 DEF zkVars
<1>3. ASSUME NEW t \in Threads, CreateBid(t) \/ CreateBidFails(t)
      PROVE  WatchKept /\ events \subseteq events'
  <2>1. CASE \E n \in {1, 2} : AddBids(t, n)
    BY <1>1, <2>1, AddBidsEffect
  <2> QED BY <1>2, <1>3, <2>1 DEF CreateBid, CreateBidFails, zkVars
<1>4. ASSUME NEW t \in Threads, WatchPred(t) PROVE WatchKept /\ events \subseteq events'
  <2>1. bids' = bids /\ events' = events /\ watches \subseteq watches'
    BY <1>4 DEF WatchPred
  <2> QED BY <2>1 DEF WatchKept
<1>5. ASSUME NEW t \in Threads, GiveUp(t) \/ DeleteBid(t)
      PROVE  WatchKept /\ events \subseteq events'
  <2>1. UNCHANGED zkVars \/ \E newBids : SetBids(newBids)
    BY <1>5 DEF GiveUp, DeleteBid, DeleteOwnBid
  <2> QED BY <1>2, <2>1, SetBidsWatch DEF zkVars
<1>6. ASSUME NEW t \in Threads, Step(t) PROVE WatchKept /\ events \subseteq events'
  BY <1>2, <1>3, <1>4, <1>5, <1>6
     DEF Step, Enter, Reenter, ReenterFails, ScanOwns, ScanWaits, ScanThrows, WakeUp, DeadlinePasses,
         SyncReturns, ReadFails, HasLock, zkVars
<1>7. ASSUME NEW k \in events, DeliverDeleted(k) PROVE WatchKept
  BY <1>7 DEF DeliverDeleted, WatchKept
<1>8. CASE \/ \E p \in Procs : SessionEnds(p)
           \/ \E l \in Locks : RemoveBid(l)
  BY <1>8, SetBidsWatch DEF SessionEnds, RemoveBid
<1>9. CASE UNCHANGED vars
  BY <1>2, <1>9 DEF vars, zkVars
<1> QED
  BY <1>2, <1>6, <1>7, <1>8, <1>9
     DEF Next, CallAcquire, CallHasLock, Release, Crash, StartRemoval, FinishRemoval, zkVars

\* A connected process was connected before.
LEMMA UpBefore ==
  ASSUME TypeOK, [Next]_vars, NEW t \in Threads, Up(t)'
  PROVE  Up(t)
<1>1. proc' = proc \/ \E p \in Procs : Crash(p) \/ SessionEnds(p)
  BY DEF Next, Step, Enter, Reenter, ReenterFails, CreateBid, CreateBidFails, ScanOwns, ScanWaits,
         ScanThrows, WatchPred, WakeUp, DeadlinePasses, GiveUp, SyncReturns, ReadFails,
         DeleteBid, HasLock, CallAcquire, CallHasLock, Release, DeliverDeleted,
         StartRemoval, FinishRemoval, RemoveBid, vars
<1>2. ASSUME NEW p \in Procs, Crash(p) \/ SessionEnds(p) PROVE Up(t)
  BY <1>2, DistLockAssumption DEF Crash, SessionEnds, Up, TypeOK
<1> QED BY <1>1, <1>2 DEF Up

\* A waiter whose wake-up is on its way keeps it on its way through every step
\* of the other threads, the event thread, ZooKeeper and the other processes.
LEMMA WakeupStep ==
  ASSUME TypeOK, NoLostWakeup, [Next]_vars
  PROVE  NoLostWakeup'
<1> SUFFICES ASSUME NEW t \in Threads, Up(t)', pc'[t] = "wait"
             PROVE  \/ call'[t].signalled
                    \/ PredKey(t)' \in events'
                    \/ /\ PredKey(t)' \in watches'
                       /\ \E b \in bids'[call'[t].lock] : b.seq = call'[t].pred
  BY DEF NoLostWakeup
<1>1. Up(t)
  BY UpBefore
<1>2. CASE WatchPred(t)
  <2>1. /\ \E b \in bids[call[t].lock] : b.seq = call[t].pred
        /\ watches' = watches \cup {PredKey(t)}
        /\ bids' = bids /\ call' = call
    BY <1>2 DEF WatchPred, Goto, TypeOK
  <2> QED BY <2>1 DEF PredKey
<1>3. CASE /\ pc[t] = "wait"
           /\ call'[t].lock = call[t].lock /\ call'[t].pred = call[t].pred
           /\ call[t].signalled => call'[t].signalled
  <2>1. PredKey(t)' = PredKey(t)
    BY <1>3 DEF PredKey
  <2>2. PredKey(t).lock = call[t].lock /\ PredKey(t).seq = call[t].pred
    BY DEF PredKey
  <2>3. CASE PredKey(t) \in watches /\ \E b \in bids[call[t].lock] : b.seq = call[t].pred
    BY <1>3, <2>1, <2>2, <2>3, WatchKeptStep DEF WatchKept
  <2>4. CASE PredKey(t) \in events
    <3>1. CASE events \subseteq events'
      BY <2>1, <2>4, <3>1
    <3>2. ASSUME NEW k \in events, DeliverDeleted(k)
          PROVE  PredKey(t) \in events' \/ call'[t].signalled
      <4>1. CASE k = PredKey(t)
        <5>1. ProcOf[t] = k.proc /\ call[t].lock = k.lock /\ call[t].pred = k.seq
          BY <4>1 DEF PredKey
        <5>2. call'[t] = [call[t] EXCEPT !.signalled = TRUE]
          BY <1>3, <3>2, <5>1 DEF DeliverDeleted
        <5> QED BY <5>2 DEF TypeOK, Call
      <4>2. CASE k # PredKey(t)
        BY <2>4, <3>2, <4>2 DEF DeliverDeleted
      <4> QED BY <4>1, <4>2
    <3> QED BY <2>1, <3>1, <3>2, WatchKeptStep
  <2> QED BY <1>1, <1>3, <2>3, <2>4 DEF NoLostWakeup
<1>4. ASSUME NEW u \in Threads,
             Step(u) \/ CallAcquire(u) \/ CallHasLock(u) \/ \E l \in Locks : Release(u, l),
             ~WatchPred(t)
      PROVE  UNCHANGED <<pc[t], call[t]>>
  <2>1. CASE u = t
    BY <1>4, <2>1 DEF Step, Enter, Reenter, ReenterFails, CreateBid, CreateBidFails, ScanOwns, ScanWaits,
           ScanThrows, WakeUp, DeadlinePasses, GiveUp, SyncReturns, ReadFails,
           DeleteBid, HasLock, CallAcquire, CallHasLock, Release, Return, Goto, At, TypeOK
  <2>2. CASE u # t
    <3>1. /\ pc' = pc \/ \E c : pc' = [pc EXCEPT ![u] = c]
          /\ call' = call \/ \E c : call' = [call EXCEPT ![u] = c]
      BY <1>4 DEF Step, Enter, Reenter, ReenterFails, CreateBid, CreateBidFails, ScanOwns, ScanWaits,
           ScanThrows, WatchPred, WakeUp, DeadlinePasses, GiveUp, SyncReturns, ReadFails,
           DeleteBid, HasLock, CallAcquire, CallHasLock, Release, Return, Goto
    <3> QED BY <2>2, <3>1 DEF TypeOK
  <2> QED BY <2>1, <2>2
<1>5. ASSUME NEW k \in events, DeliverDeleted(k)
      PROVE  /\ pc'[t] = pc[t] /\ call'[t].lock = call[t].lock /\ call'[t].pred = call[t].pred
             /\ call[t].signalled => call'[t].signalled
  BY <1>5 DEF DeliverDeleted, TypeOK, Call
<1>6. CASE \/ \E p \in Procs : Crash(p) \/ SessionEnds(p)
           \/ StartRemoval \/ FinishRemoval \/ (\E l \in Locks : RemoveBid(l))
           \/ UNCHANGED vars
  BY <1>6, <1>3 DEF Crash, SessionEnds, StartRemoval, FinishRemoval, RemoveBid, vars
<1> QED BY <1>2, <1>3, <1>4, <1>5, <1>6 DEF Next

\* No waiter of acquireWaitUsecs is left without a wake-up.
THEOREM NoLostWakeupCorrect == Spec => []NoLostWakeup
<1>1. Init => NoLostWakeup
  BY DEF Init, NoLostWakeup
<1>2. TypeOK /\ NoLostWakeup /\ [Next]_vars => NoLostWakeup'
  BY WakeupStep
<1> QED BY <1>1, <1>2, TypeCorrect, PTL DEF Spec
-----------------------------------------------------------------------------
(* No bid left behind *)

\* Between two calls a thread minds no bid, the granted bid becomes the owner
\* record's, and a lock that is not held has the empty record.
PhaseInv(t) ==
  /\ pc[t] \in {"idle", "enter", "bid", "query"} => call[t].bid = NoBid
  /\ pc[t] = "sync" => held[t][call[t].lock].seq = call[t].bid
  /\ \A l \in Locks : ~Holds(t, l) => held[t][l] = NotHeld

OrphanInv == (\A t \in Threads : PhaseInv(t)) /\ NoOrphanBid

\* A thread's own steps keep PhaseInv.
LEMMA PhaseStep ==
  ASSUME TypeOK, NEW t \in Threads, PhaseInv(t),
         Step(t) \/ CallAcquire(t) \/ CallHasLock(t) \/ \E l \in Locks : Release(t, l)
  PROVE  PhaseInv(t)'
<1>a. /\ call[t].lock \in Locks
      /\ pc \in [Threads -> PC] /\ call \in [Threads -> Call]
      /\ held \in [Threads -> [Locks -> NameRef]]
  BY DEF TypeOK, Call
<1>b. \A l \in Locks : ~Holds(t, l) => held[t][l] = NotHeld
  BY DEF PhaseInv
<1>1. CASE pc'[t] = "idle" /\ call'[t].bid = NoBid /\ held' = held
  BY <1>1, <1>b DEF PhaseInv, Holds
<1>2. CASE /\ pc'[t] \in {"scan", "watch", "wait", "giveup"} /\ held' = held
  BY <1>2, <1>b DEF PhaseInv, Holds
<1>3. CASE ReenterFails(t) \/ CreateBidFails(t) \/ ScanThrows(t) \/ GiveUp(t) \/ SyncReturns(t)
           \/ ReadFails(t) \/ DeleteBid(t)
  <2>1. pc'[t] = "idle" /\ call'[t] = NoCall /\ held' = held
    BY <1>3, <1>a DEF ReenterFails, CreateBidFails, ScanThrows, GiveUp, SyncReturns, ReadFails,
                      DeleteBid, Return, Goto
  <2>2. call'[t].bid = NoBid
    BY <2>1 DEF NoCall
  <2> QED BY <1>1, <2>1, <2>2
<1>4. CASE CreateBid(t) \/ ScanWaits(t) \/ WatchPred(t) \/ WakeUp(t) \/ DeadlinePasses(t)
  BY <1>2, <1>4, <1>a DEF CreateBid, ScanWaits, WatchPred, WakeUp, DeadlinePasses, Goto
<1>5. CASE CallAcquire(t)
  <2>1. PICK l \in Locks, type \in LockTypes, timed \in BOOLEAN :
          call' = [call EXCEPT ![t] = [NoCall EXCEPT !.lock = l, !.type = type,
                                                     !.timed = timed]]
    BY <1>5 DEF CallAcquire
  <2>2. call'[t].bid = NoBid
    BY <1>a, <2>1 DEF NoCall
  <2>3. pc'[t] = "enter" /\ held' = held
    BY <1>5, <1>a DEF CallAcquire, Goto
  <2> QED BY <1>b, <2>2, <2>3 DEF PhaseInv, Holds
<1>6. CASE CallHasLock(t) \/ HasLock(t) \/ Enter(t)
  <2>1. /\ pc[t] \in {"idle", "query", "enter"} /\ pc'[t] \in {"query", "idle", "bid"}
        /\ call' = call /\ held' = held
    BY <1>6, <1>a DEF CallHasLock, HasLock, Enter, Goto, At
  <2> QED BY <1>b, <2>1 DEF PhaseInv, Holds
<1>7. CASE Reenter(t)
  <2> DEFINE l == call[t].lock
             r == [held[t][l] EXCEPT !.count = held[t][l].count + 1]
  <2>1. /\ pc'[t] = "idle" /\ call'[t] = NoCall /\ Holds(t, l)
        /\ held' = [held EXCEPT ![t][l] = r]
    BY <1>7, <1>a DEF Reenter, Return, Goto
  <2>2. held[t][l].count \in Nat /\ r.count = held[t][l].count + 1
    BY <1>a DEF NameRef
  <2>3. \A m \in Locks : held'[t][m] = IF m = l THEN r ELSE held[t][m]
    BY <1>a, <2>1
  <2>4. call'[t].bid = NoBid
    BY <2>1 DEF NoCall
  <2> HIDE DEF r, l
  <2>5. ASSUME NEW m \in Locks, ~(held'[t][m].count > 0) PROVE held'[t][m] = NotHeld
    <3>1. CASE m = l
      BY <2>2, <2>3, <2>5, <3>1
    <3>2. CASE m # l
      BY <1>b, <2>3, <2>5, <3>2 DEF Holds
    <3> QED BY <3>1, <3>2
  <2> QED BY <2>1, <2>4, <2>5 DEF PhaseInv, Holds
<1>8. CASE ScanOwns(t)
  <2> DEFINE l == call[t].lock
             r == [type |-> call[t].type, seq |-> call[t].bid, count |-> 1]
  <2>1. /\ pc'[t] = "sync" /\ call' = call
        /\ held' = [held EXCEPT ![t][l] = r]
    BY <1>8, <1>a DEF ScanOwns, Goto
  <2>2. \A m \in Locks : held'[t][m] = IF m = l THEN r ELSE held[t][m]
    BY <1>a, <2>1
  <2>3. r.count = 1 /\ r.seq = call[t].bid
    OBVIOUS
  <2> HIDE DEF r
  <2>4. ASSUME NEW m \in Locks, ~(held'[t][m].count > 0) PROVE held'[t][m] = NotHeld
    <3>1. CASE m = l
      BY <2>2, <2>3, <2>4, <3>1
    <3>2. CASE m # l
      BY <1>b, <2>2, <2>4, <3>2 DEF Holds
    <3> QED BY <3>1, <3>2
  <2>5. held'[t][call'[t].lock].seq = call'[t].bid
    BY <1>a, <2>1, <2>2, <2>3
  <2> QED BY <2>1, <2>4, <2>5 DEF PhaseInv, Holds
<1>9. CASE \E l \in Locks : Release(t, l)
  <2>1. PICK l \in Locks : Release(t, l)
    BY <1>9
  <2>2. held[t][l].count \in Nat /\ held[t][l] \in NameRef /\ pc[t] = "idle"
        /\ call[t].bid = NoBid
    BY <1>a, <2>1 DEF NameRef, Release, At, PhaseInv
  <2>3. CASE held[t][l].count > 1
    <3> DEFINE r == [held[t][l] EXCEPT !.count = held[t][l].count - 1]
    <3>1. held' = [held EXCEPT ![t][l] = r] /\ UNCHANGED <<pc, call>>
      BY <1>a, <2>1, <2>3 DEF Release
    <3>2. r.count > 0
      BY <2>2, <2>3 DEF NameRef
    <3>3. \A m \in Locks : held'[t][m] = IF m = l THEN r ELSE held[t][m]
      BY <1>a, <3>1
    <3> HIDE DEF r
    <3>4. ASSUME NEW m \in Locks, ~(held'[t][m].count > 0) PROVE held'[t][m] = NotHeld
      BY <1>b, <3>2, <3>3, <3>4 DEF Holds
    <3> QED BY <2>2, <3>1, <3>4 DEF PhaseInv, Holds
  <2>4. CASE ~(held[t][l].count > 1)
    <3>1. held' = [held EXCEPT ![t][l] = NotHeld] /\ pc'[t] = "delete"
      BY <1>a, <2>1, <2>4 DEF Release, Goto
    <3>2. \A m \in Locks : held'[t][m] = IF m = l THEN NotHeld ELSE held[t][m]
      BY <1>a, <3>1
    <3>3. ASSUME NEW m \in Locks, ~(held'[t][m].count > 0) PROVE held'[t][m] = NotHeld
      BY <1>b, <3>2, <3>3 DEF Holds
    <3> QED BY <3>1, <3>3 DEF PhaseInv, Holds
  <2> QED BY <2>3, <2>4
<1> QED BY <1>3, <1>4, <1>5, <1>6, <1>7, <1>8, <1>9 DEF Step

\* A step that leaves a thread's locals and owner records alone keeps PhaseInv.
LEMMA PhaseUntouched ==
  ASSUME NEW t \in Threads, PhaseInv(t), Untouched(t)
  PROVE  PhaseInv(t)'
BY DEF PhaseInv, Untouched, Holds

\* A step is one of a thread or it touches the locals and records of none.
LEMMA WhoseStep ==
  ASSUME TypeOK, [Next]_vars
  PROVE  \/ \E t \in Threads : Step(t) \/ CallAcquire(t) \/ CallHasLock(t)
                               \/ \E l \in Locks : Release(t, l)
         \/ /\ \A u \in Threads : Untouched(u)
            /\ UNCHANGED <<pc, held, faults>>
            /\ \A l \in Locks : bids'[l] \subseteq bids[l]
<1>1. ASSUME NEW k \in events, DeliverDeleted(k)
      PROVE  /\ \A u \in Threads : Untouched(u)
             /\ UNCHANGED <<pc, held, faults, bids>>
  BY <1>1 DEF DeliverDeleted, Untouched, TypeOK, Call
<1>2. CASE \/ \E p \in Procs : Crash(p) \/ SessionEnds(p)
           \/ StartRemoval \/ FinishRemoval
           \/ \E l \in Locks : RemoveBid(l)
           \/ UNCHANGED vars
  <2>1. UNCHANGED <<pc, call, held, faults>>
    BY <1>2 DEF Crash, SessionEnds, StartRemoval, FinishRemoval, RemoveBid, vars
  <2>2. \A u \in Threads : Untouched(u)
    BY <2>1 DEF Untouched
  <2>3. \A l \in Locks : bids'[l] \subseteq bids[l]
    <3>1. CASE UNCHANGED bids
      BY <3>1
    <3>2. ASSUME NEW p \in Procs, SessionEnds(p)
          PROVE  \A l \in Locks : bids'[l] \subseteq bids[l]
      BY <3>2, SetBidsEffect DEF SessionEnds, WithoutProc
    <3>3. ASSUME NEW m \in Locks, RemoveBid(m)
          PROVE  \A l \in Locks : bids'[l] \subseteq bids[l]
      BY <3>3, SetBidsEffect, WithoutBidType DEF RemoveBid
    <3> QED BY <1>2, <3>1, <3>2, <3>3
         DEF Crash, StartRemoval, FinishRemoval, vars, zkVars
  <2> QED BY <2>1, <2>2, <2>3
<1> QED BY <1>1, <1>2 DEF Next

\* Every step keeps PhaseInv of every thread.
LEMMA AllPhasesStep ==
  ASSUME TypeOK, \A t \in Threads : PhaseInv(t), [Next]_vars
  PROVE  \A t \in Threads : PhaseInv(t)'
<1> SUFFICES ASSUME NEW u \in Threads PROVE PhaseInv(u)'
  OBVIOUS
<1>1. CASE Untouched(u)
  BY <1>1, PhaseUntouched
<1>2. ASSUME NEW t \in Threads,
             Step(t) \/ CallAcquire(t) \/ CallHasLock(t) \/ \E l \in Locks : Release(t, l)
      PROVE  PhaseInv(u)'
  <2>1. CASE t = u
    BY <1>2, <2>1, PhaseStep
  <2>2. CASE t # u
    BY <1>1, <1>2, <2>2, OthersUntouched
  <2> QED BY <2>1, <2>2
<1> QED BY <1>1, <1>2, WhoseStep

\* Without a failed call to ZooKeeper only CreateBid adds a bid, the one its
\* call goes on with.
LEMMA FaultlessBids ==
  ASSUME TypeOK, NEW t \in Threads,
         Step(t) \/ CallAcquire(t) \/ CallHasLock(t) \/ (\E l \in Locks : Release(t, l)),
         faults' = 0
  PROVE  /\ faults = 0
         /\ \A l \in Locks : \A b \in bids'[l] \ bids[l] :
              b.owner = t /\ l = call'[t].lock /\ b.seq = call'[t].bid
<1>a. faults \in Nat /\ (Fault => faults' # 0)
  BY DEF TypeOK, Fault
<1>b. call[t].lock \in Locks /\ nextSeq[call[t].lock] \in Nat
  BY DEF TypeOK, Call
<1>1. CASE CreateBid(t)
  <2>1. PICK n \in {1, 2} :
          /\ IF n = 1 THEN UNCHANGED faults ELSE Fault
          /\ AddBids(t, n)
          /\ call' = [call EXCEPT ![t].bid = nextSeq[call[t].lock] + n - 1]
    BY <1>1 DEF CreateBid
  <2>2. n = 1 /\ faults = 0
    BY <1>a, <2>1
  <2>3. call'[t].lock = call[t].lock /\ call'[t].bid = nextSeq[call[t].lock]
    BY <1>b, <2>1, <2>2 DEF TypeOK, Call
  <2>4. nextSeq'[call[t].lock] = nextSeq[call[t].lock] + 1
    BY <1>b, <2>1, <2>2 DEF AddBids, TypeOK
  <2>5. ASSUME NEW l \in Locks, NEW b \in bids'[l] \ bids[l]
        PROVE  b.owner = t /\ l = call'[t].lock /\ b.seq = call'[t].bid
    <3>1. /\ l = call[t].lock /\ b.owner = t
          /\ nextSeq[l] <= b.seq /\ b.seq < nextSeq'[l]
          /\ b \in Bid
      BY <2>1, AddBidsEffect
    <3>2. b.seq \in Nat
      BY <3>1 DEF Bid
    <3> QED BY <1>b, <2>3, <2>4, <3>1, <3>2
  <2> QED BY <2>2, <2>5
<1>2. CASE CreateBidFails(t)
  <2>1. UNCHANGED <<zkVars, faults>>
    BY <1>a, <1>2 DEF CreateBidFails
  <2> QED BY <2>1 DEF zkVars
<1>3. CASE GiveUp(t) \/ DeleteBid(t)
  <2>1. DeleteOwnBid(t)
    BY <1>3 DEF GiveUp, DeleteBid
  <2>2. UNCHANGED faults
    BY <1>a, <2>1 DEF DeleteOwnBid
  <2> QED BY <2>1, <2>2, DeleteOwnBidEffect DEF Deletes
<1>4. ASSUME UNCHANGED bids, UNCHANGED faults \/ Fault
      PROVE  /\ faults = 0
             /\ \A l \in Locks : bids'[l] \ bids[l] = {}
  BY <1>4, <1>a
<1>5. CASE \/ Enter(t) \/ Reenter(t) \/ ReenterFails(t) \/ ScanOwns(t) \/ ScanWaits(t)
           \/ ScanThrows(t) \/ WatchPred(t) \/ WakeUp(t) \/ DeadlinePasses(t) \/ SyncReturns(t)
           \/ ReadFails(t) \/ HasLock(t) \/ CallAcquire(t) \/ CallHasLock(t)
           \/ \E l \in Locks : Release(t, l)
  <2>1. UNCHANGED bids /\ (UNCHANGED faults \/ Fault)
    BY <1>5 DEF Enter, Reenter, ReenterFails, ScanOwns, ScanWaits, ScanThrows, WatchPred, WakeUp,
                DeadlinePasses, SyncReturns, ReadFails, HasLock, CallAcquire, CallHasLock, Release,
                zkVars
  <2> QED BY <1>4, <2>1
<1> QED BY <1>1, <1>2, <1>3, <1>5 DEF Step

\* The bid of an owner record or of a call in progress stays one of the two
\* through the owner's own steps, or goes.
LEMMA OwnBidStep ==
  ASSUME IInv, OrphanInv, TypeOK', NEW t \in Threads, Up(t), faults = 0, faults' = 0,
         Step(t) \/ CallAcquire(t) \/ CallHasLock(t) \/ (\E l \in Locks : Release(t, l)),
         NEW l \in Locks, NEW b \in bids[l], b.owner = t, b \in bids'[l]
  PROVE  \/ held'[t][l].seq = b.seq
         \/ call'[t].lock = l /\ call'[t].bid = b.seq
<1> DEFINE Minded == \/ held[t][l].seq = b.seq
                     \/ call[t].lock = l /\ call[t].bid = b.seq
<1>a. /\ TypeOK /\ CallInv(t) /\ PhaseInv(t)
      /\ Minded
  BY DEF IInv, OrphanInv, NoOrphanBid
<1>b. /\ call[t].lock \in Locks /\ b.seq \in Nat /\ b.seq # NoBid
      /\ ~Fault
      /\ pc \in [Threads -> PC] /\ call \in [Threads -> Call]
      /\ held \in [Threads -> [Locks -> NameRef]]
  BY <1>a DEF TypeOK, Call, Bid, NoBid, Fault
<1>c. \A m \in Locks : ~Holds(t, m) => held[t][m].seq = NoBid
  BY <1>a DEF PhaseInv, NotHeld
<1>1. CASE /\ pc[t] \in {"idle", "enter", "bid", "query"}
           /\ held'[t][l].seq = held[t][l].seq
  BY <1>1, <1>a, <1>b DEF PhaseInv
<1>2. CASE /\ call'[t].lock = call[t].lock /\ call'[t].bid = call[t].bid
           /\ held'[t][l].seq = held[t][l].seq
  BY <1>2, <1>a
<1>3. CASE CallAcquire(t) \/ CallHasLock(t) \/ HasLock(t) \/ Enter(t) \/ ReenterFails(t)
           \/ CreateBid(t) \/ CreateBidFails(t)
  <2>1. pc[t] \in {"idle", "enter", "bid", "query"} /\ held' = held
    BY <1>3 DEF CallAcquire, CallHasLock, HasLock, Enter, ReenterFails, CreateBid, CreateBidFails, At
  <2> QED BY <1>1, <2>1
<1>4. CASE WatchPred(t) \/ WakeUp(t) \/ DeadlinePasses(t)
  BY <1>2, <1>4 DEF WatchPred, WakeUp, DeadlinePasses
<1>5. CASE ScanWaits(t)
  <2>1. held' = held /\ call'[t].lock = call[t].lock /\ call'[t].bid = call[t].bid
    BY <1>5, <1>b DEF ScanWaits, Call
  <2> QED BY <1>2, <2>1
<1>6. CASE Reenter(t)
  <2> DEFINE m == call[t].lock
             r == [held[t][m] EXCEPT !.count = held[t][m].count + 1]
  <2>1. pc[t] = "enter" /\ held' = [held EXCEPT ![t][m] = r]
    BY <1>6 DEF Reenter, At
  <2>2. r.seq = held[t][m].seq
    BY <1>b DEF NameRef
  <2>3. held'[t][l] = IF l = m THEN r ELSE held[t][l]
    BY <1>b, <2>1
  <2> QED BY <1>1, <2>1, <2>2, <2>3
<1>7. CASE ScanOwns(t)
  <2> DEFINE m == call[t].lock
             r == [type |-> call[t].type, seq |-> call[t].bid, count |-> 1]
  <2>1. pc[t] = "scan" /\ call' = call /\ held' = [held EXCEPT ![t][m] = r]
    BY <1>7 DEF ScanOwns, At
  <2>2. held'[t][l] = IF l = m THEN r ELSE held[t][l]
    BY <1>b, <2>1
  <2>3. held[t][m].seq = NoBid
    BY <1>a, <1>b, <1>c, <2>1 DEF CallInv
  <2>4. CASE l = m
    BY <1>a, <1>b, <2>1, <2>3, <2>4
  <2>5. CASE l # m
    BY <1>2, <2>1, <2>2, <2>5
  <2> QED BY <2>4, <2>5
<1>8. CASE ScanThrows(t)
  <2> DEFINE m == call[t].lock
  <2>1. /\ pc[t] = "scan" /\ held' = held
        /\ OtherOwnBids(t) # {} \/ ~OwnBidListed(t)
    BY <1>8 DEF ScanThrows, At
  <2>2. held[t][m].seq = NoBid
    BY <1>a, <1>b, <1>c, <2>1 DEF CallInv
  <2>3. OtherOwnBids(t) = {}
    <3> SUFFICES ASSUME NEW c \in bids[m], c.owner = t, c.seq # call[t].bid PROVE FALSE
      BY DEF OtherOwnBids, OwnBid
    <3>1. held[t][m].seq = c.seq
      BY <1>b DEF OrphanInv, NoOrphanBid
    <3>2. c.seq # NoBid
      BY <1>a, <1>b DEF TypeOK, Bid, NoBid
    <3> QED BY <2>2, <3>1, <3>2
  <2>4. ~(l = m /\ call[t].bid = b.seq)
    <3> SUFFICES ASSUME l = m, call[t].bid = b.seq PROVE FALSE
      OBVIOUS
    <3>1. b.type = call[t].type
      BY <1>a, <2>1 DEF CallInv
    <3>2. b \in Considered(t)
      BY <3>1 DEF Considered, OwnBid
    <3> QED BY <2>1, <2>3, <3>2 DEF OwnBidListed
  <2> QED BY <1>a, <2>1, <2>4
<1>9. CASE GiveUp(t) \/ DeleteBid(t)
  <2>1. held' = held /\ DeleteOwnBid(t)
    BY <1>9 DEF GiveUp, DeleteBid
  <2>2. bids' = WithoutBid(call[t].lock, call[t].bid)
    BY <1>b, <2>1, SetBidsEffect DEF DeleteOwnBid
  <2>3. ~(call[t].lock = l /\ call[t].bid = b.seq)
    BY <1>a, <1>b, <2>2, WithoutBidType
  <2> QED BY <1>a, <2>1, <2>3
<1>10. CASE SyncReturns(t)
  <2>1. pc[t] = "sync" /\ held' = held
    BY <1>10 DEF SyncReturns, At
  <2>2. held[t][call[t].lock].seq = call[t].bid
    BY <1>a, <2>1 DEF PhaseInv
  <2> QED BY <1>a, <2>1, <2>2
<1>11. ~ReadFails(t)
  BY <1>b DEF ReadFails
<1>12. ASSUME NEW m \in Locks, Release(t, m)
       PROVE  \/ held'[t][l].seq = b.seq
              \/ call'[t].lock = l /\ call'[t].bid = b.seq
  <2>1. pc[t] = "idle" /\ held[t][l].seq = b.seq
    BY <1>a, <1>b, <1>12 DEF Release, At, PhaseInv
  <2>2. CASE held[t][m].count > 1
    <3> DEFINE r == [held[t][m] EXCEPT !.count = held[t][m].count - 1]
    <3>1. held' = [held EXCEPT ![t][m] = r]
      BY <1>12, <2>2 DEF Release
    <3>2. r.seq = held[t][m].seq
      BY <1>b DEF NameRef
    <3>3. held'[t][l] = IF l = m THEN r ELSE held[t][l]
      BY <1>b, <3>1
    <3> QED BY <2>1, <3>2, <3>3
  <2>3. CASE ~(held[t][m].count > 1)
    <3>1. /\ held' = [held EXCEPT ![t][m] = NotHeld]
          /\ call' = [call EXCEPT ![t].lock = m, ![t].bid = held[t][m].seq]
      BY <1>12, <2>3 DEF Release
    <3>2. held'[t][l] = IF l = m THEN NotHeld ELSE held[t][l]
      BY <1>b, <3>1
    <3>3. call'[t].lock = m /\ call'[t].bid = held[t][m].seq
      BY <1>b, <3>1 DEF Call
    <3> QED BY <2>1, <3>2, <3>3
  <2> QED BY <2>2, <2>3
<1> QED BY <1>3, <1>4, <1>5, <1>6, <1>7, <1>8, <1>9, <1>10, <1>11, <1>12 DEF Step

\* No step leaves a bid behind.
LEMMA OrphanStep ==
  ASSUME IInv, OrphanInv, [Next]_vars
  PROVE  OrphanInv'
<1>a. TypeOK /\ TypeOK' /\ NoOrphanBid /\ \A t \in Threads : PhaseInv(t)
  BY TypeStep DEF IInv, OrphanInv
<1>1. \A t \in Threads : PhaseInv(t)'
  BY <1>a, AllPhasesStep
<1>2. ASSUME NEW l \in Locks, NEW b \in bids'[l], faults' = 0, Up(b.owner)'
      PROVE  \/ held'[b.owner][l].seq = b.seq
             \/ call'[b.owner].lock = l /\ call'[b.owner].bid = b.seq
  <2>1. b.owner \in Threads
    BY <1>a DEF TypeOK, Bid
  <2>2. Up(b.owner)
    BY <1>2, <1>a, <2>1, UpBefore
  <2>3. ASSUME faults = 0, b \in bids[l], Untouched(b.owner)
        PROVE  \/ held'[b.owner][l].seq = b.seq
               \/ call'[b.owner].lock = l /\ call'[b.owner].bid = b.seq
    BY <1>a, <2>2, <2>3 DEF NoOrphanBid, Untouched
  <2>4. CASE /\ \A u \in Threads : Untouched(u)
             /\ faults' = faults
             /\ bids'[l] \subseteq bids[l]
    BY <1>2, <2>1, <2>3, <2>4
  <2>5. ASSUME NEW t \in Threads,
               Step(t) \/ CallAcquire(t) \/ CallHasLock(t) \/ (\E m \in Locks : Release(t, m))
        PROVE  \/ held'[b.owner][l].seq = b.seq
               \/ call'[b.owner].lock = l /\ call'[b.owner].bid = b.seq
    <3>1. /\ faults = 0
          /\ b \notin bids[l] => b.owner = t /\ l = call'[t].lock /\ b.seq = call'[t].bid
      BY <1>2, <1>a, <2>5, FaultlessBids
    <3>2. CASE b \notin bids[l]
      BY <3>1, <3>2
    <3>3. CASE b \in bids[l] /\ b.owner = t
      BY <1>2, <1>a, <2>2, <2>5, <3>1, <3>3, OwnBidStep
    <3>4. CASE b \in bids[l] /\ b.owner # t
      BY <1>a, <2>1, <2>3, <2>5, <3>1, <3>4, OthersUntouched
    <3> QED BY <3>2, <3>3, <3>4
  <2> QED BY <1>a, <2>4, <2>5, WhoseStep
<1>3. NoOrphanBid'
  BY <1>2 DEF NoOrphanBid
<1> QED BY <1>1, <1>3 DEF OrphanInv

\* Nothing is held, minded or left behind before the first call.
LEMMA OrphanInit == Init => OrphanInv
<1> SUFFICES ASSUME Init PROVE OrphanInv
  OBVIOUS
<1>1. \A t \in Threads : /\ pc[t] = "idle" /\ call[t].bid = NoBid
                         /\ \A l \in Locks : held[t][l] = NotHeld
  BY DEF Init, NoCall
<1>2. \A t \in Threads : PhaseInv(t)
  BY <1>1 DEF PhaseInv
<1>3. NoOrphanBid
  BY DEF Init, NoOrphanBid
<1> QED BY <1>2, <1>3 DEF OrphanInv

\* Both invariants hold in every reachable state.
LEMMA OrphanInvCorrect == Spec => [](IInv /\ OrphanInv)
<1>1. Init => IInv /\ OrphanInv
  BY IInvInit, OrphanInit
<1>2. IInv /\ OrphanInv /\ [Next]_vars => IInv' /\ OrphanInv'
  BY IInvStep, OrphanStep
<1> QED BY <1>1, <1>2, PTL DEF Spec

\* As long as no call to ZooKeeper fails, acquireWaitUsecs and release leave no
\* bid behind that is neither an owner's nor that of a call in progress.
THEOREM NoOrphanBidCorrect == Spec => []NoOrphanBid
<1>1. OrphanInv => NoOrphanBid
  BY DEF OrphanInv
<1> QED BY <1>1, OrphanInvCorrect, PTL

-----------------------------------------------------------------------------
(* The recipe implements the re-entrant shared or exclusive lock *)

\* The owner record of a thread as its clients see it.
Shown(t, l) == [type |-> held[t][l].type, count |-> held[t][l].count]

\* What ClientView says of one thread and one lock.
LEMMA ViewAt ==
  ASSUME NEW t \in Threads, NEW l \in Locks
  PROVE  /\ ClientView[t][l] = IF Up(t) THEN Shown(t, l) ELSE Abstract!Free
         /\ Shown(t, l).type = held[t][l].type
         /\ Shown(t, l).count = held[t][l].count
         /\ Abstract!Free.count = 0
BY DEF ClientView, Shown, Abstract!Free

\* A function of two arguments that differs from another in one place.
LEMMA TwoLevelExcept ==
  ASSUME NEW V, NEW W, NEW t \in Threads, NEW l \in Locks, NEW r,
         V = [u \in Threads |-> [m \in Locks |-> V[u][m]]],
         W = [u \in Threads |-> [m \in Locks |-> W[u][m]]],
         \A u \in Threads, m \in Locks :
           W[u][m] = IF u = t /\ m = l THEN r ELSE V[u][m]
  PROVE  W = [V EXCEPT ![t][l] = r]
<1> DEFINE Vt == [V[t] EXCEPT ![l] = r]
           E == [V EXCEPT ![t] = Vt]
<1>1. /\ DOMAIN V = Threads /\ DOMAIN W = Threads
      /\ \A u \in Threads : /\ V[u] = [m \in Locks |-> V[u][m]]
                            /\ W[u] = [m \in Locks |-> W[u][m]]
  OBVIOUS
<1>2. W[t] = Vt
  <2>1. DOMAIN V[t] = Locks
    BY <1>1
  <2>2. Vt = [m \in Locks |-> IF m = l THEN r ELSE V[t][m]]
    BY <2>1
  <2>3. \A m \in Locks : W[t][m] = IF m = l THEN r ELSE V[t][m]
    OBVIOUS
  <2>4. W[t] = [m \in Locks |-> W[t][m]]
    BY <1>1
  <2> HIDE DEF Vt
  <2> QED BY <2>2, <2>3, <2>4
<1>3. ASSUME NEW u \in Threads, u # t PROVE W[u] = V[u]
  <2>1. \A m \in Locks : W[u][m] = V[u][m]
    BY <1>3
  <2>2. V[u] = [m \in Locks |-> V[u][m]] /\ W[u] = [m \in Locks |-> W[u][m]]
    BY <1>1
  <2> QED BY <2>1, <2>2
<1> HIDE DEF Vt
<1>4. E = [u \in Threads |-> IF u = t THEN Vt ELSE V[u]]
  BY <1>1
<1>5. W = [u \in Threads |-> W[u]]
  OBVIOUS
<1>6. W = E
  BY <1>2, <1>3, <1>4, <1>5
<1> QED BY <1>6 DEF Vt

\* A step that changes one entry of the view.
LEMMA ViewUpdate ==
  ASSUME NEW t \in Threads, NEW l \in Locks, NEW r,
         \A u \in Threads, m \in Locks :
           ClientView'[u][m] = IF u = t /\ m = l THEN r ELSE ClientView[u][m]
  PROVE  ClientView' = [ClientView EXCEPT ![t][l] = r]
<1>1. /\ ClientView = [u \in Threads |-> [m \in Locks |-> ClientView[u][m]]]
      /\ ClientView' = [u \in Threads |-> [m \in Locks |-> ClientView'[u][m]]]
  BY DEF ClientView
<1> QED BY <1>1, TwoLevelExcept

\* A step that leaves the owner records and the processes alone shows nothing.
LEMMA ViewKept ==
  ASSUME UNCHANGED <<proc, held>>
  PROVE  ClientView' = ClientView
BY DEF ClientView, Up

\* An owner record that is written shows in the view of a connected thread only.
LEMMA ViewWritten ==
  ASSUME TypeOK, NEW t \in Threads, NEW l \in Locks, NEW r,
         held' = [held EXCEPT ![t][l] = r], UNCHANGED proc
  PROVE  /\ Up(t) => ClientView' = [ClientView EXCEPT ![t][l] =
                                      [type |-> r.type, count |-> r.count]]
         /\ ~Up(t) => ClientView' = ClientView
<1>1. \A u \in Threads, m \in Locks :
        held'[u][m] = IF u = t /\ m = l THEN r ELSE held[u][m]
  BY DEF TypeOK
<1>2. \A u \in Threads : Up(u)' = Up(u)
  BY DEF Up
<1>3. ASSUME NEW u \in Threads, NEW m \in Locks
      PROVE  ClientView'[u][m] = IF Up(u) THEN [type |-> held'[u][m].type,
                                                count |-> held'[u][m].count]
                                          ELSE Abstract!Free
  BY <1>2 DEF ClientView, Abstract!Free
<1>4. CASE Up(t)
  <2>1. ASSUME NEW u \in Threads, NEW m \in Locks
        PROVE  ClientView'[u][m] = IF u = t /\ m = l
                                   THEN [type |-> r.type, count |-> r.count]
                                   ELSE ClientView[u][m]
    <3>1. CASE u = t /\ m = l
      BY <1>1, <1>3, <1>4, <3>1
    <3>2. CASE ~(u = t /\ m = l)
      <4>1. ClientView[u][m] = IF Up(u) THEN Shown(u, m) ELSE Abstract!Free
        BY ViewAt
      <4>2. held'[u][m] = held[u][m]
        BY <1>1, <3>2
      <4> QED BY <1>3, <3>2, <4>1, <4>2 DEF Shown
    <3> QED BY <3>1, <3>2
  <2> QED BY <1>4, <2>1, ViewUpdate
<1>5. CASE ~Up(t)
  <2>1. ASSUME NEW u \in Threads, NEW m \in Locks
        PROVE  ClientView'[u][m] = ClientView[u][m]
    <3>1. ClientView[u][m] = IF Up(u) THEN Shown(u, m) ELSE Abstract!Free
      BY ViewAt
    <3>2. u # t => held'[u][m] = held[u][m]
      BY <1>1
    <3> QED BY <1>3, <1>5, <3>1, <3>2 DEF Shown
  <2>2. /\ ClientView = [u \in Threads |-> [m \in Locks |-> ClientView[u][m]]]
        /\ ClientView' = [u \in Threads |-> [m \in Locks |-> ClientView'[u][m]]]
    BY DEF ClientView
  <2> QED BY <1>5, <2>1, <2>2
<1> QED BY <1>4, <1>5

\* A lock is granted as the abstract lock grants it: to a thread that does not hold
\* it, and to none that conflicts with another owner.
LEMMA GrantIsAcquire ==
  ASSUME IInv, [Next]_vars, NEW t \in Threads, ScanOwns(t)
  PROVE  [Abstract!Next]_(Abstract!vars)
<1>a. TypeOK /\ CallInv(t)
  BY DEF IInv
<1>b. MutualExclusion'
  <2>1. IInv'
    BY IInvStep
  <2> QED BY <2>1, IInvExcludes, PTL
<1>c. PICK l \in Locks, type \in LockTypes : l = call[t].lock /\ type = call[t].type
  BY <1>a DEF TypeOK, Call
<1> DEFINE s == [type |-> type, count |-> 1]
<1>d. PICK r : r = [type |-> type, seq |-> call[t].bid, count |-> 1]
  OBVIOUS
<1>1. /\ UNCHANGED <<proc, removal>> /\ pc[t] = "scan"
      /\ held' = [held EXCEPT ![t][l] = r]
  BY <1>c, <1>d DEF ScanOwns, At
<1>2. /\ Up(t) => ClientView' = [ClientView EXCEPT ![t][l] = s]
      /\ ~Up(t) => ClientView' = ClientView
  <2>1. r.type = type /\ r.count = 1
    BY <1>d
  <2>2. TypeOK /\ UNCHANGED proc /\ held' = [held EXCEPT ![t][l] = r]
    BY <1>a, <1>1
  <2>3. /\ Up(t) => ClientView' = [ClientView EXCEPT ![t][l] =
                                      [type |-> r.type, count |-> r.count]]
        /\ ~Up(t) => ClientView' = ClientView
    BY <2>2, ViewWritten
  <2> QED BY <2>1, <2>3
<1>3. CASE ~Up(t)
  BY <1>1, <1>2, <1>3 DEF Abstract!vars
<1>4. CASE Up(t)
  <2>1. ClientView[t][l].count = 0
    <3>1. ~Holds(t, l) /\ held[t][l].count \in Nat
      BY <1>a, <1>c, <1>1, HeldUpdate DEF CallInv
    <3> QED BY <1>4, <3>1, ViewAt DEF Holds
  <2>2. ASSUME removal = "no", NEW u \in Threads \ {t}, ClientView[u][l].count > 0
        PROVE  type = "SHARED" /\ ClientView[u][l].type = "SHARED"
    <3>1. Up(u) /\ Holds(u, l) /\ ClientView[u][l].type = held[u][l].type
      BY <2>2, ViewAt DEF Holds
    <3>2. held'[u] = held[u] /\ held'[t][l] = r
      BY <1>a, <1>1, <1>d, <2>2 DEF TypeOK
    <3>3. Up(u)' /\ Holds(u, l)' /\ Up(t)' /\ Holds(t, l)' /\ removal' = "no"
      BY <1>1, <1>d, <1>4, <2>2, <3>1, <3>2 DEF Up, Holds
    <3>4. held'[t][l].type = "SHARED" /\ held'[u][l].type = "SHARED"
      BY <1>b, <2>2, <3>3 DEF MutualExclusion
    <3> QED BY <1>d, <3>1, <3>2, <3>4
  <2>3. removal # "no" \/ Abstract!Compatible(t, l, type)
    BY <2>2 DEF Abstract!Compatible
  <2>4. Abstract!Acquire(t, l, type)
    BY <1>1, <1>2, <1>4, <2>1, <2>3 DEF Abstract!Acquire
  <2> QED BY <2>4 DEF Abstract!Next, Abstract!LockTypes, LockTypes
<1> QED BY <1>3, <1>4

\* Counting an owner record up is the abstract lock's re-entrant acquisition.
LEMMA ReenterIsReenter ==
  ASSUME TypeOK, NEW t \in Threads, Reenter(t)
  PROVE  [Abstract!Next]_(Abstract!vars)
<1> DEFINE l == call[t].lock
           r == [held[t][l] EXCEPT !.count = held[t][l].count + 1]
           s == [ClientView[t][l] EXCEPT !.count = ClientView[t][l].count + 1]
<1>1. /\ l \in Locks /\ UNCHANGED <<proc, removal>> /\ Holds(t, l)
      /\ held' = [held EXCEPT ![t][l] = r]
  BY DEF Reenter, TypeOK, Call
<1>2. r.type = held[t][l].type /\ r.count = held[t][l].count + 1
  BY <1>1, HeldUpdate DEF NameRef
<1>3. Up(t) => s = [type |-> r.type, count |-> r.count]
  <2> DEFINE v == ClientView[t][l]
  <2>1. Up(t) => v = [type |-> held[t][l].type, count |-> held[t][l].count]
    BY <1>1, ViewAt DEF Shown
  <2> HIDE DEF v, r, l
  <2>2. Up(t) => [v EXCEPT !.count = v.count + 1] = [type |-> r.type, count |-> r.count]
    BY <1>2, <2>1
  <2> QED BY <2>2 DEF v
<1>4. /\ Up(t) => ClientView' = [ClientView EXCEPT ![t][l] =
                                   [type |-> r.type, count |-> r.count]]
      /\ ~Up(t) => ClientView' = ClientView
  <2> HIDE DEF r, l
  <2> QED BY <1>1, ViewWritten
<1>5. CASE ~Up(t)
  BY <1>1, <1>4, <1>5 DEF Abstract!vars
<1>6. CASE Up(t)
  <2>1. ClientView' = [ClientView EXCEPT ![t][l] = s]
    BY <1>3, <1>4, <1>6
  <2>2. ClientView[t][l].count > 0
    BY <1>1, <1>6, ViewAt DEF Holds
  <2>3. Abstract!Reenter(t, l)
    BY <1>1, <2>1, <2>2 DEF Abstract!Reenter
  <2> QED BY <1>1, <2>3 DEF Abstract!Next
<1> QED BY <1>5, <1>6

\* Counting an owner record down, or erasing it, is the abstract lock's release.
LEMMA ReleaseIsRelease ==
  ASSUME TypeOK, NEW t \in Threads, NEW l \in Locks, Release(t, l)
  PROVE  [Abstract!Next]_(Abstract!vars)
<1> DEFINE r == IF held[t][l].count > 1
                THEN [held[t][l] EXCEPT !.count = held[t][l].count - 1] ELSE NotHeld
           v == ClientView[t][l]
<1>1. UNCHANGED <<proc, removal>> /\ Holds(t, l) /\ held' = [held EXCEPT ![t][l] = r]
  BY DEF Release
<1>2. held[t][l] \in NameRef /\ held[t][l].count \in Nat
  BY HeldUpdate
<1>3. ASSUME Up(t)
      PROVE  \/ /\ v.count = 1
                /\ [type |-> r.type, count |-> r.count] = Abstract!Free
             \/ /\ v.count > 1
                /\ [type |-> r.type, count |-> r.count] = [v EXCEPT !.count = v.count - 1]
  <2>1. v = [type |-> held[t][l].type, count |-> held[t][l].count]
    BY <1>3, ViewAt DEF Shown
  <2>2. CASE held[t][l].count > 1
    <3>1. r.type = held[t][l].type /\ r.count = held[t][l].count - 1
      BY <1>2, <2>2 DEF NameRef
    <3> HIDE DEF r, v
    <3> QED BY <2>1, <2>2, <3>1
  <2>3. CASE ~(held[t][l].count > 1)
    <3>1. v.count = 1 /\ r = NotHeld
      BY <1>1, <1>2, <2>1, <2>3 DEF Holds
    <3> QED BY <3>1 DEF NotHeld, Abstract!Free
  <2> QED BY <2>2, <2>3
<1>4. /\ Up(t) => ClientView' = [ClientView EXCEPT ![t][l] =
                                   [type |-> r.type, count |-> r.count]]
      /\ ~Up(t) => ClientView' = ClientView
  <2> HIDE DEF r
  <2> QED BY <1>1, ViewWritten
<1>5. CASE ~Up(t)
  BY <1>1, <1>4, <1>5 DEF Abstract!vars
<1>6. CASE Up(t)
  <2>1. v.count > 0 /\ UNCHANGED (removal # "no")
    BY <1>1, <1>6, ViewAt DEF Holds
  <2>2. Abstract!Release(t, l)
    BY <1>3, <1>4, <1>6, <2>1 DEF Abstract!Release
  <2> QED BY <2>2 DEF Abstract!Next
<1> QED BY <1>5, <1>6

\* A process that crashes or loses its session forgets what its threads held.
LEMMA EndIsForget ==
  ASSUME TypeOK, NEW p \in Procs, Crash(p) \/ SessionEnds(p)
  PROVE  Abstract!Next
<1> DEFINE S == {t \in Threads : ProcOf[t] = p}
<1>1. /\ UNCHANGED <<removal, held>>
      /\ proc' \in {[proc EXCEPT ![p] = s] : s \in {"crashed", "gone", "expired"}}
  BY DEF Crash, SessionEnds
<1>2. \A t \in Threads : Up(t)' = (Up(t) /\ t \notin S)
  BY <1>1, DistLockAssumption DEF TypeOK, Up
<1>3. ClientView' = [t \in Threads |-> IF t \in S THEN [l \in Locks |-> Abstract!Free]
                                       ELSE ClientView[t]]
  <2> DEFINE F == [t \in Threads |-> IF t \in S THEN [l \in Locks |-> Abstract!Free]
                                     ELSE ClientView[t]]
  <2>1. ClientView' = [t \in Threads |-> ClientView'[t]]
    BY DEF ClientView
  <2>2. ASSUME NEW t \in Threads PROVE ClientView'[t] = F[t]
    <3>1. CASE t \in S
      BY <1>1, <1>2, <3>1 DEF ClientView, Abstract!Free
    <3>2. CASE t \notin S
      BY <1>1, <1>2, <3>2 DEF ClientView
    <3> QED BY <3>1, <3>2
  <2> QED BY <2>1, <2>2
<1>4. Abstract!Forget(S)
  BY <1>1, <1>3 DEF Abstract!Forget
<1> QED BY <1>4 DEF Abstract!Next

\* The recipe of distributedlocks.cc implements the re-entrant shared or exclusive
\* lock its clients rely on, for any number of threads, processes and locks.
THEOREM LockRefines == Spec => ImplementsAbstractLock
<1>1. Init => Abstract!Init
  <2> SUFFICES ASSUME Init PROVE Abstract!Init
    OBVIOUS
  <2>1. \A t \in Threads, l \in Locks :
          held[t][l].type = "SHARED" /\ held[t][l].count = 0
    BY DEF Init, NotHeld
  <2>2. ClientView = [t \in Threads |-> [l \in Locks |-> Abstract!Free]]
    BY <2>1 DEF ClientView, Abstract!Free
  <2>3. (removal # "no") = FALSE
    BY DEF Init
  <2> QED BY <2>2, <2>3 DEF Abstract!Init
<1>2. IInv /\ [Next]_vars => [Abstract!Next]_(Abstract!vars)
  <2> SUFFICES ASSUME IInv, [Next]_vars PROVE [Abstract!Next]_(Abstract!vars)
    OBVIOUS
  <2>a. TypeOK
    BY DEF IInv
  <2>1. ASSUME UNCHANGED <<proc, held, removal>> PROVE [Abstract!Next]_(Abstract!vars)
    BY <2>1, ViewKept DEF Abstract!vars
  <2>2. ASSUME NEW t \in Threads, Step(t) PROVE [Abstract!Next]_(Abstract!vars)
    <3>1. UNCHANGED <<proc, held, removal>> \/ Reenter(t) \/ ScanOwns(t)
      BY <2>2 DEF Step, Enter, ReenterFails, CreateBid, CreateBidFails, ScanWaits, ScanThrows,
                  WatchPred, WakeUp, DeadlinePasses, GiveUp, SyncReturns, ReadFails, DeleteBid,
                  HasLock
    <3> QED BY <2>a, <2>1, <3>1, ReenterIsReenter, GrantIsAcquire
  <2>3. CASE StartRemoval
    <3>1. ClientView' = ClientView /\ (removal # "no")' = TRUE
      BY <2>3, ViewKept DEF StartRemoval
    <3> QED BY <3>1 DEF Abstract!Next, Abstract!Void
  <2>4. CASE FinishRemoval
    <3>1. ClientView' = ClientView /\ (removal # "no")' = (removal # "no")
      BY <2>4, ViewKept DEF FinishRemoval
    <3> QED BY <3>1 DEF Abstract!vars
  <2>5. CASE \/ \E t \in Threads : CallAcquire(t) \/ CallHasLock(t)
             \/ \E k \in events : DeliverDeleted(k)
             \/ \E l \in Locks : RemoveBid(l)
             \/ UNCHANGED vars
    BY <2>1, <2>5 DEF CallAcquire, CallHasLock, DeliverDeleted, RemoveBid, vars
  <2> QED BY <2>a, <2>2, <2>3, <2>4, <2>5, ReleaseIsRelease, EndIsForget DEF Next
<1> QED BY <1>1, <1>2, IInvCorrect, PTL DEF Spec, ImplementsAbstractLock, Abstract!Spec
=============================================================================
