---------------------------- MODULE AbstractLock ----------------------------
(***************************************************************************)
(* What the clients of a Clusterlib lock rely on: a re-entrant shared or   *)
(* exclusive lock for every lock name of one Notifyable.  No bids, no      *)
(* watches, no processes: a thread holds a lock a number of times in one   *)
(* of the two types, and two threads hold the same lock only when both     *)
(* hold it shared.  A session that ends forgets what its threads held, and *)
(* the removal of the Notifyable voids every promise about its locks.      *)
(***************************************************************************)
EXTENDS Naturals

CONSTANTS Threads,   \* the threads of all the client processes
          Locks      \* the lock names of one Notifyable

VARIABLES holds,     \* holds[t][l]: the type and the count with which t holds l
          void       \* TRUE once the Notifyable is being removed

vars == <<holds, void>>

LockTypes == {"SHARED", "EXCL"}
Free == [type |-> "SHARED", count |-> 0]

Compatible(t, l, type) ==
  \A u \in Threads \ {t} :
    holds[u][l].count > 0 => type = "SHARED" /\ holds[u][l].type = "SHARED"

Init == /\ holds = [t \in Threads |-> [l \in Locks |-> Free]]
        /\ void = FALSE

Acquire(t, l, type) ==
  /\ holds[t][l].count = 0
  /\ void \/ Compatible(t, l, type)
  /\ holds' = [holds EXCEPT ![t][l] = [type |-> type, count |-> 1]]
  /\ UNCHANGED void

Reenter(t, l) ==
  /\ holds[t][l].count > 0
  /\ holds' = [holds EXCEPT ![t][l].count = @ + 1]
  /\ UNCHANGED void

Release(t, l) ==
  /\ \/ holds[t][l].count = 1 /\ holds' = [holds EXCEPT ![t][l] = Free]
     \/ holds[t][l].count > 1 /\ holds' = [holds EXCEPT ![t][l].count = @ - 1]
  /\ UNCHANGED void

\* The threads of a session that ended hold nothing any more.
Forget(S) ==
  /\ holds' = [t \in Threads |-> IF t \in S THEN [l \in Locks |-> Free] ELSE holds[t]]
  /\ UNCHANGED void

Void == void' = TRUE /\ UNCHANGED holds

Next ==
  \/ \E t \in Threads, l \in Locks :
       \/ \E type \in LockTypes : Acquire(t, l, type)
       \/ Reenter(t, l)
       \/ Release(t, l)
  \/ \E S \in SUBSET Threads : Forget(S)
  \/ Void

Spec == Init /\ [][Next]_vars
=============================================================================
