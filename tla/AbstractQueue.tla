--------------------------- MODULE AbstractQueue ---------------------------
(***************************************************************************)
(* What the clients of a Clusterlib queue rely on: elements get increasing *)
(* ids as they are put, a take hands the element with the smallest id to   *)
(* one taker, and an element that was neither taken nor removed stays.     *)
(* Only a call whose reply ZooKeeper lost may add an element twice or      *)
(* remove one without handing it out.                                      *)
(***************************************************************************)
EXTENDS Naturals

CONSTANT Takers

VARIABLES queue,    \* the ids of the elements in the queue
          nextId,   \* the id of the next element
          taken,    \* taken[t]: the ids of the elements t took
          removed,  \* the ids of the elements that were removed or cleared
          lossy     \* has a reply been lost so far?

vars == <<queue, nextId, taken, removed, lossy>>

Init ==
  /\ queue = {}
  /\ nextId = 0
  /\ taken = [t \in Takers |-> {}]
  /\ removed = {}
  /\ lossy = FALSE

Put ==
  /\ \E n \in {1, 2} :
       /\ n = 2 => lossy'
       /\ queue' = queue \cup (nextId .. nextId + n - 1)
       /\ nextId' = nextId + n
  /\ lossy => lossy'
  /\ UNCHANGED <<taken, removed>>

\* The head goes to t: nobody else gets it, and nothing overtakes it.
Take(t) ==
  \E head \in queue :
    /\ \A other \in queue : head <= other
    /\ queue' = queue \ {head}
    /\ taken' = [taken EXCEPT ![t] = @ \cup {head}]
    /\ UNCHANGED <<nextId, removed, lossy>>

Remove ==
  \E id \in queue :
    /\ queue' = queue \ {id}
    /\ removed' = removed \cup {id}
    /\ lossy => lossy'
    /\ UNCHANGED <<nextId, taken>>

Lose ==
  /\ lossy'
  /\ \E id \in queue : queue' = queue \ {id}
  /\ UNCHANGED <<nextId, taken, removed>>

LoseReply == lossy' = TRUE /\ UNCHANGED <<queue, nextId, taken, removed>>

Next == Put \/ (\E t \in Takers : Take(t)) \/ Remove \/ Lose \/ LoseReply

Spec == Init /\ [][Next]_vars
=============================================================================
