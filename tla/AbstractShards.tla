--------------------------- MODULE AbstractShards ---------------------------
(***************************************************************************)
(* What the shards of a Notifyable promise to a client that edits them: a  *)
(* bag of shards to add to and to take from, to publish as a whole, and to *)
(* be replaced by what is published.  A bag is the number of copies of     *)
(* each shard there can be.                                                *)
(***************************************************************************)
EXTENDS Naturals

CONSTANTS
  Shards,    \* what the client inserts
  Elsewhere  \* the bags other processes publish

VARIABLES
  contents,  \* the bag of the client
  published  \* the bag in the repository

vars == <<contents, published>>

None == [s \in DOMAIN contents |-> 0]

Init ==
  /\ \A s \in DOMAIN contents : contents[s] = 0
  /\ published = contents

insert == \E s \in Shards : contents' = [contents EXCEPT ![s] = @ + 1]

remove == \E s \in DOMAIN contents :
            contents[s] > 0 /\ contents' = [contents EXCEPT ![s] = @ - 1]

clear == contents' = None
load == contents' = published
publish == published' = contents
Foreign == published' \in Elsewhere

Next ==
  \/ (insert \/ remove \/ clear \/ load) /\ UNCHANGED published
  \/ (publish \/ Foreign) /\ UNCHANGED contents

Spec == Init /\ [][Next]_vars
=============================================================================
