---------------------------- MODULE CachedShards ----------------------------
(***************************************************************************)
(* The shards of one Notifyable in one process (src/src/core/              *)
(* cachedshardsimpl.cc, shard.cc): edits are local until publish() writes  *)
(* all of them to the repository, where other processes write as well, and *)
(* load replaces them by what is there.  The shards are kept in an         *)
(* IntervalTree, or in an array when the process does not know the hash    *)
(* range they are made for.                                                *)
(*                                                                         *)
(* A shard is the item of a node of the tree: <<start, end, priority,      *)
(* key>>.  Hash points are 0..MaxPoint, for Uint64HashRange's 0..2^64-1.   *)
(* A call that throws changes nothing and is no step.                      *)
(***************************************************************************)
EXTENDS IntervalTree

CONSTANTS
  MaxPoint,     \* the hash point for which isEnd() holds
  Shards,       \* what this process inserts and removes
  Elsewhere,    \* what other processes publish, in the order of their trees
  Room,         \* bound: shards in the tree, for a process that has (not) registered
                \* the hash range
  MaxVersion,   \* bound: publishes of everybody
  MaxPublished  \* bound: shards in a publish of this process

ASSUME CachedShardsAssumption ==
  /\ {MaxPoint, MaxVersion, MaxPublished} \subseteq Nat
  /\ Room \in [BOOLEAN -> Nat]
  /\ \A s \in Shards \cup UNION {Range(e) : e \in Elsewhere} :
       s[1] \in 0..MaxPoint /\ s[2] \in s[1]..MaxPoint

VARIABLES
  registered, \* has this process registered the hash range?
  range,      \* m_hashRange: "known" or "unknown"
  tree,       \* m_shardTree
  unknown,    \* m_unknownShardArr
  count,      \* m_shardTreeCount
  version,    \* the version of m_stat
  edited,     \* history: have the shards been edited since the version was read or written?
  copied,     \* history: has a delete moved a successor to another node?
  repo        \* the shards and the version in the repository

vars == <<registered, range, tree, unknown, count, version, edited, copied, repo>>

AllShards == Shards \cup UNION {Range(e) : e \in Elsewhere}
Repository == [version : 0..MaxVersion, shards : Seq(AllShards)]

Init ==
  /\ registered \in BOOLEAN
  /\ range = "unknown"
  /\ tree = EmptyTree
  /\ unknown = <<>>
  /\ count = 0
  /\ version = 0
  /\ edited = FALSE
  /\ copied = FALSE
  /\ repo = [version |-> 0, shards |-> <<>>]

-----------------------------------------------------------------------------
(* Queries *)

\* The filters do not filter: a shard is taken once by each of them that is
\* off, or whose value it has; any priority but -1 switches the second one off.
AnyKey == -1
getAllShards(key, priority) ==
  LET all == IF range = "unknown" THEN unknown ELSE Items(tree)
      taken(s) == (IF key = AnyKey \/ key = s[4] THEN <<s>> ELSE <<>>)
                  \o (IF priority # -1 \/ priority = s[3] THEN <<s>> ELSE <<>>)
  IN FoldLeft(LAMBDA list, s : list \o taken(s), <<>>, all)

\* The orders that std::sort may leave items <<priority, key>> in: it keeps no order
\* of those that have the same priority.
RECURSIVE Sorts(_)
Sorts(items) ==
  IF items = <<>> THEN {<<>>}
  ELSE LET least == {i \in Range(items) : \A j \in Range(items) : i[1] <= j[1]}
       IN UNION {{<<i>> \o rest : rest \in Sorts(RemoveFirst(items, i))} : i \in least}

\* std::sort moves the shards with Shard::operator=, which leaves the ranges of the
\* shard it assigns to as they are: only priorities and keys move.
SortByPriority(list) ==
  {[n \in DOMAIN list |-> <<list[n][1], list[n][2], sorted[n][1], sorted[n][2]>>]
   : sorted \in Sorts([n \in DOMAIN list |-> <<list[n][3], list[n][4]>>])}

\* The keys of the Notifyables that are told to be responsible for the points, for
\* each order that the sort may give.
getNotifyables(points) ==
  LET hit(sorted, p) == SelectSeq(sorted, LAMBDA s : s[1] <= p /\ s[2] >= p)
  IN {[p \in points |-> [i \in DOMAIN hit(sorted, p) |-> hit(sorted, p)[i][4]]]
      : sorted \in SortByPriority(getAllShards(AnyKey, -1))}

\* Fault: the end of a range is compared with the next point that is missing
\* as if it were the last that is covered.
RECURSIVE CoveredLoosely(_, _)
CoveredLoosely(items, end) ==
  /\ items # <<>>
  /\ Head(items)[1] <= end + 1
  /\ \/ Head(items)[2] = MaxPoint
     \/ CoveredLoosely(Tail(items), IF Head(items)[2] >= end THEN Head(items)[2] + 1 ELSE end)

\* end is the first point that no shard so far has covered.
RECURSIVE CoveredFrom(_, _)
CoveredFrom(items, end) ==
  /\ items # <<>>
  /\ Head(items)[1] <= end
  /\ \/ Head(items)[2] >= end /\ Head(items)[2] = MaxPoint
     \/ CoveredFrom(Tail(items), IF Head(items)[2] >= end THEN Head(items)[2] + 1 ELSE end)

\* On an empty tree the first getStartRange() throws.
isCovered ==
  IF tree.head = Nil THEN "throws"
  ELSE IF Items(tree)[1][1] # 0 THEN "no"
  ELSE IF CoveredFrom(Items(tree), 0) THEN "yes" ELSE "no"

-----------------------------------------------------------------------------
(* Edits *)

\* The first shard says what the hash range is.
insert(s) ==
  /\ count < Room[registered]
  /\ count = 0 \/ range = "known"
  /\ range' = "known"
  /\ tree' = insertNode(tree, s)
  /\ unknown' = IF range = "unknown" THEN <<>> ELSE unknown
  /\ count' = count + 1
  /\ edited' = TRUE
  /\ UNCHANGED <<registered, version, copied, repo>>

remove(s) ==
  /\ range = "known"
  /\ LET a == nodeSearch(tree, s)
     IN /\ a # Nil
        /\ tree' = removeNode(tree, a)
        /\ copied' = (copied \/ Nil \notin {tree.node[a].left, tree.node[a].right})
  /\ count' = count - 1
  /\ edited' = TRUE
  /\ UNCHANGED <<registered, range, unknown, version, repo>>

\* Fault: the array of a process that does not know the hash range is kept.
ClearTree ==
  /\ tree' = EmptyTree
  /\ count' = 0
  /\ edited' = TRUE
  /\ UNCHANGED <<registered, range, unknown, version, copied, repo>>

clear ==
  /\ tree' = EmptyTree
  /\ unknown' = <<>>
  /\ count' = 0
  /\ copied' = FALSE
  /\ edited' = TRUE
  /\ UNCHANGED <<registered, range, version, repo>>

-----------------------------------------------------------------------------
(* The repository *)

\* marshalShards and the write: a conditional one needs the version that was
\* last read or written.
publish(unconditional) ==
  /\ count = 0 \/ range = "known"
  /\ unconditional \/ version = repo.version
  /\ repo.version < MaxVersion /\ count <= MaxPublished
  /\ repo' = [version |-> repo.version + 1, shards |-> IF count = 0 THEN <<>> ELSE Items(tree)]
  /\ version' = repo'.version
  /\ edited' = FALSE
  /\ UNCHANGED <<registered, range, tree, unknown, count, copied>>

\* Fault: what other processes publish is added to what is there.
MergeLoad ==
  /\ version < repo.version
  /\ version' = repo.version
  /\ edited' = FALSE
  /\ IF repo.shards = <<>>
     THEN UNCHANGED <<range, tree, unknown, count>>
     ELSE /\ range' = IF registered THEN "known" ELSE "unknown"
          /\ tree' = IF registered THEN FoldLeft(insertNode, tree, repo.shards) ELSE EmptyTree
          /\ unknown' = IF registered THEN <<>> ELSE repo.shards
          /\ count' = Len(repo.shards)
  /\ UNCHANGED <<registered, copied, repo>>

\* loadDataFromRepository and unmarshalShards, for a new version: an empty
\* array leaves the hash range alone.
load ==
  /\ version < repo.version
  /\ version' = repo.version
  /\ edited' = FALSE
  /\ range' = IF repo.shards = <<>> THEN range ELSE IF registered THEN "known" ELSE "unknown"
  /\ tree' = IF registered THEN FoldLeft(insertNode, EmptyTree, repo.shards) ELSE EmptyTree
  /\ unknown' = IF registered THEN <<>> ELSE repo.shards
  /\ count' = Len(repo.shards)
  /\ copied' = FALSE
  /\ UNCHANGED <<registered, repo>>

Foreign(shards) ==
  /\ repo.version < MaxVersion
  /\ repo' = [version |-> repo.version + 1, shards |-> shards]
  /\ UNCHANGED <<registered, range, tree, unknown, count, version, edited, copied>>

Next ==
  \/ \E s \in Shards : insert(s)
  \/ \E s \in AllShards : remove(s)
  \/ clear
  \/ \E u \in BOOLEAN : publish(u)
  \/ load
  \/ \E e \in Elsewhere : Foreign(e)

Spec == Init /\ [][Next]_vars

-----------------------------------------------------------------------------
(* Properties *)

Nodes == DOMAIN tree.node \ {Nil}
Contents == IF range = "unknown" THEN unknown ELSE Items(tree)

\* The values of the variables; a shard has its own address, and the head is one.
TypeOK ==
  /\ registered \in BOOLEAN /\ edited \in BOOLEAN /\ copied \in BOOLEAN
  /\ range \in {"known", "unknown"}
  /\ version \in 0..repo.version /\ count \in Nat
  /\ repo \in Repository
  /\ unknown \in Seq(AllShards)
  /\ tree.head \in DOMAIN tree.node
  /\ \A a \in Nodes :
       /\ {tree.node[a].up, tree.node[a].left, tree.node[a].right} \subseteq DOMAIN tree.node
       /\ tree.node[a].red \in BOOLEAN

RECURSIVE BlackHeights(_, _)
BlackHeights(a, n) ==
  IF a = Nil THEN {n}
  ELSE UNION {BlackHeights(tree.node[a][s], IF Red(tree, a) THEN n ELSE n + 1)
              : s \in {"left", "right"}}

\* Whatever is inserted and deleted, and however often the same shard, the tree
\* stays balanced, its parents are those of its children, it lists its items
\* in their order, and no node's maximum is below an end in its subtree.
Balanced ==
  /\ ~Red(tree, tree.head)
  /\ Cardinality(BlackHeights(tree.head, 0)) = 1
  /\ \A a \in Nodes :
       /\ Red(tree, a) => ~Red(tree, tree.node[a].left) /\ ~Red(tree, tree.node[a].right)
       /\ \A s \in {"left", "right"} : tree.node[a][s] # Nil => Up(tree, tree.node[a][s]) = a
       /\ tree.node[a].max >= EndRangeMax(tree, a)
  /\ LET items == Items(tree)
     IN \A i \in 2..Len(items) : ~Less(items[i], items[i - 1])

Overlapping(lo, hi) == {a \in Nodes : tree.node[a].item[1] <= hi /\ End(tree, a) >= lo}

\* intervalSearch finds a node that overlaps a range if and only if there is one.
SearchFindsOverlap ==
  \A lo \in 0..MaxPoint : \A hi \in lo..MaxPoint :
    IF Overlapping(lo, hi) = {} THEN intervalSearch(tree, lo, hi) = Nil
    ELSE intervalSearch(tree, lo, hi) \in Overlapping(lo, hi)

\* As long as no delete has moved a successor, verifyTree accepts a tree
\* without duplicates, as the unit tests demand after every operation, and
\* intervalSearch is right.
SoundUntilCopied ==
  ~copied => /\ IsInjective(Items(tree)) => verifyTree(tree)
             /\ SearchFindsOverlap

\* The tree is what its operations need, unless a delete has moved a successor: then
\* its maxima, and intervalSearch with them, may be wrong.  (Every variable has its
\* type, too.)
TreeSound == TypeOK /\ Balanced /\ SoundUntilCopied

Responsible(point) == {tree.node[a].item[4] : a \in Overlapping(point, point)}

\* The sort can move no Notifyable to the range of another: from shard to shard the
\* priority rises, or it is equal and so is the Notifyable.
PrioritiesFollowRanges ==
  LET list == Contents
  IN \A i \in 2..Len(list) : \/ list[i - 1][3] < list[i][3]
                             \/ list[i - 1][3] = list[i][3] /\ list[i - 1][4] = list[i][4]

\* getNotifyables finds the Notifyables that are responsible for each hash point,
\* whatever order the sort leaves equal priorities in, when the priorities follow the
\* order of the ranges.  (When they do not, Notifyables change ranges: also those of
\* shards that all have the default priority, which the sort may put in any order.)
LookupFindsResponsible ==
  range = "known" /\ PrioritiesFollowRanges =>
    \A told \in getNotifyables(0..MaxPoint) :
      \A p \in 0..MaxPoint : Range(told[p]) = Responsible(p)

\* isCovered says what its name says, of every tree that is not empty.
CoveredMeansCovered ==
  tree.head # Nil =>
    ((isCovered = "yes") <=> \A p \in 0..MaxPoint : Overlapping(p, p) # {})

\* A lookup gives the Notifyables of the points it is asked for.
LookupsAnswer == CoveredMeansCovered /\ LookupFindsResponsible

\* A process that has read or written the newest version and edited nothing
\* since has the shards of the repository, in their order, known hash range
\* or not; and the count is that of its shards.
UpToDateIsRepository ==
  /\ ~edited /\ version = repo.version => Contents = repo.shards
  /\ count = Len(Contents)

\* (The bound l makes TLC evaluate the list once.)
Copies(list) ==
  CHOOSE bag \in {[s \in AllShards |-> Cardinality({i \in DOMAIN l : l[i] = s})] : l \in {list}} : TRUE

\* remove() takes away the shard it is told to and no other, also when that is
\* in a node that stays and gets the contents of its successor.
RemovesThatShard ==
  [][\A s \in AllShards :
       count' = count - 1 /\ remove(s) =>
         Copies(Contents') = [Copies(Contents) EXCEPT ![s] = @ - 1]]_vars

Bag == INSTANCE AbstractShards
         WITH Elsewhere <- {Copies(e) : e \in Elsewhere},
              contents <- Copies(Contents), published <- Copies(repo.shards)

\* Through the tree, the array, the publishes and the loads, a process edits a
\* bag of shards: nothing is lost, doubled, or published but what it has.
ImplementsAbstractShards == Bag!Spec
=============================================================================
