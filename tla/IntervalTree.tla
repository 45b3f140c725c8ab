---------------------------- MODULE IntervalTree ----------------------------
(***************************************************************************)
(* The red-black interval tree of src/src/core/intervaltree.h, in which    *)
(* cachedshardsimpl.cc keeps the shards of a Notifyable.  A tree is a      *)
(* value here and an operation maps a tree to a tree: the lock of the      *)
(* cached data makes every call of it atomic.                              *)
(*                                                                         *)
(* A node is found by its address, a number; Nil is the address of the     *)
(* sentinel.  The sentinel has a colour and a parent and nothing else: its *)
(* other getters throw, and a walk that used one would stop TLC.  An item  *)
(* is <<start, end, priority, key>>: m_startRange, m_endRange and the data *)
(* of the shard, which compare() orders one after the other.               *)
(*                                                                         *)
(* Every rotation and every fix-up is written twice in the code, once per  *)
(* side; here the side is a parameter.                                     *)
(***************************************************************************)
EXTENDS Integers, SequencesExt

Nil == 0
Other(side) == IF side = "left" THEN "right" ELSE "left"

EmptyTree == [head |-> Nil, node |-> [a \in {Nil} |-> [red |-> FALSE, up |-> Nil]]]

\* compare(a, b) = -1
Less(a, b) == \E i \in 1..4 : a[i] < b[i] /\ \A j \in 1..(i - 1) : a[j] = b[j]

Put(t, a, field, v) == [t EXCEPT !.node[a][field] = v]
Red(t, a) == t.node[a].red
Up(t, a) == t.node[a].up
End(t, a) == t.node[a].item[2]
SideOf(t, a) == IF t.node[Up(t, a)].left = a THEN "left" ELSE "right"

\* The highest end among a node and what its children say of theirs.
EndRangeMax(t, a) ==
  Max({End(t, a)} \cup {t.node[c].max : c \in {t.node[a].left, t.node[a].right} \ {Nil}})

updateEndRangeMax(t, a) == Put(t, a, "max", EndRangeMax(t, a))

\* The subtree at the address b takes the place of a below a's parent.
Replace(t, a, b) ==
  IF Up(t, a) = Nil THEN [t EXCEPT !.head = b] ELSE Put(t, Up(t, a), SideOf(t, a), b)

\* Fault: a rotation leaves the maximum of the node that goes down as it was.
RotateStale(t, x, side) ==
  LET y == t.node[x][Other(side)]
      inner == t.node[y][side]
      t1 == Put(t, x, Other(side), inner)
      t2 == IF inner = Nil THEN t1 ELSE Put(t1, inner, "up", x)
      t3 == Replace(Put(t2, y, "up", Up(t, x)), x, y)
      t4 == Put(Put(t3, y, side, x), x, "up", y)
  IN updateEndRangeMax(t4, y)

\* rotateLeft and rotateRight: x goes down to the given side.
Rotate(t, x, side) ==
  LET y == t.node[x][Other(side)]
      inner == t.node[y][side]
      t1 == Put(t, x, Other(side), inner)
      t2 == IF inner = Nil THEN t1 ELSE Put(t1, inner, "up", x)
      t3 == Replace(Put(t2, y, "up", Up(t, x)), x, y)
      t4 == Put(Put(t3, y, side, x), x, "up", y)
  IN updateEndRangeMax(updateEndRangeMax(t4, x), y)

-----------------------------------------------------------------------------
(* Walks *)

\* getMinStartRangeNode and getMaxStartRangeNode
Outermost(t, a, side) ==
  LET walk[x \in DOMAIN t.node] ==
        IF x = Nil \/ t.node[x][side] = Nil THEN x ELSE walk[t.node[x][side]]
  IN walk[a]

getSuccesor(t, a) ==
  LET climb[x \in DOMAIN t.node] ==
        IF Up(t, x) # Nil /\ SideOf(t, x) = "right" THEN climb[Up(t, x)] ELSE Up(t, x)
  IN IF t.node[a].right # Nil THEN Outermost(t, t.node[a].right, "left") ELSE climb[a]

\* begin() to end(): the addresses in the order of the iterator.
Iterate(t) ==
  LET from[a \in DOMAIN t.node] == IF a = Nil THEN <<>> ELSE <<a>> \o from[getSuccesor(t, a)]
  IN from[Outermost(t, t.head, "left")]

Items(t) == LET order == Iterate(t)
            IN [i \in DOMAIN order |-> t.node[order[i]].item]

\* Where the search for an item goes from a node that does not have it.
Toward(t, a, item) == IF Less(item, t.node[a].item) THEN t.node[a].left ELSE t.node[a].right

nodeSearch(t, item) ==
  LET find[a \in DOMAIN t.node] ==
        IF a = Nil \/ t.node[a].item = item THEN a ELSE find[Toward(t, a, item)]
  IN find[t.head]

intervalSearch(t, lo, hi) ==
  LET find[a \in DOMAIN t.node] ==
        IF a = Nil \/ (lo <= End(t, a) /\ hi >= t.node[a].item[1]) THEN a
        ELSE LET l == t.node[a].left
             IN find[IF l # Nil /\ t.node[l].max >= lo THEN l ELSE t.node[a].right]
  IN find[t.head]

-----------------------------------------------------------------------------
(* Insertion *)

Path(t, item) ==
  LET down[a \in DOMAIN t.node] == IF a = Nil THEN <<>> ELSE <<a>> \o down[Toward(t, a, item)]
  IN down[t.head]

\* z is a red leaf where the search for its item ends, and every node on the
\* way knows of its end.
insertNodeIntoTree(t, z, item) ==
  LET path == Path(t, item)
      leaf == [item |-> item, max |-> item[2], red |-> TRUE,
               up |-> IF path = <<>> THEN Nil ELSE Last(path), left |-> Nil, right |-> Nil]
      raised == [a \in DOMAIN t.node |->
                   IF a \in Range(path)
                   THEN [t.node[a] EXCEPT !.max = Max({@, item[2]})] ELSE t.node[a]]
      t1 == [t EXCEPT !.node = [a \in DOMAIN raised \cup {z} |->
                                  IF a = z THEN leaf ELSE raised[a]]]
  IN IF path = <<>> THEN [t1 EXCEPT !.head = z]
     ELSE Put(t1, Last(path), IF Less(item, t.node[Last(path)].item) THEN "left" ELSE "right", z)

RECURSIVE insertFixUp(_, _)
insertFixUp(t, x) ==
  IF x = t.head \/ ~Red(t, Up(t, x)) THEN Put(t, t.head, "red", FALSE)
  ELSE LET p == Up(t, x)
           g == Up(t, p)
           side == SideOf(t, p)
           uncle == t.node[g][Other(side)]
           t1 == IF SideOf(t, x) = side THEN t ELSE Rotate(t, p, side)
           x1 == IF SideOf(t, x) = side THEN x ELSE p
           t2 == Put(Put(t1, Up(t1, x1), "red", FALSE), g, "red", TRUE)
       IN IF Red(t, uncle)
          THEN insertFixUp(Put(Put(Put(t, p, "red", FALSE), uncle, "red", FALSE), g, "red", TRUE), g)
          ELSE insertFixUp(Rotate(t2, g, Other(side)), x1)

-----------------------------------------------------------------------------
(* Deletion *)

RECURSIVE endRangeMaxUpdateAncestors(_, _)
\* It stops at the first ancestor that keeps its maximum.
endRangeMaxUpdateAncestors(t, a) ==
  IF Up(t, a) = Nil \/ EndRangeMax(t, Up(t, a)) = t.node[Up(t, a)].max THEN t
  ELSE endRangeMaxUpdateAncestors(updateEndRangeMax(t, Up(t, a)), Up(t, a))

RECURSIVE deleteFixUp(_, _)
\* The subtree at x lacks one black node.
deleteFixUp(t, x) ==
  IF x = t.head \/ Red(t, x) THEN Put(t, x, "red", FALSE)
  ELSE LET p == Up(t, x)
           side == SideOf(t, x)
           far == Other(side)
           t1 == IF ~Red(t, t.node[p][far]) THEN t
                 ELSE Rotate(Put(Put(t, t.node[p][far], "red", FALSE), p, "red", TRUE), p, side)
           w == t1.node[p][far]
           t2 == IF Red(t1, t1.node[w][far]) THEN t1
                 ELSE Rotate(Put(Put(t1, t1.node[w][side], "red", FALSE), w, "red", TRUE), w, far)
           w2 == t2.node[p][far]
           t3 == Put(Put(Put(t2, w2, "red", Red(t2, p)), p, "red", FALSE),
                     t2.node[w2][far], "red", FALSE)
           t4 == Rotate(t3, p, side)
       IN IF ~Red(t1, t1.node[w].left) /\ ~Red(t1, t1.node[w].right)
          THEN deleteFixUp(Put(t1, w, "red", TRUE), p)
          ELSE Put(t4, t4.head, "red", FALSE)

\* Fault: the contents of the successor are not moved.
DeleteSuccessor(t, z) ==
  LET y == IF Nil \in {t.node[z].left, t.node[z].right} THEN z ELSE getSuccesor(t, z)
      x == IF t.node[y].left # Nil THEN t.node[y].left ELSE t.node[y].right
      t1 == endRangeMaxUpdateAncestors(Replace(Put(t, x, "up", Up(t, y)), y, x), y)
      t2 == IF Red(t, y) THEN t1 ELSE deleteFixUp(t1, x)
  IN [t2 EXCEPT !.node = [a \in DOMAIN @ \ {y} |-> t2.node[a]]]

\* The node y that leaves the tree is z, or z's successor whose contents z gets.
deleteNode(t, z) ==
  LET y == IF Nil \in {t.node[z].left, t.node[z].right} THEN z ELSE getSuccesor(t, z)
      x == IF t.node[y].left # Nil THEN t.node[y].left ELSE t.node[y].right
      t1 == Replace(Put(t, x, "up", Up(t, y)), y, x)
      t2 == IF y = z THEN t1
            ELSE updateEndRangeMax(Put(t1, z, "item", t.node[y].item), z)
      t3 == endRangeMaxUpdateAncestors(t2, y)
      t4 == IF Red(t, y) THEN t3 ELSE deleteFixUp(t3, x)
  IN [t4 EXCEPT !.node = [a \in DOMAIN @ \ {y} |-> t4.node[a]]]

-----------------------------------------------------------------------------
Depth(t) ==
  LET below[a \in DOMAIN t.node] ==
        IF a = Nil THEN 0 ELSE 1 + Max({below[t.node[a].left], below[t.node[a].right]})
  IN below[t.head]

\* The debugging function of the class: colours, order and maxima.  A left
\* child has to be strictly less.
checkTree(t, a) ==
  LET l == t.node[a].left
      r == t.node[a].right
  IN /\ Red(t, a) => ~Red(t, l) /\ ~Red(t, r)
     /\ l # Nil => Less(t.node[l].item, t.node[a].item)
     /\ r # Nil => ~Less(t.node[r].item, t.node[a].item)
     /\ Up(t, a) # Nil =>
          /\ Less(t.node[a].item, t.node[Up(t, a)].item) <=> SideOf(t, a) = "left"
          /\ t.node[a].max = EndRangeMax(t, a)

\* The depth is at most ceil(2 log2(n + 1)).
verifyTree(t) ==
  /\ \A a \in DOMAIN t.node \ {Nil} : checkTree(t, a)
  /\ t.head # Nil => 2^(Depth(t) - 1) < Cardinality(DOMAIN t.node)^2

-----------------------------------------------------------------------------
\* Addresses do not matter: number the nodes in the order of the iterator.  The
\* parent of the sentinel is written before every use.
Renumber(t) ==
  LET order == Iterate(t)
      new(a) == IF a = Nil THEN Nil ELSE CHOOSE i \in DOMAIN order : order[i] = a
  IN [head |-> new(t.head),
      node |-> [i \in 0..Len(order) |->
                  IF i = Nil THEN [red |-> Red(t, Nil), up |-> Nil]
                  ELSE [t.node[order[i]] EXCEPT !.up = new(@), !.left = new(@), !.right = new(@)]]]

insertNode(t, item) ==
  LET z == Cardinality(DOMAIN t.node)
  IN Renumber(insertFixUp(insertNodeIntoTree(t, z, item), z))

removeNode(t, z) == Renumber(deleteNode(t, z))
=============================================================================
