----------------------------- MODULE MCDistLock -----------------------------
(* Two processes for TLC: p1 with the threads t1 and t2, p2 with t3.          *)
EXTENDS DistLock, TLC

CONSTANTS t1, t2, t3, p1, p2

OneLock == {"CHILD_LOCK"}
TwoAndOne == (t1 :> p1) @@ (t2 :> p1) @@ (t3 :> p2)
OneAndOne == (t1 :> p1) @@ (t3 :> p2)
SameProcess == Permutations({t1, t2})
Together == (t1 :> p1) @@ (t2 :> p1)
=============================================================================
