----------------------------- MODULE MCLifecycle -----------------------------
(* Two processes for TLC: p1 with the threads t1 and t2, p2 with t3.          *)
EXTENDS Lifecycle, TLC

CONSTANTS t1, t2, t3, p1, p2

TwoAndOne == [t \in {t1, t2, t3} |-> IF t = t3 THEN p2 ELSE p1]
SameProcess == Permutations({t1, t2})
\* Bound: calls and crashes together are four, and one more after a failing call.
Budget == calls + crashes <= 4 + faults
=============================================================================
