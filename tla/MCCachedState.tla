---------------------------- MODULE MCCachedState ----------------------------
(* Two processes for TLC: p1 with the threads t1 and t2, p2 with t3.          *)
EXTENDS CachedState

CONSTANTS t1, t2, t3, p1, p2

TwoAndOne == [t \in {t1, t2, t3} |-> IF t = t3 THEN p2 ELSE p1]

\* One thread locks, the others do not, and all publish conditionally; or every
\* thread locks and may publish unconditionally.
MCPrograms ==
  { [locking |-> {t1}, unconditional |-> {FALSE}],
    [locking |-> {t1, t2, t3}, unconditional |-> {TRUE, FALSE}] }
=============================================================================
