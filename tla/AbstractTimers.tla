--------------------------- MODULE AbstractTimers ---------------------------
(***************************************************************************)
(* What registerTimer and cancelTimer promise (src/src/include/client.h):  *)
(* a timer's handler runs at most once, not before the timer's time, and   *)
(* not at all when a cancelTimer has returned true.                        *)
(***************************************************************************)
EXTENDS Naturals

CONSTANT Timers

VARIABLES clock,  \* the time
          due,    \* due[i]: when timer i is to run
          timer   \* timer[i]: "unset", "set", "run" or "cancelled"

vars == <<clock, due, timer>>

Init == clock = 0 /\ due = [i \in Timers |-> 0] /\ timer = [i \in Timers |-> "unset"]

Pass == clock' > clock /\ UNCHANGED <<due, timer>>

Set(i) == /\ timer[i] = "unset"
          /\ due'[i] \in Nat /\ due' = [due EXCEPT ![i] = due'[i]]
          /\ timer' = [timer EXCEPT ![i] = "set"]
          /\ UNCHANGED clock

Run(i) == /\ timer[i] = "set" /\ due[i] <= clock
          /\ timer' = [timer EXCEPT ![i] = "run"]
          /\ UNCHANGED <<clock, due>>

Cancel(i) == /\ timer[i] = "set"
             /\ timer' = [timer EXCEPT ![i] = "cancelled"]
             /\ UNCHANGED <<clock, due>>

Next == Pass \/ \E i \in Timers : Set(i) \/ Run(i) \/ Cancel(i)

Spec == Init /\ [][Next]_vars
=============================================================================
