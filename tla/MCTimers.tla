------------------------------ MODULE MCTimers ------------------------------
(***************************************************************************)
(* Two users, two timers that are due at once or a step later.             *)
(***************************************************************************)
EXTENDS Timers, TLC

CONSTANTS u1, u2

MCUsers == {u1, u2}
MCDelays == {0, 1}
=============================================================================
