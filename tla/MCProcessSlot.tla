---------------------------- MODULE MCProcessSlot ----------------------------
(* The limits on the number of starts for TLC: none, and two.               *)
EXTENDS ProcessSlot

UpTo2 == {Unlimited, 2}
=============================================================================
