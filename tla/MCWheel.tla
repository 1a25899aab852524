------------------------------ MODULE MCWheel -------------------------------
(***************************************************************************)
(* Model-checking instances of Wheel.                                      *)
(***************************************************************************)
EXTENDS Wheel, TLC

Alike == Permutations(Timers) \cup Permutations(Tasks)
=============================================================================
