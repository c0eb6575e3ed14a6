------------------------------ MODULE MCTimer ------------------------------
(***************************************************************************)
(* Timer on small instances: interchangeable timer calls, a short clock.    *)
(***************************************************************************)
EXTENDS Timer, TLC

Symmetry == Permutations(Calls)
=============================================================================
