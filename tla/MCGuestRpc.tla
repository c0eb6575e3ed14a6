----------------------------- MODULE MCGuestRpc -----------------------------
(***************************************************************************)
(* GuestRpc on small instances: two guest threads, in one process or in two.*)
(***************************************************************************)
EXTENDS GuestRpc, TLC

CONSTANTS t1, t2, p1, p2

OneProc == [t \in Threads |-> p1]
TwoProcs == t1 :> p1 @@ t2 :> p2

Symmetry == Permutations(Threads)
=============================================================================
