-------------------------- MODULE MCSidecarAccess ---------------------------
(* A small instance of SidecarAccess for TLC: the two runs were started     *)
(* with different ext tokens.                                               *)
EXTENDS SidecarAccess, TLC

CONSTANTS r1, r2, t1, t2

TwoStarts == (r1 :> t1) @@ (r2 :> t2)
CallerSymmetry == Permutations(Callers)
=============================================================================
