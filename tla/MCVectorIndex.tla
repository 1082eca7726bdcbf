--------------------------- MODULE MCVectorIndex ----------------------------
(* A small instance of VectorIndex for TLC: callers and partitions are      *)
(* interchangeable. Every partition starts with one small vector.           *)
EXTENDS VectorIndex, TLC

CONSTANTS a, b

OneVector == [id \in {a, b} |-> IF id = a THEN 1 ELSE 0]
AnySymmetry == Permutations(Callers) \cup Permutations(Parts)
=============================================================================
