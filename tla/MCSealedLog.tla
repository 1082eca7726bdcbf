---------------------------- MODULE MCSealedLog ----------------------------
(* Small instances of SealedLog for TLC. *)
EXTENDS SealedLog

(* A short and a long record: the long one's length can reach past a       *)
(* whole short frame.                                                      *)
Sizes == [r \in Records |-> CASE r = "short" -> 1 [] r = "long" -> 3]
=============================================================================
