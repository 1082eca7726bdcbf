--------------------------- MODULE MCContentSeal ---------------------------
(* Small instances of ContentSeal for TLC. *)
EXTENDS ContentSeal
=============================================================================
