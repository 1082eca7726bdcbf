----------------------------- MODULE MCCustody ------------------------------
(* Small instances of Custody and AppKey for TLC: the keys that are never   *)
(* in the environment are interchangeable.                                  *)
EXTENDS AppKey, TLC

KeySymmetry == Permutations(Keys \ EnvKeys)
=============================================================================
