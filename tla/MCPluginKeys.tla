---------------------------- MODULE MCPluginKeys ----------------------------
(***************************************************************************)
(* A small instance of PluginKeys: a word, and what somebody typed that    *)
(* begins like an envelope and like an escape.                             *)
(***************************************************************************)
EXTENDS PluginKeys, TLC

CONSTANTS word, old

MCTexts ==
  {Typed(ContentPrefix, word), StringOf(CompatEscape, NoKey, NoContext, Word(word))}

MCLegacy == {Word(old)}

\* Run by Core, by a Core without keys, with another app's environment, by hand
\* alone, and by hand with each of Core's master keys.
MCSettings ==
  {[by |-> by, master |-> None] : by \in {"core", "older core", "another app", "hand"}}
    \cup {[by |-> "hand", master |-> master] : master \in Masters}

AnySymmetry == Permutations(Procs) \cup Permutations(Ids)
=============================================================================
