----------------------------- MODULE Envelopes ------------------------------
(***************************************************************************)
(* What the ciphers of the crypto crate do to a stored string: prefixes,   *)
(* keys and bound contexts, not bytes. A string is a word behind a prefix, *)
(* "" for ordinary text; an envelope is a prefix, the key and the context  *)
(* it was sealed for and the string inside. A prefix without a key is what *)
(* somebody typed: it looks like an envelope and is none.                  *)
(*                                                                         *)
(* Derivations are injective: HKDF under one salt and info is a tuple of   *)
(* what went in. An envelope opens under its own key and context alone.    *)
(***************************************************************************)
CONSTANTS NoKey, NoContext

MasterPrefix == "enc:v1:"
BoundPrefix == "enc:v2:"
PluginPrefix == "encp:v1:"
ComponentPrefix == "encc:v1:"
ContentPrefix == "encb:v1:"
LaterContentPrefix == "encb:v2:"
CompatEscape == "encb:raw:"
CloudPrefix == "encm:v1:"

ContentFamily == {ContentPrefix, LaterContentPrefix, CompatEscape}

StringOf(prefix, key, context, inner) ==
  [prefix |-> prefix, key |-> key, context |-> context, of |-> inner]

Typed(prefix, word) == StringOf(prefix, NoKey, NoContext, word)
Word(word) == Typed("", word)

looks_sealed(stored) ==
  stored.prefix \in {MasterPrefix, BoundPrefix, PluginPrefix, ComponentPrefix,
                     ContentPrefix, CloudPrefix}

(***************************************************************************)
(* Keys. A scope's subkey under a master key; a content key is the subkey  *)
(* and the store's name, so within one store it is told by the subkey.     *)
(***************************************************************************)
Plugin(id) == <<"plugin", id>>
Component(name) == <<"component", name>>

derive(master, scope) == [master |-> master, scope |-> scope]

\* A cipher seals with one key and opens with that and the retired ones.
Cipher(key, retired) == [key |-> key, retired |-> retired \ {key}]

from_subkeys(master, retired, scope) ==
  Cipher(derive(master, scope), {derive(old, scope) : old \in retired})

Candidates(cipher) == {cipher.key} \cup cipher.retired

match_kcv(cipher, kcv) ==
  IF kcv = cipher.key THEN "current"
  ELSE IF kcv \in cipher.retired THEN "retired" ELSE "unknown"

(***************************************************************************)
(* Opening: the text and whether to write it back sealed, or why not.      *)
(***************************************************************************)
Opened(text, reseal) == [ok |-> TRUE, text |-> text, reseal |-> reseal]
Refused(why) == [ok |-> FALSE, why |-> why]

Decrypt(cipher, stored, context) ==
  IF stored.key = NoKey THEN Refused("malformed")
  ELSE IF stored.key \in Candidates(cipher) /\ stored.context = context
       THEN Opened(stored.of, stored.key # cipher.key)
       ELSE Refused("does not open")

\* ContentCipher: text bound to the record it is stored in.
seal_text(cipher, text, context) ==
  StringOf(ContentPrefix, cipher.key, context, text)

open_text(cipher, stored, context) ==
  IF stored.prefix = ContentPrefix THEN Decrypt(cipher, stored, context)
  ELSE IF stored.prefix = LaterContentPrefix THEN Refused("unknown version")
  ELSE Opened(stored, TRUE)

\* FieldCipher, PluginCipher and ComponentCipher, each with its prefix.
seal_with_prefix(cipher, prefix, text) ==
  StringOf(prefix, cipher.key, NoContext, text)

open_secret(cipher, prefix, stored) ==
  IF stored.prefix = prefix THEN Decrypt(cipher, stored, NoContext)
  ELSE IF looks_sealed(stored) THEN Refused("another scheme")
  ELSE Opened(stored, TRUE)

\* What a store sealed before keeps: reseal_if_plaintext writes nothing.
reseal_if_plaintext(cipher, prefix, stored) ==
  IF stored.prefix = prefix \/ ~open_secret(cipher, prefix, stored).ok THEN stored
  ELSE seal_with_prefix(cipher, prefix, open_secret(cipher, prefix, stored).text)
=============================================================================
