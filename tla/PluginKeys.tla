----------------------------- MODULE PluginKeys -----------------------------
(***************************************************************************)
(* Which key an app's process seals under, and what becomes of its stores  *)
(* when the answer changes: PluginKeys::resolve (crypto/src/plugin_keys/   *)
(* mod.rs) over the standalone root and its pin (files.rs), the key Core   *)
(* delivers (process_keys.rs), and the store that is opened with it        *)
(* (StoreSeal, sqlite_store_seal). Processes start and die at any step;    *)
(* Core replaces its master key; the app is run by this Core, by a Core    *)
(* that delivers no key, by hand with and without RYU_MASTER_KEY, and from *)
(* a shell that inherited another app's key.                               *)
(*                                                                         *)
(* The migration of the store is one step here: ContentSeal has its own.   *)
(***************************************************************************)
EXTENDS Naturals, FiniteSets, Envelopes

CONSTANTS
  Procs,
  Masters,    \* master keys; Core begins with Older
  Older,
  Ids,        \* rows of the store
  Texts,      \* what users write, envelope lookalikes among it
  Legacy,     \* what a row held before there were keys
  Settings,   \* how the app may be run: by whom, and RYU_MASTER_KEY if set
  None, Torn,
  MaxStarts, MaxWrites  \* bounds on the processes started and the writes

This == Plugin("this")
Another == Plugin("another")
Core == "core"

\* Every key there may be: of a master key, or of the n-th root made by hand.
GeneratedRoot(n) == <<"generated", n>>
AllKeys ==
  {derive(master, scope) : master \in Masters \cup {GeneratedRoot(n) : n \in 1..MaxStarts},
                           scope \in {This, Another}}

ASSUME KeysAssumption ==
  /\ Older \in Masters
  /\ MaxStarts \in Nat /\ MaxWrites \in Nat
  /\ Settings \subseteq [by : {"core", "older core", "another app", "hand"},
                         master : Masters \cup {None}]
  /\ \A text \in Legacy : text.prefix \notin ContentFamily
  /\ \A text \in Texts \cup Legacy : text.key = NoKey
  /\ NoContext \notin Ids /\ "secret" \notin Ids
  /\ \A n \in 1..MaxStarts : GeneratedRoot(n) \notin Masters
  /\ None # Torn /\ None \notin Masters
  /\ AllKeys \cap {NoKey, None, Torn} = {}
  /\ None \notin [key : AllKeys, retired : SUBSET AllKeys]
  /\ None \notin [scope : {This, Another}, cipher : [key : AllKeys, retired : SUBSET AllKeys]]

VARIABLES
  setting,  \* how the app is run now
  core,     \* Core's master key and retired ones
  root,     \* secrets/standalone-root.key: None, Torn or a key
  pin,      \* the key check value in secrets/standalone-root.kcv.json, or None
  store,    \* the store's record, whether its column is migrated, its rows
  secret,   \* a secret the app and its UI frame share, sealed field by field
  proc,     \* what each process does; era: Core's keys when it was started
  truth,    \* history variable: what was last written to each row and the secret
  keeper,   \* history variable: whether a process run by Core wrote the secret
  starts, writes

keysVars == <<setting, core, root, pin, store, secret, proc, truth, keeper, starts, writes>>
folder == <<root, pin, store, secret>>
history == <<truth, keeper, starts, writes>>

Off == [at |-> "off"]
At(p, place) == proc[p].at = place
Up(p) == At(p, "up")
Quiet == \A p \in Procs : At(p, "off") \/ Up(p)

Goto(p, place) == proc' = [proc EXCEPT ![p].at = place]
Fails(p) == proc' = [proc EXCEPT ![p] = Off]
Holds(p, cipher, place) == proc' = [proc EXCEPT ![p].cipher = cipher, ![p].at = place]

KeysInit ==
  /\ setting \in Settings
  /\ core = [master |-> Older, retired |-> {}]
  /\ root = None /\ pin = None
  /\ truth \in [Ids \cup {"secret"} -> Legacy]
  /\ store = [kcv |-> None, migrated |-> FALSE, rows |-> [id \in Ids |-> truth[id]]]
  /\ secret = truth["secret"]
  /\ proc = [p \in Procs |-> Off] /\ keeper = FALSE
  /\ starts = 0 /\ writes = 0

(***************************************************************************)
(* A process starts: its environment is read once. Core sets the subkey of *)
(* its scope, the same under its retired master keys, and the data dir.    *)
(***************************************************************************)
\* Mistaken forms of the definition below them, here and further on.
ChildEnvWithoutRetired(scope) == [scope |-> scope, cipher |-> from_subkeys(core.master, {}, scope)]

child_env(scope) == [scope |-> scope, cipher |-> from_subkeys(core.master, core.retired, scope)]

Delivered ==
  CASE setting.by = Core -> child_env(This)
    [] setting.by = "another app" -> child_env(Another)
    [] OTHER -> None

Start(p, second) ==
  /\ At(p, "off") /\ starts < MaxStarts
  /\ proc' = [proc EXCEPT ![p] =
       [at |-> IF second THEN "existing" ELSE "resolve", delivered |-> Delivered,
        master |-> setting.master, under_core |-> setting.by \in {Core, "older core"},
        cipher |-> None, seal |-> None, era |-> core]]
  /\ starts' = starts + 1
  /\ UNCHANGED <<setting, core, folder, truth, keeper, writes>>

\* resolve_existing: a second process never makes a root of its own.
ResolveExisting(p) ==
  /\ At(p, "existing")
  /\ IF proc[p].delivered = None /\ proc[p].master = None /\ root = None
     THEN Goto(p, "open")
     ELSE Goto(p, "resolve")
  /\ UNCHANGED <<setting, core, folder, history>>

\* RYU_MASTER_KEY, in a process without a host: no retired keys.
process_master_key(p) == [master |-> proc[p].master, retired |-> {}]

\* The delivered key, if it was delivered for this scope.
subkey_from(p) ==
  LET held == process_master_key(p)
  IN  IF proc[p].delivered # None
      THEN IF proc[p].delivered.scope = This THEN proc[p].delivered.cipher ELSE None
      ELSE from_subkeys(held.master, held.retired, This)

ResolveDelivered(p) ==
  /\ At(p, "resolve") /\ proc[p].delivered # None
  /\ IF subkey_from(p) = None THEN Fails(p) ELSE Holds(p, subkey_from(p), "open")
  /\ UNCHANGED <<setting, core, folder, history>>

\* RYU_MASTER_KEY: by hand it must not come beside a standalone root.
ResolveMaster(p) ==
  /\ At(p, "resolve") /\ proc[p].delivered = None /\ proc[p].master # None
  /\ IF proc[p].under_core THEN Holds(p, subkey_from(p), "open")
     ELSE IF root # None THEN Fails(p)
     ELSE Holds(p, subkey_from(p), "pin")
  /\ UNCHANGED <<setting, core, folder, history>>

ResolveCompat(p) ==
  /\ At(p, "resolve") /\ proc[p].delivered = None /\ proc[p].master = None
  /\ proc[p].under_core
  /\ Goto(p, "open")
  /\ UNCHANGED <<setting, core, folder, history>>

(***************************************************************************)
(* load_or_create_standalone_root and pin_standalone_kcv, one file-system  *)
(* call at a time. The root is created empty, then written; the pin comes  *)
(* whole with a rename.                                                    *)
(***************************************************************************)
LoadRoot(p) ==
  /\ At(p, "resolve") /\ proc[p].delivered = None /\ proc[p].master = None
  /\ ~proc[p].under_core
  /\ CASE root = None -> Goto(p, "no root")
       [] root = Torn -> Fails(p)
       [] OTHER -> Holds(p, Cipher(root, {}), "pin")
  /\ UNCHANGED <<setting, core, folder, history>>

CheckUnpinned(p) ==
  /\ At(p, "no root")
  /\ IF pin # None THEN Fails(p) ELSE Goto(p, "create root")
  /\ UNCHANGED <<setting, core, folder, history>>

CreateRootOverAnother(p) ==
  /\ At(p, "create root")
  /\ Goto(p, "write root") /\ root' = Torn
  /\ UNCHANGED <<setting, core, pin, store, secret, history>>

\* create_new: of two processes one makes the file.
CreateRoot(p) ==
  /\ At(p, "create root")
  /\ IF root # None THEN Fails(p) /\ UNCHANGED root
                    ELSE Goto(p, "write root") /\ root' = Torn
  /\ UNCHANGED <<setting, core, pin, store, secret, history>>

WriteRoot(p) ==
  /\ At(p, "write root")
  /\ root' = derive(GeneratedRoot(starts), This)
  /\ Holds(p, Cipher(root', {}), "pin")
  /\ UNCHANGED <<setting, core, pin, store, secret, history>>

PinRoot(p) ==
  /\ At(p, "pin")
  /\ CASE pin = None -> Goto(p, "write pin")
       [] pin = proc[p].cipher.key -> Goto(p, "open")
       [] OTHER -> Fails(p)
  /\ UNCHANGED <<setting, core, folder, history>>

WritePin(p) ==
  /\ At(p, "write pin")
  /\ pin' = proc[p].cipher.key
  /\ Goto(p, "open")
  /\ UNCHANGED <<setting, core, root, store, secret, history>>

(***************************************************************************)
(* The store is opened: its record is read, then written by the first to   *)
(* hold a key. reopen_plaintext_items and migrate_columns seal what is     *)
(* plaintext, and what a retired key sealed once the column is walked.     *)
(***************************************************************************)
Opens(p, seal, place) == proc' = [proc EXCEPT ![p].seal = seal, ![p].at = place]

sqlite_store_seal(p) ==
  /\ At(p, "open")
  /\ CASE proc[p].cipher = None ->
            Opens(p, IF store.kcv = None THEN "compat" ELSE "unhealthy", "up")
       [] proc[p].cipher # None /\ store.kcv = None -> Goto(p, "record")
       [] OTHER -> IF match_kcv(proc[p].cipher, store.kcv) = "unknown"
                   THEN Opens(p, "unhealthy", "up")
                   ELSE Opens(p, "sealing", "migrate")
  /\ UNCHANGED <<setting, core, folder, history>>

RecordKey(p) ==
  /\ At(p, "record")
  /\ store' = [store EXCEPT !.kcv = proc[p].cipher.key]
  /\ Opens(p, "sealing", "migrate")
  /\ UNCHANGED <<setting, core, root, pin, secret, history>>

Stripped(stored) == IF stored.prefix = CompatEscape THEN stored.of ELSE stored

ResealWithEscape(cipher, stored, id) ==
  LET opened == open_text(cipher, stored, id) IN
  IF ~opened.ok \/ ~opened.reseal THEN stored ELSE seal_text(cipher, opened.text, id)

reseal_value(cipher, stored, id) ==
  LET opened == open_text(cipher, stored, id) IN
  IF ~opened.ok \/ ~opened.reseal THEN stored
  ELSE seal_text(cipher, IF stored.prefix = ContentPrefix THEN opened.text
                         ELSE Stripped(stored), id)

Walked == ~store.migrated \/ \E id \in Ids : store.rows[id].prefix # ContentPrefix
AllOpen(cipher) == \A id \in Ids : open_text(cipher, store.rows[id], id).ok

Migrate(p) ==
  LET cipher == proc[p].cipher IN
  /\ At(p, "migrate")
  /\ store' = IF ~Walked THEN store
              ELSE [kcv |-> IF match_kcv(cipher, store.kcv) = "retired" /\ AllOpen(cipher)
                            THEN cipher.key ELSE store.kcv,
                    migrated |-> TRUE,
                    rows |-> [id \in Ids |-> reseal_value(cipher, store.rows[id], id)]]
  /\ Goto(p, "up")
  /\ UNCHANGED <<setting, core, root, pin, secret, history>>

(***************************************************************************)
(* StoreSeal: values written and read by a process that is up. A keyless   *)
(* one escapes what would look like an envelope.                           *)
(***************************************************************************)
Escaped(text) == StringOf(CompatEscape, NoKey, NoContext, text)

StoreSeals(p, text, id) ==
  IF proc[p].seal = "sealing" THEN seal_text(proc[p].cipher, text, id)
  ELSE IF text.prefix \in ContentFamily THEN Escaped(text) ELSE text

StoreOpens(p, stored, id) ==
  IF stored.prefix = CompatEscape THEN Opened(stored.of, proc[p].seal = "sealing")
  ELSE IF proc[p].seal = "sealing" THEN open_text(proc[p].cipher, stored, id)
  ELSE IF stored.prefix = ContentPrefix THEN Refused("no key")
  ELSE Opened(stored, FALSE)

Written(what, text) ==
  /\ writes < MaxWrites /\ writes' = writes + 1
  /\ truth' = [truth EXCEPT ![what] = text]

Write(p, id, text) ==
  /\ Up(p) /\ proc[p].seal # "unhealthy"
  /\ store' = [store EXCEPT !.rows[id] = StoreSeals(p, text, id)]
  /\ Written(id, text)
  /\ UNCHANGED <<setting, core, root, pin, secret, proc, keeper, starts>>

RunByCore(p) == ~At(p, "off") /\ proc[p].delivered # None

\* The app's own process, with PluginCipher; without a key it stores no secret.
SaveSecret(p, text) ==
  /\ Up(p) /\ proc[p].cipher # None
  /\ secret' = seal_with_prefix(proc[p].cipher, PluginPrefix, text)
  /\ Written("secret", text)
  /\ keeper' = RunByCore(p)
  /\ UNCHANGED <<setting, core, root, pin, store, proc, starts>>

ResealSecret(p) ==
  /\ Up(p) /\ proc[p].cipher # None
  /\ secret' = reseal_if_plaintext(proc[p].cipher, PluginPrefix, secret)
  /\ keeper' = IF secret' = secret THEN keeper ELSE RunByCore(p)
  /\ UNCHANGED <<setting, core, root, pin, store, proc, truth, starts, writes>>

\* The app's UI frame, through Core: plugin_cipher of the same id.
plugin_cipher == from_subkeys(core.master, core.retired, This)

BridgeSaves(text) ==
  /\ secret' = seal_with_prefix(plugin_cipher, PluginPrefix, text)
  /\ Written("secret", text)
  /\ keeper' = TRUE
  /\ UNCHANGED <<setting, core, root, pin, store, proc, starts>>

(***************************************************************************)
(* What the processes do not do themselves. The app is not run another way *)
(* while a process of it still starts.                                     *)
(***************************************************************************)
Crash(p) ==
  /\ ~At(p, "off") /\ Fails(p)
  /\ UNCHANGED <<setting, core, folder, history>>

ChangeSetting ==
  /\ Quiet /\ setting' \in Settings \ {setting}
  /\ UNCHANGED <<core, folder, proc, history>>

ReplaceMaster ==
  /\ \E master \in Masters \ {core.master} :
       core' = [master |-> master, retired |-> (core.retired \cup {core.master}) \ {master}]
  /\ UNCHANGED <<setting, folder, proc, history>>

LoseRoot ==
  /\ Quiet /\ root # None /\ root' = None
  /\ UNCHANGED <<setting, core, pin, store, secret, proc, history>>

\* A row copied under another id: its envelope names the old one. One that comes
\* back to its own id is that row as it was, and nothing tells it from a newer.
CopyRow(from, to) ==
  /\ from # to /\ store.rows[from].prefix = ContentPrefix /\ writes < MaxWrites
  /\ store' = [store EXCEPT !.rows[to] = store.rows[from]]
  /\ truth' = [truth EXCEPT ![to] = IF store.rows[from].context = to
                                     THEN store.rows[from].of ELSE @]
  /\ writes' = writes + 1
  /\ UNCHANGED <<setting, core, root, pin, secret, proc, keeper, starts>>

ProcStep(p) ==
  \/ \E second \in BOOLEAN : Start(p, second)
  \/ ResolveExisting(p) \/ ResolveDelivered(p) \/ ResolveMaster(p) \/ ResolveCompat(p)
  \/ LoadRoot(p) \/ CheckUnpinned(p) \/ CreateRoot(p) \/ WriteRoot(p)
  \/ PinRoot(p) \/ WritePin(p)
  \/ sqlite_store_seal(p) \/ RecordKey(p) \/ Migrate(p)
  \/ \E id \in Ids, text \in Texts : Write(p, id, text)
  \/ \E text \in Texts : SaveSecret(p, text)
  \/ ResealSecret(p)
  \/ Crash(p)

Environment ==
  \/ ChangeSetting \/ ReplaceMaster \/ LoseRoot
  \/ \E text \in Texts : BridgeSaves(text)
  \/ \E from, to \in Ids : CopyRow(from, to)

KeysNext == Environment \/ \E p \in Procs : ProcStep(p)

KeysSpec == KeysInit /\ [][KeysNext]_keysVars

-----------------------------------------------------------------------------
(***************************************************************************)
(* What a process reads without an error is what was last written, however *)
(* the row came to be stored: legacy plaintext, plaintext of a keyless     *)
(* process (a lookalike escaped), sealed under any key, resealed, or       *)
(* copied from another row; and no envelope is ever read as plaintext      *)
(* (open_text, StoreSeal::open_text_detailed, SecretSealer::open).         *)
(***************************************************************************)
ReadsAreTrue ==
  \A p \in Procs : Up(p) =>
    /\ \A id \in Ids :
         LET opened == StoreOpens(p, store.rows[id], id)
         IN opened.ok => opened.text = truth[id]
    /\ proc[p].cipher # None =>
         LET opened == open_secret(proc[p].cipher, PluginPrefix, secret)
         IN opened.ok => opened.text = truth["secret"]

(***************************************************************************)
(* What Core's key sealed stays readable across replacements of the master *)
(* key: a process Core started since then either refuses the store or      *)
(* opens every row of it, and the secret a process run by Core or the UI   *)
(* frame wrote opens in both (process_keys.rs:24-26, 42-46).               *)
(***************************************************************************)
InPlace(id) == store.rows[id].context \in {id, NoContext}

CoreRunOpensAll ==
  /\ \A p \in Procs : Up(p) /\ RunByCore(p) /\ proc[p].era = core =>
       /\ proc[p].seal = "sealing" =>
            \A id \in Ids : InPlace(id) => StoreOpens(p, store.rows[id], id).ok
       /\ keeper => open_secret(proc[p].cipher, PluginPrefix, secret).ok
  /\ keeper => open_secret(plugin_cipher, PluginPrefix, secret).ok

(***************************************************************************)
(* Runs by hand keep to one key: each seals under the pinned one, and what *)
(* is sealed under a generated root has that root on disk, unless its file *)
(* was lost, and pinned (plugin_keys/mod.rs:21-23).                        *)
(***************************************************************************)
ByHand(p) == ~At(p, "off") /\ ~proc[p].under_core /\ proc[p].delivered = None
Generated(key) == key # NoKey /\ key.master \notin Masters
SealedKeys == {store.rows[id].key : id \in Ids} \cup {secret.key}

HandRunsKeepTheirKey ==
  /\ \A p \in Procs :
       ByHand(p) /\ proc[p].cipher # None /\ proc[p].at \notin {"pin", "write pin"}
         => proc[p].cipher.key = pin
  /\ \A key \in SealedKeys : Generated(key) => pin = key /\ root \in {key, None}
=============================================================================
