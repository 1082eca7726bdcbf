------------------------------- MODULE Custody -------------------------------
(***************************************************************************)
(* Custody of the master key of a data folder (crypto/src/custody.rs and   *)
(* the ladder in crypto/src/lib.rs): processes that resolve the key at the *)
(* same time, the keys commands (adopt, retire, import) run while they are *)
(* stopped, a crash between any two writes, and a keychain that loses its  *)
(* entry. A key stands for its own key check value.                        *)
(***************************************************************************)
EXTENDS Naturals, FiniteSets

CONSTANTS
  Keys,
  NoKey,     \* an empty slot, no record, no RYU_MASTER_KEY
  Corrupt,   \* a slot whose content is not a key
  Procs,     \* processes on the data folder
  Recorders, \* the one that owns it (records_kcv): Core
  FileHosts, \* those whose host allows a key file
  EnvKeys,   \* values of RYU_MASTER_KEY
  MAX_RETIRED_KEYS,
  MaxStarts, MaxCommands, MaxLosses  \* bounds on what happens from outside

ASSUME CustodyAssumption ==
  /\ NoKey \notin Keys /\ Corrupt \notin Keys /\ NoKey # Corrupt
  /\ EnvKeys \subseteq Keys
  /\ Recorders \subseteq Procs /\ FileHosts \subseteq Procs
  /\ \A p, q \in Recorders : p = q
  /\ MAX_RETIRED_KEYS \in Nat
  /\ {MaxStarts, MaxCommands, MaxLosses} \subseteq Nat

Custodies == {"file", "keychain"}
MaybeKey == Keys \cup {NoKey}
Slot == MaybeKey \cup {Corrupt}

VARIABLES
  chain,   \* the keychain slot master-key
  file,    \* secrets/master.key
  legacy,  \* secrets/memory.key
  record,  \* state/master-key.kcv
  index,   \* state/retired-keys.json: the custody of each retired key
  vault,   \* retired key material: keys and where they lie
  sealed,  \* keys something in the folder is sealed under
  proc,    \* the processes
  lost,    \* history variable: keys the keychain lost
  raced,   \* history variable: two processes filled empty custody at once
  astray,  \* history variable: keys sealed under while not recorded, or whose
           \* record a command replaced without seeing the key
  starts, commands, losses

slots == <<chain, file, legacy>>
retirement == <<index, vault>>
history == <<lost, raced, astray>>
outside == <<starts, commands, losses>>
vars == <<slots, record, retirement, sealed, proc, history, outside>>

Places == {"off", "ladder", "store", "verify", "publish", "check", "retire", "index",
           "record", "run", "install", "unlink"}

Proc == [pc : Places,
         env : MaybeKey, reach : BOOLEAN,   \* RYU_MASTER_KEY; the keychain is reachable
         seen : MaybeKey,                   \* the record it read
         key : MaybeKey, source : {"env", "keychain", "file"},
         retired : SUBSET Keys,             \* what it opens with besides its key
         todo : SUBSET Keys, prefer : BOOLEAN,  \* keys to retire, in the keychain
         idx : [Keys -> Custodies \cup {"none"}],  \* the index it is about to write
         then : Places]                     \* where it goes after that

Off == [pc |-> "off", env |-> NoKey, reach |-> FALSE, seen |-> NoKey, key |-> NoKey,
        source |-> "file", retired |-> {}, todo |-> {}, prefer |-> FALSE,
        idx |-> [k \in Keys |-> "none"], then |-> "off"]

TypeOK ==
  /\ chain \in Slot /\ file \in Slot /\ legacy \in MaybeKey /\ record \in MaybeKey
  /\ index \in [Keys -> Custodies \cup {"none"}]
  /\ Cardinality({k \in Keys : index[k] # "none"}) <= MAX_RETIRED_KEYS
  /\ vault \subseteq Keys \X Custodies
  /\ sealed \subseteq Keys /\ lost \subseteq Keys /\ astray \subseteq Keys /\ raced \in BOOLEAN
  /\ proc \in [Procs -> Proc]
  /\ starts \in Nat /\ commands \in 0..MaxCommands /\ losses \in 0..MaxLosses

(* A new folder, or one an earlier release kept without a record: its keys *)
(* in the file, the keychain or memory.key, its data sealed under one.     *)
Init ==
  /\ chain \in Slot /\ file \in Slot /\ legacy \in MaybeKey
  /\ record = NoKey
  /\ index = [k \in Keys |-> "none"] /\ vault = {}
  /\ sealed \in {{}} \cup {{k} : k \in {chain, file, legacy} \cap Keys}
  /\ astray = sealed
  /\ proc = [p \in Procs |-> Off]
  /\ lost = {} /\ raced = FALSE
  /\ starts = 0 /\ commands = 0 /\ losses = 0

At(p, place) == proc[p].pc = place
GoTo(p, place) == proc' = [proc EXCEPT ![p].pc = place]
Becomes(p, q) == proc' = [proc EXCEPT ![p] = q]
-----------------------------------------------------------------------------
Indexed == {k \in Keys : index[k] # "none"}

(* load_all: a retired key in a keychain that is off is not read. *)
Retired(q) == {k \in Indexed : <<k, index[k]>> \in vault /\ (index[k] = "keychain" => q.reach)}

(* The live slots: env, keychain, file and the legacy key. *)
Live(q) == ({q.env, file, legacy} \cup IF q.reach THEN {chain} ELSE {}) \cap Keys

candidates(q) == Live(q) \cup Retired(q)

(* A generated key is none that anything ever held. *)
Fresh ==
  Keys \ (EnvKeys \cup {chain, file, legacy, record} \cup Indexed \cup sealed \cup lost
          \cup {k \in Keys : \E c \in Custodies : <<k, c>> \in vault}
          \cup {proc[p].key : p \in Procs})

(* What the host's probe of a few sealed messages may say of a key. *)
Probe(k) ==
  IF sealed = {} THEN {"none"}
  ELSE IF sealed = {k} THEN {"passed"}
  ELSE IF k \in sealed THEN {"passed", "failed"} ELSE {"failed"}

(* What the process keeps of its environment past the checks. *)
Doing(q, place) == [Off EXCEPT !.pc = place, !.reach = q.reach]

Runs(p, k, opened) ==
  Becomes(p, [Doing(proc[p], "run") EXCEPT !.key = k, !.retired = opened \ {k}])

(* The ladder refused: the recorded key, in any slot, still recovers the   *)
(* folder; else there is no cipher.                                        *)
Refused(p) ==
  LET q == proc[p]
  IN  IF q.seen \in Keys /\ q.seen \in candidates(q)
        THEN Runs(p, q.seen, Retired(q))
        ELSE Becomes(p, Off)
-----------------------------------------------------------------------------
Resolving(p) == proc[p].then \in {"run", "record"}

Commanding ==
  \E p \in Procs :
    proc[p].pc \in {"retire", "index", "install", "record", "unlink"} /\ ~Resolving(p)

Start(p) ==
  /\ At(p, "off") /\ ~Commanding /\ starts < MaxStarts
  /\ starts' = starts + 1
  /\ \E env \in EnvKeys \cup {NoKey}, reach \in BOOLEAN :
       Becomes(p, [Off EXCEPT !.pc = "ladder", !.env = env, !.reach = reach, !.seen = record])
  /\ UNCHANGED <<slots, record, retirement, sealed, history, commands, losses>>

(* load_master_key_guarded takes a key it finds: RYU_MASTER_KEY, the       *)
(* keychain's, the file's when no keychain is reachable.                   *)
Found(p, k, source) ==
  proc' = [proc EXCEPT ![p].pc = "check", ![p].key = k, ![p].source = source]

(* memory.key is removed once the keychain holds the same key. *)
retire_matching_legacy_key == legacy' = IF legacy = chain THEN NoKey ELSE legacy

FindKey(p) ==
  LET q == proc[p]
  IN  /\ At(p, "ladder")
      /\ \/ q.env # NoKey /\ Found(p, q.env, "env") /\ UNCHANGED legacy
         \/ /\ q.env = NoKey /\ q.reach /\ chain \in Keys
            /\ Found(p, chain, "keychain") /\ retire_matching_legacy_key
         \/ /\ q.env = NoKey /\ ~q.reach /\ p \in FileHosts /\ file \in Keys
            /\ Found(p, file, "file") /\ UNCHANGED legacy
  /\ UNCHANGED <<chain, file, record, retirement, sealed, history, outside>>

(* What the host finds of data sealed under an earlier key. *)
Evidence == sealed # {} \/ Indexed # {}

(* No record was read, and nothing sealed is found. *)
may_generate(p) == proc[p].seen = NoKey /\ ~Evidence

(* The key empty custody is filled with: one the folder already uses, or a *)
(* new one.                                                                *)
Existing(p) == IF p \in FileHosts /\ file \in Keys THEN file ELSE legacy

Fillers(p) ==
  IF p \in FileHosts /\ file = Corrupt THEN {}
  ELSE IF Existing(p) \in Keys THEN {Existing(p)}
  ELSE IF may_generate(p) THEN Fresh ELSE {}

Fills(p, place) ==
  /\ \E k \in Fillers(p) : proc' = [proc EXCEPT ![p].pc = place, ![p].key = k]
  /\ raced' = (raced \/ \E other \in Procs \ {p} :
       \/ proc[other].pc \in {"store", "verify"}
       \/ proc[other].pc = "publish" /\ place = "store")

Empty(p) == At(p, "ladder") /\ proc[p].env = NoKey /\ proc[p].reach /\ chain = NoKey

Unavailable(p) == At(p, "ladder") /\ proc[p].env = NoKey /\ ~proc[p].reach

FillCustody(p) ==
  /\ \/ Empty(p) /\ Fills(p, "store")
     \/ Unavailable(p) /\ p \in FileHosts /\ file = NoKey /\ Fills(p, "publish")
  /\ UNCHANGED <<slots, record, retirement, sealed, lost, astray, outside>>

RefuseKey(p) ==
  /\ \/ Empty(p) /\ Fillers(p) = {}
     \/ At(p, "ladder") /\ proc[p].env = NoKey /\ proc[p].reach /\ chain = Corrupt
     \/ Unavailable(p) /\ (p \notin FileHosts \/ (file \notin Keys /\ Fillers(p) = {}))
  /\ Refused(p)
  /\ UNCHANGED <<slots, record, retirement, sealed, history, outside>>

(* keychain.store replaces what is there; a keychain that cannot be        *)
(* written leaves the key to the file.                                     *)
StoreKey(p) ==
  /\ At(p, "store")
  /\ \/ chain' = proc[p].key /\ GoTo(p, "verify")
     \/ /\ UNCHANGED chain
        /\ IF p \in FileHosts THEN GoTo(p, "publish") ELSE Refused(p)
  /\ UNCHANGED <<file, legacy, record, retirement, sealed, history, outside>>

VerifyStored(p) ==
  /\ At(p, "verify")
  /\ IF chain = proc[p].key
       THEN Found(p, chain, "keychain") /\ retire_matching_legacy_key
       ELSE Refused(p) /\ UNCHANGED legacy
  /\ UNCHANGED <<chain, file, record, retirement, sealed, history, outside>>

(* A fault: the key file is replaced. *)
Replaced(k) == k

(* write_key_file: the first writer wins, the others take its key. *)
Published(k) == IF file = NoKey THEN k ELSE file

PublishKey(p) ==
  /\ At(p, "publish")
  /\ file' = Published(proc[p].key)
  /\ IF file' \in Keys THEN Found(p, file', "file") ELSE Refused(p)
  /\ UNCHANGED <<chain, legacy, record, retirement, sealed, history, outside>>
-----------------------------------------------------------------------------
(* The run the process goes to once its primary key is retired. *)
AfterRetiring(p, k, then) ==
  Becomes(p, [Doing(proc[p], "retire") EXCEPT !.key = k, !.then = then,
                !.retired = (Retired(proc[p]) \cup {proc[p].key}) \ {k},
                !.todo = IF proc[p].source = "env" THEN {} ELSE {proc[p].key},
                !.prefer = proc[p].source = "keychain"])

(* A fault: a key that does not match the record is used all the same. *)
UsesAnyKey(p) == Runs(p, proc[p].key, Retired(proc[p]))

(* The key does not match the record: another candidate that does becomes  *)
(* the key of this run, unless RYU_MASTER_KEY names a key never retired.   *)
Mismatch(p) ==
  LET q == proc[p]
  IN  IF (q.source = "env" => q.key \in Retired(q)) /\ q.seen \in candidates(q)
        THEN AfterRetiring(p, q.seen, "run")
        ELSE Becomes(p, Off)

(* resolve, once the ladder has a key. *)
CheckKey(p) ==
  LET q == proc[p]
  IN  /\ At(p, "check")
      /\ \/ q.seen = q.key /\ Runs(p, q.key, Retired(q))
         \/ q.seen \in Keys \ {q.key} /\ Mismatch(p)
         \/ q.seen = NoKey /\ p \notin Recorders /\ Runs(p, q.key, Retired(q))
         \/ /\ q.seen = NoKey /\ p \in Recorders /\ Probe(q.key) \cap {"passed", "none"} # {}
            /\ Becomes(p, [Doing(q, "record") EXCEPT !.key = q.key, !.then = "run",
                                                     !.retired = Retired(q) \ {q.key}])
         \/ /\ q.seen = NoKey /\ p \in Recorders /\ "failed" \in Probe(q.key)
            /\ \/ \E k \in candidates(q) \ {q.key} :
                    "passed" \in Probe(k) /\ AfterRetiring(p, k, "record")
               \/ /\ \A k \in candidates(q) \ {q.key} : "failed" \in Probe(k)
                  /\ Becomes(p, Off)
  /\ UNCHANGED <<slots, record, retirement, sealed, history, outside>>

Continue(p) ==
  LET q == proc[p]
  IN  IF q.then = "off" THEN Becomes(p, Off)
      ELSE IF q.then = "run" THEN Runs(p, q.key, q.retired)
      ELSE GoTo(p, q.then)

Full == Cardinality(Indexed) >= MAX_RETIRED_KEYS

(* A fault: a keychain that drops what it is given is believed. *)
VaultedUnverified(k, custody) ==
  IF custody = "keychain" THEN {vault, vault \cup {<<k, custody>>}}
  ELSE {vault \cup {<<k, custody>>}}

(* The key is written, and a keychain read back, before it is indexed. *)
Vaulted(k, custody) == {vault \cup {<<k, custody>>}}

(* RetiredVault::retire: a full set is an error, which resolution only     *)
(* logs; else the key is written, in the keychain when it can be.          *)
RetireKey(p) ==
  LET q == proc[p]
  IN  /\ At(p, "retire")
      /\ \/ q.todo \subseteq Indexed /\ Continue(p) /\ UNCHANGED vault
         \/ /\ ~(q.todo \subseteq Indexed) /\ Full
            /\ IF Resolving(p) THEN Continue(p) ELSE Becomes(p, Off)
            /\ UNCHANGED vault
         \/ /\ ~Full
            /\ \E k \in q.todo \ Indexed,
                  custody \in IF q.prefer /\ q.reach THEN Custodies ELSE {"file"} :
                 /\ vault' \in Vaulted(k, custody)
                 /\ Becomes(p, [q EXCEPT !.pc = "index", !.idx = [index EXCEPT ![k] = custody]])
  /\ UNCHANGED <<slots, record, index, sealed, history, outside>>

IndexKey(p) ==
  /\ At(p, "index")
  /\ index' = proc[p].idx
  /\ Becomes(p, [proc[p] EXCEPT !.pc = "retire", !.idx = Off.idx])
  /\ UNCHANGED <<slots, record, vault, sealed, history, outside>>

(* write_kcv_record *)
RecordKey(p) ==
  /\ At(p, "record")
  /\ record' = proc[p].key
  /\ astray' = astray \ {proc[p].key}
  /\ IF proc[p].then = "off" THEN Becomes(p, Off) ELSE Runs(p, proc[p].key, proc[p].retired)
  /\ UNCHANGED <<slots, retirement, sealed, lost, raced, outside>>
-----------------------------------------------------------------------------
(* The keys commands run with every process stopped. *)
Shells == [env : EnvKeys \cup {NoKey}, reach : BOOLEAN]

InShell(shell) == [Off EXCEPT !.env = shell.env, !.reach = shell.reach]

Command(p) ==
  /\ commands < MaxCommands /\ \A other \in Procs : At(other, "off")
  /\ commands' = commands + 1
  /\ UNCHANGED <<slots, record, retirement, sealed, lost, raced, starts, losses>>

(* The keys adopt can name: those of the live slots but the legacy one,    *)
(* and the retired ones.                                                   *)
Adoptable(q) ==
  (({q.env, file} \cup IF q.reach THEN {chain} ELSE {}) \cap Keys) \cup Retired(q)

(* install_current retires the key in persistent custody and the key the   *)
(* folder records, wherever it lives.                                      *)
Superseded(q) ==
  (IF q.reach /\ chain \in Keys THEN {chain} ELSE {file}) \cup ({record} \cap Live(q))

Plan(p, q, k, extra) ==
  LET todo == ((Superseded(q) \cup extra) \cap Keys) \ {k}
  IN  /\ Cardinality(Indexed \cup todo) <= MAX_RETIRED_KEYS
      /\ Becomes(p, [Doing(q, "retire") EXCEPT !.key = k, !.todo = todo, !.prefer = TRUE,
                                               !.then = "install"])
      /\ astray' = astray \cup (({record} \cap Keys) \ (Live(q) \cup Indexed \cup {k}))

(* keys adopt: a key the probe rejects needs --accept-unreadable. *)
AdoptKey(p) ==
  /\ Command(p)
  /\ \E shell \in Shells, accept \in BOOLEAN :
       LET q == InShell(shell)
       IN  \E k \in Adoptable(q) :
             /\ record = k \/ accept \/ Probe(k) # {"failed"}
             /\ Plan(p, q, k, {})

(* Importing a key bundle: current key and at most one retired key. *)
ImportKeys(p) ==
  /\ Command(p)
  /\ \E shell \in Shells, k \in Keys, extra \in {{}} \cup {{e} : e \in Keys} :
       LET q == InShell(shell)
       IN  /\ q.env \in {NoKey, k} \cup extra
           /\ IF record = k /\ k \in {q.env, file} \cup (IF q.reach THEN {chain} ELSE {})
                THEN /\ Becomes(p, [Doing(q, "retire") EXCEPT !.todo = extra \ {k},
                                                              !.prefer = TRUE])
                     /\ UNCHANGED astray
                ELSE Plan(p, q, k, extra)

(* keys retire <kcv>: not the recorded key, and not the keychain's. *)
RetireCommand(p) ==
  /\ Command(p) /\ UNCHANGED astray
  /\ \E shell \in Shells :
       LET q == InShell(shell)
       IN  \E k \in Live(q) \ {record} :
             /\ q.env = k \/ ~(q.reach /\ chain = k)
             /\ Becomes(p, [Doing(q, "retire") EXCEPT
                               !.todo = {k}, !.prefer = TRUE, !.key = k,
                               !.source = IF q.env = k THEN "env" ELSE "file",
                               !.then = "unlink"])

(* The key goes to the keychain, or to the file when that cannot be        *)
(* written; then it is recorded.                                           *)
InstallKey(p) ==
  /\ At(p, "install")
  /\ LET q == proc[p]
         recorded == [Doing(q, "record") EXCEPT !.key = q.key]
     IN  \/ q.reach /\ chain' = q.key /\ Becomes(p, recorded) /\ UNCHANGED file
         \/ /\ p \in FileHosts /\ file' = q.key
            /\ Becomes(p, recorded) /\ UNCHANGED chain
         \/ p \notin FileHosts /\ Becomes(p, Off) /\ UNCHANGED <<chain, file>>
  /\ UNCHANGED <<legacy, record, retirement, sealed, history, outside>>

(* The retired key opens from the vault. *)
Loads(q) == q.key \in Retired(q)

Unlink(p) ==
  /\ At(p, "unlink")
  /\ LET q == proc[p]
         gone == q.source = "file" /\ Loads(q)
     IN  /\ file' = IF gone /\ file = q.key THEN NoKey ELSE file
         /\ legacy' = IF gone /\ file # q.key /\ legacy = q.key THEN NoKey ELSE legacy
  /\ Becomes(p, Off)
  /\ UNCHANGED <<chain, record, retirement, sealed, history, outside>>
-----------------------------------------------------------------------------
(* A process with a cipher seals something. *)
Seal(p) ==
  /\ At(p, "run")
  /\ sealed' = sealed \cup {proc[p].key}
  /\ astray' = IF proc[p].key = record THEN astray ELSE astray \cup {proc[p].key}
  /\ UNCHANGED <<slots, record, retirement, proc, lost, raced, outside>>

(* A process or command stops, or crashes between two of its writes. *)
Stop(p) ==
  /\ ~At(p, "off")
  /\ Becomes(p, Off)
  /\ UNCHANGED <<slots, record, retirement, sealed, history, outside>>

(* The keychain loses its entry. *)
LoseEntry ==
  /\ chain \in Keys /\ losses < MaxLosses
  /\ losses' = losses + 1
  /\ chain' = NoKey
  /\ lost' = lost \cup {chain}
  /\ UNCHANGED <<file, legacy, record, retirement, sealed, proc, raced, astray, starts, commands>>

Resolve(p) ==
  \/ Start(p) \/ FindKey(p) \/ FillCustody(p) \/ RefuseKey(p) \/ StoreKey(p)
  \/ VerifyStored(p) \/ PublishKey(p) \/ CheckKey(p)

CommandStep(p) == AdoptKey(p) \/ ImportKeys(p) \/ RetireCommand(p) \/ InstallKey(p) \/ Unlink(p)

Next ==
  \/ \E p \in Procs :
       \/ Resolve(p) \/ CommandStep(p) \/ RetireKey(p) \/ IndexKey(p) \/ RecordKey(p)
       \/ Seal(p) \/ Stop(p)
  \/ LoseEntry

Spec == Init /\ [][Next]_vars
-----------------------------------------------------------------------------
Held(k) == k \in {chain, file, legacy} \/ (k \in Indexed /\ <<k, index[k]>> \in vault)

(* The keys custody answers for: not one the keychain lost, one that was   *)
(* only ever in the environment, or one that is astray.                    *)
Entrusted == sealed \ (lost \cup EnvKeys \cup astray)

(* No key something is sealed under is ever without a copy, whatever       *)
(* processes and commands crashed or failed between, unless two processes  *)
(* filled empty custody at once.                                           *)
SealingKeysAreHeld == raced \/ \A k \in Entrusted : Held(k)

(* `so no process ever seals data under a key that is not on disk', when   *)
(* several `resolve the master key against the same data dir at the same   *)
(* time': the same without the exception.                                  *)
SealingKeysSurviveRaces == \A k \in Entrusted : Held(k)

(* The process that owns the folder seals only under the key the folder    *)
(* records.                                                                *)
OwnerUsesRecordedKey == \A p \in Recorders : At(p, "run") => proc[p].key = record

(* An index entry names a key the vault holds. *)
IndexedKeysAreHeld == \A k \in Indexed : <<k, index[k]>> \in vault

(* What the owner runs with opens everything that is sealed, of the keys   *)
(* it can reach.                                                           *)
OwnerOpensAll ==
  \A p \in Recorders :
    At(p, "run") =>
      \A k \in Entrusted :
        (proc[p].reach \/ index[k] = "file") => k \in {proc[p].key} \cup proc[p].retired
=============================================================================
