-------------------------------- MODULE AppKey -------------------------------
(***************************************************************************)
(* The keys of a host, slot by slot (crypto/src/app_key.rs): the master    *)
(* key, as Custody has it, or the key of an app of its own (the desktop    *)
(* shell). An app key takes the same ladder over its own keychain entry    *)
(* and file; its file is the ladder's legacy file too, its record holds    *)
(* the key it resolved to last and stops no run by itself, and there is    *)
(* no vault: what is still in a slot opens, nothing else.                  *)
(***************************************************************************)
EXTENDS Custody

CONSTANTS
  AppProc,      \* the one process an app key belongs to
  MaxAppStarts  \* bound on its starts

ASSUME AppKeyAssumption == AppProc \in Procs \ Recorders /\ MaxAppStarts \in Nat

VARIABLES
  slot,      \* which key the host's processes resolve
  evidence   \* sealed files of the slot in secrets/

hostVars == <<vars, slot, evidence>>

HostInit ==
  /\ Init /\ slot \in {"master", "app"}
  /\ slot = "app" => legacy = NoKey
  /\ evidence \in IF slot = "app" /\ sealed # {} THEN BOOLEAN ELSE {FALSE}

\* resolve_app_key reads the record first.
AppStart(p) ==
  /\ p = AppProc /\ At(p, "off") /\ starts < MaxAppStarts
  /\ starts' = starts + 1
  /\ \E env \in EnvKeys \cup {NoKey}, reach \in BOOLEAN :
       Becomes(p, [Off EXCEPT !.pc = "ladder", !.env = env, !.reach = reach, !.seen = record])
  /\ UNCHANGED <<slots, record, retirement, sealed, history, commands, losses>>

\* The key file is retired once the keychain holds the same key.
retire_app_file == file' = IF file = chain THEN NoKey ELSE file

AppFindKey(p) ==
  LET q == proc[p]
  IN  /\ At(p, "ladder")
      /\ \/ q.env # NoKey /\ Found(p, q.env, "env") /\ UNCHANGED file
         \/ /\ q.env = NoKey /\ file # Corrupt /\ q.reach /\ chain \in Keys
            /\ Found(p, chain, "keychain") /\ retire_app_file
         \/ /\ q.env = NoKey /\ ~q.reach /\ p \in FileHosts /\ file \in Keys
            /\ Found(p, file, "file") /\ UNCHANGED file
  /\ UNCHANGED <<chain, legacy, record, retirement, sealed, history, outside>>

\* A slot that was used generates no key while the keychain cannot be read.
AppMayGenerate(p) == proc[p].reach \/ (proc[p].seen = NoKey /\ ~evidence)

AppFillers(p) ==
  IF file = Corrupt THEN {}
  ELSE IF file \in Keys THEN {file}
  ELSE IF AppMayGenerate(p) THEN Fresh ELSE {}

AppFill(p) ==
  /\ \/ Empty(p) /\ \E k \in AppFillers(p) :
          proc' = [proc EXCEPT ![p].pc = "store", ![p].key = k]
     \/ /\ Unavailable(p) /\ p \in FileHosts /\ file = NoKey
        /\ \E k \in AppFillers(p) : proc' = [proc EXCEPT ![p].pc = "publish", ![p].key = k]
  /\ UNCHANGED <<slots, record, retirement, sealed, history, outside>>

\* An error is not cached: the next call starts again.
AppRefuse(p) ==
  /\ At(p, "ladder") /\ proc[p].env = NoKey
  /\ \/ file = Corrupt
     \/ proc[p].reach /\ chain = Corrupt
     \/ Empty(p) /\ AppFillers(p) = {}
     \/ Unavailable(p) /\ (p \notin FileHosts \/ (file = NoKey /\ AppFillers(p) = {}))
  /\ Becomes(p, Off)
  /\ UNCHANGED <<slots, record, retirement, sealed, history, outside>>

AppStore(p) ==
  /\ At(p, "store")
  /\ \/ chain' = proc[p].key /\ GoTo(p, "verify")
     \/ /\ UNCHANGED chain
        /\ IF p \in FileHosts THEN GoTo(p, "publish") ELSE Becomes(p, Off)
  /\ UNCHANGED <<file, legacy, record, retirement, sealed, history, outside>>

AppVerify(p) ==
  /\ At(p, "verify")
  /\ IF chain = proc[p].key THEN Found(p, chain, "keychain") /\ retire_app_file
                            ELSE Becomes(p, Off) /\ UNCHANGED file
  /\ UNCHANGED <<chain, legacy, record, retirement, sealed, history, outside>>

\* The key of the ladder and the other one a slot still holds.
AppCandidates(p) == {proc[p].key} \cup IF p \in FileHosts THEN {file} \cap Keys ELSE {}

\* A mistaken form of the definition below it.
UnpinnedKeys(p) == {proc[p].key}

\* The recorded key stays the current one while any slot holds it; a file key
\* that is not the recorded one is not used while the keychain cannot be read.
CurrentKeys(p) ==
  LET q == proc[p]
  IN  IF q.source = "env" \/ q.seen \in {NoKey, q.key} THEN {q.key}
      ELSE IF q.seen \in AppCandidates(p) THEN {q.seen}
      ELSE IF q.source = "file" /\ ~q.reach THEN {} ELSE {q.key}

AppRuns(p, place, k) ==
  Becomes(p, [Doing(proc[p], place) EXCEPT !.env = proc[p].env, !.key = k,
                                           !.retired = AppCandidates(p) \ {k}])

AppCheck(p) ==
  /\ At(p, "check")
  /\ IF CurrentKeys(p) = {} THEN Becomes(p, Off)
     ELSE \E k \in CurrentKeys(p) : AppRuns(p, IF proc[p].seen = k THEN "run" ELSE "record", k)
  /\ UNCHANGED <<slots, record, retirement, sealed, history, outside>>

\* write_app_kcv: a failure is only logged. A run with RYU_MASTER_KEY replaces
\* the record of a key it has not seen.
AppRecord(p) ==
  /\ At(p, "record")
  /\ GoTo(p, "run")
  /\ \/ /\ record' = proc[p].key
        /\ astray' = (astray \cup IF proc[p].env = NoKey THEN {} ELSE {record} \cap Keys)
                       \ {proc[p].key}
     \/ UNCHANGED <<record, astray>>
  /\ UNCHANGED <<slots, retirement, sealed, lost, raced, outside>>

\* What an app seals in a file of the slot is there for the next start.
AppSeals(p) == Seal(p) /\ evidence' \in {evidence, TRUE}

AppNext ==
  \E p \in {AppProc} :
    \/ /\ \/ AppStart(p) \/ AppFindKey(p) \/ AppFill(p) \/ AppRefuse(p) \/ AppStore(p)
          \/ AppVerify(p) \/ PublishKey(p) \/ AppCheck(p) \/ AppRecord(p) \/ Stop(p)
       /\ UNCHANGED evidence
    \/ AppSeals(p)
    \/ LoseEntry /\ UNCHANGED evidence

HostNext ==
  /\ UNCHANGED slot
  /\ \/ slot = "master" /\ Next /\ UNCHANGED evidence
     \/ slot = "app" /\ AppNext

HostSpec == HostInit /\ [][HostNext]_hostVars

-----------------------------------------------------------------------------
(***************************************************************************)
(* A process opens what was sealed. Core: every key it can reach. An app   *)
(* without RYU_MASTER_KEY in its way: every key, or it does not run; it    *)
(* never goes on without a key that is only out of reach, and the record   *)
(* keeps the right one of two current (resolve, resolve_app_key).          *)
(***************************************************************************)
RunsOpenAll ==
  /\ slot = "master" => OwnerOpensAll
  /\ slot = "app" /\ At(AppProc, "run") /\ proc[AppProc].env = NoKey =>
       Entrusted \subseteq {proc[AppProc].key} \cup proc[AppProc].retired
=============================================================================
