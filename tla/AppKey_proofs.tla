--------------------------- MODULE AppKey_proofs ----------------------------
(***************************************************************************)
(* Proofs about Custody and AppKey for every set of keys and processes and *)
(* any number of starts, commands and losses.  Base says what a place says *)
(* of a process and of the vault; CustodyInv, for the master key, and      *)
(* AppInv, for an app's, are what the properties need besides.             *)
(***************************************************************************)
EXTENDS AppKey, FiniteSetTheorems, TLAPS

(* An index no larger than the limit. *)
Small(f) ==
  /\ IsFiniteSet({k \in Keys : f[k] # "none"})
  /\ Cardinality({k \in Keys : f[k] # "none"}) <= MAX_RETIRED_KEYS

Typed ==
  /\ TypeOK
  /\ IsFiniteSet(Indexed)
  /\ slot \in {"master", "app"}
  /\ evidence \in BOOLEAN

(* What a process's place says of its fields. *)
Shape(p) ==
  LET q == proc[p]
  IN  /\ q.env \in EnvKeys \cup {NoKey}
      /\ q.pc \in {"store", "verify", "publish", "check", "record", "run", "install"} =>
           q.key \in Keys
      /\ q.pc \in {"retire", "index"} =>
           /\ q.then \in {"off", "run", "record", "install", "unlink"}
           /\ q.then \in {"run", "record", "install"} => q.key \in Keys
      /\ q.pc = "record" => q.then \in {"off", "run", "record"}
      /\ q.pc \in {"install", "unlink"} => q.then \notin {"run", "record"}

(* The index a process is about to write names keys the vault holds, and   *)
(* no more than the limit.                                                 *)
Ahead(p) ==
  At(p, "index") =>
    /\ Small(proc[p].idx)
    /\ \A k \in Keys : proc[p].idx[k] # "none" => <<k, proc[p].idx[k]>> \in vault

Base == Typed /\ IndexedKeysAreHeld /\ \A p \in Procs : Shape(p) /\ Ahead(p)

-----------------------------------------------------------------------------
(* The type of everything but the processes. *)
SharedTyped ==
  /\ chain \in Slot /\ file \in Slot /\ legacy \in MaybeKey /\ record \in MaybeKey
  /\ index \in [Keys -> Custodies \cup {"none"}] /\ Small(index)
  /\ vault \subseteq Keys \X Custodies
  /\ sealed \subseteq Keys /\ lost \subseteq Keys /\ astray \subseteq Keys /\ raced \in BOOLEAN
  /\ starts \in Nat /\ commands \in 0..MaxCommands /\ losses \in 0..MaxLosses
  /\ slot \in {"master", "app"} /\ evidence \in BOOLEAN

LEMMA BaseParts ==
  Base <=> /\ SharedTyped /\ IndexedKeysAreHeld
           /\ proc \in [Procs -> Proc] /\ \A p \in Procs : Shape(p) /\ Ahead(p)
BY DEF Base, Typed, TypeOK, SharedTyped, Small, Indexed

(* Only process p moves, to a state that fits its place. *)
Moves(p) ==
  /\ proc' \in [Procs -> Proc]
  /\ \A o \in Procs \ {p} : proc'[o] = proc[o]
  /\ Shape(p)' /\ Ahead(p)'

LEMMA Becoming ==
  ASSUME proc \in [Procs -> Proc], NEW p \in Procs, NEW q \in Proc, Becomes(p, q)
  PROVE  /\ proc' \in [Procs -> Proc]
         /\ proc'[p] = q
         /\ \A o \in Procs \ {p} : proc'[o] = proc[o]
BY DEF Becomes

(* Off and what Doing keeps. *)
LEMMA OffFields ==
  /\ Off \in Proc
  /\ Off.pc = "off" /\ Off.env = NoKey /\ Off.reach = FALSE /\ Off.seen = NoKey
  /\ Off.key = NoKey /\ Off.source = "file" /\ Off.retired = {} /\ Off.todo = {}
  /\ Off.prefer = FALSE /\ Off.idx = [k \in Keys |-> "none"] /\ Off.then = "off"
BY DEF Off, Proc, Places, MaybeKey

LEMMA MovesKeepBase ==
  ASSUME Base, NEW p \in Procs, Moves(p), SharedTyped', IndexedKeysAreHeld', vault \subseteq vault'
  PROVE  Base'
<1>1. ASSUME NEW o \in Procs \ {p} PROVE Shape(o)' /\ Ahead(o)'
  <2>1. proc'[o] = proc[o] /\ Shape(o) /\ Ahead(o)
    BY BaseParts DEF Moves
  <2>2. Shape(o)'
    BY <2>1 DEF Shape
  <2>3. Ahead(o)'
    BY <2>1 DEF Ahead, At, Small
  <2> QED BY <2>2, <2>3
<1>2. \A o \in Procs : Shape(o)' /\ Ahead(o)'
  BY <1>1 DEF Moves
<1> QED BY <1>2 DEF Moves, Base, Typed, TypeOK, SharedTyped, Small, Indexed

(* The master key's own variables but the processes, as most steps leave   *)
(* them.                                                                   *)
Settled == <<record, index, vault, sealed, lost, astray, commands, losses, slot>>

LEMMA SettledKeepsBase ==
  ASSUME Base, NEW p \in Procs, Moves(p), UNCHANGED Settled,
         chain' \in Slot, file' \in Slot, legacy' \in MaybeKey,
         starts' \in Nat, raced' \in BOOLEAN, evidence' \in BOOLEAN
  PROVE  Base'
<1>1. SharedTyped' /\ IndexedKeysAreHeld'
  BY BaseParts DEF SharedTyped, IndexedKeysAreHeld, Indexed, Settled, Small
<1> QED BY <1>1, MovesKeepBase DEF Settled

LEMMA OffMoves ==
  ASSUME Base, NEW p \in Procs, Becomes(p, Off)
  PROVE  Moves(p)
<1>1. proc' \in [Procs -> Proc] /\ proc'[p] = Off /\ \A o \in Procs \ {p} : proc'[o] = proc[o]
  BY BaseParts, OffFields, Becoming
<1> QED BY <1>1, OffFields DEF Moves, Shape, Ahead, At

LEMMA RunsMoves ==
  ASSUME Base, NEW p \in Procs, NEW k \in Keys, NEW opened \in SUBSET Keys, Runs(p, k, opened)
  PROVE  /\ Moves(p)
         /\ proc'[p].pc = "run" /\ proc'[p].key = k /\ proc'[p].retired = opened \ {k}
         /\ proc'[p].reach = proc[p].reach /\ proc'[p].then = "off" /\ proc'[p].env = NoKey
<1> DEFINE q == [Doing(proc[p], "run") EXCEPT !.key = k, !.retired = opened \ {k}]
<1>1. proc[p].reach \in BOOLEAN
  BY BaseParts DEF Proc
<1>2. q \in Proc /\ q.pc = "run" /\ q.key = k /\ q.retired = opened \ {k} /\ q.reach = proc[p].reach
      /\ q.then = "off" /\ q.env = NoKey
  BY <1>1, OffFields DEF Doing, Proc, Places, MaybeKey
<1>3. proc' \in [Procs -> Proc] /\ proc'[p] = q /\ \A o \in Procs \ {p} : proc'[o] = proc[o]
  <2>1. Becomes(p, q)
    BY DEF Runs
  <2> HIDE DEF q
  <2> QED BY <1>2, <2>1, BaseParts, Becoming
<1> HIDE DEF q
<1> QED BY <1>2, <1>3 DEF Moves, Shape, Ahead, At

(* A process that changes its place only, or takes a key it found. *)
Elsewhere(p, place) ==
  /\ proc'[p].pc = place
  /\ proc'[p].env = proc[p].env /\ proc'[p].reach = proc[p].reach
  /\ proc'[p].seen = proc[p].seen /\ proc'[p].retired = proc[p].retired
  /\ proc'[p].todo = proc[p].todo /\ proc'[p].idx = proc[p].idx
  /\ proc'[p].then = proc[p].then

LEMMA GoToMoves ==
  ASSUME Base, NEW p \in Procs, NEW place \in Places \ {"index"}, GoTo(p, place),
         place \in {"store", "verify", "publish", "check", "record", "run", "install"} =>
           proc[p].key \in Keys,
         place = "retire" => proc[p].then \in {"off", "run", "record", "install", "unlink"},
         place = "retire" /\ proc[p].then \in {"run", "record", "install"} => proc[p].key \in Keys,
         place = "record" => proc[p].then \in {"off", "run", "record"},
         place \in {"install", "unlink"} => proc[p].then \notin {"run", "record"}
  PROVE  Moves(p) /\ Elsewhere(p, place) /\ proc'[p].key = proc[p].key
                  /\ proc'[p].source = proc[p].source
<1>1. proc[p] \in Proc /\ Shape(p) /\ proc \in [Procs -> Proc]
  BY BaseParts
<1>2. /\ proc' \in [Procs -> Proc] /\ \A o \in Procs \ {p} : proc'[o] = proc[o]
      /\ Elsewhere(p, place) /\ proc'[p].key = proc[p].key /\ proc'[p].source = proc[p].source
  BY <1>1 DEF GoTo, Proc, Elsewhere
<1> QED BY <1>1, <1>2 DEF Moves, Shape, Ahead, At, Elsewhere

LEMMA FoundMoves ==
  ASSUME Base, NEW p \in Procs, NEW k \in Keys, NEW source \in {"env", "keychain", "file"},
         Found(p, k, source)
  PROVE  Moves(p) /\ Elsewhere(p, "check") /\ proc'[p].key = k /\ proc'[p].source = source
<1>1. proc[p] \in Proc /\ Shape(p) /\ proc \in [Procs -> Proc]
  BY BaseParts
<1>2. /\ proc' \in [Procs -> Proc] /\ \A o \in Procs \ {p} : proc'[o] = proc[o]
      /\ Elsewhere(p, "check") /\ proc'[p].key = k /\ proc'[p].source = source
  BY <1>1 DEF Found, Proc, Elsewhere, Places, MaybeKey
<1> QED BY <1>1, <1>2 DEF Moves, Shape, Ahead, At, Elsewhere

LEMMA CandidatesAreKeys ==
  ASSUME NEW q
  PROVE  Retired(q) \subseteq Keys /\ Live(q) \subseteq Keys /\ candidates(q) \subseteq Keys
BY DEF Retired, Live, candidates, Indexed

(* A refused ladder runs with the recorded key it finds, or is off. *)
LEMMA RefusedMoves ==
  ASSUME Base, NEW p \in Procs, Refused(p)
  PROVE  /\ Moves(p)
         /\ \/ proc'[p] = Off
            \/ /\ proc[p].seen \in Keys \cap candidates(proc[p])
               /\ proc'[p].pc = "run" /\ proc'[p].key = proc[p].seen
               /\ proc'[p].retired = Retired(proc[p]) \ {proc[p].seen}
               /\ proc'[p].reach = proc[p].reach /\ proc'[p].then = "off"
<1>1. CASE proc[p].seen \in Keys /\ proc[p].seen \in candidates(proc[p])
  <2>1. Runs(p, proc[p].seen, Retired(proc[p]))
    BY <1>1 DEF Refused
  <2>2. Retired(proc[p]) \in SUBSET Keys
    BY CandidatesAreKeys
  <2> QED BY <1>1, <2>1, <2>2, RunsMoves
<1>2. CASE ~(proc[p].seen \in Keys /\ proc[p].seen \in candidates(proc[p]))
  <2>1. Becomes(p, Off)
    BY <1>2 DEF Refused
  <2>2. proc'[p] = Off
    BY <2>1, BaseParts, OffFields, Becoming
  <2> QED BY <2>1, <2>2, OffMoves
<1> QED BY <1>1, <1>2

(* The process retires its primary key first. *)
LEMMA AfterRetiringMoves ==
  ASSUME Base, NEW p \in Procs, NEW k \in Keys, NEW then \in {"run", "record"},
         proc[p].key \in Keys, AfterRetiring(p, k, then)
  PROVE  /\ Moves(p)
         /\ proc'[p].pc = "retire" /\ proc'[p].key = k /\ proc'[p].then = then
         /\ proc'[p].retired = (Retired(proc[p]) \cup {proc[p].key}) \ {k}
         /\ proc'[p].todo = IF proc[p].source = "env" THEN {} ELSE {proc[p].key}
         /\ proc'[p].reach = proc[p].reach
<1> DEFINE q == [Doing(proc[p], "retire") EXCEPT !.key = k, !.then = then,
                !.retired = (Retired(proc[p]) \cup {proc[p].key}) \ {k},
                !.todo = IF proc[p].source = "env" THEN {} ELSE {proc[p].key},
                !.prefer = proc[p].source = "keychain"]
<1>1. proc[p].reach \in BOOLEAN /\ Retired(proc[p]) \in SUBSET Keys
  BY BaseParts, CandidatesAreKeys DEF Proc
<1>2. /\ q.pc = "retire" /\ q.key = k /\ q.then = then
      /\ q.retired = (Retired(proc[p]) \cup {proc[p].key}) \ {k}
      /\ q.todo = IF proc[p].source = "env" THEN {} ELSE {proc[p].key}
      /\ q.reach = proc[p].reach /\ q.env = NoKey
  BY <1>1, OffFields DEF Doing, Proc
<1>3. q \in Proc
  BY <1>1, OffFields DEF Doing, Proc, Places, MaybeKey
<1>4. proc' \in [Procs -> Proc] /\ proc'[p] = q /\ \A o \in Procs \ {p} : proc'[o] = proc[o]
  <2>1. Becomes(p, q)
    BY DEF AfterRetiring
  <2> HIDE DEF q
  <2> QED BY <1>3, <2>1, BaseParts, Becoming
<1> HIDE DEF q
<1> QED BY <1>2, <1>4 DEF Moves, Shape, Ahead, At

(* Any other new state of a process. *)
LEMMA NewMoves ==
  ASSUME Base, NEW p \in Procs, NEW q \in Proc, Becomes(p, q),
         q.env \in EnvKeys \cup {NoKey},
         q.pc \in {"store", "verify", "publish", "check", "record", "run", "install"} => q.key \in Keys,
         q.pc # "index",
         q.pc = "retire" => q.then \in {"off", "run", "record", "install", "unlink"}
                            /\ (q.then \in {"run", "record", "install"} => q.key \in Keys),
         q.pc = "record" => q.then \in {"off", "run", "record"},
         q.pc \in {"install", "unlink"} => q.then \notin {"run", "record"}
  PROVE  Moves(p) /\ proc'[p] = q
<1>1. proc' \in [Procs -> Proc] /\ proc'[p] = q /\ \A o \in Procs \ {p} : proc'[o] = proc[o]
  BY BaseParts, Becoming
<1> QED BY <1>1 DEF Moves, Shape, Ahead, At

-----------------------------------------------------------------------------
(* Each step keeps Base. *)
LEMMA StartBase ==
  ASSUME Base, NEW p \in Procs, Start(p) \/ AppStart(p), UNCHANGED <<slot, evidence>>
  PROVE  Base'
<1>1. PICK env \in EnvKeys \cup {NoKey}, reach \in BOOLEAN :
        Becomes(p, [Off EXCEPT !.pc = "ladder", !.env = env, !.reach = reach, !.seen = record])
  BY DEF Start, AppStart
<1> DEFINE q == [Off EXCEPT !.pc = "ladder", !.env = env, !.reach = reach, !.seen = record]
<1>2. env \in MaybeKey /\ record \in MaybeKey
  BY BaseParts, CustodyAssumption DEF SharedTyped, MaybeKey
<1>3. q \in Proc /\ q.pc = "ladder" /\ q.env = env
  BY <1>2, OffFields DEF Proc, Places
<1>4. Becomes(p, q)
  BY <1>1
<1> HIDE DEF q
<1>5. Moves(p)
  BY <1>3, <1>4, NewMoves
<1>6. UNCHANGED <<Settled, slots, raced, evidence>> /\ starts' = starts + 1
  BY DEF Start, AppStart, Settled, retirement, history
<1>7. chain' \in Slot /\ file' \in Slot /\ legacy' \in MaybeKey /\ starts' \in Nat
      /\ raced' \in BOOLEAN /\ evidence' \in BOOLEAN
  BY <1>6, BaseParts DEF SharedTyped, slots
<1> QED
  BY <1>5, <1>6, <1>7, SettledKeepsBase

LEMMA FindKeyBase ==
  ASSUME Base, NEW p \in Procs, FindKey(p) \/ AppFindKey(p), UNCHANGED <<slot, evidence>>
  PROVE  Base'
<1>1. PICK k \in Keys, source \in {"env", "keychain", "file"} : Found(p, k, source)
  BY BaseParts, CustodyAssumption DEF FindKey, AppFindKey, Shape
<1>2. Moves(p)
  BY <1>1, FoundMoves
<1>3. UNCHANGED Settled /\ chain' \in Slot /\ file' \in Slot /\ legacy' \in MaybeKey
      /\ starts' \in Nat /\ raced' \in BOOLEAN /\ evidence' \in BOOLEAN
  BY BaseParts DEF FindKey, AppFindKey, retire_matching_legacy_key, retire_app_file, Settled,
       SharedTyped, retirement, history, outside, MaybeKey, Slot
<1> QED BY <1>2, <1>3, SettledKeepsBase

(* The key empty custody is filled with. *)
LEMMA FillersAreKeys ==
  ASSUME NEW p PROVE Fillers(p) \subseteq Keys /\ AppFillers(p) \subseteq Keys
BY DEF Fillers, AppFillers, Fresh

LEMMA FillMoves ==
  ASSUME Base, NEW p \in Procs, NEW k \in Keys, NEW place \in {"store", "publish"},
         proc' = [proc EXCEPT ![p].pc = place, ![p].key = k]
  PROVE  Moves(p) /\ Elsewhere(p, place) /\ proc'[p].key = k
<1>1. proc[p] \in Proc /\ Shape(p) /\ proc \in [Procs -> Proc]
  BY BaseParts
<1>2. /\ proc' \in [Procs -> Proc] /\ \A o \in Procs \ {p} : proc'[o] = proc[o]
      /\ Elsewhere(p, place) /\ proc'[p].key = k
  BY <1>1 DEF Proc, Elsewhere, Places, MaybeKey
<1> QED BY <1>1, <1>2 DEF Moves, Shape, Ahead, At, Elsewhere

LEMMA FillBase ==
  ASSUME Base, NEW p \in Procs, FillCustody(p) \/ AppFill(p), UNCHANGED <<slot, evidence>>
  PROVE  Base'
<1>1. PICK k \in Keys, place \in {"store", "publish"} :
        proc' = [proc EXCEPT ![p].pc = place, ![p].key = k]
  BY FillersAreKeys DEF FillCustody, Fills, AppFill
<1>2. Moves(p)
  BY <1>1, FillMoves
<1> QED
  BY <1>2, SettledKeepsBase, BaseParts
     DEF FillCustody, Fills, AppFill, Settled, SharedTyped, slots, retirement, history, outside

LEMMA RefuseBase ==
  ASSUME Base, NEW p \in Procs, RefuseKey(p) \/ AppRefuse(p), UNCHANGED <<slot, evidence>>
  PROVE  Base'
<1>1. Moves(p)
  BY RefusedMoves, OffMoves DEF RefuseKey, AppRefuse
<1> QED
  BY <1>1, SettledKeepsBase, BaseParts
     DEF RefuseKey, AppRefuse, Settled, SharedTyped, slots, retirement, history, outside

LEMMA StoreBase ==
  ASSUME Base, NEW p \in Procs, StoreKey(p) \/ AppStore(p), UNCHANGED <<slot, evidence>>
  PROVE  Base'
<1>1. At(p, "store") /\ proc[p].key \in Keys
  BY BaseParts DEF StoreKey, AppStore, Shape, At
<1>2. Moves(p)
  BY <1>1, GoToMoves, RefusedMoves, OffMoves DEF StoreKey, AppStore, Places
<1> QED
  BY <1>1, <1>2, SettledKeepsBase, BaseParts
     DEF StoreKey, AppStore, Settled, SharedTyped, Slot, MaybeKey, retirement, history, outside

LEMMA VerifyBase ==
  ASSUME Base, NEW p \in Procs, VerifyStored(p) \/ AppVerify(p), UNCHANGED <<slot, evidence>>
  PROVE  Base'
<1>1. At(p, "verify") /\ proc[p].key \in Keys
  BY BaseParts DEF VerifyStored, AppVerify, Shape, At
<1>2. Moves(p)
  BY <1>1, FoundMoves, RefusedMoves, OffMoves DEF VerifyStored, AppVerify
<1> QED
  BY <1>2, SettledKeepsBase, BaseParts
     DEF VerifyStored, AppVerify, retire_matching_legacy_key, retire_app_file, Settled,
         SharedTyped, Slot, MaybeKey, retirement, history, outside

LEMMA PublishBase ==
  ASSUME Base, NEW p \in Procs, PublishKey(p), UNCHANGED <<slot, evidence>>
  PROVE  Base'
<1>1. At(p, "publish") /\ proc[p].key \in Keys
  BY BaseParts DEF PublishKey, Shape, At
<1>2. Moves(p)
  BY <1>1, FoundMoves, RefusedMoves DEF PublishKey
<1> QED
  BY <1>1, <1>2, SettledKeepsBase, BaseParts
     DEF PublishKey, Published, Settled, SharedTyped, Slot, MaybeKey, retirement, history, outside

LEMMA CheckBase ==
  ASSUME Base, NEW p \in Procs, CheckKey(p), UNCHANGED <<slot, evidence>>
  PROVE  Base'
<1>1. At(p, "check") /\ proc[p].key \in Keys /\ proc[p] \in Proc
  BY BaseParts DEF CheckKey, Shape, At
<1>2. Retired(proc[p]) \in SUBSET Keys /\ candidates(proc[p]) \in SUBSET Keys
  BY CandidatesAreKeys
<1>3. ASSUME NEW k \in Keys, Runs(p, k, Retired(proc[p])) PROVE Moves(p)
  BY <1>2, <1>3, RunsMoves
<1>4. ASSUME Becomes(p, [Doing(proc[p], "record") EXCEPT !.key = proc[p].key, !.then = "run",
                                                         !.retired = Retired(proc[p]) \ {proc[p].key}])
      PROVE  Moves(p)
  <2> DEFINE q == [Doing(proc[p], "record") EXCEPT !.key = proc[p].key, !.then = "run",
                                                   !.retired = Retired(proc[p]) \ {proc[p].key}]
  <2>1. q \in Proc /\ q.pc = "record" /\ q.key = proc[p].key /\ q.then = "run" /\ q.env = NoKey
    BY <1>1, <1>2, OffFields DEF Doing, Proc, Places, MaybeKey
  <2>2. Becomes(p, q)
    BY <1>4
  <2> HIDE DEF q
  <2> QED BY <1>1, <2>1, <2>2, NewMoves
<1>5. Moves(p)
  BY <1>1, <1>2, <1>3, <1>4, AfterRetiringMoves, OffMoves DEF CheckKey, Mismatch
<1>6. UNCHANGED <<Settled, slots, starts, raced, evidence>>
  BY DEF CheckKey, Settled, retirement, history, outside
<1>7. chain' \in Slot /\ file' \in Slot /\ legacy' \in MaybeKey /\ starts' \in Nat
      /\ raced' \in BOOLEAN /\ evidence' \in BOOLEAN
  BY <1>6, BaseParts DEF SharedTyped, slots
<1> QED BY <1>5, <1>6, <1>7, SettledKeepsBase

(* What an app runs with, or records first. *)
LEMMA AppRunsMoves ==
  ASSUME Base, NEW p \in Procs, At(p, "check"), NEW place \in {"run", "record"},
         NEW k \in CurrentKeys(p), AppRuns(p, place, k)
  PROVE  /\ Moves(p) /\ k \in Keys
         /\ proc'[p].pc = place /\ proc'[p].key = k /\ proc'[p].env = proc[p].env
<1> DEFINE q == [Doing(proc[p], place) EXCEPT !.env = proc[p].env, !.key = k,
                                              !.retired = AppCandidates(p) \ {k}]
<1>1. proc[p].key \in Keys /\ proc[p] \in Proc /\ proc[p].env \in EnvKeys \cup {NoKey}
  BY BaseParts DEF Shape, At
<1>2. AppCandidates(p) \in SUBSET Keys
  BY <1>1 DEF AppCandidates
<1>3. k \in Keys
  BY <1>1, <1>2 DEF CurrentKeys
<1>4. q \in Proc /\ q.pc = place /\ q.key = k /\ q.then = "off" /\ q.env = proc[p].env
  BY <1>1, <1>2, <1>3, OffFields DEF Doing, Proc, Places, MaybeKey
<1>5. Becomes(p, q)
  BY DEF AppRuns
<1> HIDE DEF q
<1> QED BY <1>1, <1>3, <1>4, <1>5, NewMoves

LEMMA AppCheckBase ==
  ASSUME Base, NEW p \in Procs, AppCheck(p), UNCHANGED <<slot, evidence>>
  PROVE  Base'
<1>1. Moves(p)
  BY AppRunsMoves, OffMoves DEF AppCheck
<1>2. UNCHANGED <<Settled, slots, starts, raced, evidence>>
  BY DEF AppCheck, Settled, retirement, history, outside
<1>3. chain' \in Slot /\ file' \in Slot /\ legacy' \in MaybeKey /\ starts' \in Nat
      /\ raced' \in BOOLEAN /\ evidence' \in BOOLEAN
  BY <1>2, BaseParts DEF SharedTyped, slots
<1> QED BY <1>1, <1>2, <1>3, SettledKeepsBase

(* Where a process goes once its keys are retired. *)
LEMMA ContinueMoves ==
  ASSUME Base, NEW p \in Procs, At(p, "retire"), Continue(p)
  PROVE  /\ Moves(p)
         /\ \/ proc[p].then = "off" /\ proc'[p] = Off
            \/ /\ proc[p].then = "run" /\ proc'[p].pc = "run" /\ proc'[p].key = proc[p].key
               /\ proc'[p].retired = proc[p].retired \ {proc[p].key}
               /\ proc'[p].reach = proc[p].reach /\ proc'[p].then = "off"
            \/ /\ proc[p].then \in {"record", "install", "unlink"}
               /\ Elsewhere(p, proc[p].then) /\ proc'[p].key = proc[p].key
               /\ proc'[p].source = proc[p].source
<1>1. proc[p] \in Proc /\ Shape(p)
  BY BaseParts
<1>2. proc[p].then \in {"off", "run", "record", "install", "unlink"}
      /\ (proc[p].then \in {"run", "record", "install"} => proc[p].key \in Keys)
  BY <1>1 DEF Shape, At
<1>3. CASE proc[p].then = "off"
  BY <1>3, BaseParts, OffFields, Becoming, OffMoves DEF Continue
<1>4. CASE proc[p].then = "run"
  <2>1. Runs(p, proc[p].key, proc[p].retired) /\ proc[p].retired \in SUBSET Keys
    BY <1>1, <1>4 DEF Continue, Proc
  <2> QED BY <1>2, <1>4, <2>1, RunsMoves
<1>5. CASE proc[p].then \in {"record", "install", "unlink"}
  <2>1. GoTo(p, proc[p].then)
    BY <1>5 DEF Continue
  <2>2. proc[p].then \in Places \ {"index"}
    BY <1>5 DEF Places
  <2> QED BY <1>2, <1>5, <2>1, <2>2, GoToMoves
<1> QED BY <1>2, <1>3, <1>4, <1>5

LEMMA RetireOneMoves ==
  ASSUME Base, NEW p \in Procs, At(p, "retire"), ~Full,
         NEW k \in proc[p].todo \ Indexed, NEW custody \in Custodies,
         vault' = vault \cup {<<k, custody>>},
         Becomes(p, [proc[p] EXCEPT !.pc = "index", !.idx = [index EXCEPT ![k] = custody]])
  PROVE  /\ Moves(p) /\ k \in Keys
         /\ proc'[p].pc = "index" /\ \A j \in Keys \ {k} : proc'[p].idx[j] = index[j]
         /\ proc'[p].key = proc[p].key /\ proc'[p].then = proc[p].then
         /\ proc'[p].reach = proc[p].reach /\ proc'[p].retired = proc[p].retired
         /\ proc'[p].todo = proc[p].todo
<1> DEFINE idx == [index EXCEPT ![k] = custody]
           q == [proc[p] EXCEPT !.pc = "index", !.idx = idx]
           kept == {j \in Keys : idx[j] # "none"}
<1>1. proc[p] \in Proc /\ Shape(p) /\ proc \in [Procs -> Proc] /\ SharedTyped /\ IndexedKeysAreHeld
  BY BaseParts
<1>2. k \in Keys
  BY <1>1 DEF Proc
<1>3. idx \in [Keys -> Custodies \cup {"none"}]
  BY <1>1, <1>2 DEF SharedTyped
<1>4. q \in Proc /\ q.pc = "index" /\ q.idx = idx /\ q.env = proc[p].env
      /\ q.then = proc[p].then /\ q.key = proc[p].key
      /\ q.reach = proc[p].reach /\ q.retired = proc[p].retired /\ q.todo = proc[p].todo
  BY <1>1, <1>3 DEF Proc, Places
<1>5. proc' \in [Procs -> Proc] /\ proc'[p] = q /\ \A o \in Procs \ {p} : proc'[o] = proc[o]
  <2>1. Becomes(p, q)
    OBVIOUS
  <2> HIDE DEF q
  <2> QED BY <1>1, <1>4, <2>1, Becoming
<1>6. kept = Indexed \cup {k}
  BY <1>1, <1>2 DEF SharedTyped, Indexed, Custodies
<1>7. IsFiniteSet(Indexed) /\ Cardinality(Indexed) <= MAX_RETIRED_KEYS
  BY <1>1 DEF SharedTyped, Small, Indexed
<1>8. IsFiniteSet(kept) /\ Cardinality(kept) = Cardinality(Indexed) + 1
  BY <1>6, <1>7, FS_AddElement
<1>9. Small(idx)
  <2>1. Cardinality(Indexed) \in Nat /\ MAX_RETIRED_KEYS \in Nat
    BY <1>7, FS_CardinalityType, CustodyAssumption
  <2>2. Cardinality(kept) <= MAX_RETIRED_KEYS
    BY <1>8, <2>1 DEF Full
  <2> QED BY <1>8, <2>2 DEF Small
<1>10. \A j \in Keys : idx[j] # "none" => <<j, idx[j]>> \in vault'
  BY <1>1, <1>2 DEF SharedTyped, IndexedKeysAreHeld, Indexed
<1>11. proc[p].then \in {"off", "run", "record", "install", "unlink"}
       /\ (proc[p].then \in {"run", "record", "install"} => proc[p].key \in Keys)
       /\ proc[p].env \in EnvKeys \cup {NoKey}
  BY <1>1 DEF Shape, At
<1>12. Shape(p)'
  <2> HIDE DEF q, idx
  <2> QED BY <1>4, <1>5, <1>11 DEF Shape
<1>13. Ahead(p)'
  <2>1. proc'[p].idx = idx
    <3> HIDE DEF q, idx
    <3> QED BY <1>4, <1>5
  <2> HIDE DEF q, idx
  <2> QED BY <2>1, <1>9, <1>10 DEF Ahead, Small
<1>14. Moves(p)
  BY <1>5, <1>12, <1>13 DEF Moves
<1>15. \A j \in Keys \ {k} : idx[j] = index[j]
  BY <1>1, <1>2 DEF SharedTyped
<1> HIDE DEF q, idx
<1> QED BY <1>2, <1>4, <1>5, <1>14, <1>15

LEMMA RetireBase ==
  ASSUME Base, NEW p \in Procs, RetireKey(p), UNCHANGED <<slot, evidence>>
  PROVE  Base'
<1>1. At(p, "retire")
  BY DEF RetireKey
<1>2. /\ Moves(p)
      /\ \/ vault' = vault
         \/ \E k \in Keys, custody \in Custodies : vault' = vault \cup {<<k, custody>>}
  <2>1. \/ (Continue(p) \/ Becomes(p, Off)) /\ UNCHANGED vault
        \/ /\ ~Full
           /\ \E k \in proc[p].todo \ Indexed, custody \in Custodies :
                /\ vault' = vault \cup {<<k, custody>>}
                /\ Becomes(p, [proc[p] EXCEPT !.pc = "index",
                                              !.idx = [index EXCEPT ![k] = custody]])
    BY DEF RetireKey, Vaulted, Custodies
  <2>2. CASE (Continue(p) \/ Becomes(p, Off)) /\ UNCHANGED vault
    BY <1>1, <2>2, ContinueMoves, OffMoves
  <2>3. ASSUME ~Full, NEW k \in proc[p].todo \ Indexed, NEW custody \in Custodies,
               vault' = vault \cup {<<k, custody>>},
               Becomes(p, [proc[p] EXCEPT !.pc = "index", !.idx = [index EXCEPT ![k] = custody]])
        PROVE  Moves(p) /\ k \in Keys
    BY <1>1, <2>3, RetireOneMoves
  <2> QED BY <2>1, <2>2, <2>3
<1>3. UNCHANGED <<slots, record, index, sealed, history, outside, slot, evidence>>
  BY DEF RetireKey
<1>4. vault \subseteq vault' /\ vault' \subseteq Keys \X Custodies
  BY <1>2, BaseParts DEF SharedTyped
<1>5. SharedTyped' /\ IndexedKeysAreHeld'
  BY <1>3, <1>4, BaseParts
     DEF SharedTyped, IndexedKeysAreHeld, Indexed, Small, slots, history, outside
<1> QED BY <1>2, <1>4, <1>5, MovesKeepBase

LEMMA IndexMoves ==
  ASSUME Base, NEW p \in Procs, IndexKey(p)
  PROVE  /\ Moves(p)
         /\ proc'[p].pc = "retire" /\ proc'[p].key = proc[p].key
         /\ proc'[p].then = proc[p].then /\ proc'[p].reach = proc[p].reach
         /\ proc'[p].retired = proc[p].retired /\ proc'[p].todo = proc[p].todo
<1> DEFINE q == [proc[p] EXCEPT !.pc = "retire", !.idx = Off.idx]
<1>1. proc[p] \in Proc /\ Shape(p) /\ At(p, "index")
  BY BaseParts DEF IndexKey
<1>2. q \in Proc /\ q.pc = "retire" /\ q.env = proc[p].env /\ q.then = proc[p].then
      /\ q.key = proc[p].key /\ q.reach = proc[p].reach /\ q.retired = proc[p].retired
      /\ q.todo = proc[p].todo
  BY <1>1, OffFields DEF Proc, Places
<1>3. proc[p].then \in {"off", "run", "record", "install", "unlink"}
      /\ (proc[p].then \in {"run", "record", "install"} => proc[p].key \in Keys)
      /\ proc[p].env \in EnvKeys \cup {NoKey}
  BY <1>1 DEF Shape, At
<1>4. Becomes(p, q)
  BY DEF IndexKey
<1> HIDE DEF q
<1>5. Moves(p) /\ proc'[p] = q
  BY <1>2, <1>3, <1>4, NewMoves
<1> QED BY <1>2, <1>5

LEMMA IndexBase ==
  ASSUME Base, NEW p \in Procs, IndexKey(p), UNCHANGED <<slot, evidence>>
  PROVE  Base'
<1>1. /\ At(p, "index") /\ index' = proc[p].idx
      /\ UNCHANGED <<slots, record, vault, sealed, history, outside, slot, evidence>>
  BY DEF IndexKey
<1>2. proc[p].idx \in [Keys -> Custodies \cup {"none"}] /\ Small(proc[p].idx)
      /\ \A k \in Keys : proc[p].idx[k] # "none" => <<k, proc[p].idx[k]>> \in vault
  BY <1>1, BaseParts DEF Proc, Ahead
<1>3. SharedTyped'
  BY <1>1, <1>2, BaseParts DEF SharedTyped, Small, slots, history, outside
<1>4. IndexedKeysAreHeld'
  BY <1>1, <1>2 DEF IndexedKeysAreHeld, Indexed
<1> QED BY <1>1, <1>3, <1>4, IndexMoves, MovesKeepBase

LEMMA RecordMoves ==
  ASSUME Base, NEW p \in Procs, RecordKey(p)
  PROVE  /\ Moves(p) /\ At(p, "record") /\ proc[p].key \in Keys
         /\ record' = proc[p].key /\ astray' = astray \ {proc[p].key}
         /\ \/ proc[p].then = "off" /\ proc'[p] = Off
            \/ /\ proc[p].then \in {"run", "record"}
               /\ proc'[p].pc = "run" /\ proc'[p].key = proc[p].key
               /\ proc'[p].retired = proc[p].retired \ {proc[p].key}
               /\ proc'[p].reach = proc[p].reach /\ proc'[p].then = "off"
<1>1. proc[p] \in Proc /\ Shape(p) /\ At(p, "record")
  BY BaseParts DEF RecordKey
<1>2. proc[p].key \in Keys /\ proc[p].retired \in SUBSET Keys
      /\ proc[p].then \in {"off", "run", "record"}
  BY <1>1 DEF Shape, At, Proc
<1>3. CASE proc[p].then = "off"
  <2>1. Becomes(p, Off)
    BY <1>3 DEF RecordKey
  <2> QED BY <1>1, <1>2, <1>3, <2>1, BaseParts, OffFields, Becoming, OffMoves DEF RecordKey
<1>4. CASE proc[p].then \in {"run", "record"}
  <2>1. Runs(p, proc[p].key, proc[p].retired)
    BY <1>4 DEF RecordKey
  <2> QED BY <1>1, <1>2, <1>4, <2>1, RunsMoves DEF RecordKey
<1> QED BY <1>2, <1>3, <1>4

LEMMA RecordBase ==
  ASSUME Base, NEW p \in Procs, RecordKey(p), UNCHANGED <<slot, evidence>>
  PROVE  Base'
<1>1. /\ Moves(p) /\ record' \in Keys /\ astray' \subseteq astray
      /\ UNCHANGED <<slots, index, vault, sealed, lost, raced, outside, slot, evidence>>
  BY RecordMoves DEF RecordKey, retirement
<1>2. SharedTyped' /\ IndexedKeysAreHeld'
  BY <1>1, BaseParts
     DEF SharedTyped, IndexedKeysAreHeld, Indexed, Small, slots, outside, MaybeKey
<1> QED BY <1>1, <1>2, MovesKeepBase

LEMMA AppRecordBase ==
  ASSUME Base, NEW p \in Procs, AppRecord(p), UNCHANGED <<slot, evidence>>
  PROVE  Base' /\ Moves(p) /\ Elsewhere(p, "run") /\ proc'[p].key = proc[p].key
<1>1. At(p, "record") /\ proc[p].key \in Keys /\ GoTo(p, "run")
  BY BaseParts DEF AppRecord, Shape, At
<1>2. Moves(p) /\ Elsewhere(p, "run") /\ proc'[p].key = proc[p].key
  BY <1>1, GoToMoves DEF Places
<1>3. /\ record' \in MaybeKey /\ astray' \subseteq Keys
      /\ UNCHANGED <<slots, index, vault, sealed, lost, raced, outside, slot, evidence>>
  BY <1>1, BaseParts DEF AppRecord, SharedTyped, MaybeKey, retirement
<1>4. SharedTyped' /\ IndexedKeysAreHeld'
  BY <1>3, BaseParts DEF SharedTyped, IndexedKeysAreHeld, Indexed, Small, slots, outside
<1> QED BY <1>2, <1>3, <1>4, MovesKeepBase

(* A command begins: it retires keys, and may leave a record it cannot see. *)
CommandStarts(p) ==
  /\ Command(p) /\ At(p, "off")
  /\ Moves(p)
  /\ proc'[p].pc = "retire" /\ proc'[p].then \in {"off", "install", "unlink"}
  /\ astray \subseteq astray' /\ astray' \subseteq Keys

LEMMA CommandStartsBase ==
  ASSUME Base, NEW p \in Procs, CommandStarts(p), UNCHANGED <<slot, evidence>>
  PROVE  Base'
<1>1. /\ Moves(p) /\ astray' \subseteq Keys /\ commands < MaxCommands /\ commands' = commands + 1
      /\ UNCHANGED <<slots, record, index, vault, sealed, lost, raced, starts, losses, slot, evidence>>
  BY DEF CommandStarts, Command, retirement
<1>2. commands' \in 0..MaxCommands
  BY <1>1, BaseParts, CustodyAssumption DEF SharedTyped
<1>3. SharedTyped' /\ IndexedKeysAreHeld'
  BY <1>1, <1>2, BaseParts DEF SharedTyped, IndexedKeysAreHeld, Indexed, Small, slots
<1> QED BY <1>1, <1>3, MovesKeepBase

(* What a command that installs key k starts with. *)
LEMMA PlanStarts ==
  ASSUME Base, NEW p \in Procs, Command(p), NEW shell \in Shells, NEW k \in Keys,
         NEW extra \in SUBSET Keys, Plan(p, InShell(shell), k, extra)
  PROVE  /\ CommandStarts(p)
         /\ proc'[p].then = "install" /\ proc'[p].key = k
         /\ ({record} \cap Live(InShell(shell))) \ {k} \subseteq proc'[p].todo
         /\ astray' = astray \cup (({record} \cap Keys) \ (Live(InShell(shell)) \cup Indexed \cup {k}))
<1> DEFINE s == InShell(shell)
           todo == ((Superseded(s) \cup extra) \cap Keys) \ {k}
           q == [Doing(s, "retire") EXCEPT !.key = k, !.todo = todo, !.prefer = TRUE,
                                           !.then = "install"]
<1>1. s.reach \in BOOLEAN
  BY OffFields DEF Shells, InShell, Proc
<1>2. todo \in SUBSET Keys /\ ({record} \cap Live(s)) \ {k} \subseteq todo
  BY CandidatesAreKeys DEF Superseded
<1> HIDE DEF s, todo
<1>3. q \in Proc /\ q.pc = "retire" /\ q.key = k /\ q.todo = todo /\ q.then = "install"
      /\ q.env = NoKey
  BY <1>1, <1>2, OffFields DEF Doing, Proc, Places, MaybeKey
<1>4. Becomes(p, q)
      /\ astray' = astray \cup (({record} \cap Keys) \ (Live(s) \cup Indexed \cup {k}))
  BY DEF Plan, s, todo
<1> HIDE DEF q
<1>5. Moves(p) /\ proc'[p] = q
  BY <1>3, <1>4, NewMoves
<1>6. astray \subseteq astray' /\ astray' \subseteq Keys
  BY <1>4, BaseParts DEF SharedTyped
<1>7. At(p, "off")
  BY DEF Command
<1> QED BY <1>2, <1>3, <1>4, <1>5, <1>6, <1>7 DEF CommandStarts, s

LEMMA AdoptStarts ==
  ASSUME Base, NEW p \in Procs, AdoptKey(p)
  PROVE  \E shell \in Shells, k \in Keys, extra \in SUBSET Keys :
           Plan(p, InShell(shell), k, extra)
<1>1. PICK shell \in Shells : \E k \in Adoptable(InShell(shell)) : Plan(p, InShell(shell), k, {})
  BY DEF AdoptKey
<1>2. Adoptable(InShell(shell)) \subseteq Keys
  BY CandidatesAreKeys DEF Adoptable
<1> QED BY <1>1, <1>2

(* A command that installs nothing starts with keys to retire. *)
LEMMA RetiringStarts ==
  ASSUME Base, NEW p \in Procs, Command(p), NEW shell \in Shells, NEW todo \in SUBSET Keys,
         NEW k \in MaybeKey, NEW source \in {"env", "file"}, NEW then \in {"off", "unlink"},
         UNCHANGED astray, NEW q,
         q = [Doing(InShell(shell), "retire") EXCEPT !.todo = todo, !.prefer = TRUE, !.key = k,
                                                     !.source = source, !.then = then],
         Becomes(p, q)
  PROVE  CommandStarts(p) /\ proc'[p].then = then
<1>1. InShell(shell).reach \in BOOLEAN
  BY OffFields DEF Shells, InShell, Proc
<1>2. q \in Proc /\ q.pc = "retire" /\ q.then = then /\ q.env = NoKey
  BY <1>1, OffFields DEF Doing, Proc, Places, MaybeKey
<1>3. Moves(p) /\ proc'[p] = q
  BY <1>2, NewMoves
<1>4. At(p, "off") /\ astray' \subseteq Keys
  BY BaseParts DEF Command, SharedTyped
<1> QED BY <1>2, <1>3, <1>4 DEF CommandStarts

(* What begins a command: a plan to install a key, or keys to retire. *)
Begins(p) ==
  \/ \E shell \in Shells, k \in Keys, extra \in SUBSET Keys : Plan(p, InShell(shell), k, extra)
  \/ /\ CommandStarts(p) /\ UNCHANGED astray
     /\ proc'[p].then \in {"off", "unlink"}

LEMMA CommandBegins ==
  ASSUME Base, NEW p \in Procs, AdoptKey(p) \/ ImportKeys(p) \/ RetireCommand(p)
  PROVE  Begins(p)
<1>1. CASE AdoptKey(p)
  BY <1>1, AdoptStarts DEF Begins
<1>2. CASE ImportKeys(p)
  <2>1. PICK shell \in Shells, k \in Keys, extra \in {{}} \cup {{e} : e \in Keys} :
          \/ /\ Becomes(p, [Doing(InShell(shell), "retire") EXCEPT !.todo = extra \ {k},
                                                                   !.prefer = TRUE])
             /\ UNCHANGED astray
          \/ Plan(p, InShell(shell), k, extra)
    BY <1>2 DEF ImportKeys
  <2>2. extra \in SUBSET Keys /\ extra \ {k} \in SUBSET Keys
    OBVIOUS
  <2>3. CASE Becomes(p, [Doing(InShell(shell), "retire") EXCEPT !.todo = extra \ {k},
                                                                !.prefer = TRUE])
             /\ UNCHANGED astray
    <3> DEFINE q == [Doing(InShell(shell), "retire") EXCEPT !.todo = extra \ {k}, !.prefer = TRUE]
    <3>1. q = [Doing(InShell(shell), "retire") EXCEPT !.todo = extra \ {k}, !.prefer = TRUE,
                                           !.key = NoKey, !.source = "file", !.then = "off"]
      BY OffFields DEF Doing, Proc
    <3>2. Command(p) /\ NoKey \in MaybeKey
      BY <1>2 DEF ImportKeys, MaybeKey
    <3>3. Becomes(p, q)
      BY <2>3
    <3> HIDE DEF q
    <3> QED BY <2>2, <2>3, <3>1, <3>2, <3>3, RetiringStarts DEF Begins
  <2> QED BY <2>1, <2>2, <2>3 DEF Begins
<1>3. CASE RetireCommand(p)
  <2>1. PICK shell \in Shells : \E k \in Live(InShell(shell)) \ {record} :
          Becomes(p, [Doing(InShell(shell), "retire") EXCEPT
                        !.todo = {k}, !.prefer = TRUE, !.key = k,
                        !.source = IF InShell(shell).env = k THEN "env" ELSE "file",
                        !.then = "unlink"])
    BY <1>3 DEF RetireCommand
  <2>2. PICK k \in Live(InShell(shell)) :
          Becomes(p, [Doing(InShell(shell), "retire") EXCEPT
                        !.todo = {k}, !.prefer = TRUE, !.key = k,
                        !.source = IF InShell(shell).env = k THEN "env" ELSE "file",
                        !.then = "unlink"])
    BY <2>1
  <2>3. k \in Keys /\ k \in MaybeKey /\ Command(p) /\ UNCHANGED astray
    BY <1>3, CandidatesAreKeys DEF MaybeKey, RetireCommand
  <2> DEFINE source == IF InShell(shell).env = k THEN "env" ELSE "file"
             q == [Doing(InShell(shell), "retire") EXCEPT
                     !.todo = {k}, !.prefer = TRUE, !.key = k, !.source = source, !.then = "unlink"]
  <2>4. source \in {"env", "file"} /\ {k} \in SUBSET Keys
    BY <2>3
  <2>5. Becomes(p, q)
    BY <2>2
  <2> HIDE DEF source
  <2>6. q = [Doing(InShell(shell), "retire") EXCEPT
                     !.todo = {k}, !.prefer = TRUE, !.key = k, !.source = source, !.then = "unlink"]
    OBVIOUS
  <2> HIDE DEF q
  <2> QED BY <2>3, <2>4, <2>5, <2>6, RetiringStarts DEF Begins
<1> QED BY <1>1, <1>2, <1>3

LEMMA CommandBase ==
  ASSUME Base, NEW p \in Procs, AdoptKey(p) \/ ImportKeys(p) \/ RetireCommand(p),
         UNCHANGED <<slot, evidence>>
  PROVE  Base' /\ CommandStarts(p)
<1>1. Command(p) /\ Begins(p)
  BY CommandBegins DEF AdoptKey, ImportKeys, RetireCommand
<1>2. CommandStarts(p)
  BY <1>1, PlanStarts DEF Begins
<1> QED BY <1>2, CommandStartsBase

(* A key goes to a slot, to be recorded next, or nowhere. *)
LEMMA InstallMoves ==
  ASSUME Base, NEW p \in Procs, InstallKey(p)
  PROVE  /\ Moves(p) /\ At(p, "install") /\ proc[p].key \in Keys
         /\ UNCHANGED <<legacy, record, retirement, sealed, history, outside>>
         /\ \/ /\ proc'[p].pc = "record" /\ proc'[p].key = proc[p].key /\ proc'[p].then = "off"
               /\ \/ chain' = proc[p].key /\ UNCHANGED file
                  \/ file' = proc[p].key /\ UNCHANGED chain
            \/ proc'[p] = Off /\ UNCHANGED <<chain, file>>
<1> DEFINE q == [Doing(proc[p], "record") EXCEPT !.key = proc[p].key]
<1>1. At(p, "install") /\ proc[p].key \in Keys /\ proc[p] \in Proc
  BY BaseParts DEF InstallKey, Shape, At
<1>2. proc[p].reach \in BOOLEAN
  BY <1>1 DEF Proc
<1>3. q \in Proc /\ q.pc = "record" /\ q.key = proc[p].key /\ q.then = "off" /\ q.env = NoKey
  BY <1>1, <1>2, OffFields DEF Doing, Proc, Places, MaybeKey
<1>4. /\ UNCHANGED <<legacy, record, retirement, sealed, history, outside>>
      /\ \/ /\ Becomes(p, q)
            /\ \/ chain' = proc[p].key /\ UNCHANGED file
               \/ file' = proc[p].key /\ UNCHANGED chain
         \/ Becomes(p, Off) /\ UNCHANGED <<chain, file>>
  BY DEF InstallKey
<1> HIDE DEF q
<1>5. CASE Becomes(p, q) /\ (\/ chain' = proc[p].key /\ UNCHANGED file
                             \/ file' = proc[p].key /\ UNCHANGED chain)
  <2>1. Moves(p) /\ proc'[p] = q
    BY <1>1, <1>3, <1>5, NewMoves
  <2> QED BY <1>1, <1>3, <1>4, <1>5, <2>1
<1>6. CASE Becomes(p, Off) /\ UNCHANGED <<chain, file>>
  <2>1. Moves(p) /\ proc'[p] = Off
    BY <1>6, OffMoves, BaseParts, OffFields, Becoming
  <2> QED BY <1>1, <1>4, <1>6, <2>1
<1> QED BY <1>4, <1>5, <1>6

LEMMA InstallBase ==
  ASSUME Base, NEW p \in Procs, InstallKey(p), UNCHANGED <<slot, evidence>>
  PROVE  Base'
<1>1. Moves(p) /\ proc[p].key \in Slot
  BY InstallMoves DEF Slot, MaybeKey
<1>2. UNCHANGED <<Settled, starts, raced, legacy, evidence>>
      /\ chain' \in {chain, proc[p].key} /\ file' \in {file, proc[p].key}
  BY DEF InstallKey, Settled, retirement, history, outside
<1>3. chain' \in Slot /\ file' \in Slot /\ legacy' \in MaybeKey /\ starts' \in Nat
      /\ raced' \in BOOLEAN /\ evidence' \in BOOLEAN
  BY <1>1, <1>2, BaseParts DEF SharedTyped
<1> QED BY <1>1, <1>2, <1>3, SettledKeepsBase

LEMMA UnlinkBase ==
  ASSUME Base, NEW p \in Procs, Unlink(p), UNCHANGED <<slot, evidence>>
  PROVE  Base'
<1>1. Moves(p)
  BY OffMoves DEF Unlink
<1>2. UNCHANGED <<Settled, starts, raced, chain, evidence>>
      /\ file' \in {file, NoKey} /\ legacy' \in {legacy, NoKey}
  BY DEF Unlink, Settled, retirement, history, outside
<1>3. chain' \in Slot /\ file' \in Slot /\ legacy' \in MaybeKey /\ starts' \in Nat
      /\ raced' \in BOOLEAN /\ evidence' \in BOOLEAN
  BY <1>2, BaseParts DEF SharedTyped, Slot, MaybeKey
<1> QED BY <1>1, <1>2, <1>3, SettledKeepsBase

LEMMA StopBase ==
  ASSUME Base, NEW p \in Procs, Stop(p), UNCHANGED <<slot, evidence>>
  PROVE  Base'
<1>1. Moves(p)
  BY OffMoves DEF Stop
<1>2. UNCHANGED <<Settled, slots, starts, raced, evidence>>
  BY DEF Stop, Settled, retirement, history, outside
<1>3. chain' \in Slot /\ file' \in Slot /\ legacy' \in MaybeKey /\ starts' \in Nat
      /\ raced' \in BOOLEAN /\ evidence' \in BOOLEAN
  BY <1>2, BaseParts DEF SharedTyped, slots
<1> QED BY <1>1, <1>2, <1>3, SettledKeepsBase

(* Steps of no process. *)
LEMMA SharedKeepsBase ==
  ASSUME Base, UNCHANGED <<proc, vault, index>>, SharedTyped'
  PROVE  Base'
<1>1. IndexedKeysAreHeld' /\ \A p \in Procs : Shape(p)' /\ Ahead(p)'
  BY DEF Base, IndexedKeysAreHeld, Indexed, Shape, Ahead, At, Small
<1> QED BY <1>1, BaseParts DEF Base, Typed, TypeOK, SharedTyped, Small, Indexed

LEMMA SealBase ==
  ASSUME Base, NEW p \in Procs, Seal(p), UNCHANGED slot, evidence' \in BOOLEAN
  PROVE  Base'
<1>1. At(p, "run") /\ proc[p].key \in Keys
  BY BaseParts DEF Seal, Shape, At
<1>2. /\ UNCHANGED <<slots, record, index, vault, proc, lost, raced, outside, slot>>
      /\ sealed' \subseteq Keys /\ astray' \subseteq Keys
  BY <1>1, BaseParts DEF Seal, SharedTyped, retirement
<1>3. SharedTyped'
  BY <1>2, BaseParts DEF SharedTyped, Small, slots, outside
<1> QED BY <1>2, <1>3, SharedKeepsBase

LEMMA LoseBase ==
  ASSUME Base, LoseEntry, UNCHANGED <<slot, evidence>>
  PROVE  Base'
<1>1. /\ UNCHANGED <<file, legacy, record, index, vault, sealed, proc, raced, astray, starts,
                     commands, slot, evidence>>
      /\ chain \in Keys /\ chain' = NoKey /\ lost' = lost \cup {chain}
      /\ losses < MaxLosses /\ losses' = losses + 1
  BY DEF LoseEntry, retirement
<1>2. losses' \in 0..MaxLosses
  BY <1>1, BaseParts, CustodyAssumption DEF SharedTyped
<1>3. SharedTyped'
  BY <1>1, <1>2, BaseParts DEF SharedTyped, Small, Slot, MaybeKey
<1> QED BY <1>1, <1>3, SharedKeepsBase

LEMMA HostInitBase == HostInit => Base
<1> SUFFICES ASSUME HostInit PROVE Base
  OBVIOUS
<1>1. {k \in Keys : index[k] # "none"} = {} /\ index \in [Keys -> Custodies \cup {"none"}]
  BY DEF HostInit, Init
<1>2. Small(index)
  BY <1>1, FS_EmptySet, CustodyAssumption DEF Small
<1>3. SharedTyped
  <2>1. sealed \subseteq Keys
    BY DEF HostInit, Init
  <2>2. slot \in {"master", "app"} /\ evidence \in BOOLEAN
    BY DEF HostInit
  <2>3. starts \in Nat /\ commands \in 0..MaxCommands /\ losses \in 0..MaxLosses
    BY CustodyAssumption DEF HostInit, Init
  <2>4. /\ chain \in Slot /\ file \in Slot /\ legacy \in MaybeKey /\ record \in MaybeKey
        /\ vault = {} /\ astray = sealed /\ lost = {} /\ raced = FALSE
    BY DEF HostInit, Init, MaybeKey
  <2> QED BY <1>1, <1>2, <2>1, <2>2, <2>3, <2>4 DEF SharedTyped
<1>4. IndexedKeysAreHeld
  BY <1>1 DEF IndexedKeysAreHeld, Indexed
<1>5. proc \in [Procs -> Proc] /\ \A p \in Procs : proc[p] = Off
  BY OffFields DEF HostInit, Init
<1>6. \A p \in Procs : Shape(p) /\ Ahead(p)
  BY <1>5, OffFields DEF Shape, Ahead, At
<1> QED BY <1>3, <1>4, <1>5, <1>6, BaseParts

LEMMA BaseStep == Base /\ [HostNext]_hostVars => Base'
<1> SUFFICES ASSUME Base, [HostNext]_hostVars PROVE Base'
  OBVIOUS
<1>1. CASE UNCHANGED hostVars
  <2>1. UNCHANGED <<proc, vault, index>> /\ SharedTyped'
    BY <1>1, BaseParts
       DEF hostVars, vars, slots, retirement, history, outside, SharedTyped, Small
  <2> QED BY <2>1, SharedKeepsBase
<1>2. CASE slot = "master" /\ Next /\ UNCHANGED <<slot, evidence>>
  <2>1. evidence' \in BOOLEAN
    BY <1>2, BaseParts DEF SharedTyped
  <2>2. ASSUME NEW p \in Procs, Resolve(p) PROVE Base'
    BY <1>2, <2>2, StartBase, FindKeyBase, FillBase, RefuseBase, StoreBase, VerifyBase,
       PublishBase, CheckBase DEF Resolve
  <2>3. ASSUME NEW p \in Procs, CommandStep(p) PROVE Base'
    BY <1>2, <2>3, CommandBase, InstallBase, UnlinkBase DEF CommandStep
  <2>4. ASSUME NEW p \in Procs, RetireKey(p) \/ IndexKey(p) \/ RecordKey(p) \/ Seal(p) \/ Stop(p)
        PROVE  Base'
    BY <1>2, <2>1, <2>4, RetireBase, IndexBase, RecordBase, SealBase, StopBase
  <2> QED BY <1>2, <2>2, <2>3, <2>4, LoseBase DEF Next
<1>3. CASE slot = "app" /\ AppNext /\ UNCHANGED slot
  <2>1. AppProc \in Procs
    BY AppKeyAssumption
  <2>2. CASE AppSeals(AppProc)
    <3>1. evidence' \in BOOLEAN
      BY <2>2, BaseParts DEF AppSeals, SharedTyped
    <3> QED BY <1>3, <2>1, <2>2, <3>1, SealBase DEF AppSeals
  <2>3. CASE UNCHANGED evidence /\ ~AppSeals(AppProc)
    BY <1>3, <2>1, <2>3, StartBase, FindKeyBase, FillBase, RefuseBase, StoreBase, VerifyBase,
       PublishBase, AppCheckBase, AppRecordBase, StopBase, LoseBase DEF AppNext
  <2> QED BY <1>3, <2>2, <2>3 DEF AppNext
<1> QED BY <1>1, <1>2, <1>3 DEF HostNext

LEMMA BaseHolds == HostSpec => []Base
BY HostInitBase, BaseStep, PTL DEF HostSpec

(* Every variable keeps its type, and the index its limit. *)
THEOREM CustodyTypeCorrect == HostSpec => []TypeOK
<1>1. Base => TypeOK
  BY DEF Base, Typed
<1> QED BY <1>1, BaseHolds, PTL

(* RetiredVault::retire: an index entry names a key the vault holds. *)
THEOREM IndexNamesHeldKeys == HostSpec => []IndexedKeysAreHeld
<1>1. Base => IndexedKeysAreHeld
  BY DEF Base
<1> QED BY <1>1, BaseHolds, PTL

-----------------------------------------------------------------------------
(* The master key.  A keys command in one of its writes. *)
Commands(p) ==
  /\ proc[p].pc \in {"retire", "index", "install", "record", "unlink"}
  /\ proc[p].then \notin {"run", "record"}

Early(p) == proc[p].pc \in {"ladder", "store", "verify", "publish", "check"}

(* A resolution that will record its key, and one that uses the recorded.  *)
Records(p) ==
  \/ At(p, "record") /\ proc[p].then \in {"run", "record"}
  \/ proc[p].pc \in {"retire", "index"} /\ proc[p].then = "record"

Uses(p) == At(p, "run") \/ (proc[p].pc \in {"retire", "index"} /\ proc[p].then = "run")

(* Entrusted keys that are no longer the recorded one. *)
Elders == Entrusted \ {record}

Opens(p) ==
  \A k \in Elders :
    (proc[p].reach \/ index[k] = "file") => k \in {proc[p].key} \cup proc[p].retired

(* The owner has read the record as it is, and runs with it. *)
FollowsRecord(p) ==
  /\ Records(p) => p \in Recorders /\ record = NoKey
  /\ p \in Recorders =>
       /\ Early(p) => proc[p].seen = record
       /\ Uses(p) => proc[p].key = record /\ Opens(p)

(* No index that is about to be written drops an elder. *)
KeepsElders(p) == At(p, "index") => \A k \in Elders : proc[p].idx[k] = index[k]

(* A command replaces the recorded key only when it has been retired. *)
RetiresFirst(p) ==
  Commands(p) =>
    /\ (proc[p].pc \in {"install", "record"} \/ proc[p].then = "install") /\ record \in Keys =>
         record \in astray \cup Indexed \cup {proc[p].key}
                      \cup IF proc[p].pc \in {"retire", "index"} THEN proc[p].todo ELSE {}
    /\ At(p, "index") => \A k \in Indexed : proc[p].idx[k] = index[k]
    /\ At(p, "record") => proc[p].key \in {chain, file} \cup lost

(* Keys in a slot, and those the keychain lost: resolution only adds. *)
Stable == {chain, file, legacy} \cup lost

Safe(k) == Held(k) \/ k \in lost \cup EnvKeys

(* What a place says as long as no two processes filled custody at once. *)
Unraced(p) ==
  LET q == proc[p]
  IN  /\ q.pc = "check" => IF q.source = "env" THEN q.key \in EnvKeys ELSE q.key \in Stable
      /\ Records(p) => Safe(q.key)
      /\ q.pc = "store" => chain = NoKey
      /\ q.pc \in {"retire", "index"} /\ q.then \in {"run", "record"} => q.todo \subseteq Stable
      /\ q.pc = "index" /\ q.then \in {"run", "record"} =>
           \A k \in Keys \ Stable : q.idx[k] = index[k]

Place(p) == FollowsRecord(p) /\ KeepsElders(p) /\ RetiresFirst(p) /\ (~raced => Unraced(p))

Alone == \A p \in Procs : Commands(p) => \A o \in Procs \ {p} : At(o, "off")

EldersRetired == (record = NoKey => Entrusted = {}) /\ Elders \subseteq Indexed

RecordSafe == ~raced /\ record \in Keys => Safe(record) \/ record \in astray

OneStores == ~raced => \A p, o \in Procs : At(p, "store") /\ At(o, "store") => p = o

CustodyInv == Alone /\ EldersRetired /\ RecordSafe /\ OneStores /\ \A p \in Procs : Place(p)

LEMMA CustodyInvImplies ==
  ASSUME Base, CustodyInv
  PROVE  SealingKeysAreHeld /\ OwnerUsesRecordedKey /\ OwnerOpensAll
<1>1. SealingKeysAreHeld
  <2>1. SUFFICES ASSUME ~raced, NEW k \in Entrusted PROVE Held(k)
    BY DEF SealingKeysAreHeld
  <2>2. k \in Keys /\ k \notin lost \cup EnvKeys \cup astray
    BY BaseParts DEF Entrusted, SharedTyped
  <2>3. CASE k = record
    BY <2>1, <2>2, <2>3 DEF CustodyInv, RecordSafe, Safe
  <2>4. CASE k # record
    BY <2>4, BaseParts DEF CustodyInv, EldersRetired, Elders, Held, IndexedKeysAreHeld
  <2> QED BY <2>3, <2>4
<1>2. OwnerUsesRecordedKey
  BY CustodyAssumption DEF OwnerUsesRecordedKey, CustodyInv, Place, FollowsRecord, Uses
<1>3. OwnerOpensAll
  BY <1>2, CustodyAssumption
     DEF OwnerOpensAll, OwnerUsesRecordedKey, CustodyInv, Place, FollowsRecord, Uses, Opens, Elders
<1> QED BY <1>1, <1>2, <1>3

(* A step that takes no key from where it lies. *)
Grows ==
  /\ record' = record
  /\ Entrusted' \subseteq Entrusted \cup ({record} \cap Keys) /\ astray \subseteq astray'
  /\ \A k \in Elders : index'[k] = index[k]
  /\ raced => raced'
  /\ ~raced' => \A k \in Keys :
       /\ k \in Stable => k \in Stable'
       /\ Safe(k) => Safe(k)'
       /\ index'[k] = index[k] \/ k \in Stable

(* Resolution of one process leaves the others' places as they were. *)
LEMMA OthersKeepPlace ==
  ASSUME Base, Grows, NEW o \in Procs, proc'[o] = proc[o], Place(o),
         Commands(o) => RetiresFirst(o)',
         ~raced' /\ At(o, "store") => chain' \in {chain, NoKey}
  PROVE  Place(o)'
<1>1. proc[o] \in Proc /\ Shape(o)
  BY BaseParts
<1>2. Elders' \subseteq Elders
  BY DEF Elders, Grows
<1>3. FollowsRecord(o)'
  BY <1>2 DEF Grows, Place, FollowsRecord, Records, Early, Uses, Opens, At
<1>4. KeepsElders(o)'
  BY <1>2 DEF Grows, Place, KeepsElders, At
<1>5. RetiresFirst(o)'
  BY DEF Commands, RetiresFirst
<1>6. ASSUME ~raced' PROVE Unraced(o)'
  <2>1. Unraced(o)
    BY <1>6 DEF Grows, Place
  <2>2. \A k \in Keys :
          /\ k \in Stable => k \in Stable'
          /\ Safe(k) => Safe(k)'
          /\ index'[k] = index[k] \/ k \in Stable
    BY <1>6 DEF Grows
  <2>3. (At(o, "check") \/ Records(o) => proc[o].key \in Keys) /\ proc[o].todo \subseteq Keys
    BY <1>1 DEF Shape, Records, At, Proc
  <2>4. Records(o)' <=> Records(o)
    BY DEF Records, At
  <2>5. At(o, "store") => chain' = NoKey
    BY <1>6, <2>1 DEF Unraced, At
  <2>6. At(o, "check") => IF proc[o].source = "env" THEN proc[o].key \in EnvKeys
                                                    ELSE proc[o].key \in Stable'
    BY <2>1, <2>2, <2>3 DEF Unraced, At
  <2>7. Records(o) => Safe(proc[o].key)'
    BY <2>1, <2>2, <2>3 DEF Unraced
  <2>8. proc[o].pc \in {"retire", "index"} /\ proc[o].then \in {"run", "record"} =>
          proc[o].todo \subseteq Stable'
    BY <2>1, <2>2, <2>3 DEF Unraced
  <2>9. At(o, "index") /\ proc[o].then \in {"run", "record"} =>
          \A k \in Keys : k \in Stable' \/ proc[o].idx[k] = index'[k]
    BY <2>1, <2>2 DEF Unraced, At
  <2> QED BY <2>4, <2>5, <2>6, <2>7, <2>8, <2>9 DEF Unraced, At
<1> QED BY <1>3, <1>4, <1>5, <1>6 DEF Place

LEMMA GrowthKeepsRecord ==
  ASSUME Base, CustodyInv, Grows
  PROVE  EldersRetired' /\ RecordSafe'
<1>1. EldersRetired'
  BY CustodyAssumption DEF CustodyInv, EldersRetired, Grows, Elders, Indexed
<1>2. RecordSafe'
  BY DEF CustodyInv, RecordSafe, Grows
<1> QED BY <1>1, <1>2

(* A step of one process that runs no command. *)
LEMMA ResolutionKeepsInv ==
  ASSUME Base, CustodyInv, NEW p \in Procs, Moves(p), Grows,
         \A o \in Procs \ {p} : ~Commands(o),
         ~Commands(p)',
         FollowsRecord(p)', KeepsElders(p)', ~raced' => Unraced(p)',
         ~raced' => \A o \in Procs \ {p} : At(o, "store") => chain' = chain /\ proc'[p].pc # "store"
  PROVE  CustodyInv'
<1>1. ASSUME NEW o \in Procs \ {p} PROVE Place(o)' /\ proc'[o] = proc[o]
  BY OthersKeepPlace DEF CustodyInv, Moves
<1>2. Place(p)'
  BY DEF Place, RetiresFirst
<1>3. Alone'
  BY <1>1 DEF Alone, Commands
<1>4. OneStores'
  BY <1>1 DEF OneStores, CustodyInv, At, Grows
<1> QED BY <1>1, <1>2, <1>3, <1>4, GrowthKeepsRecord DEF CustodyInv

LEMMA QuietGrows ==
  ASSUME UNCHANGED <<slots, record, retirement, sealed, lost, astray>>, raced => raced'
  PROVE  Grows /\ Elders' = Elders /\ Stable' = Stable
         /\ (\A k : Held(k)' <=> Held(k)) /\ (\A k : Safe(k)' <=> Safe(k))
<1>1. UNCHANGED <<chain, file, legacy, record, index, vault, sealed, lost, astray>>
  BY DEF slots, retirement
<1>2. (\A k : Held(k)' <=> Held(k)) /\ Stable' = Stable /\ Entrusted' = Entrusted
  BY <1>1 DEF Held, Indexed, Stable, Entrusted
<1> QED BY <1>1, <1>2 DEF Grows, Safe, Elders

LEMMA NoOtherCommands ==
  ASSUME CustodyInv, NEW p \in Procs, ~At(p, "off")
  PROVE  \A o \in Procs \ {p} : ~Commands(o)
BY DEF CustodyInv, Alone

(* Every key a process can open with is safe. *)
LEMMA CandidatesAreSafe ==
  ASSUME Base, NEW p \in Procs, NEW k \in candidates(proc[p])
  PROVE  Safe(k)
<1>1. proc[p].env \in EnvKeys \cup {NoKey} /\ k \in Keys
  BY BaseParts, CandidatesAreKeys DEF Shape
<1> QED BY <1>1, CustodyAssumption
        DEF candidates, Live, Retired, Safe, Held, Indexed

LEMMA StartKeeps ==
  ASSUME Base, CustodyInv, NEW p \in Procs, Start(p)
  PROVE  CustodyInv'
<1>1. PICK env \in EnvKeys \cup {NoKey}, reach \in BOOLEAN :
        Becomes(p, [Off EXCEPT !.pc = "ladder", !.env = env, !.reach = reach, !.seen = record])
  BY DEF Start
<1> DEFINE q == [Off EXCEPT !.pc = "ladder", !.env = env, !.reach = reach, !.seen = record]
<1>2. env \in MaybeKey /\ record \in MaybeKey
  BY BaseParts, CustodyAssumption DEF SharedTyped, MaybeKey
<1>3. q \in Proc /\ q.pc = "ladder" /\ q.env = env /\ q.seen = record
  BY <1>2, OffFields DEF Proc, Places
<1>4. Becomes(p, q)
  BY <1>1
<1> HIDE DEF q
<1>5. Moves(p) /\ proc'[p] = q
  BY <1>3, <1>4, NewMoves
<1>6. UNCHANGED <<slots, record, retirement, sealed, lost, astray, raced>>
  BY DEF Start, history
<1>7. Grows /\ record' = record
  BY <1>6, QuietGrows
<1>8. \A o \in Procs : ~Commands(o)
  BY DEF Start, Commanding, Resolving, Commands
<1>9. proc'[p].pc = "ladder" /\ proc'[p].seen = record
  BY <1>3, <1>5
<1>10. ~Commands(p)' /\ FollowsRecord(p)' /\ KeepsElders(p)' /\ Unraced(p)'
  BY <1>7, <1>9 DEF Commands, FollowsRecord, Records, Uses, KeepsElders, Unraced, At
<1>11. chain' = chain
  BY <1>6 DEF slots
<1> QED BY <1>5, <1>7, <1>8, <1>9, <1>10, <1>11, ResolutionKeepsInv

(* A process at rest holds no place of interest. *)
LEMMA OffPlace ==
  ASSUME NEW p, (proc[p].pc)' = "off"
  PROVE  /\ ~Commands(p)' /\ FollowsRecord(p)' /\ KeepsElders(p)' /\ RetiresFirst(p)'
         /\ Unraced(p)' /\ Place(p)'
BY DEF Commands, FollowsRecord, Records, Uses, Early, KeepsElders, RetiresFirst, Unraced, At, Place

LEMMA StopKeeps ==
  ASSUME Base, CustodyInv, NEW p \in Procs, Stop(p)
  PROVE  CustodyInv'
<1>1. Moves(p) /\ proc'[p].pc = "off"
  BY OffMoves, BaseParts, OffFields, Becoming DEF Stop
<1>2. UNCHANGED <<slots, record, retirement, sealed, lost, astray, raced>> /\ ~At(p, "off")
  BY DEF Stop, history
<1>3. Grows /\ chain' = chain
  BY <1>2, QuietGrows DEF slots
<1> QED BY <1>1, <1>2, <1>3, OffPlace, NoOtherCommands, ResolutionKeepsInv

(* What resolution finds in a slot. *)
LEMMA LegacyGrows ==
  ASSUME Base, UNCHANGED <<chain, file, record, retirement, sealed, history>>,
         legacy' = legacy \/ retire_matching_legacy_key
  PROVE  Grows /\ (chain \in Keys => chain \in Stable') /\ (file \in Keys => file \in Stable')
         /\ index' = index
<1>1. UNCHANGED <<chain, file, record, index, vault, sealed, lost, raced, astray>>
  BY DEF retirement, history
<1>2. \A k \in Keys : k \in {chain, file, legacy} => k \in {chain, file, legacy'}
  BY <1>1, CustodyAssumption DEF retire_matching_legacy_key
<1>3. \A k \in Keys : (k \in Stable => k \in Stable') /\ (Held(k) => Held(k)')
  BY <1>1, <1>2 DEF Stable, Held, Indexed
<1>4. \A k \in Keys : Safe(k) => Safe(k)'
  BY <1>1, <1>3 DEF Safe
<1>5. Entrusted' = Entrusted
  BY <1>1 DEF Entrusted
<1> QED BY <1>1, <1>3, <1>4, <1>5 DEF Grows, Stable

(* A process before its check, with a key that is safe where it is. *)
LEMMA FoundPlace ==
  ASSUME Base, CustodyInv, NEW p \in Procs, Early(p), record' = record,
         Elsewhere(p, "check"), 
         ~raced' => IF proc'[p].source = "env" THEN proc'[p].key \in EnvKeys
                                               ELSE proc'[p].key \in Stable'
  PROVE  ~Commands(p)' /\ FollowsRecord(p)' /\ KeepsElders(p)' /\ (~raced' => Unraced(p)')
BY DEF CustodyInv, Place, Elsewhere, Commands, FollowsRecord, Records, Uses, Early, KeepsElders,
       Unraced, At

LEMMA FindKeyKeeps ==
  ASSUME Base, CustodyInv, NEW p \in Procs, FindKey(p)
  PROVE  CustodyInv'
<1>1. UNCHANGED <<chain, file, record, retirement, sealed, history>>
      /\ (legacy' = legacy \/ retire_matching_legacy_key)
  BY DEF FindKey
<1>2. Grows /\ (chain \in Keys => chain \in Stable') /\ (file \in Keys => file \in Stable')
  BY <1>1, LegacyGrows
<1>3. PICK k \in Keys, source \in {"env", "keychain", "file"} :
        Found(p, k, source) /\ (IF source = "env" THEN k \in EnvKeys ELSE k \in {chain, file})
  BY BaseParts, CustodyAssumption DEF FindKey, Shape
<1>4. Moves(p) /\ Elsewhere(p, "check") /\ proc'[p].key = k /\ proc'[p].source = source
  BY <1>3, FoundMoves
<1>5. Early(p) /\ ~At(p, "off") /\ proc'[p].pc # "store"
  BY <1>4 DEF FindKey, At, Early, Elsewhere
<1>6. record' = record
  BY <1>1
<1>7. IF proc'[p].source = "env" THEN proc'[p].key \in EnvKeys ELSE proc'[p].key \in Stable'
  BY <1>2, <1>3, <1>4
<1>8. ~Commands(p)' /\ FollowsRecord(p)' /\ KeepsElders(p)' /\ (~raced' => Unraced(p)')
  BY <1>4, <1>5, <1>6, <1>7, FoundPlace
<1>9. \A o \in Procs \ {p} : ~Commands(o)
  BY <1>5, NoOtherCommands
<1> QED BY <1>1, <1>2, <1>4, <1>5, <1>8, <1>9, ResolutionKeepsInv

LEMMA FillKeeps ==
  ASSUME Base, CustodyInv, NEW p \in Procs, FillCustody(p)
  PROVE  CustodyInv'
<1>1. PICK k \in Keys, place \in {"store", "publish"} :
        proc' = [proc EXCEPT ![p].pc = place, ![p].key = k] /\ Fills(p, place)
        /\ (place = "store" => chain = NoKey)
  BY FillersAreKeys DEF FillCustody, Fills, Empty
<1>2. Moves(p) /\ Elsewhere(p, place) /\ proc'[p].key = k
  BY <1>1, FillMoves
<1>3. At(p, "ladder") /\ UNCHANGED <<slots, record, retirement, sealed, lost, astray>>
      /\ (raced => raced')
  BY <1>1 DEF FillCustody, Empty, Unavailable, Fills
<1>4. Grows /\ record' = record /\ chain' = chain
  BY <1>3, QuietGrows DEF slots
<1>5. ~raced' => \A o \in Procs \ {p} : ~At(o, "store")
  BY <1>1 DEF Fills, At
<1>6. ~Commands(p)' /\ FollowsRecord(p)' /\ KeepsElders(p)' /\ Unraced(p)'
  BY <1>1, <1>2, <1>3, <1>4
     DEF CustodyInv, Place, Elsewhere, Commands, FollowsRecord, Records, Uses, Early, KeepsElders,
         Unraced, At
<1>7. \A o \in Procs \ {p} : ~Commands(o)
  BY <1>3, NoOtherCommands DEF At
<1> QED BY <1>2, <1>4, <1>5, <1>6, <1>7, ResolutionKeepsInv

(* Elders within reach are among the keys loaded from the vault. *)
LEMMA EldersLoad ==
  ASSUME Base, CustodyInv, NEW p \in Procs, NEW k \in Elders,
         proc[p].reach \/ index[k] = "file"
  PROVE  k \in Retired(proc[p])
<1>1. k \in Indexed
  BY DEF CustodyInv, EldersRetired
<1>2. <<k, index[k]>> \in vault
  BY <1>1 DEF Base, IndexedKeysAreHeld
<1> QED BY <1>1, <1>2 DEF Retired

LEMMA RefusedPlace ==
  ASSUME Base, CustodyInv, NEW p \in Procs, Early(p), Refused(p),
         UNCHANGED <<record, index>>, Elders' \subseteq Elders
  PROVE  /\ Moves(p) /\ proc'[p].pc \in {"off", "run"}
         /\ ~Commands(p)' /\ FollowsRecord(p)' /\ KeepsElders(p)' /\ Unraced(p)'
<1>1. CASE proc'[p] = Off
  BY <1>1, RefusedMoves, OffPlace, OffFields
<1>2. CASE proc'[p] # Off
  <2>1. /\ Moves(p) /\ proc'[p].pc = "run" /\ proc'[p].key = proc[p].seen
        /\ proc'[p].retired = Retired(proc[p]) \ {proc[p].seen}
        /\ proc'[p].reach = proc[p].reach /\ proc'[p].then = "off"
    BY <1>2, RefusedMoves
  <2>2. ASSUME p \in Recorders PROVE proc'[p].key = record' /\ Opens(p)'
    <3>1. proc[p].seen = record
      BY <2>2 DEF CustodyInv, Place, FollowsRecord
    <3>2. \A k \in Elders : (proc[p].reach \/ index[k] = "file") => k \in Retired(proc[p])
      BY EldersLoad
    <3> QED BY <2>1, <3>1, <3>2 DEF Opens, Elders
  <2> QED BY <2>1, <2>2
          DEF Commands, FollowsRecord, Records, Uses, Early, KeepsElders, Unraced, At
<1> QED BY <1>1, <1>2

LEMMA RefuseKeeps ==
  ASSUME Base, CustodyInv, NEW p \in Procs, RefuseKey(p)
  PROVE  CustodyInv'
<1>1. /\ At(p, "ladder") /\ Refused(p)
      /\ UNCHANGED <<slots, record, retirement, sealed, lost, astray, raced>>
  BY DEF RefuseKey, Empty, Unavailable, history
<1>2. Grows /\ Elders' = Elders /\ chain' = chain /\ UNCHANGED <<record, index>>
  BY <1>1, QuietGrows DEF slots, retirement
<1>3. /\ Moves(p) /\ proc'[p].pc \in {"off", "run"}
      /\ ~Commands(p)' /\ FollowsRecord(p)' /\ KeepsElders(p)' /\ Unraced(p)'
  BY <1>1, <1>2, RefusedPlace DEF Early, At
<1>4. \A o \in Procs \ {p} : ~Commands(o)
  BY <1>1, NoOtherCommands DEF At
<1> QED BY <1>2, <1>3, <1>4, ResolutionKeepsInv

LEMMA StoreKeeps ==
  ASSUME Base, CustodyInv, NEW p \in Procs, StoreKey(p)
  PROVE  CustodyInv'
<1>1. At(p, "store") /\ proc[p].key \in Keys
      /\ UNCHANGED <<file, legacy, record, index, vault, sealed, lost, raced, astray>>
      /\ (chain' = chain \/ chain' = proc[p].key)
  BY BaseParts DEF StoreKey, Shape, At, retirement, history
<1>2. \A o \in Procs \ {p} : ~Commands(o)
  BY <1>1, NoOtherCommands DEF At
<1>3. ~raced => chain = NoKey /\ \A o \in Procs \ {p} : ~At(o, "store")
  BY <1>1 DEF CustodyInv, Place, Unraced, OneStores, At
<1>4. ASSUME ~raced, NEW k \in Keys
      PROVE  (k \in Stable => k \in Stable') /\ (Safe(k) => Safe(k)')
  <2>1. k # chain \/ chain' = chain
    BY <1>3, <1>4, CustodyAssumption
  <2> QED BY <1>1, <2>1 DEF Stable, Safe, Held, Indexed
<1>5. Grows /\ Elders' = Elders
  BY <1>1, <1>4 DEF Grows, Entrusted, Elders
<1>6. CASE GoTo(p, "verify") \/ GoTo(p, "publish")
  <2>1. Moves(p) /\ (Elsewhere(p, "verify") \/ Elsewhere(p, "publish"))
    BY <1>1, <1>6, GoToMoves DEF Places
  <2>2. ~Commands(p)' /\ FollowsRecord(p)' /\ KeepsElders(p)' /\ Unraced(p)'
    BY <1>1, <2>1
       DEF CustodyInv, Place, Elsewhere, Commands, FollowsRecord, Records, Uses, Early,
           KeepsElders, Unraced, At
  <2> QED BY <1>1, <1>2, <1>3, <1>5, <2>1, <2>2, ResolutionKeepsInv
<1>7. CASE Refused(p)
  <2>1. Early(p)
    BY <1>1 DEF Early, At
  <2>2. /\ Moves(p) /\ proc'[p].pc \in {"off", "run"}
        /\ ~Commands(p)' /\ FollowsRecord(p)' /\ KeepsElders(p)' /\ Unraced(p)'
    BY <1>1, <1>5, <1>7, <2>1, RefusedPlace
  <2> QED BY <1>1, <1>2, <1>3, <1>5, <2>2, ResolutionKeepsInv
<1> QED BY <1>6, <1>7 DEF StoreKey

LEMMA VerifyKeeps ==
  ASSUME Base, CustodyInv, NEW p \in Procs, VerifyStored(p)
  PROVE  CustodyInv'
<1>1. /\ At(p, "verify") /\ proc[p].key \in Keys
      /\ UNCHANGED <<chain, file, record, retirement, sealed, history>>
      /\ (legacy' = legacy \/ retire_matching_legacy_key)
  BY BaseParts DEF VerifyStored, Shape, At
<1>2. Grows /\ (chain \in Keys => chain \in Stable') /\ UNCHANGED <<record, index>>
  BY <1>1, LegacyGrows DEF Grows
<1>3. Early(p) /\ ~At(p, "off") /\ Elders' \subseteq Elders
  BY <1>1, <1>2 DEF Early, At, Grows, Elders
<1>4. \A o \in Procs \ {p} : ~Commands(o)
  BY <1>3, NoOtherCommands
<1>5. CASE chain = proc[p].key
  <2>1. Found(p, chain, "keychain")
    BY <1>5 DEF VerifyStored
  <2>2. Moves(p) /\ Elsewhere(p, "check") /\ proc'[p].key = chain /\ proc'[p].source = "keychain"
    BY <1>1, <1>5, <2>1, FoundMoves
  <2>3. ~Commands(p)' /\ FollowsRecord(p)' /\ KeepsElders(p)' /\ (~raced' => Unraced(p)')
    BY <1>1, <1>2, <1>3, <1>5, <2>2, FoundPlace
  <2> QED BY <1>1, <1>2, <1>4, <2>2, <2>3, ResolutionKeepsInv DEF Elsewhere
<1>6. CASE chain # proc[p].key
  <2>1. Refused(p)
    BY <1>6 DEF VerifyStored
  <2>2. /\ Moves(p) /\ proc'[p].pc \in {"off", "run"}
        /\ ~Commands(p)' /\ FollowsRecord(p)' /\ KeepsElders(p)' /\ Unraced(p)'
    BY <1>2, <1>3, <2>1, RefusedPlace
  <2> QED BY <1>1, <1>2, <1>4, <2>2, ResolutionKeepsInv
<1> QED BY <1>5, <1>6

LEMMA PublishKeeps ==
  ASSUME Base, CustodyInv, NEW p \in Procs, PublishKey(p)
  PROVE  CustodyInv'
<1>1. /\ At(p, "publish") /\ proc[p].key \in Keys
      /\ UNCHANGED <<chain, legacy, record, index, vault, sealed, lost, raced, astray>>
      /\ (file' = file \/ file = NoKey)
  BY BaseParts DEF PublishKey, Published, Shape, At, retirement, history
<1>2. ASSUME NEW k \in Keys
      PROVE  (k \in Stable => k \in Stable') /\ (Safe(k) => Safe(k)')
  <2>1. k # file \/ file' = file
    BY <1>1, CustodyAssumption
  <2> QED BY <1>1, <2>1 DEF Stable, Safe, Held, Indexed
<1>3. Grows /\ Elders' = Elders
  BY <1>1, <1>2 DEF Grows, Entrusted, Elders
<1>4. Early(p) /\ ~At(p, "off")
  BY <1>1 DEF Early, At
<1>5. \A o \in Procs \ {p} : ~Commands(o)
  BY <1>4, NoOtherCommands
<1>6. CASE file' \in Keys
  <2>1. Found(p, file', "file")
    BY <1>6 DEF PublishKey
  <2>2. Moves(p) /\ Elsewhere(p, "check") /\ proc'[p].key = file' /\ proc'[p].source = "file"
    BY <1>6, <2>1, FoundMoves
  <2>3. ~Commands(p)' /\ FollowsRecord(p)' /\ KeepsElders(p)' /\ (~raced' => Unraced(p)')
    BY <1>1, <1>4, <2>2, FoundPlace DEF Stable
  <2> QED BY <1>1, <1>3, <1>5, <2>2, <2>3, ResolutionKeepsInv DEF Elsewhere
<1>7. CASE file' \notin Keys
  <2>1. Refused(p)
    BY <1>7 DEF PublishKey
  <2>2. /\ Moves(p) /\ proc'[p].pc \in {"off", "run"}
        /\ ~Commands(p)' /\ FollowsRecord(p)' /\ KeepsElders(p)' /\ Unraced(p)'
    BY <1>1, <1>3, <1>4, <2>1, RefusedPlace
  <2> QED BY <1>1, <1>3, <1>5, <2>2, ResolutionKeepsInv
<1> QED BY <1>6, <1>7

LEMMA CheckKeeps ==
  ASSUME Base, CustodyInv, NEW p \in Procs, CheckKey(p)
  PROVE  CustodyInv'
<1>1. /\ At(p, "check") /\ proc[p].key \in Keys /\ proc[p] \in Proc
      /\ UNCHANGED <<slots, record, retirement, sealed, lost, astray, raced>>
  BY BaseParts DEF CheckKey, Shape, At, history
<1>2. /\ Grows /\ Elders' = Elders /\ Stable' = Stable /\ chain' = chain
      /\ (\A k : Safe(k)' <=> Safe(k)) /\ UNCHANGED <<record, index, raced>>
  BY <1>1, QuietGrows DEF slots, retirement
<1>3. \A o \in Procs \ {p} : ~Commands(o)
  BY <1>1, NoOtherCommands DEF At
<1>4. Retired(proc[p]) \in SUBSET Keys /\ candidates(proc[p]) \in SUBSET Keys
  BY CandidatesAreKeys
<1>5. \A k \in Elders : proc[p].reach \/ index[k] = "file" => k \in Retired(proc[p])
  BY EldersLoad
<1>6. /\ p \in Recorders => proc[p].seen = record
      /\ ~raced => IF proc[p].source = "env" THEN proc[p].key \in EnvKeys
                                             ELSE proc[p].key \in Stable
  BY <1>1 DEF CustodyInv, Place, FollowsRecord, Early, Unraced, At
<1>7. ~raced => Safe(proc[p].key)
  BY <1>1, <1>6, CustodyAssumption DEF Safe, Stable, Held
<1> DEFINE Fits == /\ Moves(p) /\ proc'[p].pc # "store"
                   /\ ~Commands(p)' /\ FollowsRecord(p)' /\ KeepsElders(p)'
                   /\ ~raced' => Unraced(p)'
<1>8. ASSUME NEW k \in Keys, Runs(p, k, Retired(proc[p])), p \in Recorders => k = record
      PROVE  Fits
  <2>1. /\ Moves(p) /\ proc'[p].pc = "run" /\ proc'[p].key = k
        /\ proc'[p].retired = Retired(proc[p]) \ {k}
        /\ proc'[p].reach = proc[p].reach /\ proc'[p].then = "off"
    BY <1>4, <1>8, RunsMoves
  <2>2. Opens(p)'
    BY <1>2, <1>5, <2>1 DEF Opens
  <2> QED BY <1>2, <1>8, <2>1, <2>2
          DEF Commands, FollowsRecord, Records, Uses, Early, KeepsElders, Unraced, At
<1>9. ASSUME NEW k \in candidates(proc[p]), NEW then \in {"run", "record"},
             AfterRetiring(p, k, then),
             then = "record" => p \in Recorders /\ record = NoKey,
             then = "run" /\ p \in Recorders => k = record
      PROVE  Fits
  <2>1. /\ Moves(p) /\ proc'[p].pc = "retire" /\ proc'[p].key = k /\ proc'[p].then = then
        /\ proc'[p].retired = (Retired(proc[p]) \cup {proc[p].key}) \ {k}
        /\ proc'[p].todo = IF proc[p].source = "env" THEN {} ELSE {proc[p].key}
        /\ proc'[p].reach = proc[p].reach
    BY <1>1, <1>4, <1>9, AfterRetiringMoves
  <2>2. Opens(p)'
    BY <1>2, <1>5, <2>1 DEF Opens
  <2>3. Safe(k)
    BY CandidatesAreSafe
  <2>4. ~Commands(p)' /\ FollowsRecord(p)' /\ KeepsElders(p)'
    BY <1>2, <1>9, <2>1, <2>2
       DEF Commands, FollowsRecord, Records, Uses, Early, KeepsElders, At
  <2>5. ASSUME ~raced' PROVE Unraced(p)'
    BY <1>2, <1>6, <2>1, <2>3, <2>5 DEF Unraced, Records, At
  <2> QED BY <2>1, <2>4, <2>5
<1>10. ASSUME Becomes(p, Off) PROVE Fits
  BY <1>10, OffMoves, BaseParts, OffFields, Becoming, OffPlace
<1>11. ASSUME Becomes(p, [Doing(proc[p], "record") EXCEPT !.key = proc[p].key, !.then = "run",
                                                          !.retired = Retired(proc[p]) \ {proc[p].key}]),
              p \in Recorders, record = NoKey
       PROVE  Fits
  <2> DEFINE q == [Doing(proc[p], "record") EXCEPT !.key = proc[p].key, !.then = "run",
                                                   !.retired = Retired(proc[p]) \ {proc[p].key}]
  <2>1. q \in Proc /\ q.pc = "record" /\ q.key = proc[p].key /\ q.then = "run" /\ q.env = NoKey
    BY <1>1, <1>4, OffFields DEF Doing, Proc, Places, MaybeKey
  <2>2. Becomes(p, q)
    BY <1>11
  <2> HIDE DEF q
  <2>3. Moves(p) /\ proc'[p] = q
    BY <1>1, <2>1, <2>2, NewMoves
  <2>4. proc'[p].pc = "record" /\ proc'[p].key = proc[p].key /\ proc'[p].then = "run"
    BY <2>1, <2>3
  <2> QED BY <1>2, <1>7, <1>11, <2>3, <2>4
          DEF Commands, FollowsRecord, Records, Uses, Early, KeepsElders, Unraced, At
<1>12. Fits
  <2>1. CASE proc[p].seen = proc[p].key /\ Runs(p, proc[p].key, Retired(proc[p]))
    BY <1>1, <1>6, <1>8, <2>1
  <2>2. CASE proc[p].seen \in Keys \ {proc[p].key} /\ Mismatch(p)
    BY <1>6, <1>9, <1>10, <2>2 DEF Mismatch
  <2>3. CASE p \notin Recorders /\ Runs(p, proc[p].key, Retired(proc[p]))
    BY <1>1, <1>8, <2>3
  <2>4. CASE /\ proc[p].seen = NoKey /\ p \in Recorders
             /\ Becomes(p, [Doing(proc[p], "record") EXCEPT !.key = proc[p].key, !.then = "run",
                                              !.retired = Retired(proc[p]) \ {proc[p].key}])
    BY <1>6, <1>11, <2>4
  <2>5. CASE /\ proc[p].seen = NoKey /\ p \in Recorders
             /\ \/ \E k \in candidates(proc[p]) : AfterRetiring(p, k, "record")
                \/ Becomes(p, Off)
    BY <1>6, <1>9, <1>10, <2>5
  <2> HIDE DEF Fits
  <2> QED BY <2>1, <2>2, <2>3, <2>4, <2>5 DEF CheckKey
<1> QED BY <1>2, <1>3, <1>12, ResolutionKeepsInv

LEMMA RetireOneGrows ==
  ASSUME UNCHANGED <<slots, record, index, sealed, lost, astray, raced>>, vault \subseteq vault'
  PROVE  Grows /\ Elders' = Elders /\ Stable' = Stable /\ (\A k : Safe(k) => Safe(k)')
<1>1. UNCHANGED <<chain, file, legacy>>
  BY DEF slots
<1> QED BY <1>1 DEF Grows, Elders, Entrusted, Stable, Safe, Held, Indexed

(* RetireKey by a process that resolves. *)
LEMMA RetireKeeps ==
  ASSUME Base, CustodyInv, NEW p \in Procs, RetireKey(p), proc[p].then \in {"run", "record"}
  PROVE  CustodyInv'
<1>1. /\ At(p, "retire") /\ proc[p] \in Proc
      /\ UNCHANGED <<slots, record, index, sealed, lost, astray, raced>>
  BY BaseParts DEF RetireKey, history
<1>2. \A o \in Procs \ {p} : ~Commands(o)
  BY <1>1, NoOtherCommands DEF At
<1>3. FollowsRecord(p) /\ (~raced => Unraced(p)) /\ Elders \subseteq Indexed
  BY DEF CustodyInv, Place, EldersRetired
<1>4. \/ (Continue(p) \/ Becomes(p, Off)) /\ UNCHANGED vault
      \/ /\ ~Full
         /\ \E k \in proc[p].todo \ Indexed, custody \in Custodies :
              /\ vault' = vault \cup {<<k, custody>>}
              /\ Becomes(p, [proc[p] EXCEPT !.pc = "index", !.idx = [index EXCEPT ![k] = custody]])
  BY DEF RetireKey, Vaulted, Custodies
<1>5. /\ Grows /\ Elders' = Elders /\ Stable' = Stable /\ (\A k : Safe(k) => Safe(k)')
      /\ chain' = chain
  BY <1>1, <1>4, RetireOneGrows DEF slots
<1>6. CASE Becomes(p, Off)
  BY <1>2, <1>5, <1>6, OffMoves, BaseParts, OffFields, Becoming, OffPlace, ResolutionKeepsInv
<1>7. CASE Continue(p)
  <2>1. /\ Moves(p) /\ proc'[p].pc \in {"run", "record"} /\ proc'[p].key = proc[p].key
        /\ proc'[p].reach = proc[p].reach
        /\ proc[p].then = "run" =>
             /\ proc'[p].pc = "run" /\ proc'[p].then = "off"
             /\ proc'[p].retired = proc[p].retired \ {proc[p].key}
        /\ proc[p].then = "record" => proc'[p].pc = "record" /\ proc'[p].then = "record"
    BY <1>1, <1>7, ContinueMoves DEF Elsewhere
  <2>2. Opens(p) /\ proc[p].then = "run" => Opens(p)'
    BY <1>1, <1>5, <2>1 DEF Opens
  <2>3. ~Commands(p)' /\ FollowsRecord(p)' /\ KeepsElders(p)'
    BY <1>1, <1>3, <2>1, <2>2 DEF Commands, FollowsRecord, Records, Uses, Early, KeepsElders, At
  <2>4. ASSUME ~raced' PROVE Unraced(p)'
    BY <1>1, <1>3, <1>5, <2>1, <2>4 DEF Unraced, Records, At
  <2> QED BY <1>2, <1>5, <2>1, <2>3, <2>4, ResolutionKeepsInv
<1>8. ASSUME ~Full, NEW k \in proc[p].todo \ Indexed, NEW custody \in Custodies,
             vault' = vault \cup {<<k, custody>>},
             Becomes(p, [proc[p] EXCEPT !.pc = "index", !.idx = [index EXCEPT ![k] = custody]])
      PROVE  CustodyInv'
  <2>1. At(p, "retire")
    BY <1>1
  <2>2. /\ Moves(p) /\ k \in Keys
        /\ proc'[p].pc = "index" /\ \A j \in Keys \ {k} : proc'[p].idx[j] = index[j]
        /\ proc'[p].key = proc[p].key
        /\ proc'[p].then = proc[p].then /\ proc'[p].reach = proc[p].reach
        /\ proc'[p].retired = proc[p].retired /\ proc'[p].todo = proc[p].todo
    BY <1>8, <2>1, RetireOneMoves
  <2>3. k \notin Elders /\ Elders \subseteq Keys
    BY <1>3, BaseParts DEF SharedTyped, Elders, Entrusted
  <2>5. KeepsElders(p)'
    BY <1>1, <1>5, <2>2, <2>3 DEF KeepsElders
  <2>6. Opens(p) => Opens(p)'
    BY <1>1, <1>5, <2>2 DEF Opens
  <2>7. ~Commands(p)' /\ FollowsRecord(p)'
    BY <1>1, <1>3, <2>2, <2>6 DEF Commands, FollowsRecord, Records, Uses, Early, At
  <2>8. ASSUME ~raced' PROVE Unraced(p)'
    BY <1>1, <1>3, <1>5, <2>2, <2>8 DEF Unraced, Records, At
  <2> QED BY <1>2, <1>5, <2>1, <2>2, <2>5, <2>7, <2>8, ResolutionKeepsInv
<1> QED BY <1>4, <1>6, <1>7, <1>8

(* IndexKey by a process that resolves: what another wrote is dropped, but  *)
(* only for keys that still lie in a slot.                                  *)
LEMMA IndexKeeps ==
  ASSUME Base, CustodyInv, NEW p \in Procs, IndexKey(p), proc[p].then \in {"run", "record"}
  PROVE  CustodyInv'
<1>1. /\ At(p, "index") /\ index' = proc[p].idx
      /\ UNCHANGED <<chain, file, legacy, record, vault, sealed, lost, raced, astray>>
  BY DEF IndexKey, slots, history
<1>2. FollowsRecord(p) /\ KeepsElders(p) /\ (~raced => Unraced(p))
  BY DEF CustodyInv, Place
<1>3. /\ Moves(p) /\ proc'[p].pc = "retire" /\ proc'[p].key = proc[p].key
      /\ proc'[p].then = proc[p].then /\ proc'[p].reach = proc[p].reach
      /\ proc'[p].retired = proc[p].retired /\ proc'[p].todo = proc[p].todo
  BY IndexMoves
<1>4. Entrusted' = Entrusted /\ Elders' = Elders /\ Stable' = Stable
  BY <1>1 DEF Entrusted, Elders, Stable
<1>5. \A k \in Elders : index'[k] = index[k]
  BY <1>1, <1>2 DEF KeepsElders
<1>6. ASSUME ~raced', NEW k \in Keys
      PROVE  /\ index'[k] = index[k] \/ k \in Stable
             /\ Safe(k) => Safe(k)'
  <2>1. index'[k] = index[k] \/ k \in Stable
    BY <1>1, <1>2, <1>6 DEF Unraced, At
  <2>2. CASE k \in Stable
    BY <1>1, <2>2 DEF Safe, Stable, Held
  <2>3. CASE index'[k] = index[k]
    BY <1>1, <2>3 DEF Safe, Held, Indexed
  <2> QED BY <2>1, <2>2, <2>3
<1>7. Grows
  BY <1>1, <1>4, <1>5, <1>6 DEF Grows
<1>8. Opens(p) => Opens(p)'
  BY <1>3, <1>4, <1>5 DEF Opens
<1>9. ~Commands(p)' /\ FollowsRecord(p)' /\ KeepsElders(p)'
  BY <1>1, <1>2, <1>3, <1>8 DEF Commands, FollowsRecord, Records, Uses, Early, KeepsElders, At
<1>10. ASSUME ~raced' PROVE Unraced(p)'
  <2>1. Unraced(p)
    BY <1>1, <1>2, <1>10
  <2>2. proc'[p].todo \subseteq Stable'
    BY <1>1, <1>3, <1>4, <2>1 DEF Unraced, At
  <2>3. Records(p)' => Records(p) /\ proc[p].key \in Keys
    BY <1>1, <1>3, BaseParts DEF Records, Shape, At
  <2>4. Records(p) => Safe(proc[p].key)
    BY <2>1 DEF Unraced
  <2>5. \A k \in Keys : Safe(k) => Safe(k)'
    BY <1>6, <1>10
  <2>6. Records(p)' => Safe(proc[p].key)'
    BY <1>3, <2>3, <2>4, <2>5
  <2> QED BY <1>3, <2>2, <2>6 DEF Unraced, At
<1>11. \A o \in Procs \ {p} : ~Commands(o)
  BY <1>1, NoOtherCommands DEF At
<1> QED BY <1>1, <1>3, <1>7, <1>9, <1>10, <1>11, ResolutionKeepsInv

(* The owner records its first key: nothing was entrusted before.           *)
LEMMA RecordKeeps ==
  ASSUME Base, CustodyInv, NEW p \in Procs, RecordKey(p), proc[p].then \in {"run", "record"}
  PROVE  CustodyInv'
<1>1. /\ Moves(p) /\ At(p, "record") /\ proc[p].key \in Keys
      /\ record' = proc[p].key /\ astray' = astray \ {proc[p].key}
      /\ proc'[p].pc = "run" /\ proc'[p].key = proc[p].key /\ proc'[p].then = "off"
  BY RecordMoves
<1>2. UNCHANGED <<chain, file, legacy, index, vault, sealed, lost, raced>>
  BY DEF RecordKey, slots, retirement
<1>3. Records(p)
  BY <1>1 DEF Records
<1>4. p \in Recorders /\ record = NoKey /\ Entrusted = {} /\ (~raced => Safe(proc[p].key))
  BY <1>3 DEF CustodyInv, Place, FollowsRecord, EldersRetired, Unraced
<1>5. Elders' = {}
  BY <1>1, <1>2, <1>4 DEF Elders, Entrusted
<1>6. EldersRetired'
  BY <1>1, <1>5, CustodyAssumption DEF EldersRetired
<1>7. Stable' = Stable /\ \A k : Safe(k)' <=> Safe(k)
  BY <1>2 DEF Stable, Safe, Held, Indexed
<1>8. RecordSafe'
  BY <1>1, <1>2, <1>4, <1>7 DEF RecordSafe, Safe, Held, Indexed
<1>9. ASSUME NEW o \in Procs \ {p} PROVE Place(o)' /\ ~Commands(o) /\ proc'[o] = proc[o]
  <2>1. ~Commands(o) /\ proc'[o] = proc[o] /\ Place(o)
    BY <1>1, NoOtherCommands DEF At, Moves, CustodyInv
  <2>2. o \notin Recorders /\ ~Records(o)
    BY <1>4, <2>1, CustodyAssumption DEF Place, FollowsRecord
  <2>3. FollowsRecord(o)'
    BY <2>1, <2>2 DEF FollowsRecord, Records, At
  <2>4. KeepsElders(o)' /\ RetiresFirst(o)'
    BY <1>5, <2>1 DEF KeepsElders, RetiresFirst, Commands
  <2>5. ~raced' => Unraced(o)'
    BY <1>2, <1>7, <2>1, <2>2 DEF Place, Unraced, Records, At
  <2> QED BY <2>1, <2>3, <2>4, <2>5 DEF Place
<1>10. Place(p)' /\ ~Commands(p)'
  BY <1>1, <1>5 DEF Place, FollowsRecord, Records, Uses, Early, Opens, KeepsElders, RetiresFirst,
       Commands, Unraced, At
<1>11. Alone' /\ OneStores'
  BY <1>1, <1>2, <1>9, <1>10 DEF Alone, OneStores, CustodyInv, Commands, At
<1> QED BY <1>6, <1>8, <1>9, <1>10, <1>11 DEF CustodyInv

(* What is sealed is entrusted under the recorded key, else it is astray.   *)
LEMMA SealKeeps ==
  ASSUME Base, CustodyInv, NEW p \in Procs, Seal(p)
  PROVE  CustodyInv'
<1>1. /\ At(p, "run") /\ proc[p].key \in Keys
      /\ sealed' = sealed \cup {proc[p].key}
      /\ astray' = IF proc[p].key = record THEN astray ELSE astray \cup {proc[p].key}
      /\ UNCHANGED <<chain, file, legacy, record, index, vault, proc, lost, raced>>
  BY BaseParts DEF Seal, Shape, At, slots, retirement
<1>2. Stable' = Stable /\ (\A k : Safe(k)' <=> Safe(k))
  BY <1>1 DEF Stable, Safe, Held, Indexed
<1>3. Grows
  BY <1>1, <1>2 DEF Grows, Entrusted
<1>4. \A o \in Procs : ~Commands(o)
  BY <1>1, NoOtherCommands DEF At, Commands
<1>5. \A o \in Procs : Place(o)'
  BY <1>1, <1>3, <1>4, OthersKeepPlace DEF CustodyInv
<1>6. Alone' /\ OneStores'
  BY <1>1 DEF CustodyInv, Alone, OneStores, Commands, At
<1> QED BY <1>3, <1>5, <1>6, GrowthKeepsRecord DEF CustodyInv

LEMMA LoseKeeps ==
  ASSUME Base, CustodyInv, LoseEntry
  PROVE  CustodyInv'
<1>1. /\ chain \in Keys /\ chain' = NoKey /\ lost' = lost \cup {chain}
      /\ UNCHANGED <<file, legacy, record, index, vault, sealed, proc, raced, astray>>
  BY DEF LoseEntry, retirement
<1>2. \A k \in Keys : (k \in Stable => k \in Stable') /\ (Safe(k) => Safe(k)')
  BY <1>1 DEF Stable, Safe, Held, Indexed
<1>3. Grows
  BY <1>1, <1>2 DEF Grows, Entrusted
<1>4. ASSUME NEW o \in Procs PROVE Place(o)'
  <2>1. Place(o)
    BY DEF CustodyInv
  <2>2. Commands(o) => RetiresFirst(o)'
    BY <1>1, <2>1 DEF Place, RetiresFirst, Commands, Indexed, At
  <2> QED BY <1>1, <1>3, <2>1, <2>2, OthersKeepPlace
<1>5. Alone' /\ OneStores'
  BY <1>1 DEF CustodyInv, Alone, OneStores, Commands, At
<1> QED BY <1>3, <1>4, <1>5, GrowthKeepsRecord DEF CustodyInv

-----------------------------------------------------------------------------
(* A step of the one command that runs. *)
LEMMA CommandKeeps ==
  ASSUME NEW p \in Procs, \A o \in Procs \ {p} : (proc[o].pc)' = "off",
         EldersRetired', RecordSafe',
         (proc[p].pc)' = "off" \/ (Commands(p)' /\ RetiresFirst(p)')
  PROVE  CustodyInv'
<1>1. ASSUME NEW o \in Procs \ {p} PROVE Place(o)' /\ ~Commands(o)' /\ ~At(o, "store")'
  BY OffPlace DEF At
<1>2. CASE (proc[p].pc)' = "off"
  BY <1>1, <1>2, OffPlace DEF CustodyInv, Alone, OneStores, At
<1>3. CASE Commands(p)' /\ RetiresFirst(p)'
  <2>1. FollowsRecord(p)' /\ Unraced(p)'
    BY <1>3 DEF FollowsRecord, Unraced, Records, Uses, Early, Commands, At
  <2>2. KeepsElders(p)'
    BY <1>3 DEF KeepsElders, RetiresFirst, EldersRetired
  <2> QED BY <1>1, <1>3, <2>1, <2>2 DEF CustodyInv, Alone, OneStores, Place, Commands, At
<1> QED BY <1>2, <1>3

(* While a command runs, the others are off before and after its step. *)
LEMMA CommandIsAlone ==
  ASSUME CustodyInv, NEW p \in Procs, Commands(p), Moves(p)
  PROVE  \A o \in Procs \ {p} : (proc[o].pc)' = "off"
BY DEF CustodyInv, Alone, Moves, At

LEMMA BeginKeeps ==
  ASSUME Base, CustodyInv, NEW p \in Procs, AdoptKey(p) \/ ImportKeys(p) \/ RetireCommand(p)
  PROVE  CustodyInv'
<1>1. Command(p) /\ Begins(p)
  BY CommandBegins DEF AdoptKey, ImportKeys, RetireCommand
<1>2. CommandStarts(p)
  BY <1>1, PlanStarts DEF Begins
<1>3. /\ UNCHANGED <<chain, file, legacy, record, index, vault, sealed, lost, raced>>
      /\ astray \subseteq astray' /\ Moves(p) /\ proc'[p].pc = "retire"
      /\ proc'[p].then \in {"off", "install", "unlink"}
      /\ \A o \in Procs : At(o, "off")
  BY <1>2 DEF CommandStarts, Command, slots, retirement
<1>4. Grows
  BY <1>3 DEF Grows, Entrusted, Stable, Safe, Held, Indexed
<1>5. \A o \in Procs \ {p} : (proc[o].pc)' = "off"
  BY <1>3 DEF Moves, At
<1>6. RetiresFirst(p)'
  <2>1. CASE proc'[p].then # "install"
    BY <1>3, <2>1 DEF RetiresFirst, At
  <2>2. ASSUME NEW shell \in Shells, NEW k \in Keys, NEW extra \in SUBSET Keys,
               Plan(p, InShell(shell), k, extra)
        PROVE  RetiresFirst(p)'
    <3>1. /\ proc'[p].key = k
          /\ ({record} \cap Live(InShell(shell))) \ {k} \subseteq proc'[p].todo
          /\ astray' = astray \cup (({record} \cap Keys)
                                      \ (Live(InShell(shell)) \cup Indexed \cup {k}))
      BY <1>1, <2>2, PlanStarts
    <3>2. Indexed' = Indexed
      BY <1>3 DEF Indexed
    <3> QED BY <1>3, <3>1, <3>2 DEF RetiresFirst, At
  <2> QED BY <1>1, <1>3, <2>1, <2>2 DEF Begins
<1>7. Commands(p)'
  BY <1>3 DEF Commands
<1> QED BY <1>4, <1>5, <1>6, <1>7, GrowthKeepsRecord, CommandKeeps

LEMMA CommandRetireKeeps ==
  ASSUME Base, CustodyInv, NEW p \in Procs, RetireKey(p), Commands(p)
  PROVE  CustodyInv'
<1>1. /\ At(p, "retire") /\ RetiresFirst(p)
      /\ UNCHANGED <<slots, record, index, sealed, lost, astray, raced>>
  BY DEF RetireKey, history, CustodyInv, Place
<1>2. \/ proc[p].todo \subseteq Indexed /\ Continue(p) /\ UNCHANGED vault
      \/ Becomes(p, Off) /\ UNCHANGED vault
      \/ /\ ~Full
         /\ \E k \in proc[p].todo \ Indexed, custody \in Custodies :
              /\ vault' = vault \cup {<<k, custody>>}
              /\ Becomes(p, [proc[p] EXCEPT !.pc = "index", !.idx = [index EXCEPT ![k] = custody]])
  BY DEF RetireKey, Vaulted, Custodies, Resolving, Commands
<1>3. Grows /\ Indexed' = Indexed
  BY <1>1, <1>2, RetireOneGrows DEF Indexed
<1>4. UNCHANGED <<chain, file, index, record, lost, astray>>
  BY <1>1 DEF slots
<1>5. CASE Becomes(p, Off)
  <2>1. Moves(p) /\ (proc[p].pc)' = "off"
    BY <1>5, OffMoves, BaseParts, OffFields, Becoming
  <2> QED BY <1>3, <2>1, GrowthKeepsRecord, CommandIsAlone, CommandKeeps
<1>6. CASE proc[p].todo \subseteq Indexed /\ Continue(p)
  <2>1. /\ Moves(p)
        /\ \/ proc'[p] = Off
           \/ /\ proc[p].then \in {"install", "unlink"}
              /\ proc'[p].pc = proc[p].then /\ proc'[p].then = proc[p].then
              /\ proc'[p].key = proc[p].key
    BY <1>1, <1>6, ContinueMoves DEF Elsewhere, Commands
  <2>2. proc'[p].pc = "off" \/ (Commands(p)' /\ RetiresFirst(p)')
    BY <1>1, <1>3, <1>4, <1>6, <2>1, OffFields DEF Commands, RetiresFirst, At
  <2> QED BY <1>3, <2>1, <2>2, GrowthKeepsRecord, CommandIsAlone, CommandKeeps
<1>7. ASSUME ~Full, NEW k \in proc[p].todo \ Indexed, NEW custody \in Custodies,
             vault' = vault \cup {<<k, custody>>},
             Becomes(p, [proc[p] EXCEPT !.pc = "index", !.idx = [index EXCEPT ![k] = custody]])
      PROVE  CustodyInv'
  <2>1. At(p, "retire")
    BY <1>1
  <2>2. /\ Moves(p) /\ k \in Keys
        /\ proc'[p].pc = "index" /\ \A j \in Keys \ {k} : proc'[p].idx[j] = index[j]
        /\ proc'[p].key = proc[p].key /\ proc'[p].then = proc[p].then
        /\ proc'[p].todo = proc[p].todo
    BY <1>7, <2>1, RetireOneMoves
  <2>3. \A j \in Indexed : proc'[p].idx[j] = index'[j]
    BY <1>4, <1>7, <2>2 DEF Indexed
  <2>4. Commands(p)' /\ RetiresFirst(p)'
    BY <1>1, <1>3, <1>4, <2>2, <2>3 DEF Commands, RetiresFirst, At
  <2> QED BY <1>3, <2>2, <2>4, GrowthKeepsRecord, CommandIsAlone, CommandKeeps
<1> QED BY <1>2, <1>5, <1>6, <1>7

LEMMA CommandIndexKeeps ==
  ASSUME Base, CustodyInv, NEW p \in Procs, IndexKey(p), Commands(p)
  PROVE  CustodyInv'
<1>1. /\ At(p, "index") /\ RetiresFirst(p) /\ index' = proc[p].idx
      /\ UNCHANGED <<chain, file, legacy, record, vault, sealed, lost, raced, astray>>
  BY DEF IndexKey, slots, history, CustodyInv, Place
<1>2. /\ Moves(p) /\ proc'[p].pc = "retire" /\ proc'[p].key = proc[p].key
      /\ proc'[p].then = proc[p].then /\ proc'[p].todo = proc[p].todo
  BY IndexMoves
<1>3. \A k \in Indexed : index'[k] = index[k] /\ k \in Indexed'
  BY <1>1 DEF RetiresFirst, Indexed
<1>4. \A k : Safe(k) => Safe(k)'
  BY <1>1, <1>3 DEF Safe, Held, Indexed
<1>5. EldersRetired' /\ RecordSafe'
  <2>1. Entrusted' = Entrusted /\ Elders' = Elders
    BY <1>1 DEF Entrusted, Elders
  <2> QED BY <1>1, <1>3, <1>4, <2>1 DEF CustodyInv, EldersRetired, RecordSafe
<1>6. Commands(p)' /\ RetiresFirst(p)'
  BY <1>1, <1>2, <1>3 DEF Commands, RetiresFirst, At
<1> QED BY <1>2, <1>5, <1>6, CommandIsAlone, CommandKeeps

(* The record a command replaces is astray or retired. *)
LEMMA CommandRecordKeeps ==
  ASSUME Base, CustodyInv, NEW p \in Procs, RecordKey(p), Commands(p)
  PROVE  CustodyInv'
<1>1. /\ Moves(p) /\ At(p, "record") /\ proc[p].key \in Keys
      /\ record' = proc[p].key /\ astray' = astray \ {proc[p].key}
      /\ proc'[p] = Off
      /\ UNCHANGED <<chain, file, legacy, index, vault, sealed, lost, raced>>
  BY RecordMoves DEF Commands, RecordKey, slots, retirement
<1>2. /\ record \in Keys => record \in astray \cup Indexed \cup {proc[p].key}
      /\ proc[p].key \in {chain, file} \cup lost
  BY <1>1 DEF CustodyInv, Place, RetiresFirst, At
<1>3. Indexed' = Indexed /\ Entrusted' \subseteq Entrusted \cup {proc[p].key}
  BY <1>1 DEF Indexed, Entrusted
<1>4. EldersRetired'
  <2>1. ASSUME NEW k \in Elders' PROVE k \in Indexed
    <3>1. k \in Entrusted /\ k # proc[p].key /\ k \in Keys
      BY <1>1, <1>3, BaseParts DEF Elders, Entrusted, SharedTyped
    <3>2. CASE k = record
      BY <1>2, <3>1, <3>2 DEF Entrusted
    <3>3. CASE k # record
      BY <3>1, <3>3 DEF CustodyInv, EldersRetired, Elders
    <3> QED BY <3>2, <3>3
  <2> QED BY <1>1, <1>3, <2>1, CustodyAssumption DEF EldersRetired
<1>5. RecordSafe'
  BY <1>1, <1>2 DEF RecordSafe, Safe, Held
<1> QED BY <1>1, <1>4, <1>5, OffFields, CommandIsAlone, CommandKeeps

LEMMA InstallKeeps ==
  ASSUME Base, CustodyInv, NEW p \in Procs, InstallKey(p)
  PROVE  CustodyInv'
<1>1. /\ Moves(p) /\ At(p, "install") /\ proc[p].key \in Keys
      /\ UNCHANGED <<legacy, record, index, vault, sealed, lost, raced, astray>>
      /\ \/ /\ proc'[p].pc = "record" /\ proc'[p].key = proc[p].key /\ proc'[p].then = "off"
            /\ \/ chain' = proc[p].key /\ UNCHANGED file
               \/ file' = proc[p].key /\ UNCHANGED chain
         \/ proc'[p] = Off /\ UNCHANGED <<chain, file>>
  BY InstallMoves DEF retirement, history
<1>2. Commands(p) /\ RetiresFirst(p)
  BY <1>1, BaseParts DEF Commands, Shape, At, CustodyInv, Place
<1>3. record \in Keys => record \in astray \cup Indexed \cup {proc[p].key}
  BY <1>1, <1>2 DEF RetiresFirst, At
<1>4. EldersRetired' /\ Indexed' = Indexed
  BY <1>1 DEF CustodyInv, EldersRetired, Elders, Entrusted, Indexed
<1>5. RecordSafe'
  <2>1. CASE record \in Indexed
    BY <1>1, <2>1 DEF Base, IndexedKeysAreHeld, RecordSafe, Safe, Held, Indexed
  <2>2. CASE record = proc[p].key /\ proc'[p] # Off
    BY <1>1, <2>2 DEF RecordSafe, Safe, Held
  <2>3. CASE proc'[p] = Off
    BY <1>1, <2>3, OffFields DEF CustodyInv, RecordSafe, Safe, Held, Indexed
  <2> QED BY <1>1, <1>3, <2>1, <2>2, <2>3 DEF RecordSafe
<1>6. (proc[p].pc)' = "off" \/ (Commands(p)' /\ RetiresFirst(p)')
  BY <1>1, <1>3, <1>4, OffFields DEF Commands, RetiresFirst, At
<1> QED BY <1>1, <1>2, <1>4, <1>5, <1>6, CommandIsAlone, CommandKeeps

(* A key is unlinked once it opens from the vault. *)
LEMMA UnlinkKeeps ==
  ASSUME Base, CustodyInv, NEW p \in Procs, Unlink(p)
  PROVE  CustodyInv'
<1>1. At(p, "unlink") /\ UNCHANGED <<chain, record, index, vault, sealed, lost, raced, astray>>
  BY DEF Unlink, retirement, history
<1>2. Moves(p) /\ proc'[p].pc = "off"
  BY OffMoves, BaseParts, OffFields, Becoming DEF Unlink
<1>3. Commands(p)
  BY <1>1, BaseParts DEF Commands, Shape, At
<1>4. EldersRetired'
  BY <1>1 DEF CustodyInv, EldersRetired, Elders, Entrusted, Indexed
<1>5. ASSUME NEW k \in Keys, Held(k) PROVE Held(k)'
  <2>1. CASE k \in Retired(proc[p])
    BY <1>1, <2>1 DEF Retired, Held, Indexed
  <2>2. CASE k \notin Retired(proc[p])
    <3>1. (k = file => k = file') /\ (k = legacy => k = legacy' \/ k = file')
      BY <2>2 DEF Unlink, Loads
    <3> QED BY <1>1, <1>5, <3>1 DEF Held, Indexed
  <2> QED BY <2>1, <2>2
<1>6. RecordSafe'
  BY <1>1, <1>5 DEF CustodyInv, RecordSafe, Safe
<1> QED BY <1>2, <1>3, <1>4, <1>6, CommandIsAlone, CommandKeeps


LEMMA CustodyInit == HostInit => CustodyInv
<1> SUFFICES ASSUME HostInit PROVE CustodyInv
  OBVIOUS
<1>1. \A p \in Procs : proc[p].pc = "off"
  BY OffFields DEF HostInit, Init
<1>2. Entrusted = {} /\ record = NoKey
  BY DEF HostInit, Init, Entrusted
<1>3. \A p \in Procs : Place(p)
  BY <1>1 DEF Place, FollowsRecord, Records, Uses, Early, KeepsElders, RetiresFirst, Commands,
              Unraced, At
<1>4. Alone /\ EldersRetired /\ RecordSafe /\ OneStores
  BY <1>1, <1>2, CustodyAssumption
     DEF Alone, Commands, EldersRetired, Elders, RecordSafe, OneStores, At
<1> QED BY <1>3, <1>4 DEF CustodyInv

LEMMA CustodyStep ==
  ASSUME Base, CustodyInv, Next
  PROVE  CustodyInv'
<1>1. ASSUME NEW p \in Procs, Resolve(p) PROVE CustodyInv'
  BY <1>1, StartKeeps, FindKeyKeeps, FillKeeps, RefuseKeeps, StoreKeeps, VerifyKeeps, PublishKeeps,
     CheckKeeps DEF Resolve
<1>2. ASSUME NEW p \in Procs, CommandStep(p) PROVE CustodyInv'
  BY <1>2, BeginKeeps, InstallKeeps, UnlinkKeeps DEF CommandStep
<1>3. ASSUME NEW p \in Procs, RetireKey(p) \/ IndexKey(p) \/ RecordKey(p) PROVE CustodyInv'
  <2>1. proc[p].then \in {"run", "record"} \/ Commands(p)
    BY <1>3 DEF RetireKey, IndexKey, RecordKey, Commands, At
  <2>2. CASE proc[p].then \in {"run", "record"}
    BY <1>3, <2>2, RetireKeeps, IndexKeeps, RecordKeeps
  <2>3. CASE Commands(p)
    BY <1>3, <2>3, CommandRetireKeeps, CommandIndexKeeps, CommandRecordKeeps
  <2> QED BY <2>1, <2>2, <2>3
<1>4. ASSUME NEW p \in Procs, Seal(p) \/ Stop(p) PROVE CustodyInv'
  BY <1>4, SealKeeps, StopKeeps
<1> QED BY <1>1, <1>2, <1>3, <1>4, LoseKeeps DEF Next

LEMMA CustodyStutters ==
  ASSUME CustodyInv, UNCHANGED vars
  PROVE  CustodyInv'
<1>1. UNCHANGED <<chain, file, legacy, record, index, vault, sealed, proc, lost, raced, astray>>
  BY DEF vars, slots, retirement, history
<1>2. /\ Entrusted' = Entrusted /\ Elders' = Elders /\ Indexed' = Indexed /\ Stable' = Stable
      /\ \A k : Safe(k)' <=> Safe(k)
  BY <1>1 DEF Entrusted, Elders, Indexed, Stable, Safe, Held
<1>3. ASSUME NEW p \in Procs PROVE Place(p)'
  <2>1. Place(p) /\ (Records(p)' <=> Records(p)) /\ (Uses(p)' <=> Uses(p))
        /\ (Early(p)' <=> Early(p)) /\ (Commands(p)' <=> Commands(p)) /\ (Opens(p)' <=> Opens(p))
    BY <1>1, <1>2 DEF CustodyInv, Records, Uses, Early, Commands, Opens, At
  <2>2. FollowsRecord(p)' /\ KeepsElders(p)' /\ RetiresFirst(p)' /\ (~raced' => Unraced(p)')
    BY <1>1, <1>2, <2>1 DEF Place, FollowsRecord, KeepsElders, RetiresFirst, Unraced, At
  <2> QED BY <2>2 DEF Place
<1>4. Alone' /\ EldersRetired' /\ RecordSafe' /\ OneStores'
  BY <1>1, <1>2 DEF CustodyInv, Alone, Commands, EldersRetired, RecordSafe, OneStores, At
<1> QED BY <1>3, <1>4 DEF CustodyInv

-----------------------------------------------------------------------------
(* An app's key.  The slots it has. *)
AppSlots == {chain} \cup IF AppProc \in FileHosts THEN {file} ELSE {}

AppLasting == EnvKeys \cup lost \cup AppSlots

(* The key the ladder found is where it found it, or the keychain lost it. *)
AppFound(q) ==
  /\ q.source = "env" <=> q.env # NoKey
  /\ q.source = "env" => q.key \in EnvKeys
  /\ q.source = "keychain" => chain = q.key \/ (chain = NoKey /\ q.key \in lost)
  /\ q.source = "file" => AppProc \in FileHosts /\ file = q.key /\ (q.reach => chain = NoKey)

AppPlace ==
  LET q == proc[AppProc]
  IN  /\ q.pc \notin {"retire", "index", "install", "unlink"}
      /\ Early(AppProc) => q.seen = record
      /\ q.pc \in {"store", "verify", "publish"} => q.env = NoKey
      /\ q.pc = "store" => chain = NoKey
      /\ q.pc = "verify" => chain \in {q.key, NoKey}
      /\ q.pc = "publish" => AppProc \in FileHosts /\ (q.reach => chain = NoKey)
      /\ q.pc = "check" => AppFound(q)
      /\ q.pc \in {"record", "run"} =>
           q.key \in AppLasting /\ (q.env = NoKey => Entrusted \subseteq {q.key})

(* What an app sealed is under the recorded key, and that key in a slot.   *)
AppSealed ==
  /\ Indexed = {} /\ legacy = NoKey
  /\ Entrusted \subseteq {record} \cap AppSlots

AppInv == AppSealed /\ AppPlace

(* A step that leaves the record and what is sealed, and no key's slot.    *)
AppQuiet ==
  /\ UNCHANGED <<legacy, record, index, sealed, lost, astray>>
  /\ AppSlots \cap Keys \subseteq AppSlots'

LEMMA AppQuietKeeps ==
  ASSUME Base, AppInv, AppQuiet, AppPlace'
  PROVE  AppInv'
<1>1. Entrusted' = Entrusted /\ Indexed' = Indexed /\ Entrusted \subseteq Keys
  BY BaseParts DEF Entrusted, Indexed, AppQuiet, SharedTyped
<1> QED BY <1>1 DEF AppInv, AppSealed, AppQuiet

(* The process is off, or at a place that asks no more than the ladder.    *)
LEMMA AppOffPlace ==
  ASSUME (proc[AppProc].pc)' = "off" PROVE AppPlace'
BY DEF AppPlace, Early

LEMMA AppStartKeeps ==
  ASSUME Base, AppInv, AppStart(AppProc)
  PROVE  AppInv'
<1> DEFINE p == AppProc
<1>1. PICK env \in EnvKeys \cup {NoKey}, reach \in BOOLEAN :
        Becomes(p, [Off EXCEPT !.pc = "ladder", !.env = env, !.reach = reach, !.seen = record])
  BY DEF AppStart
<1> DEFINE q == [Off EXCEPT !.pc = "ladder", !.env = env, !.reach = reach, !.seen = record]
<1>2. env \in MaybeKey /\ record \in MaybeKey
  BY BaseParts, CustodyAssumption DEF SharedTyped, MaybeKey
<1>3. q \in Proc /\ q.pc = "ladder" /\ q.env = env /\ q.seen = record
  BY <1>2, OffFields DEF Proc, Places
<1>4. Becomes(p, q)
  BY <1>1
<1> HIDE DEF q
<1>5. proc'[p] = q
  BY <1>3, <1>4, AppKeyAssumption, BaseParts, Becoming
<1>6. AppQuiet
  BY DEF AppStart, AppQuiet, AppSlots, slots, retirement, history
<1>7. AppPlace'
  BY <1>3, <1>5, <1>6 DEF AppPlace, AppQuiet, Early
<1> QED BY <1>6, <1>7, AppQuietKeeps

LEMMA AppFindKeyKeeps ==
  ASSUME Base, AppInv, AppFindKey(AppProc)
  PROVE  AppInv'
<1> DEFINE p == AppProc
<1>1. /\ UNCHANGED <<chain, legacy, record, index, sealed, lost, astray>>
      /\ At(p, "ladder") /\ proc[p].seen = record /\ proc[p].env \in EnvKeys \cup {NoKey}
      /\ p \in Procs
  BY AppKeyAssumption, BaseParts
     DEF AppFindKey, retirement, history, AppInv, AppPlace, Early, At, Shape
<1>2. CASE proc[p].env # NoKey /\ Found(p, proc[p].env, "env") /\ UNCHANGED file
  <2>1. proc[p].env \in EnvKeys /\ proc[p].env \in Keys
    BY <1>1, <1>2, CustodyAssumption
  <2>2. Elsewhere(p, "check") /\ proc'[p].key = proc[p].env /\ proc'[p].source = "env"
    BY <1>1, <1>2, <2>1, FoundMoves
  <2>3. AppPlace'
    BY <1>1, <1>2, <2>1, <2>2 DEF AppPlace, AppFound, Elsewhere, Early
  <2>4. AppQuiet
    BY <1>1, <1>2 DEF AppQuiet, AppSlots
  <2> QED BY <2>3, <2>4, AppQuietKeeps
<1>3. CASE proc[p].env = NoKey /\ chain \in Keys /\ Found(p, chain, "keychain") /\ retire_app_file
  <2>2. Elsewhere(p, "check") /\ proc'[p].key = chain /\ proc'[p].source = "keychain"
    BY <1>1, <1>3, FoundMoves
  <2>3. AppPlace'
    BY <1>1, <1>3, <2>2 DEF AppPlace, AppFound, Elsewhere, Early
  <2>4. AppQuiet
    BY <1>1, <1>3, CustodyAssumption DEF AppQuiet, AppSlots, retire_app_file
  <2> QED BY <2>3, <2>4, AppQuietKeeps
<1>4. CASE /\ proc[p].env = NoKey /\ ~proc[p].reach /\ p \in FileHosts /\ file \in Keys
           /\ Found(p, file, "file") /\ UNCHANGED file
  <2>2. Elsewhere(p, "check") /\ proc'[p].key = file /\ proc'[p].source = "file"
    BY <1>1, <1>4, FoundMoves
  <2>3. AppPlace'
    BY <1>1, <1>4, <2>2 DEF AppPlace, AppFound, Elsewhere, Early
  <2>4. AppQuiet
    BY <1>1, <1>4 DEF AppQuiet, AppSlots
  <2> QED BY <2>3, <2>4, AppQuietKeeps
<1> QED BY <1>2, <1>3, <1>4 DEF AppFindKey

LEMMA AppFillKeeps ==
  ASSUME Base, AppInv, AppFill(AppProc)
  PROVE  AppInv'
<1> DEFINE p == AppProc
<1>1. /\ UNCHANGED <<chain, file, legacy, record, index, sealed, lost, astray>>
      /\ At(p, "ladder") /\ proc[p].seen = record /\ p \in Procs /\ proc[p].env = NoKey
  BY AppKeyAssumption
     DEF AppFill, Empty, Unavailable, slots, retirement, history, AppInv, AppPlace, Early, At
<1>2. AppQuiet
  BY <1>1 DEF AppQuiet, AppSlots
<1>3. PICK k \in Keys, place \in {"store", "publish"} :
        /\ proc' = [proc EXCEPT ![p].pc = place, ![p].key = k]
        /\ IF place = "store" THEN chain = NoKey ELSE ~proc[p].reach /\ p \in FileHosts
  BY FillersAreKeys DEF AppFill, Empty, Unavailable
<1>4. Elsewhere(p, place) /\ proc'[p].key = k
  BY <1>1, <1>3, FillMoves
<1>5. AppPlace'
  BY <1>1, <1>3, <1>4 DEF AppPlace, Elsewhere, Early
<1> QED BY <1>2, <1>5, AppQuietKeeps

LEMMA AppRefuseKeeps ==
  ASSUME Base, AppInv, AppRefuse(AppProc) \/ Stop(AppProc)
  PROVE  AppInv'
<1>1. UNCHANGED <<chain, file, legacy, record, index, sealed, lost, astray>>
  BY DEF AppRefuse, Stop, slots, retirement, history
<1>2. proc'[AppProc].pc = "off"
  BY AppKeyAssumption, BaseParts, OffFields, Becoming DEF AppRefuse, Stop
<1>3. AppQuiet
  BY <1>1 DEF AppQuiet, AppSlots
<1> QED BY <1>2, <1>3, AppOffPlace, AppQuietKeeps

LEMMA AppStoreKeeps ==
  ASSUME Base, AppInv, AppStore(AppProc)
  PROVE  AppInv'
<1> DEFINE p == AppProc
<1>1. /\ UNCHANGED <<file, legacy, record, index, sealed, lost, astray>>
      /\ At(p, "store") /\ proc[p].seen = record /\ p \in Procs /\ proc[p].env = NoKey
      /\ proc[p].key \in Keys /\ chain = NoKey /\ NoKey \notin Keys
  BY AppKeyAssumption, BaseParts, CustodyAssumption
     DEF AppStore, retirement, history, AppInv, AppPlace, Early, At, Shape
<1>2. CASE chain' = proc[p].key /\ GoTo(p, "verify")
  <2>1. Elsewhere(p, "verify") /\ proc'[p].key = proc[p].key
    BY <1>1, <1>2, GoToMoves DEF Places
  <2>2. AppQuiet
    BY <1>1 DEF AppQuiet, AppSlots
  <2>3. AppPlace'
    BY <1>1, <1>2, <2>1 DEF AppPlace, Elsewhere, Early
  <2> QED BY <2>2, <2>3, AppQuietKeeps
<1>3. CASE UNCHANGED chain /\ IF p \in FileHosts THEN GoTo(p, "publish") ELSE Becomes(p, Off)
  <2>1. proc'[p].pc = "off" \/ (p \in FileHosts /\ Elsewhere(p, "publish"))
    BY <1>1, <1>3, GoToMoves, BaseParts, OffFields, Becoming DEF Places
  <2>2. AppQuiet
    BY <1>1, <1>3 DEF AppQuiet, AppSlots
  <2>3. AppPlace'
    BY <1>1, <1>3, <2>1, AppOffPlace DEF AppPlace, Elsewhere, Early
  <2> QED BY <2>2, <2>3, AppQuietKeeps
<1> QED BY <1>2, <1>3 DEF AppStore

LEMMA AppVerifyKeeps ==
  ASSUME Base, AppInv, AppVerify(AppProc)
  PROVE  AppInv'
<1> DEFINE p == AppProc
<1>1. /\ UNCHANGED <<chain, legacy, record, index, sealed, lost, astray>>
      /\ At(p, "verify") /\ proc[p].seen = record /\ p \in Procs /\ proc[p].env = NoKey
      /\ proc[p].key \in Keys
  BY AppKeyAssumption, BaseParts
     DEF AppVerify, retirement, history, AppInv, AppPlace, Early, At, Shape
<1>2. CASE chain = proc[p].key
  <2>1. Found(p, chain, "keychain") /\ retire_app_file
    BY <1>2 DEF AppVerify
  <2>2. Elsewhere(p, "check") /\ proc'[p].key = chain /\ proc'[p].source = "keychain"
    BY <1>1, <1>2, <2>1, FoundMoves
  <2>3. AppQuiet
    BY <1>1, <2>1, CustodyAssumption DEF AppQuiet, AppSlots, retire_app_file
  <2>4. AppPlace'
    BY <1>1, <2>2 DEF AppPlace, AppFound, Elsewhere, Early
  <2> QED BY <2>3, <2>4, AppQuietKeeps
<1>3. CASE chain # proc[p].key
  <2>1. Becomes(p, Off) /\ UNCHANGED file
    BY <1>3 DEF AppVerify
  <2>2. AppQuiet /\ proc'[p].pc = "off"
    BY <1>1, <2>1, BaseParts, OffFields, Becoming DEF AppQuiet, AppSlots
  <2> QED BY <2>2, AppOffPlace, AppQuietKeeps
<1> QED BY <1>2, <1>3

LEMMA AppPublishKeeps ==
  ASSUME Base, AppInv, PublishKey(AppProc)
  PROVE  AppInv'
<1> DEFINE p == AppProc
<1>1. /\ UNCHANGED <<chain, legacy, record, index, sealed, lost, astray>>
      /\ At(p, "publish") /\ proc[p].seen = record /\ p \in Procs /\ proc[p].env = NoKey
      /\ proc[p].key \in Keys /\ p \in FileHosts /\ (proc[p].reach => chain = NoKey)
  BY AppKeyAssumption, BaseParts
     DEF PublishKey, retirement, history, AppInv, AppPlace, Early, At, Shape
<1>2. file' = IF file = NoKey THEN proc[p].key ELSE file
  BY DEF PublishKey, Published
<1>3. AppQuiet
  BY <1>1, <1>2, CustodyAssumption DEF AppQuiet, AppSlots
<1>4. CASE file' \in Keys
  <2>1. Elsewhere(p, "check") /\ proc'[p].key = file' /\ proc'[p].source = "file"
    BY <1>1, <1>4, FoundMoves DEF PublishKey
  <2>2. AppPlace'
    BY <1>1, <2>1 DEF AppPlace, AppFound, Elsewhere, Early
  <2> QED BY <1>3, <2>2, AppQuietKeeps
<1>5. CASE file' \notin Keys
  <2>1. file \notin Keys
    BY <1>1, <1>2, <1>5
  <2>2. candidates(proc[p]) = {}
    BY <1>1, <2>1, CustodyAssumption DEF candidates, Live, Retired, AppInv, AppSealed
  <2>3. proc'[p] = Off
    BY <1>1, <1>5, <2>2, RefusedMoves DEF PublishKey
  <2> QED BY <1>3, <2>3, OffFields, AppOffPlace, AppQuietKeeps
<1> QED BY <1>4, <1>5

(* The key an app goes on with is the only one anything it answers for is  *)
(* sealed under.                                                           *)
LEMMA AppCheckKeeps ==
  ASSUME Base, AppInv, AppCheck(AppProc)
  PROVE  AppInv'
<1> DEFINE p == AppProc
           q == proc[AppProc]
<1>1. /\ UNCHANGED <<chain, file, legacy, record, index, sealed, lost, astray>>
      /\ At(p, "check") /\ q.seen = record /\ p \in Procs /\ AppFound(q)
      /\ q.key \in Keys /\ q.source \in {"env", "keychain", "file"}
  BY AppKeyAssumption, BaseParts
     DEF AppCheck, slots, retirement, history, AppInv, AppPlace, Early, At, Shape, Proc
<1>2. AppQuiet
  BY <1>1 DEF AppQuiet, AppSlots
<1>3. CASE CurrentKeys(p) = {}
  <2>1. proc'[p].pc = "off"
    BY <1>1, <1>3, BaseParts, OffFields, Becoming DEF AppCheck
  <2> QED BY <1>2, <2>1, AppOffPlace, AppQuietKeeps
<1>4. CASE CurrentKeys(p) # {}
  <2>1. PICK k \in CurrentKeys(p), place \in {"run", "record"} : AppRuns(p, place, k)
    BY <1>4 DEF AppCheck
  <2>2. k \in Keys /\ proc'[p].pc = place /\ proc'[p].key = k /\ proc'[p].env = q.env
    BY <1>1, <2>1, AppRunsMoves
  <2>3. k \in AppLasting
    BY <1>1, <2>1 DEF CurrentKeys, AppCandidates, AppFound, AppLasting, AppSlots
  <2>4. ASSUME q.env = NoKey PROVE Entrusted \subseteq {k}
    <3>1. Entrusted \subseteq {record} \cap AppSlots \cap Keys
      BY BaseParts DEF AppInv, AppSealed, Entrusted, SharedTyped
    <3>2. CASE k = record
      BY <3>1, <3>2
    <3>3. CASE record = NoKey
      BY <3>1, <3>3, CustodyAssumption
    <3>4. CASE k # record /\ record # NoKey
      <4>1. k = q.key /\ record \notin AppCandidates(p) /\ (q.source = "file" => q.reach)
        BY <1>1, <2>1, <2>4, <3>4 DEF CurrentKeys, AppFound
      <4>2. record \notin AppSlots \cap Keys
        BY <1>1, <2>4, <4>1, CustodyAssumption DEF AppCandidates, AppFound, AppSlots
      <4> QED BY <3>1, <4>2
    <3> QED BY <3>2, <3>3, <3>4
  <2>5. AppPlace'
    <3>1. Entrusted' = Entrusted /\ AppLasting' = AppLasting
      BY <1>1 DEF Entrusted, AppLasting, AppSlots
    <3> QED BY <2>2, <2>3, <2>4, <3>1 DEF AppPlace, Early
  <2> QED BY <1>2, <2>5, AppQuietKeeps
<1> QED BY <1>3, <1>4

LEMMA AppRecordKeeps ==
  ASSUME Base, AppInv, AppRecord(AppProc), UNCHANGED <<slot, evidence>>
  PROVE  AppInv'
<1> DEFINE p == AppProc
           k == proc[AppProc].key
<1>1. /\ UNCHANGED <<chain, file, legacy, index, sealed, lost>>
      /\ At(p, "record") /\ p \in Procs /\ k \in Keys
      /\ k \in AppLasting /\ (proc[p].env = NoKey => Entrusted \subseteq {k})
  BY AppKeyAssumption, BaseParts
     DEF AppRecord, slots, retirement, AppInv, AppPlace, At, Shape
<1>2. Elsewhere(p, "run") /\ proc'[p].key = k
  BY <1>1, AppRecordBase
<1>3. Indexed' = Indexed /\ AppSlots' = AppSlots /\ AppLasting' = AppLasting
  BY <1>1 DEF Indexed, AppSlots, AppLasting
<1>4. CASE UNCHANGED <<record, astray>>
  <2>1. Entrusted' = Entrusted
    BY <1>1, <1>4 DEF Entrusted
  <2> QED BY <1>1, <1>2, <1>3, <1>4, <2>1 DEF AppInv, AppSealed, AppPlace, Elsewhere, Early
<1>5. CASE /\ record' = k
           /\ astray' = (astray \cup IF proc[p].env = NoKey THEN {} ELSE {record} \cap Keys) \ {k}
  <2>1. Entrusted \subseteq {record} \cap Keys
    BY BaseParts DEF AppInv, AppSealed, Entrusted, SharedTyped
  <2>2. Entrusted' \subseteq {k}
    BY <1>1, <1>5, <2>1 DEF Entrusted
  <2>3. Entrusted' \subseteq AppSlots
    BY <1>1, <2>2 DEF Entrusted, AppLasting
  <2> QED BY <1>1, <1>2, <1>3, <1>5, <2>2, <2>3 DEF AppInv, AppSealed, AppPlace, Elsewhere, Early
<1> QED BY <1>4, <1>5 DEF AppRecord

LEMMA AppSealKeeps ==
  ASSUME Base, AppInv, Seal(AppProc)
  PROVE  AppInv'
<1> DEFINE p == AppProc
           k == proc[AppProc].key
<1>1. /\ UNCHANGED <<chain, file, legacy, record, index, proc, lost>>
      /\ At(p, "run") /\ sealed' = sealed \cup {k}
      /\ astray' = IF k = record THEN astray ELSE astray \cup {k}
      /\ k \in AppLasting /\ (proc[p].env = NoKey => Entrusted \subseteq {k})
  BY DEF Seal, slots, retirement, AppInv, AppPlace, At
<1>2. Indexed' = Indexed /\ AppSlots' = AppSlots /\ AppLasting' = AppLasting
  BY <1>1 DEF Indexed, AppSlots, AppLasting
<1>3. Entrusted' \subseteq Entrusted \cup ({record} \cap {k} \cap AppSlots)
  BY <1>1 DEF Entrusted, AppLasting
<1> QED BY <1>1, <1>2, <1>3 DEF AppInv, AppSealed, AppPlace, Early, At

LEMMA AppLoseKeeps ==
  ASSUME Base, AppInv, LoseEntry
  PROVE  AppInv'
<1>1. /\ UNCHANGED <<file, legacy, record, index, sealed, proc, astray>>
      /\ chain' = NoKey /\ lost' = lost \cup {chain} /\ chain \in Keys
  BY DEF LoseEntry, retirement
<1>2. Indexed' = Indexed /\ Entrusted' = Entrusted \ {chain}
  BY <1>1 DEF Indexed, Entrusted
<1>3. AppLasting \ {chain} \subseteq AppLasting' /\ chain \in AppLasting'
      /\ AppSlots \ {chain} \subseteq AppSlots'
  BY <1>1 DEF AppLasting, AppSlots
<1>4. AppSealed'
  BY <1>1, <1>2, <1>3 DEF AppInv, AppSealed
<1>5. AppFound(proc[AppProc]) => AppFound(proc[AppProc])'
  BY <1>1, CustodyAssumption DEF AppFound
<1>6. AppPlace'
  BY <1>1, <1>2, <1>3, <1>5 DEF AppInv, AppPlace, Early
<1> QED BY <1>4, <1>6 DEF AppInv

-----------------------------------------------------------------------------
AppAlone == \A o \in Procs \ {AppProc} : At(o, "off")

HostInv ==
  Base /\ (slot = "master" => CustodyInv) /\ (slot = "app" => AppInv /\ AppAlone)

LEMMA AppInit == HostInit /\ slot = "app" => AppInv /\ AppAlone
<1> SUFFICES ASSUME HostInit, slot = "app" PROVE AppInv /\ AppAlone
  OBVIOUS
<1>1. \A p \in Procs : proc[p].pc = "off"
  BY OffFields DEF HostInit, Init
<1>2. Entrusted = {} /\ Indexed = {} /\ legacy = NoKey
  BY DEF HostInit, Init, Entrusted, Indexed
<1> QED BY <1>1, <1>2, AppKeyAssumption DEF AppInv, AppSealed, AppPlace, Early, AppAlone, At

(* An app key has one process. *)
LEMMA AppMovesOne ==
  ASSUME Base, AppNext, NEW o \in Procs \ {AppProc}
  PROVE  proc'[o] = proc[o]
<1>1. \A q : Becomes(AppProc, q) => proc'[o] = proc[o]
  BY BaseParts DEF Becomes
<1>2. \A place : GoTo(AppProc, place) => proc'[o] = proc[o]
  BY BaseParts DEF GoTo
<1>3. \A k, source : Found(AppProc, k, source) => proc'[o] = proc[o]
  BY BaseParts DEF Found
<1>4. AppStart(AppProc) \/ AppRefuse(AppProc) \/ AppCheck(AppProc) \/ Stop(AppProc) =>
        proc'[o] = proc[o]
  BY <1>1 DEF AppStart, AppRefuse, AppCheck, AppRuns, Stop
<1>5. AppStore(AppProc) \/ AppRecord(AppProc) => proc'[o] = proc[o]
  BY <1>1, <1>2 DEF AppStore, AppRecord
<1>6. AppFindKey(AppProc) \/ AppVerify(AppProc) \/ PublishKey(AppProc) => proc'[o] = proc[o]
  BY <1>1, <1>3 DEF AppFindKey, AppVerify, PublishKey, Refused, Runs
<1>7. AppFill(AppProc) => proc'[o] = proc[o]
  BY BaseParts DEF AppFill
<1>8. Seal(AppProc) \/ LoseEntry => proc'[o] = proc[o]
  BY DEF Seal, LoseEntry
<1> QED BY <1>4, <1>5, <1>6, <1>7, <1>8 DEF AppNext, AppSeals

LEMMA AppStep ==
  ASSUME Base, AppInv, AppNext, UNCHANGED slot
  PROVE  AppInv'
<1>1. CASE AppSeals(AppProc)
  BY <1>1, AppSealKeeps DEF AppSeals
<1>2. CASE ~AppSeals(AppProc)
  BY <1>2, AppStartKeeps, AppFindKeyKeeps, AppFillKeeps, AppRefuseKeeps, AppStoreKeeps,
     AppVerifyKeeps, AppPublishKeeps, AppCheckKeeps, AppRecordKeeps, AppLoseKeeps DEF AppNext
<1> QED BY <1>1, <1>2

LEMMA AppStutters ==
  ASSUME AppInv, UNCHANGED vars
  PROVE  AppInv'
<1>1. UNCHANGED <<chain, file, legacy, record, index, sealed, proc, lost, astray>>
  BY DEF vars, slots, retirement, history
<1>2. /\ Entrusted' = Entrusted /\ Indexed' = Indexed /\ AppSlots' = AppSlots
      /\ AppLasting' = AppLasting
  BY <1>1 DEF Entrusted, Indexed, AppSlots, AppLasting
<1> QED BY <1>1, <1>2 DEF AppInv, AppSealed, AppPlace, AppFound, Early

LEMMA HostInvHolds == HostSpec => []HostInv
<1>1. HostInit => HostInv
  BY HostInitBase, CustodyInit, AppInit DEF HostInv
<1>2. HostInv /\ [HostNext]_hostVars => HostInv'
  <2> SUFFICES ASSUME HostInv, [HostNext]_hostVars PROVE HostInv'
    OBVIOUS
  <2>1. Base'
    BY BaseStep DEF HostInv
  <2>2. slot' = slot
    BY DEF HostNext, hostVars
  <2>3. CASE UNCHANGED hostVars
    BY <2>1, <2>2, <2>3, CustodyStutters, AppStutters DEF HostInv, hostVars, vars, AppAlone, At
  <2>4. CASE slot = "master" /\ Next
    BY <2>1, <2>2, <2>4, CustodyStep DEF HostInv
  <2>5. CASE slot = "app" /\ AppNext
    BY <2>1, <2>2, <2>5, AppStep, AppMovesOne DEF HostInv, AppAlone, At
  <2> QED BY <2>3, <2>4, <2>5 DEF HostNext
<1> QED BY <1>1, <1>2, PTL DEF HostSpec

LEMMA AppInvImplies ==
  ASSUME Base, AppInv, slot = "app"
  PROVE  /\ At(AppProc, "run") /\ proc[AppProc].env = NoKey =>
              Entrusted \subseteq {proc[AppProc].key} \cup proc[AppProc].retired
         /\ \A k \in Entrusted : Held(k)
<1>1. At(AppProc, "run") /\ proc[AppProc].env = NoKey => Entrusted \subseteq {proc[AppProc].key}
  BY DEF AppInv, AppPlace, At
<1>2. \A k \in Entrusted : Held(k)
  BY DEF AppInv, AppSealed, AppSlots, Held
<1> QED BY <1>1, <1>2

(***************************************************************************)
(* No key something is sealed under is ever without a copy: what resolve,  *)
(* the ladder, the retired-key vault and the keys commands write comes in  *)
(* an order that a crash between any two writes, a full vault, a refused   *)
(* keychain and another process at work do not lose a key in, unless two   *)
(* processes filled empty custody at once. An app's key needs no such      *)
(* exception.                                                              *)
(***************************************************************************)
THEOREM SealingKeysHeld == HostSpec => []SealingKeysAreHeld
<1>1. HostInv => SealingKeysAreHeld
  BY CustodyInvImplies, AppInvImplies, BaseParts DEF HostInv, SharedTyped, SealingKeysAreHeld
<1> QED BY <1>1, HostInvHolds, PTL

(***************************************************************************)
(* The process that owns the folder (records_kcv) never seals under a key  *)
(* that state/master-key.kcv does not name: resolve records the key before *)
(* it runs with it, and goes to another candidate or stops when the key of *)
(* the ladder is not the recorded one.                                     *)
(***************************************************************************)
THEOREM OwnerFollowsTheRecord == HostSpec => []OwnerUsesRecordedKey
<1>1. HostInv => OwnerUsesRecordedKey
  <2> SUFFICES ASSUME HostInv PROVE OwnerUsesRecordedKey
    OBVIOUS
  <2>1. CASE slot = "master"
    BY <2>1, CustodyInvImplies DEF HostInv
  <2>2. CASE slot = "app"
    BY <2>2, AppKeyAssumption, CustodyAssumption DEF HostInv, AppAlone, OwnerUsesRecordedKey, At
  <2> QED BY <2>1, <2>2, BaseParts DEF HostInv, SharedTyped
<1> QED BY <1>1, HostInvHolds, PTL

(***************************************************************************)
(* What the owner of the folder, or an app, runs with opens everything     *)
(* sealed under a key that is within its reach: a replaced key is in the   *)
(* vault before the record changes, resolve loads the whole vault, and     *)
(* resolve_app_key goes on only with the one key its slot's data can be    *)
(* under.                                                                  *)
(***************************************************************************)
THEOREM RunsOpen == HostSpec => []RunsOpenAll
<1>1. HostInv => RunsOpenAll
  BY CustodyInvImplies, AppInvImplies DEF HostInv, RunsOpenAll
<1> QED BY <1>1, HostInvHolds, PTL
=============================================================================
