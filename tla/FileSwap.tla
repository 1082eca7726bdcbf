------------------------------ MODULE FileSwap -------------------------------
(***************************************************************************)
(* Replacing a plaintext file by its sealed form: seal_file_in_place       *)
(* (crypto/src/sealed_file.rs) for a data file, write_secret_file and      *)
(* reseal_secret_file (crypto/src/secret_file.rs) for a secret. One path,  *)
(* processes that may be killed, a disk that may lose what was not synced. *)
(* A body has two halves, so that it can be cut or copied while it changes;*)
(* what a half holds is the version it was written at.                     *)
(***************************************************************************)
EXTENDS Naturals, Sequences, FiniteSets

CONSTANTS
  Procs,
  Nothing,
  MaxVersions,  \* bound on what is ever written to the path
  MaxFiles,     \* bound on the files created
  MaxFaults     \* bound on kills, power losses and failed writes

ASSUME SwapAssumption ==
  MaxVersions \in Nat \ {0} /\ MaxFiles \in Nat \ {0} /\ MaxFaults \in Nat /\ Nothing \notin Nat

VARIABLES
  kind,       \* what the path is: a "data" file or a "secret"
  files,      \* the bodies of all files created so far
  synced,     \* files whose body is on stable storage
  dir,        \* the names: path, and temp for <name>.sealing
  onDisk,     \* directories a power loss may leave
  proc,       \* what each process does
  newest,     \* the version last written to the path
  overlapped, \* whether that write came while an older version was being sealed
  versions, faults

swapVars == <<kind, files, synced, dir, onDisk, proc, newest, overlapped, versions, faults>>
disk == <<files, synced, dir, onDisk>>
history == <<kind, newest, overlapped, versions, faults>>

Body(form, halves, final) == [form |-> form, halves |-> halves, final |-> final]
WholeBody(body) == Len(body.halves) = 2 /\ (body.form = "sealed" => body.final)
Idle == [at |-> "idle"]

SwapInit ==
  /\ kind \in {"data", "secret"}
  /\ files = <<Body("plain", <<1, 1>>, TRUE)>> /\ synced = {1}
  /\ dir = [path |-> 1, temp |-> Nothing] /\ onDisk = {dir}
  /\ proc = [p \in Procs |-> Idle]
  /\ newest = 1 /\ overlapped = FALSE
  /\ versions = 1 /\ faults = 0

At(p, place) == proc[p].at = place
Goto(p, place) == proc' = [proc EXCEPT ![p].at = place]
Path == files[dir.path]

\* A change of the directory: until it is synced a power loss may undo it.
Renames(new) == dir' = new /\ onDisk' = onDisk \cup {new}

(***************************************************************************)
(* seal_file_in_place, one file-system call at a time. The owner seals a   *)
(* file from one process at a time.                                        *)
(***************************************************************************)
SealUnlessTemp(p) ==
  /\ kind = "data" /\ \A q \in Procs : At(q, "idle")
  /\ Path.form = "plain" /\ dir.temp = Nothing /\ Len(files) < MaxFiles
  /\ proc' = [proc EXCEPT ![p] = [at |-> "remove"]]
  /\ UNCHANGED <<disk, history>>

Seal(p) ==
  /\ kind = "data" /\ \A q \in Procs : At(q, "idle")
  /\ Path.form = "plain" /\ Len(files) < MaxFiles
  /\ proc' = [proc EXCEPT ![p] = [at |-> "remove"]]
  /\ UNCHANGED <<disk, history>>

RemoveStale(p) ==
  /\ At(p, "remove") /\ Goto(p, "create")
  /\ IF dir.temp = Nothing THEN UNCHANGED <<dir, onDisk>> ELSE Renames([dir EXCEPT !.temp = Nothing])
  /\ UNCHANGED <<files, synced, history>>

\* create_new refuses a name that exists.
CreateTemp(p) ==
  /\ At(p, "create") /\ dir.temp = Nothing
  /\ files' = Append(files, Body("sealed", <<>>, FALSE))
  /\ Renames([dir EXCEPT !.temp = Len(files) + 1])
  /\ proc' = [proc EXCEPT ![p] = [at |-> "copy", source |-> dir.path, file |-> Len(files) + 1]]
  /\ UNCHANGED <<synced, history>>

CopyHalf(p) ==
  /\ At(p, "copy")
  /\ LET f == proc[p].file
         done == Len(files[f].halves)
     IN  /\ done < 2
         /\ files' = [files EXCEPT ![f].halves =
                        Append(@, files[proc[p].source].halves[done + 1])]
  /\ UNCHANGED <<synced, dir, onDisk, proc, history>>

FinishTemp(p) ==
  /\ At(p, "copy") /\ Len(files[proc[p].file].halves) = 2
  /\ files' = [files EXCEPT ![proc[p].file].final = TRUE]
  /\ Goto(p, "sync")
  /\ UNCHANGED <<synced, dir, onDisk, history>>

SyncNothing(p) ==
  /\ At(p, "sync") /\ Goto(p, IF kind = "data" THEN "verify" ELSE "rename")
  /\ UNCHANGED <<disk, history>>

SyncTemp(p) ==
  /\ At(p, "sync") /\ Goto(p, IF kind = "data" THEN "verify" ELSE "rename")
  /\ synced' = synced \cup {proc[p].file}
  /\ UNCHANGED <<files, dir, onDisk, history>>

\* The sealed copy is opened by its name and must decrypt to what was read.
Verify(p) ==
  /\ At(p, "verify") /\ dir.temp # Nothing
  /\ WholeBody(files[dir.temp]) /\ files[dir.temp].halves = files[proc[p].file].halves
  /\ Goto(p, "rename")
  /\ UNCHANGED <<disk, history>>

RenameTemp(p) ==
  /\ kind = "data" /\ At(p, "rename")
  /\ Renames([path |-> dir.temp, temp |-> Nothing])
  /\ Goto(p, "syncdir")
  /\ UNCHANGED <<files, synced, history>>

\* sync_parent_dir: an error is dropped and off Unix nothing is synced; Sealed
\* is answered in every case.
SyncDir(p) ==
  /\ At(p, "syncdir") /\ onDisk' \in {onDisk, {dir}}
  /\ proc' = [proc EXCEPT ![p] = Idle]
  /\ UNCHANGED <<files, synced, dir, history>>

\* The owner changes its file in place, durably (external); a process that is
\* already copying it goes on.
Older(q) == proc[q].at # "idle" /\ "source" \in DOMAIN proc[q]

OwnerWrites ==
  /\ kind = "data" /\ Path.form = "plain" /\ versions < MaxVersions
  /\ versions' = versions + 1 /\ newest' = versions + 1
  /\ files' = [files EXCEPT ![dir.path] = Body("plain", <<versions + 1, versions + 1>>, TRUE)]
  /\ overlapped' = \E q \in Procs : Older(q)
  /\ UNCHANGED <<kind, synced, dir, onDisk, proc, faults>>

(***************************************************************************)
(* Secret files: the temporary file has a name of its own, that no other   *)
(* process uses and a kill leaves behind.                                  *)
(***************************************************************************)
Begin(p, task) ==
  /\ Len(files) < MaxFiles
  /\ files' = Append(files, Body("sealed", <<>>, FALSE))
  /\ proc' = [proc EXCEPT ![p] = task]

WriteSharedTemp(p) ==
  /\ kind = "secret" /\ At(p, "idle") /\ versions < MaxVersions
  /\ versions' = versions + 1
  /\ IF \E q \in Procs : At(q, "fill")
     THEN /\ proc' = [proc EXCEPT ![p] = [at |-> "fill", value |-> versions + 1, file |-> Len(files)]]
          /\ UNCHANGED files
     ELSE Begin(p, [at |-> "fill", value |-> versions + 1, file |-> Len(files) + 1])
  /\ UNCHANGED <<synced, dir, onDisk, kind, newest, overlapped, faults>>

WriteSecret(p) ==
  /\ kind = "secret" /\ At(p, "idle") /\ versions < MaxVersions
  /\ versions' = versions + 1
  /\ Begin(p, [at |-> "fill", value |-> versions + 1, file |-> Len(files) + 1])
  /\ UNCHANGED <<synced, dir, onDisk, kind, newest, overlapped, faults>>

\* reseal_secret_file has read a legacy body and writes it back sealed.
ResealSecret(p) ==
  /\ kind = "secret" /\ At(p, "idle") /\ Path.form = "plain"
  /\ Begin(p, [at |-> "fill", value |-> Path.halves[1], file |-> Len(files) + 1,
               source |-> dir.path])
  /\ UNCHANGED <<synced, dir, onDisk, history>>

FillHalf(p) ==
  /\ At(p, "fill")
  /\ LET f == proc[p].file
     IN  IF Len(files[f].halves) < 2
         THEN /\ files' = [files EXCEPT ![f].halves = Append(@, proc[p].value)]
              /\ UNCHANGED proc
         ELSE /\ files' = [files EXCEPT ![f].final = TRUE]
              /\ Goto(p, "sync")
  /\ UNCHANGED <<synced, dir, onDisk, history>>

\* persist: the rename of a secret; its directory is not synced.
Persist(p) ==
  /\ kind = "secret" /\ At(p, "rename")
  /\ Renames([dir EXCEPT !.path = proc[p].file])
  /\ IF Older(p) THEN UNCHANGED <<newest, overlapped>>
     ELSE /\ newest' = proc[p].value
          /\ overlapped' = \E q \in Procs : Older(q)
  /\ proc' = [proc EXCEPT ![p] = Idle]
  /\ UNCHANGED <<files, synced, kind, versions, faults>>

(***************************************************************************)
(* What goes wrong. An error removes the temporary file; a kill does not.  *)
(***************************************************************************)
Fault == faults < MaxFaults /\ faults' = faults + 1

FailWrite(p) ==
  /\ Fault /\ proc[p].at \in {"create", "copy", "fill", "sync", "verify"}
  /\ IF kind = "secret" \/ dir.temp = Nothing THEN UNCHANGED <<dir, onDisk>>
     ELSE Renames([dir EXCEPT !.temp = Nothing])
  /\ proc' = [proc EXCEPT ![p] = Idle]
  /\ UNCHANGED <<files, synced, kind, newest, overlapped, versions>>

Kill(p) ==
  /\ Fault /\ ~At(p, "idle")
  /\ proc' = [proc EXCEPT ![p] = Idle]
  /\ UNCHANGED <<disk, kind, newest, overlapped, versions>>

\* What may be left of a body that was not synced: some length of it.
Cut(body) ==
  {body} \cup {Body(body.form, SubSeq(body.halves, 1, n), FALSE) : n \in 0..Len(body.halves)}

Version(body) == IF body.halves = <<>> THEN Nothing ELSE body.halves[1]

PowerLoss ==
  /\ Fault
  /\ dir' \in onDisk /\ onDisk' = {dir'}
  /\ LET open == DOMAIN files \ synced
     IN  \E left \in [open -> UNION {Cut(files[f]) : f \in open}] :
           /\ \A f \in open : left[f] \in Cut(files[f])
           /\ files' = [f \in DOMAIN files |-> IF f \in open THEN left[f] ELSE files[f]]
  /\ synced' = DOMAIN files
  /\ proc' = [p \in Procs |-> Idle]
  /\ newest' = IF kind = "secret" THEN Version(files'[dir'.path]) ELSE newest
  /\ UNCHANGED <<kind, overlapped, versions>>

Step(p) ==
  \/ RemoveStale(p) \/ CreateTemp(p) \/ CopyHalf(p) \/ FinishTemp(p) \/ SyncTemp(p)
  \/ Verify(p) \/ RenameTemp(p) \/ SyncDir(p) \/ FillHalf(p) \/ Persist(p)

SwapNext ==
  \/ \E p \in Procs : Seal(p) \/ Step(p) \/ WriteSecret(p) \/ ResealSecret(p)
                        \/ FailWrite(p) \/ Kill(p)
  \/ OwnerWrites \/ PowerLoss

\* A started call runs on; "Callers mark the work pending and retry at the next
\* start" (sealed_file.rs:45-46), so an unsealed file is tried again.
Fairness == \A p \in Procs : WF_swapVars(Step(p)) /\ WF_swapVars(Seal(p))

SwapSpec == SwapInit /\ [][SwapNext]_swapVars /\ Fairness

(***************************************************************************)
(* Properties.                                                             *)
(***************************************************************************)
Places == {"idle", "remove", "create", "copy", "fill", "sync", "verify", "rename", "syncdir"}

\* Bodies, names and processes are well typed; the two names never share a file.
SwapTypeOK ==
  /\ kind \in {"data", "secret"}
  /\ files \in Seq([form : {"plain", "sealed"}, halves : Seq(1..MaxVersions), final : BOOLEAN])
  /\ Len(files) \in 1..MaxFiles /\ synced \subseteq DOMAIN files
  /\ dir \in onDisk
  /\ \A d \in onDisk : /\ d.path \in DOMAIN files
                       /\ d.temp \in DOMAIN files \cup {Nothing} /\ d.temp # d.path
  /\ \A p \in Procs : proc[p].at \in Places
  /\ newest \in 1..versions /\ versions \in 1..MaxVersions /\ faults \in 0..MaxFaults
  /\ overlapped \in BOOLEAN

\* "A crash never leaves a truncated secret" (secret_file.rs:12-14), "the original
\* is never removed before the sealed copy is verified" (sealed_file.rs:535): the
\* path holds a whole file at every moment, also after a power loss.
PathIsWhole == WholeBody(Path)

\* What the path holds is what was last written to it, in all its parts, unless
\* that came while an older version was being sealed (sealed_file.rs:586 and
\* secret_file.rs:80 put back what they read).
NewestStays == ~overlapped => Path.halves = <<newest, newest>>

\* A data file is sealed in the end, whatever kills and losses come before.
EventuallySealed == kind = "data" => <>[](Path.form = "sealed")
=============================================================================
