----------------------------- MODULE SealedLog -----------------------------
(***************************************************************************)
(* An append-only sealed log on disk and its one writer (crypto/src/       *)
(* sealed_log.rs): creation, appends that may be cut short, syncs, kills,  *)
(* power losses, key changes, and the scan that opens a log for append.    *)
(*                                                                         *)
(* A file is its header and the frames written after it, each the length   *)
(* of its body (one unit, so never cut) and as much of the body as was     *)
(* written.                                                                *)
(***************************************************************************)
EXTENDS Integers, Sequences

CONSTANTS
  Records,   \* records an owner appends
  SizeOf,    \* SizeOf[r]: units of the sealed body of record r
  Roots,     \* key roots
  MaxFrames  \* bound on the frames of a file

ASSUME SizeAssumption == SizeOf \in [Records -> Nat \ {0}]
ASSUME BoundAssumption == MaxFrames \in Nat

VARIABLES
  header,  \* the file and its first 32 bytes: absent, short or ok
  frames,  \* the frames after the header
  length,  \* units in the file after the header: past the frames, zeros
  synced,  \* frames whose bytes a sync or a repair has made durable
  writer,  \* the writer: closed, creating or open
  index,   \* its next_index
  key,     \* the root its log key comes from
  keys     \* the keys its process holds

vars == <<header, frames, length, synced, writer, index, key, keys>>

(* A frame starts `at' so many units after the header. *)
Frame == [rec : Records, index : Nat, key : Roots, at : Nat, has : Nat]

KeySets == [current : Roots, retired : SUBSET Roots]

TypeOK ==
  /\ header \in {"absent", "short", "ok"}
  /\ frames \in Seq(Frame)
  /\ \A i \in DOMAIN frames : frames[i].has <= SizeOf[frames[i].rec]
  /\ length \in Nat
  /\ synced \in 0..Len(frames)
  /\ writer \in {"closed", "creating", "open"}
  /\ index \in Nat
  /\ key \in Roots
  /\ keys \in KeySets

Init ==
  /\ header = "absent" /\ frames = <<>> /\ length = 0 /\ synced = 0
  /\ writer = "closed" /\ index = 0
  /\ keys \in [current : Roots, retired : {{}}]
  /\ key = keys.current
-----------------------------------------------------------------------------
Whole(frame) == frame.has = SizeOf[frame.rec]

(* The AEAD opens frame i under a root: key, and header and index as AAD.  *)
OpensAt(i, root) == Whole(frames[i]) /\ frames[i].key = root /\ frames[i].index = i - 1

(* scan_with gets this far: the records it commits. *)
CommittedUnder(root) ==
  CHOOSE n \in 0..Len(frames) :
    /\ \A i \in 1..n : OpensAt(i, root)
    /\ n < Len(frames) => ~OpensAt(n + 1, root)

(* Units in the file after the length of frame i. *)
UnitsFrom(i) == length - (frames[i].at + 1)

EndOf(n) == IF n = 0 THEN 0 ELSE frames[n].at + 1 + frames[n].has

(* A fault: bytes that end inside a body are corruption. *)
NoShortTail(root) == IF CommittedUnder(root) = Len(frames) THEN "clean" ELSE "corrupt"

(* How the scan ends: a body shorter than its length, and zeros at a       *)
(* boundary, are short; a body that does not open is a failed final record *)
(* when nothing follows it and corruption when something does.             *)
TailAt(root) ==
  LET n == CommittedUnder(root)
      body == SizeOf[frames[n + 1].rec]
      units == UnitsFrom(n + 1)
  IN  IF n = Len(frames) THEN IF length = EndOf(n) THEN "clean" ELSE "short"
      ELSE IF units < body THEN "short"
      ELSE IF units = body THEN "finalFailed" ELSE "corrupt"

(* open_log takes the first key whose scan does not fail; a first record   *)
(* that does not open means the wrong key.                                 *)
Accepts(root) ==
  /\ header = "ok"
  /\ \/ TailAt(root) \in {"clean", "short"}
     \/ TailAt(root) = "finalFailed" /\ CommittedUnder(root) > 0
-----------------------------------------------------------------------------
(* create: the file is there before its header is. *)
Create ==
  /\ writer = "closed" /\ header = "absent"
  /\ header' = "short" /\ writer' = "creating"
  /\ key' = keys.current
  /\ UNCHANGED <<frames, length, synced, index, keys>>

WriteHeader ==
  /\ writer = "creating"
  /\ header' = "ok" /\ writer' = "open"
  /\ index' = 0
  /\ UNCHANGED <<frames, length, synced, key, keys>>

(* A fault: the torn tail is left in place. *)
KeepAll(n) == frames

(* A fault: the last committed record goes with the torn tail. *)
KeepFewer(n) == SubSeq(frames, 1, n - 1)

(* set_len(committed_end) *)
Keep(n) == SubSeq(frames, 1, n)

(* A fault: every length prefix in the file counts as a record. *)
CountAll(n) == Len(frames)

(* count_records of the committed bytes. *)
CountRecords(n) == n

(* open_append on an existing log: verify, truncate a torn tail and sync,  *)
(* go on after the last committed record. Every other outcome is an error  *)
(* that leaves the file as it is.                                          *)
OpenAppend ==
  /\ writer = "closed"
  /\ Accepts(keys.current)
  /\ LET n == CommittedUnder(keys.current)
     IN  IF TailAt(keys.current) = "clean"
           THEN index' = CountRecords(n) /\ UNCHANGED <<frames, length, synced>>
           ELSE /\ frames' = Keep(n)
                /\ length' = EndOf(n)
                /\ synced' = n
                /\ index' = CountRecords(n)
  /\ writer' = "open"
  /\ key' = keys.current
  /\ UNCHANGED <<header, keys>>

(* A frame goes to the end of the file, whole or not. *)
Write(r, has) ==
  /\ frames' = Append(frames, [rec |-> r, index |-> index, key |-> key,
                               at |-> length, has |-> has])
  /\ length' = length + 1 + has

AppendRecord ==
  /\ writer = "open" /\ Len(frames) < MaxFrames
  /\ \E r \in Records : Write(r, SizeOf[r])
  /\ index' = index + 1
  /\ UNCHANGED <<header, synced, writer, key, keys>>

(* write_all fails part way: the record is not counted, its bytes stay,    *)
(* and nothing keeps the owner from appending after them.                  *)
FailAppend ==
  /\ writer = "open" /\ Len(frames) < MaxFrames
  /\ \E r \in Records : \E has \in 0..(SizeOf[r] - 1) : Write(r, has)
  /\ UNCHANGED <<header, synced, writer, index, key, keys>>

(* sync_data: every byte of the file, unfinished records included. *)
Sync ==
  /\ writer = "open"
  /\ synced' = Len(frames)
  /\ UNCHANGED <<header, frames, length, writer, index, key, keys>>

(* The process stops or is killed; what it has written stays. *)
Kill ==
  /\ writer # "closed"
  /\ writer' = "closed"
  /\ UNCHANGED <<header, frames, length, synced, index, key, keys>>

(* The machine loses power: synced bytes stay, and of the others some      *)
(* prefix, cut anywhere, zeros following it where the file was extended.   *)
PowerLoss ==
  /\ writer' = "closed"
  /\ IF header = "short" THEN header' \in {"absent", "short"} ELSE UNCHANGED header
  /\ \/ UNCHANGED <<frames, length>>
     \/ \E n \in synced..Len(frames) :
          frames' = SubSeq(frames, 1, n) /\ length' \in EndOf(n)..length
     \/ \E n \in (synced + 1)..Len(frames) : \E has \in 0..frames[n].has :
          /\ frames' = Append(SubSeq(frames, 1, n - 1), [frames[n] EXCEPT !.has = has])
          /\ length' \in (frames[n].at + 1 + has)..length
  /\ UNCHANGED <<synced, index, key, keys>>

(* The host delivers other keys to the next process. *)
ChangeKeys ==
  /\ writer = "closed"
  /\ \E root \in Roots \ {keys.current} :
       keys' = [current |-> root, retired |-> (keys.retired \cup {keys.current}) \ {root}]
  /\ UNCHANGED <<header, frames, length, synced, writer, index, key>>

Next ==
  \/ Create \/ WriteHeader \/ OpenAppend \/ AppendRecord \/ FailAppend \/ Sync
  \/ Kill \/ PowerLoss \/ ChangeKeys

Spec == Init /\ [][Next]_vars
-----------------------------------------------------------------------------
(* The root of the log: that of its first frame. *)
LogRoot == IF frames = <<>> THEN key ELSE frames[1].key

(* What a reader that holds the log's key gets. *)
Recovered == [i \in 1..CommittedUnder(LogRoot) |-> frames[i].rec]

(* `Records are never rewritten'; a torn tail `is bytes that never formed  *)
(* a committed record': what a reader gets only grows, and a crash takes   *)
(* only records that were not synced, through failed appends and those     *)
(* after them, kills, power losses and reopening under other keys. What is *)
(* appended past a failed append is never a record, synced or not.         *)
Durable ==
  LET n == CommittedUnder(LogRoot) IN IF synced < n THEN synced ELSE n

Log == INSTANCE AppendLog WITH records <- Recovered, durable <- Durable

ImplementsLog == Log!Spec

(* An open writer continues the log exactly up to the first append that    *)
(* failed: every record before it opens under the writer's key, and as     *)
(* long as none has failed the next index and the end of the file are      *)
(* those of the next record.                                               *)
WriterContinuesLog ==
  writer = "open" =>
    \E n \in 0..Len(frames) :
      /\ \A i \in 1..n : OpensAt(i, key)
      /\ IF n = Len(frames) THEN index = n /\ length = EndOf(n) ELSE ~Whole(frames[n + 1])

(* A writer that is opened, after whatever was cut, zero-filled or left     *)
(* unfinished by others, stands at the next record of a log that opens      *)
(* under its key to its last byte: nothing is left in front of its appends. *)
AtNextRecord ==
  /\ \A i \in DOMAIN frames : OpensAt(i, key)
  /\ index = Len(frames) /\ length = EndOf(Len(frames))

WriterStartsAtEnd == [][writer # "open" /\ writer' = "open" => AtNextRecord']_vars

(* Bytes after an unfinished record (zeros a power loss left, or what was  *)
(* appended after it failed) fill the length it announced.                 *)
Overrun(i) == ~Whole(frames[i]) /\ UnitsFrom(i) >= SizeOf[frames[i].rec]

(* Once its header was written, open_append takes a log back under the key *)
(* it was written with, zeros at the end of its records included. The one  *)
(* exception the code leaves is an unfinished record that other bytes fill *)
(* up: sealed_log.rs:134 calls a zero-filled tail torn, but that one ends  *)
(* as a record that does not open.                                         *)
ReopensAfterCrash ==
  header = "ok" => Accepts(LogRoot) \/ \E i \in DOMAIN frames : Overrun(i)
=============================================================================
