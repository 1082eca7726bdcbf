----------------------------- MODULE AppendLog -----------------------------
(***************************************************************************)
(* What a sealed log promises its owner (crypto/src/sealed_log.rs): a      *)
(* sequence of records that only grows, and of which a crash takes at most *)
(* a suffix that was never synced.                                         *)
(***************************************************************************)
EXTENDS Naturals, Sequences

CONSTANT Records

VARIABLES
  records,  \* the committed records, oldest first
  durable   \* how many of them survive a power loss

log == <<records, durable>>

Init == records = <<>> /\ durable = 0

AppendRecord == (\E r \in Records : records' = Append(records, r)) /\ UNCHANGED durable

Sync == durable' = Len(records) /\ UNCHANGED records

Lose ==
  /\ \E n \in durable..Len(records) : records' = SubSeq(records, 1, n)
  /\ UNCHANGED durable

Next == AppendRecord \/ Sync \/ Lose

Spec == Init /\ [][Next]_log
=============================================================================
