---------------------------- MODULE WriteOnceFile ----------------------------
(* What a sealed file promises: it appears whole or not at all, and a reader *)
(* gets the bytes that were written, at the position it asked for.           *)
EXTENDS Naturals, Sequences

CONSTANTS Absent, Bytes

VARIABLES
  content,   \* the bytes of the file, or Absent
  position,  \* where the reader stands, or Absent
  got        \* what the last read returned

vars == <<content, position, got>>

Init == content = Absent /\ position = Absent /\ got = <<>>

Publish ==
  /\ content = Absent /\ content' \in Seq(Bytes)
  /\ UNCHANGED <<position, got>>

\* The machine stops: what was not synced may be gone, every reader is.
Lose == content' \in {content, Absent} /\ position' = Absent /\ got' = <<>>

Open ==
  /\ content # Absent /\ position' = 0
  /\ got' = <<>>
  /\ UNCHANGED content

\* A read returns some bytes from the position on, and none only at the end.
Read ==
  /\ position # Absent /\ content # Absent
  /\ \E n \in 0..Len(content) :
       /\ n = 0 <=> position >= Len(content)
       /\ position + n <= Len(content) \/ n = 0
       /\ got' = SubSeq(content, position + 1, position + n)
       /\ position' = position + n
  /\ UNCHANGED content

Seek == position # Absent /\ position' \in Nat /\ got' = <<>> /\ UNCHANGED content

Next == Publish \/ Lose \/ Open \/ Read \/ Seek

Spec == Init /\ [][Next]_vars
=============================================================================
