----------------------------- MODULE SealedFile ------------------------------
(***************************************************************************)
(* A write-once sealed file (crypto/src/sealed_file.rs): a writer that     *)
(* buffers one chunk so as to know the last one, a machine that stops with *)
(* any part of the file on disk, and a reader with one cached chunk.       *)
(* Lengths count units; the k-th unit of the plaintext is the number k.    *)
(* Encryption is abstracted to what it binds: a chunk opens whole, under   *)
(* its own root, index and last mark, or not at all.                       *)
(***************************************************************************)
EXTENDS Integers, Sequences, FiniteSets

CONSTANTS
  chunk_size,
  TAG_LEN,
  Roots,       \* roots of the store's cipher
  None,        \* no reader, no cached chunk, no content
  MaxLen       \* bound on the plaintext, on reads and on seeks

ASSUME FileAssumption ==
  /\ chunk_size \in Nat \ {0} /\ TAG_LEN \in Nat \ {0} /\ MaxLen \in Nat
  /\ None \notin Nat \cup Seq(Nat)
  /\ None \notin [count : Nat, len : Nat, position : Nat, cached : Nat, retired_key : BOOLEAN]

VARIABLES
  root,        \* the root the file is sealed under
  chunks,      \* the chunks sealed so far
  buffer,      \* plaintext the writer has not sealed yet
  pending,     \* plaintext write_plain has not buffered yet
  next_index,
  plain,       \* all plaintext handed to the writer
  status,      \* "writing", "sealed" (the last chunk is written), "synced", "stopped"
  size,        \* length of the body that is in the file
  lost,        \* chunks whose bytes are not those written
  reader,      \* an open reader, or None
  got          \* what the last read returned

file == <<root, chunks, plain, status, size, lost>>
writer == <<file, buffer, pending, next_index>>
vars == <<writer, reader, got>>

sealed_chunk == chunk_size + TAG_LEN
MinOf(a, b) == IF a <= b THEN a ELSE b

Init ==
  /\ root \in Roots /\ chunks = <<>> /\ buffer = <<>> /\ pending = <<>>
  /\ next_index = 0 /\ plain = <<>> /\ status = "writing" /\ size = 0 /\ lost = {}
  /\ reader = None /\ got = <<>>

(***************************************************************************)
(* The writer.                                                             *)
(***************************************************************************)
WritePlain(n) ==
  /\ status = "writing" /\ pending = <<>> /\ Len(plain) + n <= MaxLen
  /\ pending' = [i \in 1..n |-> Len(plain) + i]
  /\ plain' = plain \o pending'
  /\ UNCHANGED <<root, chunks, buffer, next_index, status, size, lost, reader, got>>

SealChunkKeepsIndex(last) ==
  /\ chunks' = Append(chunks, [index |-> next_index, last |-> last, plain |-> buffer])
  /\ size' = size + Len(buffer) + TAG_LEN
  /\ buffer' = <<>>
  /\ UNCHANGED next_index

SealChunk(last) ==
  /\ chunks' = Append(chunks, [index |-> next_index, last |-> last, plain |-> buffer])
  /\ size' = size + Len(buffer) + TAG_LEN
  /\ next_index' = next_index + 1
  /\ buffer' = <<>>

\* A full buffer is sealed as a middle chunk only once more data follows.
SealMiddle ==
  /\ status = "writing" /\ pending # <<>> /\ Len(buffer) = chunk_size
  /\ SealChunk(FALSE)
  /\ UNCHANGED <<root, pending, plain, status, lost, reader, got>>

Fill ==
  /\ status = "writing" /\ pending # <<>> /\ Len(buffer) < chunk_size
  /\ LET take == MinOf(chunk_size - Len(buffer), Len(pending))
     IN  /\ buffer' = buffer \o SubSeq(pending, 1, take)
         /\ pending' = SubSeq(pending, take + 1, Len(pending))
  /\ UNCHANGED <<file, next_index, reader, got>>

Finish ==
  /\ status = "writing" /\ pending = <<>>
  /\ SealChunk(TRUE)
  /\ status' = "sealed"
  /\ UNCHANGED <<root, pending, plain, lost, reader, got>>

SyncAll ==
  /\ status = "sealed" /\ status' = "synced"
  /\ UNCHANGED <<root, chunks, plain, size, lost, buffer, pending, next_index, reader, got>>

\* A failed write, a kill or a power loss before sync_all: some length of the
\* file is left, and any chunks of it may be other bytes.
Stop ==
  /\ status \in {"writing", "sealed"} /\ status' = "stopped"
  /\ size' \in 0..size /\ lost' \in SUBSET (1..Len(chunks))
  /\ reader' = None /\ got' = <<>>
  /\ UNCHANGED <<root, chunks, plain, buffer, pending, next_index>>

(***************************************************************************)
(* The reader: all it knows of the file is its length and its chunks.      *)
(***************************************************************************)
full == size \div sealed_chunk
rem == size % sealed_chunk
WellSized == (rem = 0 /\ full > 0) \/ rem >= TAG_LEN
chunk_count == IF rem = 0 THEN full ELSE full + 1
plaintext_len == full * chunk_size + (IF rem = 0 THEN 0 ELSE rem - TAG_LEN)

\* Where chunk index lies, by the arithmetic of load_chunk.
Offset(index) == index * sealed_chunk
Length(index, count, len) ==
  IF index + 1 = count THEN len - index * chunk_size + TAG_LEN ELSE sealed_chunk

LoadsUnmarked(index, count, len) ==
  /\ index < count /\ index + 1 <= Len(chunks)
  /\ LET chunk == chunks[index + 1]
     IN  /\ Length(index, count, len) = Len(chunk.plain) + TAG_LEN
         /\ Offset(index) + Length(index, count, len) <= size
         /\ index + 1 \notin lost
         /\ chunk.index = index

\* Whether chunk index opens: the bytes are the whole chunk that was written
\* there, sealed with this index and with this last mark.
Loads(index, count, len) ==
  /\ index < count /\ index + 1 <= Len(chunks)
  /\ LET chunk == chunks[index + 1]
     IN  /\ Length(index, count, len) = Len(chunk.plain) + TAG_LEN
         /\ Offset(index) + Length(index, count, len) <= size
         /\ index + 1 \notin lost
         /\ chunk.index = index /\ chunk.last = (index + 1 = count)

\* SealedFileReader::open under a current root and retired ones.
Open(current, retired) ==
  /\ reader = None /\ size >= TAG_LEN /\ WellSized
  /\ root \in {current} \cup retired
  /\ Loads(chunk_count - 1, chunk_count, plaintext_len)
  /\ reader' = [count |-> chunk_count, len |-> plaintext_len, position |-> 0,
                cached |-> chunk_count - 1, retired_key |-> root # current]
  /\ got' = <<>>
  /\ UNCHANGED writer

Index == reader.position \div chunk_size
CanLoad(index) == reader.cached = index \/ Loads(index, reader.count, reader.len)

ReadFromCache(n) ==
  /\ reader # None /\ n > 0
  /\ IF reader.position >= reader.len
     THEN got' = <<>> /\ UNCHANGED reader
     ELSE /\ CanLoad(Index)
          /\ LET chunk == chunks[reader.cached + 1].plain
                 within == reader.position - Index * chunk_size
                 take == MinOf(n, Len(chunk) - within)
             IN  /\ got' = SubSeq(chunk, within + 1, within + take)
                 /\ reader' = [reader EXCEPT !.position = @ + take]
  /\ UNCHANGED writer

\* Read::read with a buffer of n units.
Read(n) ==
  /\ reader # None /\ n > 0
  /\ IF reader.position >= reader.len
     THEN got' = <<>> /\ UNCHANGED reader
     ELSE /\ CanLoad(Index)
          /\ LET chunk == chunks[Index + 1].plain
                 within == reader.position - Index * chunk_size
                 take == MinOf(n, Len(chunk) - within)
             IN  /\ got' = SubSeq(chunk, within + 1, within + take)
                 /\ reader' = [reader EXCEPT !.cached = Index, !.position = @ + take]
  /\ UNCHANGED writer

\* A chunk that does not open fails the read and leaves the cached one.
ReadFails ==
  /\ reader # None /\ reader.position < reader.len /\ ~CanLoad(Index)
  /\ got' = <<>>
  /\ UNCHANGED <<writer, reader>>

\* Seek::seek to an absolute target; one before the start is refused.
Seek(target) ==
  /\ reader # None /\ target >= 0
  /\ reader' = [reader EXCEPT !.position = target] /\ got' = <<>>
  /\ UNCHANGED writer

\* From the start, the end and the current position, up to one past MaxLen.
Targets ==
  (0..MaxLen \cup {reader.len - delta : delta \in 0..MaxLen}
           \cup {reader.position + delta : delta \in -MaxLen..1}) \cap (-MaxLen)..(MaxLen + 1)

Close == reader # None /\ reader' = None /\ got' = <<>> /\ UNCHANGED writer

WholeChunks(start, n) ==
  LET end == MinOf(start + n, reader.len)
      from[p \in 0..end] ==
        IF p = end THEN <<>>
        ELSE LET chunk == chunks[(p \div chunk_size) + 1].plain
                 take == MinOf(end - p, Len(chunk))
             IN  SubSeq(chunk, 1, take) \o from[p + take]
  IN  IF start >= end THEN <<>> ELSE from[start]

\* read_range: chunk by chunk from start to the end of the range.
ReadRange(start, n) ==
  LET end == MinOf(start + n, reader.len)
      from[p \in 0..end] ==
        IF p = end THEN <<>>
        ELSE LET index == p \div chunk_size
                 chunk == chunks[index + 1].plain
                 within == p - index * chunk_size
                 take == MinOf(end - p, Len(chunk) - within)
             IN  SubSeq(chunk, within + 1, within + take) \o from[p + take]
  IN  IF start >= end THEN <<>> ELSE from[start]

RangeLoads(start, n) ==
  \A p \in start..(MinOf(start + n, reader.len) - 1) : CanLoad(p \div chunk_size)

Next ==
  \/ \E n \in 1..MaxLen : WritePlain(n) \/ Read(n)
  \/ SealMiddle \/ Fill \/ Finish \/ SyncAll \/ Stop
  \/ \E current \in Roots, retired \in SUBSET Roots : Open(current, retired)
  \/ ReadFails \/ Close
  \/ reader # None /\ \E target \in Targets : Seek(target)

Spec == Init /\ [][Next]_vars

(***************************************************************************)
(* Properties.                                                             *)
(***************************************************************************)
Units == Seq(1..MaxLen)

\* Chunks, writer and reader are well typed; a reader's length fits its chunks.
TypeOK ==
  /\ root \in Roots
  /\ chunks \in Seq([index : Nat, last : BOOLEAN, plain : Units])
  /\ buffer \in Units /\ pending \in Units /\ plain \in Units
  /\ next_index \in Nat /\ size \in Nat /\ lost \subseteq 1..Len(chunks)
  /\ status \in {"writing", "sealed", "synced", "stopped"}
  /\ got \in Units
  /\ reader # None =>
       /\ reader.len \in 0..reader.count * chunk_size
       /\ reader.position \in Nat /\ reader.cached \in 0..reader.count - 1

\* "Each (K_f, nonce) encrypts exactly one plaintext": no two chunks of a file
\* share their index and last mark, and only the final one carries the mark.
NoncesAreUsedOnce ==
  \A i, j \in DOMAIN chunks :
    /\ i # j => chunks[i].index # chunks[j].index
    /\ chunks[i].last => i = Len(chunks) /\ status # "writing"

Whole == status \in {"sealed", "synced"} \/ (chunks # <<>> /\ chunks[Len(chunks)].last)

\* "The reader verifies the final chunk on open (so the plaintext length it
\* reports is trustworthy)": a reader is open only on a file whose writer
\* finished, with its full length, whatever a stop has left of it; and a file
\* that was synced opens, whatever its length.
LengthIsTrustworthy ==
  /\ reader # None => Whole /\ reader.len = Len(plain)
  /\ status = "synced" =>
       /\ size >= TAG_LEN /\ WellSized /\ plaintext_len = Len(plain)
       /\ Loads(chunk_count - 1, chunk_count, plaintext_len)

\* read_range returns the plaintext of the range, clamped to the end, and never
\* fails for a file that was synced.
RangesAreExact ==
  reader # None =>
    \A start, n \in 0..MaxLen :
      /\ status = "synced" => RangeLoads(start, n)
      /\ RangeLoads(start, n) =>
           ReadRange(start, n) = SubSeq(plain, start + 1, MinOf(start + n, Len(plain)))

\* The file implements one that appears whole and is read in pieces.
Published ==
  status \in {"sealed", "synced"}
    \/ (status = "stopped" /\ WellSized /\ Whole
        /\ Loads(chunk_count - 1, chunk_count, plaintext_len))

Abstract == INSTANCE WriteOnceFile WITH
  Absent <- None, Bytes <- 1..MaxLen,
  content <- IF Published THEN plain ELSE None,
  position <- IF reader = None THEN None ELSE reader.position

ImplementsFile == Abstract!Spec
=============================================================================
