-------------------------- MODULE SealedFile_proofs --------------------------
(* Proofs about SealedFile, for any chunk size, tag, roots and lengths, and *)
(* about FileSwap, for any number of processes, versions, files and faults. *)
EXTENDS SealedFile, FileSwap, SequenceTheorems, WellFoundedInduction, TLAPS

(***************************************************************************)
(* The inductive invariant: chunk i carries index i - 1, the writer's next *)
(* index is their number, and only the chunk finish seals bears the mark,  *)
(* after which nothing is written.                                         *)
(***************************************************************************)
Numbered ==
  /\ chunks \in Seq([index : Nat, last : BOOLEAN, plain : Seq(Nat)])
  /\ buffer \in Seq(Nat) /\ pending \in Seq(Nat)
  /\ next_index = Len(chunks)
  /\ \A i \in 1..Len(chunks) :
       /\ chunks[i].index = i - 1
       /\ chunks[i].last => i = Len(chunks) /\ status # "writing"

LEMMA SealChunkNumbers ==
  ASSUME Numbered, NEW last \in BOOLEAN, SealChunk(last), status = "writing",
         last => status' # "writing"
  PROVE  Numbered' \/ pending' # pending
<1> DEFINE new == [index |-> next_index, last |-> last, plain |-> buffer]
<1>1. /\ chunks' = Append(chunks, new)
      /\ next_index' = next_index + 1 /\ buffer' = <<>>
  BY DEF SealChunk
<1>2. new \in [index : Nat, last : BOOLEAN, plain : Seq(Nat)]
  BY DEF Numbered
<1>3. /\ chunks' \in Seq([index : Nat, last : BOOLEAN, plain : Seq(Nat)])
      /\ Len(chunks') = Len(chunks) + 1
      /\ \A i \in 1..Len(chunks) : chunks'[i] = chunks[i]
      /\ chunks'[Len(chunks) + 1] = new
  BY <1>1, <1>2 DEF Numbered
<1>4. ASSUME NEW i \in 1..Len(chunks')
      PROVE  /\ chunks'[i].index = i - 1
             /\ chunks'[i].last => i = Len(chunks') /\ status' # "writing"
  <2>1. CASE i = Len(chunks) + 1
    <3>1. chunks'[i].index = next_index /\ chunks'[i].last = last
      BY <1>3, <2>1
    <3> QED BY <1>3, <2>1, <3>1 DEF Numbered
  <2>2. CASE i \in 1..Len(chunks)
    <3>1. chunks'[i] = chunks[i] /\ ~chunks[i].last
      BY <1>3, <2>2 DEF Numbered
    <3> QED BY <2>2, <3>1 DEF Numbered
  <2>3. i \in 1..Len(chunks) \/ i = Len(chunks) + 1
    BY <1>3 DEF Numbered
  <2> QED BY <2>1, <2>2, <2>3
<1>5. pending' = pending => pending' \in Seq(Nat)
  BY DEF Numbered
<1>6. buffer' \in Seq(Nat)
  BY <1>1
<1>7. next_index' = Len(chunks')
  BY <1>1, <1>3 DEF Numbered
<1> QED
  BY <1>3, <1>4, <1>5, <1>6, <1>7 DEF Numbered

LEMMA NumberedStep ==
  ASSUME Numbered, [Next]_vars
  PROVE  Numbered'
<1> USE FileAssumption
<1>1. ASSUME NEW n \in 1..MaxLen, WritePlain(n)
      PROVE  Numbered'
  <2>1. pending' = [i \in 1..n |-> Len(plain) + i] /\ Len(plain) + n <= MaxLen
    BY <1>1 DEF WritePlain
  <2> QED BY <1>1, <2>1 DEF WritePlain, Numbered
<1>2. CASE SealMiddle
  <2>1. SealChunk(FALSE) /\ status = "writing" /\ pending' = pending
    BY <1>2 DEF SealMiddle
  <2> QED BY <2>1, SealChunkNumbers
<1>3. CASE Finish
  <2>1. SealChunk(TRUE) /\ status = "writing" /\ status' # "writing" /\ pending' = pending
    BY <1>3 DEF Finish
  <2> QED BY <2>1, SealChunkNumbers
<1>4. CASE Fill
  <2> DEFINE take == MinOf(chunk_size - Len(buffer), Len(pending))
  <2>1. take \in Nat /\ take <= Len(pending)
    BY <1>4 DEF Fill, MinOf, Numbered
  <2>2. SubSeq(pending, 1, take) \in Seq(Nat) /\ SubSeq(pending, take + 1, Len(pending)) \in Seq(Nat)
    BY <2>1 DEF Numbered
  <2>3. buffer' \in Seq(Nat) /\ pending' \in Seq(Nat)
    <3>1. /\ buffer' = buffer \o SubSeq(pending, 1, take)
          /\ pending' = SubSeq(pending, take + 1, Len(pending))
      BY <1>4 DEF Fill
    <3>2. buffer \in Seq(Nat)
      BY DEF Numbered
    <3> QED BY <3>1, <3>2, <2>2
  <2>4. UNCHANGED <<chunks, next_index, status>>
    BY <1>4 DEF Fill, file
  <2> QED BY <2>3, <2>4 DEF Numbered
<1>5. ASSUME UNCHANGED <<chunks, buffer, pending, next_index>>,
             status' = "writing" => status = "writing"
      PROVE  Numbered'
  BY <1>5 DEF Numbered
<1>6. CASE SyncAll \/ Stop
  BY <1>6, <1>5 DEF SyncAll, Stop
<1>7. CASE UNCHANGED writer
  BY <1>7, <1>5 DEF writer, file
<1>8. ASSUME NEW n \in 1..MaxLen, Read(n)
      PROVE  Numbered'
  BY <1>8, <1>7 DEF Read
<1>9. ASSUME NEW current \in Roots, NEW retired \in SUBSET Roots, Open(current, retired)
      PROVE  Numbered'
  BY <1>9, <1>7 DEF Open
<1>10. CASE ReadFails \/ Close
  BY <1>10, <1>5 DEF ReadFails, Close, writer, file
<1>11. ASSUME NEW target \in Targets, Seek(target)
       PROVE  Numbered'
  BY <1>11, <1>7 DEF Seek
<1>12. CASE UNCHANGED vars
  BY <1>12, <1>7 DEF vars
<1> QED
  BY <1>1, <1>2, <1>3, <1>4, <1>6, <1>8, <1>9, <1>10, <1>11, <1>12 DEF Next

\* "Each (K_f, nonce) encrypts exactly one plaintext" (sealed_file.rs:14-15):
\* whatever pieces the plaintext comes in and wherever the writer stops.
THEOREM NonceUniqueness == Spec => []NoncesAreUsedOnce
<1>1. Init => Numbered
  BY DEF Init, Numbered
<1>2. Numbered => NoncesAreUsedOnce
  <2>1. Numbered => DOMAIN chunks = 1..Len(chunks)
    BY DEF Numbered
  <2> SUFFICES ASSUME Numbered, NEW i \in 1..Len(chunks), NEW j \in 1..Len(chunks)
               PROVE  /\ i # j => chunks[i].index # chunks[j].index
                      /\ chunks[i].last => i = Len(chunks) /\ status # "writing"
    BY <2>1 DEF NoncesAreUsedOnce
  <2>2. chunks[i].index = i - 1 /\ chunks[j].index = j - 1
    BY DEF Numbered
  <2> QED BY <2>2 DEF Numbered
<1> QED
  BY <1>1, <1>2, NumberedStep, PTL DEF Spec

-----------------------------------------------------------------------------
\* Division by a size that is not a number known beforehand.
LEMMA Products ==
  ASSUME NEW a \in Nat, NEW b \in Nat, NEW d \in Nat
  PROVE  /\ a * d \in Nat /\ (a + 1) * d = a * d + d
         /\ a <= b => a * d <= b * d
<1>1. a * d \in Nat /\ (a + 1) * d = a * d + d
  OBVIOUS
<1>2. ASSUME a <= b PROVE a * d <= b * d
  <2>1. PICK c \in Nat : b = a + c
    BY <1>2
  <2>2. b * d = a * d + c * d /\ c * d \in Nat
    BY <2>1
  <2> QED BY <1>1, <2>2
<1> QED BY <1>1, <1>2

LEMMA Division ==
  ASSUME NEW n \in Nat, NEW d \in Nat \ {0}
  PROVE  /\ n \div d \in Nat /\ n % d \in 0..d - 1
         /\ n = (n \div d) * d + (n % d)
<1>1. d \in Nat /\ d > 0
  OBVIOUS
<1>2. n % d \in 0..d - 1
  BY <1>1
<1>3. n \div d \in Int /\ n \div d >= 0
  BY <1>1
<1>4. n = (n \div d) * d + (n % d)
  BY <1>1
<1> QED BY <1>2, <1>3, <1>4

LEMMA DivisionIs ==
  ASSUME NEW d \in Nat \ {0}, NEW q \in Nat, NEW r \in 0..d - 1, NEW n \in Nat, n = q * d + r
  PROVE  n \div d = q /\ n % d = r
<1> DEFINE p == n \div d
           s == n % d
<1>1. p \in Nat /\ s \in 0..d - 1 /\ n = p * d + s
  BY Division
<1> HIDE DEF p, s
<1>2. ~(p < q)
  <2> SUFFICES ASSUME p + 1 <= q PROVE FALSE
    BY <1>1
  <2>1. (p + 1) * d <= q * d /\ (p + 1) * d = p * d + d
    BY <1>1, Products
  <2>2. p * d \in Nat /\ q * d \in Nat
    BY <1>1, Products
  <2> QED BY <1>1, <2>1, <2>2
<1>3. ~(q < p)
  <2> SUFFICES ASSUME q + 1 <= p PROVE FALSE
    BY <1>1
  <2>1. (q + 1) * d <= p * d /\ (q + 1) * d = q * d + d
    BY <1>1, Products
  <2>2. p * d \in Nat /\ q * d \in Nat
    BY <1>1, Products
  <2> QED BY <1>1, <2>1, <2>2
<1>4. p = q
  BY <1>1, <1>2, <1>3
<1>5. s = r
  <2>1. q * d \in Nat
    BY Products
  <2> QED BY <1>1, <1>4, <2>1
<1> QED BY <1>4, <1>5 DEF p, s

(***************************************************************************)
(* What the file, the writer and the reader are worth of each other: every *)
(* piece of plaintext follows on the one before it; all chunks but the     *)
(* last are full; the file is as long as its chunks until it stops; and a  *)
(* reader is only there for chunks that end with the mark.                 *)
(***************************************************************************)
Chunks == [index : Nat, last : BOOLEAN, plain : Units]
Readers == [count : Nat, len : Nat, position : Nat, cached : Nat, retired_key : BOOLEAN]

FileTypes ==
  /\ root \in Roots /\ chunks \in Seq(Chunks) /\ lost \subseteq 1..Len(chunks)
  /\ buffer \in Units /\ pending \in Units /\ plain \in Units /\ got \in Units
  /\ next_index \in Nat /\ size \in Nat /\ reader \in Readers \cup {None}
  /\ status \in {"writing", "sealed", "synced", "stopped"}

Follows(s, from) == \A j \in 1..Len(s) : s[j] = from + j
Marked == chunks # <<>> /\ chunks[Len(chunks)].last

InOrder ==
  /\ Follows(plain, 0) /\ Len(plain) <= MaxLen
  /\ \A i \in 1..Len(chunks) :
       /\ Len(chunks[i].plain) <= chunk_size
       /\ ~chunks[i].last => Len(chunks[i].plain) = chunk_size
       /\ Follows(chunks[i].plain, (i - 1) * chunk_size)

Buffering ==
  status = "writing" =>
    /\ Len(buffer) <= chunk_size
    /\ Follows(buffer, Len(chunks) * chunk_size)
    /\ Follows(pending, Len(chunks) * chunk_size + Len(buffer))
    /\ Len(plain) = Len(chunks) * chunk_size + Len(buffer) + Len(pending)
    /\ size = Len(chunks) * sealed_chunk /\ lost = {}

Finished ==
  /\ Marked => Len(plain) = (Len(chunks) - 1) * chunk_size + Len(chunks[Len(chunks)].plain)
  /\ status \in {"sealed", "synced"} =>
       /\ Marked /\ lost = {}
       /\ size = (Len(chunks) - 1) * sealed_chunk + Len(chunks[Len(chunks)].plain) + TAG_LEN

Reading ==
  reader # None =>
    /\ Marked /\ Published
    /\ reader.count = Len(chunks) /\ reader.len = Len(plain)
    /\ reader.cached \in 0..Len(chunks) - 1

FileInv == FileTypes /\ Numbered /\ InOrder /\ Buffering /\ Finished /\ Reading

LEMMA Sizes ==
  /\ chunk_size \in Nat \ {0} /\ TAG_LEN \in Nat \ {0} /\ MaxLen \in Nat
  /\ sealed_chunk \in Nat \ {0} /\ None \notin Nat /\ None \notin Readers
  /\ None \notin Units
<1>1. Units \subseteq Seq(Nat)
  BY FileAssumption DEF Units
<1> QED BY <1>1, FileAssumption DEF sealed_chunk, Readers

\* Pieces that follow on each other.
LEMMA Joined ==
  ASSUME NEW s \in Units, NEW t \in Units, NEW from \in Nat,
         Follows(s, from), Follows(t, from + Len(s))
  PROVE  /\ s \o t \in Units /\ Len(s \o t) = Len(s) + Len(t)
         /\ Follows(s \o t, from)
<1>1. s \o t \in Units /\ Len(s \o t) = Len(s) + Len(t)
  BY DEF Units
<1>2. ASSUME NEW j \in 1..Len(s) + Len(t) PROVE (s \o t)[j] = from + j
  <2>1. CASE j <= Len(s)
    BY <2>1 DEF Follows, Units
  <2>2. CASE j > Len(s)
    <3>1. (s \o t)[j] = t[j - Len(s)] /\ j - Len(s) \in 1..Len(t)
      BY <2>2 DEF Units
    <3>2. t[j - Len(s)] = from + Len(s) + (j - Len(s))
      BY <3>1 DEF Follows
    <3>3. Len(s) \in Nat
      BY DEF Units
    <3> QED BY <3>1, <3>2, <3>3
  <2> QED BY <2>1, <2>2 DEF Units
<1> QED BY <1>1, <1>2 DEF Follows

LEMMA Part ==
  ASSUME NEW s \in Units, NEW from \in Nat, Follows(s, from),
         NEW m \in Nat, NEW n \in Nat, m + n <= Len(s)
  PROVE  /\ SubSeq(s, m + 1, m + n) \in Units /\ Len(SubSeq(s, m + 1, m + n)) = n
         /\ Follows(SubSeq(s, m + 1, m + n), from + m)
<1>1. Len(s) \in Nat
  BY DEF Units
<1>2. \A i \in (m + 1)..(m + n) : s[i] \in 1..MaxLen
  <2>1. \A i \in (m + 1)..(m + n) : i \in 1..Len(s)
    BY <1>1
  <2>2. \A i \in 1..Len(s) : s[i] \in 1..MaxLen
    BY ElementOfSeq DEF Units
  <2> QED BY <2>1, <2>2
<1>3. /\ SubSeq(s, m + 1, m + n) \in Seq(1..MaxLen)
      /\ Len(SubSeq(s, m + 1, m + n)) = IF m + 1 <= m + n THEN (m + n) - (m + 1) + 1 ELSE 0
      /\ \A j \in 1..(m + n) - (m + 1) + 1 : SubSeq(s, m + 1, m + n)[j] = s[m + 1 + j - 1]
  BY <1>2, SubSeqProperties
<1>4. ASSUME NEW j \in 1..n PROVE SubSeq(s, m + 1, m + n)[j] = from + m + j
  <2>1. SubSeq(s, m + 1, m + n)[j] = s[m + j] /\ m + j \in 1..Len(s)
    BY <1>1, <1>3
  <2> QED BY <2>1 DEF Follows
<1> QED BY <1>3, <1>4 DEF Follows, Units

\* A chunk more: where the next piece goes.
LEMMA ChunkSealed ==
  ASSUME FileInv, NEW last \in BOOLEAN, SealChunk(last), status = "writing",
         last => pending = <<>>, ~last => Len(buffer) = chunk_size,
         status' = IF last THEN "sealed" ELSE "writing",
         UNCHANGED <<root, pending, plain, lost, reader, got>>, Numbered'
  PROVE  FileInv'
<1> DEFINE new == [index |-> next_index, last |-> last, plain |-> buffer]
           n == Len(chunks)
<1>1. /\ chunks' = Append(chunks, new) /\ size' = size + Len(buffer) + TAG_LEN
      /\ next_index' = next_index + 1 /\ buffer' = <<>>
  BY DEF SealChunk
<1>2. FileTypes /\ InOrder /\ Buffering /\ Reading /\ n \in Nat /\ Len(buffer) \in Nat
  BY DEF FileInv, FileTypes, Units
<1>3. new \in Chunks
  BY <1>2 DEF FileTypes, Chunks
<1> HIDE DEF new
<1>4. /\ chunks' \in Seq(Chunks) /\ Len(chunks') = n + 1 /\ chunks'[n + 1] = new
      /\ \A i \in 1..n : chunks'[i] = chunks[i]
  BY <1>1, <1>2, <1>3 DEF FileTypes
<1>5. new.last = last /\ new.plain = buffer
  BY DEF new
<1>6. ~Marked /\ reader = None
  <2>1. n > 0 => ~chunks[n].last
    BY <1>2 DEF FileInv, Numbered
  <2>2. ~Marked
    BY <1>2, <2>1 DEF Marked, FileTypes
  <2> QED BY <1>2, <2>2 DEF Reading
<1>7. FileTypes'
  <2>1. size' \in Nat
    BY <1>1, <1>2, Sizes DEF FileTypes
  <2>2. buffer' \in Units
    BY <1>1 DEF Units
  <2>3. lost' \subseteq 1..Len(chunks')
    BY <1>2, <1>4 DEF FileTypes
  <2> QED BY <1>1, <1>2, <1>4, <2>1, <2>2, <2>3 DEF FileTypes
<1>8. InOrder'
  <2>1. Follows(plain, 0)' /\ Len(plain') <= MaxLen
    BY <1>2 DEF InOrder, Follows
  <2>2. ASSUME NEW i \in 1..Len(chunks')
        PROVE  /\ Len(chunks'[i].plain) <= chunk_size
               /\ ~chunks'[i].last => Len(chunks'[i].plain) = chunk_size
               /\ Follows(chunks'[i].plain, (i - 1) * chunk_size)
    <3>1. CASE i \in 1..n
      BY <1>2, <1>4, <3>1 DEF InOrder
    <3>2. CASE i = n + 1
      <4>1. i - 1 = n
        BY <1>2, <3>2
      <4> QED BY <1>2, <1>4, <1>5, <3>2, <4>1 DEF Buffering
    <3>3. i \in 1..n \/ i = n + 1
      BY <1>2, <1>4
    <3> QED BY <3>1, <3>2, <3>3
  <2> QED BY <2>1, <2>2 DEF InOrder, Follows
<1>9. Len(chunks') * chunk_size = n * chunk_size + chunk_size /\ n * chunk_size \in Nat
      /\ Len(chunks') * sealed_chunk = n * sealed_chunk + sealed_chunk /\ n * sealed_chunk \in Nat
  BY <1>2, <1>4, Sizes, Products
<1>10. Marked' <=> last
  BY <1>2, <1>4, <1>5 DEF Marked
<1>11. CASE ~last
  <2>1. Buffering'
    <3>1. Len(buffer') = 0 /\ Len(buffer') <= chunk_size
      BY <1>1, Sizes
    <3>2. /\ Len(plain) = n * chunk_size + chunk_size + Len(pending)
          /\ Len(pending) \in Nat
          /\ Follows(pending, n * chunk_size + chunk_size)
      BY <1>2, <1>11 DEF Buffering, FileTypes, Units
    <3>3. Follows(pending, Len(chunks') * chunk_size + Len(buffer'))
      <4>1. Len(chunks') * chunk_size + Len(buffer') = n * chunk_size + chunk_size
        BY <1>9, <3>1, Sizes
      <4> QED BY <3>2, <4>1
    <3>4. Follows(buffer', Len(chunks') * chunk_size)
      BY <3>1 DEF Follows
    <3>5. Len(plain) = Len(chunks') * chunk_size + Len(buffer') + Len(pending)
      BY <1>9, <3>1, <3>2, Sizes
    <3>6. size' = Len(chunks') * sealed_chunk
      <4>1. size = n * sealed_chunk /\ size' = size + chunk_size + TAG_LEN
        BY <1>1, <1>2, <1>11 DEF Buffering
      <4>2. sealed_chunk = chunk_size + TAG_LEN
        BY DEF sealed_chunk
      <4> QED BY <1>9, <4>1, <4>2, Sizes
    <3> QED BY <1>2, <3>1, <3>3, <3>4, <3>5, <3>6 DEF Buffering, Follows, sealed_chunk
  <2>2. Finished' /\ Reading'
    BY <1>6, <1>10, <1>11 DEF Finished, Reading
  <2> QED BY <1>7, <1>8, <2>1, <2>2 DEF FileInv
<1>12. CASE last
  <2>1. Buffering' /\ Reading'
    BY <1>6, <1>12 DEF Buffering, Reading
  <2>2. Len(chunks') - 1 = n /\ chunks'[Len(chunks')].plain = buffer
    BY <1>2, <1>4, <1>5
  <2>3. Len(pending) = 0
    BY <1>12
  <2>4. Len(plain) = n * chunk_size + Len(buffer)
    BY <1>2, <1>9, <2>3 DEF Buffering
  <2>5. size' = n * sealed_chunk + Len(buffer) + TAG_LEN /\ lost = {}
    BY <1>1, <1>2 DEF Buffering
  <2>6. Finished'
    BY <1>10, <1>12, <2>2, <2>4, <2>5 DEF Finished, sealed_chunk
  <2> QED BY <1>7, <1>8, <2>1, <2>6 DEF FileInv
<1> QED BY <1>11, <1>12

\* What the file's size says of it.
LEMMA SizeSays ==
  ASSUME size \in Nat, WellSized
  PROVE  /\ full \in Nat /\ rem \in Nat /\ chunk_count \in Nat \ {0} /\ plaintext_len \in Int
<1>1. full \in Nat /\ rem \in 0..sealed_chunk - 1
  BY Division, Sizes DEF full, rem
<1>2. chunk_count \in Nat \ {0}
  BY <1>1, Sizes DEF WellSized, chunk_count
<1>3. full * chunk_size \in Nat
  BY <1>1, Products, Sizes
<1>4. plaintext_len \in Int
  BY <1>1, <1>3, Sizes DEF plaintext_len
<1> QED BY <1>1, <1>2, <1>4

LEMMA ChunkPlain ==
  ASSUME FileTypes, NEW i \in 1..Len(chunks)
  PROVE  chunks[i] \in Chunks /\ chunks[i].plain \in Units /\ Len(chunks[i].plain) \in Nat
<1>1. chunks[i] \in Chunks
  BY ElementOfSeq DEF FileTypes
<1>2. chunks[i].plain \in Units
  BY <1>1 DEF Chunks
<1> QED BY <1>1, <1>2 DEF Units

\* A reader that opens the chunk it takes for the last has the whole file.
LEMMA LastOpens ==
  ASSUME FileInv, WellSized, Loads(chunk_count - 1, chunk_count, plaintext_len)
  PROVE  Marked /\ Whole /\ chunk_count = Len(chunks) /\ plaintext_len = Len(plain)
<1> DEFINE n == Len(chunks)
<1>1. /\ FileTypes /\ InOrder /\ Finished /\ Numbered /\ n \in Nat
      /\ chunk_count \in Nat \ {0} /\ plaintext_len \in Int
  BY SizeSays DEF FileInv, FileTypes
<1>2. (chunk_count - 1) + 1 = chunk_count
  BY <1>1
<1>3. /\ chunk_count <= n /\ chunks[chunk_count].last
      /\ Length(chunk_count - 1, chunk_count, plaintext_len) = Len(chunks[chunk_count].plain) + TAG_LEN
  BY <1>2 DEF Loads
<1>4. chunk_count = n
  BY <1>1, <1>3 DEF Numbered
<1>5. Marked
  BY <1>1, <1>3, <1>4 DEF Marked, FileTypes
<1>6. Len(plain) = (n - 1) * chunk_size + Len(chunks[n].plain)
  BY <1>1, <1>5 DEF Finished
<1>7. Length(n - 1, n, plaintext_len) = plaintext_len - (n - 1) * chunk_size + TAG_LEN
  BY <1>2, <1>4 DEF Length
<1>8. plaintext_len - (n - 1) * chunk_size + TAG_LEN = Len(chunks[n].plain) + TAG_LEN
  BY <1>3, <1>4, <1>7
<1>9. (n - 1) * chunk_size \in Nat /\ Len(chunks[n].plain) \in Nat
  <2>1. n - 1 \in Nat /\ n \in 1..n
    BY <1>1, <1>4
  <2> QED BY <1>1, <2>1, ChunkPlain, Products, Sizes
<1>10. plaintext_len = Len(plain)
  <2>1. ASSUME NEW x \in Int, NEW a \in Nat, NEW b \in Nat, NEW t \in Nat, x - a + t = b + t
        PROVE  x = a + b
    BY <2>1
  <2> DEFINE a == (n - 1) * chunk_size
             b == Len(chunks[n].plain)
             x == plaintext_len
  <2>2. x \in Int /\ a \in Nat /\ b \in Nat /\ TAG_LEN \in Nat /\ x - a + TAG_LEN = b + TAG_LEN
    BY <1>1, <1>8, <1>9, Sizes
  <2>3. Len(plain) = a + b
    BY <1>6
  <2> HIDE DEF a, b, x
  <2>4. x = a + b
    BY <2>1, <2>2
  <2> QED BY <2>3, <2>4 DEF x
<1> QED BY <1>4, <1>5, <1>10 DEF Whole, Marked

LEMMA SizeIs ==
  ASSUME NEW q \in Nat, NEW r \in 0..sealed_chunk - 1, size = q * sealed_chunk + r
  PROVE  full = q /\ rem = r
<1>1. sealed_chunk \in Nat \ {0} /\ q * sealed_chunk \in Nat
  BY Products, Sizes
<1>2. size \in Nat
  BY <1>1
<1>3. ASSUME NEW d \in Nat \ {0}, NEW k \in 0..d - 1, NEW m \in Nat, m = q * d + k
      PROVE  m \div d = q /\ m % d = k
  BY <1>3, DivisionIs
<1> HIDE DEF sealed_chunk
<1> QED BY <1>1, <1>2, <1>3 DEF full, rem

\* And a file whose writer finished is as long as its chunks, and opens.
LEMMA SealedOpens ==
  ASSUME FileInv, status \in {"sealed", "synced"}
  PROVE  /\ size >= TAG_LEN /\ WellSized /\ chunk_count = Len(chunks)
         /\ plaintext_len = Len(plain)
         /\ Loads(chunk_count - 1, chunk_count, plaintext_len)
<1> DEFINE n == Len(chunks)
           ends == Len(chunks[n].plain)
<1>1. /\ FileTypes /\ Numbered /\ Marked /\ lost = {} /\ n \in Nat /\ n \in 1..n /\ n - 1 \in Nat
      /\ size = (n - 1) * sealed_chunk + ends + TAG_LEN
      /\ Len(plain) = (n - 1) * chunk_size + ends
  BY DEF FileInv, FileTypes, Finished, Marked
<1>2. ends \in 0..chunk_size /\ chunks[n].last /\ chunks[n].index = n - 1
  <2>2. ends \in Nat
    BY <1>1, ChunkPlain
  <2> QED BY <1>1, <2>2, Sizes DEF FileInv, InOrder, Marked, Numbered
<1> HIDE DEF ends
<1>3. /\ (n - 1) * sealed_chunk \in Nat /\ (n - 1) * chunk_size \in Nat
      /\ n * sealed_chunk = (n - 1) * sealed_chunk + sealed_chunk
      /\ n * chunk_size = (n - 1) * chunk_size + chunk_size
  <2>1. (n - 1) + 1 = n
    BY <1>1
  <2> QED BY <1>1, <2>1, Products, Sizes
<1>4. size >= TAG_LEN /\ size \in Nat
  BY <1>1, <1>2, <1>3, Sizes
<1>5. sealed_chunk = chunk_size + TAG_LEN
  BY DEF sealed_chunk
<1>6. WellSized /\ chunk_count = n /\ plaintext_len = Len(plain)
  <2>1. CASE ends = chunk_size
    <3>1. size = n * sealed_chunk + 0 /\ 0 \in 0..sealed_chunk - 1
      BY <1>1, <1>3, <1>5, <2>1, Sizes
    <3>3. full = n /\ rem = 0
      BY <1>1, <3>1, SizeIs
    <3> QED BY <1>1, <1>3, <2>1, <3>3, Sizes DEF WellSized, chunk_count, plaintext_len
  <2>2. CASE ends # chunk_size
    <3>1. /\ size = (n - 1) * sealed_chunk + (ends + TAG_LEN)
          /\ ends + TAG_LEN \in 0..sealed_chunk - 1 /\ ends + TAG_LEN >= TAG_LEN
          /\ ends + TAG_LEN # 0 /\ (ends + TAG_LEN) - TAG_LEN = ends
      BY <1>1, <1>2, <1>3, <1>5, <2>2, Sizes
    <3>3. full = n - 1 /\ rem = ends + TAG_LEN
      BY <1>1, <3>1, SizeIs
    <3> QED BY <1>1, <1>3, <3>1, <3>3 DEF WellSized, chunk_count, plaintext_len
  <2> QED BY <2>1, <2>2
<1>7. Loads(n - 1, n, Len(plain))
  <2>1. (n - 1) + 1 = n
    BY <1>1
  <2>2. Length(n - 1, n, Len(plain)) = ends + TAG_LEN
    <3>1. Length(n - 1, n, Len(plain)) = Len(plain) - (n - 1) * chunk_size + TAG_LEN
      BY <2>1 DEF Length
    <3> QED BY <1>1, <1>2, <1>3, <3>1, Sizes
  <2>3. Offset(n - 1) + Length(n - 1, n, Len(plain)) <= size
    BY <1>1, <1>2, <1>3, <2>2, Sizes DEF Offset
  <2>4. /\ n - 1 < n /\ (n - 1) + 1 <= Len(chunks) /\ chunks[(n - 1) + 1] = chunks[n]
        /\ (n - 1) + 1 \notin lost
    BY <1>1, <2>1
  <2>5. ends = Len(chunks[n].plain)
    BY DEF ends
  <2> HIDE DEF n
  <2> QED BY <1>2, <2>1, <2>2, <2>3, <2>4, <2>5 DEF Loads
<1> QED BY <1>4, <1>6, <1>7

\* What the file is worth does not depend on its reader.
LEMMA ReaderMoves ==
  ASSUME FileInv, UNCHANGED writer, got' \in Units,
         \/ reader' = None
         \/ /\ reader' \in Readers /\ Marked /\ Published
            /\ reader'.count = Len(chunks) /\ reader'.len = Len(plain)
            /\ reader'.cached \in 0..Len(chunks) - 1
  PROVE  FileInv' /\ Published' = Published
<1>1. UNCHANGED <<root, chunks, plain, status, size, lost, buffer, pending, next_index>>
  BY DEF writer, file
<1>2. Published' = Published /\ Marked' = Marked
  BY <1>1 DEF Published, Whole, WellSized, Loads, chunk_count, plaintext_len, full, rem,
              Length, Offset, Marked
<1>3. FileTypes'
  BY <1>1 DEF FileInv, FileTypes
<1>4. Numbered' /\ InOrder'
  BY <1>1 DEF FileInv, Numbered, InOrder, Follows
<1>5. Buffering' /\ Finished'
  BY <1>1, <1>2 DEF FileInv, Buffering, Finished, Follows
<1>6. Reading'
  BY <1>1, <1>2 DEF Reading
<1> QED BY <1>2, <1>3, <1>4, <1>5, <1>6 DEF FileInv

\* The chunk the arithmetic finds for a position: it is there, and holds it.
LEMMA PieceAt ==
  ASSUME FileInv, Marked, NEW pos \in Nat, pos < Len(plain),
         NEW k, k = pos \div chunk_size
  PROVE  /\ k \in Nat /\ k + 1 \in 1..Len(chunks)
         /\ k * chunk_size \in Nat /\ pos - k * chunk_size \in 0..chunk_size - 1
         /\ chunks[k + 1].plain \in Units /\ Follows(chunks[k + 1].plain, k * chunk_size)
         /\ Len(chunks[k + 1].plain) \in Nat
         /\ pos - k * chunk_size < Len(chunks[k + 1].plain)
         /\ k * chunk_size + Len(chunks[k + 1].plain) <= Len(plain)
<1> DEFINE c == chunks[k + 1].plain
           within == pos - k * chunk_size
           m == Len(chunks)
           ends == Len(chunks[m].plain)
<1>1. /\ FileTypes /\ InOrder /\ Finished /\ Numbered /\ m \in Nat /\ m \in 1..m /\ m - 1 \in Nat
      /\ Len(plain) \in Nat
  BY DEF FileInv, FileTypes, Units, Marked
<1>2. k \in Nat /\ within \in 0..chunk_size - 1 /\ k * chunk_size \in Nat
      /\ pos = k * chunk_size + within
  <2>1. /\ pos \div chunk_size \in Nat /\ pos % chunk_size \in 0..chunk_size - 1
        /\ pos = (pos \div chunk_size) * chunk_size + (pos % chunk_size)
    BY Division, Sizes
  <2>2. k \in Nat /\ k * chunk_size \in Nat
    BY <2>1, Products, Sizes
  <2> DEFINE r == pos % chunk_size
             a == k * chunk_size
  <2>3. pos = a + r /\ a \in Nat /\ r \in 0..chunk_size - 1 /\ chunk_size \in Nat
    BY <2>1, <2>2, Sizes
  <2> HIDE DEF r, a
  <2>4. pos - a \in 0..chunk_size - 1 /\ pos = a + (pos - a)
    BY <2>3
  <2> QED BY <2>2, <2>4 DEF a
<1>3. /\ Len(plain) = (m - 1) * chunk_size + ends
      /\ ends \in 0..chunk_size /\ (m - 1) * chunk_size \in Nat
  <2>1. ends \in Nat
    BY <1>1, ChunkPlain
  <2>2. ends <= chunk_size
    BY <1>1 DEF InOrder
  <2>3. Len(plain) = (m - 1) * chunk_size + ends
    BY <1>1 DEF Finished
  <2>4. (m - 1) * chunk_size \in Nat
    BY <1>1, Products, Sizes
  <2> QED BY <2>1, <2>2, <2>3, <2>4, Sizes
<1>4. k + 1 \in 1..m
  <2> SUFFICES ASSUME m <= k PROVE FALSE
    BY <1>1, <1>2
  <2>1. m * chunk_size <= k * chunk_size /\ m * chunk_size = (m - 1) * chunk_size + chunk_size
    <3>1. (m - 1) + 1 = m
      BY <1>1
    <3> QED BY <1>1, <1>2, <3>1, Products, Sizes
  <2> HIDE DEF m, ends, within
  <2> QED BY <1>2, <1>3, <2>1, Sizes DEF within
<1>5. /\ c \in Units /\ Len(c) \in Nat
      /\ Follows(c, k * chunk_size) /\ Len(c) <= chunk_size
      /\ k + 1 < m => Len(c) = chunk_size
  <2>1. c \in Units /\ Len(c) \in Nat
    BY <1>1, <1>4, ChunkPlain
  <2>2. (k + 1) - 1 = k
    BY <1>2
  <2>3. k + 1 < m => ~chunks[k + 1].last
    BY <1>1, <1>4 DEF Numbered
  <2> QED BY <1>1, <1>4, <2>1, <2>2, <2>3 DEF InOrder
<1>6. k * chunk_size + Len(c) <= Len(plain) /\ within < Len(c)
  <2>1. CASE k + 1 = m
    <3>1. m - 1 = k
      BY <1>1, <1>2, <2>1
    <3>2. Len(plain) = k * chunk_size + Len(c)
      BY <1>3, <2>1, <3>1
    <3> HIDE DEF c
    <3> DEFINE a == k * chunk_size
    <3>3. pos < Len(plain) /\ Len(plain) = a + Len(c) /\ a \in Nat /\ Len(c) \in Nat
      BY <1>2, <1>5, <3>2
    <3> HIDE DEF a
    <3>4. pos - a < Len(c) /\ a + Len(c) <= Len(plain)
      BY <3>3
    <3> QED BY <3>4 DEF a
  <2>2. CASE k + 1 < m
    <3>1. k + 1 <= m - 1 /\ k + 1 \in Nat
      BY <1>1, <1>2, <2>2
    <3>2. (k + 1) * chunk_size <= (m - 1) * chunk_size /\ (k + 1) * chunk_size = k * chunk_size + chunk_size
      BY <1>1, <1>2, <3>1, Products, Sizes
    <3>3. Len(c) = chunk_size
      BY <1>5, <2>2
    <3> HIDE DEF c, within, ends, m
    <3> QED BY <1>2, <1>3, <1>5, <3>2, <3>3, Sizes
  <2> QED BY <1>1, <1>2, <1>4, <2>1, <2>2
<1> QED BY <1>2, <1>4, <1>5, <1>6

\* What is taken from a chunk is what the plaintext has at that position.
LEMMA PieceIs ==
  ASSUME FileInv, NEW pos \in Nat, NEW base \in Nat, NEW c \in Units, NEW take \in Nat,
         Follows(c, base), base <= pos, (pos - base) + take <= Len(c),
         base + Len(c) <= Len(plain)
  PROVE  /\ SubSeq(c, (pos - base) + 1, (pos - base) + take)
              = SubSeq(plain, pos + 1, pos + take)
         /\ SubSeq(plain, pos + 1, pos + take) \in Units
         /\ pos + take <= Len(plain)
<1> DEFINE v == SubSeq(c, (pos - base) + 1, (pos - base) + take)
           w == SubSeq(plain, pos + 1, pos + take)
<1>1. plain \in Units /\ Follows(plain, 0) /\ Len(plain) \in Nat /\ Len(c) \in Nat /\ pos - base \in Nat
  BY DEF FileInv, FileTypes, InOrder, Units
<1>2. pos + take <= Len(plain)
  BY <1>1
<1>3. v \in Units /\ Len(v) = take /\ Follows(v, base + (pos - base))
  BY <1>1, Part
<1>4. w \in Units /\ Len(w) = take /\ Follows(w, 0 + pos)
  BY <1>1, <1>2, Part
<1>5. v = w
  <2> HIDE DEF v, w
  <2>1. \A j \in 1..take : v[j] = pos + j /\ w[j] = pos + j
    BY <1>3, <1>4 DEF Follows
  <2>2. v \in Seq(1..MaxLen) /\ w \in Seq(1..MaxLen)
    BY <1>3, <1>4 DEF Units
  <2> QED BY <1>3, <1>4, <2>1, <2>2, SeqEqual
<1> QED BY <1>2, <1>4, <1>5

\* A read before the end returns at least one unit, and those the plaintext
\* has at the reader's position.
LEMMA ReadGives ==
  ASSUME FileInv, NEW n \in Nat \ {0}, Read(n), reader.position < reader.len
  PROVE  \E take \in Nat \ {0} :
           /\ reader.position + take <= Len(plain)
           /\ got' = SubSeq(plain, reader.position + 1, reader.position + take)
           /\ got' \in Units
           /\ reader' = [reader EXCEPT !.cached = Index, !.position = @ + take]
           /\ Index \in 0..Len(chunks) - 1
<1> DEFINE pos == reader.position
           k == Index
           c == chunks[k + 1].plain
           within == pos - k * chunk_size
           take == MinOf(n, Len(c) - within)
<1>1. /\ reader \in Readers /\ Marked /\ reader.len = Len(plain) /\ Len(chunks) \in Nat
  BY DEF FileInv, FileTypes, Reading, Read
<1>2. pos \in Nat /\ pos < Len(plain)
  BY <1>1 DEF Readers
<1>3. /\ got' = SubSeq(c, within + 1, within + take)
      /\ reader' = [reader EXCEPT !.cached = k, !.position = @ + take]
  BY <1>1, <1>2 DEF Read
<1>4. /\ k \in Nat /\ k + 1 \in 1..Len(chunks)
      /\ k * chunk_size \in Nat /\ within \in 0..chunk_size - 1
      /\ c \in Units /\ Follows(c, k * chunk_size) /\ Len(c) \in Nat /\ within < Len(c)
      /\ k * chunk_size + Len(c) <= Len(plain)
  BY <1>1, <1>2, PieceAt DEF Index
<1>5. take \in Nat \ {0} /\ within + take <= Len(c) /\ within \in Nat
  <2>1. within \in Nat /\ Len(c) \in Nat /\ within < Len(c) /\ chunk_size \in Nat
    BY <1>4, Sizes
  <2>2. take = IF n <= Len(c) - within THEN n ELSE Len(c) - within
    BY DEF MinOf
  <2> HIDE DEF take, within, c
  <2> QED BY <2>1, <2>2
<1> DEFINE base == k * chunk_size
<1>6. base <= pos /\ base \in Nat /\ within = pos - base
  <2> HIDE DEF pos, k
  <2> QED BY <1>2, <1>4, Sizes
<1> HIDE DEF take, k, c, base
<1>7. /\ SubSeq(c, (pos - base) + 1, (pos - base) + take) = SubSeq(plain, pos + 1, pos + take)
      /\ SubSeq(plain, pos + 1, pos + take) \in Units
      /\ pos + take <= Len(plain)
  <2>1. Follows(c, base) /\ base + Len(c) <= Len(plain) /\ (pos - base) + take <= Len(c)
    BY <1>4, <1>5, <1>6 DEF base
  <2>2. pos \in Nat /\ base \in Nat /\ c \in Units /\ take \in Nat /\ base <= pos
    BY <1>2, <1>4, <1>5, <1>6
  <2> HIDE DEF pos
  <2> QED BY <2>1, <2>2, PieceIs
<1>8. got' = SubSeq(plain, pos + 1, pos + take)
  BY <1>3, <1>6, <1>7
<1>9. k \in 0..Len(chunks) - 1
  BY <1>1, <1>4
<1> QED BY <1>3, <1>5, <1>7, <1>8, <1>9 DEF k

\* The writer's steps.
LEMMA PlainWritten ==
  ASSUME FileInv, NEW n \in 1..MaxLen, WritePlain(n), Numbered'
  PROVE  FileInv'
<1> DEFINE p == Len(plain)
<1>1. /\ status = "writing" /\ pending = <<>> /\ p + n <= MaxLen
      /\ pending' = [i \in 1..n |-> p + i] /\ plain' = plain \o pending'
      /\ UNCHANGED <<root, chunks, buffer, next_index, status, size, lost, reader, got>>
  BY DEF WritePlain
<1>2. /\ FileTypes /\ InOrder /\ Buffering /\ Finished /\ Reading /\ p \in Nat
      /\ Len(buffer) \in Nat /\ Len(chunks) \in Nat /\ n \in Nat
  BY Sizes DEF FileInv, FileTypes, Units
<1>3. /\ pending' \in Units /\ Len(pending') = n /\ Follows(pending', p)
  <2>1. \A i \in 1..n : p + i \in 1..MaxLen
    BY <1>1, <1>2, Sizes
  <2>2. pending' \in Seq(1..MaxLen) /\ Len(pending') = n
    BY <1>1, <1>2, <2>1
  <2>3. \A i \in 1..n : pending'[i] = p + i
    BY <1>1
  <2> QED BY <2>2, <2>3 DEF Units, Follows
<1>4. Follows(plain, 0) /\ Follows(pending', 0 + p)
  BY <1>2, <1>3 DEF InOrder
<1>5. /\ plain' \in Units /\ Len(plain') = p + n /\ Follows(plain', 0)
  BY <1>1, <1>2, <1>3, <1>4, Joined DEF FileTypes
<1>6. FileTypes'
  BY <1>1, <1>2, <1>3, <1>5 DEF FileTypes
<1>7. InOrder'
  BY <1>1, <1>2, <1>5 DEF InOrder, Follows
<1>8. Buffering'
  <2>1. Len(pending) = 0
    BY <1>1
  <2>2. p = Len(chunks) * chunk_size + Len(buffer) /\ Len(chunks) * chunk_size \in Nat
    BY <1>1, <1>2, <2>1, Products, Sizes DEF Buffering
  <2>3. Len(plain') = Len(chunks) * chunk_size + Len(buffer) + Len(pending')
    BY <1>2, <1>3, <1>5, <2>2
  <2>4. Follows(pending', Len(chunks) * chunk_size + Len(buffer))
    BY <1>3, <2>2
  <2> QED BY <1>1, <1>2, <2>3, <2>4 DEF Buffering, Follows, sealed_chunk
<1>9. ~Marked /\ reader = None
  BY <1>1, <1>2 DEF FileInv, Numbered, Marked, FileTypes, Reading
<1>10. Finished' /\ Reading'
  BY <1>1, <1>9 DEF Finished, Reading, Marked
<1> QED BY <1>6, <1>7, <1>8, <1>10 DEF FileInv

LEMMA BufferFilled ==
  ASSUME FileInv, Fill, Numbered'
  PROVE  FileInv'
<1> DEFINE take == MinOf(chunk_size - Len(buffer), Len(pending))
           b == Len(buffer)
           p == Len(pending)
           from == Len(chunks) * chunk_size
<1>1. /\ status = "writing" /\ pending # <<>> /\ b < chunk_size
      /\ buffer' = buffer \o SubSeq(pending, 1, take)
      /\ pending' = SubSeq(pending, take + 1, p)
      /\ UNCHANGED <<root, chunks, plain, status, size, lost, next_index, reader, got>>
  BY DEF Fill, file
<1>2. /\ FileTypes /\ InOrder /\ Buffering /\ Finished /\ Reading
      /\ b \in Nat /\ p \in Nat /\ from \in Nat /\ chunk_size \in Nat
      /\ buffer \in Units /\ pending \in Units
  <2>1. FileTypes /\ Len(chunks) \in Nat
    BY DEF FileInv, FileTypes
  <2> QED BY <2>1, Products, Sizes DEF FileInv, FileTypes, Units
<1>3. /\ b <= chunk_size /\ Follows(buffer, from) /\ Follows(pending, from + b)
      /\ Len(plain) = from + b + p /\ size = Len(chunks) * sealed_chunk /\ lost = {}
  BY <1>1, <1>2 DEF Buffering
<1>4. take \in Nat /\ take <= p /\ b + take <= chunk_size
  BY <1>1, <1>2 DEF MinOf
<1> HIDE DEF take, from
<1>4a. ASSUME NEW f \in Nat, Follows(pending, f), NEW m \in Nat, NEW k \in Nat, m + k <= p
       PROVE  /\ SubSeq(pending, m + 1, m + k) \in Units /\ Len(SubSeq(pending, m + 1, m + k)) = k
              /\ Follows(SubSeq(pending, m + 1, m + k), f + m)
  BY <1>2, <1>4a, Part
<1>4b. from + b \in Nat
  BY <1>2
<1>5. /\ SubSeq(pending, 1, take) \in Units /\ Len(SubSeq(pending, 1, take)) = take
      /\ Follows(SubSeq(pending, 1, take), from + b)
  <2>1. /\ SubSeq(pending, 0 + 1, 0 + take) \in Units /\ Len(SubSeq(pending, 0 + 1, 0 + take)) = take
        /\ Follows(SubSeq(pending, 0 + 1, 0 + take), (from + b) + 0)
    <3> DEFINE f == from + b
    <3>1. f \in Nat /\ Follows(pending, f) /\ 0 + take <= p /\ 0 \in Nat
      BY <1>2, <1>3, <1>4, <1>4b
    <3> HIDE DEF f
    <3> SUFFICES /\ SubSeq(pending, 0 + 1, 0 + take) \in Units
                 /\ Len(SubSeq(pending, 0 + 1, 0 + take)) = take
                 /\ Follows(SubSeq(pending, 0 + 1, 0 + take), f + 0)
      BY DEF f
    <3> QED BY <1>4, <1>4a, <3>1
  <2>2. 0 + 1 = 1 /\ 0 + take = take /\ (from + b) + 0 = from + b
    BY <1>2, <1>4
  <2> QED BY <2>1, <2>2
<1>6. /\ buffer' \in Units /\ Len(buffer') = b + take /\ Follows(buffer', from)
  BY <1>1, <1>2, <1>3, <1>5, Joined
<1>7. /\ pending' \in Units /\ Len(pending') = p - take /\ Follows(pending', from + Len(buffer'))
  <2>1. p - take \in Nat /\ take + (p - take) = p /\ (from + b) + take = from + (b + take)
    BY <1>2, <1>4
  <2>2. /\ SubSeq(pending, take + 1, take + (p - take)) \in Units
        /\ Len(SubSeq(pending, take + 1, take + (p - take))) = p - take
        /\ Follows(SubSeq(pending, take + 1, take + (p - take)), (from + b) + take)
    <3> DEFINE f == from + b
               k == p - take
    <3>1. f \in Nat /\ Follows(pending, f) /\ take + k <= p /\ k \in Nat
      BY <1>2, <1>3, <1>4b, <2>1
    <3> HIDE DEF f, k
    <3>2. /\ SubSeq(pending, take + 1, take + k) \in Units
          /\ Len(SubSeq(pending, take + 1, take + k)) = k
          /\ Follows(SubSeq(pending, take + 1, take + k), f + take)
      BY <1>4, <1>4a, <3>1
    <3> QED BY <3>2 DEF f, k
  <2> QED BY <1>1, <1>6, <2>1, <2>2
<1>8. FileTypes'
  BY <1>1, <1>2, <1>6, <1>7 DEF FileTypes
<1>9. InOrder'
  BY <1>1, <1>2 DEF InOrder, Follows
<1>10. from' = from
  BY <1>1 DEF from
<1>11. Buffering'
  <2>1. Len(plain) = from + Len(buffer') + Len(pending')
    BY <1>2, <1>3, <1>4, <1>6, <1>7
  <2>2. Len(buffer') <= chunk_size
    BY <1>4, <1>6
  <2> QED BY <1>1, <1>3, <1>6, <1>7, <2>1, <2>2 DEF Buffering, Follows, from, sealed_chunk
<1>12. ~Marked /\ reader = None
  <2>1. \A i \in 1..Len(chunks) : ~chunks[i].last
    BY <1>1 DEF FileInv, Numbered
  <2>2. chunks # <<>> => Len(chunks) \in 1..Len(chunks)
    BY <1>2 DEF FileTypes
  <2> QED BY <1>2, <2>1, <2>2 DEF Marked, Reading
<1>13. Finished' /\ Reading'
  BY <1>1, <1>12 DEF Finished, Reading, Marked
<1> QED BY <1>8, <1>9, <1>11, <1>13 DEF FileInv

LEMMA Synced ==
  ASSUME FileInv, SyncAll, Numbered'
  PROVE  FileInv' /\ Published' /\ Published
<1>1. /\ status = "sealed" /\ status' = "synced"
      /\ UNCHANGED <<root, chunks, plain, size, lost, buffer, pending, next_index, reader, got>>
  BY DEF SyncAll
<1>2. Published' /\ Published
  BY <1>1 DEF Published
<1>3. FileTypes'
  BY <1>1 DEF FileInv, FileTypes
<1>4. InOrder' /\ Buffering' /\ Finished'
  BY <1>1 DEF FileInv, InOrder, Follows, Buffering, Finished, Marked, sealed_chunk
<1>5. Reading'
  BY <1>1, <1>2 DEF FileInv, Reading, Marked
<1> QED BY <1>2, <1>3, <1>4, <1>5 DEF FileInv

LEMMA Stopped ==
  ASSUME FileInv, Stop, Numbered'
  PROVE  FileInv'
<1>1. /\ status' = "stopped" /\ size' \in 0..size /\ lost' \in SUBSET (1..Len(chunks))
      /\ reader' = None /\ got' = <<>>
      /\ UNCHANGED <<root, chunks, plain, buffer, pending, next_index>>
  BY DEF Stop
<1>2. FileTypes'
  <2>1. size' \in Nat /\ got' \in Units
    BY <1>1 DEF FileInv, FileTypes, Units
  <2> QED BY <1>1, <2>1 DEF FileInv, FileTypes
<1>3. InOrder' /\ Buffering' /\ Finished'
  BY <1>1 DEF FileInv, InOrder, Follows, Buffering, Finished, Marked
<1>4. Reading'
  BY <1>1 DEF Reading
<1> QED BY <1>2, <1>3, <1>4 DEF FileInv

\* The reader's steps: each leaves the file, and finds it published.
LEMMA Opened ==
  ASSUME FileInv, NEW current \in Roots, NEW retired \in SUBSET Roots, Open(current, retired)
  PROVE  FileInv' /\ Published' = Published /\ Published /\ reader = None
         /\ reader' # None /\ reader'.position = 0 /\ got' = <<>>
<1>1. /\ reader = None /\ WellSized /\ Loads(chunk_count - 1, chunk_count, plaintext_len)
      /\ got' = <<>> /\ UNCHANGED writer
      /\ reader' = [count |-> chunk_count, len |-> plaintext_len, position |-> 0,
                    cached |-> chunk_count - 1, retired_key |-> root # current]
  BY DEF Open
<1>2. Marked /\ Whole /\ chunk_count = Len(chunks) /\ plaintext_len = Len(plain)
  BY <1>1, LastOpens
<1>3. FileTypes /\ Numbered /\ Len(chunks) \in 1..Len(chunks) /\ Len(chunks) \in Nat
      /\ Len(plain) \in Nat
  BY <1>2 DEF FileInv, FileTypes, Marked, Units
<1>4. status # "writing"
  BY <1>2, <1>3 DEF Numbered, Marked
<1>5. Published
  BY <1>1, <1>2, <1>3, <1>4 DEF Published, FileTypes
<1>6. /\ reader' \in Readers /\ reader'.position = 0
      /\ reader'.count = Len(chunks) /\ reader'.len = Len(plain)
      /\ reader'.cached \in 0..Len(chunks) - 1
  <2>1. Len(chunks) - 1 \in Nat /\ Len(chunks) - 1 \in 0..Len(chunks) - 1
        /\ (root # current) \in BOOLEAN
    BY <1>3
  <2> QED BY <1>1, <1>2, <1>3, <2>1 DEF Readers
<1>7. FileInv' /\ Published' = Published
  <2>1. got' \in Units
    BY <1>1 DEF Units
  <2> QED BY <1>1, <1>2, <1>5, <1>6, <2>1, ReaderMoves
<1> QED BY <1>1, <1>5, <1>6, <1>7, Sizes

LEMMA ReaderIs ==
  ASSUME FileInv, reader # None
  PROVE  /\ reader \in Readers /\ Marked /\ Published
         /\ reader.count = Len(chunks) /\ reader.len = Len(plain)
         /\ reader.cached \in 0..Len(chunks) - 1
BY DEF FileInv, FileTypes, Reading

\* A reader that only moves, or loads another chunk.
LEMMA Moved ==
  ASSUME FileInv, reader # None, UNCHANGED writer, got' \in Units,
         NEW cached \in 0..Len(chunks) - 1, NEW position \in Nat,
         reader' = [reader EXCEPT !.cached = cached, !.position = position]
  PROVE  FileInv' /\ Published' = Published /\ Published
         /\ reader' # None /\ reader'.position = position
<1>1. Len(chunks) \in Nat /\ cached \in Nat
  BY DEF FileInv, FileTypes
<1>2. /\ reader' \in Readers /\ reader'.count = reader.count /\ reader'.len = reader.len
      /\ reader'.cached = cached /\ reader'.position = position
  BY <1>1, ReaderIs DEF Readers
<1> QED BY <1>2, ReaderIs, ReaderMoves, Sizes

LEMMA DidRead ==
  ASSUME FileInv, NEW n \in Nat \ {0}, Read(n)
  PROVE  /\ FileInv' /\ Published' = Published /\ Published
         /\ reader # None /\ reader' # None /\ reader.position \in Nat
         /\ UNCHANGED plain
         /\ \E take \in 0..Len(plain) :
              /\ take = 0 <=> reader.position >= Len(plain)
              /\ reader.position + take <= Len(plain) \/ take = 0
              /\ got' = SubSeq(plain, reader.position + 1, reader.position + take)
              /\ reader'.position = reader.position + take
<1>1. reader # None /\ UNCHANGED writer
  BY DEF Read
<1>2. /\ reader \in Readers /\ reader.position \in Nat /\ Len(plain) \in Nat /\ plain \in Units
      /\ reader.len = Len(plain) /\ reader.cached \in 0..Len(chunks) - 1 /\ Published
  BY <1>1, ReaderIs DEF Readers, FileInv, FileTypes, Units
<1>3. UNCHANGED plain
  BY <1>1 DEF writer, file
<1> DEFINE Gives(take) ==
             /\ take = 0 <=> reader.position >= Len(plain)
             /\ reader.position + take <= Len(plain) \/ take = 0
             /\ got' = SubSeq(plain, reader.position + 1, reader.position + take)
             /\ reader'.position = reader.position + take
<1>0. ASSUME NEW cached \in 0..Len(chunks) - 1, NEW position \in Nat, got' \in Units,
             reader' = [reader EXCEPT !.cached = cached, !.position = position]
      PROVE  FileInv' /\ Published' = Published /\ Published
             /\ reader' # None /\ reader'.position = position
  BY <1>0, <1>1, Moved
<1>4. CASE reader.position >= reader.len
  <2>1. got' = <<>> /\ reader' = reader
    BY <1>4 DEF Read
  <2>2. reader' = [reader EXCEPT !.cached = reader.cached, !.position = reader.position]
    BY <1>2, <2>1 DEF Readers
  <2>3. FileInv' /\ Published' = Published
    <3>1. got' \in Units
      BY <2>1 DEF Units
    <3> QED BY <1>0, <1>2, <2>2, <3>1
  <2>4. SubSeq(plain, reader.position + 1, reader.position + 0) = <<>>
    BY <1>2 DEF Units
  <2>5. Gives(0) /\ 0 \in 0..Len(plain)
    BY <1>2, <1>4, <2>1, <2>4
  <2>6. \E take \in 0..Len(plain) : Gives(take)
    BY <2>5
  <2>7. reader' # None
    BY <1>1, <2>1
  <2> QED BY <1>1, <1>2, <1>3, <2>3, <2>6, <2>7
<1>5. CASE reader.position < reader.len
  <2>1. PICK take \in Nat \ {0} :
           /\ reader.position + take <= Len(plain)
           /\ got' = SubSeq(plain, reader.position + 1, reader.position + take)
           /\ got' \in Units
           /\ reader' = [reader EXCEPT !.cached = Index, !.position = @ + take]
           /\ Index \in 0..Len(chunks) - 1
    BY <1>5, ReadGives
  <2>2. reader' = [reader EXCEPT !.cached = Index, !.position = reader.position + take]
    BY <1>2, <2>1 DEF Readers
  <2>3. FileInv' /\ Published' = Published /\ reader' # None
        /\ reader'.position = reader.position + take
    <3>1. reader.position + take \in Nat
      BY <1>2
    <3> QED BY <1>0, <2>1, <2>2, <3>1
  <2>4. take \in 0..Len(plain) /\ take # 0 /\ ~(reader.position >= Len(plain))
    BY <1>2, <1>5, <2>1
  <2>5. Gives(take)
    BY <2>1, <2>3, <2>4
  <2>6. \E k \in 0..Len(plain) : Gives(k)
    BY <2>4, <2>5
  <2> QED BY <1>1, <1>2, <1>3, <2>3, <2>6
<1>6. reader.position >= reader.len \/ reader.position < reader.len
  BY <1>2
<1> QED BY <1>4, <1>5, <1>6

LEMMA Sought ==
  ASSUME FileInv, NEW target \in Targets, Seek(target)
  PROVE  /\ FileInv' /\ Published' = Published /\ Published
         /\ reader # None /\ reader' # None /\ reader'.position \in Nat
         /\ got' = <<>> /\ UNCHANGED plain
<1>1. /\ reader # None /\ target >= 0 /\ UNCHANGED writer /\ got' = <<>>
      /\ reader' = [reader EXCEPT !.position = target]
  BY DEF Seek
<1>2. target \in Nat
  <2>1. target \in (-MaxLen)..(MaxLen + 1)
    BY DEF Targets
  <2> QED BY <1>1, <2>1, Sizes
<1>3. reader \in Readers /\ reader.cached \in 0..Len(chunks) - 1
  BY <1>1, ReaderIs
<1>4. reader' = [reader EXCEPT !.cached = reader.cached, !.position = target]
  BY <1>1, <1>3 DEF Readers
<1>5. FileInv' /\ Published' = Published /\ Published /\ reader' # None
      /\ reader'.position = target
  <2>1. got' \in Units
    BY <1>1 DEF Units
  <2>2. ASSUME NEW cached \in 0..Len(chunks) - 1, NEW position \in Nat,
               reader' = [reader EXCEPT !.cached = cached, !.position = position]
        PROVE  FileInv' /\ Published' = Published /\ Published
               /\ reader' # None /\ reader'.position = position
    BY <1>1, <2>1, <2>2, Moved
  <2> QED BY <1>2, <1>3, <1>4, <2>2
<1> QED BY <1>1, <1>2, <1>5 DEF writer, file

LEMMA DidFail ==
  ASSUME FileInv, ReadFails
  PROVE  /\ FileInv' /\ Published' = Published /\ Published
         /\ reader # None /\ reader' = reader /\ reader.position \in Nat
         /\ got' = <<>> /\ UNCHANGED plain
<1>1. reader # None /\ got' = <<>> /\ UNCHANGED <<writer, reader>>
  BY DEF ReadFails
<1>2. FileInv' /\ Published' = Published
  <2>1. /\ reader' \in Readers /\ Marked /\ Published
        /\ reader'.count = Len(chunks) /\ reader'.len = Len(plain)
        /\ reader'.cached \in 0..Len(chunks) - 1
    BY <1>1, ReaderIs
  <2>2. got' \in Units
    BY <1>1 DEF Units
  <2> QED BY <1>1, <2>1, <2>2, ReaderMoves
<1> QED BY <1>1, <1>2, ReaderIs DEF Readers, writer, file

LEMMA Closed ==
  ASSUME FileInv, Close
  PROVE  FileInv' /\ Published' = Published
BY ReaderMoves DEF Close, Units

\* The whole step.
LEMMA FileStep ==
  ASSUME FileInv, [Next]_vars
  PROVE  FileInv'
<1>1. Numbered'
  BY NumberedStep DEF FileInv
<1>2. ASSUME NEW n \in 1..MaxLen, WritePlain(n) PROVE FileInv'
  BY <1>1, <1>2, PlainWritten
<1>3. ASSUME NEW n \in 1..MaxLen, Read(n) PROVE FileInv'
  <2>1. n \in Nat \ {0}
    BY Sizes
  <2> QED BY <1>3, <2>1, DidRead
<1>4. CASE SealMiddle
  BY <1>1, <1>4, ChunkSealed DEF SealMiddle
<1>5. CASE Finish
  BY <1>1, <1>5, ChunkSealed DEF Finish
<1>6. CASE Fill
  BY <1>1, <1>6, BufferFilled
<1>7. CASE SyncAll
  BY <1>1, <1>7, Synced
<1>8. CASE Stop
  BY <1>1, <1>8, Stopped
<1>9. ASSUME NEW current \in Roots, NEW retired \in SUBSET Roots, Open(current, retired)
      PROVE  FileInv'
  BY <1>9, Opened
<1>10. CASE ReadFails
  BY <1>10, DidFail
<1>11. CASE Close
  BY <1>11, Closed
<1>12. ASSUME NEW target \in Targets, Seek(target) PROVE FileInv'
  BY <1>12, Sought
<1>13. CASE UNCHANGED vars
  <2>1. UNCHANGED writer /\ reader' = reader /\ got' = got
    BY <1>13 DEF vars
  <2> QED BY <2>1, ReaderMoves, ReaderIs DEF FileInv, FileTypes
<1> QED BY <1>2, <1>3, <1>4, <1>5, <1>6, <1>7, <1>8, <1>9, <1>10, <1>11, <1>12, <1>13 DEF Next

LEMMA FileStart ==
  ASSUME Init
  PROVE  FileInv
<1>1. FileTypes /\ Numbered
  BY DEF Init, FileTypes, Numbered, Units
<1>2. Len(chunks) = 0 /\ Len(buffer) = 0 /\ Len(pending) = 0 /\ Len(plain) = 0 /\ 0 * chunk_size = 0
      /\ 0 * sealed_chunk = 0
  BY Sizes DEF Init
<1>3. InOrder /\ Buffering
  BY <1>2, Sizes DEF Init, InOrder, Buffering, Follows
<1>4. Finished /\ Reading
  BY DEF Init, Finished, Marked, Reading
<1> QED BY <1>1, <1>3, <1>4 DEF FileInv

\* "The reader verifies the final chunk on open (so the plaintext length it
\* reports is trustworthy)" (sealed_file.rs): for every chunk size, every length
\* and every point at which the machine stops.
THEOREM LengthTrusted == Spec => []LengthIsTrustworthy
<1>1. FileInv => LengthIsTrustworthy
  <2> SUFFICES ASSUME FileInv PROVE LengthIsTrustworthy
    OBVIOUS
  <2>1. reader # None => Whole /\ reader.len = Len(plain)
    BY DEF FileInv, Reading, Whole, Marked
  <2>2. status = "synced" =>
          /\ size >= TAG_LEN /\ WellSized /\ plaintext_len = Len(plain)
          /\ Loads(chunk_count - 1, chunk_count, plaintext_len)
    BY SealedOpens
  <2> QED BY <2>1, <2>2 DEF LengthIsTrustworthy
<1> QED BY <1>1, FileStart, FileStep, PTL DEF Spec

\* What the reader of the abstract file sees of a step.
LEMMA NotYet ==
  ASSUME FileInv, status = "writing"
  PROVE  ~Published /\ reader = None
<1>1. Len(chunks) \in Nat /\ chunks \in Seq(Chunks)
  BY DEF FileInv, FileTypes
<1>2. \A i \in 1..Len(chunks) : ~chunks[i].last
  BY DEF FileInv, Numbered
<1>3. chunks # <<>> => Len(chunks) \in 1..Len(chunks)
  BY <1>1
<1>4. ~Marked
  BY <1>2, <1>3 DEF Marked
<1> QED BY <1>4 DEF Published, FileInv, Reading

LEMMA StepIsAbstract ==
  ASSUME FileInv, FileInv', [Next]_vars
  PROVE  [Abstract!Next]_(Abstract!vars)
<1> DEFINE content == IF Published THEN plain ELSE None
           position == IF reader = None THEN None ELSE reader.position
<1>0. /\ plain \in Units /\ plain' \in Units /\ plain # None /\ plain' # None
  BY Sizes DEF FileInv, FileTypes
<1>1. ASSUME UNCHANGED <<content, position, got>>
      PROVE  UNCHANGED Abstract!vars
  BY <1>1 DEF Abstract!vars
<1>2. ASSUME status = "writing", status' = "writing", UNCHANGED <<reader, got>>
      PROVE  UNCHANGED Abstract!vars
  <2>1. ~Published /\ reader = None
    BY <1>2, NotYet
  <2>2. ~Published'
    <3>1. \A i \in 1..Len(chunks') : ~chunks'[i].last
      BY <1>2 DEF FileInv, Numbered
    <3>2. chunks' # <<>> => Len(chunks') \in 1..Len(chunks')
      BY DEF FileInv, FileTypes
    <3> QED BY <1>2, <3>1, <3>2 DEF Published
  <2> QED BY <1>1, <1>2, <2>1, <2>2
<1>3. ASSUME NEW n \in 1..MaxLen, WritePlain(n) PROVE UNCHANGED Abstract!vars
  BY <1>2, <1>3 DEF WritePlain
<1>4. CASE SealMiddle
  BY <1>2, <1>4 DEF SealMiddle
<1>5. CASE Fill
  BY <1>2, <1>5 DEF Fill, file
<1>6. CASE Finish
  <2>1. ~Published /\ Published' /\ UNCHANGED <<plain, reader, got>>
    BY <1>6, NotYet DEF Finish, Published
  <2>2. Abstract!Publish
    BY <1>0, <2>1 DEF Abstract!Publish, Units
  <2> QED BY <2>2 DEF Abstract!Next
<1>7. CASE SyncAll
  <2>1. Published /\ Published' /\ UNCHANGED <<plain, reader, got>>
    BY <1>7 DEF SyncAll, Published
  <2> QED BY <1>1, <2>1
<1>8. CASE Stop
  <2>1. UNCHANGED plain /\ reader' = None /\ got' = <<>>
    BY <1>8 DEF Stop
  <2>2. status = "writing" => ~Published /\ ~Published'
    <3>1. status = "writing" => ~Marked /\ UNCHANGED chunks
      BY <1>8 DEF Stop, FileInv, Numbered, Marked
    <3> QED BY <1>8, <3>1, NotYet DEF Stop, Published, Whole, Marked
  <2>3. status = "sealed" => Published
    BY DEF Published
  <2>4. content' \in {content, None}
    BY <1>8, <2>1, <2>2, <2>3 DEF Stop
  <2>5. Abstract!Lose
    BY <2>1, <2>4 DEF Abstract!Lose
  <2> QED BY <2>5 DEF Abstract!Next
<1>9. ASSUME NEW current \in Roots, NEW retired \in SUBSET Roots, Open(current, retired)
      PROVE  Abstract!Open
  <2>1. /\ Published /\ Published' /\ UNCHANGED plain
        /\ reader' # None /\ reader'.position = 0 /\ got' = <<>>
    BY <1>9, Opened DEF Open, writer, file
  <2> QED BY <1>0, <2>1 DEF Abstract!Open
<1>10. ASSUME NEW n \in 1..MaxLen, Read(n) PROVE Abstract!Read
  <2>1. n \in Nat \ {0}
    BY Sizes
  <2>2. /\ Published' = Published /\ Published
        /\ reader # None /\ reader' # None /\ reader.position \in Nat
        /\ UNCHANGED plain
        /\ \E take \in 0..Len(plain) :
             /\ take = 0 <=> reader.position >= Len(plain)
             /\ reader.position + take <= Len(plain) \/ take = 0
             /\ got' = SubSeq(plain, reader.position + 1, reader.position + take)
             /\ reader'.position = reader.position + take
    BY <1>10, <2>1, DidRead
  <2>3. content = plain /\ content' = plain /\ position = reader.position
        /\ position' = reader'.position
    BY <2>2
  <2>4. position # None /\ content # None
    BY <1>0, <2>2, <2>3, Sizes
  <2> QED BY <2>2, <2>3, <2>4 DEF Abstract!Read
<1>11. CASE ReadFails
  <2>1. /\ Published' = Published /\ Published
        /\ reader # None /\ reader' = reader /\ reader.position \in Nat
        /\ got' = <<>> /\ UNCHANGED plain
    BY <1>11, DidFail
  <2>2. Abstract!Seek
    BY <2>1, Sizes DEF Abstract!Seek
  <2> QED BY <2>2 DEF Abstract!Next
<1>12. ASSUME NEW target \in Targets, Seek(target) PROVE Abstract!Seek
  <2>1. /\ Published' = Published /\ Published
        /\ reader # None /\ reader' # None /\ reader'.position \in Nat
        /\ got' = <<>> /\ UNCHANGED plain
    BY <1>12, Sought
  <2>2. reader.position \in Nat
    BY <2>1, ReaderIs DEF Readers
  <2> QED BY <2>1, <2>2, Sizes DEF Abstract!Seek
<1>13. CASE Close
  <2>1. Published' = Published /\ UNCHANGED plain /\ reader' = None /\ got' = <<>>
    BY <1>13, Closed DEF Close, writer, file
  <2>2. Abstract!Lose
    BY <2>1 DEF Abstract!Lose
  <2> QED BY <2>2 DEF Abstract!Next
<1>14. CASE UNCHANGED vars
  <2>1. UNCHANGED writer /\ reader' = reader /\ got' = got
    BY <1>14 DEF vars
  <2>2. Published' = Published /\ plain' = plain
    BY <2>1, ReaderMoves, ReaderIs DEF FileInv, FileTypes, writer, file
  <2> QED BY <1>1, <2>1, <2>2
<1> QED BY <1>3, <1>4, <1>5, <1>6, <1>7, <1>8, <1>9, <1>10, <1>11, <1>12, <1>13, <1>14
        DEF Next, Abstract!Next

\* The file implements one that appears whole or not at all and is read as it
\* was written: for every chunk size and length, a kill at any point, and any
\* order of reads and seeks.
THEOREM FileImplements == Spec => ImplementsFile
<1>1. Init => Abstract!Init
  <2> SUFFICES ASSUME Init PROVE Abstract!Init
    OBVIOUS
  <2>1. ~Published /\ reader = None /\ got = <<>>
    BY FileStart, NotYet DEF Init
  <2> QED BY <2>1 DEF Abstract!Init
<1>2. FileInv /\ FileInv' /\ [Next]_vars => [Abstract!Next]_(Abstract!vars)
  BY StepIsAbstract
<1>3. Init => FileInv
  BY FileStart
<1>4. FileInv /\ [Next]_vars => FileInv'
  BY FileStep
<1> QED BY <1>1, <1>2, <1>3, <1>4, PTL DEF Spec, ImplementsFile, Abstract!Spec

(***************************************************************************)
(* Ranges.  read_range goes from chunk to chunk; what it has put together  *)
(* is found from the end of the range backwards.                           *)
(***************************************************************************)
LEMMA Least ==
  ASSUME NEW T \in SUBSET Nat, T # {}
  PROVE  \E m \in T : \A k \in T : m <= k
<1> DEFINE R == OpToRel(<, Nat)
<1>1. IsWellFoundedOn(R, Nat)
  BY NatLessThanWellFounded DEF OpToRel
<1>2. ASSUME NEW i \in Nat, NEW j \in Nat, i < j PROVE <<i, j>> \in R
  BY <1>2 DEF OpToRel
<1> HIDE DEF R
<1>3. PICK m \in T : \A k \in T : ~(<<k, m>> \in R)
  BY <1>1, WFMin
<1>4. \A k \in T : ~(k < m)
  BY <1>2, <1>3
<1>5. \A k \in T : m <= k
  BY <1>4
<1> QED BY <1>5

AgreeBackwards(f, g, end) ==
  /\ f[end] = g[end]
  /\ \A p \in 0..end - 1 : \E t \in Nat \ {0} :
       p + t <= end /\ (f[p + t] = g[p + t] => f[p] = g[p])

LEMMA Backwards ==
  ASSUME NEW end \in Nat, NEW f, NEW g, AgreeBackwards(f, g, end)
  PROVE  \A p \in 0..end : f[p] = g[p]
<1> DEFINE T == {d \in 0..end : f[end - d] # g[end - d]}
<1> SUFFICES ASSUME T # {} PROVE FALSE
  <2>1. ASSUME NEW p \in 0..end, T = {} PROVE f[p] = g[p]
    <3>1. end - p \in 0..end /\ end - (end - p) = p
      OBVIOUS
    <3> QED BY <2>1, <3>1
  <2> QED BY <2>1
<1>1. PICK m \in T : \A k \in T : m <= k
  <2>1. T \subseteq Nat
    OBVIOUS
  <2> HIDE DEF T
  <2> QED BY <2>1, Least
<1>2. m \in 1..end /\ end - m \in 0..end - 1
  BY <1>1 DEF AgreeBackwards
<1>3. PICK t \in Nat \ {0} :
        (end - m) + t <= end /\ (f[(end - m) + t] = g[(end - m) + t] => f[end - m] = g[end - m])
  BY <1>2 DEF AgreeBackwards
<1>4. m - t \in 0..end /\ m - t < m /\ end - (m - t) = (end - m) + t
  BY <1>2, <1>3
<1>5. m - t \in T
  BY <1>1, <1>3, <1>4
<1> QED BY <1>1, <1>2, <1>3, <1>4, <1>5

\* Two pieces of the plaintext, one after the other.
LEMMA Glued ==
  ASSUME FileInv, NEW p \in Nat, NEW q \in Nat, NEW end \in Nat, p <= q, q <= end, end <= Len(plain)
  PROVE  SubSeq(plain, p + 1, q) \o SubSeq(plain, q + 1, end) = SubSeq(plain, p + 1, end)
<1> DEFINE a == SubSeq(plain, p + 1, p + (q - p))
           b == SubSeq(plain, q + 1, q + (end - q))
           w == SubSeq(plain, p + 1, p + (end - p))
<1>1. plain \in Units /\ Follows(plain, 0) /\ Len(plain) \in Nat
      /\ q - p \in Nat /\ end - q \in Nat /\ end - p \in Nat
      /\ p + (q - p) = q /\ q + (end - q) = end /\ p + (end - p) = end
      /\ 0 + p = p /\ 0 + q = q
  BY DEF FileInv, FileTypes, InOrder, Units
<1>2. ASSUME NEW m \in Nat, NEW n \in Nat, m + n <= Len(plain)
      PROVE  /\ SubSeq(plain, m + 1, m + n) \in Units /\ Len(SubSeq(plain, m + 1, m + n)) = n
             /\ Follows(SubSeq(plain, m + 1, m + n), 0 + m)
  BY <1>1, <1>2, Part
<1>3. a \in Units /\ Len(a) = q - p /\ Follows(a, p)
  <2>1. p + (q - p) <= Len(plain)
    BY <1>1
  <2>2. a \in Units /\ Len(a) = q - p /\ Follows(a, 0 + p)
    BY <1>1, <1>2, <2>1
  <2> QED BY <1>1, <2>2
<1>4. b \in Units /\ Len(b) = end - q /\ Follows(b, q)
  <2>1. q + (end - q) <= Len(plain)
    BY <1>1
  <2>2. b \in Units /\ Len(b) = end - q /\ Follows(b, 0 + q)
    BY <1>1, <1>2, <2>1
  <2> QED BY <1>1, <2>2
<1>5. w \in Units /\ Len(w) = end - p /\ Follows(w, p)
  <2>1. p + (end - p) <= Len(plain)
    BY <1>1
  <2>2. w \in Units /\ Len(w) = end - p /\ Follows(w, 0 + p)
    BY <1>1, <1>2, <2>1
  <2> QED BY <1>1, <2>2
<1> HIDE DEF a, b, w
<1>6. a \o b \in Units /\ Len(a \o b) = end - p /\ Follows(a \o b, p)
  <2>1. p + Len(a) = q /\ Len(a) + Len(b) = end - p
    BY <1>1, <1>3, <1>4
  <2> QED BY <1>3, <1>4, <2>1, Joined
<1>7. a \o b = w
  <2>1. \A j \in 1..end - p : (a \o b)[j] = p + j /\ w[j] = p + j
    BY <1>5, <1>6 DEF Follows
  <2>2. a \o b \in Seq(1..MaxLen) /\ w \in Seq(1..MaxLen)
    BY <1>5, <1>6 DEF Units
  <2> QED BY <1>5, <1>6, <2>1, <2>2, SeqEqual
<1> QED BY <1>1, <1>7 DEF a, b, w

\* read_range, whatever the range.
LEMMA RangeRead ==
  ASSUME FileInv, reader # None, NEW start \in Nat, NEW n \in Nat
  PROVE  ReadRange(start, n) = SubSeq(plain, start + 1, MinOf(start + n, Len(plain)))
<1>0. ASSUME NEW p \in Nat, NEW b \in Nat, NEW s \in Units, NEW t \in Nat, Follows(s, b),
             b <= p, (p - b) + t <= Len(s), b + Len(s) <= Len(plain)
      PROVE  /\ SubSeq(s, (p - b) + 1, (p - b) + t) = SubSeq(plain, p + 1, p + t)
             /\ SubSeq(plain, p + 1, p + t) \in Units /\ p + t <= Len(plain)
  BY <1>0, PieceIs
<1> DEFINE end == MinOf(start + n, reader.len)
           Base(p) == (p \div chunk_size) * chunk_size
           Chunk(p) == chunks[(p \div chunk_size) + 1].plain
           Take(p) == MinOf(end - p, Len(Chunk(p)) - (p - Base(p)))
           Put(f, p) ==
             IF p = end THEN <<>>
             ELSE LET index == p \div chunk_size
                      chunk == chunks[index + 1].plain
                      within == p - index * chunk_size
                      take == MinOf(end - p, Len(chunk) - within)
                  IN  SubSeq(chunk, within + 1, within + take) \o f[p + take]
           from == CHOOSE f : f = [p \in 0..end |-> Put(f, p)]
           g == [p \in 0..end |-> SubSeq(plain, p + 1, end)]
<1>1. ReadRange(start, n) = IF start >= end THEN <<>> ELSE from[start]
  BY Zenon DEF ReadRange
<1>2. /\ Marked /\ reader.len = Len(plain) /\ Len(plain) \in Nat /\ plain \in Units
      /\ end = MinOf(start + n, Len(plain)) /\ end \in Nat /\ end <= Len(plain)
  <2>1. Marked /\ reader.len = Len(plain) /\ Len(plain) \in Nat /\ plain \in Units
    BY ReaderIs DEF FileInv, FileTypes, Units
  <2> QED BY <2>1 DEF MinOf
<1>3. ASSUME NEW p \in 0..end - 1
      PROVE  /\ Take(p) \in Nat \ {0} /\ p + Take(p) \in 0..end
             /\ \A f : Put(f, p) = SubSeq(plain, p + 1, p + Take(p)) \o f[p + Take(p)]
  <2> DEFINE c == Chunk(p)
             base == Base(p)
             take == Take(p)
  <2>1. p \in Nat /\ p < Len(plain) /\ p < end
    BY <1>2
  <2>2. /\ base \in Nat /\ p - base \in 0..chunk_size - 1
        /\ c \in Units /\ Follows(c, base) /\ Len(c) \in Nat /\ p - base < Len(c)
        /\ base + Len(c) <= Len(plain)
    BY <1>2, <2>1, PieceAt
  <2>3. take \in Nat \ {0} /\ p + take <= end /\ (p - base) + take <= Len(c)
    <3>1. take = IF end - p <= Len(c) - (p - base) THEN end - p ELSE Len(c) - (p - base)
      BY DEF MinOf
    <3>2. p - base \in Nat
      BY <2>2, Sizes
    <3> HIDE DEF take, c, base, end
    <3> QED BY <1>2, <2>1, <2>2, <3>1, <3>2
  <2>4. base <= p
    <3> HIDE DEF base
    <3> QED BY <2>1, <2>2, Sizes
  <2>5. /\ SubSeq(c, (p - base) + 1, (p - base) + take) = SubSeq(plain, p + 1, p + take)
        /\ SubSeq(plain, p + 1, p + take) \in Units /\ p + take <= Len(plain)
    <3>1. /\ base \in Nat /\ c \in Units /\ take \in Nat /\ Follows(c, base) /\ base <= p
          /\ (p - base) + take <= Len(c) /\ base + Len(c) <= Len(plain) /\ p \in Nat
      BY <2>1, <2>2, <2>3, <2>4
    <3> HIDE DEF c, base, take
    <3> QED BY <1>0, <3>1
  <2>6. ASSUME NEW f
        PROVE  Put(f, p) = SubSeq(c, (p - base) + 1, (p - base) + take) \o f[p + take]
    <3>1. p # end
      BY <1>2, <2>1
    <3> QED BY <3>1, Zenon
  <2>7. take \in Nat \ {0} /\ p + take \in 0..end
    <3> HIDE DEF take, end
    <3> QED BY <1>2, <2>1, <2>3
  <2> QED BY <2>5, <2>6, <2>7
<1>4. \A f : Put(f, end) = <<>>
  OBVIOUS
<1> HIDE DEF Put, Take, end
<1>5. g = [p \in 0..end |-> Put(g, p)]
  <2>1. ASSUME NEW p \in 0..end PROVE SubSeq(plain, p + 1, end) = Put(g, p)
    <3>1. CASE p = end
      <4>1. SubSeq(plain, end + 1, end) = <<>>
        BY <1>2 DEF Units
      <4> QED BY <1>4, <3>1, <4>1
    <3>2. CASE p # end
      <4>1. p \in 0..end - 1 /\ p \in Nat
        BY <1>2, <3>2
      <4>2. g[p + Take(p)] = SubSeq(plain, (p + Take(p)) + 1, end) /\ p + Take(p) \in Nat
            /\ p <= p + Take(p) /\ p + Take(p) <= end
        <5>1. p + Take(p) \in 0..end /\ Take(p) \in Nat
          BY <1>3, <4>1
        <5>2. g[p + Take(p)] = SubSeq(plain, (p + Take(p)) + 1, end)
          BY <5>1
        <5>3. p <= p + Take(p) /\ p + Take(p) <= end /\ p + Take(p) \in Nat
          BY <1>2, <4>1, <5>1
        <5> HIDE DEF g
        <5> QED BY <5>2, <5>3
      <4>3. Put(g, p) = SubSeq(plain, p + 1, p + Take(p)) \o SubSeq(plain, (p + Take(p)) + 1, end)
        BY <1>3, <4>1, <4>2
      <4> QED BY <1>2, <4>1, <4>2, <4>3, Glued
    <3> QED BY <3>1, <3>2
  <2> HIDE DEF g
  <2>2. g = [p \in 0..end |-> SubSeq(plain, p + 1, end)]
    BY DEF g
  <2> QED BY <2>1, <2>2
<1>6. from = [p \in 0..end |-> Put(from, p)]
  <2> HIDE DEF g
  <2> QED BY <1>5, Zenon
<1> HIDE DEF from
<1>7. \A p \in 0..end : from[p] = g[p]
  <2>1. \A p \in 0..end : from[p] = Put(from, p) /\ g[p] = Put(g, p)
    <3> HIDE DEF g
    <3> QED BY <1>5, <1>6
  <2> HIDE DEF g
  <2>2. from[end] = g[end]
    BY <1>2, <1>4, <2>1
  <2>3. ASSUME NEW p \in 0..end - 1
        PROVE  \E t \in Nat \ {0} : p + t <= end /\ (from[p + t] = g[p + t] => from[p] = g[p])
    <3>1. p \in 0..end
      BY <1>2
    <3>2. Take(p) \in Nat \ {0} /\ p + Take(p) <= end
      BY <1>2, <1>3
    <3>3. from[p + Take(p)] = g[p + Take(p)] => from[p] = g[p]
      BY <1>3, <2>1, <3>1
    <3> QED BY <3>2, <3>3
  <2>4. \A p \in 0..end - 1 : \E t \in Nat \ {0} :
          p + t <= end /\ (from[p + t] = g[p + t] => from[p] = g[p])
    BY <2>3
  <2>5. AgreeBackwards(from, g, end) /\ end \in Nat
    BY <1>2, <2>2, <2>4 DEF AgreeBackwards
  <2> QED BY <2>5, Backwards
<1>8. CASE start >= end
  <2>1. SubSeq(plain, start + 1, end) = <<>>
    BY <1>2, <1>8 DEF Units
  <2> QED BY <1>1, <1>2, <1>8, <2>1
<1>9. CASE ~(start >= end)
  <2>1. start \in 0..end /\ g[start] = SubSeq(plain, start + 1, end)
    BY <1>2, <1>9
  <2> QED BY <1>1, <1>2, <1>7, <1>9, <2>1
<1> QED BY <1>8, <1>9

\* A synced file gives every chunk it is asked for.
LEMMA SyncedLoads ==
  ASSUME FileInv, reader # None, status = "synced", NEW index \in 0..Len(chunks) - 1
  PROVE  Loads(index, reader.count, reader.len)
<1> DEFINE m == Len(chunks)
           ends == Len(chunks[m].plain)
           c == chunks[index + 1]
<1>1. /\ FileTypes /\ InOrder /\ Numbered /\ Marked /\ lost = {} /\ m \in Nat
      /\ reader.count = m /\ reader.len = Len(plain)
      /\ size = (m - 1) * sealed_chunk + ends + TAG_LEN
  BY ReaderIs DEF FileInv, FileTypes, Finished
<1>2. index \in Nat /\ index + 1 \in 1..m /\ m \in 1..m /\ m - 1 \in Nat /\ index < m
  BY <1>1
<1>3. c.index = index /\ c.last \in BOOLEAN /\ Len(c.plain) \in Nat /\ ends \in Nat
  <2>1. (index + 1) - 1 = index
    BY <1>2
  <2> QED BY <1>1, <1>2, <2>1, ChunkPlain DEF Numbered, Chunks
<1>4. CASE index + 1 = m
  <2>1. Loads(chunk_count - 1, chunk_count, plaintext_len) /\ chunk_count = m
        /\ plaintext_len = Len(plain)
    BY SealedOpens
  <2>2. m - 1 = index
    BY <1>1, <1>2, <1>4
  <2> QED BY <1>1, <2>1, <2>2
<1>5. CASE index + 1 # m
  <2>1. ~c.last /\ Len(c.plain) = chunk_size
    BY <1>1, <1>2, <1>3, <1>5 DEF Numbered, InOrder
  <2>2. Length(index, m, Len(plain)) = Len(c.plain) + TAG_LEN
    BY <1>5, <2>1 DEF Length, sealed_chunk
  <2>3. Offset(index) + Length(index, m, Len(plain)) <= size
    <3>1. index + 1 <= m - 1 /\ index + 1 \in Nat
      BY <1>2, <1>5
    <3>2. (index + 1) * sealed_chunk <= (m - 1) * sealed_chunk
          /\ (index + 1) * sealed_chunk = index * sealed_chunk + sealed_chunk
          /\ index * sealed_chunk \in Nat /\ (m - 1) * sealed_chunk \in Nat
      BY <1>2, <3>1, Products, Sizes
    <3>3. Length(index, m, Len(plain)) = sealed_chunk /\ Offset(index) = index * sealed_chunk
      BY <1>5 DEF Length, Offset
    <3> HIDE DEF ends, m
    <3> QED BY <1>1, <1>3, <3>2, <3>3, Sizes
  <2>4. index + 1 <= m /\ index + 1 \notin lost
    BY <1>1, <1>2
  <2> QED BY <1>1, <1>2, <1>3, <1>5, <2>1, <2>2, <2>3, <2>4 DEF Loads
<1> QED BY <1>4, <1>5

\* read_range (sealed_file.rs): the plaintext of the range, clamped to the end,
\* for every chunk size and range, and never a failure on a file that was synced.
THEOREM RangesExact == Spec => []RangesAreExact
<1>1. FileInv => RangesAreExact
  <2> SUFFICES ASSUME FileInv, reader # None, NEW start \in 0..MaxLen, NEW n \in 0..MaxLen
               PROVE  /\ status = "synced" => RangeLoads(start, n)
                      /\ RangeLoads(start, n) =>
                           ReadRange(start, n) = SubSeq(plain, start + 1, MinOf(start + n, Len(plain)))
    BY DEF RangesAreExact
  <2>1. start \in Nat /\ n \in Nat
    BY Sizes
  <2>2. ASSUME status = "synced", NEW p \in start..(MinOf(start + n, reader.len) - 1)
        PROVE  CanLoad(p \div chunk_size)
    <3>1. Marked /\ reader.len = Len(plain) /\ Len(plain) \in Nat /\ Len(chunks) \in Nat
      BY ReaderIs DEF FileInv, FileTypes, Units
    <3>2. p \in Nat /\ p < Len(plain)
      BY <2>1, <3>1 DEF MinOf
    <3> DEFINE k == p \div chunk_size
    <3>3. k \in Nat /\ k + 1 \in 1..Len(chunks)
      BY <3>1, <3>2, PieceAt
    <3> HIDE DEF k
    <3>4. k \in 0..Len(chunks) - 1
      BY <3>1, <3>3
    <3>5. CanLoad(k)
      BY <2>2, <3>4, SyncedLoads DEF CanLoad
    <3> QED BY <3>5 DEF k
  <2>3. status = "synced" => RangeLoads(start, n)
    BY <2>2 DEF RangeLoads
  <2> QED BY <2>1, <2>3, RangeRead
<1> QED BY <1>1, FileStart, FileStep, PTL DEF Spec

\* The file, its writer and its reader are well typed, and a reader's length
\* fits its chunks.
THEOREM FileTypeCorrect == Spec => []TypeOK
<1>1. FileInv => TypeOK
  <2> SUFFICES ASSUME FileInv PROVE TypeOK
    OBVIOUS
  <2>1. FileTypes
    BY DEF FileInv
  <2>2. ASSUME reader # None
        PROVE  /\ reader.len \in 0..reader.count * chunk_size
               /\ reader.position \in Nat /\ reader.cached \in 0..reader.count - 1
    <3> DEFINE m == Len(chunks)
               ends == Len(chunks[m].plain)
    <3>1. /\ reader \in Readers /\ Marked /\ reader.count = m /\ reader.len = Len(plain)
          /\ reader.cached \in 0..m - 1
      BY <2>2, ReaderIs
    <3>2. m \in 1..m /\ m - 1 \in Nat /\ (m - 1) + 1 = m /\ Len(plain) \in Nat
      BY <2>1, <3>1 DEF FileTypes, Marked, Units
    <3>3. Len(plain) = (m - 1) * chunk_size + ends /\ ends <= chunk_size /\ ends \in Nat
      BY <2>1, <3>1, <3>2, ChunkPlain DEF FileInv, Finished, InOrder
    <3>4. m * chunk_size = (m - 1) * chunk_size + chunk_size /\ (m - 1) * chunk_size \in Nat
      BY <3>2, Products, Sizes
    <3>5. Len(plain) \in 0..m * chunk_size
      <4> HIDE DEF m, ends
      <4> QED BY <3>2, <3>3, <3>4, Sizes
    <3> QED BY <3>1, <3>5 DEF Readers
  <2> QED BY <2>1, <2>2 DEF TypeOK, FileTypes, Chunks
<1> QED BY <1>1, FileStart, FileStep, PTL DEF Spec

-----------------------------------------------------------------------------
(***************************************************************************)
(* FileSwap, for any number of processes, versions, files and faults.      *)
(***************************************************************************)
Bodies == [form : {"plain", "sealed"}, halves : Seq(Nat), final : BOOLEAN]

Tasks ==
  [at : {"idle", "remove", "create"}]
    \cup [at : Places, source : Nat, file : Nat]
    \cup [at : Places, value : Nat, file : Nat]
    \cup [at : Places, value : Nat, file : Nat, source : Nat]

SwapTypes ==
  /\ kind \in {"data", "secret"}
  /\ files \in Seq(Bodies) /\ Len(files) \in 1..MaxFiles /\ synced \subseteq 1..Len(files)
  /\ dir \in onDisk /\ onDisk \subseteq [path : Nat, temp : Nat \cup {Nothing}]
  /\ proc \in [Procs -> Tasks]
  /\ newest \in 1..versions /\ versions \in 1..MaxVersions /\ faults \in 0..MaxFaults
  /\ overlapped \in BOOLEAN

\* All that is written in a body is one version.
Holds(body, version) == \A i \in 1..Len(body.halves) : body.halves[i] = version

\* What every name a power loss may leave leads to.
Kept(d) ==
  /\ d.path \in synced /\ d.path \in 1..Len(files) /\ WholeBody(files[d.path])
  /\ d.temp \in 1..Len(files) \cup {Nothing} /\ d.temp # d.path
  /\ kind = "secret" => d.temp = Nothing /\ \E v \in 1..versions : Holds(files[d.path], v)
  /\ kind = "data" => /\ Path.form = "plain" => d.path = dir.path
                      /\ ~overlapped => Holds(files[d.path], newest)

\* A process that fills a file of its own, and one whose file is complete.
Owns(p) == proc[p].at \in {"copy", "fill", "sync", "verify", "rename"}
Full(p) == proc[p].at \in {"sync", "verify", "rename"}

Owned(p) ==
  LET f == proc[p].file
  IN  /\ f \in 1..Len(files) /\ files[f].form = "sealed" /\ Len(files[f].halves) <= 2
      /\ \A d \in onDisk : d.path # f
      /\ \A q \in Procs \ {p} : Owns(q) => proc[q].file # f
      /\ Full(p) => WholeBody(files[f])
      /\ proc[p].at \in {"verify", "rename"} => f \in synced
      /\ kind = "data" => /\ dir.temp = f /\ Older(p) /\ proc[p].source = dir.path
                          /\ ~overlapped => Holds(files[f], newest)
      /\ kind = "secret" => /\ "value" \in DOMAIN proc[p] /\ proc[p].value \in 1..versions
                            /\ Holds(files[f], proc[p].value)
                            /\ Older(p) /\ ~overlapped => proc[p].value = newest

Busy(p) ==
  /\ kind = "data" => /\ proc[p].at # "fill"
                      /\ proc[p].at # "idle" => \A q \in Procs \ {p} : proc[q].at = "idle"
                      /\ proc[p].at \in {"remove", "create"} => Len(files) < MaxFiles
                      /\ proc[p].at = "syncdir" => Path.form = "sealed"
  /\ kind = "secret" => proc[p].at \in {"idle", "fill", "sync", "rename"}
  /\ Owns(p) => Owned(p)

SwapInv ==
  /\ SwapTypes
  /\ \A d \in onDisk : Kept(d)
  /\ \A p \in Procs : Busy(p)
  /\ ~overlapped => Holds(Path, newest)
  /\ \A f \in 1..Len(files) : \A i \in 1..Len(files[f].halves) : files[f].halves[i] \in 1..versions

LEMMA TaskFields ==
  ASSUME NEW task \in Tasks
  PROVE  /\ task.at \in Places
         /\ task.at \notin {"idle", "remove", "create"} => task.file \in Nat
         /\ "value" \in DOMAIN task => task.value \in Nat
         /\ "source" \in DOMAIN task => task.source \in Nat
         /\ task.at \in {"idle", "remove", "create"} /\ DOMAIN task = {"at"} =>
              task \in [at : {"idle", "remove", "create"}]
BY DEF Tasks, Places

LEMMA Going ==
  ASSUME proc \in [Procs -> Tasks], NEW p \in Procs, NEW place \in Places, Goto(p, place),
         proc[p].at \in {"idle", "remove", "create"} => place \in {"idle", "remove", "create"}
  PROVE  /\ proc' \in [Procs -> Tasks] /\ proc'[p].at = place
         /\ \A q \in Procs \ {p} : proc'[q] = proc[q]
         /\ proc'[p].file = proc[p].file /\ proc'[p].value = proc[p].value
         /\ proc'[p].source = proc[p].source /\ DOMAIN proc'[p] = DOMAIN proc[p]
<1> DEFINE task == [proc[p] EXCEPT !.at = place]
<1>1. task \in Tasks /\ task.at = place
  BY DEF Tasks, Places
<1>2. task.file = proc[p].file /\ task.value = proc[p].value /\ task.source = proc[p].source
      /\ DOMAIN task = DOMAIN proc[p]
  BY DEF Tasks
<1>3. proc' = [proc EXCEPT ![p] = task]
  BY DEF Goto
<1> HIDE DEF task
<1> QED BY <1>1, <1>2, <1>3

LEMMA Resting ==
  ASSUME proc \in [Procs -> Tasks], NEW p \in Procs, NEW task \in Tasks,
         proc' = [proc EXCEPT ![p] = task]
  PROVE  /\ proc' \in [Procs -> Tasks] /\ proc'[p] = task
         /\ \A q \in Procs \ {p} : proc'[q] = proc[q]
OBVIOUS

LEMMA IdleIsBusy ==
  ASSUME NEW p \in Procs, proc'[p].at = "idle"
  PROVE  Busy(p)'
BY DEF Busy, Owns

\* A step that leaves what the names lead to as it is.
LEMMA PathsKept ==
  ASSUME SwapInv, UNCHANGED <<kind, newest, overlapped>>, versions' >= versions,
         versions' \in Nat, synced \subseteq synced', Len(files') >= Len(files), Len(files') \in Nat,
         \A d \in onDisk : files'[d.path] = files[d.path], dir'.path = dir.path,
         \A d \in onDisk' : \E e \in onDisk :
           /\ d.path = e.path
           /\ \/ d.temp = e.temp
              \/ kind = "data" /\ d.temp \in 1..Len(files') \cup {Nothing} /\ d.temp # d.path
  PROVE  /\ \A d \in onDisk' : Kept(d)'
         /\ (~overlapped => Holds(Path, newest))'
         /\ Path'.form = Path.form
<1>1. dir \in onDisk /\ Path' = Path /\ versions \in Nat /\ Len(files) \in Nat
  BY DEF SwapInv, SwapTypes, Path
<1>2. ASSUME NEW d \in onDisk' PROVE Kept(d)'
  <2>1. PICK e \in onDisk : /\ d.path = e.path
                            /\ \/ d.temp = e.temp
                               \/ /\ kind = "data" /\ d.temp # d.path
                                  /\ d.temp \in 1..Len(files') \cup {Nothing}
    OBVIOUS
  <2>2. Kept(e) /\ files'[d.path] = files[e.path]
    BY <2>1 DEF SwapInv
  <2>3. /\ d.path \in synced' /\ d.path \in 1..Len(files') /\ d.path = e.path
        /\ d.temp \in 1..Len(files') \cup {Nothing} /\ d.temp # d.path
        /\ kind' = "secret" => d.temp = Nothing
    BY <1>1, <2>1, <2>2 DEF Kept, SwapInv, SwapTypes
  <2>4. WholeBody(files[d.path])'
    BY <2>1, <2>2 DEF Kept, WholeBody
  <2>5. kind' = "secret" => \E v \in 1..versions' : Holds(files[d.path], v)'
    <3>1. kind = "secret" => \E v \in 1..versions : Holds(files[e.path], v)
      BY <2>2 DEF Kept
    <3>2. 1..versions \subseteq 1..versions'
      BY <1>1
    <3> QED BY <2>2, <3>1, <3>2 DEF Holds
  <2>6. kind' = "data" => /\ Path'.form = "plain" => d.path = dir'.path
                          /\ ~overlapped' => Holds(files[d.path], newest)'
    BY <1>1, <2>1, <2>2 DEF Kept, Holds
  <2> QED BY <2>3, <2>4, <2>5, <2>6 DEF Kept
<1>3. (~overlapped => Holds(Path, newest))'
  BY <1>1 DEF SwapInv, Holds
<1> QED BY <1>1, <1>2, <1>3

\* Another process that rewrites a secret.
LEMMA OtherSecret ==
  ASSUME SwapInv, kind = "secret", kind' = kind, NEW q \in Procs, proc'[q] = proc[q],
         Len(files') >= Len(files), Len(files') \in Nat,
         Owns(q) => /\ files'[proc[q].file] = files[proc[q].file]
                    /\ \A d \in onDisk' : d.path # proc[q].file
                    /\ \A r \in Procs \ {q} : Owns(r)' => proc'[r].file # proc[q].file,
         synced \subseteq synced', versions' >= versions, versions' \in Nat,
         \/ overlapped' \/ ~Older(q)
         \/ UNCHANGED <<overlapped, newest>>
  PROVE  Busy(q)'
<1>1. Busy(q) /\ versions \in Nat /\ Len(files) \in Nat
  BY DEF SwapInv, SwapTypes
<1>2. Owns(q)' => Owns(q) /\ Owned(q)
  BY <1>1 DEF Busy, Owns
<1>3. ASSUME Owns(q)' PROVE Owned(q)'
  <2> DEFINE f == proc[q].file
  <2>1. Owns(q) /\ Owned(q) /\ proc'[q].file = f /\ f \in 1..Len(files) /\ files'[f] = files[f]
    BY <1>2, <1>3 DEF Owned
  <2>2. /\ f \in 1..Len(files') /\ files'[f].form = "sealed" /\ Len(files'[f].halves) <= 2
        /\ Full(q)' => WholeBody(files[f])
        /\ proc'[q].at \in {"verify", "rename"} => f \in synced'
    BY <1>1, <2>1 DEF Owned, Full
  <2>3. Full(q)' => WholeBody(files[proc[q].file])'
    BY <2>1, <2>2 DEF WholeBody
  <2>4. /\ "value" \in DOMAIN proc'[q] /\ proc'[q].value = proc[q].value
        /\ proc[q].value \in 1..versions' /\ Holds(files[f], proc[q].value)
        /\ Older(q) /\ ~overlapped => proc[q].value = newest
    BY <1>1, <2>1 DEF Owned
  <2>5. Holds(files[proc[q].file], proc[q].value)'
    BY <2>1, <2>4 DEF Holds
  <2>6. (Older(q) /\ ~overlapped)' => proc'[q].value = newest'
    BY <2>4 DEF Older
  <2>7. \A r \in Procs \ {q} : Owns(r)' => proc'[r].file # f
    BY <2>1
  <2> QED BY <2>1, <2>2, <2>3, <2>4, <2>5, <2>6, <2>7 DEF Owned
<1> QED BY <1>1, <1>3 DEF Busy

\* The moves of a data file's one sealer that leave its names' bodies alone.
LEMMA SealerMoves ==
  ASSUME SwapInv, kind = "data", NEW p \in Procs, UNCHANGED <<kind, newest, overlapped, versions>>,
         \A q \in Procs \ {p} : proc[q].at = "idle" /\ proc'[q] = proc[q],
         proc'[p].at # "fill",
         proc'[p].at \in {"remove", "create"} => Len(files') < MaxFiles,
         proc'[p].at = "syncdir" => proc[p].at = "syncdir",
         SwapTypes', synced \subseteq synced', Len(files') >= Len(files),
         \A d \in onDisk : files'[d.path] = files[d.path], dir'.path = dir.path,
         \A d \in onDisk' : \E e \in onDisk :
           /\ d.path = e.path
           /\ d.temp = e.temp \/ (d.temp \in 1..Len(files') \cup {Nothing} /\ d.temp # d.path),
         Owns(p)' => Owned(p)',
         \A f \in 1..Len(files') : \A i \in 1..Len(files'[f].halves) : files'[f].halves[i] \in 1..versions
  PROVE  SwapInv'
<1>1. /\ \A d \in onDisk' : Kept(d)'
      /\ (~overlapped => Holds(Path, newest))'
      /\ Path'.form = Path.form
  BY PathsKept DEF SwapTypes
<1>2. ASSUME NEW q \in Procs \ {p} PROVE Busy(q)'
  BY IdleIsBusy
<1>3. Busy(p)'
  BY <1>1 DEF Busy, SwapInv
<1> QED BY <1>1, <1>2, <1>3 DEF SwapInv

\* Only the sealer of a data file is at work on it.
LEMMA OneSealer ==
  ASSUME SwapInv, NEW p \in Procs, proc[p].at \in {"remove", "create", "copy", "verify", "syncdir"}
           \/ (kind = "data" /\ proc[p].at # "idle")
  PROVE  /\ kind = "data" /\ \A q \in Procs \ {p} : proc[q].at = "idle"
         /\ Busy(p) /\ (Owns(p) => Owned(p)) /\ Kept(dir) /\ dir.path \in 1..Len(files)
  BY DEF SwapInv, SwapTypes, Busy, Kept

LEMMA SealKeeps ==
  ASSUME SwapInv, NEW p \in Procs, Seal(p)
  PROVE  SwapInv'
<1>1. [at |-> "remove"] \in Tasks
  BY DEF Tasks
<1>2. /\ kind = "data" /\ (\A q \in Procs : proc[q].at = "idle") /\ Len(files) < MaxFiles
      /\ proc' = [proc EXCEPT ![p] = [at |-> "remove"]] /\ UNCHANGED <<disk, history>>
  BY DEF Seal, At
<1>3. /\ proc' \in [Procs -> Tasks] /\ proc'[p].at = "remove"
      /\ \A q \in Procs \ {p} : proc'[q] = proc[q]
  BY <1>1, <1>2, Resting DEF SwapInv, SwapTypes
<1>4. SwapTypes'
  BY <1>2, <1>3 DEF SwapInv, SwapTypes, disk, history
<1> QED BY <1>2, <1>3, <1>4, SealerMoves DEF disk, history, SwapInv, Owns

LEMMA RemoveKeeps ==
  ASSUME SwapInv, NEW p \in Procs, RemoveStale(p)
  PROVE  SwapInv'
<1>1. /\ proc[p].at = "remove" /\ Goto(p, "create") /\ UNCHANGED <<files, synced, history>>
      /\ \/ UNCHANGED <<dir, onDisk>>
         \/ dir' = [dir EXCEPT !.temp = Nothing] /\ onDisk' = onDisk \cup {dir'}
  BY DEF RemoveStale, At, Renames
<1>2. kind = "data" /\ (\A q \in Procs \ {p} : proc[q].at = "idle") /\ Busy(p) /\ Kept(dir)
  BY <1>1, OneSealer
<1>3. /\ proc' \in [Procs -> Tasks] /\ proc'[p].at = "create"
      /\ \A q \in Procs \ {p} : proc'[q] = proc[q]
  BY <1>1, Going DEF SwapInv, SwapTypes, Places
<1>4. /\ dir \in onDisk /\ dir \in [path : Nat, temp : Nat \cup {Nothing}] /\ Nothing \notin Nat
  BY SwapAssumption DEF SwapInv, SwapTypes
<1>5. /\ dir' \in [path : Nat, temp : Nat \cup {Nothing}] /\ dir'.path = dir.path
      /\ dir'.temp \in {dir.temp, Nothing} /\ dir' \in onDisk' /\ onDisk' \subseteq onDisk \cup {dir'}
  BY <1>1, <1>4
<1>6. SwapTypes'
  BY <1>1, <1>3, <1>5 DEF SwapInv, SwapTypes, history
<1>7. \A d \in onDisk' : \E e \in onDisk :
        /\ d.path = e.path
        /\ d.temp = e.temp \/ (d.temp \in 1..Len(files') \cup {Nothing} /\ d.temp # d.path)
  BY <1>4, <1>5
<1>8. /\ UNCHANGED <<kind, newest, overlapped, versions>> /\ proc'[p].at = "create" /\ ~Owns(p)'
      /\ Len(files') = Len(files) /\ Len(files) < MaxFiles /\ synced' = synced /\ Len(files) \in Nat
  BY <1>1, <1>2, <1>3 DEF history, SwapInv, SwapTypes, Owns, Busy
<1>9. /\ \A d \in onDisk : files'[d.path] = files[d.path]
      /\ \A f \in 1..Len(files') : \A i \in 1..Len(files'[f].halves) : files'[f].halves[i] \in 1..versions
  BY <1>1 DEF SwapInv
<1> QED BY <1>2, <1>3, <1>5, <1>6, <1>7, <1>8, <1>9, SealerMoves

LEMMA CreateKeeps ==
  ASSUME SwapInv, NEW p \in Procs, CreateTemp(p)
  PROVE  SwapInv'
<1> DEFINE new == Len(files) + 1
           body == Body("sealed", <<>>, FALSE)
           task == [at |-> "copy", source |-> dir.path, file |-> new]
<1>1. /\ proc[p].at = "create" /\ files' = Append(files, body) /\ UNCHANGED <<synced, history>>
      /\ dir' = [dir EXCEPT !.temp = new] /\ onDisk' = onDisk \cup {dir'}
      /\ proc' = [proc EXCEPT ![p] = task]
  BY DEF CreateTemp, At, Renames
<1>2. /\ kind = "data" /\ (\A q \in Procs \ {p} : proc[q].at = "idle") /\ Busy(p) /\ Kept(dir)
      /\ dir.path \in 1..Len(files)
  BY <1>1, OneSealer
<1>3. /\ dir \in onDisk /\ onDisk \subseteq [path : Nat, temp : Nat \cup {Nothing}]
      /\ files \in Seq(Bodies) /\ Len(files) \in Nat /\ proc \in [Procs -> Tasks] /\ Nothing \notin Nat
      /\ \A d \in onDisk : d.path \in 1..Len(files)
  BY SwapAssumption DEF SwapInv, SwapTypes, Kept
<1>4. body \in Bodies /\ body.halves = <<>> /\ body.form = "sealed" /\ task \in Tasks
  BY <1>2, <1>3 DEF Body, Bodies, Tasks, Places
<1>5. /\ task.at = "copy" /\ task.source = dir.path /\ task.file = new /\ "source" \in DOMAIN task
  OBVIOUS
<1> HIDE DEF body, task
<1>6. /\ proc' \in [Procs -> Tasks] /\ proc'[p] = task
      /\ \A q \in Procs \ {p} : proc'[q] = proc[q]
  BY <1>1, <1>3, <1>4, Resting
<1>7. /\ files' \in Seq(Bodies) /\ Len(files') = new /\ files'[new] = body
      /\ \A f \in 1..Len(files) : files'[f] = files[f]
  BY <1>1, <1>3, <1>4
<1>8. /\ dir' \in [path : Nat, temp : Nat \cup {Nothing}] /\ dir'.path = dir.path /\ dir'.temp = new
  BY <1>1, <1>3
<1>9. Len(files) < MaxFiles
  BY <1>1, <1>2 DEF Busy
<1>10. SwapTypes'
  <2>1. Len(files') \in 1..MaxFiles /\ synced' \subseteq 1..Len(files')
    BY <1>1, <1>3, <1>7, <1>9, SwapAssumption DEF SwapInv, SwapTypes
  <2>2. dir' \in onDisk' /\ onDisk' \subseteq [path : Nat, temp : Nat \cup {Nothing}]
    BY <1>1, <1>3, <1>8
  <2> QED BY <1>1, <1>6, <1>7, <2>1, <2>2 DEF SwapInv, SwapTypes, history
<1>11. \A d \in onDisk' : \E e \in onDisk :
         /\ d.path = e.path
         /\ d.temp = e.temp \/ (d.temp \in 1..Len(files') \cup {Nothing} /\ d.temp # d.path)
  <2>1. dir'.temp \in 1..Len(files') /\ dir'.temp # dir'.path
    BY <1>2, <1>3, <1>7, <1>8
  <2> QED BY <1>1, <1>3, <1>8, <2>1
<1>12. Owned(p)'
  <2>1. \A d \in onDisk' : d.path # new
    BY <1>1, <1>3, <1>8
  <2>2. \A q \in Procs \ {p} : ~Owns(q)'
    BY <1>2, <1>6 DEF Owns
  <2> QED BY <1>1, <1>2, <1>3, <1>4, <1>5, <1>6, <1>7, <1>8, <2>1, <2>2
       DEF Owned, Full, Older, Holds, history
<1>13. \A f \in 1..Len(files') : \A i \in 1..Len(files'[f].halves) : files'[f].halves[i] \in 1..versions
  BY <1>3, <1>4, <1>7 DEF SwapInv
<1>14. /\ UNCHANGED <<kind, newest, overlapped, versions>> /\ proc'[p].at = "copy"
       /\ synced \subseteq synced' /\ Len(files') >= Len(files)
       /\ \A d \in onDisk : files'[d.path] = files[d.path]
  BY <1>1, <1>3, <1>5, <1>6, <1>7 DEF history
<1> QED BY <1>2, <1>6, <1>8, <1>10, <1>11, <1>12, <1>13, <1>14, SealerMoves


\* The moves of one of the processes that write a secret.
LEMMA SecretMoves ==
  ASSUME SwapInv, kind = "secret", NEW p \in Procs, UNCHANGED <<kind, dir, onDisk, newest, overlapped>>,
         \A q \in Procs \ {p} : proc'[q] = proc[q],
         proc'[p].at \in {"idle", "fill", "sync", "rename"},
         SwapTypes', synced \subseteq synced', Len(files') >= Len(files), versions' >= versions,
         \A d \in onDisk : files'[d.path] = files[d.path],
         \A q \in Procs \ {p} : Owns(q) => files'[proc[q].file] = files[proc[q].file],
         Owns(p)' => Owned(p)',
         \A f \in 1..Len(files') : \A i \in 1..Len(files'[f].halves) : files'[f].halves[i] \in 1..versions'
  PROVE  SwapInv'
<1>1. Len(files') \in Nat /\ versions' \in Nat
  BY DEF SwapTypes
<1>2. \A d \in onDisk' : \E e \in onDisk : d.path = e.path /\ d.temp = e.temp
  OBVIOUS
<1>3. /\ \A d \in onDisk' : Kept(d)'
      /\ (~overlapped => Holds(Path, newest))'
  BY <1>1, <1>2, PathsKept
<1>4. ASSUME NEW q \in Procs \ {p} PROVE Busy(q)'
  <2>1. ASSUME Owns(q)
        PROVE  /\ \A d \in onDisk' : d.path # proc[q].file
               /\ \A r \in Procs \ {q} : Owns(r)' => proc'[r].file # proc[q].file
    <3>1. Owned(q) /\ proc'[q] = proc[q]
      BY <2>1 DEF SwapInv, Busy
    <3>2. Owns(q)' /\ proc'[q].file = proc[q].file
      BY <2>1, <3>1 DEF Owns
    <3>3. Owns(p)' => proc'[p].file # proc'[q].file
      BY <3>2 DEF Owned
    <3>4. \A r \in Procs \ {p, q} : Owns(r)' => proc'[r].file # proc[q].file
      BY <3>1 DEF Owned, Owns
    <3> QED BY <3>1, <3>2, <3>3, <3>4 DEF Owned
  <2> QED BY <1>1, <2>1, OtherSecret
<1>5. Busy(p)'
  BY DEF Busy
<1> QED BY <1>3, <1>4, <1>5 DEF SwapInv

\* A process's task ends before its file got its name.
LEMMA Abandoning ==
  ASSUME SwapInv, NEW p \in Procs, proc' = [proc EXCEPT ![p] = Idle],
         UNCHANGED <<kind, files, synced, newest, overlapped, versions>>,
         faults' \in 0..MaxFaults,
         \/ UNCHANGED <<dir, onDisk>>
         \/ kind = "data" /\ dir' = [dir EXCEPT !.temp = Nothing] /\ onDisk' = onDisk \cup {dir'}
         , proc[p].at # "idle"
  PROVE  SwapInv'
<1>1. Idle \in Tasks /\ Idle.at = "idle"
  BY DEF Idle, Tasks
<1>2. /\ proc' \in [Procs -> Tasks] /\ proc'[p].at = "idle"
      /\ \A q \in Procs \ {p} : proc'[q] = proc[q]
  BY <1>1, Resting DEF SwapInv, SwapTypes
<1>3. /\ dir \in onDisk /\ dir \in [path : Nat, temp : Nat \cup {Nothing}] /\ Nothing \notin Nat
  BY SwapAssumption DEF SwapInv, SwapTypes
<1>4. /\ dir' \in [path : Nat, temp : Nat \cup {Nothing}] /\ dir'.path = dir.path
      /\ dir'.temp \in {dir.temp, Nothing} /\ dir' \in onDisk' /\ onDisk' \subseteq onDisk \cup {dir'}
  BY <1>3
<1>5. SwapTypes'
  BY <1>2, <1>4 DEF SwapInv, SwapTypes
<1>6. \A f \in 1..Len(files') : \A i \in 1..Len(files'[f].halves) : files'[f].halves[i] \in 1..versions'
  BY DEF SwapInv
<1>7. CASE kind = "data"
  <2>1. \A d \in onDisk' : \E e \in onDisk :
          /\ d.path = e.path
          /\ d.temp = e.temp \/ (d.temp \in 1..Len(files') \cup {Nothing} /\ d.temp # d.path)
    BY <1>3, <1>4
  <2>2. \A q \in Procs \ {p} : proc[q].at = "idle"
    BY <1>7, OneSealer
  <2>3. Len(files') >= Len(files) /\ ~Owns(p)'
    BY <1>2 DEF Owns, SwapInv, SwapTypes
  <2> QED BY <1>2, <1>4, <1>5, <1>6, <1>7, <2>1, <2>2, <2>3, SealerMoves
<1>8. CASE kind = "secret"
  <2>1. Len(files') >= Len(files) /\ ~Owns(p)' /\ versions' >= versions
    BY <1>2 DEF Owns, SwapInv, SwapTypes
  <2> QED BY <1>2, <1>5, <1>6, <1>8, <2>1, SecretMoves
<1> QED BY <1>7, <1>8 DEF SwapInv, SwapTypes

LEMMA FailKeeps ==
  ASSUME SwapInv, NEW p \in Procs, FailWrite(p) \/ Kill(p)
  PROVE  SwapInv'
<1>1. proc[p].at # "idle" /\ faults' \in 0..MaxFaults
  <2>1. Fault => faults' \in 0..MaxFaults
    BY SwapAssumption DEF Fault, SwapInv, SwapTypes
  <2>2. FailWrite(p) => Fault /\ proc[p].at # "idle"
    BY DEF FailWrite
  <2>3. Kill(p) => Fault /\ proc[p].at # "idle"
    BY DEF Kill, At
  <2> QED BY <2>1, <2>2, <2>3
<1>2. /\ proc' = [proc EXCEPT ![p] = Idle]
      /\ UNCHANGED <<kind, files, synced, newest, overlapped, versions>>
      /\ \/ UNCHANGED <<dir, onDisk>>
         \/ kind # "secret" /\ dir' = [dir EXCEPT !.temp = Nothing] /\ onDisk' = onDisk \cup {dir'}
  BY DEF FailWrite, Kill, Renames, disk
<1> QED BY <1>1, <1>2, Abandoning DEF SwapInv, SwapTypes

\* A process's file is written to.
LEMMA Filling ==
  ASSUME SwapTypes, NEW f \in 1..Len(files), NEW body \in Bodies, files' = [files EXCEPT ![f] = body]
  PROVE  /\ files' \in Seq(Bodies) /\ Len(files') = Len(files) /\ files'[f] = body
         /\ \A g \in 1..Len(files) \ {f} : files'[g] = files[g]
BY DEF SwapTypes

\* Its task goes on, with the same file.
LEMMA SealerOwns ==
  ASSUME SwapInv, kind = "data", kind' = kind, NEW p \in Procs, Owns(p), Owns(p)',
         proc'[p].file = proc[p].file, proc'[p].source = proc[p].source,
         DOMAIN proc'[p] = DOMAIN proc[p],
         \A q \in Procs \ {p} : proc'[q] = proc[q],
         UNCHANGED <<dir, onDisk, newest, overlapped>>, Len(files') = Len(files),
         files'[proc[p].file].form = "sealed", Len(files'[proc[p].file].halves) <= 2,
         Full(p)' => WholeBody(files'[proc[p].file]),
         proc'[p].at \in {"verify", "rename"} => proc[p].file \in synced',
         ~overlapped => Holds(files'[proc[p].file], newest)
  PROVE  Owned(p)'
<1>1. Owned(p) /\ proc[p].at # "idle"
  BY DEF SwapInv, Busy, Owns
<1>2. \A q \in Procs \ {p} : ~Owns(q)'
  BY <1>1, OneSealer DEF Owns
<1> DEFINE f == proc[p].file
<1>3. /\ f \in 1..Len(files') /\ \A d \in onDisk' : d.path # f
      /\ dir'.temp = f /\ proc'[p].source = dir'.path /\ "source" \in DOMAIN proc'[p]
    BY <1>1 DEF Owned, Older
<1>4. Older(p)'
  BY <1>3 DEF Older, Owns
<1>5. /\ Full(p)' => WholeBody(files[proc[p].file])'
      /\ (~overlapped => Holds(files[proc[p].file], newest))'
  BY DEF WholeBody, Holds
<1> QED BY <1>2, <1>3, <1>4, <1>5 DEF Owned

LEMMA OneMore ==
  ASSUME NEW s \in Seq(Nat), NEW e \in Nat
  PROVE  /\ Append(s, e) \in Seq(Nat) /\ Len(Append(s, e)) = Len(s) + 1
         /\ Append(s, e)[Len(s) + 1] = e /\ \A i \in 1..Len(s) : Append(s, e)[i] = s[i]
OBVIOUS

LEMMA CopyKeeps ==
  ASSUME SwapInv, NEW p \in Procs, CopyHalf(p)
  PROVE  SwapInv'
<1> DEFINE f == proc[p].file
           half == files[proc[p].source].halves[Len(files[f].halves) + 1]
           body == [files[f] EXCEPT !.halves = Append(@, half)]
<1>1. /\ proc[p].at = "copy" /\ Len(files[f].halves) < 2
      /\ files' = [files EXCEPT ![f] = body] /\ UNCHANGED <<synced, dir, onDisk, proc, history>>
  BY DEF CopyHalf, At
<1>2. /\ kind = "data" /\ (\A q \in Procs \ {p} : proc[q].at = "idle") /\ Busy(p) /\ Kept(dir)
      /\ Owns(p) /\ Owned(p)
  BY <1>1, OneSealer DEF Owns
<1>3. /\ f \in 1..Len(files) /\ files[f] \in Bodies /\ files[f].form = "sealed"
      /\ SwapTypes /\ versions \in Nat /\ Len(files[f].halves) \in Nat
      /\ \A d \in onDisk : d.path \in 1..Len(files) /\ d.path # f
  <2>1. SwapTypes /\ f \in 1..Len(files) /\ files[f].form = "sealed"
        /\ \A d \in onDisk : d.path \in 1..Len(files) /\ d.path # f
    BY <1>2 DEF SwapInv, Owned, Kept
  <2>2. files[f] \in Bodies /\ versions \in Nat
    BY <2>1 DEF SwapTypes
  <2> QED BY <2>1, <2>2 DEF Bodies
<1>4. /\ half \in 1..versions /\ (~overlapped => half = newest)
  <2>1. /\ proc[p].source = dir.path /\ dir.path \in 1..Len(files) /\ Len(Path.halves) = 2
        /\ ~overlapped => Holds(Path, newest)
    BY <1>2 DEF Owned, Kept, WholeBody, Path, SwapInv
  <2>2. Len(files[f].halves) + 1 \in 1..2
    BY <1>1, <1>3
  <2> QED BY <2>1, <2>2 DEF SwapInv, Holds, Path
<1> HIDE DEF half
<1>5. /\ body \in Bodies /\ body.form = "sealed" /\ Len(body.halves) = Len(files[f].halves) + 1
      /\ body.halves[Len(body.halves)] = half
      /\ \A i \in 1..Len(files[f].halves) : body.halves[i] = files[f].halves[i]
  <2>1. half \in Nat /\ files[f].halves \in Seq(Nat)
    BY <1>3, <1>4 DEF Bodies
  <2>2. /\ Append(files[f].halves, half) \in Seq(Nat)
        /\ Len(Append(files[f].halves, half)) = Len(files[f].halves) + 1
        /\ Append(files[f].halves, half)[Len(files[f].halves) + 1] = half
        /\ \A i \in 1..Len(files[f].halves) : Append(files[f].halves, half)[i] = files[f].halves[i]
    BY <2>1, OneMore
  <2>3. body.halves = Append(files[f].halves, half) /\ body.form = files[f].form
    BY <1>3 DEF Bodies
  <2>4. Append(files[f].halves, half) \in Seq(Nat)
    BY <2>2
  <2>5. body \in Bodies
    BY <1>3, <2>3, <2>4 DEF Bodies
  <2> QED BY <1>3, <2>2, <2>3, <2>5
<1> HIDE DEF body
<1>6. /\ files' \in Seq(Bodies) /\ Len(files') = Len(files) /\ files'[f] = body
      /\ \A g \in 1..Len(files) \ {f} : files'[g] = files[g]
  BY <1>1, <1>3, <1>5, Filling
<1>7. SwapTypes'
  BY <1>1, <1>3, <1>6 DEF SwapTypes, history
<1>8. \A i \in 1..Len(body.halves) : i \in 1..Len(files[f].halves) \/ i = Len(body.halves)
  BY <1>3, <1>5
<1>9. ~overlapped => Holds(body, newest)
  BY <1>2, <1>4, <1>5, <1>8 DEF Owned, Holds
<1>10. \A g \in 1..Len(files') : \A i \in 1..Len(files'[g].halves) : files'[g].halves[i] \in 1..versions
  <2>1. \A i \in 1..Len(body.halves) : body.halves[i] \in 1..versions
    BY <1>3, <1>4, <1>5, <1>8 DEF SwapInv
  <2> QED BY <1>6, <2>1 DEF SwapInv
<1>11. /\ UNCHANGED <<kind, newest, overlapped, versions>> /\ proc' = proc
       /\ Owns(p)' /\ ~Full(p)'
  BY <1>1 DEF history, Owns, Full
<1>12. Owned(p)'
  <2>1. /\ kind = "data" /\ kind' = kind /\ Owns(p) /\ Owns(p)'
        /\ proc'[p].file = proc[p].file /\ proc'[p].source = proc[p].source
        /\ DOMAIN proc'[p] = DOMAIN proc[p] /\ \A q \in Procs \ {p} : proc'[q] = proc[q]
    BY <1>2, <1>11
  <2>2. UNCHANGED <<dir, onDisk, newest, overlapped>> /\ Len(files') = Len(files)
    BY <1>1, <1>6, <1>11
  <2>3. /\ files'[proc[p].file].form = "sealed" /\ Len(files'[proc[p].file].halves) <= 2
        /\ Full(p)' => WholeBody(files'[proc[p].file])
        /\ proc'[p].at \in {"verify", "rename"} => proc[p].file \in synced'
        /\ ~overlapped => Holds(files'[proc[p].file], newest)
    BY <1>1, <1>3, <1>5, <1>6, <1>9, <1>11
  <2> QED BY <2>1, <2>2, <2>3, SealerOwns
<1>13. /\ \A d \in onDisk' : \E e \in onDisk : d.path = e.path /\ d.temp = e.temp
       /\ \A d \in onDisk : files'[d.path] = files[d.path]
       /\ synced \subseteq synced' /\ Len(files') >= Len(files) /\ dir' = dir
       /\ proc'[p].at = "copy"
  BY <1>1, <1>3, <1>6 DEF SwapTypes
<1> QED BY <1>2, <1>7, <1>10, <1>11, <1>12, <1>13, SealerMoves


\* The file is complete: finish marks the last chunk.
LEMMA Finalised ==
  ASSUME NEW body \in Bodies, Len(body.halves) = 2
  PROVE  /\ [body EXCEPT !.final = TRUE] \in Bodies /\ WholeBody([body EXCEPT !.final = TRUE])
         /\ [body EXCEPT !.final = TRUE].halves = body.halves
         /\ [body EXCEPT !.final = TRUE].form = body.form
BY DEF Bodies, WholeBody

LEMMA FinishKeeps ==
  ASSUME SwapInv, NEW p \in Procs, FinishTemp(p)
  PROVE  SwapInv'
<1> DEFINE f == proc[p].file
           body == [files[f] EXCEPT !.final = TRUE]
<1>1. /\ proc[p].at = "copy" /\ Len(files[f].halves) = 2 /\ Goto(p, "sync")
      /\ files' = [files EXCEPT ![f] = body] /\ UNCHANGED <<synced, dir, onDisk, history>>
  BY DEF FinishTemp, At
<1>2. /\ kind = "data" /\ (\A q \in Procs \ {p} : proc[q].at = "idle") /\ Owns(p) /\ Owned(p)
  BY <1>1, OneSealer DEF Owns
<1>3. /\ f \in 1..Len(files) /\ files[f].form = "sealed" /\ SwapTypes
      /\ \A d \in onDisk : d.path \in 1..Len(files) /\ d.path # f
  BY <1>2 DEF SwapInv, Owned, Kept
<1>4. body \in Bodies /\ WholeBody(body) /\ body.halves = files[f].halves /\ body.form = "sealed"
  <2>1. files[f] \in Bodies
    BY <1>3 DEF SwapTypes
  <2> QED BY <1>1, <1>3, <2>1, Finalised
<1> HIDE DEF body
<1>5. /\ files' \in Seq(Bodies) /\ Len(files') = Len(files) /\ files'[f] = body
      /\ \A g \in 1..Len(files) \ {f} : files'[g] = files[g]
  BY <1>1, <1>3, <1>4, Filling
<1>6. /\ proc' \in [Procs -> Tasks] /\ proc'[p].at = "sync"
      /\ \A q \in Procs \ {p} : proc'[q] = proc[q]
      /\ proc'[p].file = f /\ proc'[p].source = proc[p].source /\ DOMAIN proc'[p] = DOMAIN proc[p]
  BY <1>1, <1>3, Going DEF SwapTypes, Places
<1>7. SwapTypes'
  BY <1>1, <1>3, <1>5, <1>6 DEF SwapTypes, history
<1>8. ~overlapped => Holds(body, newest)
  BY <1>2, <1>4 DEF Owned, Holds
<1>9. \A g \in 1..Len(files') : \A i \in 1..Len(files'[g].halves) : files'[g].halves[i] \in 1..versions
  BY <1>3, <1>4, <1>5 DEF SwapInv
<1>10. /\ UNCHANGED <<kind, newest, overlapped, versions>>
       /\ Owns(p)'
  BY <1>1, <1>6 DEF history, Owns
<1>11. Owned(p)'
  <2>0. files'[f] = body
    BY <1>5
  <2>5. Len(body.halves) = 2
    BY <1>4 DEF WholeBody
  <2>4. Len(body.halves) = 2 /\ Len(body.halves) <= 2
    BY <2>5
  <2>1. /\ files'[f].form = "sealed" /\ Len(files'[f].halves) <= 2 /\ WholeBody(files'[f])
    BY <1>4, <2>0, <2>4 DEF WholeBody
  <2>3. ~overlapped => Holds(files'[f], newest)
    BY <1>8, <2>0
  <2>2. UNCHANGED <<kind, dir, onDisk, newest, overlapped>> /\ proc'[p].at \notin {"verify", "rename"}
    BY <1>1, <1>6, <1>10
  <2> QED BY <1>2, <1>5, <1>6, <1>10, <2>1, <2>2, <2>3, SealerOwns
<1>12. /\ \A d \in onDisk' : \E e \in onDisk : d.path = e.path /\ d.temp = e.temp
       /\ \A d \in onDisk : files'[d.path] = files[d.path]
       /\ synced \subseteq synced' /\ Len(files') >= Len(files) /\ dir' = dir
  BY <1>1, <1>3, <1>5 DEF SwapTypes
<1> QED BY <1>2, <1>6, <1>7, <1>9, <1>10, <1>11, <1>12, SealerMoves

\* The file is synced, or verified.
LEMMA SyncKeeps ==
  ASSUME SwapInv, NEW p \in Procs, SyncTemp(p) \/ Verify(p)
  PROVE  SwapInv'
<1> DEFINE f == proc[p].file
<1>1. /\ proc[p].at \in {"sync", "verify"} /\ UNCHANGED <<files, dir, onDisk, history>>
      /\ \/ /\ proc[p].at = "sync" /\ Goto(p, IF kind = "data" THEN "verify" ELSE "rename")
            /\ synced' = synced \cup {f}
         \/ proc[p].at = "verify" /\ Goto(p, "rename") /\ synced' = synced
  BY DEF SyncTemp, Verify, At, disk
<1>2. Owns(p) /\ Owned(p) /\ Busy(p) /\ SwapTypes /\ f \in 1..Len(files)
      /\ WholeBody(files[f]) /\ (proc[p].at = "verify" => f \in synced)
  BY <1>1 DEF SwapInv, Busy, Owns, Owned, Full
<1>3. /\ proc' \in [Procs -> Tasks] /\ proc'[p].at = IF kind = "data" /\ proc[p].at = "sync" THEN "verify" ELSE "rename"
      /\ \A q \in Procs \ {p} : proc'[q] = proc[q]
      /\ proc'[p].file = f /\ proc'[p].source = proc[p].source /\ DOMAIN proc'[p] = DOMAIN proc[p]
      /\ proc'[p].value = proc[p].value
  <2>1. CASE Goto(p, "verify") /\ kind = "data" /\ proc[p].at = "sync"
    BY <1>2, <2>1, Going DEF SwapTypes, Places
  <2>2. CASE Goto(p, "rename") /\ (kind = "secret" \/ proc[p].at = "verify")
    BY <1>1, <1>2, <2>2, Going DEF SwapTypes, Places
  <2> QED BY <1>1, <1>2, <2>1, <2>2 DEF SwapTypes
<1>4. synced \subseteq synced' /\ synced' \subseteq 1..Len(files) /\ f \in synced'
  BY <1>1, <1>2 DEF SwapTypes
<1>5. SwapTypes'
  BY <1>1, <1>2, <1>3, <1>4 DEF SwapTypes, history
<1>6. /\ UNCHANGED <<kind, newest, overlapped, versions>> /\ Owns(p)'
      /\ Len(files') >= Len(files) /\ Len(files') = Len(files) /\ versions' >= versions
  BY <1>1, <1>2, <1>3 DEF history, Owns, SwapTypes
<1>7. \A g \in 1..Len(files') : \A i \in 1..Len(files'[g].halves) : files'[g].halves[i] \in 1..versions'
  BY <1>1, <1>6 DEF SwapInv
<1>8. CASE kind = "data"
  <2>1. Owned(p)'
    BY <1>1, <1>2, <1>3, <1>4, <1>6, <1>8, SealerOwns DEF Owned
  <2>2. \A q \in Procs \ {p} : proc[q].at = "idle"
    BY <1>1, <1>8, OneSealer
  <2> QED BY <1>1, <1>3, <1>4, <1>5, <1>6, <1>7, <1>8, <2>1, <2>2, SealerMoves
<1>9. CASE kind = "secret"
  <2>1. Owned(p)'
    <3>1. /\ f \in 1..Len(files') /\ files'[f].form = "sealed" /\ Len(files'[f].halves) <= 2
          /\ \A d \in onDisk' : d.path # f
          /\ "value" \in DOMAIN proc'[p] /\ proc'[p].value \in 1..versions'
      BY <1>1, <1>2, <1>3, <1>6, <1>9 DEF Owned
    <3>2. \A q \in Procs \ {p} : Owns(q)' => proc'[q].file # f
      BY <1>2, <1>3 DEF Owned, Owns
    <3>3. WholeBody(files[proc[p].file])' /\ Holds(files[proc[p].file], proc[p].value)'
      BY <1>1, <1>2, <1>3, <1>9 DEF Owned, WholeBody, Holds
    <3>4. (Older(p) /\ ~overlapped)' => proc'[p].value = newest'
      BY <1>2, <1>3, <1>6, <1>9, <1>1 DEF Owned, Older
    <3> QED BY <1>3, <1>4, <1>6, <1>9, <3>1, <3>2, <3>3, <3>4 DEF Owned
  <2>2. \A q \in Procs \ {p} : Owns(q) => files'[proc[q].file] = files[proc[q].file]
    BY <1>1
  <2>3. proc'[p].at = "rename" /\ \A d \in onDisk : files'[d.path] = files[d.path]
    BY <1>1, <1>3, <1>9
  <2> QED BY <1>1, <1>3, <1>4, <1>5, <1>6, <1>7, <1>9, <2>1, <2>2, <2>3, SecretMoves
<1> QED BY <1>2, <1>8, <1>9 DEF SwapTypes

LEMMA RenameKeeps ==
  ASSUME SwapInv, NEW p \in Procs, RenameTemp(p)
  PROVE  SwapInv'
<1> DEFINE f == proc[p].file
<1>1. /\ kind = "data" /\ proc[p].at = "rename" /\ Goto(p, "syncdir")
      /\ dir' = [path |-> dir.temp, temp |-> Nothing] /\ onDisk' = onDisk \cup {dir'}
      /\ UNCHANGED <<files, synced, history>>
  BY DEF RenameTemp, Renames, At
<1>2. /\ Owned(p) /\ Owns(p) /\ \A q \in Procs \ {p} : proc[q].at = "idle"
      /\ SwapTypes /\ Nothing \notin Nat
  BY <1>1, OneSealer, SwapAssumption DEF SwapInv, Owns
<1>3. /\ dir.temp = f /\ f \in 1..Len(files) /\ f \in synced /\ WholeBody(files[f])
      /\ files[f].form = "sealed" /\ (~overlapped => Holds(files[f], newest))
  BY <1>1, <1>2 DEF Owned, Full
<1>4. dir'.path = f /\ dir'.temp = Nothing /\ Path'.form = "sealed" /\ Path' = files[f]
  BY <1>1, <1>3 DEF Path
<1>5. /\ proc' \in [Procs -> Tasks] /\ proc'[p].at = "syncdir"
      /\ \A q \in Procs \ {p} : proc'[q] = proc[q]
  BY <1>1, <1>2, Going DEF SwapTypes, Places
<1>6. SwapTypes'
  <2>1. dir' \in [path : Nat, temp : Nat \cup {Nothing}]
    BY <1>1, <1>2, <1>3 DEF SwapTypes
  <2> QED BY <1>1, <1>2, <1>5, <2>1 DEF SwapTypes, history
<1>7. ASSUME NEW d \in onDisk' PROVE Kept(d)'
  <2>1. CASE d \in onDisk
    <3>1. Kept(d)
      BY <2>1 DEF SwapInv
    <3>2. /\ WholeBody(files[d.path])' /\ (~overlapped => Holds(files[d.path], newest))'
      BY <1>1, <3>1 DEF Kept, WholeBody, Holds, history
    <3> QED BY <1>1, <1>4, <3>1, <3>2 DEF Kept, history
  <2>2. CASE d = dir'
    <3>1. /\ WholeBody(files[d.path])' /\ (~overlapped => Holds(files[d.path], newest))'
      BY <1>1, <1>3, <1>4, <2>2 DEF WholeBody, Holds, history
    <3>2. /\ d.path = f /\ d.temp = Nothing /\ d.temp # f
      BY <1>2, <1>3, <1>4, <2>2 DEF SwapTypes
    <3> QED BY <1>1, <1>3, <1>4, <2>2, <3>1, <3>2 DEF Kept, history
  <2> QED BY <1>1, <2>1, <2>2
<1>8. ASSUME NEW q \in Procs \ {p} PROVE Busy(q)'
  BY <1>2, <1>5, IdleIsBusy
<1>9. Busy(p)'
  BY <1>1, <1>2, <1>4, <1>5 DEF Busy, Owns, history
<1>10. (~overlapped => Holds(Path, newest))'
  BY <1>1, <1>3, <1>4 DEF Holds, history
<1>11. \A g \in 1..Len(files') : \A i \in 1..Len(files'[g].halves) : files'[g].halves[i] \in 1..versions'
  BY <1>1 DEF SwapInv, history
<1> QED BY <1>6, <1>7, <1>8, <1>9, <1>10, <1>11 DEF SwapInv

LEMMA SyncDirKeeps ==
  ASSUME SwapInv, NEW p \in Procs, SyncDir(p)
  PROVE  SwapInv'
<1>1. /\ proc[p].at = "syncdir" /\ onDisk' \in {onDisk, {dir}}
      /\ proc' = [proc EXCEPT ![p] = Idle]
      /\ UNCHANGED <<files, synced, dir, kind, newest, overlapped, versions, faults>>
  BY DEF SyncDir, At, history
<1>2. /\ kind = "data" /\ (\A q \in Procs \ {p} : proc[q].at = "idle") /\ SwapTypes
  BY <1>1, OneSealer DEF SwapInv
<1>3. Idle \in Tasks /\ Idle.at = "idle"
  BY DEF Idle, Tasks
<1>4. /\ proc' \in [Procs -> Tasks] /\ proc'[p].at = "idle"
      /\ \A q \in Procs \ {p} : proc'[q] = proc[q]
  BY <1>1, <1>2, <1>3, Resting DEF SwapTypes
<1>5. onDisk' \subseteq onDisk /\ dir \in onDisk'
  BY <1>1, <1>2 DEF SwapTypes
<1>6. SwapTypes'
  BY <1>1, <1>2, <1>4, <1>5 DEF SwapTypes
<1>7. \A q \in Procs : Busy(q)'
  BY <1>2, <1>4, IdleIsBusy
<1>8. (\A d \in onDisk' : Kept(d)') /\ (~overlapped => Holds(Path, newest))'
  <2>1. /\ versions' >= versions /\ versions' \in Nat /\ synced \subseteq synced'
        /\ Len(files') >= Len(files) /\ Len(files') \in Nat
    BY <1>1, <1>2, SwapAssumption DEF SwapTypes
  <2> QED BY <1>1, <1>5, <2>1, PathsKept
<1>9. \A g \in 1..Len(files') : \A i \in 1..Len(files'[g].halves) : files'[g].halves[i] \in 1..versions'
  BY <1>1 DEF SwapInv
<1> QED BY <1>6, <1>7, <1>8, <1>9 DEF SwapInv

LEMMA OwnerKeeps ==
  ASSUME SwapInv, OwnerWrites
  PROVE  SwapInv'
<1> DEFINE new == versions + 1
           body == Body("plain", <<new, new>>, TRUE)
           f == dir.path
<1>1. /\ kind = "data" /\ Path.form = "plain" /\ versions < MaxVersions
      /\ versions' = new /\ newest' = new /\ files' = [files EXCEPT ![f] = body]
      /\ (overlapped' <=> \E q \in Procs : Older(q)) /\ overlapped' \in BOOLEAN
      /\ UNCHANGED <<kind, synced, dir, onDisk, proc, faults>>
  BY DEF OwnerWrites
<1>2. /\ SwapTypes /\ dir \in onDisk /\ Kept(dir) /\ f \in 1..Len(files) /\ new \in Nat
      /\ \A d \in onDisk : Kept(d) /\ d.path = f
  BY <1>1 DEF SwapInv, SwapTypes, Kept
<1>3. /\ body \in Bodies /\ WholeBody(body) /\ Holds(body, new) /\ body.form = "plain"
      /\ \A i \in 1..Len(body.halves) : body.halves[i] = new
  BY <1>2 DEF Body, Bodies, WholeBody, Holds
<1> HIDE DEF body
<1>4. /\ files' \in Seq(Bodies) /\ Len(files') = Len(files) /\ files'[f] = body
      /\ \A g \in 1..Len(files) \ {f} : files'[g] = files[g]
  BY <1>1, <1>2, <1>3, Filling
<1>5. new \in 1..new /\ new \in 1..MaxVersions /\ 1..versions \subseteq 1..new
  BY <1>1, <1>2, SwapAssumption DEF SwapTypes
<1>6. SwapTypes'
  BY <1>1, <1>2, <1>4, <1>5 DEF SwapTypes
<1>8. ASSUME NEW d \in onDisk' PROVE Kept(d)'
  <2>1. d \in onDisk /\ Kept(d) /\ d.path = f
    BY <1>1, <1>2
  <2>2. WholeBody(files[d.path])' /\ Holds(files[d.path], newest)'
    BY <1>1, <1>3, <1>4, <2>1 DEF Holds, WholeBody
  <2> QED BY <1>1, <1>4, <2>1, <2>2 DEF Kept
<1>9. ASSUME NEW p \in Procs PROVE Busy(p)'
  <2>1. Busy(p) /\ proc'[p] = proc[p]
    BY <1>1 DEF SwapInv
  <2>2. ASSUME Owns(p) PROVE Owned(p)'
    <3>1. Owned(p) /\ Older(p) /\ dir.temp = proc[p].file /\ proc[p].file # f
          /\ proc[p].file \in 1..Len(files)
      BY <1>1, <1>2, <2>1, <2>2 DEF Busy, Owned
    <3>2. overlapped' /\ files'[proc[p].file] = files[proc[p].file]
      BY <1>1, <1>4, <3>1
    <3>3. Older(p)' /\ (Full(p)' => WholeBody(files[proc[p].file])')
      BY <1>1, <3>1, <3>2 DEF Owned, Older, Full, WholeBody
    <3>4. \A q \in Procs \ {p} : Owns(q)' => proc'[q].file # proc[p].file
      BY <1>1, <3>1 DEF Owned, Owns
    <3> QED BY <1>1, <1>4, <3>1, <3>2, <3>3, <3>4 DEF Owned
  <2>3. proc[p].at # "syncdir"
    BY <1>1, <2>1 DEF Busy
  <2> QED BY <1>1, <1>4, <2>1, <2>2, <2>3 DEF Busy, Owns
<1>10. (~overlapped => Holds(Path, newest))'
  BY <1>1, <1>3, <1>4 DEF Holds, Path
<1>11. \A g \in 1..Len(files') : \A i \in 1..Len(files'[g].halves) : files'[g].halves[i] \in 1..versions'
  BY <1>1, <1>3, <1>4, <1>5 DEF SwapInv
<1> QED BY <1>1, <1>6, <1>8, <1>9, <1>10, <1>11 DEF SwapInv

\* A process takes a fresh file to write a secret into.
LEMMA BeginKeeps ==
  ASSUME SwapInv, kind = "secret", NEW p \in Procs, NEW task \in Tasks, proc[p].at = "idle",
         Begin(p, task), task.at = "fill", task.file = Len(files) + 1,
         "value" \in DOMAIN task, versions' \in 1..MaxVersions, versions' >= versions,
         task.value \in 1..versions',
         "source" \in DOMAIN task /\ ~overlapped => task.value = newest,
         UNCHANGED <<kind, synced, dir, onDisk, newest, overlapped, faults>>
  PROVE  SwapInv'
<1> DEFINE new == Len(files) + 1
           body == Body("sealed", <<>>, FALSE)
<1>1. /\ files' = Append(files, body) /\ Len(files) < MaxFiles /\ proc' = [proc EXCEPT ![p] = task]
  BY DEF Begin
<1>2. /\ SwapTypes /\ Len(files) \in Nat /\ versions \in Nat /\ versions' \in Nat
      /\ \A d \in onDisk : d.path \in 1..Len(files)
      /\ \A q \in Procs : Owns(q) => proc[q].file \in 1..Len(files)
  BY SwapAssumption DEF SwapInv, SwapTypes, Kept, Busy, Owned
<1>3. body \in Bodies /\ body.halves = <<>> /\ body.form = "sealed"
  BY DEF Body, Bodies
<1> HIDE DEF body
<1>4. /\ files' \in Seq(Bodies) /\ Len(files') = new /\ files'[new] = body
      /\ \A f \in 1..Len(files) : files'[f] = files[f]
  BY <1>1, <1>2, <1>3 DEF SwapTypes
<1>5. /\ proc' \in [Procs -> Tasks] /\ proc'[p] = task
      /\ \A q \in Procs \ {p} : proc'[q] = proc[q]
  BY <1>1, <1>2, Resting DEF SwapTypes
<1>6. SwapTypes'
  <2>1. Len(files') \in 1..MaxFiles /\ synced' \subseteq 1..Len(files')
    BY <1>1, <1>2, <1>4, SwapAssumption DEF SwapTypes
  <2>2. newest' \in 1..versions'
    BY <1>2 DEF SwapTypes
  <2> QED BY <1>2, <1>4, <1>5, <2>1, <2>2 DEF SwapTypes
<1>7. Owned(p)'
  <2>1. \A d \in onDisk' : d.path # new
    BY <1>2
  <2>2. \A q \in Procs \ {p} : Owns(q)' => proc'[q].file # new
    BY <1>2, <1>5 DEF Owns
  <2>3. /\ new \in 1..Len(files') /\ files'[new].form = "sealed" /\ Len(files'[new].halves) <= 2
        /\ Holds(files'[new], task.value)
    BY <1>2, <1>3, <1>4 DEF Holds
  <2>4. Holds(files[proc[p].file], proc[p].value)' /\ (Older(p)' => "source" \in DOMAIN task)
    BY <1>5, <2>3 DEF Holds, Older
  <2> QED BY <1>5, <2>1, <2>2, <2>3, <2>4 DEF Owned, Full
<1>8. \A g \in 1..Len(files') : \A i \in 1..Len(files'[g].halves) : files'[g].halves[i] \in 1..versions'
  <2>1. \A g \in 1..Len(files) : \A i \in 1..Len(files[g].halves) : files[g].halves[i] \in 1..versions'
    BY <1>2 DEF SwapInv
  <2> QED BY <1>2, <1>3, <1>4, <2>1
<1>9. /\ Len(files') >= Len(files)
      /\ \A d \in onDisk : files'[d.path] = files[d.path]
      /\ \A q \in Procs \ {p} : Owns(q) => files'[proc[q].file] = files[proc[q].file]
  BY <1>2, <1>4
<1> QED BY <1>5, <1>6, <1>7, <1>8, <1>9, SecretMoves

LEMMA WriteSecretKeeps ==
  ASSUME SwapInv, NEW p \in Procs, WriteSecret(p)
  PROVE  SwapInv'
<1> DEFINE task == [at |-> "fill", value |-> versions + 1, file |-> Len(files) + 1]
<1>1. /\ kind = "secret" /\ proc[p].at = "idle" /\ versions < MaxVersions
      /\ versions' = versions + 1 /\ Begin(p, task)
      /\ UNCHANGED <<kind, synced, dir, onDisk, newest, overlapped, faults>>
  BY DEF WriteSecret, At
<1>2. versions \in Nat /\ Len(files) \in Nat
  BY DEF SwapInv, SwapTypes
<1>3. /\ task \in Tasks /\ task.at = "fill" /\ task.file = Len(files) + 1 /\ task.value = versions + 1
      /\ "value" \in DOMAIN task /\ "source" \notin DOMAIN task
  BY <1>2 DEF Tasks, Places
<1> HIDE DEF task
<1>4. versions' \in 1..MaxVersions /\ versions' >= versions /\ task.value \in 1..versions'
  BY <1>1, <1>2, <1>3, SwapAssumption
<1> QED BY <1>1, <1>3, <1>4, BeginKeeps

LEMMA ResealKeeps ==
  ASSUME SwapInv, NEW p \in Procs, ResealSecret(p)
  PROVE  SwapInv'
<1> DEFINE task == [at |-> "fill", value |-> Path.halves[1], file |-> Len(files) + 1,
                    source |-> dir.path]
<1>1. /\ kind = "secret" /\ proc[p].at = "idle" /\ Begin(p, task)
      /\ UNCHANGED <<synced, dir, onDisk, history>>
  BY DEF ResealSecret, At
<1>2. /\ versions \in Nat /\ Len(files) \in Nat /\ versions \in 1..MaxVersions
      /\ dir.path \in Nat /\ Path.halves[1] \in 1..versions /\ Path.halves[1] \in Nat
      /\ ~overlapped => Path.halves[1] = newest
  <2>1. Kept(dir) /\ SwapTypes
    BY DEF SwapInv, SwapTypes
  <2>2. dir.path \in 1..Len(files) /\ Len(Path.halves) = 2
    BY <2>1 DEF Kept, WholeBody, Path
  <2> QED BY <2>1, <2>2 DEF SwapInv, SwapTypes, Holds, Path
<1>3. /\ task \in Tasks /\ task.at = "fill" /\ task.file = Len(files) + 1
      /\ task.value = Path.halves[1] /\ "value" \in DOMAIN task
  BY <1>2 DEF Tasks, Places
<1> HIDE DEF task
<1>4. /\ UNCHANGED <<kind, synced, dir, onDisk, newest, overlapped, faults, versions>>
      /\ versions' >= versions
  BY <1>1, <1>2 DEF history
<1> QED BY <1>1, <1>2, <1>3, <1>4, BeginKeeps


LEMMA Appended ==
  ASSUME NEW s \in Seq(Nat), NEW e \in Nat
  PROVE  /\ Append(s, e) \in Seq(Nat) /\ Len(Append(s, e)) = Len(s) + 1
         /\ Append(s, e)[Len(s) + 1] = e /\ \A i \in 1..Len(s) : Append(s, e)[i] = s[i]
OBVIOUS

LEMMA FillKeeps ==
  ASSUME SwapInv, NEW p \in Procs, FillHalf(p)
  PROVE  SwapInv'
<1> DEFINE f == proc[p].file
           value == proc[p].value
           longer == [files[f] EXCEPT !.halves = Append(@, value)]
           closed == [files[f] EXCEPT !.final = TRUE]
<1>1. /\ proc[p].at = "fill" /\ UNCHANGED <<synced, dir, onDisk, history>>
      /\ IF Len(files[f].halves) < 2
         THEN files' = [files EXCEPT ![f] = longer] /\ UNCHANGED proc
         ELSE files' = [files EXCEPT ![f] = closed] /\ Goto(p, "sync")
  BY DEF FillHalf, At
<1>2. /\ kind = "secret" /\ Owns(p) /\ Owned(p) /\ SwapTypes
  BY <1>1 DEF SwapInv, Busy, Owns, SwapTypes
<1>3. /\ f \in 1..Len(files) /\ files[f].form = "sealed" /\ Len(files[f].halves) <= 2
      /\ \A d \in onDisk : d.path \in 1..Len(files) /\ d.path # f
      /\ \A q \in Procs \ {p} : Owns(q) => proc[q].file # f
      /\ "value" \in DOMAIN proc[p] /\ value \in 1..versions /\ Holds(files[f], value)
      /\ Older(p) /\ ~overlapped => value = newest
  BY <1>2 DEF Owned, SwapInv, Kept
<1>4. /\ files[f] \in Bodies /\ files[f].halves \in Seq(Nat) /\ value \in Nat /\ versions \in Nat
      /\ Len(files[f].halves) \in Nat
  <2>1. files[f] \in Bodies /\ versions \in Nat
    BY <1>2, <1>3 DEF SwapTypes
  <2>2. files[f].halves \in Seq(Nat)
    BY <2>1 DEF Bodies
  <2>3. value \in Nat
    BY <1>3, <2>1
  <2> QED BY <2>1, <2>2, <2>3
<1>5. PICK body : /\ files' = [files EXCEPT ![f] = body] /\ body \in Bodies
                  /\ body.form = "sealed" /\ Holds(body, value) /\ Len(body.halves) <= 2
                  /\ \/ proc' = proc
                     \/ Goto(p, "sync") /\ WholeBody(body)
  <2>1. CASE Len(files[f].halves) < 2
    <3>1. /\ Append(files[f].halves, value) \in Seq(Nat)
          /\ Len(Append(files[f].halves, value)) = Len(files[f].halves) + 1
          /\ Append(files[f].halves, value)[Len(files[f].halves) + 1] = value
          /\ \A i \in 1..Len(files[f].halves) :
               Append(files[f].halves, value)[i] = files[f].halves[i]
      BY <1>4, Appended
    <3>2. /\ longer \in Bodies /\ longer.form = "sealed"
          /\ longer.halves = Append(files[f].halves, value)
      BY <1>3, <1>4, <3>1 DEF Bodies
    <3> HIDE DEF longer
    <3>3. Len(longer.halves) <= 2
      BY <1>4, <2>1, <3>1, <3>2
    <3>4. Holds(longer, value)
      <4>1. \A i \in 1..Len(files[f].halves) : longer.halves[i] = value
        BY <1>3, <3>1, <3>2 DEF Holds
      <4>2. 1..Len(longer.halves) = 1..Len(files[f].halves) \cup {Len(files[f].halves) + 1}
        <5>1. PICK n \in Nat : n = Len(files[f].halves)
          BY <1>4
        <5>2. 1..(n + 1) = 1..n \cup {n + 1}
          BY <5>1
        <5> QED BY <3>1, <3>2, <5>1, <5>2
      <4> QED BY <3>1, <3>2, <4>1, <4>2 DEF Holds
    <3> QED BY <1>1, <2>1, <3>2, <3>3, <3>4
  <2>2. CASE ~(Len(files[f].halves) < 2)
    <3>1. Len(files[f].halves) = 2
      <4>1. PICK n \in Nat : n = Len(files[f].halves)
        BY <1>4
      <4>2. n <= 2 /\ ~(n < 2)
        BY <1>3, <2>2, <4>1
      <4>3. n = 2
        BY <4>2
      <4> QED BY <4>1, <4>3
    <3>2. closed \in Bodies /\ WholeBody(closed) /\ closed.halves = files[f].halves
          /\ closed.form = "sealed"
      BY <1>3, <1>4, <3>1, Finalised
    <3> HIDE DEF closed
    <3>3. Holds(closed, value) /\ Len(closed.halves) <= 2
      BY <1>3, <3>1, <3>2 DEF Holds
    <3> QED BY <1>1, <2>2, <3>2, <3>3
  <2> QED BY <2>1, <2>2
<1>6. /\ files' \in Seq(Bodies) /\ Len(files') = Len(files) /\ files'[f] = body
      /\ \A g \in 1..Len(files) \ {f} : files'[g] = files[g]
  BY <1>2, <1>3, <1>5, Filling
<1>7. /\ proc' \in [Procs -> Tasks] /\ proc'[p].at \in {"fill", "sync"}
      /\ \A q \in Procs \ {p} : proc'[q] = proc[q]
      /\ proc'[p].file = f /\ DOMAIN proc'[p] = DOMAIN proc[p] /\ proc'[p].value = value
      /\ proc'[p].at = "sync" => WholeBody(body)
  <2>1. CASE proc' = proc
    BY <1>1, <1>2, <2>1 DEF SwapTypes
  <2>2. CASE Goto(p, "sync") /\ WholeBody(body)
    BY <1>1, <1>2, <2>2, Going DEF SwapTypes, Places
  <2> QED BY <1>5, <2>1, <2>2
<1>8. SwapTypes'
  BY <1>1, <1>2, <1>6, <1>7 DEF SwapTypes, history
<1>9. Owned(p)'
  <2>1. /\ Holds(files[proc[p].file], proc[p].value)'
        /\ (Full(p) => WholeBody(files[proc[p].file]))'
    BY <1>5, <1>6, <1>7 DEF Holds, WholeBody, Full
  <2>2. (Older(p) /\ ~overlapped)' => proc'[p].value = newest'
    <3>1. Older(p)' => Older(p)
      BY <1>1, <1>7 DEF Older
    <3> QED BY <1>1, <1>3, <1>7, <3>1 DEF history
  <2>3. \A q \in Procs \ {p} : Owns(q)' => proc'[q].file # f
    BY <1>3, <1>7 DEF Owns
  <2>4. /\ f \in 1..Len(files') /\ files'[f].form = "sealed" /\ Len(files'[f].halves) <= 2
        /\ \A d \in onDisk' : d.path # f
        /\ "value" \in DOMAIN proc'[p] /\ proc'[p].value \in 1..versions'
    BY <1>1, <1>3, <1>5, <1>6, <1>7 DEF history
  <2> QED BY <1>1, <1>2, <1>7, <2>1, <2>2, <2>3, <2>4 DEF Owned, history
<1>10. \A g \in 1..Len(files') : \A i \in 1..Len(files'[g].halves) : files'[g].halves[i] \in 1..versions'
  <2>1. \A i \in 1..Len(body.halves) : body.halves[i] \in 1..versions
    BY <1>3, <1>5 DEF Holds
  <2> QED BY <1>1, <1>6, <2>1 DEF SwapInv, history
<1>11. /\ Len(files') >= Len(files) /\ versions' >= versions /\ synced \subseteq synced'
       /\ UNCHANGED <<kind, dir, onDisk, newest, overlapped>>
  BY <1>1, <1>4, <1>6 DEF history, SwapInv, SwapTypes
<1>12. /\ \A d \in onDisk : files'[d.path] = files[d.path]
       /\ \A q \in Procs \ {p} : Owns(q) => files'[proc[q].file] = files[proc[q].file]
  <2>1. \A q \in Procs : Owns(q) => proc[q].file \in 1..Len(files)
    BY DEF SwapInv, Busy, Owned
  <2> QED BY <1>3, <1>6, <2>1
<1>13. proc'[p].at \in {"idle", "fill", "sync", "rename"}
  BY <1>7
<1> QED BY <1>2, <1>7, <1>8, <1>9, <1>10, <1>11, <1>12, <1>13, SecretMoves

LEMMA PersistKeeps ==
  ASSUME SwapInv, NEW p \in Procs, Persist(p)
  PROVE  SwapInv'
<1> DEFINE f == proc[p].file
           value == proc[p].value
<1>1. /\ kind = "secret" /\ proc[p].at = "rename" /\ dir' = [dir EXCEPT !.path = f]
      /\ onDisk' = onDisk \cup {dir'} /\ proc' = [proc EXCEPT ![p] = Idle]
      /\ UNCHANGED <<files, synced, kind, versions, faults>>
      /\ IF Older(p) THEN UNCHANGED <<newest, overlapped>>
         ELSE /\ newest' = value /\ (overlapped' <=> \E q \in Procs : Older(q))
              /\ overlapped' \in BOOLEAN
  BY DEF Persist, At, Renames
<1>2. /\ Owns(p) /\ Owned(p) /\ SwapTypes /\ Kept(dir) /\ Nothing \notin Nat
      /\ dir \in onDisk /\ dir \in [path : Nat, temp : Nat \cup {Nothing}]
  BY <1>1, SwapAssumption DEF SwapInv, Busy, Owns, SwapTypes
<1>3. /\ f \in 1..Len(files) /\ f \in synced /\ WholeBody(files[f]) /\ files[f].form = "sealed"
      /\ value \in 1..versions /\ Holds(files[f], value)
      /\ Older(p) /\ ~overlapped => value = newest
      /\ \A q \in Procs \ {p} : Owns(q) => proc[q].file # f
  BY <1>1, <1>2 DEF Owned, Full
<1>4. /\ dir' \in [path : Nat, temp : Nat \cup {Nothing}] /\ dir'.path = f /\ dir'.temp = Nothing
      /\ Path' = files[f]
  BY <1>1, <1>2, <1>3 DEF Kept, SwapTypes, Path
<1>5. Idle \in Tasks /\ Idle.at = "idle"
  BY DEF Idle, Tasks
<1>6. /\ proc' \in [Procs -> Tasks] /\ proc'[p].at = "idle"
      /\ \A q \in Procs \ {p} : proc'[q] = proc[q]
  BY <1>1, <1>2, <1>5, Resting DEF SwapTypes
<1>7. SwapTypes'
  BY <1>1, <1>2, <1>3, <1>4, <1>6 DEF SwapTypes
<1>8. ASSUME NEW d \in onDisk' PROVE Kept(d)'
  <2>1. CASE d \in onDisk
    <3>1. Kept(d)
      BY <2>1 DEF SwapInv
    <3>2. WholeBody(files[d.path])' /\ (\E v \in 1..versions : Holds(files[d.path], v))'
      BY <1>1, <3>1 DEF Kept, WholeBody, Holds
    <3> QED BY <1>1, <3>1, <3>2 DEF Kept
  <2>2. CASE d = dir'
    <3>1. d.path = f /\ d.temp = Nothing /\ d.temp # f
      BY <1>2, <1>3, <1>4, <2>2 DEF SwapTypes
    <3>2. WholeBody(files[d.path])'
      BY <1>1, <1>3, <3>1 DEF WholeBody
    <3>3. (\E v \in 1..versions : Holds(files[d.path], v))'
      BY <1>1, <1>3, <3>1 DEF Holds
    <3> QED BY <1>1, <1>3, <3>1, <3>2, <3>3 DEF Kept
  <2> QED BY <1>1, <2>1, <2>2
<1>9. ASSUME NEW q \in Procs PROVE Busy(q)'
  <2>1. CASE q = p
    BY <1>6, <2>1, IdleIsBusy
  <2>2. CASE q # p
    <3>1. proc'[q] = proc[q] /\ Len(files') >= Len(files) /\ Len(files') \in Nat
          /\ versions' >= versions /\ versions' \in Nat /\ synced \subseteq synced'
      BY <1>1, <1>2, <1>6, <2>2 DEF SwapTypes
    <3>2. ASSUME Owns(q)
          PROVE  /\ files'[proc[q].file] = files[proc[q].file]
                 /\ \A d \in onDisk' : d.path # proc[q].file
                 /\ \A r \in Procs \ {q} : Owns(r)' => proc'[r].file # proc[q].file
      <4>1. Owned(q)
        BY <3>2 DEF SwapInv, Busy
      <4>2. \A d \in onDisk' : d.path # proc[q].file
        BY <1>1, <1>3, <1>4, <2>2, <3>2, <4>1 DEF Owned
      <4>3. \A r \in Procs \ {q} : Owns(r)' => proc'[r].file # proc[q].file
        BY <1>6, <4>1 DEF Owned, Owns
      <4> QED BY <1>1, <4>2, <4>3
    <3>3. overlapped' \/ ~Older(q) \/ UNCHANGED <<overlapped, newest>>
      BY <1>1
    <3> QED BY <1>1, <3>1, <3>2, <3>3, OtherSecret
  <2> QED BY <2>1, <2>2
<1>10. (~overlapped => Holds(Path, newest))'
  BY <1>1, <1>3, <1>4 DEF Holds
<1>11. \A g \in 1..Len(files') : \A i \in 1..Len(files'[g].halves) : files'[g].halves[i] \in 1..versions'
  BY <1>1 DEF SwapInv
<1> QED BY <1>7, <1>8, <1>9, <1>10, <1>11 DEF SwapInv

\* What is left of a body that was not synced.
LEMMA CutOf ==
  ASSUME NEW body \in Bodies, NEW left \in Cut(body)
  PROVE  /\ left \in Bodies
         /\ \A i \in 1..Len(left.halves) : i \in 1..Len(body.halves) /\ left.halves[i] = body.halves[i]
<1>1. body.halves \in Seq(Nat) /\ body.form \in {"plain", "sealed"} /\ Len(body.halves) \in Nat
  BY DEF Bodies
<1>2. CASE left = body
  BY <1>1, <1>2
<1>3. CASE \E n \in 0..Len(body.halves) : left = Body(body.form, SubSeq(body.halves, 1, n), FALSE)
  <2>1. PICK n \in 0..Len(body.halves) : left = Body(body.form, SubSeq(body.halves, 1, n), FALSE)
    BY <1>3
  <2>2. /\ SubSeq(body.halves, 1, n) \in Seq(Nat) /\ Len(SubSeq(body.halves, 1, n)) = n
        /\ \A i \in 1..n : SubSeq(body.halves, 1, n)[i] = body.halves[i]
    BY <1>1, <2>1
  <2>3. left.halves = SubSeq(body.halves, 1, n) /\ left.form = body.form /\ left.final = FALSE
        /\ left = [form |-> left.form, halves |-> left.halves, final |-> left.final]
    BY <2>1 DEF Body
  <2>4. left \in Bodies
    BY <1>1, <2>2, <2>3 DEF Bodies
  <2>5. 1..n \subseteq 1..Len(body.halves)
    BY <1>1, <2>1
  <2> QED BY <2>2, <2>3, <2>4, <2>5
<1> QED BY <1>2, <1>3 DEF Cut

LEMMA PowerLossKeeps ==
  ASSUME SwapInv, PowerLoss
  PROVE  SwapInv'
<1> DEFINE count == Len(files)
<1>1. /\ dir' \in onDisk /\ onDisk' = {dir'} /\ synced' = DOMAIN files
      /\ proc' = [p \in Procs |-> Idle] /\ UNCHANGED <<kind, overlapped, versions>>
      /\ newest' = IF kind = "secret" THEN Version(files'[dir'.path]) ELSE newest
      /\ faults < MaxFaults /\ faults' = faults + 1
  BY DEF PowerLoss, Fault
<1>2. PICK left : /\ \A f \in DOMAIN files \ synced : left[f] \in Cut(files[f])
                  /\ files' = [f \in DOMAIN files |->
                                 IF f \in DOMAIN files \ synced THEN left[f] ELSE files[f]]
  BY DEF PowerLoss
<1>3. /\ SwapTypes /\ count \in Nat /\ DOMAIN files = 1..count /\ versions \in Nat
      /\ \A f \in 1..count : files[f] \in Bodies
  BY DEF SwapInv, SwapTypes
<1>4. \A f \in 1..count : /\ files'[f] \in Bodies
                         /\ \A i \in 1..Len(files'[f].halves) :
                              i \in 1..Len(files[f].halves) /\ files'[f].halves[i] = files[f].halves[i]
  <2> TAKE f \in 1..count
  <2>1. CASE f \in synced
    BY <1>2, <1>3, <2>1
  <2>2. CASE f \notin synced
    BY <1>2, <1>3, <2>2, CutOf
  <2> QED BY <2>1, <2>2
<1>5. \A f \in synced : files'[f] = files[f]
  BY <1>2, <1>3 DEF SwapTypes
<1>6. files' \in Seq(Bodies) /\ Len(files') = count
  <2>1. files' \in [1..count -> Bodies]
    BY <1>2, <1>3, <1>4
  <2> QED BY <1>3, <2>1
<1> HIDE DEF count
<1>7. PICK d \in onDisk : d = dir'
  BY <1>1
<1>8. /\ d.path \in synced /\ d.path \in 1..count /\ files'[d.path] = files[d.path]
      /\ WholeBody(files[d.path]) /\ Kept(d)
      /\ d.temp \in 1..count \cup {Nothing} /\ d.temp # d.path
  BY <1>3, <1>5 DEF SwapInv, Kept, count
<1>9. kind = "secret" => newest' \in 1..versions /\ Holds(files[d.path], newest')
  <2> SUFFICES ASSUME kind = "secret" PROVE newest' \in 1..versions /\ Holds(files[d.path], newest')
    OBVIOUS
  <2>1. PICK v \in 1..versions : Holds(files[d.path], v)
    BY <1>8 DEF Kept
  <2>2. Len(files[d.path].halves) = 2
    BY <1>8 DEF WholeBody
  <2>3. files[d.path].halves # <<>> /\ files[d.path].halves[1] = v
    BY <2>1, <2>2 DEF Holds
  <2>4. newest' = v
    BY <1>1, <1>7, <1>8, <2>3 DEF Version
  <2> QED BY <2>1, <2>4
<1>10. kind = "data" /\ ~overlapped => Holds(files[d.path], newest')
  BY <1>1, <1>8 DEF Kept
<1>11. newest' \in 1..versions'
  BY <1>1, <1>3, <1>9 DEF SwapTypes
<1>12. SwapTypes'
  <2>1. kind' \in {"data", "secret"} /\ overlapped' \in BOOLEAN
        /\ versions' \in 1..MaxVersions
    BY <1>1, <1>3 DEF SwapTypes
  <2>2. files' \in Seq(Bodies) /\ Len(files') \in 1..MaxFiles /\ synced' \subseteq 1..Len(files')
    BY <1>1, <1>3, <1>6 DEF SwapTypes, count
  <2>3. dir' \in onDisk' /\ onDisk' \subseteq [path : Nat, temp : Nat \cup {Nothing}]
    BY <1>1, <1>3 DEF SwapTypes
  <2>4. Idle \in Tasks
    BY DEF Idle, Tasks
  <2>5. proc' \in [Procs -> Tasks]
    BY <1>1, <2>4
  <2>6. faults' \in 0..MaxFaults
    BY <1>1, <1>3, SwapAssumption DEF SwapTypes
  <2> QED BY <1>11, <2>1, <2>2, <2>3, <2>5, <2>6 DEF SwapTypes
<1>13. Kept(dir)'
  <2>1. /\ d.path \in synced' /\ d.path \in 1..Len(files') /\ WholeBody(files'[d.path])
        /\ d.temp \in 1..Len(files') \cup {Nothing} /\ d.temp # d.path
    BY <1>1, <1>3, <1>6, <1>8
  <2>2. kind' = "secret" => d.temp = Nothing /\ \E v \in 1..versions' : Holds(files'[d.path], v)
    BY <1>1, <1>8, <1>9 DEF Kept
  <2>3. kind' = "data" /\ ~overlapped' => Holds(files'[d.path], newest')
    BY <1>1, <1>8, <1>10
  <2> QED BY <1>7, <2>1, <2>2, <2>3 DEF Kept, WholeBody, Holds
<1>14. \A e \in onDisk' : Kept(e)'
  BY <1>1, <1>13
<1>15. \A p \in Procs : Busy(p)'
  BY <1>1, IdleIsBusy DEF Idle
<1>16. (~overlapped => Holds(Path, newest))'
  <2>1. Path' = files[d.path]
    BY <1>7, <1>8 DEF Path
  <2>2. ~overlapped' => Holds(files[d.path], newest')
    BY <1>1, <1>3, <1>9, <1>10 DEF SwapTypes
  <2> QED BY <2>1, <2>2 DEF Holds
<1>17. \A f \in 1..Len(files') : \A i \in 1..Len(files'[f].halves) : files'[f].halves[i] \in 1..versions'
  BY <1>1, <1>4, <1>6 DEF SwapInv, count
<1> QED BY <1>12, <1>14, <1>15, <1>16, <1>17 DEF SwapInv

LEMMA Narrower ==
  ASSUME NEW S, NEW T, NEW s \in Seq(S), \A i \in 1..Len(s) : s[i] \in T
  PROVE  s \in Seq(T)
OBVIOUS

LEMMA SwapStarts ==
  ASSUME SwapInit
  PROVE  SwapInv
<1> DEFINE body == [form |-> "plain", halves |-> <<1, 1>>, final |-> TRUE]
<1>1. body \in Bodies /\ Len(body.halves) = 2 /\ WholeBody(body) /\ Holds(body, 1)
      /\ body.form = "plain"
  BY DEF Bodies, WholeBody, Holds
<1>2. files = <<body>> /\ synced = {1} /\ dir = [path |-> 1, temp |-> Nothing] /\ onDisk = {dir}
  BY DEF SwapInit, Body
<1> HIDE DEF body
<1>3. /\ files \in Seq(Bodies) /\ Len(files) = 1 /\ files[1] = body /\ 1..1 = {1}
      /\ Nothing # 1 /\ dir.path = 1 /\ dir.temp = Nothing /\ 1..MaxFiles \in SUBSET Nat
      /\ dir \in [path : Nat, temp : Nat \cup {Nothing}]
  BY <1>1, <1>2, SwapAssumption
<1>4. /\ kind \in {"data", "secret"} /\ proc = [p \in Procs |-> Idle]
      /\ newest = 1 /\ overlapped = FALSE /\ versions = 1 /\ faults = 0
  BY DEF SwapInit
<1>5. Idle \in Tasks
  BY DEF Idle, Tasks
<1>6. SwapTypes
  <2>1. proc \in [Procs -> Tasks]
    BY <1>4, <1>5
  <2>2. 1 \in 1..MaxFiles /\ 1 \in 1..MaxVersions /\ 1 \in 1..1 /\ 0 \in 0..MaxFaults
    BY SwapAssumption
  <2>3. files \in Seq(Bodies) /\ Len(files) \in 1..MaxFiles /\ synced \subseteq 1..Len(files)
    BY <1>2, <1>3, <2>2
  <2>4. dir \in onDisk /\ onDisk \subseteq [path : Nat, temp : Nat \cup {Nothing}]
    BY <1>2, <1>3
  <2> QED BY <1>4, <2>1, <2>2, <2>3, <2>4 DEF SwapTypes
<1>7. Kept(dir)
  BY <1>1, <1>2, <1>3, <1>4 DEF Kept
<1>8. \A p \in Procs : Busy(p)
  BY <1>4 DEF Busy, Owns, Idle
<1>9. Path = body
  BY <1>3 DEF Path
<1>10. \A f \in 1..Len(files) : \A i \in 1..Len(files[f].halves) : files[f].halves[i] \in 1..versions
  BY <1>1, <1>3, <1>4 DEF Holds
<1> QED BY <1>1, <1>2, <1>4, <1>6, <1>7, <1>8, <1>9, <1>10 DEF SwapInv

\* Nothing happens.
LEMMA SwapStutters ==
  ASSUME SwapInv, UNCHANGED swapVars
  PROVE  SwapInv'
<1>1. /\ UNCHANGED <<kind, files, synced, dir, onDisk, proc>>
      /\ UNCHANGED <<newest, overlapped, versions, faults>>
  BY DEF swapVars
<1>2. SwapTypes'
  BY <1>1 DEF SwapInv, SwapTypes
<1>3. \A d \in onDisk' : Kept(d)'
  BY <1>1 DEF SwapInv, Kept, Path, WholeBody, Holds
<1>4. \A p \in Procs : Owned(p)' <=> Owned(p)
  BY <1>1 DEF Owned, Owns, Full, Older, WholeBody, Holds
<1>5. \A p \in Procs : Busy(p)'
  BY <1>1, <1>4 DEF SwapInv, Busy, Owns, Path
<1> QED BY <1>1, <1>2, <1>3, <1>5 DEF SwapInv, Holds, Path

LEMMA SwapStepKeeps ==
  ASSUME SwapInv, [SwapNext]_swapVars
  PROVE  SwapInv'
<1>1. ASSUME NEW p \in Procs, Step(p) PROVE SwapInv'
  <2>1. CASE RemoveStale(p) \/ CreateTemp(p) \/ CopyHalf(p) \/ FinishTemp(p)
    BY <2>1, RemoveKeeps, CreateKeeps, CopyKeeps, FinishKeeps
  <2>2. CASE SyncTemp(p) \/ Verify(p) \/ RenameTemp(p) \/ SyncDir(p)
    BY <2>2, SyncKeeps, RenameKeeps, SyncDirKeeps
  <2>3. CASE FillHalf(p) \/ Persist(p)
    BY <2>3, FillKeeps, PersistKeeps
  <2> QED BY <1>1, <2>1, <2>2, <2>3 DEF Step
<1>2. ASSUME NEW p \in Procs, Seal(p) \/ WriteSecret(p) \/ ResealSecret(p) PROVE SwapInv'
  BY <1>2, SealKeeps, WriteSecretKeeps, ResealKeeps
<1>3. ASSUME NEW p \in Procs, FailWrite(p) \/ Kill(p) PROVE SwapInv'
  BY <1>3, FailKeeps
<1>4. CASE OwnerWrites \/ PowerLoss
  BY <1>4, OwnerKeeps, PowerLossKeeps
<1>5. CASE UNCHANGED swapVars
  BY <1>5, SwapStutters
<1> QED BY <1>1, <1>2, <1>3, <1>4, <1>5 DEF SwapNext

\* Every name a power loss may leave leads to a whole, synced file that holds what
\* was last written to it, and no file in the making has such a name.
THEOREM NamesAreSafe == SwapSpec => []SwapInv
<1>1. SwapInit => SwapInv
  BY SwapStarts
<1>2. SwapInv /\ [SwapNext]_swapVars => SwapInv'
  BY SwapStepKeeps
<1> QED BY <1>1, <1>2, PTL DEF SwapSpec

\* Bodies, names, processes and counters keep their types (FileSwap's SwapTypeOK).
THEOREM SwapTypeCorrect == SwapSpec => []SwapTypeOK
<1>1. SwapInv => SwapTypeOK
  <2> SUFFICES ASSUME SwapInv PROVE SwapTypeOK
    OBVIOUS
  <2>1. SwapTypes /\ Len(files) \in Nat /\ DOMAIN files = 1..Len(files)
    BY DEF SwapInv, SwapTypes
  <2>2. ASSUME NEW f \in 1..Len(files)
        PROVE  files[f] \in [form : {"plain", "sealed"}, halves : Seq(1..MaxVersions), final : BOOLEAN]
    <3>1. files[f] \in Bodies
      BY <2>1, <2>2 DEF SwapTypes
    <3>2. files[f].halves \in Seq(Nat) /\ Len(files[f].halves) \in Nat
      BY <3>1 DEF Bodies
    <3>3. 1..versions \subseteq 1..MaxVersions
      BY <2>1, SwapAssumption DEF SwapTypes
    <3>4. \A i \in 1..Len(files[f].halves) : files[f].halves[i] \in 1..MaxVersions
      BY <2>2, <3>3 DEF SwapInv
    <3>5. files[f].halves \in Seq(1..MaxVersions)
      BY <3>2, <3>4, Narrower
    <3> QED BY <3>1, <3>5 DEF Bodies
  <2>3. files \in Seq([form : {"plain", "sealed"}, halves : Seq(1..MaxVersions), final : BOOLEAN])
    <3>1. files \in Seq(Bodies)
      BY <2>1 DEF SwapTypes
    <3> QED BY <2>2, <3>1, Narrower
  <2>4. \A d \in onDisk : /\ d.path \in DOMAIN files
                          /\ d.temp \in DOMAIN files \cup {Nothing} /\ d.temp # d.path
    BY <2>1 DEF SwapInv, Kept
  <2>5. \A p \in Procs : proc[p].at \in Places
    BY <2>1, TaskFields DEF SwapTypes
  <2> QED BY <2>1, <2>3, <2>4, <2>5 DEF SwapTypeOK, SwapTypes
<1> QED BY <1>1, NamesAreSafe, PTL

\* seal_file_in_place and write_secret_file, killed anywhere and through any power
\* loss, leave a whole file under the path: an unsealed one, or a sealed one whose
\* last chunk is marked.
THEOREM AWholeFileIsNamed == SwapSpec => []PathIsWhole
<1>1. SwapInv => PathIsWhole
  BY DEF SwapInv, SwapTypes, Kept, PathIsWhole, Path
<1> QED BY <1>1, NamesAreSafe, PTL

\* A file holds what was last written to it, in both halves, unless that was
\* written while a process was putting back what it had read before.
THEOREM LastWriteStays == SwapSpec => []NewestStays
<1>1. SwapInv => NewestStays
  <2> SUFFICES ASSUME SwapInv, ~overlapped PROVE Path.halves = <<newest, newest>>
    BY DEF NewestStays
  <2>1. dir \in onDisk /\ Kept(dir) /\ Holds(Path, newest) /\ SwapTypes
    BY DEF SwapInv, SwapTypes
  <2>2. Path \in Bodies /\ Len(Path.halves) = 2
    BY <2>1 DEF SwapTypes, Kept, Path, WholeBody
  <2>3. Path.halves \in Seq(Nat) /\ Path.halves[1] = newest /\ Path.halves[2] = newest
    BY <2>1, <2>2 DEF Bodies, Holds
  <2> QED BY <2>2, <2>3
<1> QED BY <1>1, NamesAreSafe, PTL
=============================================================================
