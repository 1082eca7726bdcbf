-------------------------- MODULE SealedLog_proofs --------------------------
(***************************************************************************)
(* Proofs about SealedLog for any records, body sizes, roots and number of *)
(* frames: an owner may append on after a failed append, and a power loss  *)
(* may leave zeros anywhere behind the synced bytes. The scan commits the  *)
(* frames before the first unfinished one, whichever of these happened.    *)
(***************************************************************************)
EXTENDS SealedLog, SequenceTheorems, TLAPS

(* A file without its header is empty. *)
Created ==
  /\ header # "ok" => frames = <<>> /\ length = 0 /\ writer # "open"
  /\ writer = "creating" => header = "short"

(* The first frame lies inside the file, before every other. *)
FirstInside ==
  /\ frames # <<>> => EndOf(1) <= length
  /\ \A i \in DOMAIN frames : i # 1 => EndOf(1) <= frames[i].at

(* The scan under the log's own root ends after n frames: all of them, or  *)
(* at an unfinished one. While none is unfinished an open writer stands at *)
(* the end of the file.                                                    *)
EndsAt(n) ==
  /\ \A i \in 1..n : OpensAt(i, LogRoot)
  /\ n < Len(frames) => ~Whole(frames[n + 1])
  /\ writer = "open" /\ n = Len(frames) => index = n /\ length = EndOf(n)

Scanned ==
  /\ \E n \in 0..Len(frames) : EndsAt(n)
  /\ writer = "open" => LogRoot = key

IInv == TypeOK /\ Created /\ FirstInside /\ Scanned

LEMMA FrameTyped ==
  ASSUME TypeOK, NEW i \in DOMAIN frames
  PROVE  /\ frames[i] \in Frame
         /\ frames[i].at \in Nat /\ frames[i].has \in Nat
         /\ SizeOf[frames[i].rec] \in Nat \ {0}
         /\ frames[i].has <= SizeOf[frames[i].rec]
         /\ i \in 1..Len(frames)
<1>1. i \in 1..Len(frames) /\ frames[i] \in Frame
  BY DEF TypeOK
<1>2. frames[i].has <= SizeOf[frames[i].rec]
  BY DEF TypeOK
<1>3. frames[i].rec \in Records
  BY <1>1 DEF Frame
<1> QED
  BY <1>1, <1>2, <1>3, SizeAssumption DEF Frame

LEMMA EndTyped ==
  ASSUME TypeOK, NEW n \in 0..Len(frames)
  PROVE  EndOf(n) \in Nat /\ (n # 0 => EndOf(n) = frames[n].at + 1 + frames[n].has)
<1>1. CASE n = 0
  BY <1>1 DEF EndOf
<1>2. CASE n # 0
  <2>1. n \in DOMAIN frames
    BY <1>2 DEF TypeOK
  <2> QED
    BY <1>2, <2>1, FrameTyped DEF EndOf
<1> QED
  BY <1>1, <1>2

(* The scan under any root stops at one place. *)
LEMMA ScanStops ==
  ASSUME TypeOK, NEW root, NEW m \in 0..Len(frames),
         \A i \in 1..m : OpensAt(i, root),
         m < Len(frames) => ~OpensAt(m + 1, root)
  PROVE  CommittedUnder(root) = m
<1> DEFINE Stops(n) == /\ \A i \in 1..n : OpensAt(i, root)
                       /\ n < Len(frames) => ~OpensAt(n + 1, root)
<1>0. Len(frames) \in Nat
  BY DEF TypeOK
<1>1. \A n \in 0..Len(frames) : Stops(n) => n = m
  <2> SUFFICES ASSUME NEW n \in 0..Len(frames), Stops(n) PROVE n = m
    OBVIOUS
  <2>1. ~(n < m)
    <3> SUFFICES ASSUME n < m PROVE FALSE
      OBVIOUS
    <3>1. n + 1 \in 1..m /\ n < Len(frames)
      BY <1>0
    <3> QED
      BY <3>1
  <2>2. ~(m < n)
    <3> SUFFICES ASSUME m < n PROVE FALSE
      OBVIOUS
    <3>1. m + 1 \in 1..n /\ m < Len(frames)
      BY <1>0
    <3> QED
      BY <3>1
  <2> QED
    BY <2>1, <2>2
<1>2. Stops(m)
  OBVIOUS
<1> HIDE DEF Stops
<1>3. m = CHOOSE n \in 0..Len(frames) : Stops(n)
  BY <1>1, <1>2
<1> QED
  BY <1>3 DEF CommittedUnder, Stops

(* Under its own root a log opens up to the first unfinished frame; under  *)
(* another to nothing.                                                     *)
LEMMA OwnScan ==
  ASSUME TypeOK, NEW n \in 0..Len(frames), EndsAt(n)
  PROVE  CommittedUnder(LogRoot) = n
<1>1. n < Len(frames) => ~OpensAt(n + 1, LogRoot)
  BY DEF EndsAt, OpensAt
<1> QED
  BY <1>1, ScanStops DEF EndsAt

LEMMA ForeignScan ==
  ASSUME TypeOK, NEW root, frames # <<>>, frames[1].key # root
  PROVE  CommittedUnder(root) = 0
<1>1. Len(frames) \in Nat
  BY DEF TypeOK
<1>2. ~OpensAt(1, root)
  BY DEF OpensAt
<1> QED
  BY <1>1, <1>2, ScanStops

(* What open_append commits of a log it accepts under any root: everything *)
(* the log's own root opens. (A foreign root is accepted only where the    *)
(* first frame is unfinished, which leaves nothing to commit.)             *)
LEMMA AcceptedScan ==
  ASSUME IInv, NEW root, Accepts(root), NEW n \in 0..Len(frames), EndsAt(n)
  PROVE  /\ CommittedUnder(root) = n
         /\ \A i \in 1..n : OpensAt(i, root)
         /\ TailAt(root) = "clean" => n = Len(frames) /\ length = EndOf(n)
<1>1. /\ Len(frames) \in Nat /\ DOMAIN frames = 1..Len(frames) /\ length \in Nat
      /\ TypeOK /\ n \in Nat
  BY DEF IInv, TypeOK
<1>2. CASE frames = <<>>
  <2>1. n = 0 /\ Len(frames) = 0
    BY <1>1, <1>2
  <2>2. CommittedUnder(root) = 0
    BY <1>1, <2>1, ScanStops
  <2> QED
    BY <2>1, <2>2 DEF TailAt
<1>3. CASE frames # <<>> /\ frames[1].key = root
  <2>1. LogRoot = root
    BY <1>3 DEF LogRoot
  <2>2. CommittedUnder(root) = n
    BY <1>1, <2>1, OwnScan
  <2> QED
    BY <2>1, <2>2 DEF EndsAt, TailAt
<1>4. CASE frames # <<>> /\ frames[1].key # root
  <2>1. CommittedUnder(root) = 0 /\ 1 \in DOMAIN frames /\ Len(frames) # 0
    BY <1>1, <1>4, ForeignScan
  <2>2. TailAt(root) = "short"
    BY <2>1 DEF Accepts, TailAt
  <2>3. UnitsFrom(1) < SizeOf[frames[1].rec]
    BY <1>1, <2>1, <2>2 DEF TailAt
  <2>4. EndOf(1) <= length /\ EndOf(1) = frames[1].at + 1 + frames[1].has
    BY <1>1, <1>4, <2>1, EndTyped DEF IInv, FirstInside
  <2>5. ~Whole(frames[1])
    BY <1>1, <2>1, <2>3, <2>4, FrameTyped DEF UnitsFrom, Whole
  <2>6. n = 0
    <3>1. 1 \in 1..n => Whole(frames[1])
      BY DEF EndsAt, OpensAt
    <3> QED
      BY <1>1, <2>5, <3>1
  <2> QED
    BY <2>1, <2>2, <2>6
<1> QED
  BY <1>2, <1>3, <1>4

(* The sequence facts the actions rest on. *)
LEMMA PrefixOfFrames ==
  ASSUME TypeOK, NEW n \in 0..Len(frames)
  PROVE  /\ SubSeq(frames, 1, n) \in Seq(Frame)
         /\ Len(SubSeq(frames, 1, n)) = n
         /\ \A i \in 1..n : SubSeq(frames, 1, n)[i] = frames[i]
         /\ DOMAIN SubSeq(frames, 1, n) = 1..n
BY DEF TypeOK

LEMMA OneFrameMore ==
  ASSUME TypeOK, NEW frame \in Frame
  PROVE  /\ Append(frames, frame) \in Seq(Frame)
         /\ Len(Append(frames, frame)) = Len(frames) + 1
         /\ Append(frames, frame)[Len(frames) + 1] = frame
         /\ \A i \in 1..Len(frames) : Append(frames, frame)[i] = frames[i]
         /\ DOMAIN Append(frames, frame) = 1..(Len(frames) + 1)
BY DEF TypeOK

(* Cutting a file after a frame keeps its shape, whatever zeros stay.      *)
LEMMA CutKeeps ==
  ASSUME IInv, NEW n \in 0..Len(frames), frames' = SubSeq(frames, 1, n),
         length' \in EndOf(n)..length \/ length' = EndOf(n)
  PROVE  /\ frames' \in Seq(Frame) /\ Len(frames') = n /\ DOMAIN frames' = 1..n
         /\ \A i \in 1..n : frames'[i] = frames[i]
         /\ EndOf(n)' = EndOf(n)
         /\ \A i \in DOMAIN frames' : frames'[i].has <= SizeOf[frames'[i].rec]
         /\ length' \in Nat /\ FirstInside'
<1>1. n \in Nat /\ Len(frames) \in Nat /\ DOMAIN frames = 1..Len(frames) /\ TypeOK /\ length \in Nat
  BY DEF IInv, TypeOK
<1>2. /\ frames' \in Seq(Frame) /\ Len(frames') = n /\ DOMAIN frames' = 1..n
      /\ \A i \in 1..n : frames'[i] = frames[i] /\ i \in DOMAIN frames
  BY <1>1, PrefixOfFrames
<1>3. \A i \in 0..n : EndOf(i)' = EndOf(i) /\ EndOf(i) \in Nat
  BY <1>1, <1>2, EndTyped DEF EndOf
<1>4. length' \in Nat /\ EndOf(n) <= length'
  BY <1>1, <1>3
<1>5. frames' # <<>> => EndOf(1) <= EndOf(n)
  <2>1. CASE n \in {0, 1}
    <3>1. n = 0 => frames' = <<>>
      BY <1>2
    <3>2. n = 1 => EndOf(1) = EndOf(n) /\ EndOf(n) \in Nat
      BY <1>3
    <3> QED
      BY <2>1, <3>1, <3>2
  <2>2. CASE n \notin {0, 1}
    <3>1. n \in DOMAIN frames /\ 1 \in 0..n
      BY <1>1, <2>2
    <3>2. EndOf(1) <= frames[n].at /\ EndOf(n) = frames[n].at + 1 + frames[n].has
      BY <1>1, <2>2, <3>1, EndTyped DEF IInv, FirstInside
    <3>3. frames[n].at \in Nat /\ frames[n].has \in Nat
      BY <1>1, <3>1, FrameTyped
    <3>4. EndOf(1) \in Nat
      BY <1>3, <3>1
    <3> QED
      BY <3>2, <3>3, <3>4
  <2> QED
    BY <2>1, <2>2
<1>6. FirstInside'
  <2>1. frames' # <<>> => 1 \in 0..n
    BY <1>1, <1>2
  <2>2. \A i \in DOMAIN frames' : i # 1 => EndOf(1)' <= frames'[i].at
    BY <1>1, <1>2, <1>3 DEF IInv, FirstInside
  <2>3. frames' # <<>> => EndOf(1)' <= length'
    BY <1>1, <1>3, <1>4, <1>5, <2>1
  <2> QED
    BY <2>2, <2>3 DEF FirstInside
<1>7. \A i \in DOMAIN frames' : frames'[i].has <= SizeOf[frames'[i].rec]
  BY <1>2 DEF IInv, TypeOK
<1> QED
  BY <1>1, <1>2, <1>3, <1>4, <1>6, <1>7

(* A frame written at the end of the file, whole or not.                   *)
LEMMA WriteKeeps ==
  ASSUME IInv, NEW r \in Records, NEW has \in 0..SizeOf[r], Write(r, has)
  PROVE  /\ frames' \in Seq(Frame) /\ Len(frames') = Len(frames) + 1
         /\ DOMAIN frames' = 1..(Len(frames) + 1)
         /\ \A i \in 1..Len(frames) : frames'[i] = frames[i]
         /\ LET frame == frames'[Len(frames) + 1]
            IN  frame.rec = r /\ frame.index = index /\ frame.key = key /\ frame.has = has
         /\ length' = EndOf(Len(frames))'
         /\ \A i \in DOMAIN frames' : frames'[i].has <= SizeOf[frames'[i].rec]
         /\ length' \in Nat /\ FirstInside'
<1> DEFINE frame == [rec |-> r, index |-> index, key |-> key, at |-> length, has |-> has]
<1>1. /\ Len(frames) \in Nat /\ DOMAIN frames = 1..Len(frames) /\ SizeOf[r] \in Nat
      /\ length \in Nat /\ has \in Nat /\ has <= SizeOf[r] /\ TypeOK
  BY SizeAssumption DEF IInv, TypeOK
<1>2. frame \in Frame
  BY <1>1 DEF Frame, IInv, TypeOK
<1>3. frames' = Append(frames, frame) /\ length' = length + 1 + has
  BY DEF Write
<1>4. frame.index = index /\ frame.key = key /\ frame.at = length /\ frame.has = has /\ frame.rec = r
  OBVIOUS
<1> HIDE DEF frame
<1>5. /\ frames' \in Seq(Frame) /\ Len(frames') = Len(frames) + 1
      /\ DOMAIN frames' = 1..(Len(frames) + 1)
      /\ frames'[Len(frames) + 1] = frame
      /\ \A i \in 1..Len(frames) : frames'[i] = frames[i]
  BY <1>1, <1>2, <1>3, OneFrameMore
<1>6. length' = EndOf(Len(frames))'
  BY <1>1, <1>3, <1>4, <1>5 DEF EndOf
<1>7. FirstInside'
  <2>1. CASE frames = <<>>
    <3>1. Len(frames') = 1 /\ DOMAIN frames' = {1}
      BY <1>5, <2>1
    <3>2. EndOf(1)' = length'
      BY <1>6, <3>1
    <3> QED
      BY <1>1, <1>3, <3>1, <3>2 DEF FirstInside
  <2>2. CASE frames # <<>>
    <3>1. 1 \in 1..Len(frames) /\ 1 \in 0..Len(frames)
      BY <1>1, <2>2
    <3>2. EndOf(1)' = EndOf(1) /\ EndOf(1) \in Nat /\ EndOf(1) <= length
      BY <1>1, <1>5, <2>2, <3>1, EndTyped DEF EndOf, IInv, FirstInside
    <3>3. EndOf(1)' <= length'
      BY <1>1, <1>3, <3>2
    <3>4. \A i \in DOMAIN frames' : i # 1 => EndOf(1)' <= frames'[i].at
      <4> SUFFICES ASSUME NEW i \in DOMAIN frames', i # 1 PROVE EndOf(1)' <= frames'[i].at
        OBVIOUS
      <4>1. CASE i = Len(frames) + 1
        BY <1>4, <1>5, <3>2, <4>1
      <4>2. CASE i # Len(frames) + 1
        BY <1>1, <1>5, <3>2, <4>2 DEF IInv, FirstInside
      <4> QED
        BY <4>1, <4>2
    <3> QED
      BY <3>3, <3>4 DEF FirstInside
  <2> QED
    BY <2>1, <2>2
<1>8. \A i \in DOMAIN frames' : frames'[i].has <= SizeOf[frames'[i].rec]
  BY <1>1, <1>4, <1>5 DEF IInv, TypeOK
<1> QED
  BY <1>1, <1>3, <1>4, <1>5, <1>6, <1>7, <1>8

(* Frames two files share at their beginning open alike. *)
LEMMA SamePrefix ==
  ASSUME NEW m \in Nat, frames # <<>> \/ m = 0, frames' # <<>> \/ m = 0,
         \A i \in 1..m : frames'[i] = frames[i]
  PROVE  \A i \in 1..m : Whole(frames[i])' = Whole(frames[i]) /\ OpensAt(i, LogRoot)' = OpensAt(i, LogRoot)
<1> SUFFICES ASSUME NEW i \in 1..m
             PROVE  Whole(frames[i])' = Whole(frames[i]) /\ OpensAt(i, LogRoot)' = OpensAt(i, LogRoot)
  OBVIOUS
<1>1. frames'[i] = frames[i] /\ frames'[1] = frames[1] /\ 1 \in 1..m
  OBVIOUS
<1>2. LogRoot' = LogRoot
  BY <1>1 DEF LogRoot
<1> QED
  BY <1>1, <1>2 DEF Whole, OpensAt

(* The scan after a write at the end of the file.                          *)
LEMMA WriteScans ==
  ASSUME IInv, writer = "open", NEW r \in Records, NEW has \in 0..SizeOf[r], Write(r, has),
         writer' = "open", key' = key, NEW n \in 0..Len(frames), EndsAt(n),
         index' = IF has = SizeOf[r] THEN index + 1 ELSE index,
         NEW m, m = IF n = Len(frames) /\ has = SizeOf[r] THEN n + 1 ELSE n
  PROVE  EndsAt(m)' /\ m \in 0..Len(frames') /\ LogRoot' = key
<1>1. /\ Len(frames) \in Nat /\ n \in Nat /\ LogRoot = key /\ TypeOK /\ SizeOf[r] \in Nat
      /\ has \in Nat
  BY SizeAssumption DEF IInv, TypeOK, Scanned
<1>2. /\ Len(frames') = Len(frames) + 1 /\ length' = EndOf(Len(frames))'
      /\ \A i \in 1..Len(frames) : frames'[i] = frames[i]
  BY WriteKeeps
<1>3. LET frame == frames'[Len(frames) + 1]
      IN  frame.rec = r /\ frame.index = index /\ frame.key = key /\ frame.has = has
  BY WriteKeeps
<1>4. LogRoot' = key
  <2>1. CASE frames = <<>>
    <3>1. Len(frames) = 0 /\ frames' # <<>>
      BY <1>1, <1>2, <2>1
    <3> QED
      BY <1>3, <3>1 DEF LogRoot
  <2>2. CASE frames # <<>>
    <3>1. frames' # <<>> /\ frames'[1] = frames[1]
      BY <1>1, <1>2, <2>2
    <3> QED
      BY <1>1, <2>2, <3>1 DEF LogRoot
  <2> QED
    BY <2>1, <2>2
<1>5. \A i \in 1..Len(frames) :
        Whole(frames[i])' = Whole(frames[i]) /\ OpensAt(i, LogRoot)' = OpensAt(i, LogRoot)
  BY <1>1, <1>2, <1>4 DEF Whole, OpensAt
<1>6. CASE n = Len(frames) /\ has = SizeOf[r]
  <2>1. Len(frames') = m /\ m \in Nat /\ index = n /\ index' = m
    BY <1>1, <1>2, <1>6 DEF EndsAt
  <2>2. OpensAt(m, LogRoot)'
    BY <1>1, <1>3, <1>4, <1>6, <2>1 DEF OpensAt, Whole
  <2>3. \A i \in 1..m : OpensAt(i, LogRoot)'
    BY <1>1, <1>5, <1>6, <2>2 DEF EndsAt
  <2>4. length' = EndOf(m)'
    BY <1>2, <2>1
  <2>5. EndsAt(m)'
    BY <2>1, <2>3, <2>4 DEF EndsAt
  <2> QED
    BY <1>4, <2>1, <2>5
<1>7. CASE ~(n = Len(frames) /\ has = SizeOf[r])
  <2>1. n < Len(frames') /\ n # Len(frames') /\ m = n
    BY <1>1, <1>2, <1>7
  <2>2. \A i \in 1..n : OpensAt(i, LogRoot)'
    BY <1>1, <1>5 DEF EndsAt
  <2>3. ~Whole(frames[n + 1])'
    <3>1. CASE n = Len(frames)
      BY <1>3, <1>7, <3>1 DEF Whole
    <3>2. CASE n # Len(frames)
      BY <1>1, <1>5, <3>2 DEF EndsAt
    <3> QED
      BY <3>1, <3>2
  <2> QED
    BY <1>1, <1>4, <2>1, <2>2, <2>3 DEF EndsAt
<1> QED
  BY <1>6, <1>7

(* The scan after a power loss: of the file cut after a frame ...          *)
LEMMA CutScans ==
  ASSUME TypeOK, NEW n \in 0..Len(frames), EndsAt(n), NEW k \in 0..Len(frames),
         Len(frames') = k, \A i \in 1..k : frames'[i] = frames[i], writer' = "closed",
         NEW m, m = IF n <= k THEN n ELSE k
  PROVE  EndsAt(m)' /\ m \in 0..Len(frames')
<1>1. /\ n \in Nat /\ k \in Nat /\ Len(frames) \in Nat /\ m \in 0..k /\ m <= n
      /\ frames' # <<>> \/ k = 0
      /\ frames # <<>> \/ k = 0
  BY DEF TypeOK
<1>2. \A i \in 1..k : Whole(frames[i])' = Whole(frames[i]) /\ OpensAt(i, LogRoot)' = OpensAt(i, LogRoot)
  BY <1>1, SamePrefix
<1>3. \A i \in 1..m : OpensAt(i, LogRoot)'
  BY <1>1, <1>2 DEF EndsAt
<1>4. m < Len(frames') => ~Whole(frames[m + 1])'
  <2> SUFFICES ASSUME m < k PROVE ~Whole(frames[m + 1])'
    OBVIOUS
  <2>1. m = n /\ m + 1 \in 1..k /\ n < Len(frames)
    BY <1>1
  <2> QED
    BY <1>2, <2>1 DEF EndsAt
<1> QED
  BY <1>1, <1>3, <1>4 DEF EndsAt

(* ... and inside one.                                                     *)
LEMMA TornScans ==
  ASSUME TypeOK, NEW n \in 0..Len(frames), EndsAt(n), NEW k \in 1..Len(frames),
         NEW has \in Nat, has < frames[k].has,
         Len(frames') = k, \A i \in 1..(k - 1) : frames'[i] = frames[i],
         frames'[k] = [frames[k] EXCEPT !.has = has], writer' = "closed",
         NEW m, m = IF n <= k - 1 THEN n ELSE k - 1
  PROVE  EndsAt(m)' /\ m \in 0..Len(frames')
<1>1. /\ n \in Nat /\ k \in Nat /\ Len(frames) \in Nat /\ m \in 0..(k - 1) /\ m <= n /\ k - 1 \in Nat
      /\ frames' # <<>> /\ frames # <<>>
  BY DEF TypeOK
<1>2. \A i \in 1..(k - 1) :
        Whole(frames[i])' = Whole(frames[i]) /\ OpensAt(i, LogRoot)' = OpensAt(i, LogRoot)
  BY <1>1, SamePrefix
<1>3. \A i \in 1..m : OpensAt(i, LogRoot)'
  BY <1>1, <1>2 DEF EndsAt
<1>4. ~Whole(frames[k])'
  <2>1. /\ k \in DOMAIN frames /\ frames[k] \in Frame /\ frames[k].has \in Nat
        /\ SizeOf[frames[k].rec] \in Nat /\ frames[k].has <= SizeOf[frames[k].rec]
    BY FrameTyped DEF TypeOK
  <2>2. frames'[k].has = has /\ frames'[k].rec = frames[k].rec
    BY <2>1 DEF Frame
  <2> QED
    BY <2>1, <2>2 DEF Whole
<1>5. ~Whole(frames[m + 1])'
  <2>1. CASE m = k - 1
    BY <1>1, <1>4, <2>1
  <2>2. CASE m # k - 1
    <3>1. m = n /\ m + 1 \in 1..(k - 1) /\ n < Len(frames)
      BY <1>1, <2>2
    <3> QED
      BY <1>2, <3>1 DEF EndsAt
  <2> QED
    BY <2>1, <2>2
<1> QED
  BY <1>1, <1>3, <1>5 DEF EndsAt

(* t is s, of length k - 1, and then e.                                    *)
Longer(t, s, e, k, S) ==
  /\ t \in Seq(S) /\ Len(t) = k /\ DOMAIN t = 1..k /\ t # <<>> /\ t[k] = e
  /\ \A i \in 1..(k - 1) : t[i] = s[i]

LEMMA Appended ==
  ASSUME NEW S, NEW s \in Seq(S), NEW e \in S, NEW k \in Nat, Len(s) = k - 1
  PROVE  Longer(Append(s, e), s, e, k, S)
<1>1. Len(s) \in Nat /\ k = Len(s) + 1 /\ k # 0
  OBVIOUS
<1>2. /\ Append(s, e) \in Seq(S) /\ Len(Append(s, e)) = k /\ Append(s, e)[k] = e
      /\ \A i \in 1..(k - 1) : Append(s, e)[i] = s[i]
  BY <1>1, AppendProperties
<1> QED
  BY <1>1, <1>2 DEF Longer

LEMMA TornCut ==
  ASSUME IInv, NEW k \in (synced + 1)..Len(frames), NEW has \in 0..frames[k].has,
         frames' = Append(SubSeq(frames, 1, k - 1), [frames[k] EXCEPT !.has = has]),
         length' \in (frames[k].at + 1 + has)..length
  PROVE  /\ frames' \in Seq(Frame) /\ Len(frames') = k /\ frames' # <<>> /\ k \in 1..Len(frames)
         /\ \A i \in 1..(k - 1) : frames'[i] = frames[i]
         /\ frames'[k] = [frames[k] EXCEPT !.has = has]
         /\ has \in Nat /\ frames[k].has \in Nat /\ has <= frames[k].has
         /\ length' \in Nat /\ FirstInside'
         /\ \A i \in DOMAIN frames' : frames'[i].has <= SizeOf[frames'[i].rec]
<1> DEFINE cut == [frames[k] EXCEPT !.has = has]
           front == SubSeq(frames, 1, k - 1)
<1>1. /\ Len(frames) \in Nat /\ DOMAIN frames = 1..Len(frames) /\ synced \in Nat /\ length \in Nat
      /\ TypeOK
  BY DEF IInv, TypeOK
<1>2. /\ k \in Nat /\ k \in DOMAIN frames /\ k \in 1..Len(frames)
      /\ k - 1 \in Nat /\ k - 1 \in 0..Len(frames)
  BY <1>1
<1>3. /\ frames[k] \in Frame /\ frames[k].has \in Nat /\ frames[k].at \in Nat
      /\ SizeOf[frames[k].rec] \in Nat /\ frames[k].has <= SizeOf[frames[k].rec]
  BY <1>1, <1>2, FrameTyped
<1>4. has \in Nat /\ has <= frames[k].has
  BY <1>3
<1>5. cut \in Frame /\ cut.rec = frames[k].rec /\ cut.has = has /\ cut.at = frames[k].at
  BY <1>3, <1>4 DEF Frame
<1>12. \A i \in DOMAIN frames : i # 1 => EndOf(1) <= frames[i].at
  BY DEF IInv, FirstInside
<1>6. /\ front \in Seq(Frame) /\ Len(front) = k - 1 /\ \A i \in 1..(k - 1) : front[i] = frames[i]
  BY <1>1, <1>2, PrefixOfFrames
<1>7. frames' = Append(front, cut)
  OBVIOUS
<1> HIDE DEF cut, front
<1>8. /\ frames' \in Seq(Frame) /\ Len(frames') = k /\ DOMAIN frames' = 1..k /\ frames' # <<>>
      /\ frames'[k] = cut /\ \A i \in 1..(k - 1) : frames'[i] = frames[i]
  <2>1. front \in Seq(Frame) /\ cut \in Frame /\ k \in Nat /\ Len(front) = k - 1
    BY <1>2, <1>5, <1>6
  <2> DEFINE longer == Append(front, cut)
  <2>2. Longer(longer, front, cut, k, Frame)
    BY <2>1, Appended, Zenon
  <2> HIDE DEF longer
  <2>3. /\ longer \in Seq(Frame) /\ Len(longer) = k /\ DOMAIN longer = 1..k /\ longer # <<>>
        /\ longer[k] = cut /\ \A i \in 1..(k - 1) : longer[i] = front[i]
    BY <2>2 DEF Longer
  <2>4. frames' = longer
    BY <1>7 DEF longer
  <2> QED
    BY <1>6, <2>3, <2>4
<1>9. /\ length' \in Nat /\ frames[k].at + 1 + has <= length'
  BY <1>1, <1>3, <1>4
<1>10. \A i \in DOMAIN frames' : frames'[i].has <= SizeOf[frames'[i].rec]
  <2> SUFFICES ASSUME NEW i \in 1..k PROVE frames'[i].has <= SizeOf[frames'[i].rec]
    BY <1>8
  <2>1. CASE i = k
    BY <1>3, <1>4, <1>5, <1>8, <2>1
  <2>2. CASE i # k
    <3>1. i \in 1..(k - 1) /\ i \in DOMAIN frames
      BY <1>1, <1>2, <2>2
    <3> QED
      BY <1>1, <1>8, <3>1, FrameTyped
  <2> QED
    BY <2>1, <2>2
<1>11. FirstInside'
  <2>1. CASE k = 1
    <3>1. EndOf(1)' = frames[k].at + 1 + has
      BY <1>5, <1>8, <2>1 DEF EndOf
    <3> QED
      BY <1>8, <1>9, <2>1, <3>1 DEF FirstInside
  <2>2. CASE k # 1
    <3>1. 1 \in 1..(k - 1) /\ 1 \in 0..Len(frames) /\ frames # <<>>
      BY <1>1, <1>2, <2>2
    <3>2. EndOf(1)' = EndOf(1) /\ EndOf(1) \in Nat
      BY <1>1, <1>8, <3>1, EndTyped DEF EndOf
    <3>3. EndOf(1) <= frames[k].at
      BY <1>2, <2>2 DEF IInv, FirstInside
    <3>4. \A i \in 1..k : i # 1 => EndOf(1) <= frames'[i].at
      <4> SUFFICES ASSUME NEW i \in 1..k, i # 1 PROVE EndOf(1) <= frames'[i].at
        OBVIOUS
      <4>1. CASE i = k
        BY <1>5, <1>8, <3>3, <4>1
      <4>2. CASE i # k
        <5>1. i \in 1..(k - 1) /\ i \in DOMAIN frames
          BY <1>1, <1>2, <4>2
        <5> QED
          BY <1>8, <1>12, <5>1
      <4> QED
        BY <4>1, <4>2
    <3> QED
      BY <1>3, <1>4, <1>8, <1>9, <3>2, <3>3, <3>4 DEF FirstInside
  <2> QED
    BY <2>1, <2>2
<1> QED
  BY <1>2, <1>3, <1>4, <1>8, <1>9, <1>10, <1>11 DEF cut

(* Either way the scan keeps what was committed below the cut.             *)
LEMMA TornEnds ==
  ASSUME TypeOK, NEW n \in 0..Len(frames), EndsAt(n), NEW k \in 1..Len(frames),
         NEW has \in Nat, frames[k].has \in Nat, has <= frames[k].has,
         Len(frames') = k, \A i \in 1..(k - 1) : frames'[i] = frames[i],
         frames'[k] = [frames[k] EXCEPT !.has = has], writer' = "closed"
  PROVE  \E e \in 0..Len(frames') :
           /\ EndsAt(e)' /\ e <= n /\ (n >= k - 1 => e >= k - 1) /\ (n < k - 1 => e = n)
           /\ \A i \in 1..e : frames'[i] = frames[i]
<1>1. k \in Nat /\ n \in Nat /\ Len(frames) \in Nat /\ frames[k] \in Frame /\ k \in 1..Len(frames)
  BY FrameTyped DEF TypeOK
<1>2. CASE has = frames[k].has
  <2>1. frames'[k] = frames[k]
    BY <1>1, <1>2 DEF Frame
  <2>2. \A i \in 1..k : frames'[i] = frames[i]
    BY <1>1, <2>1
  <2>3. PICK e : e = IF n <= k THEN n ELSE k
    OBVIOUS
  <2>4. EndsAt(e)' /\ e \in 0..Len(frames')
    BY <1>1, <2>2, <2>3, CutScans
  <2> QED
    BY <1>1, <2>2, <2>3, <2>4
<1>3. CASE has # frames[k].has
  <2>1. has < frames[k].has
    BY <1>3
  <2>2. PICK e : e = IF n <= k - 1 THEN n ELSE k - 1
    OBVIOUS
  <2>3. EndsAt(e)' /\ e \in 0..Len(frames')
    BY <1>1, <2>1, <2>2, TornScans
  <2> QED
    BY <1>1, <2>2, <2>3
<1> QED
  BY <1>2, <1>3

(* What open_append leaves: the committed frames, and a writer at their end. *)
LEMMA OpenScans ==
  ASSUME IInv, OpenAppend, NEW n \in 0..Len(frames), EndsAt(n)
  PROVE  /\ frames' = SubSeq(frames, 1, n) /\ Len(frames') = n /\ length' = EndOf(n)
         /\ index' = n /\ synced' \in 0..n
         /\ synced' = IF TailAt(keys.current) = "clean" THEN synced ELSE n
         /\ EndsAt(n)' /\ LogRoot' = key'
<1> DEFINE root == keys.current
<1>1. /\ CommittedUnder(root) = n /\ \A i \in 1..n : OpensAt(i, root)
      /\ TailAt(root) = "clean" => n = Len(frames) /\ length = EndOf(n)
  BY AcceptedScan DEF OpenAppend
<1>2. /\ Len(frames) \in Nat /\ n \in Nat /\ TypeOK /\ synced \in 0..Len(frames)
      /\ frames \in Seq(Frame)
  BY DEF IInv, TypeOK
<1>3. /\ index' = n /\ key' = root /\ writer' = "open"
      /\ synced' = IF TailAt(root) = "clean" THEN synced ELSE n
  BY <1>1 DEF OpenAppend, CountRecords
<1>4. frames' = SubSeq(frames, 1, n) /\ length' = EndOf(n)
  <2>1. CASE TailAt(root) = "clean"
    <3>1. SubSeq(frames, 1, Len(frames)) = frames
      BY <1>2
    <3> QED
      BY <1>1, <2>1, <3>1 DEF OpenAppend
  <2>2. CASE TailAt(root) # "clean"
    BY <1>1, <2>2 DEF OpenAppend, Keep
  <2> QED
    BY <2>1, <2>2
<1>5. Len(frames') = n /\ \A i \in 1..n : frames'[i] = frames[i]
  BY <1>2, <1>4, PrefixOfFrames
<1>6. EndOf(n)' = EndOf(n)
  BY <1>2, <1>5 DEF EndOf
<1>7. LogRoot' = root
  <2>1. CASE n = 0
    BY <1>3, <1>5, <2>1 DEF LogRoot
  <2>2. CASE n # 0
    <3>1. frames' # <<>> /\ 1 \in 1..n
      BY <1>2, <1>5, <2>2
    <3> QED
      BY <1>1, <1>5, <3>1 DEF LogRoot, OpensAt
  <2> QED
    BY <2>1, <2>2
<1>8. \A i \in 1..n : OpensAt(i, LogRoot)'
  BY <1>1, <1>5, <1>7 DEF OpensAt, Whole
<1>9. EndsAt(n)'
  BY <1>2, <1>3, <1>4, <1>5, <1>6, <1>8 DEF EndsAt
<1> QED
  BY <1>1, <1>2, <1>3, <1>4, <1>5, <1>7, <1>9

LEMMA InvInit == Init => IInv
<1> SUFFICES ASSUME Init PROVE IInv
  OBVIOUS
<1>1. frames = <<>> /\ length = 0 /\ synced = 0 /\ Len(frames) = 0 /\ DOMAIN frames = {}
  BY DEF Init
<1>2. TypeOK
  BY <1>1 DEF Init, TypeOK, KeySets
<1>3. 0 \in 0..Len(frames) /\ EndsAt(0)
  BY <1>1 DEF Init, EndsAt
<1>4. Scanned
  BY <1>1, <1>3 DEF Init, Scanned
<1> QED
  BY <1>1, <1>2, <1>4 DEF Init, IInv, Created, FirstInside

(* Each step leaves the scan ending at an unfinished frame or at the last, *)
(* for the sequences the lemmas above describe.                            *)
LEMMA InvStep ==
  ASSUME IInv, [Next]_vars
  PROVE  IInv'
<1>1. /\ Len(frames) \in Nat /\ DOMAIN frames = 1..Len(frames) /\ synced \in 0..Len(frames)
      /\ TypeOK /\ Created /\ FirstInside /\ Scanned /\ length \in Nat
  BY DEF IInv, TypeOK
<1>2. PICK n \in 0..Len(frames) : EndsAt(n)
  BY <1>1 DEF Scanned
<1>3. ASSUME UNCHANGED <<frames, length, index, key>>, writer' = "open" => writer = "open"
      PROVE  FirstInside' /\ Scanned'
  BY <1>1, <1>3 DEF FirstInside, Scanned, EndsAt, OpensAt, Whole, EndOf, LogRoot
<1>4. CASE Create
  <2>1. frames = <<>> /\ Len(frames) = 0 /\ UNCHANGED <<frames, length, index>> /\ writer' = "creating"
        /\ frames' = <<>>
    BY <1>1, <1>4 DEF Create, Created
  <2>2. 0 \in 0..Len(frames') /\ EndsAt(0)'
    BY <2>1 DEF EndsAt
  <2>3. FirstInside' /\ Scanned'
    BY <1>1, <2>1, <2>2 DEF FirstInside, Scanned
  <2>4. TypeOK' /\ Created'
    BY <1>1, <1>4 DEF Create, TypeOK, KeySets, Created
  <2> QED
    BY <2>3, <2>4 DEF IInv
<1>5. CASE WriteHeader
  <2>1. /\ frames = <<>> /\ length = 0 /\ UNCHANGED <<frames, length, synced, key, keys>>
        /\ index' = 0 /\ frames' = <<>> /\ Len(frames') = 0
    BY <1>1, <1>5 DEF WriteHeader, Created
  <2>2. 0 \in 0..Len(frames') /\ EndsAt(0)' /\ LogRoot' = key'
    BY <2>1 DEF EndsAt, EndOf, LogRoot
  <2>3. FirstInside' /\ Scanned'
    BY <1>1, <2>1, <2>2 DEF FirstInside, Scanned
  <2>4. TypeOK' /\ Created'
    BY <1>1, <1>5, <2>1 DEF WriteHeader, TypeOK, Created
  <2> QED
    BY <2>3, <2>4 DEF IInv
<1>6. CASE OpenAppend
  <2>1. /\ frames' = SubSeq(frames, 1, n) /\ Len(frames') = n /\ length' = EndOf(n)
        /\ index' = n /\ synced' \in 0..n /\ EndsAt(n)' /\ LogRoot' = key'
    BY <1>2, <1>6, OpenScans
  <2>2. /\ frames' \in Seq(Frame) /\ FirstInside' /\ length' \in Nat
        /\ \A i \in DOMAIN frames' : frames'[i].has <= SizeOf[frames'[i].rec]
    BY <2>1, CutKeeps
  <2>3. /\ UNCHANGED <<header, keys>> /\ key' = keys.current /\ header = "ok" /\ writer' = "open"
        /\ key' \in Roots /\ n \in Nat
    BY <1>1, <1>6 DEF OpenAppend, Accepts, TypeOK, KeySets
  <2>4. TypeOK'
    BY <1>1, <2>1, <2>2, <2>3 DEF TypeOK
  <2>5. Scanned'
    BY <2>1 DEF Scanned
  <2> QED
    BY <2>2, <2>3, <2>4, <2>5 DEF IInv, Created
<1>7. CASE AppendRecord
  <2>1. PICK r \in Records : Write(r, SizeOf[r])
    BY <1>7 DEF AppendRecord
  <2>2. SizeOf[r] \in 0..SizeOf[r]
    BY SizeAssumption
  <2>3. /\ writer = "open" /\ writer' = "open" /\ index' = index + 1
        /\ UNCHANGED <<header, synced, key, keys>>
    BY <1>7 DEF AppendRecord
  <2>4. PICK e : e = IF n = Len(frames) /\ SizeOf[r] = SizeOf[r] THEN n + 1 ELSE n
    OBVIOUS
  <2>5. EndsAt(e)' /\ e \in 0..Len(frames') /\ LogRoot' = key
    BY <1>2, <2>1, <2>2, <2>3, <2>4, WriteScans
  <2>6. /\ frames' \in Seq(Frame) /\ Len(frames') = Len(frames) + 1 /\ length' \in Nat /\ FirstInside'
        /\ \A i \in DOMAIN frames' : frames'[i].has <= SizeOf[frames'[i].rec]
    BY <2>1, <2>2, WriteKeeps
  <2>7. TypeOK' /\ Created'
    BY <1>1, <2>3, <2>6 DEF TypeOK, Created
  <2>8. Scanned'
    BY <2>3, <2>5 DEF Scanned
  <2> QED
    BY <2>6, <2>7, <2>8 DEF IInv
<1>8. CASE FailAppend
  <2>1. PICK r \in Records : \E has \in 0..(SizeOf[r] - 1) : Write(r, has)
    BY <1>8 DEF FailAppend
  <2>2. PICK has \in 0..(SizeOf[r] - 1) : Write(r, has)
    BY <2>1
  <2>3. has \in 0..SizeOf[r] /\ has # SizeOf[r]
    BY SizeAssumption
  <2>4. /\ writer = "open" /\ writer' = "open" /\ index' = index
        /\ UNCHANGED <<header, synced, key, keys>>
    BY <1>8 DEF FailAppend
  <2>5. EndsAt(n)' /\ n \in 0..Len(frames') /\ LogRoot' = key
    BY <1>2, <2>2, <2>3, <2>4, WriteScans
  <2>6. /\ frames' \in Seq(Frame) /\ Len(frames') = Len(frames) + 1 /\ length' \in Nat /\ FirstInside'
        /\ \A i \in DOMAIN frames' : frames'[i].has <= SizeOf[frames'[i].rec]
    BY <2>2, <2>3, WriteKeeps
  <2>7. TypeOK' /\ Created'
    BY <1>1, <2>4, <2>6 DEF TypeOK, Created
  <2>8. Scanned'
    BY <2>4, <2>5 DEF Scanned
  <2> QED
    BY <2>6, <2>7, <2>8 DEF IInv
<1>9. CASE Sync
  BY <1>1, <1>3, <1>9 DEF Sync, IInv, TypeOK, Created
<1>10. CASE Kill
  BY <1>1, <1>3, <1>10 DEF Kill, IInv, TypeOK, Created
<1>11. CASE PowerLoss
  <2>1. /\ writer' = "closed" /\ UNCHANGED <<synced, index, key, keys>>
        /\ IF header = "short" THEN header' \in {"absent", "short"} ELSE UNCHANGED header
    BY <1>11 DEF PowerLoss
  <2>2. CASE UNCHANGED <<frames, length>>
    <3>1. TypeOK' /\ Created'
      BY <1>1, <2>1, <2>2 DEF TypeOK, Created
    <3> QED
      BY <1>3, <2>1, <2>2, <3>1 DEF IInv
  <2>3. ASSUME NEW k \in synced..Len(frames), frames' = SubSeq(frames, 1, k),
               length' \in EndOf(k)..length
        PROVE  IInv'
    <3>1. k \in 0..Len(frames) /\ synced \in 0..k
      BY <1>1
    <3>2. /\ frames' \in Seq(Frame) /\ Len(frames') = k /\ length' \in Nat /\ FirstInside'
          /\ \A i \in 1..k : frames'[i] = frames[i]
          /\ \A i \in DOMAIN frames' : frames'[i].has <= SizeOf[frames'[i].rec]
      BY <2>3, <3>1, CutKeeps
    <3>3. PICK e : e = IF n <= k THEN n ELSE k
      OBVIOUS
    <3>4. EndsAt(e)' /\ e \in 0..Len(frames')
      BY <1>1, <1>2, <2>1, <3>1, <3>2, <3>3, CutScans
    <3>5. TypeOK'
      BY <1>1, <2>1, <3>1, <3>2 DEF TypeOK
    <3>6. Created'
      <4>1. header # "ok" => Len(frames) = 0 /\ length = 0
        BY <1>1 DEF Created
      <4>2. header # "ok" => Len(frames') = 0 /\ length' = 0
        BY <1>1, <2>3, <3>1, <3>2, <4>1, EndTyped
      <4> QED
        BY <1>1, <2>1, <3>2, <4>2 DEF Created
    <3> QED
      BY <2>1, <3>2, <3>4, <3>5, <3>6 DEF IInv, Scanned
  <2>4. ASSUME NEW k \in (synced + 1)..Len(frames), NEW has \in 0..frames[k].has,
               frames' = Append(SubSeq(frames, 1, k - 1), [frames[k] EXCEPT !.has = has]),
               length' \in (frames[k].at + 1 + has)..length
        PROVE  IInv'
    <3>1. /\ frames' \in Seq(Frame) /\ Len(frames') = k /\ frames' # <<>> /\ k \in 1..Len(frames)
          /\ \A i \in 1..(k - 1) : frames'[i] = frames[i]
          /\ frames'[k] = [frames[k] EXCEPT !.has = has]
          /\ has \in Nat /\ frames[k].has \in Nat /\ has <= frames[k].has
          /\ length' \in Nat /\ FirstInside'
          /\ \A i \in DOMAIN frames' : frames'[i].has <= SizeOf[frames'[i].rec]
      BY <2>4, TornCut
    <3>2. \E e \in 0..Len(frames') : EndsAt(e)'
      BY <1>1, <1>2, <2>1, <3>1, TornEnds
    <3>3. TypeOK'
      BY <1>1, <2>1, <3>1 DEF TypeOK
    <3>4. Created'
      BY <1>1, <2>1, <3>1 DEF Created
    <3> QED
      BY <2>1, <3>1, <3>2, <3>3, <3>4 DEF IInv, Scanned
  <2> QED
    BY <1>11, <2>2, <2>3, <2>4 DEF PowerLoss
<1>12. CASE ChangeKeys
  <2>1. keys' \in KeySets
    BY <1>1, <1>12 DEF ChangeKeys, TypeOK, KeySets
  <2> QED
    BY <1>1, <1>3, <1>12, <2>1 DEF ChangeKeys, IInv, TypeOK, Created
<1>13. CASE UNCHANGED vars
  BY <1>1, <1>3, <1>13 DEF vars, IInv, TypeOK, Created
<1> QED
  BY <1>4, <1>5, <1>6, <1>7, <1>8, <1>9, <1>10, <1>11, <1>12, <1>13 DEF Next

LEMMA InvHolds == Spec => []IInv
  BY InvInit, InvStep, PTL DEF Spec

(* TypeOK: every variable of the log keeps its type, and no record has     *)
(* more bytes in the file than it has at all.                              *)
THEOREM LogTypeCorrect == Spec => []TypeOK
<1>1. IInv => TypeOK
  BY DEF IInv
<1> QED
  BY <1>1, InvHolds, PTL

LEMMA ScannedContinues == IInv => WriterContinuesLog
<1> SUFFICES ASSUME IInv, writer = "open" PROVE WriterContinuesLog
  BY DEF WriterContinuesLog
<1>1. LogRoot = key
  BY DEF IInv, Scanned
<1>2. PICK n \in 0..Len(frames) : EndsAt(n)
  BY DEF IInv, Scanned
<1>3. IF n = Len(frames) THEN index = n /\ length = EndOf(n) ELSE ~Whole(frames[n + 1])
  BY <1>2 DEF EndsAt, IInv, TypeOK
<1>4. \A i \in 1..n : OpensAt(i, key)
  BY <1>1, <1>2 DEF EndsAt
<1> QED
  BY <1>3, <1>4 DEF WriterContinuesLog

(* WriterContinuesLog: whatever was cut, zero-filled, repaired or appended *)
(* after a failure, an open writer's log opens under its key up to the     *)
(* first unfinished record, and its next index is the next record's as     *)
(* long as there is none.                                                  *)
THEOREM WriterContinues == Spec => []WriterContinuesLog
  BY InvHolds, ScannedContinues, PTL

LEMMA StartsAtEnd ==
  ASSUME IInv, [Next]_vars, writer # "open", writer' = "open"
  PROVE  AtNextRecord'
<1>1. Len(frames) \in Nat /\ DOMAIN frames = 1..Len(frames)
  BY DEF IInv, TypeOK
<1>2. CASE WriteHeader
  <2>1. frames' = <<>> /\ length' = 0 /\ index' = 0 /\ Len(frames') = 0 /\ DOMAIN frames' = {}
    BY <1>2 DEF IInv, Created, WriteHeader
  <2> QED
    BY <2>1 DEF AtNextRecord, EndOf
<1>3. CASE OpenAppend
  <2>1. PICK n \in 0..Len(frames) : EndsAt(n)
    BY DEF IInv, Scanned
  <2>2. /\ frames' = SubSeq(frames, 1, n) /\ Len(frames') = n /\ index' = n
        /\ EndsAt(n)' /\ LogRoot' = key'
    BY <1>3, <2>1, OpenScans
  <2>3. DOMAIN frames' = 1..n
    BY <2>2, PrefixOfFrames DEF IInv
  <2>4. \A i \in 1..n : OpensAt(i, key)'
    BY <2>2 DEF EndsAt
  <2>5. length' = EndOf(Len(frames))'
    BY <2>2 DEF EndsAt
  <2> QED
    BY <2>2, <2>3, <2>4, <2>5 DEF AtNextRecord
<1>4. WriteHeader \/ OpenAppend
  BY DEF Next, Create, AppendRecord, FailAppend, Sync, Kill, PowerLoss, ChangeKeys, vars
<1> QED
  BY <1>2, <1>3, <1>4

(* WriterStartsAtEnd: open_append leaves no byte that a scan under its key *)
(* would not commit in front of what is appended next.                     *)
THEOREM WriterStarts == Spec => WriterStartsAtEnd
<1>1. IInv /\ [Next]_vars => [writer # "open" /\ writer' = "open" => AtNextRecord']_vars
  BY StartsAtEnd
<1> QED
  BY <1>1, InvHolds, PTL DEF Spec, WriterStartsAtEnd

NoneOverrun == \A i \in DOMAIN frames : ~Overrun(i)

LEMMA ScannedReopens == IInv => ReopensAfterCrash
<1> SUFFICES ASSUME IInv, header = "ok", NoneOverrun
             PROVE  Accepts(LogRoot)
  BY DEF ReopensAfterCrash, NoneOverrun
<1>1. Len(frames) \in Nat /\ DOMAIN frames = 1..Len(frames) /\ TypeOK /\ length \in Nat
  BY DEF IInv, TypeOK
<1>2. PICK n \in 0..Len(frames) : EndsAt(n)
  BY DEF IInv, Scanned
<1>3. CommittedUnder(LogRoot) = n
  BY <1>1, <1>2, OwnScan
<1>4. CASE n = Len(frames)
  BY <1>3, <1>4 DEF Accepts, TailAt
<1>5. CASE n # Len(frames)
  <2>1. n + 1 \in DOMAIN frames /\ ~Whole(frames[n + 1])
    <3>1. n \in Nat /\ n <= Len(frames) /\ Len(frames) \in Nat
      BY <1>1
    <3>2. n < Len(frames) /\ n + 1 \in 1..Len(frames)
      BY <1>5, <3>1
    <3> QED
      BY <1>1, <1>2, <3>2 DEF EndsAt
  <2>2. ~(UnitsFrom(n + 1) >= SizeOf[frames[n + 1].rec])
    BY <2>1 DEF Overrun, NoneOverrun
  <2>3. UnitsFrom(n + 1) < SizeOf[frames[n + 1].rec]
    BY <1>1, <2>1, <2>2, FrameTyped DEF UnitsFrom
  <2>4. TailAt(LogRoot) = "short"
    BY <1>3, <1>5, <2>3 DEF TailAt
  <2> QED
    BY <2>4 DEF Accepts
<1> QED
  BY <1>4, <1>5

(* ReopensAfterCrash: open_append takes a log back under its own key unless *)
(* other bytes fill up an unfinished record.                               *)
THEOREM LogReopens == Spec => []ReopensAfterCrash
  BY InvHolds, ScannedReopens, PTL

(* What a reader gets, and what of it is durable, when the scan ends at n. *)
RecordsTo(n) == [i \in 1..n |-> frames[i].rec]

Reads(n) ==
  /\ Recovered = RecordsTo(n) /\ RecordsTo(n) \in Seq(Records) /\ Len(RecordsTo(n)) = n
  /\ Durable = IF synced < n THEN synced ELSE n

LEMMA ReaderGets == IInv => \A n \in 0..Len(frames) : EndsAt(n) => Reads(n)
<1> SUFFICES ASSUME IInv, NEW n \in 0..Len(frames), EndsAt(n) PROVE Reads(n)
  OBVIOUS
<1>1. CommittedUnder(LogRoot) = n /\ n \in Nat /\ Len(frames) \in Nat /\ frames \in Seq(Frame)
  BY OwnScan DEF IInv, TypeOK
<1>2. ASSUME NEW i \in 1..n PROVE frames[i].rec \in Records
  <2>1. frames[i] \in Frame
    BY <1>1
  <2> QED
    BY <2>1 DEF Frame
<1>3. RecordsTo(n) \in [1..n -> Records]
  BY <1>2 DEF RecordsTo
<1>4. RecordsTo(n) \in Seq(Records) /\ Len(RecordsTo(n)) = n
  BY <1>1, <1>3
<1> QED
  BY <1>1, <1>4 DEF Reads, Recovered, RecordsTo, Durable

LEMMA ReaderGetsNext == IInv' => (\A n \in 0..Len(frames) : EndsAt(n) => Reads(n))'
  BY ReaderGets, PTL

LEMMA AppendByElements ==
  ASSUME NEW S, NEW s \in Seq(S), NEW e \in S, NEW t \in Seq(S),
         Len(t) = Len(s) + 1, t[Len(s) + 1] = e, \A i \in 1..Len(s) : t[i] = s[i]
  PROVE  t = Append(s, e)
<1>1. /\ Append(s, e) \in Seq(S) /\ Len(Append(s, e)) = Len(s) + 1
      /\ Append(s, e)[Len(s) + 1] = e /\ \A i \in 1..Len(s) : Append(s, e)[i] = s[i]
  BY AppendProperties
<1>2. \A i \in 1..Len(t) : t[i] = Append(s, e)[i]
  BY <1>1
<1> QED
  BY <1>1, <1>2, SeqEqual

(* A step after which the scan ends at m, of the same frames, loses only   *)
(* what is not durable.                                                    *)
LEMMA CrashLoses ==
  ASSUME IInv, IInv', NEW n \in 0..Len(frames), EndsAt(n),
         NEW m \in 0..Len(frames'), EndsAt(m)', m <= n, synced' = synced,
         synced <= m \/ m = n, \A i \in 1..m : frames'[i].rec = frames[i].rec
  PROVE  Log!Lose
<1>1. Reads(n) /\ Reads(m)'
  BY ReaderGets, ReaderGetsNext
<1>2. n \in Nat /\ m \in Nat /\ synced \in Nat
  BY DEF IInv, TypeOK
<1>3. RecordsTo(m)' = SubSeq(RecordsTo(n), 1, m)
  <2>1. SubSeq(RecordsTo(n), 1, m) = [i \in 1..m |-> RecordsTo(n)[i]]
    BY <1>1, <1>2 DEF Reads
  <2>2. \A i \in 1..m : RecordsTo(n)[i] = frames[i].rec
    BY <1>2 DEF RecordsTo
  <2>3. RecordsTo(m)' = [i \in 1..m |-> frames'[i].rec]
    BY DEF RecordsTo
  <2> QED
    BY <2>1, <2>2, <2>3
<1>4. Durable' = Durable /\ m \in Durable..Len(Recovered)
  BY <1>1, <1>2 DEF Reads
<1> QED
  BY <1>1, <1>3, <1>4 DEF Reads, Log!Lose

LEMMA LogInit == Init => Log!Init
<1> SUFFICES ASSUME Init PROVE Log!Init
  OBVIOUS
<1>1. frames = <<>> /\ Len(frames) = 0 /\ synced = 0 /\ IInv
  BY InvInit DEF Init
<1>2. EndsAt(0)
  BY <1>1 DEF Init, EndsAt
<1>3. Reads(0)
  BY <1>1, <1>2, ReaderGets
<1> QED
  BY <1>1, <1>3 DEF Reads, Log!Init

LEMMA LogStep ==
  ASSUME IInv, IInv', [Next]_vars
  PROVE  [Log!Next]_(Log!log)
<1>1. /\ Len(frames) \in Nat /\ DOMAIN frames = 1..Len(frames) /\ synced \in 0..Len(frames)
      /\ frames \in Seq(Frame) /\ TypeOK /\ synced \in Nat
  BY DEF IInv, TypeOK
<1>2. PICK n \in 0..Len(frames) : EndsAt(n)
  BY DEF IInv, Scanned
<1>3. Reads(n) /\ n \in Nat
  BY <1>1, <1>2, ReaderGets
<1>4. ASSUME NEW m \in 0..Len(frames'), EndsAt(m)', m = n, synced' = synced,
             \A i \in 1..m : frames'[i].rec = frames[i].rec
      PROVE  [Log!Next]_(Log!log)
  BY <1>2, <1>3, <1>4, CrashLoses DEF Log!Next
<1>5. CASE UNCHANGED frames /\ writer' \in {"closed", "creating"} /\ UNCHANGED <<synced, key>>
  <2>1. EndsAt(n)' /\ n \in 0..Len(frames')
    BY <1>2, <1>5 DEF EndsAt, OpensAt, Whole, LogRoot
  <2> QED
    BY <1>4, <1>5, <2>1
<1>6. CASE Create \/ WriteHeader
  <2>1. frames = <<>> /\ frames' = <<>> /\ Len(frames') = 0 /\ synced' = synced /\ n = 0
    BY <1>1, <1>6 DEF Create, WriteHeader, IInv, Created
  <2>2. EndsAt(0)'
    <3>1. PICK m \in 0..Len(frames') : EndsAt(m)'
      BY DEF IInv, Scanned
    <3>2. m = 0
      BY <2>1
    <3> QED
      BY <3>1, <3>2
  <2> QED
    BY <1>4, <2>1, <2>2
<1>7. CASE OpenAppend
  <2>1. /\ frames' = SubSeq(frames, 1, n) /\ Len(frames') = n /\ EndsAt(n)'
        /\ synced' \in 0..n
        /\ synced' = IF TailAt(keys.current) = "clean" THEN synced ELSE n
    BY <1>2, <1>7, OpenScans
  <2>2. \A i \in 1..n : frames'[i] = frames[i]
    BY <1>1, <1>2, <2>1, PrefixOfFrames
  <2>3. n \in 0..Len(frames')
    BY <1>3, <2>1
  <2>4. CASE synced' = synced
    BY <1>4, <2>2, <2>3, <2>1, <2>4
  <2>5. CASE synced' = n
    <3>1. Reads(n)'
      BY <2>1, <2>3, ReaderGetsNext
    <3>2. RecordsTo(n)' = RecordsTo(n)
      BY <2>2 DEF RecordsTo
    <3>3. Recovered' = Recovered /\ Durable' = Len(Recovered)
      BY <1>3, <2>5, <3>1, <3>2 DEF Reads
    <3> QED
      BY <3>3 DEF Log!Next, Log!Sync
  <2> QED
    BY <2>1, <2>4, <2>5
<1>8. ASSUME NEW r \in Records, NEW has \in 0..SizeOf[r], Write(r, has), writer = "open",
             writer' = "open", key' = key, synced' = synced,
             index' = IF has = SizeOf[r] THEN index + 1 ELSE index
      PROVE  [Log!Next]_(Log!log)
  <2>1. PICK m : m = IF n = Len(frames) /\ has = SizeOf[r] THEN n + 1 ELSE n
    OBVIOUS
  <2>2. EndsAt(m)' /\ m \in 0..Len(frames')
    BY <1>2, <1>8, <2>1, WriteScans
  <2>3. /\ \A i \in 1..Len(frames) : frames'[i] = frames[i]
        /\ frames'[Len(frames) + 1].rec = r
    BY <1>8, WriteKeeps
  <2>4. CASE m = n
    BY <1>1, <1>4, <1>8, <2>2, <2>3, <2>4
  <2>5. CASE m # n
    <3>1. m = n + 1 /\ n = Len(frames) /\ m \in Nat
      BY <1>3, <2>1, <2>5
    <3>2. Reads(m)'
      BY <2>2, ReaderGetsNext
    <3>3. RecordsTo(m)' \in Seq(Records) /\ Len(RecordsTo(m)') = Len(RecordsTo(n)) + 1
          /\ RecordsTo(n) \in Seq(Records) /\ Len(RecordsTo(n)) = n
      BY <1>3, <3>1, <3>2 DEF Reads
    <3>4. \A i \in 1..m : RecordsTo(m)'[i] = frames'[i].rec
      BY DEF RecordsTo
    <3>5. \A i \in 1..n : RecordsTo(n)[i] = frames[i].rec
      BY DEF RecordsTo
    <3>6. RecordsTo(m)'[n + 1] = r /\ \A i \in 1..n : RecordsTo(m)'[i] = RecordsTo(n)[i]
      BY <1>3, <2>3, <3>1, <3>4, <3>5
    <3>7. RecordsTo(m)' = Append(RecordsTo(n), r)
      BY <3>3, <3>6, AppendByElements
    <3>8. Recovered' = Append(Recovered, r)
      BY <1>3, <3>2, <3>7 DEF Reads
    <3>9. Durable' = Durable
      <4>1. Durable' = IF synced' < m THEN synced' ELSE m
        BY <3>2 DEF Reads
      <4>2. Durable = IF synced < n THEN synced ELSE n
        BY <1>3 DEF Reads
      <4> QED
        <5>1. synced' = synced /\ synced \in Nat /\ synced <= n /\ m = n + 1 /\ n \in Nat
          BY <1>1, <1>3, <1>8, <3>1
        <5> QED
          BY <4>1, <4>2, <5>1
    <3> QED
      BY <3>8, <3>9 DEF Log!Next, Log!AppendRecord
  <2> QED
    BY <2>4, <2>5
<1>9. CASE AppendRecord
  <2>1. PICK r \in Records : Write(r, SizeOf[r])
    BY <1>9 DEF AppendRecord
  <2>2. SizeOf[r] \in 0..SizeOf[r]
    BY SizeAssumption
  <2> QED
    BY <1>8, <1>9, <2>1, <2>2 DEF AppendRecord
<1>10. CASE FailAppend
  <2>1. PICK r \in Records : \E has \in 0..(SizeOf[r] - 1) : Write(r, has)
    BY <1>10 DEF FailAppend
  <2>2. PICK has \in 0..(SizeOf[r] - 1) : Write(r, has)
    BY <2>1
  <2>3. has \in 0..SizeOf[r] /\ has # SizeOf[r]
    BY SizeAssumption
  <2> QED
    BY <1>8, <1>10, <2>2, <2>3 DEF FailAppend
<1>11. CASE Sync
  <2>1. synced' = Len(frames) /\ UNCHANGED <<frames, length, writer, index, key>>
    BY <1>11 DEF Sync
  <2>2. EndsAt(n)' /\ n \in 0..Len(frames')
    BY <1>2, <2>1 DEF EndsAt, OpensAt, Whole, LogRoot, EndOf
  <2>3. Reads(n)' /\ RecordsTo(n)' = RecordsTo(n)
    BY <2>1, <2>2, ReaderGetsNext DEF RecordsTo
  <2>4. Recovered' = Recovered /\ Durable' = Len(Recovered)
    <3>1. Durable' = n
      <4>1. Durable' = IF synced' < n THEN synced' ELSE n
        BY <2>3 DEF Reads
      <4>2. n <= synced' /\ synced' \in Nat
        BY <1>1, <1>2, <2>1
      <4> QED
        BY <1>3, <4>1, <4>2
    <3>2. Recovered' = Recovered /\ Len(Recovered) = n
      BY <1>3, <2>3 DEF Reads
    <3> QED
      BY <3>1, <3>2
  <2> QED
    BY <2>4 DEF Log!Next, Log!Sync
<1>12. CASE Kill \/ ChangeKeys
  BY <1>5, <1>12 DEF Kill, ChangeKeys
<1>13. CASE PowerLoss
  <2>1. writer' = "closed" /\ UNCHANGED <<synced, key>>
    BY <1>13 DEF PowerLoss
  <2>2. CASE UNCHANGED <<frames, length>>
    BY <1>5, <2>1, <2>2
  <2>3. ASSUME NEW k \in synced..Len(frames), frames' = SubSeq(frames, 1, k),
               length' \in EndOf(k)..length
        PROVE  [Log!Next]_(Log!log)
    <3>1. k \in 0..Len(frames) /\ k \in Nat /\ synced <= k
      BY <1>1
    <3>2. Len(frames') = k /\ \A i \in 1..k : frames'[i] = frames[i]
      BY <1>1, <2>3, <3>1, PrefixOfFrames
    <3>3. PICK m : m = IF n <= k THEN n ELSE k
      OBVIOUS
    <3>4. EndsAt(m)' /\ m \in 0..Len(frames')
      BY <1>1, <1>2, <2>1, <3>1, <3>2, <3>3, CutScans
    <3>5. m <= n /\ (synced <= m \/ m = n) /\ \A i \in 1..m : frames'[i].rec = frames[i].rec
      BY <1>3, <3>1, <3>2, <3>3
    <3> QED
      BY <1>2, <2>1, <3>4, <3>5, CrashLoses DEF Log!Next
  <2>4. ASSUME NEW k \in (synced + 1)..Len(frames), NEW has \in 0..frames[k].has,
               frames' = Append(SubSeq(frames, 1, k - 1), [frames[k] EXCEPT !.has = has]),
               length' \in (frames[k].at + 1 + has)..length
        PROVE  [Log!Next]_(Log!log)
    <3>1. /\ Len(frames') = k /\ k \in 1..Len(frames)
          /\ \A i \in 1..(k - 1) : frames'[i] = frames[i]
          /\ frames'[k] = [frames[k] EXCEPT !.has = has]
          /\ has \in Nat /\ frames[k].has \in Nat /\ has <= frames[k].has
      BY <2>4, TornCut
    <3>2. PICK m \in 0..Len(frames') :
            /\ EndsAt(m)' /\ m <= n /\ (n >= k - 1 => m >= k - 1) /\ (n < k - 1 => m = n)
            /\ \A i \in 1..m : frames'[i] = frames[i]
      BY <1>1, <1>2, <2>1, <3>1, TornEnds
    <3>3. synced <= m \/ m = n
      BY <1>1, <1>3, <3>1, <3>2
    <3> QED
      BY <1>2, <2>1, <3>2, <3>3, CrashLoses DEF Log!Next
  <2> QED
    BY <1>13, <2>2, <2>3, <2>4 DEF PowerLoss
<1>14. CASE UNCHANGED vars
  <2>1. EndsAt(n)' /\ n \in 0..Len(frames') /\ synced' = synced /\ frames' = frames
    BY <1>2, <1>14 DEF vars, EndsAt, OpensAt, Whole, LogRoot, EndOf
  <2> QED
    BY <1>4, <2>1
<1> QED
  BY <1>6, <1>7, <1>9, <1>10, <1>11, <1>12, <1>13, <1>14 DEF Next

(* SealedLog implements AppendLog: through failed appends and those after  *)
(* them, kills, power losses with and without zeros, repairs and key       *)
(* changes, what a reader gets only grows, and a crash takes only records  *)
(* no sync covered.                                                        *)
THEOREM LogIsAppendOnly == Spec => ImplementsLog
  BY InvHolds, LogInit, LogStep, PTL DEF Spec, ImplementsLog, Log!Spec
=============================================================================
