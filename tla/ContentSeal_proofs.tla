------------------------- MODULE ContentSeal_proofs -------------------------
(* Proofs about ContentSeal, for any number of columns and rows, batch size, *)
(* roots and opens, and about PluginKeys, which finds the key it seals with. *)
EXTENDS ContentSeal, PluginKeys, Integers, WellFoundedInduction, FiniteSetTheorems, TLAPS

(* A non-empty set of naturals has a least element.                          *)
LEMMA LeastNatural ==
  ASSUME NEW S \in SUBSET Nat, S # {}
  PROVE  \E m \in S : \A n \in S : m <= n
<1>1. IsWellFoundedOn(OpToRel(<, Nat), Nat)
  BY NatLessThanWellFounded
<1>2. PICK m \in S : \A n \in S : ~(<<n, m>> \in OpToRel(<, Nat))
  BY <1>1, WFMin
<1>3. ASSUME NEW n \in S PROVE m <= n
  <2>1. ~(n < m)
    BY <1>2 DEF OpToRel
  <2> QED BY <2>1
<1> QED BY <1>3

(* A non-empty batch has a last row, which lies behind the cursor.           *)
LEMMA LastOfBatch ==
  ASSUME NEW batch \in SUBSET RowKeys, batch # {}
  PROVE  Last(batch) \in batch
<1> DEFINE gaps == {LastRow - k : k \in batch}
<1>1. gaps \in SUBSET Nat /\ gaps # {}
  <2>1. ASSUME NEW k \in batch PROVE LastRow - k \in Nat
    <3>1. k \in 1..LastRow /\ LastRow \in Nat
      BY BoundsAssumption DEF RowKeys
    <3> QED BY <3>1
  <2>2. gaps \subseteq Nat
    BY <2>1
  <2>3. PICK k \in batch : TRUE
    OBVIOUS
  <2>4. LastRow - k \in gaps
    OBVIOUS
  <2> HIDE DEF gaps
  <2> QED BY <2>2, <2>4
<1> HIDE DEF gaps
<1>2. PICK gap \in gaps : \A other \in gaps : gap <= other
  BY <1>1, LeastNatural
<1>3. PICK k \in batch : gap = LastRow - k
  BY <1>2 DEF gaps
<1>4. \A j \in batch : LastRow - j \in gaps
  BY DEF gaps
<1>5. \A j \in batch : j <= k
  <2> TAKE j \in batch
  <2>1. gap <= LastRow - j
    BY <1>2, <1>4
  <2>2. j \in Int /\ k \in Int /\ LastRow \in Int
    BY BoundsAssumption DEF RowKeys
  <2> QED BY <1>3, <2>1, <2>2
<1> QED BY <1>5 DEF Last

LEMMA BatchIsRows ==
  ASSUME NEW cursor \in 0..LastRow
  PROVE  BatchAfter(cursor) \in SUBSET {k \in RowKeys : k > cursor /\ rows[k] # NoRow}
BY DEF BatchAfter
-----------------------------------------------------------------------------
LEMMA InitTypeOK == Init => TypeOK
<1> SUFFICES ASSUME Init PROVE TypeOK
  OBVIOUS
<1> USE BoundsAssumption
<1>1. /\ [i \in Items |-> Fresh] \in [Items -> Progress]
      /\ [i \in Items |-> Sealed] \in [Items -> Progress]
  BY DEF Fresh, Sealed, Progress
<1>2. NoRun \in Runs
  BY DEF NoRun, Runs
<1>3. rows \in [RowKeys -> Row \cup {NoRow}]
  <2>1. [Items -> {"plain"}] \subseteq Row /\ [Items -> {keys.current, "lost"}] \subseteq Row
    BY DEF Init, Row, Values, KeySets
  <2> QED BY <2>1 DEF Init
<1>4. record \in StoreRecord
  <2>1. keys.current \in Roots
    BY DEF Init, KeySets
  <2>2. \E kcv \in Roots \cup {NoKcv} :
          record = [kcv |-> kcv, owed |-> FALSE, scrubbed |-> FALSE]
    BY <2>1 DEF Init
  <2> QED BY <2>2 DEF StoreRecord
<1>5. keys \in KeySets
  BY DEF Init
<1>6. item \in [Items -> Progress]
  BY <1>1 DEF Init
<1>7. residue \subseteq Residues /\ keyless \in BOOLEAN
  BY DEF Init, Residues
<1>8. /\ resets \in BOOLEAN /\ pc \in Places /\ run \in Runs
      /\ opens \in 0..MaxOpens /\ disturbed \in {"no", "before", "after"}
  BY <1>2 DEF Init, Places
<1> QED BY <1>3, <1>4, <1>5, <1>6, <1>7, <1>8 DEF TypeOK

(* While a column is walked, run.column is its number.                      *)
Walking == pc \in {"batch", "finish"} => run.column \in Items

TypeInv == TypeOK /\ Walking

(* Every kind of step keeps the types. *)
LEMMA TypeStep ==
  ASSUME TypeInv, [Next]_vars
  PROVE  TypeInv'
<1> USE BoundsAssumption DEF TypeInv
<1> USE DEF Owe, GoTo, Go
<1>1. CASE Open
  <2>1. PICK held \in KeySets :
          /\ keys' = held
          /\ record' = [record EXCEPT !.kcv = IF @ = NoKcv THEN held.current ELSE @]
          /\ run' = [NoRun EXCEPT !.wasRetired = KeyState(held) = "Retired"]
          /\ pc' \in {"unhealthy", "pending"}
    BY <1>1 DEF Open
  <2>2. record' \in StoreRecord
    BY <2>1 DEF TypeOK, StoreRecord, KeySets
  <2>3. run' \in Runs
    <3>1. PICK retired \in BOOLEAN : run' = [NoRun EXCEPT !.wasRetired = retired]
      BY <2>1
    <3>2. NoRun \in Runs
      BY DEF NoRun, Runs
    <3> QED BY <3>1, <3>2 DEF Runs
  <2>4. opens' \in 0..MaxOpens
    BY <1>1 DEF Open, TypeOK
  <2> QED BY <1>1, <2>1, <2>2, <2>3, <2>4 DEF Open, TypeOK, Places, Walking
<1>2. CASE StartPass \/ Checkpoint \/ Scrub \/ Vacuum \/ Settle
  <2>1. record' \in StoreRecord
    BY <1>2 DEF StartPass, Checkpoint, Scrub, Vacuum, Settle, StopShort, TypeOK, StoreRecord
  <2>2. residue' \subseteq Residues
    BY <1>2 DEF StartPass, Checkpoint, Scrub, Vacuum, Settle, TypeOK
  <2>3. pc' \in Places \ {"batch", "finish"}
    BY <1>2 DEF StartPass, Checkpoint, Scrub, Vacuum, Settle, StopShort, Places
  <2> QED BY <1>2, <2>1, <2>2, <2>3
       DEF StartPass, Checkpoint, Scrub, Vacuum, Settle, TypeOK, Walking
<1>3. CASE Reopen
  <2>1. item' \in [Items -> Progress]
    BY <1>3 DEF Reopen, Pending, Progress, TypeOK
  <2>2. disturbed' \in {"no", "before", "after"}
    BY <1>3 DEF Reopen
  <2> QED BY <1>3, <2>1, <2>2 DEF Reopen, TypeOK, Places, Walking
<1>4. CASE NextItem
  <2>1. item' \in [Items -> Progress]
    BY <1>4 DEF NextItem, TypeOK, Progress
  <2>2. record' \in StoreRecord
    BY <1>4 DEF NextItem, MarkScrubOwed, TypeOK, StoreRecord
  <2>3. run' \in Runs
    BY <1>4 DEF NextItem, TypeOK, Items, Runs
  <2>4. pc' \in Places /\ Walking'
    BY <1>4 DEF NextItem, Places, TypeOK, Walking
  <2> QED BY <1>4, <2>1, <2>2, <2>3, <2>4 DEF NextItem, TypeOK
<1>5. CASE Batch
  <2> DEFINE i == run.column
             batch == BatchAfter(item[i].cursor)
  <2>1. i \in Items /\ item[i] \in Progress /\ batch \subseteq RowKeys
    BY <1>5, BatchIsRows DEF Batch, Walking, TypeOK, Progress
  <2>2. pc' \in Places /\ residue' \subseteq Residues
    BY <1>5 DEF Batch, TypeOK, Places, Residues
  <2>3. rows' \in [RowKeys -> Row \cup {NoRow}]
    <3>1. \A k \in RowKeys : k \in batch => rows[k] \in Row
      BY <2>1, BatchIsRows DEF TypeOK, Progress
    <3>2. \A k \in RowKeys, value \in Values : Resealed(value) \in Values
      BY DEF Resealed, Values, TypeOK, KeySets
    <3>3. rows' = [k \in RowKeys |->
                     IF k \in batch THEN [rows[k] EXCEPT ![i] = Resealed(@)] ELSE rows[k]]
      BY <1>5 DEF Batch
    <3> HIDE DEF batch, i
    <3>4. \A k \in RowKeys : k \in batch => [rows[k] EXCEPT ![i] = Resealed(rows[k][i])] \in Row
      BY <2>1, <3>1, <3>2 DEF Row
    <3> QED BY <3>3, <3>4 DEF TypeOK
  <2>4. item' \in [Items -> Progress]
    <3>1. CASE batch = {}
      BY <1>5, <3>1 DEF Batch, TypeOK
    <3>2. CASE batch # {}
      <4>1. Last(batch) \in 0..LastRow
        BY <2>1, <3>2, LastOfBatch DEF RowKeys
      <4>2. item' = [item EXCEPT ![i].cursor = Last(batch)]
        BY <1>5, <3>2 DEF Batch
      <4> HIDE DEF batch, i
      <4> QED BY <2>1, <4>1, <4>2 DEF TypeOK, Progress
    <3> QED BY <3>1, <3>2
  <2>5. run' \in Runs /\ run'.column = run.column
    <3>1. PICK sealed \in BOOLEAN, unreadable \in BOOLEAN :
            run' = [run EXCEPT !.sealed = @ \/ sealed, !.unreadable = @ \/ unreadable]
      BY <1>5 DEF Batch
    <3> QED BY <3>1 DEF TypeOK, Runs
  <2> QED BY <1>5, <2>1, <2>2, <2>3, <2>4, <2>5 DEF Batch, TypeOK, Walking
<1>6. CASE FinishItem
  <2>1. item' \in [Items -> Progress]
    <3>1. Sealed \in Progress
      BY DEF Sealed, Progress
    <3>2. item' = [item EXCEPT ![run.column] = Sealed]
      BY <1>6 DEF FinishItem
    <3> QED BY <3>1, <3>2 DEF TypeOK
  <2>2. record' \in StoreRecord
    BY <1>6 DEF FinishItem, TypeOK, StoreRecord, KeySets
  <2>3. run' \in Runs
    <3>1. run \in Runs /\ run.column + 1 \in 1..(Columns + 1)
      BY <1>6 DEF FinishItem, TypeOK, Walking, Items
    <3>2. run' = [run EXCEPT !.column = run.column + 1]
      BY <1>6 DEF FinishItem
    <3> QED BY <3>1, <3>2 DEF Runs
  <2> QED BY <1>6, <2>1, <2>2, <2>3 DEF FinishItem, TypeOK, Places, Walking
<1>7. CASE ServeWrite \/ ServeDelete \/ KeylessWrite
  <2>1. [Items -> {keys.current, "null"}] \subseteq Row /\ [Items -> {"plain", "null"}] \subseteq Row
    BY DEF Row, Values, TypeOK, KeySets
  <2>2. rows' \in [RowKeys -> Row \cup {NoRow}]
    BY <1>7, <2>1 DEF ServeWrite, ServeDelete, KeylessWrite, TypeOK
  <2> QED BY <1>7, <2>2 DEF ServeWrite, ServeDelete, KeylessWrite, TypeOK, Walking
<1>8. CASE DeferCompaction \/ RunDeferred
  <2>1. run' \in Runs
    BY <1>8 DEF DeferCompaction, RunDeferred, TypeOK, Runs
  <2>2. pc' \in {"serving", "checkpoint"}
    BY <1>8 DEF DeferCompaction, RunDeferred
  <2> QED BY <1>8, <2>1, <2>2 DEF DeferCompaction, RunDeferred, TypeOK, Places, Walking
<1>9. CASE Stop \/ KeylessOpen \/ KeylessExit
  <2>1. NoRun \in Runs
    BY DEF NoRun, Runs
  <2> QED BY <1>9, <2>1 DEF Stop, KeylessOpen, KeylessExit, TypeOK, Places, Walking
<1>10. CASE UNCHANGED vars
  BY <1>10 DEF vars, disk, TypeOK, Walking
<1> QED
  BY <1>1, <1>2, <1>3, <1>4, <1>5, <1>6, <1>7, <1>8, <1>9, <1>10 DEF Next, Step

LEMMA TypeInvariant == Spec => []TypeInv
<1>1. Init => TypeInv
  BY InitTypeOK DEF Init, TypeInv, Walking
<1>2. TypeInv /\ [Next]_vars => TypeInv'
  BY TypeStep
<1> QED BY <1>1, <1>2, PTL DEF Spec

(***************************************************************************)
(* The store's rows and record, the columns' items and the open have their *)
(* types: no cursor points past the last row, no column past the plan.     *)
(***************************************************************************)
THEOREM StoreTypeCorrect == Spec => []TypeOK
<1>1. TypeInv => TypeOK
  BY DEF TypeInv
<1> QED BY <1>1, TypeInvariant, PTL
-----------------------------------------------------------------------------
(***************************************************************************)
(* Why freed plaintext stays owed a scrub: while a column is walked the    *)
(* debt stands and no scrub counts as finished; before a VACUUM the free   *)
(* pages are clean; only a store without any residue is settled.           *)
(***************************************************************************)
DebtHolds ==
  /\ pc \in {"batch", "finish"} => record.owed /\ ~record.scrubbed
  /\ pc = "vacuum" => residue \subseteq {"fragment"}
  /\ pc = "settle" => residue = {}

ScrubInv == TypeInv /\ DebtHolds /\ ResidueIsOwed

LEMMA ScrubStep ==
  ASSUME ScrubInv, [Next]_vars
  PROVE  DebtHolds' /\ ResidueIsOwed'
<1> USE BoundsAssumption DEF GoTo, Go, ScrubInv, TypeInv
<1> DEFINE Begun(i) == item[i].state \in {"sealing", "sealed"}
<1>0. record \in StoreRecord /\ residue \subseteq Residues
  BY DEF TypeOK
<1>1. CASE Open
  <2>1. record'.owed = record.owed /\ record'.scrubbed = record.scrubbed
    BY <1>0, <1>1 DEF Open, StoreRecord
  <2>2. pc' \in {"unhealthy", "pending"}
    BY <1>1 DEF Open
  <2> QED BY <1>1, <2>1, <2>2 DEF Open, DebtHolds, ResidueIsOwed
<1>2. CASE StartPass \/ RunDeferred \/ DeferCompaction
  BY <1>2 DEF StartPass, RunDeferred, DeferCompaction, DebtHolds, ResidueIsOwed
<1>3. CASE Checkpoint
  <2>1. \/ record' = record
        \/ record'.owed /\ ~record'.scrubbed
    BY <1>0, <1>3 DEF Checkpoint, StopShort, Owe, StoreRecord
  <2>2. residue' \subseteq residue /\ pc' \in {"scrub", "reopen", "serving"} /\ item' = item
    BY <1>3 DEF Checkpoint, StopShort
  <2> QED BY <2>1, <2>2 DEF DebtHolds, ResidueIsOwed
<1>4. CASE Scrub
  <2>1. CASE record.owed /\ record.scrubbed /\ GoTo("vacuum") /\ UNCHANGED <<record, residue>>
    BY <1>4, <2>1 DEF Scrub, DebtHolds, ResidueIsOwed
  <2>2. CASE /\ residue' = residue \ {"wal", "free"} /\ GoTo("vacuum")
             /\ IF run.pass = "finish" THEN UNCHANGED record ELSE Owe(TRUE)
    <3>1. record' = record \/ record'.owed
      BY <1>0, <2>2 DEF Owe, StoreRecord
    <3>2. residue' \subseteq {"fragment"} /\ residue' \subseteq residue
      BY <1>0, <2>2 DEF Residues
    <3> QED BY <1>4, <2>2, <3>1, <3>2 DEF Scrub, DebtHolds, ResidueIsOwed
  <2>3. CASE StopShort(FALSE) /\ UNCHANGED residue
    <3>1. record' = record \/ (record'.owed /\ ~record'.scrubbed)
      BY <1>0, <2>3 DEF StopShort, Owe, StoreRecord
    <3> QED BY <1>4, <2>3, <3>1 DEF Scrub, StopShort, DebtHolds, ResidueIsOwed
  <2> QED BY <1>4, <2>1, <2>2, <2>3 DEF Scrub
<1>5. CASE Vacuum
  <2>1. residue \subseteq {"fragment"}
    BY <1>5 DEF Vacuum, DebtHolds
  <2>2. CASE residue' = {} /\ GoTo("settle") /\ UNCHANGED record
    BY <1>5, <2>2 DEF Vacuum, DebtHolds, ResidueIsOwed
  <2>3. ASSUME NEW scrubbed \in BOOLEAN, StopShort(scrubbed), residue' = residue
        PROVE  DebtHolds' /\ ResidueIsOwed'
    <3>1. record' = record \/ record'.owed
      BY <1>0, <2>3 DEF StopShort, Owe, StoreRecord
    <3> QED BY <1>5, <2>1, <2>3, <3>1 DEF Vacuum, StopShort, DebtHolds, ResidueIsOwed
  <2> QED BY <1>5, <2>2, <2>3 DEF Vacuum
<1>6. CASE Settle
  <2>1. residue' = {} /\ pc' \in {"reopen", "serving"}
    BY <1>6 DEF Settle, DebtHolds
  <2> QED BY <2>1 DEF DebtHolds, ResidueIsOwed
<1>7. CASE Reopen
  <2>1. \A i \in Items : item'[i].state \in {"sealing", "sealed"} => Begun(i)
    BY <1>7 DEF Reopen, Pending, TypeOK
  <2> QED BY <1>7, <2>1 DEF Reopen, DebtHolds, ResidueIsOwed
<1>8. CASE NextItem
  <2>1. CASE MarkScrubOwed
    <3>1. record'.owed /\ ~record'.scrubbed
      BY <1>0, <2>1 DEF MarkScrubOwed, Owe, StoreRecord
    <3> QED BY <1>8, <3>1 DEF NextItem, DebtHolds, ResidueIsOwed
  <2>2. CASE UNCHANGED <<item, record, residue>> /\ pc' \in {"item", "checkpoint", "serving"}
    BY <2>2 DEF DebtHolds, ResidueIsOwed
  <2> QED BY <1>8, <2>1, <2>2 DEF NextItem
<1>9. CASE Batch
  BY <1>9 DEF Batch, DebtHolds, ResidueIsOwed
<1>10. CASE FinishItem
  <2>1. record'.owed = record.owed /\ record'.scrubbed = record.scrubbed
    BY <1>0, <1>10 DEF FinishItem, StoreRecord
  <2>2. record.owed /\ ~record.scrubbed
    BY <1>10 DEF FinishItem, DebtHolds
  <2> QED BY <1>10, <2>1, <2>2 DEF FinishItem, DebtHolds, ResidueIsOwed
<1>11. CASE ServeWrite \/ ServeDelete \/ Stop \/ KeylessOpen \/ KeylessWrite \/ KeylessExit
  BY <1>11 DEF ServeWrite, ServeDelete, Stop, KeylessOpen, KeylessWrite, KeylessExit,
               DebtHolds, ResidueIsOwed
<1>12. CASE UNCHANGED vars
  BY <1>12 DEF vars, disk, DebtHolds, ResidueIsOwed
<1> QED
  BY <1>1, <1>2, <1>3, <1>4, <1>5, <1>6, <1>7, <1>8, <1>9, <1>10, <1>11, <1>12 DEF Next, Step

(***************************************************************************)
(* Plaintext a migration freed is owed a scrub from before its first cell  *)
(* is rewritten until a VACUUM has run (mark_scrub_owed, finish_store),    *)
(* for any plan, any rows, any keys and any crashes.                       *)
(***************************************************************************)
THEOREM ScrubIsOwed == Spec => []ResidueIsOwed
<1>1. Init => DebtHolds /\ ResidueIsOwed
  BY DEF Init, DebtHolds, ResidueIsOwed, Fresh
<1>2. TypeInv /\ DebtHolds /\ ResidueIsOwed /\ [Next]_vars => DebtHolds' /\ ResidueIsOwed'
  BY ScrubStep DEF ScrubInv
<1> QED BY <1>1, <1>2, TypeInvariant, PTL DEF Spec
-----------------------------------------------------------------------------
LEMMA StepKeepsValues ==
  ASSUME TypeInv, [Next]_vars, pc # "closed", NEW k \in RowKeys, NEW i \in Items,
         rows[k] # NoRow, rows'[k] # NoRow
  PROVE  /\ ~Readable(rows[k][i]) => rows'[k][i] = rows[k][i]
         /\ Readable(rows[k][i]) => Readable(rows'[k][i])
<1> USE DEF TypeInv
<1>1. rows \in [RowKeys -> Row \cup {NoRow}] /\ rows[k] \in Row
  BY DEF TypeOK
<1>2. CASE rows' = rows
  BY <1>2
<1>3. CASE Batch
  <2> DEFINE j == run.column
             batch == BatchAfter(item[j].cursor)
  <2>1. rows'[k] = IF k \in batch THEN [rows[k] EXCEPT ![j] = Resealed(@)] ELSE rows[k]
    BY <1>1, <1>3 DEF Batch
  <2> HIDE DEF batch, j
  <2>2. rows'[k][i] \in {rows[k][i], Resealed(rows[k][i])}
    BY <1>1, <2>1 DEF Row
  <2> QED BY <2>2 DEF Resealed, Readable, Held
<1>4. CASE ServeWrite
  <2>1. PICK at \in RowKeys, row \in [Items -> {keys.current, "null"}] :
          /\ rows[at] # NoRow => \A x \in Items : Readable(rows[at][x])
          /\ rows' = [rows EXCEPT ![at] = row]
    BY <1>4 DEF ServeWrite
  <2>2. CASE at = k
    <3>1. rows'[k] = row
      BY <1>1, <2>1, <2>2
    <3> QED BY <2>1, <2>2, <3>1 DEF Readable, Held
  <2>3. CASE at # k
    BY <1>1, <2>1, <2>3
  <2> QED BY <2>2, <2>3
<1>5. CASE ServeDelete
  BY <1>1, <1>5 DEF ServeDelete
<1>6. CASE KeylessWrite
  <2>1. PICK at \in RowKeys, row \in [Items -> {"plain", "null"}] :
          /\ rows[at] # NoRow => \A x \in Items : rows[at][x] \in {"plain", "null"}
          /\ rows' = [rows EXCEPT ![at] = row]
    BY <1>6 DEF KeylessWrite
  <2>2. CASE at = k
    <3>1. rows'[k] = row
      BY <1>1, <2>1, <2>2
    <3> QED BY <2>1, <2>2, <3>1 DEF Readable
  <2>3. CASE at # k
    BY <1>1, <2>1, <2>3
  <2> QED BY <2>2, <2>3
<1>7. Next => rows' = rows \/ Batch \/ ServeWrite \/ ServeDelete \/ KeylessWrite
  BY DEF Next, Step, Open, StartPass, Checkpoint, Scrub, Vacuum, Settle, Reopen, NextItem,
         FinishItem, DeferCompaction, RunDeferred, Stop, KeylessOpen, KeylessExit
<1>8. UNCHANGED vars => rows' = rows
  BY DEF vars, disk
<1> QED BY <1>2, <1>3, <1>4, <1>5, <1>6, <1>7, <1>8

(***************************************************************************)
(* No open and no write loses a value (reseal_value, ensure_writable), for *)
(* any rows and any keys: what the process opens it opens after, and what  *)
(* it does not open it leaves as it is.                                    *)
(***************************************************************************)
THEOREM ValuesAreKept == Spec => NothingIsLost
<1> DEFINE Keeps ==
      \A k \in RowKeys :
        rows[k] # NoRow /\ rows'[k] # NoRow /\ pc # "closed" =>
          \A i \in Items :
            /\ ~Readable(rows[k][i]) => rows'[k][i] = rows[k][i]
            /\ Readable(rows[k][i]) => Readable(rows'[k][i])
<1>1. TypeInv /\ [Next]_vars => [Keeps]_vars
  BY StepKeepsValues
<1>2. Spec => [][Keeps]_vars
  BY <1>1, TypeInvariant, PTL DEF Spec
<1> QED BY <1>2 DEF NothingIsLost
-----------------------------------------------------------------------------
(* What a batch holds: with a row, every earlier one behind the cursor; and *)
(* when it is short, every row behind the cursor.                           *)
RowsBetween(cursor, k) == {j \in (cursor + 1)..k : rows[j] # NoRow}

LEMMA RowsAreFinite ==
  ASSUME NEW cursor \in 0..LastRow, NEW k \in RowKeys
  PROVE  IsFiniteSet(RowsBetween(cursor, k))
<1>1. IsFiniteSet((cursor + 1)..k)
  BY FS_Interval, BoundsAssumption DEF RowKeys
<1> QED BY <1>1, FS_Subset DEF RowsBetween

LEMMA BatchIsPrefix ==
  ASSUME NEW cursor \in 0..LastRow, NEW j \in BatchAfter(cursor), NEW k \in RowKeys,
         cursor < k, k <= j, rows[k] # NoRow
  PROVE  k \in BatchAfter(cursor)
<1> USE BoundsAssumption
<1>1. j \in RowKeys /\ Cardinality(RowsBetween(cursor, j)) <= BATCH_SIZE
  BY DEF BatchAfter, RowsBetween
<1>2. RowsBetween(cursor, k) \subseteq RowsBetween(cursor, j)
  BY <1>1 DEF RowsBetween, RowKeys
<1>3. Cardinality(RowsBetween(cursor, k)) <= Cardinality(RowsBetween(cursor, j))
  BY <1>1, <1>2, RowsAreFinite, FS_Subset
<1>4. /\ Cardinality(RowsBetween(cursor, k)) \in Nat
      /\ Cardinality(RowsBetween(cursor, j)) \in Nat
  BY <1>1, RowsAreFinite, FS_CardinalityType
<1>5. Cardinality(RowsBetween(cursor, k)) <= BATCH_SIZE
  BY <1>1, <1>3, <1>4
<1> QED BY <1>5 DEF BatchAfter, RowsBetween

LEMMA ShortBatchIsAll ==
  ASSUME NEW cursor \in 0..LastRow, Cardinality(BatchAfter(cursor)) < BATCH_SIZE,
         NEW k \in RowKeys, cursor < k, rows[k] # NoRow
  PROVE  k \in BatchAfter(cursor)
<1> USE BoundsAssumption
<1> DEFINE batch == BatchAfter(cursor)
           missing == {j \in RowKeys : cursor < j /\ rows[j] # NoRow /\ j \notin batch}
<1>1. SUFFICES ASSUME missing # {} PROVE FALSE
  OBVIOUS
<1>2. PICK m \in missing : \A j \in missing : m <= j
  <2>1. missing \in SUBSET Nat
    BY DEF RowKeys
  <2> HIDE DEF missing
  <2> QED BY <1>1, <2>1, LeastNatural
<1>3. m \in RowKeys /\ cursor < m /\ rows[m] # NoRow /\ m \notin batch
  OBVIOUS
<1>4. RowsBetween(cursor, m) \subseteq batch \cup {m}
  <2>1. ASSUME NEW j \in RowsBetween(cursor, m), j # m PROVE j \in batch
    <3>1. j \in RowKeys /\ cursor < j /\ j < m /\ rows[j] # NoRow
      BY <1>3, <2>1 DEF RowsBetween, RowKeys
    <3>2. j \notin missing
      BY <1>2, <1>3, <3>1 DEF RowKeys
    <3> QED BY <3>1, <3>2
  <2> QED BY <2>1
<1>5. IsFiniteSet(batch)
  <2>1. IsFiniteSet(RowKeys) /\ batch \subseteq RowKeys
    BY FS_Interval DEF RowKeys, BatchAfter
  <2> QED BY <2>1, FS_Subset
<1>6. Cardinality(batch \cup {m}) = Cardinality(batch) + 1 /\ IsFiniteSet(batch \cup {m})
  BY <1>3, <1>5, FS_AddElement
<1>7. Cardinality(RowsBetween(cursor, m)) <= Cardinality(batch) + 1
  BY <1>4, <1>6, FS_Subset
<1>8. Cardinality(RowsBetween(cursor, m)) \in Nat /\ Cardinality(batch) \in Nat
  BY <1>3, <1>5, RowsAreFinite, FS_CardinalityType
<1>9. Cardinality(RowsBetween(cursor, m)) <= BATCH_SIZE
  BY <1>7, <1>8
<1>10. m \in batch
  BY <1>3, <1>9 DEF BatchAfter, RowsBetween
<1> QED BY <1>3, <1>10
-----------------------------------------------------------------------------
(* The rows up to a key hold, in column i, only such values. *)
UpTo(k, i, allowed) ==
  \A j \in RowKeys : j <= k /\ rows[j] # NoRow => rows[j][i] \in allowed

Unplain == Roots \cup {"null", "lost"}

(* The open has looked for plaintext, and walks or has walked its plan. *)
Past ==
  \/ pc \in {"item", "batch", "finish", "serving"}
  \/ pc \in {"checkpoint", "scrub", "vacuum", "settle"} /\ run.pass # "start"

(***************************************************************************)
(* Why a served store is sealed. The walk is where it should be: columns   *)
(* before run.column are sealed, and past the walk that is all of them.    *)
(* Undisturbed, a column holds no plaintext up to its cursor - which       *)
(* crashes and later opens find as it was - and none at all once sealed.   *)
(***************************************************************************)
WalkInPlace ==
  /\ \A i \in Items : item[i].state # "sealing" => item[i].cursor = 0
  /\ Past => \A i \in Items : i < run.column => item[i].state = "sealed"
  /\ pc \in {"batch", "finish"} => item[run.column].state = "sealing"
  /\ Past /\ pc \notin {"item", "batch", "finish"} => run.column > Columns
  /\ ~Past /\ pc \notin {"closed", "unhealthy"} => run.column = 1 /\ run.pass = "start"

ColumnsSealed ==
  disturbed = "no" =>
    /\ \A i \in Items : item[i].state = "sealing" => UpTo(item[i].cursor, i, Unplain)
    /\ Past => \A i \in Items : item[i].state = "sealed" => UpTo(LastRow, i, Unplain)
    /\ pc = "finish" => UpTo(LastRow, run.column, Unplain)

LEMMA WalkStep ==
  ASSUME TypeInv, WalkInPlace, [Next]_vars
  PROVE  WalkInPlace'
<1> USE BoundsAssumption DEF GoTo, Go, TypeInv
<1>0. /\ item \in [Items -> Progress] /\ run \in Runs /\ pc \in Places
      /\ run.column \in 1..(Columns + 1)
  BY DEF TypeOK, Runs
<1>1. CASE Open
  <2>1. run'.column = 1 /\ run'.pass = "start" /\ pc' \in {"unhealthy", "pending"}
    BY <1>1 DEF Open, NoRun
  <2>2. item' = item
    BY <1>1 DEF Open
  <2> QED BY <2>1, <2>2 DEF WalkInPlace, Past
<1>2. CASE StartPass \/ Checkpoint \/ Scrub \/ Vacuum \/ Settle
  <2>1. item' = item /\ run' = run
    BY <1>2 DEF StartPass, Checkpoint, Scrub, Vacuum, Settle
  <2>2. /\ pc \in {"pending", "checkpoint", "scrub", "vacuum", "settle"}
        /\ \/ pc' \in {"checkpoint", "scrub", "vacuum", "settle"}
           \/ pc' = "reopen" /\ (pc = "pending" \/ run.pass = "start")
           \/ pc' = "serving" /\ pc # "pending" /\ run.pass # "start"
    BY <1>2 DEF StartPass, Checkpoint, Scrub, Vacuum, Settle, StopShort
  <2> QED BY <2>1, <2>2 DEF WalkInPlace, Past
<1>3. CASE Reopen
  <2>1. pc = "reopen" /\ pc' = "item" /\ run' = run /\ run.column = 1
    BY <1>3 DEF Reopen, WalkInPlace, Past
  <2>2. \A i \in Items : item'[i] \in {Pending, item[i]}
    BY <1>3 DEF Reopen
  <2>3. \A i \in Items : ~(i < 1)
    BY DEF Items
  <2> QED BY <2>1, <2>2, <2>3 DEF WalkInPlace, Past, Pending
<1>4. CASE NextItem
  <2>0. Past /\ pc = "item"
    BY <1>4 DEF NextItem, Past
  <2>1. CASE run.column > Columns
    <3>1. run'.column = run.column /\ run'.pass = "finish" /\ item' = item
      BY <1>0, <1>4, <2>1 DEF NextItem, Items, Runs
    <3>2. pc' \in {"checkpoint", "serving"}
      BY <1>4, <2>1 DEF NextItem, Items
    <3> QED BY <1>0, <2>0, <2>1, <3>1, <3>2 DEF WalkInPlace, Past
  <2>2. CASE run.column \in Items /\ item[run.column].state = "sealed"
    <3>1. run'.column = run.column + 1 /\ item' = item /\ pc' = "item"
      BY <1>0, <1>4, <2>0, <2>2 DEF NextItem, Items, Runs
    <3>2. \A i \in Items : i < run.column + 1 => i < run.column \/ i = run.column
      BY <1>0 DEF Items
    <3> QED BY <2>0, <2>2, <3>1, <3>2 DEF WalkInPlace, Past
  <2>3. CASE run.column \in Items /\ item[run.column].state # "sealed"
    <3>1. /\ item' = [item EXCEPT ![run.column].state = "sealing"]
          /\ pc' = "batch" /\ run' = run
      BY <1>4, <2>3 DEF NextItem, Items
    <3>2. item'[run.column].state = "sealing"
      BY <1>0, <2>3, <3>1 DEF Progress
    <3>3. \A i \in Items : i # run.column => item'[i] = item[i]
      BY <1>0, <3>1
    <3> QED BY <1>0, <2>0, <2>3, <3>1, <3>2, <3>3 DEF WalkInPlace, Past, Items
  <2> QED BY <1>0, <2>1, <2>2, <2>3 DEF Items
<1>5. CASE Batch
  <2>1. run.column \in Items /\ Past /\ item[run.column].state = "sealing"
    BY <1>5 DEF Batch, Walking, WalkInPlace, Past
  <2>2. \A i \in Items : item'[i].state = item[i].state /\ (i # run.column => item'[i] = item[i])
    BY <1>0, <1>5 DEF Batch, Progress
  <2>3. run'.column = run.column /\ pc' \in {"batch", "finish"}
    BY <1>0, <1>5 DEF Batch, Runs
  <2> QED BY <2>1, <2>2, <2>3 DEF WalkInPlace, Past
<1>6. CASE FinishItem
  <2>1. run.column \in Items /\ Past
    BY <1>6 DEF FinishItem, Walking, Past
  <2>2. run'.column = run.column + 1 /\ pc' = "item"
    BY <1>0, <1>6 DEF FinishItem, Runs
  <2>3. \A i \in Items : item'[i] = IF i = run.column THEN Sealed ELSE item[i]
    BY <1>0, <1>6 DEF FinishItem
  <2>4. \A i \in Items : i < run.column + 1 => i < run.column \/ i = run.column
    BY <1>0 DEF Items
  <2> QED BY <2>1, <2>2, <2>3, <2>4 DEF WalkInPlace, Past, Sealed
<1>7. CASE ServeWrite \/ ServeDelete \/ KeylessOpen \/ KeylessWrite \/ KeylessExit
  BY <1>7 DEF ServeWrite, ServeDelete, KeylessOpen, KeylessWrite, KeylessExit, WalkInPlace, Past
<1>8. CASE DeferCompaction \/ RunDeferred
  <2>1. run'.column = run.column /\ item' = item /\ pc = "serving"
    BY <1>0, <1>8 DEF DeferCompaction, RunDeferred, Runs
  <2>2. pc' \in {"serving", "checkpoint"} /\ (pc' = "checkpoint" => run'.pass = "deferred")
    BY <1>0, <1>8 DEF DeferCompaction, RunDeferred, Runs
  <2> QED BY <2>1, <2>2 DEF WalkInPlace, Past
<1>9. CASE Stop
  BY <1>9 DEF Stop, WalkInPlace, Past
<1>10. CASE UNCHANGED vars
  BY <1>10 DEF vars, disk, WalkInPlace, Past
<1> QED
  BY <1>1, <1>2, <1>3, <1>4, <1>5, <1>6, <1>7, <1>8, <1>9, <1>10 DEF Next, Step

(* A batch leaves every row up to its column's new cursor - up to the last *)
(* row, when it is the last batch - as Resealed makes it.                  *)
LEMMA BatchReaches ==
  ASSUME TypeInv, WalkInPlace, Batch, NEW allowed,
         \A k \in BatchAfter(item[run.column].cursor) :
           Resealed(rows[k][run.column]) \in allowed,
         UpTo(item[run.column].cursor, run.column, allowed)
  PROVE  /\ UpTo(item[run.column].cursor, run.column, allowed)'
         /\ pc' = "finish" => UpTo(LastRow, run.column, allowed)'
<1> USE BoundsAssumption DEF TypeInv
<1> DEFINE i == run.column
           cursor == item[i].cursor
           batch == BatchAfter(cursor)
<1>1. /\ i \in Items /\ item \in [Items -> Progress] /\ cursor \in 0..LastRow
      /\ rows \in [RowKeys -> Row \cup {NoRow}] /\ run \in Runs
  BY DEF Batch, Walking, TypeOK, Progress
<1>2. batch \in SUBSET {k \in RowKeys : k > cursor /\ rows[k] # NoRow}
  BY <1>1, BatchIsRows
<1>3. run'.column = i
  BY <1>1 DEF Batch, Runs
<1>4. \A k \in RowKeys :
        rows'[k] = IF k \in batch THEN [rows[k] EXCEPT ![i] = Resealed(@)] ELSE rows[k]
  BY DEF Batch
<1>5. ASSUME NEW k \in RowKeys, k \in batch \/ k <= cursor, rows'[k] # NoRow
      PROVE  rows'[k][i] \in allowed
  <2>1. CASE k \in batch
    <3>1. rows[k] \in Row
      BY <1>1, <1>2, <2>1
    <3>2. rows'[k] = [rows[k] EXCEPT ![i] = Resealed(@)]
      BY <1>4, <2>1
    <3> HIDE DEF i, batch, cursor
    <3>3. rows'[k][i] = Resealed(rows[k][i])
      BY <1>1, <3>1, <3>2 DEF Row
    <3> QED BY <2>1, <3>3 DEF i, batch, cursor
  <2>2. CASE k \notin batch
    BY <1>4, <1>5, <2>2 DEF UpTo
  <2> QED BY <2>1, <2>2
<1>6. \A k \in RowKeys : rows'[k] # NoRow => rows[k] # NoRow
  <2>1. \A k \in RowKeys : k \in batch => rows[k] # NoRow
    BY <1>2
  <2> QED BY <1>4, <2>1
<1>7. ASSUME pc' = "finish", NEW k \in RowKeys, rows'[k] # NoRow
      PROVE  rows'[k][i] \in allowed
  <2>1. Cardinality(batch) < BATCH_SIZE
    BY <1>7 DEF Batch, GoTo
  <2>2. k <= cursor \/ cursor < k
    BY <1>1 DEF RowKeys
  <2>3. cursor < k => k \in batch
    BY <1>1, <1>6, <1>7, <2>1, ShortBatchIsAll
  <2> QED BY <1>5, <1>7, <2>2, <2>3
<1>8. ASSUME NEW k \in RowKeys, k <= item'[i].cursor, rows'[k] # NoRow
      PROVE  rows'[k][i] \in allowed
  <2>1. CASE batch = {}
    <3>1. item' = item
      BY <2>1 DEF Batch
    <3> QED BY <1>5, <1>8, <3>1
  <2>2. CASE batch # {}
    <3>1. Last(batch) \in batch
      BY <1>2, <2>2, LastOfBatch
    <3>2. item'[i].cursor = Last(batch)
      BY <1>1, <2>2 DEF Batch, Progress
    <3>3. k <= cursor \/ cursor < k
      BY <1>1 DEF RowKeys
    <3>4. cursor < k => k \in batch
      BY <1>1, <1>6, <1>8, <3>1, <3>2, BatchIsPrefix
    <3> QED BY <1>5, <1>8, <3>3, <3>4
  <2> QED BY <2>1, <2>2
<1> QED BY <1>3, <1>7, <1>8 DEF UpTo

LEMMA SealedStep ==
  ASSUME TypeInv, WalkInPlace, ColumnsSealed, [Next]_vars
  PROVE  ColumnsSealed'
<1> USE BoundsAssumption DEF GoTo, Go, TypeInv
<1> SUFFICES ASSUME disturbed' = "no"
             PROVE  /\ \A i \in Items :
                         item'[i].state = "sealing" => UpTo(item[i].cursor, i, Unplain)'
                    /\ Past' => \A i \in Items :
                         item'[i].state = "sealed" => UpTo(LastRow, i, Unplain)'
                    /\ pc' = "finish" => UpTo(LastRow, run.column, Unplain)'
  BY DEF ColumnsSealed
<1>0. /\ item \in [Items -> Progress] /\ run \in Runs /\ keys.current \in Roots
      /\ rows \in [RowKeys -> Row \cup {NoRow}]
  BY DEF TypeOK, KeySets
<1>1. CASE Open
  <2>1. pc' \in {"unhealthy", "pending"}
    BY <1>1 DEF Open
  <2> QED BY <1>1, <2>1 DEF Open, ColumnsSealed, UpTo, Past
<1>2. CASE StartPass \/ Checkpoint \/ Scrub \/ Vacuum \/ Settle
  <2>1. item' = item /\ run' = run /\ rows' = rows /\ disturbed' = disturbed
    BY <1>2 DEF StartPass, Checkpoint, Scrub, Vacuum, Settle
  <2>2. pc' # "finish" /\ (Past' => Past)
    BY <1>2 DEF StartPass, Checkpoint, Scrub, Vacuum, Settle, StopShort, Past, WalkInPlace
  <2> QED BY <2>1, <2>2 DEF ColumnsSealed, UpTo
<1>3. CASE Reopen
  <2>1. pc' # "finish" /\ rows' = rows
    BY <1>3 DEF Reopen
  <2>2. disturbed = "no" \/ \A i \in Items : item[i].state # "sealing"
    BY <1>3 DEF Reopen
  <2>3. ASSUME NEW i \in Items, item'[i].state = "sealing"
        PROVE  UpTo(item[i].cursor, i, Unplain)'
    <3>1. item'[i] = item[i]
      BY <1>3, <2>3 DEF Reopen, Pending
    <3> QED BY <2>1, <2>2, <2>3, <3>1 DEF ColumnsSealed, UpTo
  <2>4. ASSUME NEW i \in Items, item'[i].state = "sealed"
        PROVE  UpTo(LastRow, i, Unplain)'
    <3>1. ~HoldsPlain(i)
      BY <1>3, <2>4 DEF Reopen, Pending
    <3>2. \A k \in RowKeys : rows[k] # NoRow => rows[k][i] \in Values \ {"plain"}
      BY <1>0, <3>1 DEF HoldsPlain, Row
    <3> QED BY <2>1, <3>2 DEF UpTo, Values, Unplain
  <2> QED BY <2>1, <2>3, <2>4
<1>4. CASE NextItem
  <2>0. Past /\ pc' # "finish" /\ rows' = rows /\ disturbed = "no"
    BY <1>4 DEF NextItem, Past
  <2>1. \A i \in Items :
          /\ item'[i].cursor = item[i].cursor
          /\ item'[i].state = item[i].state \/ item'[i].state = "sealing"
    BY <1>0, <1>4 DEF NextItem, Progress
  <2>2. ASSUME NEW i \in Items, item'[i].state = "sealing"
        PROVE  UpTo(item[i].cursor, i, Unplain)'
    <3>1. CASE item[i].state = "sealing"
      BY <2>0, <2>1, <3>1 DEF ColumnsSealed, UpTo
    <3>2. CASE item[i].state # "sealing"
      <4>1. item'[i].cursor = 0
        BY <2>1, <3>2 DEF WalkInPlace
      <4> QED BY <4>1 DEF UpTo, RowKeys
    <3> QED BY <3>1, <3>2
  <2> QED BY <2>0, <2>1, <2>2 DEF ColumnsSealed, UpTo
<1>5. CASE Batch
  <2>1. /\ run.column \in Items /\ Past /\ disturbed = "no"
        /\ item[run.column].state = "sealing"
    BY <1>5 DEF Batch, Walking, WalkInPlace, Past
  <2>2. \A i \in Items : item'[i].state = item[i].state /\ (i # run.column => item'[i] = item[i])
    BY <1>0, <1>5 DEF Batch, Progress
  <2>3. \A value \in Values : Resealed(value) \in Unplain
    BY <1>0 DEF Resealed, Values, Unplain
  <2>4. /\ UpTo(item[run.column].cursor, run.column, Unplain)'
        /\ pc' = "finish" => UpTo(LastRow, run.column, Unplain)'
    <3>1. UpTo(item[run.column].cursor, run.column, Unplain)
      BY <2>1 DEF ColumnsSealed
    <3>2. \A k \in BatchAfter(item[run.column].cursor) : rows[k][run.column] \in Values
      BY <1>0, <2>1, BatchIsRows DEF Progress, Row
    <3> QED BY <1>5, <2>3, <3>1, <3>2, BatchReaches DEF TypeInv
  <2>5. run'.column = run.column
    BY <1>0, <1>5 DEF Batch, Runs
  <2>6. \A k \in RowKeys, i \in Items :
          rows'[k] # NoRow /\ i # run.column => rows[k] # NoRow /\ rows'[k][i] = rows[k][i]
    <3> DEFINE batch == BatchAfter(item[run.column].cursor)
    <3>1. batch \in SUBSET {k \in RowKeys : rows[k] # NoRow}
      BY <1>0, <2>1, BatchIsRows DEF Progress
    <3>2. \A k \in RowKeys :
            rows'[k] = IF k \in batch THEN [rows[k] EXCEPT ![run.column] = Resealed(@)]
                       ELSE rows[k]
      BY <1>5 DEF Batch
    <3> HIDE DEF batch
    <3> QED BY <1>0, <3>1, <3>2 DEF Row
  <2>7. \A i \in Items : i # run.column /\ item'[i].state = "sealed" => UpTo(LastRow, i, Unplain)'
    BY <2>1, <2>2, <2>6 DEF ColumnsSealed, UpTo
  <2>8. \A i \in Items :
          i # run.column /\ item'[i].state = "sealing" => UpTo(item[i].cursor, i, Unplain)'
    BY <2>1, <2>2, <2>6 DEF ColumnsSealed, UpTo
  <2> QED BY <2>1, <2>2, <2>4, <2>5, <2>7, <2>8
<1>6. CASE FinishItem
  <2>1. run.column \in Items /\ Past /\ pc = "finish" /\ pc' = "item" /\ disturbed = "no"
    BY <1>6 DEF FinishItem, Walking, Past
  <2>2. \A i \in Items : item'[i] = IF i = run.column THEN Sealed ELSE item[i]
    BY <1>0, <1>6 DEF FinishItem
  <2>3. rows' = rows
    BY <1>6 DEF FinishItem
  <2> QED BY <2>1, <2>2, <2>3 DEF ColumnsSealed, UpTo, Sealed
<1>7. CASE ServeWrite \/ ServeDelete
  <2>1. \A k \in RowKeys, i \in Items :
          rows'[k] # NoRow =>
            \/ rows[k] # NoRow /\ rows'[k] = rows[k]
            \/ rows'[k][i] \in Unplain
    BY <1>0, <1>7 DEF ServeWrite, ServeDelete, Unplain
  <2>2. /\ item' = item /\ run' = run /\ pc' = pc /\ disturbed' = disturbed /\ pc # "finish"
    BY <1>7 DEF ServeWrite, ServeDelete
  <2> QED BY <2>1, <2>2 DEF ColumnsSealed, UpTo, Past
<1>8. CASE DeferCompaction \/ RunDeferred
  <2>1. /\ item' = item /\ rows' = rows /\ disturbed' = disturbed
        /\ pc = "serving" /\ pc' \in {"serving", "checkpoint"}
    BY <1>8 DEF DeferCompaction, RunDeferred
  <2> QED BY <2>1 DEF ColumnsSealed, UpTo, Past
<1>9. CASE Stop
  BY <1>9 DEF Stop, ColumnsSealed, UpTo, Past
<1>10. CASE KeylessWrite
  BY <1>10 DEF KeylessWrite
<1>11. CASE KeylessOpen \/ KeylessExit \/ UNCHANGED vars
  BY <1>11 DEF KeylessOpen, KeylessExit, vars, disk, ColumnsSealed, UpTo, Past
<1> QED
  BY <1>1, <1>2, <1>3, <1>4, <1>5, <1>6, <1>7, <1>8, <1>9, <1>10, <1>11 DEF Next, Step

LEMMA WalkInvariant == Spec => [](TypeInv /\ WalkInPlace)
<1>1. Init => WalkInPlace
  BY DEF Init, WalkInPlace, Past, Fresh, Sealed
<1>2. TypeInv /\ WalkInPlace /\ [Next]_vars => WalkInPlace'
  BY WalkStep
<1> QED BY <1>1, <1>2, TypeInvariant, PTL DEF Spec

(***************************************************************************)
(* A store that serves as sealing holds no plaintext in a sealed column    *)
(* (open_store, reopen_plaintext_items, migrate_columns), for any plan,    *)
(* any rows, any batch size and any crashes, unless a keyless process      *)
(* disturbed the walk.                                                     *)
(***************************************************************************)
THEOREM ServedIsSealed == Spec => []ServedStoreIsSealed
<1>1. Init => ColumnsSealed
  BY DEF Init, ColumnsSealed, Past, Fresh, Sealed
<1>2. TypeInv /\ WalkInPlace /\ ColumnsSealed /\ [Next]_vars => ColumnsSealed'
  BY SealedStep
<1>3. ASSUME TypeInv, WalkInPlace, ColumnsSealed PROVE ServedStoreIsSealed
  <2> SUFFICES ASSUME pc = "serving", disturbed = "no", NEW i \in Items,
                      NEW k \in RowKeys, rows[k] # NoRow
               PROVE  rows[k][i] # "plain"
    BY DEF ServedStoreIsSealed, HoldsPlain
  <2>1. run.column > Columns /\ item[i].state = "sealed"
    <3>1. Past /\ run.column > Columns
      BY <1>3 DEF WalkInPlace, Past
    <3>2. i < run.column
      BY <1>3, <3>1, BoundsAssumption DEF Items, TypeInv, TypeOK, Runs
    <3> QED BY <1>3, <3>1, <3>2 DEF WalkInPlace
  <2>2. rows[k][i] \in Unplain
    BY <1>3, <2>1 DEF ColumnsSealed, UpTo, Past, RowKeys
  <2> QED BY <2>2, BoundsAssumption DEF Unplain
<1> QED BY <1>1, <1>2, <1>3, WalkInvariant, PTL DEF Spec
-----------------------------------------------------------------------------
(* What a run that resets the items of a retired store has walked is under *)
(* the current root, as long as it found nothing it cannot open.           *)
Moved == {keys.current, "plain", "null"}

ResealedSoFar ==
  resets /\ run.wasRetired /\ pc \in {"item", "batch", "finish"} /\ ~run.unreadable =>
    /\ \A i \in Items :
         /\ item[i].state # "absent"
         /\ item[i].state = "sealed" => UpTo(LastRow, i, Moved)
         /\ item[i].state # "sealed" => UpTo(item[i].cursor, i, Moved)
    /\ pc = "finish" => UpTo(LastRow, run.column, Moved)

LEMMA ResealStep ==
  ASSUME TypeInv, WalkInPlace, ResealedSoFar, [Next]_vars
  PROVE  ResealedSoFar'
<1> USE BoundsAssumption DEF GoTo, TypeInv
<1> SUFFICES ASSUME resets', run'.wasRetired, pc' \in {"item", "batch", "finish"},
                    ~run'.unreadable
             PROVE  /\ \A i \in Items :
                         /\ item'[i].state # "absent"
                         /\ item'[i].state = "sealed" => UpTo(LastRow, i, Moved)'
                         /\ item'[i].state # "sealed" => UpTo(item[i].cursor, i, Moved)'
                    /\ pc' = "finish" => UpTo(LastRow, run.column, Moved)'
  BY DEF ResealedSoFar
<1>0. /\ item \in [Items -> Progress] /\ run \in Runs
      /\ rows \in [RowKeys -> Row \cup {NoRow}]
  BY DEF TypeOK
<1>1. ASSUME Open \/ StartPass \/ Checkpoint \/ Scrub \/ Vacuum \/ Settle \/ Stop
             \/ ServeWrite \/ ServeDelete \/ DeferCompaction \/ RunDeferred
      PROVE  FALSE
  BY <1>1 DEF Open, StartPass, Checkpoint, Scrub, Vacuum, Settle, StopShort, Go, Stop,
              ServeWrite, ServeDelete, DeferCompaction, RunDeferred
<1>2. CASE Reopen
  <2>1. resets /\ run.wasRetired
    BY <1>2 DEF Reopen
  <2>2. \A i \in Items : item'[i] = Pending
    BY <1>2, <2>1 DEF Reopen
  <2> QED BY <1>2, <2>2 DEF Reopen, Pending, UpTo, RowKeys
<1>3. CASE NextItem
  <2>1. /\ rows' = rows /\ keys' = keys /\ resets' = resets /\ pc = "item"
        /\ pc' # "finish" /\ run'.wasRetired = run.wasRetired
        /\ run'.unreadable = run.unreadable
    BY <1>0, <1>3 DEF NextItem, Runs
  <2>2. \A i \in Items :
          /\ item'[i].cursor = item[i].cursor
          /\ \/ item'[i].state = item[i].state
             \/ item'[i].state = "sealing" /\ item[i].state # "sealed"
    <3>1. CASE item' = item
      BY <3>1
    <3>2. CASE /\ run.column \in Items /\ item[run.column].state # "sealed"
               /\ item' = [item EXCEPT ![run.column].state = "sealing"]
      BY <1>0, <3>2 DEF Progress
    <3> QED BY <1>3, <3>1, <3>2 DEF NextItem
  <2> QED BY <2>1, <2>2 DEF ResealedSoFar, UpTo, Moved
<1>4. CASE Batch
  <2> DEFINE batch == BatchAfter(item[run.column].cursor)
  <2>1. /\ run.column \in Items /\ item[run.column].state = "sealing" /\ pc = "batch"
        /\ keys' = keys /\ resets' = resets
    BY <1>4 DEF Batch, Walking, WalkInPlace
  <2>2. /\ run'.column = run.column /\ run'.wasRetired = run.wasRetired
        /\ ~run.unreadable /\ \A k \in batch : Readable(rows[k][run.column])
    BY <1>0, <1>4 DEF Batch, Runs
  <2>3. \A i \in Items : item'[i].state = item[i].state /\ (i # run.column => item'[i] = item[i])
    BY <1>0, <1>4 DEF Batch, Progress
  <2>4. PICK current : current = keys.current
    OBVIOUS
  <2> DEFINE moved == {current, "plain", "null"}
  <2>5. Moved = moved /\ Moved' = moved
    BY <2>1, <2>4 DEF Moved
  <2>6. \A k \in batch : Resealed(rows[k][run.column]) \in moved
    BY <2>2, <2>4 DEF Readable, Resealed
  <2>7. /\ UpTo(item[run.column].cursor, run.column, moved)'
        /\ pc' = "finish" => UpTo(LastRow, run.column, moved)'
    <3>1. UpTo(item[run.column].cursor, run.column, moved)
      BY <2>1, <2>2, <2>5 DEF ResealedSoFar
    <3> HIDE DEF moved
    <3> QED BY <1>4, <2>6, <3>1, BatchReaches DEF TypeInv
  <2>8. \A k \in RowKeys, i \in Items :
          rows'[k] # NoRow /\ i # run.column => rows[k] # NoRow /\ rows'[k][i] = rows[k][i]
    <3>1. batch \in SUBSET {k \in RowKeys : rows[k] # NoRow}
      BY <1>0, <2>1, BatchIsRows DEF Progress
    <3>2. \A k \in RowKeys :
            rows'[k] = IF k \in batch THEN [rows[k] EXCEPT ![run.column] = Resealed(@)]
                       ELSE rows[k]
      BY <1>4 DEF Batch
    <3> HIDE DEF batch
    <3> QED BY <1>0, <3>1, <3>2 DEF Row
  <2>9. ASSUME NEW i \in Items, i # run.column
        PROVE  /\ item'[i].state # "absent"
               /\ item'[i].state = "sealed" => UpTo(LastRow, i, moved)'
               /\ item'[i].state # "sealed" => UpTo(item[i].cursor, i, moved)'
    <3>1. /\ item[i].state # "absent"
          /\ item[i].state = "sealed" => UpTo(LastRow, i, moved)
          /\ item[i].state # "sealed" => UpTo(item[i].cursor, i, moved)
      BY <2>1, <2>2, <2>5 DEF ResealedSoFar
    <3>2. item'[i] = item[i]
      BY <2>3, <2>9
    <3> QED BY <2>8, <2>9, <3>1, <3>2 DEF UpTo
  <2>10. /\ UpTo(item[run.column].cursor, run.column, Moved)'
         /\ pc' = "finish" => UpTo(LastRow, run.column, Moved)'
    BY <2>5, <2>7 DEF UpTo
  <2>11. \A i \in Items : i # run.column =>
            /\ item'[i].state = "sealed" => UpTo(LastRow, i, Moved)'
            /\ item'[i].state # "sealed" => UpTo(item[i].cursor, i, Moved)'
    BY <2>5, <2>9 DEF UpTo
  <2> QED BY <2>1, <2>2, <2>3, <2>9, <2>10, <2>11
<1>5. CASE FinishItem
  <2>1. /\ run.column \in Items /\ pc = "finish" /\ pc' = "item"
        /\ rows' = rows /\ keys' = keys /\ resets' = resets
    BY <1>5 DEF FinishItem, Walking
  <2>2. run'.wasRetired = run.wasRetired /\ run'.unreadable = run.unreadable
    BY <1>0, <1>5 DEF FinishItem, Runs
  <2>3. \A i \in Items : item'[i] = IF i = run.column THEN Sealed ELSE item[i]
    BY <1>0, <1>5 DEF FinishItem
  <2> QED BY <2>1, <2>2, <2>3 DEF ResealedSoFar, UpTo, Moved, Sealed
<1>6. CASE KeylessWrite
  <2>1. /\ item' = item /\ run' = run /\ keys' = keys /\ resets' = resets /\ pc' = pc
    BY <1>6 DEF KeylessWrite
  <2>2. \A k \in RowKeys, i \in Items :
          rows'[k] # NoRow =>
            \/ rows[k] # NoRow /\ rows'[k] = rows[k]
            \/ rows'[k][i] \in {"plain", "null"}
    BY <1>0, <1>6 DEF KeylessWrite
  <2>3. run.column \in Items \/ pc # "finish"
    BY DEF Walking
  <2> QED BY <2>1, <2>2, <2>3 DEF ResealedSoFar, UpTo, Moved
<1>7. CASE KeylessOpen \/ KeylessExit \/ UNCHANGED vars
  BY <1>7 DEF KeylessOpen, KeylessExit, vars, disk, ResealedSoFar, UpTo, Moved
<1> QED
  BY <1>1, <1>2, <1>3, <1>4, <1>5, <1>6, <1>7 DEF Next, Step

(***************************************************************************)
(* The record of a store whose owner resets the items of a retired root    *)
(* moves to the current root only when no value is left under an older     *)
(* root or unreadable (set_item's transaction, all_items_sealed), for any  *)
(* rows, roots, batches and crashes.                                       *)
(***************************************************************************)
THEOREM RecordFollowsValues == Spec => RecordMovesAfterReset
<1>1. Init => ResealedSoFar
  BY DEF Init, ResealedSoFar
<1>2. TypeInv /\ WalkInPlace /\ ResealedSoFar /\ [Next]_vars => ResealedSoFar'
  BY ResealStep
<1>3. ASSUME TypeInv, WalkInPlace, ResealedSoFar, [Next]_vars, resets
      PROVE  MovesResealed
  <2> USE BoundsAssumption DEF TypeInv
  <2> SUFFICES ASSUME record.kcv # NoKcv, record'.kcv # record.kcv,
                      NEW k \in RowKeys, rows'[k] # NoRow, NEW i \in Items
               PROVE  rows'[k][i] \in {record'.kcv, "plain", "null"}
    BY DEF MovesResealed
  <2>0. record \in StoreRecord /\ item \in [Items -> Progress]
    BY <1>3 DEF TypeOK
  <2>1. FinishItem
    BY <1>3, <2>0
       DEF Next, Step, Open, StartPass, Checkpoint, Scrub, Vacuum, Settle, Reopen, NextItem, Batch,
           StopShort, Owe, MarkScrubOwed, ServeWrite, ServeDelete, DeferCompaction, RunDeferred,
           Stop, KeylessOpen, KeylessWrite, KeylessExit, StoreRecord, vars, disk
  <2>2. RecordMoves /\ record'.kcv = keys.current
    BY <2>0, <2>1 DEF FinishItem, StoreRecord
  <2>3. /\ run.wasRetired /\ ~run.unreadable /\ pc = "finish" /\ rows' = rows
        /\ run.column \in Items
        /\ item' = [item EXCEPT ![run.column] = Sealed]
        /\ \A j \in Items : item'[j].state \in {"sealed", "absent"}
    BY <1>3, <2>1, <2>2 DEF FinishItem, RecordMoves, Walking
  <2>4. i = run.column \/ item[i].state = "sealed"
    <3>1. item[i].state # "absent"
      BY <1>3, <2>3 DEF ResealedSoFar
    <3> QED BY <2>0, <2>3, <3>1
  <2>5. UpTo(LastRow, i, Moved)
    BY <1>3, <2>3, <2>4 DEF ResealedSoFar
  <2> QED BY <2>2, <2>3, <2>5 DEF UpTo, Moved, RowKeys
<1>4. TypeInv /\ WalkInPlace /\ ResealedSoFar /\ [Next]_vars => [resets => MovesResealed]_vars
  BY <1>3
<1> QED BY <1>1, <1>2, <1>4, WalkInvariant, PTL DEF Spec, RecordMovesAfterReset

-----------------------------------------------------------------------------
(***************************************************************************)
(* PluginKeys, for any processes, keys, rows, texts, ways to run the app,  *)
(* and any number of starts and writes.                                    *)
(***************************************************************************)
KnownTexts == Texts \cup Legacy

Envelope ==
  [prefix : {ContentPrefix, CompatEscape, PluginPrefix}, key : AllKeys \cup {NoKey},
   context : Ids \cup {NoContext}, of : KnownTexts]

Ciphers == [key : AllKeys, retired : SUBSET AllKeys]
Deliveries == [scope : {This, Another}, cipher : Ciphers]
Eras == [master : Masters, retired : SUBSET Masters]
Stages == {"existing", "resolve", "no root", "create root", "write root", "pin", "write pin",
           "open", "record", "migrate", "up"}

Running ==
  [at : Stages, delivered : Deliveries \cup {None}, master : Masters \cup {None},
   under_core : BOOLEAN, cipher : Ciphers \cup {None},
   seal : {None, "compat", "unhealthy", "sealing"}, era : Eras]

\* What is sealed with, by whom it may be: Core's keys, this one and the pinned one.
KeysOf(era) == {derive(master, This) : master \in {era.master} \cup era.retired}
CoreKeys == KeysOf(core)
OwnKey(key) == key \in AllKeys /\ (key.master \in Masters \/ key = pin)

KeysTyped ==
  /\ setting \in Settings /\ core \in Eras
  /\ root \in AllKeys \cup {None, Torn} /\ pin \in AllKeys \cup {None}
  /\ store \in [kcv : AllKeys \cup {None}, migrated : BOOLEAN,
                rows : [Ids -> KnownTexts \cup Envelope]]
  /\ secret \in KnownTexts \cup Envelope
  /\ truth \in [Ids \cup {"secret"} -> KnownTexts]
  /\ proc \in [Procs -> Running \cup {Off}]
  /\ starts \in 0..MaxStarts /\ keeper \in BOOLEAN
  /\ starts = 0 => \A p \in Procs : proc[p].at = "off"

\* A key that fits the store: it is the one on record, or both are Core's.
Fits(key) == key = store.kcv \/ {key, store.kcv} \subseteq CoreKeys

\* What a row may be, and the secret.
RowHolds(id) ==
  LET row == store.rows[id]
  IN  \/ row = truth[id] /\ row.key = NoKey /\ row.prefix \notin ContentFamily
      \/ row.prefix = CompatEscape /\ row.key = NoKey /\ row.of = truth[id]
      \/ /\ row.prefix = ContentPrefix /\ row.context \in Ids /\ row.of \in KnownTexts
         /\ row.context = id => row.of = truth[id]
         /\ OwnKey(row.key) /\ Fits(row.key)

SecretHolds ==
  \/ secret = truth["secret"] /\ secret.key = NoKey /\ ~keeper
  \/ /\ secret.prefix = PluginPrefix /\ secret.context = NoContext /\ secret.of = truth["secret"]
     /\ OwnKey(secret.key) /\ (keeper => secret.key \in CoreKeys)

\* While a process starts, the app is run as it was when it read its environment.
AsSet(p) ==
  LET q == proc[p]
  IN  q.at \notin {"off", "up"} =>
        /\ q.delivered # None <=> setting.by \in {Core, "another app"}
        /\ q.master = setting.master
        /\ q.under_core <=> setting.by \in {Core, "older core"}

\* What Core delivered is what it had.
AsDelivered(p) ==
  LET q == proc[p]
  IN  q.at # "off" =>
        /\ KeysOf(q.era) \subseteq CoreKeys
        /\ q.delivered # None /\ q.delivered.scope = This =>
             q.delivered.cipher = from_subkeys(q.era.master, q.era.retired, This)

\* The key a process goes on with.
Resolved(p) ==
  LET q == proc[p]
  IN  q.at \in {"open", "record", "migrate", "up"} =>
        /\ q.delivered # None =>
             q.cipher = from_subkeys(q.era.master, q.era.retired, This)
        /\ q.delivered = None /\ q.cipher # None =>
             /\ q.cipher.retired = {}
             /\ q.cipher.key = IF q.under_core THEN derive(q.master, This) ELSE pin
             /\ q.under_core => q.master \in Masters
        /\ q.at \in {"record", "migrate"} \/ (q.at = "up" /\ q.seal = "sealing") => q.cipher # None

\* A process run by hand on its way to the pin.
Pinning(p) ==
  LET q == proc[p]
  IN  q.at \in {"pin", "write pin"} =>
        /\ q.delivered = None /\ ~q.under_core /\ q.cipher # None
        /\ q.cipher.retired = {}
        /\ q.cipher.key = IF q.master = None THEN root ELSE derive(q.master, This)
        /\ q.master # None => root = None
        /\ q.at = "write pin" => pin \in {None, q.cipher.key}

\* One that makes the root.
Rooting(p) ==
  LET q == proc[p]
  IN  /\ q.at \in {"existing", "resolve", "no root", "create root", "write root"} =>
           q.cipher = None
      /\ q.at \in {"no root", "create root", "write root"} =>
           q.delivered = None /\ q.master = None /\ ~q.under_core
      /\ q.at = "create root" => pin = None \/ root # None
      /\ q.at = "write root" =>
           root = Torn /\ pin = None /\ \A o \in Procs \ {p} : proc[o].at # "write root"

\* What it seals with fits the store.
Sealing(p) ==
  LET q == proc[p]
  IN  /\ q.at = "record" => store.kcv = None \/ Fits(q.cipher.key)
      /\ q.at = "migrate" \/ (q.at = "up" /\ q.seal = "sealing") => Fits(q.cipher.key)

Fares(p) ==
  AsSet(p) /\ AsDelivered(p) /\ Resolved(p) /\ Pinning(p) /\ Rooting(p) /\ Sealing(p)

KeysInv ==
  /\ KeysTyped
  /\ pin # None => root \in {None, pin}
  /\ \A id \in Ids : RowHolds(id)
  /\ SecretHolds
  /\ \A p \in Procs : Fares(p)

LEMMA KeyFacts ==
  /\ NoKey \notin AllKeys /\ None \notin AllKeys /\ Torn \notin AllKeys /\ None # Torn
  /\ MaxStarts \in Nat /\ None \notin Masters /\ None \notin Ciphers /\ None \notin Deliveries
  /\ \A master \in Masters : derive(master, This) \in AllKeys /\ derive(master, This).master = master
<1>1. NoKey \notin AllKeys /\ None \notin AllKeys /\ Torn \notin AllKeys
  BY KeysAssumption
<1>2. MaxStarts \in Nat /\ None # Torn /\ None \notin Masters /\ None \notin Ciphers /\ None \notin Deliveries
  BY KeysAssumption DEF Ciphers, Deliveries
<1>3. ASSUME NEW master \in Masters
      PROVE  derive(master, This) \in AllKeys /\ derive(master, This).master = master
  BY DEF AllKeys, derive
<1> QED BY <1>1, <1>2, <1>3

LEMMA Subkeys ==
  ASSUME NEW era \in Eras, NEW scope \in {This, Another}
  PROVE  /\ from_subkeys(era.master, era.retired, scope) \in Ciphers
         /\ from_subkeys(era.master, era.retired, scope) # None
         /\ from_subkeys(era.master, era.retired, This).key = derive(era.master, This)
         /\ Candidates(from_subkeys(era.master, era.retired, This)) = KeysOf(era)
         /\ KeysOf(era) \subseteq AllKeys /\ derive(era.master, This) \in KeysOf(era)
         /\ \A key \in KeysOf(era) : key.master \in Masters
<1>1. /\ era.master \in Masters /\ era.retired \subseteq Masters
  BY DEF Eras
<1>2. \A master \in Masters : derive(master, scope) \in AllKeys
  BY DEF AllKeys
<1>3. from_subkeys(era.master, era.retired, scope) \in Ciphers
  BY <1>1, <1>2 DEF from_subkeys, Cipher, Ciphers
<1>4. /\ from_subkeys(era.master, era.retired, This).key = derive(era.master, This)
      /\ Candidates(from_subkeys(era.master, era.retired, This)) = KeysOf(era)
  BY DEF from_subkeys, Cipher, Candidates, KeysOf
<1>5. KeysOf(era) \subseteq AllKeys /\ \A key \in KeysOf(era) : key.master \in Masters
  BY <1>1, KeyFacts DEF KeysOf
<1>6. derive(era.master, This) \in KeysOf(era)
  BY DEF KeysOf
<1> QED BY <1>3, <1>4, <1>5, <1>6, KeyFacts

LEMMA RunningTyped ==
  ASSUME KeysTyped, NEW p \in Procs, proc[p].at # "off"
  PROVE  proc[p] \in Running
BY DEF KeysTyped, Off

LEMMA Counted == 1..MaxStarts \subseteq 0..MaxStarts \ {0}
<1>1. MaxStarts \in Nat
  BY KeyFacts
<1> QED BY <1>1

LEMMA Started ==
  ASSUME KeysTyped
  PROVE  \A p \in Procs : proc[p].at # "off" => starts \in 1..MaxStarts
BY KeyFacts DEF KeysTyped

LEMMA GoesTo ==
  ASSUME KeysTyped, NEW p \in Procs, proc[p].at # "off", NEW place \in Stages, Goto(p, place)
  PROVE  /\ proc' \in [Procs -> Running \cup {Off}] /\ proc'[p].at = place
         /\ \A o \in Procs \ {p} : proc'[o] = proc[o]
         /\ proc'[p].delivered = proc[p].delivered /\ proc'[p].master = proc[p].master
         /\ proc'[p].under_core = proc[p].under_core /\ proc'[p].cipher = proc[p].cipher
         /\ proc'[p].seal = proc[p].seal /\ proc'[p].era = proc[p].era
<1> DEFINE q == [proc[p] EXCEPT !.at = place]
<1>1. proc[p] \in Running
  BY RunningTyped
<1>2. /\ q \in Running /\ q.at = place
      /\ q.delivered = proc[p].delivered /\ q.master = proc[p].master
      /\ q.under_core = proc[p].under_core /\ q.cipher = proc[p].cipher
      /\ q.seal = proc[p].seal /\ q.era = proc[p].era
  BY <1>1 DEF Running
<1>3. proc' = [proc EXCEPT ![p] = q] /\ proc \in [Procs -> Running \cup {Off}]
  BY DEF Goto, KeysTyped
<1> HIDE DEF q
<1> QED BY <1>2, <1>3

LEMMA GoesHolding ==
  ASSUME KeysTyped, NEW p \in Procs, proc[p].at # "off", NEW place \in Stages,
         NEW cipher \in Ciphers, Holds(p, cipher, place)
  PROVE  /\ proc' \in [Procs -> Running \cup {Off}] /\ proc'[p].at = place
         /\ \A o \in Procs \ {p} : proc'[o] = proc[o]
         /\ proc'[p].delivered = proc[p].delivered /\ proc'[p].master = proc[p].master
         /\ proc'[p].under_core = proc[p].under_core /\ proc'[p].cipher = cipher
         /\ proc'[p].seal = proc[p].seal /\ proc'[p].era = proc[p].era
<1> DEFINE q == [proc[p] EXCEPT !.cipher = cipher, !.at = place]
<1>1. proc[p] \in Running
  BY RunningTyped
<1>2. /\ q \in Running /\ q.at = place
      /\ q.delivered = proc[p].delivered /\ q.master = proc[p].master
      /\ q.under_core = proc[p].under_core /\ q.cipher = cipher
      /\ q.seal = proc[p].seal /\ q.era = proc[p].era
  BY <1>1 DEF Running
<1>3. proc' = [proc EXCEPT ![p] = q] /\ proc \in [Procs -> Running \cup {Off}]
  BY DEF Holds, KeysTyped
<1> HIDE DEF q
<1> QED BY <1>2, <1>3

LEMMA GoesOpening ==
  ASSUME KeysTyped, NEW p \in Procs, proc[p].at # "off", NEW place \in Stages,
         NEW seal \in {"compat", "unhealthy", "sealing"}, Opens(p, seal, place)
  PROVE  /\ proc' \in [Procs -> Running \cup {Off}] /\ proc'[p].at = place
         /\ \A o \in Procs \ {p} : proc'[o] = proc[o]
         /\ proc'[p].delivered = proc[p].delivered /\ proc'[p].master = proc[p].master
         /\ proc'[p].under_core = proc[p].under_core /\ proc'[p].cipher = proc[p].cipher
         /\ proc'[p].seal = seal /\ proc'[p].era = proc[p].era
<1> DEFINE q == [proc[p] EXCEPT !.seal = seal, !.at = place]
<1>1. proc[p] \in Running
  BY RunningTyped
<1>2. /\ q \in Running /\ q.at = place
      /\ q.delivered = proc[p].delivered /\ q.master = proc[p].master
      /\ q.under_core = proc[p].under_core /\ q.cipher = proc[p].cipher
      /\ q.seal = seal /\ q.era = proc[p].era
  BY <1>1 DEF Running
<1>3. proc' = [proc EXCEPT ![p] = q] /\ proc \in [Procs -> Running \cup {Off}]
  BY DEF Opens, KeysTyped
<1> HIDE DEF q
<1> QED BY <1>2, <1>3

LEMMA GoesOff ==
  ASSUME KeysTyped, NEW p \in Procs, Fails(p)
  PROVE  /\ proc' \in [Procs -> Running \cup {Off}] /\ proc'[p].at = "off"
         /\ \A o \in Procs \ {p} : proc'[o] = proc[o]
         /\ Fares(p)'
<1>1. /\ proc' \in [Procs -> Running \cup {Off}] /\ proc'[p].at = "off"
      /\ \A o \in Procs \ {p} : proc'[o] = proc[o]
  BY DEF Fails, KeysTyped, Off
<1> QED BY <1>1 DEF Fares, AsSet, AsDelivered, Resolved, Pinning, Rooting, Sealing

\* What becomes of a process that stands still.
LEMMA StaysSet ==
  ASSUME KeysInv, NEW o \in Procs, proc'[o] = proc[o], core' \in Eras, CoreKeys \subseteq CoreKeys',
         setting' = setting \/ proc[o].at \in {"off", "up"}
  PROVE  AsSet(o)' /\ AsDelivered(o)'
<1>1. AsSet(o) /\ AsDelivered(o)
  BY DEF KeysInv, Fares
<1>2. AsSet(o)'
  BY <1>1 DEF AsSet
<1>3. AsDelivered(o)'
  BY <1>1 DEF AsDelivered
<1> QED BY <1>2, <1>3

LEMMA StaysResolved ==
  ASSUME KeysInv, NEW o \in Procs, proc'[o] = proc[o], pin = None \/ pin' = pin
  PROVE  Resolved(o)'
<1>1. Resolved(o) /\ KeysTyped
  BY DEF KeysInv, Fares
<1>2. proc[o].at # "off" => proc[o].cipher \in Ciphers \cup {None}
  BY <1>1, RunningTyped DEF Running
<1>3. ASSUME proc[o].at \in {"open", "record", "migrate", "up"}, proc[o].delivered = None,
             proc[o].cipher # None, ~proc[o].under_core
      PROVE  pin' = pin
  BY <1>1, <1>2, <1>3, KeyFacts DEF Resolved, Ciphers
<1> QED BY <1>1, <1>3 DEF Resolved

LEMMA StaysRooting ==
  ASSUME KeysInv, NEW o \in Procs, proc'[o] = proc[o], UNCHANGED <<root, pin>>,
         \A q \in Procs \ {o} : proc'[q].at = "write root" => proc[q].at = "write root"
  PROVE  Pinning(o)' /\ Rooting(o)'
<1>1. Pinning(o) /\ Rooting(o)
  BY DEF KeysInv, Fares
<1>2. Pinning(o)'
  BY <1>1 DEF Pinning
<1>3. Rooting(o)'
  BY <1>1 DEF Rooting
<1> QED BY <1>2, <1>3

LEMMA StaysFitting ==
  ASSUME NEW key, Fits(key), store'.kcv = store.kcv, CoreKeys \subseteq CoreKeys'
  PROVE  Fits(key)'
BY DEF Fits

LEMMA StaysSealing ==
  ASSUME KeysInv, NEW o \in Procs, proc'[o] = proc[o], store'.kcv = store.kcv,
         CoreKeys \subseteq CoreKeys'
  PROVE  Sealing(o)'
<1>1. Sealing(o)
  BY DEF KeysInv, Fares
<1>2. Fits(proc[o].cipher.key) => Fits(proc[o].cipher.key)'
  BY StaysFitting
<1> QED BY <1>1, <1>2 DEF Sealing, Fits

\* The rows and the secret while nobody writes them.
LEMMA RowStays ==
  ASSUME NEW id \in Ids, RowHolds(id), store'.rows[id] = store.rows[id], truth'[id] = truth[id],
         pin = None \/ pin' = pin, \A key \in AllKeys : Fits(key) => Fits(key)'
  PROVE  RowHolds(id)'
<1>1. CASE store.rows[id] = truth[id] /\ store.rows[id].key = NoKey
           /\ store.rows[id].prefix \notin ContentFamily
  BY <1>1 DEF RowHolds
<1>2. CASE store.rows[id].prefix = CompatEscape /\ store.rows[id].key = NoKey
           /\ store.rows[id].of = truth[id]
  BY <1>2 DEF RowHolds
<1>3. CASE /\ store.rows[id].prefix = ContentPrefix /\ store.rows[id].context \in Ids
           /\ store.rows[id].of \in KnownTexts
           /\ store.rows[id].context = id => store.rows[id].of = truth[id]
           /\ OwnKey(store.rows[id].key) /\ Fits(store.rows[id].key)
  <2>1. ASSUME NEW key, OwnKey(key), Fits(key) PROVE OwnKey(key)' /\ Fits(key)'
    BY <2>1, KeyFacts DEF OwnKey
  <2>2. OwnKey(store.rows[id].key)' /\ Fits(store.rows[id].key)'
    BY <1>3, <2>1 DEF OwnKey, Fits
  <2> QED BY <1>3, <2>2 DEF RowHolds
<1> QED BY <1>1, <1>2, <1>3 DEF RowHolds

LEMMA RowsStay ==
  ASSUME KeysInv, UNCHANGED <<store, truth>>, pin = None \/ pin' = pin, CoreKeys \subseteq CoreKeys'
  PROVE  \A id \in Ids : RowHolds(id)'
<1>1. \A key \in AllKeys : Fits(key) => Fits(key)'
  BY StaysFitting
<1>2. \A id \in Ids : RowHolds(id)
  BY DEF KeysInv
<1> QED BY <1>1, <1>2, RowStays

LEMMA SecretStays ==
  ASSUME KeysInv, UNCHANGED <<secret, keeper>>, truth'["secret"] = truth["secret"],
         pin = None \/ pin' = pin, CoreKeys \subseteq CoreKeys'
  PROVE  SecretHolds'
<1>1. SecretHolds
  BY DEF KeysInv
<1>2. OwnKey(secret.key) => OwnKey(secret.key)'
  BY KeyFacts DEF OwnKey
<1> QED BY <1>1, <1>2 DEF SecretHolds

\* One process goes on, and nothing else changes.
LEMMA OneGoesOn ==
  ASSUME KeysInv, NEW p \in Procs, UNCHANGED <<setting, core, folder, truth, keeper>>,
         starts' \in 1..MaxStarts, proc' \in [Procs -> Running \cup {Off}],
         \A o \in Procs \ {p} : proc'[o] = proc[o],
         proc'[p].at # "write root", Fares(p)'
  PROVE  KeysInv'
<1>0. /\ UNCHANGED <<setting, core, root, pin, store, secret, truth, keeper>>
      /\ KeysTyped
  BY DEF folder, KeysInv
<1>1. KeysTyped'
  <2>1. starts' \in 0..MaxStarts /\ starts' # 0
    BY Counted
  <2> QED BY <1>0, <2>1 DEF KeysTyped
<1>2. CoreKeys' = CoreKeys /\ core' \in Eras
  BY <1>0 DEF CoreKeys, KeysTyped
<1>3. ASSUME NEW o \in Procs \ {p} PROVE Fares(o)'
  <2>1. proc'[o] = proc[o]
    BY <1>3
  <2>2. \A q \in Procs \ {o} : proc'[q].at = "write root" => proc[q].at = "write root"
    OBVIOUS
  <2>3. AsSet(o)' /\ AsDelivered(o)' /\ Resolved(o)' /\ Sealing(o)'
    BY <1>0, <1>2, <2>1, StaysSet, StaysResolved, StaysSealing
  <2>4. Pinning(o)' /\ Rooting(o)'
    BY <1>0, <2>1, <2>2, StaysRooting
  <2> QED BY <2>3, <2>4 DEF Fares
<1>4. \A o \in Procs : Fares(o)'
  BY <1>3
<1>5. (\A id \in Ids : RowHolds(id)') /\ SecretHolds'
  BY <1>0, <1>2, RowsStay, SecretStays
<1>6. pin' # None => root' \in {None, pin'}
  BY <1>0 DEF KeysInv
<1> QED BY <1>1, <1>4, <1>5, <1>6 DEF KeysInv

\* A process that goes on keeps what it read when it started.
LEMMA KeepsEnvironment ==
  ASSUME KeysInv, NEW p \in Procs, proc[p].at \notin {"off", "up"}, UNCHANGED <<setting, core>>,
         proc'[p].delivered = proc[p].delivered, proc'[p].master = proc[p].master,
         proc'[p].under_core = proc[p].under_core, proc'[p].era = proc[p].era
  PROVE  AsSet(p)' /\ AsDelivered(p)'
<1>1. AsSet(p) /\ AsDelivered(p)
  BY DEF KeysInv, Fares
<1>2. AsSet(p)'
  BY <1>1 DEF AsSet
<1>3. AsDelivered(p)'
  BY <1>1 DEF AsDelivered, CoreKeys
<1> QED BY <1>2, <1>3

LEMMA FailureKeeps ==
  ASSUME KeysInv, NEW p \in Procs, proc[p].at # "off", Fails(p), UNCHANGED <<setting, core, folder, history>>
  PROVE  KeysInv'
<1>1. KeysTyped /\ starts' \in 1..MaxStarts /\ UNCHANGED <<setting, core, folder, truth, keeper>>
  BY DEF KeysInv, KeysTyped, history
<1>2. /\ proc' \in [Procs -> Running \cup {Off}] /\ proc'[p].at = "off"
      /\ \A o \in Procs \ {p} : proc'[o] = proc[o]
      /\ Fares(p)'
  BY <1>1, GoesOff
<1> QED BY <1>1, <1>2, OneGoesOn

LEMMA StartKeeps ==
  ASSUME KeysInv, NEW p \in Procs, NEW second \in BOOLEAN, Start(p, second)
  PROVE  KeysInv'
<1> DEFINE q == [at |-> IF second THEN "existing" ELSE "resolve", delivered |-> Delivered,
                 master |-> setting.master, under_core |-> setting.by \in {Core, "older core"},
                 cipher |-> None, seal |-> None, era |-> core]
<1>1. /\ proc' = [proc EXCEPT ![p] = q] /\ starts < MaxStarts /\ starts' = starts + 1
      /\ UNCHANGED <<setting, core, folder, truth, keeper>>
  BY DEF Start
<1>2. KeysTyped /\ setting \in Settings /\ core \in Eras
  BY DEF KeysInv, KeysTyped
<1>3. /\ setting.by \in {"core", "older core", "another app", "hand"}
      /\ setting.master \in Masters \cup {None}
  BY <1>2, KeysAssumption
<1>4. /\ Delivered \in Deliveries \cup {None}
      /\ Delivered # None <=> setting.by \in {Core, "another app"}
      /\ Delivered # None /\ Delivered.scope = This =>
           Delivered.cipher = from_subkeys(core.master, core.retired, This)
  <2>1. ASSUME NEW scope \in {This, Another}
        PROVE  /\ child_env(scope) \in Deliveries /\ child_env(scope) # None
               /\ child_env(scope).scope = scope
               /\ child_env(scope).cipher = from_subkeys(core.master, core.retired, scope)
    BY <1>2, Subkeys, KeyFacts DEF child_env, Deliveries
  <2>2. CASE setting.by = Core
    BY <2>1, <2>2 DEF Delivered, Core
  <2>3. CASE setting.by = "another app"
    BY <2>1, <2>3 DEF Delivered, Core
  <2>4. CASE setting.by \notin {Core, "another app"}
    BY <2>4 DEF Delivered
  <2> QED BY <2>2, <2>3, <2>4
<1>5. /\ q \in Running /\ q.at \in {"existing", "resolve"} /\ q.delivered = Delivered
      /\ q.master = setting.master /\ (q.under_core <=> setting.by \in {Core, "older core"})
      /\ q.cipher = None /\ q.seal = None /\ q.era = core
  <2>1. q.at \in Stages /\ q.at \in {"existing", "resolve"} /\ q.under_core \in BOOLEAN
    BY DEF Stages
  <2> QED BY <1>2, <1>3, <1>4, <2>1 DEF Running
<1> HIDE DEF q
<1>6. /\ proc' \in [Procs -> Running \cup {Off}] /\ proc'[p] = q
      /\ \A o \in Procs \ {p} : proc'[o] = proc[o]
  BY <1>1, <1>2, <1>5 DEF KeysTyped
<1>7. AsSet(p)'
  BY <1>1, <1>4, <1>5, <1>6 DEF AsSet
<1>8. AsDelivered(p)'
  BY <1>1, <1>4, <1>5, <1>6 DEF AsDelivered, CoreKeys
<1>9. Resolved(p)' /\ Pinning(p)' /\ Rooting(p)' /\ Sealing(p)'
  <2>1. "sealing" # q.seal \/ q.at \in {"existing", "resolve"}
    BY <1>5
  <2> QED BY <1>5, <1>6 DEF Resolved, Pinning, Rooting, Sealing
<1>10. starts' \in 1..MaxStarts
  BY <1>1, <1>2, KeyFacts DEF KeysTyped
<1> QED BY <1>1, <1>5, <1>6, <1>7, <1>8, <1>9, <1>10, OneGoesOn DEF Fares

LEMMA ResolveExistingKeeps ==
  ASSUME KeysInv, NEW p \in Procs, ResolveExisting(p)
  PROVE  KeysInv'
<1>1. /\ proc[p].at = "existing" /\ UNCHANGED <<setting, core, folder, truth, keeper, starts>>
      /\ \/ Goto(p, "open") /\ proc[p].delivered = None
         \/ Goto(p, "resolve")
  BY DEF ResolveExisting, At, history
<1>2. KeysTyped /\ proc[p].cipher = None /\ starts \in 1..MaxStarts
  BY <1>1, Started DEF KeysInv, KeysTyped, Fares, Rooting
<1>3. PICK place \in {"open", "resolve"} : Goto(p, place) /\ (place = "open" => proc[p].delivered = None)
  BY <1>1
<1>4. /\ proc' \in [Procs -> Running \cup {Off}] /\ proc'[p].at = place
      /\ \A o \in Procs \ {p} : proc'[o] = proc[o]
      /\ proc'[p].delivered = proc[p].delivered /\ proc'[p].master = proc[p].master
      /\ proc'[p].under_core = proc[p].under_core /\ proc'[p].cipher = None
      /\ proc'[p].seal = proc[p].seal /\ proc'[p].era = proc[p].era
  BY <1>1, <1>2, <1>3, GoesTo DEF Stages
<1>5. AsSet(p)' /\ AsDelivered(p)'
  BY <1>1, <1>4, KeepsEnvironment
<1>6. Resolved(p)' /\ Pinning(p)' /\ Rooting(p)' /\ Sealing(p)'
  BY <1>3, <1>4 DEF Resolved, Pinning, Rooting, Sealing
<1> QED BY <1>1, <1>2, <1>4, <1>5, <1>6, OneGoesOn DEF Fares

LEMMA ResolveDeliveredKeeps ==
  ASSUME KeysInv, NEW p \in Procs, ResolveDelivered(p)
  PROVE  KeysInv'
<1>1. /\ proc[p].at = "resolve" /\ proc[p].delivered # None
      /\ UNCHANGED <<setting, core, folder, history>>
      /\ IF subkey_from(p) = None THEN Fails(p) ELSE Holds(p, subkey_from(p), "open")
  BY DEF ResolveDelivered, At
<1>2. KeysTyped /\ AsDelivered(p) /\ starts' \in 1..MaxStarts /\ UNCHANGED <<setting, core, folder, truth, keeper>>
  BY <1>1 DEF KeysInv, KeysTyped, Fares, history
<1>3. CASE subkey_from(p) = None
  BY <1>1, <1>3, FailureKeeps
<1>4. CASE subkey_from(p) # None
  <2> DEFINE cipher == from_subkeys(proc[p].era.master, proc[p].era.retired, This)
  <2>1. proc[p].era \in Eras
    BY <1>1, <1>2, RunningTyped DEF Running
  <2>2. cipher \in Ciphers /\ cipher # None
    BY <2>1, Subkeys
  <2>3. subkey_from(p) = cipher
    BY <1>1, <1>2, <1>4 DEF subkey_from, AsDelivered
  <2> HIDE DEF cipher
  <2>4. Holds(p, cipher, "open") /\ "open" \in Stages
    BY <1>1, <1>4, <2>3 DEF Stages
  <2>5. /\ proc' \in [Procs -> Running \cup {Off}] /\ proc'[p].at = "open"
        /\ \A o \in Procs \ {p} : proc'[o] = proc[o]
        /\ proc'[p].delivered = proc[p].delivered /\ proc'[p].master = proc[p].master
        /\ proc'[p].under_core = proc[p].under_core /\ proc'[p].cipher = cipher
        /\ proc'[p].seal = proc[p].seal /\ proc'[p].era = proc[p].era
    BY <1>1, <1>2, <2>2, <2>4, GoesHolding
  <2>6. AsSet(p)' /\ AsDelivered(p)'
    BY <1>1, <1>2, <2>5, KeepsEnvironment
  <2>7. Resolved(p)' /\ Pinning(p)' /\ Rooting(p)' /\ Sealing(p)'
    BY <1>1, <2>5 DEF Resolved, Pinning, Rooting, Sealing, cipher
  <2> QED BY <1>2, <2>5, <2>6, <2>7, OneGoesOn DEF Fares
<1> QED BY <1>3, <1>4

LEMMA ResolveMasterKeeps ==
  ASSUME KeysInv, NEW p \in Procs, ResolveMaster(p)
  PROVE  KeysInv'
<1>1. /\ proc[p].at = "resolve" /\ proc[p].delivered = None /\ proc[p].master # None
      /\ UNCHANGED <<setting, core, folder, history>>
      /\ IF proc[p].under_core THEN Holds(p, subkey_from(p), "open")
         ELSE IF root # None THEN Fails(p)
         ELSE Holds(p, subkey_from(p), "pin")
  BY DEF ResolveMaster, At
<1>2. KeysTyped /\ starts' \in 1..MaxStarts /\ UNCHANGED <<setting, core, root, pin, folder, truth, keeper>>
  BY <1>1, Started DEF KeysInv, KeysTyped, history, folder
<1>3. CASE ~proc[p].under_core /\ root # None
  BY <1>1, <1>3, FailureKeeps
<1>4. CASE proc[p].under_core \/ root = None
  <2> DEFINE cipher == Cipher(derive(proc[p].master, This), {})
  <2>1. proc[p].master \in Masters
    BY <1>1, <1>2, RunningTyped DEF Running
  <2>2. cipher \in Ciphers /\ cipher.key = derive(proc[p].master, This) /\ cipher.retired = {}
    BY <2>1, KeyFacts DEF Cipher, Ciphers
  <2>3. subkey_from(p) = cipher
    BY <1>1 DEF subkey_from, process_master_key, from_subkeys
  <2> HIDE DEF cipher
  <2>4. PICK place \in {"open", "pin"} :
          Holds(p, cipher, place) /\ (place = "open" <=> proc[p].under_core)
    BY <1>1, <1>4, <2>3
  <2>10. place \in Stages
    BY <2>4 DEF Stages
  <2>5. /\ proc' \in [Procs -> Running \cup {Off}] /\ proc'[p].at = place
        /\ \A o \in Procs \ {p} : proc'[o] = proc[o]
        /\ proc'[p].delivered = None /\ proc'[p].master = proc[p].master
        /\ proc'[p].under_core = proc[p].under_core /\ proc'[p].cipher = cipher
        /\ proc'[p].seal = proc[p].seal /\ proc'[p].era = proc[p].era
    BY <1>1, <1>2, <2>2, <2>4, <2>10, GoesHolding
  <2>6. AsSet(p)' /\ AsDelivered(p)'
    BY <1>1, <1>2, <2>5, KeepsEnvironment
  <2>7. Resolved(p)'
    BY <2>1, <2>2, <2>4, <2>5 DEF Resolved
  <2>8. Pinning(p)'
    BY <1>2, <1>4, <2>1, <2>2, <2>4, <2>5, KeyFacts DEF Pinning
  <2>9. Rooting(p)' /\ Sealing(p)'
    BY <2>5 DEF Rooting, Sealing
  <2> QED BY <1>2, <2>5, <2>6, <2>7, <2>8, <2>9, OneGoesOn DEF Fares
<1> QED BY <1>3, <1>4

LEMMA ResolveCompatKeeps ==
  ASSUME KeysInv, NEW p \in Procs, ResolveCompat(p)
  PROVE  KeysInv'
<1>1. /\ proc[p].at = "resolve" /\ proc[p].delivered = None
      /\ Goto(p, "open") /\ UNCHANGED <<setting, core, folder, history>>
  BY DEF ResolveCompat, At
<1>2. /\ KeysTyped /\ starts' \in 1..MaxStarts /\ UNCHANGED <<setting, core, folder, truth, keeper>>
      /\ proc[p].cipher = None
  BY <1>1, Started DEF KeysInv, KeysTyped, history, Fares, Rooting
<1>3. /\ proc' \in [Procs -> Running \cup {Off}] /\ proc'[p].at = "open"
      /\ \A o \in Procs \ {p} : proc'[o] = proc[o]
      /\ proc'[p].delivered = None /\ proc'[p].master = proc[p].master
      /\ proc'[p].under_core = proc[p].under_core /\ proc'[p].cipher = None
      /\ proc'[p].seal = proc[p].seal /\ proc'[p].era = proc[p].era
  BY <1>1, <1>2, GoesTo DEF Stages
<1>4. AsSet(p)' /\ AsDelivered(p)'
  BY <1>1, <1>3, KeepsEnvironment
<1>5. Resolved(p)' /\ Pinning(p)' /\ Rooting(p)' /\ Sealing(p)'
  BY <1>3 DEF Resolved, Pinning, Rooting, Sealing
<1> QED BY <1>2, <1>3, <1>4, <1>5, OneGoesOn DEF Fares

LEMMA LoadRootKeeps ==
  ASSUME KeysInv, NEW p \in Procs, LoadRoot(p)
  PROVE  KeysInv'
<1>1. /\ proc[p].at = "resolve" /\ proc[p].delivered = None /\ proc[p].master = None
      /\ ~proc[p].under_core /\ UNCHANGED <<setting, core, folder, history>>
      /\ CASE root = None -> Goto(p, "no root")
           [] root = Torn -> Fails(p)
           [] OTHER -> Holds(p, Cipher(root, {}), "pin")
  BY DEF LoadRoot, At
<1>2. /\ KeysTyped /\ starts' \in 1..MaxStarts
      /\ UNCHANGED <<setting, core, root, pin, folder, truth, keeper>>
      /\ proc[p].cipher = None
  BY <1>1, Started DEF KeysInv, KeysTyped, history, folder, Fares, Rooting
<1>3. CASE root = None
  <2>1. Goto(p, "no root")
    BY <1>1, <1>3, KeyFacts
  <2>2. /\ proc' \in [Procs -> Running \cup {Off}] /\ proc'[p].at = "no root"
        /\ \A o \in Procs \ {p} : proc'[o] = proc[o]
        /\ proc'[p].delivered = proc[p].delivered /\ proc'[p].master = proc[p].master
        /\ proc'[p].under_core = proc[p].under_core /\ proc'[p].cipher = None
        /\ proc'[p].seal = proc[p].seal /\ proc'[p].era = proc[p].era
    BY <1>1, <1>2, <2>1, GoesTo DEF Stages
  <2>3. AsSet(p)' /\ AsDelivered(p)'
    BY <1>1, <1>2, <2>2, KeepsEnvironment
  <2>4. Resolved(p)' /\ Pinning(p)' /\ Rooting(p)' /\ Sealing(p)'
    BY <1>1, <2>2 DEF Resolved, Pinning, Rooting, Sealing
  <2> QED BY <1>2, <2>2, <2>3, <2>4, OneGoesOn DEF Fares
<1>4. CASE root = Torn
  BY <1>1, <1>4, FailureKeeps, KeyFacts
<1>5. CASE root \notin {None, Torn}
  <2> DEFINE cipher == Cipher(root, {})
  <2>1. cipher \in Ciphers /\ cipher.key = root /\ cipher.retired = {} /\ cipher # None
    BY <1>2, <1>5, KeyFacts DEF KeysTyped, Cipher, Ciphers
  <2>2. Holds(p, cipher, "pin")
    BY <1>1, <1>5
  <2> HIDE DEF cipher
  <2>3. /\ proc' \in [Procs -> Running \cup {Off}] /\ proc'[p].at = "pin"
        /\ \A o \in Procs \ {p} : proc'[o] = proc[o]
        /\ proc'[p].delivered = proc[p].delivered /\ proc'[p].master = proc[p].master
        /\ proc'[p].under_core = proc[p].under_core /\ proc'[p].cipher = cipher
        /\ proc'[p].seal = proc[p].seal /\ proc'[p].era = proc[p].era
    BY <1>1, <1>2, <2>1, <2>2, GoesHolding DEF Stages
  <2>4. AsSet(p)' /\ AsDelivered(p)'
    BY <1>1, <1>2, <2>3, KeepsEnvironment
  <2>5. Pinning(p)'
    BY <1>1, <1>2, <2>1, <2>3 DEF Pinning
  <2>6. Resolved(p)' /\ Rooting(p)' /\ Sealing(p)'
    BY <2>3 DEF Resolved, Rooting, Sealing
  <2> QED BY <1>2, <2>3, <2>4, <2>5, <2>6, OneGoesOn DEF Fares
<1> QED BY <1>3, <1>4, <1>5

LEMMA CheckUnpinnedKeeps ==
  ASSUME KeysInv, NEW p \in Procs, CheckUnpinned(p)
  PROVE  KeysInv'
<1>1. /\ proc[p].at = "no root" /\ UNCHANGED <<setting, core, folder, history>>
      /\ IF pin # None THEN Fails(p) ELSE Goto(p, "create root")
  BY DEF CheckUnpinned, At
<1>2. /\ KeysTyped /\ starts' \in 1..MaxStarts
      /\ UNCHANGED <<setting, core, pin, folder, truth, keeper>> /\ Rooting(p)
  BY <1>1, Started DEF KeysInv, KeysTyped, history, folder, Fares
<1>3. CASE pin # None
  BY <1>1, <1>3, FailureKeeps
<1>4. CASE pin = None
  <2>1. /\ proc' \in [Procs -> Running \cup {Off}] /\ proc'[p].at = "create root"
        /\ \A o \in Procs \ {p} : proc'[o] = proc[o]
        /\ proc'[p].delivered = proc[p].delivered /\ proc'[p].master = proc[p].master
        /\ proc'[p].under_core = proc[p].under_core /\ proc'[p].cipher = proc[p].cipher
        /\ proc'[p].seal = proc[p].seal /\ proc'[p].era = proc[p].era
    BY <1>1, <1>2, <1>4, GoesTo DEF Stages
  <2>2. AsSet(p)' /\ AsDelivered(p)'
    BY <1>1, <1>2, <2>1, KeepsEnvironment
  <2>3. Resolved(p)' /\ Pinning(p)' /\ Rooting(p)' /\ Sealing(p)'
    BY <1>1, <1>2, <1>4, <2>1 DEF Resolved, Pinning, Rooting, Sealing
  <2> QED BY <1>2, <2>1, <2>2, <2>3, OneGoesOn DEF Fares
<1> QED BY <1>3, <1>4

LEMMA PinRootKeeps ==
  ASSUME KeysInv, NEW p \in Procs, PinRoot(p)
  PROVE  KeysInv'
<1>1. /\ proc[p].at = "pin" /\ UNCHANGED <<setting, core, folder, history>>
      /\ CASE pin = None -> Goto(p, "write pin")
           [] pin = proc[p].cipher.key -> Goto(p, "open")
           [] OTHER -> Fails(p)
  BY DEF PinRoot, At
<1>2. /\ KeysTyped /\ starts' \in 1..MaxStarts
      /\ UNCHANGED <<setting, core, root, pin, folder, truth, keeper>> /\ Pinning(p)
  BY <1>1, Started DEF KeysInv, KeysTyped, history, folder, Fares
<1>3. CASE Fails(p)
  BY <1>1, <1>3, FailureKeeps
<1>4. ASSUME NEW place \in {"write pin", "open"}, Goto(p, place),
             place = "write pin" => pin = None, place = "open" => pin = proc[p].cipher.key
      PROVE  KeysInv'
  <2>1. place \in Stages
    BY DEF Stages
  <2>2. /\ proc' \in [Procs -> Running \cup {Off}] /\ proc'[p].at = place
        /\ \A o \in Procs \ {p} : proc'[o] = proc[o]
        /\ proc'[p].delivered = proc[p].delivered /\ proc'[p].master = proc[p].master
        /\ proc'[p].under_core = proc[p].under_core /\ proc'[p].cipher = proc[p].cipher
        /\ proc'[p].seal = proc[p].seal /\ proc'[p].era = proc[p].era
    BY <1>1, <1>2, <1>4, <2>1, GoesTo
  <2>3. AsSet(p)' /\ AsDelivered(p)'
    BY <1>1, <1>2, <2>2, KeepsEnvironment
  <2>4. Resolved(p)' /\ Pinning(p)' /\ Rooting(p)' /\ Sealing(p)'
    BY <1>1, <1>2, <1>4, <2>2 DEF Resolved, Pinning, Rooting, Sealing
  <2> QED BY <1>2, <2>2, <2>3, <2>4, OneGoesOn DEF Fares
<1> QED BY <1>1, <1>3, <1>4

\* A key that the record names, by a cipher of this process, fits the store.
LEMMA MatchFits ==
  ASSUME KeysInv, NEW p \in Procs, proc[p].at \in {"open", "migrate"}, proc[p].cipher # None,
         match_kcv(proc[p].cipher, store.kcv) # "unknown"
  PROVE  Fits(proc[p].cipher.key)
<1>1. Resolved(p) /\ AsDelivered(p) /\ KeysTyped
  BY DEF KeysInv, Fares
<1>2. CASE store.kcv = proc[p].cipher.key
  BY <1>2 DEF Fits
<1>3. CASE store.kcv \in proc[p].cipher.retired
  <2>1. proc[p].delivered # None
    BY <1>1, <1>3 DEF Resolved
  <2>2. proc[p].era \in Eras
    BY <1>1, RunningTyped DEF Running
  <2>3. /\ proc[p].cipher = from_subkeys(proc[p].era.master, proc[p].era.retired, This)
        /\ KeysOf(proc[p].era) \subseteq CoreKeys
    BY <1>1, <2>1 DEF Resolved, AsDelivered
  <2>4. {proc[p].cipher.key, store.kcv} \subseteq Candidates(proc[p].cipher)
    BY <1>3 DEF Candidates
  <2> QED BY <2>2, <2>3, <2>4, Subkeys DEF Fits
<1> QED BY <1>2, <1>3 DEF match_kcv

LEMMA OpenKeeps ==
  ASSUME KeysInv, NEW p \in Procs, sqlite_store_seal(p)
  PROVE  KeysInv'
<1>1. /\ proc[p].at = "open" /\ UNCHANGED <<setting, core, folder, history>>
      /\ \/ /\ proc[p].cipher = None
            /\ Opens(p, IF store.kcv = None THEN "compat" ELSE "unhealthy", "up")
         \/ proc[p].cipher # None /\ store.kcv = None /\ Goto(p, "record")
         \/ proc[p].cipher # None /\ Opens(p, "unhealthy", "up")
         \/ /\ proc[p].cipher # None /\ match_kcv(proc[p].cipher, store.kcv) # "unknown"
            /\ Opens(p, "sealing", "migrate")
  BY DEF sqlite_store_seal, At
<1>2. /\ KeysTyped /\ starts' \in 1..MaxStarts
      /\ UNCHANGED <<setting, core, root, pin, store, folder, truth, keeper>> /\ Resolved(p)
  BY <1>1, Started DEF KeysInv, KeysTyped, history, folder, Fares
<1>3. CASE proc[p].cipher # None /\ store.kcv = None /\ Goto(p, "record")
  <2>1. /\ proc' \in [Procs -> Running \cup {Off}] /\ proc'[p].at = "record"
        /\ \A o \in Procs \ {p} : proc'[o] = proc[o]
        /\ proc'[p].delivered = proc[p].delivered /\ proc'[p].master = proc[p].master
        /\ proc'[p].under_core = proc[p].under_core /\ proc'[p].cipher = proc[p].cipher
        /\ proc'[p].seal = proc[p].seal /\ proc'[p].era = proc[p].era
    BY <1>1, <1>2, <1>3, GoesTo DEF Stages
  <2>2. AsSet(p)' /\ AsDelivered(p)'
    BY <1>1, <1>2, <2>1, KeepsEnvironment
  <2>3. Resolved(p)' /\ Pinning(p)' /\ Rooting(p)' /\ Sealing(p)'
    BY <1>1, <1>2, <1>3, <2>1 DEF Resolved, Pinning, Rooting, Sealing
  <2> QED BY <1>2, <2>1, <2>2, <2>3, OneGoesOn DEF Fares
<1>4. ASSUME NEW seal \in {"compat", "unhealthy", "sealing"}, NEW place \in {"up", "migrate"},
             Opens(p, seal, place), place = "migrate" <=> seal = "sealing",
             seal = "sealing" => Fits(proc[p].cipher.key) /\ proc[p].cipher # None
      PROVE  KeysInv'
  <2>1. place \in Stages
    BY DEF Stages
  <2>2. /\ proc' \in [Procs -> Running \cup {Off}] /\ proc'[p].at = place
        /\ \A o \in Procs \ {p} : proc'[o] = proc[o]
        /\ proc'[p].delivered = proc[p].delivered /\ proc'[p].master = proc[p].master
        /\ proc'[p].under_core = proc[p].under_core /\ proc'[p].cipher = proc[p].cipher
        /\ proc'[p].seal = seal /\ proc'[p].era = proc[p].era
    BY <1>1, <1>2, <1>4, <2>1, GoesOpening
  <2>3. AsSet(p)' /\ AsDelivered(p)'
    BY <1>1, <1>2, <2>2, KeepsEnvironment
  <2>4. Resolved(p)' /\ Pinning(p)' /\ Rooting(p)'
    BY <1>1, <1>2, <1>4, <2>2 DEF Resolved, Pinning, Rooting
  <2>5. Sealing(p)'
    <3>1. Fits(proc[p].cipher.key) => Fits(proc[p].cipher.key)'
      BY <1>2, <2>2 DEF Fits, CoreKeys
    <3> QED BY <1>4, <2>2, <3>1 DEF Sealing, Fits
  <2> QED BY <1>2, <2>2, <2>3, <2>4, <2>5, OneGoesOn DEF Fares
<1>5. proc[p].cipher # None /\ match_kcv(proc[p].cipher, store.kcv) # "unknown" =>
        Fits(proc[p].cipher.key)
  BY <1>1, MatchFits
<1> QED BY <1>1, <1>3, <1>4, <1>5

\* The root's file changes before there is a pin.
LEMMA RootMoves ==
  ASSUME KeysInv, NEW p \in Procs, proc[p].at # "off",
         UNCHANGED <<setting, core, pin, store, secret, history>>,
         pin = None, root' \in AllKeys \cup {None, Torn}, proc' \in [Procs -> Running \cup {Off}],
         \A o \in Procs \ {p} : proc'[o] = proc[o], Fares(p)',
         \A o \in Procs \ {p} : Pinning(o)' /\ Rooting(o)'
  PROVE  KeysInv'
<1>0. KeysTyped /\ UNCHANGED <<setting, core, pin, store, secret, truth, keeper, starts>>
  BY DEF KeysInv, history
<1>1. KeysTyped'
  BY <1>0 DEF KeysTyped
<1>2. CoreKeys' = CoreKeys /\ core' \in Eras
  BY <1>0 DEF CoreKeys, KeysTyped
<1>3. ASSUME NEW o \in Procs \ {p} PROVE Fares(o)'
  <2>1. proc'[o] = proc[o]
    BY <1>3
  <2>2. AsSet(o)' /\ AsDelivered(o)' /\ Resolved(o)' /\ Sealing(o)'
    BY <1>0, <1>2, <2>1, StaysSet, StaysResolved, StaysSealing
  <2> QED BY <1>3, <2>2 DEF Fares
<1>4. \A o \in Procs : Fares(o)'
  BY <1>3
<1>5. (\A id \in Ids : RowHolds(id)') /\ SecretHolds'
  BY <1>0, <1>2, RowsStay, SecretStays
<1> QED BY <1>0, <1>1, <1>4, <1>5 DEF KeysInv

\* Who goes on by hand, before there is a root, makes it.
LEMMA NonePinning ==
  ASSUME KeysInv, NEW p \in Procs, proc[p].at \in {"create root", "write root"},
         NEW o \in Procs, root \in {None, Torn}
  PROVE  proc[o].at \notin {"pin", "write pin"}
<1> SUFFICES ASSUME proc[o].at \in {"pin", "write pin"} PROVE FALSE
  OBVIOUS
<1>1. /\ KeysTyped /\ AsSet(p) /\ AsSet(o) /\ Rooting(p) /\ Pinning(o)
  BY DEF KeysInv, Fares
<1>2. proc[p].master = None /\ proc[o].master = None
  BY <1>1 DEF AsSet, Rooting
<1>3. proc[o].cipher \in Ciphers /\ proc[o].cipher.key = root
  BY <1>1, <1>2, RunningTyped DEF Pinning, Running
<1> QED BY <1>3, KeyFacts DEF Ciphers

LEMMA CreateRootKeeps ==
  ASSUME KeysInv, NEW p \in Procs, CreateRoot(p)
  PROVE  KeysInv'
<1>1. /\ proc[p].at = "create root" /\ UNCHANGED <<setting, core, pin, store, secret, history>>
      /\ IF root # None THEN Fails(p) /\ UNCHANGED root
                        ELSE Goto(p, "write root") /\ root' = Torn
  BY DEF CreateRoot, At
<1>2. KeysTyped /\ Rooting(p)
  BY DEF KeysInv, Fares
<1>3. CASE root # None
  BY <1>1, <1>3, FailureKeeps DEF folder
<1>4. CASE root = None
  <2>1. /\ proc' \in [Procs -> Running \cup {Off}] /\ proc'[p].at = "write root"
        /\ \A o \in Procs \ {p} : proc'[o] = proc[o]
        /\ proc'[p].delivered = proc[p].delivered /\ proc'[p].master = proc[p].master
        /\ proc'[p].under_core = proc[p].under_core /\ proc'[p].cipher = proc[p].cipher
        /\ proc'[p].seal = proc[p].seal /\ proc'[p].era = proc[p].era
    BY <1>1, <1>2, <1>4, GoesTo DEF Stages
  <2>2. AsSet(p)' /\ AsDelivered(p)'
    BY <1>1, <2>1, KeepsEnvironment
  <2>3. pin = None /\ root' = Torn /\ Torn # None
    BY <1>1, <1>2, <1>4, KeyFacts DEF Rooting
  <2>4. ASSUME NEW o \in Procs \ {p} PROVE proc[o].at # "write root" /\ Pinning(o)' /\ Rooting(o)'
    <3>1. proc[o].at \notin {"pin", "write pin"}
      BY <1>1, <1>4, NonePinning
    <3>2. Rooting(o)
      BY DEF KeysInv, Fares
    <3>3. proc[o].at # "write root"
      BY <1>4, <3>2, KeyFacts DEF Rooting
    <3>4. proc'[o] = proc[o]
      BY <2>1
    <3> QED BY <2>3, <3>1, <3>2, <3>3, <3>4 DEF Pinning, Rooting
  <2>5. Rooting(p)'
    BY <1>1, <1>2, <2>1, <2>3, <2>4 DEF Rooting
  <2>6. Resolved(p)' /\ Pinning(p)' /\ Sealing(p)'
    BY <2>1 DEF Resolved, Pinning, Sealing
  <2> QED BY <1>1, <2>1, <2>2, <2>3, <2>4, <2>5, <2>6, RootMoves DEF Fares
<1> QED BY <1>3, <1>4

LEMMA WriteRootKeeps ==
  ASSUME KeysInv, NEW p \in Procs, WriteRoot(p)
  PROVE  KeysInv'
<1> DEFINE key == derive(GeneratedRoot(starts), This)
           cipher == Cipher(key, {})
<1>1. /\ proc[p].at = "write root" /\ UNCHANGED <<setting, core, pin, store, secret, history>>
      /\ root' = key /\ Holds(p, cipher, "pin")
  BY DEF WriteRoot, At
<1>2. KeysTyped /\ Rooting(p) /\ root = Torn /\ pin = None
  BY <1>1 DEF KeysInv, Fares, Rooting
<1>3. key \in AllKeys
  <2>1. starts \in 1..MaxStarts
    BY <1>1, <1>2, Started
  <2> QED BY <2>1 DEF AllKeys
<1>4. cipher \in Ciphers /\ cipher.key = key /\ cipher.retired = {} /\ cipher # None /\ key # None
  BY <1>3, KeyFacts DEF Cipher, Ciphers
<1> HIDE DEF key, cipher
<1>5. /\ proc' \in [Procs -> Running \cup {Off}] /\ proc'[p].at = "pin"
      /\ \A o \in Procs \ {p} : proc'[o] = proc[o]
      /\ proc'[p].delivered = proc[p].delivered /\ proc'[p].master = proc[p].master
      /\ proc'[p].under_core = proc[p].under_core /\ proc'[p].cipher = cipher
      /\ proc'[p].seal = proc[p].seal /\ proc'[p].era = proc[p].era
  BY <1>1, <1>2, <1>4, GoesHolding DEF Stages
<1>6. AsSet(p)' /\ AsDelivered(p)'
  BY <1>1, <1>5, KeepsEnvironment
<1>7. ASSUME NEW o \in Procs \ {p} PROVE Pinning(o)' /\ Rooting(o)'
  <2>1. proc[o].at \notin {"pin", "write pin"}
    BY <1>1, <1>2, NonePinning
  <2>2. proc[o].at # "write root" /\ proc'[o] = proc[o]
    BY <1>1, <1>2, <1>5 DEF Rooting
  <2>3. Rooting(o)
    BY DEF KeysInv, Fares
  <2> QED BY <1>1, <1>4, <2>1, <2>2, <2>3 DEF Pinning, Rooting
<1>8. Resolved(p)' /\ Rooting(p)' /\ Sealing(p)'
  BY <1>5 DEF Resolved, Rooting, Sealing
<1>9. Pinning(p)'
  BY <1>1, <1>2, <1>4, <1>5 DEF Pinning, Rooting
<1> QED BY <1>1, <1>2, <1>3, <1>5, <1>6, <1>7, <1>8, <1>9, RootMoves DEF Fares

LEMMA WritePinKeeps ==
  ASSUME KeysInv, NEW p \in Procs, WritePin(p)
  PROVE  KeysInv'
<1>1. /\ proc[p].at = "write pin" /\ Goto(p, "open") /\ pin' = proc[p].cipher.key
      /\ UNCHANGED <<setting, core, root, store, secret, truth, keeper, starts, writes>>
  BY DEF WritePin, At, history
<1>2. KeysTyped /\ Pinning(p) /\ AsSet(p)
  BY DEF KeysInv, Fares
<1>3. /\ proc[p].delivered = None /\ ~proc[p].under_core /\ proc[p].master = setting.master
      /\ proc[p].cipher \in Ciphers /\ proc[p].cipher # None /\ proc[p].cipher.retired = {}
      /\ pin' \in AllKeys /\ (pin = None \/ pin' = pin)
      /\ pin' = IF setting.master = None THEN root ELSE derive(setting.master, This)
      /\ setting.master # None => root = None
  BY <1>1, <1>2, RunningTyped DEF Pinning, AsSet, Running, Ciphers
<1>4. /\ proc' \in [Procs -> Running \cup {Off}] /\ proc'[p].at = "open"
      /\ \A o \in Procs \ {p} : proc'[o] = proc[o]
      /\ proc'[p].delivered = proc[p].delivered /\ proc'[p].master = proc[p].master
      /\ proc'[p].under_core = proc[p].under_core /\ proc'[p].cipher = proc[p].cipher
      /\ proc'[p].seal = proc[p].seal /\ proc'[p].era = proc[p].era
  BY <1>1, <1>2, GoesTo DEF Stages
<1>5. KeysTyped'
  <2>1. starts' # 0
    BY <1>1, <1>2, Started, Counted
  <2> QED BY <1>1, <1>2, <1>3, <1>4, <2>1 DEF KeysTyped
<1>6. CoreKeys' = CoreKeys /\ core' \in Eras
  BY <1>1, <1>2 DEF CoreKeys, KeysTyped
<1>7. (\A id \in Ids : RowHolds(id)') /\ SecretHolds'
  BY <1>1, <1>3, <1>6, RowsStay, SecretStays
<1>8. pin' # None => root' \in {None, pin'}
  BY <1>1, <1>3
<1>9. ASSUME NEW o \in Procs \ {p} PROVE Fares(o)'
  <2>1. proc'[o] = proc[o] /\ AsSet(o) /\ Pinning(o) /\ Rooting(o)
    BY <1>4 DEF KeysInv, Fares
  <2>2. AsSet(o)' /\ AsDelivered(o)' /\ Resolved(o)' /\ Sealing(o)'
    BY <1>1, <1>3, <1>6, <2>1, StaysSet, StaysResolved, StaysSealing
  <2>3. Pinning(o)'
    BY <1>1, <1>3, <2>1 DEF Pinning, AsSet
  <2>4. proc[o].at \notin {"create root", "write root"} \/ root \in AllKeys
    BY <1>3, <2>1 DEF Rooting, AsSet
  <2>5. Rooting(o)'
    <3>1. (root # None /\ root # Torn) \/ proc[o].at \notin {"create root", "write root"}
      BY <2>4, KeyFacts
    <3> QED BY <1>1, <2>1, <3>1 DEF Rooting
  <2> QED BY <2>2, <2>3, <2>5 DEF Fares
<1>10. AsSet(p)' /\ AsDelivered(p)'
  BY <1>1, <1>4, KeepsEnvironment
<1>11. Resolved(p)' /\ Pinning(p)' /\ Rooting(p)' /\ Sealing(p)'
  BY <1>1, <1>3, <1>4 DEF Resolved, Pinning, Rooting, Sealing
<1>12. \A o \in Procs : Fares(o)'
  BY <1>9, <1>10, <1>11 DEF Fares
<1> QED BY <1>5, <1>7, <1>8, <1>12 DEF KeysInv

\* The key on record changes only for one that fits.
LEMMA FitsOn ==
  ASSUME KeysInv, core' = core, NEW new \in AllKeys, store'.kcv = new,
         store.kcv = None \/ Fits(new)
  PROVE  \A key \in AllKeys : Fits(key) => Fits(key)'
<1>1. CoreKeys' = CoreKeys /\ CoreKeys \subseteq AllKeys
  BY Subkeys DEF CoreKeys, KeysInv, KeysTyped
<1>2. SUFFICES ASSUME NEW key \in AllKeys, Fits(key) PROVE Fits(key)'
  OBVIOUS
<1>3. Fits(new)
  BY <1>1, <1>2, KeyFacts DEF Fits
<1> QED BY <1>1, <1>2, <1>3 DEF Fits

\* The key a process holds after it resolved, and whose it may be.
LEMMA Owns ==
  ASSUME KeysInv, NEW p \in Procs, proc[p].at \in {"open", "record", "migrate", "up"},
         proc[p].cipher # None
  PROVE  /\ proc[p].cipher \in Ciphers /\ proc[p].cipher.key \in AllKeys
         /\ OwnKey(proc[p].cipher.key)
         /\ proc[p].delivered # None =>
              proc[p].cipher.key \in CoreKeys /\ Candidates(proc[p].cipher) = KeysOf(proc[p].era)
<1>1. Resolved(p) /\ AsDelivered(p) /\ KeysTyped
  BY DEF KeysInv, Fares
<1>2. proc[p] \in Running
  BY <1>1, RunningTyped
<1>3. proc[p].cipher \in Ciphers /\ proc[p].era \in Eras /\ proc[p].cipher.key \in AllKeys
  BY <1>2 DEF Running, Ciphers
<1>4. CASE proc[p].delivered # None
  <2>1. proc[p].cipher = from_subkeys(proc[p].era.master, proc[p].era.retired, This)
    BY <1>1, <1>4 DEF Resolved
  <2>2. /\ proc[p].cipher.key \in KeysOf(proc[p].era) /\ KeysOf(proc[p].era) \subseteq CoreKeys
        /\ proc[p].cipher.key.master \in Masters
        /\ Candidates(proc[p].cipher) = KeysOf(proc[p].era)
    BY <1>1, <1>3, <2>1, Subkeys DEF AsDelivered
  <2> QED BY <1>3, <2>2 DEF OwnKey
<1>5. CASE proc[p].delivered = None
  <2>1. proc[p].cipher.key = IF proc[p].under_core THEN derive(proc[p].master, This) ELSE pin
    BY <1>1, <1>5 DEF Resolved
  <2>2. proc[p].under_core => proc[p].master \in Masters
    BY <1>1, <1>5 DEF Resolved
  <2> QED BY <1>3, <1>5, <2>1, <2>2, KeyFacts DEF OwnKey
<1> QED BY <1>4, <1>5

\* The store changes, and the process that wrote it may go on.
LEMMA StoreMoves ==
  ASSUME KeysInv, UNCHANGED <<setting, core, root, pin, secret, keeper, starts>>,
         NEW p \in Procs, proc[p].at # "off", proc'[p].at # "write root", Fares(p)',
         proc' \in [Procs -> Running \cup {Off}],
         \A o \in Procs \ {p} : proc'[o] = proc[o] /\ Sealing(o)',
         store' \in [kcv : AllKeys \cup {None}, migrated : BOOLEAN,
                     rows : [Ids -> KnownTexts \cup Envelope]],
         truth' \in [Ids \cup {"secret"} -> KnownTexts], truth'["secret"] = truth["secret"],
         \A id \in Ids : RowHolds(id)'
  PROVE  KeysInv'
<1>1. KeysTyped'
  <2>1. starts' # 0 /\ KeysTyped
    BY Started, Counted DEF KeysInv
  <2> QED BY <2>1 DEF KeysTyped
<1>2. CoreKeys' = CoreKeys /\ core' \in Eras
  BY DEF CoreKeys, KeysInv, KeysTyped
<1>3. ASSUME NEW o \in Procs \ {p} PROVE Fares(o)'
  <2>1. proc'[o] = proc[o] /\ Sealing(o)'
    OBVIOUS
  <2>2. \A q \in Procs \ {o} : proc'[q].at = "write root" => proc[q].at = "write root"
    OBVIOUS
  <2>3. AsSet(o)' /\ AsDelivered(o)' /\ Resolved(o)'
    BY <1>2, <2>1, StaysSet, StaysResolved
  <2>4. Pinning(o)' /\ Rooting(o)'
    BY <2>1, <2>2, StaysRooting
  <2> QED BY <2>1, <2>3, <2>4 DEF Fares
<1>4. \A o \in Procs : Fares(o)'
  BY <1>3
<1>5. SecretHolds'
  BY <1>2, SecretStays
<1>6. pin' # None => root' \in {None, pin'}
  BY DEF KeysInv
<1> QED BY <1>1, <1>4, <1>5, <1>6 DEF KeysInv

LEMMA RecordKeyKeeps ==
  ASSUME KeysInv, NEW p \in Procs, RecordKey(p)
  PROVE  KeysInv'
<1> DEFINE new == proc[p].cipher.key
<1>1. /\ proc[p].at = "record" /\ Opens(p, "sealing", "migrate")
      /\ store' = [store EXCEPT !.kcv = new]
      /\ UNCHANGED <<setting, core, root, pin, secret, truth, keeper, starts, writes>>
  BY DEF RecordKey, At, history
<1>2. KeysTyped /\ Resolved(p) /\ AsSet(p) /\ Sealing(p)
  BY DEF KeysInv, Fares
<1>3. proc[p].cipher # None /\ (store.kcv = None \/ Fits(new))
  BY <1>1, <1>2 DEF Resolved, Sealing
<1>4. new \in AllKeys /\ (proc[p].delivered # None => new \in CoreKeys)
  BY <1>1, <1>3, Owns
<1>5. /\ store' \in [kcv : AllKeys \cup {None}, migrated : BOOLEAN,
                     rows : [Ids -> KnownTexts \cup Envelope]]
      /\ store'.kcv = new /\ store'.rows = store.rows
  BY <1>1, <1>2, <1>4 DEF KeysTyped
<1>6. /\ proc' \in [Procs -> Running \cup {Off}] /\ proc'[p].at = "migrate"
      /\ \A o \in Procs \ {p} : proc'[o] = proc[o]
      /\ proc'[p].delivered = proc[p].delivered /\ proc'[p].master = proc[p].master
      /\ proc'[p].under_core = proc[p].under_core /\ proc'[p].cipher = proc[p].cipher
      /\ proc'[p].seal = "sealing" /\ proc'[p].era = proc[p].era
  BY <1>1, <1>2, GoesOpening DEF Stages
<1>7. \A key \in AllKeys : Fits(key) => Fits(key)'
  BY <1>1, <1>3, <1>4, <1>5, FitsOn
<1>8. \A id \in Ids : RowHolds(id)'
  <2>1. \A id \in Ids : RowHolds(id)
    BY DEF KeysInv
  <2> QED BY <1>1, <1>5, <1>7, <2>1, RowStays
<1>9. ASSUME NEW o \in Procs \ {p} PROVE Sealing(o)'
  <2>1. /\ proc'[o] = proc[o] /\ AsSet(o) /\ Resolved(o) /\ Sealing(o)
    BY <1>6 DEF KeysInv, Fares
  <2>2. CASE proc[o].at = "record"
    <3>1. proc[o].cipher # None
      BY <2>1, <2>2 DEF Resolved
    <3>2. CASE proc[p].delivered # None
      <4>1. proc[o].delivered # None
        BY <1>1, <1>2, <2>1, <2>2, <3>2 DEF AsSet
      <4>2. proc[o].cipher.key \in CoreKeys /\ new \in CoreKeys
        BY <1>4, <2>2, <3>1, <3>2, <4>1, Owns
      <4>3. Fits(proc[o].cipher.key)'
        BY <1>1, <1>5, <2>1, <4>2 DEF Fits, CoreKeys
      <4> QED BY <2>1, <2>2, <4>3 DEF Sealing, Fits
    <3>3. CASE proc[p].delivered = None
      <4>1. /\ proc[o].delivered = None /\ proc[o].under_core = proc[p].under_core
            /\ proc[o].master = proc[p].master
        <5>1. proc[o] \in Running /\ proc[p] \in Running
          BY <1>1, <1>2, <2>2, RunningTyped
        <5> QED BY <1>1, <1>2, <2>1, <2>2, <3>3, <5>1 DEF AsSet, Running
      <4>2. proc[o].cipher.key = new
        BY <1>1, <1>2, <1>3, <2>1, <2>2, <3>1, <3>3, <4>1 DEF Resolved
      <4> QED BY <1>5, <2>1, <2>2, <4>2 DEF Sealing, Fits
    <3> QED BY <3>2, <3>3
  <2>3. CASE proc[o].at # "record"
    <3>1. proc[o].at = "migrate" \/ (proc[o].at = "up" /\ proc[o].seal = "sealing") =>
            Fits(proc[o].cipher.key)'
      <4>1. ASSUME proc[o].at = "migrate" \/ (proc[o].at = "up" /\ proc[o].seal = "sealing")
            PROVE  Fits(proc[o].cipher.key) /\ proc[o].cipher.key \in AllKeys
        BY <2>1, <4>1, Owns DEF Sealing, Resolved
      <4> QED BY <1>7, <2>1, <4>1 DEF Fits
    <3> QED BY <2>1, <2>3, <3>1 DEF Sealing, Fits
  <2> QED BY <2>2, <2>3
<1>10. AsSet(p)' /\ AsDelivered(p)'
  BY <1>1, <1>6, KeepsEnvironment
<1>11. Resolved(p)' /\ Pinning(p)' /\ Rooting(p)'
  BY <1>1, <1>2, <1>3, <1>6 DEF Resolved, Pinning, Rooting
<1>12. Sealing(p)'
  BY <1>5, <1>6 DEF Sealing, Fits
<1> HIDE DEF new
<1>13. Fares(p)'
  BY <1>10, <1>11, <1>12 DEF Fares
<1>14. truth' \in [Ids \cup {"secret"} -> KnownTexts] /\ truth'["secret"] = truth["secret"]
  BY <1>1, <1>2 DEF KeysTyped
<1> QED BY <1>1, <1>5, <1>6, <1>8, <1>9, <1>13, <1>14, StoreMoves

\* A row sealed under a key that fits.
LEMMA SealedHolds ==
  ASSUME NEW id \in Ids, NEW cipher \in Ciphers, OwnKey(cipher.key), Fits(cipher.key)', pin' = pin,
         NEW text \in KnownTexts, truth'[id] = text,
         store'.rows[id] = seal_text(cipher, text, id)
  PROVE  RowHolds(id)' /\ seal_text(cipher, text, id) \in Envelope
<1> DEFINE row == seal_text(cipher, text, id)
<1>1. row.prefix = ContentPrefix /\ row.key = cipher.key /\ row.context = id /\ row.of = text
  BY DEF seal_text, StringOf
<1>2. row \in Envelope
  BY DEF seal_text, StringOf, Envelope, Ciphers
<1> HIDE DEF row
<1>3. OwnKey(row.key)' /\ Fits(row.key)'
  BY <1>1 DEF OwnKey, Fits
<1> QED BY <1>1, <1>2, <1>3 DEF RowHolds, row

LEMMA ResealHolds ==
  ASSUME NEW id \in Ids, NEW cipher \in Ciphers, KeysTyped, RowHolds(id),
         OwnKey(cipher.key), Fits(cipher.key)', pin' = pin, truth' = truth,
         \A key \in AllKeys : Fits(key) => Fits(key)',
         store'.rows[id] = reseal_value(cipher, store.rows[id], id)
  PROVE  RowHolds(id)' /\ store'.rows[id] \in KnownTexts \cup Envelope
<1> DEFINE row == store.rows[id]
           opened == open_text(cipher, row, id)
           text == IF row.prefix = ContentPrefix THEN opened.text ELSE Stripped(row)
<1>1. store'.rows[id] = IF ~opened.ok \/ ~opened.reseal THEN row ELSE seal_text(cipher, text, id)
  BY DEF reseal_value
<1>2. row \in KnownTexts \cup Envelope /\ truth[id] \in KnownTexts
  BY DEF KeysTyped
<1>3. CASE ~opened.ok \/ ~opened.reseal
  <2>1. store'.rows[id] = row
    BY <1>1, <1>3
  <2> QED BY <1>2, <2>1, RowStays
<1>4. CASE opened.ok /\ opened.reseal
  <2>1. text = truth[id]
    <3>1. CASE row.prefix = ContentPrefix
      <4>1. row.context = id /\ opened.text = row.of
        BY <1>4, <3>1 DEF open_text, Decrypt, Opened, Refused
      <4>2. row.prefix # CompatEscape /\ row.prefix \in ContentFamily
        BY <3>1 DEF ContentPrefix, CompatEscape, ContentFamily
      <4> QED BY <3>1, <4>1, <4>2 DEF RowHolds
    <3>2. CASE row.prefix # ContentPrefix
      BY <3>2 DEF RowHolds, Stripped, ContentFamily
    <3> QED BY <3>1, <3>2
  <2>2. store'.rows[id] = seal_text(cipher, text, id)
    BY <1>1, <1>4
  <2> HIDE DEF text
  <2>3. RowHolds(id)' /\ seal_text(cipher, text, id) \in Envelope
    BY <1>2, <2>1, <2>2, SealedHolds
  <2> QED BY <2>2, <2>3
<1> QED BY <1>3, <1>4

LEMMA MigrateKeeps ==
  ASSUME KeysInv, NEW p \in Procs, Migrate(p)
  PROVE  KeysInv'
<1> DEFINE cipher == proc[p].cipher
<1>1. /\ proc[p].at = "migrate" /\ Goto(p, "up")
      /\ UNCHANGED <<setting, core, root, pin, secret, truth, keeper, starts, writes>>
      /\ store' = IF ~Walked THEN store
                  ELSE [kcv |-> IF match_kcv(cipher, store.kcv) = "retired" /\ AllOpen(cipher)
                                THEN cipher.key ELSE store.kcv,
                        migrated |-> TRUE,
                        rows |-> [id \in Ids |-> reseal_value(cipher, store.rows[id], id)]]
  BY DEF Migrate, At, history
<1>2. KeysTyped /\ Resolved(p) /\ Sealing(p) /\ \A id \in Ids : RowHolds(id)
  BY DEF KeysInv, Fares
<1>3. cipher # None /\ Fits(cipher.key)
  BY <1>1, <1>2 DEF Resolved, Sealing
<1>4. cipher \in Ciphers /\ cipher.key \in AllKeys /\ OwnKey(cipher.key)
  BY <1>1, <1>3, Owns
<1>5. store'.kcv \in {store.kcv, cipher.key}
  BY <1>1
<1>6. \A key \in AllKeys : Fits(key) => Fits(key)'
  <2>1. CASE store'.kcv = store.kcv
    BY <1>1, <2>1, StaysFitting DEF CoreKeys
  <2>2. CASE store'.kcv = cipher.key
    BY <1>1, <1>3, <1>4, <2>2, FitsOn
  <2> QED BY <1>5, <2>1, <2>2
<1>7. Fits(cipher.key)'
  <2>1. ASSUME NEW key \in AllKeys, Fits(key) PROVE Fits(key)'
    BY <1>6, <2>1
  <2>2. cipher' = cipher
    <3>1. /\ proc'[p].cipher = proc[p].cipher
      BY <1>1, <1>2, GoesTo DEF Stages
    <3> QED BY <3>1
  <2> HIDE DEF cipher
  <2> QED BY <1>3, <1>4, <2>1, <2>2 DEF Fits
<1>8. /\ proc' \in [Procs -> Running \cup {Off}] /\ proc'[p].at = "up"
      /\ \A o \in Procs \ {p} : proc'[o] = proc[o]
      /\ proc'[p].delivered = proc[p].delivered /\ proc'[p].master = proc[p].master
      /\ proc'[p].under_core = proc[p].under_core /\ proc'[p].cipher = cipher
      /\ proc'[p].seal = proc[p].seal /\ proc'[p].era = proc[p].era
  BY <1>1, <1>2, GoesTo DEF Stages
<1>9. /\ store' \in [kcv : AllKeys \cup {None}, migrated : BOOLEAN,
                     rows : [Ids -> KnownTexts \cup Envelope]]
      /\ \A id \in Ids : RowHolds(id)'
  <2>1. CASE ~Walked
    <3>1. store' = store
      BY <1>1, <2>1
    <3> QED BY <1>1, <1>2, <1>6, <3>1, RowStays DEF KeysTyped
  <2>2. CASE Walked
    <3>1. /\ store'.rows = [id \in Ids |-> reseal_value(cipher, store.rows[id], id)]
          /\ store' = [kcv |-> store'.kcv, migrated |-> TRUE, rows |-> store'.rows]
      BY <1>1, <2>2
    <3> HIDE DEF cipher
    <3>2. ASSUME NEW id \in Ids
          PROVE  RowHolds(id)' /\ store'.rows[id] \in KnownTexts \cup Envelope
      <4>1. store'.rows[id] = reseal_value(cipher, store.rows[id], id)
        BY <3>1
      <4>2. cipher' = cipher
        BY <1>8 DEF cipher
      <4> QED BY <1>1, <1>2, <1>4, <1>6, <1>7, <4>1, <4>2, ResealHolds
    <3>3. store'.kcv \in AllKeys \cup {None}
      BY <1>2, <1>4, <1>5 DEF KeysTyped
    <3>4. store'.rows \in [Ids -> KnownTexts \cup Envelope]
      BY <3>1, <3>2
    <3>5. store' \in [kcv : AllKeys \cup {None}, migrated : BOOLEAN,
                      rows : [Ids -> KnownTexts \cup Envelope]]
      <4>1. ASSUME NEW kcv \in AllKeys \cup {None}, NEW held \in [Ids -> KnownTexts \cup Envelope]
            PROVE  [kcv |-> kcv, migrated |-> TRUE, rows |-> held] \in
                     [kcv : AllKeys \cup {None}, migrated : BOOLEAN,
                      rows : [Ids -> KnownTexts \cup Envelope]]
        OBVIOUS
      <4>2. PICK kcv \in AllKeys \cup {None}, held \in [Ids -> KnownTexts \cup Envelope] :
              store' = [kcv |-> kcv, migrated |-> TRUE, rows |-> held]
        BY <3>1, <3>3, <3>4
      <4> QED BY <4>1, <4>2
    <3> QED BY <3>2, <3>5
  <2> QED BY <2>1, <2>2
<1>10. ASSUME NEW o \in Procs \ {p} PROVE Sealing(o)'
  <2>1. /\ proc'[o] = proc[o] /\ Resolved(o) /\ Sealing(o)
    BY <1>8 DEF KeysInv, Fares
  <2>2. store.kcv # None
    <3>1. CoreKeys \subseteq AllKeys
      BY <1>2, Subkeys DEF CoreKeys, KeysTyped
    <3> QED BY <1>3, <1>4, <3>1, KeyFacts DEF Fits
  <2>3. ASSUME proc[o].at \in {"record", "migrate"} \/ (proc[o].at = "up" /\ proc[o].seal = "sealing")
        PROVE  Fits(proc[o].cipher.key) /\ proc[o].cipher.key \in AllKeys
    BY <2>1, <2>2, <2>3, Owns DEF Sealing, Resolved
  <2> QED BY <1>6, <2>1, <2>3 DEF Sealing, Fits
<1>11. AsSet(p)' /\ AsDelivered(p)'
  BY <1>1, <1>8, KeepsEnvironment
<1>12. Resolved(p)' /\ Pinning(p)' /\ Rooting(p)'
  BY <1>1, <1>2, <1>3, <1>8 DEF Resolved, Pinning, Rooting
<1>13. Sealing(p)'
  BY <1>7, <1>8 DEF Sealing, Fits
<1> HIDE DEF cipher
<1>14. Fares(p)'
  BY <1>11, <1>12, <1>13 DEF Fares
<1>15. truth' \in [Ids \cup {"secret"} -> KnownTexts] /\ truth'["secret"] = truth["secret"]
  BY <1>1, <1>2 DEF KeysTyped
<1> QED BY <1>1, <1>8, <1>9, <1>10, <1>14, <1>15, StoreMoves

\* No process goes on.
LEMMA AllStand ==
  ASSUME KeysInv, UNCHANGED <<proc, pin>>, store'.kcv = store.kcv, core' \in Eras,
         CoreKeys \subseteq CoreKeys', setting' = setting \/ Quiet, root' = root \/ Quiet
  PROVE  \A o \in Procs : Fares(o)'
<1>1. ASSUME NEW o \in Procs PROVE Fares(o)'
  <2>1. proc'[o] = proc[o] /\ (Quiet => proc[o].at \in {"off", "up"})
    BY DEF Quiet, At, Up
  <2>2. AsSet(o)' /\ AsDelivered(o)' /\ Resolved(o)' /\ Sealing(o)'
    BY <2>1, StaysSet, StaysResolved, StaysSealing
  <2>3. Pinning(o)' /\ Rooting(o)'
    <3>1. CASE root' = root
      BY <2>1, <3>1, StaysRooting
    <3>2. CASE Quiet
      BY <2>1, <3>2 DEF Pinning, Rooting
    <3> QED BY <3>1, <3>2
  <2> QED BY <2>2, <2>3 DEF Fares
<1> QED BY <1>1

\* The store or the secret is written, or both stay.
LEMMA Rewritten ==
  ASSUME KeysInv, UNCHANGED <<setting, core, root, pin, proc, starts>>, store'.kcv = store.kcv,
         store' \in [kcv : AllKeys \cup {None}, migrated : BOOLEAN,
                     rows : [Ids -> KnownTexts \cup Envelope]],
         secret' \in KnownTexts \cup Envelope, keeper' \in BOOLEAN,
         truth' \in [Ids \cup {"secret"} -> KnownTexts],
         \A id \in Ids : RowHolds(id)', SecretHolds'
  PROVE  KeysInv'
<1>1. KeysTyped'
  BY DEF KeysInv, KeysTyped
<1>2. CoreKeys' = CoreKeys /\ core' \in Eras
  BY DEF CoreKeys, KeysInv, KeysTyped
<1>3. \A o \in Procs : Fares(o)'
  BY <1>2, AllStand
<1>4. pin' # None => root' \in {None, pin'}
  BY DEF KeysInv
<1> QED BY <1>1, <1>3, <1>4 DEF KeysInv

\* One row is written.
LEMMA RowWritten ==
  ASSUME KeysInv, UNCHANGED <<setting, core, root, pin, secret, proc, keeper, starts>>,
         NEW id \in Ids, NEW row \in KnownTexts \cup Envelope, NEW text \in KnownTexts,
         store' = [store EXCEPT !.rows[id] = row], truth' = [truth EXCEPT ![id] = text],
         (store'.rows[id] = row /\ truth'[id] = text /\ store'.kcv = store.kcv) => RowHolds(id)'
  PROVE  KeysInv'
<1>1. KeysTyped /\ SecretHolds /\ \A o \in Ids : RowHolds(o)
  BY DEF KeysInv
<1>2. /\ store' \in [kcv : AllKeys \cup {None}, migrated : BOOLEAN,
                     rows : [Ids -> KnownTexts \cup Envelope]]
      /\ store'.kcv = store.kcv /\ store'.rows = [store.rows EXCEPT ![id] = row]
  BY <1>1 DEF KeysTyped
<1>3. /\ store'.rows[id] = row /\ \A o \in Ids \ {id} : store'.rows[o] = store.rows[o]
      /\ truth' \in [Ids \cup {"secret"} -> KnownTexts]
      /\ truth'[id] = text /\ \A o \in (Ids \cup {"secret"}) \ {id} : truth'[o] = truth[o]
  BY <1>1, <1>2 DEF KeysTyped
<1>4. \A key \in AllKeys : Fits(key) => Fits(key)'
  BY <1>2, StaysFitting DEF CoreKeys
<1>5. \A o \in Ids : RowHolds(o)'
  BY <1>1, <1>2, <1>3, <1>4, RowStays
<1>6. truth'["secret"] = truth["secret"]
  BY <1>3, KeysAssumption
<1>7. SecretHolds'
  BY <1>6, SecretStays DEF CoreKeys
<1> QED BY <1>1, <1>2, <1>3, <1>5, <1>7, Rewritten DEF KeysTyped

LEMMA PlainTexts ==
  /\ \A text \in KnownTexts : text.key = NoKey
  /\ \A text \in Legacy : text.prefix \notin ContentFamily
BY KeysAssumption DEF KnownTexts

LEMMA WriteKeeps ==
  ASSUME KeysInv, NEW p \in Procs, NEW id \in Ids, NEW text \in Texts, Write(p, id, text)
  PROVE  KeysInv'
<1> DEFINE row == StoreSeals(p, text, id)
<1>1. /\ proc[p].at = "up" /\ store' = [store EXCEPT !.rows[id] = row]
      /\ truth' = [truth EXCEPT ![id] = text]
      /\ UNCHANGED <<setting, core, root, pin, secret, proc, keeper, starts>>
  BY DEF Write, Written, Up, At
<1>2. KeysTyped /\ Resolved(p) /\ Sealing(p) /\ text \in KnownTexts /\ text.key = NoKey
  BY PlainTexts DEF KeysInv, Fares, KnownTexts
<1>3. CASE proc[p].seal = "sealing"
  <2>1. proc[p].cipher # None /\ Fits(proc[p].cipher.key)
    BY <1>1, <1>2, <1>3 DEF Resolved, Sealing
  <2>2. proc[p].cipher \in Ciphers /\ OwnKey(proc[p].cipher.key)
    BY <1>1, <2>1, Owns
  <2>3. row = seal_text(proc[p].cipher, text, id)
    BY <1>3 DEF StoreSeals
  <2>4. row \in Envelope
    BY <1>2, <2>2, <2>3 DEF seal_text, StringOf, Envelope, Ciphers
  <2>5. (store'.rows[id] = row /\ truth'[id] = text /\ store'.kcv = store.kcv) => RowHolds(id)'
    <3>1. store'.kcv = store.kcv => Fits(proc[p].cipher.key)'
      BY <1>1, <2>1 DEF Fits, CoreKeys
    <3>2. proc'[p].cipher = proc[p].cipher
      BY <1>1
    <3> QED BY <1>1, <1>2, <2>2, <2>3, <3>1, <3>2, SealedHolds DEF Fits
  <2> HIDE DEF row
  <2> QED BY <1>1, <1>2, <2>4, <2>5, RowWritten
<1>4. CASE proc[p].seal # "sealing" /\ text.prefix \in ContentFamily
  <2>1. row = Escaped(text)
    BY <1>4 DEF StoreSeals
  <2>2. row \in Envelope /\ row.prefix = CompatEscape /\ row.key = NoKey /\ row.of = text
    BY <1>2, <2>1 DEF Escaped, StringOf, Envelope
  <2> HIDE DEF row
  <2>3. (store'.rows[id] = row /\ truth'[id] = text) => RowHolds(id)'
    BY <2>2 DEF RowHolds
  <2> QED BY <1>1, <1>2, <2>2, <2>3, RowWritten
<1>5. CASE proc[p].seal # "sealing" /\ text.prefix \notin ContentFamily
  <2>1. row = text
    BY <1>5 DEF StoreSeals
  <2>2. (store'.rows[id] = row /\ truth'[id] = text) => RowHolds(id)'
    BY <1>2, <1>5, <2>1 DEF RowHolds
  <2> HIDE DEF row
  <2> QED BY <1>1, <1>2, <2>1, <2>2, RowWritten
<1> QED BY <1>3, <1>4, <1>5

LEMMA CopyRowKeeps ==
  ASSUME KeysInv, NEW from \in Ids, NEW to \in Ids, CopyRow(from, to)
  PROVE  KeysInv'
<1> DEFINE row == store.rows[from]
           text == IF row.context = to THEN row.of ELSE truth[to]
<1>1. /\ row.prefix = ContentPrefix /\ store' = [store EXCEPT !.rows[to] = row]
      /\ truth' = [truth EXCEPT ![to] = text]
      /\ UNCHANGED <<setting, core, root, pin, secret, proc, keeper, starts>>
  BY DEF CopyRow
<1>2. KeysTyped /\ RowHolds(from) /\ row \in KnownTexts \cup Envelope /\ truth[to] \in KnownTexts
  BY DEF KeysInv, KeysTyped
<1>3. row.context \in Ids /\ row.of \in KnownTexts /\ OwnKey(row.key) /\ Fits(row.key)
  <2>1. row.prefix # CompatEscape /\ row.prefix \in ContentFamily
    BY <1>1 DEF ContentPrefix, CompatEscape, ContentFamily
  <2> QED BY <1>2, <2>1 DEF RowHolds
<1>4. text \in KnownTexts /\ (row.context = to => row.of = text)
  BY <1>2, <1>3
<1> HIDE DEF row, text
<1>5. (store'.rows[to] = row /\ truth'[to] = text /\ store'.kcv = store.kcv) => RowHolds(to)'
  <2>1. ASSUME store'.rows[to] = row, store'.kcv = store.kcv
        PROVE  OwnKey(store.rows[to].key)' /\ Fits(store.rows[to].key)'
    <3>1. store'.rows[to].key = row.key /\ CoreKeys' = CoreKeys
      BY <1>1, <2>1 DEF CoreKeys
    <3> QED BY <1>1, <1>3, <2>1, <3>1 DEF OwnKey, Fits
  <2> QED BY <1>1, <1>3, <1>4, <2>1 DEF RowHolds
<1> QED BY <1>1, <1>2, <1>4, <1>5, RowWritten

\* The secret is written, under a key of its own or of Core's.
LEMMA SecretWritten ==
  ASSUME KeysInv, UNCHANGED <<setting, core, root, pin, store, proc, starts>>,
         NEW cipher, cipher.key \in AllKeys, OwnKey(cipher.key), NEW text \in KnownTexts,
         secret' = seal_with_prefix(cipher, PluginPrefix, text),
         truth' \in [Ids \cup {"secret"} -> KnownTexts], truth'["secret"] = text,
         \A id \in Ids : truth'[id] = truth[id],
         keeper' \in BOOLEAN, keeper' => cipher.key \in CoreKeys
  PROVE  KeysInv'
<1>1. /\ secret'.prefix = PluginPrefix /\ secret'.context = NoContext
      /\ secret'.key = cipher.key /\ secret'.of = text /\ secret' \in Envelope
  BY DEF seal_with_prefix, StringOf, Envelope
<1>2. SecretHolds'
  BY <1>1 DEF SecretHolds, OwnKey, CoreKeys
<1>3. \A key \in AllKeys : Fits(key) => Fits(key)'
  BY StaysFitting DEF CoreKeys
<1>4. \A id \in Ids : RowHolds(id)'
  BY <1>3, RowStays DEF KeysInv
<1> QED BY <1>1, <1>2, <1>4, Rewritten DEF KeysInv, KeysTyped

LEMMA SaveSecretKeeps ==
  ASSUME KeysInv, NEW p \in Procs, NEW text \in Texts, SaveSecret(p, text)
  PROVE  KeysInv'
<1>1. /\ proc[p].at = "up" /\ proc[p].cipher # None
      /\ secret' = seal_with_prefix(proc[p].cipher, PluginPrefix, text)
      /\ truth' = [truth EXCEPT !["secret"] = text]
      /\ keeper' = (proc[p].at # "off" /\ proc[p].delivered # None)
      /\ UNCHANGED <<setting, core, root, pin, store, proc, starts>>
  BY DEF SaveSecret, Written, Up, At, RunByCore
<1>2. KeysTyped /\ text \in KnownTexts
  BY DEF KeysInv, KnownTexts
<1>3. /\ proc[p].cipher.key \in AllKeys /\ OwnKey(proc[p].cipher.key)
      /\ proc[p].delivered # None => proc[p].cipher.key \in CoreKeys
  BY <1>1, Owns
<1>4. /\ truth' \in [Ids \cup {"secret"} -> KnownTexts] /\ truth'["secret"] = text
      /\ \A id \in Ids : truth'[id] = truth[id]
  BY <1>1, <1>2, KeysAssumption DEF KeysTyped
<1> QED BY <1>1, <1>2, <1>3, <1>4, SecretWritten

LEMMA BridgeSavesKeeps ==
  ASSUME KeysInv, NEW text \in Texts, BridgeSaves(text)
  PROVE  KeysInv'
<1>1. /\ secret' = seal_with_prefix(plugin_cipher, PluginPrefix, text)
      /\ truth' = [truth EXCEPT !["secret"] = text] /\ keeper' = TRUE
      /\ UNCHANGED <<setting, core, root, pin, store, proc, starts>>
  BY DEF BridgeSaves, Written
<1>2. KeysTyped /\ text \in KnownTexts
  BY DEF KeysInv, KnownTexts
<1>3. /\ plugin_cipher.key \in CoreKeys /\ plugin_cipher.key \in AllKeys
      /\ OwnKey(plugin_cipher.key)
  BY <1>2, Subkeys DEF plugin_cipher, CoreKeys, OwnKey, KeysTyped
<1>4. /\ truth' \in [Ids \cup {"secret"} -> KnownTexts] /\ truth'["secret"] = text
      /\ \A id \in Ids : truth'[id] = truth[id]
  BY <1>1, <1>2, KeysAssumption DEF KeysTyped
<1> QED BY <1>1, <1>2, <1>3, <1>4, SecretWritten

LEMMA ResealSecretKeeps ==
  ASSUME KeysInv, NEW p \in Procs, ResealSecret(p)
  PROVE  KeysInv'
<1> DEFINE cipher == proc[p].cipher
<1>1. /\ proc[p].at = "up" /\ cipher # None
      /\ secret' = reseal_if_plaintext(cipher, PluginPrefix, secret)
      /\ keeper' = IF secret' = secret THEN keeper
                   ELSE (proc[p].at # "off" /\ proc[p].delivered # None)
      /\ UNCHANGED <<setting, core, root, pin, store, proc, truth, starts>>
  BY DEF ResealSecret, Up, At, RunByCore
<1>2. KeysTyped /\ SecretHolds
  BY DEF KeysInv
<1>3. /\ cipher.key \in AllKeys /\ OwnKey(cipher.key)
      /\ proc[p].delivered # None => cipher.key \in CoreKeys
  BY <1>1, Owns
<1>4. CASE secret' = secret
  <2>1. keeper' = keeper /\ CoreKeys' = CoreKeys
    BY <1>1, <1>4 DEF CoreKeys
  <2>2. SecretHolds'
    BY <1>1, <1>4, <2>1, SecretStays
  <2>3. \A id \in Ids : RowHolds(id)'
    BY <1>1, <2>1, RowsStay
  <2> QED BY <1>1, <1>2, <1>4, <2>1, <2>2, <2>3, Rewritten DEF KeysTyped
<1>5. CASE secret' # secret
  <2>1. /\ secret.prefix # PluginPrefix /\ open_secret(cipher, PluginPrefix, secret).ok
        /\ secret' = seal_with_prefix(cipher, PluginPrefix,
                                      open_secret(cipher, PluginPrefix, secret).text)
    BY <1>1, <1>5 DEF reseal_if_plaintext
  <2>2. open_secret(cipher, PluginPrefix, secret).text = secret
    BY <2>1 DEF open_secret, Opened, Refused
  <2>3. secret = truth["secret"] /\ secret \in KnownTexts
    BY <1>2, <2>1 DEF SecretHolds, KeysTyped
  <2> HIDE DEF cipher
  <2>4. keeper' \in BOOLEAN /\ (keeper' => cipher.key \in CoreKeys)
    BY <1>1, <1>3, <1>5
  <2> QED BY <1>1, <1>2, <1>3, <2>1, <2>2, <2>3, <2>4, SecretWritten DEF KeysTyped
<1> QED BY <1>4, <1>5

LEMMA EnvironmentMoves ==
  ASSUME KeysInv, UNCHANGED <<pin, store, secret, proc, truth, keeper, starts>>,
         setting' \in Settings, core' \in Eras, CoreKeys \subseteq CoreKeys',
         setting' = setting \/ Quiet, root' = root \/ (Quiet /\ root' = None)
  PROVE  KeysInv'
<1>1. KeysTyped'
  BY DEF KeysInv, KeysTyped
<1>2. \A o \in Procs : Fares(o)'
  BY AllStand
<1>3. (\A id \in Ids : RowHolds(id)') /\ SecretHolds'
  BY RowsStay, SecretStays
<1>4. pin' # None => root' \in {None, pin'}
  BY DEF KeysInv
<1> QED BY <1>1, <1>2, <1>3, <1>4 DEF KeysInv

LEMMA EnvironmentKeeps ==
  ASSUME KeysInv, ChangeSetting \/ ReplaceMaster \/ LoseRoot
  PROVE  KeysInv'
<1>1. KeysTyped /\ setting \in Settings /\ core \in Eras
  BY DEF KeysInv, KeysTyped
<1>2. CASE ChangeSetting
  <2>1. /\ Quiet /\ setting' \in Settings
        /\ UNCHANGED <<core, root, pin, store, secret, proc, truth, keeper, starts>>
    BY <1>2 DEF ChangeSetting, folder, history
  <2> QED BY <1>1, <2>1, EnvironmentMoves DEF CoreKeys
<1>3. CASE ReplaceMaster
  <2>1. PICK master \in Masters \ {core.master} :
          core' = [master |-> master, retired |-> (core.retired \cup {core.master}) \ {master}]
    BY <1>3 DEF ReplaceMaster
  <2>2. UNCHANGED <<setting, root, pin, store, secret, proc, truth, keeper, starts>>
    BY <1>3 DEF ReplaceMaster, folder, history
  <2>3. core' \in Eras /\ {core.master} \cup core.retired \subseteq {core'.master} \cup core'.retired
    BY <1>1, <2>1 DEF Eras
  <2>4. CoreKeys \subseteq CoreKeys'
    BY <2>3 DEF CoreKeys, KeysOf
  <2> QED BY <1>1, <2>2, <2>3, <2>4, EnvironmentMoves
<1>4. CASE LoseRoot
  <2>1. /\ Quiet /\ root' = None
        /\ UNCHANGED <<setting, core, pin, store, secret, proc, truth, keeper, starts>>
    BY <1>4 DEF LoseRoot, history
  <2> QED BY <1>1, <2>1, EnvironmentMoves DEF CoreKeys
<1> QED BY <1>2, <1>3, <1>4

LEMMA KeysBegin == KeysInit => KeysInv
<1> SUFFICES ASSUME KeysInit PROVE KeysInv
  OBVIOUS
<1>1. /\ setting \in Settings /\ core = [master |-> Older, retired |-> {}]
      /\ root = None /\ pin = None /\ truth \in [Ids \cup {"secret"} -> Legacy]
      /\ store = [kcv |-> None, migrated |-> FALSE, rows |-> [id \in Ids |-> truth[id]]]
      /\ secret = truth["secret"] /\ proc = [p \in Procs |-> Off] /\ keeper = FALSE /\ starts = 0
  BY DEF KeysInit
<1>2. core \in Eras
  BY <1>1, KeysAssumption DEF Eras
<1>3. /\ truth \in [Ids \cup {"secret"} -> KnownTexts] /\ secret \in KnownTexts
      /\ \A what \in Ids \cup {"secret"} : truth[what] \in Legacy
  BY <1>1 DEF KnownTexts
<1>4. store \in [kcv : AllKeys \cup {None}, migrated : BOOLEAN,
                 rows : [Ids -> KnownTexts \cup Envelope]]
  BY <1>1, <1>3
<1>5. \A p \in Procs : proc[p] = Off /\ proc[p].at = "off"
  BY <1>1 DEF Off
<1>6. KeysTyped
  <2>1. proc \in [Procs -> Running \cup {Off}] /\ starts \in 0..MaxStarts
    BY <1>1, KeyFacts
  <2> QED BY <1>1, <1>2, <1>3, <1>4, <1>5, <2>1 DEF KeysTyped
<1>7. \A id \in Ids : RowHolds(id)
  BY <1>1, <1>3, PlainTexts DEF RowHolds, KnownTexts
<1>8. SecretHolds
  BY <1>1, <1>3, PlainTexts DEF SecretHolds, KnownTexts
<1>9. \A p \in Procs : Fares(p)
  BY <1>5 DEF Fares, AsSet, AsDelivered, Resolved, Pinning, Rooting, Sealing
<1> QED BY <1>1, <1>6, <1>7, <1>8, <1>9 DEF KeysInv

LEMMA ProcStepKeeps ==
  ASSUME KeysInv, NEW p \in Procs, ProcStep(p)
  PROVE  KeysInv'
<1>1. ASSUME NEW second \in BOOLEAN, Start(p, second) PROVE KeysInv'
  BY <1>1, StartKeeps
<1>2. ASSUME ResolveExisting(p) PROVE KeysInv'
  BY <1>2, ResolveExistingKeeps
<1>3. ASSUME ResolveDelivered(p) PROVE KeysInv'
  BY <1>3, ResolveDeliveredKeeps
<1>4. ASSUME ResolveMaster(p) PROVE KeysInv'
  BY <1>4, ResolveMasterKeeps
<1>5. ASSUME ResolveCompat(p) PROVE KeysInv'
  BY <1>5, ResolveCompatKeeps
<1>6. ASSUME LoadRoot(p) PROVE KeysInv'
  BY <1>6, LoadRootKeeps
<1>7. ASSUME CheckUnpinned(p) PROVE KeysInv'
  BY <1>7, CheckUnpinnedKeeps
<1>8. ASSUME CreateRoot(p) PROVE KeysInv'
  BY <1>8, CreateRootKeeps
<1>9. ASSUME WriteRoot(p) PROVE KeysInv'
  BY <1>9, WriteRootKeeps
<1>10. ASSUME PinRoot(p) PROVE KeysInv'
  BY <1>10, PinRootKeeps
<1>11. ASSUME WritePin(p) PROVE KeysInv'
  BY <1>11, WritePinKeeps
<1>12. ASSUME sqlite_store_seal(p) PROVE KeysInv'
  BY <1>12, OpenKeeps
<1>13. ASSUME RecordKey(p) PROVE KeysInv'
  BY <1>13, RecordKeyKeeps
<1>14. ASSUME Migrate(p) PROVE KeysInv'
  BY <1>14, MigrateKeeps
<1>15. ASSUME NEW id \in Ids, NEW text \in Texts, Write(p, id, text) PROVE KeysInv'
  BY <1>15, WriteKeeps
<1>16. ASSUME NEW text \in Texts, SaveSecret(p, text) PROVE KeysInv'
  BY <1>16, SaveSecretKeeps
<1>17. ASSUME ResealSecret(p) PROVE KeysInv'
  BY <1>17, ResealSecretKeeps
<1>18. ASSUME Crash(p) PROVE KeysInv'
  BY <1>18, FailureKeeps DEF Crash, At
<1> QED
  BY <1>1, <1>2, <1>3, <1>4, <1>5, <1>6, <1>7, <1>8, <1>9, <1>10, <1>11, <1>12, <1>13, <1>14,
     <1>15, <1>16, <1>17, <1>18 DEF ProcStep

LEMMA KeysStep == KeysInv /\ [KeysNext]_keysVars => KeysInv'
<1> SUFFICES ASSUME KeysInv, [KeysNext]_keysVars PROVE KeysInv'
  OBVIOUS
<1>1. ASSUME NEW p \in Procs, ProcStep(p) PROVE KeysInv'
  BY <1>1, ProcStepKeeps
<1>2. CASE Environment
  <2>1. ASSUME NEW text \in Texts, BridgeSaves(text) PROVE KeysInv'
    BY <2>1, BridgeSavesKeeps
  <2>2. ASSUME NEW from \in Ids, NEW to \in Ids, CopyRow(from, to) PROVE KeysInv'
    BY <2>2, CopyRowKeeps
  <2> QED BY <1>2, <2>1, <2>2, EnvironmentKeeps DEF Environment
<1>3. CASE UNCHANGED keysVars
  <2>1. setting \in Settings /\ core \in Eras
    BY DEF KeysInv, KeysTyped
  <2>2. UNCHANGED <<setting, core, root, pin, store, secret, proc, truth, keeper, starts>>
    BY <1>3 DEF keysVars
  <2> QED BY <2>1, <2>2, EnvironmentMoves DEF CoreKeys
<1> QED BY <1>1, <1>2, <1>3 DEF KeysNext

\* What every step keeps: what the rows, the secret, the root and the pin may be,
\* and what a process holds at each point of its start (PluginKeys::resolve,
\* standalone_root_cipher, sqlite_store_seal).
THEOREM KeysHold == KeysSpec => []KeysInv
<1>1. KeysInit => KeysInv
  BY KeysBegin
<1>2. KeysInv /\ [KeysNext]_keysVars => KeysInv'
  BY KeysStep
<1> QED BY <1>1, <1>2, PTL DEF KeysSpec

\* A read that gives no error gives what was last written, whoever sealed it under
\* whatever key, and nobody reads an envelope as plaintext.
THEOREM ReadsTrue == KeysSpec => []ReadsAreTrue
<1>1. KeysInv => ReadsAreTrue
  <2> SUFFICES ASSUME KeysInv, NEW p \in Procs, Up(p)
               PROVE  /\ \A id \in Ids : StoreOpens(p, store.rows[id], id).ok =>
                           StoreOpens(p, store.rows[id], id).text = truth[id]
                      /\ proc[p].cipher # None =>
                           (open_secret(proc[p].cipher, PluginPrefix, secret).ok =>
                              open_secret(proc[p].cipher, PluginPrefix, secret).text = truth["secret"])
    BY DEF ReadsAreTrue
  <2>1. ASSUME NEW id \in Ids, StoreOpens(p, store.rows[id], id).ok
        PROVE  StoreOpens(p, store.rows[id], id).text = truth[id]
    <3>1. RowHolds(id)
      BY DEF KeysInv
    <3>2. CASE store.rows[id].prefix = CompatEscape
      <4>1. store.rows[id].of = truth[id]
        BY <3>1, <3>2 DEF RowHolds, ContentPrefix, CompatEscape, ContentFamily
      <4> QED BY <3>2, <4>1 DEF StoreOpens, Opened
    <3>3. CASE store.rows[id].prefix = ContentPrefix
      <4>1. store.rows[id].context = id => store.rows[id].of = truth[id]
        BY <3>1, <3>3 DEF RowHolds, ContentPrefix, CompatEscape, ContentFamily
      <4> QED BY <2>1, <3>3, <4>1
            DEF StoreOpens, open_text, Decrypt, Opened, Refused, ContentPrefix, CompatEscape
    <3>4. CASE store.rows[id].prefix \notin {CompatEscape, ContentPrefix}
      <4>1. store.rows[id] = truth[id]
        BY <3>1, <3>4 DEF RowHolds
      <4> QED BY <2>1, <3>4, <4>1 DEF StoreOpens, open_text, Opened, Refused
    <3> QED BY <3>2, <3>3, <3>4
  <2>2. ASSUME open_secret(proc[p].cipher, PluginPrefix, secret).ok
        PROVE  open_secret(proc[p].cipher, PluginPrefix, secret).text = truth["secret"]
    <3>1. SecretHolds
      BY DEF KeysInv
    <3>2. CASE secret.prefix = PluginPrefix
      BY <2>2, <3>1, <3>2 DEF SecretHolds, open_secret, Decrypt, Opened, Refused
    <3>3. CASE secret.prefix # PluginPrefix
      BY <2>2, <3>1, <3>3 DEF SecretHolds, open_secret, Opened, Refused
    <3> QED BY <3>2, <3>3
  <2> QED BY <2>1, <2>2
<1> QED BY <1>1, KeysHold, PTL

\* A process Core started since the master key was last replaced opens every row of
\* a store it does not refuse, and the secret Core's side wrote opens on both sides.
THEOREM CoreRunsOpen == KeysSpec => []CoreRunOpensAll
<1>1. KeysInv => CoreRunOpensAll
  <2> SUFFICES ASSUME KeysInv PROVE CoreRunOpensAll
    OBVIOUS
  <2>1. KeysTyped /\ SecretHolds /\ CoreKeys \subseteq AllKeys
    BY Subkeys DEF KeysInv, KeysTyped, CoreKeys
  <2>2. ASSUME NEW cipher, Candidates(cipher) = CoreKeys, keeper
        PROVE  open_secret(cipher, PluginPrefix, secret).ok
    BY <2>1, <2>2, KeyFacts DEF SecretHolds, open_secret, Decrypt, Opened
  <2>3. keeper => open_secret(plugin_cipher, PluginPrefix, secret).ok
    <3>1. Candidates(plugin_cipher) = CoreKeys
      BY <2>1, Subkeys DEF plugin_cipher, CoreKeys, KeysTyped
    <3> QED BY <2>2, <3>1
  <2>4. ASSUME NEW p \in Procs, Up(p), RunByCore(p), proc[p].era = core
        PROVE  /\ proc[p].seal = "sealing" =>
                    \A id \in Ids : InPlace(id) => StoreOpens(p, store.rows[id], id).ok
               /\ keeper => open_secret(proc[p].cipher, PluginPrefix, secret).ok
    <3>1. /\ proc[p].at = "up" /\ proc[p].delivered # None /\ Resolved(p) /\ Sealing(p)
          /\ proc[p].era \in Eras
      BY <2>1, <2>4, RunningTyped DEF Up, At, RunByCore, KeysInv, Fares, Running
    <3>2. proc[p].cipher # None
      BY <3>1, Subkeys DEF Resolved
    <3>3. Candidates(proc[p].cipher) = CoreKeys /\ proc[p].cipher.key \in CoreKeys
      BY <2>4, <3>1, <3>2, Owns DEF CoreKeys
    <3>4. ASSUME proc[p].seal = "sealing", NEW id \in Ids, InPlace(id)
          PROVE  StoreOpens(p, store.rows[id], id).ok
      <4>1. RowHolds(id)
        BY DEF KeysInv
      <4>2. CASE store.rows[id].prefix = CompatEscape
        BY <4>2 DEF StoreOpens, Opened
      <4>3. CASE store.rows[id].prefix = ContentPrefix
        <5>1. /\ store.rows[id].context \in Ids /\ OwnKey(store.rows[id].key)
              /\ Fits(store.rows[id].key)
          BY <4>1, <4>3 DEF RowHolds, ContentPrefix, CompatEscape, ContentFamily
        <5>2. store.rows[id].context = id
          BY <3>4, <5>1, KeysAssumption DEF InPlace
        <5>3. Fits(proc[p].cipher.key)
          BY <3>1, <3>4 DEF Sealing
        <5>4. store.rows[id].key \in CoreKeys /\ store.rows[id].key # NoKey
          BY <3>3, <5>1, <5>3, KeyFacts DEF Fits, OwnKey
        <5> QED BY <3>3, <3>4, <4>3, <5>2, <5>4
              DEF StoreOpens, open_text, Decrypt, Opened, ContentPrefix, CompatEscape
      <4>4. CASE store.rows[id].prefix \notin {CompatEscape, ContentPrefix}
        <5>1. store.rows[id].prefix \notin ContentFamily
          BY <4>1, <4>4 DEF RowHolds
        <5> QED BY <3>4, <4>4, <5>1 DEF StoreOpens, open_text, Opened, ContentFamily
      <4> QED BY <4>2, <4>3, <4>4
    <3>5. keeper => open_secret(proc[p].cipher, PluginPrefix, secret).ok
      BY <2>2, <3>3
    <3> QED BY <3>4, <3>5
  <2> QED BY <2>3, <2>4 DEF CoreRunOpensAll
<1> QED BY <1>1, KeysHold, PTL

\* Every run by hand seals under the pinned key, and what is sealed under a root made
\* for the app has that root pinned and, unless the file was lost, on disk.
THEOREM HandKeyKept == KeysSpec => []HandRunsKeepTheirKey
<1>1. KeysInv => HandRunsKeepTheirKey
  <2> SUFFICES ASSUME KeysInv PROVE HandRunsKeepTheirKey
    OBVIOUS
  <2>1. ASSUME NEW p \in Procs, ByHand(p), proc[p].cipher # None,
               proc[p].at \notin {"pin", "write pin"}
        PROVE  proc[p].cipher.key = pin
    <3>1. proc[p].at # "off" /\ ~proc[p].under_core /\ proc[p].delivered = None
      BY <2>1 DEF ByHand, At
    <3>2. proc[p].at \in Stages
      BY <3>1, RunningTyped DEF Running, KeysInv
    <3>3. Resolved(p) /\ Rooting(p)
      BY DEF KeysInv, Fares
    <3> QED BY <2>1, <3>1, <3>2, <3>3 DEF Resolved, Rooting, Stages
  <2>2. ASSUME NEW key \in SealedKeys, Generated(key)
        PROVE  pin = key /\ root \in {key, None}
    <3>1. key # NoKey /\ key.master \notin Masters
      BY <2>2 DEF Generated
    <3>2. OwnKey(key)
      <4>1. ASSUME NEW id \in Ids, key = store.rows[id].key PROVE OwnKey(key)
        BY <3>1, <4>1 DEF KeysInv, RowHolds
      <4>2. ASSUME key = secret.key PROVE OwnKey(key)
        BY <3>1, <4>2 DEF KeysInv, SecretHolds
      <4> QED BY <4>1, <4>2 DEF SealedKeys
    <3>3. key \in AllKeys /\ key = pin
      BY <3>1, <3>2 DEF OwnKey
    <3> QED BY <3>3, KeyFacts DEF KeysInv
  <2> QED BY <2>1, <2>2 DEF HandRunsKeepTheirKey
<1> QED BY <1>1, KeysHold, PTL
=============================================================================
