---------------------------- MODULE ContentSeal ----------------------------
(***************************************************************************)
(* The life of one sealed SQLite store on disk: open_store (crypto/src/    *)
(* plugin_keys/sql.rs) and the key check, migration and plaintext scrub it *)
(* runs (crypto/src/content_sqlite.rs), with a crash possible after every  *)
(* transaction, opens under other keys, and a keyless process that opened  *)
(* the store before it was sealed and still writes to it.                  *)
(*                                                                         *)
(* A row is one value per sealed column, a value abstracted to how it is   *)
(* stored; a row's key is its place in the cursor's order.                 *)
(***************************************************************************)
EXTENDS Naturals, FiniteSets

CONSTANTS
  Columns,       \* number of sealed columns, walked in order: the plan
  LastRow,       \* row keys are 1..LastRow
  BATCH_SIZE,    \* rows per migration transaction
  Roots,         \* key roots
  NoKcv,         \* the store's record names no root, or there is no record
  NoRow,         \* no row under this key
  MaxOpens       \* bound on the number of keyed opens

ASSUME BoundsAssumption ==
  /\ Columns \in Nat \ {0} /\ LastRow \in Nat /\ MaxOpens \in Nat
  /\ BATCH_SIZE \in Nat \ {0}
  /\ NoKcv \notin Roots /\ {"null", "plain", "lost"} \cap Roots = {}

Items == 1..Columns
RowKeys == 1..LastRow

(* plain: legacy or keyless plaintext; lost: an envelope nothing opens; a  *)
(* root: an envelope under that root.                                      *)
Values == Roots \cup {"null", "plain", "lost"}

Row == [Items -> Values]

(* The keys a process holds. *)
KeySets == [current : Roots, retired : SUBSET Roots]

Held(held) == {held.current} \cup held.retired

(* Where freed plaintext may still lie: frames of the WAL, free pages,     *)
(* unused parts of pages in use.                                           *)
Residues == {"wal", "free", "fragment"}

(* The store row of ryu_content_seal: the root it was sealed under, the    *)
(* scrub it owes, and whether the free pages are clean already.            *)
StoreRecord == [kcv : Roots \cup {NoKcv}, owed : BOOLEAN, scrubbed : BOOLEAN]

VARIABLES
  resets,    \* a Core owner: it resets the items of a store under a retired
             \* root, and compacts a large store once it serves
  rows,      \* rows[k]: the row under key k, or NoRow
  record,    \* the store row of ryu_content_seal
  item,      \* item[i]: state and cursor of column i's migration
  residue,   \* where plaintext freed by a migration may still be read
  pc,        \* where the keyed process is
  keys,      \* the keys it holds
  run,       \* its open: wasRetired, column, sealed, unreadable, pass;
             \* compactions it has queued
  opens,     \* keyed opens so far
  keyless,   \* a process without key has the store open in compat mode
  disturbed  \* history variable: when the keyless process last wrote

disk == <<rows, record, item, residue>>
vars == <<resets, rows, record, item, residue, pc, keys, run, opens, keyless, disturbed>>

Places == {"closed", "pending", "checkpoint", "scrub", "vacuum", "settle", "reopen",
           "item", "batch", "finish", "serving", "unhealthy"}

(* How far a column is migrated: the row of its item in ryu_content_seal. *)
Progress == [state : {"absent", "pending", "sealing", "sealed"}, cursor : 0..LastRow]

Runs == [wasRetired : BOOLEAN, column : 1..(Columns + 1), sealed : BOOLEAN,
         unreadable : BOOLEAN, pass : {"start", "finish", "deferred"}, queued : BOOLEAN]

NoRun == [wasRetired |-> FALSE, column |-> 1, sealed |-> FALSE, unreadable |-> FALSE,
          pass |-> "start", queued |-> FALSE]

TypeOK ==
  /\ resets \in BOOLEAN
  /\ rows \in [RowKeys -> Row \cup {NoRow}]
  /\ record \in StoreRecord
  /\ item \in [Items -> Progress]
  /\ residue \subseteq Residues
  /\ pc \in Places
  /\ keys \in KeySets
  /\ run \in Runs
  /\ opens \in 0..MaxOpens
  /\ keyless \in BOOLEAN
  /\ disturbed \in {"no", "before", "after"}

Fresh == [state |-> "absent", cursor |-> 0]
Sealed == [state |-> "sealed", cursor |-> 0]

(* A store no key ever touched, which may hold plaintext freed before      *)
(* secure_delete; or one sealed earlier, which may hold damaged values.    *)
Init ==
  /\ resets \in BOOLEAN
  /\ pc = "closed" /\ run = NoRun /\ opens = 0 /\ disturbed = "no"
  /\ keys \in {held \in KeySets : held.retired = {}}
  /\ \/ /\ rows \in [RowKeys -> [Items -> {"plain"}] \cup {NoRow}]
        /\ record = [kcv |-> NoKcv, owed |-> FALSE, scrubbed |-> FALSE]
        /\ item = [i \in Items |-> Fresh]
        /\ residue \in {{}, {"free", "fragment"}}
        /\ keyless \in BOOLEAN
     \/ /\ rows \in [RowKeys -> [Items -> {keys.current, "lost"}] \cup {NoRow}]
        /\ record = [kcv |-> keys.current, owed |-> FALSE, scrubbed |-> FALSE]
        /\ item = [i \in Items |-> Sealed]
        /\ residue = {}
        /\ keyless = FALSE

GoTo(place) == pc' = place

(* What ryu_open and reseal_value open with the process's keys. *)
Readable(value) == value \in Held(keys) \cup {"plain", "null"}
-----------------------------------------------------------------------------
(* How the recorded root relates to the keys of the process. *)
KeyState(held) ==
  IF record.kcv = NoKcv THEN "Recorded"
  ELSE IF record.kcv = held.current THEN "Current"
  ELSE IF record.kcv \in held.retired THEN "Retired" ELSE "Mismatch"

(* check_store_key: a store with no recorded root is recorded under the    *)
(* current one; one recorded under a root not held is unhealthy.           *)
Open ==
  /\ pc = "closed" /\ opens < MaxOpens
  /\ opens' = opens + 1
  /\ \E held \in KeySets :
       /\ held.current \notin held.retired
       /\ keys' = held
       /\ record' = [record EXCEPT !.kcv = IF @ = NoKcv THEN held.current ELSE @]
       /\ run' = [NoRun EXCEPT !.wasRetired = KeyState(held) = "Retired"]
       /\ GoTo(IF KeyState(held) = "Mismatch" THEN "unhealthy" ELSE "pending")
  /\ UNCHANGED <<resets, rows, item, residue, keyless, disturbed>>

(* run_pending_vacuum: nothing is owed, or not again today. *)
StartPass ==
  /\ pc = "pending"
  /\ GoTo("reopen") \/ (record.owed /\ GoTo("checkpoint"))
  /\ UNCHANGED <<resets, rows, record, item, residue, keys, run, opens, keyless, disturbed>>

(* open_store goes on after either pass, whatever came of it. *)
Go(pass) == GoTo(IF pass = "start" THEN "reopen" ELSE "serving")

Owe(scrubbed) == record' = [record EXCEPT !.owed = TRUE, !.scrubbed = scrubbed]

(* finish_store marks the debt again when it stops short, run_pending_     *)
(* vacuum leaves it as it is.                                              *)
StopShort(scrubbed) ==
  /\ Go(run.pass)
  /\ IF run.pass = "finish" THEN Owe(scrubbed) ELSE UNCHANGED record

(* wal_checkpoint(TRUNCATE): another connection may hold old frames. *)
Checkpoint ==
  /\ pc = "checkpoint"
  /\ \/ residue' = residue \ {"wal"} /\ GoTo("scrub") /\ UNCHANGED record
     \/ StopShort(FALSE) /\ UNCHANGED residue
  /\ UNCHANGED <<resets, rows, item, keys, run, opens, keyless, disturbed>>

(* scrub_freelist, unless the record says it is done; a full disk stops it.*)
Scrub ==
  /\ pc = "scrub"
  /\ \/ record.owed /\ record.scrubbed /\ GoTo("vacuum") /\ UNCHANGED <<record, residue>>
     \/ /\ ~(record.owed /\ record.scrubbed)
        /\ residue' = residue \ {"wal", "free"}
        /\ GoTo("vacuum")
        /\ IF run.pass = "finish" THEN UNCHANGED record ELSE Owe(TRUE)
     \/ ~(record.owed /\ record.scrubbed) /\ StopShort(FALSE) /\ UNCHANGED residue
  /\ UNCHANGED <<resets, rows, item, keys, run, opens, keyless, disturbed>>

(* VACUUM and the checkpoint after it, when the disk has room (and, after  *)
(* a migration, the store is small enough); either may fail.               *)
Vacuum ==
  /\ pc = "vacuum"
  /\ \/ residue' = {} /\ GoTo("settle") /\ UNCHANGED record
     \/ \E scrubbed \in BOOLEAN : StopShort(scrubbed) /\ UNCHANGED residue
  /\ UNCHANGED <<resets, rows, item, keys, run, opens, keyless, disturbed>>

Settle ==
  /\ pc = "settle"
  /\ record' = [record EXCEPT !.owed = FALSE, !.scrubbed = FALSE]
  /\ Go(run.pass)
  /\ UNCHANGED <<resets, rows, item, residue, keys, run, opens, keyless, disturbed>>

Pending == [state |-> "pending", cursor |-> 0]

HoldsPlain(i) == \E k \in RowKeys : rows[k] # NoRow /\ rows[k][i] = "plain"

(* A fault: an open does not look for plaintext in finished columns. *)
ReopenNothing ==
  /\ pc = "reopen"
  /\ disturbed' = "no"
  /\ GoTo("item")
  /\ UNCHANGED <<resets, rows, record, item, residue, keys, run, opens, keyless>>

(* reopen_plaintext_items; an owner that follows StoreKeyState::Retired    *)
(* also resets every item.                                                 *)
Reopen ==
  /\ pc = "reopen"
  /\ item' = [i \in Items |->
                IF run.wasRetired /\ resets THEN Pending
                ELSE IF item[i].state = "sealed" /\ HoldsPlain(i) THEN Pending ELSE item[i]]
  /\ disturbed' = IF disturbed # "no" /\ \E i \in Items : item[i].state = "sealing"
                     THEN "before" ELSE "no"
  /\ GoTo("item")
  /\ UNCHANGED <<resets, rows, record, residue, keys, run, opens, keyless>>

(* A fault: the debt is recorded only once the migration is over. *)
OweNothing == UNCHANGED record

(* mark_scrub_owed: the store owes a scrub; a finished one is forgotten. *)
MarkScrubOwed == Owe(FALSE)

(* migrate_columns: the next item is skipped, or started; after the last   *)
(* one open_store scrubs when this run sealed anything.                    *)
NextItem ==
  /\ pc = "item"
  /\ \/ /\ run.column > Columns
        /\ run' = [run EXCEPT !.pass = "finish"]
        /\ GoTo(IF run.sealed THEN "checkpoint" ELSE "serving")
        /\ UNCHANGED <<item, record>>
     \/ /\ run.column \in Items
        /\ item[run.column].state = "sealed"
        /\ run' = [run EXCEPT !.column = @ + 1]
        /\ UNCHANGED <<item, record, pc>>
     \/ /\ run.column \in Items
        /\ item[run.column].state # "sealed"
        /\ MarkScrubOwed
        /\ item' = [item EXCEPT ![run.column].state = "sealing"]
        /\ GoTo("batch")
        /\ UNCHANGED run
  /\ UNCHANGED <<resets, rows, residue, keys, opens, keyless, disturbed>>

(* The keys of the rows after the cursor, at most BATCH_SIZE of them. *)
BatchAfter(cursor) ==
  {k \in RowKeys :
     /\ k > cursor /\ rows[k] # NoRow
     /\ Cardinality({j \in (cursor + 1)..k : rows[j] # NoRow}) <= BATCH_SIZE}

Last(batch) == CHOOSE k \in batch : \A j \in batch : j <= k

(* A fault: a value that does not open is sealed as if it were plaintext. *)
ResealedAnyway(value) == IF value = "null" THEN value ELSE keys.current

(* reseal_value: what opens and is not under the current root is sealed    *)
(* under it; what does not open stays.                                     *)
Resealed(value) ==
  IF value = "plain" \/ value \in Held(keys) THEN keys.current ELSE value

Batch ==
  /\ pc = "batch"
  /\ LET i == run.column
         batch == BatchAfter(item[i].cursor)
         opened == {k \in batch : Resealed(rows[k][i]) # rows[k][i]}
     IN  /\ rows' = [k \in RowKeys |->
                       IF k \in batch THEN [rows[k] EXCEPT ![i] = Resealed(@)] ELSE rows[k]]
         /\ residue' = IF \E k \in batch : rows[k][i] = "plain"
                         THEN residue \cup {"wal"} ELSE residue
         /\ item' = IF batch = {} THEN item ELSE [item EXCEPT ![i].cursor = Last(batch)]
         /\ run' = [run EXCEPT
              !.sealed = @ \/ opened # {},
              !.unreadable = @ \/ \E k \in batch : ~Readable(rows[k][i])]
         /\ IF Cardinality(batch) < BATCH_SIZE THEN GoTo("finish") ELSE UNCHANGED pc
  /\ UNCHANGED <<resets, record, keys, opens, keyless, disturbed>>

(* A fault: the record moves although a value stayed unreadable. *)
RecordMovesAnyway ==
  run.wasRetired /\ \A i \in Items : item'[i].state \in {"sealed", "absent"}

(* all_items_sealed looks at the items that have a row. *)
RecordMoves ==
  /\ run.wasRetired /\ ~run.unreadable
  /\ \A i \in Items : item'[i].state \in {"sealed", "absent"}

(* The item is sealed; the last one of a run without an unreadable value   *)
(* moves a retired store's record to the current root, in one transaction. *)
FinishItem ==
  /\ pc = "finish"
  /\ item' = [item EXCEPT ![run.column] = Sealed]
  /\ record' = [record EXCEPT !.kcv = IF RecordMoves THEN keys.current ELSE @]
  /\ run' = [run EXCEPT !.column = @ + 1]
  /\ GoTo("item")
  /\ UNCHANGED <<resets, rows, residue, keys, opens, keyless, disturbed>>
-----------------------------------------------------------------------------
(* The sealing store serves: an INSERT or UPDATE seals every column (a     *)
(* NULL stays NULL) under the current root; ryu_open must have read the    *)
(* row an UPDATE starts from.                                              *)
ServeWrite ==
  /\ pc = "serving"
  /\ \E k \in RowKeys, row \in [Items -> {keys.current, "null"}] :
       /\ rows[k] # NoRow => \A i \in Items : Readable(rows[k][i])
       /\ rows' = [rows EXCEPT ![k] = row]
  /\ UNCHANGED <<resets, record, item, residue, pc, keys, run, opens, keyless, disturbed>>

(* DELETE needs no key. *)
ServeDelete ==
  /\ pc \in {"serving", "unhealthy"}
  /\ \E k \in RowKeys : rows[k] # NoRow /\ rows' = [rows EXCEPT ![k] = NoRow]
  /\ UNCHANGED <<resets, record, item, residue, pc, keys, run, opens, keyless, disturbed>>

(* defer_compaction: the owner of a store that still owes its VACUUM queues *)
(* a job for the background worker.                                        *)
DeferCompaction ==
  /\ pc = "serving" /\ resets /\ record.owed /\ ~run.queued
  /\ run' = [run EXCEPT !.queued = TRUE]
  /\ UNCHANGED <<resets, rows, record, item, residue, pc, keys, opens, keyless, disturbed>>

(* The worker takes the job and, once it has the store's connection, runs  *)
(* compact_deferred on it: requests wait.                                  *)
RunDeferred ==
  /\ pc = "serving" /\ run.queued
  /\ run' = [run EXCEPT !.queued = FALSE, !.pass = "deferred"]
  /\ GoTo("serving") \/ (record.owed /\ GoTo("checkpoint"))
  /\ UNCHANGED <<resets, rows, record, item, residue, keys, opens, keyless, disturbed>>

(* The process stops, or crashes, between any two of its transactions. *)
Stop ==
  /\ pc # "closed"
  /\ GoTo("closed")
  /\ run' = NoRun
  /\ UNCHANGED <<resets, rows, record, item, residue, keys, opens, keyless, disturbed>>

(* A process the host delivered no key to opens a store without a record   *)
(* in compat mode, and writes plaintext for as long as it runs.            *)
KeylessOpen ==
  /\ ~keyless /\ record.kcv = NoKcv
  /\ keyless' = TRUE
  /\ UNCHANGED <<resets, rows, record, item, residue, pc, keys, run, opens, disturbed>>

KeylessWrite ==
  /\ keyless
  /\ \E k \in RowKeys, row \in [Items -> {"plain", "null"}] :
       /\ rows[k] # NoRow => \A i \in Items : rows[k][i] \in {"plain", "null"}
       /\ rows' = [rows EXCEPT ![k] = row]
  /\ disturbed' = "after"
  /\ UNCHANGED <<resets, record, item, residue, pc, keys, run, opens, keyless>>

KeylessExit ==
  /\ keyless
  /\ keyless' = FALSE
  /\ UNCHANGED <<resets, rows, record, item, residue, pc, keys, run, opens, disturbed>>

(* The steps of open_store. *)
Step ==
  \/ StartPass \/ Checkpoint \/ Scrub \/ Vacuum \/ Settle
  \/ Reopen \/ NextItem \/ Batch \/ FinishItem

Next ==
  \/ Open \/ Step \/ ServeWrite \/ ServeDelete \/ DeferCompaction \/ RunDeferred \/ Stop
  \/ KeylessOpen \/ KeylessWrite \/ KeylessExit

Spec == Init /\ [][Next]_vars
-----------------------------------------------------------------------------
(* A store that serves as sealing holds no plaintext in a sealed column,   *)
(* after any crashes of earlier opens, unless a keyless process wrote some *)
(* after this open looked, or while an earlier one's walk of a column was  *)
(* unfinished.                                                             *)
ServedStoreIsSealed ==
  pc = "serving" /\ disturbed = "no" => \A i \in Items : ~HoldsPlain(i)

(* Plaintext a migration freed is owed a scrub from before its first cell  *)
(* is rewritten until a VACUUM has run, whatever crashed in between; and   *)
(* the record calls the free pages clean only when they are.               *)
ResidueIsOwed ==
  /\ residue # {} /\ (\E i \in Items : item[i].state \in {"sealing", "sealed"}) => record.owed
  /\ record.owed /\ record.scrubbed => residue \subseteq {"fragment"}

(* No open and no write loses a value: what the process opens it opens     *)
(* after, and what it does not open it leaves as it is, but for a DELETE;  *)
(* on an unhealthy store nothing but a DELETE or the keyless process       *)
(* touches a row.                                                          *)
NothingIsLost ==
  [][\A k \in RowKeys :
       rows[k] # NoRow /\ rows'[k] # NoRow /\ pc # "closed" =>
         \A i \in Items :
           /\ ~Readable(rows[k][i]) => rows'[k][i] = rows[k][i]
           /\ Readable(rows[k][i]) => Readable(rows'[k][i])]_vars

(* A record moves to another root only when no value is left under an      *)
(* older root or unreadable.                                               *)
MovesResealed ==
  record.kcv # NoKcv /\ record'.kcv # record.kcv =>
    \A k \in RowKeys :
      rows'[k] # NoRow => \A i \in Items : rows'[k][i] \in {record'.kcv, "plain", "null"}

(* `If any value stayed unreadable, the retired record is kept': so it is, *)
(* across the crashes and later opens of an owner that resets the items.   *)
RecordMovesAfterReset == [][resets => MovesResealed]_vars
=============================================================================
