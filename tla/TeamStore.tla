----------------------------- MODULE TeamStore -----------------------------
(***************************************************************************)
(* TeamStore (backend/src/store.rs): one SQLite connection behind a tokio  *)
(* mutex.  A call waits for the mutex, runs its statements one by one with *)
(* the guard held, and lets the guard go on every way out; create takes    *)
(* the mutex twice, once to insert and once, in get, to read its row back. *)
(* A caller can be dropped where it awaits, and only there.                *)
(***************************************************************************)
EXTENDS TeamRecords

CONSTANT Free  \* the mutex has no holder

ASSUME FreeAssumption == Free \notin Callers

VARIABLES
  rows,    \* the teams table
  seal,    \* how the open store writes its sealed columns
  minted,  \* ids drawn so far
  call,    \* call[c]: the operation c is in, with its arguments
  lock,    \* holder of the connection mutex
  pc,      \* where each call is
  held,    \* held[c]: the record or roster c is about to write
  res      \* res[c]: what c's call returned

vars == <<rows, seal, minted, call, lock, pc, held, res>>

Places == {"idle", "wait", "locked", "write", "readback", "rewait", "relocked",
           "done", "dropped"}

TypeOK ==
  /\ rows \in [TeamIds -> Row \cup {NoRow}]
  /\ seal \in SealStates
  /\ minted \in SUBSET TeamIds
  /\ call \in [Callers -> Calls \cup {NoCall}]
  /\ lock \in Callers \cup {Free}
  /\ pc \in [Callers -> Places]
  /\ held \in [Callers -> Row \cup {NoRow}]
  /\ res \in [Callers -> Answer]

Init ==
  /\ seal \in SealStates
  /\ rows \in [TeamIds -> RowsAtOpen(seal) \cup {NoRow}]
  /\ minted = Present(rows)
  /\ call = [c \in Callers |-> NoCall]
  /\ lock = Free
  /\ pc = [c \in Callers |-> "idle"]
  /\ held = [c \in Callers |-> NoRow]
  /\ res = [c \in Callers |-> Pending]

At(c, place) == pc[c] = place
Runs(c, ops) == call[c].op \in ops
Target(c) == call[c].id
TheRow(c) == rows[Target(c)]

GoTo(c, place) == pc' = [pc EXCEPT ![c] = place]

(* A fault: the lock is taken for each statement. *)
LetGo(c, place) == GoTo(c, place) /\ lock' = Free /\ UNCHANGED res

(* The call keeps the guard and goes on. *)
HoldOn(c, place) == GoTo(c, place) /\ UNCHANGED <<lock, res>>

(* The call is over: the guard goes out of scope. *)
Return(c, answer) ==
  /\ GoTo(c, "done")
  /\ lock' = Free
  /\ res' = [res EXCEPT ![c] = answer]

ReadAnswer(c) == Read(Target(c), TheRow(c), seal)

(* A call starts; create draws its id before it asks for the mutex. *)
Begin(c) ==
  /\ At(c, "idle")
  /\ GoTo(c, "wait")
  /\ \E request \in Calls :
       /\ call' = [call EXCEPT ![c] = request]
       /\ IF request.op = "create"
            THEN request.id \notin minted /\ minted' = minted \cup {request.id}
            ELSE UNCHANGED minted
  /\ UNCHANGED <<rows, seal, lock, held, res>>

(* `self.conn.lock().await` resolves. *)
Acquire(c) ==
  /\ pc[c] \in {"wait", "rewait"}
  /\ lock = Free
  /\ lock' = c
  /\ GoTo(c, IF At(c, "wait") THEN "locked" ELSE "relocked")
  /\ UNCHANGED <<rows, seal, minted, call, held, res>>

(* The future is dropped at an await: the caller holds no guard there. *)
Drop(c) ==
  /\ pc[c] \in {"wait", "rewait"}
  /\ GoTo(c, "dropped")
  /\ UNCHANGED <<rows, seal, minted, call, lock, held, res>>

RunGet(c) ==
  /\ At(c, "locked") /\ Runs(c, {"get"})
  /\ Return(c, ReadAnswer(c))
  /\ UNCHANGED <<rows, seal, minted, call, held>>

RunList(c) ==
  /\ At(c, "locked") /\ Runs(c, {"list"})
  /\ Return(c, Listing({id \in TeamIds : Listable(rows[id], seal)}))
  /\ UNCHANGED <<rows, seal, minted, call, held>>

(* INSERT; the block that holds the guard ends here, with or without error. *)
RunInsert(c) ==
  /\ At(c, "locked") /\ Runs(c, {"create"})
  /\ \/ /\ Writable(seal)
        /\ rows' = [rows EXCEPT ![Target(c)] = Inserted(call[c].body, seal)]
        /\ GoTo(c, "rewait")
        /\ res' = [res EXCEPT ![c] = Says("inserted", Target(c))]
        /\ lock' = Free
     \/ /\ ~Writable(seal)
        /\ Return(c, Says("refused", Target(c)))
        /\ UNCHANGED rows
  /\ UNCHANGED <<seal, minted, call, held>>

(* create's `self.get(&id)`. *)
RunConfirm(c) ==
  /\ At(c, "relocked")
  /\ Return(c, Confirmed(Target(c), TheRow(c), seal))
  /\ UNCHANGED <<rows, seal, minted, call, held>>

RunDelete(c) ==
  /\ At(c, "locked") /\ Runs(c, {"delete"})
  /\ rows' = [rows EXCEPT ![Target(c)] = NoRow]
  /\ Return(c, Says(IF TheRow(c) = NoRow THEN "missing" ELSE "deleted", Target(c)))
  /\ UNCHANGED <<seal, minted, call, held>>

(* A fault: add_member does not look whether the agent is a member. *)
EndsWithoutTeam(c) == ReadAnswer(c).kind # "team"

(* get_record inside update, add_member and remove_member: the call ends   *)
(* here without a readable row, and for add_member when nothing is to do.  *)
EndsAtRead(c) ==
  IF ReadAnswer(c).kind = "team"
    THEN Runs(c, {"add"}) /\ IsMember(TheRow(c).members, call[c].agent)
    ELSE TRUE

(* The record with this call's change folded in. *)
Changed(c) ==
  CASE Runs(c, {"update"}) -> ApplyPatch(TheRow(c), call[c].patch)
    [] Runs(c, {"add"}) -> [TheRow(c) EXCEPT !.members = Append(@, call[c].agent)]
    [] Runs(c, {"remove"}) -> [TheRow(c) EXCEPT !.members = Without(@, call[c].agent)]

RunRead(c) ==
  /\ At(c, "locked") /\ Runs(c, {"update", "add", "remove"})
  /\ \/ /\ EndsAtRead(c)
        /\ Return(c, ReadAnswer(c))
        /\ UNCHANGED held
     \/ /\ ~EndsAtRead(c)
        /\ held' = [held EXCEPT ![c] = Changed(c)]
        /\ HoldOn(c, "write")
  /\ UNCHANGED <<rows, seal, minted, call>>

(* UPDATE teams SET every column, sealing the sealed ones. *)
RunUpdate(c) ==
  /\ At(c, "write") /\ Runs(c, {"update"})
  /\ \/ /\ Writable(seal)
        /\ rows' = [rows EXCEPT ![Target(c)] = OnRow(@, UpdatedRow(@, held[c], seal))]
        /\ HoldOn(c, "readback")
     \/ /\ ~Writable(seal)
        /\ Return(c, Says("refused", Target(c)))
        /\ UNCHANGED rows
  /\ UNCHANGED <<seal, minted, call, held>>

(* write_members: UPDATE teams SET members, updated_at. *)
RunWriteMembers(c) ==
  /\ At(c, "write") /\ Runs(c, {"add", "remove"})
  /\ rows' = [rows EXCEPT ![Target(c)] = OnRow(@, RewrittenMembers(@, held[c].members))]
  /\ HoldOn(c, "readback")
  /\ UNCHANGED <<seal, minted, call, held>>

(* The final get_record of update, add_member and remove_member. *)
RunReadBack(c) ==
  /\ At(c, "readback")
  /\ Return(c, ReadAnswer(c))
  /\ UNCHANGED <<rows, seal, minted, call, held>>

(* Every statement a call runs with the guard held. *)
Run(c) ==
  \/ RunGet(c) \/ RunList(c) \/ RunInsert(c) \/ RunConfirm(c) \/ RunDelete(c)
  \/ RunRead(c) \/ RunUpdate(c) \/ RunWriteMembers(c) \/ RunReadBack(c)

(* All calls are over: the run may stop here. *)
Finished == (\A c \in Callers : pc[c] \in {"done", "dropped"}) /\ UNCHANGED vars

Next == (\E c \in Callers : Begin(c) \/ Acquire(c) \/ Drop(c) \/ Run(c)) \/ Finished

Spec == Init /\ [][Next]_vars
-----------------------------------------------------------------------------
Inside == {"locked", "write", "readback", "relocked"}

(* The guard is held by exactly the call that is between its statements:   *)
(* no early return, error or dropped future leaves the mutex taken, and no *)
(* two calls of the store run their statements at the same time.           *)
GuardMatchesPlace == \A c \in Callers : pc[c] \in Inside <=> lock = c

(* `Keep the complete read-modify-write under one lock' (update): the row  *)
(* a call is about to write over is still the one it read: what it decided *)
(* then still holds and no other call's field or roster entry is lost.     *)
NoStaleWrite ==
  \A c \in Callers : At(c, "write") => ~EndsAtRead(c) /\ held[c] = Changed(c)

(* The answer the callers of the specification hold: a call whose UPDATE   *)
(* has run will return the row as it is now.                               *)
Answered ==
  [c \in Callers |->
     IF pc[c] = "readback" THEN Read(call[c].id, rows[call[c].id], seal) ELSE res[c]]

(* Every operation of the store takes effect at one instant on the current *)
(* row, create at two, and is answered from that instant: TeamStore        *)
(* implements AtomicTeams.                                                 *)
Atomic == INSTANCE AtomicTeams WITH ret <- Answered

ImplementsAtomic == Atomic!Spec
=============================================================================
