----------------------------- MODULE TeamTable -----------------------------
(***************************************************************************)
(* The teams table as each caller of TeamStore sees it (backend/src/       *)
(* store.rs): every operation takes effect at one instant, on the row as   *)
(* it is then, and the caller holds its answer.  The module has no         *)
(* next-state relation of its own: AtomicTeams makes these operations the  *)
(* specification the mutex-guarded store implements, and TeamsApi composes *)
(* them into the HTTP handlers.                                            *)
(***************************************************************************)
EXTENDS TeamRecords

VARIABLES
  rows,    \* rows[id]: the row of team id, or NoRow
  seal,    \* how the open store writes its sealed columns
  ret      \* ret[c]: the answer caller c holds

table == <<rows, seal, ret>>

TableTypeOK ==
  /\ rows \in [TeamIds -> Row \cup {NoRow}]
  /\ seal \in SealStates
  /\ ret \in [Callers -> Answer]

TableInit ==
  /\ seal \in SealStates
  /\ rows \in [TeamIds -> RowsAtOpen(seal) \cup {NoRow}]
  /\ ret = [c \in Callers |-> Pending]

Reply(c, answer) == ret' = [ret EXCEPT ![c] = answer]

ReplyRead(c, id) == Reply(c, Read(id, rows'[id], seal))

(* TeamStore::get *)
Get(c, id) ==
  /\ UNCHANGED <<rows, seal>>
  /\ ReplyRead(c, id)

(* TeamStore::list *)
List(c) ==
  /\ Reply(c, Listing({id \in TeamIds : Listable(rows[id], seal)}))
  /\ UNCHANGED <<rows, seal>>

(* TeamStore::create up to the end of its locked block: ryu_seal may refuse. *)
Insert(c, id, body) ==
  /\ rows' = IF Writable(seal) THEN [rows EXCEPT ![id] = Inserted(body, seal)] ELSE rows
  /\ Reply(c, Says(IF Writable(seal) THEN "inserted" ELSE "refused", id))
  /\ UNCHANGED seal

(* The rest of TeamStore::create: the row is read again under a new lock. *)
Confirm(c, id) ==
  /\ ret[c].kind = "inserted"
  /\ Reply(c, Confirmed(id, rows[id], seal))
  /\ UNCHANGED <<rows, seal>>

(* TeamStore::update *)
Update(c, id, patch) ==
  /\ UNCHANGED seal
  /\ \/ /\ Read(id, rows[id], seal).kind # "team"
        /\ UNCHANGED rows
        /\ ReplyRead(c, id)
     \/ /\ Read(id, rows[id], seal).kind = "team"
        /\ ~Writable(seal)
        /\ UNCHANGED rows
        /\ Reply(c, Says("refused", id))
     \/ /\ Read(id, rows[id], seal).kind = "team"
        /\ Writable(seal)
        /\ rows' = [rows EXCEPT ![id] = UpdatedRow(@, ApplyPatch(@, patch), seal)]
        /\ ReplyRead(c, id)

(* A fault: the number of rows deleted is not looked at. *)
DeleteUncounted(c, id) ==
  /\ Reply(c, Says("deleted", id))
  /\ rows' = [rows EXCEPT ![id] = NoRow]
  /\ UNCHANGED seal

(* TeamStore::delete never opens the row and never seals. *)
Delete(c, id) ==
  /\ Reply(c, Says(IF rows[id] = NoRow THEN "missing" ELSE "deleted", id))
  /\ rows' = [rows EXCEPT ![id] = NoRow]
  /\ UNCHANGED seal

(* The two member operations read the row, and stop there when there is no *)
(* readable team or nothing to write; write_members seals nothing.         *)
Rewrite(c, id, goesOn, members) ==
  /\ UNCHANGED seal
  /\ rows' = IF Read(id, rows[id], seal).kind = "team" /\ goesOn
               THEN [rows EXCEPT ![id] = RewrittenMembers(@, members)]
               ELSE rows
  /\ ReplyRead(c, id)

(* TeamStore::add_member returns early when the agent is a member. *)
AddMember(c, id, agent) ==
  Rewrite(c, id, ~IsMember(rows[id].members, agent), Joined(rows[id].members, agent))

(* TeamStore::remove_member always writes, changed or not. *)
RemoveMember(c, id, agent) ==
  Rewrite(c, id, TRUE, Without(rows[id].members, agent))
=============================================================================
