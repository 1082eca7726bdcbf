---------------------------- MODULE TeamRecords ----------------------------
(***************************************************************************)
(* The team record of the teams app and what each operation of the store   *)
(* does to one record (backend/src/store.rs).                              *)
(*                                                                         *)
(* A row keeps what the operations tell apart: `name` stands for the       *)
(* sealed text columns (name, description) and for the strategy, which a   *)
(* PATCH replaces the same way; `form` is how the sealed columns are       *)
(* stored; `members` is the ordered roster; `lead` the nullable lead       *)
(* agent; `stamp` is updated_at, abstracted to the number of UPDATEs the   *)
(* row has seen (the wall clock is assumed not to run backwards).          *)
(***************************************************************************)
EXTENDS Naturals, Sequences

CONSTANTS
  Agents,   \* agent ids
  Names,    \* values of the sealed text columns
  Blank,    \* the name that is empty once trimmed
  NoLead,   \* lead_agent_id is NULL
  Keep,     \* a field the PATCH body leaves out
  Rosters,  \* member lists
  NoRow,    \* no such row
  Callers,  \* concurrent users of the store: the requests being handled
  TeamIds,  \* ids the table may hold
  Stored,   \* teams the file may hold when it is opened
  NewTeams, \* bodies of POST /api/teams
  Patches,  \* bodies of PATCH /api/teams/{id}
  NoCall    \* a caller that has not called yet

(* A roster without one agent: `members.retain(|member| member != agent)`. *)
Without(members, agent) == SelectSeq(members, LAMBDA member : member # agent)

IsMember(members, agent) == \E i \in DOMAIN members : members[i] = agent

(* A roster with one agent more, unless it is on it already. *)
Joined(members, agent) ==
  IF IsMember(members, agent) THEN members ELSE Append(members, agent)

(* Rosters is any set of member lists closed under what the two member     *)
(* endpoints do to a list.                                                 *)
ASSUME RosterAssumption ==
  \A members \in Rosters, agent \in Agents :
    /\ Joined(members, agent) \in Rosters
    /\ Without(members, agent) \in Rosters

ASSUME SentinelAssumption == NoLead \notin Agents /\ Keep \notin Names \cup Agents \cup {NoLead}

Leads == Agents \cup {NoLead}

(* plain: legacy or compat-mode plaintext; sealed: an envelope under the   *)
(* key this store was sealed with; foreign: an envelope no key of this     *)
(* process opens (damaged, or sealed under a lost key).                    *)
Forms == {"plain", "sealed", "foreign"}

Row == [name : Names, form : Forms, members : Rosters, lead : Leads, stamp : Nat]

ASSUME NoRowAssumption == NoRow \notin Row

(* Bodies of POST /api/teams and PATCH /api/teams/{id}. A PATCH field is   *)
(* Keep when the body leaves it out; `lead` is the JSON tri-state: an id   *)
(* sets it, null (NoLead) clears it, absent (Keep) leaves it.              *)
NewTeam == [name : Names, members : Rosters, lead : Leads]

Patch == [name : Names \cup {Keep}, members : Rosters \cup {Keep}, lead : Leads \cup {Keep}]

ASSUME BodyAssumption ==
  Stored \cup NewTeams \subseteq NewTeam /\ Patches \subseteq Patch

(* How a store writes its sealed columns. *)
SealStates == {"sealing", "compat", "unhealthy"}

WrittenForm(seal) == IF seal = "sealing" THEN "sealed" ELSE "plain"

(* A fault: the marker of a value that does not open is taken for a value. *)
OpensAlways(row, seal) == TRUE

(* ryu_open succeeds: plaintext always reads, an envelope only with its key. *)
Opens(row, seal) == row.form = "plain" \/ (row.form = "sealed" /\ seal = "sealing")

(* ryu_seal succeeds: an unhealthy store refuses to write a sealed column. *)
Writable(seal) == seal # "unhealthy"

(* The row an INSERT writes. *)
Inserted(body, seal) ==
  [name |-> body.name, form |-> WrittenForm(seal), members |-> body.members,
   lead |-> body.lead, stamp |-> 0]

Patched(old, new) == IF new = Keep THEN old ELSE new

(* The record with the patch folded in. *)
ApplyPatch(record, patch) ==
  [record EXCEPT !.name = Patched(@, patch.name),
                 !.members = Patched(@, patch.members),
                 !.lead = Patched(@, patch.lead)]

(* UPDATE teams SET name, description, members, coordination, lead, updated_at: *)
(* every column comes from the record, the sealed ones sealed again.            *)
UpdatedRow(row, record, seal) ==
  [name |-> record.name, form |-> WrittenForm(seal), members |-> record.members,
   lead |-> record.lead, stamp |-> row.stamp + 1]

(* A fault: updated_at is left out of the statement. *)
RewrittenUnstamped(row, members) == [row EXCEPT !.members = members]

(* UPDATE teams SET members, updated_at: the other columns stay the row's. *)
RewrittenMembers(row, members) ==
  [name |-> row.name, form |-> row.form, members |-> members,
   lead |-> row.lead, stamp |-> row.stamp + 1]

(***************************************************************************)
(* What a call on the store returns: Ok(Some(row)), Ok(None) (missing),    *)
(* the error of a row whose sealed columns do not open, the error of a     *)
(* refused write, create's "team vanished immediately after insert",       *)
(* delete's Ok(true); a listing answers with the ids it shows.  "pending"  *)
(* is a call with no answer yet, "inserted" create between its two halves. *)
(***************************************************************************)
AnswerKinds == {"pending", "team", "missing", "unreadable", "refused",
                "inserted", "vanished", "deleted", "listed"}

Says(kind, id) == [kind |-> kind, ids |-> {id}, row |-> NoRow]

Pending == [kind |-> "pending", ids |-> {}, row |-> NoRow]

Listing(ids) == [kind |-> "listed", ids |-> ids, row |-> NoRow]

(* SELECT ... WHERE id = ?1, mapped by row_to_record. *)
Read(id, row, seal) ==
  IF row = NoRow THEN Says("missing", id)
  ELSE IF ~Opens(row, seal) THEN Says("unreadable", id)
  ELSE [kind |-> "team", ids |-> {id}, row |-> row]

(* The row create has just inserted, read again. *)
Confirmed(id, row, seal) ==
  IF row = NoRow THEN Says("vanished", id) ELSE Read(id, row, seal)

(* The list skips a row with a value that does not open. *)
Listable(row, seal) == row # NoRow /\ Opens(row, seal)

(* An absent row is written by no UPDATE. *)
OnRow(row, new) == IF row = NoRow THEN NoRow ELSE new

Answer == [kind : AnswerKinds, ids : SUBSET TeamIds, row : Row \cup {NoRow}]

(* A call on the store with its arguments; the id of a create is the v4   *)
(* UUID it draws before it asks for the lock.                             *)
Calls ==
  [op : {"get", "delete"}, id : TeamIds]
    \cup [op : {"list"}]
    \cup [op : {"create"}, id : TeamIds, body : NewTeams]
    \cup [op : {"update"}, id : TeamIds, patch : Patches]
    \cup [op : {"add", "remove"}, id : TeamIds, agent : Agents]

ASSUME NoCallAssumption == NoCall \notin Calls

(* The forms open_store leaves behind: sealing, every value that opens has *)
(* been sealed; compat, a store never sealed holds no envelope.            *)
FormsAtOpen(seal) ==
  CASE seal = "sealing" -> {"sealed", "foreign"}
    [] seal = "compat" -> {"plain"}
    [] seal = "unhealthy" -> {"plain", "foreign"}

RowsAtOpen(seal) ==
  {[name |-> team.name, form |-> form, members |-> team.members,
    lead |-> team.lead, stamp |-> 0] : team \in Stored, form \in FormsAtOpen(seal)}

(* The ids of a table that name a row. *)
Present(rows) == {id \in TeamIds : rows[id] # NoRow}
=============================================================================
