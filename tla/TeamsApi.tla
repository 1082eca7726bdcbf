------------------------------ MODULE TeamsApi ------------------------------
(***************************************************************************)
(* The /api/teams handlers (backend/src/api.rs) over the atomic operations *)
(* of the store (TeamTable, which TeamStore implements).  A handler awaits *)
(* between its calls on the store and while it posts its event to Core, so *)
(* other requests run there, and there a client that disconnects drops it. *)
(* The emit is best effort: a failure is logged and the answer is the same.*)
(***************************************************************************)
EXTENDS TeamTable

VARIABLES
  minted,  \* ids drawn so far
  pc,      \* where each request is
  req,     \* req[c]: the store call the request is there for
  seen,    \* seen[c]: the row the handler read before its call, or NoRow
  status,  \* status[c]: the HTTP status sent, 0 before
  notice,  \* notice[c]: what became of the request's event
  was,     \* history variable: the row the request's call found
  past     \* history variable: past[id] has every row team id ever had

handlers == <<minted, pc, req, seen, status, notice, was, past>>
apiVars == <<rows, seal, ret, minted, pc, req, seen, status, notice, was, past>>

Places == {"new", "confirm", "call", "emit", "done", "dropped"}

ApiTypeOK ==
  /\ TableTypeOK
  /\ minted \subseteq TeamIds
  /\ pc \in [Callers -> Places]
  /\ req \in [Callers -> Calls \cup {NoCall}]
  /\ seen \in [Callers -> Row \cup {NoRow}]
  /\ status \in [Callers -> {0, 200, 201, 400, 404, 500}]
  /\ notice \in [Callers -> {"none", "due", "sent", "lost"}]
  /\ was \in [Callers -> Row \cup {NoRow}]
  /\ past \in [TeamIds -> SUBSET Row]

ApiInit ==
  /\ TableInit
  /\ minted = Present(rows)
  /\ pc = [c \in Callers |-> "new"]
  /\ req = [c \in Callers |-> NoCall]
  /\ seen = [c \in Callers |-> NoRow]
  /\ status = [c \in Callers |-> 0]
  /\ notice = [c \in Callers |-> "none"]
  /\ was = [c \in Callers |-> NoRow]
  /\ past = [id \in TeamIds |-> {rows[id]} \ {NoRow}]

At(c, place) == pc[c] = place
GoTo(c, place) == pc' = [pc EXCEPT ![c] = place]

(* The handler answers and is gone. *)
Finish(c, code) ==
  /\ GoTo(c, "done")
  /\ status' = [status EXCEPT ![c] = code]
  /\ UNCHANGED notice

(* The handler goes on to another await. *)
Await(c, place) == GoTo(c, place) /\ UNCHANGED <<status, notice>>

(* `ctx.events.emit(..).await` begins. *)
Announce(c) ==
  /\ GoTo(c, "emit")
  /\ notice' = [notice EXCEPT ![c] = "due"]
  /\ UNCHANGED status

Takes(c, request) == At(c, "new") /\ req' = [req EXCEPT ![c] = request]

(* The 404 and 500 arms of the handlers. *)
FailCode(answer) == IF answer.kind = "missing" THEN 404 ELSE 500

(* Ok(Some(team)) or Ok(true) announces, when there is something to. *)
Conclude(c, announces) ==
  IF ret'[c].kind \in {"team", "deleted"}
    THEN IF announces THEN Announce(c) ELSE Finish(c, 200)
    ELSE Finish(c, FailCode(ret'[c]))

Record(c, id) ==
  /\ was' = [was EXCEPT ![c] = rows[id]]
  /\ past' = [past EXCEPT ![id] = @ \cup ({rows'[id]} \ {NoRow})]
-----------------------------------------------------------------------------
(* create_team refuses a name that is blank once trimmed. *)
CreateBlank(c) ==
  /\ At(c, "new")
  /\ \E body \in NewTeams : body.name = Blank
  /\ Finish(c, 400)
  /\ UNCHANGED <<rows, seal, ret, minted, req, seen, was, past>>

(* create_team up to the lock create takes for its second read. *)
CreateTeam(c) ==
  \E id \in TeamIds \ minted, body \in NewTeams :
    /\ body.name # Blank
    /\ Takes(c, [op |-> "create", id |-> id, body |-> body])
    /\ minted' = minted \cup {id}
    /\ Insert(c, id, body)
    /\ IF ret'[c].kind = "inserted" THEN Await(c, "confirm") ELSE Finish(c, 500)
    /\ Record(c, id)
    /\ UNCHANGED seen

CreateConfirm(c) ==
  /\ At(c, "confirm")
  /\ Confirm(c, req[c].id)
  /\ IF ret'[c].kind = "team" THEN Announce(c) ELSE Finish(c, 500)
  /\ UNCHANGED <<minted, req, seen, was, past>>

(* get_team and resolve_team. *)
GetTeam(c) ==
  \E id \in TeamIds :
    /\ Takes(c, [op |-> "get", id |-> id])
    /\ Get(c, id)
    /\ Conclude(c, FALSE)
    /\ UNCHANGED <<minted, seen, was, past>>

ListTeams(c) ==
  /\ Takes(c, [op |-> "list"])
  /\ List(c)
  /\ Finish(c, 200)
  /\ UNCHANGED <<minted, seen, was, past>>

(* update_team announces whatever the patch was. *)
UpdateTeam(c) ==
  \E id \in TeamIds, patch \in Patches :
    /\ Takes(c, [op |-> "update", id |-> id, patch |-> patch])
    /\ Update(c, id, patch)
    /\ Conclude(c, TRUE)
    /\ Record(c, id)
    /\ UNCHANGED <<minted, seen>>

(* delete_team, add_team_member and remove_team_member read the team       *)
(* first; a missing team and a failed read are the same None.              *)
PreRead(c) ==
  \E request \in {call \in Calls : call.op \in {"delete", "add", "remove"}} :
    /\ Takes(c, request)
    /\ Get(c, request.id)
    /\ seen' = [seen EXCEPT ![c] = ret'[c].row]
    /\ Await(c, "call")
    /\ UNCHANGED <<minted, was, past>>

DeleteTeam(c) ==
  /\ At(c, "call")
  /\ req[c].op = "delete"
  /\ Delete(c, req[c].id)
  /\ Conclude(c, TRUE)
  /\ Record(c, req[c].id)
  /\ UNCHANGED <<minted, req, seen>>

(* `before.as_deref() != Some(team.members.as_slice())` *)
RosterDiffers(before, after) == IF before = NoRow THEN TRUE ELSE before.members # after.members

ChangeMembers(c) ==
  /\ At(c, "call")
  /\ \/ req[c].op = "add" /\ AddMember(c, req[c].id, req[c].agent)
     \/ req[c].op = "remove" /\ RemoveMember(c, req[c].id, req[c].agent)
  /\ Conclude(c, RosterDiffers(seen[c], ret'[c].row))
  /\ Record(c, req[c].id)
  /\ UNCHANGED <<minted, req, seen>>

(* Core takes the event, or the emit fails; the client gets the same answer. *)
EmitEvent(c) ==
  /\ At(c, "emit")
  /\ \E outcome \in {"sent", "lost"} : notice' = [notice EXCEPT ![c] = outcome]
  /\ GoTo(c, "done")
  /\ status' = [status EXCEPT ![c] = IF req[c].op = "create" THEN 201 ELSE 200]
  /\ UNCHANGED <<rows, seal, ret, minted, req, seen, was, past>>

(* The client disconnects and the handler is dropped where it awaits. *)
Drop(c) ==
  /\ pc[c] \in {"confirm", "call", "emit"}
  /\ GoTo(c, "dropped")
  /\ notice' = [notice EXCEPT ![c] = IF @ = "due" THEN "lost" ELSE @]
  /\ UNCHANGED <<rows, seal, ret, minted, req, seen, status, was, past>>

Step(c) ==
  CreateConfirm(c) \/ DeleteTeam(c) \/ ChangeMembers(c) \/ EmitEvent(c)

Arrive(c) ==
  CreateBlank(c) \/ CreateTeam(c) \/ GetTeam(c) \/ ListTeams(c) \/ UpdateTeam(c) \/ PreRead(c)

Finished == (\A c \in Callers : pc[c] \in {"done", "dropped"}) /\ UNCHANGED apiVars

ApiNext == (\E c \in Callers : Arrive(c) \/ Step(c) \/ Drop(c)) \/ Finished

ApiSpec == ApiInit /\ [][ApiNext]_apiVars
-----------------------------------------------------------------------------
(* A fault: the team is read once it is gone. *)
PayloadReadAfter(c) == IF req[c].op = "delete" THEN rows[req[c].id] ELSE ret[c].row

(* The record an event carries: for a delete what the handler read before   *)
(* it, NoRow standing for the id alone, else the record the call returned.  *)
Payload(c) == IF req[c].op = "delete" THEN seen[c] ELSE ret[c].row

(* What a subscriber keeps of a record: everything but updated_at. *)
Content(row) == IF row = NoRow THEN NoRow ELSE [row EXCEPT !.stamp = 0]

Inserting(c) ==
  req[c] # NoCall /\ req[c].op = "create" /\ ret[c].kind # "refused"

(* The requests that gave team id another content, or its end. *)
Changers(id) ==
  {c \in Callers :
     /\ req[c] # NoCall /\ req[c].op # "list"
     /\ req[c].id = id
     /\ \/ Inserting(c) \/ ret[c].kind = "deleted"
        \/ /\ req[c].op \in {"update", "add", "remove"}
           /\ was[c] # NoRow /\ ret[c].kind = "team"
           /\ Content(was[c]) # Content(ret[c].row)}

(* Those that left it another content. *)
Makers(id) == {c \in Changers(id) : req[c].op # "delete"}

(* updated_at of what a maker left. *)
Base(c) == IF req[c].op = "create" THEN 0 ELSE ret[c].row.stamp

(* Another request changed the team after c's handler had read it. *)
Overtaken(c) ==
  \E d \in Makers(req[c].id) : seen[c] = NoRow \/ Base(d) > seen[c].stamp

(* Every event carries a record the team really had, or for a delete its id *)
(* alone.  That of a delete is `the group as it stood immediately BEFORE    *)
(* the delete' (manifest.json:196), except that the id alone goes out when  *)
(* no key opened the team, and that it is out of date when another request  *)
(* changed the team between the handler's read (api.rs:308) and its delete. *)
EventsTellTheTruth ==
  \A c \in Callers : notice[c] \in {"due", "sent"} =>
    /\ Payload(c) \in past[req[c].id] \/ (Payload(c) = NoRow /\ req[c].op = "delete")
    /\ req[c].op = "delete" =>
         \/ Overtaken(c)
         \/ IF Payload(c) = NoRow THEN ~Opens(was[c], seal)
            ELSE Content(Payload(c)) = Content(was[c])

Announces(c, op) == notice[c] # "none" /\ req[c].op = op

(* A team is announced as created by at most one request and as deleted by *)
(* at most one, and once a request announces its deletion it is gone for   *)
(* good, however many clients delete or change it at once.                 *)
LifecycleOnce ==
  \A c, d \in Callers, op \in {"create", "delete"} :
    /\ Announces(c, op) /\ Announces(d, op) /\ req[c].id = req[d].id => c = d
    /\ Announces(c, "delete") => rows[req[c].id] = NoRow

Delivered(id) ==
  {c \in Callers : notice[c] = "sent" /\ req[c].op # "delete" /\ req[c].id = id}

(* The events of a team may arrive in any order, but a subscriber that got *)
(* the event of every request that changed the team, and goes by           *)
(* updated_at, has the team as it is: its newest record is the current     *)
(* one, or its deletion was announced.                                     *)
NewestEventIsCurrent ==
  \A id \in TeamIds :
    Changers(id) # {} /\ (\A c \in Changers(id) : notice[c] = "sent") =>
      \/ rows[id] = NoRow /\ \E c \in Changers(id) : req[c].op = "delete"
      \/ /\ Delivered(id) # {}
         /\ \A c \in Delivered(id) :
              (\A d \in Delivered(id) : Payload(d).stamp <= Payload(c).stamp)
                => Content(Payload(c)) = Content(rows[id])

(* The records a subscriber has of a team that request c deleted. *)
RecordsOf(c) == {Payload(d) : d \in Delivered(req[c].id) \cup {c}} \ {NoRow}

(* A subscriber `can clean up per-group or per-member state it was holding' *)
(* (manifest.json:196) though the record of the delete may be out of date:  *)
(* one that got the event of every request that changed the team knows the  *)
(* team as it stood immediately before its deletion, from the newest of its *)
(* records, unless nobody could read it.                                    *)
DeletedTeamIsKnown ==
  \A c \in Callers :
    /\ notice[c] = "sent" /\ req[c].op = "delete"
    /\ \A d \in Makers(req[c].id) : notice[d] = "sent"
    => /\ RecordsOf(c) = {} => ~Opens(was[c], seal)
       /\ \A last \in RecordsOf(c) :
            (\A row \in RecordsOf(c) : row.stamp <= last.stamp)
              => Content(last) = Content(was[c])

(* A team sealed under a key this process lacks, or damaged, is never      *)
(* written over: no request changes it except by deleting it; no request   *)
(* turns a sealed team into plaintext; and on an unhealthy store no        *)
(* request changes a sealed column or adds a team.                         *)
Protected(id) ==
  LET old == rows[id]
      new == rows'[id]
  IN  new # old /\ new # NoRow =>
        /\ seal = "unhealthy" => old # NoRow /\ new.name = old.name /\ new.form = old.form
        /\ old # NoRow => old.form # "foreign" /\ (new.form = "plain" => old.form = "plain")

SealedColumnsProtected == [][\A id \in TeamIds : Protected(id)]_apiVars
=============================================================================
