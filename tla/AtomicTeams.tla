---------------------------- MODULE AtomicTeams ----------------------------
(***************************************************************************)
(* What TeamStore promises its concurrent callers: a call is made, takes   *)
(* effect at one instant on the table as it is then, and is answered from  *)
(* that instant; create takes effect at its INSERT and reads the row again *)
(* at a second instant.  A call whose caller went away may never take      *)
(* effect, or, for create, stop between its two instants.                  *)
(***************************************************************************)
EXTENDS TeamTable

VARIABLES
  call,   \* call[c]: the call c made, or NoCall
  minted  \* ids given to a team so far: a v4 UUID is never drawn twice

vars == <<rows, seal, ret, call, minted>>

Init ==
  /\ TableInit
  /\ call = [c \in Callers |-> NoCall]
  /\ minted = Present(rows)

Invoke(c) ==
  /\ call[c] = NoCall
  /\ \E request \in Calls :
       /\ call' = [call EXCEPT ![c] = request]
       /\ IF request.op = "create"
            THEN request.id \notin minted /\ minted' = minted \cup {request.id}
            ELSE UNCHANGED minted
  /\ UNCHANGED table

Waiting(c, op) == call[c] # NoCall /\ call[c].op = op /\ ret[c].kind = "pending"

Serve(c) ==
  /\ \/ Waiting(c, "get") /\ Get(c, call[c].id)
     \/ Waiting(c, "list") /\ List(c)
     \/ Waiting(c, "create") /\ Insert(c, call[c].id, call[c].body)
     \/ Confirm(c, call[c].id)
     \/ Waiting(c, "update") /\ Update(c, call[c].id, call[c].patch)
     \/ Waiting(c, "delete") /\ Delete(c, call[c].id)
     \/ Waiting(c, "add") /\ AddMember(c, call[c].id, call[c].agent)
     \/ Waiting(c, "remove") /\ RemoveMember(c, call[c].id, call[c].agent)
  /\ UNCHANGED <<call, minted>>

Next == \E c \in Callers : Invoke(c) \/ Serve(c)

Spec == Init /\ [][Next]_vars
=============================================================================
