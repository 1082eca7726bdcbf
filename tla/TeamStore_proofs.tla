-------------------------- MODULE TeamStore_proofs --------------------------
(***************************************************************************)
(* Proofs about TeamStore for every number of callers, teams, agents and   *)
(* rosters: the mutex is held by exactly the call between its statements,  *)
(* so no call writes over a row it has not read, so every operation is     *)
(* atomic: TeamStore implements AtomicTeams.                               *)
(***************************************************************************)
EXTENDS TeamStore, TLAPS

(* The arguments of a call are those of its operation. *)
LEMMA CallArguments ==
  ASSUME NEW request \in Calls
  PROVE  /\ request.op \in {"get", "delete", "list", "create", "update", "add", "remove"}
         /\ request.op # "list" => request.id \in TeamIds
         /\ request.op = "create" => request.body \in NewTeams
         /\ request.op = "update" => request.patch \in Patches
         /\ request.op \in {"add", "remove"} => request.agent \in Agents
  BY DEF Calls

(* An INSERT writes a row. *)
LEMMA InsertedIsRow ==
  ASSUME NEW body \in NewTeams, NEW state \in SealStates
  PROVE  Inserted(body, state) \in Row
<1>1. body \in NewTeam
  BY BodyAssumption
<1> QED
  BY <1>1 DEF Inserted, NewTeam, Row, WrittenForm, Forms, Leads

(* A PATCH folded into a row is a row, with the row's own stamp and form. *)
LEMMA PatchedIsRow ==
  ASSUME NEW row \in Row, NEW patch \in Patches
  PROVE  /\ ApplyPatch(row, patch) \in Row
         /\ ApplyPatch(row, patch).stamp = row.stamp
<1>1. patch \in Patch
  BY BodyAssumption
<1>2. /\ Patched(row.name, patch.name) \in Names
      /\ Patched(row.members, patch.members) \in Rosters
      /\ Patched(row.lead, patch.lead) \in Leads
  BY <1>1 DEF Patch, Row, Patched
<1> QED
  BY <1>2 DEF ApplyPatch, Row

(* An UPDATE of every column writes a row. *)
LEMMA UpdatedIsRow ==
  ASSUME NEW row \in Row, NEW record \in Row, NEW state \in SealStates
  PROVE  UpdatedRow(row, record, state) \in Row
<1>1. record.name \in Names /\ record.members \in Rosters /\ record.lead \in Leads
  BY DEF Row
<1>2. WrittenForm(state) \in Forms /\ row.stamp + 1 \in Nat
  BY DEF Row, WrittenForm, Forms
<1> QED
  BY <1>1, <1>2 DEF UpdatedRow, Row

(* The rosters both member operations write are rosters. *)
LEMMA RosterClosed ==
  ASSUME NEW members \in Rosters, NEW agent \in Agents
  PROVE  /\ Without(members, agent) \in Rosters
         /\ ~IsMember(members, agent) => Append(members, agent) \in Rosters
  BY RosterAssumption DEF Joined

(* An UPDATE of the member list writes a row. *)
LEMMA RewrittenIsRow ==
  ASSUME NEW row \in Row, NEW members \in Rosters
  PROVE  RewrittenMembers(row, members) \in Row
<1>1. row.name \in Names /\ row.form \in Forms /\ row.lead \in Leads /\ row.stamp + 1 \in Nat
  BY DEF Row
<1> QED
  BY <1>1 DEF RewrittenMembers, Row

(* A read answers with a row exactly when it found one that opens. *)
LEMMA ReadTyped ==
  ASSUME NEW id \in TeamIds, NEW row \in Row \cup {NoRow}, NEW state
  PROVE  /\ Read(id, row, state) \in Answer
         /\ Read(id, row, state).kind \in {"team", "missing", "unreadable"}
         /\ Read(id, row, state).kind = "team" => row \in Row /\ Opens(row, state)
         /\ Confirmed(id, row, state) \in Answer
         /\ Confirmed(id, row, state).kind # "inserted"
         /\ Confirmed(id, row, state).kind # "pending"
  BY DEF Read, Says, Answer, AnswerKinds, Confirmed

(* A row found when the store opens is a row. *)
LEMMA OpenedIsRow ==
  ASSUME NEW state \in SealStates
  PROVE  RowsAtOpen(state) \subseteq Row
<1>1. Stored \subseteq NewTeam /\ FormsAtOpen(state) \subseteq Forms
  BY BodyAssumption DEF FormsAtOpen, Forms, SealStates
<1> QED
  BY <1>1 DEF RowsAtOpen, NewTeam, Row
-----------------------------------------------------------------------------
(* What a call's place says of its operation and of its answer so far. *)
Shape ==
  \A c \in Callers :
    /\ pc[c] = "idle" <=> call[c] = NoCall
    /\ pc[c] \in {"idle", "wait", "locked", "write", "readback"} => res[c] = Pending
    /\ pc[c] \in {"rewait", "relocked"} =>
         call[c].op = "create" /\ res[c] = Says("inserted", call[c].id)
    /\ pc[c] \in {"write", "readback"} => call[c].op \in {"update", "add", "remove"}
    /\ pc[c] = "write" => held[c] \in Row

Typed == TypeOK /\ Shape

(* The record a writing call holds is a row. *)
LEMMA ChangedIsRow ==
  ASSUME NEW c \in Callers, Typed, pc[c] # "idle",
         call[c].op \in {"update", "add", "remove"},
         ReadAnswer(c).kind = "team", ~EndsAtRead(c)
  PROVE  Changed(c) \in Row
<1>1. call[c] \in Calls
  BY DEF Typed, TypeOK, Shape
<1>2. TheRow(c) \in Row
  BY <1>1, CallArguments, ReadTyped DEF Typed, TypeOK, TheRow, Target, ReadAnswer
<1>3. TheRow(c).members \in Rosters
  BY <1>2 DEF Row
<1>4. CASE call[c].op = "update"
  BY <1>1, <1>2, <1>4, CallArguments, PatchedIsRow DEF Changed, Runs
<1>5. CASE call[c].op = "add"
  <2>1. ~IsMember(TheRow(c).members, call[c].agent)
    BY <1>5 DEF EndsAtRead, Runs
  <2>2. Append(TheRow(c).members, call[c].agent) \in Rosters
    BY <1>1, <1>3, <1>5, <2>1, CallArguments, RosterClosed
  <2>3. Changed(c) = [TheRow(c) EXCEPT !.members = Append(@, call[c].agent)]
    BY <1>5 DEF Changed, Runs
  <2> QED
    BY <1>2, <2>2, <2>3 DEF Row
<1>6. CASE call[c].op = "remove"
  <2>1. Without(TheRow(c).members, call[c].agent) \in Rosters
    BY <1>1, <1>3, <1>6, CallArguments, RosterClosed
  <2>2. Changed(c) = [TheRow(c) EXCEPT !.members = Without(@, call[c].agent)]
    BY <1>6 DEF Changed, Runs
  <2> QED
    BY <1>2, <2>1, <2>2 DEF Row
<1> QED
  BY <1>4, <1>5, <1>6

(* What every step of a call does to the typed state. *)
LEMMA TypedInit == Init => Typed
<1> SUFFICES ASSUME Init PROVE Typed
  OBVIOUS
<1>1. rows \in [TeamIds -> Row \cup {NoRow}]
  BY OpenedIsRow DEF Init
<1>2. Pending \in Answer
  BY DEF Pending, Answer, AnswerKinds
<1>3. TypeOK
  BY <1>1, <1>2 DEF Init, TypeOK, Places, Present
<1>4. Shape
  BY DEF Init, Shape
<1> QED
  BY <1>3, <1>4 DEF Typed

LEMMA TypedStep == Typed /\ [Next]_vars => Typed'
<1> SUFFICES ASSUME Typed, [Next]_vars PROVE Typed'
  OBVIOUS
<1> USE DEF Typed
<1>0. \A c \in Callers : pc[c] # "idle" => call[c] \in Calls
  BY DEF TypeOK, Shape
<1>1. ASSUME NEW c \in Callers, Begin(c) PROVE Typed'
  <2>1. PICK request \in Calls :
          /\ call' = [call EXCEPT ![c] = request]
          /\ IF request.op = "create"
               THEN request.id \notin minted /\ minted' = minted \cup {request.id}
               ELSE UNCHANGED minted
    BY <1>1 DEF Begin
  <2>2. minted' \in SUBSET TeamIds
    BY <2>1, CallArguments DEF TypeOK
  <2>3. TypeOK'
    BY <1>1, <2>1, <2>2 DEF Begin, TypeOK, GoTo, Places
  <2>4. Shape'
    BY <1>1, <2>1, NoCallAssumption DEF Begin, At, GoTo, TypeOK, Shape
  <2> QED
    BY <2>3, <2>4
<1>2. ASSUME NEW c \in Callers, Acquire(c) PROVE Typed'
  <2>1. TypeOK'
    BY <1>2 DEF Acquire, TypeOK, GoTo, Places
  <2>2. Shape'
    BY <1>2 DEF Acquire, At, GoTo, TypeOK, Shape
  <2> QED
    BY <2>1, <2>2
<1>3. ASSUME NEW c \in Callers, Drop(c) PROVE Typed'
  BY <1>3 DEF Drop, TypeOK, Shape, GoTo, Places
<1>4. ASSUME NEW c \in Callers, NEW answer \in Answer, Return(c, answer), pc[c] # "idle",
             UNCHANGED <<seal, minted, call, held>>,
             rows' \in [TeamIds -> Row \cup {NoRow}]
      PROVE  Typed'
  <2>1. TypeOK'
    BY <1>4 DEF Return, GoTo, TypeOK, Places
  <2>2. Shape'
    BY <1>4 DEF Return, GoTo, TypeOK, Shape
  <2> QED
    BY <2>1, <2>2
<1>5. ASSUME NEW c \in Callers, pc[c] # "idle", call[c].op # "list"
      PROVE  /\ Target(c) \in TeamIds
             /\ ReadAnswer(c) \in Answer
             /\ Confirmed(Target(c), TheRow(c), seal) \in Answer
             /\ \A kind \in AnswerKinds : Says(kind, Target(c)) \in Answer
  <2>1. Target(c) \in TeamIds
    BY <1>0, <1>5, CallArguments DEF Target
  <2> QED
    BY <2>1, ReadTyped DEF TypeOK, ReadAnswer, TheRow, Says, Answer
<1>6. ASSUME NEW c \in Callers, Run(c) PROVE Typed'
  <2>0. pc[c] # "idle" /\ call[c] \in Calls
    BY <1>0, <1>6 DEF Run, At, RunGet, RunList, RunInsert, RunConfirm, RunDelete,
                      RunRead, RunUpdate, RunWriteMembers, RunReadBack
  <2>1. CASE RunGet(c)
    BY <1>4, <1>5, <2>0, <2>1 DEF RunGet, Runs, TypeOK
  <2>2. CASE RunList(c)
    <3>1. Listing({id \in TeamIds : Listable(rows[id], seal)}) \in Answer
      BY DEF Listing, Answer, AnswerKinds
    <3> QED
      BY <1>4, <2>0, <2>2, <3>1 DEF RunList, TypeOK
  <2>3. CASE RunInsert(c)
    <3>1. CASE Writable(seal)
      <4>1. /\ rows' = [rows EXCEPT ![Target(c)] = Inserted(call[c].body, seal)]
            /\ GoTo(c, "rewait")
            /\ res' = [res EXCEPT ![c] = Says("inserted", Target(c))]
            /\ lock' = Free
            /\ call[c].op = "create"
        BY <2>3, <3>1 DEF RunInsert, Runs
      <4>2. Inserted(call[c].body, seal) \in Row
        BY <2>0, <4>1, CallArguments, InsertedIsRow DEF TypeOK
      <4>3. Says("inserted", Target(c)) \in Answer
        BY <1>5, <2>0, <4>1 DEF AnswerKinds
      <4>4. rows' \in [TeamIds -> Row \cup {NoRow}] /\ pc' \in [Callers -> Places]
        BY <4>1, <4>2 DEF TypeOK, GoTo, Places
      <4>5. TypeOK'
        BY <2>3, <4>1, <4>3, <4>4 DEF RunInsert, TypeOK
      <4>6. Shape'
        BY <2>3, <2>0, <4>1 DEF RunInsert, GoTo, TypeOK, Shape, Target
      <4> QED
        BY <4>5, <4>6
    <3>2. CASE ~Writable(seal)
      <4>1. Return(c, Says("refused", Target(c))) /\ rows' = rows /\ call[c].op = "create"
        BY <2>3, <3>2 DEF RunInsert, Runs
      <4>2. Says("refused", Target(c)) \in Answer
        BY <1>5, <2>0, <4>1 DEF AnswerKinds
      <4> QED
        BY <1>4, <2>0, <2>3, <4>1, <4>2 DEF RunInsert, TypeOK
    <3> QED
      BY <3>1, <3>2
  <2>4. CASE RunConfirm(c)
    <3>1. call[c].op = "create"
      BY <2>4 DEF RunConfirm, At, Shape
    <3> QED
      BY <1>4, <1>5, <2>0, <2>4, <3>1 DEF RunConfirm, TypeOK
  <2>5. CASE RunDelete(c)
    <3>1. Says(IF TheRow(c) = NoRow THEN "missing" ELSE "deleted", Target(c)) \in Answer
      BY <1>5, <2>0, <2>5 DEF RunDelete, Runs, AnswerKinds
    <3>2. rows' \in [TeamIds -> Row \cup {NoRow}]
      BY <2>5 DEF RunDelete, TypeOK
    <3> QED
      BY <1>4, <2>0, <2>5, <3>1, <3>2 DEF RunDelete
  <2>6. CASE RunRead(c)
    <3>0. call[c].op \in {"update", "add", "remove"}
      BY <2>6 DEF RunRead, Runs
    <3>1. CASE EndsAtRead(c)
      <4>1. Return(c, ReadAnswer(c)) /\ UNCHANGED held
        BY <2>6, <3>1 DEF RunRead
      <4> QED
        BY <1>4, <1>5, <2>0, <2>6, <3>0, <4>1 DEF RunRead, TypeOK
    <3>2. CASE ~EndsAtRead(c)
      <4>1. held' = [held EXCEPT ![c] = Changed(c)] /\ HoldOn(c, "write")
        BY <2>6, <3>2 DEF RunRead
      <4>2. Changed(c) \in Row
        BY <2>0, <3>0, <3>2, ChangedIsRow DEF EndsAtRead
      <4>3. TypeOK'
        BY <2>6, <4>1, <4>2 DEF RunRead, HoldOn, GoTo, TypeOK, Places
      <4>4. Shape'
        BY <2>0, <2>6, <3>0, <4>1, <4>2 DEF RunRead, At, HoldOn, GoTo, TypeOK, Shape
      <4> QED
        BY <4>3, <4>4
    <3> QED
      BY <3>1, <3>2
  <2>7. CASE RunUpdate(c)
    <3>0. call[c].op = "update" /\ pc[c] = "write"
      BY <2>7 DEF RunUpdate, Runs, At
    <3>1. CASE Writable(seal)
      <4>1. /\ rows' = [rows EXCEPT ![Target(c)] = OnRow(@, UpdatedRow(@, held[c], seal))]
            /\ HoldOn(c, "readback")
        BY <2>7, <3>1 DEF RunUpdate
      <4>2. TheRow(c) \in Row => UpdatedRow(TheRow(c), held[c], seal) \in Row
        BY <3>0, UpdatedIsRow DEF Shape, TypeOK
      <4>3. rows' \in [TeamIds -> Row \cup {NoRow}]
        BY <4>1, <4>2 DEF TypeOK, OnRow, TheRow
      <4>4. TypeOK'
        BY <2>7, <4>1, <4>3 DEF RunUpdate, HoldOn, GoTo, TypeOK, Places
      <4>5. Shape'
        BY <2>0, <2>7, <3>0, <4>1 DEF RunUpdate, HoldOn, GoTo, TypeOK, Shape
      <4> QED
        BY <4>4, <4>5
    <3>2. CASE ~Writable(seal)
      <4>1. Return(c, Says("refused", Target(c))) /\ rows' = rows
        BY <2>7, <3>2 DEF RunUpdate
      <4>2. Says("refused", Target(c)) \in Answer
        BY <1>5, <2>0, <3>0 DEF AnswerKinds
      <4> QED
        BY <1>4, <2>0, <2>7, <4>1, <4>2 DEF RunUpdate, TypeOK
    <3> QED
      BY <3>1, <3>2
  <2>8. CASE RunWriteMembers(c)
    <3>0. call[c].op \in {"add", "remove"} /\ pc[c] = "write"
      BY <2>8 DEF RunWriteMembers, Runs, At
    <3>1. /\ rows' = [rows EXCEPT ![Target(c)] = OnRow(@, RewrittenMembers(@, held[c].members))]
          /\ HoldOn(c, "readback")
      BY <2>8 DEF RunWriteMembers
    <3>2. held[c].members \in Rosters
      BY <3>0 DEF Shape, Row
    <3>3. TheRow(c) \in Row => RewrittenMembers(TheRow(c), held[c].members) \in Row
      BY <3>2, RewrittenIsRow
    <3>4. rows' \in [TeamIds -> Row \cup {NoRow}]
      BY <3>1, <3>3 DEF TypeOK, OnRow, TheRow
    <3>5. TypeOK'
      BY <2>8, <3>1, <3>4 DEF RunWriteMembers, HoldOn, GoTo, TypeOK, Places
    <3>6. Shape'
      BY <2>0, <2>8, <3>0, <3>1 DEF RunWriteMembers, HoldOn, GoTo, TypeOK, Shape
    <3> QED
      BY <3>5, <3>6
  <2>9. CASE RunReadBack(c)
    <3>1. call[c].op \in {"update", "add", "remove"}
      BY <2>9 DEF RunReadBack, At, Shape
    <3> QED
      BY <1>4, <1>5, <2>0, <2>9, <3>1 DEF RunReadBack, TypeOK
  <2> QED
    BY <1>6, <2>1, <2>2, <2>3, <2>4, <2>5, <2>6, <2>7, <2>8, <2>9 DEF Run
<1>7. CASE UNCHANGED vars
  BY <1>7 DEF vars, TypeOK, Shape
<1> QED
  BY <1>1, <1>2, <1>3, <1>6, <1>7 DEF Next, Finished

(* TeamStore's state is always well typed: every row, record and answer a  *)
(* call can hold is one of the store's.                                    *)
THEOREM TypeCorrect == Spec => []TypeOK
<1>1. Spec => []Typed
  BY TypedInit, TypedStep, PTL DEF Spec
<1>2. Typed => TypeOK
  BY DEF Typed
<1> QED
  BY <1>1, <1>2, PTL
-----------------------------------------------------------------------------
LEMMA GuardInit == Init => GuardMatchesPlace
  BY FreeAssumption DEF Init, GuardMatchesPlace, Inside

(* Return from inside and Acquire are the only changes of the holder, and  *)
(* a call that goes on keeps the guard.                                    *)
LEMMA GuardStep == Typed /\ GuardMatchesPlace /\ [Next]_vars => GuardMatchesPlace'
<1> SUFFICES ASSUME Typed, GuardMatchesPlace, [Next]_vars PROVE GuardMatchesPlace'
  OBVIOUS
<1> USE DEF Typed
<1>1. ASSUME NEW c \in Callers, Begin(c) PROVE GuardMatchesPlace'
  BY <1>1 DEF Begin, At, GoTo, GuardMatchesPlace, Inside, TypeOK
<1>2. ASSUME NEW c \in Callers, Acquire(c) PROVE GuardMatchesPlace'
  BY <1>2, FreeAssumption DEF Acquire, At, GoTo, GuardMatchesPlace, Inside, TypeOK
<1>3. ASSUME NEW c \in Callers, Drop(c) PROVE GuardMatchesPlace'
  BY <1>3 DEF Drop, GoTo, GuardMatchesPlace, Inside, TypeOK
<1>4. ASSUME NEW c \in Callers, NEW place, place \notin Inside, pc[c] \in Inside,
             GoTo(c, place), lock' = Free
      PROVE  GuardMatchesPlace'
  BY <1>4, FreeAssumption DEF GoTo, GuardMatchesPlace, TypeOK
<1>5. ASSUME NEW c \in Callers, NEW place \in Inside, pc[c] \in Inside, HoldOn(c, place)
      PROVE  GuardMatchesPlace'
  BY <1>5 DEF HoldOn, GoTo, GuardMatchesPlace, TypeOK
<1>6. ASSUME NEW c \in Callers, Run(c) PROVE GuardMatchesPlace'
  <2>1. pc[c] \in Inside
    BY <1>6 DEF Run, At, Inside, RunGet, RunList, RunInsert, RunConfirm, RunDelete,
                RunRead, RunUpdate, RunWriteMembers, RunReadBack
  <2>2. \/ \E place : place \notin Inside /\ GoTo(c, place) /\ lock' = Free
        \/ \E place \in Inside : HoldOn(c, place)
    BY <1>6, Zenon DEF Run, Inside, RunGet, RunList, RunInsert, RunConfirm, RunDelete,
                RunRead, RunUpdate, RunWriteMembers, RunReadBack, Return
  <2> QED
    BY <1>4, <1>5, <2>1, <2>2
<1>7. CASE UNCHANGED vars
  BY <1>7 DEF vars, GuardMatchesPlace
<1> QED
  BY <1>1, <1>2, <1>3, <1>6, <1>7 DEF Next, Finished

(* No way out of an operation, early return and error included, leaves the *)
(* connection mutex taken, and at most one call is between its statements. *)
THEOREM MutualExclusion == Spec => []GuardMatchesPlace
  BY TypedInit, TypedStep, GuardInit, GuardStep, PTL DEF Spec
-----------------------------------------------------------------------------
(* A step of one call leaves another call inside, and what it reads, alone. *)
LEMMA OthersUndisturbed ==
  ASSUME Typed, GuardMatchesPlace, NEW c \in Callers, NEW d \in Callers, c # d,
         pc[c] \in Inside, Begin(d) \/ Acquire(d) \/ Drop(d) \/ Run(d)
  PROVE  /\ UNCHANGED <<rows, seal>>
         /\ call'[c] = call[c] /\ pc'[c] = pc[c] /\ held'[c] = held[c] /\ res'[c] = res[c]
<1>1. lock = c
  BY DEF GuardMatchesPlace
<1>2. ~Run(d) /\ ~Acquire(d)
  BY <1>1, FreeAssumption DEF GuardMatchesPlace, Inside, Acquire, Run, At, RunGet, RunList,
     RunInsert, RunConfirm, RunDelete, RunRead, RunUpdate, RunWriteMembers, RunReadBack
<1>3. Begin(d) \/ Drop(d)
  BY <1>2
<1> QED
  BY <1>3 DEF Begin, Drop, GoTo, Typed, TypeOK

LEMMA StaleInit == Init => NoStaleWrite
  BY DEF Init, NoStaleWrite, At

LEMMA StaleStep ==
  Typed /\ GuardMatchesPlace /\ NoStaleWrite /\ [Next]_vars => NoStaleWrite'
<1> SUFFICES ASSUME Typed, GuardMatchesPlace, NoStaleWrite, [Next]_vars,
                    NEW c \in Callers, (At(c, "write"))'
             PROVE  (~EndsAtRead(c) /\ held[c] = Changed(c))'
  BY DEF NoStaleWrite
<1> DEFINE Fresh == ~EndsAtRead(c) /\ held[c] = Changed(c)
<1>1. ASSUME pc[c] = "write", UNCHANGED <<rows, seal>>, call'[c] = call[c], held'[c] = held[c]
      PROVE  Fresh'
  BY <1>1 DEF NoStaleWrite, At, EndsAtRead, ReadAnswer, TheRow, Target, Changed, Runs
<1>2. ASSUME NEW d \in Callers, d # c, Begin(d) \/ Acquire(d) \/ Drop(d) \/ Run(d)
      PROVE  Fresh'
  <2>1. pc'[c] = pc[c]
    BY <1>2 DEF Begin, Acquire, Drop, Run, RunGet, RunList, RunInsert, RunConfirm, RunDelete,
                RunRead, RunUpdate, RunWriteMembers, RunReadBack, Return, HoldOn, GoTo,
                Typed, TypeOK
  <2>2. pc[c] = "write"
    BY <2>1 DEF At
  <2> QED
    BY <1>1, <1>2, <2>2, OthersUndisturbed DEF Inside
<1>3. ASSUME Begin(c) \/ Acquire(c) \/ Drop(c) \/ Run(c) PROVE Fresh'
  <2>1. RunRead(c) /\ ~EndsAtRead(c)
    BY <1>3 DEF Begin, Acquire, Drop, Run, RunGet, RunList, RunInsert, RunConfirm, RunDelete,
                RunRead, RunUpdate, RunWriteMembers, RunReadBack, Return, HoldOn, GoTo,
                At, Typed, TypeOK
  <2>2. held' = [held EXCEPT ![c] = Changed(c)] /\ UNCHANGED <<rows, seal, call>>
    BY <2>1 DEF RunRead
  <2> QED
    BY <2>1, <2>2 DEF EndsAtRead, ReadAnswer, TheRow, Target, Changed, Runs, Typed, TypeOK
<1>4. CASE UNCHANGED vars
  BY <1>1, <1>4 DEF vars, At
<1> QED
  BY <1>2, <1>3, <1>4 DEF Next, Finished

(* The row update, add_member and remove_member write over is the row they *)
(* read: no other call's field or roster entry is lost.                    *)
THEOREM NoLostUpdate == Spec => []NoStaleWrite
  BY TypedInit, TypedStep, GuardInit, GuardStep, StaleInit, StaleStep, PTL DEF Spec
-----------------------------------------------------------------------------
Safe == Typed /\ GuardMatchesPlace /\ NoStaleWrite

(* A step of c changes no answer but c's. *)
LEMMA OnlyOwnAnswer ==
  ASSUME Safe, NEW c \in Callers, Begin(c) \/ Acquire(c) \/ Drop(c) \/ Run(c)
  PROVE  Answered' = [Answered EXCEPT ![c] = Answered'[c]]
<1>1. ASSUME NEW d \in Callers, d # c PROVE Answered'[d] = Answered[d]
  <2>1. pc'[d] = pc[d] /\ res'[d] = res[d]
    BY <1>1 DEF Begin, Acquire, Drop, Run, RunGet, RunList, RunInsert, RunConfirm, RunDelete,
                RunRead, RunUpdate, RunWriteMembers, RunReadBack, Return, HoldOn, GoTo,
                Safe, Typed, TypeOK
  <2>2. CASE pc[d] = "readback"
    <3>1. UNCHANGED <<rows, seal>> /\ call'[d] = call[d]
      BY <1>1, <2>2, OthersUndisturbed DEF Inside, Safe
    <3> QED
      BY <2>1, <2>2, <3>1 DEF Answered, At, ReadAnswer, TheRow, Target
  <2>3. CASE pc[d] # "readback"
    BY <2>1, <2>3 DEF Answered, At
  <2> QED
    BY <2>2, <2>3
<1> QED
  BY <1>1 DEF Answered

(* AtomicTeams has its own copy of the row operations: they are the same. *)
LEMMA SameRecords ==
  /\ Atomic!Calls = Calls
  /\ Atomic!Pending = Pending
  /\ Atomic!SealStates = SealStates
  /\ \A table : Atomic!Present(table) = Present(table)
  /\ \A ids : Atomic!Listing(ids) = Listing(ids)
  /\ \A kind, id : Atomic!Says(kind, id) = Says(kind, id)
  /\ \A state : /\ Atomic!RowsAtOpen(state) = RowsAtOpen(state)
                /\ Atomic!Writable(state) = Writable(state)
  /\ \A row, state : Atomic!Listable(row, state) = Listable(row, state)
  /\ \A id, row, state : /\ Atomic!Read(id, row, state) = Read(id, row, state)
                         /\ Atomic!Confirmed(id, row, state) = Confirmed(id, row, state)
<1>1. \A row, state : Atomic!Opens(row, state) = Opens(row, state)
  BY DEF Atomic!Opens, Opens
<1>2. \A kind, id : Atomic!Says(kind, id) = Says(kind, id)
  BY DEF Atomic!Says, Says
<1>3. \A id, row, state : Atomic!Read(id, row, state) = Read(id, row, state)
  BY <1>1, <1>2 DEF Atomic!Read, Read
<1>4. \A id, row, state : Atomic!Confirmed(id, row, state) = Confirmed(id, row, state)
  BY <1>2, <1>3 DEF Atomic!Confirmed, Confirmed
<1>5. \A row, state : Atomic!Listable(row, state) = Listable(row, state)
  BY <1>1 DEF Atomic!Listable, Listable
<1>6. \A state : Atomic!RowsAtOpen(state) = RowsAtOpen(state)
  BY DEF Atomic!RowsAtOpen, RowsAtOpen, Atomic!FormsAtOpen, FormsAtOpen
<1>7. Atomic!Calls = Calls
  BY DEF Atomic!Calls, Calls
<1> QED
  BY <1>2, <1>3, <1>4, <1>5, <1>6, <1>7
     DEF Atomic!Pending, Pending, Atomic!SealStates, SealStates, Atomic!Present, Present,
         Atomic!Listing, Listing, Atomic!Writable, Writable

LEMMA SameWrites ==
  /\ \A body, state : Atomic!Inserted(body, state) = Inserted(body, state)
  /\ \A row, patch : Atomic!ApplyPatch(row, patch) = ApplyPatch(row, patch)
  /\ \A row, record, state :
       Atomic!UpdatedRow(row, record, state) = UpdatedRow(row, record, state)
  /\ \A row, members : Atomic!RewrittenMembers(row, members) = RewrittenMembers(row, members)
  /\ \A members, agent : /\ Atomic!IsMember(members, agent) = IsMember(members, agent)
                         /\ Atomic!Joined(members, agent) = Joined(members, agent)
                         /\ Atomic!Without(members, agent) = Without(members, agent)
<1>1. \A members, agent : Atomic!IsMember(members, agent) = IsMember(members, agent)
  BY DEF Atomic!IsMember, IsMember
<1>2. \A members, agent : Atomic!Joined(members, agent) = Joined(members, agent)
  BY <1>1 DEF Atomic!Joined, Joined
<1>3. \A members, agent : Atomic!Without(members, agent) = Without(members, agent)
  BY DEF Atomic!Without, Without
<1>4. \A row, patch : Atomic!ApplyPatch(row, patch) = ApplyPatch(row, patch)
  BY DEF Atomic!ApplyPatch, ApplyPatch, Atomic!Patched, Patched
<1> QED
  BY <1>1, <1>2, <1>3, <1>4
     DEF Atomic!Inserted, Inserted, Atomic!UpdatedRow, UpdatedRow, Atomic!WrittenForm,
         WrittenForm, Atomic!RewrittenMembers, RewrittenMembers

LEMMA AtomicInit == Init => Atomic!Init
<1> SUFFICES ASSUME Init PROVE Atomic!Init
  OBVIOUS
<1>1. Answered = [c \in Callers |-> Pending]
  BY DEF Init, Answered, At
<1> QED
  BY <1>1, SameRecords DEF Init, Atomic!Init, Atomic!TableInit

LEMMA AtomicStep == Safe /\ [Next]_vars => [Atomic!Next]_(Atomic!vars)
<1> SUFFICES ASSUME Safe, [Next]_vars PROVE [Atomic!Next]_(Atomic!vars)
  OBVIOUS
<1> USE DEF Safe, Typed
<1>1. ASSUME NEW c \in Callers, Begin(c) PROVE Atomic!Next
  <2>1. Answered'[c] = Answered[c]
    BY <1>1 DEF Begin, GoTo, At, Answered, TypeOK
  <2>2. Answered' = Answered
    BY <1>1, <2>1, OnlyOwnAnswer DEF Answered
  <2>3. call[c] = NoCall
    BY <1>1 DEF Begin, At, Shape
  <2>4. Atomic!Invoke(c)
    BY <1>1, <2>2, <2>3, SameRecords DEF Begin, Atomic!Invoke, Atomic!table
  <2> QED
    BY <2>4 DEF Atomic!Next
<1>2. ASSUME NEW c \in Callers, Acquire(c) \/ Drop(c) PROVE UNCHANGED Atomic!vars
  <2>1. Answered'[c] = Answered[c]
    BY <1>2 DEF Acquire, Drop, GoTo, At, Answered, TypeOK
  <2>2. Answered' = Answered
    BY <1>2, <2>1, OnlyOwnAnswer DEF Answered
  <2> QED
    BY <1>2, <2>2 DEF Acquire, Drop, Atomic!vars
<1>3. ASSUME NEW c \in Callers, Run(c) PROVE [Atomic!Next]_(Atomic!vars)
  <2> DEFINE answer == Answered'[c]
  <2>1. Atomic!Reply(c, answer)
    BY <1>3, OnlyOwnAnswer DEF Atomic!Reply
  <2>2. ASSUME NEW op, pc[c] = "locked" \/ pc[c] = "write", call[c].op = op
        PROVE  Atomic!Waiting(c, op)
    BY <2>2, SameRecords DEF Atomic!Waiting, Answered, At, Shape, Pending
  <2>4. ASSUME NEW value, Return(c, value) PROVE answer = value
    BY <2>4 DEF Return, GoTo, Answered, At, TypeOK
  <2>5. ASSUME HoldOn(c, "readback"), UNCHANGED <<call, seal>>
        PROVE  answer = Read(call[c].id, rows'[call[c].id], seal)
    BY <2>5 DEF HoldOn, GoTo, Answered, TypeOK
  <2>6. CASE RunGet(c)
    <3>1. Atomic!Get(c, call[c].id)
      BY <2>1, <2>4, <2>6, SameRecords DEF RunGet, Atomic!Get, Atomic!ReplyRead, Atomic!Reply,
                              ReadAnswer, TheRow, Target
    <3> QED
      BY <2>2, <2>6, <3>1 DEF RunGet, At, Runs, Atomic!Next, Atomic!Serve
  <2>7. CASE RunList(c)
    <3>1. Atomic!List(c)
      BY <2>1, <2>4, <2>7, SameRecords DEF RunList, Atomic!List
    <3> QED
      BY <2>2, <2>7, <3>1 DEF RunList, At, Runs, Atomic!Next, Atomic!Serve
  <2>8. CASE RunInsert(c)
    <3>1. CASE Writable(seal)
      <4>1. answer = Says("inserted", call[c].id)
        BY <2>8, <3>1 DEF RunInsert, GoTo, Answered, At, TypeOK, Target
      <4>2. Atomic!Insert(c, call[c].id, call[c].body)
        BY <2>1, <2>8, <3>1, <4>1, SameRecords, SameWrites DEF RunInsert, Atomic!Insert, Target
      <4> QED
        BY <2>2, <2>8, <4>2 DEF RunInsert, At, Runs, Atomic!Next, Atomic!Serve
    <3>2. CASE ~Writable(seal)
      <4>1. answer = Says("refused", call[c].id)
        BY <2>4, <2>8, <3>2 DEF RunInsert, Target
      <4>2. Atomic!Insert(c, call[c].id, call[c].body)
        BY <2>1, <2>8, <3>2, <4>1, SameRecords, SameWrites DEF RunInsert, Atomic!Insert, Target
      <4> QED
        BY <2>2, <2>8, <4>2 DEF RunInsert, At, Runs, Atomic!Next, Atomic!Serve
    <3> QED
      BY <3>1, <3>2
  <2>9. CASE RunConfirm(c)
    <3>1. Answered[c].kind = "inserted"
      <4>1. pc[c] = "relocked"
        BY <2>9 DEF RunConfirm, At
      <4>2. res[c] = Says("inserted", call[c].id)
        BY <4>1 DEF Shape
      <4>3. Answered[c] = res[c]
        BY <4>1 DEF Answered
      <4> QED
        BY <4>2, <4>3 DEF Says
    <3>2. Atomic!Confirm(c, call[c].id)
      BY <2>1, <2>4, <2>9, <3>1, SameRecords DEF RunConfirm, Atomic!Confirm, Target, TheRow
    <3> QED
      BY <2>9, <3>2 DEF RunConfirm, Atomic!Next, Atomic!Serve
  <2>10. CASE RunDelete(c)
    <3>1. Atomic!Delete(c, call[c].id)
      BY <2>1, <2>4, <2>10, SameRecords DEF RunDelete, Atomic!Delete, Target, TheRow
    <3> QED
      BY <2>2, <2>10, <3>1 DEF RunDelete, At, Runs, Atomic!Next, Atomic!Serve
  <2>11. CASE RunRead(c)
    <3>1. call[c].op \in {"update", "add", "remove"} /\ pc[c] = "locked"
      BY <2>11 DEF RunRead, At, Runs
    <3>2. CASE EndsAtRead(c)
      <4>1. answer = ReadAnswer(c) /\ UNCHANGED <<rows, seal, call, minted>>
        BY <2>4, <2>11, <3>2 DEF RunRead
      <4>2. Atomic!ReplyRead(c, call[c].id)
        BY <2>1, <4>1, SameRecords DEF Atomic!ReplyRead, ReadAnswer, TheRow, Target
      <4>3. CASE ReadAnswer(c).kind # "team"
        <5>1. Read(call[c].id, rows[call[c].id], seal).kind # "team"
          BY <4>3 DEF ReadAnswer, TheRow, Target
        <5>2. CASE call[c].op = "update"
          <6>1. Atomic!Update(c, call[c].id, call[c].patch)
            BY <4>1, <4>2, <5>1, SameRecords, SameWrites DEF Atomic!Update
          <6> QED
            BY <2>2, <3>1, <4>1, <5>2, <6>1 DEF Atomic!Next, Atomic!Serve
        <5>3. CASE call[c].op = "add"
          <6>1. Atomic!AddMember(c, call[c].id, call[c].agent)
            BY <4>1, <4>2, <5>1, SameRecords, SameWrites DEF Atomic!AddMember, Atomic!Rewrite
          <6> QED
            BY <2>2, <3>1, <4>1, <5>3, <6>1 DEF Atomic!Next, Atomic!Serve
        <5>4. CASE call[c].op = "remove"
          <6>1. Atomic!RemoveMember(c, call[c].id, call[c].agent)
            BY <4>1, <4>2, <5>1, SameRecords, SameWrites DEF Atomic!RemoveMember, Atomic!Rewrite
          <6> QED
            BY <2>2, <3>1, <4>1, <5>4, <6>1 DEF Atomic!Next, Atomic!Serve
        <5> QED
          BY <3>1, <5>2, <5>3, <5>4
      <4>4. CASE ReadAnswer(c).kind = "team"
        <5>1. call[c].op = "add" /\ IsMember(TheRow(c).members, call[c].agent)
          BY <3>2, <4>4 DEF EndsAtRead, Runs
        <5>2. Atomic!AddMember(c, call[c].id, call[c].agent)
          BY <4>1, <4>2, <5>1, SameRecords, SameWrites DEF Atomic!AddMember, Atomic!Rewrite, TheRow, Target
        <5> QED
          BY <2>2, <3>1, <4>1, <5>1, <5>2 DEF Atomic!Next, Atomic!Serve
      <4> QED
        BY <4>3, <4>4
    <3>3. CASE ~EndsAtRead(c)
      <4>1. HoldOn(c, "write") /\ UNCHANGED <<rows, seal, call, minted>>
        BY <2>11, <3>3 DEF RunRead
      <4>2. Answered' = Answered
        <5>1. answer = Answered[c]
          BY <3>1, <4>1 DEF HoldOn, GoTo, Answered, At, TypeOK
        <5> QED
          BY <1>3, <5>1, OnlyOwnAnswer DEF Answered
      <4> QED
        BY <4>1, <4>2 DEF Atomic!vars
    <3> QED
      BY <3>2, <3>3
  <2>12. CASE RunUpdate(c)
    <3>1. call[c].op = "update" /\ pc[c] = "write"
      BY <2>12 DEF RunUpdate, At, Runs
    <3>2. /\ Read(call[c].id, rows[call[c].id], seal).kind = "team"
          /\ held[c] = ApplyPatch(rows[call[c].id], call[c].patch)
      BY <3>1 DEF NoStaleWrite, At, EndsAtRead, ReadAnswer, TheRow, Target, Changed, Runs
    <3>3. rows[call[c].id] # NoRow
      BY <3>2 DEF Read, Says
    <3>4. CASE Writable(seal)
      <4>1. /\ rows' = [rows EXCEPT ![call[c].id] = OnRow(@, UpdatedRow(@, held[c], seal))]
            /\ HoldOn(c, "readback") /\ UNCHANGED <<seal, call, minted>>
        BY <2>12, <3>4 DEF RunUpdate, Target
      <4>2. rows' = [rows EXCEPT ![call[c].id] =
                       UpdatedRow(@, ApplyPatch(@, call[c].patch), seal)]
        BY <3>2, <3>3, <4>1 DEF OnRow
      <4>3. answer = Read(call[c].id, rows'[call[c].id], seal)
        BY <2>5, <4>1
      <4>4. Atomic!ReplyRead(c, call[c].id)
        BY <2>1, <4>3, SameRecords DEF Atomic!ReplyRead
      <4>5. Atomic!Update(c, call[c].id, call[c].patch)
        BY <3>2, <3>4, <4>1, <4>2, <4>4, SameRecords, SameWrites DEF Atomic!Update
      <4> QED
        BY <2>2, <3>1, <4>1, <4>5 DEF Atomic!Next, Atomic!Serve
    <3>5. CASE ~Writable(seal)
      <4>1. answer = Says("refused", call[c].id) /\ UNCHANGED <<rows, seal, call, minted>>
        BY <2>4, <2>12, <3>5 DEF RunUpdate, Target
      <4>2. Atomic!Update(c, call[c].id, call[c].patch)
        BY <2>1, <3>2, <3>5, <4>1, SameRecords, SameWrites DEF Atomic!Update
      <4> QED
        BY <2>2, <3>1, <4>1, <4>2 DEF Atomic!Next, Atomic!Serve
    <3> QED
      BY <3>4, <3>5
  <2>13. CASE RunWriteMembers(c)
    <3>1. call[c].op \in {"add", "remove"} /\ pc[c] = "write"
      BY <2>13 DEF RunWriteMembers, At, Runs
    <3>2. /\ Read(call[c].id, rows[call[c].id], seal).kind = "team"
          /\ held[c] = Changed(c)
      BY <3>1 DEF NoStaleWrite, At, EndsAtRead, ReadAnswer, TheRow, Target
    <3>3. rows[call[c].id] # NoRow
      BY <3>2 DEF Read, Says
    <3>4. /\ rows' = [rows EXCEPT ![call[c].id] = OnRow(@, RewrittenMembers(@, held[c].members))]
          /\ HoldOn(c, "readback") /\ UNCHANGED <<seal, call, minted>>
      BY <2>13 DEF RunWriteMembers, Target
    <3>5. rows' = [rows EXCEPT ![call[c].id] = RewrittenMembers(@, held[c].members)]
      BY <3>3, <3>4 DEF OnRow
    <3>6. answer = Read(call[c].id, rows'[call[c].id], seal)
      BY <2>5, <3>4
    <3>7. Atomic!ReplyRead(c, call[c].id)
      BY <2>1, <3>6, SameRecords DEF Atomic!ReplyRead
    <3>8. rows[call[c].id] \in Row
      <4>1. call[c].id \in TeamIds
        BY <3>1, CallArguments DEF TypeOK, Shape
      <4> QED
        BY <3>3, <4>1 DEF TypeOK
    <3>9. CASE call[c].op = "add"
      <4>1. /\ held[c].members = Append(rows[call[c].id].members, call[c].agent)
            /\ ~IsMember(rows[call[c].id].members, call[c].agent)
        BY <3>1, <3>2, <3>8, <3>9
           DEF NoStaleWrite, At, EndsAtRead, Changed, Runs, ReadAnswer, TheRow, Target, Row
      <4>2. Atomic!AddMember(c, call[c].id, call[c].agent)
        BY <3>2, <3>4, <3>5, <3>7, <4>1, SameRecords, SameWrites DEF Atomic!AddMember, Atomic!Rewrite, Joined
      <4> QED
        BY <2>2, <3>1, <3>4, <3>9, <4>2 DEF Atomic!Next, Atomic!Serve
    <3>10. CASE call[c].op = "remove"
      <4>1. held[c].members = Without(rows[call[c].id].members, call[c].agent)
        BY <3>2, <3>8, <3>10 DEF Changed, Runs, TheRow, Target, Row
      <4>2. Atomic!RemoveMember(c, call[c].id, call[c].agent)
        BY <3>2, <3>4, <3>5, <3>7, <4>1, SameRecords, SameWrites DEF Atomic!RemoveMember, Atomic!Rewrite
      <4> QED
        BY <2>2, <3>1, <3>4, <3>10, <4>2 DEF Atomic!Next, Atomic!Serve
    <3> QED
      BY <3>1, <3>9, <3>10
  <2>14. CASE RunReadBack(c)
    <3>1. answer = ReadAnswer(c) /\ UNCHANGED <<rows, seal, call, minted>>
      BY <2>4, <2>14 DEF RunReadBack
    <3>2. answer = Answered[c]
      BY <2>14, <3>1 DEF RunReadBack, Answered, At, ReadAnswer, TheRow, Target
    <3>3. Answered' = Answered
      BY <1>3, <3>2, OnlyOwnAnswer DEF Answered
    <3> QED
      BY <3>1, <3>3 DEF Atomic!vars
  <2> QED
    BY <1>3, <2>6, <2>7, <2>8, <2>9, <2>10, <2>11, <2>12, <2>13, <2>14 DEF Run
<1>4. CASE UNCHANGED vars
  BY <1>4 DEF vars, Atomic!vars, Answered, At, ReadAnswer, TheRow, Target
<1> QED
  BY <1>1, <1>2, <1>3, <1>4 DEF Next, Finished

(* TeamStore implements AtomicTeams: each call of the mutex-guarded store  *)
(* takes effect at one instant on the current row, create at two, and is   *)
(* answered from that instant, for any number of callers and teams.        *)
THEOREM StoreIsAtomic == Spec => ImplementsAtomic
<1>1. Spec => []Safe
  BY TypedInit, TypedStep, GuardInit, GuardStep, StaleInit, StaleStep, PTL DEF Spec, Safe
<1>2. Init => Atomic!Init
  BY AtomicInit
<1>3. Safe /\ [Next]_vars => [Atomic!Next]_(Atomic!vars)
  BY AtomicStep
<1> QED
  BY <1>1, <1>2, <1>3, PTL DEF Spec, ImplementsAtomic, Atomic!Spec
=============================================================================
