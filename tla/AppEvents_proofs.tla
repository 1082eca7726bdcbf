--------------------------- MODULE AppEvents_proofs ---------------------------
(* Proofs about AppEvents, for any limits, bounds and streams, and about the *)
(* handlers of TeamsApi, whose events go out through that client.            *)
EXTENDS AppEvents, TeamsApi, TLAPS, NaturalsInduction, WellFoundedInduction

Outcomes == {"swallowed", "ok", "invalid", "not hosted", "transport", "timeout", "rejected"}

ValidCalls ==
  [kind : Kinds \cup {None}, limit : Limits \cup {None}, quiet : BOOLEAN,
   pc : {"idle", "sent", "awaiting", "framing", "ended"}, outcome : Outcomes \cup {None}]

(***************************************************************************)
(* Why outcomes are honest. Only a hosted call is under way, and it has no *)
(* outcome yet; one whose answer streams was taken by Core; and a call     *)
(* with a limit is decided before its own bound has run out.               *)
(***************************************************************************)
CallInv ==
  /\ call \in ValidCalls /\ core \in {"unseen", "refused", "done"} /\ elapsed \in Nat
  /\ call.pc = "idle" => call = NoRequest /\ core = "unseen" /\ elapsed = 0
  /\ call.pc \in {"sent", "awaiting", "framing"} => Hosted /\ call.outcome = None
  /\ call.pc \in {"awaiting", "framing"} => core = "done" /\ call.kind = "stream"
  /\ call.kind = "stream" => call.limit = None /\ ~call.quiet
  /\ call.limit # None => call.kind = "provider" /\ elapsed <= call.limit + HopMax

\* The longest limit is one of them.
LEMMA LongestIsLimit == MaxLimit \in Limits /\ \A limit \in Limits : limit <= MaxLimit
<1>1. PICK longest \in Limits : \A limit \in Limits : longest >= limit
  BY AppEventsAssumption
<1>2. \E x \in Limits : \A y \in Limits : x >= y
  BY <1>1
<1>3. MaxLimit \in Limits /\ \A y \in Limits : MaxLimit >= y
  BY <1>2 DEF MaxLimit, Max
<1> QED BY <1>3, AppEventsAssumption

\* What a call asks Core to do, as its start leaves it.
Posted(kind, limit, quiet) == \E valid \in BOOLEAN : Post(kind, valid, limit, quiet)

LEMMA StartPosts ==
  ASSUME Start
  PROVE  \E kind \in Kinds, limit \in Limits \cup {None}, quiet \in BOOLEAN :
           /\ Posted(kind, limit, quiet)
           /\ limit # None => kind = "provider"
           /\ kind = "stream" => ~quiet
<1> USE DEF Kinds
<1>1. CASE Emit \/ Status \/ Authorize \/ Stream
  <2>1. \/ \E quiet \in BOOLEAN : Posted("emit", None, quiet)
        \/ Posted("status", None, FALSE)
        \/ Posted("authorize", None, FALSE)
        \/ Posted("stream", None, FALSE)
    BY <1>1 DEF Emit, Status, Authorize, Stream, ValidStream, Posted
  <2> QED BY <2>1
<1>2. CASE Publish
  <2>1. \E quiet \in BOOLEAN : Posted("publish", None, quiet)
    BY <1>2 DEF Publish, ValidPublish, Posted
  <2> QED BY <2>1
<1>3. CASE Report
  <2>1. \E quiet \in BOOLEAN : Posted("report", None, quiet)
    BY <1>3 DEF Report, ValidReport, Posted
  <2> QED BY <2>1
<1>4. CASE Call
  <2>1. PICK r : Post("provider", ValidCall(r), r.timeout, FALSE)
                 /\ r.timeout \in Limits \cup {None, 0, MaxLimit + 1}
    BY <1>4 DEF Call
  <2>2. CASE r.timeout \in Limits \cup {None}
    <3>1. Posted("provider", r.timeout, FALSE)
      BY <2>1 DEF Posted, ValidCall
    <3> QED BY <2>2, <3>1
  <2>3. CASE r.timeout \notin Limits \cup {None}
    <3>1. MaxLimit \in Nat /\ 0 \notin 1..MaxLimit /\ MaxLimit + 1 \notin 1..MaxLimit
      BY LongestIsLimit, AppEventsAssumption
    <3>2. ~ValidCall(r)
      BY <2>1, <2>3, <3>1 DEF ValidCall
    <3>3. Post("provider", FALSE, None, FALSE)
      BY <2>1, <3>2 DEF Post
    <3> QED BY <3>3 DEF Posted
  <2> QED BY <2>2, <2>3
<1> QED BY <1>1, <1>2, <1>3, <1>4 DEF Start

\* A call that was started waits for Core, or has ended before it was sent.
LEMMA PostKeepsCall ==
  ASSUME CallInv, call.pc = "idle", NEW kind \in Kinds, NEW limit \in Limits \cup {None},
         NEW quiet \in BOOLEAN, Posted(kind, limit, quiet),
         limit # None => kind = "provider", kind = "stream" => ~quiet
  PROVE  /\ CallInv' /\ UNCHANGED <<endpoint, token, core, elapsed, stream>>
         /\ call'.outcome \in {None, "invalid", "not hosted", "swallowed"}
<1> USE AppEventsAssumption
<1>1. PICK valid \in BOOLEAN : Post(kind, valid, limit, quiet)
  BY DEF Posted
<1> DEFINE outcome == IF ~valid THEN "invalid" ELSE IF ~Hosted THEN "not hosted" ELSE None
<1>2. /\ call' = [kind |-> kind, limit |-> IF valid THEN limit ELSE None, quiet |-> quiet,
                  pc |-> IF outcome = None THEN "sent" ELSE "ended",
                  outcome |-> IF quiet /\ outcome # None THEN "swallowed" ELSE outcome]
      /\ UNCHANGED <<endpoint, token, core, elapsed, stream>>
  BY <1>1 DEF Post
<1>3. /\ outcome \in {None, "invalid", "not hosted"} /\ (outcome = None => Hosted)
  BY NoneAssumption
<1> HIDE DEF outcome
<1>4. /\ call'.kind = kind /\ call'.limit \in {limit, None} /\ call'.quiet = quiet
      /\ call'.pc \in {"sent", "ended"} /\ (call'.pc = "sent" => Hosted /\ call'.outcome = None)
      /\ call'.outcome \in {None, "invalid", "not hosted", "swallowed"}
      /\ call' \in ValidCalls
  BY <1>2, <1>3 DEF ValidCalls, Outcomes
<1>5. Hosted' = Hosted
  BY <1>2 DEF Hosted
<1>6. core = "unseen" /\ elapsed = 0
  BY DEF CallInv
<1>7. call'.limit # None => call'.kind = "provider" /\ elapsed' <= call'.limit + HopMax
  <2>1. SUFFICES ASSUME call'.limit # None
                 PROVE  call'.kind = "provider" /\ elapsed' <= call'.limit + HopMax
    OBVIOUS
  <2>2. call'.limit = limit /\ limit \in Nat /\ kind = "provider"
    BY <1>4, <2>1
  <2>3. 0 <= limit + HopMax
    BY <2>2
  <2>4. elapsed' = 0
    BY <1>2, <1>6
  <2>5. call'.kind = kind
    BY <1>4
  <2> QED BY <2>2, <2>3, <2>4, <2>5
<1>8. call'.kind = "stream" => call'.limit = None /\ ~call'.quiet
  BY <1>4
<1>9. core' = core /\ elapsed' = elapsed
  BY <1>2
<1> QED BY <1>2, <1>4, <1>5, <1>6, <1>7, <1>8, <1>9 DEF CallInv

LEMMA CallStep ==
  ASSUME CallInv, [Next]_vars
  PROVE  CallInv'
<1> USE AppEventsAssumption
<1>0. Hosted' = Hosted
  <2>1. endpoint' = endpoint /\ token' = token
    <3>1. CASE call.pc = "idle" /\ Start
      BY <3>1, StartPosts, PostKeepsCall
    <3>2. CASE UNCHANGED vars
      BY <3>2 DEF vars
    <3> QED BY <3>1, <3>2
         DEF Next, CoreTakes, Answered, Lost, TimeOut, Tick, Chunk, Frame, Eof, Broken, Over
  <2> QED BY <2>1 DEF Hosted
<1>1. CASE call.pc = "idle" /\ Start
  BY <1>1, StartPosts, PostKeepsCall
<1>2. CASE CoreTakes
  BY <1>0, <1>2 DEF CoreTakes, CallInv
<1>3. ASSUME NEW outcome \in Outcomes, call.pc # "idle", End(outcome),
             core' = core, elapsed' = elapsed
      PROVE  CallInv'
  <2>1. call' = [call EXCEPT !.pc = "ended", !.outcome = Told(outcome)]
    BY <1>3 DEF End
  <2>2. Told(outcome) \in Outcomes
    BY <1>3 DEF Told, Outcomes
  <2> QED BY <1>3, <2>1, <2>2 DEF CallInv, ValidCalls
<1>4. CASE Answered
  <2>1. CASE call.kind = "stream" /\ core = "done" /\ call' = [call EXCEPT !.pc = "awaiting"]
    BY <1>0, <1>4, <2>1 DEF Answered, CallInv, ValidCalls
  <2>2. CASE \E outcome \in Outcomes : End(outcome)
    BY <1>3, <1>4, <2>2 DEF Answered
  <2> QED BY <1>4, <2>1, <2>2
       DEF Answered, AnswerEmit, AnswerPublish, AnswerReport, AnswerCall, AnswerStatus,
           AnswerAuthorize, AnswerStream, Refused, ReadBody, Outcomes
<1>5. CASE Lost \/ TimeOut \/ Eof \/ Broken
  <2>1. \E outcome \in Outcomes : End(outcome)
    BY <1>5 DEF Lost, TimeOut, Eof, Broken, Outcomes
  <2> QED BY <1>3, <1>5, <2>1 DEF Lost, TimeOut, Eof, Broken
<1>6. CASE Tick
  <2>1. call.limit # None => call.limit \in Nat /\ elapsed < call.limit + HopMax
    BY <1>6 DEF Tick, CallInv, ValidCalls
  <2>2. elapsed \in Nat /\ HopMax \in Nat
    BY DEF CallInv
  <2>3. elapsed' = elapsed + 1 /\ call' = call /\ core' = core /\ call.pc = "sent"
    BY <1>6 DEF Tick
  <2>4. elapsed' \in Nat /\ (call.limit # None => elapsed' <= call.limit + HopMax)
    BY <2>1, <2>2, <2>3
  <2> QED BY <1>0, <2>3, <2>4 DEF CallInv
<1>7. CASE Chunk
  BY <1>0, <1>7 DEF Chunk, CallInv, ValidCalls
<1>8. CASE Frame
  <2>1. CASE call' = call
    BY <1>0, <1>8, <2>1 DEF Frame, CallInv
  <2>2. CASE call' = [call EXCEPT !.pc = "awaiting"]
    BY <1>0, <1>8, <2>2 DEF Frame, CallInv, ValidCalls
  <2>3. CASE End("ok")
    BY <1>3, <1>8, <2>3 DEF Frame, Outcomes
  <2> QED BY <1>8, <2>1, <2>2, <2>3 DEF Frame
<1>9. CASE Over
  BY <1>9 DEF Over, NoRequest, CallInv, ValidCalls, Kinds
<1>10. CASE UNCHANGED vars
  BY <1>0, <1>10 DEF vars, CallInv
<1> QED
  BY <1>1, <1>2, <1>4, <1>5, <1>6, <1>7, <1>8, <1>9, <1>10 DEF Next

LEMMA CallInvariant == Spec => []CallInv
<1>1. Init => CallInv
  BY DEF Init, CallInv, NoRequest, ValidCalls, Kinds
<1>2. CallInv /\ [Next]_vars => CallInv'
  BY CallStep
<1> QED BY <1>1, <1>2, PTL DEF Spec
-----------------------------------------------------------------------------
LEMMA OutcomeStep ==
  ASSUME CallInv, OutcomesAreHonest, [Next]_vars
  PROVE  OutcomesAreHonest'
<1> USE AppEventsAssumption
<1>0. /\ call \in ValidCalls /\ CallInv'
  BY CallStep DEF CallInv
<1>1. ASSUME NEW outcome, End(outcome), core' = core, endpoint' = endpoint, token' = token,
             outcome = "ok" => core = "done", outcome = "rejected" => core = "refused",
             outcome \in {"ok", "rejected", "transport", "timeout"},
             outcome = "timeout" => call.limit = None
      PROVE  OutcomesAreHonest'
  <2>1. /\ call'.outcome \in {outcome, "swallowed"} /\ call'.limit = call.limit
    BY <1>0, <1>1 DEF End, Told, ValidCalls
  <2> QED BY <1>1, <2>1 DEF OutcomesAreHonest
<1>2. CASE call.pc = "idle" /\ Start
  <2>1. /\ UNCHANGED <<endpoint, token, core>>
        /\ call'.outcome \in {None, "invalid", "not hosted", "swallowed"}
    BY <1>2, StartPosts, PostKeepsCall
  <2>2. core = "unseen"
    BY <1>2 DEF CallInv
  <2> QED BY <2>1, <2>2, NoneAssumption DEF OutcomesAreHonest
<1>3. CASE CoreTakes
  <2>1. /\ call' = call /\ call.outcome = None /\ endpoint # None /\ token
        /\ endpoint' = endpoint /\ token' = token
    BY <1>3 DEF CoreTakes, CallInv, Hosted
  <2> QED BY <2>1, NoneAssumption DEF OutcomesAreHonest
<1>4. CASE Answered
  <2>1. core' = core /\ endpoint' = endpoint /\ token' = token
    BY <1>4 DEF Answered
  <2>2. CASE call.kind = "stream" /\ call' = [call EXCEPT !.pc = "awaiting"]
    <3>1. call'.outcome = call.outcome /\ call'.limit = call.limit
      BY <1>0, <2>2 DEF ValidCalls
    <3> QED BY <2>1, <3>1 DEF OutcomesAreHonest
  <2>3. CASE \/ core = "refused" /\ End("rejected")
             \/ core = "done" /\ End("ok")
             \/ End("transport")
    BY <1>1, <2>1, <2>3
  <2> QED BY <1>4, <2>2, <2>3
       DEF Answered, AnswerEmit, AnswerPublish, AnswerReport, AnswerCall, AnswerStatus,
           AnswerAuthorize, AnswerStream, Refused, ReadBody
<1>5. CASE Lost
  BY <1>1, <1>5 DEF Lost
<1>6. CASE TimeOut
  <2>1. call.limit = None
    <3>1. SUFFICES ASSUME call.limit # None PROVE FALSE
      OBVIOUS
    <3>2. call.limit \in Nat /\ elapsed <= call.limit + HopMax /\ elapsed \in Nat
      BY <1>0, <3>1 DEF CallInv, ValidCalls
    <3>3. elapsed >= call.limit + Margin
      BY <1>6, <3>1 DEF TimeOut, TimeBound
    <3> QED BY <3>2, <3>3
  <2> QED BY <1>1, <1>6, <2>1 DEF TimeOut
<1>7. CASE Eof \/ Broken
  <2>1. core = "done"
    BY <1>7 DEF Eof, Broken, CallInv
  <2> QED BY <1>1, <1>7, <2>1 DEF Eof, Broken
<1>8. CASE Frame
  <2>1. core = "done" /\ core' = core /\ endpoint' = endpoint /\ token' = token
    BY <1>8 DEF Frame, CallInv
  <2>2. CASE call' = call \/ call' = [call EXCEPT !.pc = "awaiting"]
    <3>1. call'.outcome = call.outcome /\ call'.limit = call.limit
      BY <1>0, <2>2 DEF ValidCalls
    <3> QED BY <2>1, <3>1 DEF OutcomesAreHonest
  <2>3. CASE End("ok")
    BY <1>1, <2>1, <2>3
  <2> QED BY <1>8, <2>2, <2>3 DEF Frame
<1>9. CASE Tick \/ Chunk \/ UNCHANGED vars
  <2>1. /\ call'.outcome = call.outcome /\ call'.limit = call.limit
        /\ core' = core /\ endpoint' = endpoint /\ token' = token
    BY <1>0, <1>9 DEF Tick, Chunk, vars, ValidCalls
  <2> QED BY <2>1 DEF OutcomesAreHonest
<1>10. CASE Over
  <2>1. call'.outcome = None /\ call'.limit = None /\ core' = "unseen"
    BY <1>10 DEF Over, NoRequest
  <2> QED BY <2>1, NoneAssumption DEF OutcomesAreHonest
<1> QED
  BY <1>2, <1>3, <1>4, <1>5, <1>6, <1>7, <1>8, <1>9, <1>10 DEF Next

(***************************************************************************)
(* No call of the client reports more than happened, and a provider call   *)
(* with a time of its own never ends by the app's clock, for any limits    *)
(* and any bound of the client, as long as the hops fit the margin         *)
(* (call_with_agent_grant, try_emit, publish, try_report, stream).         *)
(***************************************************************************)
THEOREM HonestOutcomes == Spec => []OutcomesAreHonest
<1>1. Init => OutcomesAreHonest
  <2> SUFFICES ASSUME Init PROVE OutcomesAreHonest
    OBVIOUS
  <2>1. call.outcome = None /\ call.limit = None /\ core = "unseen"
    BY DEF Init, NoRequest
  <2> QED BY <2>1, NoneAssumption DEF OutcomesAreHonest
<1>2. CallInv /\ OutcomesAreHonest /\ [Next]_vars => OutcomesAreHonest'
  BY OutcomeStep
<1> QED BY <1>1, <1>2, CallInvariant, PTL DEF Spec
-----------------------------------------------------------------------------
(* items is a sequence, of whatever. *)
IsSequence(s) == \E S : s \in Seq(S)

(***************************************************************************)
(* Why a stream ends once: while it is read it has yielded nothing         *)
(* terminal, and a frame or an end of the body adds one item at most.      *)
(***************************************************************************)
StreamInv ==
  /\ IsSequence(items)
  /\ call.pc # "ended" => \A i \in 1..Len(items) : items[i] \notin Terminal
  /\ call.pc \in {"idle", "sent"} => items = <<>>

LEMMA AppendedItem ==
  ASSUME IsSequence(items), NEW x
  PROVE  /\ IsSequence(items \o <<x>>) /\ Len(items \o <<x>>) = Len(items) + 1
         /\ Append(items, x) = items \o <<x>> /\ Len(items) \in Nat
         /\ (items \o <<x>>)[Len(items) + 1] = x
         /\ \A i \in 1..Len(items) : (items \o <<x>>)[i] = items[i]
<1>1. PICK S : items \in Seq(S)
  BY DEF IsSequence
<1>2. items \in Seq(S \cup {x}) /\ <<x>> \in Seq(S \cup {x})
  BY <1>1
<1>3. items \o <<x>> \in Seq(S \cup {x})
  BY <1>2
<1> QED BY <1>2, <1>3 DEF IsSequence

LEMMA ParsedIsShort ==
  ASSUME NEW frame
  PROVE  Parsed(frame) = <<>> \/ \E x : Parsed(frame) = <<x>>
BY Zenon DEF Parsed

LEMMA TerminalStep ==
  ASSUME CallInv, StreamInv, OneTerminal, [Next]_vars
  PROVE  StreamInv' /\ OneTerminal'
<1>0. call \in ValidCalls /\ IsSequence(items)
  BY DEF CallInv, StreamInv
<1>1. ASSUME items' = <<>>,
             ~(call'.kind = "stream" /\ call'.outcome = "ok")
      PROVE  StreamInv' /\ OneTerminal'
  <2>1. IsSequence(items)' /\ Len(items') = 0
    <3>1. <<>> \in Seq({})
      OBVIOUS
    <3> QED BY <1>1, <3>1 DEF IsSequence
  <2> QED BY <1>1, <2>1 DEF StreamInv, OneTerminal
<1>2. ASSUME NEW x, items' = items \o <<x>>, call.pc # "ended",
             x \in Terminal => call'.pc = "ended",
             x \notin Terminal => call' = call /\ call.pc \notin {"idle", "sent"},
             call'.pc \notin {"idle", "sent"},
             call.outcome = None
      PROVE  StreamInv' /\ OneTerminal'
  <2>1. /\ IsSequence(items') /\ Len(items') = Len(items) + 1 /\ Len(items) \in Nat
        /\ items'[Len(items')] = x /\ \A i \in 1..Len(items) : items'[i] = items[i]
    BY <1>0, <1>2, AppendedItem
  <2>2. \A i \in 1..Len(items') : i # Len(items') => items'[i] \notin Terminal
    <3>1. \A i \in 1..Len(items') : i # Len(items') => i \in 1..Len(items)
      BY <2>1
    <3> QED BY <1>2, <2>1, <3>1 DEF StreamInv
  <2>3. CASE x \in Terminal
    <3>1. items' # <<>> /\ Last(items') \in Terminal
      BY <2>1, <2>3 DEF Last
    <3> QED BY <1>2, <2>1, <2>2, <2>3, <3>1 DEF StreamInv, OneTerminal
  <2>4. CASE x \notin Terminal
    <3>1. \A i \in 1..Len(items') : items'[i] \notin Terminal
      BY <2>1, <2>2, <2>4
    <3> QED BY <1>2, <2>1, <2>4, <3>1, NoneAssumption DEF StreamInv, OneTerminal
  <2> QED BY <2>3, <2>4
<1>3. ASSUME items' = items, call.pc # "ended", call.outcome = None,
             call'.outcome = None /\ call'.pc \notin {"idle", "sent"}
      PROVE  StreamInv' /\ OneTerminal'
  BY <1>3, NoneAssumption DEF StreamInv, OneTerminal
<1>4. CASE call.pc = "idle" /\ Start
  <2>1. /\ items' = items /\ items = <<>>
        /\ call'.outcome \in {None, "invalid", "not hosted", "swallowed"}
    BY <1>4, StartPosts, PostKeepsCall DEF stream, StreamInv
  <2> QED BY <1>1, <2>1, NoneAssumption
<1>5. CASE CoreTakes \/ Tick
  <2>1. items' = <<>> /\ call.outcome = None /\ call' = call
    BY <1>5 DEF CoreTakes, Tick, stream, StreamInv, CallInv
  <2> QED BY <1>1, <2>1, NoneAssumption
<1>6. CASE Answered \/ Lost \/ TimeOut
  <2>1. items' = <<>> /\ call.outcome = None
    BY <1>6 DEF Answered, Lost, TimeOut, stream, StreamInv, CallInv
  <2>2. CASE call' = [call EXCEPT !.pc = "awaiting"]
    BY <1>0, <1>1, <2>1, <2>2, NoneAssumption DEF ValidCalls
  <2>3. ASSUME NEW outcome, End(outcome), call.kind = "stream" => outcome # "ok"
        PROVE  ~(call'.kind = "stream" /\ call'.outcome = "ok")
    BY <1>0, <2>3 DEF End, Told, ValidCalls
  <2>4. \/ call' = [call EXCEPT !.pc = "awaiting"]
        \/ \E outcome : End(outcome) /\ (call.kind = "stream" => outcome # "ok")
    BY <1>6
       DEF Answered, AnswerEmit, AnswerPublish, AnswerReport, AnswerCall, AnswerStatus,
           AnswerAuthorize, AnswerStream, Refused, ReadBody, Lost, TimeOut
  <2> QED BY <1>1, <2>1, <2>2, <2>3, <2>4
<1>7. CASE Chunk
  <2>1. items' = items /\ call.pc = "awaiting" /\ call' = [call EXCEPT !.pc = "framing"]
    BY <1>7 DEF Chunk
  <2>2. call.outcome = None
    BY <2>1 DEF CallInv
  <2> QED BY <1>0, <1>3, <2>1, <2>2 DEF ValidCalls
<1>8. CASE Frame
  <2>0. call.pc = "framing" /\ call.outcome = None
    BY <1>8 DEF Frame, CallInv
  <2>1. CASE call' = [call EXCEPT !.pc = "awaiting"] /\ items' = items
    BY <1>0, <1>3, <2>0, <2>1 DEF ValidCalls
  <2>2. ASSUME NEW frame, items' = items \o Parsed(frame),
               IF ToSet(Parsed(frame)) \cap Terminal # {} THEN End("ok") ELSE call' = call
        PROVE  StreamInv' /\ OneTerminal'
    <3>1. CASE Parsed(frame) = <<>>
      <4>1. ToSet(Parsed(frame)) = {}
        BY <3>1 DEF ToSet
      <4>2. items \o <<>> = items
        BY <1>0 DEF IsSequence
      <4> QED BY <1>3, <2>0, <2>2, <3>1, <4>1, <4>2
    <3>2. ASSUME NEW x, Parsed(frame) = <<x>> PROVE StreamInv' /\ OneTerminal'
      <4>1. ToSet(Parsed(frame)) = {x}
        BY <3>2 DEF ToSet
      <4>2. End("ok") => call'.pc = "ended"
        BY <1>0 DEF End, ValidCalls
      <4> QED BY <1>2, <2>0, <2>2, <3>2, <4>1, <4>2
    <3> QED BY <3>1, <3>2, ParsedIsShort
  <2> QED BY <1>8, <2>1, <2>2 DEF Frame
<1>9. CASE Eof \/ Broken
  <2>1. PICK x \in {"protocol error", "transport error"} : items' = Append(items, x)
    BY <1>9 DEF Eof, Broken, Yield
  <2>2. call.pc = "awaiting" /\ End("ok") /\ call.outcome = None
    BY <1>9 DEF Eof, Broken, CallInv
  <2>3. call'.pc = "ended" /\ x \in Terminal
    BY <1>0, <2>2 DEF End, ValidCalls, Terminal
  <2>4. items' = items \o <<x>>
    BY <1>0, <2>1, AppendedItem
  <2> QED BY <1>2, <2>2, <2>3, <2>4
<1>10. CASE Over
  <2>1. items' = <<>> /\ call'.outcome = None
    BY <1>10 DEF Over, NoRequest
  <2> QED BY <1>1, <2>1, NoneAssumption
<1>11. CASE UNCHANGED vars
  BY <1>11 DEF vars, stream, StreamInv, OneTerminal
<1> QED
  BY <1>4, <1>5, <1>6, <1>7, <1>8, <1>9, <1>10, <1>11 DEF Next

(***************************************************************************)
(* A model stream yields one terminal item and nothing after it, and has   *)
(* yielded it when it ends, whatever Core sends and however it is cut into *)
(* chunks (ModelStreamClient::stream, parse_model_stream_frame).           *)
(***************************************************************************)
THEOREM StreamsEndOnce == Spec => []OneTerminal
<1>1. Init => StreamInv /\ OneTerminal
  <2> SUFFICES ASSUME Init PROVE StreamInv /\ OneTerminal
    OBVIOUS
  <2>1. items = <<>> /\ call.outcome = None
    BY DEF Init, NoRequest
  <2>2. <<>> \in Seq({})
    OBVIOUS
  <2>3. IsSequence(items) /\ Len(items) = 0
    BY <2>1, <2>2 DEF IsSequence
  <2>4. StreamInv
    BY <2>1, <2>3 DEF StreamInv
  <2>5. ~(call.outcome = "ok")
    BY <2>1, NoneAssumption
  <2> QED BY <2>3, <2>4, <2>5 DEF OneTerminal
<1>2. CallInv /\ StreamInv /\ OneTerminal /\ [Next]_vars => StreamInv' /\ OneTerminal'
  BY TerminalStep
<1> QED BY <1>1, <1>2, CallInvariant, PTL DEF Spec
-----------------------------------------------------------------------------
(***************************************************************************)
(* The frames of a stream.  Said reads the wire a byte at a time; what it  *)
(* has said at each place is compared with what the stream has yielded     *)
(* when it has framed the bytes up to there, whatever the chunks were.     *)
(***************************************************************************)
\* A set of naturals that is not empty has a least element.
LEMMA Least ==
  ASSUME NEW T \in SUBSET Nat, T # {}
  PROVE  \E m \in T : \A k \in T : m <= k
<1> DEFINE R == OpToRel(<, Nat)
<1>1. IsWellFoundedOn(R, Nat)
  BY NatLessThanWellFounded DEF OpToRel
<1>2. ASSUME NEW i \in Nat, NEW j \in Nat, i < j PROVE <<i, j>> \in R
  BY <1>2 DEF OpToRel
<1> HIDE DEF R
<1>3. PICK m \in T : \A k \in T : ~(<<k, m>> \in R)
  BY <1>1, WFMin
<1>4. \A k \in T : ~(k < m)
  BY <1>2, <1>3
<1> QED BY <1>3, <1>4

\* What a stream is made of, and what it yields.
Bytes == Contents \cup {"data", "comment", NL}
Things == Terminal \cup Contents

\* A data line is whole wherever it begins.
Marked(bytes) ==
  /\ bytes \in Seq(Bytes)
  /\ \A i \in 1..Len(bytes) : bytes[i] = "data" => i < Len(bytes) /\ bytes[i + 1] \in Contents

\* What WiresOf is a solution of.
Sends(f) == f = [n \in 0..MaxLines |-> IF n = 0 THEN {<<>>} ELSE LineMore(f[n - 1])]

\* The recursion of WiresOf has a solution.
LEMMA WiresOfIs == Sends(WiresOf)
<1> DEFINE Turn(f, n) == IF n = 0 THEN {<<>>} ELSE LineMore(f[n - 1])
           Good(f, m) == DOMAIN f = 0..MaxLines /\ \A n \in 0..MaxLines : n <= m => f[n] = Turn(f, n)
           B == {m \in Nat : ~\E f : Good(f, m)}
<1>0. MaxLines \in Nat
  BY AppEventsAssumption
<1>1. B = {}
  <2> SUFFICES ASSUME B # {} PROVE FALSE
    OBVIOUS
  <2>1. PICK m \in B : \A k \in B : m <= k
    <3>1. B \subseteq Nat
      OBVIOUS
    <3> HIDE DEF B
    <3> QED BY <3>1, Least
  <2>2. CASE m = 0
    <3> DEFINE f == [n \in 0..MaxLines |-> {<<>>}]
    <3>1. \A n \in 0..MaxLines : n <= 0 => f[n] = Turn(f, n)
      OBVIOUS
    <3>2. Good(f, 0)
      BY <3>1
    <3> QED BY <2>1, <2>2, <3>2
  <2>3. CASE m # 0
    <3>1. m \in Nat /\ m - 1 \in Nat /\ m - 1 \notin B
      <4>1. m \in Nat
        BY <2>1
      <4> HIDE DEF B
      <4> QED BY <2>1, <2>3, <4>1
    <3>2. PICK f : Good(f, m - 1)
      BY <3>1
    <3> DEFINE g == [n \in 0..MaxLines |-> Turn(f, n)]
    <3>3. ASSUME NEW n \in 0..MaxLines, n <= m
          PROVE  g[n] = Turn(g, n)
      <4>1. CASE n = 0
        BY <4>1
      <4>2. CASE n # 0
        <5>1. n - 1 \in 0..MaxLines /\ n - 1 <= m - 1
          BY <1>0, <3>1, <3>3, <4>2
        <5>2. g[n - 1] = f[n - 1]
          BY <3>2, <5>1
        <5>3. g[n] = Turn(f, n)
          OBVIOUS
        <5> HIDE DEF g
        <5> QED BY <4>2, <5>2, <5>3
      <4> QED BY <4>1, <4>2
    <3>4. DOMAIN g = 0..MaxLines
      OBVIOUS
    <3> HIDE DEF g
    <3>5. Good(g, m)
      BY <3>3, <3>4
    <3> QED BY <2>1, <3>5
  <2> QED BY <2>2, <2>3
<1>2. PICK f : Good(f, MaxLines)
  BY <1>0, <1>1
<1> DEFINE g == [n \in 0..MaxLines |-> f[n]]
<1>3. g = [n \in 0..MaxLines |-> Turn(g, n)]
  <2>1. ASSUME NEW n \in 0..MaxLines PROVE f[n] = Turn(g, n)
    <3>1. f[n] = Turn(f, n)
      BY <1>0, <1>2
    <3>2. n # 0 => g[n - 1] = f[n - 1]
      BY <1>0, <1>2
    <3> HIDE DEF g
    <3> QED BY <3>1, <3>2
  <2> QED BY <2>1
<1> HIDE DEF g
<1>4. Sends(g)
  BY <1>3, Zenon DEF Sends
<1> QED BY <1>4, Zenon DEF WiresOf, Sends

\* A line and its end keep data lines whole.
LEMMA LineKeepsMarked ==
  ASSUME NEW bytes, Marked(bytes), NEW line \in Lines
  PROVE  Marked(bytes \o line \o <<NL>>)
<1>1. bytes \in Seq(Bytes)
  BY DEF Marked
<1>2. ASSUME NEW x \in Contents, line = <<"data", x>>
      PROVE  Marked(bytes \o line \o <<NL>>)
  <2> DEFINE more == bytes \o <<"data", x>> \o <<NL>>
             n == Len(bytes)
  <2>1. "data" \in Bytes /\ x \in Bytes /\ NL \in Bytes
    BY <1>2 DEF Bytes
  <2>2. more \in Seq(Bytes) /\ Len(more) = n + 3 /\ n \in Nat
    BY <1>1, <2>1
  <2>3. /\ \A i \in 1..n : more[i] = bytes[i]
        /\ more[n + 1] = "data" /\ more[n + 2] = x /\ more[n + 3] = NL
    BY <1>1, <2>1
  <2> HIDE DEF more
  <2>4. ASSUME NEW i \in 1..Len(more), more[i] = "data"
        PROVE  i < Len(more) /\ more[i + 1] \in Contents
    <3>1. CASE i \in 1..n
      <4>1. i < n /\ bytes[i + 1] \in Contents
        BY <2>3, <2>4, <3>1 DEF Marked
      <4> QED BY <2>2, <2>3, <3>1, <4>1
    <3>2. CASE i = n + 1
      BY <1>2, <2>2, <2>3, <3>2
    <3>3. CASE i = n + 2
      <4>1. x # "data"
        BY <1>2 DEF Contents
      <4> QED BY <2>3, <2>4, <3>3, <4>1
    <3>4. CASE i = n + 3
      <4>1. NL # "data"
        BY DEF NL
      <4> QED BY <2>3, <2>4, <3>4, <4>1
    <3> QED BY <2>2, <3>1, <3>2, <3>3, <3>4
  <2>5. Marked(more)
    BY <2>2, <2>4 DEF Marked
  <2> QED BY <1>2, <2>5 DEF more
<1>3. ASSUME NEW x \in {"comment", NL}, NEW more \in Seq(Bytes),
             Len(more) >= Len(bytes), \A i \in 1..Len(bytes) : more[i] = bytes[i],
             \A i \in 1..Len(more) : i > Len(bytes) => more[i] # "data"
      PROVE  Marked(more)
  <2>1. Len(bytes) \in Nat /\ Len(more) \in Nat
    BY <1>1, <1>3
  <2>2. ASSUME NEW i \in 1..Len(more), more[i] = "data"
        PROVE  i < Len(more) /\ more[i + 1] \in Contents
    <3>1. i \in 1..Len(bytes) /\ bytes[i] = "data"
      BY <1>3, <2>1, <2>2
    <3>2. i < Len(bytes) /\ bytes[i + 1] \in Contents
      BY <3>1 DEF Marked
    <3> QED BY <1>3, <2>1, <3>1, <3>2
  <2> QED BY <1>3, <2>2 DEF Marked
<1>4. CASE line = <<"comment">>
  <2> DEFINE more == bytes \o <<"comment">> \o <<NL>>
             n == Len(bytes)
  <2>1. "comment" \in Bytes /\ NL \in Bytes /\ NL # "data"
    BY DEF Bytes, NL
  <2>2. more \in Seq(Bytes) /\ Len(more) = n + 2 /\ n \in Nat
    BY <1>1, <2>1
  <2>3. /\ \A i \in 1..n : more[i] = bytes[i]
        /\ more[n + 1] = "comment" /\ more[n + 2] = NL
    BY <1>1, <2>1
  <2> HIDE DEF more
  <2>4. \A i \in 1..Len(more) : i > n => i = n + 1 \/ i = n + 2
    BY <2>2
  <2>5. Marked(more)
    BY <1>3, <2>1, <2>2, <2>3, <2>4
  <2> QED BY <1>4, <2>5 DEF more
<1>5. CASE line = <<>>
  <2> DEFINE more == bytes \o <<NL>>
             n == Len(bytes)
  <2>1. NL \in Bytes /\ NL # "data"
    BY DEF Bytes, NL
  <2>2. more \in Seq(Bytes) /\ Len(more) = n + 1 /\ n \in Nat
    BY <1>1, <2>1
  <2>3. (\A i \in 1..n : more[i] = bytes[i]) /\ more[n + 1] = NL
    BY <1>1, <2>1
  <2>4. bytes \o line \o <<NL>> = more
    BY <1>1, <1>5
  <2> HIDE DEF more
  <2>5. \A i \in 1..Len(more) : i > n => i = n + 1
    BY <2>2
  <2>6. Marked(more)
    BY <1>3, <2>1, <2>2, <2>3, <2>5
  <2> QED BY <2>4, <2>6
<1> QED BY <1>2, <1>4, <1>5 DEF Lines

\* What one more line makes of what was sent so far.
LEMMA LongerSent ==
  ASSUME NEW T, NEW x \in LineMore(T)
  PROVE  x \in T \/ \E b \in T, line \in Lines : x = b \o line \o <<NL>>
<1> DEFINE f(b, line) == b \o line \o <<NL>>
<1>1. x \in T \cup {f(b, line) : b \in T, line \in Lines}
  BY DEF LineMore
<1> HIDE DEF f
<1>2. x \in T \/ \E b \in T, line \in Lines : x = f(b, line)
  BY <1>1
<1> QED BY <1>2 DEF f

\* So they are in all that Core sends.
LEMMA WiresMarked == \A bytes \in Wires : Marked(bytes)
<1> DEFINE B == {n \in Nat : n <= MaxLines /\ ~\A bytes \in WiresOf[n] : Marked(bytes)}
<1>0. MaxLines \in Nat
  BY AppEventsAssumption
<1>1. B = {}
  <2> SUFFICES ASSUME B # {} PROVE FALSE
    OBVIOUS
  <2>1. PICK n \in B : \A k \in B : n <= k
    <3>1. B \subseteq Nat
      OBVIOUS
    <3> HIDE DEF B
    <3> QED BY <3>1, Least
  <2>2. n \in Nat /\ n <= MaxLines /\ n \in 0..MaxLines
    BY <1>0, <2>1
  <2>3. PICK bytes \in WiresOf[n] : ~Marked(bytes)
    BY <2>1
  <2>4. CASE n = 0
    <3>1. WiresOf[0] = {<<>>}
      BY <2>2, <2>4, WiresOfIs DEF Sends
    <3>2. bytes = <<>>
      BY <2>3, <2>4, <3>1
    <3>3. Marked(<<>>)
      BY DEF Marked
    <3> QED BY <2>3, <3>2, <3>3
  <2>5. CASE n # 0
    <3>1. WiresOf[n] = LineMore(WiresOf[n - 1])
      BY <2>2, <2>5, WiresOfIs DEF Sends
    <3>2. n - 1 \in Nat /\ n - 1 <= MaxLines /\ ~(n <= n - 1)
      BY <1>0, <2>2, <2>5
    <3>3. \A b \in WiresOf[n - 1] : Marked(b)
      <4>1. n - 1 \notin B
        <5> HIDE DEF B
        <5> QED BY <2>1, <3>2
      <4> QED BY <3>2, <4>1
    <3>4. \/ bytes \in WiresOf[n - 1]
          \/ \E b \in WiresOf[n - 1], line \in Lines : bytes = b \o line \o <<NL>>
      <4>1. bytes \in LineMore(WiresOf[n - 1])
        BY <2>3, <3>1
      <4> QED BY <4>1, LongerSent, Zenon
    <3> QED BY <2>3, <3>3, <3>4, LineKeepsMarked, Zenon
  <2> QED BY <2>4, <2>5
<1>2. \A bytes \in WiresOf[MaxLines] : Marked(bytes)
  BY <1>0, <1>1
<1> QED BY <1>2 DEF Wires

\* What has been read after each byte.
Reads(f, bytes) ==
  f = [i \in 0..Len(bytes) |->
         IF i = 0 THEN [items |-> <<>>, open |-> <<>>] ELSE ReadOn(f[i - 1], bytes[i])]
Reading(bytes) == CHOOSE f : Reads(f, bytes)

\* What the recursion of Said is called below.
LEMMA SaidIs ==
  ASSUME NEW bytes
  PROVE  Said(bytes) = Reading(bytes)[Len(bytes)].items
BY Zenon DEF Said, Reading, Reads

\* It has a solution, as the bytes are finitely many.
LEMMA ReadingIs ==
  ASSUME NEW bytes, Len(bytes) \in Nat
  PROVE  Reads(Reading(bytes), bytes)
<1> DEFINE N == Len(bytes)
           Turn(f, i) == IF i = 0 THEN [items |-> <<>>, open |-> <<>>] ELSE ReadOn(f[i - 1], bytes[i])
           Good(f, m) == DOMAIN f = 0..N /\ \A i \in 0..N : i <= m => f[i] = Turn(f, i)
           B == {m \in Nat : ~\E f : Good(f, m)}
<1>1. B = {}
  <2> SUFFICES ASSUME B # {} PROVE FALSE
    OBVIOUS
  <2>1. PICK m \in B : \A k \in B : m <= k
    <3>1. B \subseteq Nat
      OBVIOUS
    <3> HIDE DEF B
    <3> QED BY <3>1, Least
  <2>2. CASE m = 0
    <3> DEFINE f == [i \in 0..N |-> [items |-> <<>>, open |-> <<>>]]
    <3>1. \A i \in 0..N : i <= 0 => f[i] = Turn(f, i)
      OBVIOUS
    <3>2. Good(f, 0)
      BY <3>1
    <3> QED BY <2>1, <2>2, <3>2
  <2>3. CASE m # 0
    <3>1. m \in Nat /\ m - 1 \in Nat /\ m - 1 \notin B
      <4>1. m \in Nat
        BY <2>1
      <4> HIDE DEF B
      <4> QED BY <2>1, <2>3, <4>1
    <3>2. PICK f : Good(f, m - 1)
      BY <3>1
    <3> DEFINE g == [i \in 0..N |-> Turn(f, i)]
    <3>3. ASSUME NEW i \in 0..N, i <= m
          PROVE  g[i] = Turn(g, i)
      <4>1. CASE i = 0
        BY <4>1
      <4>2. CASE i # 0
        <5>1. i - 1 \in 0..N /\ i - 1 <= m - 1
          BY <3>1, <3>3, <4>2
        <5>2. g[i - 1] = f[i - 1]
          BY <3>2, <5>1
        <5>3. g[i] = Turn(f, i)
          OBVIOUS
        <5> HIDE DEF g
        <5> QED BY <4>2, <5>2, <5>3
      <4> QED BY <4>1, <4>2
    <3>4. DOMAIN g = 0..N
      OBVIOUS
    <3> HIDE DEF g
    <3>5. Good(g, m)
      BY <3>3, <3>4
    <3> QED BY <2>1, <3>5
  <2> QED BY <2>2, <2>3
<1>2. PICK f : Good(f, N)
  BY <1>1
<1> DEFINE g == [i \in 0..N |-> f[i]]
<1>3. g = [i \in 0..N |-> Turn(g, i)]
  <2>1. ASSUME NEW i \in 0..N PROVE f[i] = Turn(g, i)
    <3>1. f[i] = Turn(f, i)
      BY <1>2
    <3>2. i # 0 => g[i - 1] = f[i - 1]
      BY <1>2
    <3> HIDE DEF g
    <3> QED BY <3>1, <3>2
  <2> QED BY <2>1
<1> HIDE DEF g
<1>4. Reads(g, bytes)
  BY <1>3 DEF Reads
<1> QED BY <1>4, Zenon DEF Reading

\* Reading takes one byte at a time.
LEMMA ReadingSteps ==
  ASSUME NEW bytes, Len(bytes) \in Nat
  PROVE  /\ Reading(bytes)[0] = [items |-> <<>>, open |-> <<>>]
         /\ \A i \in 1..Len(bytes) : Reading(bytes)[i] = ReadOn(Reading(bytes)[i - 1], bytes[i])
<1> DEFINE r == Reading(bytes)
<1>1. Reads(r, bytes)
  BY ReadingIs
<1> HIDE DEF r
<1>2. /\ r[0] = [items |-> <<>>, open |-> <<>>]
      /\ \A i \in 1..Len(bytes) : r[i] = ReadOn(r[i - 1], bytes[i])
  BY <1>1 DEF Reads
<1> QED BY <1>2 DEF r

\* One more byte that ends no frame, and one that does.
LEMMA ReadOnGoesOn ==
  ASSUME NEW bytes \in Seq(Bytes), NEW p \in Nat, NEW q \in 1..Len(bytes), p < q,
         NEW said, p + 1 < q => ~(bytes[q - 1] = NL /\ bytes[q] = NL)
  PROVE  ReadOn([items |-> said, open |-> SubSeq(bytes, p + 1, q - 1)], bytes[q])
           = [items |-> said, open |-> SubSeq(bytes, p + 1, q)]
<1> DEFINE open == Append(SubSeq(bytes, p + 1, q - 1), bytes[q])
<1>1. open = SubSeq(bytes, p + 1, q) /\ Len(open) = q - p
  OBVIOUS
<1>2. Len(open) >= 2 => open[Len(open)] = bytes[q] /\ open[Len(open) - 1] = bytes[q - 1] /\ p + 1 < q
  BY <1>1
<1>3. ~(Len(open) >= 2 /\ open[Len(open)] = NL /\ open[Len(open) - 1] = NL)
  BY <1>2
<1> HIDE DEF open
<1>4. ReadOn([items |-> said, open |-> SubSeq(bytes, p + 1, q - 1)], bytes[q])
        = [items |-> said, open |-> open]
  BY <1>3 DEF ReadOn, open
<1> QED BY <1>1, <1>4

LEMMA ReadOnFrames ==
  ASSUME NEW bytes \in Seq(Bytes), NEW p \in Nat, NEW q \in 1..Len(bytes), p + 1 < q,
         NEW said, bytes[q - 1] = NL, bytes[q] = NL
  PROVE  ReadOn([items |-> said, open |-> SubSeq(bytes, p + 1, q - 1)], bytes[q])
           = [items |-> IF Closed(said) THEN said
                        ELSE said \o Parsed(SubSeq(bytes, p + 1, q - 2)),
              open |-> <<>>]
<1> DEFINE open == Append(SubSeq(bytes, p + 1, q - 1), bytes[q])
<1>1. open = SubSeq(bytes, p + 1, q) /\ Len(open) = q - p /\ Len(open) >= 2
  OBVIOUS
<1>2. open[Len(open)] = NL /\ open[Len(open) - 1] = NL
  BY <1>1
<1>3. SubSeq(open, 1, Len(open) - 2) = SubSeq(bytes, p + 1, q - 2)
  BY <1>1
<1> HIDE DEF open
<1>4. ReadOn([items |-> said, open |-> SubSeq(bytes, p + 1, q - 1)], bytes[q])
        = [items |-> IF Closed(said) THEN said
                     ELSE said \o Parsed(SubSeq(open, 1, Len(open) - 2)),
           open |-> <<>>]
  BY <1>1, <1>2 DEF ReadOn, open
<1> QED BY <1>3, <1>4

\* Where no blank line is, reading only collects.
LEMMA ReadingCollects ==
  ASSUME NEW bytes \in Seq(Bytes), NEW p \in 0..Len(bytes), NEW q \in p..Len(bytes), NEW said,
         Reading(bytes)[p] = [items |-> said, open |-> <<>>],
         \A j \in p + 1..q - 1 : ~(bytes[j] = NL /\ bytes[j + 1] = NL)
  PROVE  Reading(bytes)[q] = [items |-> said, open |-> SubSeq(bytes, p + 1, q)]
<1> DEFINE r == Reading(bytes)
           Right(k) == r[k] = [items |-> said, open |-> SubSeq(bytes, p + 1, k)]
           B == {k \in Nat : k \in p..q /\ ~Right(k)}
<1>0. p \in Nat /\ q \in Nat /\ p <= q /\ q <= Len(bytes) /\ Len(bytes) \in Nat
  OBVIOUS
<1>1. Right(p)
  <2>1. SubSeq(bytes, p + 1, p) = <<>>
    BY <1>0
  <2> QED BY <2>1
<1>2. \A i \in 1..Len(bytes) : r[i] = ReadOn(r[i - 1], bytes[i])
  BY <1>0, ReadingSteps
<1> HIDE DEF r, Right
<1>3. B = {}
  <2> SUFFICES ASSUME B # {} PROVE FALSE
    OBVIOUS
  <2>1. PICK m \in B : \A k \in B : m <= k
    <3>1. B \subseteq Nat
      OBVIOUS
    <3> HIDE DEF B
    <3> QED BY <3>1, Least
  <2>2. m # p
    BY <1>1, <2>1
  <2>3. m \in Nat /\ m - 1 \in Nat /\ m - 1 \in p..q /\ m \in 1..Len(bytes) /\ p < m /\ m <= q
    BY <1>0, <2>1, <2>2
  <2>4. Right(m - 1)
    <3>1. m - 1 \notin B
      <4> HIDE DEF B
      <4> QED BY <2>1, <2>3
    <3> QED BY <2>3, <3>1
  <2>5. p + 1 < m => ~(bytes[m - 1] = NL /\ bytes[m] = NL)
    <3>1. p + 1 < m => m - 1 \in p + 1..q - 1 /\ (m - 1) + 1 = m
      BY <1>0, <2>3
    <3> QED BY <3>1
  <2>6. r[m] = [items |-> said, open |-> SubSeq(bytes, p + 1, m)]
    <3>1. r[m - 1] = [items |-> said, open |-> SubSeq(bytes, p + 1, m - 1)]
      BY <2>4 DEF Right
    <3>2. r[m] = ReadOn(r[m - 1], bytes[m])
      BY <1>2, <2>3
    <3>3. ReadOn([items |-> said, open |-> SubSeq(bytes, p + 1, m - 1)], bytes[m])
            = [items |-> said, open |-> SubSeq(bytes, p + 1, m)]
      <4>1. p \in Nat /\ m \in 1..Len(bytes) /\ p < m
        BY <1>0, <2>3
      <4> QED BY <2>5, <4>1, ReadOnGoesOn, Zenon
    <3> QED BY <3>1, <3>2, <3>3
  <2> QED BY <2>1, <2>6 DEF Right
<1>4. Right(q)
  BY <1>0, <1>3
<1> QED BY <1>4 DEF r, Right

\* Up to the first blank line, and over it.
LEMMA ReadingFrames ==
  ASSUME NEW bytes \in Seq(Bytes), NEW p \in 0..Len(bytes), NEW e \in p + 1..Len(bytes) - 1, NEW said,
         Reading(bytes)[p] = [items |-> said, open |-> <<>>],
         bytes[e] = NL, bytes[e + 1] = NL,
         \A j \in p + 1..e - 1 : ~(bytes[j] = NL /\ bytes[j + 1] = NL)
  PROVE  Reading(bytes)[e + 1]
           = [items |-> IF Closed(said) THEN said
                        ELSE said \o Parsed(SubSeq(bytes, p + 1, e - 1)),
              open |-> <<>>]
<1> DEFINE r == Reading(bytes)
<1>0. /\ p \in Nat /\ e \in Nat /\ p < e /\ Len(bytes) \in Nat /\ e \in p..Len(bytes)
      /\ e + 1 \in 1..Len(bytes) /\ p + 1 < e + 1 /\ (e + 1) - 1 = e /\ (e + 1) - 2 = e - 1
  OBVIOUS
<1>1. r[e] = [items |-> said, open |-> SubSeq(bytes, p + 1, e)]
  BY <1>0, ReadingCollects
<1>2. r[e + 1] = ReadOn(r[e], bytes[e + 1])
  <2>1. \A i \in 1..Len(bytes) : r[i] = ReadOn(r[i - 1], bytes[i])
    BY <1>0, ReadingSteps
  <2> HIDE DEF r
  <2> QED BY <1>0, <2>1
<1> HIDE DEF r
<1> DEFINE q == e + 1
<1>3. q \in 1..Len(bytes) /\ p + 1 < q /\ bytes[q - 1] = NL /\ bytes[q] = NL /\ q - 1 = e /\ q - 2 = e - 1
  BY <1>0
<1> HIDE DEF q
<1>4. ReadOn([items |-> said, open |-> SubSeq(bytes, p + 1, q - 1)], bytes[q])
           = [items |-> IF Closed(said) THEN said
                        ELSE said \o Parsed(SubSeq(bytes, p + 1, q - 2)),
              open |-> <<>>]
  BY <1>0, <1>3, ReadOnFrames
<1>5. r[q] = [items |-> IF Closed(said) THEN said
                        ELSE said \o Parsed(SubSeq(bytes, p + 1, e - 1)),
              open |-> <<>>]
  BY <1>1, <1>2, <1>3, <1>4 DEF q
<1> QED BY <1>5 DEF r, q

\* What a frame of well-formed bytes says is one item, or none.
LEMMA FrameSays ==
  ASSUME NEW bytes, Marked(bytes), NEW p \in Nat, NEW e \in p + 1..Len(bytes), bytes[e] = NL
  PROVE  LET said == Parsed(SubSeq(bytes, p + 1, e - 1))
         IN  said = <<>> \/ \E x \in Things : said = <<x>>
<1> DEFINE frame == SubSeq(bytes, p + 1, e - 1)
           datas == {i \in 1..Len(frame) : frame[i] = "data"}
           first == CHOOSE i \in datas : \A j \in datas : i <= j
           content == frame[first + 1]
<1>0. bytes \in Seq(Bytes) /\ p \in Nat /\ e \in Nat /\ p < e /\ e <= Len(bytes) /\ Len(bytes) \in Nat
  BY DEF Marked
<1>1. Len(frame) = e - 1 - p /\ \A i \in 1..Len(frame) : frame[i] = bytes[p + i]
  BY <1>0
<1>2. ASSUME NEW i \in datas
      PROVE  frame[i + 1] \in Contents
  <2>1. i \in Nat /\ p + i \in 1..Len(bytes) /\ p + i < e /\ bytes[p + i] = "data"
    BY <1>0, <1>1, <1>2
  <2>2. bytes[(p + i) + 1] \in Contents
    BY <2>1 DEF Marked
  <2>3. (p + i) + 1 # e
    <3>1. NL \notin Contents
      BY DEF NL, Contents
    <3> QED BY <2>2, <3>1
  <2>4. i + 1 \in 1..Len(frame) /\ p + (i + 1) = (p + i) + 1
    BY <1>0, <1>1, <2>1, <2>3
  <2> HIDE DEF frame
  <2> QED BY <1>1, <2>2, <2>4
<1>3. datas # {} => first \in datas
  <2>1. ASSUME datas # {} PROVE \E i \in datas : \A j \in datas : i <= j
    <3>1. datas \subseteq Nat
      OBVIOUS
    <3> HIDE DEF datas
    <3> QED BY <2>1, <3>1, Least
  <2> HIDE DEF datas
  <2> QED BY <2>1
<1>4. datas # {} => content \in Contents
  <2> HIDE DEF datas, first, frame
  <2> QED BY <1>2, <1>3
<1>5. Parsed(frame) = IF datas = {} \/ content = "unknown" THEN <<>>
                      ELSE << CASE content = "done" -> "completed"
                                [] content = "error" -> "failed"
                                [] content = "junk" -> "protocol error"
                                [] OTHER -> content >>
  BY Zenon DEF Parsed
<1> HIDE DEF datas, content
<1>6. Parsed(frame) = <<>> \/ \E x \in Things : Parsed(frame) = <<x>>
  BY <1>4, <1>5 DEF Things, Terminal, Contents
<1> QED BY <1>6 DEF frame

\* What has been read so far is a sequence of items, and open is the bytes since
\* the last blank line.
LEMMA ReadingTypes ==
  ASSUME NEW bytes, Marked(bytes), NEW q \in 0..Len(bytes)
  PROVE  \E said \in Seq(Things), p \in 0..q :
           Reading(bytes)[q] = [items |-> said, open |-> SubSeq(bytes, p + 1, q)]
<1> DEFINE r == Reading(bytes)
           ReadTo(said, p, k) == r[k] = [items |-> said, open |-> SubSeq(bytes, p + 1, k)]
           Right(k) == \E said \in Seq(Things), p \in 0..k : ReadTo(said, p, k)
           B == {k \in Nat : k <= Len(bytes) /\ ~Right(k)}
<1>0. bytes \in Seq(Bytes) /\ Len(bytes) \in Nat
  BY DEF Marked
<1>1. Right(0)
  <2>1. SubSeq(bytes, 0 + 1, 0) = <<>> /\ <<>> \in Seq(Things) /\ 0 \in 0..0
    BY <1>0
  <2>2. r[0] = [items |-> <<>>, open |-> <<>>]
    BY <1>0, ReadingSteps
  <2> HIDE DEF r
  <2>3. ReadTo(<<>>, 0, 0)
    BY <2>1, <2>2
  <2> QED BY <2>1, <2>3
<1>2. \A i \in 1..Len(bytes) : r[i] = ReadOn(r[i - 1], bytes[i])
  BY <1>0, ReadingSteps
<1> HIDE DEF r
<1>3. ASSUME NEW k \in 1..Len(bytes), Right(k - 1)
      PROVE  Right(k)
  <2>1. PICK said \in Seq(Things), p \in 0..k - 1 : ReadTo(said, p, k - 1)
    BY <1>3
  <2>2. p \in Nat /\ k \in 1..Len(bytes) /\ p < k /\ p \in 0..k /\ k \in 0..k
    BY <1>0, <1>3, <2>1
  <2>3. r[k] = ReadOn([items |-> said, open |-> SubSeq(bytes, p + 1, k - 1)], bytes[k])
    BY <1>2, <2>1
  <2>4. CASE ~(p + 1 < k /\ bytes[k - 1] = NL /\ bytes[k] = NL)
    <3>1. p + 1 < k => ~(bytes[k - 1] = NL /\ bytes[k] = NL)
      BY <2>4
    <3>2. ReadOn([items |-> said, open |-> SubSeq(bytes, p + 1, k - 1)], bytes[k])
            = [items |-> said, open |-> SubSeq(bytes, p + 1, k)]
      BY <1>0, <2>2, <3>1, ReadOnGoesOn, Zenon
    <3>3. ReadTo(said, p, k)
      BY <2>3, <3>2
    <3> QED BY <2>1, <2>2, <3>3
  <2>5. CASE p + 1 < k /\ bytes[k - 1] = NL /\ bytes[k] = NL
    <3> DEFINE more == IF Closed(said) THEN said ELSE said \o Parsed(SubSeq(bytes, p + 1, k - 2))
    <3>1. ReadOn([items |-> said, open |-> SubSeq(bytes, p + 1, k - 1)], bytes[k])
            = [items |-> more, open |-> <<>>]
      BY <1>0, <2>2, <2>5, ReadOnFrames, Zenon
    <3>2. more \in Seq(Things)
      <4> DEFINE e == k - 1
      <4>1. e \in p + 1..Len(bytes) /\ bytes[e] = NL /\ e - 1 = k - 2
        BY <1>0, <2>2, <2>5
      <4> HIDE DEF e
      <4> DEFINE new == Parsed(SubSeq(bytes, p + 1, k - 2))
      <4>2. new = <<>> \/ \E x \in Things : new = <<x>>
        BY <2>2, <4>1, FrameSays
      <4> HIDE DEF new
      <4>3. said \o new \in Seq(Things)
        <5>1. new \in Seq(Things)
          <6>1. <<>> \in Seq(Things) /\ \A x \in Things : <<x>> \in Seq(Things)
            OBVIOUS
          <6> HIDE DEF new
          <6> QED BY <4>2, <6>1
        <5> QED BY <2>1, <5>1
      <4> QED BY <2>1, <4>3 DEF new
    <3>3. SubSeq(bytes, k + 1, k) = <<>>
      BY <1>0, <2>2
    <3> HIDE DEF more
    <3>4. ReadTo(more, k, k)
      BY <2>3, <3>1, <3>3
    <3> QED BY <2>2, <3>2, <3>4
  <2> QED BY <2>4, <2>5
<1> HIDE DEF Right
<1>4. B = {}
  <2> SUFFICES ASSUME B # {} PROVE FALSE
    OBVIOUS
  <2>1. PICK m \in B : \A k \in B : m <= k
    <3>1. B \subseteq Nat
      OBVIOUS
    <3> HIDE DEF B
    <3> QED BY <3>1, Least
  <2>2. m \in Nat /\ m # 0 /\ m \in 1..Len(bytes) /\ m - 1 \in Nat /\ m - 1 <= Len(bytes) /\ ~(m <= m - 1)
    BY <1>0, <1>1, <2>1
  <2>3. Right(m - 1)
    <3>1. m - 1 \notin B
      <4> HIDE DEF B
      <4> QED BY <2>1, <2>2
    <3> QED BY <2>2, <3>1
  <2> QED BY <1>3, <2>1, <2>2, <2>3
<1>5. Right(q)
  BY <1>0, <1>4
<1> QED BY <1>5 DEF Right, r

\* t begins with s.
Starts(s, t) == Len(s) <= Len(t) /\ \A i \in 1..Len(s) : s[i] = t[i]

\* Reading on adds to what was said, until that is closed.
LEMMA ReadingGrows ==
  ASSUME NEW bytes, Marked(bytes), NEW p \in 0..Len(bytes), NEW q \in p..Len(bytes)
  PROVE  LET s == Reading(bytes)[p].items
             t == Reading(bytes)[q].items
         IN  /\ s \in Seq(Things) /\ t \in Seq(Things) /\ Starts(s, t)
             /\ Closed(s) => t = s
<1> DEFINE r == Reading(bytes)
           s == r[p].items
           Right(k) == Starts(s, r[k].items) /\ (Closed(s) => r[k].items = s)
           B == {k \in Nat : k \in p..q /\ ~Right(k)}
<1>0. /\ bytes \in Seq(Bytes) /\ Len(bytes) \in Nat
      /\ p \in Nat /\ q \in Nat /\ p <= q /\ q <= Len(bytes)
  BY DEF Marked
<1>1. \A i \in 1..Len(bytes) : r[i] = ReadOn(r[i - 1], bytes[i])
  BY <1>0, ReadingSteps
<1>2. ASSUME NEW k \in 0..Len(bytes)
      PROVE  \E said \in Seq(Things), n \in 0..k :
               r[k] = [items |-> said, open |-> SubSeq(bytes, n + 1, k)]
  BY ReadingTypes
<1> HIDE DEF r
<1>3. s \in Seq(Things)
  <2>1. p \in 0..Len(bytes)
    BY <1>0
  <2>2. PICK said \in Seq(Things), n \in 0..p :
          r[p] = [items |-> said, open |-> SubSeq(bytes, n + 1, p)]
    BY <1>2, <2>1
  <2>3. r[p].items = said
    BY <2>2
  <2> QED BY <2>2, <2>3
<1>4. Right(p)
  BY <1>0, <1>3 DEF Starts
<1>5. ASSUME NEW k \in p + 1..q, Right(k - 1)
      PROVE  Right(k)
  <2>0. k \in 1..Len(bytes) /\ k - 1 \in 0..Len(bytes)
    BY <1>0, <1>5
  <2>1. PICK said \in Seq(Things), n \in 0..k - 1 :
          r[k - 1] = [items |-> said, open |-> SubSeq(bytes, n + 1, k - 1)]
    BY <1>2, <2>0
  <2>2. n \in Nat /\ n < k /\ r[k - 1].items = said
    BY <2>0, <2>1
  <2>3. r[k] = ReadOn([items |-> said, open |-> SubSeq(bytes, n + 1, k - 1)], bytes[k])
    BY <1>1, <2>0, <2>1
  <2>4. CASE ~(n + 1 < k /\ bytes[k - 1] = NL /\ bytes[k] = NL)
    <3>1. n + 1 < k => ~(bytes[k - 1] = NL /\ bytes[k] = NL)
      BY <2>4
    <3>2. ReadOn([items |-> said, open |-> SubSeq(bytes, n + 1, k - 1)], bytes[k])
            = [items |-> said, open |-> SubSeq(bytes, n + 1, k)]
      BY <1>0, <2>0, <2>2, <3>1, ReadOnGoesOn, Zenon
    <3>3. r[k].items = said
      BY <2>3, <3>2
    <3> QED BY <1>5, <2>2, <3>3
  <2>5. CASE n + 1 < k /\ bytes[k - 1] = NL /\ bytes[k] = NL
    <3> DEFINE new == Parsed(SubSeq(bytes, n + 1, k - 2))
               more == IF Closed(said) THEN said ELSE said \o new
    <3>1. ReadOn([items |-> said, open |-> SubSeq(bytes, n + 1, k - 1)], bytes[k])
            = [items |-> more, open |-> <<>>]
      BY <1>0, <2>0, <2>2, <2>5, ReadOnFrames, Zenon
    <3>2. r[k].items = more
      <4> HIDE DEF more
      <4> QED BY <2>3, <3>1
    <3>3. new = <<>> \/ \E x \in Things : new = <<x>>
      <4> DEFINE e == k - 1
      <4>1. e \in n + 1..Len(bytes) /\ bytes[e] = NL /\ e - 1 = k - 2
        BY <1>0, <2>0, <2>2, <2>5
      <4> HIDE DEF e
      <4> QED BY <2>2, <4>1, FrameSays
    <3> HIDE DEF new
    <3>4. CASE Closed(said)
      BY <1>5, <2>2, <3>2, <3>4
    <3>5. CASE ~Closed(said)
      <4>1. ~Closed(s)
        BY <1>5, <2>2, <3>5
      <4>2. Starts(s, said)
        BY <1>5, <2>2
      <4>3. Starts(s, said \o new)
        BY <1>3, <2>1, <3>3, <4>2 DEF Starts
      <4> QED BY <3>2, <3>5, <4>1, <4>3
    <3> QED BY <3>4, <3>5
  <2> QED BY <2>4, <2>5
<1>6. r[q].items \in Seq(Things)
  <2>1. q \in 0..Len(bytes)
    BY <1>0
  <2>2. PICK said \in Seq(Things), n \in 0..q :
          r[q] = [items |-> said, open |-> SubSeq(bytes, n + 1, q)]
    BY <1>2, <2>1
  <2>3. r[q].items = said
    BY <2>2
  <2> QED BY <2>2, <2>3
<1> HIDE DEF Right
<1>7. B = {}
  <2> SUFFICES ASSUME B # {} PROVE FALSE
    OBVIOUS
  <2>1. PICK m \in B : \A k \in B : m <= k
    <3>1. B \subseteq Nat
      OBVIOUS
    <3> HIDE DEF B
    <3> QED BY <3>1, Least
  <2>2. m \in Nat /\ m # p /\ m \in p + 1..q /\ m - 1 \in Nat /\ m - 1 \in p..q /\ ~(m <= m - 1)
    BY <1>0, <1>4, <2>1
  <2>3. Right(m - 1)
    <3>1. m - 1 \notin B
      <4> HIDE DEF B
      <4> QED BY <2>1, <2>2
    <3> QED BY <2>2, <3>1
  <2> QED BY <1>5, <2>1, <2>2, <2>3
<1>8. Right(q)
  BY <1>0, <1>7
<1> QED BY <1>3, <1>6, <1>8 DEF Right, r

\* IsPrefix, place by place.
LEMMA StartsIsPrefix ==
  ASSUME NEW S, NEW s \in Seq(S), NEW t \in Seq(S), Starts(s, t)
  PROVE  IsPrefix(s, t)
<1>1. SubSeq(s, 1, Len(s)) = s
  OBVIOUS
<1>2. SubSeq(t, 1, Len(s)) \in Seq(S) /\ Len(SubSeq(t, 1, Len(s))) = Len(s)
      /\ \A i \in 1..Len(s) : SubSeq(t, 1, Len(s))[i] = t[i]
  BY DEF Starts
<1>3. SubSeq(t, 1, Len(s)) = s
  BY <1>2 DEF Starts
<1> QED BY <1>1, <1>3 DEF IsPrefix, Starts

\* All that bytes say, with the error their end is without a terminal event.
Full(bytes) == IF Closed(Said(bytes)) THEN Said(bytes) ELSE Append(Said(bytes), "protocol error")

\* Bytes b before place g are what is left of what was read up to there.
Framed(bytes, g, b, said) ==
  /\ Len(b) <= g /\ b = SubSeq(bytes, g - Len(b) + 1, g)
  /\ Reading(bytes)[g - Len(b)] = [items |-> said, open |-> <<>>]

\* An item added at the end.
LEMMA AppendStarts ==
  ASSUME NEW S, NEW s \in Seq(S), NEW t \in Seq(S), NEW x \in S, Starts(s, t)
  PROVE  Append(t, x) \in Seq(S) /\ Starts(s, Append(t, x)) /\ s # Append(t, x)
<1>1. Append(t, x) \in Seq(S) /\ Len(Append(t, x)) = Len(t) + 1 /\ Len(s) <= Len(t)
  BY DEF Starts
<1>2. \A i \in 1..Len(s) : s[i] = Append(t, x)[i]
  BY DEF Starts
<1>3. Starts(s, Append(t, x))
  BY <1>1, <1>2 DEF Starts
<1>4. s # Append(t, x)
  BY <1>1
<1> QED BY <1>1, <1>3, <1>4

\* A part of a sequence, and the parts of that.
LEMMA Within ==
  ASSUME NEW S, NEW s \in Seq(S), NEW p \in Nat, NEW g \in p..Len(s)
  PROVE  /\ SubSeq(s, p + 1, g) \in Seq(S) /\ Len(SubSeq(s, p + 1, g)) = g - p
         /\ \A j \in 1..g - p : SubSeq(s, p + 1, g)[j] = s[p + j]
         /\ \A i \in 1..g - p - 1 :
              /\ SubSeq(SubSeq(s, p + 1, g), 1, i - 1) = SubSeq(s, p + 1, p + i - 1)
              /\ SubSeq(SubSeq(s, p + 1, g), i + 2, g - p) = SubSeq(s, p + i + 2, g)
              /\ Len(SubSeq(s, p + i + 2, g)) = g - (p + i + 1)
              /\ SubSeq(s, p + i + 2, g) \in Seq(S)
OBVIOUS

\* What was read up to somewhere begins all that the bytes say.
LEMMA ReadIsPrefix ==
  ASSUME NEW bytes, Marked(bytes), NEW p \in 0..Len(bytes), NEW said,
         Reading(bytes)[p].items = said
  PROVE  /\ Closed(said) => said = Full(bytes)
         /\ ~Closed(said) => IsPrefix(said, Full(bytes)) /\ said # Full(bytes)
<1> DEFINE all == Said(bytes)
           full == Full(bytes)
<1>0. Len(bytes) \in Nat /\ Len(bytes) \in p..Len(bytes)
  BY DEF Marked
<1>1. /\ said \in Seq(Things) /\ all \in Seq(Things) /\ Starts(said, all)
      /\ Closed(said) => all = said
  BY <1>0, SaidIs, ReadingGrows
<1>2. full = IF Closed(all) THEN all ELSE Append(all, "protocol error")
  BY DEF Full
<1> HIDE DEF all, full
<1>3. "protocol error" \in Things
  BY DEF Things, Terminal
<1>4. full \in Seq(Things) /\ Starts(said, full)
  <2>1. CASE full = all
    BY <1>1, <2>1
  <2>2. CASE full = Append(all, "protocol error")
    BY <1>1, <1>3, <2>2, AppendStarts
  <2> QED BY <1>2, <2>1, <2>2
<1>5. IsPrefix(said, full)
  BY <1>1, <1>4, StartsIsPrefix
<1>6. ~Closed(said) => said # full
  <2>1. CASE Closed(all)
    BY <1>2, <2>1
  <2>2. CASE ~Closed(all)
    BY <1>1, <1>2, <1>3, <2>2, AppendStarts
  <2> QED BY <2>1, <2>2
<1> QED BY <1>1, <1>2, <1>5, <1>6 DEF full

\* What Boundaries finds is the first blank line, if there is one.
LEMMA FirstBoundary ==
  ASSUME NEW b, Len(b) \in Nat
  PROVE  /\ \A i \in Boundaries(b) :
              /\ i \in 1..Len(b) - 1 /\ b[i] = NL /\ b[i + 1] = NL
              /\ \A j \in 1..i - 1 : ~(b[j] = NL /\ b[j + 1] = NL)
         /\ Boundaries(b) = {} => \A j \in 1..Len(b) - 1 : ~(b[j] = NL /\ b[j + 1] = NL)
<1> DEFINE at == {i \in 1..Len(b) - 1 : b[i] = NL /\ b[i + 1] = NL}
<1>1. Boundaries(b) = {i \in at : \A j \in at : i <= j}
  BY DEF Boundaries
<1>2. ASSUME NEW i \in Boundaries(b)
      PROVE  /\ i \in 1..Len(b) - 1 /\ b[i] = NL /\ b[i + 1] = NL
             /\ \A j \in 1..i - 1 : ~(b[j] = NL /\ b[j + 1] = NL)
  <2>1. i \in at /\ \A j \in at : i <= j
    BY <1>1
  <2>2. i \in 1..Len(b) - 1 /\ b[i] = NL /\ b[i + 1] = NL
    BY <2>1
  <2>3. ASSUME NEW j \in 1..i - 1, b[j] = NL, b[j + 1] = NL
        PROVE  FALSE
    <3>1. j \in 1..Len(b) - 1 /\ ~(i <= j)
      BY <2>2
    <3>2. j \in at
      BY <2>3, <3>1
    <3> QED BY <2>1, <3>1, <3>2
  <2> QED BY <2>2, <2>3
<1>3. ASSUME Boundaries(b) = {} PROVE at = {}
  <2> SUFFICES ASSUME at # {} PROVE FALSE
    OBVIOUS
  <2>1. at \subseteq Nat
    OBVIOUS
  <2> HIDE DEF at
  <2>2. \E i \in at : \A j \in at : i <= j
    BY <2>1, Least
  <2> QED BY <1>1, <1>3, <2>2
<1> QED BY <1>2, <1>3

\* upstream.next: a chunk goes behind what is left.
LEMMA ChunkReads ==
  ASSUME NEW bytes \in Seq(Bytes), NEW g \in 0..Len(bytes), NEW b \in Seq(Bytes), NEW said,
         Framed(bytes, g, b, said), NEW n \in g + 1..Len(bytes)
  PROVE  /\ Framed(bytes, n, b \o SubSeq(bytes, g + 1, n), said)
         /\ b \o SubSeq(bytes, g + 1, n) \in Seq(Bytes)
         /\ Len(b \o SubSeq(bytes, g + 1, n)) = Len(b) + (n - g)
<1> DEFINE p == g - Len(b)
           c == b \o SubSeq(bytes, g + 1, n)
<1>0. Len(b) \in Nat /\ g \in Nat /\ n \in Nat /\ Len(bytes) \in Nat /\ p \in Nat /\ Len(b) <= g
  BY DEF Framed
<1>1. /\ SubSeq(bytes, g + 1, n) \in Seq(Bytes) /\ Len(SubSeq(bytes, g + 1, n)) = n - g
      /\ \A i \in 1..n - g : SubSeq(bytes, g + 1, n)[i] = bytes[g + i]
  BY <1>0
<1>2. /\ c \in Seq(Bytes) /\ Len(c) = Len(b) + (n - g)
      /\ \A i \in 1..Len(b) : c[i] = b[i]
      /\ \A i \in 1..n - g : c[Len(b) + i] = bytes[g + i]
  BY <1>0, <1>1
<1>3. \A i \in 1..Len(b) : b[i] = bytes[p + i]
  <2>1. b = SubSeq(bytes, p + 1, g)
    BY DEF Framed
  <2> QED BY <1>0, <2>1
<1>4. n - Len(c) = p /\ Len(c) = n - p /\ Len(c) <= n
  BY <1>0, <1>2
<1> HIDE DEF c
<1>5. c = SubSeq(bytes, p + 1, n)
  <2> DEFINE d == SubSeq(bytes, p + 1, n)
  <2>1. d \in Seq(Bytes) /\ Len(d) = n - p /\ \A i \in 1..n - p : d[i] = bytes[p + i]
    BY <1>0
  <2>2. ASSUME NEW i \in 1..n - p PROVE c[i] = bytes[p + i]
    <3>1. CASE i <= Len(b)
      BY <1>0, <1>2, <1>3, <3>1
    <3>2. CASE i > Len(b)
      <4>1. i - Len(b) \in 1..n - g /\ Len(b) + (i - Len(b)) = i /\ g + (i - Len(b)) = p + i
        BY <1>0, <2>2, <3>2
      <4> QED BY <1>2, <4>1
    <3> QED BY <1>0, <3>1, <3>2
  <2> HIDE DEF d
  <2>3. c = d
    BY <1>2, <1>4, <2>1, <2>2
  <2> QED BY <2>3 DEF d
<1>6. Reading(bytes)[p] = [items |-> said, open |-> <<>>]
  BY DEF Framed
<1> HIDE DEF p
<1>7. Framed(bytes, n, c, said)
  BY <1>4, <1>5, <1>6 DEF Framed
<1> QED BY <1>2, <1>7 DEF c

\* The inner loop: the first frame of what is left.
LEMMA FrameReads ==
  ASSUME NEW bytes, Marked(bytes), NEW g \in 0..Len(bytes), NEW b \in Seq(Bytes), NEW said \in Seq(Things),
         Framed(bytes, g, b, said), NEW i \in Boundaries(b), ~Closed(said)
  PROVE  LET more == said \o Parsed(SubSeq(b, 1, i - 1))
             c == SubSeq(b, i + 2, Len(b))
             new == Parsed(SubSeq(b, 1, i - 1))
         IN  /\ Framed(bytes, g, c, more) /\ more \in Seq(Things)
             /\ c \in Seq(Bytes) /\ Len(c) <= Len(b)
             /\ new = <<>> \/ \E x \in Things : new = <<x>>
<1> DEFINE p == g - Len(b)
           e == p + i
           c == SubSeq(b, i + 2, Len(b))
           new == Parsed(SubSeq(b, 1, i - 1))
<1>0. /\ bytes \in Seq(Bytes) /\ Len(b) \in Nat /\ g \in Nat /\ Len(bytes) \in Nat
      /\ p \in Nat /\ Len(b) <= g /\ g <= Len(bytes)
  BY DEF Framed, Marked
<1>1. /\ i \in 1..Len(b) - 1 /\ b[i] = NL /\ b[i + 1] = NL
      /\ \A j \in 1..i - 1 : ~(b[j] = NL /\ b[j + 1] = NL)
  BY <1>0, FirstBoundary
<1>2. b = SubSeq(bytes, p + 1, g) /\ Reading(bytes)[p] = [items |-> said, open |-> <<>>]
  BY DEF Framed
<1>3. /\ Len(b) = g - p /\ \A j \in 1..Len(b) : b[j] = bytes[p + j]
      /\ SubSeq(b, 1, i - 1) = SubSeq(bytes, p + 1, p + i - 1)
      /\ c = SubSeq(bytes, p + i + 2, g) /\ Len(c) = g - (p + i + 1) /\ c \in Seq(Bytes)
  <2>1. g \in p..Len(bytes) /\ Len(b) = g - p /\ i \in 1..g - p - 1
    BY <1>0, <1>1
  <2> HIDE DEF p
  <2> QED BY <1>0, <1>2, <2>1, Within
<1>4. i \in Nat /\ p \in 0..Len(bytes) /\ e \in p + 1..Len(bytes) - 1 /\ e \in p + 1..Len(bytes) /\ e \in Nat
  BY <1>0, <1>1
<1>5. bytes[e] = NL /\ bytes[e + 1] = NL
  <2>1. e + 1 = p + (i + 1) /\ i \in 1..Len(b) /\ i + 1 \in 1..Len(b)
    BY <1>0, <1>1
  <2> QED BY <1>1, <1>3, <2>1
<1>6. ASSUME NEW j \in p + 1..e - 1
      PROVE  ~(bytes[j] = NL /\ bytes[j + 1] = NL)
  <2> DEFINE k == j - p
  <2>1. k \in 1..i - 1 /\ k \in 1..Len(b) /\ k + 1 \in 1..Len(b) /\ p + k = j /\ p + (k + 1) = j + 1
    BY <1>0, <1>1
  <2> HIDE DEF k
  <2> QED BY <1>1, <1>3, <2>1
<1>7. SubSeq(b, 1, i - 1) = SubSeq(bytes, p + 1, e - 1)
  <2>1. e - 1 = p + i - 1
    BY <1>4
  <2> QED BY <1>3, <2>1
<1>8. c = SubSeq(bytes, e + 2, g) /\ Len(c) = g - (e + 1) /\ c \in Seq(Bytes)
  <2>1. e + 2 = p + i + 2 /\ e + 1 = p + i + 1
    BY <1>4
  <2> QED BY <1>3, <2>1
<1>9. new = <<>> \/ \E x \in Things : new = <<x>>
  <2> HIDE DEF p, e
  <2>1. p \in Nat /\ e \in p + 1..Len(bytes) /\ bytes[e] = NL
    BY <1>0, <1>4, <1>5
  <2>2. \/ Parsed(SubSeq(bytes, p + 1, e - 1)) = <<>>
        \/ \E x \in Things : Parsed(SubSeq(bytes, p + 1, e - 1)) = <<x>>
    BY <2>1, FrameSays
  <2> QED BY <1>7, <2>2
<1>10. said \o new \in Seq(Things)
  <2>1. <<>> \in Seq(Things) /\ \A x \in Things : <<x>> \in Seq(Things)
    OBVIOUS
  <2> HIDE DEF new
  <2>2. new \in Seq(Things)
    BY <1>9, <2>1
  <2> QED BY <2>2
<1> HIDE DEF p, e, c, new
<1>11. Reading(bytes)[e + 1] = [items |-> said \o new, open |-> <<>>]
  <2>1. Reading(bytes)[e + 1]
           = [items |-> IF Closed(said) THEN said
                        ELSE said \o Parsed(SubSeq(bytes, p + 1, e - 1)),
              open |-> <<>>]
    BY <1>0, <1>2, <1>4, <1>5, <1>6, ReadingFrames, Zenon
  <2> QED BY <1>7, <2>1 DEF new
<1>12. g - Len(c) = e + 1 /\ Len(c) <= g /\ (e + 1) + 1 = e + 2 /\ Len(c) <= Len(b)
  <2>1. Len(c) \in Nat
    BY <1>8
  <2> QED BY <1>0, <1>4, <1>8, <2>1 DEF p
<1>13. Framed(bytes, g, c, said \o new)
  BY <1>8, <1>11, <1>12 DEF Framed
<1> QED BY <1>8, <1>9, <1>10, <1>12, <1>13 DEF new, c

\* The end of the body, with no frame left.
LEMMA EndReads ==
  ASSUME NEW bytes \in Seq(Bytes), NEW b \in Seq(Bytes), NEW said,
         Framed(bytes, Len(bytes), b, said), Boundaries(b) = {}
  PROVE  Said(bytes) = said
<1> DEFINE g == Len(bytes)
           p == g - Len(b)
<1>0. Len(b) \in Nat /\ g \in Nat /\ p \in 0..Len(bytes) /\ g \in p..Len(bytes) /\ Len(b) <= g /\ p \in Nat
  BY DEF Framed
<1>1. b = SubSeq(bytes, p + 1, g) /\ Reading(bytes)[p] = [items |-> said, open |-> <<>>]
  BY DEF Framed
<1>2. \A j \in 1..Len(b) - 1 : ~(b[j] = NL /\ b[j + 1] = NL)
  BY <1>0, FirstBoundary
<1>3. \A j \in 1..Len(b) : b[j] = bytes[p + j]
  BY <1>0, <1>1
<1>4. ASSUME NEW j \in p + 1..g - 1
      PROVE  ~(bytes[j] = NL /\ bytes[j + 1] = NL)
  <2> DEFINE k == j - p
  <2>1. k \in 1..Len(b) - 1 /\ k \in 1..Len(b) /\ k + 1 \in 1..Len(b) /\ p + k = j /\ p + (k + 1) = j + 1
    BY <1>0
  <2> HIDE DEF k
  <2> QED BY <1>2, <1>3, <2>1
<1> HIDE DEF p, g
<1>5. Reading(bytes)[g] = [items |-> said, open |-> SubSeq(bytes, p + 1, g)]
  BY <1>0, <1>1, <1>4, ReadingCollects, Zenon
<1>6. Reading(bytes)[g].items = said
  <2> DEFINE open == SubSeq(bytes, p + 1, g)
  <2> HIDE DEF open
  <2> QED BY <1>5 DEF open
<1> QED BY <1>6, SaidIs DEF g

\* How a stream that has ended stands to what the whole wire says.
EndsRight ==
  \/ items = <<>>
  \/ items = Full(wire)
  \/ Last(items) = "transport error" /\ IsPrefix(Front(items), Full(wire))

\* Why chunks do not matter: reading the wire up to where the buffer begins
\* has said just what was yielded, and the buffer is what has arrived since.
WireInv ==
  /\ Marked(wire) /\ got \in 0..Len(wire)
  /\ buffer \in Seq(Bytes) /\ Len(buffer) <= got /\ items \in Seq(Things)
  /\ call.pc \in {"idle", "sent"} => items = <<>> /\ buffer = <<>> /\ got = 0
  /\ call.pc \in {"awaiting", "framing"} => Framed(wire, got, buffer, items) /\ ~Closed(items)
  /\ call.pc = "awaiting" => Boundaries(buffer) = {}
  /\ call.pc = "ended" => EndsRight

\* Where nothing has arrived, nothing is left over.
LEMMA NothingRead ==
  ASSUME NEW bytes, Len(bytes) \in Nat
  PROVE  /\ Framed(bytes, 0, <<>>, <<>>) /\ ~Closed(<<>>) /\ Boundaries(<<>>) = {}
         /\ <<>> \in Seq(Bytes) /\ <<>> \in Seq(Things) /\ Len(<<>>) = 0
<1>1. SubSeq(bytes, 1, 0) = <<>> /\ Len(<<>>) = 0
  OBVIOUS
<1>2. Reading(bytes)[0] = [items |-> <<>>, open |-> <<>>]
  BY ReadingSteps
<1>3. Framed(bytes, 0, <<>>, <<>>)
  BY <1>1, <1>2 DEF Framed
<1>4. Boundaries(<<>>) = {}
  BY <1>1 DEF Boundaries
<1> QED BY <1>1, <1>3, <1>4 DEF Closed

\* A frame's item closes the stream if it is terminal.
LEMMA ItemCloses ==
  ASSUME NEW said \in Seq(Things), ~Closed(said), NEW new,
         new = <<>> \/ \E x \in Things : new = <<x>>
  PROVE  (ToSet(new) \cap Terminal = {}) <=> ~Closed(said \o new)
<1>1. CASE new = <<>>
  <2>1. said \o new = said /\ ToSet(new) = {}
    BY <1>1 DEF ToSet
  <2> QED BY <2>1
<1>2. ASSUME NEW x \in Things, new = <<x>>
      PROVE  (ToSet(new) \cap Terminal = {}) <=> ~Closed(said \o new)
  <2>1. ToSet(new) = {x}
    BY <1>2 DEF ToSet
  <2>2. said \o <<x>> # <<>> /\ Last(said \o <<x>>) = x
    BY DEF Last
  <2> QED BY <1>2, <2>1, <2>2 DEF Closed
<1> QED BY <1>1, <1>2

\* The last item and those before it.
LEMMA AppendedLast ==
  ASSUME NEW S, NEW s \in Seq(S), NEW x
  PROVE  Last(Append(s, x)) = x /\ Front(Append(s, x)) = s
<1>1. s \in Seq(S \cup {x}) /\ x \in S \cup {x}
  OBVIOUS
<1>2. Append(s, x) \in Seq(S \cup {x}) /\ Len(Append(s, x)) = Len(s) + 1
  BY <1>1
<1>3. Append(s, x)[Len(s) + 1] = x /\ SubSeq(Append(s, x), 1, (Len(s) + 1) - 1) = s
  BY <1>1, <1>2
<1> QED BY <1>2, <1>3 DEF Last, Front

\* No step breaks this, wherever a chunk or a frame ends.
LEMMA WireStep ==
  ASSUME CallInv, WireInv, [Next]_vars
  PROVE  WireInv'
<1>0. /\ call \in ValidCalls /\ Marked(wire) /\ wire \in Seq(Bytes) /\ got \in 0..Len(wire)
      /\ Len(wire) \in Nat /\ buffer \in Seq(Bytes) /\ items \in Seq(Things)
  BY DEF CallInv, WireInv, Marked
<1>1. ASSUME Marked(wire)', Len(wire') \in Nat, items' = <<>>, buffer' = <<>>, got' = 0,
             call'.pc \in {"idle", "sent", "awaiting", "ended"}
      PROVE  WireInv'
  <2>1. 0 \in 0..Len(wire') /\ Len(<<>>) <= 0
    BY <1>1
  <2>2. /\ Framed(wire', 0, <<>>, <<>>) /\ ~Closed(<<>>) /\ Boundaries(<<>>) = {}
        /\ <<>> \in Seq(Bytes) /\ <<>> \in Seq(Things)
    BY <1>1, NothingRead
  <2>3. EndsRight'
    BY <1>1 DEF EndsRight
  <2> QED BY <1>1, <2>1, <2>2, <2>3 DEF WireInv
<1>2. call' \in ValidCalls
  BY CallStep DEF CallInv
<1>3. CASE call.pc = "idle" /\ Start
  <2>1. CallInv' /\ UNCHANGED <<core, stream>>
    BY <1>3, StartPosts, PostKeepsCall
  <2>2. core = "unseen" /\ call'.pc \notin {"awaiting", "framing"}
    BY <1>3, <2>1 DEF CallInv
  <2>3. call'.pc \in {"idle", "sent", "ended"}
    BY <1>2, <2>2 DEF ValidCalls
  <2> QED BY <1>0, <1>1, <1>3, <2>1, <2>3 DEF WireInv, stream
<1>4. CASE CoreTakes
  <2>1. Marked(wire') /\ Len(wire') \in Nat
    BY <1>0, <1>4, WiresMarked DEF CoreTakes, Marked
  <2> QED BY <1>1, <1>4, <2>1 DEF CoreTakes, WireInv
<1>5. CASE Answered \/ Lost \/ TimeOut \/ Tick
  <2>1. call.pc = "sent" /\ UNCHANGED stream
    BY <1>5 DEF Answered, Lost, TimeOut, Tick
  <2>2. call' = call \/ call' = [call EXCEPT !.pc = "awaiting"] \/ \E outcome : End(outcome)
    BY <1>5
       DEF Answered, AnswerEmit, AnswerPublish, AnswerReport, AnswerCall, AnswerStatus,
           AnswerAuthorize, AnswerStream, Refused, ReadBody, Lost, TimeOut, Tick
  <2>3. call'.pc \in {"sent", "awaiting", "ended"}
    BY <1>0, <2>1, <2>2 DEF End, ValidCalls
  <2> QED BY <1>0, <1>1, <2>1, <2>3 DEF WireInv, stream
<1>6. CASE Chunk
  <2>1. PICK n \in got + 1..Len(wire) :
          got' = n /\ buffer' = buffer \o SubSeq(wire, got + 1, n)
    BY <1>6 DEF Chunk
  <2>2. call.pc = "awaiting" /\ call' = [call EXCEPT !.pc = "framing"] /\ UNCHANGED <<wire, items>>
    BY <1>6 DEF Chunk
  <2>3. Framed(wire, got, buffer, items) /\ ~Closed(items)
    BY <2>2 DEF WireInv
  <2>4. Framed(wire, n, buffer', items) /\ buffer' \in Seq(Bytes)
    BY <1>0, <2>1, <2>3, ChunkReads
  <2>5. n \in 0..Len(wire) /\ Len(buffer') <= n
    BY <1>0, <2>4 DEF Framed
  <2>6. call'.pc = "framing"
    BY <1>0, <2>2 DEF ValidCalls
  <2> QED BY <1>0, <2>1, <2>2, <2>3, <2>4, <2>5, <2>6 DEF WireInv
<1>7. CASE Frame
  <2>1. call.pc = "framing" /\ UNCHANGED <<wire, got>> /\ Framed(wire, got, buffer, items) /\ ~Closed(items)
    BY <1>7 DEF Frame, WireInv
  <2>2. CASE Boundaries(buffer) = {}
    <3>1. call' = [call EXCEPT !.pc = "awaiting"] /\ UNCHANGED <<buffer, items>>
      BY <1>7, <2>2 DEF Frame
    <3>2. call'.pc = "awaiting"
      BY <1>0, <3>1 DEF ValidCalls
    <3> QED BY <2>1, <2>2, <3>1, <3>2 DEF WireInv
  <2>3. CASE Boundaries(buffer) # {}
    <3>1. PICK i \in Boundaries(buffer) :
            /\ buffer' = SubSeq(buffer, i + 2, Len(buffer))
            /\ items' = items \o Parsed(SubSeq(buffer, 1, i - 1))
            /\ IF ToSet(Parsed(SubSeq(buffer, 1, i - 1))) \cap Terminal # {} THEN End("ok")
               ELSE UNCHANGED call
      BY <1>7, <2>3 DEF Frame
    <3> DEFINE new == Parsed(SubSeq(buffer, 1, i - 1))
    <3>2. /\ Framed(wire, got, buffer', items') /\ items' \in Seq(Things)
          /\ buffer' \in Seq(Bytes) /\ Len(buffer') <= Len(buffer)
          /\ (new = <<>> \/ \E x \in Things : new = <<x>>)
      BY <1>0, <2>1, <3>1, FrameReads
    <3>3. Len(buffer') <= got
      BY <3>2 DEF Framed
    <3> HIDE DEF new
    <3>4. (ToSet(new) \cap Terminal = {}) <=> ~Closed(items')
      BY <1>0, <2>1, <3>1, <3>2, ItemCloses DEF new
    <3>5. CASE ~Closed(items')
      <4>1. call' = call
        BY <3>1, <3>4, <3>5 DEF new
      <4> QED BY <2>1, <3>2, <3>3, <3>5, <4>1 DEF WireInv
    <3>6. CASE Closed(items')
      <4>1. call'.pc = "ended"
        BY <1>0, <3>1, <3>4, <3>6 DEF new, End, ValidCalls
      <4> DEFINE p == got - Len(buffer')
      <4>2. Reading(wire)[p].items = items' /\ p \in 0..Len(wire)
        BY <1>0, <3>2, <3>3 DEF Framed
      <4> HIDE DEF p
      <4>3. items' = Full(wire)
        BY <1>0, <3>6, <4>2, ReadIsPrefix
      <4>4. EndsRight'
        BY <2>1, <4>3 DEF EndsRight
      <4> QED BY <2>1, <3>2, <3>3, <4>1, <4>4 DEF WireInv
    <3> QED BY <3>5, <3>6
  <2> QED BY <2>2, <2>3
<1>8. CASE Eof \/ Broken
  <2>1. /\ call.pc = "awaiting" /\ End("ok") /\ UNCHANGED <<wire, got, buffer>>
        /\ Framed(wire, got, buffer, items) /\ ~Closed(items) /\ Boundaries(buffer) = {}
    BY <1>8 DEF Eof, Broken, WireInv
  <2>2. call'.pc = "ended"
    BY <1>0, <2>1 DEF End, ValidCalls
  <2>3. items' \in Seq(Things)
    <3>1. \/ items' = Append(items, "protocol error")
          \/ items' = Append(items, "transport error")
      BY <1>8 DEF Eof, Broken, Yield
    <3>2. "protocol error" \in Things /\ "transport error" \in Things
      BY DEF Things, Terminal
    <3>3. \A x \in Things : Append(items, x) \in Seq(Things)
      BY <1>0
    <3> QED BY <3>1, <3>2, <3>3
  <2>4. EndsRight'
    <3>1. CASE Eof
      <4>1. got = Len(wire) /\ items' = Append(items, "protocol error")
        BY <3>1 DEF Eof, Yield
      <4>2. Said(wire) = items
        BY <1>0, <2>1, <4>1, EndReads
      <4>3. items' = Full(wire)
        BY <2>1, <4>1, <4>2 DEF Full
      <4> QED BY <2>1, <4>3 DEF EndsRight
    <3>2. CASE Broken
      <4>1. items' = Append(items, "transport error")
        BY <3>2 DEF Broken, Yield
      <4>2. Last(items') = "transport error" /\ Front(items') = items
        BY <1>0, <4>1, AppendedLast
      <4> DEFINE p == got - Len(buffer)
      <4>3. Reading(wire)[p].items = items /\ p \in 0..Len(wire)
        BY <1>0, <2>1 DEF Framed
      <4> HIDE DEF p
      <4>4. IsPrefix(items, Full(wire))
        BY <1>0, <2>1, <4>3, ReadIsPrefix
      <4> QED BY <2>1, <4>2, <4>4 DEF EndsRight
    <3> QED BY <1>8, <3>1, <3>2
  <2> QED BY <1>0, <2>1, <2>2, <2>3, <2>4 DEF WireInv
<1>9. CASE Over
  <2>1. /\ wire' = <<>> /\ items' = <<>> /\ buffer' = <<>> /\ got' = 0 /\ call'.pc = "idle"
    BY <1>9 DEF Over, NoRequest
  <2>2. Marked(<<>>) /\ Len(<<>>) \in Nat
    BY DEF Marked
  <2> QED BY <1>1, <2>1, <2>2
<1>10. CASE UNCHANGED vars
  BY <1>10 DEF vars, stream, WireInv, EndsRight
<1> QED
  BY <1>3, <1>4, <1>5, <1>6, <1>7, <1>8, <1>9, <1>10 DEF Next

\* So it always holds.
LEMMA WireInvariant == Spec => []WireInv
<1>1. Init => WireInv
  <2> SUFFICES ASSUME Init PROVE WireInv
    OBVIOUS
  <2>1. wire = <<>> /\ items = <<>> /\ buffer = <<>> /\ got = 0 /\ call.pc = "idle"
    BY DEF Init, NoRequest
  <2>2. Marked(<<>>) /\ Len(<<>>) = 0 /\ <<>> \in Seq(Bytes) /\ <<>> \in Seq(Things)
    BY DEF Marked
  <2> QED BY <2>1, <2>2 DEF WireInv
<1>2. CallInv /\ WireInv /\ [Next]_vars => WireInv'
  BY WireStep
<1> QED BY <1>1, <1>2, CallInvariant, PTL DEF Spec

(***************************************************************************)
(* However Core's bytes are cut into chunks, what a stream yields is what  *)
(* the whole wire says, or a prefix of it while it goes on or when the     *)
(* transport fails (ModelStreamClient::stream, find_sse_frame_boundary,    *)
(* parse_model_stream_frame).                                              *)
(***************************************************************************)
THEOREM ChunksAreOne == Spec => []ChunksDoNotMatter
<1>1. CallInv /\ WireInv => ChunksDoNotMatter
  <2> SUFFICES ASSUME CallInv, WireInv, items # <<>>
               PROVE  \/ items = Full(wire)
                      \/ IsStrictPrefix(items, Full(wire)) /\ call.pc # "ended"
                      \/ Last(items) = "transport error" /\ IsPrefix(Front(items), Full(wire))
    BY Zenon DEF ChunksDoNotMatter, Full
  <2>1. CASE call.pc = "ended"
    BY <2>1 DEF WireInv, EndsRight
  <2>2. CASE call.pc \in {"awaiting", "framing"}
    <3> DEFINE p == got - Len(buffer)
    <3>1. Marked(wire) /\ Reading(wire)[p].items = items /\ p \in 0..Len(wire) /\ ~Closed(items)
      <4>1. Framed(wire, got, buffer, items) /\ ~Closed(items) /\ Marked(wire) /\ wire \in Seq(Bytes)
            /\ got \in 0..Len(wire) /\ buffer \in Seq(Bytes)
        BY <2>2 DEF WireInv, Marked
      <4> QED BY <4>1 DEF Framed
    <3> HIDE DEF p
    <3>2. IsPrefix(items, Full(wire)) /\ items # Full(wire)
      BY <3>1, ReadIsPrefix
    <3> QED BY <2>2, <3>2 DEF IsStrictPrefix
  <2>3. call.pc \in {"idle", "sent", "awaiting", "framing", "ended"}
    BY DEF CallInv, ValidCalls
  <2> QED BY <2>1, <2>2, <2>3 DEF WireInv
<1> QED BY <1>1, CallInvariant, WireInvariant, PTL

\* The client's state is well typed: what a stream yields are items of the
\* wire, and no more is framed than has arrived.
THEOREM ClientTypeCorrect == Spec => []TypeOK
<1> DEFINE Host == endpoint \in {CorePort, None} /\ token \in BOOLEAN
<1>1. Init => Host
  BY DEF Init, EndpointOf
<1>2. CallInv /\ Host /\ [Next]_vars => Host'
  <2> SUFFICES ASSUME CallInv, Host, [Next]_vars PROVE UNCHANGED <<endpoint, token>>
    OBVIOUS
  <2>1. CASE call.pc = "idle" /\ Start
    BY <2>1, StartPosts, PostKeepsCall
  <2>2. CASE UNCHANGED vars
    BY <2>2 DEF vars
  <2> QED BY <2>1, <2>2
       DEF Next, CoreTakes, Answered, Lost, TimeOut, Tick, Chunk, Frame, Eof, Broken, Over
<1>3. CallInv /\ WireInv /\ Host => TypeOK
  <2> SUFFICES ASSUME CallInv, WireInv, Host PROVE TypeOK
    OBVIOUS
  <2>1. \A i \in 1..Len(items) : items[i] \in Terminal \cup Contents
    BY DEF WireInv, Things
  <2>2. got \in 0..Len(wire) /\ got \in Nat /\ Len(buffer) <= got
    BY DEF WireInv, Marked
  <2>3. call.outcome \in Outcomes \cup {None}
    BY DEF CallInv, ValidCalls
  <2> QED BY <2>1, <2>2, <2>3 DEF TypeOK, CallInv, ValidCalls, Outcomes
<1> HIDE DEF Host
<1> QED BY <1>1, <1>2, <1>3, CallInvariant, WireInvariant, PTL DEF Spec
-----------------------------------------------------------------------------
(***************************************************************************)
(* The handlers of TeamsApi, for any number of requests, teams, agents and *)
(* bodies, and any rows in the file that was opened.  What a request's     *)
(* place says of what it holds, and what the past of a team says of the    *)
(* row it has, is ApiInv, which every handler's step keeps.                *)
(***************************************************************************)
Changing == {"update", "add", "remove"}

Calling(c) == req[c] # NoCall

(* The announcement a request makes, and where it makes it. *)
NoticeFits(c) ==
  /\ pc[c] = "new" => req[c] = NoCall /\ was[c] = NoRow
  /\ pc[c] \in {"new", "confirm", "call"} => notice[c] = "none"
  /\ pc[c] \in {"confirm", "call", "emit"} => Calling(c) /\ req[c].op # "list"
  /\ pc[c] = "emit" <=> notice[c] = "due"
  /\ notice[c] # "none" => Calling(c) /\ req[c].op \in Changing \cup {"create", "delete"}

(* What a request holds: the row it read, the answer of its call. *)
HoldsTruth(c) ==
  Calling(c) /\ req[c].op # "list" =>
    /\ pc[c] = "confirm" => req[c].op = "create" /\ ret[c].kind = "inserted"
    /\ pc[c] = "call" => /\ req[c].op \in {"delete", "add", "remove"}
                         /\ was[c] = NoRow /\ ret[c].kind \in {"team", "missing", "unreadable"}
    /\ req[c].op \in {"create", "delete"} \/ was[c] = NoRow \/ ret[c].kind # "team"
         \/ ret[c].row \in past[req[c].id]
    /\ req[c].op = "delete" => seen[c] \in past[req[c].id] \cup {NoRow}
    /\ notice[c] # "none" =>
         IF req[c].op = "delete" THEN ret[c].kind = "deleted"
         ELSE ret[c].kind = "team" /\ ret[c].row \in past[req[c].id]
    /\ ret[c].kind = "deleted" =>
         /\ req[c].op = "delete" /\ was[c] # NoRow
         /\ req[c].id \in minted /\ rows[req[c].id] = NoRow
    /\ req[c].op = "create" => req[c].id \in minted
    /\ ret[c].kind = "inserted" => req[c].op = "create"

(* One request creates a team, and one deletes it. *)
Creates(c) == Calling(c) /\ req[c].op = "create"

Deletes(c) == Calling(c) /\ req[c].op = "delete" /\ ret[c].kind = "deleted"

LivesOnce ==
  \A c, d \in Callers :
    /\ Creates(c) /\ Creates(d) /\ req[c].id = req[d].id => c = d
    /\ Deletes(c) /\ Deletes(d) /\ req[c].id = req[d].id => c = d

(* The past of a team ends with the row it has, the latest. *)
PastLeadsHere(id) ==
  /\ past[id] \subseteq Row
  /\ id \notin minted => rows[id] = NoRow /\ past[id] = {}
  /\ rows[id] # NoRow => /\ rows[id] \in past[id]
                         /\ \A row \in past[id] : row.stamp <= rows[id].stamp

(* The row a team has, or had when a request deleted it. *)
Stood(id, last) ==
  rows[id] = last \/ \E c \in Callers : Deletes(c) /\ req[c].id = id /\ was[c] = last

(* Whoever changed a team last left it with the content it stood with, and *)
(* if nobody changed it, it had no other.                                  *)
Settled(id, last) ==
  \/ \E c \in Makers(id) :
       \A row \in past[id] : row.stamp >= Base(c) => Content(row) = Content(last)
  \/ Makers(id) = {} /\ \A row \in past[id] : Content(row) = Content(last)

LastChange(id) ==
  /\ rows[id] = NoRow /\ Changers(id) # {} => \E c \in Changers(id) : req[c].op = "delete"
  /\ \A last \in Row : Stood(id, last) => Settled(id, last)

(* A delete whose handler could not read the team before finds it still    *)
(* unreadable, unless someone has changed it.                              *)
Unread(c) ==
  Calling(c) /\ req[c].op = "delete" /\ seen[c] = NoRow =>
    /\ pc[c] = "call" /\ rows[req[c].id] # NoRow =>
         ~Opens(rows[req[c].id], seal) \/ Makers(req[c].id) # {}
    /\ Deletes(c) => ~Opens(was[c], seal) \/ Makers(req[c].id) # {}

(***************************************************************************)
(* Why the events can be trusted.  A handler holds rows its team really    *)
(* had, one request creates a team and one deletes it, the stamps of a     *)
(* team's past end with the row it has, and whoever changed a team last    *)
(* left it with what it says still: none of it is lost by what the         *)
(* requests in between do, however they interleave.                        *)
(***************************************************************************)
ApiInv ==
  /\ ApiTypeOK /\ LivesOnce
  /\ \A c \in Callers : NoticeFits(c) /\ HoldsTruth(c) /\ Unread(c)
  /\ \A id \in TeamIds : PastLeadsHere(id) /\ LastChange(id)

-----------------------------------------------------------------------------
LEMMA CallFields ==
  ASSUME NEW request \in Calls
  PROVE  /\ request # NoCall
         /\ request.op \in {"get", "delete", "list", "create", "update", "add", "remove"}
         /\ request.op # "list" => request.id \in TeamIds
         /\ request.op = "create" => request.body \in NewTeams
         /\ request.op = "update" => request.patch \in Patches
         /\ request.op \in {"add", "remove"} => request.agent \in Agents
BY NoCallAssumption DEF Calls

(* What a call on the table answers its caller, and no other. *)
Answers(c, kinds) ==
  /\ ret' \in [Callers -> Answer]
  /\ \A d \in Callers \ {c} : ret'[d] = ret[d]
  /\ ret'[c].kind \in kinds

LEMMA Replying ==
  ASSUME TableTypeOK, NEW c \in Callers, NEW answer \in Answer, Reply(c, answer)
  PROVE  ret' \in [Callers -> Answer] /\ ret'[c] = answer /\ \A d \in Callers \ {c} : ret'[d] = ret[d]
BY DEF Reply, TableTypeOK

LEMMA SaysAnswer ==
  ASSUME NEW kind \in AnswerKinds, NEW id \in TeamIds
  PROVE  Says(kind, id) \in Answer /\ Says(kind, id).kind = kind
BY DEF Says, Answer

ReadKinds == {"team", "missing", "unreadable"}

LEMMA ReadAnswer ==
  ASSUME NEW id \in TeamIds, NEW row \in Row \cup {NoRow}, NEW s \in SealStates
  PROVE  /\ Read(id, row, s) \in Answer
         /\ Read(id, row, s).kind \in ReadKinds
         /\ Read(id, row, s).kind = "team" <=> row # NoRow /\ Opens(row, s)
         /\ Read(id, row, s).kind = "team" => Read(id, row, s).row = row
         /\ Read(id, row, s).kind # "team" => Read(id, row, s).row = NoRow
BY DEF Read, Says, Answer, AnswerKinds, ReadKinds

LEMMA ReadingAnswers ==
  ASSUME TableTypeOK, NEW c \in Callers, NEW id \in TeamIds, UNCHANGED seal,
         rows'[id] \in Row \cup {NoRow}, ReplyRead(c, id)
  PROVE  /\ Answers(c, ReadKinds)
         /\ ret'[c].kind = "team" <=> rows'[id] # NoRow /\ Opens(rows'[id], seal)
         /\ ret'[c].kind = "team" => ret'[c].row = rows'[id]
         /\ ret'[c].kind # "team" => ret'[c].row = NoRow
<1>1. Read(id, rows'[id], seal') \in Answer
  BY ReadAnswer DEF TableTypeOK
<1>2. ret' \in [Callers -> Answer] /\ ret'[c] = Read(id, rows'[id], seal')
      /\ \A d \in Callers \ {c} : ret'[d] = ret[d]
  BY <1>1, Replying DEF ReplyRead
<1> QED BY <1>2, ReadAnswer DEF Answers, TableTypeOK

-----------------------------------------------------------------------------
(* What becomes of a row. *)
Elsewhere(id) ==
  /\ rows' \in [TeamIds -> Row \cup {NoRow}] /\ UNCHANGED seal
  /\ \A j \in TeamIds \ {id} : rows'[j] = rows[j]

(* It stays, and who asked for the team has it. *)
Kept(c, id) ==
  /\ UNCHANGED <<rows, seal>>
  /\ Answers(c, ReadKinds \cup {"refused"})
  /\ ret'[c].kind = "team" => rows[id] # NoRow /\ ret'[c].row = rows[id]

(* It is written over by who could open it. *)
Rewritten(c, id) ==
  /\ Elsewhere(id)
  /\ rows[id] \in Row /\ rows'[id] \in Row
  /\ rows'[id].stamp = rows[id].stamp + 1
  /\ Opens(rows[id], seal)
  /\ IF Writable(seal) /\ rows'[id].form = WrittenForm(seal) THEN TRUE
     ELSE rows'[id].form = rows[id].form /\ rows'[id].name = rows[id].name
  /\ Answers(c, {"team"}) /\ ret'[c].row = rows'[id]

LEMMA PatchedRow ==
  ASSUME NEW row \in Row, NEW patch \in Patches, NEW s \in SealStates
  PROVE  /\ UpdatedRow(row, ApplyPatch(row, patch), s) \in Row
         /\ UpdatedRow(row, ApplyPatch(row, patch), s).stamp = row.stamp + 1
         /\ UpdatedRow(row, ApplyPatch(row, patch), s).form = WrittenForm(s)
<1>1. patch \in Patch
  BY BodyAssumption
<1>2. /\ Patched(row.name, patch.name) \in Names
      /\ Patched(row.members, patch.members) \in Rosters
      /\ Patched(row.lead, patch.lead) \in Leads
  BY <1>1 DEF Patch, Row, Patched
<1>3. ApplyPatch(row, patch) \in Row
  BY <1>2 DEF ApplyPatch, Row
<1>4. WrittenForm(s) \in Forms /\ row.stamp + 1 \in Nat
  BY DEF Row, WrittenForm, Forms
<1> QED BY <1>3, <1>4 DEF UpdatedRow, Row

LEMMA RewrittenRow ==
  ASSUME NEW row \in Row, NEW members \in Rosters
  PROVE  /\ RewrittenMembers(row, members) \in Row
         /\ RewrittenMembers(row, members).stamp = row.stamp + 1
         /\ RewrittenMembers(row, members).form = row.form
         /\ RewrittenMembers(row, members).name = row.name
BY DEF RewrittenMembers, Row

LEMMA UpdateWrites ==
  ASSUME TableTypeOK, NEW c \in Callers, NEW id \in TeamIds, NEW patch \in Patches,
         Update(c, id, patch)
  PROVE  Kept(c, id) \/ Rewritten(c, id)
<1> DEFINE new == UpdatedRow(rows[id], ApplyPatch(rows[id], patch), seal)
<1>1. rows[id] \in Row \cup {NoRow} /\ seal \in SealStates /\ UNCHANGED seal
  BY DEF TableTypeOK, Update
<1>2. CASE Read(id, rows[id], seal).kind # "team" /\ UNCHANGED rows /\ ReplyRead(c, id)
  BY <1>1, <1>2, ReadingAnswers DEF Kept, Answers
<1>3. CASE UNCHANGED rows /\ Reply(c, Says("refused", id))
  <2>1. Says("refused", id) \in Answer /\ Says("refused", id).kind = "refused"
    BY SaysAnswer DEF AnswerKinds
  <2> QED BY <1>1, <1>3, <2>1, Replying DEF Kept, Answers
<1>4. CASE /\ Read(id, rows[id], seal).kind = "team" /\ Writable(seal) /\ ReplyRead(c, id)
           /\ rows' = [rows EXCEPT ![id] = UpdatedRow(@, ApplyPatch(@, patch), seal)]
  <2>1. rows[id] \in Row /\ Opens(rows[id], seal)
    BY <1>1, <1>4, ReadAnswer
  <2>2. new \in Row /\ new.stamp = rows[id].stamp + 1 /\ new.form = WrittenForm(seal)
    BY <1>1, <2>1, PatchedRow
  <2>3. rows' = [rows EXCEPT ![id] = new]
    BY <1>4
  <2> HIDE DEF new
  <2>4. rows'[id] = new /\ Elsewhere(id)
    BY <1>1, <2>2, <2>3 DEF Elsewhere, TableTypeOK
  <2>5. Opens(new, seal)
    BY <1>1, <1>4, <2>2 DEF Opens, WrittenForm, Writable, SealStates
  <2>6. Answers(c, ReadKinds) /\ ret'[c].kind = "team" /\ ret'[c].row = new
    BY <1>1, <1>4, <2>2, <2>4, <2>5, NoRowAssumption, ReadingAnswers
  <2> QED BY <1>4, <2>1, <2>2, <2>4, <2>6 DEF Rewritten, Answers
<1> QED BY <1>1, <1>2, <1>3, <1>4 DEF Update

LEMMA MembersWrite ==
  ASSUME TableTypeOK, NEW c \in Callers, NEW id \in TeamIds, NEW agent \in Agents,
         AddMember(c, id, agent) \/ RemoveMember(c, id, agent)
  PROVE  (Kept(c, id) /\ Answers(c, ReadKinds)) \/ Rewritten(c, id)
<1>1. PICK goesOn \in BOOLEAN,
           members \in {Joined(rows[id].members, agent), Without(rows[id].members, agent)} :
             Rewrite(c, id, goesOn, members)
  BY DEF AddMember, RemoveMember
<1>2. rows[id] \in Row \cup {NoRow} /\ seal \in SealStates /\ UNCHANGED seal /\ ReplyRead(c, id)
  BY <1>1 DEF TableTypeOK, Rewrite
<1>3. CASE Read(id, rows[id], seal).kind = "team" /\ goesOn
  <2>1. rows[id] \in Row /\ Opens(rows[id], seal)
    BY <1>2, <1>3, ReadAnswer
  <2>2. members \in Rosters
    BY <1>1, <2>1, RosterAssumption DEF Row
  <2> DEFINE new == RewrittenMembers(rows[id], members)
  <2>3. new \in Row /\ new.stamp = rows[id].stamp + 1 /\ new.form = rows[id].form
        /\ new.name = rows[id].name
    BY <2>1, <2>2, RewrittenRow
  <2>4. rows' = [rows EXCEPT ![id] = new]
    BY <1>1, <1>3 DEF Rewrite
  <2> HIDE DEF new
  <2>5. rows'[id] = new /\ Elsewhere(id)
    BY <1>2, <2>3, <2>4 DEF Elsewhere, TableTypeOK
  <2>6. Opens(new, seal)
    BY <2>1, <2>3 DEF Opens
  <2>7. Answers(c, ReadKinds) /\ ret'[c].kind = "team" /\ ret'[c].row = new
    BY <1>2, <2>3, <2>5, <2>6, NoRowAssumption, ReadingAnswers
  <2> QED BY <2>1, <2>3, <2>5, <2>7 DEF Rewritten, Answers
<1>4. CASE ~(Read(id, rows[id], seal).kind = "team" /\ goesOn)
  <2>1. UNCHANGED rows
    BY <1>1, <1>4 DEF Rewrite
  <2> QED BY <1>2, <2>1, ReadingAnswers DEF Kept, Answers
<1> QED BY <1>3, <1>4

-----------------------------------------------------------------------------
(* A request another one's step leaves alone. *)
Same(d) ==
  /\ pc'[d] = pc[d] /\ req'[d] = req[d] /\ seen'[d] = seen[d] /\ notice'[d] = notice[d]
  /\ was'[d] = was[d] /\ ret'[d] = ret[d]

Onward ==
  /\ minted \subseteq minted' /\ UNCHANGED seal
  /\ \A id \in TeamIds :
       /\ past[id] \subseteq past'[id]
       /\ id \in minted /\ rows[id] = NoRow => rows'[id] = NoRow
       /\ Makers(id) # {} => Makers(id)' # {}
       /\ rows'[id] # rows[id] /\ rows'[id] # NoRow =>
            Makers(id)' # {} \/ (rows[id] # NoRow /\ Opens(rows[id], seal))

LEMMA OthersKeep ==
  ASSUME ApiInv, Onward, NEW d \in Callers, Same(d)
  PROVE  NoticeFits(d)' /\ HoldsTruth(d)' /\ Unread(d)'
<1>1. NoticeFits(d) /\ HoldsTruth(d) /\ Unread(d) /\ req[d] \in Calls \cup {NoCall}
  BY DEF ApiInv, ApiTypeOK
<1>2. Calling(d) /\ req[d].op # "list" => req[d].id \in TeamIds
  BY <1>1, CallFields DEF Calling
<1>3. NoticeFits(d)'
  BY <1>1 DEF Same, NoticeFits, Calling
<1>4. HoldsTruth(d)'
  BY <1>1, <1>2 DEF Same, HoldsTruth, Onward, Calling
<1>5. Unread(d)'
  <2>1. SUFFICES ASSUME Calling(d), req[d].op = "delete", seen[d] = NoRow
                 PROVE  Unread(d)'
    BY DEF Unread, Same, Calling
  <2>2. PICK id \in TeamIds : id = req[d].id
    BY <1>2, <2>1
  <2>3. /\ req'[d].id = id /\ (Deletes(d)' <=> Deletes(d))
        /\ pc'[d] = pc[d] /\ was'[d] = was[d] /\ seal' = seal
    BY <2>2 DEF Same, Deletes, Calling, Onward
  <2>4. /\ pc[d] = "call" /\ rows[id] # NoRow => ~Opens(rows[id], seal) \/ Makers(id) # {}
        /\ Deletes(d) => ~Opens(was[d], seal) \/ Makers(id) # {}
    BY <1>1, <2>1, <2>2 DEF Unread
  <2>5. /\ Makers(id) # {} => Makers(id)' # {}
        /\ rows'[id] # rows[id] /\ rows'[id] # NoRow =>
             Makers(id)' # {} \/ (rows[id] # NoRow /\ Opens(rows[id], seal))
    BY DEF Onward
  <2>6. Deletes(d) => ~Opens(was'[d], seal') \/ Makers(id)' # {}
    BY <2>3, <2>4, <2>5
  <2>7. pc[d] = "call" /\ rows'[id] # NoRow => ~Opens(rows'[id], seal') \/ Makers(id)' # {}
    BY <2>3, <2>4, <2>5
  <2> QED BY <2>2, <2>3, <2>6, <2>7 DEF Unread, Opens
<1> QED BY <1>3, <1>4, <1>5

(* Request c gave team id another content, or its end. *)
Alters(c, id) ==
  /\ Calling(c) /\ req[c].op # "list" /\ req[c].id = id
  /\ \/ Inserting(c) \/ ret[c].kind = "deleted"
     \/ /\ req[c].op \in Changing /\ was[c] # NoRow /\ ret[c].kind = "team"
        /\ Content(was[c]) # Content(ret[c].row)

LEMMA ChangersAlter == \A id : Changers(id) = {c \in Callers : Alters(c, id)}
BY DEF Changers, Alters, Calling, Changing

LEMMA ChangersAlterNext == \A id : Changers(id)' = {c \in Callers : Alters(c, id)'}
BY DEF Changers, Alters, Calling, Changing

LEMMA SameAlters ==
  ASSUME NEW d, Same(d)
  PROVE  /\ \A id : Alters(d, id)' <=> Alters(d, id)
         /\ Base(d)' = Base(d) /\ req'[d] = req[d]
         /\ Deletes(d)' <=> Deletes(d)
BY DEF Same, Alters, Calling, Inserting, Base, Deletes

(* What a team's makers left is what it stands with still. *)
LEMMA SettledStands ==
  ASSUME NEW id, NEW old, NEW new, Settled(id, old), Content(new) = Content(old),
         Makers(id)' = Makers(id), \A d \in Makers(id) : Base(d)' = Base(d),
         \A row \in past'[id] : row \in past[id] \/ row = new
  PROVE  Settled(id, new)'
<1>1. /\ \A row : Content(row)' = Content(row)
      /\ Content(new)' = Content(old)
  BY DEF Content
<1>2. CASE Makers(id) = {} /\ \A row \in past[id] : Content(row) = Content(old)
  <2>1. \A row \in past'[id] : Content(row)' = Content(new)'
    BY <1>1, <1>2
  <2> QED BY <1>2, <2>1 DEF Settled
<1>3. CASE \E d \in Makers(id) :
             \A row \in past[id] : row.stamp >= Base(d) => Content(row) = Content(old)
  <2>1. PICK d \in Makers(id) :
             \A row \in past[id] : row.stamp >= Base(d) => Content(row) = Content(old)
    BY <1>3
  <2>2. \A row \in past'[id] : row.stamp >= Base(d)' => Content(row)' = Content(new)'
    BY <1>1, <2>1
  <2>3. d \in Makers(id)'
    BY <2>1
  <2> QED BY <2>2, <2>3 DEF Settled
<1> QED BY <1>2, <1>3 DEF Settled

(* A team that is not written, and whose changers are the same. *)
LEMMA ChangeStands ==
  ASSUME ApiInv, NEW c \in Callers, \A d \in Callers \ {c} : Same(d), NEW id \in TeamIds,
         Alters(c, id)' <=> Alters(c, id),
         Alters(c, id) => Base(c)' = Base(c) /\ req'[c] = req[c] /\ was'[c] = was[c],
         rows'[id] = rows[id] \/ (rows[id] # NoRow /\ rows'[id] # NoRow
                                  /\ Content(rows'[id]) = Content(rows[id])),
         past'[id] \subseteq past[id] \cup ({rows'[id]} \ {NoRow})
  PROVE  LastChange(id)'
<1>1. Changers(id)' = Changers(id)
  BY SameAlters, ChangersAlter, ChangersAlterNext
<1>2. \A d \in Changers(id) : Base(d)' = Base(d) /\ req'[d] = req[d]
  BY SameAlters, ChangersAlter
<1>3. Makers(id)' = Makers(id) /\ \A d \in Makers(id) : Base(d)' = Base(d)
  BY <1>1, <1>2 DEF Makers
<1>4. LastChange(id) /\ PastLeadsHere(id) /\ \A d \in Callers : HoldsTruth(d)
  BY DEF ApiInv
<1>5. rows'[id] = NoRow /\ Changers(id)' # {} => \E d \in Changers(id)' : req'[d].op = "delete"
  BY <1>1, <1>2, <1>4 DEF LastChange
<1>6. \A d \in Callers :
        Deletes(d)' /\ req'[d].id = id => Deletes(d) /\ req[d].id = id /\ was'[d] = was[d]
  <2>1. \A d \in Callers \ {c} :
          Deletes(d)' /\ req'[d].id = id => Deletes(d) /\ req[d].id = id /\ was'[d] = was[d]
    BY SameAlters DEF Same
  <2>2. ASSUME Deletes(c)', req'[c].id = id
        PROVE  Deletes(c) /\ req[c].id = id /\ was'[c] = was[c]
    <3>1. Alters(c, id)'
      BY <2>2 DEF Deletes, Alters
    <3>2. Alters(c, id) /\ req'[c] = req[c] /\ was'[c] = was[c]
      BY <3>1
    <3>3. req[c].op = "delete"
      BY <2>2, <3>2 DEF Deletes
    <3> QED BY <3>2, <3>3 DEF Alters, Deletes, Inserting, Changing
  <2> QED BY <2>1, <2>2
<1>7. \A d \in Callers : Deletes(d) /\ req[d].id = id => rows[id] = NoRow
  BY <1>4 DEF HoldsTruth, Deletes
<1>8. ASSUME NEW last \in Row, Stood(id, last)' PROVE Settled(id, last)'
  <2>1. last # NoRow
    BY NoRowAssumption
  <2>2. CASE rows'[id] = rows[id]
    <3>1. Stood(id, last)
      BY <1>6, <1>8, <2>2 DEF Stood
    <3>2. Settled(id, last)
      BY <1>4, <3>1 DEF LastChange
    <3>3. past'[id] \subseteq past[id]
      BY <1>4, <2>2 DEF PastLeadsHere
    <3> QED BY <1>3, <3>2, <3>3, SettledStands
  <2>3. CASE /\ rows[id] # NoRow /\ rows'[id] # NoRow
             /\ Content(rows'[id]) = Content(rows[id])
    <3>1. rows'[id] = last
      BY <1>6, <1>7, <1>8, <2>3 DEF Stood
    <3>2. PICK old \in Row : old = rows[id]
      BY <1>4, <2>3 DEF PastLeadsHere
    <3>3. Settled(id, old)
      BY <1>4, <3>2 DEF LastChange, Stood
    <3>4. Content(last) = Content(old)
      BY <2>3, <3>1, <3>2 DEF Content
    <3>5. \A row \in past'[id] : row \in past[id] \/ row = last
      BY <3>1
    <3> QED BY <1>3, <3>3, <3>4, <3>5, SettledStands
  <2> QED BY <2>2, <2>3
<1> QED BY <1>5, <1>8 DEF LastChange

(* A change once made stays made. *)
LEMMA MakersStay ==
  ASSUME NEW c \in Callers, \A d \in Callers \ {c} : Same(d), NEW id \in TeamIds,
         Alters(c, id) => Alters(c, id)' /\ req'[c] = req[c], Makers(id) # {}
  PROVE  Makers(id)' # {}
<1>1. PICK d \in Callers : Alters(d, id) /\ req[d].op # "delete"
  BY ChangersAlter DEF Makers
<1>2. Alters(d, id)' /\ req'[d] = req[d]
  BY <1>1, SameAlters
<1> QED BY <1>1, <1>2, ChangersAlterNext DEF Makers

LEMMA UnwrittenPast ==
  ASSUME ApiInv, NEW id \in TeamIds, rows'[id] = rows[id], past'[id] = past[id],
         minted \subseteq minted'
  PROVE  PastLeadsHere(id)'
BY DEF ApiInv, PastLeadsHere

(* A step that writes no row. *)
LEMMA QuietKeeps ==
  ASSUME ApiInv, ApiTypeOK', NEW c \in Callers, \A d \in Callers \ {c} : Same(d),
         UNCHANGED <<rows, seal, was, past>>, minted \subseteq minted',
         NoticeFits(c)', HoldsTruth(c)', Unread(c)',
         Calling(c)' /\ req'[c].op = "create" =>
           req'[c] = req[c] \/ req'[c].id \notin minted,
         \A id \in TeamIds :
           /\ Alters(c, id)' <=> Alters(c, id)
           /\ Alters(c, id) => Base(c)' = Base(c) /\ req'[c] = req[c]
  PROVE  ApiInv'
<1>1. Onward
  BY MakersStay DEF Onward
<1>2. \A d \in Callers : NoticeFits(d)' /\ HoldsTruth(d)' /\ Unread(d)'
  BY <1>1, OthersKeep
<1>3. \A id \in TeamIds : PastLeadsHere(id)' /\ LastChange(id)'
  BY ChangeStands, UnwrittenPast
<1>4. LivesOnce'
  <2>1. \A d \in Callers : Creates(d) => req[d].id \in minted
    BY DEF ApiInv, HoldsTruth, Creates
  <2>2. \A d \in Callers \ {c} :
          (Creates(d)' <=> Creates(d)) /\ (Deletes(d)' <=> Deletes(d)) /\ req'[d] = req[d]
    BY DEF Creates, Deletes, Same, Calling
  <2>3. Creates(c)' => (Creates(c) /\ req'[c] = req[c]) \/ req'[c].id \notin minted
    BY DEF Creates, Calling
  <2>4. Deletes(c)' => Deletes(c) /\ req'[c] = req[c]
    <3> SUFFICES ASSUME Deletes(c)'
                 PROVE  Deletes(c) /\ req'[c] = req[c]
      OBVIOUS
    <3>1. req'[c] \in Calls /\ req'[c].op = "delete" /\ ret'[c].kind = "deleted" /\ Calling(c)'
      BY DEF ApiTypeOK, Deletes, Calling
    <3>2. PICK id \in TeamIds : id = req'[c].id
      BY <3>1, CallFields
    <3>3. Alters(c, id)'
      BY <3>1, <3>2 DEF Alters
    <3>4. Alters(c, id) /\ req'[c] = req[c]
      BY <3>3
    <3> QED BY <3>1, <3>4 DEF Deletes, Alters, Inserting, Changing
  <2> QED BY <2>1, <2>2, <2>3, <2>4 DEF LivesOnce, ApiInv
<1> QED BY <1>2, <1>3, <1>4 DEF ApiInv

-----------------------------------------------------------------------------
(* The steps that write no row.  What such a step does to its own request. *)
LEMMA OneMoves ==
  ASSUME ApiTypeOK, NEW c \in Callers, NEW d \in Callers \ {c}
  PROVE  /\ \A place : GoTo(c, place) => pc'[d] = pc[d]
         /\ \A code : Finish(c, code) => pc'[d] = pc[d] /\ notice'[d] = notice[d]
         /\ \A place : Await(c, place) => pc'[d] = pc[d] /\ notice'[d] = notice[d]
         /\ Announce(c) => pc'[d] = pc[d] /\ notice'[d] = notice[d]
         /\ \A announces : Conclude(c, announces) => pc'[d] = pc[d] /\ notice'[d] = notice[d]
         /\ \A request : Takes(c, request) => req'[d] = req[d]
         /\ \A answer : Reply(c, answer) => ret'[d] = ret[d]
<1>1. \A place : GoTo(c, place) => pc'[d] = pc[d]
  BY DEF GoTo, ApiTypeOK
<1>2. \A code : Finish(c, code) => pc'[d] = pc[d] /\ notice'[d] = notice[d]
  BY <1>1 DEF Finish
<1>3. \A place : Await(c, place) => pc'[d] = pc[d] /\ notice'[d] = notice[d]
  BY <1>1 DEF Await
<1>4. Announce(c) => pc'[d] = pc[d] /\ notice'[d] = notice[d]
  BY <1>1 DEF Announce, ApiTypeOK
<1>5. \A announces : Conclude(c, announces) => pc'[d] = pc[d] /\ notice'[d] = notice[d]
  BY <1>2, <1>4 DEF Conclude
<1>6. \A request : Takes(c, request) => req'[d] = req[d]
  BY DEF Takes, ApiTypeOK
<1>7. \A answer : Reply(c, answer) => ret'[d] = ret[d]
  BY DEF Reply, ApiTypeOK, TableTypeOK
<1> QED BY <1>1, <1>2, <1>3, <1>4, <1>5, <1>6, <1>7

LEMMA QuietActions ==
  ASSUME ApiInv, NEW c \in Callers, CreateBlank(c) \/ CreateConfirm(c) \/ GetTeam(c)
           \/ ListTeams(c) \/ PreRead(c) \/ EmitEvent(c) \/ Drop(c)
  PROVE  /\ UNCHANGED <<rows, seal, minted, was, past>>
         /\ \A d \in Callers \ {c} : Same(d)
<1>0. ApiTypeOK
  BY DEF ApiInv
<1>1. UNCHANGED <<rows, seal, minted, was, past>>
  BY DEF CreateBlank, CreateConfirm, GetTeam, ListTeams, PreRead, EmitEvent, Drop, Get, List, Confirm
<1>2. ASSUME NEW d \in Callers \ {c} PROVE Same(d)
  <2>1. CASE CreateBlank(c)
    BY <1>0, <2>1, OneMoves DEF Same, CreateBlank
  <2>2. CASE CreateConfirm(c)
    BY <1>0, <2>2, OneMoves DEF Same, CreateConfirm, Confirm
  <2>3. CASE GetTeam(c)
    BY <1>0, <2>3, OneMoves DEF Same, GetTeam, Get, ReplyRead
  <2>4. CASE ListTeams(c)
    BY <1>0, <2>4, OneMoves DEF Same, ListTeams, List
  <2>5. CASE PreRead(c)
    BY <1>0, <2>5, OneMoves DEF Same, PreRead, Get, ReplyRead, ApiTypeOK
  <2>6. CASE EmitEvent(c) \/ Drop(c)
    BY <1>0, <2>6, OneMoves DEF Same, EmitEvent, Drop, ApiTypeOK
  <2> QED BY <2>1, <2>2, <2>3, <2>4, <2>5, <2>6
<1> QED BY <1>1, <1>2 DEF Same

LEMMA BlankKeeps ==
  ASSUME ApiInv, NEW c \in Callers, CreateBlank(c)
  PROVE  ApiInv'
<1>1. /\ UNCHANGED <<rows, seal, minted, was, past>> /\ \A d \in Callers \ {c} : Same(d)
  BY QuietActions
<1>2. /\ pc[c] = "new" /\ pc' = [pc EXCEPT ![c] = "done"] /\ status' = [status EXCEPT ![c] = 400]
      /\ UNCHANGED <<ret, req, seen, notice>>
  BY DEF CreateBlank, Finish, GoTo, At
<1>3. ApiTypeOK'
  BY <1>1, <1>2 DEF ApiInv, ApiTypeOK, TableTypeOK, Places
<1>4. pc'[c] = "done" /\ ~Calling(c) /\ ~Calling(c)' /\ notice[c] = "none"
  BY <1>2 DEF ApiInv, ApiTypeOK, NoticeFits, Calling
<1>5. NoticeFits(c)' /\ HoldsTruth(c)' /\ Unread(c)'
  BY <1>2, <1>4 DEF NoticeFits, HoldsTruth, Unread
<1> QED BY <1>1, <1>3, <1>4, <1>5, QuietKeeps DEF Alters

(* The end of a handler: its place, status and notice. *)
LEMMA Concluding ==
  ASSUME ApiTypeOK, NEW c \in Callers,
         (\E code \in {200, 404, 500} : Finish(c, code)) \/ Announce(c)
  PROVE  /\ pc' \in [Callers -> Places] /\ status' \in [Callers -> {0, 200, 201, 400, 404, 500}]
         /\ notice' \in [Callers -> {"none", "due", "sent", "lost"}]
         /\ \/ pc'[c] = "done" /\ notice'[c] = notice[c]
            \/ Announce(c) /\ pc'[c] = "emit" /\ notice'[c] = "due"
         /\ \A d \in Callers \ {c} : pc'[d] = pc[d] /\ notice'[d] = notice[d]
BY DEF Finish, Announce, GoTo, ApiTypeOK, Places

LEMMA ConfirmKeeps ==
  ASSUME ApiInv, NEW c \in Callers, CreateConfirm(c)
  PROVE  ApiInv'
<1> DEFINE id == req[c].id
           answer == Confirmed(req[c].id, rows[req[c].id], seal)
<1>1. /\ UNCHANGED <<rows, seal, minted, was, past, req, seen>> /\ \A d \in Callers \ {c} : Same(d)
  BY QuietActions DEF CreateConfirm
<1>2. /\ pc[c] = "confirm" /\ ret[c].kind = "inserted" /\ Reply(c, answer)
      /\ IF ret'[c].kind = "team" THEN Announce(c) ELSE Finish(c, 500)
  BY DEF CreateConfirm, At, Confirm
<1>3. /\ req[c] \in Calls /\ Calling(c) /\ req[c].op = "create" /\ notice[c] = "none"
      /\ id \in TeamIds /\ id \in minted
  <2>1. NoticeFits(c) /\ HoldsTruth(c) /\ req[c] \in Calls \cup {NoCall}
    BY DEF ApiInv, ApiTypeOK
  <2>2. Calling(c) /\ req[c] \in Calls /\ req[c].op = "create"
    BY <1>2, <2>1 DEF NoticeFits, HoldsTruth, Calling
  <2> QED BY <1>2, <2>1, <2>2, CallFields DEF NoticeFits, HoldsTruth
<1>4. /\ answer \in Answer /\ answer.kind \in {"team", "missing", "unreadable", "vanished"}
      /\ answer.kind = "team" => answer.row = rows[id] /\ rows[id] # NoRow
  <2>1. rows[id] \in Row \cup {NoRow} /\ seal \in SealStates
    BY <1>3 DEF ApiInv, ApiTypeOK, TableTypeOK
  <2>2. CASE rows[id] = NoRow
    BY <1>3, <2>2, SaysAnswer DEF Confirmed, AnswerKinds
  <2>3. CASE rows[id] # NoRow
    BY <1>3, <2>1, <2>3, ReadAnswer DEF Confirmed, ReadKinds
  <2> QED BY <2>2, <2>3
<1> HIDE DEF answer
<1>5. ret' \in [Callers -> Answer] /\ ret'[c] = answer
  BY <1>2, <1>4, Replying DEF ApiInv, ApiTypeOK
<1>6. /\ ApiTypeOK' /\ (pc'[c] = "emit" \/ pc'[c] = "done")
      /\ notice'[c] = IF pc'[c] = "emit" THEN "due" ELSE "none"
      /\ pc'[c] = "emit" <=> answer.kind = "team"
  <2>1. ApiTypeOK /\ TableTypeOK
    BY DEF ApiInv, ApiTypeOK
  <2>2. /\ pc' \in [Callers -> Places] /\ status' \in [Callers -> {0, 200, 201, 400, 404, 500}]
        /\ notice' \in [Callers -> {"none", "due", "sent", "lost"}]
    BY <1>2, <2>1, Concluding
  <2>3. ApiTypeOK'
    BY <1>1, <1>5, <2>1, <2>2 DEF ApiTypeOK, TableTypeOK
  <2>4. IF ret'[c].kind = "team" THEN pc'[c] = "emit" /\ notice'[c] = "due"
                                ELSE pc'[c] = "done" /\ notice'[c] = notice[c]
    BY <1>2, <2>1 DEF Announce, Finish, GoTo, ApiTypeOK
  <2> QED BY <1>3, <1>5, <2>3, <2>4
<1>7. rows[id] # NoRow => rows[id] \in past[id]
  BY <1>3 DEF ApiInv, PastLeadsHere
<1>8. NoticeFits(c)' /\ Unread(c)'
  BY <1>1, <1>3, <1>6 DEF NoticeFits, Unread, Calling
<1>9. HoldsTruth(c)'
  BY <1>1, <1>3, <1>4, <1>5, <1>6, <1>7 DEF HoldsTruth, Calling
<1>10. \A j \in TeamIds : /\ Alters(c, j)' <=> Alters(c, j)
                          /\ Base(c)' = Base(c) /\ req'[c] = req[c]
  BY <1>1, <1>2, <1>3, <1>4, <1>5 DEF Alters, Inserting, Base, Changing, Calling
<1> QED BY <1>1, <1>6, <1>8, <1>9, <1>10, QuietKeeps

(* The reads: get_team, list_teams and what a handler reads before its call. *)
LEMMA GetKeeps ==
  ASSUME ApiInv, NEW c \in Callers, GetTeam(c) \/ PreRead(c)
  PROVE  ApiInv'
<1>1. /\ UNCHANGED <<rows, seal, minted, was, past>> /\ \A d \in Callers \ {c} : Same(d)
  BY QuietActions
<1>2. PICK request \in Calls :
        /\ request.op \in {"get", "delete", "add", "remove"} /\ Takes(c, request)
        /\ Get(c, request.id)
        /\ IF request.op = "get" THEN Conclude(c, FALSE) /\ UNCHANGED seen
           ELSE Await(c, "call") /\ seen' = [seen EXCEPT ![c] = ret'[c].row]
  <2>1. CASE GetTeam(c)
    <3>1. PICK id \in TeamIds :
            /\ Takes(c, [op |-> "get", id |-> id]) /\ Get(c, id) /\ Conclude(c, FALSE)
            /\ UNCHANGED seen
      BY <2>1 DEF GetTeam
    <3> DEFINE request == [op |-> "get", id |-> id]
    <3>2. request \in Calls /\ request.op = "get" /\ request.id = id
      BY DEF Calls
    <3> HIDE DEF request
    <3>3. Takes(c, request)
      BY <3>1 DEF request
    <3> QED BY <3>1, <3>2, <3>3
  <2>2. CASE PreRead(c)
    BY <2>2 DEF PreRead
  <2> QED BY <2>1, <2>2
<1> DEFINE id == request.id
<1>3. /\ pc[c] = "new" /\ req' = [req EXCEPT ![c] = request] /\ id \in TeamIds /\ request # NoCall
      /\ NoticeFits(c) /\ ApiTypeOK /\ TableTypeOK
  BY <1>2, CallFields DEF Takes, At, ApiInv, ApiTypeOK
<1>4. ~Calling(c) /\ notice[c] = "none" /\ was[c] = NoRow
  BY <1>3 DEF NoticeFits, Calling
<1>5. /\ ret' \in [Callers -> Answer] /\ ret'[c].kind \in ReadKinds
      /\ ret'[c].kind = "team" => ret'[c].row = rows[id] /\ rows[id] # NoRow
      /\ ret'[c].kind # "team" =>
           ret'[c].row = NoRow /\ (rows'[id] = NoRow \/ ~Opens(rows'[id], seal))
  <2>1. rows'[id] \in Row \cup {NoRow} /\ UNCHANGED seal /\ ReplyRead(c, id)
    BY <1>1, <1>2, <1>3 DEF TableTypeOK, Get
  <2> QED BY <1>1, <1>3, <2>1, ReadingAnswers DEF Answers
<1>6. /\ pc' \in [Callers -> Places] /\ status' \in [Callers -> {0, 200, 201, 400, 404, 500}]
      /\ UNCHANGED notice /\ pc'[c] = IF request.op = "get" THEN "done" ELSE "call"
  BY <1>2, <1>3 DEF Conclude, FailCode, Finish, Await, GoTo, ApiTypeOK, Places
<1>7. /\ seen' \in [Callers -> Row \cup {NoRow}]
      /\ request.op # "get" => seen'[c] = ret'[c].row
  <2>1. ret'[c].row \in Row \cup {NoRow}
    BY <1>5 DEF Answer
  <2>2. seen' = IF request.op = "get" THEN seen ELSE [seen EXCEPT ![c] = ret'[c].row]
    BY <1>2
  <2>3. seen \in [Callers -> Row \cup {NoRow}]
    BY <1>3 DEF ApiTypeOK
  <2> QED BY <2>1, <2>2, <2>3
<1>8. req' \in [Callers -> Calls \cup {NoCall}] /\ req'[c] = request /\ Calling(c)'
  BY <1>3 DEF ApiTypeOK, Calling
<1>9. ApiTypeOK'
  BY <1>1, <1>3, <1>5, <1>6, <1>7, <1>8 DEF ApiTypeOK, TableTypeOK
<1>10. rows[id] # NoRow => rows[id] \in past[id]
  BY <1>3 DEF ApiInv, PastLeadsHere
<1>11. NoticeFits(c)' /\ Unread(c)'
  <2>1. NoticeFits(c)'
    BY <1>2, <1>4, <1>6, <1>8 DEF NoticeFits
  <2>2. ~Deletes(c)'
    BY <1>5 DEF Deletes, ReadKinds
  <2>3. ASSUME req'[c].op = "delete", seen'[c] = NoRow, rows'[id] # NoRow
        PROVE  ~Opens(rows'[id], seal')
    <3>1. ret'[c].row = NoRow
      BY <1>7, <1>8, <2>3
    <3> QED BY <1>1, <1>5, <2>3, <3>1
  <2> QED BY <1>8, <2>1, <2>2, <2>3 DEF Unread, Opens
<1>12. HoldsTruth(c)'
  BY <1>1, <1>2, <1>4, <1>5, <1>6, <1>7, <1>8, <1>10 DEF HoldsTruth, ReadKinds
<1>13. \A j \in TeamIds : ~Alters(c, j) /\ ~Alters(c, j)'
  BY <1>1, <1>2, <1>4, <1>5, <1>8 DEF Alters, Inserting, Changing, ReadKinds
<1> QED BY <1>1, <1>2, <1>8, <1>9, <1>11, <1>12, <1>13, QuietKeeps

LEMMA ListKeeps ==
  ASSUME ApiInv, NEW c \in Callers, ListTeams(c)
  PROVE  ApiInv'
<1> DEFINE shown == {id \in TeamIds : Listable(rows[id], seal)}
<1>1. /\ UNCHANGED <<rows, seal, minted, was, past, seen>> /\ \A d \in Callers \ {c} : Same(d)
  BY QuietActions DEF ListTeams
<1>2. /\ pc[c] = "new" /\ req' = [req EXCEPT ![c] = [op |-> "list"]]
      /\ pc' = [pc EXCEPT ![c] = "done"] /\ status' = [status EXCEPT ![c] = 200]
      /\ UNCHANGED notice /\ Reply(c, Listing(shown))
  BY DEF ListTeams, Takes, At, Finish, GoTo, List
<1>3. ApiTypeOK /\ TableTypeOK /\ NoticeFits(c)
  BY DEF ApiInv, ApiTypeOK
<1>4. [op |-> "list"] \in Calls /\ Listing(shown) \in Answer
  BY DEF Calls, Listing, Answer, AnswerKinds
<1>5. ret' \in [Callers -> Answer]
  BY <1>2, <1>3, <1>4, Replying
<1>6. ApiTypeOK' /\ req'[c] = [op |-> "list"]
  BY <1>1, <1>2, <1>3, <1>4, <1>5 DEF ApiTypeOK, TableTypeOK, Places
<1>7. pc'[c] = "done" /\ notice'[c] = "none" /\ ~Calling(c)
  BY <1>2, <1>3 DEF NoticeFits, ApiTypeOK, Calling
<1>8. NoticeFits(c)' /\ HoldsTruth(c)' /\ Unread(c)'
  BY <1>6, <1>7 DEF NoticeFits, HoldsTruth, Unread
<1> QED BY <1>1, <1>6, <1>7, <1>8, QuietKeeps DEF Alters

(* The event goes out, or the client goes away. *)
LEMMA EmitKeeps ==
  ASSUME ApiInv, NEW c \in Callers, EmitEvent(c) \/ Drop(c)
  PROVE  ApiInv'
<1>1. /\ UNCHANGED <<rows, seal, minted, was, past, req, seen, ret>>
      /\ \A d \in Callers \ {c} : Same(d)
  BY QuietActions DEF EmitEvent, Drop
<1>2. ApiTypeOK /\ NoticeFits(c) /\ HoldsTruth(c) /\ Unread(c)
  BY DEF ApiInv
<1>3. /\ pc' \in [Callers -> Places] /\ status' \in [Callers -> {0, 200, 201, 400, 404, 500}]
      /\ notice' \in [Callers -> {"none", "due", "sent", "lost"}]
  BY <1>2 DEF EmitEvent, Drop, GoTo, ApiTypeOK, Places
<1>4. /\ \/ pc[c] = "emit" /\ pc'[c] = "done" /\ notice'[c] \in {"sent", "lost"}
         \/ /\ pc[c] \in {"confirm", "call", "emit"} /\ pc'[c] = "dropped"
            /\ notice'[c] = IF notice[c] = "due" THEN "lost" ELSE notice[c]
  BY <1>2 DEF EmitEvent, Drop, GoTo, ApiTypeOK, At
<1>5. ApiTypeOK'
  BY <1>1, <1>2, <1>3 DEF ApiTypeOK, TableTypeOK
<1>6. NoticeFits(c)' /\ HoldsTruth(c)'
  BY <1>1, <1>2, <1>4 DEF NoticeFits, HoldsTruth, Calling
<1>7. Unread(c)'
  <2>1. \A id : Makers(id)' = Makers(id)
    BY <1>1 DEF Makers, Changers, Inserting
  <2> QED BY <1>1, <1>2, <1>4, <2>1 DEF Unread, Deletes, Calling
<1>8. \A j \in TeamIds : Alters(c, j)' <=> Alters(c, j)
  BY <1>1 DEF Alters, Inserting, Calling
<1>9. Base(c)' = Base(c)
  BY <1>1 DEF Base
<1> QED BY <1>1, <1>5, <1>6, <1>7, <1>8, <1>9, QuietKeeps

-----------------------------------------------------------------------------
(* The steps that write a row, or find that they cannot. *)
LEMMA Recording ==
  ASSUME ApiTypeOK, NEW c \in Callers, NEW id \in TeamIds, rows'[id] \in Row \cup {NoRow},
         Record(c, id)
  PROVE  /\ was' \in [Callers -> Row \cup {NoRow}] /\ past' \in [TeamIds -> SUBSET Row]
         /\ was'[c] = rows[id] /\ \A d \in Callers \ {c} : was'[d] = was[d]
         /\ past'[id] = past[id] \cup ({rows'[id]} \ {NoRow})
         /\ \A j \in TeamIds \ {id} : past'[j] = past[j]
<1>1. rows[id] \in Row \cup {NoRow} /\ {rows'[id]} \ {NoRow} \subseteq Row
  BY DEF ApiTypeOK, TableTypeOK
<1>2. /\ was \in [Callers -> Row \cup {NoRow}] /\ past \in [TeamIds -> SUBSET Row]
      /\ was' = [was EXCEPT ![c] = rows[id]]
      /\ past' = [past EXCEPT ![id] = past[id] \cup ({rows'[id]} \ {NoRow})]
  BY DEF ApiTypeOK, Record
<1> QED BY <1>1, <1>2

(* Before its call has run a request has altered nothing. *)
LEMMA NotYet ==
  ASSUME ApiInv, NEW c \in Callers, pc[c] \in {"new", "call"}
  PROVE  /\ \A id : ~Alters(c, id)
         /\ notice[c] = "none" /\ was[c] = NoRow
         /\ pc[c] = "new" => ~Calling(c)
         /\ pc[c] = "call" => Calling(c) /\ req[c] \in Calls /\ req[c].op \in {"delete", "add", "remove"}
<1>1. NoticeFits(c) /\ HoldsTruth(c) /\ req[c] \in Calls \cup {NoCall}
  BY DEF ApiInv, ApiTypeOK
<1>2. /\ notice[c] = "none" /\ (pc[c] = "new" => ~Calling(c) /\ was[c] = NoRow)
      /\ pc[c] = "call" => /\ Calling(c) /\ req[c] \in Calls /\ req[c].op \in {"delete", "add", "remove"}
                           /\ was[c] = NoRow /\ ret[c].kind \in {"team", "missing", "unreadable"}
  BY <1>1 DEF NoticeFits, HoldsTruth, Calling
<1> QED BY <1>2 DEF Alters, Inserting

(* What the steps that may write share. *)
Writes(c, id) ==
  /\ \A d \in Callers \ {c} : Same(d)
  /\ pc[c] \in {"new", "call"} /\ Calling(c)' /\ req'[c].id = id /\ req'[c].op # "list"
  /\ was'[c] = rows[id] /\ UNCHANGED seal
  /\ \A j \in TeamIds \ {id} : rows'[j] = rows[j] /\ past'[j] = past[j]
  /\ past'[id] = past[id] \cup ({rows'[id]} \ {NoRow})
  /\ minted \subseteq minted'

LEMMA WriteKeeps ==
  ASSUME ApiInv, ApiTypeOK', NEW c \in Callers, NEW id \in TeamIds, Writes(c, id),
         req'[c].op = "create" => id \notin minted,
         ret'[c].kind = "deleted" => rows[id] # NoRow,
         id \in minted /\ rows[id] = NoRow => rows'[id] = NoRow,
         rows'[id] # rows[id] /\ rows'[id] # NoRow =>
           Makers(id)' # {} \/ (rows[id] # NoRow /\ Opens(rows[id], seal)),
         NoticeFits(c)', HoldsTruth(c)', Unread(c)', PastLeadsHere(id)', LastChange(id)'
  PROVE  ApiInv'
<1>1. Onward
  <2>1. \A j \in TeamIds : Makers(j) # {} => Makers(j)' # {}
    BY NotYet, MakersStay DEF Writes
  <2> QED BY <2>1 DEF Onward, Writes
<1>2. \A d \in Callers : NoticeFits(d)' /\ HoldsTruth(d)' /\ Unread(d)'
  BY <1>1, OthersKeep DEF Writes
<1>3. ASSUME NEW j \in TeamIds \ {id} PROVE PastLeadsHere(j)' /\ LastChange(j)'
  <2>1. ~Alters(c, j) /\ ~Alters(c, j)'
    BY NotYet DEF Writes, Alters
  <2> QED BY <2>1, ChangeStands, UnwrittenPast DEF Writes
<1>4. LivesOnce'
  <2>1. \A d \in Callers : /\ Creates(d) => req[d].id \in minted
                           /\ Deletes(d) => rows[req[d].id] = NoRow
    BY DEF ApiInv, HoldsTruth, Creates, Deletes
  <2>2. \A d \in Callers \ {c} :
          (Creates(d)' <=> Creates(d)) /\ (Deletes(d)' <=> Deletes(d)) /\ req'[d] = req[d]
    BY DEF Creates, Deletes, Same, Calling, Writes
  <2>3. (Creates(c)' => id \notin minted) /\ (Deletes(c)' => rows[id] # NoRow) /\ req'[c].id = id
    BY DEF Creates, Deletes, Writes
  <2> QED BY <2>1, <2>2, <2>3 DEF LivesOnce, ApiInv
<1> QED BY <1>2, <1>3, <1>4 DEF ApiInv

LEMMA KeptLeads ==
  ASSUME ApiInv, NEW c \in Callers, NEW id \in TeamIds, Writes(c, id), rows'[id] = rows[id],
         req'[c].op # "create" \/ ret'[c].kind = "refused",
         ret'[c].kind # "deleted",
         ret'[c].kind = "team" => ret'[c].row = rows[id],
         req'[c].op = "create" \/ minted' = minted
  PROVE  PastLeadsHere(id)' /\ LastChange(id)'
<1>1. PastLeadsHere(id)
  BY DEF ApiInv
<1>2. past'[id] = past[id]
  BY <1>1 DEF PastLeadsHere, Writes
<1>3. ~Alters(c, id) /\ ~Alters(c, id)'
  BY NotYet DEF Writes, Alters, Inserting
<1> QED BY <1>2, <1>3, UnwrittenPast, ChangeStands DEF Writes

(* Another request's delete of the team was there before. *)
LEMMA StandsUndeleted ==
  ASSUME ApiInv, NEW c \in Callers, NEW id \in TeamIds, Writes(c, id)
  PROVE  \A d \in Callers \ {c} :
           Deletes(d)' /\ req'[d].id = id => rows[id] = NoRow /\ id \in minted
<1> SUFFICES ASSUME NEW d \in Callers \ {c}, Deletes(d)', req'[d].id = id
             PROVE  rows[id] = NoRow /\ id \in minted
  OBVIOUS
<1>1. Same(d) /\ HoldsTruth(d)
  BY DEF Writes, ApiInv
<1>2. Deletes(d) /\ req[d].id = id
  BY <1>1, SameAlters DEF Same
<1> QED BY <1>1, <1>2 DEF HoldsTruth, Deletes

LEMMA RewrittenLeads ==
  ASSUME ApiInv, NEW c \in Callers, NEW id \in TeamIds, Writes(c, id), Rewritten(c, id),
         req'[c].op \in Changing
  PROVE  PastLeadsHere(id)' /\ LastChange(id)'
<1>1. /\ PastLeadsHere(id) /\ rows[id] \in Row /\ rows'[id] \in Row /\ NoRow \notin Row
      /\ rows'[id].stamp = rows[id].stamp + 1 /\ ret'[c].kind = "team" /\ ret'[c].row = rows'[id]
      /\ \A row \in Row : row.stamp \in Nat
  BY NoRowAssumption DEF ApiInv, Rewritten, Answers, Row
<1>2. /\ past'[id] = past[id] \cup {rows'[id]} /\ past[id] \subseteq Row
      /\ \A row \in past[id] : row.stamp <= rows[id].stamp
      /\ id \in minted
  BY <1>1 DEF PastLeadsHere, Writes
<1>3. PastLeadsHere(id)'
  BY <1>1, <1>2 DEF PastLeadsHere, Writes
<1>4. Alters(c, id)' <=> Content(rows[id]) # Content(rows'[id])
  <2>1. Alters(c, id)' <=> Content(was'[c]) # Content(ret'[c].row)
    BY <1>1 DEF Alters, Inserting, Writes, Changing, Content
  <2> QED BY <1>1, <2>1 DEF Writes
<1>5. CASE Content(rows'[id]) = Content(rows[id])
  <2>1. ~Alters(c, id) /\ ~Alters(c, id)'
    BY <1>4, <1>5, NotYet DEF Writes
  <2> QED BY <1>1, <1>2, <1>3, <1>5, <2>1, ChangeStands DEF Writes
<1>6. CASE Content(rows'[id]) # Content(rows[id])
  <2>1. Base(c)' = rows'[id].stamp /\ req'[c].op # "delete"
    BY <1>1 DEF Base, Changing
  <2>2. c \in Makers(id)'
    BY <1>4, <1>6, <2>1, ChangersAlterNext DEF Makers
  <2>3. \A row \in past'[id] : row.stamp >= rows'[id].stamp => row = rows'[id]
    BY <1>1, <1>2
  <2>4. ASSUME NEW last \in Row, Stood(id, last)' PROVE Settled(id, last)'
    <3>1. last = rows'[id]
      BY <1>1, <2>1, <2>4, StandsUndeleted DEF Stood, Writes, Changing, Deletes
    <3>2. \A row \in past'[id] : row.stamp >= Base(c)' => Content(row)' = Content(last)'
      BY <2>1, <2>3, <3>1
    <3> QED BY <2>2, <3>2 DEF Settled
  <2>5. rows'[id] # NoRow
    BY <1>1
  <2> QED BY <1>3, <2>4, <2>5 DEF LastChange
<1> QED BY <1>5, <1>6

LEMMA Ending ==
  ASSUME ApiTypeOK, NEW c \in Callers, NEW announces \in BOOLEAN, Conclude(c, announces)
  PROVE  /\ pc' \in [Callers -> Places] /\ status' \in [Callers -> {0, 200, 201, 400, 404, 500}]
         /\ notice' \in [Callers -> {"none", "due", "sent", "lost"}]
         /\ IF ret'[c].kind \in {"team", "deleted"} /\ announces
            THEN pc'[c] = "emit" /\ notice'[c] = "due"
            ELSE pc'[c] = "done" /\ notice'[c] = notice[c]
<1>1. Announce(c) \/ \E code \in {200, 404, 500} : Finish(c, code)
  BY DEF Conclude, FailCode
<1>2. IF ret'[c].kind \in {"team", "deleted"} /\ announces
      THEN pc'[c] = "emit" /\ notice'[c] = "due"
      ELSE pc'[c] = "done" /\ notice'[c] = notice[c]
  <2>1. Announce(c) => pc'[c] = "emit" /\ notice'[c] = "due"
    BY DEF Announce, GoTo, ApiTypeOK
  <2>2. \A code : Finish(c, code) => pc'[c] = "done" /\ notice'[c] = notice[c]
    BY DEF Finish, GoTo, ApiTypeOK
  <2> QED BY <2>1, <2>2 DEF Conclude
<1> QED BY <1>1, <1>2, Concluding

LEMMA AnnouncedEnding ==
  ASSUME ApiTypeOK, NEW c \in Callers, Conclude(c, TRUE)
  PROVE  /\ pc' \in [Callers -> Places] /\ status' \in [Callers -> {0, 200, 201, 400, 404, 500}]
         /\ notice' \in [Callers -> {"none", "due", "sent", "lost"}]
         /\ IF ret'[c].kind \in {"team", "deleted"} THEN pc'[c] = "emit" /\ notice'[c] = "due"
            ELSE pc'[c] = "done" /\ notice'[c] = notice[c]
<1>1. Announce(c) => pc'[c] = "emit" /\ notice'[c] = "due"
  BY DEF Announce, GoTo, ApiTypeOK
<1>2. \A code : Finish(c, code) => pc'[c] = "done" /\ notice'[c] = notice[c]
  BY DEF Finish, GoTo, ApiTypeOK
<1>3. Announce(c) \/ \E code \in {200, 404, 500} : Finish(c, code)
  BY DEF Conclude, FailCode
<1> QED BY <1>1, <1>2, <1>3, Concluding DEF Conclude

LEMMA CreateKeeps ==
  ASSUME ApiInv, NEW c \in Callers, CreateTeam(c)
  PROVE  ApiInv'
<1>1. PICK id \in TeamIds \ minted, body \in NewTeams :
        /\ Takes(c, [op |-> "create", id |-> id, body |-> body])
        /\ minted' = minted \cup {id} /\ Insert(c, id, body)
        /\ IF ret'[c].kind = "inserted" THEN Await(c, "confirm") ELSE Finish(c, 500)
        /\ Record(c, id) /\ UNCHANGED seen
  BY DEF CreateTeam
<1> DEFINE request == [op |-> "create", id |-> id, body |-> body]
           new == Inserted(body, seal)
           answer == Says(IF Writable(seal) THEN "inserted" ELSE "refused", id)
<1>2. request \in Calls /\ request.op = "create" /\ request.id = id
  BY DEF Calls
<1>3. Takes(c, request) /\ Reply(c, answer) /\ UNCHANGED seal
      /\ rows' = IF Writable(seal) THEN [rows EXCEPT ![id] = new] ELSE rows
  BY <1>1 DEF Insert
<1>4. answer \in Answer /\ answer.kind = IF Writable(seal) THEN "inserted" ELSE "refused"
  BY SaysAnswer DEF AnswerKinds
<1>5. ApiTypeOK /\ TableTypeOK /\ seal \in SealStates
  BY DEF ApiInv, ApiTypeOK, TableTypeOK
<1>6. new \in Row /\ new.stamp = 0
  <2>1. body \in NewTeam
    BY BodyAssumption
  <2> QED BY <1>5, <2>1 DEF Inserted, NewTeam, Row, WrittenForm, Forms
<1> HIDE DEF request, new, answer
<1>7. /\ rows' \in [TeamIds -> Row \cup {NoRow}]
      /\ rows'[id] = IF Writable(seal) THEN new ELSE rows[id]
      /\ \A j \in TeamIds \ {id} : rows'[j] = rows[j]
  BY <1>3, <1>5, <1>6 DEF TableTypeOK
<1>8. ret' \in [Callers -> Answer] /\ ret'[c] = answer
  BY <1>3, <1>4, <1>5, Replying
<1>9. /\ pc[c] = "new" /\ req' \in [Callers -> Calls \cup {NoCall}] /\ req'[c] = request
      /\ Calling(c)' /\ ~Calling(c) /\ notice[c] = "none"
  BY <1>2, <1>3, <1>5, CallFields, NotYet DEF Takes, At, ApiTypeOK, Calling
<1>10. /\ pc' \in [Callers -> Places] /\ status' \in [Callers -> {0, 200, 201, 400, 404, 500}]
       /\ UNCHANGED <<notice, seen>> /\ pc'[c] = IF Writable(seal) THEN "confirm" ELSE "done"
  BY <1>1, <1>4, <1>5, <1>8 DEF Await, Finish, GoTo, ApiTypeOK, Places
<1>11. /\ was' \in [Callers -> Row \cup {NoRow}] /\ past' \in [TeamIds -> SUBSET Row]
       /\ Writes(c, id)
  <2>1. \A d \in Callers \ {c} : Same(d)
    BY <1>1, <1>3, <1>5, <1>7, Recording, OneMoves DEF Same
  <2> QED BY <1>1, <1>2, <1>3, <1>5, <1>7, <1>9, <2>1, Recording DEF Writes
<1>12. ApiTypeOK'
  BY <1>1, <1>3, <1>5, <1>7, <1>8, <1>9, <1>10, <1>11 DEF ApiTypeOK, TableTypeOK
<1>13. NoticeFits(c)' /\ HoldsTruth(c)' /\ Unread(c)'
  BY <1>1, <1>2, <1>4, <1>8, <1>9, <1>10 DEF NoticeFits, HoldsTruth, Unread
<1>14. PastLeadsHere(id) /\ rows[id] = NoRow /\ past[id] = {}
  BY <1>1 DEF ApiInv, PastLeadsHere
<1>15. /\ PastLeadsHere(id)' /\ LastChange(id)'
       /\ rows'[id] # rows[id] => Makers(id)' # {}
  <2>1. CASE Writable(seal)
    <3>1. rows'[id] = new /\ past'[id] = {new} /\ id \in minted'
      BY <1>1, <1>6, <1>7, <1>11, <1>14, <2>1, NoRowAssumption DEF Writes
    <3>2. PastLeadsHere(id)'
      BY <1>6, <3>1 DEF PastLeadsHere
    <3>3. c \in Makers(id)'
      BY <1>2, <1>4, <1>8, <1>9, <2>1, ChangersAlterNext DEF Makers, Alters, Inserting, Calling
    <3>4. ASSUME NEW last \in Row, Stood(id, last)' PROVE Settled(id, last)'
      <4>1. last = new
        BY <1>1, <1>2, <1>9, <1>11, <3>1, <3>4, StandsUndeleted DEF Stood, Deletes
      <4>2. \A row \in past'[id] : row.stamp >= Base(c)' => Content(row)' = Content(last)'
        BY <3>1, <4>1
      <4> QED BY <3>3, <4>2 DEF Settled
    <3>5. LastChange(id)'
      BY <1>6, <3>1, <3>4, NoRowAssumption DEF LastChange
    <3> QED BY <3>2, <3>3, <3>5
  <2>2. CASE ~Writable(seal)
    BY <1>2, <1>4, <1>7, <1>8, <1>9, <1>11, <2>2, KeptLeads
  <2> QED BY <2>1, <2>2
<1> QED BY <1>1, <1>4, <1>8, <1>11, <1>12, <1>13, <1>15, WriteKeeps

LEMMA UpdateKeeps ==
  ASSUME ApiInv, NEW c \in Callers, UpdateTeam(c)
  PROVE  ApiInv'
<1>1. PICK id \in TeamIds, patch \in Patches :
        /\ Takes(c, [op |-> "update", id |-> id, patch |-> patch])
        /\ Update(c, id, patch) /\ Conclude(c, TRUE) /\ Record(c, id)
        /\ UNCHANGED <<minted, seen>>
  BY DEF UpdateTeam
<1> DEFINE request == [op |-> "update", id |-> id, patch |-> patch]
<1>2. request \in Calls /\ request.op = "update" /\ request.id = id
  BY DEF Calls
<1>3. Takes(c, request)
  BY <1>1
<1> HIDE DEF request
<1>4. ApiTypeOK /\ TableTypeOK
  BY DEF ApiInv, ApiTypeOK
<1>5. Kept(c, id) \/ Rewritten(c, id)
  BY <1>1, <1>4, UpdateWrites
<1>6. /\ ret' \in [Callers -> Answer] /\ \A d \in Callers \ {c} : ret'[d] = ret[d]
      /\ rows' \in [TeamIds -> Row \cup {NoRow}] /\ UNCHANGED seal
      /\ \A j \in TeamIds \ {id} : rows'[j] = rows[j]
      /\ ret'[c].kind \in ReadKinds \cup {"refused"}
      /\ ret'[c].kind = "team" => ret'[c].row = rows'[id] /\ rows'[id] # NoRow
      /\ rows[id] = NoRow => rows'[id] = NoRow
  BY <1>4, <1>5, NoRowAssumption DEF Kept, Rewritten, Elsewhere, Answers, ReadKinds, TableTypeOK
<1>7. /\ pc[c] = "new" /\ req' \in [Callers -> Calls \cup {NoCall}] /\ req'[c] = request
      /\ Calling(c)' /\ ~Calling(c) /\ notice[c] = "none"
  BY <1>2, <1>3, <1>4, CallFields, NotYet DEF Takes, At, ApiTypeOK, Calling
<1>8. /\ pc' \in [Callers -> Places] /\ status' \in [Callers -> {0, 200, 201, 400, 404, 500}]
      /\ notice' \in [Callers -> {"none", "due", "sent", "lost"}]
      /\ IF ret'[c].kind = "team" THEN pc'[c] = "emit" /\ notice'[c] = "due"
         ELSE pc'[c] = "done" /\ notice'[c] = "none"
  <2>1. ret'[c].kind # "deleted"
    BY <1>6 DEF ReadKinds
  <2>2. Conclude(c, TRUE)
    BY <1>1
  <2>3. /\ pc' \in [Callers -> Places] /\ status' \in [Callers -> {0, 200, 201, 400, 404, 500}]
        /\ notice' \in [Callers -> {"none", "due", "sent", "lost"}]
        /\ IF ret'[c].kind \in {"team", "deleted"} THEN pc'[c] = "emit" /\ notice'[c] = "due"
           ELSE pc'[c] = "done" /\ notice'[c] = notice[c]
    BY <1>4, <2>2, AnnouncedEnding
  <2> QED BY <1>7, <2>1, <2>3
<1>9. /\ was' \in [Callers -> Row \cup {NoRow}] /\ past' \in [TeamIds -> SUBSET Row]
      /\ Writes(c, id)
  <2>1. \A d \in Callers \ {c} : Same(d)
    BY <1>1, <1>3, <1>4, <1>6, Recording, OneMoves DEF Same
  <2> QED BY <1>1, <1>2, <1>4, <1>6, <1>7, <2>1, Recording DEF Writes
<1>10. ApiTypeOK'
  BY <1>1, <1>4, <1>6, <1>7, <1>8, <1>9 DEF ApiTypeOK, TableTypeOK
<1>11. ret'[c].kind = "team" => ret'[c].row \in past'[id]
  BY <1>6, <1>9 DEF Writes
<1>12. NoticeFits(c)' /\ HoldsTruth(c)' /\ Unread(c)'
  BY <1>2, <1>6, <1>7, <1>8, <1>11 DEF NoticeFits, HoldsTruth, Unread, ReadKinds, Changing
<1>13. PastLeadsHere(id)' /\ LastChange(id)'
  BY <1>1, <1>2, <1>5, <1>6, <1>7, <1>9, KeptLeads, RewrittenLeads DEF Kept, ReadKinds, Changing
<1>14. rows'[id] # rows[id] => rows[id] # NoRow /\ Opens(rows[id], seal)
  BY <1>5, NoRowAssumption DEF Kept, Rewritten
<1> QED BY <1>1, <1>2, <1>6, <1>7, <1>9, <1>10, <1>12, <1>13, <1>14, WriteKeeps DEF ReadKinds

LEMMA DeleteKeeps ==
  ASSUME ApiInv, NEW c \in Callers, DeleteTeam(c)
  PROVE  ApiInv'
<1>0. PICK id \in TeamIds : id = req[c].id
  BY NotYet, CallFields DEF DeleteTeam, At
<1> DEFINE answer == Says(IF rows[id] = NoRow THEN "missing" ELSE "deleted", id)
<1>1. /\ pc[c] = "call" /\ req[c].op = "delete" /\ Delete(c, id)
      /\ Conclude(c, TRUE) /\ Record(c, id) /\ UNCHANGED <<minted, req, seen>>
  BY <1>0 DEF DeleteTeam, At
<1>2. /\ notice[c] = "none" /\ was[c] = NoRow /\ Calling(c) /\ req[c] \in Calls /\ id \in TeamIds
      /\ ApiTypeOK /\ TableTypeOK /\ HoldsTruth(c) /\ Unread(c)
      /\ PastLeadsHere(id) /\ LastChange(id)
  BY <1>0, <1>1, NotYet, CallFields DEF ApiInv, ApiTypeOK
<1>3. answer \in Answer /\ answer.kind = IF rows[id] = NoRow THEN "missing" ELSE "deleted"
  BY <1>2, SaysAnswer DEF AnswerKinds
<1>4. Reply(c, answer) /\ rows' = [rows EXCEPT ![id] = NoRow] /\ UNCHANGED seal
  BY <1>1 DEF Delete
<1> HIDE DEF answer
<1>5. /\ ret' \in [Callers -> Answer] /\ ret'[c] = answer /\ \A d \in Callers \ {c} : ret'[d] = ret[d]
  BY <1>2, <1>3, <1>4, Replying
<1>6. /\ rows' \in [TeamIds -> Row \cup {NoRow}] /\ rows'[id] = NoRow
      /\ \A j \in TeamIds \ {id} : rows'[j] = rows[j]
  BY <1>2, <1>4 DEF TableTypeOK
<1>7. /\ pc' \in [Callers -> Places] /\ status' \in [Callers -> {0, 200, 201, 400, 404, 500}]
      /\ notice' \in [Callers -> {"none", "due", "sent", "lost"}]
      /\ IF answer.kind = "deleted" THEN pc'[c] = "emit" /\ notice'[c] = "due"
         ELSE pc'[c] = "done" /\ notice'[c] = "none"
  <2>1. Conclude(c, TRUE)
    BY <1>1
  <2>2. /\ pc' \in [Callers -> Places] /\ status' \in [Callers -> {0, 200, 201, 400, 404, 500}]
        /\ notice' \in [Callers -> {"none", "due", "sent", "lost"}]
        /\ IF ret'[c].kind \in {"team", "deleted"} THEN pc'[c] = "emit" /\ notice'[c] = "due"
           ELSE pc'[c] = "done" /\ notice'[c] = notice[c]
    BY <1>2, <2>1, AnnouncedEnding
  <2>3. ret'[c].kind = answer.kind /\ answer.kind \in {"missing", "deleted"}
    BY <1>3, <1>5
  <2> QED BY <1>2, <2>2, <2>3
<1>8. /\ was' \in [Callers -> Row \cup {NoRow}] /\ past' \in [TeamIds -> SUBSET Row]
      /\ Writes(c, id)
  <2>1. \A d \in Callers \ {c} : Same(d)
    BY <1>0, <1>1, <1>2, <1>5, <1>6, Recording, OneMoves DEF Same
  <2>2. Calling(c)' /\ req'[c] = req[c]
    BY <1>0, <1>1, <1>2 DEF Calling
  <2> QED BY <1>0, <1>1, <1>2, <1>4, <1>6, <2>1, <2>2, Recording DEF Writes
<1>9. ApiTypeOK'
  BY <1>0, <1>1, <1>2, <1>4, <1>5, <1>6, <1>7, <1>8 DEF ApiTypeOK, TableTypeOK
<1>10. past'[id] = past[id] /\ past[id] \subseteq Row
  BY <1>2, <1>6, <1>8 DEF Writes, PastLeadsHere
<1>11. NoticeFits(c)' /\ HoldsTruth(c)' /\ Unread(c)'
  <2>1. req'[c].op = "delete" /\ req'[c].id = id /\ Calling(c)' /\ seen'[c] = seen[c]
    BY <1>0, <1>1, <1>2 DEF Calling
  <2>2. seen[c] \in past'[id] \cup {NoRow}
    BY <1>0, <1>1, <1>2, <1>10 DEF HoldsTruth
  <2>3. rows[id] # NoRow => id \in minted'
    BY <1>0, <1>1, <1>2 DEF PastLeadsHere
  <2>4. NoticeFits(c)'
    BY <1>7, <2>1 DEF NoticeFits
  <2>5. HoldsTruth(c)'
    <3>1. was'[c] = rows[id]
      BY <1>8 DEF Writes
    <3> QED BY <1>3, <1>5, <1>6, <1>7, <2>1, <2>2, <2>3, <3>1 DEF HoldsTruth
  <2>6. Unread(c)'
    <3>1. pc'[c] # "call" /\ was'[c] = rows[id] /\ UNCHANGED seal
      BY <1>3, <1>7, <1>8 DEF Writes
    <3>2. Deletes(c)' => rows[id] # NoRow
      BY <1>3, <1>5 DEF Deletes
    <3>3. Makers(id) # {} => Makers(id)' # {}
      BY <1>1, <1>8, NotYet, MakersStay DEF Writes
    <3>4. seen[c] = NoRow /\ rows[id] # NoRow => ~Opens(rows[id], seal) \/ Makers(id) # {}
      BY <1>0, <1>1, <1>2 DEF Unread
    <3> QED BY <2>1, <3>1, <3>2, <3>3, <3>4 DEF Unread
  <2> QED BY <2>4, <2>5, <2>6
<1>12. PastLeadsHere(id)'
  BY <1>0, <1>1, <1>2, <1>6, <1>10 DEF PastLeadsHere
<1>13. LastChange(id)'
  <2>1. CASE rows[id] = NoRow
    <3>1. ~Alters(c, id) /\ ~Alters(c, id)'
      BY <1>0, <1>1, <1>2, <1>3, <1>5, <2>1, NotYet DEF Alters, Inserting, Changing
    <3> QED BY <1>2, <1>6, <1>8, <1>10, <2>1, <3>1, ChangeStands DEF Writes
  <2>2. CASE rows[id] # NoRow
    <3>1. c \in Changers(id)' /\ req'[c].op = "delete"
      BY <1>0, <1>1, <1>2, <1>3, <1>5, <2>2, ChangersAlterNext DEF Alters, Calling
    <3>2. Makers(id)' = Makers(id) /\ \A d \in Makers(id) : Base(d)' = Base(d)
      <4>1. ~Alters(c, id) /\ \A d \in Callers \ {c} : Same(d)
        BY <1>1, <1>8, NotYet DEF Writes
      <4> QED BY <3>1, <4>1, SameAlters, ChangersAlter, ChangersAlterNext DEF Makers
    <3>3. ASSUME NEW last \in Row, Stood(id, last)' PROVE Settled(id, last)'
      <4>1. last = rows[id]
        BY <1>6, <1>8, <2>2, <3>3, NoRowAssumption, StandsUndeleted DEF Stood, Writes
      <4>2. Settled(id, last)
        BY <1>2, <4>1 DEF LastChange, Stood
      <4> QED BY <1>10, <3>2, <4>2, SettledStands
    <3> QED BY <1>6, <3>1, <3>3 DEF LastChange
  <2> QED BY <2>1, <2>2
<1> QED BY <1>0, <1>1, <1>2, <1>3, <1>5, <1>6, <1>8, <1>9, <1>11, <1>12, <1>13, WriteKeeps

LEMMA ChangeKeeps ==
  ASSUME ApiInv, NEW c \in Callers, ChangeMembers(c)
  PROVE  ApiInv'
<1>0. PICK id \in TeamIds : id = req[c].id
  BY NotYet, CallFields DEF ChangeMembers, At
<1> DEFINE differs == RosterDiffers(seen[c], ret'[c].row)
<1>1. /\ pc[c] = "call" /\ req[c].op \in {"add", "remove"}
      /\ AddMember(c, id, req[c].agent) \/ RemoveMember(c, id, req[c].agent)
      /\ Conclude(c, differs) /\ Record(c, id) /\ UNCHANGED <<minted, req, seen>>
  BY <1>0 DEF ChangeMembers, At
<1>2. /\ notice[c] = "none" /\ was[c] = NoRow /\ Calling(c) /\ req[c] \in Calls /\ id \in TeamIds
      /\ ApiTypeOK /\ TableTypeOK /\ req[c].agent \in Agents
  BY <1>0, <1>1, NotYet, CallFields DEF ApiInv, ApiTypeOK
<1>3. (Kept(c, id) /\ Answers(c, ReadKinds)) \/ Rewritten(c, id)
  BY <1>0, <1>1, <1>2, MembersWrite
<1>4. /\ ret' \in [Callers -> Answer] /\ \A d \in Callers \ {c} : ret'[d] = ret[d]
      /\ rows' \in [TeamIds -> Row \cup {NoRow}] /\ UNCHANGED seal
      /\ \A j \in TeamIds \ {id} : rows'[j] = rows[j]
      /\ ret'[c].kind \in ReadKinds
      /\ ret'[c].kind = "team" => ret'[c].row = rows'[id] /\ rows'[id] # NoRow /\ rows[id] # NoRow
      /\ rows[id] = NoRow => rows'[id] = NoRow
  BY <1>2, <1>3, NoRowAssumption DEF Kept, Rewritten, Elsewhere, Answers, ReadKinds, TableTypeOK
<1>5. differs \in BOOLEAN /\ (seen[c] # NoRow => (differs <=> seen[c].members # ret'[c].row.members))
  BY DEF RosterDiffers
<1> HIDE DEF differs
<1>6. /\ pc' \in [Callers -> Places] /\ status' \in [Callers -> {0, 200, 201, 400, 404, 500}]
      /\ notice' \in [Callers -> {"none", "due", "sent", "lost"}]
      /\ IF ret'[c].kind = "team" /\ differs THEN pc'[c] = "emit" /\ notice'[c] = "due"
         ELSE pc'[c] = "done" /\ notice'[c] = "none"
  <2>1. ret'[c].kind # "deleted"
    BY <1>4 DEF ReadKinds
  <2> QED BY <1>0, <1>1, <1>2, <1>5, <2>1, Ending
<1>7. /\ was' \in [Callers -> Row \cup {NoRow}] /\ past' \in [TeamIds -> SUBSET Row]
      /\ Writes(c, id)
  <2>1. \A d \in Callers \ {c} : Same(d)
    BY <1>0, <1>1, <1>2, <1>4, Recording, OneMoves DEF Same
  <2>2. Calling(c)' /\ req'[c] = req[c]
    BY <1>0, <1>1, <1>2 DEF Calling
  <2> QED BY <1>0, <1>1, <1>2, <1>4, <2>1, <2>2, Recording DEF Writes
<1>8. ApiTypeOK'
  BY <1>0, <1>1, <1>2, <1>4, <1>6, <1>7 DEF ApiTypeOK, TableTypeOK
<1>9. /\ req'[c] = req[c] /\ Calling(c)' /\ seen'[c] = seen[c] /\ was'[c] = rows[id]
      /\ ret'[c].kind = "team" => ret'[c].row \in past'[id]
  BY <1>0, <1>1, <1>2, <1>4, <1>7 DEF Writes, Calling
<1>10. NoticeFits(c)' /\ HoldsTruth(c)'
  BY <1>0, <1>1, <1>4, <1>6, <1>9 DEF NoticeFits, HoldsTruth, ReadKinds, Changing
<1>11. Unread(c)'
  BY <1>1, <1>9 DEF Unread
<1>12. PastLeadsHere(id)' /\ LastChange(id)'
  <2>1. CASE Kept(c, id)
    BY <1>0, <1>1, <1>4, <1>7, <1>9, <2>1, KeptLeads DEF Kept, ReadKinds
  <2>2. CASE Rewritten(c, id)
    BY <1>0, <1>1, <1>7, <1>9, <2>2, RewrittenLeads DEF Changing
  <2> QED BY <1>3, <2>1, <2>2
<1>13. rows'[id] # rows[id] => rows[id] # NoRow /\ Opens(rows[id], seal)
  BY <1>3, NoRowAssumption DEF Kept, Rewritten
<1> QED BY <1>0, <1>1, <1>2, <1>4, <1>7, <1>8, <1>9, <1>10, <1>11, <1>12, <1>13, WriteKeeps DEF ReadKinds

-----------------------------------------------------------------------------
LEMMA ApiInitHolds ==
  ASSUME ApiInit
  PROVE  ApiInv
<1>1. rows \in [TeamIds -> Row \cup {NoRow}] /\ seal \in SealStates
  <2>1. RowsAtOpen(seal) \subseteq Row
    BY BodyAssumption DEF ApiInit, TableInit, RowsAtOpen, FormsAtOpen, Row, NewTeam, Forms, SealStates
  <2> QED BY <2>1 DEF ApiInit, TableInit
<1>2. /\ \A c \in Callers : /\ pc[c] = "new" /\ req[c] = NoCall /\ seen[c] = NoRow /\ status[c] = 0
                            /\ notice[c] = "none" /\ was[c] = NoRow /\ ~Calling(c)
      /\ \A id \in TeamIds : past[id] = {rows[id]} \ {NoRow}
      /\ minted = {id \in TeamIds : rows[id] # NoRow}
  BY DEF ApiInit, Calling, Present
<1>3. Pending \in Answer
  BY DEF Pending, Answer, AnswerKinds
<1>4. ApiTypeOK
  BY <1>1, <1>2, <1>3 DEF ApiTypeOK, TableTypeOK, ApiInit, TableInit, Places
<1>5. \A c \in Callers : NoticeFits(c) /\ HoldsTruth(c) /\ Unread(c)
  BY <1>2 DEF NoticeFits, HoldsTruth, Unread
<1>6. \A id \in TeamIds : PastLeadsHere(id)
  BY <1>1, <1>2 DEF PastLeadsHere, Row
<1>7. \A id \in TeamIds : Changers(id) = {}
  BY <1>2, ChangersAlter DEF Alters
<1>8. \A id \in TeamIds : LastChange(id)
  BY <1>2, <1>7 DEF LastChange, Stood, Deletes, Settled, Makers
<1> QED BY <1>2, <1>4, <1>5, <1>6, <1>8 DEF ApiInv, LivesOnce, Creates, Deletes

LEMMA ApiStutters ==
  ASSUME ApiInv, UNCHANGED apiVars
  PROVE  ApiInv'
<1>1. UNCHANGED <<rows, seal, ret, minted, pc, req, seen, status, notice, was, past>>
  BY DEF apiVars
<1>2. ApiTypeOK' /\ LivesOnce'
  BY <1>1 DEF ApiInv, ApiTypeOK, TableTypeOK, LivesOnce, Creates, Deletes, Calling
<1>3. ASSUME NEW c \in Callers PROVE NoticeFits(c)' /\ HoldsTruth(c)' /\ Unread(c)'
  <2>1. \A id \in TeamIds : Makers(id)' = Makers(id)
    BY <1>1 DEF Makers, Changers, Inserting
  <2>2. Onward /\ Same(c)
    BY <1>1, <2>1 DEF Onward, Same
  <2> QED BY <2>2, OthersKeep
<1>4. ASSUME NEW id \in TeamIds PROVE PastLeadsHere(id)' /\ LastChange(id)'
  <2>1. PastLeadsHere(id)'
    BY <1>1, UnwrittenPast
  <2>2. Changers(id)' = Changers(id)
    BY <1>1 DEF Changers, Inserting
  <2>3. LastChange(id)
    BY DEF ApiInv
  <2>4. \A last : Stood(id, last)' <=> Stood(id, last)
    BY <1>1 DEF Stood, Deletes, Calling
  <2>5. \A last : Settled(id, last)' <=> Settled(id, last)
    BY <1>1, <2>2 DEF Settled, Makers, Base, Content
  <2>6. LastChange(id)'
    BY <1>1, <2>2, <2>3, <2>4, <2>5 DEF LastChange
  <2> QED BY <2>1, <2>6
<1> QED BY <1>2, <1>3, <1>4 DEF ApiInv

LEMMA ApiStepKeeps ==
  ASSUME ApiInv, [ApiNext]_apiVars
  PROVE  ApiInv'
<1>1. ASSUME NEW c \in Callers, Arrive(c) PROVE ApiInv'
  BY <1>1, BlankKeeps, CreateKeeps, GetKeeps, ListKeeps, UpdateKeeps DEF Arrive
<1>2. ASSUME NEW c \in Callers, Step(c) PROVE ApiInv'
  BY <1>2, ConfirmKeeps, DeleteKeeps, ChangeKeeps, EmitKeeps DEF Step
<1>3. ASSUME NEW c \in Callers, Drop(c) PROVE ApiInv'
  BY <1>3, EmitKeeps
<1>4. CASE UNCHANGED apiVars
  BY <1>4, ApiStutters
<1> QED BY <1>1, <1>2, <1>3, <1>4 DEF ApiNext, Finished

(* Every request holds what it claims to hold wherever its handler awaits, *)
(* and the past of a team leads to its row (backend/src/api.rs).           *)
THEOREM RequestsHoldTruth == ApiSpec => []ApiInv
<1>1. ApiInit => ApiInv
  BY ApiInitHolds
<1>2. ApiInv /\ [ApiNext]_apiVars => ApiInv'
  BY ApiStepKeeps
<1> QED BY <1>1, <1>2, PTL DEF ApiSpec

(* The handlers of /api/teams keep the types of the table, of what they    *)
(* hold and of their events.                                               *)
THEOREM ApiTypeCorrect == ApiSpec => []ApiTypeOK
<1>1. ApiInv => ApiTypeOK
  BY DEF ApiInv
<1> QED BY <1>1, RequestsHoldTruth, PTL

(* What was sent is a record its team really had, in its past. *)
LEMMA SentInPast ==
  ASSUME ApiInv, NEW d \in Callers, notice[d] \in {"due", "sent"}
  PROVE  /\ Calling(d) /\ req[d].op # "list" /\ req[d].id \in TeamIds
         /\ req[d].op = "delete" => Deletes(d) /\ was[d] \in Row
         /\ \/ Payload(d) \in past[req[d].id]
            \/ Payload(d) = NoRow /\ req[d].op = "delete"
<1>1. NoticeFits(d) /\ HoldsTruth(d) /\ req[d] \in Calls \cup {NoCall} /\ was[d] \in Row \cup {NoRow}
  BY DEF ApiInv, ApiTypeOK
<1>2. Calling(d) /\ req[d].op # "list"
  BY <1>1 DEF NoticeFits, Changing
<1>3. req[d].id \in TeamIds
  BY <1>1, <1>2, CallFields DEF Calling
<1>4. req[d].op = "delete" => Deletes(d) /\ was[d] \in Row
  BY <1>1, <1>2 DEF HoldsTruth, Deletes
<1> QED BY <1>1, <1>2, <1>3, <1>4 DEF HoldsTruth, Payload

LEMMA BasesAreStamps ==
  ASSUME ApiInv, NEW id \in TeamIds, NEW d \in Makers(id)
  PROVE  Base(d) \in Nat
<1>1. d \in Callers /\ Alters(d, id) /\ req[d].op # "delete"
  BY ChangersAlter DEF Makers
<1>2. HoldsTruth(d) /\ past[id] \subseteq Row
  BY <1>1 DEF ApiInv, PastLeadsHere
<1>3. CASE req[d].op = "create"
  BY <1>3 DEF Base
<1>4. CASE req[d].op # "create"
  <2>1. was[d] # NoRow /\ ret[d].kind = "team" /\ req[d].id = id
    BY <1>1, <1>2, <1>4 DEF Alters, Inserting, HoldsTruth
  <2>2. ret[d].row \in past[id]
    BY <1>1, <1>2, <1>4, <2>1 DEF Alters, HoldsTruth
  <2> QED BY <1>2, <1>4, <2>2 DEF Base, Row
<1> QED BY <1>3, <1>4

(* The team stood settled with the row a request deleted. *)
LEMMA DeletedSettled ==
  ASSUME ApiInv, NEW c \in Callers, notice[c] \in {"due", "sent"}, req[c].op = "delete"
  PROVE  /\ req[c].id \in TeamIds /\ was[c] \in Row /\ Settled(req[c].id, was[c])
         /\ seen[c] = NoRow => ~Opens(was[c], seal) \/ Makers(req[c].id) # {}
<1>1. req[c].id \in TeamIds /\ Deletes(c) /\ was[c] \in Row
  BY SentInPast
<1>2. LastChange(req[c].id) /\ Unread(c)
  BY <1>1 DEF ApiInv
<1>3. Stood(req[c].id, was[c])
  BY <1>1 DEF Stood
<1> QED BY <1>1, <1>2, <1>3 DEF LastChange, Unread, Deletes

(* An event of a handler carries a record its team really had, whatever    *)
(* ran between the store's answer and the emit (create_team, update_team,  *)
(* delete_team, add_team_member, remove_team_member); that of a delete is  *)
(* the team as it stood immediately before, or its id alone if no key      *)
(* opened it, unless another request changed it after delete_team read it. *)
THEOREM EventsCarryRealRecords == ApiSpec => []EventsTellTheTruth
<1>1. ApiInv => EventsTellTheTruth
  <2> SUFFICES ASSUME ApiInv, NEW c \in Callers, notice[c] \in {"due", "sent"}
               PROVE  /\ \/ Payload(c) \in past[req[c].id]
                         \/ Payload(c) = NoRow /\ req[c].op = "delete"
                      /\ req[c].op = "delete" /\ ~Overtaken(c) =>
                           IF Payload(c) = NoRow THEN ~Opens(was[c], seal)
                           ELSE Content(Payload(c)) = Content(was[c])
    BY DEF EventsTellTheTruth
  <2>1. \/ Payload(c) \in past[req[c].id]
        \/ Payload(c) = NoRow /\ req[c].op = "delete"
    BY SentInPast
  <2>2. ASSUME req[c].op = "delete", ~Overtaken(c)
        PROVE  IF Payload(c) = NoRow THEN ~Opens(was[c], seal)
               ELSE Content(Payload(c)) = Content(was[c])
    <3> DEFINE id == req[c].id
    <3>1. /\ id \in TeamIds /\ Settled(id, was[c]) /\ Payload(c) = seen[c]
          /\ seen[c] = NoRow => ~Opens(was[c], seal) \/ Makers(id) # {}
      BY <2>2, DeletedSettled DEF Payload
    <3>2. CASE seen[c] = NoRow
      <4>1. Makers(id) = {}
        BY <2>2, <3>2 DEF Overtaken
      <4> QED BY <3>1, <3>2, <4>1
    <3>3. CASE seen[c] # NoRow
      <4>1. seen[c] \in past[id] /\ past[id] \subseteq Row
        BY <2>1, <3>1, <3>3 DEF ApiInv, PastLeadsHere
      <4>2. \A d \in Makers(id) : ~(Base(d) > seen[c].stamp)
        BY <2>2 DEF Overtaken
      <4>3. \A d \in Makers(id) : seen[c].stamp >= Base(d)
        <5> SUFFICES ASSUME NEW d \in Makers(id) PROVE seen[c].stamp >= Base(d)
          OBVIOUS
        <5>1. Base(d) \in Nat
          BY <3>1, BasesAreStamps
        <5>2. seen[c].stamp \in Nat
          BY <4>1 DEF Row
        <5> QED BY <4>2, <5>1, <5>2
      <4>4. Content(seen[c]) = Content(was[c])
        BY <3>1, <4>1, <4>3 DEF Settled
      <4> QED BY <3>1, <3>3, <4>4
    <3> QED BY <3>2, <3>3
  <2> QED BY <2>1, <2>2
<1> QED BY <1>1, RequestsHoldTruth, PTL

(* team.created and team.deleted are announced by one request at most, and *)
(* a team whose deletion is announced never comes back, for any number of  *)
(* requests that create, change and delete at once.                        *)
THEOREM LifecycleIsAnnouncedOnce == ApiSpec => []LifecycleOnce
<1>1. ApiInv => LifecycleOnce
  <2> SUFFICES ASSUME ApiInv, NEW c \in Callers, NEW d \in Callers, NEW op \in {"create", "delete"}
               PROVE  /\ Announces(c, op) /\ Announces(d, op) /\ req[c].id = req[d].id => c = d
                      /\ Announces(c, "delete") => rows[req[c].id] = NoRow
    BY DEF LifecycleOnce
  <2>1. /\ NoticeFits(c) /\ HoldsTruth(c) /\ NoticeFits(d) /\ HoldsTruth(d) /\ LivesOnce
    BY DEF ApiInv
  <2>2. /\ Announces(c, "create") => Creates(c)
        /\ Announces(d, "create") => Creates(d)
        /\ Announces(c, "delete") => Deletes(c) /\ rows[req[c].id] = NoRow
        /\ Announces(d, "delete") => Deletes(d)
    BY <2>1 DEF NoticeFits, HoldsTruth, Announces, Creates, Deletes
  <2> QED BY <2>1, <2>2 DEF LivesOnce
<1> QED BY <1>1, RequestsHoldTruth, PTL

(* The event of a maker, and the record it carries. *)
LEMMA MakersDelivered ==
  ASSUME ApiInv, NEW id \in TeamIds, \A d \in Makers(id) : notice[d] = "sent"
  PROVE  \A d \in Makers(id) : d \in Delivered(id)
BY ChangersAlter DEF Makers, Delivered, Alters

LEMMA DeliveredLater ==
  ASSUME ApiInv, NEW id \in TeamIds
  PROVE  /\ \A d \in Delivered(id) : Payload(d) \in past[id] /\ Payload(d) \in Row
         /\ \A c \in Makers(id), d \in Delivered(id) :
              c \in Delivered(id) /\ Payload(c).stamp <= Payload(d).stamp =>
                Payload(d).stamp >= Base(c)
<1>1. past[id] \subseteq Row
  BY DEF ApiInv, PastLeadsHere
<1>2. \A d \in Delivered(id) : Payload(d) \in past[id] /\ Payload(d) \in Row
  BY <1>1, SentInPast DEF Delivered
<1>3. ASSUME NEW c \in Makers(id), NEW d \in Delivered(id), c \in Delivered(id),
             Payload(c).stamp <= Payload(d).stamp
      PROVE  Payload(d).stamp >= Base(c)
  <2>1. Payload(c).stamp \in Nat /\ Payload(d).stamp \in Nat
    BY <1>2, <1>3 DEF Row
  <2>2. Base(c) <= Payload(c).stamp
    BY <1>3, <2>1 DEF Base, Payload, Delivered
  <2>3. Base(c) \in Nat
    BY BasesAreStamps
  <2> QED BY <1>3, <2>1, <2>2, <2>3
<1> QED BY <1>2, <1>3

(* A subscriber that got the event of every request that changed a team    *)
(* has the team as it is with the record of the latest updated_at, in      *)
(* whatever order the events came.                                         *)
THEOREM NewestRecordIsCurrent == ApiSpec => []NewestEventIsCurrent
<1>1. ApiInv => NewestEventIsCurrent
  <2> SUFFICES ASSUME ApiInv, NEW id \in TeamIds, Changers(id) # {},
                      \A c \in Changers(id) : notice[c] = "sent"
               PROVE  \/ rows[id] = NoRow /\ \E c \in Changers(id) : req[c].op = "delete"
                      \/ /\ Delivered(id) # {}
                         /\ \A c \in Delivered(id) :
                              (\A d \in Delivered(id) : Payload(d).stamp <= Payload(c).stamp)
                                => Content(Payload(c)) = Content(rows[id])
    BY DEF NewestEventIsCurrent
  <2>1. LastChange(id) /\ PastLeadsHere(id) /\ rows[id] \in Row \cup {NoRow}
    BY DEF ApiInv, ApiTypeOK, TableTypeOK
  <2>2. CASE rows[id] = NoRow
    BY <2>1, <2>2 DEF LastChange
  <2>3. CASE rows[id] # NoRow
    <3>1. Settled(id, rows[id]) /\ rows[id] \in Row
      BY <2>1, <2>3 DEF LastChange, Stood
    <3>2. \A c \in Changers(id) : req[c].op # "delete"
      <4> SUFFICES ASSUME NEW c \in Changers(id), req[c].op = "delete" PROVE FALSE
        OBVIOUS
      <4>1. c \in Callers /\ Alters(c, id) /\ HoldsTruth(c)
        BY ChangersAlter DEF ApiInv
      <4> QED BY <2>3, <4>1 DEF Alters, HoldsTruth, Inserting, Changing
    <3>3. Makers(id) = Changers(id)
      BY <3>2 DEF Makers
    <3>4. PICK c \in Makers(id) :
            \A row \in past[id] : row.stamp >= Base(c) => Content(row) = Content(rows[id])
      BY <3>1, <3>3 DEF Settled
    <3>5. c \in Delivered(id)
      BY <3>3, MakersDelivered
    <3>6. ASSUME NEW d \in Delivered(id), Payload(c).stamp <= Payload(d).stamp
          PROVE  Content(Payload(d)) = Content(rows[id])
      <4>1. Payload(d) \in past[id] /\ Payload(d).stamp >= Base(c)
        BY <3>4, <3>5, <3>6, DeliveredLater
      <4> QED BY <3>4, <4>1
    <3> QED BY <3>5, <3>6
  <2> QED BY <2>2, <2>3
<1> QED BY <1>1, RequestsHoldTruth, PTL

(* A subscriber that got the event of every request that changed a team    *)
(* knows from its newest record what the team was when it was deleted,     *)
(* though delete_team may carry a record read before another's change.     *)
THEOREM DeletedIsKnown == ApiSpec => []DeletedTeamIsKnown
<1>1. ApiInv => DeletedTeamIsKnown
  <2> SUFFICES ASSUME ApiInv, NEW c \in Callers, notice[c] = "sent", req[c].op = "delete",
                      \A d \in Makers(req[c].id) : notice[d] = "sent"
               PROVE  /\ RecordsOf(c) = {} => ~Opens(was[c], seal)
                      /\ \A last \in RecordsOf(c) :
                           (\A row \in RecordsOf(c) : row.stamp <= last.stamp)
                             => Content(last) = Content(was[c])
    BY DEF DeletedTeamIsKnown
  <2> DEFINE id == req[c].id
  <2>1. /\ id \in TeamIds /\ Settled(id, was[c])
        /\ seen[c] = NoRow => ~Opens(was[c], seal) \/ Makers(id) # {}
    BY DeletedSettled
  <2>2. \A d \in Makers(id) : d \in Delivered(id)
    BY <2>1, MakersDelivered
  <2>3. \A d \in Delivered(id) : Payload(d) \in past[id] /\ Payload(d) \in Row
    BY <2>1, DeliveredLater
  <2>4. RecordsOf(c) \subseteq past[id]
    BY <2>3, SentInPast DEF RecordsOf
  <2>5. ASSUME RecordsOf(c) = {} PROVE ~Opens(was[c], seal)
    <3>1. Makers(id) = {}
      BY <2>2, <2>3, <2>5, NoRowAssumption DEF RecordsOf
    <3>2. Payload(c) = NoRow
      BY <2>5 DEF RecordsOf
    <3> QED BY <2>1, <3>1, <3>2 DEF Payload
  <2>6. ASSUME NEW last \in RecordsOf(c), \A row \in RecordsOf(c) : row.stamp <= last.stamp
        PROVE  Content(last) = Content(was[c])
    <3>1. CASE Makers(id) = {}
      BY <2>1, <2>4, <3>1 DEF Settled
    <3>2. CASE Makers(id) # {}
      <4>1. PICK d \in Makers(id) :
              \A row \in past[id] : row.stamp >= Base(d) => Content(row) = Content(was[c])
        BY <2>1, <3>2 DEF Settled
      <4>2. Payload(d) \in RecordsOf(c)
        BY <2>2, <2>3, NoRowAssumption DEF RecordsOf
      <4>3. last.stamp \in Nat /\ Payload(d).stamp \in Nat /\ Base(d) \in Nat
            /\ Base(d) <= Payload(d).stamp
        <5>1. past[id] \subseteq Row
          BY <2>1 DEF ApiInv, PastLeadsHere
        <5>2. last \in Row /\ Payload(d) \in Row
          BY <2>4, <4>2, <5>1
        <5> QED BY <2>1, <2>2, <5>2, BasesAreStamps, DeliveredLater DEF Row
      <4>4. last.stamp >= Base(d)
        BY <2>6, <4>2, <4>3
      <4> QED BY <2>4, <4>1, <4>4
    <3> QED BY <3>1, <3>2
  <2> QED BY <2>5, <2>6
<1> QED BY <1>1, RequestsHoldTruth, PTL

LEMMA RewriteProtects ==
  ASSUME NEW c \in Callers, NEW id \in TeamIds, seal \in SealStates, Kept(c, id) \/ Rewritten(c, id)
  PROVE  \A j \in TeamIds : Protected(j)
<1>1. CASE Kept(c, id)
  BY <1>1 DEF Kept, Protected
<1>2. CASE Rewritten(c, id)
  <2>1. \A j \in TeamIds \ {id} : rows'[j] = rows[j]
    BY <1>2 DEF Rewritten, Elsewhere
  <2>2. /\ rows[id] # NoRow /\ Opens(rows[id], seal)
        /\ \/ rows'[id].form = rows[id].form /\ rows'[id].name = rows[id].name
           \/ Writable(seal) /\ rows'[id].form = WrittenForm(seal)
    BY <1>2, NoRowAssumption DEF Rewritten
  <2>3. Protected(id)
    BY <2>2 DEF Protected, Opens, Writable, WrittenForm
  <2> QED BY <2>1, <2>3 DEF Protected
<1> QED BY <1>1, <1>2

LEMMA StepProtects ==
  ASSUME ApiInv, ApiNext
  PROVE  \A id \in TeamIds : Protected(id)
<1>1. ApiTypeOK /\ TableTypeOK /\ seal \in SealStates
  BY DEF ApiInv, ApiTypeOK, TableTypeOK
<1>2. CASE UNCHANGED rows
  BY <1>2 DEF Protected
<1>3. ASSUME NEW c \in Callers, CreateTeam(c) PROVE \A id \in TeamIds : Protected(id)
  <2>1. PICK id \in TeamIds \ minted, body \in NewTeams : Insert(c, id, body)
    BY <1>3 DEF CreateTeam
  <2>2. rows[id] = NoRow
    BY <2>1 DEF ApiInv, PastLeadsHere
  <2>3. /\ \A j \in TeamIds \ {id} : rows'[j] = rows[j]
        /\ seal = "unhealthy" => rows' = rows
    BY <1>1, <2>1 DEF Insert, TableTypeOK, Writable
  <2> QED BY <2>2, <2>3 DEF Protected
<1>4. ASSUME NEW c \in Callers, UpdateTeam(c) PROVE \A id \in TeamIds : Protected(id)
  <2>1. PICK id \in TeamIds, patch \in Patches : Update(c, id, patch)
    BY <1>4 DEF UpdateTeam
  <2> QED BY <1>1, <2>1, UpdateWrites, RewriteProtects
<1>5. ASSUME NEW c \in Callers, ChangeMembers(c) PROVE \A id \in TeamIds : Protected(id)
  <2>1. PICK id \in TeamIds, agent \in Agents : AddMember(c, id, agent) \/ RemoveMember(c, id, agent)
    BY <1>5, NotYet, CallFields DEF ChangeMembers, At
  <2> QED BY <1>1, <2>1, MembersWrite, RewriteProtects
<1>6. ASSUME NEW c \in Callers, DeleteTeam(c) PROVE \A id \in TeamIds : Protected(id)
  BY <1>1, <1>6 DEF DeleteTeam, Delete, TableTypeOK, Protected
<1>7. ASSUME NEW c \in Callers, CreateBlank(c) \/ CreateConfirm(c) \/ GetTeam(c)
               \/ ListTeams(c) \/ PreRead(c) \/ EmitEvent(c) \/ Drop(c)
      PROVE  UNCHANGED rows
  BY <1>7, QuietActions
<1>8. Finished => UNCHANGED rows
  BY DEF Finished, apiVars
<1> QED BY <1>2, <1>3, <1>4, <1>5, <1>6, <1>7, <1>8 DEF ApiNext, Arrive, Step

(* No request writes over a row this process cannot open, takes a sealed   *)
(* team back to plaintext, or changes a sealed column of an unhealthy      *)
(* store.                                                                  *)
THEOREM SealedColumnsStaySealed == ApiSpec => SealedColumnsProtected
<1>1. ApiInv /\ [ApiNext]_apiVars => [\A id \in TeamIds : Protected(id)]_apiVars
  BY StepProtects
<1> QED BY <1>1, RequestsHoldTruth, PTL DEF ApiSpec, SealedColumnsProtected
=============================================================================
