------------------------------ MODULE AppEvents -----------------------------
(***************************************************************************)
(* The client a sidecar calls Core with (app-events/src/lib.rs): events,   *)
(* room broadcasts, usage reports, provider calls and model streams, each  *)
(* one POST to Core on the loopback port Core injected. Calls of one       *)
(* client share nothing, so the model follows one at a time. A field of a  *)
(* request is how it compares with its bounds; of the request stays only   *)
(* its kind, the time it asks for and whether anyone waits for its         *)
(* outcome. Core's side is what it does with the request. A stream's bytes *)
(* are the start of a data line, its content, a line of another kind and   *)
(* the newline, so that a chunk can end inside a line and inside a         *)
(* boundary.                                                               *)
(***************************************************************************)
EXTENDS Integers, Sequences, SequencesExt

CONSTANTS
  None,        \* no endpoint, no token, no limit
  CorePort,    \* the port Core listens on
  Unreadable,  \* a variable that is set but does not parse
  Limits,      \* timeout_ms, in ticks
  Margin,      \* TIMEOUT_MARGIN_MS
  HopMax,      \* what the hops to Gateway and back take at most
  ClientBound, \* the timeout of the HTTP client the app passed in
  MaxLines     \* bound on the lines of a stream

ASSUME AppEventsAssumption ==
  /\ Limits \subseteq Nat \ {0} /\ \E longest \in Limits : \A limit \in Limits : limit <= longest
  /\ None \notin Limits
  /\ Margin \in Nat /\ HopMax \in Nat /\ HopMax < Margin
  /\ ClientBound \in Nat \ {0} /\ MaxLines \in Nat

ASSUME NoneAssumption == None \notin {"ok", "rejected", "invalid", "not hosted", "timeout"}

VARIABLES
  endpoint, \* core_endpoint_for, or None
  token,    \* whether RYU_EXT_TOKEN is there
  call,     \* the call: its kind, its limit, whether its outcome is only
            \* logged, where it is, how it ended
  core,     \* what Core has done with it
  elapsed,  \* how long it has been under way
  wire,     \* the bytes of the stream
  got,      \* how many of them have arrived
  buffer,   \* those not framed yet
  items     \* what the stream has yielded

stream == <<wire, got, buffer, items>>
vars == <<endpoint, token, call, core, elapsed, stream>>

Kinds == {"emit", "publish", "report", "provider", "status", "authorize", "stream"}
NoRequest == [kind |-> None, limit |-> None, quiet |-> FALSE, pc |-> "idle", outcome |-> None]

\* How a text and an optional one compare with their bounds.
Text == {"blank", "fit", "long", "control"}
OptText == Text \cup {None}

Contents == {"one", "two", "done", "error", "junk", "unknown"}
Lines == {<<"data", x>> : x \in Contents} \cup {<<"comment">>, <<>>}
NL == "newline"
\* What Core sends, line after line.
LineMore(sent) == sent \cup {bytes \o line \o <<NL>> : bytes \in sent, line \in Lines}
WiresOf[n \in 0..MaxLines] == IF n = 0 THEN {<<>>} ELSE LineMore(WiresOf[n - 1])
Wires == WiresOf[MaxLines]

\* Mistaken forms of the definition below them, here and further on.
BoundaryOfLast(bytes) ==
  LET n == Len(bytes) IN IF n >= 2 /\ bytes[n] = NL /\ bytes[n - 1] = NL THEN {n - 1} ELSE {}

\* find_sse_frame_boundary: where a blank line starts, if there is one.
Boundaries(bytes) ==
  LET at == {i \in 1..Len(bytes) - 1 : bytes[i] = NL /\ bytes[i + 1] = NL}
  IN  {i \in at : \A j \in at : i <= j}

\* parse_model_stream_frame: the first data line of a frame decides; nothing
\* comes of a frame without one, or of an event that is not known.
Parsed(frame) ==
  LET datas == {i \in 1..Len(frame) : frame[i] = "data"}
      first == CHOOSE i \in datas : \A j \in datas : i <= j
      content == frame[first + 1]
  IN  IF datas = {} \/ content = "unknown" THEN <<>>
      ELSE << CASE content = "done" -> "completed"
                [] content = "error" -> "failed"
                [] content = "junk" -> "protocol error"
                [] OTHER -> content >>

Terminal == {"completed", "failed", "protocol error", "transport error"}

TypeOK ==
  /\ endpoint \in {CorePort, None} /\ token \in BOOLEAN
  /\ call.kind \in Kinds \cup {None} /\ call.limit \in Limits \cup {None}
  /\ call.pc \in {"idle", "sent", "awaiting", "framing", "ended"}
  /\ call.outcome \in {None, "swallowed", "ok", "invalid", "not hosted", "transport", "timeout", "rejected"}
  /\ core \in {"unseen", "refused", "done"}
  /\ elapsed \in Nat /\ got \in 0..Len(wire) /\ Len(buffer) <= got
  /\ \A i \in 1..Len(items) : items[i] \in Terminal \cup Contents

-----------------------------------------------------------------------------
\* core_endpoint_for: RYU_CORE_PORT, else the port half of RYU_BIND.
EndpointOf(port, bind) ==
  IF port \notin {None, Unreadable} THEN port
  ELSE IF bind \notin {None, Unreadable} THEN bind ELSE None

Init ==
  /\ \E port, bind \in {None, Unreadable, CorePort} : endpoint = EndpointOf(port, bind)
  /\ token \in BOOLEAN
  /\ call = NoRequest /\ core = "unseen" /\ elapsed = 0
  /\ wire = <<>> /\ got = 0 /\ buffer = <<>> /\ items = <<>>

\* is_hosted.
Hosted == endpoint # None /\ token

\* emit, report and publish_best_effort log what became of a call; their
\* caller learns nothing.
Told(outcome) == IF call.quiet THEN "swallowed" ELSE outcome

End(outcome) == call' = [call EXCEPT !.pc = "ended", !.outcome = Told(outcome)]

\* A call up to its POST: validate, then the check for a host.
Post(kind, valid, limit, quiet) ==
  LET outcome == IF ~valid THEN "invalid" ELSE IF ~Hosted THEN "not hosted" ELSE None
  IN  /\ call' = [kind |-> kind, limit |-> IF valid THEN limit ELSE None, quiet |-> quiet,
                  pc |-> IF outcome = None THEN "sent" ELSE "ended",
                  outcome |-> IF quiet /\ outcome # None THEN "swallowed" ELSE outcome]
      /\ UNCHANGED <<endpoint, token, core, elapsed, stream>>

\* try_emit_with_hints: an event has nothing to validate.
Emit == \E quiet \in BOOLEAN : Post("emit", TRUE, None, quiet)

ValidPublish(r) == r.room = "fit" /\ r.event = "fit" /\ r.size = "fit"

Publish ==
  \E quiet \in BOOLEAN, r \in [room : Text, event : Text, size : {"fit", "long"}] :
    Post("publish", ValidPublish(r), None, quiet)

\* Control characters pass here, and a blank optional text.
ValidReport(r) ==
  /\ {r.provider, r.tool, r.request} \subseteq {"fit", "control"}
  /\ r.transaction # "long" /\ r.label # "long" /\ r.calls > 0

Report ==
  \E quiet \in BOOLEAN,
     r \in [provider : Text, tool : Text, request : Text, transaction : OptText,
           label : OptText, calls : 0..1] :
    Post("report", ValidReport(r), None, quiet)

\* The longest time an app may ask for, and what is past it.
MaxLimit == Max(Limits)

ValidCall(r) ==
  /\ {r.provider, r.tool, r.method, r.request} \subseteq {"fit", "control"}
  /\ r.idempotency # "long" /\ r.label # "long"
  /\ r.timeout # None => r.timeout \in 1..MaxLimit

Call ==
  \E r \in [provider : Text, tool : Text, method : Text, request : Text, idempotency : OptText,
           label : OptText, timeout : Limits \cup {None, 0, MaxLimit + 1}] :
    Post("provider", ValidCall(r), r.timeout, FALSE)

\* status_body.
Status == Post("status", TRUE, None, FALSE)

\* authorize_agent: without a grant there is nothing to ask.
Authorize == \E grant \in {"blank", "fit"} : Post("authorize", grant # "blank", None, FALSE)

\* A message is judged by its role and its content; line ends and tabs are no
\* control characters there.
ValidStream(r) ==
  /\ r.model = "fit" /\ r.request = "fit"
  /\ r.messages = "some" /\ r.message = "fit" /\ r.total = "fit"
  /\ r.provider \in {None, "fit"}
  /\ r.tokens \in {None, "fit"} /\ r.temperature \in {None, "fit"}

Stream ==
  \E r \in [model : Text, request : Text, messages : {"none", "some", "many"},
           message : {"fit", "role", "blank", "long", "control"}, total : {"fit", "long"},
           provider : OptText \cup {"url"}, tokens : {None, "zero", "fit", "many"},
           temperature : {None, "fit", "out of range"}] :
    Post("stream", ValidStream(r), None, FALSE)

\* The app makes one call at a time.
Start == Emit \/ Publish \/ Report \/ Call \/ Status \/ Authorize \/ Stream

\* Core takes the request and does what it asks, or refuses; for a stream it
\* settles what it is going to send.
CoreTakes ==
  /\ call.pc = "sent" /\ core = "unseen"
  /\ core' \in {"done", "refused"}
  /\ IF call.kind = "stream" /\ core' = "done" THEN wire' \in Wires ELSE UNCHANGED wire
  /\ UNCHANGED <<endpoint, token, call, elapsed, got, buffer, items>>

\* The answer arrives. Outside 200..299 it is a refusal, whatever its body.
Refused(kind) == call.kind = kind /\ core = "refused" /\ End("rejected")

\* A success has a body, which reads or does not.
ReadBody(kind) == call.kind = kind /\ core = "done" /\ (End("ok") \/ End("transport"))

AnswerEmit == Refused("emit") \/ ReadBody("emit")

\* A broadcast reads no body.
AnswerPublish == Refused("publish") \/ (call.kind = "publish" /\ core = "done" /\ End("ok"))

AnswerReport == Refused("report") \/ ReadBody("report")

AnswerCall == Refused("provider") \/ ReadBody("provider")

AnswerStatus == Refused("status") \/ ReadBody("status")

\* A success without "allowed" is a refusal, and so is one whose body does not
\* read: only Core's yes is one.
AnswerAuthorize ==
  \/ Refused("authorize")
  \/ call.kind = "authorize" /\ core = "refused" /\ End("transport")
  \/ ReadBody("authorize")

AnswerStream ==
  \/ Refused("stream")
  \/ call.kind = "stream" /\ core = "done" /\ call' = [call EXCEPT !.pc = "awaiting"]

Answered ==
  /\ call.pc = "sent" /\ core # "unseen"
  /\ \/ AnswerEmit \/ AnswerPublish \/ AnswerReport \/ AnswerCall \/ AnswerStatus
     \/ AnswerAuthorize \/ AnswerStream
  /\ UNCHANGED <<endpoint, token, core, elapsed, stream>>

\* The connection fails, before Core saw the request or after.
Lost ==
  /\ call.pc = "sent" /\ End("transport")
  /\ UNCHANGED <<endpoint, token, core, elapsed, stream>>

OwnBound == ClientBound

\* A call that names a limit replaces the client's own bound by the limit and
\* a margin (call_with_agent_grant).
TimeBound == IF call.limit # None THEN call.limit + Margin ELSE ClientBound

TimeOut ==
  /\ call.pc = "sent" /\ call.kind = "provider" /\ elapsed >= TimeBound
  /\ End("timeout") /\ UNCHANGED <<endpoint, token, core, elapsed, stream>>

\* Time passes for a provider call. Gateway ends a call with a limit by that
\* limit, and the hops take HopMax at most.
Tick ==
  /\ call.pc = "sent" /\ call.kind = "provider" /\ elapsed < TimeBound
  /\ call.limit # None => elapsed < call.limit + HopMax
  /\ elapsed' = elapsed + 1 /\ UNCHANGED <<endpoint, token, call, core, stream>>

Yield(item) == items' = Append(items, item)

\* upstream.next: a chunk of any length.
Chunk ==
  /\ call.pc = "awaiting"
  /\ \E n \in got + 1..Len(wire) :
       /\ got' = n /\ buffer' = buffer \o SubSeq(wire, got + 1, n)
  /\ call' = [call EXCEPT !.pc = "framing"]
  /\ UNCHANGED <<endpoint, token, core, elapsed, wire, items>>

FrameOn ==
  LET at == Boundaries(buffer)
  IN  /\ call.pc = "framing"
      /\ IF at = {} THEN call' = [call EXCEPT !.pc = "awaiting"] /\ UNCHANGED <<buffer, items>>
         ELSE \E i \in at :
                /\ buffer' = SubSeq(buffer, i + 2, Len(buffer))
                /\ items' = items \o Parsed(SubSeq(buffer, 1, i - 1))
                /\ UNCHANGED call
      /\ UNCHANGED <<endpoint, token, core, elapsed, wire, got>>

\* The inner loop: frame after frame, until none is whole or one is terminal.
Frame ==
  LET at == Boundaries(buffer)
  IN  /\ call.pc = "framing"
      /\ IF at = {} THEN call' = [call EXCEPT !.pc = "awaiting"] /\ UNCHANGED <<buffer, items>>
         ELSE \E i \in at :
                LET item == Parsed(SubSeq(buffer, 1, i - 1))
                IN  /\ buffer' = SubSeq(buffer, i + 2, Len(buffer))
                    /\ items' = items \o item
                    /\ IF ToSet(item) \cap Terminal # {} THEN End("ok") ELSE UNCHANGED call
      /\ UNCHANGED <<endpoint, token, core, elapsed, wire, got>>

\* The body ends, or breaks, without a terminal event.
Eof ==
  /\ call.pc = "awaiting" /\ got = Len(wire)
  /\ Yield("protocol error") /\ End("ok")
  /\ UNCHANGED <<endpoint, token, core, elapsed, wire, got, buffer>>

Broken ==
  /\ call.pc = "awaiting"
  /\ Yield("transport error") /\ End("ok")
  /\ UNCHANGED <<endpoint, token, core, elapsed, wire, got, buffer>>

\* The app makes its next call.
Over ==
  /\ call.pc = "ended"
  /\ call' = NoRequest /\ core' = "unseen" /\ elapsed' = 0
  /\ wire' = <<>> /\ got' = 0 /\ buffer' = <<>> /\ items' = <<>>
  /\ UNCHANGED <<endpoint, token>>

Next ==
  \/ call.pc = "idle" /\ Start
  \/ CoreTakes \/ Answered \/ Lost \/ TimeOut \/ Tick
  \/ Chunk \/ Frame \/ Eof \/ Broken \/ Over

Spec == Init /\ [][Next]_vars

-----------------------------------------------------------------------------
\* What a call reports never claims more than happened: a success means Core
\* did it, a refusal or a local error that it did not, and only a lost answer
\* leaves it open (try_emit, publish, try_report, call, authorize_agent,
\* stream). A provider call that asked for its own time is decided by Gateway's
\* answer, never by the app's clock, however short the app's own bound is
\* (ManagedProviderCall::timeout_ms, TIMEOUT_MARGIN_MS).
OutcomesAreHonest ==
  /\ call.outcome = "ok" => core = "done"
  /\ call.outcome = "rejected" => core = "refused"
  /\ call.outcome \in {"invalid", "not hosted"} => core = "unseen"
  /\ core # "unseen" => endpoint # None /\ token
  /\ call.limit # None => call.outcome # "timeout"

\* A stream yields one terminal item, the last one, and an ended stream has
\* yielded it (ModelStreamClient::stream).
OneTerminal ==
  /\ \A i \in 1..Len(items) : items[i] \in Terminal => i = Len(items) /\ call.pc = "ended"
  /\ call.kind = "stream" /\ call.outcome = "ok" => items # <<>> /\ Last(items) \in Terminal

Closed(said) == said # <<>> /\ Last(said) \in Terminal

\* What bytes say when read at once, one after the other: the text before each
\* blank line is a frame.
ReadOn(before, byte) ==
  LET open == Append(before.open, byte)
      n == Len(open)
  IN  IF n >= 2 /\ open[n] = NL /\ open[n - 1] = NL
      THEN [items |-> IF Closed(before.items) THEN before.items
                      ELSE before.items \o Parsed(SubSeq(open, 1, n - 2)),
            open |-> <<>>]
      ELSE [items |-> before.items, open |-> open]

Said(bytes) ==
  LET read[i \in 0..Len(bytes)] ==
        IF i = 0 THEN [items |-> <<>>, open |-> <<>>] ELSE ReadOn(read[i - 1], bytes[i])
  IN  read[Len(bytes)].items

\* How Core's bytes are cut into chunks does not show: what the stream yields
\* is a prefix of what the whole wire says, cut short only by a transport
\* error, and closed by a protocol error when the wire has no terminal event.
ChunksDoNotMatter ==
  LET said == Said(wire)
      full == IF Closed(said) THEN said ELSE Append(said, "protocol error")
  IN  call.kind = "stream" /\ core = "done" /\ items # <<>> =>
        \/ items = full
        \/ IsStrictPrefix(items, full) /\ call.pc # "ended"
        \/ Last(items) = "transport error" /\ IsPrefix(Front(items), full)
=============================================================================
