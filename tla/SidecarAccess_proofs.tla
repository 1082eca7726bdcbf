------------------------- MODULE SidecarAccess_proofs -------------------------
(* Proofs about SidecarAccess, for any runs, tokens, callers and times.      *)
EXTENDS SidecarAccess, TLAPS

(***************************************************************************)
(* Why a handoff leads to its own run. The run on the port is the only one *)
(* past its bind and before its shutdown, so a handoff is replaced only by *)
(* a younger run's; and a run is about to remove the file only because it  *)
(* was its own, which no run that serves undisturbed leaves it to be.      *)
(***************************************************************************)
OnThePort ==
  \A r \in Runs : phase[r] \in {"bound", "written", "serving"} => listener = r

Undisturbed ==
  \A r \in Runs : phase[r] = "serving" /\ ~raced =>
    file = r /\ \A s \in Runs : phase[s] # "removing"

(* What a client shows is a handoff token, and it passed in its own run. *)
ClientShowsHandoff ==
  /\ client.pc # "idle" => client.token \in Runs
  /\ client.pc = "passed" => client.by = client.token /\ client.route = "handoff"

HandoffInv == HandoffTypeOK /\ OnThePort /\ Undisturbed /\ ClientShowsHandoff

LEMMA HandoffStep ==
  ASSUME HandoffInv, HandoffNext
  PROVE  HandoffInv'
<1> USE HandoffAssumption DEF HandoffInv, MoveTo
<1>0. phase \in [Runs -> {"unborn", "bound", "written", "serving", "stopping", "removing", "gone"}]
  BY DEF HandoffTypeOK
<1>1. ASSUME NEW r \in Runs, Bind(r) PROVE HandoffInv'
  BY <1>0, <1>1 DEF Bind, HandoffTypeOK, OnThePort, Undisturbed, ClientShowsHandoff
<1>2. ASSUME NEW r \in Runs, WriteTemp(r) PROVE HandoffInv'
  BY <1>0, <1>2 DEF WriteTemp, HandoffTypeOK, OnThePort, Undisturbed, ClientShowsHandoff
<1>3. ASSUME NEW r \in Runs, Rename(r) PROVE HandoffInv'
  <2>1. \A s \in Runs : phase'[s] = IF s = r THEN "serving" ELSE phase[s]
    BY <1>0, <1>3 DEF Rename
  <2>2. \A s \in Runs : phase'[s] = "serving" => s = r
    BY <1>3, <2>1 DEF Rename, OnThePort
  <2>3. Undisturbed'
    BY <1>3, <2>1, <2>2 DEF Rename, Undisturbed
  <2> QED BY <1>0, <1>3, <2>1, <2>3 DEF Rename, HandoffTypeOK, OnThePort, ClientShowsHandoff
<1>4. ASSUME NEW r \in Runs, ShutDown(r) PROVE HandoffInv'
  BY <1>0, <1>4 DEF ShutDown, HandoffTypeOK, OnThePort, Undisturbed, ClientShowsHandoff
<1>5. ASSUME NEW r \in Runs, Withdraw(r) PROVE HandoffInv'
  <2>1. \A s \in Runs : s # r => phase'[s] = phase[s]
    BY <1>0, <1>5 DEF Withdraw
  <2>2. phase'[r] = IF file = r THEN "removing" ELSE "gone"
    BY <1>0, <1>5 DEF Withdraw
  <2>3. phase[r] = "stopping"
    BY <1>5 DEF Withdraw
  <2>4. Undisturbed'
    BY <1>5, <2>1, <2>2, <2>3 DEF Withdraw, Undisturbed
  <2> QED BY <1>0, <1>5, <2>1, <2>2, <2>4
       DEF Withdraw, HandoffTypeOK, OnThePort, ClientShowsHandoff
<1>6. ASSUME NEW r \in Runs, Remove(r) PROVE HandoffInv'
  BY <1>0, <1>6 DEF Remove, HandoffTypeOK, OnThePort, Undisturbed, ClientShowsHandoff
<1>7. ASSUME NEW r \in Runs, Kill(r) PROVE HandoffInv'
  BY <1>0, <1>7 DEF Kill, HandoffTypeOK, OnThePort, Undisturbed, ClientShowsHandoff
<1>8. CASE Takeover
  BY <1>8 DEF Takeover, handoff, HandoffTypeOK, OnThePort, Undisturbed, ClientShowsHandoff
<1>9. CASE Load \/ Probe \/ Request \/ Answered
  <2>1. /\ listener' = listener /\ phase' = phase /\ file' = file /\ raced' = raced
    BY <1>9 DEF Load, Probe, Request, Answered
  <2>2. client \in [pc : {"idle", "loaded", "connected", "passed"}, token : Runs \cup {None},
                    by : Runs \cup {None}, route : Routes \cup {None}]
    BY DEF HandoffTypeOK
  <2>3. CASE Load
    BY <2>2, <2>3 DEF Load, Unconnected, HandoffTypeOK, ClientShowsHandoff, OnThePort,
                      Undisturbed, Routes
  <2>4. CASE Probe
    BY <2>1, <2>2, <2>4 DEF Probe, Unconnected, HandoffTypeOK, ClientShowsHandoff, OnThePort,
                            Undisturbed, Routes
  <2>5. CASE Request
    <3>1. PICK route \in Routes :
            /\ listener \in Runs /\ Authorize(client.token, listener, route)
            /\ client' = [client EXCEPT !.pc = "passed", !.by = listener, !.route = route]
      BY <2>5 DEF Request
    <3>2. client.token \in Runs /\ ext[listener] \in Tokens
      BY <2>5, <3>1 DEF Request, ClientShowsHandoff
    <3>3. client.token = listener /\ route = "handoff"
      BY <3>1, <3>2 DEF Authorize
    <3> QED BY <2>1, <2>2, <3>1, <3>2, <3>3
         DEF HandoffTypeOK, ClientShowsHandoff, OnThePort, Undisturbed
  <2>6. CASE Answered
    <3>1. CASE client' = Unconnected
      BY <2>1, <3>1 DEF Unconnected, HandoffTypeOK, ClientShowsHandoff, OnThePort, Undisturbed,
                        Routes
    <3>2. CASE client.pc = "passed"
               /\ client' = [client EXCEPT !.pc = "connected", !.by = None, !.route = None]
      <4>1. /\ client'.pc = "connected" /\ client'.token \in Runs
            /\ client' \in [pc : {"idle", "loaded", "connected", "passed"},
                           token : Runs \cup {None}, by : Runs \cup {None},
                           route : Routes \cup {None}]
        BY <2>2, <3>2 DEF ClientShowsHandoff
      <4> QED BY <2>1, <4>1 DEF HandoffTypeOK, ClientShowsHandoff, OnThePort, Undisturbed
    <3> QED BY <2>6, <3>1, <3>2 DEF Answered
  <2> QED BY <1>9, <2>3, <2>4, <2>5, <2>6
<1> QED
  BY <1>1, <1>2, <1>3, <1>4, <1>5, <1>6, <1>7, <1>8, <1>9 DEF HandoffNext

(***************************************************************************)
(* The handoff of the run that serves stays published unless it came       *)
(* between an older run's look at the file and its removal, and a loaded   *)
(* token passes only in the run that minted it and on a handoff route, for *)
(* any number of runs and any tokens (publish, withdraw, authorize).       *)
(***************************************************************************)
THEOREM HandoffIsItsRuns == Spec => []HandoffLeadsToItsRun
<1>1. Init => HandoffInv
  <2> SUFFICES ASSUME HandoffInit PROVE HandoffInv
    BY DEF Init
  <2>1. HandoffTypeOK
    BY DEF HandoffInit, HandoffTypeOK, Unconnected
  <2>2. OnThePort /\ Undisturbed /\ ClientShowsHandoff
    BY DEF HandoffInit, OnThePort, Undisturbed, ClientShowsHandoff, Unconnected
  <2> QED BY <2>1, <2>2 DEF HandoffInv
<1>2. ASSUME HandoffInv, [Next]_vars PROVE HandoffInv'
  <2>1. CASE HandoffNext
    BY <1>2, <2>1, HandoffStep
  <2>2. CASE (P!ProofNext \/ Deliver) /\ UNCHANGED handoff
    <3>1. listener' = listener
      BY <2>2 DEF P!ProofNext, P!Check, P!Answer, P!Remember, P!Forget, P!Tick, Deliver, P!Send
    <3> QED BY <1>2, <2>2, <3>1
         DEF handoff, HandoffInv, HandoffTypeOK, OnThePort, Undisturbed, ClientShowsHandoff
  <2>3. CASE UNCHANGED vars
    BY <1>2, <2>3
       DEF vars, handoff, HandoffInv, HandoffTypeOK, OnThePort, Undisturbed, ClientShowsHandoff
  <2> QED BY <1>2, <2>1, <2>2, <2>3 DEF Next
<1>3. HandoffInv => HandoffLeadsToItsRun
  BY DEF HandoffInv, Undisturbed, ClientShowsHandoff, HandoffLeadsToItsRun
<1> QED BY <1>1, <1>2, <1>3, PTL DEF Spec
-----------------------------------------------------------------------------
(***************************************************************************)
(* Why a bearer follows a proof. A probe is over before ProbeMax is, so    *)
(* whatever it proves is that young when it is remembered; a cached proof  *)
(* is used for less than Ttl; and no caller keeps a URL the resolver may   *)
(* take elsewhere.                                                         *)
(***************************************************************************)
Calls ==
  [pc : {"idle", "probing", "proven", "unproven", "cleared"},
   host : P!Addresses \cup {Never}, token : Tokens \cup {Never}, at : Nat]

Shown(call) == proven[<<call.host, call.token>>]

CallTimes ==
  /\ caller \in [Callers -> Calls]
  /\ \A c \in Callers :
       /\ caller[c].pc # "idle" => caller[c].host \in P!Addresses /\ caller[c].token \in Tokens
       /\ caller[c].pc \in {"probing", "proven", "unproven"} =>
            0 < caller[c].at /\ caller[c].at <= now /\ now <= caller[c].at + ProbeMax
       /\ caller[c].pc = "proven" => caller[c].at <= Shown(caller[c])
       /\ caller[c].pc = "cleared" =>
            0 < Shown(caller[c]) /\ caller[c].at < Shown(caller[c]) + Ttl + ProbeMax

CacheIsYoung ==
  cache # Never =>
    /\ cache.url \in P!Addresses /\ cache.token \in Tokens /\ cache.proven_at \in Nat
    /\ 0 < proven[<<cache.url, cache.token>>]
    /\ cache.proven_at <= proven[<<cache.url, cache.token>>] + ProbeMax

ProofTimes ==
  /\ now \in Nat \ {0} /\ proven \in [P!Addresses \X Tokens -> Nat]
  /\ \A x \in P!Addresses \X Tokens : proven[x] <= now

ProofInv == ProofTimes /\ CallTimes /\ CacheIsYoung

(* A step of one caller leaves the calls of the others as they are. *)
LEMMA CallOfOne ==
  ASSUME ProofInv, NEW c \in Callers, NEW call \in Calls,
         caller' = [caller EXCEPT ![c] = call], now' = now, proven' = proven,
         call.pc # "idle" => call.host \in P!Addresses /\ call.token \in Tokens,
         call.pc \in {"probing", "proven", "unproven"} =>
           0 < call.at /\ call.at <= now /\ now <= call.at + ProbeMax,
         call.pc = "proven" => call.at <= Shown(call),
         call.pc = "cleared" =>
           0 < Shown(call) /\ call.at < Shown(call) + Ttl + ProbeMax
  PROVE  ProofTimes' /\ CallTimes'
<1>1. caller \in [Callers -> Calls]
  BY DEF ProofInv, CallTimes
<1>2. \A d \in Callers : caller'[d] = IF d = c THEN call ELSE caller[d]
  BY <1>1
<1>3. caller' \in [Callers -> Calls]
  BY <1>1
<1>4. ProofTimes'
  BY DEF ProofInv, ProofTimes
<1>5. /\ proven'[<<call.host, call.token>>] = Shown(call)
      /\ \A d \in Callers : proven'[<<caller[d].host, caller[d].token>>] = Shown(caller[d])
  BY DEF Shown
<1> QED BY <1>2, <1>3, <1>4, <1>5 DEF ProofInv, CallTimes, Shown

LEMMA ProofStep ==
  ASSUME ProofInv, P!ProofNext \/ Deliver
  PROVE  ProofInv'
<1> USE ProofAssumption
<1>0. /\ caller \in [Callers -> Calls] /\ now \in Nat \ {0}
      /\ proven \in [P!Addresses \X Tokens -> Nat]
  BY DEF ProofInv, CallTimes, ProofTimes
<1>1. P!Resting \in Calls /\ P!Resting.pc = "idle"
  BY DEF P!Resting, Calls
<1>2. ASSUME NEW c \in Callers, P!Check(c) PROVE ProofInv'
  <2>1. PICK host \in Hosts, token \in Tokens :
          caller' = [caller EXCEPT ![c] =
            [pc |-> IF P!IsFresh(P!Pinned(host), token) THEN "cleared" ELSE "probing",
             host |-> P!Pinned(host), token |-> token, at |-> now]]
    BY <1>2 DEF P!Check
  <2>2. now' = now /\ cache' = cache /\ proven' = proven
    BY <1>2 DEF P!Check
  <2> DEFINE address == P!Pinned(host)
             call == [pc |-> IF P!IsFresh(address, token) THEN "cleared" ELSE "probing",
                      host |-> address, token |-> token, at |-> now]
  <2>3. address \in P!Addresses
    BY DEF P!Pinned, P!Addresses
  <2>4. P!IsFresh(address, token) =>
          0 < proven[<<address, token>>] /\ now < proven[<<address, token>>] + Ttl + ProbeMax
    <3>1. SUFFICES ASSUME P!IsFresh(address, token)
                   PROVE  0 < proven[<<address, token>>]
                          /\ now < proven[<<address, token>>] + Ttl + ProbeMax
      OBVIOUS
    <3>2. cache # Never /\ cache.url = address /\ cache.token = token /\ now - cache.proven_at < Ttl
      BY <3>1 DEF P!IsFresh
    <3>3. /\ cache.proven_at \in Nat /\ 0 < proven[<<address, token>>]
          /\ cache.proven_at <= proven[<<address, token>>] + ProbeMax
      BY <3>2 DEF ProofInv, CacheIsYoung
    <3>4. proven[<<address, token>>] \in Nat
      BY <1>0, <2>3
    <3> HIDE DEF address
    <3> QED BY <1>0, <3>2, <3>3, <3>4
  <2> HIDE DEF address
  <2>5. call \in Calls
    BY <1>0, <2>3 DEF Calls
  <2>6. ProofTimes' /\ CallTimes'
    <3>1. /\ call.host = address /\ call.token = token /\ call.at = now
          /\ call.pc \in {"cleared", "probing"}
          /\ call.pc = "cleared" => P!IsFresh(address, token)
      OBVIOUS
    <3>2. caller' = [caller EXCEPT ![c] = call]
      BY <2>1 DEF address
    <3> HIDE DEF call
    <3>3. call.pc = "cleared" => 0 < Shown(call) /\ call.at < Shown(call) + Ttl + ProbeMax
      BY <2>4, <3>1 DEF Shown
    <3>4. call.pc \in {"probing", "proven", "unproven"} =>
            0 < call.at /\ call.at <= now /\ now <= call.at + ProbeMax
      BY <1>0, <3>1
    <3> QED BY <2>2, <2>3, <2>5, <3>1, <3>2, <3>3, <3>4, CallOfOne
  <2> QED BY <2>2, <2>6 DEF ProofInv, CacheIsYoung
<1>3. ASSUME NEW c \in Callers, P!Answer(c) PROVE ProofInv'
  <2> DEFINE token == caller[c].token
             host == caller[c].host
  <2>1. /\ caller[c].pc = "probing" /\ now' = now /\ cache' = cache
        /\ \/ /\ \E address \in P!Resolve(host) :
                   /\ address = "127.0.0.1"
                   /\ proven' = [proven EXCEPT ![<<address, token>>] = now]
              /\ caller' = [caller EXCEPT ![c].pc = "proven"]
           \/ caller' = [caller EXCEPT ![c].pc = "unproven"] /\ proven' = proven
    BY <1>3 DEF P!Answer
  <2>2. /\ host \in P!Addresses /\ token \in Tokens
        /\ 0 < caller[c].at /\ caller[c].at <= now /\ now <= caller[c].at + ProbeMax
    BY <2>1 DEF ProofInv, CallTimes
  <2>3. P!Resolve(host) = {host}
    BY <2>2 DEF P!Resolve, P!Addresses
  <2>4. CASE caller' = [caller EXCEPT ![c].pc = "unproven"] /\ proven' = proven
    <3>1. PICK call : call = [caller[c] EXCEPT !.pc = "unproven"]
      OBVIOUS
    <3>2. /\ call \in Calls /\ call.pc = "unproven" /\ call.at = caller[c].at
          /\ call.host = host /\ call.token = token
      BY <1>0, <3>1 DEF Calls
    <3>3. caller' = [caller EXCEPT ![c] = call]
      BY <2>4, <3>1
    <3> HIDE DEF token, host
    <3>4. ProofTimes' /\ CallTimes'
      BY <2>1, <2>2, <2>4, <3>2, <3>3, CallOfOne
    <3> QED BY <2>1, <2>4, <3>4 DEF ProofInv, CacheIsYoung
  <2>5. CASE /\ proven' = [proven EXCEPT ![<<host, token>>] = now]
             /\ caller' = [caller EXCEPT ![c].pc = "proven"]
    <3> HIDE DEF token, host
    <3>1. /\ \A x \in P!Addresses \X Tokens :
               proven'[x] = IF x = <<host, token>> THEN now ELSE proven[x]
          /\ proven' \in [P!Addresses \X Tokens -> Nat]
      BY <1>0, <2>2, <2>5
    <3>2. \A x \in P!Addresses \X Tokens : proven[x] <= proven'[x] /\ proven'[x] <= now
      BY <1>0, <3>1 DEF ProofInv, ProofTimes
    <3>3. ProofTimes'
      BY <1>0, <2>1, <3>1, <3>2 DEF ProofTimes
    <3>4. CacheIsYoung'
      <4> SUFFICES ASSUME cache # Never
                   PROVE  /\ cache.url \in P!Addresses /\ cache.token \in Tokens
                          /\ cache.proven_at \in Nat
                          /\ 0 < proven'[<<cache.url, cache.token>>]
                          /\ cache.proven_at <= proven'[<<cache.url, cache.token>>] + ProbeMax
        BY <2>1 DEF CacheIsYoung
      <4> DEFINE x == <<cache.url, cache.token>>
      <4>1. /\ x \in P!Addresses \X Tokens /\ cache.proven_at \in Nat
            /\ 0 < proven[x] /\ cache.proven_at <= proven[x] + ProbeMax
        BY DEF ProofInv, CacheIsYoung
      <4>2. proven[x] <= proven'[x] /\ proven[x] \in Nat /\ proven'[x] \in Nat
        BY <1>0, <3>1, <3>2, <4>1
      <4> HIDE DEF x
      <4>3. 0 < proven'[x] /\ cache.proven_at <= proven'[x] + ProbeMax
        BY <4>1, <4>2
      <4> QED BY <4>1, <4>3 DEF x
    <3>5. CallTimes'
      <4>1. \A d \in Callers :
              /\ caller'[d].host = caller[d].host /\ caller'[d].token = caller[d].token
              /\ caller'[d].at = caller[d].at
              /\ caller'[d].pc = IF d = c THEN "proven" ELSE caller[d].pc
        BY <1>0, <2>5 DEF Calls
      <4>2. caller' \in [Callers -> Calls]
        BY <1>0, <2>5 DEF Calls
      <4>3. ASSUME NEW d \in Callers, caller'[d].pc = "proven"
            PROVE  caller'[d].at <= proven'[<<caller'[d].host, caller'[d].token>>]
        <5> DEFINE x == <<caller[d].host, caller[d].token>>
        <5>1. CASE d = c
          <6>1. proven'[<<host, token>>] = now
            BY <2>2, <3>1
          <6> QED BY <2>2, <4>1, <5>1, <6>1 DEF host, token
        <5>2. CASE d # c
          <6>1. caller[d].pc = "proven"
            BY <4>1, <4>3, <5>2
          <6>2. x \in P!Addresses \X Tokens /\ caller[d].at <= proven[x] /\ caller[d].at \in Nat
            BY <1>0, <6>1 DEF ProofInv, CallTimes, Shown, Calls
          <6>3. proven[x] <= proven'[x] /\ proven[x] \in Nat /\ proven'[x] \in Nat
            BY <1>0, <3>1, <3>2, <6>2
          <6>4. <<caller'[d].host, caller'[d].token>> = x /\ caller'[d].at = caller[d].at
            BY <4>1
          <6> HIDE DEF x
          <6> QED BY <6>2, <6>3, <6>4
        <5> QED BY <5>1, <5>2
      <4>4. ASSUME NEW d \in Callers, caller'[d].pc = "cleared"
            PROVE  LET shown == proven'[<<caller'[d].host, caller'[d].token>>]
                   IN  0 < shown /\ caller'[d].at < shown + Ttl + ProbeMax
        <5> DEFINE x == <<caller[d].host, caller[d].token>>
        <5>1. caller[d].pc = "cleared"
          BY <4>1, <4>4
        <5>2. /\ x \in P!Addresses \X Tokens /\ caller[d].at \in Nat
              /\ 0 < proven[x] /\ caller[d].at < proven[x] + Ttl + ProbeMax
          BY <1>0, <5>1 DEF ProofInv, CallTimes, Shown, Calls
        <5>3. proven[x] <= proven'[x] /\ proven[x] \in Nat /\ proven'[x] \in Nat
          BY <1>0, <3>1, <3>2, <5>2
        <5>4. <<caller'[d].host, caller'[d].token>> = x /\ caller'[d].at = caller[d].at
          BY <4>1
        <5> HIDE DEF x
        <5> QED BY <5>2, <5>3, <5>4
      <4>5. \A d \in Callers :
              /\ caller'[d].pc # "idle" =>
                   caller'[d].host \in P!Addresses /\ caller'[d].token \in Tokens
              /\ caller'[d].pc \in {"probing", "proven", "unproven"} =>
                   0 < caller'[d].at /\ caller'[d].at <= now /\ now <= caller'[d].at + ProbeMax
        BY <2>1, <2>2, <4>1 DEF ProofInv, CallTimes
      <4> QED BY <2>1, <4>2, <4>3, <4>4, <4>5 DEF CallTimes, Shown
    <3> QED BY <3>3, <3>4, <3>5 DEF ProofInv
  <2> QED BY <2>1, <2>3, <2>4, <2>5
<1>4. ASSUME NEW c \in Callers, P!Remember(c) PROVE ProofInv'
  <2>1. /\ caller[c].pc = "proven" /\ now' = now /\ proven' = proven
        /\ cache' = [url |-> caller[c].host, token |-> caller[c].token, proven_at |-> now]
        /\ caller' = [caller EXCEPT ![c].pc = "cleared", ![c].at = now]
    BY <1>4 DEF P!Remember
  <2>2. /\ <<caller[c].host, caller[c].token>> \in P!Addresses \X Tokens
        /\ 0 < caller[c].at /\ caller[c].at <= Shown(caller[c])
        /\ now <= caller[c].at + ProbeMax
    BY <2>1 DEF ProofInv, CallTimes
  <2>3. caller[c].at \in Nat /\ Shown(caller[c]) \in Nat
    BY <1>0, <2>2 DEF Calls, Shown
  <2>4. 0 < Shown(caller[c]) /\ now <= Shown(caller[c]) + ProbeMax
    BY <1>0, <2>2, <2>3
  <2>5. PICK call : call = [caller[c] EXCEPT !.pc = "cleared", !.at = now]
    OBVIOUS
  <2>6. /\ call \in Calls /\ call.pc = "cleared" /\ call.at = now
        /\ call.host = caller[c].host /\ call.token = caller[c].token
    BY <1>0, <2>5 DEF Calls
  <2>7. caller' = [caller EXCEPT ![c] = call]
    BY <2>1, <2>5
  <2>8. now < Shown(call) + Ttl + ProbeMax
    BY <1>0, <2>3, <2>4, <2>6 DEF Shown
  <2>9. ProofTimes' /\ CallTimes'
    BY <2>1, <2>2, <2>4, <2>6, <2>7, <2>8, CallOfOne DEF Shown
  <2>10. CacheIsYoung'
    BY <1>0, <2>1, <2>2, <2>4 DEF CacheIsYoung, Shown
  <2> QED BY <2>9, <2>10 DEF ProofInv
<1>5. ASSUME NEW c \in Callers, NEW address, P!Forget(c) \/ P!Send(c, address) PROVE ProofInv'
  <2>1. /\ caller' = [caller EXCEPT ![c] = P!Resting] /\ now' = now /\ proven' = proven
        /\ cache' \in {cache, Never}
    BY <1>5 DEF P!Forget, P!Send
  <2>2. ProofTimes' /\ CallTimes'
    BY <1>1, <2>1, CallOfOne
  <2>3. CacheIsYoung'
    BY <2>1 DEF ProofInv, CacheIsYoung
  <2> QED BY <2>2, <2>3 DEF ProofInv
<1>6. CASE P!Tick
  <2>1. /\ now' = now + 1 /\ caller' = caller /\ cache' = cache /\ proven' = proven
        /\ \A c \in Callers : caller[c].pc \in {"probing", "proven", "unproven"}
                                => now < caller[c].at + ProbeMax
    BY <1>6 DEF P!Tick
  <2>2. ProofTimes'
    BY <1>0, <2>1 DEF ProofInv, ProofTimes
  <2>3. CallTimes'
    <3>1. \A c \in Callers : caller[c].at \in Nat
      BY <1>0 DEF Calls
    <3> QED BY <1>0, <2>1, <3>1 DEF ProofInv, CallTimes, Shown
  <2>4. CacheIsYoung'
    BY <2>1 DEF ProofInv, CacheIsYoung
  <2> QED BY <2>2, <2>3, <2>4 DEF ProofInv
<1> QED BY <1>2, <1>3, <1>4, <1>5, <1>6 DEF P!ProofNext, Deliver

(***************************************************************************)
(* No bearer goes where nobody has shown, less than Ttl and a probe ago,   *)
(* to hold it, for any callers sharing the cache, any tokens, times and    *)
(* listeners (send_with_verified_bearer, peer_holds_token, ProofCache).    *)
(***************************************************************************)
THEOREM BearersFollowProofs == Spec => []BearerFollowsProof
<1>1. Init => ProofInv
  <2> SUFFICES ASSUME P!ProofInit PROVE ProofInv
    BY DEF Init
  <2>1. P!Resting \in Calls
    BY DEF P!Resting, Calls
  <2>2. CallTimes
    BY <2>1 DEF P!ProofInit, P!Resting, CallTimes
  <2>3. ProofTimes /\ CacheIsYoung
    BY DEF P!ProofInit, ProofTimes, CacheIsYoung
  <2> QED BY <2>2, <2>3 DEF ProofInv
<1>2. ASSUME ProofInv, [Next]_vars PROVE ProofInv'
  <2>1. CASE P!ProofNext \/ Deliver
    BY <1>2, <2>1, ProofStep
  <2>2. CASE UNCHANGED proofs
    BY <1>2, <2>2 DEF proofs, ProofInv, ProofTimes, CallTimes, CacheIsYoung, Shown
  <2> QED BY <1>2, <2>1, <2>2 DEF Next, vars
<1>3. ASSUME ProofInv PROVE BearerFollowsProof
  <2> SUFFICES ASSUME NEW c \in Callers, caller[c].pc = "cleared",
                      NEW address \in P!Resolve(caller[c].host)
               PROVE  LET when == proven[<<address, caller[c].token>>]
                      IN  when > 0 /\ caller[c].at - when < Ttl + ProbeMax
    BY DEF BearerFollowsProof, P!BearerFollowsProof
  <2>1. /\ caller[c].host \in P!Addresses /\ caller[c].token \in Tokens /\ caller[c].at \in Nat
        /\ 0 < Shown(caller[c]) /\ caller[c].at < Shown(caller[c]) + Ttl + ProbeMax
    BY <1>3 DEF ProofInv, CallTimes, Calls
  <2>2. address = caller[c].host
    BY <2>1 DEF P!Resolve, P!Addresses
  <2>3. Shown(caller[c]) \in Nat
    BY <1>3, <2>1 DEF ProofInv, ProofTimes, Shown
  <2> QED BY <2>1, <2>2, <2>3, ProofAssumption DEF Shown
<1> QED BY <1>1, <1>2, <1>3, PTL DEF Spec
=============================================================================
