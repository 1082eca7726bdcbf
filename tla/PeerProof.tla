----------------------------- MODULE PeerProof ------------------------------
(***************************************************************************)
(* The loopback peer proof of sidecar-runtime/src/peer_proof.rs: a caller  *)
(* sends a bearer to an address only after whoever listens there answered  *)
(* a fresh challenge with the token, and a cache that all callers share    *)
(* remembers the last success for Ttl. A proof is abstracted to whether    *)
(* the listener holds the token. Time is counted in ticks; a probe takes   *)
(* at most ProbeMax of them. Nothing of the sidecar listens on ::1.        *)
(***************************************************************************)
EXTENDS Naturals

CONSTANTS
  Hosts,    \* the hosts of the URLs callers use
  Callers,  \* concurrent send_with_verified_bearer calls
  Tokens,   \* tokens a caller may have
  Never,    \* no proof yet, nothing cached
  Ttl,      \* how long the cache takes a proof for fresh
  ProbeMax, \* the probe client's timeout
  MaxNow,   \* bound on the clock
  HoldsToken(_, _) \* whether a listener holds a token

VARIABLES
  listener, \* who listens at 127.0.0.1
  now,      \* the clock
  caller,   \* what each caller is doing
  cache,    \* the ProofCache's entry
  proven    \* when an address last proved it holds a token, 0 for never


Addresses == {"127.0.0.1", "[::1]"}
Resting == [pc |-> "idle", host |-> Never, token |-> Never, at |-> 0]

ProofTypeOK ==
  /\ now \in 1..MaxNow
  /\ \A c \in Callers :
       \/ caller[c] = Resting
       \/ /\ caller[c].pc \in {"probing", "proven", "unproven", "cleared"}
          /\ caller[c].host \in Addresses /\ caller[c].token \in Tokens /\ caller[c].at \in 1..now
  /\ \/ cache = Never
     \/ cache.url \in Addresses /\ cache.token \in Tokens /\ cache.proven_at \in 1..now
  /\ proven \in [Addresses \X Tokens -> 0..now]

ProofInit ==
  /\ now = 1 /\ caller = [c \in Callers |-> Resting] /\ cache = Never
  /\ proven = [x \in Addresses \X Tokens |-> 0]

\* What the resolver may make of a host, anew for every connection.
Resolve(host) == IF host = "localhost" THEN Addresses ELSE {host}

\* pin_localhost.
Pinned(host) == IF host = "localhost" THEN "127.0.0.1" ELSE host

\* A mistaken form of the definition below it.
FreshForAnyToken(url, token) ==
  cache # Never /\ cache.url = url /\ now - cache.proven_at < Ttl

\* ProofCache::is_fresh.
IsFresh(url, token) ==
  cache # Never /\ cache.url = url /\ cache.token = token /\ now - cache.proven_at < Ttl

\* send_with_verified_bearer up to the probe: a fresh cached proof will do.
Check(c) ==
  \E host \in Hosts, token \in Tokens :
    /\ caller[c] = Resting
    /\ caller' = [caller EXCEPT ![c] =
         [pc |-> IF IsFresh(Pinned(host), token) THEN "cleared" ELSE "probing",
          host |-> Pinned(host), token |-> token, at |-> now]]
    /\ UNCHANGED <<listener, now, cache, proven>>

\* probe: the listener answers the challenge. Only a holder of the token can
\* give its proof, and even its answer may be lost.
Answer(c) ==
  /\ caller[c].pc = "probing"
  /\ \E address \in Resolve(caller[c].host) :
       LET token == caller[c].token
           holds == address = "127.0.0.1" /\ HoldsToken(listener, token)
       IN  \/ /\ holds
              /\ caller' = [caller EXCEPT ![c].pc = "proven"]
              /\ proven' = [proven EXCEPT ![<<address, token>>] = now]
           \/ caller' = [caller EXCEPT ![c].pc = "unproven"] /\ UNCHANGED proven
  /\ UNCHANGED <<listener, now, cache>>

\* peer_holds_token with a proof: remember stamps the time it is called.
Remember(c) ==
  /\ caller[c].pc = "proven"
  /\ cache' = [url |-> caller[c].host, token |-> caller[c].token, proven_at |-> now]
  /\ caller' = [caller EXCEPT ![c].pc = "cleared", ![c].at = now]
  /\ UNCHANGED <<listener, now, proven>>

\* peer_holds_token without one, or after the timeout: nothing is sent.
Forget(c) ==
  /\ caller[c].pc \in {"probing", "unproven", "proven"}
  /\ caller[c].pc = "unproven" \/ now = caller[c].at + ProbeMax
  /\ cache' = Never /\ caller' = [caller EXCEPT ![c] = Resting]
  /\ UNCHANGED <<listener, now, proven>>

\* client.execute, at any time after: the request goes out with the bearer.
Send(c, address) ==
  /\ caller[c].pc = "cleared" /\ address \in Resolve(caller[c].host)
  /\ caller' = [caller EXCEPT ![c] = Resting]
  /\ UNCHANGED <<listener, now, cache, proven>>

\* A probe that has taken ProbeMax ends before time goes on.
Tick ==
  /\ now < MaxNow
  /\ \A c \in Callers : caller[c].pc \in {"probing", "proven", "unproven"}
                          => now < caller[c].at + ProbeMax
  /\ now' = now + 1 /\ UNCHANGED <<listener, caller, cache, proven>>

ProofNext ==
  \/ \E c \in Callers : Check(c) \/ Answer(c) \/ Remember(c) \/ Forget(c)
  \/ Tick

\* Wherever a cleared request may go, that address had shown it holds this
\* very token less than Ttl and one probe before the decision
\* (send_with_verified_bearer, peer_holds_token, ProofCache).
BearerFollowsProof ==
  \A c \in Callers : caller[c].pc = "cleared" =>
    \A address \in Resolve(caller[c].host) :
      LET when == proven[<<address, caller[c].token>>]
      IN  when > 0 /\ caller[c].at - when < Ttl + ProbeMax
=============================================================================
