---------------------------- MODULE SidecarAccess ---------------------------
(***************************************************************************)
(* Two ways to a running sidecar, over the same port: the handoff file     *)
(* and the verified bearer. Runs come and go under both.                   *)
(***************************************************************************)
EXTENDS Handoff

CONSTANTS Callers, Never, Ttl, ProbeMax, MaxNow, Hosts

ASSUME ProofAssumption ==
  /\ Hosts \subseteq {"127.0.0.1", "[::1]", "localhost"}
  /\ Ttl \in Nat \ {0} /\ ProbeMax \in Nat /\ MaxNow \in Nat /\ Never \notin Tokens

VARIABLES now, caller, cache, proven

\* A listener can give the proof of the ext token it was started with.
HoldsExt(who, token) == who \in Runs /\ ext[who] = token

P == INSTANCE PeerProof WITH HoldsToken <- HoldsExt

proofs == <<now, caller, cache, proven>>
vars == <<listener, handoff, proofs>>

TypeOK == HandoffTypeOK /\ P!ProofTypeOK

Init == HandoffInit /\ P!ProofInit

\* The verified request goes to whoever listens by then.
Deliver == \E c \in Callers, address \in P!Addresses : P!Send(c, address)

Next ==
  \/ HandoffNext /\ UNCHANGED proofs
  \/ (P!ProofNext \/ Deliver) /\ UNCHANGED handoff

Spec == Init /\ [][Next]_vars

-----------------------------------------------------------------------------
\* A handoff leads to its own run and to no other: that of the run that serves
\* stays published, whatever older runs still do, unless it came between an
\* older run's look at the file and its removal (publish, withdraw); and what a
\* client loaded passes only in the run that minted it and on a handoff route,
\* whichever run has the port by now (authorize, SidecarClient::request).
HandoffLeadsToItsRun ==
  /\ \A r \in Runs : phase[r] = "serving" /\ ~raced => file = r
  /\ client.pc = "passed" => client.by = client.token /\ client.route = "handoff"

\* No bearer goes where nobody has just shown it (send_with_verified_bearer).
BearerFollowsProof == P!BearerFollowsProof
=============================================================================
