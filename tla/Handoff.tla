------------------------------- MODULE Handoff -------------------------------
(***************************************************************************)
(* The handoff file of sidecar-runtime/src/handoff.rs: a run of the        *)
(* sidecar publishes the token it minted, routes let a caller pass that    *)
(* shows it, and a shutdown withdraws it. A run and its minted token are   *)
(* one value; all runs listen on the same port of 127.0.0.1, one after the *)
(* other, and another program may have that port in between. The stdio     *)
(* process is the client. When a run binds, publishes and withdraws is     *)
(* the sidecar's choice: it binds before it publishes, and it stops        *)
(* listening before it withdraws.                                          *)
(***************************************************************************)
EXTENDS Naturals

CONSTANTS
  Runs,    \* runs of the sidecar, and the handoff tokens they mint
  Tokens,  \* ext tokens
  ext,     \* the ext token each run was started with
  Foreign, \* another program listening on the port
  None     \* no listener, no file, nothing

ASSUME HandoffAssumption ==
  /\ ext \in [Runs -> Tokens]
  /\ Runs \cap Tokens = {} /\ Foreign \notin Runs /\ None \notin Runs \cup {Foreign}

VARIABLES
  listener, \* who listens on the port
  phase,    \* how far each run is
  file,     \* the run whose handoff is published
  raced,    \* whether the last handoff was published while an older run was
            \* about to remove the file
  client    \* the stdio process's SidecarClient

handoff == <<phase, file, raced, client>>

Routes == {"handoff", "other"}
Unconnected == [pc |-> "idle", token |-> None, by |-> None, route |-> None]
Alive(r) == phase[r] \notin {"unborn", "gone"}

HandoffTypeOK ==
  /\ listener \in Runs \cup {Foreign, None}
  /\ phase \in [Runs -> {"unborn", "bound", "written", "serving", "stopping", "removing", "gone"}]
  /\ file \in Runs \cup {None} /\ raced \in BOOLEAN
  /\ client \in [pc : {"idle", "loaded", "connected", "passed"}, token : Runs \cup {None},
                 by : Runs \cup {None}, route : Routes \cup {None}]

HandoffInit ==
  /\ listener = None /\ phase = [r \in Runs |-> "unborn"]
  /\ file = None /\ raced = FALSE /\ client = Unconnected

MoveTo(r, place) == phase' = [phase EXCEPT ![r] = place]

\* The sidecar binds its port.
Bind(r) ==
  /\ phase[r] = "unborn" /\ listener = None /\ MoveTo(r, "bound")
  /\ listener' = r /\ UNCHANGED <<file, raced, client>>

\* publish, up to the rename: the handoff is whole and synced in a temp file
\* that has a name of its own.
WriteTemp(r) ==
  /\ phase[r] = "bound" /\ MoveTo(r, "written")
  /\ UNCHANGED <<listener, file, raced, client>>

\* The rename replaces what an earlier run left there.
Rename(r) ==
  /\ phase[r] = "written" /\ MoveTo(r, "serving")
  /\ file' = r
  /\ raced' = \E s \in Runs : phase[s] = "removing"
  /\ UNCHANGED <<listener, client>>

\* shutdown_signal resolves: the server stops listening.
ShutDown(r) ==
  /\ phase[r] = "serving" /\ MoveTo(r, "stopping")
  /\ listener' = None /\ UNCHANGED <<file, raced, client>>

\* Mistaken forms of the definition below them, here and further on.
WithdrawAny(r) ==
  /\ phase[r] = "stopping" /\ MoveTo(r, IF file # None THEN "removing" ELSE "gone")
  /\ UNCHANGED <<listener, file, raced, client>>

\* withdraw reads the file, and goes on only if it holds this run's token.
Withdraw(r) ==
  /\ phase[r] = "stopping" /\ MoveTo(r, IF file = r THEN "removing" ELSE "gone")
  /\ UNCHANGED <<listener, file, raced, client>>

\* remove_file, by path, whatever is there now.
Remove(r) ==
  /\ phase[r] = "removing" /\ MoveTo(r, "gone")
  /\ file' = None /\ UNCHANGED <<listener, raced, client>>

\* The run dies without withdrawing.
Kill(r) ==
  /\ Alive(r) /\ MoveTo(r, "gone")
  /\ listener' = IF listener = r THEN None ELSE listener
  /\ UNCHANGED <<file, raced, client>>

\* Another program takes the free port, or leaves it.
Takeover ==
  /\ listener \in {None, Foreign}
  /\ listener' = IF listener = None THEN Foreign ELSE None
  /\ UNCHANGED handoff

\* SidecarClient::connect reads the handoff.
Load ==
  /\ client.pc = "idle" /\ file # None
  /\ client' = [Unconnected EXCEPT !.pc = "loaded", !.token = file]
  /\ UNCHANGED <<listener, phase, file, raced>>

\* The health probe carries no token: whoever answers with success will do.
Probe ==
  /\ client.pc = "loaded"
  /\ \/ listener # None /\ client' = [client EXCEPT !.pc = "connected"]
     \/ client' = Unconnected
  /\ UNCHANGED <<listener, phase, file, raced>>

\* authorize: the ext token opens every route, the token minted by this very
\* run those under the handoff prefixes.
Authorize(token, r, route) ==
  token = ext[r] \/ (route = "handoff" /\ token = r)

\* SidecarClient::request, to whoever listens by now: a run that authorizes it
\* serves it. An answer of anyone else is no success of a run.
Request ==
  /\ client.pc = "connected"
  /\ \E route \in Routes :
       /\ listener \in Runs /\ Authorize(client.token, listener, route)
       /\ client' = [client EXCEPT !.pc = "passed", !.by = listener, !.route = route]
  /\ UNCHANGED <<listener, phase, file, raced>>

\* The caller keeps the client for its next request, or drops it.
Answered ==
  /\ client.pc \in {"connected", "passed"}
  /\ \/ /\ client.pc = "passed"
        /\ client' = [client EXCEPT !.pc = "connected", !.by = None, !.route = None]
     \/ client' = Unconnected
  /\ UNCHANGED <<listener, phase, file, raced>>

HandoffNext ==
  \/ \E r \in Runs : \/ Bind(r) \/ WriteTemp(r) \/ Rename(r) \/ ShutDown(r)
                     \/ Withdraw(r) \/ Remove(r) \/ Kill(r)
  \/ Takeover \/ Load \/ Probe \/ Request \/ Answered
=============================================================================
