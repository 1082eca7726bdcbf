---------------------------- MODULE MCTeamStore ----------------------------
(***************************************************************************)
(* A small instance of TeamStore: one team the file may already hold and   *)
(* one id to mint, two agents, rosters in which an agent may come twice    *)
(* (a PATCH may write any list), a PATCH of the name and one of the roster *)
(* and lead.                                                               *)
(***************************************************************************)
EXTENDS TeamStore, TLC

CONSTANTS a1, a2, n1, n2

Occurrences(members, agent) == {i \in DOMAIN members : members[i] = agent}

(* Lists in which no agent comes more than twice. *)
MCRosters ==
  UNION {{members \in [1..n -> Agents] :
            \A agent \in Agents, i, j, k \in DOMAIN members :
              {i, j, k} \subseteq Occurrences(members, agent) => i = j \/ j = k \/ i = k}
         : n \in 0..4}

MCStored == {[name |-> n1, members |-> <<a1>>, lead |-> NoLead]}

MCNewTeams == {[name |-> n1, members |-> <<>>, lead |-> a1]}

MCPatches ==
  {[name |-> n2, members |-> Keep, lead |-> NoLead],
   [name |-> Keep, members |-> <<a2, a2>>, lead |-> Keep]}
=============================================================================
