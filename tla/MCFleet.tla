------------------------------ MODULE MCFleet ------------------------------
(* Agents and jobs are numbers here, taken into use in their order.  Names *)
(* play no part in Fleet, so every behaviour is one of these renamed; TLC's *)
(* own symmetry would not be sound for the liveness property.  The second  *)
(* agent, the first one's successor on the same node, gets one job at most. *)
EXTENDS Fleet, TLC

MCStamps == {1}

InOrder ==
    /\ \A a, b \in Agents : a < b /\ agentStatus[b] # "absent" => agentStatus[a] # "absent"
    /\ \A i, j \in Jobs : i < j /\ status[j] # "absent" => status[i] # "absent"

Successor == \A i, j \in Jobs : owner[i] = 2 /\ owner[j] = 2 => i = j

OrderedSpec == Init /\ [][Next /\ InOrder' /\ Successor']_vars /\ Fairness
=============================================================================
