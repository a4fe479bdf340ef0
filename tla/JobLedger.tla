----------------------------- MODULE JobLedger -----------------------------
(***************************************************************************)
(* What the fleet promises about a job, whatever crashes, times out or is  *)
(* revoked on the way: it is committed to a node before anything comes of  *)
(* it, at most one outcome ever becomes durable for it, and what the       *)
(* coordinator records, once and for good, is that outcome.  The promise   *)
(* says nothing of how often a job is started: a node killed while it runs *)
(* one runs it again.                                                      *)
(***************************************************************************)
CONSTANTS Jobs, Outcomes, None

VARIABLES
    stage,      \* how far the job got
    outcome,    \* the durable outcome of its execution
    record      \* what the coordinator recorded

vars == <<stage, outcome, record>>

TypeOK ==
    /\ stage \in [Jobs -> {"none", "waiting", "committed", "finished"}]
    /\ outcome \in [Jobs -> Outcomes \cup {None}]
    /\ record \in [Jobs -> Outcomes \cup {None}]

Init ==
    /\ stage = [j \in Jobs |-> "none"]
    /\ outcome = [j \in Jobs |-> None]
    /\ record = [j \in Jobs |-> None]

Move(j, from, to) == stage[j] = from /\ stage' = [stage EXCEPT ![j] = to]

Submit(j) == Move(j, "none", "waiting") /\ UNCHANGED <<outcome, record>>

Commit(j) == Move(j, "waiting", "committed") /\ UNCHANGED <<outcome, record>>

Resolve(j, o) ==
    /\ stage[j] = "committed"
    /\ outcome[j] = None
    /\ outcome' = [outcome EXCEPT ![j] = o]
    /\ UNCHANGED <<stage, record>>

Record(j) ==
    /\ outcome[j] # None
    /\ Move(j, "committed", "finished")
    /\ record' = [record EXCEPT ![j] = outcome[j]]
    /\ UNCHANGED outcome

Next == \E j \in Jobs : Submit(j) \/ Commit(j) \/ Record(j) \/ \E o \in Outcomes : Resolve(j, o)

Spec == Init /\ [][Next]_vars
=============================================================================
