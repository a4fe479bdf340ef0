---------------------------- MODULE Coordinator ----------------------------
(***************************************************************************)
(* The coordinator's two tables that the fleet lives on, `agents` and      *)
(* `work` (coordinator/src/lib/db.ts), with one action per statement that  *)
(* changes them.  Every statement is one synchronous SQLite write, so an   *)
(* action is atomic; what is not atomic, a handler that awaits between its *)
(* authentication and its write, is composed in module Fleet.              *)
(*                                                                         *)
(* The callers are left open: any agent may ask for anything at any time.  *)
(***************************************************************************)
EXTENDS Integers, FiniteSets

CONSTANTS
    Agents,     \* rows the agents table can ever hold
    Jobs,       \* rows the work table can ever hold
    Contents,   \* what results say, as far as two results can differ
    Stamps,     \* created_at values: readings of a wall clock that may step back
    None

ASSUME CoordinatorAssumption ==
    /\ None \notin Agents
    /\ IsFiniteSet(Jobs)
    /\ Stamps \subseteq Int
    /\ None \notin [status: {"done", "failed"}, content: Contents]

VARIABLES
    agentStatus,    \* agents.status, "absent" before the row exists
    tokenPending,   \* agents whose pending_session_token is not NULL
    status,         \* work.status, "absent" before the row exists
    owner,          \* work.agent_id
    created,        \* work.created_at
    rowid,          \* work.rowid: the insertion order
    expired,        \* offered_at <= now - OFFER_LEASE_SECONDS
    result          \* the columns recordWorkResult writes

agentVars == <<agentStatus, tokenPending>>
workVars  == <<status, owner, created, rowid, expired, result>>
vars == <<agentStatus, tokenPending, status, owner, created, rowid, expired, result>>

Terminal == {"done", "failed"}
Payloads == [status: Terminal, content: Contents]

TypeOK ==
    /\ agentStatus \in [Agents -> {"absent", "pending", "active", "denied"}]
    /\ tokenPending \subseteq Agents
    /\ status \in [Jobs -> {"absent", "queued", "offered", "dispatched"} \cup Terminal]
    /\ owner \in [Jobs -> Agents \cup {None}]
    /\ created \in [Jobs -> Stamps \cup {None}]
    /\ rowid \in [Jobs -> Int]
    /\ expired \in [Jobs -> BOOLEAN]
    /\ result \in [Jobs -> Payloads \cup {None}]

Init ==
    /\ agentStatus = [a \in Agents |-> "absent"]
    /\ tokenPending = {}
    /\ status = [j \in Jobs |-> "absent"]
    /\ owner = [j \in Jobs |-> None]
    /\ created = [j \in Jobs |-> None]
    /\ rowid = [j \in Jobs |-> 0]
    /\ expired = [j \in Jobs |-> FALSE]
    /\ result = [j \in Jobs |-> None]

-----------------------------------------------------------------------------
(* The agents table. *)

Active(a) == agentStatus[a] = "active"

\* A fresh enrollment token creates one distinct pending row.
EnrollAgent(a) ==
    /\ agentStatus[a] = "absent"
    /\ agentStatus' = [agentStatus EXCEPT ![a] = "pending"]
    /\ UNCHANGED <<tokenPending, workVars>>

ActivateAgent(a) ==
    /\ agentStatus[a] = "pending"
    /\ agentStatus' = [agentStatus EXCEPT ![a] = "active"]
    /\ tokenPending' = tokenPending \cup {a}
    /\ UNCHANGED workVars

DenyPendingAgent(a) ==
    /\ agentStatus[a] = "pending"
    /\ agentStatus' = [agentStatus EXCEPT ![a] = "denied"]
    /\ tokenPending' = tokenPending \ {a}
    /\ UNCHANGED workVars

\* Mutant: a revocation erases the hash and forgets the plaintext.
RevokeKeepingPlaintext(a) ==
    /\ agentStatus[a] # "absent"
    /\ agentStatus' = [agentStatus EXCEPT ![a] = "denied"]
    /\ UNCHANGED <<tokenPending, workVars>>

\* Unlike a denial, a revocation has no guard on the status it replaces.
RevokeAgent(a) ==
    /\ agentStatus[a] # "absent"
    /\ agentStatus' = [agentStatus EXCEPT ![a] = "denied"]
    /\ tokenPending' = tokenPending \ {a}
    /\ UNCHANGED workVars

\* A bearer that authenticates proves the node holds its session token.
VerifySession(a) ==
    /\ tokenPending' = IF Active(a) THEN tokenPending \ {a} ELSE tokenPending
    /\ UNCHANGED <<agentStatus, workVars>>

-----------------------------------------------------------------------------
(* The work table. *)

\* enqueue throws AgentNotActiveError, and inserts nothing, for any other agent.
InsertWork(j, a, t) ==
    /\ status[j] = "absent"
    /\ Active(a)
    /\ status' = [status EXCEPT ![j] = "queued"]
    /\ owner' = [owner EXCEPT ![j] = a]
    /\ created' = [created EXCEPT ![j] = t]
    /\ rowid' = [rowid EXCEPT ![j] = Cardinality({k \in Jobs : status[k] # "absent"}) + 1]
    /\ UNCHANGED <<expired, result, agentVars>>

\* An offer nobody acknowledged outlives its lease.
LeaseElapses(j) ==
    /\ status[j] = "offered"
    /\ ~expired[j]
    /\ expired' = [expired EXCEPT ![j] = TRUE]
    /\ UNCHANGED <<status, owner, created, rowid, result, agentVars>>

LiveOffer(a) == \E j \in Jobs : owner[j] = a /\ status[j] = "offered" /\ ~expired[j]

\* Mutant: a dispatched job whose offer was old is offered again.
CandidateEvenDispatched(j, a) ==
    /\ owner[j] = a
    /\ \/ status[j] = "queued"
       \/ status[j] \in {"offered", "dispatched"} /\ expired[j]

\* Mutant: an offer whose answer was lost is never made again.
CandidateQueuedOnly(j, a) == owner[j] = a /\ status[j] = "queued"

Candidate(j, a) ==
    /\ owner[j] = a
    /\ \/ status[j] = "queued"
       \/ status[j] = "offered" /\ expired[j]

\* Mutant: ORDER BY created_at, rowid alone.
OfferRankIgnored(j) == 1

OfferRank(j) == IF status[j] = "offered" THEN 0 ELSE 1

\* ORDER BY an expired offer before queued work, created_at, rowid.
Precedes(j, k) ==
    \/ OfferRank(j) < OfferRank(k)
    \/ /\ OfferRank(j) = OfferRank(k)
       /\ \/ created[j] < created[k]
          \/ created[j] = created[k] /\ rowid[j] =< rowid[k]

Claimable(j, a) ==
    /\ Active(a)
    /\ Candidate(j, a)
    /\ ~LiveOffer(a)
    /\ \A k \in Jobs : Candidate(k, a) => Precedes(j, k)

ClaimNextWork(j, a) ==
    /\ Claimable(j, a)
    /\ status' = [status EXCEPT ![j] = "offered"]
    /\ expired' = [expired EXCEPT ![j] = FALSE]
    /\ UNCHANGED <<owner, created, rowid, result, agentVars>>

Acknowledgeable(j, a) == owner[j] = a /\ status[j] = "offered" /\ Active(a)

\* Mutant: acknowledging again, after the answer was lost, is a conflict.
AckAnswerOnce(j, a) ==
    IF Acknowledgeable(j, a) THEN "ok" ELSE IF owner[j] # a THEN "unknown" ELSE "conflict"

\* Mutant: the answer does not look at the agent again.
AckAnswerIgnoringRevocation(j, a) ==
    IF owner[j] = a /\ status[j] \in {"offered", "dispatched"} THEN "ok" ELSE "conflict"

AckAnswer(j, a) ==
    CASE Acknowledgeable(j, a) -> "ok"
      [] owner[j] # a -> "unknown"
      [] owner[j] = a /\ ~Active(a) -> "conflict"
      [] OTHER -> IF status[j] = "dispatched" THEN "ok" ELSE "conflict"

AcknowledgeWork(j, a) ==
    /\ status' = IF Acknowledgeable(j, a) THEN [status EXCEPT ![j] = "dispatched"] ELSE status
    /\ UNCHANGED <<owner, created, rowid, expired, result, agentVars>>

\* Mutant: the update trusts the authentication that preceded it.
RecordableByOwner(j, a) == owner[j] = a /\ status[j] = "dispatched"

Recordable(j, a) == owner[j] = a /\ status[j] = "dispatched" /\ Active(a)

\* Mutant: reporting again, after the answer was lost, is a conflict.
RecordAnswerOnce(j, a) ==
    IF Recordable(j, a) THEN "recorded" ELSE IF owner[j] # a THEN "unknown" ELSE "conflict"

RecordAnswer(j, a) ==
    CASE Recordable(j, a) -> "recorded"
      [] owner[j] # a -> "unknown"
      [] owner[j] = a /\ ~Active(a) -> "conflict"
      [] OTHER -> IF status[j] \in Terminal THEN "already_recorded" ELSE "conflict"

RecordWorkResult(j, a, p) ==
    /\ status' = IF Recordable(j, a) THEN [status EXCEPT ![j] = p.status] ELSE status
    /\ result' = IF Recordable(j, a) THEN [result EXCEPT ![j] = p] ELSE result
    /\ UNCHANGED <<owner, created, rowid, expired, agentVars>>

-----------------------------------------------------------------------------
AgentStep(a) ==
    \/ EnrollAgent(a)
    \/ ActivateAgent(a)
    \/ DenyPendingAgent(a)
    \/ RevokeAgent(a)
    \/ VerifySession(a)

WorkStep(j, a) ==
    \/ \E t \in Stamps : InsertWork(j, a, t)
    \/ ClaimNextWork(j, a)
    \/ AcknowledgeWork(j, a)
    \/ \E p \in Payloads : RecordWorkResult(j, a, p)

Next ==
    \/ \E a \in Agents : AgentStep(a)
    \/ \E j \in Jobs : LeaseElapses(j)
    \/ \E j \in Jobs, a \in Agents : WorkStep(j, a)

Spec == Init /\ [][Next]_vars

-----------------------------------------------------------------------------
(* Properties. *)

\* An agent never has two offers outstanding, live or expired: an expired offer
\* is handed out again before any queued job, whatever the wall clock did to
\* the created_at order.
AtMostOneOffer ==
    \A j, k \in Jobs :
        (status[j] = "offered" /\ status[k] = "offered" /\ owner[j] = owner[k]) => j = k

\* A row carries a result exactly when it is terminal, and the status column is
\* the one the recorded payload reported.
ResultMatchesStatus ==
    \A j \in Jobs :
        /\ (status[j] \in Terminal) <=> (result[j] # None)
        /\ result[j] # None => result[j].status = status[j]

\* The plaintext session token is recoverable only while its agent is active.
PlaintextOnlyWhileActive == \A a \in tokenPending : Active(a)

\* Denial is final.  Nothing a denied agent or the administrator still has in
\* flight, a stale page's approval, a late acknowledgement or result, brings the
\* agent back or moves one of its jobs: the work it held stays exactly as it was.
DenialStays == \A a \in Agents : agentStatus[a] = "denied" => agentStatus'[a] = "denied"

FrozenWhenDenied ==
    \A j \in Jobs :
        (owner[j] # None /\ agentStatus[owner[j]] = "denied")
        => UNCHANGED <<status[j], owner[j], result[j]>>

DenialIsFinal == [][DenialStays /\ FrozenWhenDenied]_vars

\* A job only ever moves forward.  In particular a dispatched job is never
\* offered again, however long it runs, and the first result recorded is final.
Successors ==
    [absent |-> {"queued"}, queued |-> {"offered"}, offered |-> {"dispatched"},
     dispatched |-> Terminal, done |-> {}, failed |-> {}]

MoveForward ==
    \A j \in Jobs :
        /\ status'[j] # status[j] => status'[j] \in Successors[status[j]]
        /\ result[j] # None => result'[j] = result[j]

JobsMoveForward == [][MoveForward]_vars

\* Both: nothing that was settled, by an outcome or by a denial, is unsettled.
\* (store.ts, agents.ts)
SettledIsFinal == [][MoveForward /\ DenialStays /\ FrozenWhenDenied]_vars

=============================================================================
