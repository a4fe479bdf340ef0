------------------------------- MODULE Fleet -------------------------------
(***************************************************************************)
(* The coordinator, one node installation and the HTTP calls between them. *)
(*                                                                         *)
(* The node has at most one call out (ara/node/client.py is synchronous).  *)
(* A route handler authenticates first and writes later: the result route  *)
(* awaits the body in between, the work route awaits 250 ms timers, and    *)
(* another coordinator process may write between the two statements of the *)
(* ack route.  When the node gives a call up, by a timeout or by dying,    *)
(* the handler does not notice: what it has not done yet it still does,    *)
(* at any later time, with nobody to hear the answer.                      *)
(***************************************************************************)
EXTENDS Integers, FiniteSets

CONSTANTS Agents, Jobs, Contents, Stamps, None,
    MaxFaults   \* bound on crashes, lost calls and storage errors in a run

VARIABLES
    agentStatus, tokenPending, status, owner, created, rowid, expired, result,
    config, session, pc, job, payload, retired, journal, spool, quarantine,
    call,       \* the call the node is waiting on
    ghosts,     \* calls given up by the node that a handler may still serve
    faults

C == INSTANCE Coordinator
N == INSTANCE NodeAgent

coordinatorVars == <<agentStatus, tokenPending, status, owner, created, rowid, expired, result>>
nodeVars == <<config, session, pc, job, payload, retired, journal, spool, quarantine>>
vars == <<coordinatorVars, nodeVars, call, ghosts, faults>>

Pending  == {"sent", "authenticated"}
Answers  == {"unauthorized", "ok", "rejected", "offer", "none"}
Requests == [kind: {"poll", "ack", "post"}, agent: Agents, job: Jobs \cup {None},
             payload: C!Payloads \cup {None}, stage: Pending \cup Answers, live: BOOLEAN]

ASSUME FleetAssumption ==
    /\ C!CoordinatorAssumption
    /\ N!NodeAgentAssumption
    /\ None \notin Requests
    /\ MaxFaults \in Nat

TypeOK ==
    /\ C!TypeOK
    /\ N!TypeOK
    /\ call \in Requests \cup {None}
    /\ call # None => call.live
    /\ ghosts \subseteq {r \in Requests : r.stage \in Pending /\ ~r.live}
    /\ faults \in 0..MaxFaults

Init ==
    /\ C!Init
    /\ N!Init
    /\ call = None
    /\ ghosts = {}
    /\ faults = 0

-----------------------------------------------------------------------------
(* The administrator, the clock, and the enrollment handshake (which is    *)
(* modelled step by step in a module of its own).                          *)

Admin ==
    /\ \/ \E a \in Agents :
            \/ C!EnrollAgent(a)
            \/ C!ActivateAgent(a)
            \/ C!DenyPendingAgent(a)
            \/ C!RevokeAgent(a)
       \/ \E j \in Jobs, a \in Agents, t \in Stamps : C!InsertWork(j, a, t)
    /\ UNCHANGED <<nodeVars, call, ghosts, faults>>

LeaseElapses(j) ==
    /\ C!LeaseElapses(j)
    /\ UNCHANGED <<nodeVars, call, ghosts, faults>>

\* The poll hands the session token out until the node first authenticates.
NodeEnrolls(a) ==
    /\ a \in tokenPending
    /\ N!Reenroll(a)
    /\ UNCHANGED <<coordinatorVars, call, ghosts, faults>>

-----------------------------------------------------------------------------
(* The node calling. *)

Send(kind, j, p) ==
    call' = [kind |-> kind, agent |-> session, job |-> j, payload |-> p,
             stage |-> "sent", live |-> TRUE]

Abandon ==
    /\ call' = None
    /\ \/ UNCHANGED ghosts
       \/ /\ call # None
          /\ call.stage \in Pending
          /\ ghosts' = ghosts \cup {[call EXCEPT !.live = FALSE]}

Fault == faults < MaxFaults /\ faults' = faults + 1

\* Steps that only fail or succeed: a success costs nothing, a failure a fault.
Costs(ok) == IF ok THEN UNCHANGED faults ELSE Fault

NodeStarts ==
    /\ N!Start
    /\ UNCHANGED <<coordinatorVars, call, ghosts, faults>>

NodeLocal ==
    /\ N!Local
    /\ UNCHANGED <<coordinatorVars, call, ghosts, faults>>

NodeAsks ==
    /\ N!AskForWork
    /\ Send("poll", None, None)
    /\ UNCHANGED <<coordinatorVars, ghosts, faults>>

NodeAcks ==
    /\ N!VerifyResultStorage
    /\ Send("ack", job, None)
    /\ UNCHANGED <<coordinatorVars, ghosts, faults>>

NodePosts(ok) ==
    /\ Costs(ok)
    /\ \/ N!Retire(ok) /\ Send("post", job, payload)
       \/ \E j \in Jobs : N!Replay(j, ok) /\ Send("post", j, spool[j])
    /\ UNCHANGED <<coordinatorVars, ghosts>>

NodeStorageFails ==
    /\ N!Faults
    /\ Fault
    /\ UNCHANGED <<coordinatorVars, call, ghosts>>

NodeCrashes ==
    /\ N!Crash
    /\ Abandon
    /\ Fault
    /\ UNCHANGED coordinatorVars

CallFails ==
    /\ N!Transient
    /\ Abandon
    /\ Fault
    /\ UNCHANGED coordinatorVars

-----------------------------------------------------------------------------
(* The coordinator serving a call, heard or not. *)

Calls == ghosts \cup (IF call = None THEN {} ELSE {call})

\* A handler moves its call on; an answer to a ghost goes nowhere.
Advance(r, stage, j) ==
    LET moved == [r EXCEPT !.stage = stage, !.job = j] IN
    /\ call' = IF r.live THEN moved ELSE call
    /\ ghosts' = IF r.live THEN ghosts
                 ELSE (ghosts \ {r}) \cup (IF stage \in Pending THEN {moved} ELSE {})
    /\ UNCHANGED <<nodeVars, faults>>

Authenticated(r) ==
    IF ~C!Active(r.agent) THEN "unauthorized"
    ELSE IF r.kind = "post" /\ owner[r.job] # r.agent THEN "rejected"
    ELSE "authenticated"

Authenticate(r) ==
    /\ r.stage = "sent"
    /\ C!VerifySession(r.agent)
    /\ Advance(r, Authenticated(r), r.job)

OfferWork(r) ==
    /\ r.kind = "poll"
    /\ r.stage = "authenticated"
    /\ \E j \in Jobs : C!ClaimNextWork(j, r.agent) /\ Advance(r, "offer", j)

\* The window closes right after a last claim that found nothing.
PollWindowCloses(r) ==
    /\ r.kind = "poll"
    /\ r.stage = "authenticated"
    /\ \A j \in Jobs : ~C!Claimable(j, r.agent)
    /\ Advance(r, "none", None)
    /\ UNCHANGED coordinatorVars

ServeAck(r) ==
    /\ r.kind = "ack"
    /\ r.stage = "authenticated"
    /\ C!AcknowledgeWork(r.job, r.agent)
    /\ Advance(r, IF C!AckAnswer(r.job, r.agent) = "ok" THEN "ok" ELSE "rejected", r.job)

ServeResult(r) ==
    /\ r.kind = "post"
    /\ r.stage = "authenticated"
    /\ C!RecordWorkResult(r.job, r.agent, r.payload)
    /\ Advance(r, IF C!RecordAnswer(r.job, r.agent) \in {"recorded", "already_recorded"}
                  THEN "ok" ELSE "rejected", r.job)

Serve(r) ==
    \/ Authenticate(r)
    \/ OfferWork(r)
    \/ PollWindowCloses(r)
    \/ ServeAck(r)
    \/ ServeResult(r)

-----------------------------------------------------------------------------
(* The node hearing the answer. *)

NodeHears ==
    /\ call # None
    /\ \/ call.stage = "unauthorized" /\ N!Unauthorized /\ UNCHANGED faults
       \/ call.stage = "none" /\ N!NoWork /\ UNCHANGED faults
       \/ call.stage = "offer" /\ N!Offered(call.job) /\ UNCHANGED faults
       \/ call.stage = "ok" /\ N!Acknowledged /\ UNCHANGED faults
       \/ call.stage = "ok" /\ N!Delivered /\ UNCHANGED faults
       \/ /\ call.stage = "rejected"
          /\ \E ok \in BOOLEAN : (N!AckRejected(ok) \/ N!PostRejected(ok)) /\ Costs(ok)
    /\ call' = None
    /\ UNCHANGED <<coordinatorVars, ghosts>>

-----------------------------------------------------------------------------
NodeProceeds == NodeLocal \/ NodeAsks \/ NodeAcks \/ NodePosts(TRUE) \/ NodeHears

Next ==
    \/ Admin
    \/ \E j \in Jobs : LeaseElapses(j)
    \/ \E a \in Agents : NodeEnrolls(a)
    \/ NodeStarts
    \/ NodeProceeds
    \/ NodePosts(FALSE)
    \/ NodeStorageFails
    \/ NodeCrashes
    \/ CallFails
    \/ \E r \in Calls : Serve(r)

Spec == Init /\ [][Next]_vars

\* The node process keeps going, a runner returns, systemd starts the node again
\* when it died (not when it ended by itself), handlers run to their end, and
\* time passes.  Nobody owes the system an administrator or an enrollment.
Fairness ==
    /\ WF_vars(NodeProceeds)
    /\ WF_vars(pc = "down" /\ NodeStarts)
    /\ WF_vars(call # None /\ Serve(call))
    /\ \A j \in Jobs : WF_vars(LeaseElapses(j))

FairSpec == Spec /\ Fairness

-----------------------------------------------------------------------------
(* Properties. *)

\* The node works for agent a: its session is the configured one and the one a
\* process presents, or systemd is about to start a process that will.
Serving(a) ==
    /\ agentStatus[a] = "active"
    /\ config = a
    /\ pc = "down" \/ session = a

\* Nothing runs before the coordinator knows it was accepted, and while it runs
\* or its outcome is on the way the coordinator still considers it dispatched.
RunsOnlyWhileDispatched ==
    pc \in {"run", "complete", "fallback", "spool", "retire"} => status[job] = "dispatched"

\* A dispatched job is never stranded: as long as its agent is active and this
\* node is enrolled as that agent, the node holds its journal or its result.
DispatchedIsHeld ==
    \A j \in Jobs :
        (status[j] = "dispatched" /\ owner[j] = config /\ agentStatus[config] = "active")
        => N!InLane(j)

\* Node and coordinator agree on what is dispatched, in both directions, whatever
\* answers were lost and whatever crashed.  (_run_loop, the ack and result routes)
AgreeOnDispatch == RunsOnlyWhileDispatched /\ DispatchedIsHeld

\* The node gives evidence up to quarantine only for an agent that was denied or
\* that it is no longer enrolled as.
QuarantineOnlyAfterLosingTheAgent ==
    \A e \in quarantine :
        LET a == owner[e[1]] IN agentStatus[a] = "denied" \/ config # a

\* The fleet implements the ledger.  The outcome of a job is the recorded result,
\* or else whatever the node has durably kept of its execution.
DurableOutcome(j) ==
    IF result[j] # None THEN result[j]
    ELSE IF N!Outcome(j) # None THEN N!Outcome(j)
    ELSE IF \E p \in C!Payloads : <<j, p>> \in quarantine
         THEN CHOOSE p \in C!Payloads : <<j, p>> \in quarantine
    ELSE None

Stage(j) ==
    CASE status[j] = "absent" -> "none"
      [] status[j] \in {"queued", "offered"} -> "waiting"
      [] status[j] = "dispatched" -> "committed"
      [] status[j] \in C!Terminal -> "finished"

Ledger == INSTANCE JobLedger WITH
    Outcomes <- C!Payloads,
    stage <- [j \in Jobs |-> Stage(j)],
    outcome <- [j \in Jobs |-> DurableOutcome(j)],
    record <- result

RefinesLedger == Ledger!Spec

\* Once the node serves an agent for good, every job queued for that agent is
\* eventually finished, whatever finitely many crashes, lost calls, storage
\* errors and abandoned polls came before.
QueuedWorkFinishes ==
    \A a \in Agents, j \in Jobs :
        <>[]Serving(a) =>
            ((status[j] = "queued" /\ owner[j] = a) ~> status[j] \in C!Terminal)
=============================================================================
