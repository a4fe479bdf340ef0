---------------------------- MODULE FleetProofs ----------------------------
(***************************************************************************)
(* The coordinator and a node agree on every job, and together implement   *)
(* JobLedger, for any number of agents, jobs and faults and with calls that *)
(* are lost, delayed or served after the node gave them up.                *)
(***************************************************************************)
EXTENDS Fleet, TLAPS

CP == INSTANCE CoordinatorProofs
NP == INSTANCE NodeAgentProofs

-----------------------------------------------------------------------------
(* The invariant. *)

Issued  == {"offered", "dispatched"} \cup C!Terminal
Settled == {"dispatched"} \cup C!Terminal

\* The agent has presented its session, so that it is handed out no more.
Used(a) == agentStatus[a] \in {"active", "denied"} /\ a \notin tokenPending

\* The agent gets no more work through this node.
Lost(a) == agentStatus[a] = "denied" \/ (config # a /\ session # a)

Quarantined(j) == \E e \in quarantine : e[1] = j

\* The node heard, or will hear, of the job for the first time.
Fresh(j) ==
    \/ call # None /\ call.stage = "offer" /\ call.job = j
    \/ pc = "journal" /\ job = j

Executing(j) == job = j /\ pc \in {"run", "complete", "fallback", "spool", "retire"}

Unrequested(j, kinds) == \A r \in Calls : r.kind \in kinds => r.job # j

\* A durable outcome of the job's execution.
Durable(j, p) == p # None /\ (result[j] = p \/ N!Outcome(j) = p \/ <<j, p>> \in quarantine)

\* The call the node waits on is the one its place in the loop says.
CallFits ==
    /\ pc \in N!Waiting <=> call # None
    /\ pc \notin N!Ended => session # None
    /\ call # None =>
        /\ call.agent = session
        /\ pc = "poll" <=> call.kind = "poll"
        /\ pc = "ack" <=> call.kind = "ack"
        /\ call.kind = "poll" => call.stage \in Pending \cup {"unauthorized", "offer", "none"}
        /\ call.stage = "offer" => call.job \in Jobs
        /\ call.kind # "poll" => /\ call.job = job
                                 /\ call.stage \in Pending \cup {"unauthorized", "ok", "rejected"}
        /\ call.kind = "post" => call.payload = payload

\* What is asked, by whoever still listens, is about work that was handed out.
RequestsFit ==
    \A r \in Calls :
        /\ r.stage \notin {"sent", "unauthorized"} => Used(r.agent)
        /\ r.kind # "poll" =>
            /\ r.job \in Jobs
            /\ status[r.job] \in Issued
            /\ status[r.job] \in C!Terminal \/ N!InLane(r.job) \/ Quarantined(r.job)
        /\ r.kind = "post" => status[r.job] \in Settled /\ Durable(r.job, r.payload)

\* An answer is still true when the node hears it.
AnswersHold ==
    call # None =>
        /\ call.kind = "ack" /\ call.stage = "ok" => status[call.job] = "dispatched"
        /\ call.kind = "post" /\ call.stage = "ok" => status[call.job] \in C!Terminal
        /\ call.stage = "rejected" =>
               owner[call.job] # call.agent \/ agentStatus[owner[call.job]] = "denied"

\* What the coordinator's row of a job says of the node.
RowFits(j) ==
    /\ status[j] \in Issued => Used(owner[j])
    /\ status[j] = "dispatched" => N!InLane(j) \/ Quarantined(j)

\* What a job in the node's lanes, or about to be, says of the coordinator.
LaneFits(j) ==
    /\ N!InLane(j) => status[j] \in Issued
    /\ N!Outcome(j) # None => status[j] \in Settled
    /\ N!IsAccepted(j) /\ spool[j] = None =>
           status[j] \in {"offered", "dispatched"} /\ Unrequested(j, {"post"})
    /\ Executing(j) => status[j] = "dispatched" /\ Unrequested(j, {"post"})
    /\ Fresh(j) => /\ status[j] = "offered"
                   /\ owner[j] = session
                   /\ Unrequested(j, {"ack", "post"})
    /\ (N!InLane(j) \/ Fresh(j)) /\ pc \notin N!Ended /\ config = owner[j] => session = owner[j]

\* What is quarantined is gone from the lanes and comes back to none.
QuarantineFits(j) ==
    Quarantined(j) => /\ status[j] \in Issued
                      /\ ~N!InLane(j) /\ ~Fresh(j)
                      /\ Lost(owner[j])

OneOutcome(j) == \A p, q \in C!Payloads : Durable(j, p) /\ Durable(j, q) => p = q

JobFits(j) == RowFits(j) /\ LaneFits(j) /\ QuarantineFits(j) /\ OneOutcome(j)

IInv ==
    /\ TypeOK
    /\ CP!IInv
    /\ NP!IInv
    /\ CallFits
    /\ RequestsFit
    /\ AnswersHold
    /\ \A j \in Jobs : JobFits(j)

-----------------------------------------------------------------------------
(* What the two components' own invariants give, in the names of Fleet. *)

NodeFacts ==
    /\ N!TypeOK /\ N!LaneHoldsOneJob /\ N!WalAgreesWithSpool
    /\ pc \in N!Holding <=> job # None
    /\ pc \in {"complete", "fallback", "spool", "retire", "post", "replay"} <=> payload # None
    /\ pc \in {"poll", "journal"} => \A j \in Jobs : ~N!InLane(j)
    /\ pc \in {"flush", "next", "replay"} => \A j \in Jobs : ~N!IsCompleted(j)
    /\ pc \in {"verify", "ack", "run"} => N!IsAccepted(job) /\ spool[job] = None
    /\ pc \in {"complete", "fallback", "spool", "retire"} =>
        /\ journal[job] \in {N!Accepted, N!Journal(payload)}
        /\ spool[job] \in {None, payload}
    /\ pc \in {"retire", "post", "replay"} => spool[job] = payload
    /\ pc \in {"post", "replay"} /\ retired => journal[job] = None

LEMMA NodeFactsHold == NP!IInv => NodeFacts
BY DEF NodeFacts, NP!IInv, NP!Memory, NP!Files, NP!TypeOK, N!TypeOK, NP!LaneHoldsOneJob,
       N!LaneHoldsOneJob, NP!WalAgreesWithSpool, N!WalAgreesWithSpool, NP!InLane, N!InLane,
       NP!IsCompleted, N!IsCompleted, NP!IsAccepted, N!IsAccepted, NP!Accepted, N!Accepted,
       NP!Journal, N!Journal, NP!Payloads, N!Payloads, NP!Holding, N!Holding, NP!Waiting,
       N!Waiting, NP!Ended, N!Ended

RowFacts ==
    /\ C!TypeOK
    /\ C!ResultMatchesStatus
    /\ \A j \in Jobs : status[j] = "absent" <=> owner[j] = None

LEMMA RowFactsHold == CP!IInv => RowFacts
BY DEF RowFacts, CP!IInv, CP!TypeOK, C!TypeOK, CP!ResultMatchesStatus, C!ResultMatchesStatus,
       CP!OwnedOnceInserted, CP!Terminal, C!Terminal, CP!Payloads, C!Payloads

LEMMA SamePayloads == N!Payloads = C!Payloads /\ None \notin C!Payloads
BY FleetAssumption DEF N!Payloads, C!Payloads, C!Terminal, C!CoordinatorAssumption

\* The forms a journal can have, and that none of them is a payload.
LEMMA Journals ==
    /\ N!Accepted # None
    /\ N!Accepted \notin C!Payloads
    /\ \A p \in C!Payloads : /\ N!Journal(p) \notin {None, N!Accepted}
                             /\ N!Journal(p).completion = p
<1>1. N!NodeAgentAssumption
    BY FleetAssumption
<1>2. None \notin C!Payloads /\ None \notin [completion: C!Payloads \cup {None}]
    BY <1>1, SamePayloads DEF N!NodeAgentAssumption
<1>3. N!Accepted = [completion |-> None] /\ \A p : N!Journal(p) = [completion |-> p]
    BY DEF N!Accepted, N!Journal
<1>4. \A p \in C!Payloads : [completion |-> p].completion # [completion |-> None].completion
    BY <1>2
<1>5. \A p \in C!Payloads : DOMAIN p = {"status", "content"}
    BY DEF C!Payloads
<1>6. DOMAIN N!Accepted = {"completion"}
    BY <1>3
<1>7. N!Accepted \notin C!Payloads
  <2>1. SUFFICES ASSUME N!Accepted \in C!Payloads PROVE FALSE
      OBVIOUS
  <2>2. "completion" \in {"status", "content"}
      BY <2>1, <1>5, <1>6
  <2> QED BY <2>2
<1> QED BY <1>2, <1>3, <1>4, <1>7

LEMMA OutcomeType ==
    ASSUME NodeFacts, NEW j \in Jobs
    PROVE  /\ N!Outcome(j) \in C!Payloads \cup {None}
           /\ N!IsCompleted(j) => N!Outcome(j) # None
           /\ ~N!InLane(j) => N!Outcome(j) = None
           /\ spool[j] # None => N!Outcome(j) = spool[j]
<1>1. journal[j] \in {None} \cup [completion: C!Payloads \cup {None}]
    BY SamePayloads DEF NodeFacts, N!TypeOK
<1>2. N!IsCompleted(j) => journal[j].completion \in C!Payloads
  <2>1. SUFFICES ASSUME N!IsCompleted(j), journal[j].completion = None PROVE FALSE
      BY <1>1 DEF N!IsCompleted
  <2>2. journal[j] = [completion |-> None]
      BY <1>1, <2>1 DEF N!IsCompleted
  <2> QED BY <2>1, <2>2 DEF N!IsCompleted, N!Accepted, N!Journal
<1>3. spool[j] \in C!Payloads \cup {None}
    BY SamePayloads DEF NodeFacts, N!TypeOK
<1> QED BY <1>2, <1>3, SamePayloads
        DEF N!Outcome, N!InLane, N!IsCompleted, NodeFacts, N!WalAgreesWithSpool

-----------------------------------------------------------------------------
(* A step of the fleet is a step of each component, or leaves it alone. *)

LEMMA SameNode == [N!Next]_nodeVars => [NP!Next]_NP!vars
BY DEF N!Payloads, NP!Payloads, N!processVars, NP!processVars, N!fileVars, NP!fileVars,
       N!vars, NP!vars, N!Journal, NP!Journal, N!Accepted, NP!Accepted, N!IsAccepted,
       NP!IsAccepted, N!IsCompleted, NP!IsCompleted, N!Ended, NP!Ended, N!Waiting,
       NP!Waiting, N!Go, NP!Go, N!Stop, NP!Stop, N!Start, NP!Start, N!Crash, NP!Crash,
       N!Reenroll, NP!Reenroll, N!ClearSessionIfCurrent, NP!ClearSessionIfCurrent,
       N!Unauthorized, NP!Unauthorized, N!Transient, NP!Transient, N!RecoverSpool,
       NP!RecoverSpool, N!RecoverRetire, NP!RecoverRetire, N!Recovered, NP!Recovered,
       N!RetireAccepted, NP!RetireAccepted, N!Replay, NP!Replay, N!Flushed, NP!Flushed,
       N!TakeAccepted, NP!TakeAccepted, N!AskForWork, NP!AskForWork, N!NoWork, NP!NoWork,
       N!Offered, NP!Offered, N!JournalJob, NP!JournalJob, N!VerifyResultStorage,
       NP!VerifyResultStorage, N!ResultStorageUnavailable, NP!ResultStorageUnavailable,
       N!Acknowledged, NP!Acknowledged, N!AckRejected, NP!AckRejected, N!RunnerReturns,
       NP!RunnerReturns, N!JournalCompletion, NP!JournalCompletion,
       N!JournalCompletionRaises, NP!JournalCompletionRaises, N!WriteResult,
       NP!WriteResult, N!WriteResultRaises, NP!WriteResultRaises, N!Retire, NP!Retire,
       N!AfterPost, NP!AfterPost, N!Delivered, NP!Delivered, N!PostRejected,
       NP!PostRejected, N!Recover, NP!Recover, N!Local, NP!Local, N!Sends, NP!Sends,
       N!SendsDespiteFault, NP!SendsDespiteFault, N!Faults, NP!Faults, N!Answered,
       NP!Answered, N!Next, NP!Next, nodeVars

\* Each instance has its own copy of FiniteSets.
LEMMA SameFiniteSets ==
    \A S : C!Cardinality(S) = CP!Cardinality(S) /\ (C!IsFiniteSet(S) <=> CP!IsFiniteSet(S))
BY DEF C!Cardinality, CP!Cardinality, C!IsFiniteSet, CP!IsFiniteSet

LEMMA SameAgentSteps == ASSUME NEW a \in Agents PROVE C!AgentStep(a) => CP!AgentStep(a)
BY DEF C!AgentStep, CP!AgentStep, C!EnrollAgent, CP!EnrollAgent, C!ActivateAgent,
       CP!ActivateAgent, C!DenyPendingAgent, CP!DenyPendingAgent, C!RevokeAgent, CP!RevokeAgent,
       C!VerifySession, CP!VerifySession, C!Active, CP!Active, C!agentVars, CP!agentVars,
       C!workVars, CP!workVars

LEMMA SameWorkSteps ==
    ASSUME NEW j \in Jobs, NEW a \in Agents
    PROVE  C!WorkStep(j, a) => CP!WorkStep(j, a)
<1> USE DEF C!Active, CP!Active, C!agentVars, CP!agentVars, C!workVars, CP!workVars
<1>1. ASSUME NEW t \in Stamps PROVE C!InsertWork(j, a, t) => CP!InsertWork(j, a, t)
    BY SameFiniteSets DEF C!InsertWork, CP!InsertWork
<1>2. C!ClaimNextWork(j, a) => CP!ClaimNextWork(j, a)
    BY DEF C!ClaimNextWork, CP!ClaimNextWork, C!Claimable, CP!Claimable, C!Candidate,
           CP!Candidate, C!LiveOffer, CP!LiveOffer, C!Precedes, CP!Precedes, C!OfferRank,
           CP!OfferRank
<1>3. C!AcknowledgeWork(j, a) => CP!AcknowledgeWork(j, a)
    BY DEF C!AcknowledgeWork, CP!AcknowledgeWork, C!Acknowledgeable, CP!Acknowledgeable
<1>4. ASSUME NEW p \in C!Payloads
      PROVE  C!RecordWorkResult(j, a, p) => CP!RecordWorkResult(j, a, p)
    BY DEF C!RecordWorkResult, CP!RecordWorkResult, C!Recordable, CP!Recordable
<1>5. C!Payloads = CP!Payloads
    BY DEF C!Payloads, CP!Payloads, C!Terminal, CP!Terminal
<1> QED BY <1>1, <1>2, <1>3, <1>4, <1>5 DEF C!WorkStep, CP!WorkStep

LEMMA SameCoordinator == [C!Next]_coordinatorVars => [CP!Next]_CP!vars
<1>1. \A j \in Jobs : C!LeaseElapses(j) => CP!LeaseElapses(j)
    BY DEF C!LeaseElapses, CP!LeaseElapses, C!agentVars, CP!agentVars
<1> QED BY <1>1, SameAgentSteps, SameWorkSteps DEF C!Next, CP!Next, coordinatorVars, CP!vars

LEMMA NodePart == CallFits /\ [Next]_vars => [N!Next]_nodeVars
<1> SUFFICES ASSUME CallFits, Next PROVE [N!Next]_nodeVars
    BY DEF vars, nodeVars
<1>1. CASE Admin \/ \E j \in Jobs : LeaseElapses(j)
    BY <1>1 DEF Admin, LeaseElapses
<1>2. CASE \E a \in Agents : NodeEnrolls(a)
    BY <1>2 DEF NodeEnrolls, N!Next
<1>3. CASE NodeStarts \/ NodeCrashes
    BY <1>3 DEF NodeStarts, NodeCrashes, N!Next
<1>4. CASE NodeLocal \/ NodeStorageFails
    BY <1>4 DEF NodeLocal, NodeStorageFails, N!Next
<1>5. CASE NodeAsks \/ NodeAcks
    BY <1>5 DEF NodeAsks, NodeAcks, N!Next, N!Sends
<1>6. CASE \E ok \in BOOLEAN : NodePosts(ok)
    BY <1>6 DEF NodePosts, N!Next, N!Sends, N!SendsDespiteFault
<1>7. CASE CallFails
    BY <1>7 DEF CallFails, N!Next, N!Answered
<1>8. ASSUME NEW r \in Calls, Serve(r) PROVE UNCHANGED nodeVars
    BY <1>8 DEF Serve, Authenticate, OfferWork, PollWindowCloses, ServeAck, ServeResult, Advance
<1>9. CASE NodeHears
    BY <1>9 DEF CallFits, NodeHears, N!Next, N!Answered
<1> QED BY <1>1, <1>2, <1>3, <1>4, <1>5, <1>6, <1>7, <1>8, <1>9 DEF Next, NodeProceeds

LEMMA CoordinatorPart == TypeOK /\ RequestsFit /\ [Next]_vars => [C!Next]_coordinatorVars
<1> SUFFICES ASSUME TypeOK, RequestsFit, Next PROVE [C!Next]_coordinatorVars
    BY DEF vars, coordinatorVars
<1>1. CASE Admin
    BY <1>1 DEF Admin, C!Next, C!AgentStep, C!WorkStep
<1>2. CASE \E j \in Jobs : LeaseElapses(j)
    BY <1>2 DEF LeaseElapses, C!Next
<1>3. CASE \/ \E a \in Agents : NodeEnrolls(a)
           \/ NodeStarts \/ NodeLocal \/ NodeAsks \/ NodeAcks \/ NodeStorageFails
           \/ NodeCrashes \/ CallFails \/ NodeHears
           \/ \E ok \in BOOLEAN : NodePosts(ok)
    BY <1>3 DEF NodeEnrolls, NodeStarts, NodeLocal, NodeAsks, NodeAcks, NodeStorageFails,
                NodeCrashes, CallFails, NodeHears, NodePosts
<1>4. ASSUME NEW r \in Calls, Serve(r) PROVE [C!Next]_coordinatorVars
  <2>1. r \in Requests
      BY DEF TypeOK, Calls
  <2>2. r.agent \in Agents /\ r.job \in Jobs \cup {None} /\ r.payload \in C!Payloads \cup {None}
      BY <2>1 DEF Requests
  <2>3. r.kind # "poll" => r.job \in Jobs
      BY DEF RequestsFit
  <2>4. CASE Authenticate(r)
      BY <2>2, <2>4 DEF Authenticate, C!Next, C!AgentStep
  <2>5. CASE OfferWork(r)
      BY <2>2, <2>5 DEF OfferWork, C!Next, C!WorkStep
  <2>6. CASE PollWindowCloses(r)
      BY <2>6 DEF PollWindowCloses
  <2>7. CASE ServeAck(r)
      BY <2>2, <2>3, <2>7 DEF ServeAck, C!Next, C!WorkStep
  <2>8. CASE ServeResult(r)
    <3>1. r.kind = "post" /\ Durable(r.job, r.payload)
        BY <2>8 DEF ServeResult, RequestsFit
    <3> QED BY <2>2, <2>3, <2>8, <3>1 DEF ServeResult, Durable, C!Next, C!WorkStep
  <2> QED BY <1>4, <2>4, <2>5, <2>6, <2>7, <2>8 DEF Serve
<1> QED BY <1>1, <1>2, <1>3, <1>4 DEF Next, NodeProceeds

LEMMA AssumptionsHold == CP!CoordinatorAssumption /\ NP!NodeAgentAssumption
BY FleetAssumption, SameFiniteSets
DEF C!CoordinatorAssumption, CP!CoordinatorAssumption, N!NodeAgentAssumption,
    NP!NodeAgentAssumption, N!Payloads, NP!Payloads

LEMMA PartsStep == IInv /\ [Next]_vars => CP!IInv' /\ NP!IInv' /\ RowFacts' /\ NodeFacts'
<1>1. IInv /\ [Next]_vars => CP!IInv /\ [CP!Next]_CP!vars /\ NP!IInv /\ [NP!Next]_NP!vars
    BY CoordinatorPart, NodePart, SameCoordinator, SameNode DEF IInv
<1>2. CP!IInv /\ [CP!Next]_CP!vars => CP!IInv'
    BY AssumptionsHold, CP!InvStep DEF CP!InvStep
<1>3. NP!IInv /\ [NP!Next]_NP!vars => NP!IInv'
    BY AssumptionsHold, NP!StepPreserves DEF NP!StepPreserves
<1> QED BY <1>1, <1>2, <1>3, RowFactsHold, NodeFactsHold, PTL

LEMMA FactsHold == IInv => RowFacts /\ NodeFacts
BY RowFactsHold, NodeFactsHold DEF IInv

-----------------------------------------------------------------------------
(* Steps that only touch the coordinator. *)

Fits == CallFits /\ RequestsFit /\ AnswersHold /\ \A j \in Jobs : JobFits(j)

LEMMA InitEstablishes == Init => IInv
<1> SUFFICES ASSUME Init PROVE IInv
    OBVIOUS
<1>1. CP!IInv
  <2>1. CP!Init
      BY DEF Init, C!Init, CP!Init
  <2> QED BY <2>1, AssumptionsHold, CP!InitInv DEF CP!InitInv
<1>2. NP!IInv
  <2>1. NP!Init
      BY DEF Init, N!Init, NP!Init
  <2> QED BY <2>1, AssumptionsHold, NP!InitEstablishes DEF NP!InitEstablishes
<1>3. TypeOK
  <2>1. C!TypeOK /\ N!TypeOK
      BY <1>1, <1>2, RowFactsHold, NodeFactsHold DEF RowFacts, NodeFacts
  <2> QED BY <2>1, FleetAssumption DEF Init, TypeOK
<1>4. CallFits /\ RequestsFit /\ AnswersHold
    BY DEF Init, N!Init, CallFits, RequestsFit, AnswersHold, Calls, N!Waiting, N!Ended
<1>5. ASSUME NEW j \in Jobs PROVE JobFits(j)
  <2>1. /\ ~N!InLane(j) /\ ~Quarantined(j) /\ ~Fresh(j) /\ ~Executing(j)
        /\ N!Outcome(j) = None /\ status[j] = "absent" /\ result[j] = None
        /\ ~N!IsAccepted(j)
      BY Journals DEF Init, C!Init, N!Init, N!InLane, Quarantined, Fresh, Executing, N!Outcome,
                      N!IsCompleted, N!IsAccepted
  <2> QED BY <2>1 DEF Init, N!Init, JobFits, RowFits, LaneFits, QuarantineFits, OneOutcome,
                      Durable, Issued, C!Terminal
<1> QED BY <1>1, <1>2, <1>3, <1>4, <1>5 DEF IInv

\* Whatever happens to agents: who was used stays so, and who was denied.
LEMMA AgentsMove ==
    ASSUME IInv, UNCHANGED <<nodeVars, call, ghosts, status, owner, result>>,
           \A a \in Agents : /\ Used(a) => Used(a)'
                             /\ agentStatus[a] = "denied" => agentStatus'[a] = "denied"
    PROVE  Fits'
<1> USE DEF nodeVars
<1>0. RowFacts /\ Calls' = Calls /\ \A r \in Calls : r.agent \in Agents
    BY FactsHold DEF IInv, TypeOK, Calls, Requests
<1>1. CallFits'
    BY DEF IInv, CallFits
<1>2. \A j \in Jobs : status[j] \in Issued => owner[j] \in Agents
    BY <1>0 DEF RowFacts, C!TypeOK, Issued, C!Terminal
<1>3. \A j \in Jobs : /\ N!InLane(j)' <=> N!InLane(j)
                      /\ Quarantined(j)' <=> Quarantined(j)
                      /\ N!Outcome(j)' = N!Outcome(j)
                      /\ N!IsAccepted(j)' <=> N!IsAccepted(j)
                      /\ Fresh(j)' <=> Fresh(j)
    BY DEF N!InLane, Quarantined, N!Outcome, N!IsCompleted, N!IsAccepted, Fresh
<1>4. RequestsFit'
    BY <1>0, <1>3 DEF IInv, RequestsFit, Durable
<1>5. AnswersHold'
  <2>1. ASSUME call # None, call.stage = "rejected" PROVE owner[call.job] \in Agents
    <3>1. call \in Calls
        BY <2>1 DEF Calls
    <3>2. call.kind # "poll"
        BY <2>1 DEF IInv, CallFits, Pending
    <3>3. call.job \in Jobs /\ status[call.job] \in Issued
        BY <3>1, <3>2 DEF IInv, RequestsFit
    <3> QED BY <3>3, <1>2
  <2> QED BY <2>1 DEF IInv, AnswersHold
<1>6. ASSUME NEW j \in Jobs PROVE JobFits(j)'
  <2>1. RowFits(j)'
      BY <1>2, <1>3 DEF IInv, JobFits, RowFits
  <2>2. LaneFits(j)'
      BY <1>0, <1>3 DEF IInv, JobFits, LaneFits, Unrequested, Executing
  <2>3. QuarantineFits(j)'
      BY <1>2, <1>3 DEF IInv, JobFits, QuarantineFits, Lost
  <2>4. OneOutcome(j)'
      BY <1>3 DEF IInv, JobFits, OneOutcome, Durable
  <2> QED BY <2>1, <2>2, <2>3, <2>4 DEF JobFits
<1> QED BY <1>1, <1>4, <1>5, <1>6 DEF Fits

LEMMA LanesStay ==
    ASSUME UNCHANGED <<journal, spool, quarantine>>, NEW j
    PROVE  /\ N!InLane(j)' <=> N!InLane(j)
           /\ Quarantined(j)' <=> Quarantined(j)
           /\ N!Outcome(j)' = N!Outcome(j)
           /\ N!IsAccepted(j)' <=> N!IsAccepted(j)
BY DEF N!InLane, Quarantined, N!Outcome, N!IsCompleted, N!IsAccepted

LEMMA WorkInserted ==
    ASSUME IInv, UNCHANGED <<nodeVars, call, ghosts>>,
           NEW k \in Jobs, NEW a \in Agents, NEW t \in Stamps, C!InsertWork(k, a, t)
    PROVE  Fits'
<1> USE DEF nodeVars, Issued, Settled, C!Terminal
<1>0. /\ RowFacts /\ Calls' = Calls
      /\ status[k] = "absent" /\ status' = [status EXCEPT ![k] = "queued"]
      /\ owner' = [owner EXCEPT ![k] = a]
      /\ UNCHANGED <<agentStatus, tokenPending, result>>
      /\ status \in [Jobs -> {"absent", "queued"} \cup Issued]
      /\ owner \in [Jobs -> Agents \cup {None}]
    BY FactsHold DEF C!InsertWork, C!agentVars, Calls, RowFacts, C!TypeOK
<1>1. \A j \in Jobs \ {k} : status'[j] = status[j] /\ owner'[j] = owner[j]
    BY <1>0
<1>2. status'[k] = "queued" /\ \A j \in Jobs : status[j] \in Issued => j # k
    BY <1>0
<1>3. \A b : (Used(b)' <=> Used(b)) /\ (Lost(b)' <=> Lost(b))
    BY <1>0 DEF Used, Lost
<1>4. CallFits'
    BY DEF IInv, CallFits
<1>5. RequestsFit'
    BY <1>0, <1>1, <1>2, <1>3, LanesStay DEF IInv, RequestsFit, Durable
<1>6. AnswersHold'
  <2>1. call # None /\ call.kind # "poll" => call.job \in Jobs \ {k}
      BY <1>2 DEF IInv, RequestsFit, Calls
  <2>2. call # None /\ call.stage = "rejected" => call.kind # "poll"
      BY DEF IInv, CallFits, Pending
  <2> QED BY <1>0, <1>1, <2>1, <2>2 DEF IInv, AnswersHold
<1>7. ASSUME NEW j \in Jobs PROVE JobFits(j)'
  <2>0. Fresh(j)' <=> Fresh(j)
      BY DEF Fresh
  <2>1. CASE j = k
    <3>1. /\ ~N!InLane(k) /\ ~Quarantined(k) /\ ~Fresh(k) /\ ~Executing(k) /\ N!Outcome(k) = None
          /\ ~(N!IsAccepted(k) /\ spool[k] = None)
        BY <1>0 DEF IInv, JobFits, LaneFits, QuarantineFits
    <3>2. OneOutcome(k)'
        BY <1>0, LanesStay DEF IInv, JobFits, OneOutcome, Durable
    <3>3. ~Executing(k)'
        BY <3>1 DEF Executing
    <3> QED BY <1>2, <2>0, <2>1, <3>1, <3>2, <3>3, LanesStay
            DEF JobFits, RowFits, LaneFits, QuarantineFits
  <2>2. CASE j # k
    <3>1. status'[j] = status[j] /\ owner'[j] = owner[j] /\ result'[j] = result[j]
        BY <1>0, <1>1, <2>2
    <3>2. RowFits(j)' /\ QuarantineFits(j)' /\ OneOutcome(j)'
        BY <1>0, <1>3, <2>0, <3>1, LanesStay
        DEF IInv, JobFits, RowFits, QuarantineFits, OneOutcome, Durable
    <3>3. LaneFits(j)'
        BY <1>0, <2>0, <3>1, LanesStay DEF IInv, JobFits, LaneFits, Unrequested, Executing
    <3> QED BY <3>2, <3>3 DEF JobFits
  <2> QED BY <2>1, <2>2
<1> QED BY <1>4, <1>5, <1>6, <1>7 DEF Fits

LEMMA AdminStep == ASSUME IInv, Admin \/ \E j \in Jobs : LeaseElapses(j) PROVE Fits'
<1>1. ASSUME NEW a \in Agents, C!EnrollAgent(a), UNCHANGED <<nodeVars, call, ghosts>> PROVE Fits'
    BY <1>1, AgentsMove, FactsHold DEF C!EnrollAgent, C!workVars, Used, RowFacts, C!TypeOK
<1>2. ASSUME NEW a \in Agents, C!ActivateAgent(a), UNCHANGED <<nodeVars, call, ghosts>> PROVE Fits'
    BY <1>2, AgentsMove, FactsHold DEF C!ActivateAgent, C!workVars, Used, RowFacts, C!TypeOK
<1>3. ASSUME NEW a \in Agents, C!DenyPendingAgent(a) \/ C!RevokeAgent(a),
             UNCHANGED <<nodeVars, call, ghosts>>
      PROVE  Fits'
    BY <1>3, AgentsMove, FactsHold
    DEF C!DenyPendingAgent, C!RevokeAgent, C!workVars, Used, RowFacts, C!TypeOK
<1>4. ASSUME NEW j \in Jobs, LeaseElapses(j) PROVE Fits'
    BY <1>4, AgentsMove DEF LeaseElapses, C!LeaseElapses, C!agentVars, Used
<1> QED BY <1>1, <1>2, <1>3, <1>4, WorkInserted DEF Admin

-----------------------------------------------------------------------------
(* The handlers. *)

Moved(r, stage, j) == [r EXCEPT !.stage = stage, !.job = j]

\* A handler moves one call on; the node's own call is touched only if it is that one.
LEMMA Advanced ==
    ASSUME TypeOK, NEW r \in Calls, NEW stage \in Pending \cup Answers,
           NEW j \in Jobs \cup {None}, Advance(r, stage, j)
    PROVE  /\ UNCHANGED nodeVars
           /\ r \in Requests /\ Moved(r, stage, j) \in Requests
           /\ \A s \in Calls' : s \in Calls \/ s = Moved(r, stage, j)
           /\ call' # None <=> call # None
           /\ call # None => call' = call \/ (r = call /\ call' = Moved(r, stage, j))
           /\ Moved(r, stage, j).kind = r.kind /\ Moved(r, stage, j).agent = r.agent
           /\ Moved(r, stage, j).job = j /\ Moved(r, stage, j).payload = r.payload
           /\ Moved(r, stage, j).stage = stage
<1>1. r \in Requests
    BY DEF TypeOK, Calls
<1>2. r.live <=> call # None /\ r = call
    BY DEF TypeOK, Calls
<1>3. /\ Moved(r, stage, j).kind = r.kind /\ Moved(r, stage, j).agent = r.agent
      /\ Moved(r, stage, j).job = j /\ Moved(r, stage, j).payload = r.payload
      /\ Moved(r, stage, j).stage = stage
    BY <1>1 DEF Moved, Requests
<1>4. r.live \in BOOLEAN
    BY <1>1 DEF Requests
<1>5. None \notin Requests /\ Moved(r, stage, j) \in Requests
    BY <1>1, FleetAssumption DEF Moved, Requests
<1>6. CASE r.live
  <2>1. call' = Moved(r, stage, j) /\ ghosts' = ghosts /\ UNCHANGED nodeVars
      BY <1>6 DEF Advance, Moved
  <2>2. call' # None /\ call # None /\ r = call
      BY <1>2, <1>5, <1>6, <2>1
  <2>3. \A s \in Calls' : s \in ghosts \/ s = Moved(r, stage, j)
      BY <2>1, <2>2 DEF Calls
  <2> QED BY <1>1, <1>3, <1>5, <2>1, <2>2, <2>3 DEF Calls
<1>7. CASE ~r.live
  <2>1. call' = call /\ UNCHANGED nodeVars
      BY <1>7 DEF Advance
  <2>2. \A s \in ghosts' : s \in ghosts \/ s = Moved(r, stage, j)
      BY <1>7 DEF Advance, Moved
  <2>3. \A s \in Calls' : s \in Calls \/ s = Moved(r, stage, j)
      BY <2>1, <2>2 DEF Calls
  <2> QED BY <1>1, <1>3, <1>5, <2>1, <2>3
<1> QED BY <1>4, <1>6, <1>7

\* Its row and files as they were, nothing new asked or offered: a job still fits.
LEMMA JobsKept ==
    ASSUME IInv, UNCHANGED <<nodeVars, agentStatus>>, tokenPending' \subseteq tokenPending,
           \A s \in Calls' : s.kind # "poll" => \E r \in Calls : r.kind = s.kind /\ r.job = s.job,
           NEW j \in Jobs, UNCHANGED <<status[j], owner[j], result[j]>>, Fresh(j)' => Fresh(j)
    PROVE  JobFits(j)'
<1> USE DEF nodeVars, IInv, JobFits
<1>1. RowFits(j)'
    BY LanesStay DEF RowFits, Used
<1>2. LaneFits(j)'
    BY LanesStay DEF LaneFits, Unrequested, Executing
<1>3. QuarantineFits(j)' /\ OneOutcome(j)'
    BY LanesStay DEF QuarantineFits, OneOutcome, Durable, Lost
<1> QED BY <1>1, <1>2, <1>3

LEMMA AuthenticateStep == ASSUME IInv, NEW r \in Calls, Authenticate(r) PROVE Fits'
<1> DEFINE stage == Authenticated(r)
           moved == Moved(r, stage, r.job)
<1>0. /\ r.stage = "sent" /\ C!VerifySession(r.agent) /\ Advance(r, stage, r.job)
      /\ TypeOK /\ r \in Requests
      /\ stage \in {"unauthorized", "rejected", "authenticated"}
    BY DEF Authenticate, Authenticated, IInv, TypeOK, Calls
<1>1. /\ UNCHANGED <<nodeVars, status, owner, result, agentStatus>>
      /\ tokenPending' \subseteq tokenPending
      /\ C!Active(r.agent) => r.agent \notin tokenPending'
    BY <1>0 DEF C!VerifySession, C!workVars, Advance
<1>2. /\ \A s \in Calls' : s \in Calls \/ s = moved
      /\ call' # None <=> call # None
      /\ call # None => call' = call \/ (r = call /\ call' = moved)
      /\ moved.kind = r.kind /\ moved.agent = r.agent /\ moved.job = r.job
      /\ moved.payload = r.payload /\ moved.stage = stage
    BY <1>0, Advanced DEF Requests, Pending, Answers
<1>3. stage = "rejected" => r.kind = "post" /\ owner[r.job] # r.agent
    BY DEF Authenticated
<1>4. stage # "unauthorized" => Used(r.agent)'
    BY <1>1 DEF Authenticated, Used, C!Active
<1>5. CallFits'
    BY <1>0, <1>1, <1>2, <1>3 DEF CallFits, IInv, nodeVars, Pending
<1>6. RequestsFit'
  <2>1. \A a : Used(a) => Used(a)'
      BY <1>1 DEF Used
  <2>2. ASSUME NEW s \in Calls' PROVE (s.kind # "poll" => \E q \in Calls : /\ q.kind = s.kind
                                          /\ q.job = s.job /\ q.payload = s.payload)
                                      /\ (s.stage \notin {"sent", "unauthorized"} => Used(s.agent)')
      BY <1>2, <1>4, <2>1 DEF IInv, RequestsFit
  <2>3. \A j, p : /\ Durable(j, p) => Durable(j, p)'
                  /\ N!InLane(j) => N!InLane(j)'
                  /\ Quarantined(j) => Quarantined(j)'
      BY <1>1, LanesStay DEF Durable, nodeVars
  <2> QED BY <1>1, <2>2, <2>3 DEF IInv, RequestsFit
<1>7. AnswersHold'
    BY <1>0, <1>1, <1>2, <1>3 DEF AnswersHold, IInv
<1>8. \A j \in Jobs : Fresh(j)' => Fresh(j)
    BY <1>0, <1>1, <1>2 DEF Fresh, nodeVars
<1> QED BY <1>1, <1>2, <1>5, <1>6, <1>7, <1>8, JobsKept DEF Fits

LEMMA WindowStep == ASSUME IInv, NEW r \in Calls, PollWindowCloses(r) PROVE Fits'
<1> DEFINE moved == Moved(r, "none", None)
<1>0. /\ r.stage = "authenticated" /\ r.kind = "poll" /\ Advance(r, "none", None) /\ TypeOK
      /\ UNCHANGED <<status, owner, result, agentStatus, tokenPending>>
    BY DEF PollWindowCloses, IInv, coordinatorVars
<1>2. /\ \A s \in Calls' : s \in Calls \/ s = moved
      /\ call' # None <=> call # None
      /\ call # None => call' = call \/ (r = call /\ call' = moved)
      /\ moved.kind = "poll" /\ moved.agent = r.agent /\ moved.stage = "none"
      /\ UNCHANGED nodeVars
    BY <1>0, Advanced DEF Pending, Answers
<1>5. CallFits'
    BY <1>0, <1>2 DEF CallFits, IInv, nodeVars, Pending
<1>6. RequestsFit'
    BY <1>0, <1>2, LanesStay DEF IInv, RequestsFit, Durable, nodeVars, Used
<1>7. AnswersHold'
    BY <1>0, <1>2 DEF AnswersHold, IInv
<1>8. \A j \in Jobs : Fresh(j)' => Fresh(j)
    BY <1>0, <1>2 DEF Fresh, nodeVars
<1> QED BY <1>0, <1>2, <1>5, <1>6, <1>7, <1>8, JobsKept DEF Fits

LEMMA OfferStep == ASSUME IInv, NEW r \in Calls, OfferWork(r) PROVE Fits'
<1>1. PICK k \in Jobs : C!ClaimNextWork(k, r.agent) /\ Advance(r, "offer", k)
    BY DEF OfferWork
<1> DEFINE moved == Moved(r, "offer", k)
<1>0. r.stage = "authenticated" /\ r.kind = "poll" /\ TypeOK /\ RowFacts /\ NodeFacts
    BY FactsHold DEF OfferWork, IInv
<1>2. /\ \A s \in Calls' : s \in Calls \/ s = moved
      /\ call' # None <=> call # None
      /\ call # None => call' = call \/ (r = call /\ call' = moved)
      /\ moved.kind = "poll" /\ moved.agent = r.agent /\ moved.stage = "offer" /\ moved.job = k
      /\ UNCHANGED nodeVars
    BY <1>0, <1>1, Advanced DEF Pending, Answers
<1>3. /\ C!Active(r.agent) /\ owner[k] = r.agent /\ status[k] \in {"queued", "offered"}
      /\ UNCHANGED <<owner, result, agentStatus, tokenPending>>
      /\ status' = [status EXCEPT ![k] = "offered"]
    BY <1>1 DEF C!ClaimNextWork, C!Claimable, C!Candidate, C!agentVars
<1>4. status'[k] = "offered" /\ \A j \in Jobs \ {k} : status'[j] = status[j]
    BY <1>0, <1>3 DEF RowFacts, C!TypeOK
<1>5. Used(r.agent)
    BY <1>0 DEF IInv, RequestsFit
<1>6. CallFits'
    BY <1>0, <1>2 DEF CallFits, IInv, nodeVars, Pending
<1>7. RequestsFit'
  <2>1. \A j \in Jobs : /\ status[j] \in Issued => status'[j] \in Issued
                        /\ status[j] \in Settled => status'[j] = status[j]
      BY <1>3, <1>4 DEF Issued, Settled, C!Terminal
  <2> QED BY <1>0, <1>2, <1>3, <1>5, <2>1, LanesStay
      DEF IInv, RequestsFit, Durable, nodeVars, Used, Settled
<1>8. AnswersHold'
  <2>1. ASSUME call # None, call.kind # "poll" PROVE call.job \in Jobs
      BY <2>1 DEF IInv, RequestsFit, Calls
  <2> QED BY <1>0, <1>2, <1>3, <1>4, <2>1 DEF AnswersHold, IInv, C!Terminal, CallFits, Pending
<1>9. \A s \in Calls' : s.kind # "poll" => s \in Calls
    BY <1>2
<1>10. ASSUME NEW j \in Jobs \ {k} PROVE JobFits(j)'
  <2>1. Fresh(j)' => Fresh(j)
      BY <1>2 DEF Fresh, nodeVars
  <2> QED BY <1>2, <1>3, <1>4, <1>9, <2>1, JobsKept
<1>11. Fresh(k)' => session = r.agent /\ Unrequested(k, {"ack", "post"})
  <2>1. CASE Fresh(k)
      BY <1>3, <2>1 DEF IInv, JobFits, LaneFits
  <2>2. CASE call # None /\ r = call
    <3>1. pc = "poll" /\ session = r.agent
        BY <1>0, <2>2 DEF IInv, CallFits
    <3>2. ~N!InLane(k) /\ ~Quarantined(k)
        BY <1>0, <1>3, <3>1 DEF NodeFacts, IInv, JobFits, QuarantineFits, Lost, C!Active
    <3> QED BY <1>3, <3>1, <3>2 DEF IInv, RequestsFit, Unrequested, Issued, C!Terminal
  <2> QED BY <1>2, <2>1, <2>2 DEF Fresh, nodeVars
<1>12. RowFits(k)' /\ OneOutcome(k)'
    BY <1>2, <1>3, <1>4, <1>5, LanesStay
    DEF IInv, JobFits, RowFits, OneOutcome, Durable, Used, nodeVars
<1>13. LaneFits(k)'
  <2>1. N!Outcome(k) = None /\ ~Executing(k)
      BY <1>3 DEF IInv, JobFits, LaneFits, Settled, C!Terminal
  <2>2. N!InLane(k)' \/ Fresh(k)' => N!InLane(k) \/ Fresh(k) \/ session = owner[k]
      BY <1>2, <1>3, <1>11, LanesStay DEF nodeVars
  <2> QED BY <1>2, <1>3, <1>4, <1>9, <1>11, <2>1, <2>2, LanesStay
      DEF IInv, JobFits, LaneFits, Unrequested, Executing, Issued, nodeVars
<1>14. QuarantineFits(k)'
  <2>1. Quarantined(k) => ~Fresh(k)'
      BY <1>3, <1>11 DEF IInv, JobFits, QuarantineFits, Lost, C!Active
  <2> QED BY <1>2, <1>3, <1>4, <2>1, LanesStay
      DEF IInv, JobFits, QuarantineFits, Lost, Issued, nodeVars
<1>15. ASSUME NEW j \in Jobs PROVE JobFits(j)'
    BY <1>10, <1>12, <1>13, <1>14 DEF JobFits
<1> QED BY <1>6, <1>7, <1>8, <1>15 DEF Fits

LEMMA AckStep == ASSUME IInv, NEW r \in Calls, ServeAck(r) PROVE Fits'
<1> DEFINE k == r.job
           stage == IF C!AckAnswer(k, r.agent) = "ok" THEN "ok" ELSE "rejected"
           moved == Moved(r, stage, k)
<1>0. /\ r.stage = "authenticated" /\ r.kind = "ack" /\ C!AcknowledgeWork(k, r.agent)
      /\ Advance(r, stage, k) /\ TypeOK /\ RowFacts /\ NodeFacts
    BY FactsHold DEF ServeAck, IInv
<1>1. /\ k \in Jobs /\ Used(r.agent) /\ status[k] \in Issued
      /\ status[k] \in C!Terminal \/ N!InLane(k) \/ Quarantined(k)
    BY <1>0 DEF IInv, RequestsFit
<1>2. /\ \A s \in Calls' : s \in Calls \/ s = moved
      /\ call' # None <=> call # None
      /\ call # None => call' = call \/ (r = call /\ call' = moved)
      /\ moved.kind = "ack" /\ moved.agent = r.agent /\ moved.job = k
      /\ moved.payload = r.payload /\ moved.stage = stage
      /\ UNCHANGED nodeVars
  <2>1. stage \in Pending \cup Answers
      BY DEF Answers
  <2> QED BY <1>0, <1>1, <2>1, Advanced
<1>3. UNCHANGED <<owner, result, agentStatus, tokenPending>>
    BY <1>0 DEF C!AcknowledgeWork, C!agentVars
<1>4. /\ \A j \in Jobs \ {k} : status'[j] = status[j]
      /\ \/ status'[k] = status[k]
         \/ status[k] = "offered" /\ status'[k] = "dispatched"
    BY <1>0, <1>1 DEF C!AcknowledgeWork, C!Acknowledgeable, RowFacts, C!TypeOK
<1>5. /\ stage = "ok" => status'[k] = "dispatched"
      /\ stage = "rejected" => \/ owner[k] # r.agent \/ ~C!Active(r.agent)
                               \/ status[k] \notin {"offered", "dispatched"}
    BY <1>0, <1>1 DEF C!AcknowledgeWork, C!AckAnswer, C!Acknowledgeable, RowFacts, C!TypeOK
<1>6. CallFits'
    BY <1>0, <1>2 DEF CallFits, IInv, nodeVars, Pending
<1>7. \A j \in Jobs : /\ status[j] \in Issued => status'[j] \in Issued
                      /\ status[j] \in Settled => status'[j] = status[j]
                      /\ status[j] \in C!Terminal => status'[j] \in C!Terminal
    BY <1>4 DEF Issued, Settled, C!Terminal
<1>8. RequestsFit'
  <2>1. ASSUME NEW s \in Calls'
        PROVE  /\ s.stage \notin {"sent", "unauthorized"} => Used(s.agent)
               /\ s.kind # "poll" =>
                   /\ s.job \in Jobs
                   /\ status[s.job] \in Issued
                   /\ status[s.job] \in C!Terminal \/ N!InLane(s.job) \/ Quarantined(s.job)
               /\ s.kind = "post" => status[s.job] \in Settled /\ Durable(s.job, s.payload)
      BY <1>0, <1>1, <1>2 DEF IInv, RequestsFit
  <2>2. \A j, p : Durable(j, p) => Durable(j, p)'
      BY <1>2, <1>3, LanesStay DEF Durable, nodeVars
  <2>3. \A j : (N!InLane(j) <=> N!InLane(j)') /\ (Quarantined(j) <=> Quarantined(j)')
      BY <1>2, LanesStay DEF nodeVars
  <2>4. \A a : Used(a) => Used(a)'
      BY <1>3 DEF Used
  <2>5. ASSUME NEW s \in Calls', s.kind = "post" PROVE status'[s.job] \in Settled /\ s.job \in Jobs
      BY <2>1, <2>5, <1>7
  <2> QED BY <2>1, <2>2, <2>3, <2>4, <2>5, <1>7 DEF RequestsFit
<1>9. AnswersHold'
  <2>1. ASSUME call # None, call.kind # "poll" PROVE call.job \in Jobs /\ status[call.job] \in Issued
      BY <2>1 DEF IInv, RequestsFit, Calls
  <2>2. ASSUME call # None, call' = call PROVE AnswersHold'
    <3>1. call.stage = "rejected" => call.kind # "poll"
        BY <2>2 DEF IInv, CallFits, Pending
    <3>2. call.kind = "ack" /\ call.stage = "ok" => status'[call.job] = "dispatched"
        BY <2>1, <2>2, <1>7 DEF IInv, AnswersHold, Settled
    <3> QED BY <2>1, <2>2, <3>1, <3>2, <1>3, <1>7 DEF IInv, AnswersHold
  <2>3. ASSUME call # None, r = call, call' = moved PROVE AnswersHold'
    <3>1. status[k] \in {"offered", "dispatched"}
        BY <1>0, <1>1, <2>3 DEF IInv, CallFits, NodeFacts, JobFits, LaneFits
    <3>2. ~C!Active(r.agent) => agentStatus[r.agent] = "denied"
        BY <1>1 DEF Used, C!Active
    <3> QED BY <1>2, <1>3, <1>5, <2>3, <3>1, <3>2 DEF AnswersHold
  <2> QED BY <1>2, <2>2, <2>3 DEF AnswersHold
<1>10. \A s \in Calls' : s.kind # "poll" => \E q \in Calls : q.kind = s.kind /\ q.job = s.job
    BY <1>0, <1>2
<1>11. \A j \in Jobs : Fresh(j)' => Fresh(j)
    BY <1>2 DEF Fresh, nodeVars
<1>12. ASSUME NEW j \in Jobs, status'[j] = status[j] PROVE JobFits(j)'
    BY <1>2, <1>3, <1>10, <1>11, <1>12, JobsKept
<1>13. ASSUME status[k] = "offered", status'[k] = "dispatched" PROVE JobFits(k)'
  <2>0. Unrequested(k, {"post"}) => Unrequested(k, {"post"})'
      BY <1>10 DEF Unrequested
  <2>1. ~Fresh(k)'
      BY <1>0, <1>1, <1>11 DEF IInv, JobFits, LaneFits, Unrequested
  <2>2. RowFits(k)'
      BY <1>1, <1>2, <1>3, <1>13, LanesStay DEF IInv, JobFits, RowFits, Used, nodeVars, C!Terminal
  <2>3. LaneFits(k)'
      BY <1>1, <1>2, <1>3, <1>13, <2>0, <2>1, LanesStay
      DEF IInv, JobFits, LaneFits, Executing, nodeVars, Issued, Settled
  <2>4. QuarantineFits(k)'
      BY <1>1, <1>2, <1>3, <1>13, <2>1, LanesStay
      DEF IInv, JobFits, QuarantineFits, Lost, nodeVars, Issued
  <2>5. OneOutcome(k)'
      BY <1>1, <1>2, <1>3, LanesStay DEF IInv, JobFits, OneOutcome, Durable, nodeVars
  <2> QED BY <2>2, <2>3, <2>4, <2>5 DEF JobFits
<1>14. ASSUME NEW j \in Jobs PROVE JobFits(j)'
    BY <1>4, <1>12, <1>13
<1> QED BY <1>6, <1>8, <1>9, <1>14 DEF Fits

LEMMA ResultStep == ASSUME IInv, NEW r \in Calls, ServeResult(r) PROVE Fits'
<1> DEFINE k == r.job
           p == r.payload
           stage == IF C!RecordAnswer(k, r.agent) \in {"recorded", "already_recorded"}
                    THEN "ok" ELSE "rejected"
           moved == Moved(r, stage, k)
<1>0. /\ r.stage = "authenticated" /\ r.kind = "post" /\ C!RecordWorkResult(k, r.agent, p)
      /\ Advance(r, stage, k) /\ TypeOK /\ RowFacts /\ NodeFacts
    BY FactsHold DEF ServeResult, IInv
<1>1. k \in Jobs /\ Used(r.agent) /\ status[k] \in Settled /\ Durable(k, p)
    BY <1>0 DEF IInv, RequestsFit
<1>2. /\ \A s \in Calls' : s \in Calls \/ s = moved
      /\ call' # None <=> call # None
      /\ call # None => call' = call \/ (r = call /\ call' = moved)
      /\ moved.kind = "post" /\ moved.agent = r.agent /\ moved.job = k
      /\ moved.payload = p /\ moved.stage = stage
      /\ UNCHANGED nodeVars /\ r \in Requests
  <2>1. stage \in Pending \cup Answers
      BY DEF Answers
  <2> QED BY <1>0, <1>1, <2>1, Advanced
<1>3. UNCHANGED <<owner, agentStatus, tokenPending>>
    BY <1>0 DEF C!RecordWorkResult, C!agentVars
<1>4. /\ \A j \in Jobs \ {k} : status'[j] = status[j] /\ result'[j] = result[j]
      /\ \/ status'[k] = status[k] /\ result'[k] = result[k]
         \/ /\ status[k] = "dispatched" /\ status'[k] \in C!Terminal
            /\ result[k] = None /\ result'[k] = p
  <2>1. p \in C!Payloads
      BY <1>1, <1>2 DEF Durable, Requests
  <2>2. p.status \in C!Terminal
      BY <2>1 DEF C!Payloads
  <2>3. status[k] = "dispatched" => result[k] = None
      BY <1>0, <1>1 DEF RowFacts, C!ResultMatchesStatus, C!Terminal
  <2> QED BY <1>0, <1>1, <2>2, <2>3 DEF C!RecordWorkResult, C!Recordable, RowFacts, C!TypeOK
<1>5. /\ stage = "ok" => status'[k] \in C!Terminal
      /\ stage = "rejected" => owner[k] # r.agent \/ ~C!Active(r.agent)
  <2>1. C!Recordable(k, r.agent) => status'[k] \in C!Terminal
    <3>1. p.status \in C!Terminal
        BY <1>1, <1>2 DEF Durable, Requests, C!Payloads
    <3> QED BY <1>0, <1>1, <3>1 DEF C!RecordWorkResult, RowFacts, C!TypeOK
  <2>2. status[k] \in C!Terminal => status'[k] \in C!Terminal
      BY <1>4
  <2> QED BY <1>1, <2>1, <2>2 DEF C!RecordAnswer, C!Recordable, Settled
<1>6. CallFits'
    BY <1>0, <1>2 DEF CallFits, IInv, nodeVars, Pending
<1>7. \A j \in Jobs : /\ status[j] \in Issued => status'[j] \in Issued
                      /\ status[j] \in Settled => status'[j] \in Settled
                      /\ status[j] \in C!Terminal => status'[j] \in C!Terminal
                      /\ \A q : Durable(j, q) <=> Durable(j, q)'
  <2>1. \A j : (Quarantined(j)' <=> Quarantined(j)) /\ N!Outcome(j)' = N!Outcome(j)
      BY <1>2, LanesStay DEF nodeVars
  <2>2. \A q : Durable(k, q) <=> Durable(k, q)'
      BY <1>1, <1>2, <1>4, <2>1 DEF Durable, nodeVars
  <2> QED BY <1>2, <1>4, <2>1, <2>2 DEF Issued, Settled, C!Terminal, Durable, nodeVars
<1>8. RequestsFit'
  <2>1. ASSUME NEW s \in Calls'
        PROVE  /\ s.stage \notin {"sent", "unauthorized"} => Used(s.agent)
               /\ s.kind # "poll" =>
                   /\ s.job \in Jobs
                   /\ status[s.job] \in Issued
                   /\ status[s.job] \in C!Terminal \/ N!InLane(s.job) \/ Quarantined(s.job)
               /\ s.kind = "post" => status[s.job] \in Settled /\ Durable(s.job, s.payload)
    <3>1. CASE s \in Calls
        BY <3>1 DEF IInv, RequestsFit
    <3>2. CASE s = moved
        BY <1>0, <1>1, <1>2, <3>2 DEF IInv, RequestsFit
    <3> QED BY <1>2, <3>1, <3>2
  <2>3. \A j : (N!InLane(j) <=> N!InLane(j)') /\ (Quarantined(j) <=> Quarantined(j)')
      BY <1>2, LanesStay DEF nodeVars
  <2>4. \A a : Used(a) => Used(a)'
      BY <1>3 DEF Used
  <2>5. ASSUME NEW s \in Calls', s.kind = "post"
        PROVE  status'[s.job] \in Settled /\ Durable(s.job, s.payload)'
      BY <2>1, <2>5, <1>7
  <2> QED BY <2>1, <2>3, <2>4, <2>5, <1>7 DEF RequestsFit
<1>9. AnswersHold'
  <2>1. ASSUME call # None, call.kind # "poll" PROVE call.job \in Jobs
      BY <2>1 DEF IInv, RequestsFit, Calls
  <2>2. ASSUME call # None, call' = call PROVE AnswersHold'
    <3>1. call.stage = "rejected" => call.kind # "poll"
        BY <2>2 DEF IInv, CallFits, Pending
    <3>2. ASSUME call.kind = "ack", call.stage = "ok" PROVE status'[call.job] = "dispatched"
      <4>1. pc = "ack" /\ call.job = job
          BY <2>2, <3>2 DEF IInv, CallFits
      <4>2. N!IsAccepted(call.job) /\ spool[call.job] = None
          BY <1>0, <4>1 DEF NodeFacts
      <4>3. Unrequested(call.job, {"post"}) /\ call.job \in Jobs
          BY <2>1, <2>2, <3>2, <4>2 DEF IInv, JobFits, LaneFits
      <4> QED BY <1>0, <1>4, <2>2, <3>2, <4>3 DEF Unrequested, IInv, AnswersHold
    <3> QED BY <2>1, <2>2, <3>1, <3>2, <1>3, <1>7 DEF IInv, AnswersHold
  <2>3. ASSUME call # None, r = call, call' = moved PROVE AnswersHold'
    <3>1. ~C!Active(r.agent) => agentStatus[r.agent] = "denied"
        BY <1>1 DEF Used, C!Active
    <3> QED BY <1>2, <1>3, <1>5, <2>3, <3>1 DEF AnswersHold
  <2> QED BY <1>2, <2>2, <2>3 DEF AnswersHold
<1>10. \A s \in Calls' : s.kind # "poll" => \E q \in Calls : q.kind = s.kind /\ q.job = s.job
    BY <1>0, <1>2
<1>11. \A j \in Jobs : Fresh(j)' => Fresh(j)
    BY <1>2 DEF Fresh, nodeVars
<1>12. ASSUME NEW j \in Jobs, status'[j] = status[j], result'[j] = result[j] PROVE JobFits(j)'
    BY <1>2, <1>3, <1>10, <1>11, <1>12, JobsKept
<1>13. ASSUME status[k] = "dispatched", status'[k] \in C!Terminal PROVE JobFits(k)'
  <2>1. /\ ~Fresh(k)' /\ ~Executing(k)' /\ ~(N!IsAccepted(k) /\ spool[k] = None)
        /\ N!InLane(k)' => N!InLane(k)
        /\ ~Fresh(k)
      BY <1>0, <1>1, <1>2, <1>11, LanesStay
      DEF IInv, JobFits, LaneFits, Unrequested, Executing, nodeVars
  <2>2. RowFits(k)'
      BY <1>1, <1>3, <1>13 DEF IInv, JobFits, RowFits, Used, C!Terminal, Issued
  <2>3. LaneFits(k)'
      BY <1>1, <1>2, <1>3, <1>13, <2>1, LanesStay
      DEF IInv, JobFits, LaneFits, nodeVars, Issued, Settled
  <2>4. QuarantineFits(k)'
      BY <1>1, <1>2, <1>3, <1>13, <2>1, LanesStay
      DEF IInv, JobFits, QuarantineFits, Lost, nodeVars, Issued
  <2>5. OneOutcome(k)'
      BY <1>1, <1>7 DEF IInv, JobFits, OneOutcome
  <2> QED BY <2>2, <2>3, <2>4, <2>5 DEF JobFits
<1>14. ASSUME NEW j \in Jobs PROVE JobFits(j)'
    BY <1>4, <1>12, <1>13
<1> QED BY <1>6, <1>8, <1>9, <1>14 DEF Fits

-----------------------------------------------------------------------------
(* The node. *)

\* The same request, whoever still waits for its answer.
Repeated(s) ==
    \E r \in Calls : /\ s.kind = r.kind /\ s.agent = r.agent /\ s.job = r.job
                    /\ s.payload = r.payload /\ s.stage = r.stage

AsksForWork(s) == s.kind = "poll" /\ s.stage = "sent"

\* The process goes on, or ends and keeps nothing in memory.
ProcessKept ==
    /\ config' \in {config, None}
    /\ \/ session' = session /\ pc \notin N!Ended /\ pc' \notin N!Ended
       \/ session' = None /\ pc' \in N!Ended

OutcomesStay == \A j \in Jobs, p \in C!Payloads : Durable(j, p)' <=> Durable(j, p)

\* The job in hand, which had no durable outcome, gets the one in hand.
OutcomeTaken ==
    /\ job \in Jobs /\ payload \in C!Payloads /\ status[job] = "dispatched"
    /\ \A p \in C!Payloads : ~Durable(job, p)
    /\ \A j \in Jobs, p \in C!Payloads :
           Durable(j, p)' <=> Durable(j, p) \/ (j = job /\ p = payload)

NodeFits == Fits' /\ (OutcomesStay \/ OutcomeTaken)

LEMMA OwnersAreAgents ==
    ASSUME IInv, NEW j \in Jobs, status[j] \in Issued
    PROVE  owner[j] \in Agents /\ owner[j] # None
<1>1. RowFacts /\ status[j] # "absent"
    BY FactsHold DEF Issued, C!Terminal
<1> QED BY <1>1 DEF RowFacts, C!TypeOK

\* A job whose files say the same as before, and which is not newly at work.
LEMMA JobStays ==
    ASSUME IInv, UNCHANGED <<coordinatorVars, quarantine>>, ProcessKept, CallFits',
           NEW j \in Jobs,
           N!InLane(j)' <=> N!InLane(j), N!Outcome(j)' = N!Outcome(j),
           N!IsAccepted(j)' /\ spool'[j] = None =>
               N!IsAccepted(j) /\ spool[j] = None /\ Unrequested(j, {"post"})',
           Executing(j)' => status[j] = "dispatched" /\ Unrequested(j, {"post"})',
           Fresh(j)' => Fresh(j) /\ Unrequested(j, {"ack", "post"})'
    PROVE  JobFits(j)'
<1> USE DEF IInv, JobFits, coordinatorVars
<1>0. Quarantined(j)' <=> Quarantined(j)
    BY DEF Quarantined
<1>1. RowFits(j)'
    BY <1>0 DEF RowFits, Used
<1>2. N!InLane(j) \/ Fresh(j) => status[j] \in Issued
    BY DEF LaneFits, Issued
<1>3. Quarantined(j) => status[j] \in Issued
    BY DEF QuarantineFits
<1>4. LaneFits(j)'
  <2>1. Fresh(j)' => /\ status'[j] = "offered" /\ owner'[j] = session'
                     /\ Unrequested(j, {"ack", "post"})'
    <3>1. Fresh(j)' => pc' \notin N!Ended
        BY DEF CallFits, Fresh, N!Waiting, N!Ended
    <3> QED BY <3>1 DEF LaneFits, ProcessKept
  <2>2. (N!InLane(j) \/ Fresh(j))' /\ pc' \notin N!Ended /\ config' = owner'[j]
        => session' = owner'[j]
      BY <1>2, OwnersAreAgents DEF LaneFits, ProcessKept
  <2> QED BY <2>1, <2>2 DEF LaneFits
<1>5. QuarantineFits(j)'
    BY <1>0, <1>3, OwnersAreAgents DEF QuarantineFits, Lost, ProcessKept
<1>6. OneOutcome(j)'
    BY DEF OneOutcome, Durable
<1> QED BY <1>1, <1>4, <1>5, <1>6

\* What was asked before, or is asked now about a job in the lane.
LEMMA RequestsKept ==
    ASSUME IInv, UNCHANGED coordinatorVars,
           \A s \in Calls' :
               \/ Repeated(s)
               \/ /\ s.stage = "sent"
                  /\ s.kind # "poll" => s.job \in Jobs /\ status[s.job] \in Issued /\ N!InLane(s.job)'
                  /\ s.kind = "post" => status[s.job] \in Settled /\ Durable(s.job, s.payload)',
           \A j \in Jobs : /\ N!InLane(j) \/ Quarantined(j) =>
                                  status[j] \in C!Terminal \/ N!InLane(j)' \/ Quarantined(j)'
                           /\ \A p \in C!Payloads : Durable(j, p) => Durable(j, p)'
    PROVE  RequestsFit'
<1> USE DEF coordinatorVars
<1>1. ASSUME NEW s \in Calls'
      PROVE  /\ s.stage \notin {"sent", "unauthorized"} => Used(s.agent)'
             /\ s.kind # "poll" =>
                 /\ s.job \in Jobs
                 /\ status'[s.job] \in Issued
                 /\ status'[s.job] \in C!Terminal \/ N!InLane(s.job)' \/ Quarantined(s.job)'
             /\ s.kind = "post" => status'[s.job] \in Settled /\ Durable(s.job, s.payload)'
  <2>1. CASE Repeated(s)
    <3>1. PICK r \in Calls : /\ s.kind = r.kind /\ s.agent = r.agent /\ s.job = r.job
                             /\ s.payload = r.payload /\ s.stage = r.stage
        BY <2>1 DEF Repeated
    <3>2. r \in Requests
        BY DEF IInv, TypeOK, Calls
    <3>3. r.kind = "post" => /\ r.job \in Jobs /\ r.payload \in C!Payloads
                             /\ status[r.job] \in Settled /\ Durable(r.job, r.payload)
        BY <3>2 DEF IInv, RequestsFit, Requests, Durable
    <3>4. /\ r.stage \notin {"sent", "unauthorized"} => Used(r.agent)
          /\ r.kind # "poll" =>
              /\ r.job \in Jobs
              /\ status[r.job] \in Issued
              /\ status[r.job] \in C!Terminal \/ N!InLane(r.job) \/ Quarantined(r.job)
        BY DEF IInv, RequestsFit
    <3>5. Used(r.agent) => Used(r.agent)'
        BY DEF Used
    <3> QED BY <3>1, <3>3, <3>4, <3>5
  <2>2. CASE ~Repeated(s)
      BY <2>2
  <2> QED BY <2>1, <2>2
<1> QED BY <1>1 DEF RequestsFit

\* A step that leaves the files alone, asks at most for work and starts nothing.
LEMMA QuietStep ==
    ASSUME IInv, UNCHANGED <<coordinatorVars, journal, spool, quarantine>>, ProcessKept,
           CallFits', AnswersHold',
           \A s \in Calls' : Repeated(s) \/ AsksForWork(s),
           \A j \in Jobs : (Executing(j)' => Executing(j)) /\ (Fresh(j)' => Fresh(j))
    PROVE  NodeFits
<1> USE DEF coordinatorVars
<1>1. RequestsFit'
    BY LanesStay, RequestsKept DEF Durable, AsksForWork
<1>2. ASSUME NEW j \in Jobs PROVE JobFits(j)'
  <2>1. \A kinds : "poll" \notin kinds /\ Unrequested(j, kinds) => Unrequested(j, kinds)'
      BY DEF Unrequested, Repeated, AsksForWork
  <2>2. /\ N!IsAccepted(j) /\ spool[j] = None => Unrequested(j, {"post"})
        /\ Executing(j) => status[j] = "dispatched" /\ Unrequested(j, {"post"})
        /\ Fresh(j) => Unrequested(j, {"ack", "post"})
      BY DEF IInv, JobFits, LaneFits
  <2>3. /\ N!InLane(j)' <=> N!InLane(j)
        /\ N!Outcome(j)' = N!Outcome(j)
        /\ N!IsAccepted(j)' <=> N!IsAccepted(j)
      BY LanesStay
  <2>4. /\ Unrequested(j, {"post"}) => Unrequested(j, {"post"})'
        /\ Unrequested(j, {"ack", "post"}) => Unrequested(j, {"ack", "post"})'
      BY <2>1
  <2> QED BY <2>2, <2>3, <2>4, JobStays
<1>3. OutcomesStay
    BY LanesStay DEF OutcomesStay, Durable
<1> QED BY <1>1, <1>2, <1>3 DEF Fits, NodeFits

\* A call given up may still be served, as it was.
LEMMA Abandoned ==
    ASSUME IInv, Abandon
    PROVE  call' = None /\ \A s \in Calls' : Repeated(s)
<1>1. call' = None /\ Calls' = ghosts'
    BY DEF Abandon, Calls
<1>2. ASSUME NEW s \in ghosts' PROVE Repeated(s)
  <2>1. CASE s \in ghosts
      BY <2>1 DEF Calls, Repeated
  <2>2. CASE call # None /\ s = [call EXCEPT !.live = FALSE]
    <3>1. call \in Requests
        BY <2>2 DEF IInv, TypeOK
    <3>2. call \in Calls /\ s.kind = call.kind /\ s.agent = call.agent /\ s.job = call.job
          /\ s.payload = call.payload /\ s.stage = call.stage
        BY <2>2, <3>1 DEF Requests, Calls
    <3> QED BY <3>2 DEF Repeated
  <2> QED BY <1>2, <2>1, <2>2 DEF Abandon
<1> QED BY <1>1, <1>2

LEMMA NodeGone ==
    ASSUME IInv, N!Stop("down") /\ UNCHANGED <<config, journal, spool, quarantine>>,
           pc \notin N!Ended, Abandon, UNCHANGED coordinatorVars
    PROVE  NodeFits
<1>1. ProcessKept /\ pc' = "down" /\ job' = None
    BY DEF N!Stop, ProcessKept, N!Ended
<1>2. call' = None
    BY Abandoned
<1>3. CallFits' /\ AnswersHold'
    BY <1>1, <1>2 DEF CallFits, AnswersHold, N!Waiting, N!Ended
<1>4. \A j \in Jobs : ~Executing(j)' /\ ~Fresh(j)'
    BY <1>1, <1>2 DEF Executing, Fresh
<1>5. \A s \in Calls' : Repeated(s)
    BY Abandoned
<1> QED BY <1>1, <1>3, <1>4, <1>5, QuietStep DEF coordinatorVars

LEMMA NodeCrashesStep == ASSUME IInv, NodeCrashes PROVE NodeFits
BY NodeGone DEF NodeCrashes, N!Crash, N!fileVars

\* Back in the loop with the files untouched and no call out.
LEMMA QuietReturn ==
    ASSUME IInv, UNCHANGED <<coordinatorVars, journal, spool, quarantine, config>>,
           UNCHANGED session, pc \notin N!Ended, pc' \in {"recover", "flush", "next", "verify"},
           call' = None, \A s \in Calls' : Repeated(s)
    PROVE  NodeFits
<1>1. ProcessKept /\ session # None
    BY DEF ProcessKept, N!Ended, IInv, CallFits
<1>2. CallFits' /\ AnswersHold'
    BY <1>1 DEF CallFits, AnswersHold, N!Waiting, N!Ended
<1>3. \A j \in Jobs : ~Executing(j)' /\ ~Fresh(j)'
    BY DEF Executing, Fresh
<1> QED BY <1>1, <1>2, <1>3, QuietStep DEF coordinatorVars

LEMMA CallFailsStep == ASSUME IInv, CallFails PROVE NodeFits
BY QuietReturn, Abandoned
DEF CallFails, N!Transient, N!Go, N!Waiting, N!Ended, N!fileVars

LEMMA SameCalls ==
    ASSUME UNCHANGED <<call, ghosts>>
    PROVE  Calls' = Calls /\ \A s \in Calls' : Repeated(s)
BY DEF Calls, Repeated

LEMMA NoCallOut == ASSUME IInv, pc \notin N!Waiting PROVE call = None
BY DEF IInv, CallFits

LEMMA LocalQuietStep ==
    ASSUME IInv, UNCHANGED <<coordinatorVars, call, ghosts>>,
           \/ N!Recovered \/ N!Flushed
           \/ \E j \in Jobs : N!TakeAccepted(j)
           \/ N!ResultStorageUnavailable
    PROVE  NodeFits
<1>1. pc \notin N!Waiting \cup N!Ended
    BY DEF N!Recovered, N!Flushed, N!TakeAccepted, N!ResultStorageUnavailable, N!Waiting, N!Ended
<1>2. /\ UNCHANGED <<journal, spool, quarantine, config, session>>
      /\ pc' \in {"recover", "flush", "next", "verify"}
    BY DEF N!Recovered, N!Flushed, N!TakeAccepted, N!ResultStorageUnavailable, N!Go, N!fileVars
<1> QED BY <1>1, <1>2, NoCallOut, SameCalls, QuietReturn

LEMMA NodeEnrollsStep == ASSUME IInv, NEW a \in Agents, NodeEnrolls(a) PROVE NodeFits
<1> USE DEF coordinatorVars
<1>1. /\ a \in tokenPending /\ config' = a
      /\ UNCHANGED <<session, pc, job, payload, journal, spool, quarantine>>
      /\ UNCHANGED <<coordinatorVars, call, ghosts>>
    BY DEF NodeEnrolls, N!Reenroll, N!fileVars, N!processVars
<1>2. CallFits' /\ AnswersHold'
    BY <1>1 DEF IInv, CallFits, AnswersHold
<1>3. RequestsFit'
    BY <1>1, SameCalls, LanesStay, RequestsKept DEF Durable
<1>4. ASSUME NEW j \in Jobs PROVE JobFits(j)'
  <2>1. status[j] \in Issued => owner[j] # a
      BY <1>1 DEF IInv, JobFits, RowFits, Used
  <2>2. Fresh(j)' <=> Fresh(j)
      BY <1>1 DEF Fresh
  <2>3. /\ N!InLane(j)' <=> N!InLane(j)
        /\ N!Outcome(j)' = N!Outcome(j)
        /\ N!IsAccepted(j)' <=> N!IsAccepted(j)
        /\ Quarantined(j)' <=> Quarantined(j)
      BY <1>1, LanesStay
  <2>4. RowFits(j)' /\ OneOutcome(j)'
      BY <1>1, <2>3 DEF IInv, JobFits, RowFits, OneOutcome, Durable, Used
  <2>5. LaneFits(j)'
      BY <1>1, <2>1, <2>2, <2>3, SameCalls
      DEF IInv, JobFits, LaneFits, Unrequested, Executing, Issued
  <2>6. QuarantineFits(j)'
      BY <1>1, <2>1, <2>2, <2>3 DEF IInv, JobFits, QuarantineFits, Lost
  <2> QED BY <2>4, <2>5, <2>6 DEF JobFits
<1>5. OutcomesStay
    BY <1>1, LanesStay DEF OutcomesStay, Durable
<1> QED BY <1>2, <1>3, <1>4, <1>5 DEF Fits, NodeFits

LEMMA NodeStartsStep == ASSUME IInv, NodeStarts PROVE NodeFits
<1> USE DEF coordinatorVars
<1>1. /\ pc \in N!Ended /\ config # None /\ pc' = "recover" /\ session' = config
      /\ UNCHANGED <<config, job, payload, journal, spool, quarantine>>
      /\ UNCHANGED <<coordinatorVars, call, ghosts>>
    BY DEF NodeStarts, N!Start, N!fileVars
<1>2. call = None /\ call' = None
    BY <1>1, NoCallOut DEF N!Waiting, N!Ended
<1>3. CallFits' /\ AnswersHold'
    BY <1>1, <1>2 DEF CallFits, AnswersHold, N!Waiting, N!Ended
<1>4. RequestsFit'
    BY <1>1, SameCalls, LanesStay, RequestsKept DEF Durable
<1>5. ASSUME NEW j \in Jobs PROVE JobFits(j)'
  <2>1. ~Fresh(j)' /\ ~Executing(j)'
      BY <1>1, <1>2 DEF Fresh, Executing
  <2>2. /\ N!InLane(j)' <=> N!InLane(j)
        /\ N!Outcome(j)' = N!Outcome(j)
        /\ N!IsAccepted(j)' <=> N!IsAccepted(j)
        /\ Quarantined(j)' <=> Quarantined(j)
      BY <1>1, LanesStay
  <2>4. RowFits(j)' /\ OneOutcome(j)'
      BY <1>1, <2>2 DEF IInv, JobFits, RowFits, OneOutcome, Durable, Used
  <2>5. LaneFits(j)'
      BY <1>1, <2>1, <2>2, SameCalls DEF IInv, JobFits, LaneFits, Unrequested
  <2>6. QuarantineFits(j)'
      BY <1>1, <2>1, <2>2 DEF IInv, JobFits, QuarantineFits, Lost
  <2> QED BY <2>4, <2>5, <2>6 DEF JobFits
<1>6. OutcomesStay
    BY <1>1, LanesStay DEF OutcomesStay, Durable
<1> QED BY <1>3, <1>4, <1>5, <1>6 DEF Fits, NodeFits

LEMMA Sent ==
    ASSUME IInv, call = None, session # None, UNCHANGED ghosts,
           NEW kind \in {"poll", "ack", "post"}, NEW j \in Jobs \cup {None},
           NEW p \in C!Payloads \cup {None}, Send(kind, j, p)
    PROVE  /\ call' # None /\ call'.kind = kind /\ call'.agent = session /\ call'.job = j
           /\ call'.payload = p /\ call'.stage = "sent"
           /\ call' \in Requests /\ call'.live
           /\ \A s \in Calls' : Repeated(s) \/ s = call'
<1>1. session \in Agents
    BY DEF IInv, TypeOK, N!TypeOK
<1>2. call' \in Requests
    BY <1>1 DEF Send, Requests, Pending
<1>3. call' # None
    BY <1>2, FleetAssumption
<1>4. \A s \in Calls' : s \in ghosts \/ s = call'
    BY <1>3 DEF Calls
<1>5. \A s \in ghosts : Repeated(s)
    BY DEF Repeated, Calls
<1> QED BY <1>2, <1>3, <1>4, <1>5 DEF Send

LEMMA NodeAsksStep == ASSUME IInv, NodeAsks PROVE NodeFits
<1>1. /\ pc = "next" /\ pc' = "poll" /\ Send("poll", None, None)
      /\ UNCHANGED <<coordinatorVars, ghosts, journal, spool, quarantine, config, session>>
    BY DEF NodeAsks, N!AskForWork, N!Go, N!fileVars
<1>2. session # None /\ call = None /\ ProcessKept
    BY <1>1 DEF IInv, CallFits, N!Waiting, N!Ended, ProcessKept
<1>3. /\ call' # None /\ call'.kind = "poll" /\ call'.agent = session /\ call'.stage = "sent"
      /\ \A s \in Calls' : Repeated(s) \/ s = call'
    BY <1>1, <1>2, Sent
<1>4. CallFits'
    BY <1>1, <1>2, <1>3 DEF CallFits, N!Waiting, N!Ended, Pending
<1>5. AnswersHold'
    BY <1>3 DEF AnswersHold
<1>6. \A s \in Calls' : Repeated(s) \/ AsksForWork(s)
    BY <1>3 DEF AsksForWork
<1>7. \A j \in Jobs : ~Executing(j)' /\ ~Fresh(j)'
    BY <1>1, <1>3 DEF Executing, Fresh
<1> QED BY <1>1, <1>2, <1>4, <1>5, <1>6, <1>7, QuietStep DEF coordinatorVars

\* An answer was heard: what other handlers are busy with is untouched.
LEMMA Heard ==
    ASSUME IInv, call' = None, UNCHANGED ghosts
    PROVE  /\ \A s \in Calls' : s \in Calls /\ Repeated(s)
           /\ \A j, kinds : Unrequested(j, kinds) => Unrequested(j, kinds)'
BY DEF Calls, Repeated, Unrequested

LEMMA NoWorkStep ==
    ASSUME IInv, N!NoWork, call' = None, UNCHANGED <<coordinatorVars, ghosts>>
    PROVE  NodeFits
BY Heard, QuietReturn DEF N!NoWork, N!Go, N!Ended, N!fileVars

LEMMA UnauthorizedStep ==
    ASSUME IInv, N!Unauthorized, call' = None, UNCHANGED <<coordinatorVars, ghosts>>
    PROVE  NodeFits
<1>1. ProcessKept /\ pc' = "stopped" /\ UNCHANGED <<journal, spool, quarantine>>
    BY DEF N!Unauthorized, N!ClearSessionIfCurrent, N!Stop, ProcessKept, N!Ended, N!fileVars
<1>2. CallFits' /\ AnswersHold'
    BY <1>1 DEF CallFits, AnswersHold, N!Waiting, N!Ended
<1>3. \A j \in Jobs : ~Executing(j)' /\ ~Fresh(j)'
    BY <1>1 DEF Executing, Fresh
<1> QED BY <1>1, <1>2, <1>3, Heard, QuietStep DEF coordinatorVars

LEMMA OfferedStep ==
    ASSUME IInv, call # None, call.stage = "offer", N!Offered(call.job), call' = None,
           UNCHANGED <<coordinatorVars, ghosts>>
    PROVE  NodeFits
<1>1. /\ pc = "poll" /\ pc' = "journal" /\ job' = call.job
      /\ UNCHANGED <<config, session, journal, spool, quarantine>>
    BY DEF N!Offered, N!fileVars
<1>2. ProcessKept /\ session # None
    BY <1>1 DEF ProcessKept, N!Ended, IInv, CallFits
<1>3. CallFits' /\ AnswersHold'
    BY <1>1, <1>2 DEF CallFits, AnswersHold, N!Waiting, N!Ended
<1>4. \A j \in Jobs : ~Executing(j)' /\ (Fresh(j)' => Fresh(j))
    BY <1>1 DEF Executing, Fresh
<1> QED BY <1>1, <1>2, <1>3, <1>4, Heard, QuietStep DEF coordinatorVars

LEMMA NodeAcksStep == ASSUME IInv, NodeAcks PROVE NodeFits
<1> USE DEF coordinatorVars
<1>1. /\ pc = "verify" /\ pc' = "ack" /\ Send("ack", job, None) /\ job' = job
      /\ UNCHANGED <<coordinatorVars, ghosts, journal, spool, quarantine, config, session>>
    BY DEF NodeAcks, N!VerifyResultStorage, N!fileVars
<1>2. session # None /\ call = None /\ ProcessKept
    BY <1>1 DEF IInv, CallFits, N!Waiting, N!Ended, ProcessKept
<1>3. NodeFacts /\ N!IsAccepted(job) /\ spool[job] = None /\ job \in Jobs
    BY <1>1, FactsHold DEF NodeFacts, N!TypeOK, N!Holding
<1>4. /\ call' # None /\ call'.kind = "ack" /\ call'.agent = session /\ call'.stage = "sent"
      /\ call'.job = job
      /\ \A s \in Calls' : Repeated(s) \/ s = call'
    BY <1>1, <1>2, <1>3, Sent
<1>5. CallFits'
    BY <1>1, <1>2, <1>4 DEF CallFits, N!Waiting, N!Ended, Pending
<1>6. AnswersHold'
    BY <1>4 DEF AnswersHold
<1>7. N!InLane(job) /\ status[job] \in Issued
    BY <1>3, Journals DEF N!InLane, N!IsAccepted, IInv, JobFits, LaneFits
<1>8. RequestsFit'
    BY <1>1, <1>3, <1>4, <1>7, LanesStay, RequestsKept DEF Durable
<1>9. ASSUME NEW j \in Jobs PROVE JobFits(j)'
  <2>1. ~Executing(j)' /\ ~Fresh(j)'
      BY <1>1, <1>4 DEF Executing, Fresh
  <2>2. Unrequested(j, {"post"}) => Unrequested(j, {"post"})'
      BY <1>4 DEF Unrequested, Repeated
  <2>3. N!IsAccepted(j) /\ spool[j] = None => Unrequested(j, {"post"})
      BY DEF IInv, JobFits, LaneFits
  <2> QED BY <1>1, <1>2, <1>5, <2>1, <2>2, <2>3, LanesStay, JobStays
<1>10. OutcomesStay
    BY <1>1, LanesStay DEF OutcomesStay, Durable
<1> QED BY <1>5, <1>6, <1>8, <1>9, <1>10 DEF Fits, NodeFits

LEMMA AcknowledgedStep ==
    ASSUME IInv, call # None, call.stage = "ok", N!Acknowledged, call' = None,
           UNCHANGED <<coordinatorVars, ghosts>>
    PROVE  NodeFits
<1> USE DEF coordinatorVars
<1>1. /\ pc = "ack" /\ pc' = "run" /\ job' = job
      /\ UNCHANGED <<config, session, journal, spool, quarantine>>
    BY DEF N!Acknowledged, N!fileVars
<1>2. ProcessKept /\ session # None
    BY <1>1 DEF ProcessKept, N!Ended, IInv, CallFits
<1>3. NodeFacts /\ N!IsAccepted(job) /\ spool[job] = None /\ job \in Jobs
    BY <1>1, FactsHold DEF NodeFacts, N!TypeOK, N!Holding
<1>4. status[job] = "dispatched"
    BY <1>1 DEF IInv, CallFits, AnswersHold
<1>5. CallFits' /\ AnswersHold'
    BY <1>1, <1>2 DEF CallFits, AnswersHold, N!Waiting, N!Ended
<1>6. RequestsFit'
    BY <1>1, Heard, LanesStay, RequestsKept DEF Durable
<1>7. ASSUME NEW j \in Jobs PROVE JobFits(j)'
  <2>1. ~Fresh(j)' /\ (Executing(j)' => j = job)
      BY <1>1 DEF Executing, Fresh
  <2>2. Unrequested(j, {"post"}) => Unrequested(j, {"post"})'
      BY Heard
  <2>3. N!IsAccepted(j) /\ spool[j] = None => Unrequested(j, {"post"})
      BY DEF IInv, JobFits, LaneFits
  <2> QED BY <1>1, <1>2, <1>3, <1>4, <1>5, <2>1, <2>2, <2>3, LanesStay, JobStays
<1>8. OutcomesStay
    BY <1>1, LanesStay DEF OutcomesStay, Durable
<1> QED BY <1>5, <1>6, <1>7, <1>8 DEF Fits, NodeFits

LEMMA RunnerReturnsStep ==
    ASSUME IInv, \E p \in C!Payloads : N!RunnerReturns(p), UNCHANGED <<coordinatorVars, call, ghosts>>
    PROVE  NodeFits
<1>1. /\ pc = "run" /\ pc' = "complete" /\ job' = job
      /\ UNCHANGED <<config, session, journal, spool, quarantine>>
    BY DEF N!RunnerReturns, N!fileVars
<1>2. ProcessKept /\ session # None /\ call = None
    BY <1>1 DEF ProcessKept, N!Waiting, N!Ended, IInv, CallFits
<1>3. CallFits' /\ AnswersHold'
    BY <1>1, <1>2 DEF CallFits, AnswersHold, N!Waiting, N!Ended
<1>4. \A j \in Jobs : (Executing(j)' => Executing(j)) /\ ~Fresh(j)'
    BY <1>1, <1>2 DEF Executing, Fresh
<1> QED BY <1>1, <1>2, <1>3, <1>4, SameCalls, QuietStep DEF coordinatorVars

\* A journal that becomes a WAL, or is retired once its result is spooled.
LEMMA RecoverStep ==
    ASSUME IInv, N!Recover, UNCHANGED <<coordinatorVars, call, ghosts>>
    PROVE  NodeFits
<1> USE DEF coordinatorVars
<1>1. PICK k \in Jobs : N!RecoverSpool(k) \/ N!RecoverRetire(k)
    BY DEF N!Recover
<1>2. /\ pc = "recover" /\ N!IsCompleted(k)
      /\ UNCHANGED <<config, session, pc, job, payload, quarantine>>
    BY <1>1 DEF N!RecoverSpool, N!RecoverRetire, N!processVars
<1>3. ProcessKept /\ session # None /\ call = None /\ NodeFacts
    BY <1>2, FactsHold DEF ProcessKept, N!Waiting, N!Ended, IInv, CallFits
<1>4. CallFits' /\ AnswersHold'
    BY <1>2, <1>3 DEF CallFits, AnswersHold, N!Waiting, N!Ended
<1>5. ASSUME NEW j \in Jobs
      PROVE  /\ N!InLane(j)' <=> N!InLane(j)
             /\ N!Outcome(j)' = N!Outcome(j)
             /\ N!IsAccepted(j)' /\ spool'[j] = None => N!IsAccepted(j) /\ spool[j] = None
  <2>1. CASE j # k
      BY <1>1, <1>3, <2>1
      DEF NodeFacts, N!TypeOK, N!RecoverSpool, N!RecoverRetire, N!InLane, N!Outcome,
          N!IsCompleted, N!IsAccepted
  <2>2. CASE j = k /\ N!RecoverSpool(k)
    <3>1. journal[k].completion # None
        BY <1>2, <1>3, OutcomeType DEF N!Outcome
    <3>2. spool'[k] = journal[k].completion /\ journal' = journal
        BY <1>3, <2>2 DEF N!RecoverSpool, NodeFacts, N!TypeOK
    <3> QED BY <1>2, <2>2, <3>1, <3>2 DEF N!InLane, N!Outcome, N!IsCompleted, N!IsAccepted
  <2>3. CASE j = k /\ N!RecoverRetire(k)
    <3>1. journal[k].completion # None
        BY <1>2, <1>3, OutcomeType DEF N!Outcome
    <3>2. spool[k] = journal[k].completion /\ journal'[k] = None /\ spool' = spool
        BY <1>3, <2>3 DEF N!RecoverRetire, NodeFacts, N!TypeOK
    <3> QED BY <1>2, <2>3, <3>1, <3>2, Journals DEF N!InLane, N!Outcome, N!IsCompleted, N!IsAccepted
  <2> QED BY <1>1, <2>1, <2>2, <2>3
<1>6. RequestsFit'
  <2>1. \A j : Quarantined(j)' <=> Quarantined(j)
      BY <1>2 DEF Quarantined
  <2> QED BY <1>2, <1>5, <2>1, SameCalls, RequestsKept DEF Durable
<1>7. ASSUME NEW j \in Jobs PROVE JobFits(j)'
  <2>1. ~Fresh(j)' /\ ~Executing(j)'
      BY <1>2, <1>3 DEF Executing, Fresh
  <2>2. Unrequested(j, {"post"}) => Unrequested(j, {"post"})'
      BY SameCalls DEF Unrequested
  <2>3. N!IsAccepted(j) /\ spool[j] = None => Unrequested(j, {"post"})
      BY DEF IInv, JobFits, LaneFits
  <2> QED BY <1>2, <1>3, <1>4, <1>5, <2>1, <2>2, <2>3, JobStays
<1>8. OutcomesStay
    BY <1>2, <1>5 DEF OutcomesStay, Durable
<1> QED BY <1>4, <1>6, <1>7, <1>8 DEF Fits, NodeFits

\* The offered job enters the lane.
LEMMA JournalJobStep ==
    ASSUME IInv, N!JournalJob, UNCHANGED <<coordinatorVars, call, ghosts>>
    PROVE  NodeFits
<1> USE DEF coordinatorVars
<1>1. /\ pc = "journal" /\ pc' = "verify" /\ job' = job
      /\ journal' = [journal EXCEPT ![job] = N!Accepted]
      /\ UNCHANGED <<config, session, spool, quarantine>>
    BY DEF N!JournalJob
<1>2. ProcessKept /\ session # None /\ call = None /\ NodeFacts
    BY <1>1, FactsHold DEF ProcessKept, N!Waiting, N!Ended, IInv, CallFits
<1>3. CallFits' /\ AnswersHold'
    BY <1>1, <1>2 DEF CallFits, AnswersHold, N!Waiting, N!Ended
<1>4. job \in Jobs /\ ~N!InLane(job)
    BY <1>1, <1>2 DEF NodeFacts, N!TypeOK, N!Holding
<1>5. journal'[job] = N!Accepted /\ \A j \in Jobs \ {job} : journal'[j] = journal[j]
    BY <1>1, <1>2, <1>4 DEF NodeFacts, N!TypeOK
<1>6. \A j : Quarantined(j)' <=> Quarantined(j)
    BY <1>1 DEF Quarantined
<1>7. ASSUME NEW j \in Jobs
      PROVE  /\ N!Outcome(j)' = N!Outcome(j)
             /\ N!InLane(j)' <=> N!InLane(j) \/ j = job
             /\ j # job => (N!IsAccepted(j)' <=> N!IsAccepted(j))
    BY <1>1, <1>4, <1>5, Journals DEF N!InLane, N!Outcome, N!IsCompleted, N!IsAccepted
<1>8. RequestsFit'
    BY <1>1, <1>6, <1>7, SameCalls, RequestsKept DEF Durable
<1>9. ASSUME NEW j \in Jobs \ {job} PROVE JobFits(j)'
  <2>1. ~Fresh(j)' /\ ~Executing(j)'
      BY <1>1, <1>2 DEF Executing, Fresh
  <2>2. Unrequested(j, {"post"}) => Unrequested(j, {"post"})'
      BY SameCalls DEF Unrequested
  <2>3. N!IsAccepted(j) /\ spool[j] = None => Unrequested(j, {"post"})
      BY DEF IInv, JobFits, LaneFits
  <2> QED BY <1>1, <1>2, <1>3, <1>7, <2>1, <2>2, <2>3, JobStays
<1>10. JobFits(job)'
  <2>1. Fresh(job)
      BY <1>1 DEF Fresh
  <2>2. /\ status[job] = "offered" /\ owner[job] = session
        /\ Unrequested(job, {"ack", "post"}) /\ ~Quarantined(job)
      BY <1>4, <2>1 DEF IInv, JobFits, LaneFits, QuarantineFits
  <2>3. ~Fresh(job)' /\ ~Executing(job)' /\ Unrequested(job, {"post"})'
      BY <1>1, <1>2, <2>2, SameCalls DEF Fresh, Executing, Unrequested
  <2>4. N!Outcome(job)' = None
    <3>1. N!Outcome(job) = None
        BY <1>2, <1>4, OutcomeType
    <3> QED BY <1>1, <1>4, <1>7, <3>1
  <2>5. RowFits(job)' /\ OneOutcome(job)'
      BY <1>1, <1>4, <1>6, <1>7, <2>2 DEF IInv, JobFits, RowFits, OneOutcome, Durable, Used
  <2>6. LaneFits(job)' /\ QuarantineFits(job)'
      BY <1>1, <1>6, <2>2, <2>3, <2>4 DEF LaneFits, QuarantineFits, Issued
  <2> QED BY <2>5, <2>6 DEF JobFits
<1>11. \A j \in Jobs : JobFits(j)'
    BY <1>1, <1>9, <1>10
<1>12. OutcomesStay
    BY <1>1, <1>7 DEF OutcomesStay, Durable
<1> QED BY <1>3, <1>8, <1>11, <1>12 DEF Fits, NodeFits

\* The process holds the outcome, and nothing else is or was one of its job.
LEMMA HeldOutcome ==
    ASSUME IInv, pc \in {"complete", "fallback", "spool", "retire"}
    PROVE  /\ NodeFacts /\ job \in Jobs /\ payload \in C!Payloads /\ payload # None
           /\ Executing(job) /\ N!InLane(job) /\ ~Quarantined(job) /\ result[job] = None
           /\ status[job] = "dispatched" /\ Unrequested(job, {"post"})
           /\ N!Outcome(job) \in {None, payload}
<1>1. NodeFacts /\ RowFacts
    BY FactsHold
<1>2. job \in Jobs /\ payload \in C!Payloads /\ payload # None
    BY <1>1, SamePayloads DEF NodeFacts, N!TypeOK, N!Holding
<1>3. Executing(job)
    BY DEF Executing
<1>4. journal[job] \in {N!Accepted, N!Journal(payload)} /\ spool[job] \in {None, payload}
    BY <1>1 DEF NodeFacts
<1>5. N!InLane(job) /\ N!Outcome(job) \in {None, payload}
    BY <1>2, <1>4, Journals DEF N!InLane, N!Outcome, N!IsCompleted
<1>6. status[job] = "dispatched" /\ Unrequested(job, {"post"}) /\ ~Quarantined(job)
    BY <1>2, <1>3, <1>5 DEF IInv, JobFits, LaneFits, QuarantineFits
<1>7. result[job] = None
    BY <1>1, <1>2, <1>6 DEF RowFacts, C!ResultMatchesStatus, C!Terminal
<1> QED BY <1>1, <1>2, <1>3, <1>5, <1>6, <1>7

\* The journal of the job in hand or its spool file takes the outcome in hand.
LEMMA OutcomeWritten ==
    ASSUME IInv,
           UNCHANGED <<coordinatorVars, call, ghosts, config, session, job, payload, quarantine>>,
           pc \in {"complete", "fallback", "spool"},
           pc' \in {"complete", "fallback", "spool", "retire"},
           \A j \in Jobs \ {job} : journal'[j] = journal[j] /\ spool'[j] = spool[j],
           journal'[job] \in {journal[job], N!Journal(payload)},
           spool'[job] \in {spool[job], payload}
    PROVE  NodeFits
<1> USE DEF coordinatorVars
<1>1. ProcessKept /\ session # None /\ call = None
    BY DEF ProcessKept, N!Waiting, N!Ended, IInv, CallFits
<1>2. CallFits' /\ AnswersHold'
    BY <1>1 DEF CallFits, AnswersHold, N!Waiting, N!Ended
<1>3. \A j : Quarantined(j)' <=> Quarantined(j)
    BY DEF Quarantined
<1>4. ASSUME NEW j \in Jobs \ {job}
      PROVE  /\ N!Outcome(j)' = N!Outcome(j)
             /\ N!InLane(j)' <=> N!InLane(j)
             /\ N!IsAccepted(j)' <=> N!IsAccepted(j)
    BY <1>4 DEF N!InLane, N!Outcome, N!IsCompleted, N!IsAccepted
<1>5. /\ N!InLane(job)' /\ N!Outcome(job)' \in {None, payload}
      /\ N!Outcome(job) # None => N!Outcome(job)' = payload
  <2>1. journal[job] \in {N!Accepted, N!Journal(payload)} /\ spool[job] \in {None, payload}
      BY HeldOutcome DEF NodeFacts
  <2>2. payload # None /\ N!Journal(payload) \notin {None, N!Accepted} /\ N!Accepted # None
        /\ N!Journal(payload).completion = payload
      BY HeldOutcome, Journals
  <2> QED BY <2>1, <2>2 DEF N!InLane, N!Outcome, N!IsCompleted
<1>6. \A p : Durable(job, p)' => p = payload
    BY <1>3, <1>5, HeldOutcome DEF Durable, Quarantined
<1>7. RequestsFit'
  <2>1. \A j \in Jobs, p \in C!Payloads : Durable(j, p) => Durable(j, p)'
      BY <1>4, <1>5, HeldOutcome DEF Durable
  <2> QED BY <1>3, <1>4, <1>5, <2>1, SameCalls, RequestsKept
<1>8. ASSUME NEW j \in Jobs \ {job} PROVE JobFits(j)'
  <2>1. ~Fresh(j)' /\ ~Executing(j)'
      BY <1>1 DEF Executing, Fresh
  <2>2. Unrequested(j, {"post"}) => Unrequested(j, {"post"})'
      BY SameCalls DEF Unrequested
  <2>3. N!IsAccepted(j) /\ spool[j] = None => Unrequested(j, {"post"})
      BY DEF IInv, JobFits, LaneFits
  <2> QED BY <1>1, <1>2, <1>4, <2>1, <2>2, <2>3, JobStays
<1>9. JobFits(job)'
  <2>1. ~Fresh(job)' /\ Unrequested(job, {"post"})'
      BY <1>1, HeldOutcome, SameCalls DEF Fresh, Unrequested
  <2>2. RowFits(job)'
      BY <1>3, <1>5, HeldOutcome DEF IInv, JobFits, RowFits, Used
  <2>3. LaneFits(job)'
      BY <1>1, <1>5, <2>1, HeldOutcome DEF IInv, JobFits, LaneFits, Issued, Settled, ProcessKept
  <2>4. QuarantineFits(job)'
      BY <1>3, HeldOutcome DEF QuarantineFits
  <2>5. OneOutcome(job)'
      BY <1>6 DEF OneOutcome
  <2> QED BY <2>2, <2>3, <2>4, <2>5 DEF JobFits
<1>10. OutcomesStay \/ OutcomeTaken
  <2>1. \A j \in Jobs \ {job}, p \in C!Payloads : Durable(j, p)' <=> Durable(j, p)
      BY <1>4 DEF Durable
  <2>2. /\ \A p : Durable(job, p) => p = payload
        /\ Durable(job, payload) => Durable(job, payload)'
        /\ \A p : Durable(job, p)' => p = payload
      BY <1>5, <1>6, HeldOutcome DEF Durable, Quarantined
  <2> QED BY <2>1, <2>2, HeldOutcome DEF OutcomesStay, OutcomeTaken
<1> QED BY <1>2, <1>7, <1>8, <1>9, <1>10 DEF Fits, NodeFits

LEMMA WritesStep ==
    ASSUME IInv, UNCHANGED <<coordinatorVars, call, ghosts>>,
           \/ N!JournalCompletion \/ N!WriteResult
           \/ \E written \in BOOLEAN : \/ N!JournalCompletionRaises(written)
                                      \/ N!WriteResultRaises(written)
    PROVE  NodeFits
<1>1. /\ pc \in {"complete", "fallback", "spool"}
      /\ pc' \in {"complete", "fallback", "spool", "retire"}
      /\ UNCHANGED <<config, session, job, payload, quarantine>>
    BY DEF N!JournalCompletion, N!WriteResult, N!JournalCompletionRaises, N!WriteResultRaises
<1>2. NodeFacts /\ job \in Jobs
    BY <1>1, HeldOutcome
<1>3. /\ \/ journal' = journal
         \/ journal' = [journal EXCEPT ![job] = N!Journal(payload)]
      /\ spool' = spool \/ spool' = [spool EXCEPT ![job] = payload]
    BY DEF N!JournalCompletion, N!WriteResult, N!JournalCompletionRaises, N!WriteResultRaises
<1>4. /\ \A j \in Jobs \ {job} : journal'[j] = journal[j] /\ spool'[j] = spool[j]
      /\ journal'[job] \in {journal[job], N!Journal(payload)}
      /\ spool'[job] \in {spool[job], payload}
    BY <1>2, <1>3 DEF NodeFacts, N!TypeOK
<1> QED BY <1>1, <1>4, OutcomeWritten DEF coordinatorVars

\* A spooled result is posted; its journal is retired before, if it can be.
LEMMA PostsResult ==
    ASSUME IInv, NEW k \in Jobs, NEW p \in C!Payloads, spool[k] = p, p # None,
           pc \in {"flush", "retire"}, pc' \in {"post", "replay"}, job' = k, payload' = p,
           Send("post", k, p),
           UNCHANGED <<coordinatorVars, ghosts, config, session, spool, quarantine>>,
           journal'[k] \in {journal[k], None},
           \A j \in Jobs \ {k} : journal'[j] = journal[j],
           journal[k] \in {None, N!Accepted, N!Journal(p)}
    PROVE  NodeFits
<1> USE DEF coordinatorVars
<1>1. ProcessKept /\ session # None /\ call = None /\ NodeFacts
    BY FactsHold DEF ProcessKept, N!Waiting, N!Ended, IInv, CallFits
<1>2. /\ call' # None /\ call'.kind = "post" /\ call'.agent = session /\ call'.stage = "sent"
      /\ call'.job = k /\ call'.payload = p
      /\ \A s \in Calls' : Repeated(s) \/ s = call'
    BY <1>1, Sent
<1>3. CallFits'
    BY <1>1, <1>2 DEF CallFits, N!Waiting, N!Ended, Pending
<1>4. AnswersHold'
    BY <1>2 DEF AnswersHold
<1>5. \A j : Quarantined(j)' <=> Quarantined(j)
    BY DEF Quarantined
<1>6. ASSUME NEW j \in Jobs
      PROVE  /\ N!Outcome(j)' = N!Outcome(j)
             /\ N!InLane(j)' <=> N!InLane(j)
             /\ j # k => (N!IsAccepted(j)' <=> N!IsAccepted(j))
  <2>1. CASE j = k
      BY <2>1, Journals DEF N!InLane, N!Outcome, N!IsCompleted
  <2>2. CASE j # k
      BY <2>2 DEF N!InLane, N!Outcome, N!IsCompleted, N!IsAccepted
  <2> QED BY <2>1, <2>2
<1>7. N!Outcome(k) = p /\ N!InLane(k) /\ status[k] \in Settled /\ status[k] \in Issued
  <2>1. N!Outcome(k) = p /\ N!InLane(k)
      BY <1>1, OutcomeType DEF N!InLane
  <2> QED BY <2>1 DEF IInv, JobFits, LaneFits
<1>8. RequestsFit'
  <2>1. Durable(k, p)' /\ N!InLane(k)'
      BY <1>6, <1>7 DEF Durable
  <2>2. \A s \in Calls' :
            \/ Repeated(s)
            \/ /\ s.stage = "sent"
               /\ s.kind # "poll" => s.job \in Jobs /\ status[s.job] \in Issued /\ N!InLane(s.job)'
               /\ s.kind = "post" => status[s.job] \in Settled /\ Durable(s.job, s.payload)'
      BY <1>2, <1>7, <2>1
  <2> QED BY <1>5, <1>6, <2>2, RequestsKept DEF Durable
<1>9. ASSUME NEW j \in Jobs PROVE JobFits(j)'
  <2>1. ~Executing(j)' /\ ~Fresh(j)'
      BY <1>2 DEF Executing, Fresh
  <2>2. j # k /\ Unrequested(j, {"post"}) => Unrequested(j, {"post"})'
      BY <1>2 DEF Unrequested, Repeated
  <2>3. N!IsAccepted(j) /\ spool[j] = None => Unrequested(j, {"post"})
      BY DEF IInv, JobFits, LaneFits
  <2> QED BY <1>1, <1>3, <1>6, <2>1, <2>2, <2>3, JobStays
<1>10. OutcomesStay
    BY <1>6 DEF OutcomesStay, Durable
<1> QED BY <1>3, <1>4, <1>8, <1>9, <1>10 DEF Fits, NodeFits

LEMMA NodePostsStep == ASSUME IInv, NEW ok \in BOOLEAN, NodePosts(ok) PROVE NodeFits
<1> USE DEF coordinatorVars
<1>1. CASE N!Retire(ok) /\ Send("post", job, payload)
  <2>1. /\ pc = "retire" /\ pc' = "post"
        /\ UNCHANGED <<config, session, job, payload, spool, quarantine>>
        /\ journal' = IF ok THEN [journal EXCEPT ![job] = None] ELSE journal
      BY <1>1 DEF N!Retire, N!RetireAccepted
  <2>2. NodeFacts /\ job \in Jobs /\ payload \in C!Payloads /\ payload # None
      BY <2>1, HeldOutcome
  <2>3. /\ spool[job] = payload
        /\ journal[job] \in {N!Accepted, N!Journal(payload)}
        /\ journal'[job] \in {journal[job], None}
        /\ \A j \in Jobs \ {job} : journal'[j] = journal[j]
      BY <2>1, <2>2 DEF NodeFacts, N!TypeOK
  <2>4. PICK k \in Jobs, p \in C!Payloads : k = job /\ p = payload
      BY <2>2
  <2> QED BY <1>1, <2>1, <2>2, <2>3, <2>4, PostsResult DEF NodePosts
<1>2. ASSUME NEW k \in Jobs, N!Replay(k, ok), Send("post", k, spool[k]) PROVE NodeFits
  <2>1. /\ pc = "flush" /\ pc' = "replay" /\ job' = k /\ payload' = spool[k] /\ spool[k] # None
        /\ UNCHANGED <<config, session, spool, quarantine>>
        /\ journal' = IF ok THEN [journal EXCEPT ![k] = None] ELSE journal
      BY <1>2 DEF N!Replay, N!RetireAccepted
  <2>2. NodeFacts
      BY FactsHold
  <2>3. spool[k] \in C!Payloads /\ journal[k] \in {None, N!Accepted}
      BY <2>1, <2>2, SamePayloads DEF NodeFacts, N!TypeOK, N!IsCompleted
  <2>4. journal'[k] \in {journal[k], None} /\ \A j \in Jobs \ {k} : journal'[j] = journal[j]
      BY <2>1, <2>2 DEF NodeFacts, N!TypeOK
  <2>5. PICK p \in C!Payloads : p = spool[k]
      BY <2>3
  <2> QED BY <1>2, <2>1, <2>3, <2>4, <2>5, PostsResult DEF NodePosts
<1> QED BY <1>1, <1>2 DEF NodePosts

\* The node hears the answer to a post or to an acknowledgement.
LEMMA HearsOf ==
    ASSUME IInv, call # None, pc \in {"ack", "post", "replay"}
    PROVE  /\ NodeFacts /\ job \in Jobs /\ call.job = job /\ call.agent = session
           /\ call.kind = IF pc = "ack" THEN "ack" ELSE "post"
           /\ pc # "ack" => payload \in C!Payloads /\ spool[job] = payload /\ payload # None
           /\ N!InLane(job) /\ ~Quarantined(job) /\ session # None
<1>1. NodeFacts /\ job \in Jobs
    BY FactsHold DEF NodeFacts, N!TypeOK, N!Holding
<1>2. /\ call.kind = IF pc = "ack" THEN "ack" ELSE "post"
      /\ call.job = job /\ call.agent = session /\ session # None
    BY DEF IInv, TypeOK, Requests, CallFits, N!Ended
<1>3. pc # "ack" => payload \in C!Payloads /\ spool[job] = payload /\ payload # None
    BY <1>1, SamePayloads DEF NodeFacts, N!TypeOK
<1>4. N!InLane(job)
    BY <1>1, <1>3, Journals DEF NodeFacts, N!InLane, N!IsAccepted
<1> QED BY <1>1, <1>2, <1>3, <1>4 DEF IInv, JobFits, QuarantineFits

LEMMA DeliveredStep ==
    ASSUME IInv, call # None, call.stage = "ok", N!Delivered, call' = None,
           UNCHANGED <<coordinatorVars, ghosts>>
    PROVE  NodeFits
<1> USE DEF coordinatorVars
<1>1. /\ pc \in {"post", "replay"} /\ pc' \in {"flush", "recover"} /\ job' = None
      /\ UNCHANGED <<config, session, journal, quarantine>>
      /\ spool' = IF retired THEN [spool EXCEPT ![job] = None] ELSE spool
    BY DEF N!Delivered, N!AfterPost, N!Go
<1>2. CASE ~retired
    BY <1>1, <1>2, Heard, QuietReturn DEF N!Ended
<1>3. CASE retired
  <2>1. PICK k \in Jobs : k = job
      BY <1>1, HearsOf
  <2>2. PICK p \in C!Payloads : p = payload
      BY <1>1, HearsOf
  <2>3. /\ NodeFacts /\ RowFacts /\ spool[k] = p /\ p # None /\ journal[k] = None
        /\ status[k] \in C!Terminal /\ ~Quarantined(k) /\ N!InLane(k) /\ session # None
      BY <1>1, <1>3, <2>1, <2>2, HearsOf, FactsHold DEF NodeFacts, IInv, AnswersHold
  <2>4. spool'[k] = None /\ \A j \in Jobs \ {k} : spool'[j] = spool[j]
      BY <1>1, <1>3, <2>1, <2>3 DEF NodeFacts, N!TypeOK
  <2>5. result[k] = p
    <3>1. result[k] \in C!Payloads /\ result[k] # None
        BY <2>3 DEF RowFacts, C!TypeOK, C!ResultMatchesStatus
    <3>2. Durable(k, p) /\ Durable(k, result[k])
        BY <2>3, <3>1, OutcomeType DEF Durable
    <3> QED BY <3>1, <3>2 DEF IInv, JobFits, OneOutcome
  <2>6. ProcessKept
      BY <1>1 DEF ProcessKept, N!Ended
  <2>7. CallFits' /\ AnswersHold'
      BY <1>1, <2>3 DEF CallFits, AnswersHold, N!Waiting, N!Ended
  <2>8. \A j : Quarantined(j)' <=> Quarantined(j)
      BY <1>1 DEF Quarantined
  <2>9. ASSUME NEW j \in Jobs \ {k}
        PROVE  /\ N!Outcome(j)' = N!Outcome(j)
               /\ N!InLane(j)' <=> N!InLane(j)
               /\ N!IsAccepted(j)' <=> N!IsAccepted(j)
      BY <1>1, <2>4 DEF N!InLane, N!Outcome, N!IsCompleted, N!IsAccepted
  <2>10. ~N!InLane(k)' /\ N!Outcome(k)' = None /\ N!Outcome(k) = p
      BY <1>1, <2>3, <2>4 DEF N!InLane, N!Outcome, N!IsCompleted
  <2>11. \A q : Durable(k, q)' <=> Durable(k, q)
      BY <2>3, <2>5, <2>8, <2>10, <1>1 DEF Durable
  <2>12. RequestsFit'
    <3>1. \A j \in Jobs, q \in C!Payloads : Durable(j, q) => Durable(j, q)'
        BY <1>1, <2>9, <2>11 DEF Durable
    <3> QED BY <2>3, <2>8, <2>9, <3>1, Heard, RequestsKept
  <2>13. ASSUME NEW j \in Jobs PROVE ~Fresh(j)' /\ ~Executing(j)'
      BY <1>1 DEF Executing, Fresh
  <2>14. ASSUME NEW j \in Jobs \ {k} PROVE JobFits(j)'
    <3>1. Unrequested(j, {"post"}) => Unrequested(j, {"post"})'
        BY Heard
    <3>2. N!IsAccepted(j) /\ spool[j] = None => Unrequested(j, {"post"})
        BY DEF IInv, JobFits, LaneFits
    <3> QED BY <1>1, <2>4, <2>6, <2>7, <2>9, <2>13, <3>1, <3>2, JobStays
  <2>15. JobFits(k)'
    <3>1. RowFits(k)'
        BY <2>3 DEF IInv, JobFits, RowFits, Used, C!Terminal
    <3>2. LaneFits(k)' /\ QuarantineFits(k)'
        BY <1>1, <2>3, <2>8, <2>10, <2>13, Journals DEF LaneFits, QuarantineFits, N!IsAccepted
    <3>3. OneOutcome(k)'
        BY <2>11 DEF IInv, JobFits, OneOutcome
    <3> QED BY <3>1, <3>2, <3>3 DEF JobFits
  <2>16. OutcomesStay
      BY <1>1, <2>9, <2>11 DEF OutcomesStay, Durable
  <2> QED BY <2>7, <2>12, <2>14, <2>15, <2>16 DEF Fits, NodeFits
<1> QED BY <1>2, <1>3

\* The job in hand leaves its lane for quarantine, with the outcome it had, if any.
LEMMA GivenUp ==
    ASSUME IInv, call # None, call.stage = "rejected", call' = None, NEW k \in Jobs, k = job,
           NEW f, pc \in {"ack", "post", "replay"}, pc' \in {"recover", "flush"}, job' = None,
           UNCHANGED <<coordinatorVars, ghosts, config, session>>,
           quarantine' = quarantine \cup {<<k, f>>},
           N!Outcome(k) # None => f = N!Outcome(k),
           f \in C!Payloads => f = N!Outcome(k),
           journal'[k] = None, spool'[k] = None,
           \A j \in Jobs \ {k} : journal'[j] = journal[j] /\ spool'[j] = spool[j]
    PROVE  NodeFits
<1> USE DEF coordinatorVars
<1>1. /\ NodeFacts /\ RowFacts /\ session # None /\ N!InLane(k) /\ ~Quarantined(k)
      /\ call.kind # "poll" /\ call.job = k /\ call.agent = session
    BY HearsOf, FactsHold
<1>2. status[k] \in Issued
    BY <1>1 DEF IInv, JobFits, LaneFits
<1>3. Lost(owner[k])'
  <2>1. owner[k] # session \/ agentStatus[owner[k]] = "denied"
      BY <1>1 DEF IInv, AnswersHold
  <2>2. config = owner[k] => session = owner[k]
      BY <1>1 DEF IInv, JobFits, LaneFits, N!Ended
  <2> QED BY <2>1, <2>2 DEF Lost
<1>4. ProcessKept
    BY DEF ProcessKept, N!Ended
<1>5. CallFits' /\ AnswersHold'
    BY <1>1 DEF CallFits, AnswersHold, N!Waiting, N!Ended
<1>6. \A j \in Jobs : /\ Quarantined(j)' <=> Quarantined(j) \/ j = k
                      /\ \A q : <<j, q>> \in quarantine' <=> \/ <<j, q>> \in quarantine
                                                             \/ j = k /\ q = f
  <2>1. <<k, f>>[1] = k
      OBVIOUS
  <2>2. ASSUME NEW j \in Jobs PROVE Quarantined(j)' <=> Quarantined(j) \/ j = k
    <3>1. (\E e \in quarantine' : e[1] = j) <=> (\E e \in quarantine : e[1] = j) \/ k = j
        BY <2>1
    <3> QED BY <3>1 DEF Quarantined
  <2>3. \A j, q : <<j, q>> = <<k, f>> <=> j = k /\ q = f
      OBVIOUS
  <2> QED BY <2>2, <2>3
<1>7. ASSUME NEW j \in Jobs \ {k}
      PROVE  /\ N!Outcome(j)' = N!Outcome(j)
             /\ N!InLane(j)' <=> N!InLane(j)
             /\ N!IsAccepted(j)' <=> N!IsAccepted(j)
    BY <1>7 DEF N!InLane, N!Outcome, N!IsCompleted, N!IsAccepted
<1>8. ~N!InLane(k)' /\ N!Outcome(k)' = None /\ ~N!IsAccepted(k)'
    BY Journals DEF N!InLane, N!Outcome, N!IsCompleted, N!IsAccepted
<1>9. \A q \in C!Payloads : Durable(k, q)' <=> Durable(k, q)
    BY <1>6, <1>8, SamePayloads DEF Durable
<1>10. RequestsFit'
  <2>1. \A j \in Jobs, q \in C!Payloads : Durable(j, q) => Durable(j, q)'
      BY <1>6, <1>7, <1>9 DEF Durable
  <2> QED BY <1>6, <1>7, <2>1, Heard, RequestsKept
<1>11. \A j : ~Fresh(j)' /\ ~Executing(j)'
    BY DEF Executing, Fresh
<1>12. ASSUME NEW j \in Jobs \ {k} PROVE JobFits(j)'
  <2>1. Unrequested(j, {"post"}) => Unrequested(j, {"post"})'
      BY Heard
  <2>2. N!IsAccepted(j) /\ spool[j] = None => Unrequested(j, {"post"})
      BY DEF IInv, JobFits, LaneFits
  <2>3. RowFits(j)'
      BY <1>6, <1>7 DEF IInv, JobFits, RowFits, Used
  <2>4. LaneFits(j)'
      BY <1>7, <1>11, <2>1, <2>2 DEF IInv, JobFits, LaneFits, N!Ended
  <2>5. QuarantineFits(j)'
      BY <1>6, <1>7, <1>11 DEF IInv, JobFits, QuarantineFits, Lost
  <2>6. OneOutcome(j)'
      BY <1>6, <1>7 DEF IInv, JobFits, OneOutcome, Durable
  <2> QED BY <2>3, <2>4, <2>5, <2>6 DEF JobFits
<1>13. JobFits(k)'
  <2>1. RowFits(k)'
      BY <1>6 DEF IInv, JobFits, RowFits, Used
  <2>2. LaneFits(k)' /\ QuarantineFits(k)'
      BY <1>2, <1>3, <1>8, <1>11 DEF LaneFits, QuarantineFits
  <2>3. OneOutcome(k)'
      BY <1>9 DEF IInv, JobFits, OneOutcome
  <2> QED BY <2>1, <2>2, <2>3 DEF JobFits
<1>14. OutcomesStay
    BY <1>6, <1>7, <1>9 DEF OutcomesStay, Durable
<1> QED BY <1>5, <1>10, <1>12, <1>13, <1>14 DEF Fits, NodeFits

LEMMA AckRejectedStep ==
    ASSUME IInv, call # None, call.stage = "rejected", NEW ok \in BOOLEAN, N!AckRejected(ok),
           call' = None, UNCHANGED <<coordinatorVars, ghosts>>
    PROVE  NodeFits
<1>1. /\ pc = "ack" /\ pc' = "recover" /\ job' = None /\ UNCHANGED <<config, session, spool>>
      /\ journal' = IF ok THEN [journal EXCEPT ![job] = None] ELSE journal
      /\ quarantine' = IF ok THEN quarantine \cup {<<job, journal[job]>>} ELSE quarantine
    BY DEF N!AckRejected, N!Go
<1>2. CASE ~ok
    BY <1>1, <1>2, Heard, QuietReturn DEF N!Ended
<1>3. CASE ok
  <2>1. PICK k \in Jobs : k = job
      BY <1>1, HearsOf
  <2>2. NodeFacts /\ N!IsAccepted(k) /\ spool[k] = None
      BY <1>1, <2>1, FactsHold DEF NodeFacts
  <2>3. /\ N!Outcome(k) = None /\ N!Accepted \notin C!Payloads
        /\ quarantine' = quarantine \cup {<<k, N!Accepted>>}
      BY <1>1, <1>3, <2>1, <2>2, Journals DEF N!Outcome, N!IsCompleted, N!IsAccepted
  <2>4. /\ journal'[k] = None /\ spool'[k] = None
        /\ \A j \in Jobs \ {k} : journal'[j] = journal[j] /\ spool'[j] = spool[j]
      BY <1>1, <1>3, <2>1, <2>2 DEF NodeFacts, N!TypeOK
  <2>5. /\ N!Outcome(k) # None => N!Accepted = N!Outcome(k)
        /\ N!Accepted \in C!Payloads => N!Accepted = N!Outcome(k)
      BY <2>3
  <2> QED BY <1>1, <2>1, <2>3, <2>4, <2>5, GivenUp
<1> QED BY <1>2, <1>3

LEMMA PostRejectedStep ==
    ASSUME IInv, call # None, call.stage = "rejected", NEW ok \in BOOLEAN, N!PostRejected(ok),
           call' = None, UNCHANGED <<coordinatorVars, ghosts>>
    PROVE  NodeFits
<1>1. /\ pc \in {"post", "replay"} /\ pc' \in {"flush", "recover"} /\ job' = None
      /\ UNCHANGED <<config, session, journal>>
      /\ spool' = IF retired /\ ok THEN [spool EXCEPT ![job] = None] ELSE spool
      /\ quarantine' = IF retired /\ ok THEN quarantine \cup {<<job, payload>>} ELSE quarantine
    BY DEF N!PostRejected, N!AfterPost, N!Go
<1>2. CASE ~(retired /\ ok)
    BY <1>1, <1>2, Heard, QuietReturn DEF N!Ended
<1>3. CASE retired /\ ok
  <2>1. PICK k \in Jobs : k = job
      BY <1>1, HearsOf
  <2>2. PICK p \in C!Payloads : p = payload
      BY <1>1, HearsOf
  <2>3. NodeFacts /\ journal[k] = None /\ spool[k] = p /\ p # None
      BY <1>1, <1>3, <2>1, <2>2, HearsOf DEF NodeFacts
  <2>4. N!Outcome(k) = p
      BY <2>3, OutcomeType
  <2>5. /\ journal'[k] = None /\ spool'[k] = None
        /\ \A j \in Jobs \ {k} : journal'[j] = journal[j] /\ spool'[j] = spool[j]
        /\ quarantine' = quarantine \cup {<<k, p>>}
      BY <1>1, <1>3, <2>1, <2>2, <2>3 DEF NodeFacts, N!TypeOK
  <2>6. /\ N!Outcome(k) # None => p = N!Outcome(k)
        /\ p \in C!Payloads => p = N!Outcome(k)
      BY <2>4
  <2> QED BY <1>1, <2>1, <2>5, <2>6, GivenUp
<1> QED BY <1>2, <1>3

LEMMA NodeHearsStep == ASSUME IInv, NodeHears PROVE NodeFits
<1>1. call # None /\ call' = None /\ UNCHANGED <<coordinatorVars, ghosts>>
    BY DEF NodeHears
<1>2. CASE call.stage = "unauthorized" /\ N!Unauthorized
    BY <1>1, <1>2, UnauthorizedStep
<1>3. CASE call.stage = "none" /\ N!NoWork
    BY <1>1, <1>3, NoWorkStep
<1>4. CASE call.stage = "offer" /\ N!Offered(call.job)
    BY <1>1, <1>4, OfferedStep
<1>5. CASE call.stage = "ok" /\ N!Acknowledged
    BY <1>1, <1>5, AcknowledgedStep
<1>6. CASE call.stage = "ok" /\ N!Delivered
    BY <1>1, <1>6, DeliveredStep
<1>7. ASSUME call.stage = "rejected", NEW ok \in BOOLEAN, N!AckRejected(ok) PROVE NodeFits
    BY <1>1, <1>7, AckRejectedStep
<1>8. ASSUME call.stage = "rejected", NEW ok \in BOOLEAN, N!PostRejected(ok) PROVE NodeFits
    BY <1>1, <1>8, PostRejectedStep
<1> QED BY <1>2, <1>3, <1>4, <1>5, <1>6, <1>7, <1>8 DEF NodeHears

LEMMA NodeLocalStep == ASSUME IInv, NodeLocal \/ NodeStorageFails PROVE NodeFits
<1>1. UNCHANGED <<coordinatorVars, call, ghosts>>
    BY DEF NodeLocal, NodeStorageFails
<1>2. CASE NodeLocal
    BY <1>1, <1>2, RecoverStep, LocalQuietStep, JournalJobStep, RunnerReturnsStep, WritesStep,
       SamePayloads
    DEF NodeLocal, N!Local
<1>3. CASE NodeStorageFails
    BY <1>1, <1>3, LocalQuietStep, WritesStep DEF NodeStorageFails, N!Faults
<1> QED BY <1>2, <1>3

LEMMA ServeStep == ASSUME IInv, NEW r \in Calls, Serve(r) PROVE Fits'
BY AuthenticateStep, OfferStep, WindowStep, AckStep, ResultStep DEF Serve

NodeSteps ==
    \/ \E a \in Agents : NodeEnrolls(a)
    \/ NodeStarts \/ NodeProceeds \/ NodePosts(FALSE) \/ NodeStorageFails
    \/ NodeCrashes \/ CallFails

LEMMA NodeStep == ASSUME IInv, NodeSteps PROVE NodeFits
<1>1. CASE \E a \in Agents : NodeEnrolls(a)
    BY <1>1, NodeEnrollsStep
<1>2. CASE NodeStarts \/ NodeCrashes \/ CallFails
    BY <1>2, NodeStartsStep, NodeCrashesStep, CallFailsStep
<1>3. CASE NodeLocal \/ NodeStorageFails
    BY <1>3, NodeLocalStep
<1>4. CASE NodeAsks \/ NodeAcks
    BY <1>4, NodeAsksStep, NodeAcksStep
<1>5. CASE \E ok \in BOOLEAN : NodePosts(ok)
    BY <1>5, NodePostsStep
<1>6. CASE NodeHears
    BY <1>6, NodeHearsStep
<1> QED BY <1>1, <1>2, <1>3, <1>4, <1>5, <1>6 DEF NodeSteps, NodeProceeds

LEMMA FitsStep == ASSUME IInv, [Next]_vars PROVE Fits'
<1>1. CASE Admin \/ \E j \in Jobs : LeaseElapses(j)
    BY <1>1, AdminStep
<1>2. CASE NodeSteps
    BY <1>2, NodeStep DEF NodeFits
<1>3. CASE \E r \in Calls : Serve(r)
    BY <1>3, ServeStep
<1>4. CASE UNCHANGED vars
  <2>1. UNCHANGED <<coordinatorVars, nodeVars, call, ghosts>>
      BY <1>4 DEF vars
  <2> QED BY <2>1, AgentsMove DEF coordinatorVars, nodeVars, Used
<1> QED BY <1>1, <1>2, <1>3, <1>4 DEF Next, NodeSteps

CallsTyped ==
    /\ call \in Requests \cup {None}
    /\ call # None => call.live
    /\ ghosts \subseteq {r \in Requests : r.stage \in Pending /\ ~r.live}
    /\ faults \in 0..MaxFaults

LEMMA AdvanceTyped ==
    ASSUME CallsTyped, NEW r \in Calls, NEW stage \in Pending \cup Answers,
           NEW j \in Jobs \cup {None}, Advance(r, stage, j)
    PROVE  CallsTyped'
<1> DEFINE moved == [r EXCEPT !.stage = stage, !.job = j]
<1>1. r \in Requests /\ (r.live <=> call # None /\ r = call)
    BY DEF CallsTyped, Calls
<1>2. moved \in Requests /\ moved.live = r.live /\ moved.stage = stage
    BY <1>1 DEF Requests
<1>3. call' \in Requests \cup {None} /\ (call' # None => call'.live) /\ faults' = faults
    BY <1>1, <1>2 DEF Advance, CallsTyped
<1>4. \A s \in ghosts' : s \in ghosts \/ (~r.live /\ stage \in Pending /\ s = moved)
    BY DEF Advance
<1> QED BY <1>2, <1>3, <1>4 DEF CallsTyped

LEMMA SendTyped ==
    ASSUME IInv, session # None, call = None, UNCHANGED ghosts,
           NEW kind \in {"poll", "ack", "post"},
           NEW j \in Jobs \cup {None}, NEW p \in C!Payloads \cup {None}, Send(kind, j, p),
           UNCHANGED faults \/ Fault
    PROVE  CallsTyped'
BY Sent, FleetAssumption DEF CallsTyped, IInv, TypeOK, Fault

LEMMA NodeSendsTyped ==
    ASSUME IInv, NodeAsks \/ NodeAcks \/ \E ok \in BOOLEAN : NodePosts(ok)
    PROVE  CallsTyped'
<1>0. NodeFacts
    BY FactsHold
<1>1. CASE NodeAsks
    BY <1>1, SendTyped DEF NodeAsks, N!AskForWork, IInv, CallFits, N!Waiting, N!Ended
<1>2. CASE NodeAcks
  <2>1. job \in Jobs \cup {None} /\ session # None /\ call = None
      BY <1>0, <1>2
      DEF NodeFacts, N!TypeOK, NodeAcks, N!VerifyResultStorage, IInv, CallFits, N!Waiting, N!Ended
  <2> QED BY <1>2, <2>1, SendTyped DEF NodeAcks
<1>3. ASSUME NEW ok \in BOOLEAN, NodePosts(ok) PROVE CallsTyped'
  <2>1. session # None /\ call = None /\ UNCHANGED ghosts /\ (UNCHANGED faults \/ Fault)
      BY <1>3 DEF NodePosts, N!Retire, N!Replay, IInv, CallFits, N!Waiting, N!Ended, Costs
  <2>2. /\ job \in Jobs \cup {None} /\ payload \in C!Payloads \cup {None}
        /\ \A j \in Jobs : spool[j] \in C!Payloads \cup {None}
      BY <1>0, SamePayloads DEF NodeFacts, N!TypeOK
  <2> QED BY <1>3, <2>1, <2>2, SendTyped DEF NodePosts
<1> QED BY <1>1, <1>2, <1>3

LEMMA AbandonTyped ==
    ASSUME CallsTyped, Abandon, Fault
    PROVE  CallsTyped'
<1>1. ASSUME call # None, call.stage \in Pending
      PROVE  LET g == [call EXCEPT !.live = FALSE]
             IN  g \in Requests /\ g.stage \in Pending /\ ~g.live
    BY <1>1 DEF CallsTyped, Requests
<1>2. faults' \in 0..MaxFaults
    BY FleetAssumption DEF Fault, CallsTyped
<1> QED BY <1>1, <1>2 DEF CallsTyped, Abandon

LEMMA ServeTyped == ASSUME IInv, NEW r \in Calls, Serve(r) PROVE CallsTyped'
<1>1. CallsTyped /\ r \in Requests
    BY DEF IInv, TypeOK, CallsTyped, Calls
<1>2. r.job \in Jobs \cup {None}
    BY <1>1 DEF Requests
<1>3. CASE Authenticate(r)
  <2>1. Authenticated(r) \in Pending \cup Answers
      BY DEF Authenticated, Pending, Answers
  <2> QED BY <1>1, <1>2, <1>3, <2>1, AdvanceTyped DEF Authenticate
<1>4. CASE OfferWork(r)
  <2>1. PICK j \in Jobs \cup {None} : Advance(r, "offer", j)
      BY <1>4 DEF OfferWork
  <2> QED BY <1>1, <2>1, AdvanceTyped DEF Answers
<1>5. CASE PollWindowCloses(r)
    BY <1>1, <1>5, AdvanceTyped DEF PollWindowCloses, Answers
<1>6. CASE ServeAck(r)
  <2>1. PICK stage \in Pending \cup Answers : Advance(r, stage, r.job)
      BY <1>6 DEF ServeAck, Answers
  <2> QED BY <1>1, <1>2, <2>1, AdvanceTyped
<1>7. CASE ServeResult(r)
  <2>1. PICK stage \in Pending \cup Answers : Advance(r, stage, r.job)
      BY <1>7 DEF ServeResult, Answers
  <2> QED BY <1>1, <1>2, <2>1, AdvanceTyped
<1> QED BY <1>3, <1>4, <1>5, <1>6, <1>7 DEF Serve

LEMMA CallsTypedStep == ASSUME IInv, [Next]_vars PROVE CallsTyped'
<1>1. CallsTyped
    BY DEF IInv, TypeOK, CallsTyped
<1>2. CASE \/ Admin \/ \E j \in Jobs : LeaseElapses(j)
           \/ \E a \in Agents : NodeEnrolls(a)
           \/ NodeStarts \/ NodeLocal \/ UNCHANGED vars
  <2>1. UNCHANGED <<call, ghosts, faults>>
      BY <1>2 DEF Admin, LeaseElapses, NodeEnrolls, NodeStarts, NodeLocal, vars
  <2> QED BY <1>1, <2>1 DEF CallsTyped
<1>3. CASE NodeStorageFails
  <2>1. UNCHANGED <<call, ghosts>> /\ Fault
      BY <1>3 DEF NodeStorageFails
  <2>2. faults' \in 0..MaxFaults
      BY <1>1, <2>1, FleetAssumption DEF Fault, CallsTyped
  <2> QED BY <1>1, <2>1, <2>2 DEF CallsTyped
<1>4. CASE NodeCrashes \/ CallFails
    BY <1>1, <1>4, AbandonTyped DEF NodeCrashes, CallFails
<1>5. CASE NodeHears
  <2>1. call' = None /\ UNCHANGED ghosts /\ (UNCHANGED faults \/ Fault)
      BY <1>5 DEF NodeHears, Costs
  <2>2. faults' \in 0..MaxFaults
      BY <1>1, <2>1, FleetAssumption DEF Fault, CallsTyped
  <2> QED BY <1>1, <2>1, <2>2 DEF CallsTyped
<1>6. CASE \E r \in Calls : Serve(r)
    BY <1>6, ServeTyped
<1>7. CASE NodeAsks \/ NodeAcks \/ \E ok \in BOOLEAN : NodePosts(ok)
    BY <1>7, NodeSendsTyped
<1> QED BY <1>2, <1>3, <1>4, <1>5, <1>6, <1>7 DEF Next, NodeProceeds

-----------------------------------------------------------------------------
(* The theorems. *)

LEMMA StepPreserves == IInv /\ [Next]_vars => IInv'
<1> SUFFICES ASSUME IInv, [Next]_vars PROVE IInv'
    OBVIOUS
<1>1. CP!IInv' /\ NP!IInv' /\ C!TypeOK' /\ N!TypeOK'
    BY PartsStep DEF RowFacts, NodeFacts
<1>2. TypeOK'
    BY <1>1, CallsTypedStep DEF TypeOK, CallsTyped
<1> QED BY <1>1, <1>2, FitsStep DEF IInv, Fits

LEMMA InvHolds == Spec => []IInv
BY InitEstablishes, StepPreserves, PTL DEF Spec

\* Every call, ghost and file stays of its kind, and no more faults happen than allowed.
THEOREM TypeCorrect == Spec => []TypeOK
<1>1. IInv => TypeOK
    BY DEF IInv
<1> QED BY <1>1, InvHolds, PTL

\* The node runs or reports a job only while the coordinator has it dispatched to it,
\* and a dispatched job of the enrolled, active agent is in the node's lanes: no lost
\* or late answer and no crash makes the two disagree.  (_run_loop, the ack route)
THEOREM AgreeOnDispatchAlways == Spec => []AgreeOnDispatch
<1>1. IInv => AgreeOnDispatch
  <2> SUFFICES ASSUME IInv PROVE RunsOnlyWhileDispatched /\ DispatchedIsHeld
      BY DEF AgreeOnDispatch
  <2>2. RunsOnlyWhileDispatched
    <3>1. pc \in {"run", "complete", "fallback", "spool", "retire"} => job \in Jobs
        BY FactsHold DEF NodeFacts, N!TypeOK, N!Holding
    <3> QED BY <3>1 DEF RunsOnlyWhileDispatched, IInv, JobFits, LaneFits, Executing
  <2>3. DispatchedIsHeld
      BY DEF DispatchedIsHeld, IInv, JobFits, RowFits, QuarantineFits, Lost
  <2> QED BY <2>2, <2>3
<1> QED BY <1>1, InvHolds, PTL

\* The node gives a job's evidence up only once its agent was denied, or another one
\* took its place on this node.  (_run_loop, the conflict answers of the routes)
THEOREM QuarantineAlways == Spec => []QuarantineOnlyAfterLosingTheAgent
<1>1. IInv => QuarantineOnlyAfterLosingTheAgent
  <2> SUFFICES ASSUME IInv, NEW e \in quarantine
               PROVE  agentStatus[owner[e[1]]] = "denied" \/ config # owner[e[1]]
      BY DEF QuarantineOnlyAfterLosingTheAgent
  <2>2. e[1] \in Jobs /\ Quarantined(e[1])
      BY FactsHold DEF NodeFacts, N!TypeOK, Quarantined
  <2> QED BY <2>2 DEF IInv, JobFits, QuarantineFits, Lost
<1> QED BY <1>1, InvHolds, PTL

-----------------------------------------------------------------------------
(* The refinement. *)

OutcomesFit ==
    \A j \in Jobs : /\ DurableOutcome(j) \in C!Payloads \cup {None}
                    /\ \A p \in C!Payloads : Durable(j, p) <=> DurableOutcome(j) = p

LEMMA OutcomeOf == IInv => OutcomesFit
<1> SUFFICES ASSUME IInv, NEW j \in Jobs
             PROVE  /\ DurableOutcome(j) \in C!Payloads \cup {None}
                    /\ \A p \in C!Payloads : Durable(j, p) <=> DurableOutcome(j) = p
    BY DEF OutcomesFit
<1>1. /\ result[j] \in C!Payloads \cup {None}
      /\ N!Outcome(j) \in C!Payloads \cup {None}
      /\ None \notin C!Payloads
    BY FactsHold, OutcomeType, SamePayloads DEF RowFacts, C!TypeOK
<1>2. \A p, q \in C!Payloads : Durable(j, p) /\ Durable(j, q) => p = q
    BY DEF IInv, JobFits, OneOutcome
<1>3. CASE result[j] # None \/ N!Outcome(j) # None
    BY <1>1, <1>2, <1>3 DEF DurableOutcome, Durable
<1>4. CASE result[j] = None /\ N!Outcome(j) = None
  <2>1. CASE \E p \in C!Payloads : <<j, p>> \in quarantine
    <3>1. PICK p \in C!Payloads : p = DurableOutcome(j) /\ <<j, p>> \in quarantine
        BY <1>4, <2>1 DEF DurableOutcome
    <3>2. Durable(j, p)
        BY <1>1, <3>1 DEF Durable
    <3> QED BY <1>2, <3>1, <3>2
  <2>2. CASE ~\E p \in C!Payloads : <<j, p>> \in quarantine
      BY <1>1, <1>4, <2>2 DEF DurableOutcome, Durable
  <2> QED BY <2>1, <2>2
<1> QED BY <1>3, <1>4

LEMMA OutcomeStays ==
    ASSUME IInv, IInv', NEW j \in Jobs, \A p \in C!Payloads : Durable(j, p)' <=> Durable(j, p)
    PROVE  DurableOutcome(j)' = DurableOutcome(j)
<1>1. OutcomesFit /\ OutcomesFit'
    BY OutcomeOf, PTL
<1>2. /\ DurableOutcome(j)' \in C!Payloads \cup {None}
      /\ \A p \in C!Payloads : Durable(j, p)' <=> DurableOutcome(j)' = p
      /\ DurableOutcome(j) \in C!Payloads \cup {None}
      /\ \A p \in C!Payloads : Durable(j, p) <=> DurableOutcome(j) = p
    BY <1>1 DEF OutcomesFit
<1> QED BY <1>2, SamePayloads

LEMMA Stays ==
    ASSUME IInv, IInv', OutcomesStay, UNCHANGED result, \A j \in Jobs : Stage(j)' = Stage(j)
    PROVE  UNCHANGED Ledger!vars
<1>1. \A j \in Jobs : DurableOutcome(j)' = DurableOutcome(j)
    BY OutcomeStays DEF OutcomesStay
<1> QED BY <1>1 DEF Ledger!vars

LEMMA Moves ==
    ASSUME NEW k \in Jobs, NEW to, Stage(k)' = to, \A j \in Jobs \ {k} : Stage(j)' = Stage(j)
    PROVE  Ledger!Move(k, Stage(k), to)
BY DEF Ledger!Move

LEMMA NodeRefines == ASSUME IInv, IInv', NodeSteps PROVE [Ledger!Next]_Ledger!vars
<1>1. UNCHANGED <<status, result>>
    BY DEF NodeSteps, NodeProceeds, NodeEnrolls, NodeStarts, NodeLocal, NodeAsks, NodeAcks,
           NodePosts, NodeHears, NodeStorageFails, NodeCrashes, CallFails, coordinatorVars
<1>2. \A j \in Jobs : Stage(j)' = Stage(j)
    BY <1>1 DEF Stage
<1>3. CASE OutcomesStay
    BY <1>1, <1>2, <1>3, Stays
<1>4. CASE OutcomeTaken
  <2>1. \A j \in Jobs \ {job} : DurableOutcome(j)' = DurableOutcome(j)
      BY <1>4, OutcomeStays DEF OutcomeTaken
  <2>2. PICK k \in Jobs, p \in C!Payloads : k = job /\ p = payload
      BY <1>4 DEF OutcomeTaken
  <2>3. DurableOutcome(k) = None /\ Stage(k) = "committed"
      BY <1>4, <2>2, OutcomeOf DEF OutcomeTaken, OutcomesFit, Stage, C!Terminal
  <2>4. DurableOutcome(k)' = p
    <3>1. OutcomesFit'
        BY OutcomeOf, PTL
    <3>2. Durable(k, p)'
        BY <1>4, <2>2 DEF OutcomeTaken
    <3> QED BY <3>1, <3>2 DEF OutcomesFit
  <2>5. Ledger!Resolve(k, p)
      BY <1>1, <1>2, <2>1, <2>2, <2>3, <2>4 DEF Ledger!Resolve
  <2> QED BY <2>5 DEF Ledger!Next
<1> QED BY <1>3, <1>4, NodeStep DEF NodeFits

LEMMA AdminRefines ==
    ASSUME IInv, IInv', Admin \/ (\E j \in Jobs : LeaseElapses(j)) \/ UNCHANGED vars
    PROVE  [Ledger!Next]_Ledger!vars
<1>1. UNCHANGED <<nodeVars, result>>
    BY DEF Admin, LeaseElapses, C!EnrollAgent, C!ActivateAgent, C!DenyPendingAgent, C!RevokeAgent,
           C!InsertWork, C!LeaseElapses, C!workVars, C!agentVars, vars, coordinatorVars
<1>2. OutcomesStay
    BY <1>1, LanesStay DEF OutcomesStay, Durable, nodeVars
<1>3. CASE UNCHANGED status
  <2>1. \A j \in Jobs : Stage(j)' = Stage(j)
      BY <1>3 DEF Stage
  <2> QED BY <1>1, <1>2, <2>1, Stays
<1>4. ASSUME NEW k \in Jobs, NEW a \in Agents, NEW t \in Stamps, C!InsertWork(k, a, t)
      PROVE  Ledger!Submit(k)
  <2>1. /\ status[k] = "absent" /\ status'[k] = "queued"
        /\ \A j \in Jobs \ {k} : status'[j] = status[j]
      BY <1>4, FactsHold DEF C!InsertWork, RowFacts, C!TypeOK
  <2>2. Stage(k) = "none" /\ Stage(k)' = "waiting" /\ \A j \in Jobs \ {k} : Stage(j)' = Stage(j)
      BY <2>1 DEF Stage, C!Terminal
  <2>3. Ledger!Move(k, "none", "waiting")
      BY <2>2, Moves
  <2>4. \A j \in Jobs : DurableOutcome(j)' = DurableOutcome(j)
      BY <1>2, OutcomeStays DEF OutcomesStay
  <2> QED BY <1>1, <2>3, <2>4 DEF Ledger!Submit
<1>5. UNCHANGED status \/ \E k \in Jobs, a \in Agents, t \in Stamps : C!InsertWork(k, a, t)
    BY DEF Admin, LeaseElapses, C!EnrollAgent, C!ActivateAgent, C!DenyPendingAgent, C!RevokeAgent,
           C!LeaseElapses, C!workVars, vars, coordinatorVars
<1> QED BY <1>3, <1>4, <1>5 DEF Ledger!Next

LEMMA ServeRefines ==
    ASSUME IInv, IInv', NEW r \in Calls, Serve(r)
    PROVE  [Ledger!Next]_Ledger!vars
<1>1. UNCHANGED nodeVars /\ RowFacts /\ r \in Requests
    BY FactsHold
    DEF Serve, Authenticate, OfferWork, PollWindowCloses, ServeAck, ServeResult, Advance,
        IInv, TypeOK, Calls
<1>2. ASSUME UNCHANGED result
      PROVE  OutcomesStay /\ \A j \in Jobs : DurableOutcome(j)' = DurableOutcome(j)
  <2>1. OutcomesStay
      BY <1>1, <1>2, LanesStay DEF OutcomesStay, Durable, nodeVars
  <2> QED BY <2>1, OutcomeStays DEF OutcomesStay
<1>3. ASSUME UNCHANGED result, \A j \in Jobs : Stage(j)' = Stage(j) PROVE UNCHANGED Ledger!vars
    BY <1>2, <1>3, Stays
<1>4. CASE Authenticate(r) \/ PollWindowCloses(r)
  <2>1. UNCHANGED <<status, result>>
      BY <1>4 DEF Authenticate, PollWindowCloses, C!VerifySession, C!workVars, coordinatorVars
  <2> QED BY <1>3, <2>1 DEF Stage
<1>5. CASE OfferWork(r)
  <2>1. PICK k \in Jobs : C!ClaimNextWork(k, r.agent)
      BY <1>5 DEF OfferWork
  <2>2. /\ UNCHANGED result /\ status[k] \in {"queued", "offered"} /\ status'[k] = "offered"
        /\ \A j \in Jobs \ {k} : status'[j] = status[j]
      BY <1>1, <2>1 DEF C!ClaimNextWork, C!Claimable, C!Candidate, RowFacts, C!TypeOK
  <2>3. \A j \in Jobs : Stage(j)' = Stage(j)
      BY <2>2 DEF Stage, C!Terminal
  <2> QED BY <1>3, <2>2, <2>3
<1>6. CASE ServeAck(r)
  <2>1. PICK k \in Jobs : k = r.job
      BY <1>6 DEF ServeAck, IInv, RequestsFit
  <2>2. /\ UNCHANGED result
        /\ status' = IF C!Acknowledgeable(k, r.agent)
                     THEN [status EXCEPT ![k] = "dispatched"] ELSE status
      BY <1>6, <2>1 DEF ServeAck, C!AcknowledgeWork
  <2>3. CASE status' = status
      BY <1>3, <2>2, <2>3 DEF Stage
  <2>4. CASE status' # status
    <3>1. /\ status[k] = "offered" /\ status'[k] = "dispatched"
          /\ \A j \in Jobs \ {k} : status'[j] = status[j]
        BY <1>1, <2>2, <2>4 DEF C!Acknowledgeable, RowFacts, C!TypeOK
    <3>2. /\ Stage(k) = "waiting" /\ Stage(k)' = "committed"
          /\ \A j \in Jobs \ {k} : Stage(j)' = Stage(j)
        BY <3>1 DEF Stage, C!Terminal
    <3>3. Ledger!Move(k, "waiting", "committed")
        BY <3>2, Moves
    <3>4. Ledger!Commit(k)
        BY <1>2, <2>2, <3>3 DEF Ledger!Commit
    <3> QED BY <3>4 DEF Ledger!Next
  <2> QED BY <2>3, <2>4
<1>7. CASE ServeResult(r)
  <2>1. r.job \in Jobs /\ Durable(r.job, r.payload)
      BY <1>7 DEF ServeResult, IInv, RequestsFit
  <2>2. PICK k \in Jobs, p \in C!Payloads : k = r.job /\ p = r.payload
      BY <1>1, <2>1 DEF Durable, Requests
  <2>3. C!RecordWorkResult(k, r.agent, p) /\ Durable(k, p)
      BY <1>7, <2>1, <2>2 DEF ServeResult
  <2>4. CASE ~C!Recordable(k, r.agent)
      BY <1>3, <2>3, <2>4 DEF C!RecordWorkResult, Stage
  <2>5. CASE C!Recordable(k, r.agent)
    <3>1. /\ status[k] = "dispatched" /\ status' = [status EXCEPT ![k] = p.status]
          /\ result' = [result EXCEPT ![k] = p] /\ p.status \in C!Terminal
        BY <2>3, <2>5 DEF C!RecordWorkResult, C!Recordable, C!Payloads
    <3>2. /\ status'[k] \in C!Terminal /\ result[k] = None /\ result'[k] = p
          /\ \A j \in Jobs \ {k} : status'[j] = status[j] /\ result'[j] = result[j]
        BY <1>1, <3>1 DEF RowFacts, C!TypeOK, C!ResultMatchesStatus, C!Terminal
    <3>3. /\ Stage(k) = "committed" /\ Stage(k)' = "finished"
          /\ \A j \in Jobs \ {k} : Stage(j)' = Stage(j)
        BY <3>1, <3>2 DEF Stage, C!Terminal
    <3>4. Ledger!Move(k, "committed", "finished")
        BY <3>3, Moves
    <3>5. \A j : (Quarantined(j)' <=> Quarantined(j)) /\ N!Outcome(j)' = N!Outcome(j)
        BY <1>1, LanesStay DEF nodeVars
    <3>6. \A q : Durable(k, q)' <=> Durable(k, q)
        BY <1>1, <2>3, <3>2, <3>5 DEF Durable, nodeVars
    <3>7. \A j \in Jobs \ {k} : \A q : Durable(j, q)' <=> Durable(j, q)
        BY <1>1, <3>2, <3>5 DEF Durable, nodeVars
    <3>8. \A j \in Jobs : DurableOutcome(j)' = DurableOutcome(j)
        BY <3>6, <3>7, OutcomeStays
    <3>9. DurableOutcome(k) = p /\ p # None
        BY <2>3, OutcomeOf DEF OutcomesFit, Durable
    <3>10. Ledger!Record(k)
        BY <3>1, <3>4, <3>8, <3>9 DEF Ledger!Record
    <3> QED BY <3>10 DEF Ledger!Next
  <2> QED BY <2>4, <2>5
<1> QED BY <1>4, <1>5, <1>6, <1>7 DEF Serve

LEMMA LedgerStep == IInv /\ IInv' /\ [Next]_vars => [Ledger!Next]_Ledger!vars
<1> SUFFICES ASSUME IInv, IInv', [Next]_vars PROVE [Ledger!Next]_Ledger!vars
    OBVIOUS
<1>1. CASE Admin \/ (\E j \in Jobs : LeaseElapses(j)) \/ UNCHANGED vars
    BY <1>1, AdminRefines
<1>2. CASE NodeSteps
    BY <1>2, NodeRefines
<1>3. CASE \E r \in Calls : Serve(r)
    BY <1>3, ServeRefines
<1> QED BY <1>1, <1>2, <1>3 DEF Next, NodeSteps

LEMMA LedgerInit == Init => Ledger!Init
<1> SUFFICES ASSUME Init PROVE Ledger!Init
    OBVIOUS
<1>1. ASSUME NEW j \in Jobs PROVE Stage(j) = "none" /\ DurableOutcome(j) = None /\ result[j] = None
  <2>1. status[j] = "absent" /\ result[j] = None /\ N!Outcome(j) = None /\ quarantine = {}
      BY DEF Init, C!Init, N!Init, N!Outcome, N!IsCompleted
  <2> QED BY <2>1 DEF Stage, DurableOutcome, C!Terminal
<1>2. result = [j \in Jobs |-> None]
    BY DEF Init, C!Init
<1> QED BY <1>1, <1>2 DEF Ledger!Init

\* Coordinator and node together keep the promise of JobLedger: a job is committed
\* before anything comes of it, has at most one durable outcome, and that outcome is
\* the one recorded, once.  (store.ts, agent.py, the work routes)
THEOREM RefinesLedgerAlways == Spec => RefinesLedger
<1>1. Spec => []IInv
    BY InvHolds
<1> QED BY <1>1, LedgerInit, LedgerStep, PTL DEF Spec, RefinesLedger, Ledger!Spec
=============================================================================
