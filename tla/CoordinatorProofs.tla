------------------------- MODULE CoordinatorProofs -------------------------
(***************************************************************************)
(* What the coordinator's statements guarantee by themselves, whoever      *)
(* calls them and in whatever order, for any agents, jobs and clock.       *)
(***************************************************************************)
EXTENDS Coordinator, FiniteSetTheorems, TLAPS

\* The row number of an insertion is an integer: the table is finite.
LEMMA RowCount ==
    Cardinality({k \in Jobs : status[k] # "absent"}) \in Nat
<1> DEFINE Rows == {k \in Jobs : status[k] # "absent"}
<1>1. IsFiniteSet(Rows)
    BY CoordinatorAssumption, FS_Subset, Rows \subseteq Jobs
<1> QED BY <1>1, FS_CardinalityType

-----------------------------------------------------------------------------
\* Every statement of the work and agents tables keeps the columns' types.
LEMMA TypeStep == TypeOK /\ [Next]_vars => TypeOK'
<1> SUFFICES ASSUME TypeOK, [Next]_vars PROVE TypeOK'
    OBVIOUS
<1> USE DEF TypeOK
<1>1. ASSUME NEW a \in Agents, EnrollAgent(a) PROVE TypeOK'
    BY <1>1 DEF EnrollAgent, workVars
<1>2. ASSUME NEW a \in Agents, ActivateAgent(a) PROVE TypeOK'
    BY <1>2 DEF ActivateAgent, workVars
<1>3. ASSUME NEW a \in Agents, DenyPendingAgent(a) PROVE TypeOK'
    BY <1>3 DEF DenyPendingAgent, workVars
<1>4. ASSUME NEW a \in Agents, RevokeAgent(a) PROVE TypeOK'
    BY <1>4 DEF RevokeAgent, workVars
<1>5. ASSUME NEW a \in Agents, VerifySession(a) PROVE TypeOK'
    BY <1>5 DEF VerifySession, workVars
<1>6. ASSUME NEW j \in Jobs, LeaseElapses(j) PROVE TypeOK'
    BY <1>6 DEF LeaseElapses, agentVars
<1>7. ASSUME NEW j \in Jobs, NEW a \in Agents, NEW t \in Stamps, InsertWork(j, a, t)
      PROVE  TypeOK'
    BY <1>7, RowCount DEF InsertWork, agentVars
<1>8. ASSUME NEW j \in Jobs, NEW a \in Agents, ClaimNextWork(j, a) PROVE TypeOK'
    BY <1>8 DEF ClaimNextWork, agentVars
<1>9. ASSUME NEW j \in Jobs, NEW a \in Agents, AcknowledgeWork(j, a) PROVE TypeOK'
    BY <1>9 DEF AcknowledgeWork, agentVars
<1>10. ASSUME NEW j \in Jobs, NEW a \in Agents, NEW p \in Payloads, RecordWorkResult(j, a, p)
       PROVE  TypeOK'
    BY <1>10 DEF RecordWorkResult, agentVars, Payloads, Terminal
<1>11. CASE UNCHANGED vars
    BY <1>11 DEF vars
<1> QED
    BY <1>1, <1>2, <1>3, <1>4, <1>5, <1>6, <1>7, <1>8, <1>9, <1>10, <1>11
    DEF Next, AgentStep, WorkStep

\* The columns of both tables only ever hold values of their types.
THEOREM TypeCorrect == Spec => []TypeOK
<1>1. Init => TypeOK
    BY DEF Init, TypeOK
<1> QED BY <1>1, TypeStep, PTL DEF Spec

-----------------------------------------------------------------------------
\* A row gets its owner when it is inserted, not before.
OwnedOnceInserted == \A j \in Jobs : status[j] = "absent" <=> owner[j] = None

\* The invariant the proofs rest on.  It is inductive as it stands: AtMostOneOffer
\* holds in the claim because ClaimNextWork refuses while a live offer exists and
\* ranks the one expired offer there may be before every queued job.
IInv ==
    /\ TypeOK
    /\ AtMostOneOffer
    /\ ResultMatchesStatus
    /\ PlaintextOnlyWhileActive
    /\ OwnedOnceInserted

\* A claim leaves its agent with one offer: the job it hands out.
LEMMA ClaimKeepsOneOffer ==
    ASSUME TypeOK, AtMostOneOffer, NEW j \in Jobs, NEW a \in Agents, ClaimNextWork(j, a)
    PROVE  AtMostOneOffer'
<1>1. ASSUME NEW k \in Jobs, status[k] = "offered", owner[k] = a
      PROVE  k = j
  <2>1. Candidate(k, a)
      BY <1>1 DEF ClaimNextWork, Claimable, LiveOffer, Candidate, TypeOK
  <2>2. OfferRank(j) =< OfferRank(k)
      BY <2>1 DEF ClaimNextWork, Claimable, Precedes, OfferRank
  <2>3. status[j] = "offered"
      BY <1>1, <2>2 DEF OfferRank
  <2> QED BY <1>1, <2>3 DEF AtMostOneOffer, ClaimNextWork, Claimable, Candidate
<1> QED BY <1>1 DEF AtMostOneOffer, ClaimNextWork, Claimable, Candidate, TypeOK

LEMMA InvStep == IInv /\ [Next]_vars => IInv'
<1> SUFFICES ASSUME IInv, [Next]_vars PROVE IInv'
    OBVIOUS
<1>t. TypeOK'
    BY TypeStep DEF IInv
<1> USE CoordinatorAssumption DEF IInv, TypeOK, AtMostOneOffer, ResultMatchesStatus,
        PlaintextOnlyWhileActive, OwnedOnceInserted, Active, Terminal, agentVars, workVars
<1>1. ASSUME NEW a \in Agents, EnrollAgent(a) PROVE IInv'
    BY <1>1, <1>t DEF EnrollAgent
<1>2. ASSUME NEW a \in Agents, ActivateAgent(a) PROVE IInv'
    BY <1>2, <1>t DEF ActivateAgent
<1>3. ASSUME NEW a \in Agents, DenyPendingAgent(a) PROVE IInv'
    BY <1>3, <1>t DEF DenyPendingAgent
<1>4. ASSUME NEW a \in Agents, RevokeAgent(a) PROVE IInv'
    BY <1>4, <1>t DEF RevokeAgent
<1>5. ASSUME NEW a \in Agents, VerifySession(a) PROVE IInv'
    BY <1>5, <1>t DEF VerifySession
<1>6. ASSUME NEW j \in Jobs, LeaseElapses(j) PROVE IInv'
    BY <1>6, <1>t DEF LeaseElapses
<1>7. ASSUME NEW j \in Jobs, NEW a \in Agents, NEW t \in Stamps, InsertWork(j, a, t)
      PROVE  IInv'
    BY <1>7, <1>t DEF InsertWork
<1>8. ASSUME NEW j \in Jobs, NEW a \in Agents, ClaimNextWork(j, a) PROVE IInv'
  <2>1. AtMostOneOffer'
      BY <1>8, ClaimKeepsOneOffer
  <2>2. status[j] \in {"queued", "offered"}
      BY <1>8 DEF ClaimNextWork, Claimable, Candidate
  <2>3. ResultMatchesStatus' /\ PlaintextOnlyWhileActive' /\ OwnedOnceInserted'
      BY <1>8, <2>2 DEF ClaimNextWork
  <2> QED BY <1>t, <2>1, <2>3
<1>9. ASSUME NEW j \in Jobs, NEW a \in Agents, AcknowledgeWork(j, a) PROVE IInv'
    BY <1>9, <1>t DEF AcknowledgeWork, Acknowledgeable
<1>10. ASSUME NEW j \in Jobs, NEW a \in Agents, NEW p \in Payloads, RecordWorkResult(j, a, p)
       PROVE  IInv'
  <2>1. p # None /\ p.status \in Terminal
      BY DEF Payloads
  <2>2. AtMostOneOffer' /\ PlaintextOnlyWhileActive' /\ OwnedOnceInserted'
      BY <1>10, <2>1 DEF RecordWorkResult, Recordable
  <2>3. ResultMatchesStatus'
      BY <1>10, <2>1 DEF RecordWorkResult, Recordable
  <2> QED BY <1>t, <2>2, <2>3
<1>11. CASE UNCHANGED vars
    BY <1>11, <1>t DEF vars
<1> QED
    BY <1>1, <1>2, <1>3, <1>4, <1>5, <1>6, <1>7, <1>8, <1>9, <1>10, <1>11
    DEF Next, AgentStep, WorkStep

LEMMA InitInv == Init => IInv
BY CoordinatorAssumption
DEF Init, IInv, TypeOK, AtMostOneOffer, ResultMatchesStatus, PlaintextOnlyWhileActive,
    OwnedOnceInserted, Terminal

LEMMA InvHolds == Spec => []IInv
BY InitInv, InvStep, PTL DEF Spec

\* No interleaving of claims, acknowledgements, insertions and lease expiries,
\* under any behaviour of the wall clock, gives an agent two outstanding offers.
THEOREM OneOfferPerAgent == Spec => []AtMostOneOffer
BY InvHolds, PTL DEF IInv

\* A result is on a row exactly when the row is terminal, and matches its status.
THEOREM ResultsMatch == Spec => []ResultMatchesStatus
BY InvHolds, PTL DEF IInv

\* No revoked or denied agent's session token can be read back from the database.
THEOREM PlaintextErased == Spec => []PlaintextOnlyWhileActive
BY InvHolds, PTL DEF IInv

-----------------------------------------------------------------------------
(* What no step may do, by one step per action. *)

LEMMA AgentStepsLeaveWork ==
    ASSUME NEW a \in Agents, AgentStep(a)
    PROVE  UNCHANGED workVars
BY DEF AgentStep, EnrollAgent, ActivateAgent, DenyPendingAgent, RevokeAgent, VerifySession

\* Work only moves while the agent it belongs to is active.
LEMMA FrozenStep == IInv /\ [Next]_vars => [FrozenWhenDenied]_vars
<1> SUFFICES ASSUME IInv, Next PROVE FrozenWhenDenied
    OBVIOUS
<1> USE CoordinatorAssumption DEF FrozenWhenDenied, IInv, OwnedOnceInserted, TypeOK, Active
<1>1. ASSUME NEW a \in Agents, AgentStep(a) PROVE FrozenWhenDenied
    BY <1>1, AgentStepsLeaveWork DEF workVars
<1>2. ASSUME NEW j \in Jobs, LeaseElapses(j) PROVE FrozenWhenDenied
    BY <1>2 DEF LeaseElapses
<1>3. ASSUME NEW j \in Jobs, NEW a \in Agents, NEW t \in Stamps, InsertWork(j, a, t)
      PROVE  FrozenWhenDenied
    BY <1>3 DEF InsertWork
<1>4. ASSUME NEW j \in Jobs, NEW a \in Agents, ClaimNextWork(j, a) PROVE FrozenWhenDenied
    BY <1>4 DEF ClaimNextWork, Claimable, Candidate
<1>5. ASSUME NEW j \in Jobs, NEW a \in Agents, AcknowledgeWork(j, a) PROVE FrozenWhenDenied
    BY <1>5 DEF AcknowledgeWork, Acknowledgeable
<1>6. ASSUME NEW j \in Jobs, NEW a \in Agents, NEW p \in Payloads, RecordWorkResult(j, a, p)
      PROVE  FrozenWhenDenied
    BY <1>6 DEF RecordWorkResult, Recordable
<1> QED BY <1>1, <1>2, <1>3, <1>4, <1>5, <1>6 DEF Next, WorkStep

LEMMA ForwardStep == IInv /\ [Next]_vars => [MoveForward]_vars
<1> SUFFICES ASSUME IInv, Next PROVE MoveForward
    OBVIOUS
<1> USE CoordinatorAssumption DEF MoveForward, Successors, Terminal, IInv, TypeOK
<1>1. ASSUME NEW a \in Agents, AgentStep(a) PROVE MoveForward
    BY <1>1, AgentStepsLeaveWork DEF workVars
<1>2. ASSUME NEW j \in Jobs, LeaseElapses(j) PROVE MoveForward
    BY <1>2 DEF LeaseElapses
<1>3. ASSUME NEW j \in Jobs, NEW a \in Agents, NEW t \in Stamps, InsertWork(j, a, t)
      PROVE  MoveForward
    BY <1>3 DEF InsertWork
<1>4. ASSUME NEW j \in Jobs, NEW a \in Agents, ClaimNextWork(j, a) PROVE MoveForward
    BY <1>4 DEF ClaimNextWork, Claimable, Candidate
<1>5. ASSUME NEW j \in Jobs, NEW a \in Agents, AcknowledgeWork(j, a) PROVE MoveForward
    BY <1>5 DEF AcknowledgeWork, Acknowledgeable
<1>6. ASSUME NEW j \in Jobs, NEW a \in Agents, NEW p \in Payloads, RecordWorkResult(j, a, p)
      PROVE  MoveForward
    BY <1>6 DEF RecordWorkResult, Recordable, ResultMatchesStatus, Payloads
<1> QED BY <1>1, <1>2, <1>3, <1>4, <1>5, <1>6 DEF Next, WorkStep

\* Dispatched work is never offered again and a recorded result is never changed.
THEOREM WorkMovesForward == Spec => JobsMoveForward
BY InvHolds, ForwardStep, PTL DEF Spec, JobsMoveForward

LEMMA DenialStep == TypeOK /\ [Next]_vars => [DenialStays]_vars
BY DEF DenialStays, TypeOK, Next, AgentStep, WorkStep, EnrollAgent, ActivateAgent,
       DenyPendingAgent, RevokeAgent, VerifySession, LeaseElapses, InsertWork, ClaimNextWork,
       AcknowledgeWork, RecordWorkResult, agentVars

\* No action brings a denied agent back, and none moves its jobs, whatever it or
\* a page still has in flight.
THEOREM DenialFinal == Spec => DenialIsFinal
<1>1. IInv /\ [Next]_vars => [DenialStays /\ FrozenWhenDenied]_vars
    BY DenialStep, FrozenStep DEF IInv
<1> QED BY <1>1, InvHolds, PTL DEF Spec, DenialIsFinal

\* What was settled, by an outcome or by a denial, stays settled.
THEOREM SettledForGood == Spec => SettledIsFinal
<1>1. IInv /\ [Next]_vars => [MoveForward /\ DenialStays /\ FrozenWhenDenied]_vars
    BY ForwardStep, DenialStep, FrozenStep DEF IInv
<1> QED BY <1>1, InvHolds, PTL DEF Spec, SettledIsFinal
=============================================================================
