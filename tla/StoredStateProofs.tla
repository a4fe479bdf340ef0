------------------------- MODULE StoredStateProofs -------------------------
(***************************************************************************)
(* What is kept on disk between runs: the credentials of a node            *)
(* (Enrollment) and the measurement store (Store), with the views of it    *)
(* that never migrate (Views).                                             *)
(*                                                                         *)
(* Enrollment, for any number of tokens, agents and enrolling processes:   *)
(* one agent per token, no mixed handshakes, no session forgotten that is  *)
(* still needed.                                                           *)
(*                                                                         *)
(* The store, for any number of processes, openings and saves, and any     *)
(* stores earlier releases can have left: what governs a run is this       *)
(* release's own measurement, upgrades lose nothing, and the views claim   *)
(* nothing that does not govern.                                           *)
(***************************************************************************)
EXTENDS Enrollment, Views, FiniteSetTheorems, TLAPS

-----------------------------------------------------------------------------
(* Enrollment. *)


\* A process is past the lease: it has a handshake of its own.
Handshaking(e) == step[e] \in {"enroll", "enrolling", "record", "poll", "save", "clear"}

\* The lease is held by whoever shakes hands.
LeaseHeld == \A e \in Enrollers : Handshaking(e) => lock = e

\* A row that exists is bound for good to the token that made it.
RowsAreBound == \A a \in Agents : agentStatus[a] = "absent" <=> boundTo[a] = None

\* The handshake on disk stands for its token's row.
PendingIsBound ==
    pending # None /\ pending.agent # None => boundTo[pending.agent] = pending.token

Approved(a) == agentStatus[a] \in {"active", "denied"}

\* A process handshakes with one token, and with the agent of that token; it saves
\* only what was approved, though that may have been revoked since.
HandshakeIsOwn ==
    \A e \in Enrollers :
        /\ step[e] # "idle" => token[e] # None
        /\ Handshaking(e) =>
            /\ pending # None => pending.token = token[e]
            /\ agent[e] # None => boundTo[agent[e]] = token[e]
            /\ step[e] \in {"record", "poll", "save", "clear"} => agent[e] # None
            /\ step[e] \in {"save", "clear"} => Approved(agent[e])

\* What the daemon knows was on disk, and what it takes for rejected was denied.
SessionWasSaved ==
    /\ \A a \in saved : Approved(a)
    /\ config # None => config \in saved
    /\ daemon # "down" => session \in saved
    /\ daemon = "rejected" => agentStatus[session] = "denied"

IInv ==
    /\ TypeOK
    /\ OneAgentPerToken
    /\ LeaseHeld
    /\ RowsAreBound
    /\ PendingIsBound
    /\ HandshakeIsOwn
    /\ ForgottenOnlyAfterSaved
    /\ SessionWasSaved

USE DEF coordinatorVars, enrollerVars, daemonVars, Approved

LEMMA InitHolds == Init => IInv
<1> SUFFICES ASSUME Init PROVE IInv
  OBVIOUS
<1>1. TypeOK
  BY DEF Init, TypeOK
<1> QED
  BY <1>1, EnrollmentAssumption
  DEF Init, IInv, OneAgentPerToken, LeaseHeld, RowsAreBound, PendingIsBound, HandshakeIsOwn,
      ForgottenOnlyAfterSaved, SessionWasSaved, Handshaking

\* A request that is served makes a row for a token that has none.
LEMMA ServingKeeps ==
    ASSUME IInv, NEW t \in Tokens, NEW a \in Agents, ServeEnroll(t, a)
    PROVE  IInv'
<1> USE DEF IInv
<1>1. /\ RowsOf(t) = {} /\ agentStatus[a] = "absent"
      /\ agentStatus' = [agentStatus EXCEPT ![a] = "pending"]
      /\ boundTo' = [boundTo EXCEPT ![a] = t]
      /\ UNCHANGED <<tokenPending, sent, config, pending, lock, step, token, agent, daemon,
                     session, saved>>
  BY DEF ServeEnroll, CreateRow, C!EnrollAgent
<1>2. boundTo[a] = None /\ t # None
  BY <1>1, EnrollmentAssumption DEF RowsAreBound
<1>3. TypeOK'
  BY <1>1 DEF TypeOK
<1>4. \A b \in Agents : b # a => boundTo'[b] = boundTo[b] /\ agentStatus'[b] = agentStatus[b]
  BY <1>1 DEF TypeOK
<1>5. boundTo'[a] = t /\ agentStatus'[a] = "pending"
  BY <1>1 DEF TypeOK
<1>6. OneAgentPerToken'
  <2>1. \A b \in Agents : boundTo[b] # t
    BY <1>1 DEF RowsOf
  <2> QED BY <2>1, <1>4, <1>5 DEF OneAgentPerToken
<1>7. LeaseHeld'
  BY <1>1 DEF LeaseHeld, Handshaking
<1>8. RowsAreBound'
  BY <1>2, <1>4, <1>5 DEF RowsAreBound
<1>9. PendingIsBound'
  <2>1. pending # None => pending.token \in Tokens /\ pending.agent \in Agents \cup {None}
    BY DEF TypeOK
  <2> QED BY <2>1, <1>1, <1>2, <1>4, EnrollmentAssumption DEF PendingIsBound
<1>10. HandshakeIsOwn'
  <2>1. \A e \in Enrollers : Handshaking(e) /\ agent[e] # None =>
          /\ agent[e] # a /\ boundTo'[agent[e]] = boundTo[agent[e]]
          /\ agentStatus'[agent[e]] = agentStatus[agent[e]]
    <3> SUFFICES ASSUME NEW e \in Enrollers, Handshaking(e), agent[e] # None
                 PROVE  agent[e] # a /\ agent[e] \in Agents
      BY <1>4
    <3>1. agent[e] \in Agents /\ boundTo[agent[e]] = token[e] /\ token[e] # None
      BY DEF TypeOK, HandshakeIsOwn, Handshaking
    <3> QED BY <3>1, <1>2
  <2> QED BY <2>1, <1>1 DEF HandshakeIsOwn, Handshaking
<1>11. ForgottenOnlyAfterSaved'
  BY <1>1, <1>4, <1>5 DEF ForgottenOnlyAfterSaved
<1>12. SessionWasSaved'
  <2>1. a \notin saved /\ saved \subseteq Agents
    BY <1>1 DEF SessionWasSaved, TypeOK
  <2> QED BY <2>1, <1>1, <1>4 DEF SessionWasSaved
<1> QED BY <1>3, <1>6, <1>7, <1>8, <1>9, <1>10, <1>11, <1>12

\* An administrator activates or denies a row that exists.
LEMMA AdministeringKeeps ==
    ASSUME IInv, NEW a \in Agents, Administer(a)
    PROVE  IInv'
<1> USE DEF IInv
<1>1. /\ agentStatus[a] # "absent"
      /\ \/ /\ agentStatus[a] = "pending"
            /\ agentStatus' = [agentStatus EXCEPT ![a] = "active"]
            /\ tokenPending' = tokenPending \cup {a}
         \/ /\ agentStatus' = [agentStatus EXCEPT ![a] = "denied"]
            /\ tokenPending' = tokenPending \ {a}
      /\ UNCHANGED <<boundTo, sent, config, pending, lock, step, token, agent, daemon, session,
                     saved>>
  BY DEF Administer, C!ActivateAgent, C!DenyPendingAgent, C!RevokeAgent
<1>2. TypeOK'
  BY <1>1 DEF TypeOK
<1>3. OneAgentPerToken' /\ PendingIsBound'
  BY <1>1 DEF OneAgentPerToken, PendingIsBound
<1>4. LeaseHeld'
  BY <1>1 DEF LeaseHeld, Handshaking
<1>5. RowsAreBound'
  BY <1>1 DEF RowsAreBound, TypeOK
<1>8. \A b \in Agents : Approved(b) => Approved(b)'
  BY <1>1 DEF TypeOK
<1>9. HandshakeIsOwn'
  <2>1. \A e \in Enrollers : agent[e] \in Agents \cup {None}
    BY DEF TypeOK
  <2> QED BY <2>1, <1>1, <1>8 DEF HandshakeIsOwn, Handshaking
<1>6. ForgottenOnlyAfterSaved'
  BY <1>1 DEF ForgottenOnlyAfterSaved, TypeOK
<1>7. SessionWasSaved'
  BY <1>1 DEF SessionWasSaved, TypeOK
<1> QED BY <1>2, <1>3, <1>4, <1>5, <1>6, <1>7, <1>9

\* Past the lease nobody else is.
LEMMA Alone ==
    ASSUME IInv, NEW e \in Enrollers, Handshaking(e)
    PROVE  \A f \in Enrollers : Handshaking(f) => f = e
BY DEF IInv, LeaseHeld

\* A process that ends gives up the lease, if it held it.
LEMMA EndingKeeps ==
    ASSUME IInv, NEW e \in Enrollers, End(e), pending' \in {None, pending},
           UNCHANGED <<coordinatorVars, config, daemonVars, saved>>
    PROVE  IInv'
<1> USE DEF IInv, End
<1>1. TypeOK'
  BY DEF TypeOK
<1>2. OneAgentPerToken' /\ RowsAreBound' /\ ForgottenOnlyAfterSaved' /\ SessionWasSaved'
  BY DEF OneAgentPerToken, RowsAreBound, ForgottenOnlyAfterSaved, SessionWasSaved
<1>3. PendingIsBound'
  BY DEF PendingIsBound
<1>4. \A f \in Enrollers : f # e => /\ step'[f] = step[f] /\ token'[f] = token[f]
                                    /\ agent'[f] = agent[f]
  BY DEF TypeOK
<1>5. step'[e] = "idle"
  BY DEF TypeOK
<1>6. LeaseHeld'
  BY <1>4, <1>5 DEF LeaseHeld, Handshaking
<1>7. HandshakeIsOwn'
  BY <1>4, <1>5 DEF HandshakeIsOwn, Handshaking
<1> QED BY <1>1, <1>2, <1>3, <1>6, <1>7

\* No step of an enrolling process disturbs the others' handshakes.
LEMMA EnrollingKeeps ==
    ASSUME IInv, NEW e \in Enrollers, EnrollerStep(e)
    PROVE  IInv'
<1> USE DEF IInv, Move
<1>1. ASSUME NEW t \in Tokens, ChooseToken(e, t)
      PROVE  IInv'
  <2> USE <1>1 DEF ChooseToken
  <2>1. TypeOK'
    BY DEF TypeOK
  <2>2. OneAgentPerToken' /\ RowsAreBound' /\ ForgottenOnlyAfterSaved' /\ SessionWasSaved'
    BY DEF OneAgentPerToken, RowsAreBound, ForgottenOnlyAfterSaved, SessionWasSaved
  <2>3. LeaseHeld' /\ PendingIsBound'
    BY DEF LeaseHeld, PendingIsBound, Handshaking, TypeOK
  <2>4. HandshakeIsOwn'
    BY EnrollmentAssumption DEF HandshakeIsOwn, Handshaking, TypeOK
  <2> QED BY <2>1, <2>2, <2>3, <2>4
<1>2. CASE Lease(e)
  <2> USE <1>2 DEF Lease, LeaseFree, Resumes, Handshake
  <2>1. \A f \in Enrollers : ~Handshaking(f)
    BY EnrollmentAssumption DEF LeaseHeld
  <2>2. token[e] \in Tokens /\ step[e] = "chosen"
    BY DEF HandshakeIsOwn, TypeOK
  <2>3. pending' # None /\ pending'.token = token[e]
        /\ pending'.agent \in Agents \cup {None} /\ agent' = [agent EXCEPT ![e] = pending'.agent]
    <3>1. CASE pending # None /\ pending.token = token[e]
      BY <3>1 DEF TypeOK
    <3>2. CASE ~(pending # None /\ pending.token = token[e])
      BY <3>2, <2>2, EnrollmentAssumption DEF TypeOK
    <3> QED BY <3>1, <3>2
  <2>4. pending' \in [token: Tokens, agent: Agents \cup {None}]
    BY <2>2 DEF TypeOK
  <2>5. agent'[e] = pending'.agent /\ step'[e] = (IF agent'[e] = None THEN "enroll" ELSE "poll")
    BY <2>3 DEF TypeOK
  <2>6. \A f \in Enrollers : f # e => step'[f] = step[f] /\ agent'[f] = agent[f]
    BY <2>3 DEF TypeOK
  <2>7. TypeOK'
    BY <2>3, <2>4, <2>5 DEF TypeOK
  <2>8. OneAgentPerToken' /\ RowsAreBound' /\ ForgottenOnlyAfterSaved' /\ SessionWasSaved'
    BY DEF OneAgentPerToken, RowsAreBound, ForgottenOnlyAfterSaved, SessionWasSaved
  <2>9. PendingIsBound'
    BY DEF PendingIsBound
  <2>10. LeaseHeld'
    BY <2>1, <2>6 DEF LeaseHeld, Handshaking
  <2>11. HandshakeIsOwn'
    <3>1. agent'[e] # None => boundTo[agent'[e]] = token[e]
      BY <2>3, <2>5, <2>9 DEF PendingIsBound
    <3>2. token' = token /\ boundTo' = boundTo /\ token[e] # None
      BY <2>2, EnrollmentAssumption
    <3> QED BY <3>1, <3>2, <2>1, <2>3, <2>5, <2>6 DEF HandshakeIsOwn, Handshaking
  <2> QED BY <2>7, <2>8, <2>9, <2>10, <2>11
<1>3. CASE PostEnroll(e)
  <2> USE <1>3 DEF PostEnroll
  <2>1. token[e] \in Tokens
    BY DEF HandshakeIsOwn, TypeOK
  <2>2. TypeOK'
    BY <2>1 DEF TypeOK
  <2>3. OneAgentPerToken' /\ RowsAreBound' /\ ForgottenOnlyAfterSaved' /\ SessionWasSaved'
    BY DEF OneAgentPerToken, RowsAreBound, ForgottenOnlyAfterSaved, SessionWasSaved
  <2>4. LeaseHeld' /\ PendingIsBound'
    BY DEF LeaseHeld, PendingIsBound, Handshaking, TypeOK
  <2>5. HandshakeIsOwn'
    BY DEF HandshakeIsOwn, Handshaking, TypeOK
  <2> QED BY <2>2, <2>3, <2>4, <2>5
<1>4. CASE Enrolled(e)
  <2> USE <1>4 DEF Enrolled
  <2>1. PICK a \in RowsOf(token[e]) : agent' = [agent EXCEPT ![e] = a]
    OBVIOUS
  <2>2. a \in Agents /\ boundTo[a] = token[e] /\ a # None
    BY <2>1, EnrollmentAssumption DEF RowsOf
  <2>3. TypeOK'
    BY <2>1, <2>2 DEF TypeOK
  <2>4. OneAgentPerToken' /\ RowsAreBound' /\ ForgottenOnlyAfterSaved' /\ SessionWasSaved'
    BY DEF OneAgentPerToken, RowsAreBound, ForgottenOnlyAfterSaved, SessionWasSaved
  <2>5. LeaseHeld' /\ PendingIsBound'
    BY DEF LeaseHeld, PendingIsBound, Handshaking, TypeOK
  <2>6. HandshakeIsOwn'
    BY <2>1, <2>2 DEF HandshakeIsOwn, Handshaking, TypeOK
  <2> QED BY <2>3, <2>4, <2>5, <2>6
<1>5. CASE RecordEnrollment(e)
  <2> USE <1>5 DEF RecordEnrollment, Handshake
  <2>1. /\ token[e] \in Tokens /\ agent[e] \in Agents /\ boundTo[agent[e]] = token[e]
        /\ Handshaking(e)
    BY DEF HandshakeIsOwn, Handshaking, TypeOK
  <2>2. pending' = [token |-> token[e], agent |-> agent[e]] /\ pending'.token = token[e]
        /\ pending'.agent = agent[e]
    OBVIOUS
  <2>3. TypeOK'
    BY <2>1, <2>2 DEF TypeOK
  <2>4. OneAgentPerToken' /\ RowsAreBound' /\ ForgottenOnlyAfterSaved' /\ SessionWasSaved'
    BY DEF OneAgentPerToken, RowsAreBound, ForgottenOnlyAfterSaved, SessionWasSaved
  <2>5. LeaseHeld' /\ PendingIsBound'
    BY <2>1, <2>2 DEF LeaseHeld, PendingIsBound, Handshaking, TypeOK
  <2>6. \A f \in Enrollers : Handshaking(f) => f = e
    BY <2>1, Alone
  <2>7. HandshakeIsOwn'
    BY <2>1, <2>2, <2>6 DEF HandshakeIsOwn, Handshaking, TypeOK
  <2> QED BY <2>3, <2>4, <2>5, <2>7
<1>6. CASE PollApproval(e)
  <2> USE <1>6 DEF PollApproval, HandedOut
  <2>1. TypeOK'
    BY DEF TypeOK
  <2>2. OneAgentPerToken' /\ RowsAreBound' /\ ForgottenOnlyAfterSaved' /\ SessionWasSaved'
    BY DEF OneAgentPerToken, RowsAreBound, ForgottenOnlyAfterSaved, SessionWasSaved
  <2>3. LeaseHeld' /\ PendingIsBound'
    BY DEF LeaseHeld, PendingIsBound, Handshaking, TypeOK
  <2>4. HandshakeIsOwn'
    BY DEF C!Active, HandshakeIsOwn, Handshaking, TypeOK
  <2> QED BY <2>1, <2>2, <2>3, <2>4
<1>7. CASE SaveConfig(e)
  <2> USE <1>7 DEF SaveConfig
  <2>1. agent[e] \in Agents
    BY DEF HandshakeIsOwn, Handshaking, TypeOK
  <2>2. TypeOK'
    BY <2>1 DEF TypeOK
  <2>3. OneAgentPerToken' /\ RowsAreBound'
    BY DEF OneAgentPerToken, RowsAreBound
  <2>7. ForgottenOnlyAfterSaved'
    BY DEF ForgottenOnlyAfterSaved
  <2>8. Approved(agent[e])
    BY DEF HandshakeIsOwn, Handshaking
  <2>4. SessionWasSaved'
    BY <2>8 DEF SessionWasSaved
  <2>5. LeaseHeld' /\ PendingIsBound'
    BY DEF LeaseHeld, PendingIsBound, Handshaking, TypeOK
  <2>6. HandshakeIsOwn'
    BY DEF HandshakeIsOwn, Handshaking, TypeOK
  <2> QED BY <2>2, <2>3, <2>4, <2>5, <2>6, <2>7
<1>8. CASE ClearPending(e)
  BY <1>8, EndingKeeps DEF ClearPending
<1>9. CASE EnrollerEnds(e)
  BY <1>9, EndingKeeps DEF EnrollerEnds
<1> QED
  BY <1>1, <1>2, <1>3, <1>4, <1>5, <1>6, <1>7, <1>8, <1>9 DEF EnrollerStep

\* The daemon erases a plaintext only by the session it read from disk.
LEMMA DaemonKeeps ==
    ASSUME IInv, DaemonStep
    PROVE  IInv'
<1> USE DEF IInv
<1>1. CASE DaemonLoads
  <2> USE <1>1 DEF DaemonLoads
  <2>1. TypeOK'
    BY DEF TypeOK
  <2>2. SessionWasSaved'
    BY DEF SessionWasSaved
  <2>3. OneAgentPerToken' /\ RowsAreBound' /\ ForgottenOnlyAfterSaved' /\ PendingIsBound'
    BY DEF OneAgentPerToken, RowsAreBound, ForgottenOnlyAfterSaved, PendingIsBound
  <2>4. LeaseHeld' /\ HandshakeIsOwn'
    BY DEF LeaseHeld, HandshakeIsOwn, Handshaking
  <2> QED BY <2>1, <2>2, <2>3, <2>4
<1>2. CASE DaemonClearsPending
  <2> USE <1>2 DEF DaemonClearsPending
  <2>1. TypeOK'
    BY DEF TypeOK
  <2>2. SessionWasSaved'
    BY DEF SessionWasSaved
  <2>3. OneAgentPerToken' /\ RowsAreBound' /\ ForgottenOnlyAfterSaved' /\ PendingIsBound'
    BY DEF OneAgentPerToken, RowsAreBound, ForgottenOnlyAfterSaved, PendingIsBound
  <2>4. LeaseHeld' /\ HandshakeIsOwn'
    BY DEF LeaseHeld, HandshakeIsOwn, Handshaking
  <2> QED BY <2>1, <2>2, <2>3, <2>4
<1>3. CASE DaemonCalls
  <2>1. /\ daemon = "running" /\ session \in saved /\ session \in Agents
        /\ tokenPending' = IF agentStatus[session] = "active" THEN tokenPending \ {session}
                           ELSE tokenPending
        /\ daemon' = IF agentStatus[session] = "active" THEN "running" ELSE "rejected"
        /\ UNCHANGED <<agentStatus, boundTo, sent, config, pending, lock, step, token, agent,
                       session, saved>>
    BY <1>3 DEF DaemonCalls, C!VerifySession, C!Active, SessionWasSaved, TypeOK
  <2>2. agentStatus[session] \in {"active", "denied"}
    BY <2>1 DEF SessionWasSaved
  <2>3. TypeOK'
    BY <2>1 DEF TypeOK
  <2>4. ForgottenOnlyAfterSaved'
    BY <2>1 DEF ForgottenOnlyAfterSaved
  <2>5. SessionWasSaved'
    BY <2>1, <2>2 DEF SessionWasSaved
  <2>6. OneAgentPerToken' /\ RowsAreBound' /\ PendingIsBound'
    BY <2>1 DEF OneAgentPerToken, RowsAreBound, PendingIsBound
  <2>7. LeaseHeld' /\ HandshakeIsOwn'
    BY <2>1 DEF LeaseHeld, HandshakeIsOwn, Handshaking
  <2> QED BY <2>3, <2>4, <2>5, <2>6, <2>7
<1>4. CASE DaemonForgetsSession
  <2> USE <1>4 DEF DaemonForgetsSession, ClearSessionIfCurrent
  <2>1. TypeOK'
    BY DEF TypeOK
  <2>2. SessionWasSaved'
    BY DEF SessionWasSaved
  <2>3. OneAgentPerToken' /\ RowsAreBound' /\ ForgottenOnlyAfterSaved' /\ PendingIsBound'
    BY DEF OneAgentPerToken, RowsAreBound, ForgottenOnlyAfterSaved, PendingIsBound
  <2>4. LeaseHeld' /\ HandshakeIsOwn'
    BY DEF LeaseHeld, HandshakeIsOwn, Handshaking
  <2> QED BY <2>1, <2>2, <2>3, <2>4
<1>5. CASE DaemonDies
  <2> USE <1>5 DEF DaemonDies
  <2>1. TypeOK'
    BY DEF TypeOK
  <2>2. SessionWasSaved'
    BY DEF SessionWasSaved
  <2>3. OneAgentPerToken' /\ RowsAreBound' /\ ForgottenOnlyAfterSaved' /\ PendingIsBound'
    BY DEF OneAgentPerToken, RowsAreBound, ForgottenOnlyAfterSaved, PendingIsBound
  <2>4. LeaseHeld' /\ HandshakeIsOwn'
    BY DEF LeaseHeld, HandshakeIsOwn, Handshaking
  <2> QED BY <2>1, <2>2, <2>3, <2>4
<1> QED BY <1>1, <1>2, <1>3, <1>4, <1>5 DEF DaemonStep

LEMMA StepHolds == IInv /\ [Next]_vars => IInv'
<1> SUFFICES ASSUME IInv, [Next]_vars PROVE IInv'
  OBVIOUS
<1>1. CASE UNCHANGED vars
  BY <1>1
  DEF vars, IInv, TypeOK, OneAgentPerToken, LeaseHeld, RowsAreBound, PendingIsBound,
      HandshakeIsOwn, ForgottenOnlyAfterSaved, SessionWasSaved, Handshaking
<1>2. CASE Next
  BY <1>2, ServingKeeps, AdministeringKeeps, EnrollingKeeps, DaemonKeeps DEF Next
<1> QED BY <1>1, <1>2

\* However often requests are repeated or served late, a token owns one agent.
\* (enrollAgent's lookup inside its transaction)
THEOREM OneAgentPerTokenAlways == Spec => []OneAgentPerToken
<1>1. IInv => OneAgentPerToken
  BY DEF IInv
<1> QED BY InitHolds, StepHolds, <1>1, PTL DEF Spec

\* Two enrolling processes never mix their handshakes. (enrollment.lock)
THEOREM HandshakesNeverMix == Spec => []HandshakesDoNotMix
<1>1. IInv => HandshakesDoNotMix
  BY DEF IInv, HandshakesDoNotMix, HandshakeIsOwn, Handshaking
<1> QED BY InitHolds, StepHolds, <1>1, PTL DEF Spec

\* A session disappears from disk only by the daemon that was refused with it.
LEMMA ForgettingIsDeserved ==
    IInv /\ [Next]_vars =>
        ((config # None /\ config' = None) => agentStatus[config] = "denied")
<1> SUFFICES ASSUME IInv, [Next]_vars, config # None, config' = None
             PROVE  agentStatus[config] = "denied"
  OBVIOUS
<1>1. CASE DaemonForgetsSession
  BY <1>1 DEF DaemonForgetsSession, ClearSessionIfCurrent, IInv, SessionWasSaved
<1>2. ASSUME NEW e \in Enrollers, SaveConfig(e) PROVE FALSE
  BY <1>2 DEF SaveConfig, Move, IInv, HandshakeIsOwn, Handshaking
<1>3. CASE config' = config
  BY <1>3
<1>4. DaemonForgetsSession \/ (\E e \in Enrollers : SaveConfig(e)) \/ config' = config
  BY DEF vars, Next, ServeEnroll, Administer, EnrollerStep, ChooseToken, Lease, PostEnroll,
         Enrolled, RecordEnrollment, PollApproval, ClearPending, EnrollerEnds, DaemonStep,
         DaemonLoads, DaemonClearsPending, DaemonCalls, DaemonDies
<1> QED BY <1>1, <1>2, <1>3, <1>4

\* Neither the coordinator nor the node forgets a session that is still needed.
\* (verifySession, clear_session_if_current)
THEOREM SessionsAlwaysKept == Spec => SessionsAreKept
<1>1. IInv => ForgottenOnlyAfterSaved
  BY DEF IInv
<1>2. IInv /\ [Next]_vars =>
        [(config # None /\ config' = None) => agentStatus[config] = "denied"]_vars
  BY ForgettingIsDeserved
<1> QED BY InitHolds, StepHolds, <1>1, <1>2, PTL
    DEF Spec, SessionsAreKept, OnlyDeniedSessionsAreForgotten

\* Every variable keeps its type.
THEOREM TypeCorrect == Spec => []TypeOK
<1>1. IInv => TypeOK
  BY DEF IInv
<1> QED BY InitHolds, StepHolds, <1>1, PTL DEF Spec

HIDE DEF coordinatorVars, enrollerVars, daemonVars, Approved

-----------------------------------------------------------------------------
(* The measurement store: its invariant. *)

Now == 10 + saves

\* A calibration made by a build of this release is of the identity it was measured under.
CalRow(r, now) ==
    /\ CalColumns(r) /\ r.rowid \in Int /\ r.at \in Int /\ r.at < now
    /\ r.build \in Builds =>
        r.born = Identity(r.machine, r.engine, r.authority, r.build)
        /\ r.machine = "versioned" /\ r.engine \in Engines

\* A characterization of this release.
Own(r) ==
    /\ r.born = Identity(r.machine, r.engine, r.authority, r.build)
    /\ r.machine = "versioned" /\ r.engine \in Engines /\ r.authority \in Authorities
    /\ r.build \in Builds
    /\ r.config # Null /\ r.direct # 0 /\ r.safe <= r.point

CharRow(r, now) ==
    /\ CharColumns(r) /\ r.rowid \in Int /\ r.at \in Int /\ r.at < now
    /\ r.safe \in Int /\ r.point \in Int
    /\ r.reusable /\ r.methodology = Method => Own(r)

CalRows(rows, now) == IsFiniteSet(rows) /\ \A r \in rows : CalRow(r, now)
CharRows(rows, now) == IsFiniteSet(rows) /\ \A r \in rows : CharRow(r, now)

\* In the last shape a ceiling is a measured one, and what is reusable has its evidence.
Final(r) ==
    r.safe <= r.point /\ (r.reusable => r.methodology = Method /\ Confidence(r.artifact) \in Exact)

StoreRows(s, now) ==
    /\ StoreColumns(s)
    /\ {s.version, s.calShape, s.charShape, s.benchShape} \subseteq 0 .. 8
    /\ CalRows(s.cals, now) /\ CharRows(s.chars, now)
    /\ s.charShape >= 7 => \A r \in s.chars : Final(r)

ProcRows(q, now) ==
    /\ DOMAIN q = {"pc", "n", "rebuild", "calShape", "read"}
    /\ q.n \in 1 .. 8 /\ q.calShape \in 0 .. 8 /\ CalRows(q.read, now)

\* The state is made of rows.
Rows ==
    /\ saves \in Nat /\ StoreRows(store, Now)
    /\ DOMAIN proc = Procs /\ \A p \in Procs : ProcRows(proc[p], Now)

HasRekeyed(rows) == \A r \in rows : RekeyLegacyKey(r.machine) = r.machine

\* Decimal walls are dropped and machine keys rounded before what follows them.
StoreKeys(s) ==
    /\ s.version >= 1 => \A r \in s.cals : r.engine # "wmx"
    /\ s.version >= 2 \/ s.calShape >= 5 => HasRekeyed(s.cals \cup s.chars)

\* Where a process is in its migrations.
Stage(q) ==
    /\ q.pc \in {"off", "check", "units", "read", "rekey", "rekeyed", "decide", "backup", "migrate",
                 "ready"}
    /\ q.pc \in {"off", "units"} => q.n = 1
    /\ q.pc \in {"read", "rekey", "rekeyed"} => q.n = 2
    /\ q.pc \in {"decide", "backup", "migrate", "ready"} => q.n >= 3
    /\ q.pc = "decide" => q.n >= 4
    /\ q.pc = "backup" /\ q.n >= 4 => q.rebuild
    /\ q.n >= 4 /\ q.pc \notin {"backup", "migrate"} => ~q.rebuild
    /\ q.n < 4 => ~q.rebuild
    /\ q.pc \notin {"rekey", "rekeyed"} => q.read = {}

ProcKeys(q, s) ==
    /\ Stage(q)
    /\ q.n >= 2 => s.version >= 1
    /\ q.n >= 3 \/ q.pc = "rekeyed" => HasRekeyed(s.cals \cup s.chars)
    /\ \A r \in q.read : r.engine # "wmx"
    /\ q.calShape >= 5 => HasRekeyed(q.read)
    /\ q.pc = "rekey" => \A r \in s.cals : RekeyLegacyKey(r.machine) # r.machine => r \in q.read

Keys == StoreKeys(store) /\ \A p \in Procs : ProcKeys(proc[p], store)

\* Two rows are of one measurement.
Akin(q, r) ==
    /\ q.at = r.at
    /\ RekeyLegacyKey(q.machine) = RekeyLegacyKey(r.machine)
    /\ CanonicalEngine(q.engine) = CanonicalEngine(r.engine)

\* The calibrations there are, in the store and in what the processes have read of it.
Known == store.cals \cup UNION {proc[p].read : p \in Procs}

\* Until they are numbered afresh, a row number stands for one measurement.
NumbersStand ==
    store.calShape < 5 => \A q, r \in Known : q.rowid = r.rowid => Akin(q, r)

StorePassed(s) == ShapesInStep(s) /\ \A n \in 4 .. 8 : s.version >= n => ~Needed(n, s)

\* A process has passed the migrations before its own.
ProcPassed(q, s) ==
    /\ \A n \in 4 .. 8 : n < q.n => ~Needed(n, s)
    /\ q.n >= 4 /\ q.pc = "migrate" /\ ~q.rebuild => ~Needed(q.n, s)

Passed == StorePassed(store) /\ \A p \in Procs : ProcPassed(proc[p], store)

\* A row stands for an owed measurement.
StandsFor(r, o) ==
    /\ RekeyLegacyKey(r.machine) = o.machine /\ CanonicalEngine(r.engine) = o.engine /\ r.at >= o.at

HeldIn(o, s) ==
    IF o.table = "cal" THEN \E r \in s.cals : r.engine # "wmx" /\ StandsFor(r, o)
    ELSE \E r \in s.chars : StandsFor(r, o)

Held == \A o \in measured : o.at \in Int /\ HeldIn(o, store)

StoreInv == Rows /\ Keys /\ NumbersStand /\ (~stale => Passed /\ Held)

-----------------------------------------------------------------------------
(* Rows. *)

\* What an update of columns leaves of a row.
LEMMA CalSet ==
    ASSUME NEW r, CalColumns(r), NEW x
    PROVE  /\ \A q : q = [r EXCEPT !.rowid = x] =>
                /\ CalColumns(q) /\ q.rowid = x /\ q.machine = r.machine /\ q.engine = r.engine
                /\ q.authority = r.authority /\ q.build = r.build /\ q.at = r.at /\ q.born = r.born
           /\ \A q : q = [r EXCEPT !.machine = x] =>
                /\ CalColumns(q) /\ q.rowid = r.rowid /\ q.machine = x /\ q.engine = r.engine
                /\ q.authority = r.authority /\ q.build = r.build /\ q.at = r.at /\ q.born = r.born
           /\ \A q : q = [r EXCEPT !.engine = x] =>
                /\ CalColumns(q) /\ q.rowid = r.rowid /\ q.machine = r.machine /\ q.engine = x
                /\ q.authority = r.authority /\ q.build = r.build /\ q.at = r.at /\ q.born = r.born
           /\ \A q : q = [r EXCEPT !.build = x] =>
                /\ CalColumns(q) /\ q.rowid = r.rowid /\ q.machine = r.machine /\ q.engine = r.engine
                /\ q.authority = r.authority /\ q.build = x /\ q.at = r.at /\ q.born = r.born
BY DEF CalColumns

LEMMA CalSetMore ==
    ASSUME NEW r, CalColumns(r), NEW x, NEW y, NEW z
    PROVE  /\ \A q : q = [r EXCEPT !.authority = x, !.build = y] =>
                /\ CalColumns(q) /\ q.rowid = r.rowid /\ q.machine = r.machine /\ q.engine = r.engine
                /\ q.build = y /\ q.at = r.at
           /\ \A q : q = [r EXCEPT !.engine = x, !.authority = y, !.build = z] =>
                /\ CalColumns(q) /\ q.rowid = r.rowid /\ q.machine = r.machine /\ q.engine = x
                /\ q.build = z /\ q.at = r.at
BY DEF CalColumns

SameOtherwise(q, r) ==
    /\ CharColumns(q) /\ q.artifact = r.artifact /\ q.config = r.config /\ q.authority = r.authority
    /\ q.methodology = r.methodology /\ q.build = r.build /\ q.reusable = r.reusable
    /\ q.safe = r.safe /\ q.direct = r.direct /\ q.point = r.point /\ q.at = r.at /\ q.born = r.born

LEMMA CharSet ==
    ASSUME NEW r, CharColumns(r), NEW x
    PROVE  /\ \A q : q = [r EXCEPT !.rowid = x] =>
                SameOtherwise(q, r) /\ q.rowid = x /\ q.machine = r.machine /\ q.engine = r.engine
           /\ \A q : q = [r EXCEPT !.machine = x] =>
                SameOtherwise(q, r) /\ q.rowid = r.rowid /\ q.machine = x /\ q.engine = r.engine
           /\ \A q : q = [r EXCEPT !.engine = x] =>
                SameOtherwise(q, r) /\ q.rowid = r.rowid /\ q.machine = r.machine /\ q.engine = x
BY DEF CharColumns, SameOtherwise

\* What the fifth, sixth and seventh migration make of a characterization.
CharV5(r) == [r EXCEPT !.engine = CanonicalEngine(@), !.reusable = Reusable(r.artifact, r.config),
                       !.direct = Null, !.authority = Null, !.methodology = Null, !.build = Null]
CharV6(r) == [r EXCEPT !.authority = V6Authority(r), !.reusable = @ /\ ~LegacyMlx(r),
                       !.direct = Null, !.methodology = Null, !.build = Null]
CharV7(r) == [r EXCEPT !.safe = r.point, !.direct = r.point, !.reusable = FALSE,
                       !.methodology = LegacyMethod, !.build = r.evidenceBuild]

Moved(q, r) ==
    CharColumns(q) /\ q.rowid = r.rowid /\ q.machine = r.machine /\ q.at = r.at /\ q.point = r.point

LEMMA CharMoved ==
    ASSUME NEW r, CharColumns(r)
    PROVE  /\ \A q : q = CharV5(r) =>
                Moved(q, r) /\ q.engine = CanonicalEngine(r.engine) /\ q.methodology = Null /\ q.safe = r.safe
           /\ \A q : q = CharV6(r) =>
                Moved(q, r) /\ q.engine = r.engine /\ q.methodology = Null /\ q.safe = r.safe
           /\ \A q : q = CharV7(r) =>
                Moved(q, r) /\ q.engine = r.engine /\ q.methodology = LegacyMethod
                /\ ~q.reusable /\ q.safe = r.point
BY DEF CharColumns, CharV5, CharV6, CharV7, Moved

\* The image of a finite set is finite.
LEMMA ImageIsFinite ==
    ASSUME NEW S, IsFiniteSet(S), NEW f, DOMAIN f = S, NEW T, T = {f[x] : x \in S}
    PROVE  IsFiniteSet(T)
<1>1. \A t \in T : \E s \in S : f[s] = t
  OBVIOUS
<1>2. [s \in S |-> f[s]] \in [S -> T]
  OBVIOUS
<1>3. [s \in S |-> f[s]] \in Surjection(S, T)
  BY <1>1, <1>2 DEF Surjection
<1> QED BY <1>3, FS_Surjection DEF ExistsSurjection

\* Induction over the subsets of a finite set, for a set of them.
LEMMA SubsetInduction ==
    ASSUME NEW S, IsFiniteSet(S), NEW Good,
           \A t \in SUBSET S : (\A u \in SUBSET t : u # t => u \in Good) => t \in Good
    PROVE  \A t \in SUBSET S : t \in Good
<1> DEFINE Bad == {t \in SUBSET S : t \notin Good}
<1> SUFFICES ASSUME Bad # {} PROVE FALSE
  OBVIOUS
<1>1. IsWellFoundedOn(StrictSubsetOrdering(S), SUBSET S)
  <2>1. FiniteSubsetsOf(S) = SUBSET S
    BY FS_FiniteSubsetsOfFinite
  <2>2. IsWellFoundedOn(StrictSubsetOrdering(S), FiniteSubsetsOf(S))
    BY FS_StrictSubsetOrderingWellFounded
  <2> QED BY <2>1, <2>2, Zenon
<1>2. \E t \in Bad : \A u \in Bad : <<u, t>> \notin StrictSubsetOrdering(S)
  <2> HIDE DEF Bad
  <2>1. Bad \subseteq SUBSET S
    BY DEF Bad
  <2> QED BY <1>1, <2>1, WFMin
<1>3. PICK t \in Bad : \A u \in Bad : <<u, t>> \notin StrictSubsetOrdering(S)
  BY <1>2
<1>4. ASSUME NEW u \in SUBSET t, u # t PROVE u \in Good
  BY <1>3, <1>4 DEF StrictSubsetOrdering
<1> QED BY <1>3, <1>4

Numbered(rows) == IsFiniteSet(rows) /\ \A r \in rows : r.at \in Int /\ r.rowid \in Int

\* Of finitely many rows one is the newest.
LEMMA NewestIsOne ==
    ASSUME NEW rows, Numbered(rows), rows # {}
    PROVE  Newest(rows) \in rows /\ \A q \in rows : Newest(rows).at >= q.at
<1> DEFINE Good == {t \in SUBSET rows : t = {} \/ \E m \in t : \A q \in t : Newer(m, q)}
<1>1. ASSUME NEW t \in SUBSET rows, \A u \in SUBSET t : u # t => u \in Good PROVE t \in Good
  <2> SUFFICES ASSUME t # {} PROVE \E m \in t : \A q \in t : Newer(m, q)
    OBVIOUS
  <2>1. PICK x \in t : TRUE
    OBVIOUS
  <2>2. t \ {x} \in Good
    BY <1>1, <2>1
  <2>3. \A r, q \in t : r.at \in Int /\ r.rowid \in Int /\ (Newer(r, q) \/ Newer(q, r)) /\ Newer(r, r)
    BY DEF Numbered, Newer
  <2>4. \A r, q, m \in t : Newer(r, q) /\ Newer(q, m) => Newer(r, m)
    BY DEF Numbered, Newer
  <2>5. CASE t \ {x} = {}
    BY <2>3, <2>5
  <2>6. CASE t \ {x} # {}
    <3>1. PICK m \in t \ {x} : \A q \in t \ {x} : Newer(m, q)
      BY <2>2, <2>6
    <3>2. CASE Newer(m, x)
      BY <3>1, <3>2
    <3>3. CASE Newer(x, m)
      <4>1. \A q \in t : Newer(x, q)
        BY <2>1, <2>3, <2>4, <3>1, <3>3
      <4> QED BY <2>1, <4>1
    <3> QED BY <2>1, <2>3, <3>1, <3>2, <3>3
  <2> QED BY <2>5, <2>6
<1> HIDE DEF Good
<1>2. rows \in Good
  BY <1>1, SubsetInduction DEF Numbered
<1>3. \E m \in rows : \A q \in rows : Newer(m, q)
  BY <1>2 DEF Good
<1>4. Newest(rows) \in rows /\ \A q \in rows : Newer(Newest(rows), q)
  BY <1>3 DEF Newest
<1> QED BY <1>4 DEF Newer, Numbered

\* A merge keeps rows of the table, and for each the newest of its key.
LEMMA MergeKeepsNewest ==
    ASSUME NEW rows, Numbered(rows), NEW table, NEW shape
    PROVE  /\ Merged(rows, table, shape) \subseteq rows
           /\ IsFiniteSet(Merged(rows, table, shape))
           /\ \A r \in rows : \E m \in Merged(rows, table, shape) :
                Key(table, shape, m) = Key(table, shape, r) /\ m.at >= r.at
<1> DEFINE Of(r) == {q \in rows : Key(table, shape, q) = Key(table, shape, r)}
<1>1. ASSUME NEW r \in rows
      PROVE  Newest(Of(r)) \in Of(r) /\ \A q \in Of(r) : Newest(Of(r)).at >= q.at
  <2>1. IsFiniteSet(Of(r)) /\ r \in Of(r)
    BY FS_Subset DEF Numbered
  <2>2. Numbered(Of(r))
    BY <2>1 DEF Numbered
  <2> HIDE DEF Of
  <2> QED BY <2>1, <2>2, NewestIsOne
<1>2. Merged(rows, table, shape) = {Newest(Of(r)) : r \in rows}
  BY DEF Merged
<1>3. Merged(rows, table, shape) \subseteq rows
  BY <1>1, <1>2
<1>4. \A r \in rows : \E m \in Merged(rows, table, shape) :
        Key(table, shape, m) = Key(table, shape, r) /\ m.at >= r.at
  <2> TAKE r \in rows
  <2>1. Newest(Of(r)) \in Merged(rows, table, shape) /\ r \in Of(r)
    BY <1>2
  <2>2. Newest(Of(r)) \in Of(r) /\ Newest(Of(r)).at >= r.at
    BY <1>1, <2>1
  <2> QED BY <2>1, <2>2
<1> QED BY <1>3, <1>4, FS_Subset DEF Numbered

\* The keys of either table name the machine and the engine.
LEMMA KeysName ==
    ASSUME NEW shape, NEW q, NEW r, NEW table \in {"cal", "char"},
           Key(table, shape, q) = Key(table, shape, r)
    PROVE  q.machine = r.machine /\ q.engine = r.engine
<1>1. CASE table = "cal"
  BY <1>1 DEF Key, CalKey
<1>2. CASE table = "char"
  BY <1>2 DEF Key, CharKey
<1> QED BY <1>1, <1>2

\* Rounding and canonicalizing are done once and for all.
LEMMA Spelling ==
    ASSUME NEW x
    PROVE  /\ RekeyLegacyKey("versioned") = "versioned"
           /\ RekeyLegacyKey(RekeyLegacyKey(x)) = RekeyLegacyKey(x)
           /\ CanonicalEngine(CanonicalEngine(x)) = CanonicalEngine(x)
           /\ CanonicalEngine(x) # "wmx"
           /\ x \in Engines => CanonicalEngine(x) = x
BY StoreAssumption DEF RekeyLegacyKey, CanonicalEngine

-----------------------------------------------------------------------------
(* What a table becomes. *)

\* Every row of the new table comes from one of the old.
Comes(new, old) ==
    \A q \in new : \E r \in old :
        /\ q.machine \in {r.machine, RekeyLegacyKey(r.machine)}
        /\ r.engine # "wmx" => q.engine # "wmx"

CalsSound(new, old, now) ==
    IsFiniteSet(new) /\ (\A q \in new : CalRow(q, now)) /\ Comes(new, old)

CharsSound(new, now) == IsFiniteSet(new) /\ \A q \in new : CharRow(q, now)

\* A row that is as good as another to whoever is owed that one.
Covers(q, r) ==
    /\ RekeyLegacyKey(q.machine) = RekeyLegacyKey(r.machine)
    /\ CanonicalEngine(q.engine) = CanonicalEngine(r.engine)
    /\ q.at >= r.at
    /\ r.engine # "wmx" => q.engine # "wmx"

Covered(old, new) == \A r \in old : \E q \in new : Covers(q, r)

\* The rows keep their numbers and their kin.
NumbersKept(new, old) == \A q \in new : \E r \in old : q.rowid = r.rowid /\ Akin(q, r)

\* Migration 2 on calibrations.
LEMMA CalsRekeyed ==
    ASSUME NEW now \in Int, NEW rows, CalRows(rows, now), NEW shape,
           NEW new, new = Rekeyed(rows, "cal", shape)
    PROVE  /\ CalsSound(new, rows, now) /\ HasRekeyed(new)
           /\ Covered(rows, new) /\ NumbersKept(new, rows)
<1> DEFINE Of(r) == [r EXCEPT !.machine = RekeyLegacyKey(@)]
           image == {Of(r) : r \in rows}
<1>1. ASSUME NEW r \in rows
      PROVE  /\ CalRow(Of(r), now) /\ Of(r).machine = RekeyLegacyKey(r.machine)
             /\ Of(r).engine = r.engine /\ Of(r).at = r.at /\ Of(r).rowid = r.rowid
  <2> DEFINE q == Of(r)
  <2>1. CalRow(r, now)
    BY DEF CalRows
  <2>2. /\ CalColumns(q) /\ q.rowid = r.rowid /\ q.machine = RekeyLegacyKey(r.machine)
        /\ q.engine = r.engine /\ q.authority = r.authority /\ q.build = r.build
        /\ q.at = r.at /\ q.born = r.born
    BY <2>1, CalSet DEF CalRow
  <2> HIDE DEF q
  <2>3. CalRow(q, now)
    BY <2>1, <2>2, Spelling DEF CalRow
  <2> QED BY <2>2, <2>3 DEF q
<1>2. IsFiniteSet(image)
  <2> DEFINE f == [r \in rows |-> Of(r)]
  <2>1. image = {f[r] : r \in rows} /\ DOMAIN f = rows
    OBVIOUS
  <2> HIDE DEF f, image
  <2> QED BY <2>1, ImageIsFinite DEF CalRows
<1>3. new = Merged(image, "cal", shape)
  BY DEF Rekeyed
<1>4. \A q \in image : \E r \in rows : q = Of(r)
  OBVIOUS
<1>5. \A r \in rows : Of(r) \in image
  OBVIOUS
<1>6. \A q \in image : CalRow(q, now)
  BY <1>1, <1>4
<1>7. Numbered(image)
  BY <1>2, <1>6 DEF Numbered, CalRow
<1> HIDE DEF image, Of
<1>8. /\ new \subseteq image /\ IsFiniteSet(new)
      /\ \A r \in image : \E m \in new :
            m.machine = r.machine /\ m.engine = r.engine /\ m.at >= r.at
  <2>1. /\ new \subseteq image /\ IsFiniteSet(new)
        /\ \A r \in image : \E m \in new :
              Key("cal", shape, m) = Key("cal", shape, r) /\ m.at >= r.at
    BY <1>3, <1>7, MergeKeepsNewest
  <2>2. \A q, r : Key("cal", shape, q) = Key("cal", shape, r) =>
            q.machine = r.machine /\ q.engine = r.engine
    BY KeysName
  <2> QED BY <2>1, <2>2
<1>9. Comes(new, rows)
  BY <1>1, <1>4, <1>8 DEF Comes
<1>10. HasRekeyed(new)
  BY <1>1, <1>4, <1>8, Spelling DEF HasRekeyed
<1>11. Covered(rows, new)
  <2> SUFFICES ASSUME NEW r \in rows PROVE \E q \in new : Covers(q, r)
    BY DEF Covered
  <2>1. PICK m \in new : m.machine = Of(r).machine /\ m.engine = Of(r).engine /\ m.at >= Of(r).at
    BY <1>5, <1>8
  <2>2. Covers(m, r)
    BY <1>1, <2>1, Spelling DEF Covers
  <2> QED BY <2>2
<1>12. NumbersKept(new, rows)
  BY <1>1, <1>4, <1>8, Spelling DEF NumbersKept, Akin
<1> QED BY <1>6, <1>8, <1>9, <1>10, <1>11, <1>12 DEF CalsSound

\* Migration 3 on calibrations.
LEMMA CalsCanonicalized ==
    ASSUME NEW now \in Int, NEW rows, CalRows(rows, now), NEW shape,
           NEW new, new = Canonicalized(rows, "cal", shape)
    PROVE  /\ CalsSound(new, rows, now) /\ Covered(rows, new) /\ NumbersKept(new, rows)
<1> DEFINE Of(r) == [r EXCEPT !.engine = CanonicalEngine(@)]
           image == {Of(r) : r \in rows}
<1>1. ASSUME NEW r \in rows
      PROVE  /\ CalRow(Of(r), now) /\ Of(r).machine = r.machine
             /\ Of(r).engine = CanonicalEngine(r.engine) /\ Of(r).at = r.at /\ Of(r).rowid = r.rowid
  <2> DEFINE q == Of(r)
  <2>1. CalRow(r, now)
    BY DEF CalRows
  <2>2. /\ CalColumns(q) /\ q.rowid = r.rowid /\ q.machine = r.machine
        /\ q.engine = CanonicalEngine(r.engine) /\ q.authority = r.authority /\ q.build = r.build
        /\ q.at = r.at /\ q.born = r.born
    BY <2>1, CalSet DEF CalRow
  <2> HIDE DEF q
  <2>3. CalRow(q, now)
    BY <2>1, <2>2, Spelling DEF CalRow
  <2> QED BY <2>2, <2>3 DEF q
<1>2. IsFiniteSet(image)
  <2> DEFINE f == [r \in rows |-> Of(r)]
  <2>1. image = {f[r] : r \in rows} /\ DOMAIN f = rows
    OBVIOUS
  <2> HIDE DEF f, image
  <2> QED BY <2>1, ImageIsFinite DEF CalRows
<1>3. new = Merged(image, "cal", shape)
  BY DEF Canonicalized
<1>4. \A q \in image : \E r \in rows : q = Of(r)
  OBVIOUS
<1>5. \A r \in rows : Of(r) \in image
  OBVIOUS
<1>6. \A q \in image : CalRow(q, now)
  BY <1>1, <1>4
<1>7. Numbered(image)
  BY <1>2, <1>6 DEF Numbered, CalRow
<1> HIDE DEF image, Of
<1>8. /\ new \subseteq image /\ IsFiniteSet(new)
      /\ \A r \in image : \E m \in new :
            m.machine = r.machine /\ m.engine = r.engine /\ m.at >= r.at
  <2>1. /\ new \subseteq image /\ IsFiniteSet(new)
        /\ \A r \in image : \E m \in new :
              Key("cal", shape, m) = Key("cal", shape, r) /\ m.at >= r.at
    BY <1>3, <1>7, MergeKeepsNewest
  <2>2. \A q, r : Key("cal", shape, q) = Key("cal", shape, r) =>
            q.machine = r.machine /\ q.engine = r.engine
    BY KeysName
  <2> QED BY <2>1, <2>2
<1>9. Comes(new, rows)
  BY <1>1, <1>4, <1>8, Spelling DEF Comes
<1>10. Covered(rows, new)
  <2> SUFFICES ASSUME NEW r \in rows PROVE \E q \in new : Covers(q, r)
    BY DEF Covered
  <2>1. PICK m \in new : m.machine = Of(r).machine /\ m.engine = Of(r).engine /\ m.at >= Of(r).at
    BY <1>5, <1>8
  <2>2. Covers(m, r)
    BY <1>1, <2>1, Spelling DEF Covers
  <2> QED BY <2>2
<1>11. NumbersKept(new, rows)
  BY <1>1, <1>4, <1>8, Spelling DEF NumbersKept, Akin
<1> QED BY <1>6, <1>8, <1>9, <1>10, <1>11 DEF CalsSound

\* Migration 2 on characterizations.
LEMMA CharsRekeyed ==
    ASSUME NEW now \in Int, NEW rows, CharRows(rows, now), NEW shape,
           NEW new, new = Rekeyed(rows, "char", shape)
    PROVE  /\ CharsSound(new, now) /\ HasRekeyed(new) /\ Covered(rows, new)
           /\ \A q \in new : \E r \in rows : SameOtherwise(q, r)
<1> DEFINE Of(r) == [r EXCEPT !.machine = RekeyLegacyKey(@)]
           image == {Of(r) : r \in rows}
<1>1. ASSUME NEW r \in rows
      PROVE  /\ CharRow(Of(r), now) /\ SameOtherwise(Of(r), r) /\ Of(r).at = r.at
             /\ Of(r).machine = RekeyLegacyKey(r.machine) /\ Of(r).engine = r.engine
  <2> DEFINE q == Of(r)
  <2>1. CharRow(r, now)
    BY DEF CharRows
  <2>2. /\ SameOtherwise(q, r) /\ q.rowid = r.rowid /\ q.machine = RekeyLegacyKey(r.machine)
        /\ q.engine = r.engine
    BY <2>1, CharSet DEF CharRow
  <2> HIDE DEF q
  <2>3. CharRow(q, now)
    <3>1. ASSUME Own(r) PROVE Own(q)
      BY <2>2, <3>1, Spelling DEF Own, SameOtherwise
    <3> QED BY <2>1, <2>2, <3>1 DEF CharRow, SameOtherwise
  <2> QED BY <2>2, <2>3 DEF q, SameOtherwise
<1>2. IsFiniteSet(image)
  <2> DEFINE f == [r \in rows |-> Of(r)]
  <2>1. image = {f[r] : r \in rows} /\ DOMAIN f = rows
    OBVIOUS
  <2> HIDE DEF f, image
  <2> QED BY <2>1, ImageIsFinite DEF CharRows
<1>3. new = Merged(image, "char", shape)
  BY DEF Rekeyed
<1>4. \A q \in image : \E r \in rows : q = Of(r)
  OBVIOUS
<1>5. \A r \in rows : Of(r) \in image
  OBVIOUS
<1>6. \A q \in image : CharRow(q, now)
  BY <1>1, <1>4
<1>7. Numbered(image)
  BY <1>2, <1>6 DEF Numbered, CharRow
<1> HIDE DEF image, Of
<1>8. /\ new \subseteq image /\ IsFiniteSet(new)
      /\ \A r \in image : \E m \in new :
            m.machine = r.machine /\ m.engine = r.engine /\ m.at >= r.at
  <2>1. /\ new \subseteq image /\ IsFiniteSet(new)
        /\ \A r \in image : \E m \in new :
              Key("char", shape, m) = Key("char", shape, r) /\ m.at >= r.at
    BY <1>3, <1>7, MergeKeepsNewest
  <2>2. \A q, r : Key("char", shape, q) = Key("char", shape, r) =>
            q.machine = r.machine /\ q.engine = r.engine
    BY KeysName
  <2> QED BY <2>1, <2>2
<1>9. HasRekeyed(new)
  BY <1>1, <1>4, <1>8, Spelling DEF HasRekeyed
<1>10. Covered(rows, new)
  <2> SUFFICES ASSUME NEW r \in rows PROVE \E q \in new : Covers(q, r)
    BY DEF Covered
  <2>1. PICK m \in new : m.machine = Of(r).machine /\ m.engine = Of(r).engine /\ m.at >= Of(r).at
    BY <1>5, <1>8
  <2>2. Covers(m, r)
    BY <1>1, <2>1, Spelling DEF Covers
  <2> QED BY <2>2
<1>11. \A q \in new : \E r \in rows : SameOtherwise(q, r)
  BY <1>1, <1>4, <1>8
<1> QED BY <1>6, <1>8, <1>9, <1>10, <1>11 DEF CharsSound

\* Migration 3 on characterizations.
LEMMA CharsCanonicalized ==
    ASSUME NEW now \in Int, NEW rows, CharRows(rows, now), NEW shape,
           NEW new, new = Canonicalized(rows, "char", shape)
    PROVE  /\ CharsSound(new, now) /\ Covered(rows, new) /\ Comes(new, rows)
<1> DEFINE Of(r) == [r EXCEPT !.engine = CanonicalEngine(@)]
           image == {Of(r) : r \in rows}
<1>1. ASSUME NEW r \in rows
      PROVE  /\ CharRow(Of(r), now) /\ Of(r).at = r.at /\ Of(r).machine = r.machine
             /\ Of(r).engine = CanonicalEngine(r.engine)
  <2> DEFINE q == Of(r)
  <2>1. CharRow(r, now)
    BY DEF CharRows
  <2>2. /\ SameOtherwise(q, r) /\ q.rowid = r.rowid /\ q.machine = r.machine
        /\ q.engine = CanonicalEngine(r.engine)
    BY <2>1, CharSet DEF CharRow
  <2> HIDE DEF q
  <2>3. CharRow(q, now)
    <3>1. ASSUME Own(r) PROVE Own(q)
      BY <2>2, <3>1, Spelling DEF Own, SameOtherwise
    <3> QED BY <2>1, <2>2, <3>1 DEF CharRow, SameOtherwise
  <2> QED BY <2>2, <2>3 DEF q, SameOtherwise
<1>2. IsFiniteSet(image)
  <2> DEFINE f == [r \in rows |-> Of(r)]
  <2>1. image = {f[r] : r \in rows} /\ DOMAIN f = rows
    OBVIOUS
  <2> HIDE DEF f, image
  <2> QED BY <2>1, ImageIsFinite DEF CharRows
<1>3. new = Merged(image, "char", shape)
  BY DEF Canonicalized
<1>4. \A q \in image : \E r \in rows : q = Of(r)
  OBVIOUS
<1>5. \A r \in rows : Of(r) \in image
  OBVIOUS
<1>6. \A q \in image : CharRow(q, now)
  BY <1>1, <1>4
<1>7. Numbered(image)
  BY <1>2, <1>6 DEF Numbered, CharRow
<1> HIDE DEF image, Of
<1>8. /\ new \subseteq image /\ IsFiniteSet(new)
      /\ \A r \in image : \E m \in new :
            m.machine = r.machine /\ m.engine = r.engine /\ m.at >= r.at
  <2>1. /\ new \subseteq image /\ IsFiniteSet(new)
        /\ \A r \in image : \E m \in new :
              Key("char", shape, m) = Key("char", shape, r) /\ m.at >= r.at
    BY <1>3, <1>7, MergeKeepsNewest
  <2>2. \A q, r : Key("char", shape, q) = Key("char", shape, r) =>
            q.machine = r.machine /\ q.engine = r.engine
    BY KeysName
  <2> QED BY <2>1, <2>2
<1>9. Comes(new, rows)
  BY <1>1, <1>4, <1>8, Spelling DEF Comes
<1>10. Covered(rows, new)
  <2> SUFFICES ASSUME NEW r \in rows PROVE \E q \in new : Covers(q, r)
    BY DEF Covered
  <2>1. PICK m \in new : m.machine = Of(r).machine /\ m.engine = Of(r).engine /\ m.at >= Of(r).at
    BY <1>5, <1>8
  <2>2. Covers(m, r)
    BY <1>1, <2>1, Spelling DEF Covers
  <2> QED BY <2>2
<1> QED BY <1>6, <1>8, <1>9, <1>10 DEF CharsSound

\* The machines stay what they were.
Stays(new, old) ==
    \A q \in new : \E r \in old : q.machine = r.machine /\ (r.engine # "wmx" => q.engine # "wmx")

\* One rewriting after another.
LEMMA StaysOn ==
    ASSUME NEW a, NEW b, NEW c, Stays(b, a), Stays(c, b)
    PROVE  Stays(c, a) /\ Comes(c, a)
BY DEF Stays, Comes

\* Covering is transitive.
LEMMA CoveredOn ==
    ASSUME NEW a, NEW b, NEW c, Covered(a, b), Covered(b, c),
           \A r \in a \cup b \cup c : r.at \in Int
    PROVE  Covered(a, c)
<1> SUFFICES ASSUME NEW r \in a PROVE \E q \in c : Covers(q, r)
  BY DEF Covered
<1>1. PICK s \in b : Covers(s, r)
  BY DEF Covered
<1>2. PICK q \in c : Covers(q, s)
  BY DEF Covered
<1>3. Covers(q, r)
  BY <1>1, <1>2 DEF Covers
<1> QED BY <1>3

\* A table each row of which is rewritten.
LEMMA CalsMapped ==
    ASSUME NEW now, NEW rows, IsFiniteSet(rows), NEW f, DOMAIN f = rows,
           \A r \in rows : CalRow(f[r], now) /\ f[r].machine = r.machine
                           /\ (r.engine # "wmx" => f[r].engine # "wmx"),
           NEW new, new = {f[r] : r \in rows}
    PROVE  /\ CalRows(new, now) /\ Stays(new, rows)
           /\ (\A r \in rows : Covers(f[r], r)) => Covered(rows, new)
<1>1. IsFiniteSet(new)
  BY ImageIsFinite
<1>2. \A q \in new : \E r \in rows : q = f[r]
  OBVIOUS
<1>3. \A r \in rows : f[r] \in new
  OBVIOUS
<1> QED BY <1>1, <1>2, <1>3 DEF CalRows, Stays, Covered

LEMMA CharsMapped ==
    ASSUME NEW now, NEW rows, IsFiniteSet(rows), NEW f, DOMAIN f = rows,
           \A r \in rows : CharRow(f[r], now) /\ f[r].machine = r.machine /\ Covers(f[r], r),
           NEW new, new = {f[r] : r \in rows}
    PROVE  CharRows(new, now) /\ Stays(new, rows) /\ Covered(rows, new)
<1>1. IsFiniteSet(new)
  BY ImageIsFinite
<1>2. \A q \in new : \E r \in rows : q = f[r]
  OBVIOUS
<1>3. \A r \in rows : f[r] \in new
  OBVIOUS
<1>4. \A r \in rows : r.engine # "wmx" => f[r].engine # "wmx"
  BY DEF Covers
<1> QED BY <1>1, <1>2, <1>3, <1>4 DEF CharRows, Stays, Covered

\* Copying a table in rowid order.
LEMMA CalsNumberedAfresh ==
    ASSUME NEW now \in Int, NEW rows, CalRows(rows, now)
    PROVE  /\ CalRows(Renumbered(rows), now) /\ Stays(Renumbered(rows), rows)
           /\ Covered(rows, Renumbered(rows))
<1> DEFINE n(r) == Cardinality({q \in rows : q.rowid <= r.rowid})
           f == [r \in rows |-> [r EXCEPT !.rowid = n(r)]]
<1>1. ASSUME NEW r \in rows
      PROVE  CalRow(f[r], now) /\ f[r].machine = r.machine /\ f[r].engine = r.engine /\ Covers(f[r], r)
  <2>1. n(r) \in Int
    <3>1. IsFiniteSet({q \in rows : q.rowid <= r.rowid})
      BY FS_Subset DEF CalRows
    <3> QED BY <3>1, FS_CardinalityType
  <2> DEFINE q == f[r]
  <2>2. CalRow(r, now) /\ q = [r EXCEPT !.rowid = n(r)]
    BY DEF CalRows
  <2> HIDE DEF n, f, q
  <2>3. /\ CalColumns(q) /\ q.rowid = n(r) /\ q.machine = r.machine /\ q.engine = r.engine
        /\ q.authority = r.authority /\ q.build = r.build /\ q.at = r.at /\ q.born = r.born
    BY <2>2, CalSet DEF CalRow
  <2>4. CalRow(q, now) /\ Covers(q, r)
    BY <2>1, <2>2, <2>3 DEF CalRow, Covers
  <2> QED BY <2>3, <2>4 DEF q
<1>2. Renumbered(rows) = {f[r] : r \in rows} /\ DOMAIN f = rows
  BY DEF Renumbered
<1> HIDE DEF f
<1>3. CalRows(Renumbered(rows), now) /\ Stays(Renumbered(rows), rows)
      /\ ((\A r \in rows : Covers(f[r], r)) => Covered(rows, Renumbered(rows)))
  BY <1>1, <1>2, CalsMapped DEF CalRows
<1> QED BY <1>1, <1>3

LEMMA CharsNumberedAfresh ==
    ASSUME NEW now \in Int, NEW rows, CharRows(rows, now)
    PROVE  /\ CharRows(Renumbered(rows), now) /\ Stays(Renumbered(rows), rows)
           /\ Covered(rows, Renumbered(rows))
<1> DEFINE n(r) == Cardinality({q \in rows : q.rowid <= r.rowid})
           f == [r \in rows |-> [r EXCEPT !.rowid = n(r)]]
<1>1. ASSUME NEW r \in rows
      PROVE  CharRow(f[r], now) /\ f[r].machine = r.machine /\ Covers(f[r], r)
  <2>1. n(r) \in Int
    <3>1. IsFiniteSet({q \in rows : q.rowid <= r.rowid})
      BY FS_Subset DEF CharRows
    <3> QED BY <3>1, FS_CardinalityType
  <2> DEFINE q == f[r]
  <2>2. CharRow(r, now) /\ q = [r EXCEPT !.rowid = n(r)]
    BY DEF CharRows
  <2> HIDE DEF n, f, q
  <2>3. SameOtherwise(q, r) /\ q.rowid = n(r) /\ q.machine = r.machine /\ q.engine = r.engine
    BY <2>2, CharSet DEF CharRow
  <2>4. ASSUME Own(r) PROVE Own(q)
    BY <2>3, <2>4 DEF Own, SameOtherwise
  <2>5. CharRow(q, now) /\ Covers(q, r)
    BY <2>1, <2>2, <2>3, <2>4 DEF CharRow, Covers, SameOtherwise
  <2> QED BY <2>3, <2>5 DEF q
<1>2. Renumbered(rows) = {f[r] : r \in rows} /\ DOMAIN f = rows
  BY DEF Renumbered
<1> HIDE DEF f
<1> QED BY <1>1, <1>2, CharsMapped DEF CharRows

\* Rewriting a table that is numbered afresh.
LEMMA CalsRewritten ==
    ASSUME NEW now \in Int, NEW rows, CalRows(rows, now), NEW f, DOMAIN f = Renumbered(rows),
           \A r \in Renumbered(rows) : CalRow(f[r], now) /\ f[r].machine = r.machine
                                       /\ (r.engine # "wmx" => f[r].engine # "wmx"),
           NEW new, new = {f[r] : r \in Renumbered(rows)}
    PROVE  /\ CalsSound(new, rows, now) /\ Stays(new, rows)
           /\ (\A r \in Renumbered(rows) : Covers(f[r], r)) => Covered(rows, new)
<1> DEFINE mid == Renumbered(rows)
<1>1. CalRows(mid, now) /\ Stays(mid, rows) /\ Covered(rows, mid)
  BY CalsNumberedAfresh
<1> HIDE DEF mid
<1>2. /\ CalRows(new, now) /\ Stays(new, mid)
      /\ (\A r \in mid : Covers(f[r], r)) => Covered(mid, new)
  BY <1>1, CalsMapped DEF CalRows, mid
<1>3. \A r \in rows \cup mid \cup new : r.at \in Int
  BY <1>1, <1>2 DEF CalRows, CalRow
<1>4. Comes(new, rows) /\ Stays(new, rows)
  BY <1>1, <1>2, StaysOn
<1>5. Covered(mid, new) => Covered(rows, new)
  BY <1>1, <1>3, CoveredOn
<1> QED BY <1>2, <1>4, <1>5 DEF CalsSound, CalRows, mid

LEMMA CharsRewritten ==
    ASSUME NEW now \in Int, NEW rows, CharRows(rows, now), NEW f, DOMAIN f = Renumbered(rows),
           \A r \in Renumbered(rows) :
                CharRow(f[r], now) /\ f[r].machine = r.machine /\ Covers(f[r], r),
           NEW new, new = {f[r] : r \in Renumbered(rows)}
    PROVE  CharsSound(new, now) /\ Stays(new, rows) /\ Covered(rows, new)
<1> DEFINE mid == Renumbered(rows)
<1>1. CharRows(mid, now) /\ Stays(mid, rows) /\ Covered(rows, mid)
  BY CharsNumberedAfresh
<1> HIDE DEF mid
<1>2. CharRows(new, now) /\ Stays(new, mid) /\ Covered(mid, new)
  BY <1>1, CharsMapped DEF CharRows, mid
<1>3. \A r \in rows \cup mid \cup new : r.at \in Int
  BY <1>1, <1>2 DEF CharRows, CharRow
<1>4. Stays(new, rows)
  BY <1>1, <1>2, StaysOn
<1>5. Covered(rows, new)
  BY <1>1, <1>2, <1>3, CoveredOn
<1> QED BY <1>2, <1>4, <1>5 DEF CharsSound, CharRows

-----------------------------------------------------------------------------
(* The migrations, table by table. *)

CalV5(shape, r) == [r EXCEPT !.engine = TargetOf(shape, r), !.authority = Null, !.build = Null]
CalV6(r) == [r EXCEPT !.authority = V6Authority(r), !.build = LegacyBuild]
CalV8(r) == [r EXCEPT !.build = LegacyBuild]

\* The fifth loses the engine of a calibration when it runs a second time, and no more.
LEMMA CalsV5 ==
    ASSUME NEW now \in Int, NEW rows, CalRows(rows, now), NEW shape \in 0 .. 8, NEW new,
           new = {CalV5(shape, r) : r \in Renumbered(rows)}
    PROVE  /\ CalsSound(new, rows, now) /\ Stays(new, rows)
           /\ shape < 5 => Covered(rows, new)
<1> DEFINE f == [r \in Renumbered(rows) |-> CalV5(shape, r)]
<1>1. CalRows(Renumbered(rows), now)
  BY CalsNumberedAfresh
<1>2. ASSUME NEW r \in Renumbered(rows)
      PROVE  /\ CalRow(f[r], now) /\ f[r].machine = r.machine /\ f[r].engine # "wmx"
             /\ shape < 5 => Covers(f[r], r)
  <2> DEFINE q == f[r]
  <2>1. CalRow(r, now)
    BY <1>1 DEF CalRows
  <2>2. q = CalV5(shape, r)
    OBVIOUS
  <2> HIDE DEF f, q
  <2>3. /\ CalColumns(q) /\ q.rowid = r.rowid /\ q.machine = r.machine
        /\ q.engine = TargetOf(shape, r) /\ q.build = Null /\ q.at = r.at
    BY <2>1, <2>2 DEF CalRow, CalColumns, CalV5
  <2>4. CalRow(q, now)
    BY <2>1, <2>3, StoreAssumption DEF CalRow
  <2>5. q.engine # "wmx"
    BY <2>3 DEF TargetOf, CanonicalEngine
  <2>6. ASSUME shape < 5 PROVE Covers(q, r)
    <3>1. q.engine = CanonicalEngine(r.engine)
      BY <2>3, <2>6 DEF TargetOf
    <3>2. CanonicalEngine(q.engine) = CanonicalEngine(r.engine)
      BY <3>1, Spelling
    <3> QED BY <2>1, <2>3, <2>5, <3>2 DEF Covers, CalRow
  <2> QED BY <2>3, <2>4, <2>5, <2>6 DEF q
<1>3. new = {f[r] : r \in Renumbered(rows)} /\ DOMAIN f = Renumbered(rows)
  OBVIOUS
<1> HIDE DEF f
<1>4. /\ CalsSound(new, rows, now) /\ Stays(new, rows)
      /\ (\A r \in Renumbered(rows) : Covers(f[r], r)) => Covered(rows, new)
  BY <1>2, <1>3, CalsRewritten
<1> QED BY <1>2, <1>4

\* The sixth names an authority and no build of this release.
LEMMA CalsV6 ==
    ASSUME NEW now \in Int, NEW rows, CalRows(rows, now), NEW new,
           new = {CalV6(r) : r \in Renumbered(rows)}
    PROVE  CalsSound(new, rows, now) /\ Stays(new, rows) /\ Covered(rows, new)
<1> DEFINE f == [r \in Renumbered(rows) |-> CalV6(r)]
<1>1. CalRows(Renumbered(rows), now)
  BY CalsNumberedAfresh
<1>2. ASSUME NEW r \in Renumbered(rows)
      PROVE  /\ CalRow(f[r], now) /\ f[r].machine = r.machine
             /\ f[r].engine = r.engine /\ Covers(f[r], r)
  <2> DEFINE q == f[r]
  <2>1. CalRow(r, now)
    BY <1>1 DEF CalRows
  <2>2. q = CalV6(r)
    OBVIOUS
  <2> HIDE DEF f, q
  <2>3. /\ CalColumns(q) /\ q.rowid = r.rowid /\ q.machine = r.machine
        /\ q.engine = r.engine /\ q.build = LegacyBuild /\ q.at = r.at
    BY <2>1, <2>2 DEF CalRow, CalColumns, CalV6
  <2>4. CalRow(q, now)
    BY <2>1, <2>3, StoreAssumption DEF CalRow
  <2>5. Covers(q, r)
    BY <2>1, <2>3 DEF Covers, CalRow
  <2> QED BY <2>3, <2>4, <2>5 DEF q
<1>3. new = {f[r] : r \in Renumbered(rows)} /\ DOMAIN f = Renumbered(rows)
  OBVIOUS
<1> HIDE DEF f
<1>4. /\ CalsSound(new, rows, now) /\ Stays(new, rows)
      /\ (\A r \in Renumbered(rows) : Covers(f[r], r)) => Covered(rows, new)
  BY <1>2, <1>3, CalsRewritten
<1> QED BY <1>2, <1>4

\* The eighth names a build that is none of this release.
LEMMA CalsV8 ==
    ASSUME NEW now \in Int, NEW rows, CalRows(rows, now), NEW new,
           new = {CalV8(r) : r \in Renumbered(rows)}
    PROVE  CalsSound(new, rows, now) /\ Stays(new, rows) /\ Covered(rows, new)
<1> DEFINE f == [r \in Renumbered(rows) |-> CalV8(r)]
<1>1. CalRows(Renumbered(rows), now)
  BY CalsNumberedAfresh
<1>2. ASSUME NEW r \in Renumbered(rows)
      PROVE  /\ CalRow(f[r], now) /\ f[r].machine = r.machine
             /\ f[r].engine = r.engine /\ Covers(f[r], r)
  <2> DEFINE q == f[r]
  <2>1. CalRow(r, now)
    BY <1>1 DEF CalRows
  <2>2. q = CalV8(r)
    OBVIOUS
  <2> HIDE DEF f, q
  <2>3. /\ CalColumns(q) /\ q.rowid = r.rowid /\ q.machine = r.machine
        /\ q.engine = r.engine /\ q.build = LegacyBuild /\ q.at = r.at
    BY <2>1, <2>2 DEF CalRow, CalColumns, CalV8
  <2>4. CalRow(q, now)
    BY <2>1, <2>3, StoreAssumption DEF CalRow
  <2>5. Covers(q, r)
    BY <2>1, <2>3 DEF Covers, CalRow
  <2> QED BY <2>3, <2>4, <2>5 DEF q
<1>3. new = {f[r] : r \in Renumbered(rows)} /\ DOMAIN f = Renumbered(rows)
  OBVIOUS
<1> HIDE DEF f
<1>4. /\ CalsSound(new, rows, now) /\ Stays(new, rows)
      /\ (\A r \in Renumbered(rows) : Covers(f[r], r)) => Covered(rows, new)
  BY <1>2, <1>3, CalsRewritten
<1> QED BY <1>2, <1>4

\* None of the three makes a characterization one of this release.
LEMMA CharsV567 ==
    ASSUME NEW now \in Int, NEW rows, CharRows(rows, now), NEW new,
           \/ new = {CharV5(r) : r \in Renumbered(rows)}
           \/ new = {CharV6(r) : r \in Renumbered(rows)}
           \/ new = {CharV7(r) : r \in Renumbered(rows)}
    PROVE  CharsSound(new, now) /\ Stays(new, rows) /\ Covered(rows, new)
<1>1. CharRows(Renumbered(rows), now)
  BY CharsNumberedAfresh
<1>2. ASSUME NEW r \in Renumbered(rows), NEW q, q = CharV5(r) \/ q = CharV6(r) \/ q = CharV7(r)
      PROVE  CharRow(q, now) /\ q.machine = r.machine /\ Covers(q, r)
  <2>1. CharRow(r, now)
    BY <1>1 DEF CharRows
  <2>2. /\ Moved(q, r) /\ q.engine \in {r.engine, CanonicalEngine(r.engine)}
        /\ q.methodology # Method /\ q.safe \in {r.safe, r.point}
    BY <1>2, <2>1, CharMoved DEF CharRow, Method, LegacyMethod, Null
  <2>3. CharRow(q, now)
    BY <2>1, <2>2 DEF CharRow, Moved
  <2>4. /\ CanonicalEngine(q.engine) = CanonicalEngine(r.engine)
        /\ r.engine # "wmx" => q.engine # "wmx"
    BY <2>2, Spelling
  <2> QED BY <2>1, <2>2, <2>3, <2>4 DEF Moved, Covers, CharRow
<1>3. CASE new = {CharV5(r) : r \in Renumbered(rows)}
  <2> DEFINE f == [r \in Renumbered(rows) |-> CharV5(r)]
  <2>1. \A r \in Renumbered(rows) : CharRow(f[r], now) /\ f[r].machine = r.machine /\ Covers(f[r], r)
    BY <1>2
  <2>2. new = {f[r] : r \in Renumbered(rows)} /\ DOMAIN f = Renumbered(rows)
    BY <1>3
  <2> HIDE DEF f
  <2> QED BY <2>1, <2>2, CharsRewritten
<1>4. CASE new = {CharV6(r) : r \in Renumbered(rows)}
  <2> DEFINE f == [r \in Renumbered(rows) |-> CharV6(r)]
  <2>1. \A r \in Renumbered(rows) : CharRow(f[r], now) /\ f[r].machine = r.machine /\ Covers(f[r], r)
    BY <1>2
  <2>2. new = {f[r] : r \in Renumbered(rows)} /\ DOMAIN f = Renumbered(rows)
    BY <1>4
  <2> HIDE DEF f
  <2> QED BY <2>1, <2>2, CharsRewritten
<1>5. CASE new = {CharV7(r) : r \in Renumbered(rows)}
  <2> DEFINE f == [r \in Renumbered(rows) |-> CharV7(r)]
  <2>1. \A r \in Renumbered(rows) : CharRow(f[r], now) /\ f[r].machine = r.machine /\ Covers(f[r], r)
    BY <1>2
  <2>2. new = {f[r] : r \in Renumbered(rows)} /\ DOMAIN f = Renumbered(rows)
    BY <1>5
  <2> HIDE DEF f
  <2> QED BY <2>1, <2>2, CharsRewritten
<1> QED BY <1>3, <1>4, <1>5

\* The seventh leaves nothing reusable and no ceiling above what was measured.
LEMMA CharsV7Safe ==
    ASSUME NEW now \in Int, NEW rows, CharRows(rows, now), NEW new,
           new = {CharV7(r) : r \in Renumbered(rows)}
    PROVE  \A q \in new : ~q.reusable /\ q.safe <= q.point
<1>1. CharRows(Renumbered(rows), now)
  BY CharsNumberedAfresh
<1>2. ASSUME NEW r \in Renumbered(rows), NEW q, q = CharV7(r)
      PROVE  ~q.reusable /\ q.safe <= q.point
  <2>1. CharRow(r, now)
    BY <1>1 DEF CharRows
  <2>2. Moved(q, r) /\ ~q.reusable /\ q.safe = r.point
    BY <1>2, <2>1, CharMoved DEF CharRow
  <2> QED BY <2>1, <2>2 DEF Moved, CharRow
<1> QED BY <1>2

-----------------------------------------------------------------------------
(* One process moves. *)

\* What a step keeps of the store for the other processes.
Keeps(s, t) ==
    /\ s.version >= 1 => t.version >= 1
    /\ HasRekeyed(s.cals \cup s.chars) => HasRekeyed(t.cals \cup t.chars)
    /\ \A r \in t.cals : RekeyLegacyKey(r.machine) # r.machine => r \in s.cals

Advances(s, t) == \A n \in 4 .. 8 : ~Needed(n, s) => ~Needed(n, t)

\* A row of the past stays one.
LEMMA Older ==
    ASSUME NEW now \in Int
    PROVE  /\ \A r : CalRow(r, now) => CalRow(r, now + 1)
           /\ \A r : CharRow(r, now) => CharRow(r, now + 1)
           /\ \A q : ProcRows(q, now) => ProcRows(q, now + 1)
<1>1. \A r : CalRow(r, now) => CalRow(r, now + 1)
  BY DEF CalRow
<1>2. \A r : CharRow(r, now) => CharRow(r, now + 1)
  BY DEF CharRow
<1>3. \A q : ProcRows(q, now) => ProcRows(q, now + 1)
  BY <1>1 DEF ProcRows, CalRows
<1> QED BY <1>1, <1>2, <1>3

\* Another process keeps the keys it relies on.
LEMMA OthersKeep ==
    ASSUME NEW s, NEW t, Keeps(s, t), NEW q, ProcKeys(q, s)
    PROVE  ProcKeys(q, t)
BY DEF Keeps, ProcKeys

\* Another process keeps the shapes it relies on.
LEMMA OthersPass ==
    ASSUME NEW s, NEW t, Advances(s, t), NEW q, q.n \in 1 .. 8, ProcPassed(q, s)
    PROVE  ProcPassed(q, t)
BY DEF Advances, ProcPassed

\* A step of one process on the whole store: what is left to show of an action.
LEMMA OneMoves ==
    ASSUME StoreInv, NEW p \in Procs, NEW q,
           proc' = [proc EXCEPT ![p] = q] \/ (proc' = proc /\ q = proc[p]),
           saves' \in {saves, saves + 1},
           StoreRows(store', 10 + saves'), StoreKeys(store'), Keeps(store, store'),
           ProcRows(q, 10 + saves'), ProcKeys(q, store'),
           store'.calShape < 5 => /\ store.calShape < 5
                                  /\ NumbersKept(store'.cals \cup q.read, Known),
           ~stale' => ~stale,
           ~stale' /\ Passed /\ Held =>
                /\ StorePassed(store') /\ Advances(store, store') /\ ProcPassed(q, store')
                /\ \A o \in measured' : o.at \in Int /\ HeldIn(o, store')
    PROVE  StoreInv'
<1>1. /\ DOMAIN proc = Procs /\ DOMAIN proc' = Procs
      /\ \A o \in Procs : proc'[o] = IF o = p THEN q ELSE proc[o]
  BY DEF StoreInv, Rows
<1>2. saves \in Nat /\ saves' \in Nat
  BY DEF StoreInv, Rows
<1>3. Rows'
  <2>1. \A o \in Procs : ProcRows(proc[o], 10 + saves')
    BY <1>2, Older DEF StoreInv, Rows, Now
  <2>2. \A o \in Procs : ProcRows(proc'[o], 10 + saves')
    BY <1>1, <2>1
  <2> QED BY <1>1, <1>2, <2>2 DEF Rows, Now
<1>4. Keys'
  <2>1. \A o \in Procs : ProcKeys(proc[o], store')
    BY OthersKeep DEF StoreInv, Keys
  <2>2. \A o \in Procs : ProcKeys(proc'[o], store')
    BY <1>1, <2>1
  <2> QED BY <2>2 DEF Keys
<1>5. NumbersStand'
  <2> SUFFICES ASSUME store'.calShape < 5, NEW a \in Known', NEW b \in Known', a.rowid = b.rowid
               PROVE  Akin(a, b)
    BY DEF NumbersStand
  <2>1. \A x \in Known' : \E r \in Known : x.rowid = r.rowid /\ Akin(x, r)
    <3> TAKE x \in Known'
    <3>1. x \in store'.cals \/ \E o \in Procs : x \in proc'[o].read
      BY DEF Known
    <3>2. CASE x \in store'.cals \cup q.read
      BY <3>2 DEF NumbersKept
    <3>3. CASE \E o \in Procs : x \in proc[o].read
      <4>1. x \in Known /\ Akin(x, x)
        BY <3>3 DEF Known, Akin
      <4> QED BY <4>1
    <3> QED BY <1>1, <3>1, <3>2, <3>3
  <2>2. PICK r \in Known : a.rowid = r.rowid /\ Akin(a, r)
    BY <2>1
  <2>3. PICK s \in Known : b.rowid = s.rowid /\ Akin(b, s)
    BY <2>1
  <2>4. Akin(r, s)
    BY <2>2, <2>3 DEF StoreInv, NumbersStand
  <2> QED BY <2>2, <2>3, <2>4 DEF Akin
<1>6. ~stale' => Passed' /\ Held'
  <2> SUFFICES ASSUME ~stale' PROVE Passed' /\ Held'
    OBVIOUS
  <2>1. Passed /\ Held
    BY DEF StoreInv
  <2>2. /\ StorePassed(store') /\ Advances(store, store') /\ ProcPassed(q, store')
        /\ \A o \in measured' : o.at \in Int /\ HeldIn(o, store')
    BY <2>1
  <2>3. \A o \in Procs : ProcPassed(proc[o], store')
    <3>1. \A o \in Procs : proc[o].n \in 1 .. 8 /\ ProcPassed(proc[o], store)
      BY <2>1 DEF StoreInv, Rows, ProcRows, Passed
    <3> QED BY <2>2, <3>1, OthersPass
  <2>4. \A o \in Procs : ProcPassed(proc'[o], store')
    BY <1>1, <2>2, <2>3
  <2> QED BY <2>2, <2>4 DEF Passed, Held
<1> QED BY <1>3, <1>4, <1>5, <1>6 DEF StoreInv

\* The store stays as it is.
LEMMA OneMovesAlone ==
    ASSUME StoreInv, NEW p \in Procs, NEW q, proc' = [proc EXCEPT ![p] = q],
           store' = store, saves' = saves, measured' = measured,
           ProcRows(q, 10 + saves), ProcKeys(q, store), q.read \subseteq Known,
           ~stale' => ~stale,
           ~stale' /\ Passed => ProcPassed(q, store)
    PROVE  StoreInv'
<1>1. StoreRows(store', 10 + saves') /\ StoreKeys(store') /\ ProcRows(q, 10 + saves') /\ ProcKeys(q, store')
  BY DEF StoreInv, Rows, Keys, Now
<1>2. Keeps(store, store') /\ Advances(store, store')
  BY DEF Keeps, Advances
<1>3. store'.calShape < 5 => store.calShape < 5 /\ NumbersKept(store'.cals \cup q.read, Known)
  <2>1. store'.cals \cup q.read \subseteq Known /\ \A x : Akin(x, x)
    BY DEF Known, Akin
  <2> QED BY <2>1 DEF NumbersKept
<1>4. ~stale' /\ Passed /\ Held =>
        /\ StorePassed(store') /\ Advances(store, store') /\ ProcPassed(q, store')
        /\ \A o \in measured' : o.at \in Int /\ HeldIn(o, store')
  BY <1>2 DEF Passed, Held
<1>5. saves' \in {saves, saves + 1}
  OBVIOUS
<1> QED BY <1>1, <1>2, <1>3, <1>4, <1>5, OneMoves

AtStart == [pc |-> "off", n |-> 1, rebuild |-> FALSE, calShape |-> 0, read |-> {}]

\* A process that is off relies on nothing.
LEMMA OffIsFine ==
    ASSUME NEW s, NEW now
    PROVE  ProcRows(AtStart, now) /\ ProcKeys(AtStart, s) /\ ProcPassed(AtStart, s) /\ AtStart.read = {}
<1>1. /\ DOMAIN AtStart = {"pc", "n", "rebuild", "calShape", "read"}
      /\ AtStart.pc = "off" /\ AtStart.n = 1 /\ AtStart.rebuild = FALSE /\ AtStart.calShape = 0
      /\ AtStart.read = {}
  BY DEF AtStart
<1> HIDE DEF AtStart
<1>2. ProcRows(AtStart, now)
  BY <1>1, FS_EmptySet DEF ProcRows, CalRows
<1>3. ProcKeys(AtStart, s)
  BY <1>1 DEF ProcKeys, Stage
<1>4. ProcPassed(AtStart, s)
  BY <1>1 DEF ProcPassed
<1> QED BY <1>1, <1>2, <1>3, <1>4

LEMMA GoesOff ==
    ASSUME StoreInv, NEW p \in Procs, Off(p), store' = store, saves' = saves, measured' = measured,
           ~stale' => ~stale
    PROVE  StoreInv'
<1>1. proc' = [proc EXCEPT ![p] = AtStart]
  BY DEF Off, AtStart
<1>2. ProcRows(AtStart, 10 + saves) /\ ProcKeys(AtStart, store) /\ ProcPassed(AtStart, store)
      /\ AtStart.read = {}
  BY OffIsFine
<1> HIDE DEF AtStart
<1> QED BY <1>1, <1>2, OneMovesAlone

-----------------------------------------------------------------------------
(* The steps that leave the tables as they are. *)

IsProc(q) == DOMAIN q = {"pc", "n", "rebuild", "calShape", "read"}

\* Where a process moves to.
Goes(q, r, pc) ==
    /\ IsProc(q) /\ q.pc = pc /\ q.n = r.n /\ q.rebuild = r.rebuild
    /\ q.calShape = r.calShape /\ q.read = r.read

Advanced(q, r, n) ==
    /\ IsProc(q) /\ q.pc = (IF n = 8 THEN "ready" ELSE "check")
    /\ q.n = (IF n = 8 THEN 8 ELSE n + 1)
    /\ q.rebuild = FALSE /\ q.calShape = r.calShape /\ q.read = {}

LEMMA GoesTo ==
    ASSUME NEW p \in Procs, DOMAIN proc = Procs, IsProc(proc[p]), NEW pc, Goto(p, pc)
    PROVE  \E q : Goes(q, proc[p], pc) /\ proc' = [proc EXCEPT ![p] = q]
<1> DEFINE q == [proc[p] EXCEPT !.pc = pc]
<1>1. Goes(q, proc[p], pc)
  BY DEF Goes, IsProc
<1>2. proc' = [proc EXCEPT ![p] = q]
  BY DEF Goto
<1> QED BY <1>1, <1>2

LEMMA AdvancesTo ==
    ASSUME NEW p \in Procs, DOMAIN proc = Procs, IsProc(proc[p]), NEW n, Advance(p, n)
    PROVE  \E q : Advanced(q, proc[p], n) /\ proc' = [proc EXCEPT ![p] = q]
<1> DEFINE q == [proc[p] EXCEPT !.pc = IF n = 8 THEN "ready" ELSE "check",
                                !.n = IF n = 8 THEN 8 ELSE n + 1,
                                !.rebuild = FALSE, !.read = {}]
<1>1. Advanced(q, proc[p], n)
  BY DEF Advanced, IsProc
<1>2. proc' = [proc EXCEPT ![p] = q]
  BY DEF Advance
<1> QED BY <1>1, <1>2

\* What the invariant says of one process.
LEMMA InvOf ==
    ASSUME StoreInv, NEW p \in Procs
    PROVE  /\ DOMAIN proc = Procs /\ IsProc(proc[p]) /\ ProcRows(proc[p], 10 + saves)
           /\ ProcKeys(proc[p], store) /\ Stage(proc[p]) /\ proc[p].n \in 1 .. 8
           /\ StoreRows(store, 10 + saves) /\ StoreKeys(store) /\ saves \in Nat
           /\ store.version \in 0 .. 8 /\ store.calShape \in 0 .. 8 /\ store.charShape \in 0 .. 8
           /\ store.benchShape \in 0 .. 8 /\ StoreColumns(store)
           /\ proc[p].read \subseteq Known
           /\ Passed => ProcPassed(proc[p], store) /\ StorePassed(store)
<1>1. /\ DOMAIN proc = Procs /\ IsProc(proc[p]) /\ ProcRows(proc[p], 10 + saves)
      /\ proc[p].n \in 1 .. 8 /\ StoreRows(store, 10 + saves) /\ saves \in Nat
      /\ store.version \in 0 .. 8 /\ store.calShape \in 0 .. 8 /\ store.charShape \in 0 .. 8
      /\ store.benchShape \in 0 .. 8 /\ StoreColumns(store)
  BY DEF StoreInv, Rows, Now, IsProc, ProcRows, StoreRows
<1>2. ProcKeys(proc[p], store) /\ Stage(proc[p]) /\ StoreKeys(store)
  BY DEF StoreInv, Keys, ProcKeys
<1>3. proc[p].read \subseteq Known
  BY DEF Known
<1>4. Passed => ProcPassed(proc[p], store) /\ StorePassed(store)
  BY DEF Passed
<1> QED BY <1>1, <1>2, <1>3, <1>4

LEMMA OpenKeeps ==
    ASSUME StoreInv, NEW p \in Procs, Open(p)
    PROVE  StoreInv'
<1> DEFINE q == [proc[p] EXCEPT !.pc = "check", !.calShape = store.calShape]
<1>1. /\ IsProc(q) /\ q.pc = "check" /\ q.n = proc[p].n /\ q.rebuild = proc[p].rebuild
      /\ q.calShape = store.calShape /\ q.read = proc[p].read
  BY InvOf DEF IsProc
<1>2. proc' = [proc EXCEPT ![p] = q]
  BY DEF Open
<1> HIDE DEF q
<1>3. proc[p].pc = "off" /\ store' = store /\ saves' = saves /\ measured' = measured /\ stale' = stale
  BY DEF Open
<1>4. q.n = 1 /\ q.rebuild = FALSE /\ q.read = {}
  BY <1>1, <1>3, InvOf DEF Stage
<1>5. ProcRows(q, 10 + saves)
  BY <1>1, <1>4, InvOf, FS_EmptySet DEF ProcRows, CalRows, IsProc
<1>6. ProcKeys(q, store)
  BY <1>1, <1>4 DEF ProcKeys, Stage, HasRekeyed
<1>7. ProcPassed(q, store)
  BY <1>1, <1>4 DEF ProcPassed
<1>8. q.read \subseteq Known
  BY <1>4
<1> QED BY <1>2, <1>3, <1>5, <1>6, <1>7, <1>8, OneMovesAlone

LEMMA CheckVersionKeeps ==
    ASSUME StoreInv, NEW p \in Procs, CheckVersion(p)
    PROVE  StoreInv'
<1> DEFINE r == proc[p]
<1>1. r.pc = "check" /\ store' = store /\ saves' = saves /\ measured' = measured /\ stale' = stale
  BY DEF CheckVersion
<1>2. /\ ProcRows(r, 10 + saves) /\ ProcKeys(r, store) /\ Stage(r) /\ r.n \in 1 .. 8 /\ IsProc(r)
      /\ Passed => ProcPassed(r, store) /\ StorePassed(store)
      /\ store.version \in 0 .. 8 /\ DOMAIN proc = Procs /\ StoreKeys(store) /\ r.read = {}
  BY <1>1, InvOf DEF Stage
<1>3. CASE store.version < r.n
  <2> DEFINE pc == IF r.n = 1 THEN "units" ELSE IF r.n = 2 THEN "read"
                   ELSE IF r.n = 3 THEN "backup" ELSE "decide"
  <2>1. Goto(p, pc)
    BY <1>3 DEF CheckVersion
  <2>2. PICK q : Goes(q, r, pc) /\ proc' = [proc EXCEPT ![p] = q]
    BY <1>2, <2>1, GoesTo
  <2>3. ProcRows(q, 10 + saves)
    BY <1>2, <2>2 DEF ProcRows, Goes, IsProc
  <2>4. ProcKeys(q, store)
    BY <1>1, <1>2, <2>2 DEF ProcKeys, Goes, Stage
  <2>5. Passed => ProcPassed(q, store)
    BY <1>1, <1>2, <2>2 DEF ProcPassed, Goes
  <2>6. q.read \subseteq Known
    BY <1>2, <2>2 DEF Goes
  <2> QED BY <1>1, <2>2, <2>3, <2>4, <2>5, <2>6, OneMovesAlone
<1>4. CASE ~(store.version < r.n)
  <2> DEFINE q == IF r.n = 8 THEN [r EXCEPT !.pc = "ready"] ELSE [r EXCEPT !.n = r.n + 1]
  <2>1. proc' = [proc EXCEPT ![p] = q]
    BY <1>4 DEF CheckVersion
  <2>2. /\ IsProc(q) /\ q.pc = (IF r.n = 8 THEN "ready" ELSE "check")
        /\ q.n = (IF r.n = 8 THEN 8 ELSE r.n + 1)
        /\ q.rebuild = r.rebuild /\ q.calShape = r.calShape /\ q.read = {}
    BY <1>1, <1>2 DEF IsProc
  <2> HIDE DEF q
  <2>3. ProcRows(q, 10 + saves)
    BY <1>2, <2>2 DEF ProcRows, IsProc
  <2>4. ProcKeys(q, store)
    <3>1. Stage(q)
      BY <1>1, <1>2, <2>2 DEF Stage
    <3>2. q.n >= 2 => store.version >= 1
      BY <1>2, <1>4, <2>2 DEF ProcKeys
    <3>3. q.n >= 3 => HasRekeyed(store.cals \cup store.chars)
      BY <1>2, <1>4, <2>2 DEF StoreKeys
    <3> QED BY <1>1, <2>2, <3>1, <3>2, <3>3 DEF ProcKeys, HasRekeyed
  <2>5. Passed => ProcPassed(q, store)
    <3> SUFFICES ASSUME Passed, NEW n \in 4 .. 8, n < q.n PROVE ~Needed(n, store)
      BY <2>2 DEF ProcPassed
    <3>1. n < r.n \/ (n = r.n /\ store.version >= n)
      BY <1>2, <1>4, <2>2
    <3> QED BY <1>2, <3>1 DEF ProcPassed, StorePassed
  <2>6. q.read \subseteq Known
    BY <2>2
  <2> QED BY <1>1, <2>1, <2>3, <2>4, <2>5, <2>6, OneMovesAlone
<1> QED BY <1>3, <1>4

LEMMA ReadLegacyKeysKeeps ==
    ASSUME StoreInv, NEW p \in Procs, ReadLegacyKeys(p)
    PROVE  StoreInv'
<1> DEFINE r == proc[p]
           q == [r EXCEPT !.pc = "rekey", !.read = store.cals, !.calShape = store.calShape]
<1>1. r.pc = "read" /\ store' = store /\ saves' = saves /\ measured' = measured /\ stale' = stale
  BY DEF ReadLegacyKeys
<1>2. /\ ProcKeys(r, store) /\ Stage(r) /\ r.n \in 1 .. 8 /\ IsProc(r)
      /\ Passed => ProcPassed(r, store)
      /\ StoreRows(store, 10 + saves) /\ StoreKeys(store) /\ store.calShape \in 0 .. 8
  BY InvOf
<1>3. /\ IsProc(q) /\ q.pc = "rekey" /\ q.n = r.n /\ q.rebuild = r.rebuild
      /\ q.calShape = store.calShape /\ q.read = store.cals
  BY <1>2 DEF IsProc
<1>4. proc' = [proc EXCEPT ![p] = q]
  BY DEF ReadLegacyKeys
<1> HIDE DEF q
<1>5. ProcRows(q, 10 + saves)
  BY <1>2, <1>3 DEF ProcRows, StoreRows, IsProc
<1>6. ProcKeys(q, store)
  <2>1. Stage(q) /\ q.n = 2
    BY <1>1, <1>2, <1>3 DEF Stage
  <2>2. store.version >= 1
    BY <1>2, <1>3, <2>1 DEF ProcKeys
  <2> QED BY <1>2, <1>3, <2>1, <2>2 DEF ProcKeys, StoreKeys, HasRekeyed
<1>7. Passed => ProcPassed(q, store)
  BY <1>2, <1>3 DEF ProcPassed
<1>8. q.read \subseteq Known
  BY <1>3 DEF Known
<1> QED BY <1>1, <1>4, <1>5, <1>6, <1>7, <1>8, OneMovesAlone

\* The shapes each migration asks for.
LEMMA NeededIs ==
    ASSUME NEW s
    PROVE  /\ Needed(4, s) = (s.benchShape < 4)
           /\ Needed(5, s) = (s.charShape < 5 \/ s.calShape < 5)
           /\ Needed(6, s) = (s.calShape < 6 \/ s.charShape < 6)
           /\ Needed(7, s) = (s.charShape < 7)
           /\ Needed(8, s) = (s.calShape < 8)
           /\ \A n \in 4 .. 8 : Needed(n, s) \in BOOLEAN
<1>1. Needed(4, s) = (s.benchShape < 4)
  BY DEF Needed
<1>2. Needed(5, s) = (s.charShape < 5 \/ s.calShape < 5)
  BY DEF Needed
<1>3. Needed(6, s) = (s.calShape < 6 \/ s.charShape < 6)
  BY DEF Needed
<1>4. Needed(7, s) = (s.charShape < 7)
  BY DEF Needed
<1>5. Needed(8, s) = (s.calShape < 8)
  BY DEF Needed
<1>6. ASSUME NEW n \in 4 .. 8 PROVE Needed(n, s) \in BOOLEAN
  <2>1. n = 4 \/ n = 5 \/ n = 6 \/ n = 7 \/ n = 8
    OBVIOUS
  <2>2. /\ (s.benchShape < 4) \in BOOLEAN /\ (s.charShape < 5 \/ s.calShape < 5) \in BOOLEAN
        /\ (s.calShape < 6 \/ s.charShape < 6) \in BOOLEAN /\ (s.charShape < 7) \in BOOLEAN
        /\ (s.calShape < 8) \in BOOLEAN
    OBVIOUS
  <2> QED BY <1>1, <1>2, <1>3, <1>4, <1>5, <2>1, <2>2, Zenon
<1> QED BY <1>1, <1>2, <1>3, <1>4, <1>5, <1>6

LEMMA DecideKeeps ==
    ASSUME StoreInv, NEW p \in Procs, Decide(p)
    PROVE  StoreInv'
<1> DEFINE r == proc[p]
           needed == Needed(r.n, store)
           q == [r EXCEPT !.rebuild = needed, !.pc = IF needed THEN "backup" ELSE "migrate"]
<1>1. r.pc = "decide" /\ store' = store /\ saves' = saves /\ measured' = measured /\ stale' = stale
  BY DEF Decide
<1>2. /\ ProcKeys(r, store) /\ Stage(r) /\ r.n \in 1 .. 8 /\ IsProc(r) /\ ProcRows(r, 10 + saves)
      /\ Passed => ProcPassed(r, store)
  BY InvOf
<1>3. /\ IsProc(q) /\ q.pc = (IF needed THEN "backup" ELSE "migrate") /\ q.n = r.n
      /\ q.rebuild = needed /\ q.calShape = r.calShape /\ q.read = r.read
  BY <1>2 DEF IsProc
<1>4. proc' = [proc EXCEPT ![p] = q]
  BY DEF Decide
<1>5. needed \in BOOLEAN
  <2>1. r.n \in 4 .. 8
    BY <1>1, <1>2 DEF Stage
  <2> QED BY <2>1, NeededIs
<1> HIDE DEF q, needed
<1>6. ProcRows(q, 10 + saves)
  BY <1>2, <1>3 DEF ProcRows, IsProc
<1>7. ProcKeys(q, store)
  <2>1. CASE needed
    BY <1>1, <1>2, <1>3, <1>5, <2>1 DEF ProcKeys, Stage
  <2>2. CASE ~needed
    BY <1>1, <1>2, <1>3, <1>5, <2>2 DEF ProcKeys, Stage
  <2> QED BY <2>1, <2>2
<1>8. Passed => ProcPassed(q, store)
  <2> SUFFICES ASSUME Passed PROVE ProcPassed(q, store)
    OBVIOUS
  <2>1. \A n \in 4 .. 8 : n < q.n => ~Needed(n, store)
    BY <1>2, <1>3 DEF ProcPassed
  <2>2. ~q.rebuild => ~Needed(q.n, store)
    BY <1>3 DEF needed
  <2> QED BY <2>1, <2>2 DEF ProcPassed
<1>9. q.read \subseteq Known
  BY <1>3 DEF Known
<1> QED BY <1>1, <1>4, <1>6, <1>7, <1>8, <1>9, OneMovesAlone

LEMMA DieKeeps ==
    ASSUME StoreInv, NEW p \in Procs, Die(p)
    PROVE  StoreInv'
BY GoesOff DEF Die

-----------------------------------------------------------------------------
(* The steps that write the version, a backup, or drop calibrations. *)

\* The tables of characterizations and of benchmarks stay, and every shape.
SameShapes(t, s) ==
    /\ StoreColumns(t)
    /\ t.calShape = s.calShape /\ t.charShape = s.charShape /\ t.benchShape = s.benchShape

\* What is needed depends on the shapes alone.
LEMMA SameShapesNeed ==
    ASSUME NEW s, NEW t, SameShapes(t, s)
    PROVE  Advances(s, t) /\ (ShapesInStep(s) => ShapesInStep(t))
<1>1. ShapesInStep(s) => ShapesInStep(t)
  BY DEF SameShapes, ShapesInStep
<1>2. ASSUME NEW n \in 4 .. 8, ~Needed(n, s) PROVE ~Needed(n, t)
  <2>1. n = 4 \/ n = 5 \/ n = 6 \/ n = 7 \/ n = 8
    OBVIOUS
  <2> QED BY <1>2, <2>1, NeededIs DEF SameShapes
<1> QED BY <1>1, <1>2 DEF Advances

LEMMA VersionSet ==
    ASSUME NEW s, StoreColumns(s), NEW n, NEW t, t = [s EXCEPT !.version = n]
    PROVE  SameShapes(t, s) /\ t.version = n /\ t.cals = s.cals /\ t.chars = s.chars
BY DEF StoreColumns, SameShapes

LEMMA DropDecimalWallsKeeps ==
    ASSUME StoreInv, NEW p \in Procs, DropDecimalWalls(p)
    PROVE  StoreInv'
<1> DEFINE r == proc[p]
           s == store
           t == [store EXCEPT !.cals = {c \in @ : c.engine # "wmx"}, !.version = 1]
<1>1. CASE r.calShape < 5 /\ store.calShape >= 5
  BY <1>1, GoesOff DEF DropDecimalWalls
<1>2. CASE ~(r.calShape < 5 /\ store.calShape >= 5)
  <2>1. /\ r.pc = "units" /\ store' = t /\ Advance(p, 1)
        /\ saves' = saves /\ measured' = measured /\ stale' = stale
    BY <1>2 DEF DropDecimalWalls
  <2>2. /\ ProcKeys(r, s) /\ Stage(r) /\ r.n \in 1 .. 8 /\ IsProc(r) /\ ProcRows(r, 10 + saves)
        /\ Passed => ProcPassed(r, s) /\ StorePassed(s)
        /\ StoreRows(s, 10 + saves) /\ StoreKeys(s) /\ DOMAIN proc = Procs /\ StoreColumns(s)
        /\ s.calShape \in 0 .. 8
    BY InvOf
  <2>3. PICK q : Advanced(q, r, 1) /\ proc' = [proc EXCEPT ![p] = q]
    BY <2>1, <2>2, AdvancesTo
  <2>4. /\ SameShapes(t, s) /\ t.version = 1 /\ t.cals = {c \in s.cals : c.engine # "wmx"}
        /\ t.chars = s.chars
    BY <2>2 DEF StoreColumns, SameShapes
  <2> HIDE DEF t
  <2>5. t.cals \subseteq s.cals /\ CalRows(t.cals, 10 + saves)
    BY <2>2, <2>4, FS_Subset DEF StoreRows, CalRows
  <2>6. StoreRows(t, 10 + saves)
    BY <2>2, <2>4, <2>5 DEF StoreRows, SameShapes
  <2>7. StoreKeys(t)
    BY <2>2, <2>4, <2>5 DEF StoreKeys, SameShapes, HasRekeyed
  <2>8. Keeps(s, t)
    BY <2>4, <2>5 DEF Keeps, HasRekeyed
  <2>9. q.pc = "check" /\ q.n = 2 /\ q.rebuild = FALSE /\ q.calShape = r.calShape /\ q.read = {} /\ IsProc(q)
    BY <2>3 DEF Advanced
  <2>10. ProcRows(q, 10 + saves)
    BY <2>2, <2>9, FS_EmptySet DEF ProcRows, CalRows, IsProc
  <2>11. ProcKeys(q, t)
    BY <2>4, <2>9 DEF ProcKeys, Stage, HasRekeyed
  <2>12. NumbersKept(t.cals \cup q.read, Known)
    BY <2>5, <2>9 DEF NumbersKept, Known, Akin
  <2>13. t.calShape = s.calShape
    BY <2>4 DEF SameShapes
  <2>14. ASSUME Passed, Held
         PROVE  /\ StorePassed(t) /\ Advances(s, t) /\ ProcPassed(q, t)
                /\ \A o \in measured' : o.at \in Int /\ HeldIn(o, t)
    <3>1. Advances(s, t) /\ StorePassed(t)
      BY <2>2, <2>4, <2>14, SameShapesNeed DEF StorePassed
    <3>2. ProcPassed(q, t)
      BY <2>9 DEF ProcPassed
    <3>3. \A o \in measured : o.at \in Int /\ HeldIn(o, t)
      BY <2>4, <2>14 DEF Held, HeldIn
    <3> QED BY <2>1, <3>1, <3>2, <3>3
  <2> QED BY <2>1, <2>3, <2>6, <2>7, <2>8, <2>10, <2>11, <2>12, <2>13, <2>14, OneMoves
<1> QED BY <1>1, <1>2

LEMMA SetVersionTwoKeeps ==
    ASSUME StoreInv, NEW p \in Procs, SetVersionTwo(p)
    PROVE  StoreInv'
<1> DEFINE r == proc[p]
           s == store
           t == [store EXCEPT !.version = 2]
<1>1. /\ r.pc = "rekeyed" /\ store' = t /\ Advance(p, 2)
      /\ saves' = saves /\ measured' = measured /\ stale' = stale
  BY DEF SetVersionTwo
<1>2. /\ ProcKeys(r, s) /\ Stage(r) /\ r.n \in 1 .. 8 /\ IsProc(r) /\ ProcRows(r, 10 + saves)
      /\ Passed => ProcPassed(r, s) /\ StorePassed(s)
      /\ StoreRows(s, 10 + saves) /\ StoreKeys(s) /\ DOMAIN proc = Procs /\ StoreColumns(s)
  BY InvOf
<1>3. PICK q : Advanced(q, r, 2) /\ proc' = [proc EXCEPT ![p] = q]
  BY <1>1, <1>2, AdvancesTo
<1>4. SameShapes(t, s) /\ t.version = 2 /\ t.cals = s.cals /\ t.chars = s.chars
  BY <1>2, VersionSet
<1> HIDE DEF t
<1>5. StoreRows(t, 10 + saves)
  BY <1>2, <1>4 DEF StoreRows, SameShapes
<1>6. HasRekeyed(t.cals \cup t.chars) /\ s.version >= 1
  BY <1>1, <1>2, <1>4 DEF ProcKeys, Stage
<1>7. StoreKeys(t)
  BY <1>2, <1>4, <1>6 DEF StoreKeys
<1>8. Keeps(s, t)
  BY <1>4, <1>6 DEF Keeps
<1>9. q.pc = "check" /\ q.n = 3 /\ q.rebuild = FALSE /\ q.calShape = r.calShape /\ q.read = {} /\ IsProc(q)
  BY <1>3 DEF Advanced
<1>10. ProcRows(q, 10 + saves)
  BY <1>2, <1>9, FS_EmptySet DEF ProcRows, CalRows, IsProc
<1>11. ProcKeys(q, t)
  <2>1. \A x \in q.read : FALSE
    BY <1>9
  <2> QED BY <1>4, <1>6, <1>9, <2>1 DEF ProcKeys, Stage, HasRekeyed
<1>12. NumbersKept(t.cals \cup q.read, Known)
  BY <1>4, <1>9 DEF NumbersKept, Known, Akin
<1>13. t.calShape = s.calShape
  BY <1>4 DEF SameShapes
<1>14. ASSUME Passed, Held
       PROVE  /\ StorePassed(t) /\ Advances(s, t) /\ ProcPassed(q, t)
              /\ \A o \in measured' : o.at \in Int /\ HeldIn(o, t)
  <2>1. Advances(s, t) /\ StorePassed(t)
    BY <1>2, <1>4, <1>14, SameShapesNeed DEF StorePassed
  <2>2. ProcPassed(q, t)
    BY <1>9 DEF ProcPassed
  <2>3. \A o \in measured : o.at \in Int /\ HeldIn(o, t)
    BY <1>4, <1>14 DEF Held, HeldIn
  <2> QED BY <1>1, <2>1, <2>2, <2>3
<1> QED BY <1>1, <1>3, <1>5, <1>7, <1>8, <1>10, <1>11, <1>12, <1>13, <1>14, OneMoves

LEMMA BackupKeeps ==
    ASSUME StoreInv, NEW p \in Procs, Backup(p)
    PROVE  StoreInv'
<1> DEFINE r == proc[p]
           s == store
           t == [store EXCEPT !.backup[proc[p].n] = store.version]
<1>1. /\ r.pc = "backup" /\ store' = t /\ Goto(p, "migrate")
      /\ saves' = saves /\ measured' = measured /\ stale' = stale
  BY DEF Backup
<1>2. /\ ProcKeys(r, s) /\ Stage(r) /\ r.n \in 1 .. 8 /\ IsProc(r) /\ ProcRows(r, 10 + saves)
      /\ Passed => ProcPassed(r, s) /\ StorePassed(s)
      /\ StoreRows(s, 10 + saves) /\ StoreKeys(s) /\ DOMAIN proc = Procs /\ StoreColumns(s)
  BY InvOf
<1>3. PICK q : Goes(q, r, "migrate") /\ proc' = [proc EXCEPT ![p] = q]
  BY <1>1, <1>2, GoesTo
<1>4. SameShapes(t, s) /\ t.version = s.version /\ t.cals = s.cals /\ t.chars = s.chars
  BY <1>2 DEF StoreColumns, SameShapes
<1> HIDE DEF t
<1>5. StoreRows(t, 10 + saves)
  BY <1>2, <1>4 DEF StoreRows, SameShapes
<1>6. StoreKeys(t) /\ Keeps(s, t) /\ t.calShape = s.calShape
  BY <1>2, <1>4 DEF StoreKeys, Keeps, SameShapes
<1>7. /\ q.pc = "migrate" /\ q.n = r.n /\ q.rebuild = r.rebuild /\ q.calShape = r.calShape
      /\ q.read = r.read /\ IsProc(q) /\ r.read = {}
  BY <1>1, <1>2, <1>3 DEF Goes, Stage
<1>8. ProcRows(q, 10 + saves)
  BY <1>2, <1>7 DEF ProcRows, IsProc
<1>9. ProcKeys(q, t)
  <2>1. Stage(q)
    BY <1>1, <1>2, <1>7 DEF Stage
  <2> QED BY <1>1, <1>2, <1>4, <1>7, <2>1 DEF ProcKeys, HasRekeyed
<1>10. NumbersKept(t.cals \cup q.read, Known)
  BY <1>4, <1>7 DEF NumbersKept, Known, Akin
<1>11. ASSUME Passed, Held
       PROVE  /\ StorePassed(t) /\ Advances(s, t) /\ ProcPassed(q, t)
              /\ \A o \in measured' : o.at \in Int /\ HeldIn(o, t)
  <2>1. Advances(s, t) /\ StorePassed(t)
    BY <1>2, <1>4, <1>11, SameShapesNeed DEF StorePassed, Advances
  <2>2. ProcPassed(q, s)
    BY <1>1, <1>2, <1>7, <1>11 DEF ProcPassed, Stage
  <2>3. ProcPassed(q, t)
    BY <1>2, <1>7, <2>1, <2>2, OthersPass
  <2>4. \A o \in measured : o.at \in Int /\ HeldIn(o, t)
    BY <1>4, <1>11 DEF Held, HeldIn
  <2> QED BY <1>1, <2>1, <2>3, <2>4
<1> QED BY <1>1, <1>3, <1>5, <1>6, <1>8, <1>9, <1>10, <1>11, OneMoves

-----------------------------------------------------------------------------
(* Migration 2. *)

\* What migration 2 does to the tables when it succeeds.
Touched(r) ==
    {x \in r.read :
        \E y \in r.read :
            /\ RekeyLegacyKey(y.machine) # y.machine
            /\ CalKey(r.calShape, [x EXCEPT !.machine = RekeyLegacyKey(@)])
                 = CalKey(r.calShape, [y EXCEPT !.machine = RekeyLegacyKey(@)])}

LeftBy(s, touched) == {x \in s.cals : x.rowid \notin Rowids(touched)}

RekeyedStore(s, touched) ==
    [s EXCEPT !.cals = LeftBy(s, touched) \cup Rekeyed(touched, "cal", s.calShape),
              !.chars = Rekeyed(@, "char", s.charShape),
              !.benches = Rekeyed(@, "bench", s.benchShape)]

\* What covers a table holds what it held.
LEMMA CoveredHolds ==
    ASSUME NEW now, NEW s, StoreRows(s, now), NEW t, StoreRows(t, now), store = s, Held,
           Covered(s.cals, t.cals), Covered(s.chars, t.chars)
    PROVE  \A o \in measured : o.at \in Int /\ HeldIn(o, t)
<1> SUFFICES ASSUME NEW o \in measured, o.at \in Int, HeldIn(o, s) PROVE HeldIn(o, t)
  BY DEF Held
<1>1. \A r \in s.cals \cup t.cals \cup s.chars \cup t.chars : r.at \in Int
  BY DEF StoreRows, CalRows, CharRows, CalRow, CharRow
<1>2. CASE o.table = "cal"
  <2>1. PICK r \in s.cals : r.engine # "wmx" /\ StandsFor(r, o)
    BY <1>2 DEF HeldIn
  <2>2. PICK q \in t.cals : Covers(q, r)
    BY DEF Covered
  <2>3. q.engine # "wmx" /\ StandsFor(q, o)
    BY <1>1, <2>1, <2>2 DEF Covers, StandsFor
  <2> QED BY <1>2, <2>3 DEF HeldIn
<1>3. CASE o.table # "cal"
  <2>1. PICK r \in s.chars : StandsFor(r, o)
    BY <1>3 DEF HeldIn
  <2>2. PICK q \in t.chars : Covers(q, r)
    BY DEF Covered
  <2>3. StandsFor(q, o)
    BY <1>1, <2>1, <2>2 DEF Covers, StandsFor
  <2> QED BY <1>3, <2>3 DEF HeldIn
<1> QED BY <1>2, <1>3

LEMMA RekeyLegacyWhole ==
    ASSUME NEW p \in Procs, RekeyLegacy(p)
    PROVE  /\ proc[p].pc = "rekey"
           /\ saves' = saves /\ measured' = measured /\ stale' = stale
           /\ \/ Off(p) /\ store' = store
              \/ /\ Touched(proc[p]) = {} \/ proc[p].calShape = store.calShape
                 /\ store' = RekeyedStore(store, Touched(proc[p]))
                 /\ Goto(p, "rekeyed")
BY DEF RekeyLegacy, Touched, LeftBy, RekeyedStore

LEMMA RekeyLegacyKeeps ==
    ASSUME StoreInv, NEW p \in Procs, RekeyLegacy(p)
    PROVE  StoreInv'
<1> DEFINE r == proc[p]
           s == store
           t == RekeyedStore(s, Touched(r))
           now == 10 + saves
           left == LeftBy(s, Touched(r))
           cals == Rekeyed(Touched(r), "cal", s.calShape)
           chars == Rekeyed(s.chars, "char", s.charShape)
<1>1. /\ r.pc = "rekey" /\ saves' = saves /\ measured' = measured /\ stale' = stale
      /\ \/ Off(p) /\ store' = store
         \/ (Touched(r) = {} \/ r.calShape = s.calShape) /\ store' = t /\ Goto(p, "rekeyed")
  BY RekeyLegacyWhole
<1>2. /\ ProcKeys(r, s) /\ Stage(r) /\ r.n \in 1 .. 8 /\ IsProc(r) /\ ProcRows(r, now)
      /\ Passed => ProcPassed(r, s) /\ StorePassed(s)
      /\ StoreRows(s, now) /\ StoreKeys(s) /\ DOMAIN proc = Procs /\ StoreColumns(s)
      /\ saves \in Nat /\ r.read \subseteq Known /\ s.calShape \in 0 .. 8 /\ now \in Int
  BY InvOf
<1>3. CASE Off(p) /\ store' = store
  BY <1>1, <1>3, GoesOff
<1>4. CASE (Touched(r) = {} \/ r.calShape = s.calShape) /\ store' = t /\ Goto(p, "rekeyed")
  <2>1. PICK q : Goes(q, r, "rekeyed") /\ proc' = [proc EXCEPT ![p] = q]
    BY <1>2, <1>4, GoesTo
  <2>2. /\ SameShapes(t, s) /\ t.version = s.version
        /\ t.cals = left \cup cals /\ t.chars = chars
    BY <1>2 DEF StoreColumns, SameShapes, RekeyedStore
  <2> DEFINE touched == Touched(r)
  <2>3. /\ touched \subseteq r.read
        /\ \A x \in r.read : RekeyLegacyKey(x.machine) # x.machine => x \in touched
        /\ HasRekeyed(r.read) => touched = {}
    BY DEF Touched, HasRekeyed
  <2>4. left = {x \in s.cals : x.rowid \notin Rowids(touched)}
    BY DEF LeftBy
  <2>5. r.n = 2 /\ s.version >= 1 /\ (\A x \in r.read : x.engine # "wmx")
        /\ (r.calShape >= 5 => touched = {})
    BY <1>1, <1>2, <2>3 DEF ProcKeys, Stage
  <2>6. CalRows(touched, now)
    BY <1>2, <2>3, FS_Subset DEF ProcRows, CalRows
  <2>7. CalsSound(cals, touched, now) /\ HasRekeyed(cals) /\ Covered(touched, cals) /\ NumbersKept(cals, touched)
    BY <1>2, <2>6, CalsRekeyed
  <2>8. CharsSound(chars, now) /\ HasRekeyed(chars) /\ Covered(s.chars, chars)
        /\ \A x \in chars : \E y \in s.chars : SameOtherwise(x, y)
    BY <1>2, CharsRekeyed DEF StoreRows
  <2> HIDE DEF t, left, cals, chars, touched
  <2>9. CalRows(t.cals, now)
    <3>1. CalRows(left, now)
      BY <1>2, <2>4, FS_Subset DEF StoreRows, CalRows
    <3>2. IsFiniteSet(left \cup cals)
      BY <2>7, <3>1, FS_Union DEF CalsSound, CalRows
    <3> QED BY <2>2, <2>7, <3>1, <3>2 DEF CalsSound, CalRows
  <2>10. StoreRows(t, now)
    <3>1. CharRows(t.chars, now)
      BY <2>2, <2>8 DEF CharsSound, CharRows
    <3>2. s.charShape >= 7 => \A x \in chars : Final(x)
      BY <1>2, <2>8 DEF StoreRows, Final, SameOtherwise
    <3> QED BY <1>2, <2>2, <2>9, <3>1, <3>2 DEF StoreRows, SameShapes
  <2>11. HasRekeyed(t.cals \cup t.chars)
    <3>1. HasRekeyed(left)
      <4> SUFFICES ASSUME NEW x \in left, RekeyLegacyKey(x.machine) # x.machine PROVE FALSE
        BY DEF HasRekeyed
      <4>1. x \in s.cals /\ x.rowid \notin Rowids(touched)
        BY <2>4
      <4>2. x \in touched
        BY <1>1, <1>2, <2>3, <4>1 DEF ProcKeys
      <4> QED BY <4>1, <4>2 DEF Rowids
    <3> QED BY <2>2, <2>7, <2>8, <3>1 DEF HasRekeyed
  <2>12. \A x \in t.cals : x.engine # "wmx"
    <3>1. \A x \in cals : x.engine # "wmx"
      BY <2>3, <2>5, <2>7 DEF CalsSound, Comes
    <3>2. \A x \in left : x.engine # "wmx"
      BY <1>2, <2>4, <2>5 DEF StoreKeys
    <3> QED BY <2>2, <3>1, <3>2
  <2>13. StoreKeys(t) /\ Keeps(s, t)
    BY <2>2, <2>11, <2>12 DEF StoreKeys, Keeps, HasRekeyed
  <2>14. /\ q.pc = "rekeyed" /\ q.n = r.n /\ q.rebuild = r.rebuild /\ q.calShape = r.calShape
         /\ q.read = r.read /\ IsProc(q)
    BY <2>1 DEF Goes
  <2>15. ProcRows(q, now)
    BY <1>2, <2>14 DEF ProcRows, IsProc
  <2>16. ProcKeys(q, t)
    <3>1. Stage(q)
      BY <1>1, <1>2, <2>14 DEF Stage
    <3> QED BY <1>2, <2>2, <2>5, <2>11, <2>14, <3>1 DEF ProcKeys
  <2>17. t.calShape = s.calShape
    BY <2>2 DEF SameShapes
  <2>18. NumbersKept(t.cals \cup q.read, Known)
    <3>1. \A x : Akin(x, x)
      BY DEF Akin
    <3>2. touched \subseteq Known /\ left \subseteq Known /\ q.read \subseteq Known
      BY <1>2, <2>3, <2>4, <2>14 DEF Known
    <3> QED BY <2>2, <2>7, <3>1, <3>2 DEF NumbersKept
  <2>19. Covered(s.cals, t.cals)
    <3> SUFFICES ASSUME NEW x \in s.cals PROVE \E y \in t.cals : Covers(y, x)
      BY DEF Covered
    <3>1. x.at \in Int
      BY <1>2 DEF StoreRows, CalRows, CalRow
    <3>2. CASE x \in left
      BY <2>2, <3>1, <3>2 DEF Covers
    <3>3. CASE x \notin left
      <4>1. PICK y \in touched : y.rowid = x.rowid
        BY <2>4, <3>3 DEF Rowids
      <4>2. s.calShape < 5
        BY <1>2, <1>4, <2>5, <4>1 DEF touched
      <4>3. Akin(y, x)
        <5>1. x \in Known /\ y \in Known
          BY <1>2, <2>3, <4>1 DEF Known
        <5> QED BY <4>1, <4>2, <5>1 DEF StoreInv, NumbersStand
      <4>4. PICK z \in cals : Covers(z, y)
        BY <2>7, <4>1 DEF Covered
      <4>5. Covers(z, x)
        BY <2>3, <2>5, <4>1, <4>3, <4>4 DEF Covers, Akin
      <4> QED BY <2>2, <4>4, <4>5
    <3> QED BY <3>2, <3>3
  <2>20. ASSUME Passed, Held
         PROVE  /\ StorePassed(t) /\ Advances(s, t) /\ ProcPassed(q, t)
                /\ \A o \in measured' : o.at \in Int /\ HeldIn(o, t)
    <3>1. Advances(s, t) /\ StorePassed(t)
      BY <1>2, <2>2, <2>20, SameShapesNeed DEF StorePassed, Advances
    <3>2. ProcPassed(q, t)
      BY <2>5, <2>14 DEF ProcPassed
    <3>3. \A o \in measured : o.at \in Int /\ HeldIn(o, t)
      BY <1>2, <2>2, <2>8, <2>9, <2>10, <2>19, <2>20, CoveredHolds
    <3> QED BY <1>1, <3>1, <3>2, <3>3
  <2> QED BY <1>1, <1>4, <2>1, <2>10, <2>13, <2>15, <2>16, <2>17, <2>18, <2>20, OneMoves
<1> QED BY <1>1, <1>3, <1>4

-----------------------------------------------------------------------------
(* Migrations 3 to 8. *)

\* The tables t are sound if s were, and hold what they held.
Rebuilds(n, s, t, now) ==
    /\ StoreColumns(t) /\ t.version = s.version
    /\ CalsSound(t.cals, s.cals, now) /\ CharsSound(t.chars, now) /\ Comes(t.chars, s.chars)
    /\ Covered(s.chars, t.chars)
    /\ t.charShape >= 7 =>
        \/ \A q \in t.chars : ~q.reusable /\ q.safe <= q.point
        \/ t.chars = s.chars /\ s.charShape >= 7
    /\ t.calShape < 5 => NumbersKept(t.cals, s.cals)
    /\ n # 5 \/ s.calShape < 5 => Covered(s.cals, t.cals)

\* The shapes of the tables after a migration.
Shapes(n, s, t) ==
    /\ t.benchShape = (IF n = 4 THEN 4 ELSE s.benchShape)
    /\ t.calShape = (IF n = 5 THEN 5 ELSE IF n \in {6, 8} THEN 8 ELSE s.calShape)
    /\ t.charShape = (IF n = 5 THEN 5 ELSE IF n = 6 THEN 6 ELSE IF n = 7 THEN 7 ELSE s.charShape)

\* A table is as good as itself.
LEMMA Unchanged ==
    ASSUME NEW now, NEW s, StoreRows(s, now)
    PROVE  /\ CalsSound(s.cals, s.cals, now) /\ CharsSound(s.chars, now) /\ Comes(s.chars, s.chars)
           /\ Covered(s.cals, s.cals) /\ Covered(s.chars, s.chars) /\ NumbersKept(s.cals, s.cals)
<1>1. \A r \in s.cals \cup s.chars : r.at \in Int
  BY DEF StoreRows, CalRows, CharRows, CalRow, CharRow
<1> QED BY <1>1 DEF StoreRows, CalRows, CharRows, CalsSound, CharsSound, Comes, Covered, Covers,
           NumbersKept, Akin

LEMMA V3 ==
    ASSUME NEW now \in Int, NEW s, StoreRows(s, now), NEW t, t = EngineIdentityV3(s)
    PROVE  Rebuilds(3, s, t, now) /\ Shapes(3, s, t)
<1> DEFINE cals == IF s.calShape < 5 THEN Canonicalized(s.cals, "cal", s.calShape) ELSE s.cals
           chars == IF s.charShape < 5 THEN Canonicalized(s.chars, "char", s.charShape) ELSE s.chars
<1>1. /\ StoreColumns(t) /\ t.version = s.version /\ t.cals = cals /\ t.chars = chars
      /\ t.calShape = s.calShape /\ t.charShape = s.charShape /\ t.benchShape = s.benchShape
  BY DEF EngineIdentityV3, StoreRows, StoreColumns
<1>2. CalRows(s.cals, now) /\ CharRows(s.chars, now) /\ s.calShape \in 0 .. 8 /\ s.charShape \in 0 .. 8
  BY DEF StoreRows
<1>3. CalsSound(cals, s.cals, now) /\ Covered(s.cals, cals) /\ NumbersKept(cals, s.cals)
  <2>1. CASE s.calShape < 5
    BY <1>2, <2>1, CalsCanonicalized
  <2>2. CASE ~(s.calShape < 5)
    BY <2>2, Unchanged
  <2> QED BY <2>1, <2>2
<1>4. /\ CharsSound(chars, now) /\ Covered(s.chars, chars) /\ Comes(chars, s.chars)
      /\ s.charShape >= 7 => chars = s.chars
  <2>1. CASE s.charShape < 5
    BY <1>2, <2>1, CharsCanonicalized
  <2>2. CASE ~(s.charShape < 5)
    BY <2>2, Unchanged
  <2> QED BY <2>1, <2>2
<1> HIDE DEF cals, chars
<1>5. Shapes(3, s, t)
  BY <1>1 DEF Shapes
<1> QED BY <1>1, <1>3, <1>4, <1>5 DEF Rebuilds

LEMMA V4 ==
    ASSUME NEW now \in Int, NEW s, StoreRows(s, now), NEW t, t = BenchmarkCellsV4(s)
    PROVE  Rebuilds(4, s, t, now) /\ Shapes(4, s, t)
<1>1. /\ StoreColumns(t) /\ t.version = s.version /\ t.cals = s.cals /\ t.chars = s.chars
      /\ t.calShape = s.calShape /\ t.charShape = s.charShape /\ t.benchShape = 4
  BY DEF BenchmarkCellsV4, StoreRows, StoreColumns
<1>2. Shapes(4, s, t)
  BY <1>1 DEF Shapes
<1> QED BY <1>1, <1>2, Unchanged DEF Rebuilds

LEMMA V5 ==
    ASSUME NEW now \in Int, NEW s, StoreRows(s, now), NEW t, t = TargetSchemaV5(s)
    PROVE  Rebuilds(5, s, t, now) /\ Shapes(5, s, t)
<1> DEFINE cals == {CalV5(s.calShape, r) : r \in Renumbered(s.cals)}
           chars == {CharV5(r) : r \in Renumbered(s.chars)}
<1>1. /\ StoreColumns(t) /\ t.version = s.version /\ t.cals = cals /\ t.chars = chars
      /\ t.calShape = 5 /\ t.charShape = 5 /\ t.benchShape = s.benchShape
  BY DEF TargetSchemaV5, StoreRows, StoreColumns, CalV5, CharV5
<1>2. CalRows(s.cals, now) /\ CharRows(s.chars, now) /\ s.calShape \in 0 .. 8
  BY DEF StoreRows
<1>3. CalsSound(cals, s.cals, now) /\ (s.calShape < 5 => Covered(s.cals, cals))
  BY <1>2, CalsV5
<1>4. CharsSound(chars, now) /\ Stays(chars, s.chars) /\ Covered(s.chars, chars)
  BY <1>2, CharsV567
<1> HIDE DEF cals, chars
<1>5. Shapes(5, s, t) /\ Comes(chars, s.chars)
  BY <1>1, <1>4 DEF Shapes, Stays, Comes
<1> QED BY <1>1, <1>3, <1>4, <1>5 DEF Rebuilds

LEMMA V6 ==
    ASSUME NEW now \in Int, NEW s, StoreRows(s, now), NEW t, t = MeasurementAuthorityV6(s)
    PROVE  Rebuilds(6, s, t, now) /\ Shapes(6, s, t)
<1> DEFINE cals == {CalV6(r) : r \in Renumbered(s.cals)}
           chars == {CharV6(r) : r \in Renumbered(s.chars)}
<1>1. /\ StoreColumns(t) /\ t.version = s.version /\ t.cals = cals /\ t.chars = chars
      /\ t.calShape = 8 /\ t.charShape = 6 /\ t.benchShape = s.benchShape
  BY DEF MeasurementAuthorityV6, StoreRows, StoreColumns, CalV6, CharV6
<1>2. CalRows(s.cals, now) /\ CharRows(s.chars, now)
  BY DEF StoreRows
<1>3. CalsSound(cals, s.cals, now) /\ Covered(s.cals, cals)
  BY <1>2, CalsV6
<1>4. CharsSound(chars, now) /\ Stays(chars, s.chars) /\ Covered(s.chars, chars)
  BY <1>2, CharsV567
<1> HIDE DEF cals, chars
<1>5. Shapes(6, s, t) /\ Comes(chars, s.chars)
  BY <1>1, <1>4 DEF Shapes, Stays, Comes
<1> QED BY <1>1, <1>3, <1>4, <1>5 DEF Rebuilds

LEMMA V7 ==
    ASSUME NEW now \in Int, NEW s, StoreRows(s, now), NEW t, t = CharacterizationEvidenceV7(s)
    PROVE  Rebuilds(7, s, t, now) /\ Shapes(7, s, t)
<1> DEFINE chars == {CharV7(r) : r \in Renumbered(s.chars)}
<1>1. /\ StoreColumns(t) /\ t.version = s.version /\ t.cals = s.cals /\ t.chars = chars
      /\ t.calShape = s.calShape /\ t.charShape = 7 /\ t.benchShape = s.benchShape
  BY DEF CharacterizationEvidenceV7, StoreRows, StoreColumns, CharV7
<1>2. CharRows(s.chars, now)
  BY DEF StoreRows
<1>3. CharsSound(chars, now) /\ Stays(chars, s.chars) /\ Covered(s.chars, chars)
  BY <1>2, CharsV567
<1>4. \A q \in chars : ~q.reusable /\ q.safe <= q.point
  BY <1>2, CharsV7Safe
<1> HIDE DEF chars
<1>5. Shapes(7, s, t) /\ Comes(chars, s.chars)
  BY <1>1, <1>3 DEF Shapes, Stays, Comes
<1> QED BY <1>1, <1>3, <1>4, <1>5, Unchanged DEF Rebuilds

LEMMA V8 ==
    ASSUME NEW now \in Int, NEW s, StoreRows(s, now), NEW t, t = CalibrationBuildV8(s)
    PROVE  Rebuilds(8, s, t, now) /\ Shapes(8, s, t)
<1> DEFINE cals == {CalV8(r) : r \in Renumbered(s.cals)}
<1>1. /\ StoreColumns(t) /\ t.version = s.version /\ t.cals = cals /\ t.chars = s.chars
      /\ t.calShape = 8 /\ t.charShape = s.charShape /\ t.benchShape = s.benchShape
  BY DEF CalibrationBuildV8, StoreRows, StoreColumns, CalV8
<1>2. CalRows(s.cals, now)
  BY DEF StoreRows
<1>3. CalsSound(cals, s.cals, now) /\ Covered(s.cals, cals)
  BY <1>2, CalsV8
<1> HIDE DEF cals
<1>4. Shapes(8, s, t)
  BY <1>1 DEF Shapes
<1> QED BY <1>1, <1>3, <1>4, Unchanged DEF Rebuilds

\* What each of the rebuilds does.
LEMMA Rebuilt ==
    ASSUME NEW now \in Int, NEW s, StoreRows(s, now), NEW n \in 3 .. 8, NEW t, t = Rebuild(n, s)
    PROVE  Rebuilds(n, s, t, now) /\ Shapes(n, s, t)
<1>1. CASE n = 3
  BY <1>1, V3 DEF Rebuild
<1>2. CASE n = 4
  BY <1>2, V4 DEF Rebuild
<1>3. CASE n = 5
  BY <1>3, V5 DEF Rebuild
<1>4. CASE n = 6
  BY <1>4, V6 DEF Rebuild
<1>5. CASE n = 7
  BY <1>5, V7 DEF Rebuild
<1>6. CASE n = 8
  BY <1>6, V8 DEF Rebuild
<1> QED BY <1>1, <1>2, <1>3, <1>4, <1>5, <1>6

\* A migration that is needed, all before it done, leaves it done and undoes none.
LEMMA ShapesAdvance ==
    ASSUME NEW s, NEW t, NEW n \in 3 .. 8, Shapes(n, s, t), ShapesInStep(s),
           s.calShape \in 0 .. 8, s.charShape \in 0 .. 8, s.benchShape \in 0 .. 8,
           n >= 4 => Needed(n, s),
           \A m \in 4 .. 8 : m < n => ~Needed(m, s)
    PROVE  /\ ShapesInStep(t) /\ Advances(s, t) /\ \A m \in 4 .. 8 : m <= n => ~Needed(m, t)
           /\ n = 5 => s.calShape < 5
<1>1. /\ t.calShape \in 0 .. 8 /\ t.charShape \in 0 .. 8 /\ t.benchShape \in 0 .. 8
  BY DEF Shapes
<1>2. /\ n = 4 => s.benchShape < 4
      /\ n = 5 => s.charShape < 5 \/ s.calShape < 5
      /\ n = 6 => s.calShape < 6 \/ s.charShape < 6
      /\ n = 7 => s.charShape < 7
      /\ n = 8 => s.calShape < 8
  BY NeededIs
<1>3. /\ n > 4 => ~(s.benchShape < 4)
      /\ n > 5 => ~(s.charShape < 5 \/ s.calShape < 5)
      /\ n > 6 => ~(s.calShape < 6 \/ s.charShape < 6)
      /\ n > 7 => ~(s.charShape < 7)
  <2>1. /\ 4 \in 4 .. 8 /\ 5 \in 4 .. 8 /\ 6 \in 4 .. 8 /\ 7 \in 4 .. 8
    OBVIOUS
  <2>2. /\ n > 4 => ~Needed(4, s)
        /\ n > 5 => ~Needed(5, s)
        /\ n > 6 => ~Needed(6, s)
        /\ n > 7 => ~Needed(7, s)
    BY <2>1
  <2> QED BY <2>2, NeededIs
<1>4. ShapesInStep(t) /\ (n = 5 => s.calShape < 5)
  BY <1>2, <1>3 DEF Shapes, ShapesInStep
<1>5. /\ ~(s.benchShape < 4) \/ 4 <= n => ~(t.benchShape < 4)
      /\ ~(s.charShape < 5 \/ s.calShape < 5) \/ 5 <= n => ~(t.charShape < 5 \/ t.calShape < 5)
      /\ ~(s.calShape < 6 \/ s.charShape < 6) \/ 6 <= n => ~(t.calShape < 6 \/ t.charShape < 6)
      /\ ~(s.charShape < 7) \/ 7 <= n => ~(t.charShape < 7)
      /\ ~(s.calShape < 8) \/ 8 <= n => ~(t.calShape < 8)
  BY <1>2, <1>3 DEF Shapes, ShapesInStep
<1>6. ASSUME NEW m \in 4 .. 8, ~Needed(m, s) \/ m <= n PROVE ~Needed(m, t)
  <2>1. m = 4 \/ m = 5 \/ m = 6 \/ m = 7 \/ m = 8
    OBVIOUS
  <2> QED BY <1>5, <1>6, <2>1, NeededIs
<1> QED BY <1>4, <1>6 DEF Advances

MigratesTo(r) == IF r.n = 3 \/ r.rebuild THEN Rebuild(r.n, store) ELSE store

LEMMA MigrateWhole ==
    ASSUME NEW p \in Procs, Migrate(p)
    PROVE  /\ proc[p].pc = "migrate" /\ saves' = saves /\ measured' = measured
           /\ stale' = (stale \/ (proc[p].rebuild /\ ~Needed(proc[p].n, store)))
           /\ \/ Off(p) /\ store' = store
              \/ /\ store' = [MigratesTo(proc[p]) EXCEPT !.version = proc[p].n]
                 /\ Advance(p, proc[p].n)
BY DEF Migrate, MigratesTo

LEMMA MigrateKeeps ==
    ASSUME StoreInv, NEW p \in Procs, Migrate(p)
    PROVE  StoreInv'
<1> DEFINE r == proc[p]
           s == store
           n == proc[p].n
           m == MigratesTo(r)
           t == [m EXCEPT !.version = n]
           now == 10 + saves
<1>1. /\ r.pc = "migrate" /\ saves' = saves /\ measured' = measured
      /\ stale' = (stale \/ (r.rebuild /\ ~Needed(n, s)))
      /\ \/ Off(p) /\ store' = store
         \/ store' = t /\ Advance(p, n)
  BY MigrateWhole
<1>2. /\ ProcKeys(r, s) /\ Stage(r) /\ n \in 1 .. 8 /\ IsProc(r) /\ ProcRows(r, now)
      /\ Passed => ProcPassed(r, s) /\ StorePassed(s)
      /\ StoreRows(s, now) /\ StoreKeys(s) /\ DOMAIN proc = Procs /\ StoreColumns(s)
      /\ saves \in Nat /\ s.calShape \in 0 .. 8 /\ s.charShape \in 0 .. 8 /\ s.benchShape \in 0 .. 8
      /\ now \in Int
  BY InvOf
<1>3. n \in 3 .. 8 /\ (n = 3 => ~r.rebuild) /\ s.version >= 1 /\ HasRekeyed(s.cals \cup s.chars)
  BY <1>1, <1>2 DEF Stage, ProcKeys
<1>4. CASE Off(p) /\ store' = store
  <2>1. ~stale' => ~stale
    BY <1>1
  <2> QED BY <1>1, <1>4, <2>1, GoesOff
<1>5. CASE store' = t /\ Advance(p, n)
  <2> DEFINE rebuild == n = 3 \/ r.rebuild
  <2>1. PICK q : Advanced(q, r, n) /\ proc' = [proc EXCEPT ![p] = q]
    BY <1>2, <1>5, AdvancesTo
  <2>2. (rebuild => m = Rebuild(n, s)) /\ (~rebuild => m = s)
    BY DEF MigratesTo
  <2> HIDE DEF m
  <2>3. rebuild => Rebuilds(n, s, m, now) /\ Shapes(n, s, m)
    BY <1>2, <1>3, <2>2, Rebuilt
  <2>4. /\ StoreColumns(m)
        /\ CalsSound(m.cals, s.cals, now) /\ CharsSound(m.chars, now) /\ Comes(m.chars, s.chars)
        /\ Covered(s.chars, m.chars)
        /\ m.charShape >= 7 => \A x \in m.chars : Final(x)
        /\ m.calShape < 5 => NumbersKept(m.cals, s.cals)
        /\ (rebuild => n # 5 \/ s.calShape < 5) => Covered(s.cals, m.cals)
        /\ m.calShape \in 0 .. 8 /\ m.charShape \in 0 .. 8 /\ m.benchShape \in 0 .. 8
        /\ m.calShape < 5 => s.calShape < 5
    <3>1. CASE rebuild
      <4>1. m.charShape >= 7 => \A x \in m.chars : Final(x)
        BY <1>2, <2>3, <3>1 DEF Rebuilds, StoreRows, Final
      <4>2. m.calShape \in 0 .. 8 /\ m.charShape \in 0 .. 8 /\ m.benchShape \in 0 .. 8
            /\ (m.calShape < 5 => s.calShape < 5)
        BY <1>2, <1>3, <2>3, <3>1 DEF Shapes
      <4> QED BY <2>3, <3>1, <4>1, <4>2 DEF Rebuilds
    <3>2. CASE ~rebuild
      <4>1. m = s
        BY <2>2, <3>2
      <4>2. s.charShape >= 7 => \A x \in s.chars : Final(x)
        BY <1>2 DEF StoreRows
      <4> HIDE DEF rebuild
      <4> QED BY <1>2, <4>1, <4>2, Unchanged
    <3> QED BY <3>1, <3>2
  <2>5. SameShapes(t, m) /\ t.version = n /\ t.cals = m.cals /\ t.chars = m.chars
    BY <2>4, VersionSet
  <2> HIDE DEF t
  <2>6. StoreRows(t, now)
    BY <1>3, <2>4, <2>5 DEF StoreRows, SameShapes, CalsSound, CharsSound, CalRows, CharRows
  <2>7. HasRekeyed(t.cals \cup t.chars)
    BY <1>3, <2>4, <2>5 DEF HasRekeyed, CalsSound, Comes
  <2>8. \A x \in t.cals : x.engine # "wmx"
    BY <1>2, <1>3, <2>4, <2>5 DEF StoreKeys, CalsSound, Comes
  <2>9. StoreKeys(t) /\ Keeps(s, t)
    BY <1>3, <2>5, <2>7, <2>8 DEF StoreKeys, Keeps, HasRekeyed
  <2>10. /\ q.pc = (IF n = 8 THEN "ready" ELSE "check") /\ q.n = (IF n = 8 THEN 8 ELSE n + 1)
         /\ q.rebuild = FALSE /\ q.calShape = r.calShape /\ q.read = {} /\ IsProc(q)
    BY <2>1 DEF Advanced
  <2>11. ProcRows(q, now)
    BY <1>2, <1>3, <2>10, FS_EmptySet DEF ProcRows, CalRows, IsProc
  <2>12. ProcKeys(q, t)
    <3>1. Stage(q)
      BY <1>3, <2>10 DEF Stage
    <3>2. \A x \in q.read : FALSE
      BY <2>10
    <3> QED BY <1>3, <2>5, <2>7, <2>10, <3>1, <3>2 DEF ProcKeys, HasRekeyed
  <2>13. t.calShape < 5 => s.calShape < 5 /\ NumbersKept(t.cals \cup q.read, Known)
    BY <2>4, <2>5, <2>10 DEF SameShapes, NumbersKept, Known
  <2>14. ASSUME ~stale', Passed, Held
         PROVE  /\ StorePassed(t) /\ Advances(s, t) /\ ProcPassed(q, t)
                /\ \A o \in measured' : o.at \in Int /\ HeldIn(o, t)
    <3>1. /\ ShapesInStep(s) /\ ShapesInStep(m) /\ Advances(s, m)
          /\ \A i \in 4 .. 8 : i <= n => ~Needed(i, m)
          /\ rebuild => n # 5 \/ s.calShape < 5
      <4>1. ShapesInStep(s) /\ \A i \in 4 .. 8 : i < n => ~Needed(i, s)
        BY <1>2, <2>14 DEF ProcPassed, StorePassed
      <4>2. CASE rebuild
        <5>1. n >= 4 => Needed(n, s)
          <6>1. r.rebuild => Needed(n, s)
            BY <1>1, <2>14, Zenon
          <6>2. n >= 4 => r.rebuild
            BY <1>3, <4>2
          <6> QED BY <6>1, <6>2
        <5> QED BY <1>2, <1>3, <2>3, <4>1, <4>2, <5>1, ShapesAdvance
      <4>3. CASE ~rebuild
        <5>1. ~Needed(n, s)
          BY <1>1, <1>2, <1>3, <2>14, <4>3 DEF ProcPassed
        <5>2. m = s
          BY <2>2, <4>3
        <5>3. \A i \in 4 .. 8 : i <= n => ~Needed(i, s)
          <6> TAKE i \in 4 .. 8
          <6>1. i <= n => i < n \/ i = n
            BY <1>3
          <6> QED BY <4>1, <5>1, <6>1
        <5> QED BY <4>1, <4>3, <5>2, <5>3 DEF Advances
      <4> QED BY <4>2, <4>3
    <3>2. Advances(m, t) /\ ShapesInStep(t)
      BY <2>5, <3>1, SameShapesNeed
    <3>3. \A i \in 4 .. 8 : i <= n => ~Needed(i, t)
      BY <3>1, <3>2 DEF Advances
    <3>4. StorePassed(t)
      BY <2>5, <3>2, <3>3 DEF StorePassed
    <3>5. Advances(s, t)
      BY <3>1, <3>2 DEF Advances
    <3>6. ProcPassed(q, t)
      <4>1. \A i \in 4 .. 8 : i < q.n => ~Needed(i, t)
        BY <1>3, <2>10, <3>3
      <4>2. q.pc # "migrate"
        BY <2>10
      <4> QED BY <4>1, <4>2 DEF ProcPassed
    <3>7. Covered(s.cals, t.cals) /\ Covered(s.chars, t.chars)
      BY <2>4, <2>5, <3>1
    <3>8. \A o \in measured : o.at \in Int /\ HeldIn(o, t)
      BY <1>2, <2>6, <2>14, <3>7, CoveredHolds
    <3> QED BY <1>1, <3>4, <3>5, <3>6, <3>8
  <2>15. ~stale' => ~stale
    BY <1>1
  <2> QED BY <1>1, <1>5, <2>1, <2>6, <2>9, <2>11, <2>12, <2>13, <2>14, <2>15, OneMoves
<1> QED BY <1>1, <1>4, <1>5

-----------------------------------------------------------------------------
(* Saving. *)

\* A finite set of numbers has a largest.
LEMMA MaxIsOne ==
    ASSUME NEW S, IsFiniteSet(S), S \subseteq Int, S # {}
    PROVE  Max(S) \in S /\ \A x \in S : Max(S) >= x
<1> DEFINE Good == {t \in SUBSET S : t = {} \/ \E m \in t : \A x \in t : m >= x}
<1>1. ASSUME NEW t \in SUBSET S, \A u \in SUBSET t : u # t => u \in Good PROVE t \in Good
  <2> SUFFICES ASSUME t # {} PROVE \E m \in t : \A x \in t : m >= x
    OBVIOUS
  <2>1. PICK y \in t : TRUE
    OBVIOUS
  <2>2. t \ {y} \in Good
    BY <1>1, <2>1
  <2>3. \A x \in t : x \in Int
    OBVIOUS
  <2>4. CASE t \ {y} = {}
    BY <2>1, <2>3, <2>4
  <2>5. CASE t \ {y} # {}
    <3>1. PICK m \in t \ {y} : \A x \in t \ {y} : m >= x
      BY <2>2, <2>5
    <3>2. CASE m >= y
      BY <3>1, <3>2
    <3>3. CASE y >= m
      BY <2>1, <2>3, <3>1, <3>3
    <3> QED BY <2>1, <2>3, <3>1, <3>2, <3>3
  <2> QED BY <2>4, <2>5
<1> HIDE DEF Good
<1>2. S \in Good
  BY <1>1, SubsetInduction
<1>3. \E m \in S : \A x \in S : m >= x
  BY <1>2 DEF Good
<1> QED BY <1>3 DEF Max

WithRowid(row, x) == [row EXCEPT !.rowid = x]

\* An upsert adds one row and replaces those of its key.
LEMMA Upserted ==
    ASSUME NEW rows, IsFiniteSet(rows), \A r \in rows : r.rowid \in Int,
           NEW table, NEW shape, NEW row
    PROVE  \E x \in Int :
            /\ WithRowid(row, x) \in Upsert(rows, table, shape, row)
            /\ Upsert(rows, table, shape, row) \subseteq rows \cup {WithRowid(row, x)}
            /\ IsFiniteSet(Upsert(rows, table, shape, row))
            /\ \A r \in rows : r \in Upsert(rows, table, shape, row)
                               \/ Key(table, shape, r) = Key(table, shape, row)
<1> DEFINE same == {r \in rows : Key(table, shape, r) = Key(table, shape, row)}
           x == IF same = {} THEN NextRowid(rows) ELSE Max(Rowids(same))
           new == (rows \ same) \cup {WithRowid(row, x)}
<1>1. ASSUME NEW some \in SUBSET rows, some # {} PROVE Max(Rowids(some)) \in Int
  <2> DEFINE f == [r \in some |-> r.rowid]
             ids == Rowids(some)
  <2>1. IsFiniteSet(some) /\ DOMAIN f = some
    BY FS_Subset
  <2>2. ids = {f[r] : r \in some} /\ ids \subseteq Int /\ ids # {}
    BY <1>1 DEF Rowids
  <2> HIDE DEF f, ids
  <2>3. IsFiniteSet(ids)
    BY <2>1, <2>2, ImageIsFinite
  <2>4. Max(ids) \in Int
    BY <2>2, <2>3, MaxIsOne
  <2> QED BY <2>4 DEF ids
<1>2. NextRowid(rows) \in Int
  <2>1. CASE rows = {}
    BY <2>1 DEF NextRowid
  <2>2. CASE rows # {}
    <3>1. Max(Rowids(rows)) \in Int
      BY <1>1, <2>2
    <3> QED BY <2>2, <3>1 DEF NextRowid
  <2> QED BY <2>1, <2>2
<1>3. x \in Int
  BY <1>1, <1>2
<1>4. Upsert(rows, table, shape, row) = new
  BY DEF Upsert, WithRowid
<1>5. IsFiniteSet(new)
  <2>1. IsFiniteSet(rows \ same)
    BY FS_Subset
  <2> QED BY <2>1, FS_Singleton, FS_Union
<1> HIDE DEF x
<1>6. /\ WithRowid(row, x) \in new
      /\ new \subseteq rows \cup {WithRowid(row, x)}
      /\ \A r \in rows : r \in new \/ Key(table, shape, r) = Key(table, shape, row)
  OBVIOUS
<1> HIDE DEF new
<1> QED BY <1>3, <1>4, <1>5, <1>6

\* A step that saves a row leaves the process where it is.
LEMMA Saves ==
    ASSUME StoreInv, NEW p \in Procs, proc[p].pc = "ready", proc' = proc, stale' = stale,
           saves' = saves + 1,
           SameShapes(store', store), store'.version = store.version,
           StoreRows(store', 10 + saves'),
           \A r \in store'.cals : r \in store.cals
                \/ (r.machine = "versioned" /\ r.engine # "wmx"),
           \A r \in store'.chars : r \in store.chars \/ r.machine = "versioned",
           store'.calShape < 5 => store'.cals = store.cals,
           Held => \A o \in measured' : o.at \in Int /\ HeldIn(o, store')
    PROVE  StoreInv'
<1> DEFINE q == proc[p]
           s == store
           t == store'
<1>1. /\ ProcKeys(q, s) /\ q.n \in 1 .. 8 /\ ProcRows(q, 10 + saves)
      /\ Passed => ProcPassed(q, s) /\ StorePassed(s)
      /\ StoreKeys(s) /\ DOMAIN proc = Procs /\ saves \in Nat /\ q.read = {} /\ q.n >= 3
  BY InvOf DEF Stage
<1>2. proc' = proc /\ q = proc[p]
  OBVIOUS
<1>3. RekeyLegacyKey("versioned") = "versioned"
  BY Spelling
<1>4. Keeps(s, t)
  BY <1>3 DEF Keeps, HasRekeyed
<1>5. StoreKeys(t)
  BY <1>1, <1>3 DEF StoreKeys, HasRekeyed, SameShapes
<1>6. ProcRows(q, 10 + saves')
  <2>1. ProcRows(q, 10 + saves + 1)
    BY <1>1, Older
  <2>2. 10 + saves' = 10 + saves + 1
    BY <1>1
  <2> QED BY <2>1, <2>2
<1>7. ProcKeys(q, t)
  BY <1>1, <1>4, OthersKeep
<1>8. t.calShape = s.calShape
  BY DEF SameShapes
<1>9. t.calShape < 5 => s.calShape < 5 /\ NumbersKept(t.cals \cup q.read, Known)
  BY <1>1, <1>8 DEF NumbersKept, Known, Akin
<1>10. Passed => StorePassed(t) /\ Advances(s, t) /\ ProcPassed(q, t)
  <2> SUFFICES ASSUME Passed PROVE StorePassed(t) /\ Advances(s, t) /\ ProcPassed(q, t)
    OBVIOUS
  <2>1. Advances(s, t) /\ StorePassed(t)
    BY <1>1, SameShapesNeed DEF StorePassed, Advances
  <2> QED BY <1>1, <2>1, OthersPass
<1> QED BY <1>2, <1>4, <1>5, <1>6, <1>7, <1>9, <1>10, OneMoves

\* An identity of this release is spelt the one way.
LEMMA Canonical ==
    ASSUME NEW k \in Identities
    PROVE  /\ k.machine = "versioned" /\ k.engine \in Engines /\ k.authority \in Authorities
           /\ k.build \in Builds /\ k.engine # "wmx" /\ CanonicalEngine(k.engine) = k.engine
           /\ k = Identity(k.machine, k.engine, k.authority, k.build)
<1>1. /\ k \in [machine : {"versioned"}, engine : Engines, authority : Authorities, build : Builds]
  BY DEF Identities
<1>2. CanonicalEngine(k.engine) = k.engine /\ CanonicalEngine(k.engine) # "wmx"
  BY <1>1, Spelling
<1> QED BY <1>1, <1>2 DEF Identity

LEMMA UpsertCalibrationKeeps ==
    ASSUME StoreInv, NEW p \in Procs, UpsertCalibration(p)
    PROVE  StoreInv'
<1> DEFINE s == store
           now == 10 + saves
<1>1. PICK k \in Identities :
        IF store.calShape < 8 THEN Off(p) /\ UNCHANGED <<store, saves, measured>>
        ELSE /\ store' = [store EXCEPT !.cals = Upsert(@, "cal", 8, Calibration(k, now))]
             /\ measured' = measured \cup Owed("cal", {Calibration(k, now)})
             /\ saves' = saves + 1
             /\ UNCHANGED proc
  BY DEF UpsertCalibration
<1>2. proc[p].pc = "ready" /\ stale' = stale
  BY DEF UpsertCalibration
<1>3. CASE store.calShape < 8
  BY <1>1, <1>2, <1>3, GoesOff
<1>4. CASE ~(store.calShape < 8)
  <2> DEFINE row == Calibration(k, now)
             cals == Upsert(s.cals, "cal", 8, row)
  <2>1. /\ store' = [s EXCEPT !.cals = cals] /\ proc' = proc /\ saves' = saves + 1
        /\ measured' = measured \cup Owed("cal", {row})
    BY <1>1, <1>4
  <2>2. /\ StoreRows(s, now) /\ StoreColumns(s) /\ saves \in Nat /\ now \in Int
        /\ s.calShape \in 0 .. 8
    BY InvOf
  <2>3. IsFiniteSet(s.cals) /\ \A r \in s.cals : r.rowid \in Int /\ r.at \in Int /\ r.at < now /\ CalRow(r, now + 1)
    BY <2>2, Older DEF StoreRows, CalRows, CalRow
  <2>4. PICK x \in Int :
            /\ WithRowid(row, x) \in cals
            /\ cals \subseteq s.cals \cup {WithRowid(row, x)}
            /\ IsFiniteSet(cals)
            /\ \A r \in s.cals : r \in cals \/ Key("cal", 8, r) = Key("cal", 8, row)
    <3> HIDE DEF row
    <3> QED BY <2>3, Upserted
  <2> DEFINE q == WithRowid(row, x)
  <2>5. /\ CalColumns(row) /\ row.machine = k.machine /\ row.engine = k.engine
        /\ row.authority = k.authority /\ row.build = k.build /\ row.at = now /\ row.born = k
    BY DEF Calibration, CalColumns
  <2>6. /\ CalColumns(q) /\ q.rowid = x /\ q.machine = k.machine /\ q.engine = k.engine
        /\ q.authority = k.authority /\ q.build = k.build /\ q.at = now /\ q.born = k
    <3> HIDE DEF row
    <3> QED BY <2>5, CalSet DEF WithRowid
  <2>7. /\ SameShapes(store', s) /\ store'.version = s.version /\ store'.chars = s.chars
        /\ store'.cals = cals
    BY <2>1, <2>2 DEF SameShapes, StoreColumns
  <2>8. /\ k.machine = "versioned" /\ k.engine \in Engines /\ k.engine # "wmx"
        /\ CanonicalEngine(k.engine) = k.engine /\ RekeyLegacyKey(k.machine) = k.machine
        /\ k = Identity(k.machine, k.engine, k.authority, k.build)
    BY Canonical, Spelling
  <2>9. q \in cals /\ \A r \in cals : r \in s.cals \/ r = q
    BY <2>4
  <2>10. \A r \in s.cals : r \in cals \/ (r.machine = row.machine /\ r.engine = row.engine)
    <3> HIDE DEF row, cals
    <3> QED BY <2>4, KeysName
  <2>11. Owed("cal", {row}) = {[table |-> "cal", machine |-> RekeyLegacyKey(row.machine),
                               engine |-> CanonicalEngine(row.engine), at |-> row.at]}
    BY DEF Owed
  <2> HIDE DEF row, cals, q
  <2>12. CalRow(q, now + 1)
    BY <2>2, <2>6, <2>8 DEF CalRow
  <2>13. CalRows(cals, now + 1) /\ CharRows(s.chars, now + 1)
    BY <2>2, <2>3, <2>4, <2>9, <2>12, Older DEF CalRows, CharRows, StoreRows
  <2>14. StoreRows(store', 10 + saves')
    <3>1. 10 + saves' = now + 1
      BY <2>1, <2>2
    <3>2. StoreRows(store', now + 1)
      BY <2>2, <2>7, <2>13 DEF StoreRows, SameShapes
    <3> QED BY <3>1, <3>2
  <2>15. \A r \in store'.cals : r \in store.cals \/ (r.machine = "versioned" /\ r.engine # "wmx")
    <3>1. q.machine = "versioned" /\ q.engine # "wmx"
      BY <2>6, <2>8
    <3>2. ASSUME NEW r \in store'.cals PROVE r \in s.cals \/ r = q
      BY <2>7, <2>9
    <3> QED BY <3>1, <3>2
  <2>16. ASSUME Held PROVE \A o \in measured' : o.at \in Int /\ HeldIn(o, store')
    <3>1. Covered(s.cals, cals)
      <4> SUFFICES ASSUME NEW r \in s.cals PROVE \E c \in cals : Covers(c, r)
        BY DEF Covered
      <4>1. CASE r \in cals
        BY <2>3, <4>1 DEF Covers
      <4>2. CASE r \notin cals
        <5>1. Covers(q, r)
          BY <2>2, <2>3, <2>5, <2>6, <2>8, <2>10, <4>2 DEF Covers
        <5> QED BY <2>9, <5>1
      <4> QED BY <4>1, <4>2
    <3>2. StoreRows(s, now + 1)
      BY <2>2, <2>3, <2>13 DEF StoreRows, CalRows
    <3>3. \A o \in measured : o.at \in Int /\ HeldIn(o, store')
      <4>1. Covered(s.chars, store'.chars) /\ Covered(s.cals, store'.cals)
        BY <2>2, <2>7, <3>1, Unchanged
      <4>2. StoreRows(store', now + 1)
        BY <2>1, <2>2, <2>14
      <4> QED BY <2>16, <3>2, <4>1, <4>2, CoveredHolds
    <3>4. ASSUME NEW o \in Owed("cal", {row}) PROVE o.at \in Int /\ HeldIn(o, store')
      <4>1. /\ o.table = "cal" /\ o.machine = RekeyLegacyKey(row.machine)
            /\ o.engine = CanonicalEngine(row.engine) /\ o.at = row.at
        BY <2>11, <3>4
      <4>2. StandsFor(q, o) /\ q.engine # "wmx"
        BY <2>2, <2>5, <2>6, <2>8, <4>1 DEF StandsFor
      <4> QED BY <2>2, <2>5, <2>7, <2>9, <4>1, <4>2 DEF HeldIn
    <3> QED BY <2>1, <3>3, <3>4
  <2>17. store'.calShape < 5 => store'.cals = store.cals
    BY <1>4, <2>2, <2>7 DEF SameShapes
  <2> QED BY <1>2, <2>1, <2>7, <2>14, <2>15, <2>16, <2>17, Saves
<1> QED BY <1>3, <1>4

\* What a characterization of this release is saved as.
SavedRow(k, artifact, method, now) ==
    [rowid |-> 0, machine |-> k.machine, engine |-> k.engine,
     artifact |-> artifact, config |-> "cfg", authority |-> k.authority,
     methodology |-> method, build |-> k.build, evidenceBuild |-> k.build,
     reusable |-> Reusable(artifact, "cfg") /\ method # LegacyMethod,
     safe |-> 1, direct |-> 1, point |-> 1, at |-> now, born |-> k]

LEMMA SavedFields ==
    ASSUME NEW k, NEW artifact, NEW method \in {Method, LegacyMethod}, NEW now,
           NEW row, row = SavedRow(k, artifact, method, now)
    PROVE  /\ CharColumns(row) /\ row.machine = k.machine /\ row.engine = k.engine
           /\ row.authority = k.authority /\ row.build = k.build /\ row.at = now /\ row.born = k
           /\ row.config = "cfg" /\ row.safe = 1 /\ row.direct = 1 /\ row.point = 1
           /\ row.reusable => row.methodology = Method /\ Confidence(row.artifact) \in Exact
BY DEF SavedRow, CharColumns, Reusable

LEMMA SaveCharacterizationKeeps ==
    ASSUME StoreInv, NEW p \in Procs, SaveCharacterization(p)
    PROVE  StoreInv'
<1> DEFINE s == store
           now == 10 + saves
<1>1. PICK k \in Identities, artifact \in {"hf", Null}, method \in {Method, LegacyMethod} :
        IF store.charShape < 7 THEN Off(p) /\ UNCHANGED <<store, saves, measured>>
        ELSE /\ store' = [store EXCEPT !.chars = Upsert(@, "char", 7, SavedRow(k, artifact, method, now))]
             /\ measured' = measured \cup Owed("char", {SavedRow(k, artifact, method, now)})
             /\ saves' = saves + 1
             /\ UNCHANGED proc
  BY DEF SaveCharacterization, SavedRow
<1>2. proc[p].pc = "ready" /\ stale' = stale
  BY DEF SaveCharacterization
<1>3. CASE store.charShape < 7
  BY <1>1, <1>2, <1>3, GoesOff
<1>4. CASE ~(store.charShape < 7)
  <2> DEFINE row == SavedRow(k, artifact, method, now)
             chars == Upsert(s.chars, "char", 7, row)
  <2>1. /\ store' = [s EXCEPT !.chars = chars] /\ proc' = proc /\ saves' = saves + 1
        /\ measured' = measured \cup Owed("char", {row})
    BY <1>1, <1>4
  <2>2. /\ StoreRows(s, now) /\ StoreColumns(s) /\ saves \in Nat /\ now \in Int
        /\ s.charShape \in 0 .. 8
    BY InvOf
  <2>3. IsFiniteSet(s.chars) /\ \A r \in s.chars : r.rowid \in Int /\ r.at \in Int /\ r.at < now /\ CharRow(r, now + 1)
    BY <2>2, Older DEF StoreRows, CharRows, CharRow
  <2>4. PICK x \in Int :
            /\ WithRowid(row, x) \in chars
            /\ chars \subseteq s.chars \cup {WithRowid(row, x)}
            /\ IsFiniteSet(chars)
            /\ \A r \in s.chars : r \in chars \/ Key("char", 7, r) = Key("char", 7, row)
    <3> HIDE DEF row
    <3> QED BY <2>3, Upserted
  <2> DEFINE q == WithRowid(row, x)
  <2>5. /\ CharColumns(row) /\ row.machine = k.machine /\ row.engine = k.engine
        /\ row.authority = k.authority /\ row.build = k.build /\ row.at = now /\ row.born = k
        /\ row.config = "cfg" /\ row.safe = 1 /\ row.direct = 1 /\ row.point = 1
        /\ row.reusable => row.methodology = Method /\ Confidence(row.artifact) \in Exact
    BY SavedFields
  <2>6. SameOtherwise(q, row) /\ q.rowid = x /\ q.machine = k.machine /\ q.engine = k.engine
    <3> HIDE DEF row
    <3> QED BY <2>5, CharSet DEF WithRowid
  <2>7. /\ SameShapes(store', s) /\ store'.version = s.version /\ store'.cals = s.cals
        /\ store'.chars = chars
    BY <2>1, <2>2 DEF SameShapes, StoreColumns
  <2>8. /\ k.machine = "versioned" /\ k.engine \in Engines /\ k.engine # "wmx"
        /\ k.authority \in Authorities /\ k.build \in Builds
        /\ CanonicalEngine(k.engine) = k.engine /\ RekeyLegacyKey(k.machine) = k.machine
        /\ k = Identity(k.machine, k.engine, k.authority, k.build)
    BY Canonical, Spelling
  <2>9. q \in chars /\ \A r \in chars : r \in s.chars \/ r = q
    BY <2>4
  <2>10. \A r \in s.chars : r \in chars \/ (r.machine = row.machine /\ r.engine = row.engine)
    <3> HIDE DEF row, chars
    <3> QED BY <2>4, KeysName
  <2>11. Owed("char", {row}) = {[table |-> "char", machine |-> RekeyLegacyKey(row.machine),
                                engine |-> CanonicalEngine(row.engine), at |-> row.at]}
    BY DEF Owed
  <2> HIDE DEF row, chars, q
  <2>12. CharRow(q, now + 1) /\ Final(q)
    <3>1. Own(q)
      BY <2>5, <2>6, <2>8 DEF Own, SameOtherwise, Null
    <3> QED BY <2>2, <2>5, <2>6, <3>1 DEF CharRow, SameOtherwise, Final
  <2>13. CharRows(chars, now + 1) /\ CalRows(s.cals, now + 1)
    BY <2>2, <2>3, <2>4, <2>9, <2>12, Older DEF CalRows, CharRows, StoreRows
  <2>14. StoreRows(store', 10 + saves')
    <3>1. 10 + saves' = now + 1
      BY <2>1, <2>2
    <3>2. \A r \in chars : Final(r)
      BY <1>4, <2>2, <2>9, <2>12 DEF StoreRows
    <3>3. StoreRows(store', now + 1)
      BY <2>2, <2>7, <2>13, <3>2 DEF StoreRows, SameShapes
    <3> QED BY <3>1, <3>3
  <2>15. \A r \in store'.chars : r \in store.chars \/ r.machine = "versioned"
    <3>1. q.machine = "versioned"
      BY <2>6, <2>8
    <3>2. ASSUME NEW r \in store'.chars PROVE r \in s.chars \/ r = q
      BY <2>7, <2>9
    <3> QED BY <3>1, <3>2
  <2>16. ASSUME Held PROVE \A o \in measured' : o.at \in Int /\ HeldIn(o, store')
    <3>1. Covered(s.chars, chars)
      <4> SUFFICES ASSUME NEW r \in s.chars PROVE \E c \in chars : Covers(c, r)
        BY DEF Covered
      <4>1. CASE r \in chars
        BY <2>3, <4>1 DEF Covers
      <4>2. CASE r \notin chars
        <5>1. Covers(q, r)
          BY <2>2, <2>3, <2>5, <2>6, <2>8, <2>10, <4>2 DEF Covers, SameOtherwise
        <5> QED BY <2>9, <5>1
      <4> QED BY <4>1, <4>2
    <3>2. StoreRows(s, now + 1)
      BY <2>2, <2>3, <2>13 DEF StoreRows, CharRows
    <3>3. \A o \in measured : o.at \in Int /\ HeldIn(o, store')
      <4>1. Covered(s.cals, store'.cals) /\ Covered(s.chars, store'.chars)
        BY <2>2, <2>7, <3>1, Unchanged
      <4>2. StoreRows(store', now + 1)
        BY <2>1, <2>2, <2>14
      <4> QED BY <2>16, <3>2, <4>1, <4>2, CoveredHolds
    <3>4. ASSUME NEW o \in Owed("char", {row}) PROVE o.at \in Int /\ HeldIn(o, store')
      <4>1. /\ o.table = "char" /\ o.machine = RekeyLegacyKey(row.machine)
            /\ o.engine = CanonicalEngine(row.engine) /\ o.at = row.at
        BY <2>11, <3>4
      <4>2. StandsFor(q, o)
        BY <2>2, <2>5, <2>6, <2>8, <4>1 DEF StandsFor, SameOtherwise
      <4> QED BY <2>2, <2>5, <2>7, <2>9, <4>1, <4>2 DEF HeldIn
    <3> QED BY <2>1, <3>3, <3>4
  <2>17. \A r \in store'.cals : r \in store.cals
    BY <2>7
  <2> QED BY <1>2, <2>1, <2>7, <2>14, <2>15, <2>16, <2>17, Saves
<1> QED BY <1>3, <1>4

LEMMA SaveBenchmarkResultKeeps ==
    ASSUME StoreInv, NEW p \in Procs, SaveBenchmarkResult(p)
    PROVE  StoreInv'
<1>1. PICK benches : store' = [store EXCEPT !.benches = benches]
  BY DEF SaveBenchmarkResult
<1>2. /\ proc[p].pc = "ready" /\ stale' = stale /\ saves' = saves + 1 /\ proc' = proc
      /\ measured' = measured
  BY DEF SaveBenchmarkResult
<1>3. /\ StoreRows(store, 10 + saves) /\ StoreColumns(store) /\ saves \in Nat
  BY InvOf
<1>4. /\ SameShapes(store', store) /\ store'.version = store.version /\ store'.cals = store.cals
      /\ store'.chars = store.chars
  BY <1>1, <1>3 DEF SameShapes, StoreColumns
<1>5. StoreRows(store', 10 + saves')
  <2>1. 10 + saves' = 10 + saves + 1
    BY <1>2, <1>3
  <2>2. StoreRows(store', 10 + saves + 1)
    BY <1>3, <1>4, Older DEF StoreRows, SameShapes, CalRows, CharRows
  <2> QED BY <2>1, <2>2
<1>6. Held => \A o \in measured' : o.at \in Int /\ HeldIn(o, store')
  BY <1>2, <1>4 DEF Held, HeldIn
<1> QED BY <1>2, <1>4, <1>5, <1>6, Saves

-----------------------------------------------------------------------------
(* The invariant. *)

LEMMA StoreInitHolds == StoreInit => StoreInv
<1> SUFFICES ASSUME StoreInit PROVE StoreInv
  OBVIOUS
<1>1. Released(store)
  BY StoreAssumption DEF StoreInit
<1>2. /\ \A p \in Procs : proc[p] = AtStart
      /\ DOMAIN proc = Procs /\ saves = 0 /\ stale = FALSE
      /\ measured = Owed("cal", {r \in store.cals : r.engine # "wmx"}) \cup Owed("char", store.chars)
  BY DEF StoreInit, AtStart
<1>3. \A r \in store.cals : CalRow(r, 10)
  BY <1>1 DEF Released, CalRow
<1>4. \A r \in store.chars : CharRow(r, 10)
  BY <1>1 DEF Released, CharRow
<1>5. StoreRows(store, 10)
  <2>1. store.charShape >= 7 => \A r \in store.chars : Final(r)
    BY <1>1 DEF Released, Final
  <2>2. StoreColumns(store) /\ {store.version, store.calShape, store.charShape, store.benchShape} \subseteq 0 .. 8
    BY <1>1 DEF Released
  <2> QED BY <1>1, <1>3, <1>4, <2>1, <2>2 DEF Released, StoreRows, CalRows, CharRows
<1>6. StoreKeys(store)
  BY <1>1 DEF Released, StoreKeys, HasRekeyed
<1>7. \A p \in Procs : /\ ProcRows(proc[p], 10) /\ ProcKeys(proc[p], store)
                       /\ ProcPassed(proc[p], store) /\ proc[p].read = {}
  BY <1>2, OffIsFine
<1>8. Rows
  BY <1>2, <1>5, <1>7 DEF Rows, Now
<1>9. Keys
  BY <1>6, <1>7 DEF Keys
<1>10. NumbersStand
  <2>1. Known = store.cals
    BY <1>7 DEF Known
  <2> QED BY <1>1, <2>1 DEF Released, NumbersStand, Akin
<1>11. Passed
  BY <1>1, <1>7 DEF Passed, StorePassed, Released
<1>12. Held
  <2> SUFFICES ASSUME NEW o \in measured PROVE o.at \in Int /\ HeldIn(o, store)
    BY DEF Held
  <2>1. CASE o \in Owed("cal", {r \in store.cals : r.engine # "wmx"})
    <3>1. PICK r \in store.cals :
            /\ r.engine # "wmx"
            /\ o = [table |-> "cal", machine |-> RekeyLegacyKey(r.machine),
                    engine |-> CanonicalEngine(r.engine), at |-> r.at]
      BY <2>1 DEF Owed
    <3>2. r.at \in Int
      BY <1>3 DEF CalRow
    <3> QED BY <3>1, <3>2 DEF HeldIn, StandsFor
  <2>2. CASE o \in Owed("char", store.chars)
    <3>1. PICK r \in store.chars :
            o = [table |-> "char", machine |-> RekeyLegacyKey(r.machine),
                 engine |-> CanonicalEngine(r.engine), at |-> r.at]
      BY <2>2 DEF Owed
    <3>2. r.at \in Int
      BY <1>4 DEF CharRow
    <3> QED BY <3>1, <3>2 DEF HeldIn, StandsFor
  <2> QED BY <1>2, <2>1, <2>2
<1> QED BY <1>8, <1>9, <1>10, <1>11, <1>12 DEF StoreInv

LEMMA StoreStepKeeps == StoreInv /\ [StoreNext]_storeVars => StoreInv'
<1> SUFFICES ASSUME StoreInv, [StoreNext]_storeVars PROVE StoreInv'
  OBVIOUS
<1>1. CASE UNCHANGED storeVars
  BY <1>1 DEF storeVars, StoreInv, Rows, Keys, NumbersStand, Passed, Held, Now, Known
<1>2. ASSUME NEW p \in Procs,
             \/ Open(p) \/ CheckVersion(p) \/ DropDecimalWalls(p)
             \/ ReadLegacyKeys(p) \/ RekeyLegacy(p) \/ SetVersionTwo(p)
             \/ Decide(p) \/ Backup(p) \/ Migrate(p) \/ Die(p)
             \/ UpsertCalibration(p) \/ SaveCharacterization(p) \/ SaveBenchmarkResult(p)
      PROVE  StoreInv'
  <2>1. CASE Open(p)
    BY <2>1, OpenKeeps
  <2>2. CASE CheckVersion(p)
    BY <2>2, CheckVersionKeeps
  <2>3. CASE DropDecimalWalls(p)
    BY <2>3, DropDecimalWallsKeeps
  <2>4. CASE ReadLegacyKeys(p)
    BY <2>4, ReadLegacyKeysKeeps
  <2>5. CASE RekeyLegacy(p)
    BY <2>5, RekeyLegacyKeeps
  <2>6. CASE SetVersionTwo(p)
    BY <2>6, SetVersionTwoKeeps
  <2>7. CASE Decide(p)
    BY <2>7, DecideKeeps
  <2>8. CASE Backup(p)
    BY <2>8, BackupKeeps
  <2>9. CASE Migrate(p)
    BY <2>9, MigrateKeeps
  <2>10. CASE Die(p)
    BY <2>10, DieKeeps
  <2>11. CASE UpsertCalibration(p)
    BY <2>11, UpsertCalibrationKeeps
  <2>12. CASE SaveCharacterization(p)
    BY <2>12, SaveCharacterizationKeeps
  <2>13. CASE SaveBenchmarkResult(p)
    BY <2>13, SaveBenchmarkResultKeeps
  <2> QED BY <1>2, <2>1, <2>2, <2>3, <2>4, <2>5, <2>6, <2>7, <2>8, <2>9, <2>10, <2>11, <2>12, <2>13
<1> QED BY <1>1, <1>2 DEF StoreNext

\* Whatever is opened, migrated, saved or killed in whatever order, the rows, the
\* keys and the numbers stay what the migrations rely on, and until a stale rebuild
\* runs every process has the shapes behind it that it passed. (connect)
THEOREM StoreStaysSound == StoreSpec => []StoreInv
BY StoreInitHolds, StoreStepKeeps, PTL DEF StoreSpec

LEMMA OwnGoverns == StoreInv => OnlyOwnEvidenceGoverns
<1> SUFFICES ASSUME StoreInv, NEW k \in Identities
             PROVE  /\ \A r \in GetCalibration(k) : r.born = k
                    /\ \A r \in ListReusable(k) : r.born = k /\ r.safe <= r.point
  BY DEF OnlyOwnEvidenceGoverns
<1>1. k = Identity(k.machine, k.engine, k.authority, k.build) /\ k.build \in Builds
  BY Canonical
<1>2. ASSUME NEW r \in GetCalibration(k) PROVE r.born = k
  <2>1. r \in store.cals /\ Identity(r.machine, r.engine, r.authority, r.build) = k
    BY DEF GetCalibration
  <2>2. r.build = k.build
    BY <2>1 DEF Identity
  <2> QED BY <1>1, <2>1, <2>2 DEF StoreInv, Rows, StoreRows, CalRows, CalRow
<1>3. ASSUME NEW r \in ListReusable(k) PROVE r.born = k /\ r.safe <= r.point
  <2>1. /\ r \in store.chars /\ r.machine = k.machine /\ r.engine = k.engine
        /\ r.reusable /\ r.methodology = Method /\ r.authority = k.authority /\ r.build = k.build
    BY DEF ListReusable
  <2>2. Own(r)
    BY <2>1 DEF StoreInv, Rows, StoreRows, CharRows, CharRow
  <2> QED BY <1>1, <2>1, <2>2 DEF Own
<1> QED BY <1>2, <1>3

\* No migration and no process makes of an older row one that governs a run, for any
\* stores of earlier releases. (get_calibration, get_reusable_characterization)
THEOREM OnlyOwnEvidenceEverGoverns == StoreSpec => []OnlyOwnEvidenceGoverns
BY StoreStaysSound, OwnGoverns, PTL

LEMMA UpgradesHold == StoreInv => UpgradesKeepTheStore
<1> SUFFICES ASSUME StoreInv, ~stale PROVE (\A o \in measured : Kept(o)) /\ SchemaApplied
  BY DEF UpgradesKeepTheStore, EvidenceKept, SchemaAppliedInTurn
<1>1. Passed /\ Held
  BY DEF StoreInv
<1>2. SchemaApplied
  BY <1>1 DEF Passed, StorePassed, SchemaApplied
<1>3. ASSUME NEW o \in measured PROVE Kept(o)
  BY <1>1 DEF Held, HeldIn, StandsFor, Kept
<1> QED BY <1>2, <1>3

\* Upgrades lose no evidence and never promise a schema the store lacks, unless a
\* rebuild ran that the store no longer needed. (connect, _migrate_*)
THEOREM UpgradesAlwaysKeep == StoreSpec => []UpgradesKeepTheStore
BY StoreStaysSound, UpgradesHold, PTL

-----------------------------------------------------------------------------
(* What the views show. *)

\* The rows a view may show.
Shown == {DisplayRow(r) : r \in {s \in store.chars : s.machine = "versioned"}}

LEMMA DisplayedFields ==
    ASSUME NEW r, CharColumns(r)
    PROVE  /\ DisplayRow(r).rowid = r.rowid /\ DisplayRow(r).at = r.at /\ DisplayRow(r).safe = r.safe
<1>1. LegacyRow(r).rowid = r.rowid /\ LegacyRow(r).at = r.at /\ LegacyRow(r).safe = r.safe
  BY DEF LegacyRow, CharColumns
<1>2. StoredRow(r).rowid = r.rowid /\ StoredRow(r).at = r.at /\ StoredRow(r).safe = r.safe
  BY DEF StoredRow, CharColumns
<1> QED BY <1>1, <1>2 DEF DisplayRow

\* The views show finitely many rows.
LEMMA ShownIsFinite ==
    ASSUME StoreInv
    PROVE  /\ IsFiniteSet(Shown)
           /\ \A r \in Shown : r.rowid \in Int /\ r.at \in Int /\ r.safe \in Int
<1> DEFINE here == {s \in store.chars : s.machine = "versioned"}
           f == [r \in here |-> DisplayRow(r)]
<1>1. CharRows(store.chars, Now)
  BY DEF StoreInv, Rows, StoreRows
<1>2. IsFiniteSet(here)
  BY <1>1, FS_Subset DEF CharRows
<1>3. Shown = {f[r] : r \in here} /\ DOMAIN f = here
  BY DEF Shown
<1>4. \A r \in Shown : \E s \in store.chars : r = DisplayRow(s)
  BY DEF Shown
<1>5. \A s \in store.chars : CharColumns(s) /\ s.rowid \in Int /\ s.at \in Int /\ s.safe \in Int
  BY <1>1 DEF CharRows, CharRow
<1> HIDE DEF here, f
<1>6. IsFiniteSet(Shown)
  BY <1>2, <1>3, ImageIsFinite
<1>7. \A r \in Shown : r.rowid \in Int /\ r.at \in Int /\ r.safe \in Int
  BY <1>4, <1>5, DisplayedFields
<1> QED BY <1>6, <1>7

LEMMA HistoryIsShown == History \subseteq Shown /\ \A e : ListCharacterizations(e) \subseteq Shown
BY DEF History, ListCharacterizations, Shown

LEMMA PerEngineIsHistory ==
    ASSUME StoreInv
    PROVE  PerEngine \subseteq History
<1> SUFFICES ASSUME NEW e \in EnginesKnown, NEW r \in GetCharacterization(e)
             PROVE  r \in ListCharacterizations(e)
  BY DEF PerEngine, History
<1> DEFINE rows == ListCharacterizations(e)
<1>1. rows # {} /\ r = Newest(rows)
  BY DEF GetCharacterization
<1>2. Numbered(rows)
  <2>1. rows \subseteq Shown
    BY HistoryIsShown
  <2> QED BY <2>1, ShownIsFinite, FS_Subset DEF Numbered
<1> HIDE DEF rows
<1>3. Newest(rows) \in rows
  BY <1>1, <1>2, NewestIsOne
<1> QED BY <1>1, <1>3 DEF rows

\* The best row is one of them, and none is larger.
LEMMA BestIsTop ==
    ASSUME NEW rows, NEW r \in Best(rows)
    PROVE  r \in rows /\ \A q \in rows : r.safe >= q.safe
<1> DEFINE top == {x \in rows : \A q \in rows : x.safe >= q.safe}
           first == {x \in top : \A q \in top : Beats(x, q)}
<1>1. top # {} /\ r = CHOOSE x \in top : first # {} => x \in first
  BY DEF Best
<1>2. first \subseteq top
  OBVIOUS
<1> HIDE DEF first
<1>3. \E x \in top : first # {} => x \in first
  BY <1>1, <1>2
<1> HIDE DEF top
<1>4. r \in top
  BY <1>1, <1>3
<1> QED BY <1>4 DEF top

\* Of some rows one is the best.
LEMMA BestOfSome ==
    ASSUME NEW rows, IsFiniteSet(rows), rows # {}, \A r \in rows : r.safe \in Int
    PROVE  Best(rows) # {}
<1> DEFINE f == [r \in rows |-> r.safe]
           ceilings == {f[r] : r \in rows}
<1>1. ceilings # {} /\ ceilings \subseteq Int
  OBVIOUS
<1>2. IsFiniteSet(ceilings)
  <2>1. DOMAIN f = rows
    OBVIOUS
  <2> HIDE DEF f
  <2> QED BY <2>1, ImageIsFinite
<1>3. Max(ceilings) \in ceilings /\ \A x \in ceilings : Max(ceilings) >= x
  <2> HIDE DEF ceilings
  <2> QED BY <1>1, <1>2, MaxIsOne
<1>4. PICK r \in rows : r.safe = Max(ceilings)
  BY <1>3
<1>5. \A q \in rows : r.safe >= q.safe
  <2>1. \A q \in rows : q.safe \in ceilings
    OBVIOUS
  <2> QED BY <1>3, <1>4, <2>1
<1> QED BY <1>5 DEF Best

\* In the last shape what is shown is the table itself.
LEMMA LastShape ==
    ASSUME StoreInv, store.charShape >= 7, NEW r \in History
    PROVE  /\ r \in store.chars /\ CharRow(r, Now) /\ Final(r)
           /\ r.reusable => Own(r) /\ Governs(r) /\ r.born # Old
           /\ Governs(r) => r.reusable
<1>1. /\ CharRows(store.chars, Now) /\ store.charShape \in 0 .. 8
      /\ \A q \in store.chars : Final(q)
  BY DEF StoreInv, Rows, StoreRows
<1>2. \A q \in store.chars : DisplayRow(q) = q
  BY <1>1 DEF DisplayRow, StoredRow
<1>3. r \in store.chars
  BY <1>2, HistoryIsShown DEF Shown
<1>4. CharRow(r, Now) /\ Final(r)
  BY <1>1, <1>3 DEF CharRows
<1>5. r.reusable => Own(r)
  BY <1>4 DEF CharRow, Final
<1> DEFINE k == Identity(r.machine, r.engine, r.authority, r.build)
<1>6. /\ k.machine = r.machine /\ k.engine = r.engine /\ k.authority = r.authority
      /\ k.build = r.build /\ DOMAIN k = {"machine", "engine", "authority", "build"}
  BY DEF Identity
<1>7. ASSUME r.reusable PROVE Governs(r)
  <2>1. r \in ListReusable(k)
    BY <1>3, <1>4, <1>6, <1>7 DEF ListReusable, Final
  <2> QED BY <2>1 DEF Governs
<1>8. ASSUME r.reusable PROVE r.born # Old
  <2>1. r.born = k
    BY <1>5, <1>8 DEF Own
  <2>2. DOMAIN Old = {"old"}
    BY DEF Old
  <2> QED BY <1>6, <2>1, <2>2
<1>9. Governs(r) => r.reusable
  BY DEF Governs, ListReusable
<1> QED BY <1>3, <1>4, <1>5, <1>7, <1>8, <1>9

LEMMA ReusableIs == StoreInv => ReusableIsWhatGoverns
<1> SUFFICES ASSUME StoreInv, store.charShape >= 7
             PROVE  /\ \A r \in Characterized : Governs(r) /\ r.born # Old
                    /\ \A r \in History, cached \in Cached :
                        LET status == ProfileStatus(r, r.engine, cached) IN
                        /\ status = "reusable_unverified" => Governs(r) /\ r.born # Old
                        /\ (Governs(r) /\ r.artifact = cached) =>
                                status = IF r.engine = "mlx" THEN "historical_unverified"
                                         ELSE "reusable_unverified"
  BY DEF ReusableIsWhatGoverns
<1>1. ASSUME NEW r \in Characterized PROVE Governs(r) /\ r.born # Old
  <2>1. r \in History /\ Current(r)
    BY BestIsTop DEF Characterized, BestCeilings
  <2> QED BY <2>1, LastShape DEF Current
<1>2. ASSUME NEW r \in History, NEW cached \in Cached
      PROVE  /\ ProfileStatus(r, r.engine, cached) = "reusable_unverified" => Governs(r) /\ r.born # Old
             /\ (Governs(r) /\ r.artifact = cached) =>
                    ProfileStatus(r, r.engine, cached) =
                        IF r.engine = "mlx" THEN "historical_unverified" ELSE "reusable_unverified"
  <2>1. ASSUME ~r.reusable PROVE ProfileStatus(r, r.engine, cached) # "reusable_unverified"
    BY <2>1 DEF ProfileStatus
  <2>2. ASSUME r.reusable PROVE Governs(r) /\ r.born # Old
    BY <2>2, LastShape
  <2>3. ASSUME Governs(r), r.artifact = cached
        PROVE  ProfileStatus(r, r.engine, cached) =
                    IF r.engine = "mlx" THEN "historical_unverified" ELSE "reusable_unverified"
    <3>1. Own(r) /\ Final(r) /\ r.reusable
      BY <2>3, LastShape
    <3>2. r.direct # Unfit /\ r.config # Null /\ Confidence(r.artifact) \in Exact
      BY <3>1 DEF Own, Final, Unfit
    <3>3. ~Migrated(r)
      BY <3>1, StoreAssumption DEF Migrated, UnitUnknown, Own, Final, Method, LegacyMethod
    <3>4. CanonicalEngine(r.engine) = r.engine
      BY <3>1, StoreAssumption DEF Own
    <3> QED BY <2>3, <3>1, <3>2, <3>3, <3>4 DEF ProfileStatus, ArtifactMatches
  <2> QED BY <2>1, <2>2, <2>3
<1> QED BY <1>1, <1>2

LEMMA ShownIs == StoreInv => ShownIsMeasured
<1> SUFFICES ASSUME StoreInv PROVE ShownIsMeasured
  OBVIOUS
<1>1. ASSUME store.charShape >= 7, NEW r \in BestCeilingHistory \cup BestCeilings
      PROVE  r.safe <= r.point
  <2>1. r \in History
    BY BestIsTop DEF BestCeilingHistory, BestCeilings
  <2> QED BY <1>1, <2>1, LastShape DEF Final
<1>2. ASSUME NEW cached \in Cached, NEW d \in DetailLine(cached), NEW l \in CatalogLine(cached)
      PROVE  /\ l.ceiling >= d.ceiling
             /\ d.stale \/ \E r \in PerEngine : r.safe = d.ceiling /\ r.artifact = cached
  <2>1. PICK r \in DetailBest : d = Line(r, cached)
    BY <1>2 DEF DetailLine
  <2>2. PICK q \in BestCeilingHistory : l = Line(q, cached)
    BY <1>2 DEF CatalogLine
  <2>3. r \in PerEngine /\ r.safe # Unfit
    BY DEF DetailBest
  <2>4. q.safe >= r.safe
    BY <2>3, BestIsTop, PerEngineIsHistory DEF BestCeilingHistory
  <2>5. d.ceiling = r.safe /\ l.ceiling = q.safe /\ d.stale = (r.safe # Unfit /\ r.artifact # cached)
    BY <2>1, <2>2 DEF Line, ArtifactMatches
  <2> QED BY <2>3, <2>4, <2>5
<1>3. ASSUME NEW r \in HistoricalOnly, NEW q \in History, Current(q) PROVE FALSE
  <2> DEFINE current == {x \in History : Current(x)}
  <2>1. Best(current) = {}
    BY <1>3 DEF HistoricalOnly, BestCeilings
  <2>2. IsFiniteSet(current) /\ \A x \in current : x.safe \in Int
    <3>1. current \subseteq Shown
      BY HistoryIsShown
    <3> QED BY <3>1, ShownIsFinite, FS_Subset
  <2>3. q \in current
    BY <1>3
  <2> HIDE DEF current
  <2> QED BY <2>1, <2>2, <2>3, BestOfSome
<1> QED BY <1>1, <1>2, <1>3 DEF ShownIsMeasured

\* What profile, recommend and models show of a store in any shape, in the middle of
\* whatever migration, claims nothing that does not govern or was not measured.
THEOREM ViewsNeverOverclaim == StoreSpec => []ViewsClaimOnlyWhatGoverns
<1>1. StoreInv => ViewsClaimOnlyWhatGoverns
  BY ReusableIs, ShownIs DEF ViewsClaimOnlyWhatGoverns
<1> QED BY <1>1, StoreStaysSound, PTL

=============================================================================
