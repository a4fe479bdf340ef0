----------------------------- MODULE Enrollment -----------------------------
(***************************************************************************)
(* How a node gets its session: `ara node enroll` (ara/node/enroll.py)     *)
(* against the coordinator's enrollment routes (coordinator/src/lib/       *)
(* enrollment.ts), next to a daemon `ara node run` that reads and writes   *)
(* the same two files, config.json and pending-enrollment.json.            *)
(*                                                                         *)
(* A session token is named by the agent it authenticates and an           *)
(* enrollment id by the agent it stands for.  Answers are lost by letting  *)
(* the process die; a request once sent may be served at any later time.   *)
(***************************************************************************)
CONSTANTS
    Tokens,     \* one-shot enrollment tokens the administrator minted
    Agents,     \* rows the agents table can ever hold
    Enrollers,  \* processes running `ara node enroll`
    None

ASSUME EnrollmentAssumption ==
    /\ None \notin Tokens \cup Agents \cup Enrollers
    /\ None \notin [token: Tokens, agent: Agents \cup {None}]

VARIABLES
    agentStatus, tokenPending,  \* as in module Coordinator
    boundTo,    \* agents.enrollment_token_id
    sent,       \* tokens that crossed the network in an enroll request
    config,     \* session in config.json
    pending,    \* pending-enrollment.json
    lock,       \* who holds enrollment.lock
    step,       \* where each enroller is
    token,      \* the token it presents
    agent,      \* the enrollment it learned of
    daemon,     \* where the daemon is
    session,    \* the session the daemon loaded
    saved       \* history: sessions that have been in config.json

coordinatorVars == <<agentStatus, tokenPending, boundTo, sent>>
enrollerVars == <<lock, step, token, agent>>
daemonVars == <<daemon, session>>
vars == <<agentStatus, tokenPending, boundTo, sent, config, pending, lock, step, token, agent,
          daemon, session, saved>>

\* The agents table without the work table.
C == INSTANCE Coordinator WITH
    Jobs <- {}, Contents <- {}, Stamps <- {},
    status <- <<>>, owner <- <<>>, created <- <<>>, rowid <- <<>>, expired <- <<>>, result <- <<>>

Handshake(t, a) == [token |-> t, agent |-> a]

TypeOK ==
    /\ agentStatus \in [Agents -> {"absent", "pending", "active", "denied"}]
    /\ tokenPending \subseteq Agents
    /\ boundTo \in [Agents -> Tokens \cup {None}]
    /\ sent \subseteq Tokens
    /\ config \in Agents \cup {None}
    /\ pending \in {None} \cup [token: Tokens, agent: Agents \cup {None}]
    /\ lock \in Enrollers \cup {None}
    /\ step \in [Enrollers -> {"idle", "chosen", "enroll", "enrolling", "record", "poll", "save",
                               "clear"}]
    /\ token \in [Enrollers -> Tokens \cup {None}]
    /\ agent \in [Enrollers -> Agents \cup {None}]
    /\ daemon \in {"down", "starting", "running", "rejected"}
    /\ session \in Agents \cup {None}
    /\ saved \subseteq Agents

Init ==
    /\ agentStatus = [a \in Agents |-> "absent"]
    /\ tokenPending = {}
    /\ boundTo = [a \in Agents |-> None]
    /\ sent = {}
    /\ config = None
    /\ pending = None
    /\ lock = None
    /\ step = [e \in Enrollers |-> "idle"]
    /\ token = [e \in Enrollers |-> None]
    /\ agent = [e \in Enrollers |-> None]
    /\ daemon = "down"
    /\ session = None
    /\ saved = {}

-----------------------------------------------------------------------------
(* The coordinator. *)

RowsOf(t) == {a \in Agents : boundTo[a] = t}

\* Mutant: the token is not looked up again inside the transaction.
CreateRowAgain(t, a) ==
    /\ C!EnrollAgent(a)
    /\ boundTo' = [boundTo EXCEPT ![a] = t]

\* A used token answers with the row it created; only a fresh one creates a row.
CreateRow(t, a) ==
    /\ RowsOf(t) = {}
    /\ C!EnrollAgent(a)
    /\ boundTo' = [boundTo EXCEPT ![a] = t]

ServeEnroll(t, a) ==
    /\ t \in sent
    /\ CreateRow(t, a)
    /\ UNCHANGED <<sent, config, pending, enrollerVars, daemonVars, saved>>

Administer(a) ==
    /\ C!ActivateAgent(a) \/ C!DenyPendingAgent(a) \/ C!RevokeAgent(a)
    /\ UNCHANGED <<boundTo, sent, config, pending, enrollerVars, daemonVars, saved>>

-----------------------------------------------------------------------------
(* The enrolling process.  It may die at any step. *)

Move(e, from, to) == step[e] = from /\ step' = [step EXCEPT ![e] = to]

\* The administrator's token, or the one of an interrupted handshake.
ChooseToken(e, t) ==
    /\ Move(e, "idle", "chosen")
    /\ token' = [token EXCEPT ![e] = t]
    /\ UNCHANGED <<coordinatorVars, config, pending, lock, agent, daemonVars, saved>>

Resumes(t) == pending # None /\ pending.token = t

\* Mutant: nothing keeps two handshakes apart.
LeaseAlwaysFree == TRUE

LeaseFree == lock = None

\* The handshake is on disk before its token crosses the network.
Lease(e) ==
    /\ LeaseFree
    /\ lock' = e
    /\ IF Resumes(token[e])
       THEN /\ agent' = [agent EXCEPT ![e] = pending.agent]
            /\ UNCHANGED pending
       ELSE /\ agent' = [agent EXCEPT ![e] = None]
            /\ pending' = Handshake(token[e], None)
    /\ Move(e, "chosen", IF agent'[e] = None THEN "enroll" ELSE "poll")
    /\ UNCHANGED <<coordinatorVars, config, token, daemonVars, saved>>

PostEnroll(e) ==
    /\ Move(e, "enroll", "enrolling")
    /\ sent' = sent \cup {token[e]}
    /\ UNCHANGED <<agentStatus, tokenPending, boundTo, config, pending, lock, token, agent,
                   daemonVars, saved>>

Enrolled(e) ==
    /\ Move(e, "enrolling", "record")
    /\ \E a \in RowsOf(token[e]) : agent' = [agent EXCEPT ![e] = a]
    /\ UNCHANGED <<coordinatorVars, config, pending, lock, token, daemonVars, saved>>

RecordEnrollment(e) ==
    /\ Move(e, "record", "poll")
    /\ pending' = Handshake(token[e], agent[e])
    /\ UNCHANGED <<coordinatorVars, config, lock, token, agent, daemonVars, saved>>

\* Mutant: the plaintext is handed out once.
HandedOutOnce(a) == tokenPending' = tokenPending \ {a}

\* What a poll does to the plaintext it hands out: nothing, until the node authenticates.
HandedOut(a) == UNCHANGED tokenPending

PollApproval(e) ==
    /\ Move(e, "poll", "save")
    /\ boundTo[agent[e]] = token[e]
    /\ C!Active(agent[e])
    /\ agent[e] \in tokenPending
    /\ HandedOut(agent[e])
    /\ UNCHANGED <<agentStatus, boundTo, sent, config, pending, lock, token, agent, daemonVars,
                   saved>>

SaveConfig(e) ==
    /\ Move(e, "save", "clear")
    /\ config' = agent[e]
    /\ saved' = saved \cup {agent[e]}
    /\ UNCHANGED <<coordinatorVars, pending, lock, token, agent, daemonVars>>

End(e) ==
    /\ step' = [step EXCEPT ![e] = "idle"]
    /\ token' = [token EXCEPT ![e] = None]
    /\ agent' = [agent EXCEPT ![e] = None]
    /\ lock' = IF lock = e THEN None ELSE lock

ClearPending(e) ==
    /\ step[e] = "clear"
    /\ pending' = None
    /\ End(e)
    /\ UNCHANGED <<coordinatorVars, config, daemonVars, saved>>

\* Killed, interrupted, out of polls, refused the lease, or told 401, 403 or 409.
EnrollerEnds(e) ==
    /\ step[e] # "idle"
    /\ End(e)
    /\ UNCHANGED <<coordinatorVars, config, pending, daemonVars, saved>>

-----------------------------------------------------------------------------
(* The daemon. *)

DaemonLoads ==
    /\ daemon = "down"
    /\ config # None
    /\ daemon' = "starting"
    /\ session' = config
    /\ UNCHANGED <<coordinatorVars, config, pending, enrollerVars, saved>>

\* `ara node run` removes the pending handshake before it enters the loop.
DaemonClearsPending ==
    /\ daemon = "starting"
    /\ daemon' = "running"
    /\ pending' = None
    /\ UNCHANGED <<coordinatorVars, config, enrollerVars, session, saved>>

\* Any request of the loop; a refusal is acted on a moment later.
DaemonCalls ==
    /\ daemon = "running"
    /\ C!VerifySession(session)
    /\ daemon' = IF C!Active(session) THEN "running" ELSE "rejected"
    /\ UNCHANGED <<boundTo, sent, config, pending, enrollerVars, session, saved>>

\* Mutant: the rejected session is forgotten without looking at the disk again.
Forget(rejected) == config' = None

ClearSessionIfCurrent(rejected) == config' = IF config = rejected THEN None ELSE config

DaemonForgetsSession ==
    /\ daemon = "rejected"
    /\ ClearSessionIfCurrent(session)
    /\ daemon' = "down"
    /\ session' = None
    /\ UNCHANGED <<coordinatorVars, pending, enrollerVars, saved>>

DaemonDies ==
    /\ daemon # "down"
    /\ daemon' = "down"
    /\ session' = None
    /\ UNCHANGED <<coordinatorVars, config, pending, enrollerVars, saved>>

-----------------------------------------------------------------------------
EnrollerStep(e) ==
    \/ \E t \in Tokens : ChooseToken(e, t)
    \/ Lease(e)
    \/ PostEnroll(e)
    \/ Enrolled(e)
    \/ RecordEnrollment(e)
    \/ PollApproval(e)
    \/ SaveConfig(e)
    \/ ClearPending(e)
    \/ EnrollerEnds(e)

DaemonStep ==
    \/ DaemonLoads
    \/ DaemonClearsPending
    \/ DaemonCalls
    \/ DaemonForgetsSession
    \/ DaemonDies

Next ==
    \/ \E t \in Tokens, a \in Agents : ServeEnroll(t, a)
    \/ \E a \in Agents : Administer(a)
    \/ \E e \in Enrollers : EnrollerStep(e)
    \/ DaemonStep

Spec == Init /\ [][Next]_vars

-----------------------------------------------------------------------------
(* Properties. *)

\* However often a request is repeated or served, a one-shot token owns one agent.
OneAgentPerToken ==
    \A a, b \in Agents : boundTo[a] # None /\ boundTo[a] = boundTo[b] => a = b

\* The coordinator forgets an active agent's plaintext only once the node has had
\* it on disk: no lost answer or crash locks an approved node out.
ForgottenOnlyAfterSaved ==
    \A a \in Agents : agentStatus[a] = "active" /\ a \notin tokenPending => a \in saved

\* Two handshakes of one installation never mix: a session is saved while the
\* handshake on disk is the one that earned it, if there still is one.
HandshakesDoNotMix ==
    \A e \in Enrollers : step[e] \in {"enrolling", "record", "poll", "save", "clear"} =>
        /\ pending # None => pending.token = token[e]
        /\ agent[e] # None => boundTo[agent[e]] = token[e]

\* A session is removed from disk only if the coordinator really denied it: the
\* late 401 of an old daemon never costs the node a newer session.
OnlyDeniedSessionsAreForgotten ==
    [][(config # None /\ config' = None) => agentStatus[config] = "denied"]_vars

\* Neither side forgets a session the other still needs: the coordinator not
\* before it was on disk, the node not before it was denied.
SessionsAreKept == []ForgottenOnlyAfterSaved /\ OnlyDeniedSessionsAreForgotten

\* "Durable state needed to resume a one-shot enrollment handshake after
\* interruption": once begun, it is removed only after the session was saved.
HandshakeKeptUntilSaved ==
    [][(pending # None /\ pending' = None) => pending.agent \in saved]_vars
=============================================================================
