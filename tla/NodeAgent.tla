----------------------------- MODULE NodeAgent -----------------------------
(***************************************************************************)
(* One node installation: the files in its state directory and the process *)
(* `ara node run` that works through them (ara/node/agent.py).             *)
(*                                                                         *)
(* A step ends where the process can be killed and the state directory has *)
(* changed, or where it waits for the coordinator.  The coordinator is     *)
(* open here: any answer may come to any request.  Files are replaced      *)
(* atomically (_write_json_atomic), so a crash falls between writes; an    *)
(* OSError may come before a write took effect or, from the directory      *)
(* fsync, after it.                                                        *)
(***************************************************************************)
CONSTANTS
    Agents,     \* coordinator identities this installation may be enrolled as
    Jobs,
    Contents,
    None

Payloads == [status: {"done", "failed"}, content: Contents]

ASSUME NodeAgentAssumption ==
    None \notin Agents \cup Jobs \cup Payloads \cup [completion: Payloads \cup {None}]

VARIABLES
    config,      \* whose session token config.json holds
    session,     \* whose session token the running process presents
    pc,          \* where the process is
    job,         \* the job it is busy with
    payload,     \* the result it holds in memory
    retired,     \* what _retire_accepted returned
    journal,     \* accepted/<job>.json
    spool,       \* results/<job>.json
    quarantine   \* evidence moved out of both lanes: <<job, file>>

processVars == <<session, pc, job, payload, retired>>
fileVars == <<journal, spool, quarantine>>
vars == <<config, session, pc, job, payload, retired, journal, spool, quarantine>>

\* An accepted-job journal, before and after it becomes a completion WAL.
Journal(p) == [completion |-> p]
Accepted == Journal(None)
IsAccepted(j) == journal[j] = Accepted
IsCompleted(j) == journal[j] # None /\ journal[j] # Accepted

\* No process: killed or failed, so that systemd starts it again, or ended for good.
Ended == {"down", "stopped"}
Waiting == {"poll", "ack", "post", "replay"}
Holding == {"journal", "verify", "ack", "run", "complete", "fallback", "spool", "retire",
            "post", "replay"}

TypeOK ==
    /\ config \in Agents \cup {None}
    /\ session \in Agents \cup {None}
    /\ pc \in Ended \cup {"recover", "flush", "next"} \cup Waiting \cup Holding
    /\ job \in Jobs \cup {None}
    /\ payload \in Payloads \cup {None}
    /\ retired \in BOOLEAN
    /\ journal \in [Jobs -> {None} \cup [completion: Payloads \cup {None}]]
    /\ spool \in [Jobs -> Payloads \cup {None}]
    /\ quarantine \subseteq Jobs \X (Payloads \cup {Accepted})

Init ==
    /\ config = None
    /\ session = None
    /\ pc = "stopped"
    /\ job = None
    /\ payload = None
    /\ retired = FALSE
    /\ journal = [j \in Jobs |-> None]
    /\ spool = [j \in Jobs |-> None]
    /\ quarantine = {}

-----------------------------------------------------------------------------
(* The process: volatile state is gone when it stops, files are not. *)

\* Back to the top of the loop, or out of it, with nothing in memory.
Go(to) ==
    /\ pc' = to
    /\ job' = None
    /\ payload' = None
    /\ retired' = FALSE
    /\ UNCHANGED session

Stop(how) ==
    /\ pc' = how
    /\ session' = None
    /\ job' = None
    /\ payload' = None
    /\ retired' = FALSE

\* Started by hand or by the service manager; agent.lock admits one process.
Start ==
    /\ pc \in Ended
    /\ config # None
    /\ pc' = "recover"
    /\ session' = config
    /\ UNCHANGED <<config, job, payload, retired, fileVars>>

Crash ==
    /\ pc \notin Ended
    /\ Stop("down")
    /\ UNCHANGED <<config, fileVars>>

\* `ara node enroll` saves a new session, under a running agent or not.
Reenroll(a) ==
    /\ config' = a
    /\ UNCHANGED <<processVars, fileVars>>

\* A 401 to any request ends the loop without an error, so that nothing restarts
\* it; the session on disk is forgotten unless it was replaced meanwhile.
ClearSessionIfCurrent == config' = IF config = session THEN None ELSE config

Unauthorized ==
    /\ pc \in Waiting
    /\ ClearSessionIfCurrent
    /\ Stop("stopped")
    /\ UNCHANGED fileVars

\* 408, 429, 5xx, a transport failure or an unreadable answer to any request.
Transient ==
    /\ pc \in Waiting
    /\ Go("recover")
    /\ UNCHANGED <<config, fileVars>>

-----------------------------------------------------------------------------
(* The top of the loop: finish what an earlier iteration or process left.  *)
(* A WAL that disagrees with the spooled result blocks the loop for good;  *)
(* it has no action here, so reaching one shows as a deadlock.             *)

\* An OSError in either step returns to the top of the loop, where it is retried.
RecoverSpool(j) ==
    /\ pc = "recover"
    /\ IsCompleted(j)
    /\ spool[j] = None
    /\ spool' = [spool EXCEPT ![j] = journal[j].completion]
    /\ UNCHANGED <<config, processVars, journal, quarantine>>

\* Mutant: the WAL is retired before its result is spooled.
RecoverRetireUnspooled(j) ==
    /\ pc = "recover"
    /\ IsCompleted(j)
    /\ journal' = [journal EXCEPT ![j] = None]
    /\ UNCHANGED <<config, processVars, spool, quarantine>>

RecoverRetire(j) ==
    /\ pc = "recover"
    /\ IsCompleted(j)
    /\ spool[j] = journal[j].completion
    /\ journal' = [journal EXCEPT ![j] = None]
    /\ UNCHANGED <<config, processVars, spool, quarantine>>

Recovered ==
    /\ pc = "recover"
    /\ \A j \in Jobs : ~IsCompleted(j)
    /\ Go("flush")
    /\ UNCHANGED <<config, fileVars>>

\* Removing a journal fails only when neither unlinking nor quarantining works.
RetireAccepted(j, ok) ==
    /\ journal' = IF ok THEN [journal EXCEPT ![j] = None] ELSE journal
    /\ retired' = ok

Replay(j, ok) ==
    /\ pc = "flush"
    /\ spool[j] # None
    /\ RetireAccepted(j, ok)
    /\ pc' = "replay"
    /\ job' = j
    /\ payload' = spool[j]
    /\ UNCHANGED <<config, session, spool, quarantine>>

\* Mutant: the loop goes on with results still spooled.
FlushedOrNot ==
    /\ pc = "flush"
    /\ Go("next")
    /\ UNCHANGED <<config, fileVars>>

Flushed ==
    /\ pc = "flush"
    /\ \A j \in Jobs : spool[j] = None
    /\ Go("next")
    /\ UNCHANGED <<config, fileVars>>

-----------------------------------------------------------------------------
(* Accepting a job: it is on disk before it is acknowledged, and           *)
(* acknowledged before it runs.                                            *)

TakeAccepted(j) ==
    /\ pc = "next"
    /\ IsAccepted(j)
    /\ spool[j] = None
    /\ pc' = "verify"
    /\ job' = j
    /\ UNCHANGED <<config, session, payload, retired, fileVars>>

AskForWork ==
    /\ pc = "next"
    /\ \A j \in Jobs : journal[j] = None
    /\ Go("poll")
    /\ UNCHANGED <<config, fileVars>>

NoWork ==
    /\ pc = "poll"
    /\ Go("recover")
    /\ UNCHANGED <<config, fileVars>>

\* Mutant: a fresh offer is acknowledged without having been journaled.
OfferedUnjournaled(j) ==
    /\ pc = "poll"
    /\ pc' = "verify"
    /\ job' = j
    /\ UNCHANGED <<config, session, payload, retired, fileVars>>

Offered(j) ==
    /\ pc = "poll"
    /\ pc' = "journal"
    /\ job' = j
    /\ UNCHANGED <<config, session, payload, retired, fileVars>>

\* An OSError escapes the loop here: it is a Crash on either side of this step.
JournalJob ==
    /\ pc = "journal"
    /\ journal' = [journal EXCEPT ![job] = Accepted]
    /\ pc' = "verify"
    /\ UNCHANGED <<config, session, job, payload, retired, spool, quarantine>>

VerifyResultStorage ==
    /\ pc = "verify"
    /\ pc' = "ack"
    /\ UNCHANGED <<config, session, job, payload, retired, fileVars>>

ResultStorageUnavailable ==
    /\ pc = "verify"
    /\ Go("recover")
    /\ UNCHANGED <<config, fileVars>>

Acknowledged ==
    /\ pc = "ack"
    /\ pc' = "run"
    /\ UNCHANGED <<config, session, job, payload, retired, fileVars>>

AckRejected(ok) ==
    /\ pc = "ack"
    /\ journal' = IF ok THEN [journal EXCEPT ![job] = None] ELSE journal
    /\ quarantine' = IF ok THEN quarantine \cup {<<job, journal[job]>>} ELSE quarantine
    /\ Go("recover")
    /\ UNCHANGED <<config, spool>>

-----------------------------------------------------------------------------
(* Running it, and making the outcome durable before reporting it. *)

RunnerReturns(p) ==
    /\ pc = "run"
    /\ pc' = "complete"
    /\ payload' = p
    /\ UNCHANGED <<config, session, job, retired, fileVars>>

JournalCompletion ==
    /\ pc = "complete"
    /\ journal' = [journal EXCEPT ![job] = Journal(payload)]
    /\ pc' = "spool"
    /\ UNCHANGED <<config, session, job, payload, retired, spool, quarantine>>

\* Mutant: a job whose completion could not be written is run again.
JournalCompletionReruns(written) ==
    /\ pc = "complete"
    /\ journal' = IF written THEN [journal EXCEPT ![job] = Journal(payload)] ELSE journal
    /\ pc' = "run"
    /\ UNCHANGED <<config, session, job, payload, retired, spool, quarantine>>

JournalCompletionRaises(written) ==
    /\ pc = "complete"
    /\ journal' = IF written THEN [journal EXCEPT ![job] = Journal(payload)] ELSE journal
    /\ pc' = "fallback"
    /\ UNCHANGED <<config, session, job, payload, retired, spool, quarantine>>

WriteResult ==
    /\ pc \in {"spool", "fallback"}
    /\ spool' = [spool EXCEPT ![job] = payload]
    /\ pc' = "retire"
    /\ UNCHANGED <<config, session, job, payload, retired, journal, quarantine>>

WriteResultRaises(written) ==
    /\ pc = "fallback"
    /\ spool' = IF written THEN [spool EXCEPT ![job] = payload] ELSE spool
    /\ pc' = "complete"
    /\ UNCHANGED <<config, session, job, payload, retired, journal, quarantine>>

Retire(ok) ==
    /\ pc = "retire"
    /\ RetireAccepted(job, ok)
    /\ pc' = "post"
    /\ UNCHANGED <<config, session, job, payload, spool, quarantine>>

\* A replay goes on to the next spooled result, unless this one had to stay.
AfterPost(gone) == Go(IF pc = "replay" /\ gone THEN "flush" ELSE "recover")

Delivered ==
    /\ pc \in {"post", "replay"}
    /\ spool' = IF retired THEN [spool EXCEPT ![job] = None] ELSE spool
    /\ AfterPost(retired)
    /\ UNCHANGED <<config, journal, quarantine>>

PostRejected(ok) ==
    /\ pc \in {"post", "replay"}
    /\ spool' = IF retired /\ ok THEN [spool EXCEPT ![job] = None] ELSE spool
    /\ quarantine' = IF retired /\ ok THEN quarantine \cup {<<job, payload>>} ELSE quarantine
    /\ AfterPost(retired /\ ok)
    /\ UNCHANGED <<config, journal>>

-----------------------------------------------------------------------------
Recover == \E j \in Jobs : RecoverSpool(j) \/ RecoverRetire(j)

\* Steps of the process that need no answer and meet no fault.
Local ==
    \/ Recover
    \/ Recovered
    \/ Flushed
    \/ \E j \in Jobs : TakeAccepted(j)
    \/ JournalJob
    \/ \E p \in Payloads : RunnerReturns(p)
    \/ JournalCompletion
    \/ WriteResult

\* The steps that send a request.
Sends ==
    \/ \E j \in Jobs : Replay(j, TRUE)
    \/ AskForWork
    \/ VerifyResultStorage
    \/ Retire(TRUE)

\* The process or its storage fails.
SendsDespiteFault ==
    \/ \E j \in Jobs : Replay(j, FALSE)
    \/ Retire(FALSE)

Faults ==
    \/ ResultStorageUnavailable
    \/ \E written \in BOOLEAN : JournalCompletionRaises(written)
    \/ \E written \in BOOLEAN : WriteResultRaises(written)

\* What an answer does.
Answered ==
    \/ Unauthorized
    \/ Transient
    \/ NoWork
    \/ \E j \in Jobs : Offered(j)
    \/ Acknowledged
    \/ \E ok \in BOOLEAN : AckRejected(ok)
    \/ Delivered
    \/ \E ok \in BOOLEAN : PostRejected(ok)

Next ==
    \/ Start
    \/ Crash
    \/ \E a \in Agents : Reenroll(a)
    \/ Local
    \/ Sends
    \/ SendsDespiteFault
    \/ Faults
    \/ Answered

Spec == Init /\ [][Next]_vars

-----------------------------------------------------------------------------
(* Properties, against a coordinator that may answer anything. *)

InLane(j) == journal[j] # None \/ spool[j] # None

\* The node never holds two jobs: it asks for work only when both lanes are
\* empty, so the order of spooled results can never become ambiguous.
LaneHoldsOneJob ==
    /\ \A j, k \in Jobs : InLane(j) /\ InLane(k) => j = k
    /\ \A j \in Jobs : InLane(j) /\ job # None => j = job

\* Whatever is executed or reported is on disk first: a job runs only with its
\* journal in place, and a result is posted only from its spool file.
DurableBeforeActing ==
    /\ pc \in {"ack", "run"} => IsAccepted(job)
    /\ pc \in {"complete", "fallback"} => InLane(job)
    /\ pc \in {"post", "replay"} => spool[job] = payload

\* Recovery never meets a completion WAL that contradicts a spooled result,
\* which would block the loop forever.
WalAgreesWithSpool ==
    \A j \in Jobs : IsCompleted(j) /\ spool[j] # None => spool[j] = journal[j].completion

\* The disk leads: nothing is done that it does not hold, and it never holds two
\* outcomes of one job. (run_loop over the journal and the spool)
DiskLeads == DurableBeforeActing /\ WalAgreesWithSpool

\* A durable outcome is never lost or replaced: it leaves its job's lane only by
\* delivery, or by being quarantined as it is.
Outcome(j) ==
    IF IsCompleted(j) THEN journal[j].completion ELSE spool[j]

OutcomeKept(j) ==
    Outcome(j) # None =>
        \/ Outcome(j)' = Outcome(j)
        \/ Delivered /\ Outcome(j)' = None
        \/ Outcome(j)' = None /\ <<j, Outcome(j)>> \in quarantine'

OutcomesSurvive == [][\A j \in Jobs : OutcomeKept(j)]_vars
=============================================================================
