-------------------------- MODULE NodeAgentProofs --------------------------
(***************************************************************************)
(* The node's files, against a coordinator that may answer anything and    *)
(* with crashes and storage errors anywhere, for any number of jobs.       *)
(***************************************************************************)
EXTENDS NodeAgent, TLAPS

USE DEF vars, processVars, fileVars

\* What the process remembers, by where it is.
Memory ==
    /\ pc \in Holding <=> job # None
    /\ pc \in {"complete", "fallback", "spool", "retire", "post", "replay"} <=> payload # None

\* What the files hold, by where the process is.
Files ==
    /\ pc \in {"poll", "journal"} => \A j \in Jobs : ~InLane(j)
    /\ pc \in {"flush", "next", "replay"} => \A j \in Jobs : ~IsCompleted(j)
    /\ pc = "next" => \A j \in Jobs : spool[j] = None
    /\ pc \in {"verify", "ack", "run"} => IsAccepted(job) /\ spool[job] = None
    /\ pc \in {"complete", "fallback", "spool", "retire"} =>
        /\ journal[job] \in {Accepted, Journal(payload)}
        /\ spool[job] \in {None, payload}
    /\ pc \in {"retire", "post", "replay"} => spool[job] = payload
    /\ pc \in {"post", "replay"} /\ retired => journal[job] = None

IInv ==
    /\ TypeOK
    /\ LaneHoldsOneJob
    /\ WalAgreesWithSpool
    /\ Memory
    /\ Files

\* The three things a journal can be are different things.
LEMMA JournalForms ==
    /\ Accepted # None
    /\ Accepted \in [completion: Payloads \cup {None}]
    /\ \A p \in Payloads :
        /\ Journal(p) \notin {None, Accepted}
        /\ Journal(p) \in [completion: Payloads \cup {None}]
        /\ Journal(p).completion = p
<1>1. Accepted = [completion |-> None] /\ \A p : Journal(p) = [completion |-> p]
  BY DEF Accepted, Journal
<1>2. None \notin Payloads /\ None \notin [completion: Payloads \cup {None}]
  BY NodeAgentAssumption
<1>3. \A p \in Payloads : [completion |-> p].completion # [completion |-> None].completion
  BY <1>2
<1> QED BY <1>1, <1>2, <1>3

\* A completed journal carries a payload.
LEMMA CompletedJournal ==
    ASSUME TypeOK, NEW j \in Jobs, IsCompleted(j)
    PROVE  journal[j].completion \in Payloads
<1>1. journal[j] \in [completion: Payloads \cup {None}]
  BY DEF TypeOK, IsCompleted
<1>2. journal[j].completion # None
  <2>1. SUFFICES ASSUME journal[j].completion = None PROVE FALSE
    OBVIOUS
  <2>2. journal[j] = [completion |-> None]
    BY <1>1, <2>1
  <2> QED BY <2>2 DEF IsCompleted, Accepted, Journal
<1> QED BY <1>1, <1>2

LEMMA InitEstablishes == Init => IInv
  BY DEF Init, IInv, TypeOK, LaneHoldsOneJob, WalAgreesWithSpool, Memory, Files, InLane,
         IsCompleted, Ended, Holding, Waiting

\* Every step.  A step of the process leaves at most its own job's lane changed,
\* so that each case looks at that lane alone.
LEMMA StepPreserves == IInv /\ [Next]_vars => IInv'
<1> SUFFICES ASSUME IInv, [Next]_vars PROVE IInv'
  OBVIOUS
<1> USE JournalForms, NodeAgentAssumption
<1> USE DEF IInv, TypeOK, LaneHoldsOneJob, WalAgreesWithSpool, Memory, Files, InLane,
            IsCompleted, IsAccepted, Ended, Holding, Waiting, Go, Stop
<1>1. CASE Start
  BY <1>1, CompletedJournal DEF Start
<1>2. CASE Crash
  BY <1>2, CompletedJournal DEF Crash
<1>3. CASE \E a \in Agents : Reenroll(a)
  BY <1>3, CompletedJournal DEF Reenroll
<1>4. CASE \E j \in Jobs : RecoverSpool(j)
  BY <1>4, CompletedJournal DEF RecoverSpool
<1>5. CASE \E j \in Jobs : RecoverRetire(j)
  BY <1>5, CompletedJournal DEF RecoverRetire
<1>6. CASE Recovered
  BY <1>6, CompletedJournal DEF Recovered
<1>7. CASE Flushed
  BY <1>7, CompletedJournal DEF Flushed
<1>8. CASE \E j \in Jobs : TakeAccepted(j)
  BY <1>8, CompletedJournal DEF TakeAccepted
<1>9. CASE JournalJob
  BY <1>9, CompletedJournal DEF JournalJob
<1>10. CASE \E p \in Payloads : RunnerReturns(p)
  BY <1>10, CompletedJournal DEF RunnerReturns
<1>11. CASE JournalCompletion
  BY <1>11, CompletedJournal DEF JournalCompletion
<1>12. CASE WriteResult
  BY <1>12, CompletedJournal DEF WriteResult
<1>13. CASE \E j \in Jobs, ok \in BOOLEAN : Replay(j, ok)
  BY <1>13, CompletedJournal DEF Replay, RetireAccepted
<1>14. CASE AskForWork
  BY <1>14, CompletedJournal DEF AskForWork
<1>15. CASE VerifyResultStorage
  BY <1>15, CompletedJournal DEF VerifyResultStorage
<1>16. CASE \E ok \in BOOLEAN : Retire(ok)
  BY <1>16, CompletedJournal DEF Retire, RetireAccepted
<1>17. CASE ResultStorageUnavailable
  BY <1>17, CompletedJournal DEF ResultStorageUnavailable
<1>18. CASE \E written \in BOOLEAN : JournalCompletionRaises(written)
  BY <1>18, CompletedJournal DEF JournalCompletionRaises
<1>19. CASE \E written \in BOOLEAN : WriteResultRaises(written)
  BY <1>19, CompletedJournal DEF WriteResultRaises
<1>20. CASE Unauthorized
  BY <1>20, CompletedJournal DEF Unauthorized, ClearSessionIfCurrent
<1>21. CASE Transient
  BY <1>21, CompletedJournal DEF Transient
<1>22. CASE NoWork
  BY <1>22, CompletedJournal DEF NoWork
<1>23. CASE \E j \in Jobs : Offered(j)
  BY <1>23, CompletedJournal DEF Offered
<1>24. CASE Acknowledged
  BY <1>24, CompletedJournal DEF Acknowledged
<1>25. ASSUME NEW ok \in BOOLEAN, AckRejected(ok) PROVE IInv'
  <2>1. journal' \in [Jobs -> {None, Accepted} \cup [completion: Payloads \cup {None}]]
        /\ \A j \in Jobs : journal'[j] \in {journal[j], None}
    BY <1>25 DEF AckRejected
  <2>2. quarantine' \subseteq Jobs \X (Payloads \cup {Accepted})
    BY <1>25 DEF AckRejected
  <2> QED BY <1>25, <2>1, <2>2, CompletedJournal DEF AckRejected
<1>26. CASE Delivered
  BY <1>26, CompletedJournal DEF Delivered, AfterPost
<1>27. ASSUME NEW ok \in BOOLEAN, PostRejected(ok) PROVE IInv'
  <2>1. spool' \in [Jobs -> Payloads \cup {None}]
        /\ \A j \in Jobs : spool'[j] \in {spool[j], None}
    BY <1>27 DEF PostRejected
  <2>2. quarantine' \subseteq Jobs \X (Payloads \cup {Accepted})
    BY <1>27 DEF PostRejected
  <2>3. pc' \in {"flush", "recover"} /\ job' = None /\ payload' = None /\ retired' = FALSE
        /\ UNCHANGED <<config, session, journal>>
        /\ (pc' = "flush" => pc = "replay")
    BY <1>27 DEF PostRejected, AfterPost
  <2> QED BY <2>1, <2>2, <2>3, CompletedJournal
<1>28. CASE UNCHANGED vars
  BY <1>28, CompletedJournal
<1> QED
  BY <1>1, <1>2, <1>3, <1>4, <1>5, <1>6, <1>7, <1>8, <1>9, <1>10, <1>11, <1>12, <1>13, <1>14, <1>15, <1>16, <1>17, <1>18, <1>19, <1>20, <1>21, <1>22, <1>23, <1>24, <1>25, <1>26, <1>27, <1>28
  DEF Next, Local, Recover, Sends, SendsDespiteFault, Faults, Answered

LEMMA Invariance == Spec => []IInv
  BY InitEstablishes, StepPreserves, PTL DEF Spec

LEMMA ConsequencesOfIInv == IInv => TypeOK /\ LaneHoldsOneJob /\ DurableBeforeActing /\ WalAgreesWithSpool
  BY JournalForms, CompletedJournal
  DEF IInv, Files, Memory, DurableBeforeActing, InLane, IsAccepted, TypeOK, Holding

\* The files and the process's memory always hold what they are meant to hold.
THEOREM TypeCorrect == Spec => []TypeOK
  BY Invariance, ConsequencesOfIInv, PTL

\* The node never holds two jobs, so the replay order is never ambiguous.
THEOREM OneJobAtATime == Spec => []LaneHoldsOneJob
  BY Invariance, ConsequencesOfIInv, PTL

\* A job runs only with its journal in place, a result is posted only from disk.
THEOREM DurableFirst == Spec => []DurableBeforeActing
  BY Invariance, ConsequencesOfIInv, PTL

\* Recovery is never blocked by a completion that contradicts a spooled result.
THEOREM RecoveryNeverBlocks == Spec => []WalAgreesWithSpool
  BY Invariance, ConsequencesOfIInv, PTL

\* The disk leads the node, and never contradicts itself.
THEOREM DiskLeadsAlways == Spec => []DiskLeads
  BY DurableFirst, RecoveryNeverBlocks, PTL DEF DiskLeads

\* A step that leaves both lanes alone keeps every outcome.
LEMMA UntouchedLanes ==
    ASSUME NEW j \in Jobs, UNCHANGED <<journal, spool>>
    PROVE  Outcome(j)' = Outcome(j)
  BY DEF Outcome, IsCompleted

LEMMA StepKeepsOutcomes ==
    ASSUME IInv, [Next]_vars, NEW j \in Jobs
    PROVE  OutcomeKept(j)
<1> USE JournalForms, NodeAgentAssumption
<1> USE DEF OutcomeKept, Outcome, IsCompleted, IsAccepted
<1>1. ASSUME NEW k \in Jobs, RecoverSpool(k) \/ RecoverRetire(k) PROVE OutcomeKept(j)
  BY <1>1 DEF RecoverSpool, RecoverRetire, IInv, TypeOK
<1>2. ASSUME NEW k \in Jobs, NEW ok \in BOOLEAN, Replay(k, ok) PROVE OutcomeKept(j)
  BY <1>2 DEF Replay, RetireAccepted, IInv, TypeOK, Files, LaneHoldsOneJob
<1>3. CASE JournalJob
  BY <1>3 DEF JournalJob, IInv, TypeOK, Files, InLane
<1>4. CASE JournalCompletion \/ \E written \in BOOLEAN : JournalCompletionRaises(written)
  BY <1>4 DEF JournalCompletion, JournalCompletionRaises, IInv, TypeOK, Files, Memory
<1>5. CASE WriteResult \/ \E written \in BOOLEAN : WriteResultRaises(written)
  BY <1>5 DEF WriteResult, WriteResultRaises, IInv, TypeOK, Files, Memory
<1>6. ASSUME NEW ok \in BOOLEAN, Retire(ok) PROVE OutcomeKept(j)
  BY <1>6 DEF Retire, RetireAccepted, IInv, TypeOK, Files, Memory
<1>7. ASSUME NEW ok \in BOOLEAN, AckRejected(ok) PROVE OutcomeKept(j)
  BY <1>7 DEF AckRejected, IInv, TypeOK, Files
<1>8. CASE Delivered
  BY <1>8 DEF Delivered, IInv, TypeOK, Files
<1>9. ASSUME NEW ok \in BOOLEAN, PostRejected(ok) PROVE OutcomeKept(j)
  BY <1>9 DEF PostRejected, IInv, TypeOK, Files
<1>10. CASE UNCHANGED <<journal, spool>>
  BY <1>10, UntouchedLanes
<1> QED
  BY <1>1, <1>2, <1>3, <1>4, <1>5, <1>6, <1>7, <1>8, <1>9, <1>10
  DEF Next, Local, Recover, Sends, SendsDespiteFault, Faults, Answered, Start, Crash, Reenroll,
      Recovered, Flushed, TakeAccepted, RunnerReturns, AskForWork, VerifyResultStorage,
      ResultStorageUnavailable, Unauthorized, Transient, NoWork, Offered, Acknowledged

\* A durable outcome leaves its job's lane only by delivery or as quarantined evidence.
THEOREM OutcomesNeverLost == Spec => OutcomesSurvive
<1>1. IInv /\ [Next]_vars => [\A j \in Jobs : OutcomeKept(j)]_vars
  BY StepKeepsOutcomes
<1> QED BY Invariance, <1>1, PTL DEF Spec, OutcomesSurvive
=============================================================================
