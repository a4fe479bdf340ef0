---------------------------- MODULE NativeProofs ----------------------------
(***************************************************************************)
(* The commands of the native engines, for any number of processes,        *)
(* engines, changes and kills: two measurements of ARA's never overlap, no *)
(* engine is changed by ARA under one, what a run or a benchmark gives out *)
(* came from the weights and the authority of the row that governed it,    *)
(* what is stored as evidence was measured in one world, and what is read  *)
(* of the model cache is what was identified.  And the workers they start, *)
(* for all sizes and whatever other programs do: predictions agree,        *)
(* measurements are of the model, answers were gated.                      *)
(***************************************************************************)
EXTENDS NativeArtifacts, Workers, FiniteSetTheorems, SequenceTheorems, TLAPS

\* Idle is all that a process without a command is.
Commanded == /\ DOMAIN cmd = Procs /\ DOMAIN worker = Procs
             /\ \A p \in Procs : {"pc", "kind"} \subseteq DOMAIN cmd[p]
             /\ \A p \in Procs : cmd[p].kind \in {"none", "run", "serve"} \cup Locked
             /\ \A p \in Procs : cmd[p].kind = "none" => cmd[p] = Idle

\* measurement.lock is held from the start of a locked command to its end.
LockIsHeld == \A p \in Procs : cmd[p].kind \in Locked => lock = p

\* A command is where its kind brings it.
Saving == {"saveCalibration", "saveRow"}
Calibrating == {"calibrate", "calibrating"}
PlaceFitsKind ==
    \A p \in Procs :
        /\ cmd[p].pc \in Calibrating \cup Saving => cmd[p].kind = "characterize"
        /\ cmd[p].pc \in {"remove", "create"} => cmd[p].kind \in {"install", "uninstall"}

\* A worker of a command that lives measures only if the command does.
WorkersMeasureForCommands ==
    \A p \in Procs : MeasuringWorker(p) /\ cmd[p] # Idle => cmd[p].kind \in Measuring

IInv == Commanded /\ LockIsHeld /\ PlaceFitsKind /\ WorkersMeasureForCommands

USE DEF Measuring, Locked, At, Saving, Calibrating

Fields == /\ {"build"} \subseteq DOMAIN world
          /\ {"changes", "commands", "kills"} \subseteq DOMAIN used /\ used.changes \in Int

\* Only p is touched, and its command ends.
Ended(p) ==
    /\ cmd' = [cmd EXCEPT ![p] = Idle]
    /\ lock' = IF lock = p THEN Nobody ELSE lock
\* Only p is touched, and its command goes on to one of these places.
Moved(p, places) ==
    /\ lock' = lock
    /\ DOMAIN cmd' = Procs
    /\ \A q \in Procs \ {p} : cmd'[q] = cmd[q]
    /\ {"pc", "kind"} \subseteq DOMAIN cmd'[p]
    /\ cmd'[p].kind = cmd[p].kind
    /\ cmd'[p].pc \in places
\* p's worker, if it has a new one, does what p's command does.
OwnWorker(p) ==
    /\ DOMAIN worker' = Procs
    /\ \A q \in Procs \ {p} : worker'[q] = worker[q]
    /\ \/ worker'[p] = worker[p]
       \/ MeasuringWorker(p)' => cmd[p].kind \in Measuring

Plain == {"plan", "enter", "download", "identify", "pin", "load", "working", "audit", "artifact",
          "again", "show", "lookup", "scan", "recheck", "consent",
          "live", "serveCheck", "spawn", "starting", "serving"}

LEMMA InitHolds == Init => IInv /\ Fields
BY DEF Init, IInv, Fields, Commanded, LockIsHeld, PlaceFitsKind, WorkersMeasureForCommands, Idle,
       NoWorker, MeasuringWorker

LEMMA EndingKeeps ==
    ASSUME IInv, NEW p \in Procs, Ended(p), OwnWorker(p)
    PROVE  IInv'
<1> USE DEF IInv, Ended, OwnWorker
<1>1. cmd'[p] = Idle /\ \A q \in Procs \ {p} : cmd'[q] = cmd[q]
  BY DEF Commanded
<1>2. Commanded'
  BY <1>1 DEF Commanded, Idle
<1>3. LockIsHeld'
  BY <1>1 DEF LockIsHeld, Idle
<1>4. PlaceFitsKind'
  BY <1>1 DEF PlaceFitsKind, Idle
<1>5. WorkersMeasureForCommands'
  BY <1>1 DEF WorkersMeasureForCommands, MeasuringWorker
<1> QED BY <1>2, <1>3, <1>4, <1>5

LEMMA MovingKeeps ==
    ASSUME IInv, NEW p \in Procs, cmd[p].pc # "idle", OwnWorker(p),
           \/ Moved(p, Plain)
           \/ Moved(p, Calibrating \cup Saving) /\ cmd[p].kind = "characterize"
           \/ Moved(p, {"remove", "create"}) /\ cmd[p].kind \in {"install", "uninstall"}
    PROVE  IInv'
<1> USE DEF IInv, Moved, OwnWorker
<1>1. cmd[p] # Idle /\ cmd[p].kind # "none" /\ cmd'[p].kind = cmd[p].kind
      /\ \A q \in Procs \ {p} : cmd'[q] = cmd[q]
  BY DEF Commanded, Idle
<1>2. Commanded'
  BY <1>1 DEF Commanded
<1>3. LockIsHeld'
  BY <1>1 DEF LockIsHeld
<1>4. PlaceFitsKind'
  BY <1>1 DEF PlaceFitsKind, Plain
<1>5. WorkersMeasureForCommands'
  BY <1>1 DEF WorkersMeasureForCommands, MeasuringWorker
<1> QED BY <1>2, <1>3, <1>4, <1>5

LEMMA BeginningKeeps ==
    ASSUME IInv, NEW p \in Procs, NEW new, Begin(p, new), {"pc", "kind"} \subseteq DOMAIN new,
           new.kind \in {"run", "serve"} \cup Locked,
           new.pc \notin Calibrating \cup Saving \cup {"create"},
           new.pc = "remove" => new.kind \in {"install", "uninstall"}
    PROVE  IInv'
<1> USE DEF IInv, Begin
<1>1. cmd'[p] = new /\ \A q \in Procs \ {p} : cmd'[q] = cmd[q]
  BY DEF Commanded
<1>2. Commanded'
  BY <1>1 DEF Commanded
<1>3. LockIsHeld'
  <2>1. new.kind \in {"characterize", "benchmark", "install", "uninstall"}
        => lock' = p /\ lock = Nobody
    OBVIOUS
  <2> QED BY <1>1, <2>1, NobodyIsNoProcess DEF LockIsHeld
<1>4. PlaceFitsKind'
  BY <1>1 DEF PlaceFitsKind
<1>5. WorkersMeasureForCommands'
  BY <1>1 DEF WorkersMeasureForCommands, MeasuringWorker, NoWorker
<1> QED BY <1>2, <1>3, <1>4, <1>5

\* A new command of any kind.
LEMMA CommandKeeps ==
    ASSUME IInv, NEW p \in Procs, Command(p)
    PROVE  IInv'
<1>1. ASSUME NEW e \in Engines, Characterize(p, e) PROVE IInv'
  BY <1>1, BeginningKeeps DEF Characterize, New
<1>2. ASSUME NEW e \in Engines, Serve(p, e) PROVE IInv'
  BY <1>2, BeginningKeeps DEF Serve, New
<1>3. ASSUME NEW e \in Engines, Install(p, e) PROVE IInv'
  BY <1>3, BeginningKeeps DEF Install, New
<1>4. ASSUME NEW e \in Engines, Uninstall(p, e) PROVE IInv'
  BY <1>4, BeginningKeeps DEF Uninstall, New
<1>5. ASSUME NEW kind \in {"run", "benchmark"}, NEW todo, NEW pinned, Select(p, kind, todo, pinned)
      PROVE  IInv'
  BY <1>5, BeginningKeeps DEF Select, New
<1> QED BY <1>1, <1>2, <1>3, <1>4, <1>5 DEF Command

\* A step of a command ends it or moves it on.
LEMMA StepMoves ==
    ASSUME IInv, NEW p \in Procs, Step(p)
    PROVE  /\ cmd[p].pc # "idle" /\ OwnWorker(p)
           /\ \/ Ended(p)
              \/ Moved(p, Plain)
              \/ Moved(p, Calibrating \cup Saving) /\ cmd[p].kind = "characterize"
              \/ Moved(p, {"remove", "create"}) /\ cmd[p].kind \in {"install", "uninstall"}
<1> DEFINE Result ==
      /\ cmd[p].pc # "idle" /\ OwnWorker(p)
      /\ \/ Ended(p)
         \/ Moved(p, Plain)
         \/ Moved(p, Calibrating \cup Saving) /\ cmd[p].kind = "characterize"
         \/ Moved(p, {"remove", "create"}) /\ cmd[p].kind \in {"install", "uninstall"}
<1>0. /\ DOMAIN cmd = Procs /\ DOMAIN worker = Procs /\ {"pc", "kind"} \subseteq DOMAIN cmd[p]
      /\ cmd[p].kind # "calibrate"
      /\ \A k \in Calibrating \cup Saving : cmd[p].pc = k => cmd[p].kind = "characterize"
      /\ \A k \in {"remove", "create"} : cmd[p].pc = k => cmd[p].kind \in {"install", "uninstall"}
  BY DEF IInv, Commanded, PlaceFitsKind
<1> USE DEF Moved, Plain, OwnWorker, Ended, Finish, Goto, Silent, Proceed
<1>1. CASE ReadAuthority(p)
  BY <1>0, <1>1 DEF ReadAuthority
<1>2. CASE PrefetchPlan(p)
  BY <1>0, <1>2 DEF PrefetchPlan
<1>3. CASE Enter(p)
  BY <1>0, <1>3 DEF Enter
<1>4. CASE Download(p)
  BY <1>0, <1>4 DEF Download
<1>5. CASE Calibrate(p)
  BY <1>0, <1>5 DEF Calibrate, Work, MeasuringWorker
<1>6. CASE CalibrationEnds(p)
  BY <1>0, <1>6 DEF CalibrationEnds, NoWorker, MeasuringWorker
<1>7. CASE Identify(p)
  BY <1>0, <1>7 DEF Identify
<1>8. CASE Pin(p)
  BY <1>0, <1>8 DEF Pin
<1>9. CASE Load(p)
  BY <1>0, <1>9 DEF Load, Work, MeasuringWorker
<1>10. CASE WorkerEnds(p)
  BY <1>0, <1>10 DEF WorkerEnds, NoWorker, MeasuringWorker
<1>11. CASE AuditAfter(p)
  BY <1>0, <1>11 DEF AuditAfter
<1>12. CASE ArtifactAfter(p)
  <2>1. cmd[p].pc # "idle" /\ OwnWorker(p)
    BY <1>0, <1>12 DEF ArtifactAfter
  <2>2. CASE Finish(p)
    BY <2>1, <2>2
  <2>3. ASSUME NEW repeat \in BOOLEAN, lock' = lock,
               cmd' = [cmd EXCEPT ![p].tracked = repeat \/ cmd[p].kind = "run",
                                  ![p].pc = IF repeat THEN "load" ELSE "again"]
        PROVE  Moved(p, Plain)
    <3> DEFINE c == [cmd[p] EXCEPT !.tracked = repeat \/ cmd[p].kind = "run",
                                   !.pc = IF repeat THEN "load" ELSE "again"]
    <3>1. cmd' = [cmd EXCEPT ![p] = c]
      BY <1>0, <2>3
    <3>2. {"pc", "kind"} \subseteq DOMAIN c /\ c.kind = cmd[p].kind /\ c.pc \in {"load", "again"}
      BY <1>0
    <3> HIDE DEF c
    <3> QED BY <1>0, <2>3, <3>1, <3>2
  <2> QED BY <1>12, <2>1, <2>2, <2>3 DEF ArtifactAfter
<1>13. CASE AuthorityAfter(p)
  BY <1>0, <1>13 DEF AuthorityAfter
<1>14. CASE SaveCalibration(p)
  BY <1>0, <1>14 DEF SaveCalibration
<1>15. CASE SaveRow(p)
  BY <1>0, <1>15 DEF SaveRow
<1>16. CASE ScanAuthority(p)
  BY <1>0, <1>16 DEF ScanAuthority
<1>17. CASE Lookup(p)
  BY <1>0, <1>17 DEF Lookup
<1>18. CASE Pick(p)
  <2>1. cmd[p].pc # "idle" /\ OwnWorker(p)
    BY <1>0, <1>18 DEF Pick
  <2>2. CASE Finish(p)
    BY <2>1, <2>2
  <2>3. ASSUME NEW r, NEW next \in {"consent", "recheck"}, lock' = lock,
               cmd' = [cmd EXCEPT ![p].row = r, ![p].eng = r.eng,
                                  ![p].authority = r.authority, ![p].found = {}, ![p].pc = next]
        PROVE  Moved(p, Plain)
    <3> DEFINE c == [cmd[p] EXCEPT !.row = r, !.eng = r.eng, !.authority = r.authority,
                                   !.found = {}, !.pc = next]
    <3>1. cmd' = [cmd EXCEPT ![p] = c]
      BY <1>0, <2>3
    <3>2. {"pc", "kind"} \subseteq DOMAIN c /\ c.kind = cmd[p].kind /\ c.pc = next
      BY <1>0
    <3> HIDE DEF c
    <3> QED BY <1>0, <2>3, <3>1, <3>2
  <2> QED BY ZenonT(30), <1>18, <2>1, <2>2, <2>3 DEF Pick
<1>19. CASE RecheckSelection(p)
  BY <1>0, <1>19 DEF RecheckSelection
<1>20. CASE Consent(p)
  BY <1>0, <1>20 DEF Consent
<1>21. CASE LiveAuthority(p)
  BY <1>0, <1>21 DEF LiveAuthority
<1>22. CASE Show(p)
  BY <1>0, <1>22 DEF Show, Give
<1>23. CASE StoreScore(p)
  BY <1>0, <1>23 DEF StoreScore, Give
<1>24. CASE ServeLookup(p)
  BY <1>0, <1>24 DEF ServeLookup
<1>25. CASE ServeCheck(p)
  BY <1>0, <1>25 DEF ServeCheck
<1>26. CASE StartServer(p)
  BY <1>0, <1>26 DEF StartServer, Work, MeasuringWorker
<1>27. CASE ServerReady(p)
  BY <1>0, <1>27 DEF ServerReady
<1>28. CASE RemoveEngine(p)
  BY <1>0, <1>28 DEF RemoveEngine
<1>29. CASE CreateEngine(p)
  BY <1>0, <1>29 DEF CreateEngine
<1> QED
  BY <1>1, <1>2, <1>3, <1>4, <1>5, <1>6, <1>7, <1>8, <1>9, <1>10, <1>11, <1>12, <1>13, <1>14,
     <1>15, <1>16, <1>17, <1>18, <1>19, <1>20, <1>21, <1>22, <1>23, <1>24, <1>25, <1>26, <1>27,
     <1>28, <1>29 DEF Step

\* Every step of the machine keeps the invariant.
LEMMA NextKeeps == IInv /\ [Next]_vars => IInv'
<1> SUFFICES ASSUME IInv, [Next]_vars PROVE IInv'
  OBVIOUS
<1>1. ASSUME NEW p \in Procs, Command(p) PROVE IInv'
  BY <1>1, CommandKeeps
<1>2. ASSUME NEW p \in Procs, Step(p) PROVE IInv'
  BY <1>2, StepMoves, EndingKeeps, MovingKeeps
<1>3. ASSUME NEW p \in Procs, Fail(p) \/ Kill(p) PROVE IInv'
  <2>1. Ended(p) /\ OwnWorker(p)
    BY <1>3 DEF Fail, Kill, Finish, Ended, OwnWorker, NoWorker, MeasuringWorker, IInv, Commanded
  <2> QED BY <2>1, EndingKeeps
<1>4. ASSUME NEW p \in Procs, OrphanEnds(p) PROVE IInv'
  BY <1>4 DEF OrphanEnds, NoWorker, IInv, Commanded, LockIsHeld, PlaceFitsKind,
              WorkersMeasureForCommands, MeasuringWorker
<1>5. CASE UNCHANGED <<cmd, worker, lock>>
  BY <1>5
     DEF IInv, Commanded, LockIsHeld, PlaceFitsKind, WorkersMeasureForCommands, MeasuringWorker
<1>6. Outside \/ UNCHANGED vars => UNCHANGED <<cmd, worker, lock>>
  BY DEF Outside, Changed, EngineChanges, AuthorityChanges, HubPublishes, MainMoves, CacheEvicts,
         FileReplaced, vars
<1> QED BY <1>1, <1>2, <1>3, <1>4, <1>5, <1>6 DEF Next

\* The builds change by an install or uninstall of ARA's, or from outside.
LEMMA BuildsChange ==
    ASSUME IInv, Fields, [Next]_vars
    PROVE  \/ world'.build = world.build /\ Fields'
           \/ /\ \E p \in Procs : cmd[p].kind \in {"install", "uninstall"}
              /\ Fields'
           \/ used'.changes # used.changes /\ Fields'
<1> USE DEF Fields
<1> DEFINE Still == UNCHANGED <<world, used>>
           Goal == \/ world'.build = world.build /\ Fields'
                   \/ /\ \E p \in Procs : cmd[p].kind \in {"install", "uninstall"}
                      /\ Fields'
                   \/ used'.changes # used.changes /\ Fields'
<1>1. CASE Still
  BY <1>1
<1>2. ASSUME NEW p \in Procs, Command(p) PROVE Goal
  BY <1>2 DEF Command, Characterize, Serve, Install, Uninstall, Select, Begin
<1>3. ASSUME NEW p \in Procs, Step(p) PROVE Goal
  <2>1. CASE Download(p)
    BY <2>1 DEF Download
  <2>2. CASE RemoveEngine(p)
    BY <2>2 DEF RemoveEngine, IInv, PlaceFitsKind
  <2>3. CASE CreateEngine(p)
    BY <2>3 DEF CreateEngine, IInv, PlaceFitsKind
  <2>4. CASE ReadAuthority(p) \/ PrefetchPlan(p) \/ Enter(p) \/ Calibrate(p)
             \/ CalibrationEnds(p) \/ Identify(p) \/ Pin(p) \/ Load(p) \/ WorkerEnds(p)
    BY <1>1, <2>4
       DEF ReadAuthority, PrefetchPlan, Enter, Calibrate, CalibrationEnds, Identify, Pin,
                      Load, WorkerEnds, Work, Silent
  <2>5. CASE AuditAfter(p) \/ ArtifactAfter(p) \/ AuthorityAfter(p) \/ SaveCalibration(p)
             \/ SaveRow(p) \/ ScanAuthority(p) \/ Lookup(p) \/ Pick(p) \/ RecheckSelection(p)
    BY <1>1, <2>5 DEF AuditAfter, ArtifactAfter, AuthorityAfter, SaveCalibration, SaveRow,
                      ScanAuthority, Lookup, Pick, RecheckSelection, Silent
  <2>6. CASE Consent(p) \/ LiveAuthority(p) \/ Show(p) \/ StoreScore(p) \/ ServeLookup(p)
             \/ ServeCheck(p) \/ StartServer(p) \/ ServerReady(p)
    BY <1>1, <2>6 DEF Consent, LiveAuthority, Show, StoreScore, Give, ServeLookup, ServeCheck,
                      StartServer, ServerReady, Work, Silent
  <2> QED BY <1>3, <2>1, <2>2, <2>3, <2>4, <2>5, <2>6 DEF Step
<1>4. ASSUME NEW p \in Procs, Fail(p) \/ Kill(p) \/ OrphanEnds(p) PROVE Goal
  BY <1>4 DEF Fail, Kill, OrphanEnds
<1>5. CASE Outside
  <2>1. ASSUME NEW w, {"build"} \subseteq DOMAIN w, Changed(w) PROVE Goal
    BY <2>1 DEF Changed
  <2>2. CASE EngineChanges
    BY <2>1, <2>2 DEF EngineChanges
  <2>3. CASE AuthorityChanges \/ HubPublishes \/ MainMoves \/ CacheEvicts \/ FileReplaced
    BY <2>1, <2>3 DEF AuthorityChanges, HubPublishes, MainMoves, CacheEvicts, FileReplaced
  <2> QED BY <1>5, <2>2, <2>3 DEF Outside
<1>6. UNCHANGED vars => Still
  BY DEF vars
<1> QED BY <1>1, <1>2, <1>3, <1>4, <1>5, <1>6 DEF Next

\* No measurement runs beside another one, and no engine of ARA's is changed
\* by ARA under one (measurement_lock around both, locking.py).
THEOREM MeasurementsNeverDisturbed == Spec => MeasurementsAreUndisturbed
<1>1. IInv => MeasurementsAreExclusive
  BY DEF IInv, LockIsHeld, WorkersMeasureForCommands, MeasurementsAreExclusive
<1>2. IInv /\ Fields /\ [Next]_vars => Fields'
  BY BuildsChange
<1>3. IInv /\ Fields /\ [Next]_vars =>
        [\A e \in Engines :
            world'.build[e] # world.build[e] /\ used'.changes = used.changes
                => \A q \in Procs : cmd[q].kind \notin Measuring]_vars
  BY BuildsChange DEF IInv, LockIsHeld
<1> QED
  BY InitHolds, NextKeeps, <1>1, <1>2, <1>3, PTL
     DEF Spec, MeasurementsAreUndisturbed, MeasuredEngineStays

----------------------------------------------------------------------------
(***************************************************************************)
(* Answers: what a run or a benchmark knows of its authority and its       *)
(* weights by where it is.  An authority, and a local file, that was       *)
(* replaced never comes back.                                              *)
(***************************************************************************)
Answering == {"run", "benchmark"}
Loading == {"load", "working", "artifact"}
Measured == Loading \cup {"again", "show"}
Checked == {"download", "identify", "pin", "again"} \cup Loading
Asked == {"plan", "enter", "live", "show"} \cup Checked
Chosen == {"recheck", "consent"} \cup Asked

Overtaken(c) == c.eng \in Scoped /\ c.authority \in Int /\ c.authority < world.authority
Replaced(c) == world.local /\ c.art \in Int /\ c.art < world.main
SameAuthorityOf(c, s) == s.authority = c.authority \/ Overtaken(c)
SameWeights(c, s) == s.art = c.art \/ Replaced(c)

CommandFields ==
    {"pc", "kind", "eng", "pinned", "tracked", "authority", "build", "after", "plan", "art", "ctx",
     "row", "todo", "found", "measured", "loads", "seen"}

\* What the place of a run or a benchmark says of it.
AnswerFits(p) ==
    LET c == cmd[p] IN c.kind \in Answering =>
        /\ CommandFields \subseteq DOMAIN c
        /\ c.pc \in {"scan", "lookup"} \cup Chosen
        /\ c.pc \in {"plan", "download", "identify"} => c.kind = "benchmark"
        /\ world.local => c.plan = 0
        /\ c.pc \in Chosen => c.authority = c.row.authority
        /\ c.pc \in Asked => c.art = c.row.art /\ c.ctx <= c.row.safe
        /\ c.pc \in Checked => Authority(c.eng) = c.authority \/ Overtaken(c)
        /\ c.pc \notin Measured => c.seen = {}
        /\ c.pc \in Loading =>
              /\ world.local => world.main = c.art \/ Replaced(c)
              /\ \A s \in c.seen : SameWeights(c, s)
        /\ c.pc \in Loading \cup {"again"} => \A s \in c.seen : SameAuthorityOf(c, s)
        /\ c.pc = "working" => /\ {"build", "authority", "art"} \subseteq DOMAIN worker[p].met
                               /\ SameAuthorityOf(c, worker[p].met)
                               /\ SameWeights(c, worker[p].met)
        /\ c.pc \in {"again", "show"} => \A s \in c.seen : s.art = c.art
        /\ c.pc = "show" => \A s \in c.seen : s.authority = c.authority

WorldFits ==
    /\ {"build", "fresh", "authority", "head", "main", "cached", "local"} \subseteq DOMAIN world
    /\ {world.authority, world.head, world.main} \subseteq Int

AnswersInv == WorldFits /\ AnswersAreMeasured /\ \A p \in Procs : AnswerFits(p)

LEMMA AnswersBegin == Init => AnswersInv
BY DEF Init, AnswersInv, WorldFits, AnswersAreMeasured, AnswerFits, Answering, Idle

\* What the world never does.
WorldGrows ==
    /\ WorldFits /\ WorldFits' /\ world'.local = world.local
    /\ world.authority <= world'.authority
    /\ world.local => world.main <= world'.main

LEMMA OthersFit ==
    ASSUME NEW q \in Procs, WorldGrows, AnswerFits(q), cmd'[q] = cmd[q], worker'[q] = worker[q]
    PROVE  AnswerFits(q)'
<1> DEFINE c == cmd[q]
<1>1. (Overtaken(c) => Overtaken(c)') /\ (Replaced(c) => Replaced(c)')
  BY DEF WorldGrows, WorldFits, Overtaken, Replaced
<1>2. Authority(c.eng) = c.authority => Authority(c.eng)' = c.authority \/ Overtaken(c)'
  BY DEF WorldGrows, WorldFits, Overtaken, Authority
<1>3. world.local /\ world.main = c.art => world'.main = c.art \/ Replaced(c)'
  BY DEF WorldGrows, WorldFits, Replaced
<1>4. \A s : /\ SameWeights(c, s) => SameWeights(c, s)'
             /\ SameAuthorityOf(c, s) => SameAuthorityOf(c, s)'
  BY <1>1 DEF SameWeights, SameAuthorityOf
<1>5. world'.local = world.local /\ cmd'[q] = c /\ worker'[q] = worker[q]
  BY DEF WorldGrows
<1> HIDE DEF c
<1> QED BY <1>1, <1>2, <1>3, <1>4, <1>5 DEF AnswerFits, c

\* The world moves on, and only outside changes and downloads and installs
\* of ARA's move it.
LEMMA StepGrows ==
    ASSUME WorldFits, NEW p \in Procs, Step(p)
    PROVE  WorldGrows
<1> USE DEF WorldFits, WorldGrows
<1>1. CASE Download(p)
  BY <1>1 DEF Download
<1>2. CASE RemoveEngine(p)
  BY <1>2 DEF RemoveEngine
<1>7. CASE CreateEngine(p)
  BY <1>7 DEF CreateEngine
<1>3. CASE world' = world
  BY <1>3
<1>4. CASE ReadAuthority(p) \/ PrefetchPlan(p) \/ Enter(p) \/ Calibrate(p)
           \/ CalibrationEnds(p) \/ Identify(p) \/ Pin(p) \/ Load(p) \/ WorkerEnds(p)
  BY <1>3, <1>4 DEF ReadAuthority, PrefetchPlan, Enter, Calibrate, CalibrationEnds, Identify, Pin,
                    Load, WorkerEnds, Work, Silent
<1>5. CASE AuditAfter(p) \/ ArtifactAfter(p) \/ AuthorityAfter(p) \/ SaveCalibration(p)
           \/ SaveRow(p) \/ ScanAuthority(p) \/ Lookup(p) \/ Pick(p) \/ RecheckSelection(p)
  BY <1>3, <1>5 DEF AuditAfter, ArtifactAfter, AuthorityAfter, SaveCalibration, SaveRow,
                    ScanAuthority, Lookup, Pick, RecheckSelection, Silent
<1>6. CASE Consent(p) \/ LiveAuthority(p) \/ Show(p) \/ StoreScore(p) \/ ServeLookup(p)
           \/ ServeCheck(p) \/ StartServer(p) \/ ServerReady(p)
  BY <1>3, <1>6 DEF Consent, LiveAuthority, Show, StoreScore, Give, ServeLookup, ServeCheck,
                    StartServer, ServerReady, Work, Silent
<1> QED BY <1>1, <1>2, <1>4, <1>5, <1>6, <1>7 DEF Step

LEMMA OutsideGrows ==
    ASSUME WorldFits, Outside
    PROVE  WorldGrows /\ UNCHANGED <<cmd, worker, answers>>
<1> USE DEF WorldFits, WorldGrows, Changed
<1>1. CASE EngineChanges
  BY <1>1 DEF EngineChanges
<1>2. CASE AuthorityChanges
  BY <1>2 DEF AuthorityChanges
<1>3. CASE HubPublishes
  BY <1>3 DEF HubPublishes
<1>4. CASE MainMoves
  BY <1>4 DEF MainMoves
<1>5. CASE CacheEvicts
  BY <1>5 DEF CacheEvicts
<1>6. CASE FileReplaced
  <2>1. world.main <= world.main + 1 /\ world.main + 1 \in Int
    OBVIOUS
  <2>2. /\ world' = [world EXCEPT !.main = world.main + 1]
        /\ UNCHANGED <<cmd, worker, answers>>
    BY <1>6 DEF FileReplaced
  <2> HIDE DEF Changed
  <2> QED BY <2>1, <2>2
<1> QED BY <1>1, <1>2, <1>3, <1>4, <1>5, <1>6 DEF Outside

\* A run or benchmark before its first worker.
Early(d) ==
    /\ d.kind \in Answering /\ CommandFields \subseteq DOMAIN d /\ d.seen = {}
    /\ world.local => d.plan = 0
\* The row that governs it is chosen, and its context is granted.
Governed(d) == d.authority = d.row.authority /\ d.art = d.row.art /\ d.ctx <= d.row.safe

\* Before its first worker a command knows what it found, what it was asked,
\* and then that the authority was still the same.
LEMMA ScanningFits ==
    ASSUME AnswersInv, WorldGrows, NEW p \in Procs, NEW c, cmd'[p] = c,
           Early(c),
           \/ c.pc \in {"scan", "lookup"}
           \/ c.pc \in {"recheck", "consent"} /\ c.authority = c.row.authority
    PROVE  AnswerFits(p)'
BY DEF WorldGrows, AnswerFits, Early, Governed, Loading, Measured, Checked, Asked, Chosen

LEMMA AskingFits ==
    ASSUME AnswersInv, WorldGrows, NEW p \in Procs, NEW c, cmd'[p] = c,
           Early(c),
           c.pc \in {"enter", "live"} \/ (c.pc = "plan" /\ c.kind = "benchmark"),
           Governed(c)
    PROVE  AnswerFits(p)'
BY DEF WorldGrows, AnswerFits, Early, Governed, Loading, Measured, Checked, Asked, Chosen

LEMMA CheckingFits ==
    ASSUME AnswersInv, WorldGrows, NEW p \in Procs, NEW c, cmd'[p] = c,
           Early(c),
           c.pc = "pin" \/ (c.pc \in {"download", "identify"} /\ c.kind = "benchmark"),
           Governed(c),
           Authority(c.eng)' = c.authority \/ Overtaken(c)'
    PROVE  AnswerFits(p)'
BY DEF WorldGrows, AnswerFits, Early, Governed, Loading, Measured, Checked, Asked, Chosen

\* While its workers run it also knows what they met.
LEMMA LoadingFits ==
    ASSUME AnswersInv, WorldGrows, NEW p \in Procs, NEW c, cmd'[p] = c,
           NEW m, m = worker'[p].met,
           c.kind \in Answering, CommandFields \subseteq DOMAIN c, world.local => c.plan = 0,
           c.pc \in Loading, Governed(c),
           Authority(c.eng)' = c.authority \/ Overtaken(c)',
           world.local => world'.main = c.art \/ Replaced(c)',
           \A s \in c.seen : SameWeights(c, s)' /\ SameAuthorityOf(c, s)',
           c.pc = "working" => /\ {"build", "authority", "art"} \subseteq DOMAIN m
                               /\ SameAuthorityOf(c, m)' /\ SameWeights(c, m)'
    PROVE  AnswerFits(p)'
BY DEF WorldGrows, AnswerFits, Early, Governed, Loading, Measured, Checked, Asked, Chosen

\* A run or a benchmark that goes on knows where it is what its place says.
LEMMA StepFits ==
    ASSUME IInv, AnswersInv, NEW p \in Procs, Step(p), cmd[p].kind \in Answering
    PROVE  AnswerFits(p)'
<1> DEFINE Goal == AnswerFits(p)'
<1>1. WorldGrows /\ WorldFits
  BY StepGrows DEF AnswersInv
<1>2. DOMAIN cmd = Procs /\ DOMAIN worker = Procs /\ AnswerFits(p)
  BY DEF IInv, Commanded, AnswersInv
<1>3. Finish(p) => Goal
  BY <1>2 DEF Finish, Idle, AnswerFits, Answering
<1>4. PICK c : c = cmd[p]
  OBVIOUS
<1>5. PICK d : d = cmd'[p]
  OBVIOUS
<1>6. PICK n : n = worker'[p].met
  OBVIOUS
<1>7. PICK m : m = worker[p].met
  OBVIOUS
<1>8. /\ c.kind \in Answering /\ CommandFields \subseteq DOMAIN c
      /\ c.pc \in {"scan", "lookup"} \cup Chosen
      /\ c.pc \in {"plan", "download", "identify"} => c.kind = "benchmark"
      /\ world.local => c.plan = 0
      /\ c.pc \in Chosen => c.authority = c.row.authority
      /\ c.pc \in Asked => c.art = c.row.art /\ c.ctx <= c.row.safe
      /\ c.pc \in Checked => Authority(c.eng) = c.authority \/ Overtaken(c)
      /\ c.pc \notin Measured => c.seen = {}
      /\ c.pc \in Loading =>
            /\ world.local => world.main = c.art \/ Replaced(c)
            /\ \A s \in c.seen : SameWeights(c, s)
      /\ c.pc \in Loading \cup {"again"} => \A s \in c.seen : SameAuthorityOf(c, s)
      /\ c.pc = "working" => /\ {"build", "authority", "art"} \subseteq DOMAIN m
                             /\ SameAuthorityOf(c, m) /\ SameWeights(c, m)
      /\ c.pc \in {"again", "show"} => \A s \in c.seen : s.art = c.art
      /\ c.pc = "show" => \A s \in c.seen : s.authority = c.authority
  BY <1>2, <1>4, <1>7 DEF AnswerFits
<1> USE DEF Goto, Silent, Proceed
<1>11. CASE PrefetchPlan(p)
  <2>1. PICK plan : /\ Finish(p) \/ cmd' = [cmd EXCEPT ![p].plan = plan, ![p].pc = "enter"]
                    /\ At(p, "plan") /\ (world.local => Finish(p) \/ plan = 0)
    BY <1>11 DEF PrefetchPlan
  <2>2. CASE cmd' = [cmd EXCEPT ![p].plan = plan, ![p].pc = "enter"]
    <3>1. d = [c EXCEPT !.plan = plan, !.pc = "enter"]
      BY <1>2, <1>4, <1>5, <2>2
    <3>2. c.pc = "plan" /\ (world.local => plan = 0 \/ Finish(p))
      BY <1>4, <2>1
    <3>3. CASE ~Finish(p)
      <4>1. Early(d) /\ d.pc = "enter" /\ Governed(d)
        BY <1>8, <3>1, <3>2, <3>3
           DEF Early, Governed, CommandFields, Chosen, Asked, Checked, Measured, Loading
      <4> QED BY <1>1, <1>5, <4>1, AskingFits
    <3> QED BY <1>3, <3>3
  <2> QED BY <1>3, <2>1, <2>2
<1>12. CASE Enter(p)
  <2>1. d = [c EXCEPT !.tracked = TRUE,
                      !.pc = IF c.kind = "characterize" THEN "download" ELSE "live"]
    BY <1>2, <1>4, <1>5, <1>12 DEF Enter
  <2>2. c.pc = "enter" /\ c.kind # "characterize"
    BY <1>4, <1>8, <1>12 DEF Enter, Answering
  <2>3. Early(d) /\ d.pc = "live" /\ Governed(d)
    BY <1>8, <2>1, <2>2
       DEF Early, Governed, CommandFields, Chosen, Asked, Checked, Measured, Loading
  <2> QED BY <1>1, <1>5, <2>3, AskingFits
<1>13. CASE Download(p)
  <2>1. d = [c EXCEPT !.pc = IF c.kind = "characterize" THEN "calibrate" ELSE "identify"]
    BY <1>2, <1>4, <1>5, <1>13 DEF Download
  <2>2. Authority(c.eng)' = Authority(c.eng) /\ (Overtaken(c) => Overtaken(c)')
    BY <1>13 DEF Download, Authority, Overtaken, WorldFits, AnswersInv
  <2>3. c.pc = "download" /\ c.kind = "benchmark"
    BY <1>4, <1>8, <1>13 DEF Download
  <2>4. /\ Early(d) /\ d.pc = "identify" /\ Governed(d) /\ d.authority = c.authority
        /\ d.eng = c.eng /\ d.kind = c.kind
    BY <1>8, <2>1, <2>3
       DEF Early, Governed, CommandFields, Chosen, Asked, Checked, Measured, Loading
  <2>5. Authority(d.eng)' = d.authority \/ Overtaken(d)'
    BY <1>8, <2>2, <2>3, <2>4 DEF Checked, Overtaken
  <2> QED BY <1>1, <1>5, <2>3, <2>4, <2>5, CheckingFits
<1>14. CASE Identify(p)
  <2>1. PICK art : /\ Finish(p) \/ cmd' = [cmd EXCEPT ![p].art = art, ![p].pc = "pin"]
                   /\ At(p, "identify") /\ world' = world
                   /\ c.kind = "benchmark" /\ art # c.row.art => Finish(p)
    BY <1>4, <1>14 DEF Identify
  <2>2. CASE cmd' = [cmd EXCEPT ![p].art = art, ![p].pc = "pin"]
    <3>1. d = [c EXCEPT !.art = art, !.pc = "pin"]
      BY <1>2, <1>4, <1>5, <2>2
    <3>2. Authority(c.eng)' = Authority(c.eng) /\ (Overtaken(c) => Overtaken(d)')
      BY <1>8, <2>1, <3>1 DEF Authority, Overtaken, CommandFields
    <3>3. c.pc = "identify" /\ c.kind = "benchmark"
      BY <1>4, <1>8, <2>1
    <3>4. CASE art = c.row.art
      <4>1. Early(d) /\ d.pc = "pin" /\ Governed(d) /\ d.authority = c.authority /\ d.eng = c.eng
        BY <1>8, <3>1, <3>3, <3>4
           DEF Early, Governed, CommandFields, Chosen, Asked, Checked, Measured, Loading
      <4>2. Authority(d.eng)' = d.authority \/ Overtaken(d)'
        BY <1>8, <3>2, <3>3, <4>1 DEF Checked
      <4> QED BY <1>1, <1>5, <4>1, <4>2, CheckingFits
    <3> QED BY <1>3, <2>1, <3>3, <3>4
  <2> QED BY <1>3, <2>1, <2>2
<1>15. CASE Pin(p)
  <2>1. CASE Finish(p)
    BY <1>3, <2>1
  <2>2. CASE Goto(p, "load") /\ ArtifactMatches(c.art)
    <3>1. d = [c EXCEPT !.pc = "load"] /\ c.pc = "pin" /\ world' = world
      BY <1>2, <1>4, <1>5, <1>15, <2>2 DEF Pin
    <3>2. world.local => world'.main = c.art
      BY <2>2, <3>1 DEF ArtifactMatches, Cached
    <3>3. Authority(c.eng)' = c.authority \/ Overtaken(d)'
      BY <1>8, <3>1 DEF Authority, Overtaken, CommandFields, Checked
    <3>4. Early(d) /\ d.pc = "load" /\ Governed(d) /\ d.authority = c.authority /\ d.eng = c.eng
          /\ d.art = c.art
      BY <1>8, <3>1 DEF Early, Governed, CommandFields, Chosen, Asked, Checked, Measured, Loading
    <3> QED BY <1>1, <1>5, <1>6, <3>2, <3>3, <3>4, LoadingFits DEF Early, Governed, Loading
  <2> QED BY <1>4, <1>15, <2>1, <2>2 DEF Pin
<1>16. CASE Load(p)
  <2>1. d = [c EXCEPT !.pc = "working"] /\ c.pc = "load" /\ world' = world
    BY <1>2, <1>4, <1>5, <1>16 DEF Load, Work
  <2>2. n = Met(c.eng, Loaded(c.art))
    BY <1>2, <1>4, <1>6, <1>16 DEF Load, Work
  <2>3. /\ Authority(d.eng)' = Authority(c.eng) /\ (Overtaken(c) => Overtaken(d)')
        /\ (Replaced(c) => Replaced(d)')
        /\ d.seen = c.seen /\ d.art = c.art /\ d.authority = c.authority
    BY <1>8, <2>1 DEF Authority, Overtaken, Replaced, CommandFields
  <2>4. /\ {"build", "authority", "art"} \subseteq DOMAIN n /\ SameAuthorityOf(d, n)'
        /\ SameWeights(d, n)'
    BY <1>8, <2>1, <2>2, <2>3
       DEF Met, Loaded, SameAuthorityOf, SameWeights, Loading, Checked
  <2>5. \A s \in d.seen : SameWeights(d, s)' /\ SameAuthorityOf(d, s)'
    BY <1>8, <2>1, <2>3 DEF SameAuthorityOf, SameWeights, Loading
  <2>8. /\ d.kind \in Answering /\ CommandFields \subseteq DOMAIN d /\ d.pc = "working"
        /\ world.local => d.plan = 0
    BY <1>8, <2>1 DEF CommandFields
  <2>9. d.row = c.row /\ d.ctx = c.ctx
    BY <1>8, <2>1 DEF CommandFields
  <2>10. Governed(d) /\ d.pc \in Loading
    BY <1>8, <2>1, <2>3, <2>8, <2>9 DEF Governed, Chosen, Asked, Checked, Loading
  <2>11. /\ Authority(d.eng)' = d.authority \/ Overtaken(d)'
         /\ world.local => world'.main = d.art \/ Replaced(d)'
    BY <1>8, <2>1, <2>3 DEF Checked, Loading
  <2> QED BY <1>1, <1>5, <1>6, <2>4, <2>5, <2>8, <2>10, <2>11, LoadingFits
<1>17. CASE WorkerEnds(p)
  <2>1. /\ d = [c EXCEPT !.seen = c.seen \cup Seen(p), !.loads = c.loads + 1, !.pc = "artifact"]
        /\ c.pc = "working" /\ world' = world
    BY <1>2, <1>4, <1>5, <1>8, <1>17 DEF WorkerEnds, Answering
  <2>2. Seen(p) = {m, [m EXCEPT !.authority = Authority(c.eng)]}
    BY <1>4, <1>7 DEF Seen
  <2>3. /\ Authority(d.eng)' = Authority(c.eng) /\ (Overtaken(c) => Overtaken(d)')
        /\ (Replaced(c) => Replaced(d)')
        /\ d.art = c.art /\ d.authority = c.authority /\ d.seen = c.seen \cup Seen(p)
    BY <1>8, <2>1 DEF Authority, Overtaken, Replaced, CommandFields
  <2>4. \A s : /\ SameWeights(c, s) => SameWeights(d, s)'
               /\ SameAuthorityOf(c, s) => SameAuthorityOf(d, s)'
    BY <2>3 DEF SameAuthorityOf, SameWeights
  <2>5. PICK k : k = [m EXCEPT !.authority = Authority(c.eng)]
    OBVIOUS
  <2>6. SameWeights(c, k) /\ SameAuthorityOf(c, k)
    BY <1>8, <2>1, <2>5 DEF SameAuthorityOf, SameWeights, Checked, Loading
  <2>7. \A s \in d.seen : SameWeights(d, s)' /\ SameAuthorityOf(d, s)'
    BY <1>8, <2>1, <2>2, <2>3, <2>4, <2>5, <2>6 DEF Loading
  <2>8. /\ d.kind \in Answering /\ CommandFields \subseteq DOMAIN d /\ d.pc = "artifact"
        /\ world.local => d.plan = 0
    BY <1>8, <2>1 DEF CommandFields
  <2>9. d.row = c.row /\ d.ctx = c.ctx
    BY <1>8, <2>1 DEF CommandFields
  <2>10. Governed(d) /\ d.pc \in Loading
    BY <1>8, <2>1, <2>3, <2>8, <2>9 DEF Governed, Chosen, Asked, Checked, Loading
  <2>11. /\ Authority(d.eng)' = d.authority \/ Overtaken(d)'
         /\ world.local => world'.main = d.art \/ Replaced(d)'
    BY <1>8, <2>1, <2>3 DEF Checked, Loading
  <2> QED BY <1>1, <1>5, <1>6, <2>7, <2>8, <2>10, <2>11, LoadingFits
<1>18. CASE ArtifactAfter(p)
  <2>1. CASE Finish(p)
    BY <1>3, <2>1
  <2>2. ASSUME NEW repeat \in BOOLEAN, SameArtifact(c), c.pc = "artifact", world' = world,
               cmd' = [cmd EXCEPT ![p].tracked = repeat \/ c.kind = "run",
                                  ![p].pc = IF repeat THEN "load" ELSE "again"]
        PROVE  Goal
    <3>1. d = [c EXCEPT !.tracked = repeat \/ c.kind = "run",
                        !.pc = IF repeat THEN "load" ELSE "again"]
      BY <1>2, <1>4, <1>5, <2>2
    <3>2. /\ Authority(d.eng)' = Authority(c.eng) /\ (Overtaken(c) => Overtaken(d)')
          /\ (Replaced(c) => Replaced(d)')
          /\ d.art = c.art /\ d.authority = c.authority /\ d.seen = c.seen /\ d.row = c.row
          /\ d.ctx = c.ctx /\ d.plan = c.plan /\ d.kind = c.kind
          /\ CommandFields \subseteq DOMAIN d
          /\ d.pc = IF repeat THEN "load" ELSE "again"
      BY <1>8, <2>2, <3>1 DEF Authority, Overtaken, Replaced, CommandFields
    <3>3. \A s \in d.seen : SameWeights(d, s)' /\ SameAuthorityOf(d, s)'
      BY <1>8, <2>2, <3>2 DEF SameAuthorityOf, SameWeights, Loading
    <3>4. world.local => world.main = c.art
      BY <1>8, <2>2 DEF SameArtifact, ArtifactMatches, Cached, ArtifactIdentityForPlan, Selected,
                        Answering, Chosen, Asked, Checked, Loading
    <3>5. \A s \in d.seen : s.art = d.art
      BY <1>1, <1>8, <2>2, <3>2, <3>4 DEF SameWeights, Replaced, Loading, WorldFits
    <3>6. CASE repeat
      <4>1. d.pc = "load" /\ Governed(d) /\ (world.local => d.plan = 0 /\ world'.main = d.art)
            /\ (Authority(d.eng)' = d.authority \/ Overtaken(d)')
        BY <1>8, <2>2, <3>2, <3>4, <3>6 DEF Governed, Chosen, Asked, Checked, Loading
      <4> QED BY <1>1, <1>5, <1>6, <1>8, <3>2, <3>3, <4>1, LoadingFits DEF Governed, Loading
    <3>7. CASE ~repeat
      <4>1. d.pc = "again" /\ d.authority = d.row.authority /\ d.art = d.row.art
            /\ d.ctx <= d.row.safe /\ (world'.local => d.plan = 0)
            /\ (Authority(d.eng)' = d.authority \/ Overtaken(d)')
        BY <1>8, <2>2, <3>2, <3>7 DEF Chosen, Asked, Checked, Loading
      <4> QED BY <1>5, <1>8, <3>2, <3>3, <3>5, <4>1
                 DEF AnswerFits, Chosen, Asked, Checked, Loading, Measured
    <3> QED BY <3>6, <3>7
  <2> QED BY <1>4, <1>18, <2>1, <2>2 DEF ArtifactAfter
<1>19. CASE AuthorityAfter(p)
  <2>1. CASE Finish(p)
    BY <1>3, <2>1
  <2>2. CASE ~Finish(p)
    <3>1. /\ d = [c EXCEPT !.tracked = FALSE, !.pc = "show"] /\ c.pc = "again"
          /\ Authority(c.eng) = c.authority /\ world' = world
      BY <1>2, <1>4, <1>5, <1>8, <1>19, <2>2 DEF AuthorityAfter, SameAuthority, Answering
    <3>2. /\ d.art = c.art /\ d.authority = c.authority /\ d.seen = c.seen /\ d.row = c.row
          /\ d.ctx = c.ctx /\ d.plan = c.plan /\ d.kind = c.kind /\ d.pc = "show"
          /\ CommandFields \subseteq DOMAIN d
      BY <1>8, <3>1 DEF CommandFields
    <3>3. ~Overtaken(c)
      BY <1>1, <3>1 DEF Overtaken, Authority, WorldFits
    <3>4. \A s \in d.seen : s.authority = d.authority /\ s.art = d.art
      BY <1>8, <3>1, <3>2, <3>3 DEF SameAuthorityOf
    <3>5. d.authority = d.row.authority /\ d.art = d.row.art /\ d.ctx <= d.row.safe
          /\ (world'.local => d.plan = 0)
      BY <1>8, <3>1, <3>2 DEF Chosen, Asked, Checked
    <3> QED BY <1>5, <3>2, <3>4, <3>5 DEF AnswerFits, Chosen, Asked, Checked, Loading, Measured
  <2> QED BY <2>1, <2>2
<1>20. CASE ScanAuthority(p)
  <2>1. PICK e \in cmd[p].todo :
            cmd' = [cmd EXCEPT ![p].eng = e, ![p].authority = Authority(e), ![p].pc = "lookup",
                               ![p].todo = @ \ {e}]
    BY <1>20 DEF ScanAuthority
  <2>2. d = [c EXCEPT !.eng = e, !.authority = Authority(e), !.pc = "lookup", !.todo = @ \ {e}]
        /\ c.pc = "scan"
    BY <1>2, <1>4, <1>5, <1>20, <2>1 DEF ScanAuthority
  <2>3. Early(d) /\ d.pc = "lookup"
    BY <1>8, <2>2 DEF Early, CommandFields, Chosen, Asked, Checked, Measured, Loading
  <2> QED BY <1>1, <1>5, <2>3, ScanningFits
<1>21. CASE Lookup(p)
  <2>1. PICK found : d = [c EXCEPT !.found = found, !.pc = "scan"] /\ c.pc = "lookup"
    BY <1>2, <1>4, <1>5, <1>21 DEF Lookup
  <2>2. Early(d) /\ d.pc = "scan"
    BY <1>8, <2>1 DEF Early, CommandFields, Chosen, Asked, Checked, Measured, Loading
  <2> QED BY <1>1, <1>5, <2>2, ScanningFits
<1>22. CASE Pick(p)
  <2>1. CASE Finish(p)
    BY <1>3, <2>1
  <2>2. ASSUME NEW r, NEW next \in {"consent", "recheck"}, c.pc = "scan",
               cmd' = [cmd EXCEPT ![p].row = r, ![p].eng = r.eng,
                                  ![p].authority = r.authority, ![p].found = {}, ![p].pc = next]
        PROVE  Goal
    <3>1. d = [c EXCEPT !.row = r, !.eng = r.eng, !.authority = r.authority, !.found = {},
                        !.pc = next]
      BY <1>2, <1>4, <1>5, <2>2
    <3>2. Early(d) /\ d.pc = next /\ d.authority = d.row.authority
      BY <1>8, <2>2, <3>1 DEF Early, CommandFields, Chosen, Asked, Checked, Measured, Loading
    <3> QED BY <1>1, <1>5, <3>2, ScanningFits
  <2> QED BY <1>4, <1>22, <2>1, <2>2 DEF Pick
<1>23. CASE RecheckSelection(p)
  <2>1. Finish(p) \/ d = [c EXCEPT !.pc = "consent"]
    BY <1>2, <1>4, <1>5, <1>23 DEF RecheckSelection
  <2>2. c.pc = "recheck"
    BY <1>4, <1>23 DEF RecheckSelection
  <2>3. CASE d = [c EXCEPT !.pc = "consent"]
    <3>1. Early(d) /\ d.pc = "consent" /\ d.authority = d.row.authority
      BY <1>8, <2>2, <2>3 DEF Early, CommandFields, Chosen, Asked, Checked, Measured, Loading
    <3> QED BY <1>1, <1>5, <3>1, ScanningFits
  <2> QED BY <1>3, <2>1, <2>3
<1>24. CASE Consent(p)
  <2>1. PICK ctx : /\ d = [c EXCEPT !.ctx = ctx, !.art = c.row.art,
                                    !.pc = IF c.kind = "run" THEN "enter" ELSE "plan"]
                   /\ c.pc = "consent" /\ ctx <= c.row.safe
    BY <1>2, <1>4, <1>5, <1>24 DEF Consent
  <2>2. Early(d) /\ Governed(d) /\ (d.pc = "enter" \/ (d.pc = "plan" /\ d.kind = "benchmark"))
    BY <1>8, <2>1 DEF Early, Governed, CommandFields, Chosen, Asked, Checked, Measured, Loading,
       Answering
  <2> QED BY <1>1, <1>5, <2>2, AskingFits
<1>25. CASE LiveAuthority(p)
  <2>1. CASE Finish(p)
    BY <1>3, <2>1
  <2>2. CASE ~Finish(p)
    <3>1. /\ d = [c EXCEPT !.pc = IF c.kind = "run" THEN "pin" ELSE "download"]
          /\ c.pc = "live" /\ Authority(c.eng)' = c.authority
      BY <1>2, <1>4, <1>5, <1>25, <2>2 DEF LiveAuthority, Authority
    <3>2. /\ Early(d) /\ Governed(d) /\ d.authority = c.authority /\ d.eng = c.eng
          /\ d.pc = "pin" \/ (d.pc = "download" /\ d.kind = "benchmark")
      BY <1>8, <3>1 DEF Early, Governed, CommandFields, Chosen, Asked, Checked, Measured, Loading,
         Answering
    <3>3. Authority(d.eng)' = d.authority
      BY <3>1, <3>2
    <3> QED BY <1>1, <1>5, <3>2, <3>3, CheckingFits
  <2> QED BY <2>1, <2>2
<1>26. CASE Show(p) \/ StoreScore(p)
  BY <1>3, <1>26 DEF Show, StoreScore, Give
<1>27. c.pc \in {"scan", "lookup", "recheck", "consent", "plan", "enter", "live", "show",
                 "download", "identify", "pin", "again", "load", "working", "artifact"}
  BY <1>8 DEF Chosen, Asked, Checked, Loading
<1>28. ~ \/ ReadAuthority(p) \/ Calibrate(p) \/ CalibrationEnds(p) \/ AuditAfter(p)
         \/ SaveCalibration(p) \/ SaveRow(p) \/ ServeLookup(p) \/ ServeCheck(p) \/ StartServer(p)
         \/ ServerReady(p) \/ RemoveEngine(p) \/ CreateEngine(p)
  BY <1>4, <1>27 DEF ReadAuthority, Calibrate, CalibrationEnds, AuditAfter, SaveCalibration,
     SaveRow, ServeLookup, ServeCheck, StartServer, ServerReady, RemoveEngine, CreateEngine
<1> QED
  BY <1>11, <1>12, <1>13, <1>14, <1>15, <1>16, <1>17, <1>18, <1>19, <1>20, <1>21, <1>22, <1>23,
     <1>24, <1>25, <1>26, <1>28 DEF Step

\* What a step gives out was measured.
LEMMA StepAnswers ==
    ASSUME AnswersInv, NEW p \in Procs, Step(p)
    PROVE  AnswersAreMeasured'
<1> USE DEF AnswersAreMeasured
<1>1. AnswersAreMeasured /\ AnswerFits(p)
  BY DEF AnswersInv
<1>2. CASE answers' = answers
  BY <1>1, <1>2
<1>3. ASSUME NEW kind \in Answering, Give(p, kind) PROVE AnswersAreMeasured'
  <2>1. PICK c : c = cmd[p]
    OBVIOUS
  <2>2. c.kind = kind /\ c.pc = "show"
    BY <1>3, <2>1 DEF Give
  <2>3. /\ c.authority = c.row.authority /\ c.art = c.row.art /\ c.ctx <= c.row.safe
        /\ \A s \in c.seen : s.art = c.art /\ s.authority = c.authority
    BY <1>1, <2>1, <2>2 DEF AnswerFits, Chosen, Asked
  <2>4. answers' = answers \cup {[kind |-> kind, row |-> c.row, ctx |-> c.ctx, seen |-> c.seen]}
    BY <1>3, <2>1 DEF Give
  <2> QED BY <1>1, <2>3, <2>4
<1>4. CASE ServerReady(p)
  BY <1>1, <1>4 DEF ServerReady
<1>5. CASE ReadAuthority(p) \/ PrefetchPlan(p) \/ Enter(p) \/ Calibrate(p) \/ Download(p)
           \/ CalibrationEnds(p) \/ Identify(p) \/ Pin(p) \/ Load(p) \/ WorkerEnds(p)
  BY <1>2, <1>5 DEF ReadAuthority, PrefetchPlan, Enter, Calibrate, CalibrationEnds, Identify, Pin,
                    Download, Load, WorkerEnds, Work, Silent
<1>6. CASE AuditAfter(p) \/ ArtifactAfter(p) \/ AuthorityAfter(p) \/ SaveCalibration(p)
           \/ SaveRow(p) \/ ScanAuthority(p) \/ Lookup(p) \/ Pick(p) \/ RecheckSelection(p)
  BY <1>2, <1>6 DEF AuditAfter, ArtifactAfter, AuthorityAfter, SaveCalibration, SaveRow,
                    ScanAuthority, Lookup, Pick, RecheckSelection, Silent
<1>7. CASE Consent(p) \/ LiveAuthority(p) \/ ServeLookup(p) \/ ServeCheck(p)
           \/ StartServer(p) \/ RemoveEngine(p) \/ CreateEngine(p)
  BY <1>2, <1>7 DEF Consent, LiveAuthority, ServeLookup, ServeCheck, StartServer, RemoveEngine,
                    CreateEngine, Work, Silent
<1> QED BY <1>3, <1>4, <1>5, <1>6, <1>7 DEF Step, Show, StoreScore, Answering

\* A command of another kind, or none, has nothing to know.
LEMMA NothingToKnow ==
    ASSUME NEW p \in Procs, cmd'[p].kind \notin Answering
    PROVE  AnswerFits(p)'
BY DEF AnswerFits

LEMMA CommandFits ==
    ASSUME IInv, AnswersInv, NEW p \in Procs, Command(p)
    PROVE  AnswersInv'
<1>1. DOMAIN cmd = Procs
  BY DEF IInv, Commanded
<1>2. WorldFits /\ AnswersAreMeasured /\ \A q \in Procs : AnswerFits(q)
  BY DEF AnswersInv
<1>3. UNCHANGED <<world, answers, worker>> /\ \A q \in Procs \ {p} : cmd'[q] = cmd[q]
  BY <1>1 DEF Command, Characterize, Serve, Install, Uninstall, Select, Begin
<1>4. WorldGrows
  BY <1>2, <1>3 DEF WorldGrows, WorldFits
<1>5. \A q \in Procs \ {p} : AnswerFits(q)'
  BY <1>2, <1>3, <1>4, OthersFit
<1>6. AnswerFits(p)'
  <2>1. ASSUME NEW kind \in Answering, NEW todo, NEW pinned, Select(p, kind, todo, pinned)
        PROVE  AnswerFits(p)'
    <3>1. PICK d : d = cmd'[p]
      OBVIOUS
    <3>2. d = [New(kind, CHOOSE e \in Engines : TRUE, "scan")
               EXCEPT !.todo = todo, !.pinned = pinned]
      BY <1>1, <2>1, <3>1 DEF Select, Begin
    <3>3. Early(d) /\ d.pc = "scan"
      BY <3>2 DEF New, Early, CommandFields
    <3> QED BY <1>4, <3>1, <3>3, ScanningFits
  <2>2. ASSUME NEW e \in Engines,
               Characterize(p, e) \/ Serve(p, e) \/ Install(p, e) \/ Uninstall(p, e)
        PROVE  cmd'[p].kind \notin Answering
    BY <1>1, <2>2 DEF Characterize, Serve, Install, Uninstall, Begin, New, Answering
  <2> QED BY <2>1, <2>2, NothingToKnow DEF Command, Answering
<1>7. WorldFits' /\ AnswersAreMeasured'
  BY <1>2, <1>3 DEF WorldFits, AnswersAreMeasured
<1> QED BY <1>5, <1>6, <1>7 DEF AnswersInv

LEMMA AnswersKept == IInv /\ AnswersInv /\ [Next]_vars => AnswersInv'
<1> SUFFICES ASSUME IInv, AnswersInv, [Next]_vars PROVE AnswersInv'
  OBVIOUS
<1>1. WorldFits /\ AnswersAreMeasured /\ \A q \in Procs : AnswerFits(q)
  BY DEF AnswersInv
<1>2. ASSUME NEW p \in Procs, Command(p) PROVE AnswersInv'
  BY <1>2, CommandFits
<1>3. ASSUME NEW p \in Procs, Step(p) PROVE AnswersInv'
  <2>1. WorldGrows /\ AnswersAreMeasured'
    BY <1>1, <1>3, StepGrows, StepAnswers
  <2>2. \A q \in Procs \ {p} : cmd'[q] = cmd[q] /\ worker'[q] = worker[q]
    BY <1>3, StepMoves DEF Ended, Moved, OwnWorker, IInv, Commanded
  <2>3. \A q \in Procs \ {p} : AnswerFits(q)'
    BY <1>1, <2>1, <2>2, OthersFit
  <2>4. cmd'[p].kind = cmd[p].kind \/ cmd'[p].kind = "none"
    BY <1>3, StepMoves DEF Ended, Moved, IInv, Commanded, Idle
  <2>5. AnswerFits(p)'
    BY <1>3, <2>4, StepFits, NothingToKnow DEF Answering
  <2> QED BY <2>1, <2>3, <2>5 DEF AnswersInv, WorldGrows
<1>4. ASSUME NEW p \in Procs, Fail(p) \/ Kill(p) \/ OrphanEnds(p) PROVE AnswersInv'
  <2>1. /\ UNCHANGED <<world, answers>> /\ cmd'[p].kind = "none"
        /\ \A q \in Procs \ {p} : cmd'[q] = cmd[q] /\ worker'[q] = worker[q]
    BY <1>4 DEF Fail, Kill, OrphanEnds, Finish, Idle, IInv, Commanded
  <2>2. WorldGrows /\ AnswersAreMeasured'
    BY <1>1, <2>1 DEF WorldGrows, WorldFits, AnswersAreMeasured
  <2>3. \A q \in Procs \ {p} : AnswerFits(q)'
    BY <1>1, <2>1, <2>2, OthersFit
  <2>4. AnswerFits(p)'
    BY <2>1, NothingToKnow DEF Answering
  <2> QED BY <2>2, <2>3, <2>4 DEF AnswersInv, WorldGrows
<1>5. CASE Outside \/ UNCHANGED vars
  <2>1. WorldGrows /\ UNCHANGED <<cmd, worker, answers>>
    <3>1. CASE Outside
      BY <1>1, <3>1, OutsideGrows
    <3>2. CASE UNCHANGED vars
      BY <1>1, <3>2 DEF vars, WorldGrows, WorldFits
    <3> QED BY <1>5, <3>1, <3>2
  <2>2. \A q \in Procs : AnswerFits(q)'
    BY <1>1, <2>1, OthersFit
  <2> QED BY <1>1, <2>1, <2>2 DEF AnswersInv, WorldGrows, AnswersAreMeasured
<1> QED BY <1>2, <1>3, <1>4, <1>5 DEF Next

\* A completion shown and a score stored came from the weights of the row that
\* governed them, under its authority and within its ceiling, whatever changed
\* around the workers (the checks of render_run and render_benchmark).
THEOREM AnswersAlwaysMeasured == Spec => []AnswersAreMeasured
<1>1. AnswersInv => AnswersAreMeasured
  BY DEF AnswersInv
<1> QED BY InitHolds, NextKeeps, AnswersBegin, AnswersKept, <1>1, PTL DEF Spec

----------------------------------------------------------------------------
(***************************************************************************)
(* Evidence: what a characterization knows of the builds, authorities and  *)
(* weights its workers met, by where it is.  The lock keeps ARA from       *)
(* removing the engine under it, so that a build that was replaced never   *)
(* comes back either.                                                      *)
(***************************************************************************)
Ramping == {"load", "working", "audit", "artifact"}
Unread == {"authority", "plan", "enter", "download", "calibrate", "calibrating"}
Characterizing == Unread \cup {"identify", "pin", "again"} \cup Ramping \cup Saving

Rebuilt(c) == c.build < world.build[c.eng]
SameBuildOf(c, s) == s.build = c.build \/ Rebuilt(c)

\* What a characterization knows of a reading of one of its workers: what the
\* comparisons at the end of the ramp have not settled yet was overtaken.
Knows(c, s) ==
    /\ SameBuildOf(c, s) /\ SameAuthorityOf(c, s)
    /\ s.art = 0 \/ SameWeights(c, s)
    /\ c.pc \in {"calibrating", "identify", "pin"} => s.art = 0
    /\ c.pc = "artifact" => s.build = c.build \/ c.after # c.build
    /\ c.pc \in {"again"} \cup Saving => s.build = c.build /\ s.art \in {0, c.art}
    /\ c.pc \in Saving => s.authority = c.authority

\* What it knows of the world.
Stands(c) ==
    /\ CommandFields \subseteq DOMAIN c /\ c.pc \in Characterizing
    /\ c.eng \in Engines /\ c.build \in Int /\ c.build <= world.build[c.eng]
    /\ world.local => c.plan = 0
    /\ c.pc # "authority" => Authority(c.eng) = c.authority \/ Overtaken(c)
    /\ c.pc \in Ramping /\ world.local => world.main = c.art \/ Replaced(c)
    /\ c.pc \in Unread => c.seen = {}

EvidenceFits(p) ==
    cmd[p].kind = "characterize" =>
        /\ Stands(cmd[p])
        /\ \A s \in cmd[p].seen : Knows(cmd[p], s)
        /\ cmd[p].pc \in {"calibrating", "working"} =>
              /\ {"build", "authority", "art"} \subseteq DOMAIN worker[p].met
              /\ Knows(cmd[p], worker[p].met)

\* A build that is replaced is replaced by a newer one.
BuildsFit ==
    /\ DOMAIN world.build = Engines /\ world.fresh \in Nat
    /\ \A e \in Engines : world.build[e] \in Nat /\ world.build[e] < world.fresh

\* A calibration was measured with no weights loaded.
CalibrationsFit ==
    \A k \in cals : \A s \in k.seen :
        s.build = k.build /\ s.authority = k.authority /\ s.art = 0

EvidenceInv ==
    /\ WorldFits /\ BuildsFit /\ CalibrationsFit /\ EvidenceIsOneWorld
    /\ \A p \in Procs : EvidenceFits(p)

LEMMA EvidenceBegins == Init => EvidenceInv
<1> SUFFICES ASSUME Init PROVE EvidenceInv
  OBVIOUS
<1>1. WorldFits /\ CalibrationsFit /\ \A p \in Procs : EvidenceFits(p)
  BY DEF Init, WorldFits, CalibrationsFit, EvidenceFits, Idle
<1>2. BuildsFit
  BY DEF Init, BuildsFit
<1>3. EvidenceIsOneWorld
  <2>1. world.build = [e \in Engines |-> 1] /\ cals = {}
    BY DEF Init
  <2>2. \A r \in rows : \E e \in Engines :
            /\ r.build = 1 /\ r.authority = Authority(e) /\ r.art = 1 /\ r.seen = {Met(e, 1)}
    BY DEF Init
  <2> QED BY <2>1, <2>2 DEF EvidenceIsOneWorld, Met
<1> QED BY <1>1, <1>2, <1>3 DEF EvidenceInv

\* Builds only grow, except where ARA removes an engine.
BuildsGrow == \A e \in Engines : world.build[e] <= world'.build[e]

LEMMA StepBuilds ==
    ASSUME BuildsFit, WorldFits, NEW p \in Procs, Step(p)
    PROVE  BuildsFit' /\ (BuildsGrow \/ RemoveEngine(p))
<1> USE DEF BuildsFit, BuildsGrow
<1>1. CASE world'.build = world.build /\ world'.fresh = world.fresh
  BY <1>1
<1>2. CASE Download(p)
  BY <1>1, <1>2 DEF Download, WorldFits
<1>3. CASE RemoveEngine(p)
  <2>1. PICK g : g = cmd[p].eng
    OBVIOUS
  <2>2. world'.build = [world.build EXCEPT ![g] = 0] /\ world'.fresh = world.fresh
    BY <1>3, <2>1 DEF RemoveEngine, WorldFits
  <2>3. /\ DOMAIN world'.build = Engines
        /\ \A e \in Engines : world'.build[e] = world.build[e] \/ world'.build[e] = 0
    BY <2>2
  <2> QED BY <1>3, <2>2, <2>3
<1>4. CASE CreateEngine(p)
  <2>1. PICK g : g = cmd[p].eng
    OBVIOUS
  <2>2. /\ world'.build = [world.build EXCEPT ![g] = world.fresh]
        /\ world'.fresh = world.fresh + 1
    BY <1>4, <2>1 DEF CreateEngine, WorldFits
  <2>3. /\ DOMAIN world'.build = Engines
        /\ \A e \in Engines : world'.build[e] = world.build[e] \/ world'.build[e] = world.fresh
    BY <2>2
  <2> QED BY <2>2, <2>3
<1>5. CASE ReadAuthority(p) \/ PrefetchPlan(p) \/ Enter(p) \/ Calibrate(p)
           \/ CalibrationEnds(p) \/ Identify(p) \/ Pin(p) \/ Load(p) \/ WorkerEnds(p)
  BY <1>1, <1>5 DEF ReadAuthority, PrefetchPlan, Enter, Calibrate, CalibrationEnds, Identify, Pin,
                    Load, WorkerEnds, Work, Silent
<1>6. CASE AuditAfter(p) \/ ArtifactAfter(p) \/ AuthorityAfter(p) \/ SaveCalibration(p)
           \/ SaveRow(p) \/ ScanAuthority(p) \/ Lookup(p) \/ Pick(p) \/ RecheckSelection(p)
  BY <1>1, <1>6 DEF AuditAfter, ArtifactAfter, AuthorityAfter, SaveCalibration, SaveRow,
                    ScanAuthority, Lookup, Pick, RecheckSelection, Silent
<1>7. CASE Consent(p) \/ LiveAuthority(p) \/ Show(p) \/ StoreScore(p) \/ ServeLookup(p)
           \/ ServeCheck(p) \/ StartServer(p) \/ ServerReady(p)
  BY <1>1, <1>7 DEF Consent, LiveAuthority, Show, StoreScore, Give, ServeLookup, ServeCheck,
                    StartServer, ServerReady, Work, Silent
<1> QED BY <1>2, <1>3, <1>4, <1>5, <1>6, <1>7 DEF Step

LEMMA OutsideBuilds ==
    ASSUME BuildsFit, WorldFits, Outside
    PROVE  BuildsFit' /\ BuildsGrow
<1> USE DEF BuildsFit, BuildsGrow
<1>1. CASE world'.build = world.build /\ world'.fresh = world.fresh
  BY <1>1
<1>2. CASE EngineChanges
  <2>1. PICK e \in Engines : /\ world'.build = [world.build EXCEPT ![e] = world.fresh]
                             /\ world'.fresh = world.fresh + 1
    BY <1>2 DEF EngineChanges, Changed, WorldFits
  <2> QED BY <2>1
<1>3. CASE AuthorityChanges \/ HubPublishes \/ MainMoves \/ CacheEvicts \/ FileReplaced
  BY <1>1, <1>3 DEF AuthorityChanges, HubPublishes, MainMoves, CacheEvicts, FileReplaced, Changed,
                    WorldFits
<1> QED BY <1>2, <1>3 DEF Outside

\* What a characterization knows stays true while the world moves on.
LEMMA KnownStays ==
    ASSUME WorldGrows, BuildsFit, BuildsFit', BuildsGrow, NEW c, Stands(c)
    PROVE  Stands(c)' /\ \A s : Knows(c, s) => Knows(c, s)'
<1>1. /\ Overtaken(c) => Overtaken(c)'
      /\ Replaced(c) => Replaced(c)'
  BY DEF WorldGrows, WorldFits, Overtaken, Replaced
<1>2. Authority(c.eng) = c.authority => Authority(c.eng)' = c.authority \/ Overtaken(c)'
  BY DEF WorldGrows, WorldFits, Overtaken, Authority
<1>3. world.local /\ world.main = c.art => world'.main = c.art \/ Replaced(c)'
  BY DEF WorldGrows, WorldFits, Replaced
<1>4. c.build <= world'.build[c.eng] /\ (Rebuilt(c) => Rebuilt(c)')
  BY DEF Stands, BuildsGrow, BuildsFit, Rebuilt
<1>5. world'.local = world.local
  BY DEF WorldGrows
<1>6. Stands(c)'
  BY <1>1, <1>2, <1>3, <1>4, <1>5 DEF Stands
<1>7. ASSUME NEW s, Knows(c, s) PROVE Knows(c, s)'
  BY <1>1, <1>4, <1>7 DEF Knows, SameBuildOf, SameAuthorityOf, SameWeights
<1> QED BY <1>6, <1>7

LEMMA OthersKnow ==
    ASSUME NEW q \in Procs, WorldGrows, BuildsFit, BuildsFit', BuildsGrow,
           EvidenceFits(q), cmd'[q] = cmd[q], worker'[q] = worker[q]
    PROVE  EvidenceFits(q)'
<1>1. PICK c : c = cmd[q]
  OBVIOUS
<1>2. PICK m : m = worker[q].met
  OBVIOUS
<1>3. c.kind = "characterize" =>
        /\ Stands(c)
        /\ \A s \in c.seen : Knows(c, s)
        /\ c.pc \in {"calibrating", "working"} =>
              {"build", "authority", "art"} \subseteq DOMAIN m /\ Knows(c, m)
  BY <1>1, <1>2 DEF EvidenceFits
<1>4. cmd'[q] = c /\ worker'[q].met = m
  BY <1>1, <1>2
<1> QED BY <1>3, <1>4, KnownStays DEF EvidenceFits

\* A characterization that goes on for the same engine, authority, build and
\* weights keeps what it knew of each reading.
SameRun(c, d) ==
    /\ d.kind = "characterize" /\ CommandFields \subseteq DOMAIN d
    /\ d.eng = c.eng /\ d.authority = c.authority /\ d.build = c.build

LEMMA SameRunKnows ==
    ASSUME NEW c, NEW d, SameRun(c, d), d.art = c.art
    PROVE  /\ \A s : /\ SameBuildOf(c, s)' => SameBuildOf(d, s)'
                     /\ SameAuthorityOf(c, s)' => SameAuthorityOf(d, s)'
                     /\ SameWeights(c, s)' => SameWeights(d, s)'
           /\ Authority(c.eng)' = c.authority \/ Overtaken(c)' =>
                Authority(d.eng)' = d.authority \/ Overtaken(d)'
           /\ world'.main = c.art \/ Replaced(c)' => world'.main = d.art \/ Replaced(d)'
BY DEF SameRun, SameBuildOf, SameAuthorityOf, SameWeights, Rebuilt, Overtaken, Replaced

LEMMA Concludes ==
    ASSUME NEW p \in Procs, NEW d, NEW n, cmd'[p] = d, worker'[p].met = n, Stands(d)',
           \A s \in d.seen : Knows(d, s)',
           d.pc \in {"calibrating", "working"} =>
               {"build", "authority", "art"} \subseteq DOMAIN n /\ Knows(d, n)'
    PROVE  EvidenceFits(p)'
BY DEF EvidenceFits

\* A characterization that goes on knows where it is what its place says.
LEMMA StepKnows ==
    ASSUME IInv, EvidenceInv, NEW p \in Procs, Step(p), cmd[p].kind = "characterize"
    PROVE  EvidenceFits(p)'
<1> DEFINE Goal == EvidenceFits(p)'
<1>1. /\ WorldGrows /\ WorldFits /\ BuildsFit /\ BuildsFit' /\ BuildsGrow
  BY StepGrows, StepBuilds DEF EvidenceInv, IInv, PlaceFitsKind, RemoveEngine
<1>2. DOMAIN cmd = Procs /\ DOMAIN worker = Procs
  BY DEF IInv, Commanded
<1>3. Finish(p) => Goal
  BY <1>2 DEF Finish, Idle, EvidenceFits
<1>4. PICK c : c = cmd[p]
  OBVIOUS
<1>5. PICK d : d = cmd'[p]
  OBVIOUS
<1>6. PICK n : n = worker'[p].met
  OBVIOUS
<1>7. PICK m : m = worker[p].met
  OBVIOUS
<1>8. /\ c.kind = "characterize" /\ Stands(c)
      /\ \A s \in c.seen : Knows(c, s)
      /\ c.pc \in {"calibrating", "working"} =>
            {"build", "authority", "art"} \subseteq DOMAIN m /\ Knows(c, m)
  BY <1>4, <1>7 DEF EvidenceInv, EvidenceFits
<1>9. Stands(c)' /\ \A s : Knows(c, s) => Knows(c, s)'
  BY <1>1, <1>8, KnownStays
<1>10. ASSUME Stands(d)', \A s \in d.seen : Knows(d, s)', d.pc \notin {"calibrating", "working"}
       PROVE  Goal
  BY <1>5, <1>10, Concludes
<1> USE DEF Goto, Silent, Proceed
<1>11. CASE ReadAuthority(p)
  <2>1. /\ d = [c EXCEPT !.authority = Authority(c.eng), !.pc = "plan"]
        /\ c.pc = "authority" /\ world' = world
    BY <1>2, <1>4, <1>5, <1>11 DEF ReadAuthority
  <2>2. d.pc = "plan" /\ d.seen = {} /\ Authority(d.eng)' = d.authority
    BY <1>8, <2>1 DEF Stands, Unread, CommandFields, Authority
  <2>3. Stands(d)'
    BY <1>9, <2>1, <2>2 DEF Stands, CommandFields, Unread, Characterizing, Ramping
  <2> QED BY <1>10, <2>2, <2>3
<1>12. CASE PrefetchPlan(p)
  <2>1. PICK plan : /\ Finish(p) \/ cmd' = [cmd EXCEPT ![p].plan = plan, ![p].pc = "enter"]
                    /\ At(p, "plan") /\ (world.local => Finish(p) \/ plan = 0)
    BY <1>12 DEF PrefetchPlan
  <2>2. CASE ~Finish(p)
    <3>1. /\ d = [c EXCEPT !.plan = plan, !.pc = "enter"] /\ c.pc = "plan"
          /\ world'.local => plan = 0
      BY <1>1, <1>2, <1>4, <1>5, <2>1, <2>2 DEF WorldGrows
    <3>2. /\ SameRun(c, d) /\ c.pc = "plan" /\ d.pc = "enter" /\ d.seen = {} /\ d.art = c.art
          /\ world'.local => d.plan = 0
      BY <1>8, <3>1 DEF Stands, Unread, CommandFields, SameRun
    <3>3. Stands(d)'
      BY <1>9, <3>2, SameRunKnows DEF Stands, Unread, Characterizing, Ramping, SameRun
    <3> QED BY <1>10, <3>2, <3>3
  <2> QED BY <1>3, <2>2
<1>13. CASE Enter(p) \/ Download(p)
  <2>1. /\ c.pc \in {"enter", "download"}
        /\ \/ d = [c EXCEPT !.tracked = TRUE, !.pc = "download"]
           \/ d = [c EXCEPT !.pc = "calibrate"]
    BY <1>2, <1>4, <1>5, <1>8, <1>13 DEF Enter, Download
  <2>2. /\ SameRun(c, d) /\ c.pc \in {"enter", "download"} /\ d.pc \in {"download", "calibrate"}
        /\ d.seen = {} /\ d.plan = c.plan /\ d.art = c.art
    BY <1>8, <2>1 DEF Stands, Unread, CommandFields, SameRun
  <2>3. Stands(d)'
    BY <1>9, <2>2, SameRunKnows DEF Stands, Unread, Characterizing, Ramping, SameRun
  <2> QED BY <1>10, <2>2, <2>3
<1>14. CASE Calibrate(p)
  <2>1. CASE Calibrations(c.eng, c.authority, c.build) # {}
    <3>1. PICK seen : seen = UNION {k.seen : k \in Calibrations(c.eng, c.authority, c.build)}
      OBVIOUS
    <3>2. d = [c EXCEPT !.pc = "identify", !.seen = seen] /\ c.pc = "calibrate"
      BY <1>2, <1>4, <1>5, <1>14, <2>1, <3>1 DEF Calibrate
    <3>3. /\ SameRun(c, d) /\ c.pc = "calibrate" /\ d.pc = "identify" /\ d.seen = seen
          /\ d.plan = c.plan /\ d.art = c.art
      BY <1>8, <3>2 DEF Stands, CommandFields, SameRun
    <3>4. \A s \in seen : s.build = c.build /\ s.authority = c.authority /\ s.art = 0
      BY <3>1 DEF EvidenceInv, CalibrationsFit, Calibrations
    <3>5. \A s \in d.seen : Knows(d, s)'
      BY <3>3, <3>4 DEF Knows, SameRun, SameBuildOf, SameAuthorityOf
    <3>6. Stands(d)'
      BY <1>9, <3>3, SameRunKnows DEF Stands, Unread, Characterizing, Ramping, SameRun
    <3> QED BY <1>10, <3>3, <3>5, <3>6
  <2>2. CASE ~(Calibrations(c.eng, c.authority, c.build) # {})
    <3>1. d = [c EXCEPT !.pc = "calibrating"] /\ c.pc = "calibrate" /\ n = Met(c.eng, 0)
          /\ world' = world
      BY <1>2, <1>4, <1>5, <1>6, <1>14, <2>2 DEF Calibrate, Work
    <3>2. /\ SameRun(c, d) /\ c.pc = "calibrate" /\ d.pc = "calibrating" /\ d.seen = {}
          /\ d.plan = c.plan /\ d.art = c.art
      BY <1>8, <3>1 DEF Stands, CommandFields, SameRun, Unread
    <3>3. Stands(d)'
      BY <1>9, <3>2, SameRunKnows DEF Stands, Unread, Characterizing, Ramping, SameRun
    <3>4. /\ {"build", "authority", "art"} \subseteq DOMAIN n /\ n.art = 0
          /\ n.build = world'.build[d.eng] /\ n.authority = Authority(d.eng)'
      BY <3>1, <3>2 DEF Met, SameRun, Authority
    <3>5. Knows(d, n)'
      <4>1. n.build = d.build \/ d.build < n.build
        BY <1>1, <3>3, <3>4 DEF Stands, BuildsFit
      <4>2. n.authority = d.authority \/ Overtaken(d)'
        BY <3>2, <3>3, <3>4 DEF Stands
      <4> QED BY <3>2, <3>4, <4>1, <4>2
              DEF Knows, SameBuildOf, SameAuthorityOf, Rebuilt
    <3> QED BY <1>5, <1>6, <3>2, <3>3, <3>4, <3>5, Concludes
  <2> QED BY <2>1, <2>2
<1>15. CASE CalibrationEnds(p)
  <2>1. PICK ok \in BOOLEAN :
            d = [c EXCEPT !.pc = "identify", !.measured = ok, !.seen = IF ok THEN Seen(p) ELSE {}]
    BY <1>2, <1>4, <1>5, <1>15 DEF CalibrationEnds
  <2>2. c.pc = "calibrating" /\ world' = world
    BY <1>4, <1>15 DEF CalibrationEnds
  <2>3. SameRun(c, d) /\ d.pc = "identify" /\ d.seen \subseteq Seen(p) /\ d.plan = c.plan
        /\ d.art = c.art
    BY <1>8, <2>1 DEF Stands, CommandFields, SameRun
  <2>4. PICK k : k = [m EXCEPT !.authority = Authority(c.eng)]
    OBVIOUS
  <2>5. Seen(p) = {m, k}
    BY <1>4, <1>7, <2>4 DEF Seen
  <2>6. k.build = m.build /\ k.art = m.art /\ k.authority = Authority(c.eng)
    BY <1>8, <2>2, <2>4
  <2>7. \A s \in {m, k} : SameBuildOf(c, s) /\ SameAuthorityOf(c, s) /\ s.art = 0
    BY <1>8, <2>2, <2>6 DEF Knows, Stands, SameBuildOf, SameAuthorityOf
  <2>8. \A s \in d.seen : SameBuildOf(d, s)' /\ SameAuthorityOf(d, s)' /\ s.art = 0
    BY <2>2, <2>3, <2>5, <2>7
       DEF SameRun, SameBuildOf, SameAuthorityOf, Rebuilt, Overtaken
  <2>9. \A s \in d.seen : Knows(d, s)'
    BY <2>3, <2>8 DEF Knows
  <2>10. Stands(d)'
    BY <1>9, <2>2, <2>3, SameRunKnows DEF Stands, Unread, Characterizing, Ramping, SameRun
  <2> QED BY <1>10, <2>3, <2>9, <2>10
<1>16. CASE Identify(p)
  <2>1. PICK art : /\ Finish(p) \/ cmd' = [cmd EXCEPT ![p].art = art, ![p].pc = "pin"]
                   /\ At(p, "identify") /\ world' = world
    BY <1>16 DEF Identify
  <2>2. CASE ~Finish(p)
    <3>1. d = [c EXCEPT !.art = art, !.pc = "pin"] /\ c.pc = "identify" /\ world' = world
      BY <1>2, <1>4, <1>5, <2>1, <2>2
    <3>2. SameRun(c, d) /\ d.pc = "pin" /\ d.seen = c.seen /\ d.plan = c.plan
      BY <1>8, <3>1 DEF Stands, CommandFields, SameRun
    <3>3. \A s \in d.seen : SameBuildOf(d, s)' /\ SameAuthorityOf(d, s)' /\ s.art = 0
      BY <1>8, <3>1, <3>2
         DEF Knows, SameRun, SameBuildOf, SameAuthorityOf, Rebuilt, Overtaken
    <3>4. \A s \in d.seen : Knows(d, s)'
      BY <3>2, <3>3 DEF Knows
    <3>5. Stands(d)'
      BY <1>9, <3>1, <3>2
         DEF Stands, Unread, Characterizing, Ramping, SameRun, Overtaken
    <3> QED BY <1>10, <3>2, <3>4, <3>5
  <2> QED BY <1>3, <2>2
<1>17. CASE Pin(p)
  <2>1. CASE ~Finish(p)
    <3>1. d = [c EXCEPT !.pc = "load"] /\ c.pc = "pin" /\ world' = world /\ ArtifactMatches(c.art)
      BY <1>2, <1>4, <1>5, <1>17, <2>1 DEF Pin
    <3>2. /\ SameRun(c, d) /\ c.pc = "pin" /\ d.pc = "load" /\ d.seen = c.seen
          /\ d.plan = c.plan /\ d.art = c.art
      BY <1>8, <3>1 DEF Stands, CommandFields, SameRun
    <3>3. world'.local => world'.main = d.art
      BY <3>1, <3>2 DEF ArtifactMatches, Cached
    <3>4. Stands(d)'
      BY <1>9, <3>2, <3>3, SameRunKnows DEF Stands, Unread, Characterizing, Ramping, SameRun
    <3>5. \A s \in d.seen : Knows(d, s)'
      BY <1>8, <1>9, <3>1, <3>2, SameRunKnows DEF Knows
    <3> QED BY <1>10, <3>2, <3>4, <3>5
  <2> QED BY <1>3, <2>1
<1>18. CASE Load(p)
  <2>1. d = [c EXCEPT !.pc = "working"] /\ c.pc = "load" /\ n = Met(c.eng, Loaded(c.art))
        /\ world' = world
    BY <1>2, <1>4, <1>5, <1>6, <1>18 DEF Load, Work
  <2>2. /\ SameRun(c, d) /\ c.pc = "load" /\ d.pc = "working" /\ d.seen = c.seen
        /\ d.plan = c.plan /\ d.art = c.art
    BY <1>8, <2>1 DEF Stands, CommandFields, SameRun
  <2>3. Stands(d)'
    BY <1>9, <2>2, SameRunKnows DEF Stands, Unread, Characterizing, Ramping, SameRun
  <2>4. \A s \in d.seen : Knows(d, s)'
    BY <1>8, <1>9, <2>1, <2>2, SameRunKnows DEF Knows
  <2>5. /\ {"build", "authority", "art"} \subseteq DOMAIN n
        /\ n.build = world'.build[d.eng] /\ n.authority = Authority(d.eng)'
        /\ n.art = IF world.local THEN world.main ELSE c.art
    BY <2>1, <2>2 DEF Met, SameRun, Authority, Loaded
  <2>6. n.build = d.build \/ d.build < n.build
    BY <1>1, <2>3, <2>5 DEF Stands, BuildsFit
  <2>7. n.authority = d.authority \/ Overtaken(d)'
    BY <2>2, <2>3, <2>5 DEF Stands
  <2>8. n.art = d.art \/ Replaced(d)'
    BY <1>8, <2>1, <2>2, <2>5, SameRunKnows DEF Stands, Ramping, Replaced
  <2>9. Knows(d, n)'
    BY <2>2, <2>5, <2>6, <2>7, <2>8
       DEF Knows, SameBuildOf, SameAuthorityOf, SameWeights, Rebuilt
  <2> QED BY <1>5, <1>6, <2>3, <2>4, <2>5, <2>9, Concludes
<1>19. CASE WorkerEnds(p)
  <2>1. PICK next \in {"load", "audit"} :
            d = [c EXCEPT !.seen = c.seen \cup Seen(p), !.loads = c.loads + 1, !.pc = next]
    BY <1>2, <1>4, <1>5, <1>8, <1>19 DEF WorkerEnds
  <2>2. c.pc = "working" /\ world' = world
    BY <1>4, <1>19 DEF WorkerEnds
  <2>3. SameRun(c, d) /\ d.pc \in {"load", "audit"} /\ d.seen = c.seen \cup Seen(p)
        /\ d.plan = c.plan /\ d.art = c.art
    BY <1>8, <2>1 DEF Stands, CommandFields, SameRun
  <2>4. PICK k : k = [m EXCEPT !.authority = Authority(c.eng)]
    OBVIOUS
  <2>5. Seen(p) = {m, k}
    BY <1>4, <1>7, <2>4 DEF Seen
  <2>6. k.build = m.build /\ k.art = m.art /\ k.authority = Authority(c.eng)
    BY <1>8, <2>2, <2>4
  <2>7. Knows(c, m) /\ Knows(c, k)
    BY <1>8, <2>2, <2>6 DEF Knows, Stands, SameBuildOf, SameAuthorityOf, SameWeights
  <2>8. \A s \in d.seen : Knows(d, s)'
    BY <1>8, <1>9, <2>2, <2>3, <2>5, <2>7, SameRunKnows DEF Knows
  <2>9. Stands(d)'
    BY <1>9, <2>2, <2>3, SameRunKnows DEF Stands, Unread, Characterizing, Ramping, SameRun
  <2> QED BY <1>10, <2>3, <2>8, <2>9
<1>20. CASE AuditAfter(p)
  <2>1. /\ d = [c EXCEPT !.after = world.build[c.eng], !.tracked = FALSE, !.pc = "artifact"]
        /\ world' = world
    BY <1>2, <1>4, <1>5, <1>20 DEF AuditAfter
  <2>2. c.pc = "audit" /\ SameRun(c, d) /\ d.pc = "artifact" /\ d.seen = c.seen /\ d.plan = c.plan
        /\ d.art = c.art /\ d.after = world.build[c.eng]
    BY <1>4, <1>8, <1>20, <2>1 DEF Stands, CommandFields, SameRun, AuditAfter
  <2>3. Rebuilt(c) => d.after # d.build
    BY <1>1, <1>8, <2>2 DEF Rebuilt, SameRun, Stands, BuildsFit
  <2>4. \A s \in d.seen : Knows(d, s)'
    <3> SUFFICES ASSUME NEW s \in d.seen PROVE Knows(d, s)'
      OBVIOUS
    <3>1. Knows(c, s) /\ Knows(c, s)'
      BY <1>8, <1>9, <2>2
    <3>2. s.build = d.build \/ d.after # d.build
      BY <2>2, <2>3, <3>1 DEF Knows, SameBuildOf, SameRun
    <3>3. /\ SameBuildOf(d, s)' /\ SameAuthorityOf(d, s)'
          /\ s.art = 0 \/ SameWeights(d, s)'
      BY <2>2, <3>1, SameRunKnows DEF Knows
    <3> QED BY <2>2, <3>2, <3>3 DEF Knows
  <2>5. Stands(d)'
    BY <1>9, <2>2, SameRunKnows DEF Stands, Unread, Characterizing, Ramping, SameRun
  <2> QED BY <1>10, <2>2, <2>4, <2>5
<1>21. CASE ArtifactAfter(p)
  <2>1. CASE ~Finish(p)
    <3>1. PICK tracked : d = [c EXCEPT !.tracked = tracked, !.pc = "again"]
      BY <1>2, <1>4, <1>5, <1>8, <1>21, <2>1 DEF ArtifactAfter
    <3>2. c.pc = "artifact" /\ world' = world /\ SameArtifact(c) /\ SameBuild(c)
      BY <1>4, <1>21, <2>1 DEF ArtifactAfter
    <3>3. SameRun(c, d) /\ d.pc = "again" /\ d.seen = c.seen /\ d.plan = c.plan /\ d.art = c.art
      BY <1>8, <3>1 DEF Stands, CommandFields, SameRun
    <3>4. world.local => world.main = c.art
      BY <1>8, <3>2 DEF SameArtifact, ArtifactIdentityForPlan, Selected, Stands
    <3>5. ~Replaced(c) /\ c.after = c.build
      BY <1>1, <1>8, <3>2, <3>4 DEF Replaced, WorldFits, SameBuild
    <3>6. \A s \in d.seen : s.build = d.build /\ s.art \in {0, d.art}
      BY <1>8, <3>2, <3>3, <3>5 DEF Knows, SameWeights, SameRun
    <3>7. \A s \in d.seen : Knows(d, s)'
      BY <1>8, <1>9, <3>2, <3>3, <3>6, SameRunKnows DEF Knows
    <3>8. Stands(d)'
      BY <1>9, <3>2, <3>3, SameRunKnows DEF Stands, Unread, Characterizing, Ramping, SameRun
    <3> QED BY <1>10, <3>3, <3>7, <3>8
  <2> QED BY <1>3, <2>1
<1>22. CASE AuthorityAfter(p)
  <2>1. CASE ~Finish(p)
    <3>1. PICK next \in Saving : d = [c EXCEPT !.tracked = FALSE, !.pc = next]
      BY <1>2, <1>4, <1>5, <1>8, <1>22, <2>1 DEF AuthorityAfter
    <3>2. c.pc = "again" /\ world' = world /\ Authority(c.eng) = c.authority
      BY <1>4, <1>22, <2>1 DEF AuthorityAfter, SameAuthority
    <3>3. SameRun(c, d) /\ d.pc \in Saving /\ d.seen = c.seen /\ d.plan = c.plan /\ d.art = c.art
      BY <1>8, <3>1 DEF Stands, CommandFields, SameRun
    <3>4. ~Overtaken(c)
      BY <1>1, <3>2 DEF Overtaken, Authority, WorldFits
    <3>5. \A s \in d.seen : s.authority = d.authority
      BY <1>8, <3>3, <3>4 DEF Knows, SameAuthorityOf, SameRun
    <3>6. \A s \in d.seen : Knows(d, s)'
      BY <1>8, <1>9, <3>2, <3>3, <3>5, SameRunKnows DEF Knows, SameRun
    <3>7. Stands(d)'
      BY <1>9, <3>2, <3>3, SameRunKnows DEF Stands, Unread, Characterizing, Ramping, SameRun
    <3> QED BY <1>10, <3>3, <3>6, <3>7
  <2> QED BY <1>3, <2>1
<1>23. CASE SaveCalibration(p)
  <2>1. d = [c EXCEPT !.pc = "saveRow"] /\ c.pc = "saveCalibration"
    BY <1>2, <1>4, <1>5, <1>23 DEF SaveCalibration
  <2>2. /\ SameRun(c, d) /\ c.pc = "saveCalibration" /\ d.pc = "saveRow" /\ d.seen = c.seen
        /\ d.plan = c.plan /\ d.art = c.art
    BY <1>8, <2>1 DEF Stands, CommandFields, SameRun
  <2>3. \A s \in d.seen : Knows(d, s)'
    BY <1>8, <1>9, <2>1, <2>2, SameRunKnows DEF Knows, SameRun
  <2>4. Stands(d)'
    BY <1>9, <2>2, SameRunKnows DEF Stands, Unread, Characterizing, Ramping, SameRun
  <2> QED BY <1>10, <2>2, <2>3, <2>4
<1>24. CASE SaveRow(p)
  BY <1>3, <1>24 DEF SaveRow
<1>25. c.pc \in Characterizing
  BY <1>8 DEF Stands
<1>26. ~ \/ ScanAuthority(p) \/ Lookup(p) \/ Pick(p) \/ RecheckSelection(p) \/ Consent(p)
         \/ LiveAuthority(p) \/ Show(p) \/ StoreScore(p) \/ ServeLookup(p) \/ ServeCheck(p)
         \/ StartServer(p) \/ ServerReady(p) \/ RemoveEngine(p) \/ CreateEngine(p)
  BY <1>4, <1>25 DEF Characterizing, Unread, Ramping, ScanAuthority, Lookup, Pick,
     RecheckSelection, Consent, LiveAuthority, Show, StoreScore, Give, ServeLookup, ServeCheck,
     StartServer, ServerReady, RemoveEngine, CreateEngine
<1> QED
  BY <1>11, <1>12, <1>13, <1>14, <1>15, <1>16, <1>17, <1>18, <1>19, <1>20, <1>21, <1>22, <1>23,
     <1>24, <1>26 DEF Step

\* What a step stores was measured in one world.
LEMMA StepStores ==
    ASSUME IInv, EvidenceInv, NEW p \in Procs, Step(p)
    PROVE  CalibrationsFit' /\ EvidenceIsOneWorld'
<1>1. CalibrationsFit /\ EvidenceIsOneWorld
  BY DEF EvidenceInv
<1>2. UNCHANGED <<rows, cals>> => CalibrationsFit' /\ EvidenceIsOneWorld'
  BY <1>1 DEF CalibrationsFit, EvidenceIsOneWorld
<1>3. PICK c : c = cmd[p]
  OBVIOUS
<1>4. c.pc \in Saving => \A s \in c.seen : /\ s.build = c.build /\ s.authority = c.authority
                                          /\ s.art \in {0, c.art}
  BY <1>3 DEF EvidenceInv, EvidenceFits, IInv, PlaceFitsKind, Knows
<1>5. CASE SaveCalibration(p)
  <2>1. c.pc \in Saving /\ rows' = rows
    BY <1>3, <1>5 DEF SaveCalibration
  <2>2. PICK k : k = [eng |-> c.eng, authority |-> c.authority, build |-> c.build,
                      seen |-> {s \in c.seen : s.art = 0}]
    OBVIOUS
  <2>3. cals' \subseteq cals \cup {k}
    BY <1>3, <1>5, <2>2 DEF SaveCalibration
  <2>4. \A s \in k.seen : s.build = k.build /\ s.authority = k.authority /\ s.art = 0
    BY <1>4, <2>1, <2>2
  <2>5. CalibrationsFit'
    BY <1>1, <2>3, <2>4 DEF CalibrationsFit
  <2> QED BY <1>1, <2>1, <2>5 DEF EvidenceIsOneWorld, CalibrationsFit
<1>6. CASE SaveRow(p)
  <2>1. c.pc \in Saving /\ cals' = cals
    BY <1>3, <1>6 DEF SaveRow
  <2>2. PICK row : /\ row.art = c.art /\ row.authority = c.authority /\ row.build = c.build
                   /\ row.seen = c.seen /\ rows' \subseteq rows \cup {row}
    <3>1. PICK safe, rank, row :
              /\ row = [eng |-> c.eng, art |-> c.art, authority |-> c.authority,
                        build |-> c.build, safe |-> safe, seen |-> c.seen, rank |-> rank]
              /\ rows' \subseteq rows \cup {row}
      BY <1>3, <1>6 DEF SaveRow
    <3> QED BY <3>1
  <2>3. \A s \in row.seen : /\ s.build = row.build /\ s.authority = row.authority
                            /\ s.art \in {0, row.art}
    BY <1>4, <2>1, <2>2
  <2>4. \A r \in rows' : r \in rows \/ r = row
    BY <2>2
  <2> QED BY <1>1, <2>1, <2>3, <2>4 DEF EvidenceIsOneWorld, CalibrationsFit
<1>7. CASE ReadAuthority(p) \/ PrefetchPlan(p) \/ Enter(p) \/ Calibrate(p) \/ Download(p)
           \/ CalibrationEnds(p) \/ Identify(p) \/ Pin(p) \/ Load(p) \/ WorkerEnds(p)
  BY <1>2, <1>7 DEF ReadAuthority, PrefetchPlan, Enter, Calibrate, CalibrationEnds, Identify, Pin,
                    Download, Load, WorkerEnds, Work, Silent
<1>8. CASE AuditAfter(p) \/ ArtifactAfter(p) \/ AuthorityAfter(p)
           \/ ScanAuthority(p) \/ Lookup(p) \/ Pick(p) \/ RecheckSelection(p)
  BY <1>2, <1>8 DEF AuditAfter, ArtifactAfter, AuthorityAfter, ScanAuthority, Lookup, Pick,
                    RecheckSelection, Silent
<1>9. CASE Consent(p) \/ LiveAuthority(p) \/ Show(p) \/ StoreScore(p) \/ ServeLookup(p)
           \/ ServeCheck(p) \/ StartServer(p) \/ ServerReady(p) \/ RemoveEngine(p)
           \/ CreateEngine(p)
  BY <1>2, <1>9 DEF Consent, LiveAuthority, Show, StoreScore, Give, ServeLookup, ServeCheck,
                    StartServer, ServerReady, RemoveEngine, CreateEngine, Work, Silent
<1> QED BY <1>5, <1>6, <1>7, <1>8, <1>9 DEF Step

\* A characterization begins knowing the build it was started with.
LEMMA CommandKnows ==
    ASSUME IInv, EvidenceInv, NEW p \in Procs, Command(p)
    PROVE  EvidenceFits(p)'
<1>1. DOMAIN cmd = Procs /\ BuildsFit
  BY DEF IInv, Commanded, EvidenceInv
<1>2. ASSUME NEW e \in Engines, Characterize(p, e) PROVE EvidenceFits(p)'
  <2>1. PICK d : d = cmd'[p]
    OBVIOUS
  <2>2. d = [New("characterize", e, "authority") EXCEPT !.build = world.build[e]]
        /\ world' = world
    BY <1>1, <1>2, <2>1 DEF Characterize, Begin
  <2>3. /\ CommandFields \subseteq DOMAIN d /\ d.pc = "authority" /\ d.eng = e /\ d.plan = 0
        /\ d.build = world'.build[e] /\ d.seen = {}
    BY <2>2 DEF New, CommandFields
  <2>4. Stands(d)'
    BY <1>1, <2>2, <2>3 DEF Stands, BuildsFit, Characterizing, Unread, Ramping
  <2> QED BY <2>1, <2>3, <2>4, Concludes
<1>3. ASSUME NEW e \in Engines, Serve(p, e) \/ Install(p, e) \/ Uninstall(p, e)
      PROVE  EvidenceFits(p)'
  BY <1>1, <1>3 DEF Serve, Install, Uninstall, Begin, New, EvidenceFits
<1>4. ASSUME NEW kind \in {"run", "benchmark"}, NEW todo, NEW pinned, Select(p, kind, todo, pinned)
      PROVE  EvidenceFits(p)'
  <2>1. cmd'[p].kind = kind
    BY <1>1, <1>4 DEF Select, Begin, New
  <2> QED BY <2>1 DEF EvidenceFits
<1> QED BY <1>2, <1>3, <1>4 DEF Command

LEMMA EvidenceKept == IInv /\ EvidenceInv /\ [Next]_vars => EvidenceInv'
<1> SUFFICES ASSUME IInv, EvidenceInv, [Next]_vars PROVE EvidenceInv'
  OBVIOUS
<1>1. /\ WorldFits /\ BuildsFit /\ CalibrationsFit /\ EvidenceIsOneWorld
      /\ \A q \in Procs : EvidenceFits(q)
  BY DEF EvidenceInv
<1>2. UNCHANGED <<rows, cals>> => CalibrationsFit' /\ EvidenceIsOneWorld'
  BY <1>1 DEF CalibrationsFit, EvidenceIsOneWorld
<1>3. world' = world => WorldGrows /\ BuildsFit' /\ BuildsGrow
  BY <1>1 DEF WorldGrows, WorldFits, BuildsFit, BuildsGrow
<1>4. ASSUME NEW p \in Procs, Command(p) PROVE EvidenceInv'
  <2>1. /\ UNCHANGED <<world, rows, cals, worker>>
        /\ \A q \in Procs \ {p} : cmd'[q] = cmd[q]
    BY <1>4 DEF Command, Characterize, Serve, Install, Uninstall, Select, Begin, IInv, Commanded
  <2>2. \A q \in Procs \ {p} : EvidenceFits(q)'
    BY <1>1, <1>3, <2>1, OthersKnow
  <2> QED BY <1>2, <1>3, <1>4, <2>1, <2>2, CommandKnows DEF EvidenceInv, WorldGrows
<1>5. ASSUME NEW p \in Procs, Step(p) PROVE EvidenceInv'
  <2>1. WorldGrows /\ BuildsFit' /\ (BuildsGrow \/ RemoveEngine(p))
    BY <1>1, <1>5, StepGrows, StepBuilds
  <2>2. \A q \in Procs \ {p} : cmd'[q] = cmd[q] /\ worker'[q] = worker[q]
    BY <1>5, StepMoves DEF Ended, Moved, OwnWorker, IInv, Commanded
  <2>3. \A q \in Procs \ {p} : EvidenceFits(q)'
    <3>1. CASE BuildsGrow
      BY <1>1, <2>1, <2>2, <3>1, OthersKnow
    <3>2. CASE RemoveEngine(p)
      <4>1. \A q \in Procs \ {p} : cmd[q].kind # "characterize"
        BY <3>2 DEF RemoveEngine, IInv, PlaceFitsKind, LockIsHeld
      <4> QED BY <2>2, <4>1 DEF EvidenceFits
    <3> QED BY <2>1, <3>1, <3>2
  <2>4. cmd'[p].kind = cmd[p].kind \/ cmd'[p].kind = "none"
    BY <1>5, StepMoves DEF Ended, Moved, IInv, Commanded, Idle
  <2>5. EvidenceFits(p)'
    <3>1. CASE cmd[p].kind = "characterize"
      BY <1>5, <3>1, StepKnows
    <3>2. CASE cmd[p].kind # "characterize"
      BY <2>4, <3>2 DEF EvidenceFits
    <3> QED BY <3>1, <3>2
  <2> QED BY <1>5, <2>1, <2>3, <2>5, StepStores DEF EvidenceInv, WorldGrows
<1>6. ASSUME NEW p \in Procs, Fail(p) \/ Kill(p) \/ OrphanEnds(p) PROVE EvidenceInv'
  <2>1. /\ UNCHANGED <<world, rows, cals>> /\ cmd'[p].kind = "none"
        /\ \A q \in Procs \ {p} : cmd'[q] = cmd[q] /\ worker'[q] = worker[q]
    BY <1>6 DEF Fail, Kill, OrphanEnds, Finish, Idle, IInv, Commanded
  <2>2. \A q \in Procs \ {p} : EvidenceFits(q)'
    BY <1>1, <1>3, <2>1, OthersKnow
  <2>3. EvidenceFits(p)'
    BY <2>1 DEF EvidenceFits
  <2> QED BY <1>2, <1>3, <2>1, <2>2, <2>3 DEF EvidenceInv, WorldGrows
<1>7. CASE Outside \/ UNCHANGED vars
  <2>1. WorldGrows /\ BuildsFit' /\ BuildsGrow /\ UNCHANGED <<cmd, worker, rows, cals>>
    <3>1. CASE Outside
      <4>1. UNCHANGED <<rows, cals>>
        BY <3>1
           DEF Outside, EngineChanges, AuthorityChanges, HubPublishes, MainMoves, CacheEvicts,
                    FileReplaced, Changed
      <4> QED BY <1>1, <3>1, <4>1, OutsideGrows, OutsideBuilds
    <3>2. CASE UNCHANGED vars
      BY <1>3, <3>2 DEF vars
    <3> QED BY <1>7, <3>1, <3>2
  <2>2. \A q \in Procs : EvidenceFits(q)'
    BY <1>1, <2>1, OthersKnow
  <2> QED BY <1>2, <2>1, <2>2 DEF EvidenceInv, WorldGrows
<1> QED BY <1>4, <1>5, <1>6, <1>7 DEF Next

\* What is stored as evidence was measured in one world: every worker of a
\* characterization, and of the calibration behind it, ran the build, under the
\* authority and on the weights the row names, whatever changed between the
\* readings (render_characterize's comparisons before saving).
THEOREM EvidenceAlwaysOneWorld == Spec => []EvidenceIsOneWorld
<1>1. EvidenceInv => EvidenceIsOneWorld
  BY DEF EvidenceInv
<1> QED BY InitHolds, NextKeeps, EvidenceBegins, EvidenceKept, <1>1, PTL DEF Spec

HIDE DEF Measuring, Locked, At, Saving, Calibrating

-----------------------------------------------------------------------------
(* The workers: a run of a script predicts, measures and answers as it      *)
(* should for all sizes, however the host is disturbed.                     *)

\* A finite set that is not empty has a member whose value is the largest.
LEMMA FiniteSetsHaveTops ==
    ASSUME NEW S, IsFiniteSet(S), S # {}, NEW f, \A x \in S : f[x] \in Int
    PROVE  \E x \in S : \A y \in S : f[y] <= f[x]
<1> DEFINE Tops(t) == {x \in t : \A y \in t : f[y] <= f[x]}
           Bad == {t \in SUBSET S : t # {} /\ Tops(t) = {}}
<1> SUFFICES ASSUME Bad # {} PROVE FALSE
  OBVIOUS
<1>1. IsWellFoundedOn(StrictSubsetOrdering(S), SUBSET S)
  <2>1. FiniteSubsetsOf(S) = SUBSET S
    BY FS_FiniteSubsetsOfFinite
  <2>2. IsWellFoundedOn(StrictSubsetOrdering(S), FiniteSubsetsOf(S))
    BY FS_StrictSubsetOrderingWellFounded
  <2> QED BY <2>1, <2>2, Zenon
<1>2. \E t \in Bad : \A u \in Bad : <<u, t>> \notin StrictSubsetOrdering(S)
  <2> HIDE DEF Bad
  <2>1. Bad \subseteq SUBSET S
    BY DEF Bad
  <2> QED BY <1>1, <2>1, WFMin
<1>3. PICK t \in Bad : \A u \in Bad : <<u, t>> \notin StrictSubsetOrdering(S)
  BY <1>2
<1>4. PICK x \in t : TRUE
  BY <1>3
<1>5. CASE t = {x}
  BY <1>3, <1>4, <1>5
<1>6. CASE t # {x}
  <2> DEFINE u == t \ {x}
  <2>1. u # {} /\ u \in SUBSET S /\ u \in SUBSET t /\ u # t
    BY <1>3, <1>4, <1>6
  <2>2. u \notin Bad
    BY <1>3, <2>1 DEF StrictSubsetOrdering
  <2>3. PICK z \in u : \A y \in u : f[y] <= f[z]
    BY <2>1, <2>2
  <2>4. f[x] \in Int /\ f[z] \in Int /\ \A y \in u : f[y] \in Int
    BY <1>3, <1>4, <2>1, <2>3
  <2>5. CASE f[x] <= f[z]
    BY <1>3, <2>3, <2>5
  <2>6. CASE f[z] <= f[x]
    <3>1. \A y \in t : f[y] <= f[x]
      BY <2>3, <2>4, <2>6
    <3> QED BY <1>3, <1>4, <3>1
  <2> QED BY <2>4, <2>5, <2>6
<1> QED BY <1>5, <1>6

\* Max of a finite set of integers is its largest member.
LEMMA MaxIsTop ==
    ASSUME NEW S, IsFiniteSet(S), S # {}, S \subseteq Int
    PROVE  Max(S) \in S /\ \A y \in S : y <= Max(S)
<1> DEFINE f == [x \in S |-> x]
<1>1. PICK x \in S : \A y \in S : f[y] <= f[x]
  <2>1. \A x \in S : f[x] \in Int
    OBVIOUS
  <2> HIDE DEF f
  <2> QED BY <2>1, FiniteSetsHaveTops
<1>2. \A y \in S : x >= y
  BY <1>1
<1> QED BY <1>2 DEF Max

\* The constants are sizes.
LEMMA Sizes ==
    /\ Total \in Nat /\ VTotal \in Nat /\ VCap \in Nat /\ ModelWeights \in Nat
    /\ Overhead \in Nat /\ WiredFloor \in Nat /\ Slope \in Nat /\ Floor \in Nat
    /\ FitContext \in Nat /\ Layers \in Nat /\ Layers >= 1
BY WorkersAssumption

LEMMA Products ==
    /\ \A a, b \in Nat : a * b \in Nat
    /\ \A a, b \in Int : a * b \in Int
    /\ \A a, b, c \in Nat : a <= b => a * c <= b * c /\ c * a <= c * b
  OBVIOUS

\* A layer's share of the cache is a size, and grows with the context.
LEMMA LayersGrow ==
    /\ \A c \in Nat : PerLayer(c) \in Nat /\ Slope * c \in Nat
    /\ \A c, d \in Nat : c <= d => PerLayer(c) <= PerLayer(d)
    /\ \A c \in Nat : Layers * (PerLayer(c) - PerLayer(0)) <= Slope * c
<1>1. \A m \in Nat : /\ m \div Layers \in Nat /\ Layers * (m \div Layers) <= m
  BY Sizes
<1>2. \A m, n \in Nat : m <= n => m \div Layers <= n \div Layers
  BY Sizes
<1>3. \A c \in Nat : Slope * c \in Nat
  BY Sizes, Products
<1>4. \A c, d \in Nat : c <= d => Slope * c <= Slope * d
  BY Sizes, Products
<1>5. PerLayer(0) = ModelWeights \div Layers
  <2>1. Slope * 0 = 0
    BY Sizes
  <2>2. 0 \div Layers = 0
    BY Sizes
  <2>3. ModelWeights \div Layers \in Nat
    BY <1>1, Sizes
  <2> QED BY <2>1, <2>2, <2>3 DEF PerLayer
<1>6. ASSUME NEW c \in Nat
      PROVE /\ PerLayer(c) = ModelWeights \div Layers + (Slope * c) \div Layers
            /\ (Slope * c) \div Layers \in Nat /\ ModelWeights \div Layers \in Nat
            /\ Layers * ((Slope * c) \div Layers) <= Slope * c
  BY <1>1, <1>3, Sizes DEF PerLayer
<1>7. \A c \in Nat : PerLayer(c) \in Nat
  <2> TAKE c \in Nat
  <2> DEFINE x == (Slope * c) \div Layers
             y == ModelWeights \div Layers
  <2>1. x \in Nat /\ y \in Nat /\ PerLayer(c) = y + x
    BY <1>6
  <2> HIDE DEF x, y
  <2> QED BY <2>1
<1>8. ASSUME NEW c \in Nat, NEW d \in Nat, c <= d PROVE PerLayer(c) <= PerLayer(d)
  <2> DEFINE x == (Slope * c) \div Layers
             z == (Slope * d) \div Layers
             y == ModelWeights \div Layers
  <2>1. x \in Nat /\ y \in Nat /\ PerLayer(c) = y + x /\ z \in Nat /\ PerLayer(d) = y + z
    BY <1>6
  <2>2. x <= z
    BY <1>2, <1>3, <1>4, <1>8
  <2> HIDE DEF x, y, z
  <2> QED BY <2>1, <2>2
<1>9. ASSUME NEW c \in Nat PROVE Layers * (PerLayer(c) - PerLayer(0)) <= Slope * c
  <2> DEFINE x == (Slope * c) \div Layers
             y == ModelWeights \div Layers
  <2>1. x \in Nat /\ y \in Nat /\ PerLayer(c) = y + x /\ PerLayer(0) = y /\ Layers * x <= Slope * c
    BY <1>5, <1>6
  <2> HIDE DEF x, y
  <2>2. PerLayer(c) - PerLayer(0) = x
    BY <2>1
  <2> QED BY <2>1, <2>2
<1> QED BY <1>3, <1>7, <1>8, <1>9

\* The layers fitted are the most that stay within the budget.
LEMMA FittedIsMost ==
    ASSUME NEW c \in Nat, NEW vb \in Int
    PROVE  /\ FitLayers(c, vb) \in 0 .. Layers
           /\ \A n \in 0 .. Layers : VramEstimate(n, c) <= vb => n <= FitLayers(c, vb)
           /\ FitLayers(c, vb) > 0 => VramEstimate(FitLayers(c, vb), c) <= vb
           /\ \A n \in 0 .. Layers : VramEstimate(n, c) <= vb
                => VramEstimate(FitLayers(c, vb), c) <= vb
<1> DEFINE fits == {k \in 0 .. Layers : VramEstimate(k, c) <= vb}
<1>1. FitLayers(c, vb) = IF fits = {} THEN 0 ELSE Max(fits)
  BY DEF FitLayers
<1>2. IsFiniteSet(fits) /\ fits \subseteq Int
  <2>1. IsFiniteSet(0 .. Layers) /\ fits \in SUBSET (0 .. Layers)
    BY FS_Interval, Sizes
  <2> HIDE DEF fits
  <2>2. IsFiniteSet(fits)
    BY <2>1, FS_Subset
  <2> QED BY <2>1, <2>2
<1>3. CASE fits = {}
  BY <1>1, <1>3, Sizes
<1>4. CASE fits # {}
  <2>1. Max(fits) \in fits /\ \A n \in fits : n <= Max(fits)
    <3> HIDE DEF fits
    <3> QED BY <1>2, <1>4, MaxIsTop
  <2>2. FitLayers(c, vb) = Max(fits)
    BY <1>1, <1>4
  <2> QED BY <2>1, <2>2
<1> QED BY <1>3, <1>4

LEMMA BudgetsAreSizes ==
    /\ job \in Jobs => Budget \in Nat
    /\ \A v \in Nat : VramBudget(v) \in Nat
<1>1. \A a \in Int, b \in Int : SafeThreshold(a, b) \in Nat
  BY DEF SafeThreshold, Most
<1>2. Total \div 10 \in Nat
  BY Sizes
<1>3. ASSUME NEW cap \in Nat PROVE EffectiveMargin(Total, cap) \in Int
  <2> DEFINE t == Total \div 10
  <2>1. t \in Nat
    BY <1>2
  <2> HIDE DEF t
  <2>2. Most(1, t) \in Int
    BY <2>1 DEF Most
  <2>3. Least(cap, Most(1, t)) \in Int
    BY <2>2 DEF Least
  <2> QED BY <2>3 DEF t, EffectiveMargin
<1>4. ASSUME NEW v \in Nat PROVE VramBudget(v) \in Nat
  <2>1. VTotal - v \in Int
    BY Sizes
  <2> QED BY <1>1, <2>1, Sizes DEF VramBudget
<1>5. ASSUME job \in Jobs PROVE Budget \in Nat
  <2> DEFINE cap == job.margin
             total == Total
  <2>1. cap \in Nat
    BY <1>5, WorkersAssumption
  <2>2. \/ Budget = SafeThreshold(total, cap)
        \/ Budget = SafeThreshold(total, EffectiveMargin(Total, cap))
    BY DEF Budget
  <2>3. total \in Int
    BY Sizes
  <2> HIDE DEF cap, total
  <2>4. cap \in Int /\ EffectiveMargin(Total, cap) \in Int
    BY <1>3, <2>1
  <2> QED BY <1>1, <2>2, <2>3, <2>4
<1> QED BY <1>4, <1>5

LEMMA EstimatesAreInts ==
    /\ \A k \in Int, c \in Nat : VramEstimate(k, c) \in Int
    /\ \A k \in Int, c \in Nat, live \in Int : RamEstimate(k, c, live) \in Int
<1>1. ASSUME NEW k \in Int, NEW c \in Nat PROVE k * PerLayer(c) \in Int
  BY LayersGrow, Products
<1>2. ASSUME NEW k \in Int, NEW c \in Nat PROVE VramEstimate(k, c) \in Int
  BY <1>1, Sizes DEF VramEstimate
<1>3. ASSUME NEW k \in Int, NEW c \in Nat, NEW live \in Int PROVE RamEstimate(k, c, live) \in Int
  <2>1. Layers - k \in Int
    BY Sizes
  <2> QED BY <1>1, <2>1 DEF RamEstimate
<1> QED BY <1>2, <1>3

\* What any split passes with, the fitted one does; at worst it lands on the budget.
LEMMA FittedPasses ==
    ASSUME NEW c \in Nat, NEW ram \in Nat, NEW vram \in Nat, NEW n \in 0 .. Layers,
           Budget \in Nat, ~TwoWallGate(n, c, ram, vram)
    PROVE  LET k == FitLayers(c, VramBudget(vram))
           IN  ~TwoWallGate(k, c, ram, vram) \/ VramEstimate(k, c) = VramBudget(vram)
<1> DEFINE vb == VramBudget(vram)
           k == FitLayers(c, vb)
           share == PerLayer(c)
<1>1. vb \in Nat /\ share \in Nat
  BY BudgetsAreSizes, LayersGrow
<1>2. VramEstimate(n, c) < vb /\ RamEstimate(n, c, ram) < Budget
  <2>1. n \in Int /\ ram \in Int
    BY Sizes
  <2>2. VramEstimate(n, c) \in Int /\ RamEstimate(n, c, ram) \in Int
    BY <2>1, EstimatesAreInts
  <2> QED BY <1>1, <2>2 DEF TwoWallGate
<1>3. k \in 0 .. Layers /\ n <= k /\ VramEstimate(k, c) <= vb
  <2> HIDE DEF vb
  <2>1. VramEstimate(n, c) <= vb
    BY SMTT(20), <1>1, <1>2, EstimatesAreInts
  <2> QED BY <1>1, <2>1, FittedIsMost
<1>4. RamEstimate(k, c, ram) <= RamEstimate(n, c, ram)
  <2> HIDE DEF k, share
  <2>1. (Layers - k) * share <= (Layers - n) * share
    BY <1>1, <1>3, Products, Sizes
  <2>2. (Layers - k) * share \in Int /\ (Layers - n) * share \in Int
    BY <1>1, <1>3, Sizes
  <2> QED BY <2>1, <2>2 DEF RamEstimate, share
<1> HIDE DEF k
<1>5. k \in Int /\ n \in Int
  BY <1>3, Sizes
<1>6. VramEstimate(k, c) \in Int /\ RamEstimate(k, c, ram) \in Int /\ RamEstimate(n, c, ram) \in Int
  <2>1. ram \in Int
    OBVIOUS
  <2>2. VramEstimate(k, c) \in Int
    BY <1>5, EstimatesAreInts
  <2>3. \A m \in Int : RamEstimate(m, c, ram) \in Int
    BY <2>1, EstimatesAreInts
  <2> QED BY <1>5, <2>2, <2>3
<1>7. ~(RamEstimate(k, c, ram) >= Budget)
  BY <1>2, <1>4, <1>6
<1>8. ~(VramEstimate(k, c) >= vb) \/ VramEstimate(k, c) = vb
  BY <1>1, <1>3, <1>6 DEF k
<1> QED BY <1>7, <1>8 DEF TwoWallGate, k

\* The estimate at no context, with the slope added, covers what is predicted at any.
LEMMA EstimateCovers ==
    ASSUME NEW c \in 0 .. FitContext, NEW live \in Nat, NEW vb \in Int
    PROVE  RamEstimate(FitLayers(c, vb), c, live)
             <= RamEstimate(FitLayers(FitContext, vb), 0, live) + Slope * c
<1> DEFINE first == FitLayers(FitContext, vb)
           k == FitLayers(c, vb)
<1>1. c \in Nat /\ c <= FitContext
  BY Sizes
<1>2. first \in 0 .. Layers /\ k \in 0 .. Layers
  BY <1>1, FittedIsMost, Sizes
<1>3. first <= k
  <2>1. CASE first = 0
    BY <1>2, <2>1
  <2>2. CASE first > 0
    <3>1. VramEstimate(first, FitContext) <= vb
      BY <2>2, FittedIsMost, Sizes
    <3> HIDE DEF first
    <3>2. first * PerLayer(c) <= first * PerLayer(FitContext)
      <4>1. c \in Nat /\ FitContext \in Nat /\ first \in Nat
        BY <1>1, <1>2, Sizes
      <4>3. PerLayer(c) \in Nat /\ PerLayer(FitContext) \in Nat
        BY <4>1, LayersGrow
      <4>2. PerLayer(c) <= PerLayer(FitContext)
        BY <1>1, <4>1, LayersGrow
      <4> QED BY <4>1, <4>2, <4>3, Products
    <3>3. VramEstimate(first, c) <= vb
      BY <1>1, <1>2, <3>1, <3>2, LayersGrow, Sizes DEF VramEstimate
    <3> QED BY <1>1, <1>2, <3>3, FittedIsMost
  <2> QED BY <1>2, <2>1, <2>2
<1> DEFINE share == PerLayer(c)
           base == PerLayer(0)
           cache == Slope * c
<1>4. share \in Nat /\ base \in Nat /\ base <= share /\ cache \in Nat
  BY <1>1, LayersGrow
<1>5. Layers * (share - base) <= cache
  BY <1>1, LayersGrow
<1> HIDE DEF first, k, share, base, cache
<1>6. (Layers - k) * share <= (Layers - first) * share
  BY <1>2, <1>3, <1>4, Products, Sizes
<1>7. (Layers - first) * (share - base) <= Layers * (share - base)
  BY <1>2, <1>4, Products, Sizes
<1>8. (Layers - first) * share = (Layers - first) * base + (Layers - first) * (share - base)
  BY <1>2, <1>4, Sizes
<1>9. (Layers - k) * share <= (Layers - first) * base + cache
  BY <1>2, <1>4, <1>5, <1>6, <1>7, <1>8, Sizes
<1>10. RamEstimate(first, 0, live) = live + (Layers - first) * base
       /\ RamEstimate(k, c, live) = live + (Layers - k) * share
  BY DEF RamEstimate, share, base
<1>11. (Layers - first) * base \in Int /\ (Layers - k) * share \in Int
  BY <1>2, <1>4, Sizes
<1> QED BY <1>4, <1>9, <1>10, <1>11 DEF first, k, cache

-----------------------------------------------------------------------------
(* The median of an odd number of readings, and the vote it takes. *)

Above(s, x) == {i \in DOMAIN s : s[i] > x}
Below(s, x) == {i \in DOMAIN s : s[i] < x}

\* Of one reading or of three, one has fewer than half above and below it.
LEMMA MiddleExists ==
    ASSUME NEW n \in {1, 3}, NEW s, DOMAIN s = 1 .. n, \A i \in 1 .. n : s[i] \in Int
    PROVE  \E i \in 1 .. n : /\ 2 * Cardinality(Above(s, s[i])) < n
                             /\ 2 * Cardinality(Below(s, s[i])) < n
<1>1. ASSUME NEW t, NEW j, t \subseteq {j} PROVE Cardinality(t) \in Nat /\ Cardinality(t) <= 1
  <2>1. IsFiniteSet({j}) /\ Cardinality({j}) = 1
    BY FS_Singleton
  <2>2. IsFiniteSet(t) /\ Cardinality(t) <= 1
    BY <1>1, <2>1, FS_Subset
  <2> QED BY <2>2, FS_CardinalityType
<1>2. CASE n = 1
  <2>1. Above(s, s[1]) = {} /\ Below(s, s[1]) = {}
    BY <1>2 DEF Above, Below
  <2>2. Cardinality({}) = 0
    BY FS_EmptySet
  <2>3. 1 \in 1 .. n /\ 2 * 0 < n
    BY <1>2
  <2> QED BY <2>1, <2>2, <2>3
<1>3. CASE n = 3
  <2>1. \E i, j, k \in 1 .. 3 : s[j] <= s[i] /\ s[i] <= s[k] /\ {i, j, k} = 1 .. 3
    <3>1. s[1] \in Int /\ s[2] \in Int /\ s[3] \in Int /\ 1 .. 3 = {1, 2, 3}
      BY <1>3
    <3>2. CASE s[1] <= s[2] /\ s[2] <= s[3]
      BY <3>1, <3>2
    <3>3. CASE s[1] <= s[3] /\ s[3] <= s[2]
      BY <3>1, <3>3
    <3>4. CASE s[2] <= s[1] /\ s[1] <= s[3]
      BY <3>1, <3>4
    <3>5. CASE s[2] <= s[3] /\ s[3] <= s[1]
      BY <3>1, <3>5
    <3>6. CASE s[3] <= s[1] /\ s[1] <= s[2]
      BY <3>1, <3>6
    <3>7. CASE s[3] <= s[2] /\ s[2] <= s[1]
      BY <3>1, <3>7
    <3> QED BY <3>1, <3>2, <3>3, <3>4, <3>5, <3>6, <3>7
  <2>2. PICK i \in 1 .. 3, j \in 1 .. 3, k \in 1 .. 3 :
            s[j] <= s[i] /\ s[i] <= s[k] /\ {i, j, k} = 1 .. 3
    BY <2>1
  <2>3. Above(s, s[i]) \subseteq {k} /\ Below(s, s[i]) \subseteq {j}
    BY <1>3, <2>2 DEF Above, Below
  <2>4. Cardinality(Above(s, s[i])) \in Nat /\ Cardinality(Above(s, s[i])) <= 1
    BY <1>1, <2>3
  <2>5. Cardinality(Below(s, s[i])) \in Nat /\ Cardinality(Below(s, s[i])) <= 1
    BY <1>1, <2>3
  <2> QED BY <1>3, <2>4, <2>5
<1> QED BY <1>2, <1>3

\* It is one of the readings, and what most readings agree on.
LEMMA MedianVotes ==
    ASSUME NEW s \in Seq(Int), Len(s) \in {1, 3}
    PROVE  /\ \E i \in DOMAIN s : Median(s) = s[i]
           /\ \A x \in Int, good \in SUBSET DOMAIN s :
                (\A i \in good : s[i] = x) /\ 2 * Cardinality(good) > Len(s) => Median(s) = x
<1> DEFINE n == Len(s)
           IsMedian(x) == /\ 2 * Cardinality(Above(s, x)) < n
                          /\ 2 * Cardinality(Below(s, x)) < n
<1>1. DOMAIN s = 1 .. n /\ \A i \in 1 .. n : s[i] \in Int
  OBVIOUS
<1>2. \E i \in 1 .. n : IsMedian(s[i])
  <2> HIDE DEF n
  <2>1. n \in {1, 3}
    BY DEF n
  <2> QED BY <1>1, <2>1, MiddleExists
<1>3. Median(s) \in {s[i] : i \in DOMAIN s} /\ IsMedian(Median(s))
  BY <1>1, <1>2 DEF Median, Above, Below
<1>4. PICK m \in DOMAIN s : Median(s) = s[m]
  BY <1>3
<1>5. Median(s) \in Int
  BY <1>1, <1>4
<1>6. ASSUME NEW x \in Int, NEW good \in SUBSET DOMAIN s, \A i \in good : s[i] = x,
             2 * Cardinality(good) > n, Median(s) # x
      PROVE  FALSE
  <2>1. IsFiniteSet(DOMAIN s)
    BY <1>1, FS_Interval
  <2>2. /\ Above(s, Median(s)) \in SUBSET DOMAIN s /\ Below(s, Median(s)) \in SUBSET DOMAIN s
    BY DEF Above, Below
  <2>3. /\ IsFiniteSet(Above(s, Median(s))) /\ IsFiniteSet(Below(s, Median(s)))
        /\ IsFiniteSet(good)
    BY <2>1, <2>2, FS_Subset
  <2>4. /\ Cardinality(Above(s, Median(s))) \in Nat /\ Cardinality(Below(s, Median(s))) \in Nat
        /\ Cardinality(good) \in Nat
    BY <2>3, FS_CardinalityType
  <2>5. good \subseteq Above(s, Median(s)) \/ good \subseteq Below(s, Median(s))
    BY <1>5, <1>6 DEF Above, Below
  <2>6. \/ Cardinality(good) <= Cardinality(Above(s, Median(s)))
        \/ Cardinality(good) <= Cardinality(Below(s, Median(s)))
    BY <2>3, <2>5, FS_Subset
  <2>7. n \in Nat
    OBVIOUS
  <2> HIDE DEF n
  <2> QED BY SMTT(20), <1>3, <1>6, <2>4, <2>6, <2>7
<1> QED BY <1>4, <1>6

-----------------------------------------------------------------------------
(* The invariant. *)

Amounts == [ram : Nat, vram : Nat]
Gates == [ram : Nat, vram : Nat, layers : Nat, ctx : Nat]
Children == [at : {"none", "fresh", "weights", "full", "measured", "dead"}, base : Nat,
             high : Nat, growth : Int, layers : Nat, tripped : BOOLEAN, hung : BOOLEAN,
             calm : BOOLEAN, seen : BOOLEAN]
Repeated == [gb : Int, vram : Int, calm : BOOLEAN, seen : BOOLEAN, layers : Nat,
             tripped : BOOLEAN]
Entries == [kind : {"completion", "refused", "error"}, prompt : Nat, given : Nat, gated : Nat]

WorkersTypeOK ==
    /\ job \in Jobs /\ other \in Amounts /\ gate \in Gates /\ child \in Children
    /\ taken \in Seq(Repeated) /\ entries \in Seq(Entries)

\* Where the run is decides what it has done.
Stages ==
    /\ pc # "probe" => child.at = "none"
    /\ pc # "done" => result = "none"
    /\ pc = "gate" => taken = <<>> /\ entries = <<>>
    /\ pc \in {"repeat", "probe"} => /\ job.lane # "gguf" /\ Len(taken) < Repeats
                                     /\ ~(Predicted(gate.ram, job.ctx) >= Budget)
    /\ job.lane = "gguf" =>
         /\ pc = "load" => Len(taken) < Repeats /\ (job.op # "measure" => taken = <<>>)
         /\ pc = "answer" => Len(taken) <= 1
         /\ result = "crashed" => Len(taken) # Repeats
    /\ pc = "median" => Len(taken) = Repeats
    /\ result = "measured" =>
         Len(taken) = Repeats /\ (job.lane # "gguf" => mem = Median(Readings("gb")))
    /\ result = "estimated" =>
         mem = IF job.lane = "gguf"
               THEN RamEstimate(FitLayers(FitContext, VramBudget(gate.vram)), 0, gate.ram)
               ELSE Predicted(gate.ram, 0)

\* A child nothing disturbed started from what the host holds, and what was
\* sampled and is reported is its own.
ChildIsWatched ==
    pc = "probe" =>
      /\ child.calm => /\ other.ram = child.base /\ child.high <= child.base + Need
                       /\ child.seen => child.high >= child.base + Need
                       /\ child.tripped => child.base + Need >= Budget
      /\ child.at = "measured" =>
           /\ job.lane = "cpu" => child.growth = Need
           /\ child.calm /\ job.lane \in {"vulkan", "cuda"} => child.growth = Need

\* Nothing disturbed the reading r; for cpu nothing could.
Undisturbed(r) == job.lane = "cpu" \/ (r.calm /\ (job.lane = "mlx" => r.seen))

Accepted(r) == IF job.lane = "gguf"
               THEN TwoWalls(r.vram, r.gb) /\ r.layers = gate.layers /\ gate.layers > 0
               ELSE /\ Undisturbed(r) => r.gb = Need
                    /\ job.lane = "mlx" => ~r.tripped
                    /\ job.lane = "vulkan" => r.layers > 0
TakenAreAccepted == \A i \in DOMAIN taken : Accepted(taken[i])

\* The context the gate was asked about is within the ceiling and leaves room
\* for every prompt that will be answered.
Room == /\ gate.ctx <= job.ctx
        /\ \A i \in DOMAIN job.prompts :
              GovernedMaxTokens(job.prompts[i], job.ask, job.ctx) > 0
                => job.prompts[i] + job.ask <= gate.ctx
GateLeavesRoom ==
    pc \notin {"gate", "done"} /\ ~(job.lane = "cuda" /\ job.op = "benchmark") => Room

WorkersInv == /\ WorkersTypeOK /\ Stages /\ ChildIsWatched /\ TakenAreAccepted
              /\ GateLeavesRoom /\ AnswersWereGated

\* What the invocation and the constants come to.
LEMMA JobSizes ==
    ASSUME WorkersTypeOK
    PROVE  /\ job.lane \in {"cpu", "vulkan", "gguf", "mlx", "cuda"}
           /\ job.op \in {"preflight", "measure", "generate", "benchmark"}
           /\ job.ctx \in Nat /\ job.ask \in Nat /\ job.extra \in Nat
           /\ job.prompts \in Seq(Nat) /\ Slope * job.ctx \in Nat
           /\ job.op = "generate" => Len(job.prompts) = 1
           /\ job.op = "benchmark" => Len(job.prompts) > 0
           /\ Need \in Nat /\ Budget \in Nat /\ Repeats \in {1, 3}
           /\ Held \in Nat /\ Held <= Need
           /\ other.ram \in Nat /\ other.vram \in Nat
           /\ gate.ram \in Nat /\ gate.vram \in Nat /\ gate.layers \in Nat /\ gate.ctx \in Nat
<1>1. /\ job.lane \in {"cpu", "vulkan", "gguf", "mlx", "cuda"}
      /\ job.op \in {"preflight", "measure", "generate", "benchmark"}
      /\ job.ctx \in Nat /\ job.ask \in Nat /\ job.extra \in Nat /\ job.prompts \in Seq(Nat)
      /\ job.op = "generate" => Len(job.prompts) = 1
      /\ job.op = "benchmark" => Len(job.prompts) > 0
  BY WorkersAssumption DEF WorkersTypeOK
<1>2. Slope * job.ctx \in Nat
  BY <1>1, LayersGrow
<1>3. Need \in Nat /\ ModelWeights <= Need
  <2> DEFINE cache == Slope * job.ctx
  <2>1. cache \in Nat /\ job.extra \in Nat /\ ModelWeights \in Nat
    BY <1>1, <1>2, Sizes
  <2>2. Need = ModelWeights + cache + job.extra
    BY DEF Need
  <2> HIDE DEF cache
  <2> QED BY <2>1, <2>2
<1>4. Held \in Nat /\ Held <= Need
  BY <1>3, Sizes DEF Held
<1>5. Repeats \in {1, 3}
  BY DEF Repeats
<1>6. /\ other.ram \in Nat /\ other.vram \in Nat
      /\ gate.ram \in Nat /\ gate.vram \in Nat /\ gate.layers \in Nat /\ gate.ctx \in Nat
  BY DEF WorkersTypeOK, Amounts, Gates
<1>7. Budget \in Nat
  BY BudgetsAreSizes DEF WorkersTypeOK
<1> QED BY <1>1, <1>2, <1>3, <1>4, <1>5, <1>6, <1>7

\* A prompt that is admitted gets all it asked for, within the ceiling.
LEMMA PromptsGoverned ==
    \A p, a, c \in Nat :
        /\ GovernedMaxTokens(p, a, c) \in Nat
        /\ GovernedMaxTokens(p, a, c) > 0 => p + a <= c /\ GovernedMaxTokens(p, a, c) = a
  BY DEF GovernedMaxTokens, Least

\* The contexts the gate is asked about.
LEMMA GatedContextsAreSizes ==
    ASSUME WorkersTypeOK, NEW c \in GatedContexts
    PROVE  /\ c \in Nat
           /\ ~(Grows /\ job.op = "generate") /\ ~(job.lane = "mlx" /\ job.op = "benchmark")
                => c = job.ctx
           /\ Grows /\ job.op = "generate" => c = job.prompts[1] + job.ask
           /\ job.lane = "mlx" /\ job.op = "benchmark" =>
                /\ c <= job.ctx
                /\ \A i \in DOMAIN job.prompts :
                     c = job.ctx \/ job.prompts[i] + job.ask <= c
<1>1. CASE Grows /\ job.op = "generate"
  <2>1. c = job.prompts[1] + job.ask
    BY <1>1 DEF GatedContexts, OneShotContext
  <2>2. job.prompts[1] \in Nat /\ job.ask \in Nat
    <3>1. job.prompts \in Seq(Nat) /\ Len(job.prompts) = 1 /\ job.ask \in Nat
      BY <1>1, JobSizes
    <3> DEFINE prompts == job.prompts
    <3>2. prompts \in Seq(Nat) /\ 1 \in 1 .. Len(prompts)
      BY <3>1
    <3> HIDE DEF prompts
    <3>3. prompts[1] \in Nat
      BY <3>2
    <3> QED BY <3>1, <3>3 DEF prompts
  <2> QED BY <1>1, <2>1, <2>2
<1>2. CASE job.lane = "mlx" /\ job.op = "benchmark"
  <2>1. Max(Prompts) \in Nat /\ \A i \in DOMAIN job.prompts : job.prompts[i] <= Max(Prompts)
    <3>1. job.prompts \in Seq(Nat) /\ Len(job.prompts) > 0
      BY <1>2, JobSizes
    <3>2. IsFiniteSet(1 .. Len(job.prompts))
      BY <3>1, FS_Interval
    <3>3. Prompts = {job.prompts[i] : i \in 1 .. Len(job.prompts)}
      BY <3>1 DEF Prompts
    <3>4. IsFiniteSet(Prompts)
      <4> DEFINE f == [i \in 1 .. Len(job.prompts) |-> job.prompts[i]]
      <4>1. f \in Surjection(1 .. Len(job.prompts), Prompts)
        BY <3>3 DEF Surjection
      <4> HIDE DEF f
      <4> QED BY <3>2, <4>1, FS_Surjection
    <3>5. Prompts # {} /\ Prompts \subseteq Nat
      <4>1. 1 \in 1 .. Len(job.prompts) /\ \A i \in 1 .. Len(job.prompts) : job.prompts[i] \in Nat
        BY <3>1
      <4> QED BY <3>3, <4>1
    <3>6. Prompts \subseteq Int
      BY <3>5
    <3>7. Max(Prompts) \in Prompts /\ \A y \in Prompts : y <= Max(Prompts)
      BY <3>4, <3>5, <3>6, MaxIsTop
    <3> QED BY <3>5, <3>7 DEF Prompts
  <2> DEFINE top == Max(Prompts)
  <2>2. c = Least(job.ctx, top + job.ask) \/ c = job.ctx
    BY <1>2 DEF GatedContexts, BatchContexts, Grows
  <2>3. job.ctx \in Nat /\ job.ask \in Nat /\ job.prompts \in Seq(Nat)
    BY JobSizes
  <2>4. top \in Nat /\ \A i \in DOMAIN job.prompts : job.prompts[i] <= top
    BY <2>1
  <2> HIDE DEF top
  <2>5. c \in Nat /\ c <= job.ctx /\ (c = job.ctx \/ c = top + job.ask)
    BY <2>2, <2>3, <2>4 DEF Least
  <2>6. ASSUME NEW i \in DOMAIN job.prompts, c = top + job.ask
        PROVE  job.prompts[i] + job.ask <= c
    <3>1. job.prompts[i] \in Nat /\ job.prompts[i] <= top
      BY <2>3, <2>4
    <3> QED BY <2>3, <2>4, <2>6, <3>1
  <2> QED BY <1>2, <2>5, <2>6 DEF Grows
<1>3. CASE ~(Grows /\ job.op = "generate") /\ ~(job.lane = "mlx" /\ job.op = "benchmark")
  BY <1>3, JobSizes DEF GatedContexts
<1> QED BY <1>1, <1>2, <1>3

-----------------------------------------------------------------------------
(* Types. *)

LEMMA EndTypes == NoChild \in Children
  BY DEF NoChild, Children

LEMMA HostsAreAmounts == Hosts \subseteq Amounts
<1> SUFFICES ASSUME NEW o \in Hosts PROVE o \in Amounts
  OBVIOUS
<1> DEFINE vrams == IF job.lane = "gguf" THEN Ambients ELSE {0}
<1>1. Ambients \subseteq Nat /\ vrams \subseteq Nat
  BY WorkersAssumption
<1>2. Hosts = [ram : Ambients, vram : vrams]
  BY DEF Hosts
<1> HIDE DEF vrams
<1> QED BY <1>1, <1>2 DEF Amounts

LEMMA RunTypes ==
    ASSUME WorkersTypeOK, WorkersNext
    PROVE  WorkersTypeOK'
<1> USE DEF WorkersTypeOK
<1>1. CASE Ambient
  <2>1. PICK o \in Hosts : other' = o
    BY <1>1 DEF Ambient
  <2>2. o \in Amounts
    BY <2>1, HostsAreAmounts
  <2>3. child' = [child EXCEPT !.calm = FALSE]
    BY <1>1 DEF Ambient
  <2>4. child' \in Children
    BY <2>3 DEF Children
  <2> QED BY <1>1, <2>1, <2>2, <2>4 DEF Ambient
<1>2. CASE Unresolved
  BY <1>2, EndTypes DEF Unresolved, End
<1>3. CASE GateTwoWalls
  <2>1. FitLayers(job.ctx, VramBudget(other.vram)) \in Nat
    <3>1. job.ctx \in Nat /\ other.vram \in Nat
      BY JobSizes
    <3>2. VramBudget(other.vram) \in Int
      BY SMTT(20), <3>1, BudgetsAreSizes
    <3>3. FitLayers(job.ctx, VramBudget(other.vram)) \in 0 .. Layers
      BY <3>1, <3>2, FittedIsMost
    <3> QED BY <3>3, Sizes
  <2>2. gate' \in Gates
    BY <1>3, <2>1, JobSizes DEF GateTwoWalls, Read, Gates
  <2>3. child' \in Children
    BY <1>3, EndTypes DEF GateTwoWalls, End, Pass
  <2> QED BY <1>3, <2>2, <2>3 DEF GateTwoWalls
<1>4. CASE StartCudaBatch
  <2>1. gate' \in Gates
    BY <1>4, JobSizes DEF StartCudaBatch, Read, Gates
  <2> QED BY <1>4, <2>1 DEF StartCudaBatch, Pass
<1>5. CASE Preflight
  <2>1. PreflightLayers \in Nat
    <3>1. FitContext \in Nat /\ other.vram \in Nat
      BY JobSizes, Sizes
    <3>2. VramBudget(other.vram) \in Int
      BY SMTT(20), <3>1, BudgetsAreSizes
    <3>3. FitLayers(FitContext, VramBudget(other.vram)) \in 0 .. Layers
      BY <3>1, <3>2, FittedIsMost
    <3> QED BY <3>3, Sizes DEF PreflightLayers
  <2>2. gate' \in Gates
    BY <1>5, <2>1, JobSizes, Sizes DEF Preflight, Read, Gates
  <2> QED BY <1>5, <2>2, EndTypes DEF Preflight, End
<1>6. CASE \E c \in GatedContexts : GateOneWall(c)
  <2>1. PICK c \in GatedContexts : GateOneWall(c)
    BY <1>6
  <2>2. c \in Nat
    BY GatedContextsAreSizes
  <2>3. gate' \in Gates
    BY <2>1, <2>2, JobSizes DEF GateOneWall, Read, Gates
  <2>4. child' \in Children
    BY <2>1, EndTypes DEF GateOneWall, End, Pass
  <2> QED BY <2>1, <2>3, <2>4 DEF GateOneWall
<1>7. CASE Launch
  <2>1. child' \in Children
    BY ZenonT(30), <1>7, EndTypes, JobSizes DEF Launch, End, Children, NoChild
  <2> QED BY <1>7, <2>1 DEF Launch
<1>8. CASE Grow
  <2>1. \/ \E n \in {0, Layers} : child' = [child EXCEPT !.at = "weights", !.layers = n]
        \/ child' = [child EXCEPT !.at = "full"]
    BY <1>8 DEF Grow
  <2>2. \A n \in {0, Layers} : [child EXCEPT !.at = "weights", !.layers = n] \in Children
    <3> SUFFICES ASSUME NEW n \in Nat
                 PROVE  [child EXCEPT !.at = "weights", !.layers = n] \in Children
      BY Sizes
    <3> QED BY DEF Children
  <2>3. [child EXCEPT !.at = "full"] \in Children
    BY DEF Children
  <2>4. child' \in Children
    BY <2>1, <2>2, <2>3
  <2> QED BY <1>8, <2>4 DEF Grow
<1>9. CASE Raise
  <2>1. child' \in Children
    BY <1>9 DEF Raise, Children
  <2> QED BY <1>9, <2>1 DEF Raise
<1>10. CASE Sample
  <2>1. Used \in Nat
    <3>1. other.ram \in Nat /\ Held \in Nat
      BY JobSizes
    <3> QED BY <3>1 DEF Used
  <2>2. Most(child.high, Used) \in Nat
    BY <2>1 DEF Most, Children
  <2>3. child' \in Children
    BY <1>10, <2>2 DEF Sample, Children
  <2> QED BY <1>10, <2>3 DEF Sample
<1>11. CASE Cut
  BY <1>11, EndTypes DEF Cut, End
<1>12. CASE ExitAtTheWall
  <2>1. child' \in Children
    BY <1>12 DEF ExitAtTheWall, Children
  <2> QED BY <1>12, <2>1 DEF ExitAtTheWall
<1>13. CASE PrintLine
  <2> DEFINE grown == CASE job.lane = "cpu" -> CpuGrowth
                        [] job.lane = "vulkan" -> VulkanGrowth
                        [] OTHER -> CudaGrowth
  <2>1. Held \in Nat /\ other.ram \in Nat /\ child.base \in Nat
    BY JobSizes DEF Children
  <2>2. grown \in Int
    BY <2>1 DEF CpuGrowth, VulkanGrowth, CudaGrowth, Used, Most
  <2>3. child' = [child EXCEPT !.at = "measured", !.growth = grown]
    BY <1>13 DEF PrintLine
  <2> HIDE DEF grown
  <2>4. child' \in Children
    BY <2>2, <2>3 DEF Children
  <2> QED BY <1>13, <2>4 DEF PrintLine
<1>14. CASE Collect
  <2>1. Repeat \in Repeated
    BY DEF Repeat, Repeated, MlxGrowth, Children
  <2>2. taken' \in Seq(Repeated)
    BY <1>14, <2>1 DEF Collect
  <2>3. child' \in Children
    BY <1>14, EndTypes DEF Collect, End
  <2> QED BY <1>14, <2>2, <2>3 DEF Collect
<1>15. CASE LoadRaises
  BY <1>15, EndTypes DEF LoadRaises, End
<1>16. CASE LoadOneWall
  BY <1>16 DEF LoadOneWall, Pass
<1>17. CASE LoadTwoWalls
  <2>1. PICK k \in {0, gate.layers}, x \in 0 .. job.extra, y \in 0 .. job.extra :
          LET v == VramEstimate(k, job.ctx) + x
              r == RamEstimate(k, job.ctx, 0) + 1 + y
          IN  IF ~Verified(k, v, r) THEN End("refused") /\ UNCHANGED taken
              ELSE /\ taken' = Append(taken, [gb |-> r, vram |-> v, calm |-> TRUE,
                                   seen |-> TRUE, layers |-> k, tripped |-> FALSE])
                   /\ Pass(CASE job.op # "measure" -> "answer"
                              [] job.op = "measure" /\ Len(taken') < Repeats -> "load"
                              [] OTHER -> "median")
    BY <1>17 DEF LoadTwoWalls
  <2> DEFINE v == VramEstimate(k, job.ctx) + x
             r == RamEstimate(k, job.ctx, 0) + 1 + y
             rec == [gb |-> r, vram |-> v, calm |-> TRUE, seen |-> TRUE, layers |-> k,
                     tripped |-> FALSE]
  <2>2. k \in Nat /\ x \in Int /\ y \in Int /\ job.ctx \in Nat
    BY JobSizes
  <2>3. VramEstimate(k, job.ctx) \in Int /\ RamEstimate(k, job.ctx, 0) \in Int
    <3>1. k \in Int /\ 0 \in Int
      BY <2>2
    <3> QED BY <2>2, <3>1, EstimatesAreInts
  <2>4. v \in Int /\ r \in Int
    BY <2>2, <2>3
  <2>5. rec \in Repeated
    <3> HIDE DEF v, r
    <3> QED BY <2>2, <2>4 DEF Repeated
  <2>6. taken' = taken \/ taken' = Append(taken, rec)
    BY <2>1
  <2> HIDE DEF rec
  <2>7. taken' \in Seq(Repeated)
    BY SMTT(20), <2>5, <2>6
  <2>8. child' \in Children
    BY <2>1, EndTypes DEF End, Pass
  <2> QED BY <1>17, <2>7, <2>8 DEF LoadTwoWalls
<1>18. CASE Report
  BY <1>18, EndTypes DEF Report, End
<1>19. CASE Answer \/ CudaAnswer
  <2> DEFINE p == job.prompts[Len(entries) + 1]
             given == GovernedMaxTokens(p, job.ask, job.ctx)
  <2>1. Len(entries) < Len(job.prompts) /\ UNCHANGED <<job, other, gate, taken>>
    BY <1>19 DEF Answer, CudaAnswer
  <2>2. p \in Nat /\ job.ask \in Nat /\ job.ctx \in Nat /\ gate.ctx \in Nat
    <3>1. /\ job.prompts \in Seq(Nat) /\ job.ask \in Nat /\ job.ctx \in Nat /\ gate.ctx \in Nat
      BY JobSizes
    <3>2. Len(entries) \in Nat
      OBVIOUS
    <3>3. Len(entries) + 1 \in 1 .. Len(job.prompts)
      BY <2>1, <3>1, <3>2
    <3> QED BY <3>1, <3>3
  <2>3. given \in Nat
    <3> HIDE DEF p
    <3> QED BY <2>2, PromptsGoverned
  <2>4. \/ entries' = entries
        \/ \E kind \in {"completion", "refused", "error"}, g \in {0, given, job.ask},
              t \in {gate.ctx, p + job.ask} :
              entries' = Append(entries, [kind |-> kind, prompt |-> p, given |-> g, gated |-> t])
    <3>1. CASE Answer
      BY <3>1 DEF Answer, Entry, OneShot
    <3>2. CASE CudaAnswer
      BY <3>2 DEF CudaAnswer, Entry
    <3> QED BY <1>19, <3>1, <3>2
  <2>5. entries' \in Seq(Entries)
    <3> HIDE DEF p, given
    <3>1. \A kind \in {"completion", "refused", "error"}, g \in {0, given, job.ask},
              t \in {gate.ctx, p + job.ask} :
            [kind |-> kind, prompt |-> p, given |-> g, gated |-> t] \in Entries
      BY <2>2, <2>3 DEF Entries
    <3>2. entries \in Seq(Entries)
      OBVIOUS
    <3>3. CASE entries' = entries
      BY <3>2, <3>3
    <3>4. ASSUME NEW e \in Entries, entries' = Append(entries, e) PROVE entries' \in Seq(Entries)
      BY <3>2, <3>4
    <3> QED BY <2>4, <3>1, <3>3, <3>4
  <2>6. child' \in Children
    BY <1>19, EndTypes DEF Answer, CudaAnswer, Entry, OneShot, End
  <2> QED BY <2>1, <2>5, <2>6
<1>20. CASE Answered
  BY <1>20, EndTypes DEF Answered, End
<1> QED BY <1>1, <1>2, <1>3, <1>4, <1>5, <1>6, <1>7, <1>8, <1>9, <1>10, <1>11, <1>12,
          <1>13, <1>14, <1>15, <1>16, <1>17, <1>18, <1>19, <1>20 DEF WorkersNext, WorkerStep

\* The medians of the readings are readings, and follow the vote.
LEMMA ReadingsVote ==
    ASSUME WorkersTypeOK, Len(taken) = Repeats, NEW f \in {"gb", "vram"}
    PROVE  /\ \E i \in 1 .. Repeats : Median(Readings(f)) = taken[i][f]
           /\ \A x \in Int, good \in SUBSET (1 .. Repeats) :
                (\A i \in good : taken[i][f] = x) /\ 2 * Cardinality(good) > Repeats
                  => Median(Readings(f)) = x
<1> DEFINE s == Readings(f)
           n == Repeats
<1>1. taken \in Seq(Repeated) /\ n \in {1, 3}
  BY JobSizes DEF WorkersTypeOK
<1>2. DOMAIN taken = 1 .. n /\ n \in Nat
  BY <1>1
<1>3. \A i \in 1 .. n : taken[i] \in Repeated /\ taken[i][f] \in Int
  <2>1. \A r \in Repeated : r.gb \in Int /\ r.vram \in Int
    BY DEF Repeated
  <2>2. \A r \in Repeated : r[f] \in Int
    BY <2>1
  <2>3. \A i \in 1 .. n : taken[i] \in Repeated
    BY <1>1, <1>2
  <2> QED BY <2>2, <2>3
<1>4. s = [i \in 1 .. n |-> taken[i][f]]
  BY <1>2 DEF Readings
<1> HIDE DEF s, n
<1>5. s \in Seq(Int) /\ Len(s) = n /\ DOMAIN s = 1 .. n
  BY <1>2, <1>3, <1>4
<1>6. /\ \E i \in DOMAIN s : Median(s) = s[i]
      /\ \A x \in Int, good \in SUBSET DOMAIN s :
           (\A i \in good : s[i] = x) /\ 2 * Cardinality(good) > Len(s) => Median(s) = x
  BY <1>1, <1>5, MedianVotes
<1>7. \A i \in 1 .. n : s[i] = taken[i][f]
  BY <1>4
<1>8. \E i \in 1 .. n : Median(s) = taken[i][f]
  BY <1>5, <1>6, <1>7
<1>9. ASSUME NEW x \in Int, NEW good \in SUBSET (1 .. n), \A i \in good : taken[i][f] = x,
             2 * Cardinality(good) > n
      PROVE  Median(s) = x
  BY <1>5, <1>6, <1>7, <1>9
<1> QED BY <1>8, <1>9 DEF s, n

-----------------------------------------------------------------------------
(* The stages. *)

\* What is over has no child and is as it was ended.
LEMMA RunEnded ==
    ASSUME NEW how, End(how)
    PROVE  pc' = "done" /\ result' = how /\ child'.at = "none"
  BY DEF End, NoChild

\* Ending a run that had not measured or estimated leaves nothing to show for gguf
\* but that it did not crash with all its repeats.
LEMMA EndedStages ==
    ASSUME NEW how \in {"refused", "crashed", "answered"}, End(how), job' = job, taken' = taken,
           job.lane = "gguf" /\ how = "crashed" => Len(taken) # Repeats
    PROVE  Stages'
<1>1. pc' = "done" /\ result' = how /\ child'.at = "none"
  BY RunEnded
<1>2. Repeats' = Repeats
  BY DEF Repeats
<1> QED BY <1>1, <1>2 DEF Stages

\* A step of the child leaves the stage.
LEMMA ProbeStages ==
    ASSUME Stages, pc = "probe", UNCHANGED <<job, gate, taken, pc, result>>
    PROVE  Stages'
<1>1. Repeats' = Repeats /\ Budget' = Budget
      /\ Predicted(gate.ram, job.ctx)' = Predicted(gate.ram, job.ctx)
  BY DEF Repeats, Predicted, Budget
<1> QED BY <1>1 DEF Stages

LEMMA RunStages ==
    ASSUME WorkersInv, WorkersNext
    PROVE  Stages'
<1>1. Stages /\ WorkersTypeOK /\ Repeats \in {1, 3} /\ (job.lane = "gguf" => Repeats = 3)
  BY JobSizes DEF WorkersInv, Repeats
<1>2. /\ job' = job
      /\ Repeats' = Repeats /\ Budget' = Budget /\ Need' = Need
  BY DEF WorkersNext, WorkerStep, Ambient, Unresolved, GateTwoWalls, StartCudaBatch, Preflight,
         GateOneWall, Launch, Grow, Raise, Sample, Cut, ExitAtTheWall, PrintLine, Collect,
         LoadRaises, LoadOneWall, LoadTwoWalls, Report, Answer, CudaAnswer, Answered,
         Repeats, Budget, Need
<1>3. ASSUME UNCHANGED gate
      PROVE  Predicted(gate.ram, job.ctx)' = Predicted(gate.ram, job.ctx)
  BY <1>2, <1>3 DEF Predicted
<1>4. CASE Ambient
  <2>1. UNCHANGED <<job, pc, gate, taken, entries, result>> /\ pc # "done" /\ child'.at = child.at
    BY <1>1, <1>4 DEF Ambient, WorkersTypeOK, Children
  <2>2. Predicted(gate.ram, job.ctx)' = Predicted(gate.ram, job.ctx)
    BY <1>3, <2>1
  <2>3. UNCHANGED gate /\ result = "none" /\ result' = "none" /\ pc' = pc
    BY <1>1, <2>1 DEF Stages
  <2> QED BY <1>1, <1>2, <2>1, <2>2, <2>3 DEF Stages
<1>5. CASE Unresolved
  BY <1>2, <1>5, EndedStages DEF Unresolved
<1>6. CASE GateTwoWalls
  <2>1. CASE End("refused")
    BY <1>2, <1>6, <2>1, EndedStages DEF GateTwoWalls
  <2>2. CASE Pass("load")
    BY <1>1, <1>2, <1>6, <2>2 DEF GateTwoWalls, Pass, Stages
  <2> QED BY <1>6, <2>1, <2>2 DEF GateTwoWalls
<1>7. CASE StartCudaBatch
  BY <1>1, <1>2, <1>7 DEF StartCudaBatch, Pass, Stages
<1>8. CASE Preflight
  <2>1. pc' = "done" /\ result' = "estimated" /\ child'.at = "none"
    BY <1>8, RunEnded DEF Preflight
  <2>2. gate'.ram = other.ram /\ gate'.vram = other.vram
    BY <1>8 DEF Preflight, Read
  <2>3. mem' = IF job.lane = "gguf"
               THEN RamEstimate(FitLayers(FitContext, VramBudget(other.vram)), 0, other.ram)
               ELSE Predicted(other.ram, 0)
    BY <1>8 DEF Preflight, TwoWallBase, OneWallBase, PreflightLayers
  <2> QED BY <1>2, <2>1, <2>2, <2>3 DEF Stages
<1>9. CASE \E c \in GatedContexts : GateOneWall(c)
  <2>1. PICK c \in GatedContexts : GateOneWall(c)
    BY <1>9
  <2>2. pc = "gate" /\ taken = <<>> /\ taken' = taken /\ job.lane # "gguf" /\ result = "none"
    BY <1>1, <2>1 DEF GateOneWall, Stages
  <2>3. CASE End("refused")
    BY <1>2, <2>2, <2>3, EndedStages
  <2>4. CASE Probes /\ Pass("repeat") /\ ~(Predicted(other.ram, c) >= Budget)
    <3>1. c = job.ctx
      BY <1>1, <2>4, GatedContextsAreSizes DEF Probes, Grows
    <3>2. gate'.ram = other.ram
      BY <2>1 DEF GateOneWall, Read
    <3>3. ~(Predicted(gate.ram, job.ctx)' >= Budget')
      BY <1>2, <2>4, <3>1, <3>2 DEF Predicted
    <3>4. Len(taken') < Repeats
      BY <1>1, <2>2
    <3>5. child'.at = "none"
      BY <1>1, <2>2, <2>4 DEF Pass, Stages
    <3> QED BY <1>2, <2>2, <2>4, <3>3, <3>4, <3>5 DEF Pass, Stages
  <2>5. CASE Pass("load")
    <3>5. child'.at = "none"
      BY <1>1, <2>2, <2>5 DEF Pass, Stages
    <3> QED BY <1>2, <2>2, <2>5, <3>5 DEF Pass, Stages
  <2> QED BY <2>1, <2>3, <2>4, <2>5 DEF GateOneWall, SafetyGate
<1>10. CASE Launch
  <2>1. CASE End("refused")
    BY <1>1, <1>2, <1>10, <2>1, EndedStages DEF Launch, Stages
  <2>2. CASE pc' = "probe" /\ UNCHANGED result
    BY <1>1, <1>2, <1>3, <1>10, <2>2 DEF Launch, Stages
  <2> QED BY <1>10, <2>1, <2>2 DEF Launch
<1>11. CASE Grow
  BY <1>1, <1>11, ProbeStages DEF Grow
<1>12. CASE Raise
  BY <1>1, <1>12, ProbeStages DEF Raise
<1>13. CASE Sample
  BY <1>1, <1>13, ProbeStages DEF Sample
<1>14. CASE Cut
  BY <1>1, <1>2, <1>14, EndedStages DEF Cut, Stages
<1>15. CASE ExitAtTheWall
  BY <1>1, <1>15, ProbeStages DEF ExitAtTheWall
<1>16. CASE PrintLine
  BY <1>1, <1>16, ProbeStages DEF PrintLine
<1>17. CASE Collect
  <2>1. CASE End("refused") /\ UNCHANGED taken
    BY <1>1, <1>2, <1>17, <2>1, EndedStages DEF Collect, Stages
  <2>2. CASE taken' = Append(taken, Repeat) /\ UNCHANGED result /\ child' = NoChild
             /\ pc' = CASE job.op = "benchmark" -> "load"
                        [] job.op # "benchmark" /\ Len(taken') < Repeats -> "repeat"
                        [] OTHER -> "median"
    <3>1. /\ job.lane # "gguf" /\ Len(taken) < Repeats
          /\ ~(Predicted(gate.ram, job.ctx) >= Budget)
          /\ result = "none" /\ UNCHANGED gate
      BY <1>1, <1>17 DEF Collect, Stages
    <3>2. Len(taken) \in Nat /\ Len(taken') = Len(taken) + 1
      BY <1>1, <2>2 DEF WorkersTypeOK
    <3>3. child'.at = "none"
      BY <2>2 DEF NoChild
    <3>4. pc' \in {"load", "repeat", "median"} /\ (pc' = "repeat" => Len(taken') < Repeats)
          /\ (pc' = "median" => Len(taken') = Repeats)
      BY <1>1, <2>2, <3>1, <3>2
    <3>5. ~(Predicted(gate.ram, job.ctx)' >= Budget')
      BY <1>2, <1>3, <3>1
    <3> QED BY <1>2, <2>2, <3>1, <3>3, <3>4, <3>5 DEF Stages
  <2> QED BY <1>17, <2>1, <2>2 DEF Collect
<1>18. CASE LoadRaises
  <2>1. job.lane = "gguf" => Len(taken) # Repeats
    <3>1. Len(taken) \in Nat
      BY <1>1 DEF WorkersTypeOK
    <3>2. job.lane = "gguf" => Len(taken) < Repeats
      BY <1>1, <1>18 DEF LoadRaises, Stages
    <3> QED BY SMTT(20), <1>1, <3>1, <3>2
  <2>2. End("refused") \/ End("crashed")
    BY <1>18 DEF LoadRaises
  <2> QED BY <1>2, <1>18, <2>1, <2>2, EndedStages DEF LoadRaises
<1>19. CASE LoadOneWall
  BY <1>1, <1>2, <1>19 DEF LoadOneWall, Pass, Stages
<1>20. CASE LoadTwoWalls
  <2>1. \/ End("refused") /\ UNCHANGED taken
        \/ \E rec : /\ taken' = Append(taken, rec)
                    /\ Pass(CASE job.op # "measure" -> "answer"
                               [] job.op = "measure" /\ Len(taken') < Repeats -> "load"
                               [] OTHER -> "median")
    BY <1>20 DEF LoadTwoWalls
  <2>2. CASE End("refused") /\ UNCHANGED taken
    BY <1>2, <2>2, EndedStages
  <2>3. CASE \E rec : /\ taken' = Append(taken, rec)
                      /\ Pass(CASE job.op # "measure" -> "answer"
                                 [] job.op = "measure" /\ Len(taken') < Repeats -> "load"
                                 [] OTHER -> "median")
    <3>1. /\ job.lane = "gguf" /\ Len(taken) < Repeats /\ (job.op # "measure" => taken = <<>>)
          /\ result = "none" /\ child.at = "none" /\ Len(taken) \in Nat /\ taken \in Seq(Repeated)
      BY <1>1, <1>20 DEF LoadTwoWalls, Stages, WorkersTypeOK
    <3>2. Len(taken') = Len(taken) + 1
      BY <2>3, <3>1
    <3>3. job.op # "measure" => Len(taken) = 0
      BY <3>1
    <3>4. UNCHANGED <<child, result>>
          /\ pc' = CASE job.op # "measure" -> "answer"
                     [] job.op = "measure" /\ Len(taken') < Repeats -> "load"
                     [] OTHER -> "median"
      BY <2>3 DEF Pass
    <3>5. /\ pc' \in {"answer", "load", "median"} /\ (pc' = "answer" => Len(taken') <= 1)
          /\ pc' = "load" => Len(taken') < Repeats /\ job.op = "measure"
          /\ pc' = "median" => Len(taken') = Repeats
      <4>1. Len(taken) \in Nat /\ Repeats \in Nat
        BY <1>1, <3>1
      <4>2. Len(taken') <= Repeats
        BY <3>1, <3>2, <4>1
      <4>3. CASE job.op # "measure"
        BY <3>2, <3>3, <3>4, <4>3
      <4>4. CASE job.op = "measure" /\ Len(taken') < Repeats
        BY <3>4, <4>4
      <4>5. CASE job.op = "measure" /\ ~(Len(taken') < Repeats)
        BY <3>2, <3>4, <4>1, <4>2, <4>5
      <4> QED BY <4>3, <4>4, <4>5
    <3> QED BY <1>2, <3>1, <3>4, <3>5 DEF Stages
  <2> QED BY <2>1, <2>2, <2>3
<1>21. CASE Report
  <2> DEFINE gb == Median(Readings("gb"))
             v == Median(Readings("vram"))
  <2>1. pc = "median" /\ Len(taken) = Repeats /\ taken' = taken /\ gate' = gate
    BY <1>1, <1>21 DEF Report, Stages
  <2>2. CASE job.lane = "gguf" /\ ~TwoWalls(v, gb)
    <3>1. \A i \in 1 .. Repeats : TwoWalls(taken[i].vram, taken[i].gb)
      BY <2>1, <2>2 DEF WorkersInv, TakenAreAccepted, Accepted, WorkersTypeOK
    <3>2. \E i, j \in 1 .. Repeats : gb = taken[i].gb /\ v = taken[j].vram
      BY <1>1, <2>1, ReadingsVote
    <3>3. PICK i \in 1 .. Repeats, j \in 1 .. Repeats : gb = taken[i].gb /\ v = taken[j].vram
      BY <3>2
    <3>4. TwoWalls(taken[i].vram, taken[i].gb) /\ TwoWalls(taken[j].vram, taken[j].gb)
      BY <3>1, <3>3
    <3> HIDE DEF gb, v
    <3>5. TwoWalls(v, gb)
      BY <3>3, <3>4 DEF TwoWalls
    <3> QED BY <2>2, <3>5 DEF gb, v
  <2>3. CASE End("measured") /\ mem' = IF job.lane = "gguf" THEN gate.ram + gb ELSE gb
    <3>1. pc' = "done" /\ result' = "measured" /\ child'.at = "none"
      BY <2>3, RunEnded
    <3>2. job.lane # "gguf" => mem' = Median(Readings("gb"))'
      BY <2>1, <2>3 DEF Readings
    <3> QED BY <1>2, <2>1, <3>1, <3>2 DEF Stages
  <2> QED BY <1>21, <2>2, <2>3 DEF Report
<1>22. CASE Answer
  <2>1. UNCHANGED <<job, gate, taken>> /\ pc = "answer"
    BY <1>22 DEF Answer
  <2>2. (\E how \in {"refused", "crashed"} : End(how)) \/ UNCHANGED <<pc, child, result>>
    BY <1>22 DEF Answer, Entry, OneShot
  <2>3. CASE \E how \in {"refused", "crashed"} : End(how)
    <3>1. job.lane = "gguf" => Len(taken) # Repeats
      BY <1>1, <2>1 DEF Stages
    <3> QED BY <2>1, <2>3, <3>1, EndedStages
  <2>4. CASE UNCHANGED <<pc, child, result>>
    BY <1>1, <1>2, <2>1, <2>4 DEF Stages
  <2> QED BY <2>2, <2>3, <2>4
<1>23. CASE CudaAnswer
  <2>1. UNCHANGED <<job, gate, taken>> /\ pc = "answer" /\ job.lane # "gguf"
    BY <1>23 DEF CudaAnswer
  <2>2. End("crashed") \/ UNCHANGED <<pc, child, result>>
    BY <1>23 DEF CudaAnswer, Entry
  <2>3. CASE End("crashed")
    BY <2>1, <2>3, EndedStages
  <2>4. CASE UNCHANGED <<pc, child, result>>
    BY <1>1, <1>2, <2>1, <2>4 DEF Stages
  <2> QED BY <2>2, <2>3, <2>4
<1>24. CASE Answered
  BY <1>2, <1>24, EndedStages DEF Answered
<1> QED BY <1>4, <1>5, <1>6, <1>7, <1>8, <1>9, <1>10, <1>11, <1>12, <1>13, <1>14, <1>15, <1>16,
          <1>17, <1>18, <1>19, <1>20, <1>21, <1>22, <1>23, <1>24 DEF WorkersNext, WorkerStep

-----------------------------------------------------------------------------
(* The child, the repeats, the room and the answers. *)

LEMMA RunWatches ==
    ASSUME WorkersInv, WorkersNext
    PROVE  ChildIsWatched'
<1>1. Stages /\ WorkersTypeOK /\ ChildIsWatched /\ child \in Children
  BY DEF WorkersInv, WorkersTypeOK
<1>2. Need \in Nat /\ Budget \in Nat /\ Held \in Nat /\ Held <= Need /\ other.ram \in Nat
      /\ child.base \in Nat /\ child.high \in Nat
  BY <1>1, JobSizes DEF Children
<1>3. job' = job /\ Budget' = Budget /\ Need' = Need
  BY DEF WorkersNext, WorkerStep, Ambient, Unresolved, GateTwoWalls, StartCudaBatch, Preflight,
         GateOneWall, Launch, Grow, Raise, Sample, Cut, ExitAtTheWall, PrintLine, Collect,
         LoadRaises, LoadOneWall, LoadTwoWalls, Report, Answer, CudaAnswer, Answered,
         Budget, Need
<1>4. SUFFICES ASSUME pc' = "probe"
               PROVE  ChildIsWatched'
  BY DEF ChildIsWatched
<1>5. CASE Ambient
  <2>1. ~child'.calm /\ child'.at = child.at /\ child'.growth = child.growth /\ pc = "probe"
    BY <1>1, <1>4, <1>5 DEF Ambient, Children
  <2> QED BY <1>1, <1>3, <2>1 DEF ChildIsWatched
<1>6. CASE Launch
  <2>1. /\ child'.at = "fresh" /\ child'.base = other.ram /\ child'.high = other.ram
        /\ ~child'.tripped /\ ~child'.seen /\ other' = other
    BY <1>4, <1>6 DEF Launch, End, NoChild
  <2> QED BY <1>2, <1>3, <2>1 DEF ChildIsWatched
<1>7. CASE Grow \/ Raise \/ ExitAtTheWall
  <2>1. /\ child'.at \in {"weights", "full", "dead", "fresh"} /\ child'.base = child.base
        /\ child'.high = child.high /\ child'.tripped = child.tripped
        /\ child'.seen = child.seen /\ child'.calm = child.calm /\ other' = other /\ pc = "probe"
    BY <1>1, <1>7 DEF Grow, Raise, ExitAtTheWall, Children
  <2> QED BY <1>1, <1>3, <2>1 DEF ChildIsWatched
<1>8. CASE Sample
  <2>1. /\ child'.high = Most(child.high, Used) /\ child'.tripped = (child.tripped \/ Used >= Budget)
        /\ child'.seen = (child.seen \/ child.at = "full")
        /\ child'.base = child.base /\ child'.calm = child.calm /\ child'.at = child.at
        /\ child'.growth = child.growth /\ other' = other /\ pc = "probe"
    BY <1>1, <1>8 DEF Sample, Children
  <2>2. ASSUME child.calm
        PROVE  /\ other.ram = child.base /\ child'.high <= child.base + Need
               /\ child'.seen => child'.high >= child.base + Need
               /\ child'.tripped => child.base + Need >= Budget
    <3>1. /\ other.ram = child.base /\ child.high <= child.base + Need
          /\ child.seen => child.high >= child.base + Need
          /\ child.tripped => child.base + Need >= Budget
      BY <1>1, <2>1, <2>2 DEF ChildIsWatched
    <3>2. Used = child.base + Held /\ (child.at = "full" => Held = Need)
      BY <3>1 DEF Used, Held
    <3>3. child'.high <= child.base + Need
      BY <1>2, <2>1, <3>1, <3>2 DEF Most
    <3>6. Used \in Nat /\ child'.high >= Used /\ child'.high >= child.high /\ child'.high \in Nat
      <4>1. child.base \in Nat /\ Held \in Nat /\ child.high \in Nat
        BY <1>2
      <4>2. Used \in Nat
        BY <3>2, <4>1
      <4> QED BY <2>1, <4>1, <4>2 DEF Most
    <3>4. child'.seen => child'.high >= child.base + Need
      <4>1. CASE child.seen
        <5>1. child.high >= child.base + Need
          BY <3>1, <4>1
        <5> QED BY <1>2, <3>6, <5>1
      <4>2. CASE child.at = "full"
        <5>1. Used = child.base + Need
          BY <3>2, <4>2
        <5> QED BY <3>6, <5>1
      <4> QED BY <2>1, <4>1, <4>2
    <3>5. child'.tripped => child.base + Need >= Budget
      <4>1. CASE child.tripped
        BY <3>1, <4>1
      <4>2. CASE Used >= Budget
        <5>1. Used <= child.base + Need
          BY <1>2, <3>2
        <5> QED BY <1>2, <3>6, <4>2, <5>1
      <4> QED BY <2>1, <4>1, <4>2
    <3> QED BY <3>1, <3>3, <3>4, <3>5
  <2>3. child'.at = "measured" =>
           /\ job.lane = "cpu" => child'.growth = Need
           /\ child'.calm /\ job.lane \in {"vulkan", "cuda"} => child'.growth = Need
    BY <1>1, <2>1 DEF ChildIsWatched
  <2> QED BY <1>3, <2>1, <2>2, <2>3 DEF ChildIsWatched
<1>9. CASE PrintLine
  <2> DEFINE grown == CASE job.lane = "cpu" -> CpuGrowth
                        [] job.lane = "vulkan" -> VulkanGrowth
                        [] OTHER -> CudaGrowth
  <2>1. child' = [child EXCEPT !.at = "measured", !.growth = grown] /\ other' = other
        /\ pc = "probe" /\ child.at = "full"
    BY <1>9 DEF PrintLine
  <2>2. Held = Need
    BY <2>1 DEF Held
  <2>3. /\ job.lane = "cpu" => grown = Need
        /\ child.calm /\ job.lane \in {"vulkan", "cuda"} => grown = Need
    <3>1. child.calm => other.ram = child.base
      BY <1>1, <2>1 DEF ChildIsWatched
    <3> QED BY <1>2, <2>2, <3>1 DEF CpuGrowth, VulkanGrowth, CudaGrowth, Used, Most
  <2> HIDE DEF grown
  <2>4. /\ child'.growth = grown /\ child'.base = child.base
        /\ child'.high = child.high /\ child'.tripped = child.tripped
        /\ child'.seen = child.seen /\ child'.calm = child.calm
    BY <1>1, <2>1 DEF Children
  <2> QED BY <1>1, <1>3, <2>1, <2>3, <2>4 DEF ChildIsWatched
<1>10. CASE \/ Unresolved \/ GateTwoWalls \/ StartCudaBatch \/ Preflight
            \/ \E c \in GatedContexts : GateOneWall(c)
            \/ Cut \/ Collect \/ LoadRaises \/ LoadOneWall \/ LoadTwoWalls \/ Report
            \/ Answer \/ CudaAnswer \/ Answered
  <2>1. CASE Unresolved \/ GateTwoWalls \/ StartCudaBatch \/ Preflight
             \/ \E c \in GatedContexts : GateOneWall(c)
    BY <1>4, <2>1 DEF Unresolved, GateTwoWalls, StartCudaBatch, Preflight, GateOneWall, End, Pass
  <2>2. CASE Cut \/ LoadRaises \/ LoadOneWall \/ Report \/ Answered
    BY <1>4, <2>2 DEF Cut, LoadRaises, LoadOneWall, Report, Answered, End, Pass
  <2>3. CASE Collect
    BY <1>4, <2>3 DEF Collect, End
  <2>4. CASE LoadTwoWalls
    BY <1>4, <2>4 DEF LoadTwoWalls, End, Pass
  <2>5. CASE Answer \/ CudaAnswer
    BY <1>4, <2>5 DEF Answer, CudaAnswer, End, Entry, OneShot
  <2> QED BY <1>10, <2>1, <2>2, <2>3, <2>4, <2>5
<1> QED BY <1>5, <1>6, <1>7, <1>8, <1>9, <1>10 DEF WorkersNext, WorkerStep

\* While a repeat is accepted or none is, the accepted ones stay so.
LEMMA AcceptedStay ==
    ASSUME TakenAreAccepted, UNCHANGED <<job, gate, taken>>
    PROVE  TakenAreAccepted'
  BY DEF TakenAreAccepted, Accepted, Undisturbed, TwoWalls, VramBudget, Budget, Need

LEMMA OneMoreAccepted ==
    ASSUME WorkersTypeOK, TakenAreAccepted, UNCHANGED <<job, gate>>, NEW r, Accepted(r),
           taken' = Append(taken, r)
    PROVE  TakenAreAccepted'
<1>1. ASSUME NEW i \in DOMAIN taken' PROVE Accepted(taken'[i])
  <2>1. taken \in Seq(Repeated)
    BY DEF WorkersTypeOK
  <2>2. CASE i \in DOMAIN taken
    BY <2>1, <2>2 DEF TakenAreAccepted
  <2>3. CASE i \notin DOMAIN taken
    BY <1>1, <2>1, <2>3
  <2> QED BY <2>2, <2>3
<1> QED BY <1>1 DEF TakenAreAccepted, Accepted, Undisturbed, TwoWalls, VramBudget, Budget, Need

LEMMA RunAccepts ==
    ASSUME WorkersInv, WorkersNext
    PROVE  TakenAreAccepted'
<1>1. Stages /\ WorkersTypeOK /\ ChildIsWatched /\ TakenAreAccepted /\ child \in Children
  BY DEF WorkersInv, WorkersTypeOK
<1>2. CASE Unresolved \/ GateTwoWalls \/ StartCudaBatch \/ Preflight
           \/ \E c \in GatedContexts : GateOneWall(c)
  <2>1. pc = "gate" /\ taken' = taken
    BY <1>2 DEF Unresolved, GateTwoWalls, StartCudaBatch, Preflight, GateOneWall
  <2>2. taken' = <<>>
    BY <1>1, <2>1 DEF Stages
  <2> QED BY <2>2 DEF TakenAreAccepted
<1>3. CASE Ambient \/ Launch \/ Grow \/ Raise \/ Sample \/ Cut \/ ExitAtTheWall \/ PrintLine
  BY <1>1, <1>3, AcceptedStay
     DEF Ambient, Launch, Grow, Raise, Sample, Cut, ExitAtTheWall, PrintLine
<1>4. CASE LoadRaises \/ LoadOneWall \/ Report \/ Answer \/ CudaAnswer \/ Answered
  BY <1>1, <1>4, AcceptedStay DEF LoadRaises, LoadOneWall, Report, Answer, CudaAnswer, Answered
<1>5. CASE Collect
  <2>1. CASE UNCHANGED taken
    BY <1>1, <1>5, <2>1, AcceptedStay DEF Collect
  <2>2. CASE ~(NoLine \/ NotOffloaded \/ SawTheBudget) /\ taken' = Append(taken, Repeat)
    <3>1. /\ pc = "probe" /\ child.at = "measured" /\ job.lane # "gguf"
          /\ UNCHANGED <<job, gate>>
      BY <1>1, <1>5, <2>2 DEF Collect, NoLine, Stages
    <3>2. /\ Repeat.gb = IF job.lane = "mlx" THEN child.high - child.base ELSE child.growth
          /\ Repeat.calm = child.calm /\ Repeat.seen = child.seen
          /\ Repeat.layers = child.layers /\ Repeat.tripped = child.tripped
      BY DEF Repeat, MlxGrowth
    <3>3. ASSUME Undisturbed(Repeat) PROVE Repeat.gb = Need
      <4>1. CASE job.lane = "cpu"
        BY <1>1, <3>1, <3>2, <4>1 DEF ChildIsWatched
      <4>2. CASE job.lane = "mlx"
        <5>1. child.calm /\ child.seen
          BY <3>2, <3>3, <4>2 DEF Undisturbed
        <5>2. child.high <= child.base + Need /\ child.high >= child.base + Need
          BY <1>1, <3>1, <5>1 DEF ChildIsWatched
        <5>3. child.high \in Nat /\ child.base \in Nat /\ Need \in Nat
          BY <1>1, JobSizes DEF Children
        <5> QED BY <3>2, <4>2, <5>2, <5>3
      <4>3. CASE job.lane \in {"vulkan", "cuda"}
        BY <1>1, <3>1, <3>2, <3>3, <4>3 DEF ChildIsWatched, Undisturbed
      <4> QED BY <1>1, <3>1, <4>1, <4>2, <4>3, JobSizes
    <3>4. job.lane = "mlx" => ~Repeat.tripped
      BY <2>2, <3>2 DEF SawTheBudget
    <3>5. job.lane = "vulkan" => Repeat.layers > 0
      <4>1. child.layers \in Nat
        BY <1>1 DEF Children
      <4> QED BY <2>2, <3>2, <4>1 DEF NotOffloaded
    <3>6. Accepted(Repeat)
      BY <3>1, <3>3, <3>4, <3>5 DEF Accepted
    <3> QED BY <1>1, <2>2, <3>1, <3>6, OneMoreAccepted
  <2> QED BY <1>5, <2>1, <2>2 DEF Collect
<1>6. CASE LoadTwoWalls
  <2>1. UNCHANGED <<job, gate>> /\ job.lane = "gguf"
    BY <1>6 DEF LoadTwoWalls
  <2>2. \/ UNCHANGED taken
        \/ \E k, v, r : /\ Verified(k, v, r)
                        /\ taken' = Append(taken, [gb |-> r, vram |-> v, calm |-> TRUE,
                                        seen |-> TRUE, layers |-> k, tripped |-> FALSE])
    BY <1>6 DEF LoadTwoWalls
  <2>3. CASE UNCHANGED taken
    BY <1>1, <2>1, <2>3, AcceptedStay
  <2>4. ASSUME NEW k, NEW v, NEW r, Verified(k, v, r),
               taken' = Append(taken, [gb |-> r, vram |-> v, calm |-> TRUE,
                                       seen |-> TRUE, layers |-> k, tripped |-> FALSE])
        PROVE  TakenAreAccepted'
    <3> DEFINE rec == [gb |-> r, vram |-> v, calm |-> TRUE, seen |-> TRUE, layers |-> k,
                       tripped |-> FALSE]
    <3>1. rec.gb = r /\ rec.vram = v /\ rec.layers = k /\ taken' = Append(taken, rec)
      BY <2>4
    <3> HIDE DEF rec
    <3>2. Accepted(rec)
      BY <2>1, <2>4, <3>1 DEF Accepted, Verified
    <3> QED BY <1>1, <2>1, <3>1, <3>2, OneMoreAccepted
  <2> QED BY <2>2, <2>3, <2>4
<1> QED BY <1>2, <1>3, <1>4, <1>5, <1>6 DEF WorkersNext, WorkerStep

\* The gate leaves room when it is passed, and nothing moves it afterwards.
LEMMA RunLeavesRoom ==
    ASSUME WorkersInv, WorkersNext
    PROVE  GateLeavesRoom'
<1>1. Stages /\ WorkersTypeOK /\ GateLeavesRoom
  BY DEF WorkersInv
<1>2. SUFFICES ASSUME pc' \notin {"gate", "done"}, ~(job.lane = "cuda" /\ job.op = "benchmark"),
                      job' = job
               PROVE  Room'
  <2>1. job' = job
    BY DEF WorkersNext, WorkerStep, Ambient, Unresolved, GateTwoWalls, StartCudaBatch, Preflight,
         GateOneWall, Launch, Grow, Raise, Sample, Cut, ExitAtTheWall, PrintLine, Collect,
         LoadRaises, LoadOneWall, LoadTwoWalls, Report, Answer, CudaAnswer, Answered
  <2> QED BY <2>1 DEF GateLeavesRoom
<1> DEFINE Fits(c) == /\ c <= job.ctx
                      /\ \A i \in DOMAIN job.prompts :
                           GovernedMaxTokens(job.prompts[i], job.ask, job.ctx) > 0
                             => job.prompts[i] + job.ask <= c
<1>3. job.ctx \in Nat /\ job.ask \in Nat /\ job.prompts \in Seq(Nat)
  BY <1>1, JobSizes
<1>4. \A i \in DOMAIN job.prompts :
         /\ job.prompts[i] \in Nat
         /\ GovernedMaxTokens(job.prompts[i], job.ask, job.ctx) > 0
              => job.prompts[i] + job.ask <= job.ctx
  <2> TAKE i \in DOMAIN job.prompts
  <2> DEFINE q == job.prompts[i]
  <2>1. q \in Nat
    BY <1>3
  <2> HIDE DEF q
  <2>2. GovernedMaxTokens(q, job.ask, job.ctx) > 0 => q + job.ask <= job.ctx
    BY <1>3, <2>1, PromptsGoverned
  <2> QED BY <2>1, <2>2 DEF q
<1>5. Fits(job.ctx)
  BY <1>3, <1>4
<1>6. ASSUME Fits(gate'.ctx) PROVE Room'
  BY <1>2, <1>6 DEF Room
<1>7. CASE UNCHANGED gate /\ pc \notin {"gate", "done"}
  BY <1>1, <1>2, <1>7 DEF GateLeavesRoom, Room
<1>8. CASE Unresolved \/ Preflight \/ StartCudaBatch
  BY <1>2, <1>8 DEF Unresolved, Preflight, StartCudaBatch, End
<1>9. CASE GateTwoWalls
  <2>1. gate'.ctx = job.ctx
    BY <1>9 DEF GateTwoWalls, Read
  <2> QED BY <1>5, <1>6, <2>1
<1>10. CASE \E c \in GatedContexts : GateOneWall(c)
  <2>1. PICK c \in GatedContexts : GateOneWall(c)
    BY <1>10
  <2>2. gate'.ctx = c
    BY <2>1 DEF GateOneWall, Read
  <2>3. ~(Grows /\ job.op = "generate" /\ BeyondCeiling)
    BY <1>2, <2>1 DEF GateOneWall, End
  <2>4. Fits(c)
    <3>1. CASE Grows /\ job.op = "generate"
      <4>1. c = job.prompts[1] + job.ask
        BY <1>1, <3>1, GatedContextsAreSizes
      <4>2. Len(job.prompts) = 1 /\ DOMAIN job.prompts = {1} /\ job.prompts[1] \in Nat
        <5>1. Len(job.prompts) = 1
          BY <1>1, <3>1, JobSizes
        <5>2. DOMAIN job.prompts = 1 .. 1
          BY <1>3, <5>1
        <5> QED BY <1>3, <5>1, <5>2
      <4>3. GovernedMaxTokens(job.prompts[1], job.ask, job.ctx) > 0
        <5>1. GovernedMaxTokens(job.prompts[1], job.ask, job.ctx) # 0
          BY <2>3, <3>1 DEF BeyondCeiling
        <5>2. GovernedMaxTokens(job.prompts[1], job.ask, job.ctx) \in Nat
          BY <1>3, <4>2, PromptsGoverned
        <5> QED BY <5>1, <5>2
      <4>4. c <= job.ctx
        BY <1>4, <4>1, <4>2, <4>3
      <4>5. c <= c
        BY <1>3, <4>1, <4>2
      <4> QED BY <4>1, <4>2, <4>4, <4>5
    <3>2. CASE job.lane = "mlx" /\ job.op = "benchmark"
      <4>1. c <= job.ctx /\ \A i \in DOMAIN job.prompts :
                              c = job.ctx \/ job.prompts[i] + job.ask <= c
        BY <1>1, <3>2, GatedContextsAreSizes
      <4> QED BY <1>4, <4>1
    <3>3. CASE ~(Grows /\ job.op = "generate") /\ ~(job.lane = "mlx" /\ job.op = "benchmark")
      <4>1. c = job.ctx
        BY <1>1, <3>3, GatedContextsAreSizes
      <4> QED BY <1>5, <4>1
    <3> QED BY <3>1, <3>2, <3>3
  <2> QED BY <1>6, <2>2, <2>4
<1>11. \/ UNCHANGED gate /\ pc \notin {"gate", "done"}
       \/ Unresolved \/ Preflight \/ StartCudaBatch \/ GateTwoWalls
       \/ \E c \in GatedContexts : GateOneWall(c)
  <2>1. CASE Ambient
    BY <1>2, <2>1 DEF Ambient
  <2>2. CASE Launch \/ Grow \/ Raise \/ Sample \/ Cut \/ ExitAtTheWall \/ PrintLine \/ Collect
    BY <2>2 DEF Launch, Grow, Raise, Sample, Cut, ExitAtTheWall, PrintLine, Collect
  <2>3. CASE LoadRaises \/ LoadOneWall \/ LoadTwoWalls \/ Report \/ Answer \/ CudaAnswer
             \/ Answered
    BY <2>3 DEF LoadRaises, LoadOneWall, LoadTwoWalls, Report, Answer, CudaAnswer, Answered
  <2> QED BY <2>1, <2>2, <2>3 DEF WorkersNext, WorkerStep
<1> QED BY <1>7, <1>8, <1>9, <1>10, <1>11

\* An answer is given within what the gate was asked about.
LEMMA RunAnswers ==
    ASSUME WorkersInv, WorkersNext
    PROVE  AnswersWereGated'
<1> DEFINE Ok(e) == e.kind = "completion" => /\ e.prompt + e.given <= e.gated
                                             /\ e.gated <= job.ctx
<1>1. Stages /\ WorkersTypeOK /\ GateLeavesRoom /\ \A i \in DOMAIN entries : Ok(entries[i])
  BY DEF WorkersInv, AnswersWereGated
<1>2. job' = job
  BY DEF WorkersNext, WorkerStep, Ambient, Unresolved, GateTwoWalls, StartCudaBatch, Preflight,
         GateOneWall, Launch, Grow, Raise, Sample, Cut, ExitAtTheWall, PrintLine, Collect,
         LoadRaises, LoadOneWall, LoadTwoWalls, Report, Answer, CudaAnswer, Answered
<1>3. ASSUME NEW e, Ok(e), entries' = Append(entries, e) PROVE AnswersWereGated'
  <2>1. entries \in Seq(Entries)
    BY <1>1 DEF WorkersTypeOK
  <2> HIDE DEF Ok
  <2>2. ASSUME NEW i \in DOMAIN entries' PROVE Ok(entries'[i])
    <3>1. CASE i \in DOMAIN entries
      BY <1>1, <1>3, <2>1, <3>1
    <3>2. CASE i \notin DOMAIN entries
      BY <1>3, <2>1, <2>2, <3>2
    <3> QED BY <3>1, <3>2
  <2> QED BY <1>2, <2>2 DEF AnswersWereGated, Ok
<1>4. CASE UNCHANGED entries
  BY <1>1, <1>2, <1>4 DEF AnswersWereGated
<1> DEFINE p == job.prompts[Len(entries) + 1]
<1>5. job.ctx \in Nat /\ job.ask \in Nat /\ job.prompts \in Seq(Nat) /\ gate.ctx \in Nat
  BY <1>1, JobSizes
<1>6. ASSUME Len(entries) < Len(job.prompts)
      PROVE  p \in Nat /\ Len(entries) + 1 \in DOMAIN job.prompts
  <2>1. Len(entries) \in Nat
    BY <1>1 DEF WorkersTypeOK
  <2> QED BY <1>5, <1>6, <2>1
<1>7. CASE Answer
  <2> DEFINE given == GovernedMaxTokens(p, job.ask, job.ctx)
  <2>1. /\ pc = "answer" /\ ~(job.lane = "cuda" /\ job.op = "benchmark")
        /\ Len(entries) < Len(job.prompts)
    BY <1>7 DEF Answer
  <2>2. p \in Nat /\ Room
    BY <1>1, <1>6, <2>1 DEF GateLeavesRoom
  <2>3. given > 0 => given = job.ask /\ p + job.ask <= gate.ctx
    <3>1. given > 0 => p + job.ask <= gate.ctx
      BY <1>6, <2>1, <2>2 DEF Room
    <3>2. given > 0 => given = job.ask
      <4> HIDE DEF p
      <4> QED BY <1>5, <2>2, PromptsGoverned
    <3> QED BY <3>1, <3>2
  <2>4. gate.ctx <= job.ctx
    BY <2>2 DEF Room
  <2>5. \/ UNCHANGED entries
        \/ \E kind \in {"refused", "error"} : \E g :
              entries' = Append(entries, [kind |-> kind, prompt |-> p, given |-> g,
                                          gated |-> gate.ctx])
        \/ given > 0 /\ entries' = Append(entries, [kind |-> "completion", prompt |-> p,
                                                   given |-> given, gated |-> gate.ctx])
    BY <1>7 DEF Answer, Entry, OneShot
  <2> HIDE DEF p, given
  <2>6. ASSUME NEW kind \in {"refused", "error"}, NEW g,
               entries' = Append(entries, [kind |-> kind, prompt |-> p, given |-> g,
                                          gated |-> gate.ctx])
        PROVE  AnswersWereGated'
    <3>1. Ok([kind |-> kind, prompt |-> p, given |-> g, gated |-> gate.ctx])
      OBVIOUS
    <3> HIDE DEF Ok
    <3> QED BY <1>3, <2>6, <3>1
  <2>7. ASSUME given > 0, entries' = Append(entries, [kind |-> "completion", prompt |-> p,
                                                   given |-> given, gated |-> gate.ctx])
        PROVE  AnswersWereGated'
    <3>1. Ok([kind |-> "completion", prompt |-> p, given |-> given, gated |-> gate.ctx])
      BY <2>3, <2>4, <2>7
    <3> HIDE DEF Ok
    <3> QED BY <1>3, <2>7, <3>1
  <2> QED BY <1>4, <2>5, <2>6, <2>7
<1>8. CASE CudaAnswer
  <2>1. Len(entries) < Len(job.prompts)
    BY <1>8 DEF CudaAnswer
  <2>2. p \in Nat
    BY <1>6, <2>1
  <2>3. \/ UNCHANGED entries
        \/ \E kind \in {"refused", "error"} : \E g :
              entries' = Append(entries, [kind |-> kind, prompt |-> p, given |-> g,
                                          gated |-> p + job.ask])
        \/ /\ GovernedMaxTokens(p, job.ask, job.ctx) # 0
           /\ entries' = Append(entries, [kind |-> "completion", prompt |-> p,
                                          given |-> job.ask, gated |-> p + job.ask])
    BY <1>8 DEF CudaAnswer, Entry
  <2> HIDE DEF p
  <2>4. GovernedMaxTokens(p, job.ask, job.ctx) # 0 => p + job.ask <= job.ctx
    <3>1. GovernedMaxTokens(p, job.ask, job.ctx) \in Nat
      BY <1>5, <2>2, PromptsGoverned
    <3>2. GovernedMaxTokens(p, job.ask, job.ctx) > 0 => p + job.ask <= job.ctx
      BY <1>5, <2>2, PromptsGoverned
    <3> QED BY <3>1, <3>2
  <2>5. ASSUME NEW kind \in {"refused", "error"}, NEW g,
               entries' = Append(entries, [kind |-> kind, prompt |-> p, given |-> g,
                                          gated |-> p + job.ask])
        PROVE  AnswersWereGated'
    <3>1. Ok([kind |-> kind, prompt |-> p, given |-> g, gated |-> p + job.ask])
      OBVIOUS
    <3> HIDE DEF Ok
    <3> QED BY <1>3, <2>5, <3>1
  <2>6. ASSUME GovernedMaxTokens(p, job.ask, job.ctx) # 0,
               entries' = Append(entries, [kind |-> "completion", prompt |-> p,
                                          given |-> job.ask, gated |-> p + job.ask])
        PROVE  AnswersWereGated'
    <3>1. Ok([kind |-> "completion", prompt |-> p, given |-> job.ask, gated |-> p + job.ask])
      BY <1>5, <2>2, <2>4, <2>6
    <3> HIDE DEF Ok
    <3> QED BY <1>3, <2>6, <3>1
  <2> QED BY <1>4, <2>3, <2>5, <2>6
<1>9. UNCHANGED entries \/ Answer \/ CudaAnswer
  BY DEF WorkersNext, WorkerStep, Ambient, Unresolved, GateTwoWalls, StartCudaBatch, Preflight,
         GateOneWall, Launch, Grow, Raise, Sample, Cut, ExitAtTheWall, PrintLine, Collect,
         LoadRaises, LoadOneWall, LoadTwoWalls, Report, Answered
<1> QED BY <1>4, <1>7, <1>8, <1>9

-----------------------------------------------------------------------------
(* The results. *)

LEMMA RunStarts == WorkersInit => WorkersInv
<1> SUFFICES ASSUME WorkersInit PROVE WorkersInv
  OBVIOUS
<1>1. WorkersTypeOK
  <2>1. other \in Amounts
    BY HostsAreAmounts DEF WorkersInit
  <2>2. gate \in Gates
    BY DEF WorkersInit, NoGate, Gates
  <2> QED BY <2>1, <2>2, EndTypes DEF WorkersInit, WorkersTypeOK
<1>2. Stages
  <2>1. Repeats \in {1, 3} /\ Len(<<>>) = 0
    BY DEF Repeats
  <2> QED BY <2>1 DEF WorkersInit, Stages, NoChild
<1> QED BY <1>1, <1>2 DEF WorkersInit, WorkersInv, ChildIsWatched, TakenAreAccepted,
                          GateLeavesRoom, AnswersWereGated

LEMMA RunGoesOn == WorkersInv /\ [WorkersNext]_workersVars => WorkersInv'
<1> SUFFICES ASSUME WorkersInv, [WorkersNext]_workersVars PROVE WorkersInv'
  OBVIOUS
<1>1. CASE WorkersNext
  <2>1. WorkersTypeOK
    BY DEF WorkersInv
  <2> QED BY <1>1, <2>1, RunTypes, RunStages, RunWatches, RunAccepts, RunLeavesRoom, RunAnswers
          DEF WorkersInv
<1>2. CASE UNCHANGED workersVars
  <2>1. UNCHANGED <<job, other, pc, gate, child, taken, entries, result, mem>>
    BY <1>2 DEF workersVars
  <2>2. WorkersTypeOK' /\ AnswersWereGated'
    BY <2>1 DEF WorkersInv, WorkersTypeOK, AnswersWereGated
  <2>3. Stages'
    BY <2>1 DEF WorkersInv, Stages, Repeats, Predicted, Budget, Readings
  <2>4. ChildIsWatched'
    BY <2>1 DEF WorkersInv, ChildIsWatched, Need, Budget
  <2>5. TakenAreAccepted'
    BY <2>1, AcceptedStay DEF WorkersInv
  <2>6. GateLeavesRoom'
    BY <2>1 DEF WorkersInv, GateLeavesRoom, Room
  <2> QED BY <2>2, <2>3, <2>4, <2>5, <2>6 DEF WorkersInv
<1> QED BY <1>1, <1>2

LEMMA RunIsInvariant == WorkersSpec => []WorkersInv
  BY RunStarts, RunGoesOn, PTL DEF WorkersSpec

\* The places that predict a footprint agree, for all sizes, however the host is
\* disturbed: the gate with the watchdog, the gate with the check of the medians,
\* and the driver's estimate with the worker's gate.
THEOREM WorkersPredictionsAgree == WorkersSpec => []PredictionsAgree
<1>1. WorkersInv => PredictionsAgree
  <2> SUFFICES ASSUME WorkersInv PROVE PredictionsAgree
    OBVIOUS
  <2>1. Stages /\ WorkersTypeOK /\ ChildIsWatched
    BY DEF WorkersInv
  <2>2. SoundEstimatesNeverTrip
    <3> SUFFICES ASSUME Alive, child.calm, other.ram = gate.ram, job.extra <= Overhead,
                        child.tripped
                 PROVE  FALSE
      BY DEF SoundEstimatesNeverTrip
    <3>1. pc = "probe"
      BY <2>1 DEF Alive, Stages
    <3>2. gate.ram + Need >= Budget
      BY <2>1, <3>1 DEF ChildIsWatched
    <3>3. ~(gate.ram + ModelWeights + Overhead + Slope * job.ctx >= Budget)
      BY <2>1, <3>1 DEF Stages, Predicted
    <3> DEFINE cache == Slope * job.ctx
    <3>4. Need = ModelWeights + cache + job.extra
      BY DEF Need
    <3>5. /\ cache \in Nat /\ job.extra \in Nat /\ gate.ram \in Nat /\ Budget \in Nat
          /\ ModelWeights \in Nat /\ Overhead \in Nat
      BY <2>1, JobSizes, Sizes
    <3>6. ~(gate.ram + ModelWeights + Overhead + cache >= Budget)
      BY <3>3
    <3> HIDE DEF cache
    <3> QED BY <3>2, <3>4, <3>5, <3>6
  <2>3. TwoWallsAgree
    <3>1. job.lane = "gguf" /\ Len(taken) = Repeats => result # "crashed"
      BY <2>1 DEF Stages
    <3> DEFINE k == FitLayers(job.ctx, VramBudget(other.vram))
               Fits(n) == ~TwoWallGate(n, job.ctx, other.ram, other.vram)
    <3>2. ASSUME NEW n \in 0 .. Layers, Fits(n)
          PROVE  Fits(k) \/ VramEstimate(k, job.ctx) = VramBudget(other.vram)
      <4>1. job.ctx \in Nat /\ other.ram \in Nat /\ other.vram \in Nat /\ Budget \in Nat
        BY <2>1, JobSizes
      <4> QED BY <3>2, <4>1, FittedPasses
    <3> QED BY <3>1, <3>2 DEF TwoWallsAgree
  <2>4. PreflightCoversTheGate
    <3> SUFFICES ASSUME result = "estimated", other = [ram |-> gate.ram, vram |-> gate.vram],
                        NEW c \in 0 .. FitContext
                 PROVE  IF job.lane = "gguf"
                        THEN RamEstimate(FitLayers(c, VramBudget(other.vram)), c, other.ram)
                                <= mem + Slope * c
                        ELSE mem + Slope * c + FloorShort < Budget
                                => ~SafetyGate(other.ram, other.ram, c)
      BY DEF PreflightCoversTheGate
    <3>1. other.ram = gate.ram /\ other.vram = gate.vram
      OBVIOUS
    <3>2. mem = IF job.lane = "gguf"
                THEN RamEstimate(FitLayers(FitContext, VramBudget(gate.vram)), 0, gate.ram)
                ELSE Predicted(gate.ram, 0)
      BY <2>1 DEF Stages
    <3>3. gate.ram \in Nat /\ gate.vram \in Nat /\ Budget \in Nat
      BY <2>1, JobSizes
    <3>4. CASE job.lane = "gguf"
      <4> DEFINE vb == VramBudget(gate.vram)
      <4>1. vb \in Int
        BY <3>3, BudgetsAreSizes
      <4> HIDE DEF vb
      <4>2. RamEstimate(FitLayers(c, vb), c, gate.ram)
              <= RamEstimate(FitLayers(FitContext, vb), 0, gate.ram) + Slope * c
        BY <3>3, <4>1, EstimateCovers
      <4> QED BY <3>1, <3>2, <3>4, <4>2 DEF vb
    <3>5. CASE job.lane # "gguf"
      <4> DEFINE cache == Slope * c
                 live == gate.ram
      <4>1. cache \in Nat /\ live \in Nat /\ Slope * 0 = 0
        BY <3>3, Sizes, LayersGrow
      <4>2. mem = live + ModelWeights + Overhead
        BY <3>2, <3>5, <4>1, Sizes DEF Predicted
      <4>3. Predicted(other.ram, c) = live + ModelWeights + Overhead + cache
        BY <3>1 DEF Predicted
      <4>4. SUFFICES ASSUME mem + cache + FloorShort < Budget
                     PROVE  ~SafetyGate(other.ram, other.ram, c)
        BY <3>5
      <4>5. CASE job.lane = "mlx"
        <5>1. BaseEstimate(other.ram, other.ram) = MlxBase(live)
          BY <3>1, <4>5 DEF BaseEstimate
        <5>2. FloorShort = Most(0, WiredFloor - live)
          BY <3>1, <4>5 DEF FloorShort
        <5> HIDE DEF cache, live
        <5>3. MlxBase(live) < Budget /\ live + ModelWeights + Overhead + cache < Budget
          BY <3>3, <4>1, <4>2, <4>4, <5>2, Sizes DEF MlxBase, Most
        <5>4. MlxBase(live) \in Nat
          BY <4>1, Sizes DEF MlxBase, Most
        <5>5. ~(MlxBase(live) >= Budget) /\ ~(live + ModelWeights + Overhead + cache >= Budget)
          BY <3>3, <4>1, <5>3, <5>4, Sizes
        <5> QED BY <4>3, <5>1, <5>5 DEF SafetyGate
      <4>6. CASE job.lane # "mlx"
        <5>1. BaseEstimate(other.ram, other.ram) = mem
          BY <3>1, <3>2, <3>5, <4>6 DEF BaseEstimate
        <5>2. FloorShort = 0
          BY <4>6 DEF FloorShort
        <5> HIDE DEF cache, live
        <5>3. ~(mem >= Budget) /\ ~(live + ModelWeights + Overhead + cache >= Budget)
          BY <3>3, <4>1, <4>2, <4>4, <5>2, Sizes
        <5> QED BY <4>3, <5>1, <5>3 DEF SafetyGate
      <4> QED BY <4>5, <4>6
    <3> QED BY <3>4, <3>5
  <2> QED BY <2>2, <2>3, <2>4 DEF PredictionsAgree
<1> QED BY <1>1, RunIsInvariant, PTL

\* A measurement is of the model whenever most repeats ran undisturbed, was watched,
\* and ran on the device it was asked for.
THEOREM WorkersMeasureHonestly == WorkersSpec => []MeasurementsAreHonest
<1>1. WorkersInv => MeasurementsAreHonest
  <2> SUFFICES ASSUME WorkersInv PROVE MeasurementsAreHonest
    OBVIOUS
  <2>1. Stages /\ WorkersTypeOK /\ TakenAreAccepted
    BY DEF WorkersInv
  <2>2. DisturbancesAreOutvoted
    <3> DEFINE good == {i \in DOMAIN taken :
                  \/ job.lane = "cpu"
                  \/ taken[i].calm /\ (job.lane = "mlx" => taken[i].seen)}
    <3> SUFFICES ASSUME result = "measured", job.lane # "gguf", 2 * Cardinality(good) > Len(taken)
                 PROVE  mem = Need
      BY DEF DisturbancesAreOutvoted
    <3>1. Len(taken) = Repeats /\ mem = Median(Readings("gb"))
      BY <2>1 DEF Stages
    <3>2. good \in SUBSET (1 .. Repeats)
      BY <2>1, <3>1 DEF WorkersTypeOK
    <3>3. \A i \in good : taken[i].gb = Need
      BY <2>1 DEF TakenAreAccepted, Accepted, Undisturbed
    <3>4. Need \in Int
      BY <2>1, JobSizes
    <3>5. \A i \in good : taken[i]["gb"] = Need
      BY <3>3
    <3>6. 2 * Cardinality(good) > Repeats
      BY <3>1
    <3> HIDE DEF good
    <3> QED BY <2>1, <3>1, <3>2, <3>4, <3>5, <3>6, ReadingsVote
  <2>3. AcceptedRepeatsAreHonest
    BY <2>1 DEF AcceptedRepeatsAreHonest, TakenAreAccepted, Accepted
  <2> QED BY <2>2, <2>3 DEF MeasurementsAreHonest
<1> QED BY <1>1, RunIsInvariant, PTL

\* Every completion stays within the context the memory gate was asked about, and
\* that within the ceiling.
THEOREM WorkersAnswersWereGated == WorkersSpec => []AnswersWereGated
<1>1. WorkersInv => AnswersWereGated
  BY DEF WorkersInv
<1> QED BY <1>1, RunIsInvariant, PTL

-----------------------------------------------------------------------------
(***************************************************************************)
(* Artifacts: what a reference that matches is read from, in any cache,    *)
(* depends on the recorded identity alone; a download by the identity      *)
(* brings its weights back; and a planned file is what is measured.        *)
(***************************************************************************)
\* The files that are read of those an identity names: all, or all but a projector
\* that lies beside the shards of a directory without an index.
ReadOf(id) ==
    IF \E d \in id.names : d.name = "index" THEN id.names
    ELSE {d \in id.names : d.name # "mmproj.gguf"}

\* A snapshot of the assumption, or one made of such.
WholeSnapshot(s) == s.real \in BOOLEAN /\ (s.real => DOMAIN s.files \subseteq Names)
WholeCache(c) == c.main \in Int /\ \A r \in Revisions : WholeSnapshot(c.snap[r])

\* The smallest of some GGUFs is one of them, and no other is as small.
LEMMA SmallestIsOne ==
    ASSUME NEW ggufs, ggufs \subseteq Ggufs, ggufs # {}
    PROVE  SmallestGguf(ggufs) \in ggufs /\ \A m \in ggufs : Size[m] >= Size[SmallestGguf(ggufs)]
<1>1. Size["q4.gguf"] = 4 /\ Size["q8.gguf"] = 8
  BY DEF Size, Ggufs
<1>2. \E n \in ggufs : \A m \in ggufs : Size[m] >= Size[n]
  <2>1. CASE "q4.gguf" \in ggufs
    BY <1>1, <2>1 DEF Ggufs
  <2>2. CASE "q4.gguf" \notin ggufs
    <3>1. ggufs = {"q8.gguf"}
      BY <2>2 DEF Ggufs
    <3> QED BY <1>1, <3>1
  <2> QED BY <2>1, <2>2
<1> QED BY <1>2 DEF SmallestGguf

\* The weights selected in a snapshot.
LEMMA WeightsSelected ==
    ASSUME NEW s, DOMAIN s.files \subseteq Names
    PROVE  \/ SelectedWeights(s) = {}
           \/ /\ SelectedWeights(s) = {SmallestGguf(DOMAIN s.files \cap Ggufs)}
              /\ DOMAIN s.files \cap Ggufs # {} /\ DOMAIN s.files \cap Shards = {}
           \/ /\ SelectedWeights(s) = DOMAIN s.files \cap Shards
              /\ DOMAIN s.files \cap Ggufs = {} /\ DOMAIN s.files \cap Shards # {}
BY DEF SelectedWeights

LEMMA GgufsAreNoShards ==
    Ggufs \cap Shards = {} /\ {"index", "config", "mmproj.gguf"} \cap (Ggufs \cup Shards) = {}
BY DEF Ggufs, Shards

\* What is read of the files named: all, if there is an index among them, else all but a
\* projector that lies beside them.
ReadAmong(names) == IF "index" \in names THEN names ELSE names \ {"mmproj.gguf"}

\* A directory without GGUFs is read from what its identity names.
LEMMA DirectoryRead ==
    ASSUME NEW s, DOMAIN s.files \subseteq Names, DOMAIN s.files \cap Ggufs = {},
           TransformerManifest(s) # {},
           NEW names, names = TransformerManifest(s)
    PROVE  (IF "index" \in DOMAIN s.files
            THEN (DOMAIN s.files \cap {"index", "config"}) \cup s.refs
            ELSE DOMAIN s.files \cap (Shards \cup {"config"}))
           = ReadAmong(names)
<1>1. CASE "index" \notin DOMAIN s.files
  BY <1>1, GgufsAreNoShards DEF TransformerManifest, Names, ReadAmong
<1>2. CASE "index" \in DOMAIN s.files
  BY <1>2, GgufsAreNoShards DEF TransformerManifest, Names, ReadAmong
<1> QED BY <1>1, <1>2

\* An identity of a snapshot names its files as they are there.
Descriptors(s, names) == {FileDescriptor(n, s.files[n]) : n \in names}

LEMMA ReadDescriptors ==
    ASSUME NEW s, NEW names, NEW kind, NEW rev
    PROVE  ReadOf(Named(kind, rev, Descriptors(s, names))) =
           Descriptors(s, ReadAmong(names))
<1>1. \A n : FileDescriptor(n, s.files[n]).name = n
  BY DEF FileDescriptor
<1> DEFINE all == Descriptors(s, names)
<1>2. Named(kind, rev, all).names = all
  BY DEF Named
<1>3. (\E d \in all : d.name = "index") <=> "index" \in names
  BY <1>1 DEF Descriptors
<1>4. {d \in all : d.name # "mmproj.gguf"} = Descriptors(s, names \ {"mmproj.gguf"})
  BY <1>1 DEF Descriptors
<1>5. ASSUME NEW id, id.names = all PROVE ReadOf(id) = Descriptors(s, ReadAmong(names))
  <2> HIDE DEF all
  <2>1. CASE "index" \in names
    BY <1>3, <1>5, <2>1 DEF ReadOf, ReadAmong, all
  <2>2. CASE "index" \notin names
    <3>1. ReadOf(id) = {d \in all : d.name # "mmproj.gguf"}
      BY <1>3, <1>5, <2>2 DEF ReadOf
    <3> QED BY <1>4, <2>2, <3>1 DEF ReadAmong
  <2> QED BY <2>1, <2>2
<1> QED BY <1>2, <1>5

LEMMA SomethingNamed ==
    \A kind, rev, names : /\ Named(kind, rev, names) # Nothing
                          /\ Named(kind, rev, names).kind = kind
                          /\ Named(kind, rev, names).rev = rev
                          /\ Named(kind, rev, names).names = names
BY DEF Named, Nothing

\* What an identity that matches says of the cache.
LEMMA MatchedSnapshot ==
    ASSUME NEW c, NEW model \in Models, model.kind # "local", NEW id, IdentityMatches(c, model, id),
           WholeCache(c), id.rev \in Revisions \cup {NoRevision}
    PROVE  LET s == c.snap[id.rev]
               names == IF model.kind = "file" THEN {model.name} ELSE AuthorityFiles(s)
           IN /\ id.rev \in Revisions
              /\ s.real /\ names # {} /\ names \subseteq DOMAIN s.files
              /\ id = Named(model.kind, id.rev, Descriptors(s, names))
<1> DEFINE Of(r) == Identified(model.kind, r, c.snap[r],
                               IF model.kind = "file" THEN {model.name} ELSE AuthorityFiles(c.snap[r]))
<1>1. PICK rev : rev \in {NoRevision, id.rev} /\ ArtifactIdentity(c, model, rev) = id
  BY DEF IdentityMatches
<1>2. PICK r : r = IF rev = NoRevision THEN c.main ELSE rev
  OBVIOUS
<1>3. r # NoRevision /\ c.snap[r].real /\ id = Of(r) /\ id # Nothing
  BY <1>1, <1>2 DEF ArtifactIdentity, ValidatedSnapshot, IdentityMatches
<1>4. LET names == IF model.kind = "file" THEN {model.name} ELSE AuthorityFiles(c.snap[r])
      IN /\ names # {} /\ names \subseteq DOMAIN c.snap[r].files
         /\ id = Named(model.kind, r, Descriptors(c.snap[r], names))
  BY <1>3 DEF Identified, Descriptors
<1>5. id.rev = r
  BY <1>4, SomethingNamed
<1> QED BY <1>3, <1>4, <1>5

\* What is pinned is read, and nothing else: whatever the cache and the reference, as long
\* as the identity matches.
LEMMA PinnedReads ==
    ASSUME NEW c, NEW model \in Models, NEW id, IdentityMatches(c, model, id),
           WholeCache(c), id.rev \in Revisions \cup {NoRevision}
    PROVE  /\ PinnedModelRef(c, model, id) # Nothing
           /\ FilesLoaded(c, PinnedModelRef(c, model, id)) = ReadOf(id)
<1> DEFINE ref == PinnedModelRef(c, model, id)
<1>0. \A rev, file : /\ [rev |-> rev, file |-> file] # Nothing
                     /\ [rev |-> rev, file |-> file].rev = rev
                     /\ [rev |-> rev, file |-> file].file = file
  BY DEF Nothing
<1>1. CASE model.kind = "local"
  <2>1. ref = [rev |-> NoRevision, file |-> "local"]
    BY <1>1 DEF PinnedModelRef
  <2>2. id = Named("local", NoRevision, {[name |-> "local", link |-> "direct", stat |-> c.local]})
    BY <1>1 DEF IdentityMatches, ArtifactIdentity
  <2>3. FilesLoaded(c, ref) = {[name |-> "local", link |-> "direct", stat |-> c.local]}
    BY <1>0, <2>1 DEF FilesLoaded
  <2>4. id.names = {[name |-> "local", link |-> "direct", stat |-> c.local]}
    BY <2>2, SomethingNamed
  <2>5. ReadOf(id) = id.names
    BY <2>4 DEF ReadOf
  <2> QED BY <1>0, <2>1, <2>3, <2>4, <2>5
<1>2. CASE model.kind # "local"
  <2> DEFINE s == c.snap[id.rev]
             names == IF model.kind = "file" THEN {model.name} ELSE AuthorityFiles(s)
             Loads(read) == Descriptors(s, read)
  <2>1. /\ id.rev \in Revisions /\ s.real /\ names # {} /\ names \subseteq DOMAIN s.files
        /\ id = Named(model.kind, id.rev, Descriptors(s, names))
    BY ZenonT(30), <1>2, MatchedSnapshot
  <2>2. DOMAIN s.files \subseteq Names /\ ValidatedSnapshot(c, id.rev) = s
    BY <2>1 DEF WholeCache, WholeSnapshot, ValidatedSnapshot
  <2>3. ReadOf(id) = Descriptors(s, ReadAmong(names))
    <3> HIDE DEF names, s
    <3> QED BY <2>1, ReadDescriptors
  <2>4. ASSUME NEW file, file # NoName, file # "local", ref = [rev |-> id.rev, file |-> file]
        PROVE  ref # Nothing /\ FilesLoaded(c, ref) = Descriptors(s, {file})
    BY <1>0, <2>4 DEF FilesLoaded, Descriptors, FileDescriptor
  <2>5. ASSUME NEW g \in Ggufs, names = {g}
        PROVE  ReadOf(id) = Descriptors(s, {g}) /\ g # NoName /\ g # "local"
    BY <2>3, <2>5, GgufsAreNoShards DEF Ggufs, NoName, ReadAmong
  <2>6. CASE model.kind = "file"
    <3>1. model.name \in Ggufs /\ names = {model.name}
      BY <2>6 DEF Models
    <3>2. ref = [rev |-> id.rev, file |-> model.name]
      BY <1>2, <2>6 DEF PinnedModelRef
    <3>3. ref # Nothing /\ FilesLoaded(c, ref) = ReadOf(id)
      <4> HIDE DEF ref, names, s
      <4> QED BY <2>4, <2>5, <3>1, <3>2
    <3> QED BY <3>3
  <2>7. CASE model.kind # "file" /\ SelectedWeights(s) \subseteq Ggufs
    <3>1. names = SelectedWeights(s)
      BY <2>7 DEF AuthorityFiles
    <3>2. PICK g \in Ggufs : SelectedWeights(s) = {g}
      BY <2>1, <2>2, <2>7, <3>1, WeightsSelected, SmallestIsOne, GgufsAreNoShards
    <3>3. ref = [rev |-> id.rev, file |-> g]
      <4>1. ref = [rev |-> id.rev, file |-> CHOOSE n \in SelectedWeights(s) : TRUE]
        BY <1>2, <2>2, <2>7 DEF PinnedModelRef
      <4>2. (CHOOSE n \in {g} : TRUE) = g
        OBVIOUS
      <4> QED BY <3>2, <4>1, <4>2
    <3>4. ref # Nothing /\ FilesLoaded(c, ref) = ReadOf(id)
      <4> HIDE DEF ref, names, s
      <4> QED BY <2>4, <2>5, <3>1, <3>2, <3>3
    <3> QED BY <3>4
  <2>8. CASE model.kind # "file" /\ ~(SelectedWeights(s) \subseteq Ggufs)
    <3>1. names = TransformerManifest(s) /\ ref = [rev |-> id.rev, file |-> NoName]
      BY <1>2, <2>2, <2>8 DEF AuthorityFiles, PinnedModelRef
    <3>2. DOMAIN s.files \cap Ggufs = {}
      <4>1. SUFFICES ASSUME DOMAIN s.files \cap Ggufs # {} PROVE FALSE
        OBVIOUS
      <4>2. SmallestGguf(DOMAIN s.files \cap Ggufs) \in Ggufs
        BY <4>1, SmallestIsOne
      <4> QED BY <2>2, <2>8, <4>1, <4>2, WeightsSelected
    <3>3. FilesLoaded(c, ref) =
            Descriptors(s, IF "index" \in DOMAIN s.files
                           THEN (DOMAIN s.files \cap {"index", "config"}) \cup s.refs
                           ELSE DOMAIN s.files \cap (Shards \cup {"config"}))
      BY <1>0, <3>1 DEF FilesLoaded, Descriptors, FileDescriptor, NoName
    <3>4. ref # Nothing /\ FilesLoaded(c, ref) = ReadOf(id)
      <4> HIDE DEF ref, names, s
      <4> QED BY <1>0, <2>1, <2>2, <2>3, <3>1, <3>2, <3>3, DirectoryRead
    <3> QED BY <3>4
  <2> QED BY <2>6, <2>7, <2>8
<1> QED BY <1>1, <1>2

LEMMA CachesAreWhole ==
    ASSUME NEW main \in Int, NEW one, NEW two, NEW local, WholeSnapshot(one), WholeSnapshot(two)
    PROVE  WholeCache(Cache(main, one, two, local)) /\ Cache(main, one, two, local).main = main
BY DEF Cache, WholeCache

LEMMA SnapshotsAreWhole ==
    WholeSnapshot(NoSnapshot) /\ \A s \in Snapshots \cup Others : WholeSnapshot(s)
BY ArtifactsAssumption DEF WholeSnapshot, NoSnapshot

LEMMA RecordedIdentity ==
    ASSUME NEW c \in Recorded, NEW model \in Models, ArtifactIdentity(c, model, NoRevision) # Nothing
    PROVE  /\ WholeCache(c) /\ ArtifactIdentity(c, model, NoRevision).rev \in {NoRevision, 1}
           /\ IdentityMatches(c, model, ArtifactIdentity(c, model, NoRevision))
<1>1. c.main \in {NoRevision, 1} /\ WholeCache(c)
  <2>1. CASE \E s \in Snapshots : c = Cache(1, s, NoSnapshot, 0)
    BY <2>1, CachesAreWhole, SnapshotsAreWhole
  <2>2. CASE c = Cache(NoRevision, NoSnapshot, NoSnapshot, 1)
    BY <2>2, CachesAreWhole, SnapshotsAreWhole DEF NoRevision
  <2> QED BY <2>1, <2>2 DEF Recorded
<1>2. IdentityMatches(c, model, ArtifactIdentity(c, model, NoRevision))
  BY DEF IdentityMatches
<1>3. ArtifactIdentity(c, model, NoRevision).rev \in {NoRevision, 1}
  BY <1>1, SomethingNamed DEF ArtifactIdentity, Identified
<1> QED BY <1>1, <1>2, <1>3

\* If the reference still matches, the path given to the engine loads the very files
\* recorded, whatever became of the cache.
LEMMA PinnedIsAlways == PinnedIsIdentified
<1> SUFFICES ASSUME NEW model \in Models, NEW c \in Recorded,
                    ArtifactIdentity(c, model, NoRevision) # Nothing
             PROVE  LET id == ArtifactIdentity(c, model, NoRevision)
                        was == FilesLoaded(c, PinnedModelRef(c, model, id))
                    IN /\ was \subseteq id.names
                       /\ \A d \in Later : IdentityMatches(d, model, id) =>
                            LET ref == PinnedModelRef(d, model, id) IN
                            ref # Nothing /\ FilesLoaded(d, ref) = was
  BY DEF PinnedIsIdentified
<1>1. PICK id : id = ArtifactIdentity(c, model, NoRevision)
  OBVIOUS
<1>2. WholeCache(c) /\ id.rev \in Revisions \cup {NoRevision} /\ IdentityMatches(c, model, id)
  BY <1>1, RecordedIdentity, ArtifactsAssumption
<1>3. FilesLoaded(c, PinnedModelRef(c, model, id)) = ReadOf(id)
  BY <1>2, PinnedReads
<1>4. ReadOf(id) \subseteq id.names
  BY DEF ReadOf
<1>5. ASSUME NEW d \in Later, IdentityMatches(d, model, id)
      PROVE  PinnedModelRef(d, model, id) # Nothing
             /\ FilesLoaded(d, PinnedModelRef(d, model, id)) = ReadOf(id)
  <2>1. WholeCache(d)
    <3>1. CASE \E main \in 0 .. 2, s \in Snapshots, t \in Others : d = Cache(main, s, t, 0)
      BY <3>1, CachesAreWhole, SnapshotsAreWhole
    <3>2. CASE \E l \in 0 .. 2 : d = Cache(NoRevision, NoSnapshot, NoSnapshot, l)
      BY <3>2, CachesAreWhole, SnapshotsAreWhole DEF NoRevision
    <3> QED BY <3>1, <3>2 DEF Later
  <2> QED BY <1>2, <1>5, <2>1, PinnedReads
<1> QED BY <1>1, <1>3, <1>4, <1>5

-----------------------------------------------------------------------------
(* Downloading. *)

LEMMA NamesDescribed ==
    ASSUME NEW s, NEW names
    PROVE  {d.name : d \in Descriptors(s, names)} = names
<1>1. \A n : FileDescriptor(n, s.files[n]).name = n
  BY DEF FileDescriptor
<1> QED BY <1>1 DEF Descriptors

LEMMA WeightsDescribed ==
    ASSUME NEW s, NEW names, NEW kind, NEW rev
    PROVE  Weights(Named(kind, rev, Descriptors(s, names))) = names \cap (Ggufs \cup Shards)
<1>2. Named(kind, rev, Descriptors(s, names)).names = Descriptors(s, names)
  BY SomethingNamed
<1> QED BY <1>2, NamesDescribed DEF Weights

LEMMA HubHolds ==
    ASSUME NEW s, NEW hub \in Hubs(s)
    PROVE  /\ hub.refs = s.refs /\ DOMAIN s.files \subseteq DOMAIN hub.files
           /\ DOMAIN hub.files \subseteq DOMAIN s.files \cup {"q4.gguf", "shard2", "config"}
<1>1. PICK more \in SUBSET {"q4.gguf", "shard2", "config"} :
        hub = [refs |-> s.refs, files |-> [n \in DOMAIN s.files \cup more |-> [link |-> "blob", stat |-> 9]]]
  BY DEF Hubs
<1>2. hub.refs = s.refs /\ DOMAIN hub.files = DOMAIN s.files \cup more
  BY <1>1
<1> QED BY <1>2

\* What a snapshot holds, and what a plan fetches.
InPlace(s) == IF s.real THEN DOMAIN s.files ELSE {}
Fetched(hub, file) == IF file = NoName THEN DOMAIN hub.files ELSE {file}

LEMMA Downloads ==
    \A main, one, local, hub, file :
        LET e == DownloadPrepared(Cache(main, one, NoSnapshot, local), hub,
                                  [rev |-> 1, file |-> file])
        IN /\ e # Nothing /\ e.snap[1].real /\ e.snap[1].refs = hub.refs
           /\ DOMAIN e.snap[1].files = InPlace(one) \cup Fetched(hub, file)
<1> TAKE main, one, local, hub, file
<1> DEFINE plan == [rev |-> 1, file |-> file]
           c == Cache(main, one, NoSnapshot, local)
           d == DownloadPrepared(c, hub, plan)
           held == IF c.snap[plan.rev].real THEN c.snap[plan.rev].files ELSE << >>
           fetched == IF plan.file = NoName THEN DOMAIN hub.files ELSE {plan.file}
           new == [real |-> TRUE, refs |-> hub.refs,
                   files |-> [n \in DOMAIN held \cup fetched |->
                                IF n \in DOMAIN held THEN held[n] ELSE hub.files[n]]]
<1>1. plan.rev = 1 /\ plan.file = file /\ 1 \in Revisions
  BY ArtifactsAssumption
<1>2. c.snap[1] = one /\ DOMAIN c.snap = Revisions /\ DOMAIN c = {"main", "local", "snap"}
  BY <1>1 DEF Cache
<1>3. d = [c EXCEPT !.snap[1] = new]
  BY <1>1 DEF DownloadPrepared
<1>4. d.snap[1] = new /\ DOMAIN d = {"main", "local", "snap"}
  <2> HIDE DEF new, c
  <2> QED BY <1>1, <1>2, <1>3
<1>5. d # Nothing
  BY <1>4 DEF Nothing
<1>6. DOMAIN held = InPlace(one) /\ fetched = Fetched(hub, file)
  BY <1>1, <1>2 DEF InPlace, Fetched
<1>7. DOMAIN new.files = DOMAIN held \cup fetched /\ new.real = TRUE /\ new.refs = hub.refs
  OBVIOUS
<1>8. DOMAIN d.snap[1].files = InPlace(one) \cup Fetched(hub, file)
  <2> HIDE DEF new, held, fetched, d
  <2> QED BY <1>4, <1>6, <1>7
<1>9. d.snap[1].real = TRUE /\ d.snap[1].refs = hub.refs
  <2> HIDE DEF new, d
  <2> QED BY <1>4, <1>7
<1> HIDE DEF d
<1> QED BY <1>5, <1>8, <1>9 DEF d

\* The files of a snapshot that a reference is identified by.
IdentityFiles(model, s) == IF model.kind = "file" THEN {model.name} ELSE AuthorityFiles(s)

LEMMA IdentifiedAgain ==
    ASSUME NEW d, d.snap[1].real, NEW model, model.kind # "local",
           ArtifactIdentity(d, model, 1) # Nothing
    PROVE  LET names == IdentityFiles(model, d.snap[1])
           IN /\ names # {}
              /\ ArtifactIdentity(d, model, 1) = Named(model.kind, 1, Descriptors(d.snap[1], names))
<1>1. ArtifactIdentity(d, model, 1) =
        Identified(model.kind, 1, d.snap[1], IdentityFiles(model, d.snap[1]))
  BY DEF ArtifactIdentity, ValidatedSnapshot, NoRevision, IdentityFiles
<1> QED BY <1>1 DEF Identified, Descriptors

\* The GGUFs of a revision that a reference may be planned to.
Offered(hub, model) ==
    IF model.kind = "file" THEN DOMAIN hub.files \cap Ggufs \cap {model.name} ELSE DOMAIN hub.files \cap Ggufs

LEMMA PlannedFile ==
    \A s : \A model \in Models, hub \in Hubs(s) : \A file, d :
        /\ model.kind # "local" /\ WholeSnapshot(s) /\ s.real
        /\ Offered(hub, model) # {} /\ file = SmallestGguf(Offered(hub, model))
        /\ d = DownloadPrepared(Cache(NoRevision, s, NoSnapshot, 0), hub, [rev |-> 1, file |-> file])
        /\ ArtifactIdentity(d, model, 1) # Nothing
        => Weights(ArtifactIdentity(d, model, 1)) = {file}
<1> SUFFICES ASSUME NEW model \in Models, NEW s, NEW hub \in Hubs(s), NEW file, NEW d,
                    model.kind # "local", WholeSnapshot(s), s.real,
                    Offered(hub, model) # {}, file = SmallestGguf(Offered(hub, model)),
                    d = DownloadPrepared(Cache(NoRevision, s, NoSnapshot, 0), hub,
                                         [rev |-> 1, file |-> file]),
                    ArtifactIdentity(d, model, 1) # Nothing
             PROVE  Weights(ArtifactIdentity(d, model, 1)) = {file}
  OBVIOUS
<1> DEFINE offered == DOMAIN hub.files \cap Ggufs
           chosen == Offered(hub, model)
           new == d.snap[1]
           names == IdentityFiles(model, new)
<1>1. chosen \subseteq offered
  BY DEF Offered
<1>2. file \in chosen /\ \A m \in chosen : Size[m] >= Size[file]
  BY <1>1, SmallestIsOne
<1>3. file \in Ggufs /\ file # NoName
  BY <1>1, <1>2 DEF Ggufs, NoName
<1>4. new.real /\ DOMAIN new.files = DOMAIN s.files \cup {file}
  <2>1. InPlace(s) = DOMAIN s.files /\ Fetched(hub, file) = {file}
    BY <1>3 DEF InPlace, Fetched
  <2>2. new.real /\ DOMAIN new.files = InPlace(s) \cup Fetched(hub, file)
    BY Downloads
  <2> QED BY <2>1, <2>2
<1>6. names # {} /\ ArtifactIdentity(d, model, 1) = Named(model.kind, 1, Descriptors(new, names))
  BY <1>4, IdentifiedAgain
<1>7. Weights(ArtifactIdentity(d, model, 1)) = names \cap (Ggufs \cup Shards)
  <2> HIDE DEF names, new
  <2> QED BY <1>6, WeightsDescribed
<1>8. CASE model.kind = "file"
  BY <1>2, <1>3, <1>7, <1>8 DEF IdentityFiles, Offered
<1>9. CASE model.kind # "file"
  <2> DEFINE there == DOMAIN new.files \cap Ggufs
  <2>1. DOMAIN new.files \subseteq Names /\ there # {} /\ there \subseteq offered /\ file \in there
    <3>1. DOMAIN s.files \subseteq Names /\ Ggufs \subseteq Names
      BY DEF Names, WholeSnapshot
    <3>2. DOMAIN s.files \subseteq DOMAIN hub.files
      BY HubHolds
    <3>3. file \in offered
      BY <1>1, <1>2
    <3> HIDE DEF new
    <3> QED BY <1>3, <1>4, <3>1, <3>2, <3>3
  <2>2. SmallestGguf(there) = file
    <3>1. SmallestGguf(there) \in there /\ \A m \in there : Size[m] >= Size[SmallestGguf(there)]
      BY <2>1, SmallestIsOne
    <3>2. Size[file] >= Size[SmallestGguf(there)] /\ Size[SmallestGguf(there)] >= Size[file]
      BY <1>2, <1>9, <2>1, <3>1 DEF Offered
    <3>3. Size["q4.gguf"] = 4 /\ Size["q8.gguf"] = 8
      BY DEF Size, Ggufs
    <3>4. SmallestGguf(there) \in {"q4.gguf", "q8.gguf"} /\ file \in {"q4.gguf", "q8.gguf"}
      BY <1>3, <3>1 DEF Ggufs
    <3> HIDE DEF there
    <3> QED BY <3>2, <3>3, <3>4
  <2>3. SelectedWeights(new) \in {{}, {file}}
    <3> HIDE DEF new
    <3> QED BY <2>1, <2>2, WeightsSelected
  <2>4. names = SelectedWeights(new)
    BY <1>3, <1>9, <2>3 DEF AuthorityFiles, IdentityFiles
  <2> HIDE DEF names, new
  <2> QED BY <1>3, <1>6, <1>7, <2>3, <2>4
<1> QED BY <1>8, <1>9

\* What a GGUF engine measures after its download is the file that was planned.
LEMMA PlannedIsAlways == PlannedIsIdentified
<1>1. ASSUME NEW model \in Models \ {[kind |-> "local"]}, NEW s \in Snapshots, s.real,
             NEW hub \in Hubs(s), Offered(hub, model) # {}, NEW plan,
             plan = [rev |-> 1, file |-> SmallestGguf(Offered(hub, model))], NEW d,
             d = DownloadPrepared(Cache(NoRevision, s, NoSnapshot, 0), hub, plan), NEW id,
             id = ArtifactIdentity(d, model, plan.rev), id # Nothing
      PROVE  Weights(id) = {plan.file}
  <2>1. model \in Models /\ model.kind # "local" /\ plan.rev = 1
    BY <1>1 DEF Models
  <2>2. WholeSnapshot(s) /\ s.real = TRUE
    BY <1>1, SnapshotsAreWhole DEF WholeSnapshot
  <2>3. id = ArtifactIdentity(d, model, 1) /\ plan.file = SmallestGguf(Offered(hub, model))
    BY <1>1
  <2>4. d = DownloadPrepared(Cache(NoRevision, s, NoSnapshot, 0), hub,
                             [rev |-> 1, file |-> plan.file])
    BY <1>1
  <2>5. PICK file : file = plan.file /\ file = SmallestGguf(Offered(hub, model))
    BY <1>1
  <2>6. d = DownloadPrepared(Cache(NoRevision, s, NoSnapshot, 0), hub, [rev |-> 1, file |-> file])
    BY <2>4, <2>5
  <2>7. ArtifactIdentity(d, model, 1) # Nothing
    BY <1>1, <2>3
  <2>8. Weights(ArtifactIdentity(d, model, 1)) = {file}
    BY <1>1, <2>1, <2>2, <2>5, <2>6, <2>7, PlannedFile
  <2> QED BY <2>3, <2>5, <2>8
<1>2. ASSUME NEW hub, NEW model
      PROVE  LET plan == PrepareDownload(hub, model, TRUE, 1) IN
             \/ plan = Nothing
             \/ /\ Offered(hub, model) # {}
                /\ plan = [rev |-> 1, file |-> SmallestGguf(Offered(hub, model))]
  BY DEF PrepareDownload, Offered
<1>3. ASSUME NEW model \in Models \ {[kind |-> "local"]}, NEW s \in {t \in Snapshots : t.real},
             NEW hub \in Hubs(s)
      PROVE  LET plan == PrepareDownload(hub, model, TRUE, 1) IN
             plan # Nothing =>
                LET d == DownloadPrepared(Cache(NoRevision, s, NoSnapshot, 0), hub, plan)
                    id == ArtifactIdentity(d, model, plan.rev)
                IN id # Nothing => Weights(id) = {plan.file}
  <2>1. PICK plan : plan = PrepareDownload(hub, model, TRUE, 1)
    OBVIOUS
  <2>2. \/ plan = Nothing
        \/ /\ Offered(hub, model) # {}
           /\ plan = [rev |-> 1, file |-> SmallestGguf(Offered(hub, model))]
    BY <1>2, <2>1, Zenon
  <2>3. plan # Nothing =>
            LET d == DownloadPrepared(Cache(NoRevision, s, NoSnapshot, 0), hub, plan)
                id == ArtifactIdentity(d, model, plan.rev)
            IN id # Nothing => Weights(id) = {plan.file}
    BY <1>1, <1>3, <2>2
  <2> QED BY <2>1, <2>3, Zenon
<1> QED BY <1>3, Zenon DEF PlannedIsIdentified

-----------------------------------------------------------------------------
(* Downloading again. *)

NamesOf(id) == {n.name : n \in id.names}

LEMMA RefetchedPlan ==
    \A c, hub, model, id, ref :
        ref = AuthorizedDownloadRef(model, id) /\ ref # Nothing =>
            /\ NamesOf(id) \subseteq Ggufs /\ Offered(hub, ref.model) # {} =>
                 Refetched(c, hub, model, id) =
                 DownloadPrepared(c, hub, [rev |-> ref.rev,
                                           file |-> SmallestGguf(Offered(hub, ref.model))])
            /\ ~(NamesOf(id) \subseteq Ggufs) =>
                 Refetched(c, hub, model, id) =
                 DownloadPrepared(c, hub, [rev |-> ref.rev, file |-> NoName])
<1> TAKE c, hub, model, id, ref
<1> HAVE ref = AuthorizedDownloadRef(model, id) /\ ref # Nothing
<1>1. \A rev, file : [rev |-> rev, file |-> file] # Nothing
  BY DEF Nothing
<1>2. ASSUME NamesOf(id) \subseteq Ggufs, Offered(hub, ref.model) # {}
      PROVE  Refetched(c, hub, model, id) =
             DownloadPrepared(c, hub, [rev |-> ref.rev,
                                       file |-> SmallestGguf(Offered(hub, ref.model))])
  BY <1>1, <1>2 DEF Refetched, PrepareDownload, Offered, NamesOf
<1>3. ASSUME ~(NamesOf(id) \subseteq Ggufs)
      PROVE  Refetched(c, hub, model, id) =
             DownloadPrepared(c, hub, [rev |-> ref.rev, file |-> NoName])
  BY <1>1, <1>3 DEF Refetched, PrepareDownload, NamesOf
<1> QED BY <1>2, <1>3

\* What a reference to a repository of shards is identified by: no GGUF.
LEMMA NoGgufAmongShards ==
    \A s : /\ DOMAIN s.files \subseteq Names /\ AuthorityFiles(s) # {}
           /\ AuthorityFiles(s) \cap Ggufs = {}
           => /\ DOMAIN s.files \cap Ggufs = {} /\ DOMAIN s.files \cap Shards # {}
              /\ AuthorityFiles(s) = TransformerManifest(s)
<1> SUFFICES ASSUME NEW s, DOMAIN s.files \subseteq Names, AuthorityFiles(s) # {},
                    AuthorityFiles(s) \cap Ggufs = {}
             PROVE  /\ DOMAIN s.files \cap Ggufs = {} /\ DOMAIN s.files \cap Shards # {}
                    /\ AuthorityFiles(s) = TransformerManifest(s)
  OBVIOUS
<1>1. ~(SelectedWeights(s) \subseteq Ggufs)
  BY DEF AuthorityFiles
<1>2. DOMAIN s.files \cap Ggufs # {} => SmallestGguf(DOMAIN s.files \cap Ggufs) \in Ggufs
  BY SmallestIsOne
<1> QED BY <1>1, <1>2, WeightsSelected DEF AuthorityFiles

LEMMA OneGguf ==
    \A s : /\ DOMAIN s.files \subseteq Names /\ ~(AuthorityFiles(s) \cap Ggufs = {})
           => \E g \in Ggufs : g \in DOMAIN s.files /\ AuthorityFiles(s) = {g}
<1> SUFFICES ASSUME NEW s, DOMAIN s.files \subseteq Names, ~(AuthorityFiles(s) \cap Ggufs = {})
             PROVE  \E g \in Ggufs : g \in DOMAIN s.files /\ AuthorityFiles(s) = {g}
  OBVIOUS
<1>1. CASE SelectedWeights(s) \subseteq Ggufs
  <2>1. AuthorityFiles(s) = SelectedWeights(s) /\ SelectedWeights(s) # {}
    BY <1>1 DEF AuthorityFiles
  <2>2. DOMAIN s.files \cap Ggufs # {} =>
            SmallestGguf(DOMAIN s.files \cap Ggufs) \in DOMAIN s.files \cap Ggufs
    BY SmallestIsOne
  <2> QED BY <1>1, <2>1, <2>2, WeightsSelected, GgufsAreNoShards
<1>2. CASE ~(SelectedWeights(s) \subseteq Ggufs)
  <2>1. AuthorityFiles(s) = TransformerManifest(s)
    BY <1>2 DEF AuthorityFiles
  <2>2. DOMAIN s.files \cap Ggufs # {} => SmallestGguf(DOMAIN s.files \cap Ggufs) \in Ggufs
    BY SmallestIsOne
  <2>3. DOMAIN s.files \cap Ggufs = {}
    BY <1>2, <2>2, WeightsSelected
  <2>4. TransformerManifest(s) \subseteq DOMAIN s.files
    BY DEF TransformerManifest
  <2> QED BY <2>1, <2>3, <2>4
<1> QED BY <1>1, <1>2

\* A GGUF recorded is asked for by its name, in the revision recorded.
LEMMA AuthorizedGguf ==
    \A model, id, g :
        /\ model \in Models /\ model.kind # "local" /\ id.kind = model.kind /\ g \in Ggufs
        /\ {d.name : d \in id.names} = {g} /\ (model.kind = "file" => model.name = g)
        => AuthorizedDownloadRef(model, id) = [model |-> [kind |-> "file", name |-> g], rev |-> id.rev]
<1> TAKE model, id, g
<1> DEFINE names == {d.name : d \in id.names}
<1> HAVE /\ model \in Models /\ model.kind # "local" /\ id.kind = model.kind /\ g \in Ggufs
         /\ names = {g} /\ (model.kind = "file" => model.name = g)
<1>1. names \cap Ggufs = {g} /\ Cardinality({g}) = 1
  BY FS_Singleton
<1>2. (CHOOSE n \in {g} : TRUE) = g
  OBVIOUS
<1>3. PICK ggufs : ggufs = names \cap Ggufs
  OBVIOUS
<1>4. AuthorizedDownloadRef(model, id) =
        IF ggufs # {}
        THEN IF Cardinality(ggufs) # 1 \/ (model.kind = "file" /\ model.name \notin ggufs)
             THEN Nothing
             ELSE [model |-> [kind |-> "file", name |-> CHOOSE n \in ggufs : TRUE], rev |-> id.rev]
        ELSE IF model.kind = "file" THEN Nothing
        ELSE [model |-> model, rev |-> id.rev]
  BY <1>3 DEF AuthorizedDownloadRef
<1> QED BY <1>1, <1>2, <1>3, <1>4

LEMMA AuthorizedDirectory ==
    \A model, id :
        /\ model.kind = "repo" /\ id.kind = "repo" /\ {d.name : d \in id.names} \cap Ggufs = {}
        => AuthorizedDownloadRef(model, id) = [model |-> model, rev |-> id.rev]
BY DEF AuthorizedDownloadRef

\* A GGUF that was evicted is found again under its name.
LEMMA GgufRefetched ==
    \A s : \A model \in Models, hub \in Hubs(s) : \A id, g, d :
        /\ model.kind # "local" /\ s.real /\ g \in Ggufs /\ g \in DOMAIN s.files
        /\ model.kind = "file" => model.name = g
        /\ id = Named(model.kind, 1, Descriptors(s, {g}))
        /\ d = Refetched(Cache(1, NoSnapshot, NoSnapshot, 0), hub, model, id)
        => /\ d # Nothing
           /\ ArtifactIdentity(d, model, 1) # Nothing =>
                 /\ ArtifactIdentity(d, model, 1).kind = model.kind
                 /\ Weights(ArtifactIdentity(d, model, 1)) = {g}
<1> TAKE s
<1> TAKE model \in Models, hub \in Hubs(s)
<1> TAKE id, g, d
<1>0. HAVE /\ model.kind # "local" /\ s.real /\ g \in Ggufs /\ g \in DOMAIN s.files
           /\ model.kind = "file" => model.name = g
           /\ id = Named(model.kind, 1, Descriptors(s, {g}))
           /\ d = Refetched(Cache(1, NoSnapshot, NoSnapshot, 0), hub, model, id)
<1> DEFINE ref == [model |-> [kind |-> "file", name |-> g], rev |-> 1]
           new == d.snap[1]
           names == IdentityFiles(model, new)
<1>1. id.kind = model.kind /\ id.rev = 1 /\ NamesOf(id) = {g}
  <2>1. PICK all : all = {g}
    OBVIOUS
  <2>2. id.kind = model.kind /\ id.rev = 1 /\ id.names = Descriptors(s, all)
    BY <1>0, <2>1, SomethingNamed
  <2>3. {n.name : n \in Descriptors(s, all)} = all
    BY NamesDescribed
  <2> QED BY <2>1, <2>2, <2>3 DEF NamesOf
<1>2. AuthorizedDownloadRef(model, id) = ref
  BY SMTT(20), <1>0, <1>1, AuthorizedGguf DEF NamesOf
<1>3. ref # Nothing /\ ref.rev = 1 /\ ref.model.kind = "file" /\ ref.model.name = g
  BY DEF Nothing
<1>4. Offered(hub, ref.model) = {g}
  BY <1>0, <1>3, HubHolds DEF Offered
<1>5. SmallestGguf({g}) = g
  BY <1>0, SmallestIsOne
<1>6. d = DownloadPrepared(Cache(1, NoSnapshot, NoSnapshot, 0), hub, [rev |-> 1, file |-> g])
  <2>1. PICK r : r = ref
    OBVIOUS
  <2>2. \A c : Refetched(c, hub, model, id) =
               DownloadPrepared(c, hub, [rev |-> r.rev, file |-> SmallestGguf(Offered(hub, r.model))])
    <3>2. NamesOf(id) \subseteq Ggufs /\ Offered(hub, r.model) # {}
      BY <1>0, <1>1, <1>4, <2>1
    <3>3. r = AuthorizedDownloadRef(model, id) /\ r # Nothing
      BY <1>2, <1>3, <2>1
    <3> HIDE DEF ref, new, names
    <3> QED BY <3>2, <3>3, RefetchedPlan
  <2> QED BY <1>0, <1>3, <1>4, <1>5, <2>1, <2>2
<1>7. d # Nothing /\ new.real /\ DOMAIN new.files = {g}
  <2>1. InPlace(NoSnapshot) = {} /\ Fetched(hub, g) = {g}
    BY <1>0 DEF InPlace, Fetched, NoSnapshot, NoName, Ggufs
  <2>2. d # Nothing /\ d.snap[1].real
        /\ DOMAIN d.snap[1].files = InPlace(NoSnapshot) \cup Fetched(hub, g)
    <3> HIDE DEF ref, new, names
    <3> QED BY <1>6, Downloads
  <2> QED BY <2>1, <2>2
<1>8. ASSUME ArtifactIdentity(d, model, 1) # Nothing
      PROVE  ArtifactIdentity(d, model, 1).kind = model.kind
             /\ Weights(ArtifactIdentity(d, model, 1)) = {g}
  <2>1. names # {} /\ ArtifactIdentity(d, model, 1) = Named(model.kind, 1, Descriptors(new, names))
    BY <1>0, <1>7, <1>8, IdentifiedAgain
  <2>2. Weights(ArtifactIdentity(d, model, 1)) = names \cap (Ggufs \cup Shards)
        /\ ArtifactIdentity(d, model, 1).kind = model.kind
    <3> HIDE DEF names, new
    <3> QED BY <2>1, WeightsDescribed, SomethingNamed
  <2>3. names = {g}
    <3>1. CASE model.kind = "file"
      BY <1>0, <3>1 DEF IdentityFiles
    <3>2. CASE model.kind # "file"
      <4>1. names = AuthorityFiles(new)
        BY <3>2 DEF IdentityFiles
      <4>2. DOMAIN new.files \cap Ggufs = {g} /\ DOMAIN new.files \cap Shards = {}
        BY <1>0, <1>7, GgufsAreNoShards
      <4>3. SelectedWeights(new) = {g}
        <5> HIDE DEF new
        <5> QED BY <1>5, <4>2 DEF SelectedWeights
      <4> QED BY <1>0, <4>1, <4>3 DEF AuthorityFiles
    <3> QED BY <3>1, <3>2
  <2> QED BY <1>0, <2>2, <2>3
<1> QED BY <1>7, <1>8

\* A directory that was evicted is fetched whole; where it is identified, by its weights.
LEMMA DirectoryRefetched ==
    \A s : \A model \in Models, hub \in Hubs(s) : \A id, d :
        /\ model.kind = "repo" /\ s.real /\ DOMAIN s.files \subseteq Names
        /\ AuthorityFiles(s) # {} /\ AuthorityFiles(s) \cap Ggufs = {}
        /\ id = Named("repo", 1, Descriptors(s, AuthorityFiles(s)))
        /\ d = Refetched(Cache(1, NoSnapshot, NoSnapshot, 0), hub, model, id)
        => /\ d # Nothing
           /\ ArtifactIdentity(d, model, 1) # Nothing =>
                 /\ ArtifactIdentity(d, model, 1).kind = "repo"
                 /\ Weights(id) \subseteq Weights(ArtifactIdentity(d, model, 1))
                 /\ Weights(id) \subseteq Ggufs =>
                        Weights(ArtifactIdentity(d, model, 1)) = Weights(id)
<1> TAKE s
<1> TAKE model \in Models, hub \in Hubs(s)
<1> TAKE id, d
<1>0. HAVE /\ model.kind = "repo" /\ s.real /\ DOMAIN s.files \subseteq Names
           /\ AuthorityFiles(s) # {} /\ AuthorityFiles(s) \cap Ggufs = {}
           /\ id = Named("repo", 1, Descriptors(s, AuthorityFiles(s)))
           /\ d = Refetched(Cache(1, NoSnapshot, NoSnapshot, 0), hub, model, id)
<1> DEFINE ref == [model |-> model, rev |-> 1]
           new == d.snap[1]
           was == AuthorityFiles(s)
           names == AuthorityFiles(new)
<1>1. id.kind = "repo" /\ id.rev = 1 /\ NamesOf(id) = was
  BY <1>0, SomethingNamed, NamesDescribed DEF NamesOf
<1>2. AuthorizedDownloadRef(model, id) = ref
  BY <1>0, <1>1, AuthorizedDirectory DEF NamesOf
<1>3. ref # Nothing /\ ref.rev = 1
  BY DEF Nothing
<1>4. d = DownloadPrepared(Cache(1, NoSnapshot, NoSnapshot, 0), hub, [rev |-> 1, file |-> NoName])
  <2>1. PICK r : r = ref
    OBVIOUS
  <2>2. ~(was \subseteq Ggufs)
    BY <1>0
  <2>3. \A c : Refetched(c, hub, model, id) =
               DownloadPrepared(c, hub, [rev |-> r.rev, file |-> NoName])
    <3>2. ~(NamesOf(id) \subseteq Ggufs)
      BY <1>1, <2>2
    <3>3. r = AuthorizedDownloadRef(model, id) /\ r # Nothing
      BY <1>2, <1>3, <2>1
    <3> HIDE DEF was, ref, new, names
    <3> QED BY <3>2, <3>3, RefetchedPlan
  <2> QED BY <1>0, <1>3, <2>1, <2>3
<1>5. d # Nothing /\ new.real /\ new.refs = s.refs /\ DOMAIN new.files = DOMAIN hub.files
  <2>1. InPlace(NoSnapshot) = {} /\ Fetched(hub, NoName) = DOMAIN hub.files
    BY DEF InPlace, Fetched, NoSnapshot
  <2>2. d # Nothing /\ d.snap[1].real /\ d.snap[1].refs = hub.refs
        /\ DOMAIN d.snap[1].files = InPlace(NoSnapshot) \cup Fetched(hub, NoName)
    BY <1>4, Downloads
  <2> QED BY <2>1, <2>2, HubHolds
<1>6. /\ DOMAIN s.files \cap Ggufs = {} /\ DOMAIN s.files \cap Shards # {}
      /\ was = TransformerManifest(s)
  BY <1>0, NoGgufAmongShards
<1>7. /\ DOMAIN s.files \subseteq DOMAIN new.files
      /\ DOMAIN new.files \subseteq DOMAIN s.files \cup {"q4.gguf", "shard2", "config"}
  BY <1>5, HubHolds
<1>8. ASSUME ArtifactIdentity(d, model, 1) # Nothing
      PROVE  /\ ArtifactIdentity(d, model, 1).kind = "repo"
             /\ Weights(id) \subseteq Weights(ArtifactIdentity(d, model, 1))
             /\ Weights(id) \subseteq Ggufs => Weights(ArtifactIdentity(d, model, 1)) = Weights(id)
  <2>1. names # {} /\ ArtifactIdentity(d, model, 1) = Named("repo", 1, Descriptors(new, names))
    BY <1>0, <1>5, <1>8, IdentifiedAgain DEF IdentityFiles
  <2>2. Weights(ArtifactIdentity(d, model, 1)) = names \cap (Ggufs \cup Shards)
        /\ ArtifactIdentity(d, model, 1).kind = "repo"
    <3> HIDE DEF names, new
    <3> QED BY <2>1, WeightsDescribed, SomethingNamed
  <2>3. Weights(id) = was \cap (Ggufs \cup Shards)
    <3> HIDE DEF was
    <3> QED BY <1>0, WeightsDescribed DEF was
  <2>4. names = TransformerManifest(new)
    <3>1. DOMAIN new.files \subseteq Names /\ DOMAIN new.files \cap Shards # {}
      <4> HIDE DEF new
      <4> QED BY <1>0, <1>6, <1>7 DEF Names, Ggufs, Shards
    <3>2. SelectedWeights(new) = {} \/ SelectedWeights(new) = DOMAIN new.files \cap Shards
      <4> HIDE DEF new
      <4> QED BY <3>1 DEF SelectedWeights
    <3>3. SelectedWeights(new) # {}
      <4> HIDE DEF new
      <4> QED BY <2>1 DEF AuthorityFiles
    <3> HIDE DEF new
    <3> QED BY <3>1, <3>2, <3>3, GgufsAreNoShards DEF AuthorityFiles
  <2>5. "index" \in DOMAIN s.files <=> "index" \in DOMAIN new.files
    BY <1>7
  <2>6. CASE "index" \notin DOMAIN s.files
    <3>1. was = DOMAIN s.files /\ names = DOMAIN new.files
      <4> HIDE DEF new
      <4> QED BY <1>6, <2>4, <2>5, <2>6 DEF TransformerManifest
    <3>2. ~(Weights(id) \subseteq Ggufs)
      <4> HIDE DEF was
      <4> QED BY <1>6, <2>3, <3>1, GgufsAreNoShards
    <3> HIDE DEF new, was, names
    <3> QED BY <1>7, <2>2, <2>3, <3>1, <3>2
  <2>7. CASE "index" \in DOMAIN s.files
    <3>1. /\ was = (DOMAIN s.files \ (Ggufs \cup Shards \cup {"mmproj.gguf"})) \cup s.refs
          /\ s.refs # {} /\ s.refs \subseteq DOMAIN s.files
      <4> HIDE DEF was
      <4> QED BY <1>0, <1>6, <2>7 DEF TransformerManifest, was
    <3>2. names = (DOMAIN new.files \ (Ggufs \cup Shards \cup {"mmproj.gguf"})) \cup s.refs
      <4>1. new.refs # {} /\ new.refs \subseteq DOMAIN new.files
        <5> HIDE DEF new
        <5> QED BY <1>5, <1>7, <3>1
      <4> HIDE DEF new, names
      <4> QED BY <1>5, <2>4, <2>5, <2>7, <4>1 DEF TransformerManifest
    <3>3. was \cap (Ggufs \cup Shards) = names \cap (Ggufs \cup Shards)
      <4> HIDE DEF was, names, new
      <4> QED BY <3>1, <3>2
    <3> QED BY <2>2, <2>3, <3>3
  <2> QED BY <2>6, <2>7
<1> QED BY <1>5, <1>8

\* Evicted and downloaded again by its identity, a model is identified by the same weights.
LEMMA RefetchedIsAlways == RefetchedIsIdentified
<1>1. ASSUME NEW model \in Models \ {[kind |-> "local"]}, NEW s \in Snapshots, s.real,
             NEW c, c = Cache(1, s, NoSnapshot, 0), NEW id,
             id = ArtifactIdentity(c, model, NoRevision), id # Nothing
      PROVE  /\ model \in Models /\ model.kind \in {"repo", "file"} /\ DOMAIN s.files \subseteq Names
             /\ model.kind = "file" => model.name \in Ggufs
             /\ IdentityFiles(model, s) # {} /\ IdentityFiles(model, s) \subseteq DOMAIN s.files
             /\ id = Named(model.kind, 1, Descriptors(s, IdentityFiles(model, s)))
             /\ id.rev = 1 /\ id.kind = model.kind
  <2>1. model \in Models /\ model.kind \in {"repo", "file"}
        /\ (model.kind = "file" => model.name \in Ggufs)
    BY <1>1 DEF Models
  <2>2. DOMAIN s.files \subseteq Names
    BY <1>1, SnapshotsAreWhole DEF WholeSnapshot
  <2>3. c.main = 1 /\ c.snap[1] = s
    BY <1>1, ArtifactsAssumption DEF Cache
  <2>4. id = Identified(model.kind, 1, s, IdentityFiles(model, s))
    BY <1>1, <2>1, <2>3 DEF ArtifactIdentity, ValidatedSnapshot, NoRevision, IdentityFiles
  <2>5. /\ IdentityFiles(model, s) # {} /\ IdentityFiles(model, s) \subseteq DOMAIN s.files
        /\ id = Named(model.kind, 1, Descriptors(s, IdentityFiles(model, s)))
    BY <1>1, <2>4 DEF Identified, Descriptors
  <2> QED BY <2>1, <2>2, <2>5, SomethingNamed
<1>2. ASSUME NEW model \in Models \ {[kind |-> "local"]}, NEW s \in Snapshots, s.real,
             NEW c, c = Cache(1, s, NoSnapshot, 0), NEW id,
             id = ArtifactIdentity(c, model, NoRevision), id # Nothing,
             NEW hub \in Hubs(s), NEW d,
             d = Refetched(Cache(1, NoSnapshot, NoSnapshot, 0), hub, model, id), NEW again,
             again = ArtifactIdentity(d, model, 1)
      PROVE  /\ d # Nothing
             /\ again # Nothing =>
                   /\ Weights(id) \subseteq Weights(again)
                   /\ Weights(id) \subseteq Ggufs => again.kind = id.kind /\ Weights(id) = Weights(again)
  <2> DEFINE names == IdentityFiles(model, s)
  <2>1. /\ model \in Models /\ model.kind \in {"repo", "file"} /\ DOMAIN s.files \subseteq Names
        /\ model.kind = "file" => model.name \in Ggufs
        /\ names # {} /\ names \subseteq DOMAIN s.files
        /\ id = Named(model.kind, 1, Descriptors(s, names))
        /\ id.rev = 1 /\ id.kind = model.kind
    BY <1>1, <1>2
  <2>2. CASE names \cap Ggufs # {}
    <3>1. PICK g \in Ggufs : g \in DOMAIN s.files /\ names = {g} /\ (model.kind = "file" => model.name = g)
      <4>1. CASE model.kind = "file"
        BY <2>1, <4>1 DEF IdentityFiles
      <4>2. CASE model.kind # "file"
        BY <2>1, <2>2, <4>2, OneGguf DEF IdentityFiles
      <4> QED BY <4>1, <4>2
    <3>2. Weights(id) = {g}
      <4>1. Weights(id) = names \cap (Ggufs \cup Shards)
        <5> HIDE DEF names
        <5> QED BY <2>1, WeightsDescribed
      <4> QED BY <3>1, <4>1
    <3>3. /\ d # Nothing
          /\ again # Nothing => again.kind = model.kind /\ Weights(again) = {g}
      <4>1. id = Named(model.kind, 1, Descriptors(s, {g}))
        BY <2>1, <3>1
      <4> HIDE DEF names
      <4> QED BY <1>2, <2>1, <3>1, <4>1, GgufRefetched
    <3> QED BY <2>1, <3>2, <3>3
  <2>3. CASE names \cap Ggufs = {}
    <3>1. model.kind = "repo" /\ names = AuthorityFiles(s)
      BY <2>1, <2>3 DEF IdentityFiles
    <3>2. /\ d # Nothing
          /\ again # Nothing =>
               /\ again.kind = "repo" /\ Weights(id) \subseteq Weights(again)
               /\ Weights(id) \subseteq Ggufs => Weights(again) = Weights(id)
      <4>1. /\ AuthorityFiles(s) # {} /\ AuthorityFiles(s) \cap Ggufs = {}
            /\ id = Named("repo", 1, Descriptors(s, AuthorityFiles(s)))
        BY <2>1, <2>3, <3>1
      <4> HIDE DEF names
      <4> QED BY <1>2, <2>1, <3>1, <4>1, DirectoryRefetched
    <3> QED BY <2>1, <3>1, <3>2
  <2> QED BY <2>2, <2>3
<1> SUFFICES ASSUME NEW model \in Models \ {[kind |-> "local"]}, NEW s \in {t \in Snapshots : t.real},
                    ArtifactIdentity(Cache(1, s, NoSnapshot, 0), model, NoRevision) # Nothing,
                    NEW hub \in Hubs(s)
             PROVE  LET c == Cache(1, s, NoSnapshot, 0)
                        id == ArtifactIdentity(c, model, NoRevision)
                        d == Refetched(Cache(1, NoSnapshot, NoSnapshot, 0), hub, model, id)
                        again == ArtifactIdentity(d, model, id.rev)
                    IN /\ d # Nothing
                       /\ again # Nothing =>
                            /\ Weights(id) \subseteq Weights(again)
                            /\ Weights(id) \subseteq Ggufs => again.kind = id.kind
                                                             /\ Weights(id) = Weights(again)
  BY DEF RefetchedIsIdentified
<1>3. PICK c : c = Cache(1, s, NoSnapshot, 0)
  OBVIOUS
<1>4. PICK id : id = ArtifactIdentity(c, model, NoRevision)
  OBVIOUS
<1>5. PICK d : d = Refetched(Cache(1, NoSnapshot, NoSnapshot, 0), hub, model, id)
  OBVIOUS
<1>6. PICK again : again = ArtifactIdentity(d, model, 1)
  OBVIOUS
<1>7. s \in Snapshots /\ s.real /\ id # Nothing
  BY <1>3, <1>4
<1>8. id.rev = 1
  BY <1>1, <1>3, <1>4, <1>7
<1>9. /\ d # Nothing
      /\ again # Nothing =>
            /\ Weights(id) \subseteq Weights(again)
            /\ Weights(id) \subseteq Ggufs => again.kind = id.kind /\ Weights(id) = Weights(again)
  BY <1>2, <1>3, <1>4, <1>5, <1>6, <1>7
<1> QED BY <1>3, <1>4, <1>5, <1>6, <1>8, <1>9

-----------------------------------------------------------------------------
USE DEF Measuring, Locked, At, Saving, Calibrating

(***************************************************************************)
(* The versions the commands handle are versions of the model.             *)
(***************************************************************************)
Published == 1 .. 2 + used.changes
Pinned == {"pin", "load", "working", "audit", "artifact", "again"} \cup Saving

\* The versions a command names: of its plan, of what it found and chose, and of
\* what it pinned.
NamesPublished(c) ==
    c.kind # "none" =>
        /\ CommandFields \subseteq DOMAIN c
        /\ c.plan \in Published \cup {0}
        /\ \A r \in c.found : r.art \in Published
        /\ c.kind \in Answering /\ c.pc \in Chosen => c.row.art \in Published
        /\ c.pc \in Pinned => c.art \in Published

WorldIsPublished ==
    /\ {"commands", "changes", "kills"} \subseteq DOMAIN used
    /\ used.changes \in 0 .. MaxChanges
    /\ world.main \in Published /\ world.head \in Published
    /\ world.cached \subseteq Published /\ world.local \in BOOLEAN

\* Ranks are bounded, so that some row is the newest.
RowsArePublished ==
    /\ \A r \in rows : r.art \in Published
    /\ \E k \in Nat : \A r \in rows : r.rank \in 0 .. k

PublishedInv == WorldIsPublished /\ RowsArePublished /\ \A p \in Procs : NamesPublished(cmd[p])

LEMMA PublishingBegins == Init => PublishedInv
<1> SUFFICES ASSUME Init PROVE PublishedInv
  OBVIOUS
<1>1. used.changes = 0 /\ Published = 1 .. 2 /\ MaxChanges \in Nat
  BY RevisionsAssumption DEF Init, Published
<1>2. WorldIsPublished
  BY <1>1 DEF Init, WorldIsPublished
<1>3. \A p \in Procs : cmd[p].kind = "none"
  BY DEF Init, Idle
<1>4. \A r \in rows : r.art = 1 /\ r.rank = 0
  BY DEF Init
<1>5. RowsArePublished
  BY <1>1, <1>4 DEF RowsArePublished
<1> QED BY <1>2, <1>3, <1>5 DEF PublishedInv, NamesPublished

\* What was published stays so.
LEMMA PublishedStays ==
    ASSUME NEW c, NamesPublished(c), Published \subseteq Published'
    PROVE  NamesPublished(c)'
BY DEF NamesPublished

\* A command that goes on with the versions it had.
Carries(c, d) ==
    /\ CommandFields \subseteq DOMAIN d /\ d.kind = c.kind /\ d.plan = c.plan
    /\ d.found = c.found /\ d.row = c.row /\ d.art = c.art
    /\ d.pc \in Pinned => c.pc \in Pinned
    /\ d.kind \in Answering /\ d.pc \in Chosen => c.pc \in Chosen

LEMMA CarriedIsPublished ==
    ASSUME NEW c, NEW d, NamesPublished(c), c.kind # "none", Carries(c, d)
    PROVE  NamesPublished(d)
BY DEF NamesPublished, Carries

\* The newest row of its authority and build is one of the rows.
LEMMA NewestIsOne ==
    ASSUME RowsArePublished, NEW e, NEW authority, NEW build
    PROVE  LET row == Reusable(e, authority, build) IN row.safe # 0 => row \in rows
<1> DEFINE hits == {r \in rows : r.eng = e /\ r.authority = authority /\ r.build = build}
           ranks == {r.rank : r \in hits}
<1>1. CASE hits = {}
  BY <1>1 DEF Reusable, NoRow
<1>2. CASE hits # {}
  <2>1. PICK k \in Nat : \A r \in rows : r.rank \in 0 .. k
    BY DEF RowsArePublished
  <2>2. IsFiniteSet(ranks) /\ ranks # {} /\ ranks \subseteq Int
    <3>1. ranks \subseteq 0 .. k
      BY <2>1
    <3>2. IsFiniteSet(0 .. k)
      BY <2>1, FS_Interval
    <3>3. ranks # {}
      BY <1>2
    <3>4. ranks \subseteq Int
      BY <2>1
    <3>5. IsFiniteSet(ranks)
      <4> HIDE DEF ranks
      <4> QED BY <3>1, <3>2, FS_Subset
    <3> QED BY <3>3, <3>4, <3>5
  <2>3. Max(ranks) \in ranks /\ \A n \in ranks : n <= Max(ranks)
    <3> HIDE DEF ranks
    <3> QED BY <2>2, MaxIsTop
  <2>4. \E r \in hits : \A s \in hits : s.rank <= r.rank
    <3>1. PICK r \in hits : r.rank = Max(ranks)
      BY <2>3
    <3>2. \A s \in hits : s.rank \in ranks
      OBVIOUS
    <3> HIDE DEF ranks, hits
    <3> QED BY <2>3, <3>1, <3>2
  <2>5. Reusable(e, authority, build) = CHOOSE r \in hits : \A s \in hits : s.rank <= r.rank
    BY <1>2 DEF Reusable
  <2>6. Reusable(e, authority, build) \in hits
    <3> HIDE DEF hits
    <3> QED BY <2>4, <2>5
  <2> QED BY <2>6
<1> QED BY <1>1, <1>2

\* A step leaves a command of its own with versions that were published.
LEMMA StepNames ==
    ASSUME IInv, AnswersInv, PublishedInv, NEW p \in Procs, Step(p)
    PROVE  NamesPublished(cmd'[p])
<1> DEFINE Goal == NamesPublished(cmd'[p])
<1>1. PICK c : c = cmd[p]
  OBVIOUS
<1>2. PICK d : d = cmd'[p]
  OBVIOUS
<1>3. /\ DOMAIN cmd = Procs /\ WorldIsPublished /\ RowsArePublished
      /\ 0 \notin Published
  BY DEF IInv, Commanded, PublishedInv, Published
<1>4. c.kind # "none"
  BY <1>1, StepMoves DEF IInv, Commanded, Idle
<1>5. NamesPublished(c)
  BY <1>1 DEF PublishedInv
<1>6. /\ CommandFields \subseteq DOMAIN c /\ c.plan \in Published \cup {0}
      /\ \A r \in c.found : r.art \in Published
      /\ c.kind \in Answering /\ c.pc \in Chosen => c.row.art \in Published
      /\ c.pc \in Pinned => c.art \in Published
  BY <1>4, <1>5 DEF NamesPublished
<1>7. /\ c.pc \in Calibrating \cup Saving => c.kind = "characterize"
      /\ c.pc \in {"remove", "create"} => c.kind \in {"install", "uninstall"}
      /\ c.kind \in Answering => /\ c.pc \in {"scan", "lookup"} \cup Chosen
                                 /\ c.pc \in Asked => c.art = c.row.art
  BY <1>1 DEF IInv, PlaceFitsKind, AnswersInv, AnswerFits
<1>8. Finish(p) => Goal
  BY <1>3 DEF Finish, Idle, NamesPublished
<1>9. Carries(c, d) => Goal
  BY <1>2, <1>4, <1>5, CarriedIsPublished
<1> USE DEF Goto, Silent, Proceed
<1>11. CASE ReadAuthority(p)
  <2>1. d = [c EXCEPT !.authority = Authority(c.eng), !.pc = "plan"] /\ c.pc = "authority"
    BY <1>1, <1>2, <1>3, <1>11 DEF ReadAuthority
  <2>2. Carries(c, d)
    BY <1>6, <1>7, <2>1 DEF Carries, CommandFields, Pinned, Chosen, Asked, Checked, Loading
  <2> QED BY <1>9, <2>2
<1>12. CASE PrefetchPlan(p)
  <2>1. PICK plan : /\ Finish(p) \/ cmd' = [cmd EXCEPT ![p].plan = plan, ![p].pc = "enter"]
                    /\ At(p, "plan")
                    /\ plan \in {0, world.head}
                       \/ (plan = c.row.art /\ c.kind = "benchmark")
    BY <1>1, <1>12 DEF PrefetchPlan
  <2>2. CASE cmd' = [cmd EXCEPT ![p].plan = plan, ![p].pc = "enter"]
    <3>1. d = [c EXCEPT !.plan = plan, !.pc = "enter"] /\ c.pc = "plan"
      BY <1>1, <1>2, <1>3, <2>1, <2>2
    <3>2. plan \in Published \cup {0}
      BY <1>3, <1>6, <2>1, <3>1 DEF WorldIsPublished, Answering, Chosen, Asked
    <3>3. NamesPublished(d)
      BY <1>6, <3>1, <3>2
         DEF NamesPublished, CommandFields, Pinned, Chosen, Asked, Checked, Loading
    <3> QED BY <1>2, <3>3
  <2> QED BY <1>8, <2>1, <2>2
<1>13. CASE Enter(p)
  <2>1. d = [c EXCEPT !.tracked = TRUE,
                      !.pc = IF c.kind = "characterize" THEN "download" ELSE "live"]
        /\ c.pc = "enter"
    BY <1>1, <1>2, <1>3, <1>13 DEF Enter
  <2>2. Carries(c, d)
    BY <1>6, <1>7, <2>1 DEF Carries, CommandFields, Pinned, Chosen, Asked, Checked, Loading
  <2> QED BY <1>9, <2>2
<1>14. CASE Download(p)
  <2>1. d = [c EXCEPT !.pc = IF c.kind = "characterize" THEN "calibrate" ELSE "identify"]
        /\ c.pc = "download"
    BY <1>1, <1>2, <1>3, <1>14 DEF Download
  <2>2. Carries(c, d)
    BY <1>6, <1>7, <2>1 DEF Carries, CommandFields, Pinned, Chosen, Asked, Checked, Loading
  <2> QED BY <1>9, <2>2
<1>15. CASE Calibrate(p) \/ CalibrationEnds(p)
  <2>1. ASSUME NEW seen, NEW measured, NEW place \in {"identify", "calibrating"}, c.pc \in Calibrating,
               \/ cmd' = [cmd EXCEPT ![p].pc = place, ![p].measured = measured, ![p].seen = seen]
               \/ cmd' = [cmd EXCEPT ![p].pc = place, ![p].seen = seen]
               \/ cmd' = [cmd EXCEPT ![p].pc = place]
        PROVE  Goal
    <3>1. \/ d = [c EXCEPT !.pc = place, !.measured = measured, !.seen = seen]
          \/ d = [c EXCEPT !.pc = place, !.seen = seen]
          \/ d = [c EXCEPT !.pc = place]
      BY <1>1, <1>2, <1>3, <2>1
    <3>2. Carries(c, d)
      BY <1>6, <1>7, <2>1, <3>1
         DEF Carries, CommandFields, Pinned, Chosen, Asked, Checked, Loading, Answering
    <3> QED BY <1>9, <3>2
  <2>2. CASE Calibrate(p)
    <3>1. PICK seen : seen = UNION {s.seen : s \in Calibrations(c.eng, c.authority, c.build)}
      OBVIOUS
    <3>2. /\ c.pc = "calibrate"
          /\ \/ cmd' = [cmd EXCEPT ![p].pc = "identify", ![p].seen = seen]
             \/ cmd' = [cmd EXCEPT ![p].pc = "calibrating"]
      BY <1>1, <2>2, <3>1 DEF Calibrate
    <3> QED BY <2>1, <3>2
  <2>3. CASE CalibrationEnds(p)
    <3>1. PICK ok, seen :
              cmd' = [cmd EXCEPT ![p].pc = "identify", ![p].measured = ok, ![p].seen = seen]
      BY <2>3 DEF CalibrationEnds
    <3>2. c.pc = "calibrating"
      BY <1>1, <2>3 DEF CalibrationEnds
    <3> QED BY <2>1, <3>1, <3>2
  <2> QED BY <1>15, <2>2, <2>3
<1>16. CASE Identify(p)
  <2>1. PICK art : /\ Finish(p) \/ cmd' = [cmd EXCEPT ![p].art = art, ![p].pc = "pin"]
                   /\ At(p, "identify") /\ art = ArtifactIdentityForPlan(c)
                   /\ art = 0 => Finish(p)
    BY <1>1, <1>16 DEF Identify
  <2>2. CASE cmd' = [cmd EXCEPT ![p].art = art, ![p].pc = "pin"] /\ art # 0
    <3>1. d = [c EXCEPT !.art = art, !.pc = "pin"] /\ c.pc = "identify"
      BY <1>1, <1>2, <1>3, <2>1, <2>2
    <3>2. art \in Published
      BY <1>3, <1>6, <2>1, <2>2, <3>1
         DEF ArtifactIdentityForPlan, Selected, WorldIsPublished, Answering, Chosen, Asked, Checked
    <3>3. NamesPublished(d)
      BY <1>6, <3>1, <3>2
         DEF NamesPublished, CommandFields, Pinned, Chosen, Asked, Checked, Loading
    <3> QED BY <1>2, <3>3
  <2> QED BY <1>8, <2>1, <2>2
<1>17. CASE Pin(p)
  <2>1. Finish(p) \/ (d = [c EXCEPT !.pc = "load"] /\ c.pc = "pin")
    BY <1>1, <1>2, <1>3, <1>17 DEF Pin
  <2>2. d = [c EXCEPT !.pc = "load"] /\ c.pc = "pin" => Carries(c, d)
    BY <1>6, <1>7 DEF Carries, CommandFields, Pinned, Chosen, Asked, Checked, Loading
  <2> QED BY <1>8, <1>9, <2>1, <2>2
<1>18. CASE Load(p)
  <2>1. d = [c EXCEPT !.pc = "working"] /\ c.pc = "load"
    BY <1>1, <1>2, <1>3, <1>18 DEF Load
  <2>2. Carries(c, d)
    BY <1>6, <1>7, <2>1 DEF Carries, CommandFields, Pinned, Chosen, Asked, Checked, Loading
  <2> QED BY <1>9, <2>2
<1>19. CASE WorkerEnds(p)
  <2>1. PICK seen, loads, place :
            /\ cmd' = [cmd EXCEPT ![p].seen = seen, ![p].loads = loads, ![p].pc = place]
            /\ place \in {"load", "artifact", "audit"}
            /\ place = "audit" => c.kind = "characterize"
    <3>1. PICK more \in BOOLEAN :
              cmd' = [cmd EXCEPT ![p].seen = @ \cup Seen(p), ![p].loads = @ + 1,
                                 ![p].pc = IF more THEN "load"
                                           ELSE IF cmd[p].kind = "characterize" THEN "audit"
                                           ELSE "artifact"]
      BY <1>19 DEF WorkerEnds
    <3>2. PICK seen, loads : seen = c.seen \cup Seen(p) /\ loads = c.loads + 1
      OBVIOUS
    <3>3. PICK place : place = IF more THEN "load"
                         ELSE IF c.kind = "characterize" THEN "audit" ELSE "artifact"
      OBVIOUS
    <3>4. cmd' = [cmd EXCEPT ![p].seen = seen, ![p].loads = loads, ![p].pc = place]
      BY <1>1, <3>1, <3>2, <3>3
    <3>5. place \in {"load", "artifact", "audit"} /\ (place = "audit" => c.kind = "characterize")
      BY <3>3
    <3> QED BY <3>4, <3>5
  <2>2. c.pc = "working"
    BY <1>1, <1>19 DEF WorkerEnds
  <2>3. d = [c EXCEPT !.seen = seen, !.loads = loads, !.pc = place]
    BY <1>1, <1>2, <1>3, <2>1
  <2>4. Carries(c, d)
    BY <1>6, <1>7, <2>1, <2>2, <2>3
       DEF Carries, CommandFields, Pinned, Chosen, Asked, Checked, Loading, Answering
  <2> QED BY <1>9, <2>4
<1>20. CASE AuditAfter(p)
  <2>1. d = [c EXCEPT !.after = world.build[c.eng], !.tracked = FALSE, !.pc = "artifact"]
        /\ c.pc = "audit"
    BY <1>1, <1>2, <1>3, <1>20 DEF AuditAfter
  <2>2. Carries(c, d)
    BY <1>6, <1>7, <2>1
       DEF Carries, CommandFields, Pinned, Chosen, Asked, Checked, Loading, Answering
  <2> QED BY <1>9, <2>2
<1>21. CASE ArtifactAfter(p)
  <2>1. CASE Finish(p)
    BY <1>8, <2>1
  <2>2. ASSUME NEW repeat \in BOOLEAN, c.pc = "artifact",
               cmd' = [cmd EXCEPT ![p].tracked = repeat \/ c.kind = "run",
                                  ![p].pc = IF repeat THEN "load" ELSE "again"]
        PROVE  Goal
    <3>1. PICK tracked : tracked = (repeat \/ c.kind = "run")
      OBVIOUS
    <3>2. d = [c EXCEPT !.tracked = tracked, !.pc = IF repeat THEN "load" ELSE "again"]
      BY <1>1, <1>2, <1>3, <2>2, <3>1
    <3>3. Carries(c, d)
      BY <1>6, <1>7, <2>2, <3>2
         DEF Carries, CommandFields, Pinned, Chosen, Asked, Checked, Loading, Answering
    <3> QED BY <1>9, <3>3
  <2> QED BY <1>1, <1>21, <2>1, <2>2 DEF ArtifactAfter
<1>22. CASE AuthorityAfter(p)
  <2>1. Finish(p) \/ (/\ c.pc = "again"
                      /\ d = [c EXCEPT !.tracked = FALSE,
                                       !.pc = IF c.kind # "characterize" THEN "show"
                                              ELSE IF c.measured THEN "saveCalibration"
                                              ELSE "saveRow"])
    BY <1>1, <1>2, <1>3, <1>22 DEF AuthorityAfter
  <2>2. CASE ~Finish(p)
    <3>1. PICK place : d = [c EXCEPT !.tracked = FALSE, !.pc = place] /\ c.pc = "again"
                    /\ place \in {"show", "saveCalibration", "saveRow"}
      BY <2>1, <2>2
    <3>2. Carries(c, d)
      BY <1>6, <1>7, <3>1
         DEF Carries, CommandFields, Pinned, Chosen, Asked, Checked, Loading, Answering
    <3> QED BY <1>9, <3>2
  <2> QED BY <1>8, <2>2
<1>23. CASE SaveCalibration(p)
  <2>1. d = [c EXCEPT !.pc = "saveRow"]
        /\ c.pc = "saveCalibration"
    BY <1>1, <1>2, <1>3, <1>23 DEF SaveCalibration
  <2>2. Carries(c, d)
    BY <1>6, <1>7, <2>1
       DEF Carries, CommandFields, Pinned, Chosen, Asked, Checked, Loading, Answering
  <2> QED BY <1>9, <2>2
<1>24. CASE SaveRow(p) \/ Show(p) \/ StoreScore(p) \/ CreateEngine(p)
  BY <1>8, <1>24 DEF SaveRow, Show, StoreScore, Give, CreateEngine
<1>25. CASE ScanAuthority(p)
  <2>1. PICK e \in cmd[p].todo :
            cmd' = [cmd EXCEPT ![p].eng = e, ![p].authority = Authority(e), ![p].pc = "lookup",
                               ![p].todo = @ \ {e}]
    BY <1>25 DEF ScanAuthority
  <2>2. d = [c EXCEPT !.eng = e, !.authority = Authority(e), !.pc = "lookup", !.todo = @ \ {e}]
        /\ c.pc = "scan"
    BY <1>1, <1>2, <1>3, <1>25, <2>1 DEF ScanAuthority
  <2>3. Carries(c, d)
    BY <1>6, <1>7, <2>2
       DEF Carries, CommandFields, Pinned, Chosen, Asked, Checked, Loading, Answering
  <2> QED BY <1>9, <2>3
<1>26. CASE Lookup(p)
  <2>1. PICK row : /\ row.safe # 0 => row \in rows
                   /\ d = [c EXCEPT !.found = IF row.safe = 0 THEN @ ELSE @ \cup {row}, !.pc = "scan"]
                   /\ c.pc = "lookup"
    <3>1. PICK row : /\ row = IF Installed(c.eng)
                              THEN Reusable(c.eng, c.authority, world.build[c.eng]) ELSE NoRow
                     /\ cmd' = [cmd EXCEPT ![p].found = IF row.safe = 0 THEN @ ELSE @ \cup {row},
                                           ![p].pc = "scan"]
                     /\ c.pc = "lookup"
      BY <1>1, <1>26 DEF Lookup
    <3>2. NoRow.safe = 0
      BY DEF NoRow
    <3>3. row.safe # 0 => row \in rows
      BY <1>3, <3>1, <3>2, NewestIsOne
    <3>4. d = [c EXCEPT !.found = IF row.safe = 0 THEN @ ELSE @ \cup {row}, !.pc = "scan"]
      BY <1>1, <1>2, <1>3, <3>1
    <3> QED BY <3>1, <3>3, <3>4
  <2>2. row.safe # 0 => row.art \in Published
    BY <1>3, <2>1 DEF RowsArePublished
  <2>3. NamesPublished(d)
    BY <1>6, <2>1, <2>2 DEF NamesPublished, CommandFields, Pinned, Chosen, Asked, Checked, Loading
  <2> QED BY <1>2, <2>3
<1>27. CASE Pick(p)
  <2>1. CASE Finish(p)
    BY <1>8, <2>1
  <2>2. ASSUME NEW r \in c.found, NEW next \in {"consent", "recheck"}, c.pc = "scan",
               cmd' = [cmd EXCEPT ![p].row = r, ![p].eng = r.eng,
                                  ![p].authority = r.authority, ![p].found = {}, ![p].pc = next]
        PROVE  Goal
    <3>1. d = [c EXCEPT !.row = r, !.eng = r.eng, !.authority = r.authority, !.found = {},
                        !.pc = next]
      BY <1>1, <1>2, <1>3, <2>2
    <3>2. r.art \in Published
      BY <1>6
    <3>3. NamesPublished(d)
      BY <1>6, <2>2, <3>1, <3>2
         DEF NamesPublished, CommandFields, Pinned, Chosen, Asked, Checked, Loading
    <3> QED BY <1>2, <3>3
  <2> QED BY <1>1, <1>27, <2>1, <2>2 DEF Pick
<1>28. CASE RecheckSelection(p)
  <2>1. Finish(p) \/ (d = [c EXCEPT !.pc = "consent"] /\ c.pc = "recheck")
    BY <1>1, <1>2, <1>3, <1>28 DEF RecheckSelection
  <2>2. d = [c EXCEPT !.pc = "consent"] /\ c.pc = "recheck" => Carries(c, d)
    BY <1>6, <1>7 DEF Carries, CommandFields, Pinned, Chosen, Asked, Checked, Loading, Answering
  <2> QED BY <1>8, <1>9, <2>1, <2>2
<1>29. CASE Consent(p)
  <2>1. PICK ctx : /\ d = [c EXCEPT !.ctx = ctx, !.art = c.row.art,
                                    !.pc = IF c.kind = "run" THEN "enter" ELSE "plan"]
                   /\ c.pc = "consent"
    BY <1>1, <1>2, <1>3, <1>29 DEF Consent
  <2>2. NamesPublished(d)
    BY <1>6, <2>1 DEF NamesPublished, CommandFields, Pinned, Chosen, Asked, Checked, Loading
  <2> QED BY <1>2, <2>2
<1>30. CASE LiveAuthority(p)
  <2>1. \/ Finish(p)
        \/ /\ d = [c EXCEPT !.pc = IF c.kind = "run" THEN "pin" ELSE "download"]
           /\ c.pc = "live"
    BY <1>1, <1>2, <1>3, <1>30 DEF LiveAuthority
  <2>2. CASE ~Finish(p)
    <3>1. c.kind = "run" => c.art \in Published
      BY <1>6, <1>7, <2>1, <2>2 DEF Answering, Chosen, Asked
    <3>2. NamesPublished(d)
      BY <1>6, <2>1, <2>2, <3>1
         DEF NamesPublished, CommandFields, Pinned, Chosen, Asked, Checked, Loading
    <3> QED BY <1>2, <3>2
  <2> QED BY <1>8, <2>2
<1>31. CASE ServeLookup(p)
  <2>1. PICK row : row = Reusable(c.eng, c.authority, world.build[c.eng])
    OBVIOUS
  <2>2. PICK ctx \in Ceilings : cmd' = [cmd EXCEPT ![p].row = row, ![p].ctx = ctx,
                                                   ![p].pc = "serveCheck"]
    BY <1>1, <1>31, <2>1 DEF ServeLookup
  <2>3. d = [c EXCEPT !.row = row, !.ctx = ctx, !.pc = "serveCheck"] /\ c.pc = "serveLookup"
    BY <1>1, <1>2, <1>3, <1>31, <2>2 DEF ServeLookup
  <2>4. NamesPublished(d)
    BY <1>6, <2>3 DEF NamesPublished, CommandFields, Pinned, Chosen, Asked, Checked, Loading
  <2> QED BY <1>2, <2>4
<1>32. CASE ServeCheck(p)
  <2>1. Finish(p) \/ (d = [c EXCEPT !.pc = "spawn"] /\ c.pc = "serveCheck")
    BY <1>1, <1>2, <1>3, <1>32 DEF ServeCheck
  <2>2. d = [c EXCEPT !.pc = "spawn"] /\ c.pc = "serveCheck" => Carries(c, d)
    BY <1>6, <1>7 DEF Carries, CommandFields, Pinned, Chosen, Asked, Checked, Loading, Answering
  <2> QED BY <1>8, <1>9, <2>1, <2>2
<1>33. CASE StartServer(p)
  <2>1. d = [c EXCEPT !.pc = "starting"]
        /\ c.pc = "spawn"
    BY <1>1, <1>2, <1>3, <1>33 DEF StartServer
  <2>2. Carries(c, d)
    BY <1>6, <1>7, <2>1
       DEF Carries, CommandFields, Pinned, Chosen, Asked, Checked, Loading, Answering
  <2> QED BY <1>9, <2>2
<1>34. CASE ServerReady(p)
  <2>1. d = [c EXCEPT !.pc = "serving", !.tracked = TRUE]
        /\ c.pc = "starting"
    BY <1>1, <1>2, <1>3, <1>34 DEF ServerReady
  <2>2. Carries(c, d)
    BY <1>6, <1>7, <2>1
       DEF Carries, CommandFields, Pinned, Chosen, Asked, Checked, Loading, Answering
  <2> QED BY <1>9, <2>2
<1>35. CASE RemoveEngine(p)
  <2>1. Finish(p) \/ (d = [c EXCEPT !.pc = "create"] /\ c.pc = "remove")
    BY <1>1, <1>2, <1>3, <1>35 DEF RemoveEngine
  <2>2. d = [c EXCEPT !.pc = "create"] /\ c.pc = "remove" => Carries(c, d)
    BY <1>6, <1>7 DEF Carries, CommandFields, Pinned, Chosen, Asked, Checked, Loading, Answering
  <2> QED BY <1>8, <1>9, <2>1, <2>2
<1> QED
  BY <1>11, <1>12, <1>13, <1>14, <1>15, <1>16, <1>17, <1>18, <1>19, <1>20, <1>21, <1>22, <1>23,
     <1>24, <1>25, <1>26, <1>27, <1>28, <1>29, <1>30, <1>31, <1>32, <1>33, <1>34, <1>35
     DEF Step

\* A step downloads what was published and stores what it pinned.
LEMMA StepPublishes ==
    ASSUME IInv, AnswersInv, PublishedInv, NEW p \in Procs, Step(p)
    PROVE  WorldIsPublished' /\ RowsArePublished' /\ used' = used
<1>1. PICK c : c = cmd[p]
  OBVIOUS
<1>2. WorldIsPublished /\ RowsArePublished /\ WorldFits /\ NamesPublished(c)
  BY <1>1 DEF PublishedInv, AnswersInv
<1>3. c.kind # "none"
  BY <1>1, StepMoves DEF IInv, Commanded, Idle
<1>4. /\ c.plan \in Published \cup {0}
      /\ c.pc \in Pinned => c.art \in Published
  BY <1>2, <1>3 DEF NamesPublished
<1>5. UNCHANGED <<world, rows, used>> => WorldIsPublished' /\ RowsArePublished' /\ used' = used
  BY <1>2 DEF WorldIsPublished, RowsArePublished, Published
<1>6. CASE Download(p)
  <2>1. /\ world' = IF c.plan = 0 THEN world ELSE [world EXCEPT !.cached = @ \cup {c.plan}]
        /\ UNCHANGED <<rows, used>>
    BY <1>1, <1>6 DEF Download
  <2>2. /\ world'.main = world.main /\ world'.head = world.head /\ world'.local = world.local
        /\ world'.cached \subseteq world.cached \cup Published
    BY <1>2, <1>4, <2>1 DEF WorldFits
  <2> QED BY <1>2, <2>1, <2>2 DEF WorldIsPublished, RowsArePublished, Published
<1>7. CASE RemoveEngine(p) \/ CreateEngine(p)
  <2>1. /\ world'.main = world.main /\ world'.head = world.head /\ world'.local = world.local
        /\ world'.cached = world.cached /\ UNCHANGED <<rows, used>>
    BY <1>2, <1>7 DEF RemoveEngine, CreateEngine, WorldFits
  <2> QED BY <1>2, <2>1 DEF WorldIsPublished, RowsArePublished, Published
<1>8. CASE SaveRow(p)
  <2>1. c.art \in Published /\ UNCHANGED <<world, used>>
    BY <1>1, <1>4, <1>8 DEF SaveRow, Pinned
  <2> DEFINE ranks == {0} \cup {r.rank : r \in rows}
  <2>2. PICK k \in Nat : \A r \in rows : r.rank \in 0 .. k
    BY <1>2 DEF RowsArePublished
  <2>3. Max(ranks) \in ranks /\ ranks \subseteq 0 .. k
    <3>1. ranks \subseteq 0 .. k /\ ranks # {} /\ 0 .. k \subseteq Int
      BY <2>2
    <3>2. IsFiniteSet(0 .. k)
      BY <2>2, FS_Interval
    <3>3. IsFiniteSet(ranks)
      <4> HIDE DEF ranks
      <4> QED BY <3>1, <3>2, FS_Subset
    <3>4. ranks \subseteq Int
      <4> HIDE DEF ranks
      <4> QED BY <3>1
    <3>5. Max(ranks) \in ranks
      <4> HIDE DEF ranks
      <4> QED BY <3>1, <3>3, <3>4, MaxIsTop
    <3> QED BY <3>1, <3>5
  <2>4. PICK rank : rank = Max(ranks) + 1
    OBVIOUS
  <2>5. rank \in 0 .. k + 1
    <3>1. PICK top : top = Max(ranks)
      OBVIOUS
    <3>2. top \in 0 .. k /\ rank = top + 1
      <4> HIDE DEF ranks
      <4> QED BY <2>3, <2>4, <3>1
    <3> HIDE DEF ranks
    <3> QED BY <2>2, <3>2
  <2>6. PICK safe, row :
            /\ row = [eng |-> c.eng, art |-> c.art, authority |-> c.authority,
                      build |-> c.build, safe |-> safe, seen |-> c.seen, rank |-> rank]
            /\ rows' \subseteq rows \cup {row}
    BY <1>1, <1>8, <2>4 DEF SaveRow
  <2>7. \A r \in rows' : r.art \in Published /\ r.rank \in 0 .. k + 1
    <3>1. row.art = c.art /\ row.rank = rank
      BY <2>6
    <3>2. \A r \in rows : r.art \in Published /\ r.rank \in 0 .. k + 1
      BY <1>2, <2>2 DEF RowsArePublished
    <3> HIDE DEF ranks
    <3> QED BY <2>1, <2>5, <2>6, <3>1, <3>2
  <2>8. RowsArePublished'
    <3> HIDE DEF ranks
    <3> QED BY <2>1, <2>2, <2>7 DEF RowsArePublished, Published
  <2> QED BY <1>2, <2>1, <2>8 DEF WorldIsPublished, Published
<1>9. CASE ReadAuthority(p) \/ PrefetchPlan(p) \/ Enter(p) \/ Calibrate(p)
           \/ CalibrationEnds(p) \/ Identify(p) \/ Pin(p) \/ Load(p) \/ WorkerEnds(p)
  BY <1>5, <1>9 DEF ReadAuthority, PrefetchPlan, Enter, Calibrate, CalibrationEnds, Identify, Pin,
                    Load, WorkerEnds, Work, Silent
<1>10. CASE AuditAfter(p) \/ ArtifactAfter(p) \/ AuthorityAfter(p) \/ SaveCalibration(p)
            \/ ScanAuthority(p) \/ Lookup(p) \/ Pick(p) \/ RecheckSelection(p)
  BY <1>5, <1>10 DEF AuditAfter, ArtifactAfter, AuthorityAfter, SaveCalibration, ScanAuthority,
                     Lookup, Pick, RecheckSelection, Silent
<1>11. CASE Consent(p) \/ LiveAuthority(p) \/ Show(p) \/ StoreScore(p) \/ ServeLookup(p)
            \/ ServeCheck(p) \/ StartServer(p) \/ ServerReady(p)
  BY <1>5, <1>11 DEF Consent, LiveAuthority, Show, StoreScore, Give, ServeLookup, ServeCheck,
                     StartServer, ServerReady, Work, Silent
<1> QED BY <1>6, <1>7, <1>8, <1>9, <1>10, <1>11 DEF Step

\* What is published outside is the next version.
LEMMA OutsidePublishes ==
    ASSUME WorldFits, PublishedInv, Outside
    PROVE  WorldIsPublished' /\ Published \subseteq Published' /\ UNCHANGED <<cmd, rows>>
<1>1. PICK n : n = used.changes
  OBVIOUS
<1>2. /\ n \in Nat /\ n \in 0 .. MaxChanges /\ MaxChanges \in Nat
      /\ world.main \in 1 .. 2 + n /\ world.head \in 1 .. 2 + n
      /\ world.cached \subseteq 1 .. 2 + n /\ world.local \in BOOLEAN
      /\ {"commands", "changes", "kills"} \subseteq DOMAIN used
  BY <1>1, RevisionsAssumption DEF PublishedInv, WorldIsPublished, Published
<1>3. PICK w : Changed(w) /\ w.local = world.local
                /\ {w.main, w.head} \subseteq {world.main, world.head, world.main + 1, world.head + 1}
                /\ w.cached \subseteq world.cached \cup {world.head}
  <2> DEFINE Next1(w) ==
        /\ w.local = world.local
        /\ {w.main, w.head} \subseteq {world.main, world.head, world.main + 1, world.head + 1}
        /\ w.cached \subseteq world.cached \cup {world.head}
  <2>1. CASE EngineChanges
    <3>1. PICK e \in Engines :
              Changed([world EXCEPT !.build[e] = world.fresh, !.fresh = world.fresh + 1])
      BY <2>1 DEF EngineChanges
    <3>2. PICK w : w = [world EXCEPT !.build[e] = world.fresh, !.fresh = world.fresh + 1]
      OBVIOUS
    <3>3. Next1(w)
      BY <3>2 DEF WorldFits
    <3> HIDE DEF Next1
    <3> QED BY <3>1, <3>2, <3>3 DEF Next1
  <2>2. CASE AuthorityChanges
    BY <2>2 DEF AuthorityChanges, WorldFits
  <2>3. CASE HubPublishes
    <3>1. PICK w : w = [world EXCEPT !.head = world.head + 1]
      OBVIOUS
    <3>2. Changed(w)
      BY <2>3, <3>1 DEF HubPublishes
    <3>3. Next1(w)
      BY <3>1 DEF WorldFits
    <3> HIDE DEF Next1
    <3> QED BY <3>2, <3>3 DEF Next1
  <2>4. CASE MainMoves
    <3>1. PICK w : w = [world EXCEPT !.main = world.head, !.cached = world.cached \cup {world.head}]
      OBVIOUS
    <3>2. Changed(w)
      BY <2>4, <3>1 DEF MainMoves
    <3>3. Next1(w)
      BY <3>1 DEF WorldFits
    <3> HIDE DEF Next1
    <3> QED BY <3>2, <3>3 DEF Next1
  <2>5. CASE CacheEvicts
    <3>1. PICK a, w : w = [world EXCEPT !.cached = world.cached \ {a}] /\ Changed(w)
      BY <2>5 DEF CacheEvicts
    <3>2. Next1(w)
      BY <3>1 DEF WorldFits
    <3> HIDE DEF Next1
    <3> QED BY <3>1, <3>2 DEF Next1
  <2>6. CASE FileReplaced
    <3>1. PICK w : w = [world EXCEPT !.main = world.main + 1]
      OBVIOUS
    <3>2. Changed(w)
      BY <2>6, <3>1 DEF FileReplaced
    <3>3. Next1(w)
      BY <3>1 DEF WorldFits
    <3> HIDE DEF Next1
    <3> QED BY <3>2, <3>3 DEF Next1
  <2> QED BY <2>1, <2>2, <2>3, <2>4, <2>5, <2>6 DEF Outside
<1>4. /\ used' = [used EXCEPT !.changes = n + 1] /\ n < MaxChanges /\ world' = w
      /\ UNCHANGED <<cmd, rows>>
  BY <1>1, <1>3 DEF Changed
<1>5. used'.changes = n + 1 /\ {"commands", "changes", "kills"} \subseteq DOMAIN used'
  BY <1>2, <1>4
<1>6. Published' = 1 .. 2 + (n + 1) /\ Published = 1 .. 2 + n
  BY <1>1, <1>5 DEF Published
<1>7. Published \subseteq Published'
  BY <1>2, <1>6
<1>8. world'.main \in Published' /\ world'.head \in Published' /\ world'.cached \subseteq Published'
  <2>1. \A m \in 1 .. 2 + n : m \in 1 .. 2 + (n + 1) /\ m + 1 \in 1 .. 2 + (n + 1)
    BY <1>2
  <2>2. w.main \in 1 .. 2 + (n + 1) /\ w.head \in 1 .. 2 + (n + 1)
    BY <1>2, <1>3, <2>1
  <2>3. w.cached \subseteq 1 .. 2 + (n + 1)
    BY <1>2, <1>3, <2>1
  <2> QED BY <1>4, <1>6, <2>2, <2>3
<1>9. world'.local \in BOOLEAN /\ used'.changes \in 0 .. MaxChanges
  BY <1>2, <1>3, <1>4, <1>5
<1> QED BY <1>4, <1>5, <1>7, <1>8, <1>9 DEF WorldIsPublished

LEMMA PublishedKept == IInv /\ AnswersInv /\ PublishedInv /\ [Next]_vars => PublishedInv'
<1> SUFFICES ASSUME IInv, AnswersInv, PublishedInv, [Next]_vars PROVE PublishedInv'
  OBVIOUS
<1>1. /\ WorldIsPublished /\ RowsArePublished /\ \A q \in Procs : NamesPublished(cmd[q])
      /\ DOMAIN cmd = Procs
  BY DEF PublishedInv, IInv, Commanded
<1>2. ASSUME UNCHANGED <<world, rows>>, used'.changes = used.changes,
             {"commands", "changes", "kills"} \subseteq DOMAIN used'
      PROVE  WorldIsPublished' /\ RowsArePublished' /\ Published' = Published
  BY <1>1, <1>2 DEF WorldIsPublished, RowsArePublished, Published
<1>3. ASSUME NEW p \in Procs, Command(p) PROVE PublishedInv'
  <2> DEFINE Fresh(new) ==
        /\ new.kind # "none" /\ CommandFields \subseteq DOMAIN new
        /\ new.plan = 0 /\ new.found = {} /\ new.pc \notin Pinned
        /\ (new.kind \in Answering => new.pc \notin Chosen)
  <2>1. PICK new : Begin(p, new) /\ Fresh(new)
    <3> USE DEF New, CommandFields, Pinned, Answering, Chosen, Asked, Checked, Loading
    <3>1. ASSUME NEW e \in Engines, Characterize(p, e) PROVE \E new : Begin(p, new) /\ Fresh(new)
      <4>1. PICK new : new = [New("characterize", e, "authority") EXCEPT !.build = world.build[e]]
        OBVIOUS
      <4>2. Begin(p, new)
        BY <3>1, <4>1 DEF Characterize
      <4>3. Fresh(new)
        BY <4>1
      <4> QED BY <4>2, <4>3
    <3>2. ASSUME NEW e \in Engines, Serve(p, e) PROVE \E new : Begin(p, new) /\ Fresh(new)
      <4>1. PICK new : new = [New("serve", e, "serveLookup") EXCEPT !.authority = Authority(e)]
        OBVIOUS
      <4>2. Begin(p, new)
        BY <3>2, <4>1 DEF Serve
      <4>3. Fresh(new)
        BY <4>1
      <4> QED BY <4>2, <4>3
    <3>3. ASSUME NEW e \in Engines, Install(p, e) \/ Uninstall(p, e)
          PROVE  \E new : Begin(p, new) /\ Fresh(new)
      <4>1. PICK kind \in {"install", "uninstall"} : Begin(p, New(kind, e, "remove"))
        BY <3>3 DEF Install, Uninstall
      <4>2. PICK new : new = New(kind, e, "remove")
        OBVIOUS
      <4>3. Fresh(new)
        BY <4>2
      <4> QED BY <4>1, <4>2, <4>3
    <3>4. ASSUME NEW kind \in {"run", "benchmark"}, NEW todo, NEW pinned,
                 Select(p, kind, todo, pinned)
          PROVE  \E new : Begin(p, new) /\ Fresh(new)
      <4>1. PICK new : new = [New(kind, CHOOSE e \in Engines : TRUE, "scan")
                              EXCEPT !.todo = todo, !.pinned = pinned]
        OBVIOUS
      <4>2. Begin(p, new)
        BY <3>4, <4>1 DEF Select
      <4>3. Fresh(new)
        BY <4>1
      <4> QED BY <4>2, <4>3
    <3> HIDE DEF Fresh
    <3> QED BY <1>3, <3>1, <3>2, <3>3, <3>4 DEF Command
  <2>2. /\ cmd' = [cmd EXCEPT ![p] = new] /\ UNCHANGED <<world, rows>>
        /\ used' = [used EXCEPT !.commands = @ + 1]
    BY <2>1 DEF Begin
  <2>3. used'.changes = used.changes /\ {"commands", "changes", "kills"} \subseteq DOMAIN used'
    BY <1>1, <2>2 DEF WorldIsPublished
  <2>4. Published' = Published /\ WorldIsPublished' /\ RowsArePublished'
    BY <1>2, <2>2, <2>3
  <2>5. NamesPublished(new)
    BY <2>1 DEF NamesPublished
  <2>6. \A q \in Procs : cmd'[q] = new \/ cmd'[q] = cmd[q]
    BY <1>1, <2>2
  <2> QED BY <1>1, <2>4, <2>5, <2>6 DEF PublishedInv, NamesPublished
<1>4. ASSUME NEW p \in Procs, Step(p) PROVE PublishedInv'
  <2>1. WorldIsPublished' /\ RowsArePublished' /\ Published' = Published
    BY <1>4, StepPublishes DEF Published
  <2>2. NamesPublished(cmd'[p])
    BY <1>4, StepNames
  <2>3. \A q \in Procs \ {p} : cmd'[q] = cmd[q]
    BY <1>4, StepMoves DEF Ended, Moved, OwnWorker, IInv, Commanded
  <2> QED BY <1>1, <2>1, <2>2, <2>3 DEF PublishedInv, NamesPublished
<1>5. ASSUME NEW p \in Procs, Fail(p) \/ Kill(p) \/ OrphanEnds(p) PROVE PublishedInv'
  <2>1. /\ UNCHANGED <<world, rows>>
        /\ used' = used \/ used' = [used EXCEPT !.kills = @ + 1]
        /\ \A q \in Procs : cmd'[q] = cmd[q] \/ cmd'[q].kind = "none"
    BY <1>1, <1>5 DEF Fail, Kill, OrphanEnds, Finish, Idle
  <2>2. used'.changes = used.changes /\ {"commands", "changes", "kills"} \subseteq DOMAIN used'
    BY <1>1, <2>1 DEF WorldIsPublished
  <2>3. Published' = Published /\ WorldIsPublished' /\ RowsArePublished'
    BY <1>2, <2>1, <2>2
  <2> QED BY <1>1, <2>1, <2>3 DEF PublishedInv, NamesPublished
<1>6. CASE Outside
  <2>1. WorldIsPublished' /\ Published \subseteq Published' /\ UNCHANGED <<cmd, rows>>
    BY <1>6, OutsidePublishes DEF AnswersInv
  <2>2. RowsArePublished'
    BY <1>1, <2>1 DEF RowsArePublished
  <2>3. \A q \in Procs : NamesPublished(cmd[q])'
    BY <1>1, <2>1 DEF NamesPublished
  <2> QED BY <2>1, <2>2, <2>3 DEF PublishedInv
<1>7. CASE UNCHANGED vars
  BY <1>1, <1>7
     DEF vars, PublishedInv, WorldIsPublished, RowsArePublished, NamesPublished, Published
<1> QED BY <1>3, <1>4, <1>5, <1>6, <1>7 DEF Next

\* The layouts are of a quantized repository and of a sharded one; either is
\* identified by all that is read of it.
LayoutFiles(layout) == IF layout.refs = {} THEN {"q4.gguf"} ELSE layout.names

LEMMA LayoutsIdentified ==
    ASSUME NEW layout \in Layouts, NEW a
    PROVE  LET s == Laid(layout, a) IN
           /\ s.real /\ DOMAIN s.files \subseteq Names
           /\ AuthorityFiles(s) = LayoutFiles(layout)
           /\ Identified("repo", a, s, AuthorityFiles(s)) =
                 Named("repo", a, Descriptors(s, LayoutFiles(layout)))
<1> DEFINE s == Laid(layout, a)
<1>1. /\ s.real = TRUE /\ s.refs = layout.refs /\ DOMAIN s.files = layout.names
      /\ \A n \in layout.names : s.files[n].link = "blob"
  BY DEF Laid
<1>2. \/ /\ layout.names = {"q4.gguf", "q8.gguf", "mmproj.gguf"} /\ layout.refs = {}
      \/ /\ layout.names = {"shard1", "index", "config"} /\ layout.refs = {"shard1"}
  BY DEF Layouts
<1>3. DOMAIN s.files \subseteq Names
  <2> HIDE DEF s
  <2> QED BY <1>1, <1>2 DEF Names, Ggufs, Shards
<1>4. AuthorityFiles(s) = LayoutFiles(layout)
  <2>1. CASE layout.refs = {}
    <3>1. DOMAIN s.files \cap Ggufs = {"q4.gguf", "q8.gguf"} /\ DOMAIN s.files \cap Shards = {}
      <4> HIDE DEF s
      <4> QED BY <1>1, <1>2, <2>1 DEF Ggufs, Shards
    <3>2. SmallestGguf({"q4.gguf", "q8.gguf"}) = "q4.gguf"
      <4>1. PICK both : both = {"q4.gguf", "q8.gguf"}
        OBVIOUS
      <4>2. SmallestGguf(both) \in both /\ \A m \in both : Size[m] >= Size[SmallestGguf(both)]
        BY <4>1, SmallestIsOne DEF Ggufs
      <4>3. Size["q4.gguf"] = 4 /\ Size["q8.gguf"] = 8
        BY DEF Size, Ggufs
      <4> QED BY <4>1, <4>2, <4>3
    <3>3. SelectedWeights(s) = {"q4.gguf"}
      <4> HIDE DEF s
      <4> QED BY <3>1, <3>2 DEF SelectedWeights
    <3>4. {"q4.gguf"} \subseteq Ggufs
      BY DEF Ggufs
    <3> HIDE DEF s
    <3> QED BY <2>1, <3>3, <3>4 DEF AuthorityFiles, LayoutFiles
  <2>2. CASE layout.refs # {}
    <3>1. DOMAIN s.files \cap Ggufs = {} /\ DOMAIN s.files \cap Shards = {"shard1"}
      <4> HIDE DEF s
      <4> QED BY <1>1, <1>2, <2>2 DEF Ggufs, Shards
    <3>2. SelectedWeights(s) = {"shard1"} /\ ~({"shard1"} \subseteq Ggufs)
      <4> HIDE DEF s
      <4> QED BY <3>1 DEF SelectedWeights, Ggufs
    <3>3. TransformerManifest(s) = layout.names
      <4> HIDE DEF s
      <4> QED BY <1>1, <1>2, <2>2 DEF TransformerManifest, Ggufs, Shards
    <3> HIDE DEF s
    <3> QED BY <2>2, <3>2, <3>3 DEF AuthorityFiles, LayoutFiles
  <2> QED BY <2>1, <2>2
<1>5. LayoutFiles(layout) # {} /\ LayoutFiles(layout) \subseteq layout.names
  BY <1>2 DEF LayoutFiles
<1>6. Identified("repo", a, s, LayoutFiles(layout)) =
          Named("repo", a, Descriptors(s, LayoutFiles(layout)))
  <2>1. LayoutFiles(layout) \subseteq DOMAIN s.files /\ \A n \in LayoutFiles(layout) : Described(s.files[n])
    BY <1>1, <1>5 DEF Described
  <2> HIDE DEF s
  <2> QED BY <1>5, <2>1 DEF Identified, Descriptors
<1> QED BY <1>1, <1>3, <1>4, <1>6

\* The identity of a version, in the cache and of a local file.
RepoIdentity(layout, a) == Named("repo", a, Descriptors(Laid(layout, a), LayoutFiles(layout)))
LocalIdentity(a) == Named("local", NoRevision, {[name |-> "local", link |-> "direct", stat |-> a]})

LEMMA CacheFields ==
    \A w, layout : LET c == CacheOf(w, layout) IN
        /\ c.main = w.main /\ c.local = IF w.local THEN w.main ELSE 0
        /\ \A r \in Revisions : c.snap[r] = IF r \in w.cached THEN Laid(layout, r) ELSE NoSnapshot
BY DEF CacheOf

LEMMA IdentitiesDiffer ==
    /\ \A layout, a, b : RepoIdentity(layout, a) = RepoIdentity(layout, b) => a = b
    /\ \A a, b : LocalIdentity(a) = LocalIdentity(b) => a = b
    /\ \A layout, a : RepoIdentity(layout, a) # Nothing /\ RepoIdentity(layout, a).rev = a
    /\ \A a : LocalIdentity(a) # Nothing /\ LocalIdentity(a).rev = NoRevision
<1>1. \A layout, a : RepoIdentity(layout, a) # Nothing /\ RepoIdentity(layout, a).rev = a
  BY SomethingNamed DEF RepoIdentity
<1>2. \A a : LocalIdentity(a) # Nothing /\ LocalIdentity(a).rev = NoRevision
  BY SomethingNamed DEF LocalIdentity
<1>3. ASSUME NEW a, NEW b, LocalIdentity(a) = LocalIdentity(b) PROVE a = b
  <2>1. \A x : LocalIdentity(x).names = {[name |-> "local", link |-> "direct", stat |-> x]}
    BY SomethingNamed DEF LocalIdentity
  <2>2. {[name |-> "local", link |-> "direct", stat |-> a]} =
        {[name |-> "local", link |-> "direct", stat |-> b]}
    BY <1>3, <2>1
  <2>3. [name |-> "local", link |-> "direct", stat |-> a] =
        [name |-> "local", link |-> "direct", stat |-> b]
    BY <2>2, Zenon
  <2> QED BY <2>3
<1>4. ASSUME NEW layout, NEW a, NEW b, RepoIdentity(layout, a) = RepoIdentity(layout, b) PROVE a = b
  BY <1>1, <1>4
<1> QED BY <1>1, <1>2, <1>3, <1>4

LEMMA RepoIdentified ==
    \A w : \A layout \in Layouts, r \in Revisions :
        LET id == IF r \in w.cached THEN RepoIdentity(layout, r) ELSE Nothing
            c == CacheOf(w, layout) IN
        /\ ArtifactIdentity(c, [kind |-> "repo"], r) = id
        /\ w.main = r => ArtifactIdentity(c, [kind |-> "repo"], NoRevision) = id
<1>0. ASSUME NEW w, NEW layout \in Layouts, NEW r \in Revisions, NEW rev,
             rev = r \/ (rev = NoRevision /\ w.main = r)
      PROVE  ArtifactIdentity(CacheOf(w, layout), [kind |-> "repo"], rev) =
                 IF r \in w.cached THEN RepoIdentity(layout, r) ELSE Nothing
  <2>1. PICK c : c = CacheOf(w, layout)
    OBVIOUS
  <2>2. c.main = w.main /\ c.snap[r] = IF r \in w.cached THEN Laid(layout, r) ELSE NoSnapshot
    BY <2>1, CacheFields
  <2>3. PICK model : model = [kind |-> "repo"]
    OBVIOUS
  <2>4. model.kind = "repo"
    BY <2>3
  <2>5. r # NoRevision
    BY ArtifactsAssumption DEF NoRevision
  <2>6. ArtifactIdentity(c, model, rev) =
          IF ~c.snap[r].real THEN Nothing
          ELSE Identified("repo", r, c.snap[r], AuthorityFiles(c.snap[r]))
    BY <1>0, <2>2, <2>4, <2>5 DEF ArtifactIdentity, ValidatedSnapshot
  <2>7. CASE r \in w.cached
    <3>1. PICK s : s = Laid(layout, r)
      OBVIOUS
    <3>2. s.real /\ Identified("repo", r, s, AuthorityFiles(s)) = RepoIdentity(layout, r)
      BY <3>1, LayoutsIdentified DEF RepoIdentity
    <3> QED BY <2>1, <2>2, <2>3, <2>6, <2>7, <3>1, <3>2
  <2>8. CASE r \notin w.cached
    <3>1. ~NoSnapshot.real
      BY DEF NoSnapshot
    <3> QED BY <2>1, <2>2, <2>3, <2>6, <2>8, <3>1
  <2> QED BY <2>7, <2>8
<1> QED BY <1>0

LEMMA LocalIdentified ==
    \A w, layout, rev :
        w.local /\ w.main # 0 =>
            ArtifactIdentity(CacheOf(w, layout), [kind |-> "local"], rev) = LocalIdentity(w.main)
<1> TAKE w, layout, rev
<1> HAVE w.local /\ w.main # 0
<1>1. PICK c : c = CacheOf(w, layout)
  OBVIOUS
<1>2. c.local = w.main
  BY <1>1, CacheFields
<1>3. PICK model : model = [kind |-> "local"]
  OBVIOUS
<1>4. ArtifactIdentity(c, model, rev) = LocalIdentity(w.main)
  BY <1>2, <1>3 DEF ArtifactIdentity, LocalIdentity
<1> QED BY <1>1, <1>3, <1>4

LEMMA IdentitiesOfVersions ==
    ASSUME WorldFits, NEW layout \in Layouts, NEW a \in Revisions
    PROVE  /\ world.local => IdentityOf(a, layout) = LocalIdentity(a)
           /\ ~world.local => IdentityOf(a, layout) = RepoIdentity(layout, a)
<1>1. PICK w : w = [world EXCEPT !.main = a, !.cached = {a}]
  OBVIOUS
<1>2. w.main = a /\ w.cached = {a} /\ w.local = world.local
  BY <1>1 DEF WorldFits
<1>3. IdentityOf(a, layout) = ArtifactIdentity(CacheOf(w, layout), Model, NoRevision)
  BY <1>1 DEF IdentityOf
<1>4. a # 0
  BY ArtifactsAssumption
<1>5. ASSUME world.local PROVE IdentityOf(a, layout) = LocalIdentity(a)
  <2>1. Model = [kind |-> "local"]
    BY <1>5 DEF Model
  <2>2. ArtifactIdentity(CacheOf(w, layout), [kind |-> "local"], NoRevision) = LocalIdentity(w.main)
    BY <1>2, <1>4, <1>5, LocalIdentified
  <2> QED BY <1>2, <1>3, <2>1, <2>2
<1>6. ASSUME ~world.local PROVE IdentityOf(a, layout) = RepoIdentity(layout, a)
  <2>1. Model = [kind |-> "repo"]
    BY <1>6 DEF Model
  <2>2. ArtifactIdentity(CacheOf(w, layout), [kind |-> "repo"], NoRevision) =
            IF a \in w.cached THEN RepoIdentity(layout, a) ELSE Nothing
    BY <1>2, RepoIdentified
  <2> QED BY <1>2, <1>3, <2>1, <2>2
<1> QED BY <1>5, <1>6

\* Where a command identifies the model, its name selects what the number says.
LEMMA NumbersIdentify ==
    ASSUME WorldFits, WorldIsPublished, NEW layout \in Layouts
    PROVE  ArtifactIdentity(CacheOf(world, layout), Model, NoRevision) =
               IF Selected = 0 THEN Nothing ELSE IdentityOf(Selected, layout)
<1>1. world.main \in Revisions /\ world.main # 0
  BY ArtifactsAssumption, RevisionsAssumption DEF WorldIsPublished, Published
<1>2. CASE world.local
  <2>1. Model = [kind |-> "local"] /\ Selected = world.main
    BY <1>2 DEF Model, Selected
  <2>2. ArtifactIdentity(CacheOf(world, layout), [kind |-> "local"], NoRevision) =
            LocalIdentity(world.main)
    BY <1>1, <1>2, LocalIdentified
  <2> QED BY <1>1, <1>2, <2>1, <2>2, IdentitiesOfVersions
<1>3. CASE ~world.local
  <2>1. Model = [kind |-> "repo"] /\ Selected = IF world.main \in world.cached THEN world.main ELSE 0
    BY <1>3 DEF Model, Selected
  <2>2. ArtifactIdentity(CacheOf(world, layout), [kind |-> "repo"], NoRevision) =
            IF world.main \in world.cached THEN RepoIdentity(layout, world.main) ELSE Nothing
    BY <1>1, RepoIdentified
  <2> QED BY <1>1, <1>3, <2>1, <2>2, IdentitiesOfVersions
<1> QED BY <1>2, <1>3

\* Where it pins the model, its number matches as the identity does, and is what is read.
LEMMA NumbersArePinned ==
    ASSUME WorldFits, WorldIsPublished, NEW layout \in Layouts, NEW art \in Published
    PROVE  LET cache == CacheOf(world, layout)
               id == IdentityOf(art, layout)
           IN /\ IdentityMatches(cache, Model, id) <=> ArtifactMatches(art)
              /\ ArtifactMatches(art) =>
                     FilesLoaded(cache, PinnedModelRef(cache, Model, id))
                         \subseteq IdentityOf(Loaded(art), layout).names
<1>1. /\ world.main \in Revisions /\ world.main # 0 /\ world.main \in Int
      /\ art \in Revisions /\ art # 0 /\ art # NoRevision
  BY ArtifactsAssumption, RevisionsAssumption DEF WorldIsPublished, Published, NoRevision
<1>2. PICK cache : cache = CacheOf(world, layout)
  OBVIOUS
<1>3. PICK id : id = IdentityOf(art, layout)
  OBVIOUS
<1>4. PICK model \in Models : model = Model
  BY DEF Model, Models
<1>5. /\ id # Nothing /\ id.rev \in Revisions \cup {NoRevision}
      /\ IdentityMatches(cache, model, id) <=> ArtifactMatches(art)
      /\ ArtifactMatches(art) => IdentityOf(Loaded(art), layout) = id
  <2>1. CASE world.local
    <3>1. id = LocalIdentity(art) /\ id # Nothing /\ id.rev = NoRevision
      BY <1>1, <1>3, <2>1, IdentitiesOfVersions, IdentitiesDiffer
    <3>2. ArtifactIdentity(cache, model, NoRevision) = LocalIdentity(world.main)
      BY <1>1, <1>2, <1>4, <2>1, LocalIdentified DEF Model
    <3>3. IdentityMatches(cache, model, id) <=> world.main = art
      BY <3>1, <3>2, IdentitiesDiffer DEF IdentityMatches
    <3>4. ArtifactMatches(art) <=> world.main = art
      BY <1>1, <2>1 DEF ArtifactMatches, Cached
    <3>5. Loaded(art) = world.main
      BY <2>1 DEF Loaded
    <3> QED BY <1>3, <3>1, <3>3, <3>4, <3>5
  <2>2. CASE ~world.local
    <3>1. id = RepoIdentity(layout, art) /\ id # Nothing /\ id.rev = art
      BY <1>1, <1>3, <2>2, IdentitiesOfVersions, IdentitiesDiffer
    <3>2. /\ ArtifactIdentity(cache, model, NoRevision) =
               IF world.main \in world.cached THEN RepoIdentity(layout, world.main) ELSE Nothing
          /\ ArtifactIdentity(cache, model, art) =
               IF art \in world.cached THEN RepoIdentity(layout, art) ELSE Nothing
      BY <1>1, <1>2, <1>4, <2>2, RepoIdentified DEF Model
    <3>3. IdentityMatches(cache, model, id) <=> art \in world.cached
      BY <1>1, <3>1, <3>2, IdentitiesDiffer DEF IdentityMatches
    <3>4. ArtifactMatches(art) <=> art \in world.cached
      BY <1>1, <2>2 DEF ArtifactMatches, Cached
    <3>5. Loaded(art) = art
      BY <2>2 DEF Loaded
    <3> QED BY <1>1, <1>3, <3>1, <3>3, <3>4, <3>5
  <2> QED BY <2>1, <2>2
<1>6. WholeCache(cache)
  <2>1. cache.main \in Int
    BY <1>1, <1>2, CacheFields
  <2>2. ASSUME NEW r \in Revisions PROVE WholeSnapshot(cache.snap[r])
    <3>1. cache.snap[r] = Laid(layout, r) \/ cache.snap[r] = NoSnapshot
      BY <1>2, CacheFields
    <3>2. WholeSnapshot(NoSnapshot)
      BY SnapshotsAreWhole
    <3>3. WholeSnapshot(Laid(layout, r))
      <4>1. Laid(layout, r).real = TRUE
        BY DEF Laid
      <4>2. DOMAIN Laid(layout, r).files \subseteq Names
        BY LayoutsIdentified
      <4> QED BY <4>1, <4>2 DEF WholeSnapshot
    <3> QED BY <3>1, <3>2, <3>3
  <2> QED BY <2>1, <2>2 DEF WholeCache
<1>7. ASSUME ArtifactMatches(art)
      PROVE  FilesLoaded(cache, PinnedModelRef(cache, model, id))
                 \subseteq IdentityOf(Loaded(art), layout).names
  <2>1. IdentityMatches(cache, model, id) /\ IdentityOf(Loaded(art), layout) = id
    BY <1>5, <1>7
  <2>2. FilesLoaded(cache, PinnedModelRef(cache, model, id)) = ReadOf(id)
    BY <1>5, <1>6, <2>1, PinnedReads
  <2>3. ReadOf(id) \subseteq id.names
    BY DEF ReadOf
  <2> QED BY <2>1, <2>2, <2>3
<1> QED BY <1>2, <1>3, <1>4, <1>5, <1>7

\* Whatever a command loads, in a cache changed in any way since, are the files its
\* identity names; what is fetched again is identified the same; what is planned is
\* what is measured (staleness.py's pinned_model_ref and acquire.py's plans, under the
\* commands of cli.py).
THEOREM OnlyTheIdentifiedIsEverLoaded == Spec => []OnlyTheIdentifiedIsLoaded
<1>1. ASSUME IInv, AnswersInv, PublishedInv PROVE OnlyTheIdentifiedIsLoaded
  <2>1. WorldFits /\ WorldIsPublished
    BY <1>1 DEF AnswersInv, PublishedInv
  <2>2. NumbersStandForFiles
    <3>1. SUFFICES ASSUME NEW p \in Procs, cmd[p].pc \in {"identify", "pin"}, NEW layout \in Layouts
          PROVE  LET cache == CacheOf(world, layout)
                     art == cmd[p].art
                     id == IdentityOf(art, layout) IN
                 IF At(p, "identify")
                 THEN ArtifactIdentity(cache, Model, NoRevision)
                         = IF Selected = 0 THEN Nothing ELSE IdentityOf(Selected, layout)
                 ELSE /\ IdentityMatches(cache, Model, id) <=> ArtifactMatches(art)
                      /\ ArtifactMatches(art) =>
                             FilesLoaded(cache, PinnedModelRef(cache, Model, id))
                                 \subseteq IdentityOf(Loaded(art), layout).names
      BY DEF NumbersStandForFiles
    <3>2. CASE cmd[p].pc = "identify"
      BY <2>1, <3>2, NumbersIdentify
    <3>3. CASE cmd[p].pc = "pin"
      <4>1. cmd[p].art \in Published
        BY <1>1, <3>3 DEF IInv, Commanded, Idle, PublishedInv, NamesPublished, Pinned
      <4>2. PICK art \in Published : art = cmd[p].art
        BY <4>1
      <4> QED BY <2>1, <3>3, <4>2, NumbersArePinned
    <3> QED BY <3>1, <3>2, <3>3
  <2> QED BY <2>2, PinnedIsAlways, RefetchedIsAlways, PlannedIsAlways
     DEF OnlyTheIdentifiedIsLoaded
<1> QED
  BY InitHolds, NextKeeps, AnswersBegin, AnswersKept, PublishingBegins, PublishedKept, <1>1, PTL
     DEF Spec

HIDE DEF Measuring, Locked, At, Saving, Calibrating
=============================================================================
