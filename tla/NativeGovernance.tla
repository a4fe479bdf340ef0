-------------------------- MODULE NativeGovernance --------------------------
(***************************************************************************)
(* The native engines' commands of src/ara/cli.py: characterize, benchmark,*)
(* run, serve, install and uninstall, as processes of one machine.  A      *)
(* command reads the engine's build, the memory authority and the model's  *)
(* cached weights one after the other, starts worker processes, and reads  *)
(* them again before it stores or shows what the workers said, while the   *)
(* machine changes under it.  Each change of a build, of the authority or  *)
(* of the weights is to a value never seen before.                         *)
(*                                                                         *)
(* A killed command leaves its worker behind.  A worker's seen fields and  *)
(* those of the evidence are history: the builds, authorities and weights  *)
(* the workers really met.                                                 *)
(***************************************************************************)
EXTENDS Integers, FiniteSets, FiniteSetsExt

CONSTANTS Procs,        \* the processes that run commands
          Nobody,       \* no process
          Engines,      \* the engines of this machine
          Scoped,       \* those whose memory authority is read live (mlx)
          Ceilings,     \* safe contexts a characterization may find
          Commands,     \* the kinds of command that are started
          MaxCommands,  \* bound: commands started
          MaxChanges,   \* bound: outside changes of the machine
          MaxKills,     \* bound: commands killed
          MaxLoads      \* bound: workers of one measurement

ASSUME NobodyIsNoProcess == Nobody \notin Procs

VARIABLES world,    \* builds, authority and weights, as they are now
          cmd,      \* the command each process runs
          worker,   \* the worker each process started, an orphan if it is idle
          lock,     \* holder of measurement.lock
          rows,     \* characterizations; one saved later has the larger rank
          cals,     \* calibrations
          answers,  \* completions and scores given out, and endpoints printed
          used      \* commands, changes and kills so far

vars == <<world, cmd, worker, lock, rows, cals, answers, used>>

Measuring == {"characterize", "benchmark"}
\* Mutants: only measuring takes the lock; benchmark does without it.
OnlyMeasuring == Measuring
AllButBenchmark == {"characterize", "install", "uninstall"}
\* The commands that hold measurement.lock from start to end.
Locked == Measuring \cup {"install", "uninstall"}

Idle == [pc |-> "idle", kind |-> "none"]
NoWorker == [kind |-> "none"]
NoRow == [safe |-> 0]

\* Only MLX has an authority of its own; the others share the unscoped one.
Authority(e) == IF e \in Scoped THEN world.authority ELSE 0
\* The weights a model's name selects now; a snapshot of the Hub cache stays
\* what it is while it is cached, a local file is what lies there.
Selected == IF world.local \/ world.main \in world.cached THEN world.main ELSE 0
Cached(a) == IF world.local THEN a = world.main ELSE a \in world.cached
ArtifactMatches(a) == a # 0 /\ Cached(a)
Loaded(a) == IF world.local THEN world.main ELSE a
Met(e, a) == [build |-> world.build[e], authority |-> Authority(e), art |-> a]

\* The newest row measured by this engine under this authority and build.
Reusable(e, authority, build) ==
    LET hits == {r \in rows : r.eng = e /\ r.authority = authority /\ r.build = build} IN
    IF hits = {} THEN NoRow ELSE CHOOSE r \in hits : \A s \in hits : s.rank <= r.rank
Calibrations(e, authority, build) ==
    {c \in cals : c.eng = e /\ c.authority = authority /\ c.build = build}
\* The installed() flag of the engine's environment.
Installed(e) == world.build[e] # 0

----------------------------------------------------------------------------
At(p, pc) == cmd[p].pc = pc
Goto(p, pc) == cmd' = [cmd EXCEPT ![p].pc = pc]
\* The command ends; leaving the blocks drops its activity record and the lock.
Finish(p) ==
    /\ cmd' = [cmd EXCEPT ![p] = Idle]
    /\ lock' = IF lock = p THEN Nobody ELSE lock
Proceed(p, ok, pc) == IF ok THEN Goto(p, pc) /\ UNCHANGED lock ELSE Finish(p)

New(kind, e, pc) ==
    [pc |-> pc, kind |-> kind, eng |-> e, pinned |-> FALSE, tracked |-> FALSE,
     authority |-> 0, build |-> 0, after |-> 0, plan |-> 0, art |-> 0, ctx |-> 0,
     row |-> NoRow, todo |-> {}, found |-> {}, measured |-> FALSE, loads |-> 0,
     seen |-> {}]
Begin(p, new) ==
    /\ cmd[p] = Idle /\ worker[p] = NoWorker
    /\ new.kind \in Commands
    /\ used.commands < MaxCommands
    /\ used' = [used EXCEPT !.commands = @ + 1]
    /\ new.kind \in Locked => lock = Nobody
    /\ lock' = IF new.kind \in Locked THEN p ELSE lock
    /\ cmd' = [cmd EXCEPT ![p] = new]
    /\ UNCHANGED <<world, worker, rows, cals, answers>>

Work(p, kind, a) ==
    /\ worker' = [worker EXCEPT ![p] = [kind |-> kind, met |-> Met(cmd[p].eng, a)]]
    /\ UNCHANGED <<world, rows, cals, answers, used>>
\* What a worker met between its start and its end.
Seen(p) ==
    {worker[p].met, [worker[p].met EXCEPT !.authority = Authority(cmd[p].eng)]}
Silent == UNCHANGED <<world, worker, rows, cals, answers, used>>

----------------------------------------------------------------------------
\* characterize: audit, authority, download plan, activity record, download.
Characterize(p, e) ==
    /\ Installed(e)
    /\ Begin(p, [New("characterize", e, "authority") EXCEPT !.build = world.build[e]])

ReadAuthority(p) ==
    /\ At(p, "authority")
    /\ cmd' = [cmd EXCEPT ![p].authority = Authority(cmd[p].eng), ![p].pc = "plan"]
    /\ Silent /\ UNCHANGED lock

\* A missing model is planned at the revision the Hub names now; a benchmark
\* may only fetch the very revision its ceiling was measured on.
PrefetchPlan(p) ==
    /\ At(p, "plan")
    /\ LET c == cmd[p]
           wanted == IF c.kind = "benchmark" THEN c.row.art ELSE world.head
           present == IF c.kind = "benchmark" THEN ArtifactMatches(wanted)
                                              ELSE Selected # 0 IN
       IF ~present /\ world.local THEN Finish(p)
       ELSE /\ cmd' = [cmd EXCEPT ![p].plan = IF present THEN 0 ELSE wanted,
                                  ![p].pc = "enter"]
            /\ UNCHANGED lock
    /\ Silent

Enter(p) ==
    /\ At(p, "enter")
    /\ cmd' = [cmd EXCEPT ![p].tracked = TRUE,
                          ![p].pc = IF cmd[p].kind = "characterize" THEN "download" ELSE "live"]
    /\ Silent /\ UNCHANGED lock

Download(p) ==
    /\ At(p, "download")
    /\ world' = IF cmd[p].plan = 0 THEN world
                ELSE [world EXCEPT !.cached = @ \cup {cmd[p].plan}]
    /\ Goto(p, IF cmd[p].kind = "characterize" THEN "calibrate" ELSE "identify")
    /\ UNCHANGED <<worker, lock, rows, cals, answers, used>>

\* The overhead stored for this build and authority is used, or measured once.
Calibrate(p) ==
    /\ At(p, "calibrate")
    /\ LET c == cmd[p]
           stored == Calibrations(c.eng, c.authority, c.build) IN
       IF stored # {}
       THEN /\ cmd' = [cmd EXCEPT ![p].pc = "identify",
                                  ![p].seen = UNION {s.seen : s \in stored}]
            /\ Silent
       ELSE /\ Installed(c.eng)
            /\ Goto(p, "calibrating")
            /\ Work(p, "calibrate", 0)
    /\ UNCHANGED lock

\* A calibration that failed leaves the default overhead, which is no evidence.
CalibrationEnds(p) ==
    /\ At(p, "calibrating")
    /\ \E ok \in BOOLEAN :
         cmd' = [cmd EXCEPT ![p].pc = "identify", ![p].measured = ok,
                            ![p].seen = IF ok THEN Seen(p) ELSE {}]
    /\ worker' = [worker EXCEPT ![p] = NoWorker]
    /\ UNCHANGED <<world, lock, rows, cals, answers, used>>

\* The identity of what the plan downloaded, or of what the name selects.
ArtifactIdentityForPlan(c) ==
    IF c.plan # 0 THEN IF c.plan \in world.cached THEN c.plan ELSE 0
    ELSE IF c.kind = "benchmark" /\ ArtifactMatches(c.row.art) THEN c.row.art
    ELSE Selected

Identify(p) ==
    /\ At(p, "identify")
    /\ LET art == ArtifactIdentityForPlan(cmd[p]) IN
       IF art = 0 \/ (cmd[p].kind = "benchmark" /\ art # cmd[p].row.art) THEN Finish(p)
       ELSE /\ cmd' = [cmd EXCEPT ![p].art = art, ![p].pc = "pin"]
            /\ UNCHANGED lock
    /\ Silent

\* The exact snapshot is resolved to a path; the workers get the path.
Pin(p) ==
    /\ At(p, "pin")
    /\ Proceed(p, ArtifactMatches(cmd[p].art), "load")
    /\ Silent

\* A rung of the ramp, a benchmark repeat or a generation: one worker each,
\* of whatever build is installed now.
Load(p) ==
    /\ At(p, "load")
    /\ Installed(cmd[p].eng) /\ Cached(Loaded(cmd[p].art))
    /\ Goto(p, "working")
    /\ Work(p, cmd[p].kind, Loaded(cmd[p].art))
    /\ UNCHANGED lock

WorkerEnds(p) ==
    /\ At(p, "working")
    /\ \E more \in IF cmd[p].kind = "characterize" THEN BOOLEAN ELSE {FALSE} :
         /\ more => cmd[p].loads + 1 < MaxLoads
         /\ cmd' = [cmd EXCEPT ![p].seen = @ \cup Seen(p), ![p].loads = @ + 1,
                               ![p].pc = IF more THEN "load"
                                         ELSE IF cmd[p].kind = "characterize" THEN "audit"
                                         ELSE "artifact"]
    /\ worker' = [worker EXCEPT ![p] = NoWorker]
    /\ UNCHANGED <<world, lock, rows, cals, answers, used>>

\* The second audit is the last thing done under the activity record.
AuditAfter(p) ==
    /\ At(p, "audit")
    /\ cmd' = [cmd EXCEPT ![p].after = world.build[cmd[p].eng], ![p].tracked = FALSE,
                          ![p].pc = "artifact"]
    /\ Silent /\ UNCHANGED lock

SameArtifact(c) ==
    IF c.kind = "run" THEN ArtifactMatches(c.row.art) ELSE ArtifactIdentityForPlan(c) = c.art
\* Mutant: the build is not compared again.
SameBuildAnyway(c) == TRUE
SameBuild(c) == c.kind = "characterize" => c.after = c.build
\* Each repeat of a benchmark is followed by a look at the weights.
ArtifactAfter(p) ==
    /\ At(p, "artifact")
    /\ LET c == cmd[p] IN
       IF ~SameArtifact(c) \/ ~SameBuild(c) THEN Finish(p)
       ELSE \E repeat \in IF c.kind = "benchmark" /\ c.loads < MaxLoads
                          THEN BOOLEAN ELSE {FALSE} :
              /\ cmd' = [cmd EXCEPT ![p].tracked = repeat \/ c.kind = "run",
                                    ![p].pc = IF repeat THEN "load" ELSE "again"]
              /\ UNCHANGED lock
    /\ Silent

\* Mutant: the authority is not read again.
SameAuthorityAnyway(c) == TRUE
SameAuthority(c) == Authority(c.eng) = c.authority
AuthorityAfter(p) ==
    /\ At(p, "again")
    /\ IF ~SameAuthority(cmd[p]) THEN Finish(p)
       ELSE /\ cmd' = [cmd EXCEPT ![p].tracked = FALSE,
                  ![p].pc = IF cmd[p].kind # "characterize" THEN "show"
                            ELSE IF cmd[p].measured THEN "saveCalibration" ELSE "saveRow"]
            /\ UNCHANGED lock
    /\ Silent

\* Calibration and characterization are committed one after the other.
SaveCalibration(p) ==
    /\ At(p, "saveCalibration")
    /\ LET c == cmd[p] IN
       cals' = (cals \ Calibrations(c.eng, c.authority, c.build))
               \cup {[eng |-> c.eng, authority |-> c.authority, build |-> c.build,
                      seen |-> {s \in c.seen : s.art = 0}]}
    /\ Goto(p, "saveRow")
    /\ UNCHANGED <<world, worker, lock, rows, answers, used>>

\* A row replaces the one of the same engine, weights, authority and build;
\* a safe context of 0 is a model that did not fit.
SaveRow(p) ==
    /\ At(p, "saveRow")
    /\ \E safe \in Ceilings \cup {0} :
         LET c == cmd[p]
             row == [eng |-> c.eng, art |-> c.art, authority |-> c.authority,
                     build |-> c.build, safe |-> safe, seen |-> c.seen,
                     rank |-> Max({0} \cup {r.rank : r \in rows}) + 1]
             sameKey(r) == /\ r.eng = row.eng /\ r.art = row.art
                           /\ r.authority = row.authority /\ r.build = row.build IN
         rows' = {r \in rows : ~sameKey(r)} \cup {row}
    /\ Finish(p)
    /\ UNCHANGED <<world, worker, cals, answers, used>>

----------------------------------------------------------------------------
\* run and benchmark: an engine is named, or all are searched for a ceiling.
Select(p, kind, todo, pinned) ==
    /\ Begin(p, [New(kind, CHOOSE e \in Engines : TRUE, "scan")
                 EXCEPT !.todo = todo, !.pinned = pinned])

ScanAuthority(p) ==
    /\ At(p, "scan")
    /\ \E e \in cmd[p].todo :
         cmd' = [cmd EXCEPT ![p].eng = e, ![p].authority = Authority(e), ![p].pc = "lookup",
                            ![p].todo = @ \ {e}]
    /\ Silent /\ UNCHANGED lock

\* The build is audited and the row of exactly this authority and build looked up.
Lookup(p) ==
    /\ At(p, "lookup")
    /\ LET c == cmd[p]
           row == IF Installed(c.eng) THEN Reusable(c.eng, c.authority, world.build[c.eng])
                                      ELSE NoRow IN
       cmd' = [cmd EXCEPT ![p].found = IF row.safe = 0 THEN @ ELSE @ \cup {row},
                          ![p].pc = "scan"]
    /\ Silent /\ UNCHANGED lock

\* run wants the measured weights in place, benchmark can fetch them again.
RunEligible(r) == Installed(r.eng) /\ ArtifactMatches(r.art)
BenchmarkEligible(r) == Installed(r.eng) /\ (ArtifactMatches(r.art) \/ ~world.local)
\* The largest eligible ceiling wins; only then does run read its authority
\* again.  A named engine is taken as it was found.
Pick(p) ==
    /\ At(p, "scan") /\ cmd[p].todo = {}
    /\ LET c == cmd[p]
           eligible == {r \in c.found : \/ c.pinned
                                        \/ c.kind = "run" /\ RunEligible(r)
                                        \/ c.kind = "benchmark" /\ BenchmarkEligible(r)} IN
       IF eligible = {} THEN Finish(p)
       ELSE \E r \in eligible :
              /\ \A s \in eligible : s.safe <= r.safe
              /\ cmd' = [cmd EXCEPT ![p].row = r, ![p].eng = r.eng, ![p].authority = r.authority,
                                    ![p].found = {},
                                    ![p].pc = IF c.pinned \/ c.kind = "benchmark"
                                              THEN "consent" ELSE "recheck"]
              /\ UNCHANGED lock
    /\ Silent

RecheckSelection(p) ==
    /\ At(p, "recheck")
    /\ Proceed(p, Authority(cmd[p].eng) = cmd[p].row.authority, "consent")
    /\ Silent

\* --ctx may lower the ceiling.  The prompt can wait for any time.
Consent(p) ==
    /\ At(p, "consent")
    /\ cmd[p].kind = "run" => Installed(cmd[p].eng)
    /\ \E ctx \in {k \in Ceilings : k <= cmd[p].row.safe} :
         cmd' = [cmd EXCEPT ![p].ctx = ctx, ![p].art = cmd[p].row.art,
                            ![p].pc = IF cmd[p].kind = "run" THEN "enter" ELSE "plan"]
    /\ Silent /\ UNCHANGED lock

LiveAuthority(p) ==
    /\ At(p, "live")
    /\ Proceed(p, Authority(cmd[p].eng) = cmd[p].authority,
               IF cmd[p].kind = "run" THEN "pin" ELSE "download")
    /\ Silent

\* A completion is shown, or a score stored, for the row that governed it.
Give(p, kind) ==
    /\ At(p, "show") /\ cmd[p].kind = kind
    /\ answers' = answers \cup {[kind |-> kind, row |-> cmd[p].row, ctx |-> cmd[p].ctx,
                                 seen |-> cmd[p].seen]}
    /\ Finish(p)
    /\ UNCHANGED <<world, worker, rows, cals, used>>
Show(p) == Give(p, "run")
StoreScore(p) == Give(p, "benchmark")

----------------------------------------------------------------------------
\* serve on MLX: the row's authority and build are checked; the server is
\* given the model's name and loads what it names by then, or the Hub's latest.
Serve(p, e) ==
    /\ e \in Scoped
    /\ Begin(p, [New("serve", e, "serveLookup") EXCEPT !.authority = Authority(e)])

ServeLookup(p) ==
    /\ At(p, "serveLookup") /\ Installed(cmd[p].eng)
    /\ LET row == Reusable(cmd[p].eng, cmd[p].authority, world.build[cmd[p].eng]) IN
       \E ctx \in Ceilings :
         /\ row.safe # 0 => ctx <= row.safe
         /\ cmd' = [cmd EXCEPT ![p].row = row, ![p].ctx = ctx, ![p].pc = "serveCheck"]
    /\ Silent /\ UNCHANGED lock

ServeCheck(p) ==
    /\ At(p, "serveCheck")
    /\ Proceed(p, Authority(cmd[p].eng) = cmd[p].authority, "spawn")
    /\ Silent

StartServer(p) ==
    /\ At(p, "spawn") /\ Installed(cmd[p].eng)
    /\ \E a \in {Selected, world.head} \ {0} :
         /\ ~world.local
         /\ Work(p, "serve", a)
    /\ Goto(p, "starting") /\ UNCHANGED lock

\* Only the url and the context of the ready signal are compared.
ServerReady(p) ==
    /\ At(p, "starting")
    /\ answers' = answers \cup {[kind |-> "serve", row |-> cmd[p].row, ctx |-> cmd[p].ctx,
                                 seen |-> {worker[p].met}]}
    /\ cmd' = [cmd EXCEPT ![p].pc = "serving", ![p].tracked = TRUE]
    /\ UNCHANGED <<world, worker, lock, rows, cals, used>>

----------------------------------------------------------------------------
\* install, and install --refresh of an engine that is there: it is removed
\* and built again; nothing asks whether somebody uses it.
Install(p, e) == Begin(p, New("install", e, "remove"))

\* uninstall looks for live work first, and removes afterwards.
ActiveEngineWork == {q \in Procs : cmd[q].kind # "none" /\ cmd[q].tracked}
Uninstall(p, e) ==
    /\ ActiveEngineWork = {}
    /\ Begin(p, New("uninstall", e, "remove"))

RemoveEngine(p) ==
    /\ At(p, "remove")
    /\ world' = [world EXCEPT !.build[cmd[p].eng] = 0]
    /\ IF cmd[p].kind = "uninstall" THEN Finish(p) ELSE Goto(p, "create") /\ UNCHANGED lock
    /\ UNCHANGED <<worker, rows, cals, answers, used>>

CreateEngine(p) ==
    /\ At(p, "create")
    /\ world' = [world EXCEPT !.build[cmd[p].eng] = world.fresh, !.fresh = @ + 1]
    /\ Finish(p)
    /\ UNCHANGED <<worker, rows, cals, answers, used>>

----------------------------------------------------------------------------
\* A refusal, a read that fails, an exception: the worker is reaped.
Fail(p) ==
    /\ cmd[p] # Idle
    /\ worker' = [worker EXCEPT ![p] = NoWorker]
    /\ Finish(p)
    /\ UNCHANGED <<world, rows, cals, answers, used>>

\* The command is killed.  The kernel frees the lock, the record no longer
\* names a live process, and the worker goes on without a parent.
Kill(p) ==
    /\ cmd[p] # Idle /\ used.kills < MaxKills
    /\ used' = [used EXCEPT !.kills = @ + 1]
    /\ Finish(p)
    /\ UNCHANGED <<world, worker, rows, cals, answers>>

OrphanEnds(p) ==
    /\ cmd[p] = Idle /\ worker[p] # NoWorker
    /\ worker' = [worker EXCEPT ![p] = NoWorker]
    /\ UNCHANGED <<world, cmd, lock, rows, cals, answers, used>>

\* Somebody upgrades an engine or the system, publishes, fetches, evicts or
\* overwrites the weights.
Changed(w) ==
    /\ used.changes < MaxChanges
    /\ used' = [used EXCEPT !.changes = @ + 1]
    /\ world' = w
    /\ UNCHANGED <<cmd, worker, lock, rows, cals, answers>>
EngineChanges == \E e \in Engines : Installed(e) /\
    Changed([world EXCEPT !.build[e] = world.fresh, !.fresh = @ + 1])
AuthorityChanges == Changed([world EXCEPT !.authority = @ + 1])
HubPublishes == ~world.local /\ Changed([world EXCEPT !.head = @ + 1])
MainMoves ==
    /\ ~world.local /\ world.main # world.head
    /\ Changed([world EXCEPT !.main = world.head, !.cached = @ \cup {world.head}])
CacheEvicts == ~world.local /\ \E a \in world.cached : Changed([world EXCEPT !.cached = @ \ {a}])
FileReplaced == world.local /\ Changed([world EXCEPT !.main = @ + 1])

Init ==
    /\ world \in [build : {[e \in Engines |-> 1]}, fresh : {2}, authority : {1}, head : {1, 2},
                  main : {1}, cached : {{}, {1}}, local : BOOLEAN]
    /\ world.local => world.cached = {}
    /\ world.head = IF world.cached = {} THEN 1 ELSE 2   \* what is cached is behind
    /\ cmd = [p \in Procs |-> Idle]
    /\ worker = [p \in Procs |-> NoWorker]
    /\ lock = Nobody
    /\ \E S \in {{}, Engines} :
         rows = {[eng |-> e, art |-> 1, authority |-> Authority(e), build |-> 1,
                  safe |-> Max(Ceilings), seen |-> {Met(e, 1)}, rank |-> 0] : e \in S}
    /\ cals = {}
    /\ answers = {}
    /\ used = [commands |-> 0, changes |-> 0, kills |-> 0]

Command(p) ==
    \/ \E e \in Engines : \/ Characterize(p, e)
                          \/ Serve(p, e)
                          \/ Install(p, e)
                          \/ Uninstall(p, e)
    \/ \E kind \in {"run", "benchmark"} :
         \/ Select(p, kind, Engines, FALSE)
         \/ \E e \in Engines : Select(p, kind, {e}, TRUE)
Step(p) ==
    \/ ReadAuthority(p) \/ PrefetchPlan(p) \/ Enter(p) \/ Download(p) \/ Calibrate(p)
    \/ CalibrationEnds(p) \/ Identify(p) \/ Pin(p) \/ Load(p) \/ WorkerEnds(p)
    \/ AuditAfter(p) \/ ArtifactAfter(p) \/ AuthorityAfter(p) \/ SaveCalibration(p)
    \/ SaveRow(p) \/ ScanAuthority(p) \/ Lookup(p) \/ Pick(p) \/ RecheckSelection(p)
    \/ Consent(p) \/ LiveAuthority(p) \/ Show(p) \/ StoreScore(p) \/ ServeLookup(p) \/ ServeCheck(p)
    \/ StartServer(p) \/ ServerReady(p) \/ RemoveEngine(p) \/ CreateEngine(p)
Outside ==
    EngineChanges \/ AuthorityChanges \/ HubPublishes \/ MainMoves \/ CacheEvicts \/ FileReplaced
Next ==
    \/ \E p \in Procs : Command(p) \/ Step(p) \/ Fail(p) \/ Kill(p) \/ OrphanEnds(p)
    \/ Outside

Spec == Init /\ [][Next]_vars

----------------------------------------------------------------------------
\* What is stored as evidence was measured in one world: every worker of a
\* characterization, and of the calibration behind it, ran the build, under
\* the authority and on the weights the row names, though each was read at
\* another moment and all of them may change between any two readings
\* (render_characterize's comparisons before saving).
EvidenceIsOneWorld ==
    /\ \A r \in rows : \A s \in r.seen :
         /\ s.build = r.build /\ s.authority = r.authority
         /\ s.art \in {0, r.art}
    /\ \A c \in cals : \A s \in c.seen : s.build = c.build /\ s.authority = c.authority

\* A completion that is shown and a score that is stored came from the weights
\* of the row that governed them, under its authority, within its ceiling
\* (the checks of render_run and render_benchmark around their workers).
AnswersAreMeasured ==
    \A a \in answers : a.kind \in {"run", "benchmark"} =>
        /\ a.ctx <= a.row.safe
        /\ \A s \in a.seen : s.art = a.row.art /\ s.authority = a.row.authority

\* Two measuring commands never have workers at the same time.
MeasuringWorker(p) == worker[p].kind \in {"calibrate", "characterize", "benchmark"}
MeasurementsAreExclusive ==
    \A p, q \in Procs :
        MeasuringWorker(p) /\ MeasuringWorker(q) /\ cmd[p] # Idle /\ cmd[q] # Idle => p = q

\* No install, refresh or uninstall of ARA's changes an engine while a command
\* measures with it.
MeasuredEngineStays ==
    [][\A e \in Engines :
        world'.build[e] # world.build[e] /\ used'.changes = used.changes
            => \A q \in Procs : cmd[q].kind \notin Measuring]_vars

\* While a command measures, nothing else of ARA's disturbs it: neither another
\* measurement nor a change of its engine.  (measurement_lock)
MeasurementsAreUndisturbed == []MeasurementsAreExclusive /\ MeasuredEngineStays

\* locking.py:6-9: measurements are mutually exclusive, so that none reads the
\* memory of another; here a measurement is a worker, orphaned or not.
ReadingsUndisturbed ==
    \A p, q \in Procs : MeasuringWorker(p) /\ MeasuringWorker(q) => p = q

\* README.md:240-246: each model is resolved to an immutable artifact that is
\* verified again before loading, and changed weights are refused instead of
\* being presented as the characterized model.
ServedIsCharacterized ==
    \A a \in answers : a.kind = "serve" /\ a.row.safe # 0 =>
        \A s \in a.seen : s.art = a.row.art
=============================================================================
