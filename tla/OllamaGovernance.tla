-------------------------- MODULE OllamaGovernance --------------------------
(***************************************************************************)
(* ARA processes sharing one Ollama daemon they do not own: characterise   *)
(* (measure a ceiling with throw-away probe models), serve (hand over a    *)
(* governed model) and run (one governed request).  Every request to the   *)
(* daemon, every durable write and the two lock operations are steps of    *)
(* their own; in between, other ARA processes move, processes are killed   *)
(* or interrupted, and the daemon changes: it restarts, rebinds a name,    *)
(* evicts a runner, serves somebody else.                                  *)
(*                                                                         *)
(* A manifest stands for its digest: what it was built from and the        *)
(* context baked into it.  There is one base model, one endpoint and so    *)
(* one setup lock.                                                         *)
(***************************************************************************)
EXTENDS Naturals, FiniteSets

CONSTANTS
    Procs,          \* ARA processes
    MaxCtx,         \* the model's advertised context; the ramp's rungs are 1..MaxCtx
    MaxBase,        \* bound: manifests the base name is bound to, one after the other
    MaxInst,        \* bound: daemon instances
    MaxOutside,     \* bound: steps of the outside world
    MaxCommands,    \* bound: commands started
    NamesTaken,     \* may somebody else already have a name ARA would use?
    OutsideLoads,   \* may another client load its own model?
    None            \* no process, no manifest, no record

ASSUME OllamaAssumption ==
    /\ MaxCtx \in Nat \ {0} /\ MaxBase \in Nat \ {0} /\ MaxInst \in Nat \ {0}
    /\ MaxOutside \in Nat /\ MaxCommands \in Nat
    /\ {NamesTaken, OutsideLoads} \subseteq BOOLEAN
    /\ LET manifests == [of: 0..MaxBase, ctx: 0..MaxCtx]
       IN None \notin Procs \cup manifests \cup [served: manifests, inst: 1..MaxInst]

VARIABLES
    inst,       \* the daemon instance now running
    models,     \* name -> installed manifest or None
    resident,   \* the runners /api/ps shows
    lock,       \* holder of the endpoint's setup lock
    claims,     \* governed name -> durable ownership claim or None
    rows,       \* durable probe ownership rows, one per digest
    evidence,   \* <<base, instance>> -> the row that would govern, or None
    l,          \* process -> its local variables
    measured,   \* history: what was resident when a snapshot found room
    missed,     \* history: what was evicted between /api/ps and such a snapshot
    cut,        \* history: names whose claim was cut off from its creator's flag
    budget      \* steps of the outside world and commands so far

vars == <<inst, models, resident, lock, claims, rows, evidence, l, measured, missed,
          cut, budget>>

Ctxs == 1..MaxCtx
Bases == 1..MaxBase
Insts == 1..MaxInst

(* Names: the user's model, and ARA's content-addressed names.             *)
Base == [kind |-> "base", of |-> 0, ctx |-> 0]
Served(d, c) == [kind |-> "served", of |-> d, ctx |-> c]
Probe(d) == [kind |-> "probe", of |-> d, ctx |-> MaxCtx]
ServedNames == {Served(d, c) : d \in Bases, c \in Ctxs}
ProbeNames == {Probe(d) : d \in Bases}
Names == {Base} \cup ServedNames \cup ProbeNames
Other == [kind |-> "other", of |-> 0, ctx |-> 0]

(* Manifests: the d-th binding of the base name, what ARA derives from it, *)
(* and anything ARA did not make.                                          *)
BaseManifest(d) == [of |-> d, ctx |-> 0]
Derived(d, c) == [of |-> d, ctx |-> c]
Foreign == [of |-> 0, ctx |-> 1]
Manifests == {BaseManifest(d) : d \in Bases}
             \cup {Derived(d, c) : d \in Bases, c \in Ctxs} \cup {Foreign}

Runner(n, m, c) == [name |-> n, digest |-> m, ctx |-> c]
Runners == [name: Names \cup {Other}, digest: Manifests, ctx: Ctxs]

Idle == [pc |-> "idle", inst |-> 0, base |-> 0, ctx |-> 0, best |-> 0, art |-> None,
         owned |-> FALSE, seen |-> FALSE, ran |-> None, after |-> "idle"]

Init ==
    /\ inst = 1
    /\ \E f \in {{}} \cup (IF NamesTaken THEN {{Served(1, 1), Probe(1)}} ELSE {}) :
         models = [n \in Names |-> IF n = Base THEN BaseManifest(1)
                                      ELSE IF n \in f THEN Foreign ELSE None]
    /\ resident = {} /\ lock = None
    /\ claims = [n \in ServedNames |-> None]
    /\ rows = {} /\ measured = {} /\ missed = {} /\ cut = {}
    /\ budget = [outside |-> 0, commands |-> 0]
    /\ evidence = [k \in Bases \X Insts |-> None]
    /\ l = [p \in Procs |-> Idle]

-----------------------------------------------------------------------------
(* Control.  Any request may go unanswered, and every caller takes a       *)
(* missing answer as the refusing one, so the second branch of a Gate is   *)
(* always open.                                                            *)

At(p, pc) == l[p].pc = pc
Move(p, pc) == l' = [l EXCEPT ![p] = IF pc = "idle" THEN Idle ELSE [@ EXCEPT !.pc = pc]]
Unlock(p) == lock' = IF lock = p THEN None ELSE lock
Goto(p, pc) == Move(p, pc) /\ IF pc = "idle" THEN Unlock(p) ELSE UNCHANGED lock
Enter(p, fields, pc) ==     \* the local variables `fields` get their values, then pc
    /\ l' = [l EXCEPT ![p] = [k \in DOMAIN Idle |->
            IF k = "pc" THEN pc ELSE IF k \in DOMAIN fields THEN fields[k] ELSE @[k]]]
    /\ UNCHANGED lock
History == <<measured, missed, cut>>
Durable == <<claims, rows, evidence, History>>
OnlyLocal == UNCHANGED <<inst, models, resident, budget, Durable>>
OnlyDaemon == UNCHANGED <<inst, budget, Durable>>

Gate(p, at, ok, to, bad) ==
    /\ At(p, at)
    /\ \/ ok /\ Goto(p, to)
       \/ Goto(p, bad)
    /\ OnlyLocal

(* Mutants: an endpoint that still answers is the same server; a name that *)
(* is still installed is the same model.                                   *)
SameEndpoint(p) == TRUE
SameNameOnly(p) == models[Base] # None

(* What the re-attestations compare.                                       *)
SameServer(p) == inst = l[p].inst
SameBase(p) == models[Base] = BaseManifest(l[p].base)
ServedName(p) == Served(l[p].base, l[p].ctx)
ProbeName(p) == Probe(l[p].base)

(* _ollama_residency_error: nothing, or one exact target; `required` when  *)
(* an empty snapshot fails too.                                            *)
Admissible(targets, required) ==
    \/ resident = {} /\ ~required
    \/ \E r \in targets : resident = {r}

(* Mutant: a shared instead of an exclusive advisory lock.                 *)
TryLockShared(p, at, to) ==
    At(p, at) /\ lock' = p /\ Move(p, to) /\ OnlyLocal

(* ollama_setup_lock: taken at once, or the command ends.                  *)
TryLock(p, at, to) ==
    /\ At(p, at)
    /\ \/ lock = None /\ lock' = p /\ Move(p, to)
       \/ Goto(p, "idle")
    /\ OnlyLocal

(* A killed process holds nothing afterwards; "idle" is also where every   *)
(* orderly end leads, which leaves the lock.                               *)
Killed(p) == ~At(p, "idle") /\ Goto(p, "idle") /\ OnlyLocal

-----------------------------------------------------------------------------
(* The daemon's side of a request (external: as the callers rely on it).   *)

(* Runner r answers a request for name n at context c: a runner with these *)
(* weights and this context is reused, otherwise one is loaded, possibly   *)
(* with less context, in place of any others.                              *)
Answers(n, c, r) ==
    LET sameWeights == {q \in resident : q.digest.of = models[n].of}
        reusable == {q \in sameWeights : q.ctx = c}
    IN /\ models[n] # None
       /\ IF reusable # {} THEN r \in reusable /\ resident' = resident
          ELSE \E got \in 1..c : \E kept \in SUBSET (resident \ sameWeights) :
                 /\ r = Runner(n, models[n], got)
                 /\ resident' = kept \cup {r}
CandidateRunners(n) ==
    resident \cup (IF models[n] = None THEN {} ELSE {Runner(n, models[n], c) : c \in Ctxs})
Unanswered == \E kept \in SUBSET resident : resident' = kept

(* A model request at `at`: answered, or not.                              *)
Ask(p, at, n, c, to, bad) ==
    /\ At(p, at)
    /\ \/ (\E r \in CandidateRunners(n) : Answers(n, c, r)) /\ Goto(p, to)
       \/ Unanswered /\ Goto(p, bad)
    /\ OnlyDaemon /\ UNCHANGED models

(* /api/create replaces whatever has the name; its answer can get lost.    *)
Created(n, c) == models' = [models EXCEPT ![n] = Derived(models[Base].of, c)]

-----------------------------------------------------------------------------
(* Beginning a command: the attested authority, then the inventory.        *)

Start(p) ==
    /\ At(p, "idle") /\ budget.commands < MaxCommands
    /\ \E pc \in {"c_list", "s_list", "u_list"} : Enter(p, [inst |-> inst], pc)
    /\ budget' = [budget EXCEPT !.commands = @ + 1]
    /\ UNCHANGED <<inst, models, resident, Durable>>

ListForCharacterize(p) ==
    /\ At(p, "c_list")
    /\ Enter(p, [base |-> models[Base].of], "c_lock")
    /\ OnlyLocal

(* serve also notes, from this early snapshot, whether its name is taken;  *)
(* the context is the ceiling or a lower --ctx, checked in the next step.  *)
ListForServe(p) ==
    /\ At(p, "s_list")
    /\ \E c \in Ctxs :
         LET b == models[Base].of
         IN Enter(p, [base |-> b, ctx |-> c, seen |-> models[Served(b, c)] # None], "s_evidence")
    /\ OnlyLocal

ListForRun(p) ==
    /\ At(p, "u_list")
    /\ \E c \in Ctxs : Enter(p, [base |-> models[Base].of, ctx |-> c], "u_evidence")
    /\ OnlyLocal

(* Mutant: a row measured on another daemon instance is taken as well.     *)
RowOfAnyInstance(p) ==
    LET rowsOf == {evidence[<<l[p].base, i>>] : i \in Insts} \ {None}
    IN IF rowsOf = {} THEN None ELSE CHOOSE e \in rowsOf : TRUE

(* assess_characterization: the row measured on exactly this manifest and  *)
(* daemon instance, if there is one; a row without a ceiling admits nothing. *)
Row(p) == evidence[<<l[p].base, l[p].inst>>]

WithinCeiling(p) == Row(p) # None /\ l[p].ctx <= Row(p).safe

-----------------------------------------------------------------------------
(* ara characterize --engine ollama: _render_characterize_ollama and       *)
(* _ollama_measure_ceiling.                                                *)

(* Mutant: a probe of the right name is taken for ARA's own.               *)
ProbeOwnedByName(p) == TRUE

(* _ollama_probe_is_owned: a durable row binds the installed digest to this *)
(* probe of this base manifest.                                            *)
ProbeIsOwned(p) ==
    [digest |-> models[ProbeName(p)], base |-> l[p].base] \in rows

(* Under the lock: a leftover probe is removed if it is provably ARA's,    *)
(* otherwise the command refuses.                                          *)
RecheckProbe(p) ==
    /\ At(p, "c_recheck")
    /\ \/ models[ProbeName(p)] = None /\ Goto(p, "c_ps")
       \/ /\ models[ProbeName(p)] # None /\ ProbeIsOwned(p)
          /\ Enter(p, [art |-> models[ProbeName(p)], after |-> "c_ps"], "look")
       \/ Goto(p, "idle")
    /\ OnlyLocal

(* The next rung, or the end of the ramp.  Whether preflight admits it is  *)
(* the machine's business.                                                 *)
NextRung(p) ==
    /\ At(p, "rung")
    /\ \/ l[p].ctx < MaxCtx /\ Enter(p, [ctx |-> l[p].ctx + 1, after |-> "abort"], "r_auth")
       \/ Goto(p, "release")
    /\ OnlyLocal

(* The probe is created without ARA learning of it: the ramp ends here and *)
(* nothing is cleaned up.                                                  *)
CreateProbe(p) ==
    /\ At(p, "r_create")
    /\ \/ /\ Created(ProbeName(p), l[p].ctx)
          /\ Goto(p, "r_identify") \/ Goto(p, "release")
       \/ Goto(p, "release") /\ UNCHANGED models
    /\ OnlyDaemon /\ UNCHANGED resident

IdentifyProbe(p) ==
    /\ At(p, "r_identify")
    /\ \/ models[ProbeName(p)] # None /\ Enter(p, [art |-> models[ProbeName(p)]], "r_row")
       \/ Goto(p, "idle")
    /\ OnlyLocal

(* _record_ollama_probe_ownership: one row per digest, the last one wins.  *)
RecordProbe(p) ==
    /\ At(p, "r_row")
    /\ \/ /\ rows' = {r \in rows : r.digest # l[p].art}
                     \cup {[digest |-> l[p].art, base |-> l[p].base]}
          /\ Goto(p, "r_base2")
       \/ Goto(p, "look") /\ UNCHANGED rows
    /\ UNCHANGED <<inst, models, resident, claims, evidence, History, budget>>

(* A generation that fails ends the ramp with a point; one that is         *)
(* interrupted ends the command.                                           *)
GenerateProbe(p) ==
    /\ At(p, "r_generate")
    /\ \/ /\ \E r \in CandidateRunners(ProbeName(p)) : Answers(ProbeName(p), l[p].ctx, r)
          /\ Goto(p, "r_auth2")
       \/ Unanswered /\ \E a \in {"abort", "release"} : Enter(p, [after |-> a], "look")
    /\ OnlyDaemon /\ UNCHANGED models

(* Exactly the probe: go on.  Nothing, or still the previous rung: the     *)
(* ramp ends with a failed point.  Anything else: the measurement fails.   *)
SeeProbe(p) ==
    LET probe(c) == Runner(ProbeName(p), Derived(l[p].base, c), c)
    IN /\ At(p, "r_ps")
       /\ \/ Admissible({Runner(ProbeName(p), l[p].art, l[p].ctx)}, TRUE) /\ Goto(p, "r_wall")
          \/ /\ Admissible({probe(c) : c \in {l[p].best} \cap Ctxs}, FALSE)
             /\ Enter(p, [after |-> "release"], "look")
          \/ Goto(p, "look")
       /\ OnlyLocal

(* capture_memory_snapshot and characterization_point: whether the walls   *)
(* keep their margins is the machine's choice, made about what is resident *)
(* at this moment.                                                         *)
ReadWalls(p) ==
    /\ At(p, "r_wall")
    /\ \/ /\ Enter(p, [best |-> l[p].ctx, after |-> "rung"], "look")
          /\ measured' = measured \cup
                {[inst |-> inst, of |-> r.digest.of, ctx |-> r.ctx] : r \in resident}
       \/ \E a \in {"abort", "release"} : Enter(p, [after |-> a], "look") /\ UNCHANGED measured
    /\ UNCHANGED <<inst, models, resident, claims, rows, evidence, missed, cut, budget>>

(* The lock is left before the last checks and the save.                   *)
ReleaseAfterRamp(p) ==
    At(p, "release") /\ Move(p, "c_base") /\ Unlock(p) /\ OnlyLocal

SaveCeiling(p) ==
    /\ At(p, "c_save")
    /\ evidence' = [evidence EXCEPT ![<<l[p].base, l[p].inst>>] =
                       [safe |-> l[p].best, probe |-> l[p].art]]
    /\ Goto(p, "idle")
    /\ UNCHANGED <<inst, models, resident, claims, rows, History, budget>>

-----------------------------------------------------------------------------
(* _cleanup_ollama_probe: expire the exact probe's runner, delete exactly  *)
(* that manifest, then go where `after` says.  A refusal inside the ramp   *)
(* is retried once on the way out, and the command fails.                  *)

CleanupRefused(p) ==
    IF l[p].after \in {"idle", "c_ps"} THEN Goto(p, "idle")
    ELSE Enter(p, [after |-> "idle"], "look")

IsMine(p, n) == models[n] = l[p].art
NamedProbe(p) == {r \in resident : r.name = ProbeName(p)}

CleanupStep(p, at, ok, to) ==
    /\ At(p, at)
    /\ \/ ok /\ Goto(p, to)
       \/ CleanupRefused(p)
    /\ OnlyLocal

Cleanup(p) ==
    \/ CleanupStep(p, "look", IsMine(p, ProbeName(p)), "look2")
    \/ CleanupStep(p, "look2", NamedProbe(p) = {}, "delete")
    \/ CleanupStep(p, "look2",
                   \E r \in NamedProbe(p) : resident = {r} /\ r.digest = l[p].art, "expire")
    \/ CleanupStep(p, "verify", NamedProbe(p) = {}, "delete")
    \/ CleanupStep(p, "delete", IsMine(p, ProbeName(p)), "delete2")

(* keep_alive = 0: the runner of these weights is gone, if it was there.   *)
ExpireProbe(p) ==
    /\ At(p, "expire")
    /\ \/ /\ models[ProbeName(p)] # None
          /\ resident' = {r \in resident : r.digest.of # models[ProbeName(p)].of}
          /\ Goto(p, "verify")
       \/ CleanupRefused(p) /\ UNCHANGED resident
    /\ OnlyDaemon /\ UNCHANGED models

DeleteProbe(p) ==
    /\ At(p, "delete2")
    /\ \/ /\ models' = [models EXCEPT ![ProbeName(p)] = None]
          /\ CASE l[p].after = "abort" -> Goto(p, "idle")
               [] l[p].after = "c_ps" -> Enter(p, [art |-> None], "c_ps")
               [] OTHER -> Goto(p, l[p].after)
       \/ CleanupRefused(p) /\ UNCHANGED models
    /\ OnlyDaemon /\ UNCHANGED resident

Characterize(p) ==
    \/ ListForCharacterize(p)
    \/ TryLock(p, "c_lock", "c_recheck")
    \/ RecheckProbe(p)
    \/ Gate(p, "c_ps", Admissible({}, FALSE), "rung", "idle")
    \/ NextRung(p)
    \/ Gate(p, "r_auth", SameServer(p), "r_base", "idle")
    \/ Gate(p, "r_base", SameBase(p), "r_create", "idle")
    \/ CreateProbe(p)
    \/ IdentifyProbe(p)
    \/ RecordProbe(p)
    \/ Gate(p, "r_base2", SameBase(p), "r_generate", "look")
    \/ GenerateProbe(p)
    \/ Gate(p, "r_auth2", SameServer(p), "r_ps", "look")
    \/ SeeProbe(p)
    \/ ReadWalls(p)
    \/ Cleanup(p) \/ ExpireProbe(p) \/ DeleteProbe(p)
    \/ ReleaseAfterRamp(p)
    \/ Gate(p, "c_base", SameBase(p), "c_auth", "idle")
    \/ Gate(p, "c_auth", SameServer(p), "c_save", "idle")
    \/ SaveCeiling(p)

-----------------------------------------------------------------------------
(* ara serve: render_serve.                                                *)

(* Whether a durable claim covers this name; a taken name without one is   *)
(* refused.                                                                *)
ReadClaims(p) ==
    LET claim == claims[ServedName(p)]
    IN /\ At(p, "s_claims")
       /\ \/ /\ claim # None
             /\ Enter(p, [owned |-> TRUE, art |-> claim.served], "s_lock")
          \/ claim = None /\ ~l[p].seen /\ Goto(p, "s_lock")
          \/ Goto(p, "idle")
       /\ OnlyLocal

Handoff(p) == Runner(ServedName(p), l[p].art, l[p].ctx)

(* An unconfirmed creation is left alone: ownership is unknown.            *)
CreateServed(p) ==
    /\ At(p, "s_create")
    /\ \/ /\ Created(ServedName(p), l[p].ctx)
          /\ Goto(p, "s_identify") \/ Goto(p, "idle")
       \/ Goto(p, "idle") /\ UNCHANGED models
    /\ OnlyDaemon /\ UNCHANGED resident

IdentifyServed(p) ==
    /\ At(p, "s_identify")
    /\ \/ /\ models[ServedName(p)] # None
          /\ Enter(p, [art |-> models[ServedName(p)]], "s_base")
       \/ Goto(p, "idle")
    /\ OnlyLocal

(* The one-token completion over /v1, which may load a runner anew.        *)
ProbeContract(p) ==
    /\ At(p, "s_v1")
    /\ \/ \E r \in CandidateRunners(ServedName(p)) :
             /\ Answers(ServedName(p), l[p].art.ctx, r)
             /\ Enter(p, [ran |-> [inst |-> inst, of |-> r.digest.of, ctx |-> r.ctx]], "s_auth")
       \/ Unanswered /\ Goto(p, "undo")
    /\ OnlyDaemon /\ UNCHANGED models

(* record_ollama_serving: the claim is durable, then the flag says so.  An *)
(* error may come before the file is replaced or, closing its directory,   *)
(* after, and an interrupt between the two: then the claim is cut off from *)
(* the flag of the process that made the manifest.                         *)
Claim(p) == claims' = [claims EXCEPT ![ServedName(p)] = [served |-> l[p].art, inst |-> l[p].inst]]
CutOff(p) == cut' = cut \cup (IF l[p].owned THEN {} ELSE {ServedName(p)})
RecordServing(p) ==
    /\ At(p, "s_record")
    /\ \/ Claim(p) /\ Goto(p, "s_mark") /\ UNCHANGED cut
       \/ Claim(p) /\ Goto(p, "undo") /\ CutOff(p)
       \/ Goto(p, "undo") /\ UNCHANGED <<claims, cut>>
    /\ UNCHANGED <<inst, models, resident, lock, rows, evidence, measured, missed, budget>>

(* Mutant: a failed set-up is undone whoever owns the manifest.            *)
MayUndoAny(p) == IsMine(p, ServedName(p))

(* setup_err and the handler of interrupts delete only what this process   *)
(* created and identified.                                                 *)
MayUndo(p) == ~l[p].owned /\ IsMine(p, ServedName(p))

DeleteServed(p) ==
    /\ At(p, "undo3")
    /\ models' \in {models, [models EXCEPT ![ServedName(p)] = None]}
    /\ Goto(p, "idle")
    /\ OnlyDaemon /\ UNCHANGED resident

(* An interrupt unwinds the lock first and cleans up after that.           *)
InterruptServe(p) ==
    /\ l[p].pc \in {"s_base", "s_check", "s_load", "s_ps2", "s_v1", "s_auth", "s_base2",
                     "s_check2", "s_ps3", "s_record", "s_mark"}
    /\ Move(p, "undo") /\ Unlock(p)
    /\ IF At(p, "s_mark") THEN CutOff(p) ELSE UNCHANGED cut
    /\ UNCHANGED <<inst, models, resident, claims, rows, evidence, measured, missed, budget>>

Serve(p) ==
    LET name == ServedName(p)
        expected == Admissible({Handoff(p)}, TRUE)
    IN \/ ListForServe(p)
       \/ Gate(p, "s_evidence", WithinCeiling(p), "s_claims", "idle")
       \/ ReadClaims(p)
       \/ TryLock(p, "s_lock", "s_ps")
       \/ l[p].owned /\ Gate(p, "s_ps", Admissible({Handoff(p)}, FALSE), "s_check", "idle")
       \/ ~l[p].owned /\ Gate(p, "s_ps", Admissible({}, FALSE), "s_recheck", "idle")
       \/ Gate(p, "s_recheck", models[name] = None, "s_create", "idle")
       \/ CreateServed(p)
       \/ IdentifyServed(p)
       \/ Gate(p, "s_base", SameBase(p), "s_check", "undo")
       \/ Gate(p, "s_check", IsMine(p, name), "s_load", "idle")
       \/ Ask(p, "s_load", name, l[p].art.ctx, "s_ps2", "undo")
       \/ Gate(p, "s_ps2", expected, "s_v1", "undo")
       \/ ProbeContract(p)
       \/ Gate(p, "s_auth", SameServer(p), "s_base2", "undo")
       \/ Gate(p, "s_base2", SameBase(p), "s_check2", "undo")
       \/ Gate(p, "s_check2", IsMine(p, name), "s_ps3", "idle")
       \/ Gate(p, "s_ps3", expected, "s_record", "undo")
       \/ RecordServing(p)
       \/ Gate(p, "s_mark", TRUE, "idle", "idle")
       \/ Gate(p, "undo", MayUndo(p), "undo2", "idle")
       \/ Gate(p, "undo2", IsMine(p, name), "undo3", "idle")
       \/ DeleteServed(p)
       \/ InterruptServe(p)

-----------------------------------------------------------------------------
(* ara run --engine ollama: _render_run_ollama around                      *)
(* _governed_ollama_request.                                               *)

(* The row that governs also names the probe whose runner may be resident. *)
ReadEvidence(p) ==
    /\ At(p, "u_evidence")
    /\ \/ /\ WithinCeiling(p)
          /\ Enter(p, [art |-> Row(p).probe], "u_lock")
       \/ Goto(p, "idle")
    /\ OnlyLocal

(* The inventory: the base is unchanged, and the recorded probe may or may *)
(* not still be installed.                                                 *)
Reinventory(p, at, to) ==
    /\ At(p, at)
    /\ \/ /\ SameBase(p)
          /\ Enter(p, [seen |-> l[p].art # None /\ IsMine(p, ProbeName(p))], to)
       \/ Goto(p, "idle")
    /\ OnlyLocal

RunTargets(p) ==
    {Runner(Base, BaseManifest(l[p].base), l[p].ctx)}
    \cup (IF l[p].seen THEN {Runner(ProbeName(p), l[p].art, l[p].ctx)} ELSE {})

Generate(p) ==
    /\ At(p, "u_generate")
    /\ \/ \E r \in CandidateRunners(Base) :
             /\ Answers(Base, l[p].ctx, r)
             /\ Enter(p, [ran |-> [inst |-> inst, of |-> r.digest.of, ctx |-> r.ctx]], "u_auth3")
       \/ Unanswered /\ Goto(p, "idle")
    /\ OnlyDaemon /\ UNCHANGED models

(* The answer is printed once the lock is left.                            *)
Show(p) ==
    At(p, "u_show") /\ Move(p, "shown") /\ Unlock(p) /\ OnlyLocal

Run(p) ==
    \/ ListForRun(p)
    \/ ReadEvidence(p)
    \/ TryLock(p, "u_lock", "u_auth")
    \/ Gate(p, "u_auth", SameServer(p), "u_models", "idle")
    \/ Reinventory(p, "u_models", "u_ps")
    \/ Gate(p, "u_ps", Admissible({}, FALSE), "u_warm", "idle")
    \/ Gate(p, "u_ps", Admissible(RunTargets(p), TRUE), "u_generate", "idle")
    \/ Ask(p, "u_warm", Base, l[p].ctx, "u_auth2", "idle")
    \/ Gate(p, "u_auth2", SameServer(p), "u_ps2", "idle")
    \/ Gate(p, "u_ps2", Admissible(RunTargets(p), TRUE), "u_generate", "idle")
    \/ Generate(p)
    \/ Gate(p, "u_auth3", SameServer(p), "u_models2", "idle")
    \/ Reinventory(p, "u_models2", "u_ps3")
    \/ Gate(p, "u_ps3", Admissible(RunTargets(p), TRUE), "u_show", "idle")
    \/ Show(p)

-----------------------------------------------------------------------------
(* The outside world (external): the daemon's operator, its other clients, *)
(* its keep-alive, none of which knows of ARA's lock.  A name is never     *)
(* bound back to an earlier manifest, and the user removes a governed      *)
(* model only while no command runs (the README says what these two bounds *)
(* leave out).                                                             *)

OutsideStep(a) == budget.outside < MaxOutside /\ budget' = [budget EXCEPT !.outside = @ + 1] /\ a
                  /\ UNCHANGED <<lock, l, claims, rows, evidence, measured, cut>>

Restart == inst < MaxInst /\ inst' = inst + 1 /\ resident' = {}
           /\ UNCHANGED <<models, missed>>
Rebind ==
    /\ models[Base].of < MaxBase
    /\ models' = [models EXCEPT ![Base] = BaseManifest(@.of + 1)]
    /\ UNCHANGED <<inst, resident, missed>>
Evict ==
    /\ \E r \in resident :
         /\ resident' = resident \ {r}
         /\ missed' = missed \cup
              (IF \E p \in Procs : At(p, "r_wall")
               THEN {[inst |-> inst, of |-> r.digest.of, ctx |-> r.ctx]} ELSE {})
    /\ UNCHANGED <<inst, models>>
LoadOther ==
    /\ OutsideLoads
    /\ resident' = resident \cup {Runner(Other, Foreign, 1)}
    /\ UNCHANGED <<inst, models, missed>>
RemoveDerived ==
    /\ \E n \in Names \ {Base} :
         /\ n \in ProbeNames \/ \A p \in Procs : At(p, "idle")
         /\ models[n] \notin {None, Foreign}
         /\ models' = [models EXCEPT ![n] = None]
    /\ UNCHANGED <<inst, resident, missed>>

Outside ==
    \/ OutsideStep(Restart) \/ OutsideStep(Rebind) \/ OutsideStep(Evict)
    \/ OutsideStep(LoadOther) \/ OutsideStep(RemoveDerived)

Next ==
    \/ \E p \in Procs : \/ Start(p) \/ Characterize(p) \/ Serve(p) \/ Run(p)
                         \/ Killed(p)
    \/ Outside

Spec == Init /\ [][Next]_vars

-----------------------------------------------------------------------------
(* Properties.                                                             *)

Observations == [inst: Insts, of: 0..MaxBase, ctx: Ctxs]

TypeOK ==
    /\ inst \in Insts
    /\ models \in [Names -> Manifests \cup {None}]
    /\ resident \subseteq Runners
    /\ lock \in Procs \cup {None}
    /\ claims \in [ServedNames -> [served: Manifests, inst: Insts] \cup {None}]
    /\ rows \subseteq [digest: Manifests, base: Bases]
    /\ evidence \in [Bases \X Insts ->
                       [safe: 0..MaxCtx, probe: Manifests \cup {None}] \cup {None}]
    /\ measured \subseteq Observations /\ missed \subseteq Observations
    /\ cut \subseteq ServedNames
    /\ budget \in [outside: 0..MaxOutside, commands: 0..MaxCommands]
    /\ l \in [Procs -> [pc: STRING, inst: 0..MaxInst, base: 0..MaxBase, ctx: 0..MaxCtx,
                        best: 0..MaxCtx, art: Manifests \cup {None}, owned: BOOLEAN,
                        seen: BOOLEAN, ran: Observations \cup {None}, after: STRING]]

(* What a snapshot that found room was taken of; or would have been, had   *)
(* the runner that /api/ps showed not been evicted before the snapshot,    *)
(* which nothing in the code looks for.                                    *)
Observed == measured \cup missed

(* Some snapshot found room while this much, or more, of the same weights  *)
(* was resident on the same daemon instance.                               *)
Governed(o) == \E m \in Observed : m.inst = o.inst /\ m.of = o.of /\ o.ctx <= m.ctx

(* A ceiling stored for a manifest and daemon instance was read off the    *)
(* walls with exactly that context of those weights resident on that       *)
(* instance, whatever was rebound, restarted, evicted or killed during the *)
(* ramp; only an eviction between /api/ps and the walls goes unnoticed.    *)
EvidenceIsMeasured ==
    \A d \in Bases, i \in Insts :
        evidence[<<d, i>>] # None =>
            LET c == evidence[<<d, i>>].safe
            IN c = 0 \/ [inst |-> i, of |-> d, ctx |-> c] \in Observed

(* The completion `run` prints, and the one `serve` hands off on, came     *)
(* from weights and a context that were measured on the very daemon        *)
(* instance that produced it.                                              *)
AnswersAreGoverned ==
    \A p \in Procs : l[p].pc \in {"shown", "s_mark"} => Governed(l[p].ran)

(* A durable ownership claim names a manifest built from the base it says, *)
(* with the context it says, under a ceiling measured for both.            *)
ClaimsAreGoverned ==
    \A n \in ServedNames :
        claims[n] # None =>
            /\ claims[n].served = Derived(n.of, n.ctx)
            /\ Governed([inst |-> claims[n].inst, of |-> n.of, ctx |-> n.ctx])

(* Nothing is handed out - printed, handed off, or claimed - above what    *)
(* was measured for those weights on that daemon.                          *)
HandedOutIsGoverned == AnswersAreGoverned /\ ClaimsAreGoverned

(* Between admission and the last look at what is resident, nothing but    *)
(* the model being measured or handed over, and what clients outside ARA   *)
(* loaded, is: no other ARA process loads one meanwhile, so no memory      *)
(* reading contains its footprint.                                         *)
AloneUnderTheLock ==
    \A p \in Procs :
        /\ l[p].pc \in {"r_auth2", "r_ps", "r_wall"} =>
             \A r \in resident : r.name \in {ProbeName(p), Other}
        /\ l[p].pc \in {"s_v1", "s_auth", "s_base2", "s_check2", "s_ps3"} =>
             \A r \in resident : r.name \in {ServedName(p), Other}

(* Stored ceilings were measured, and measured alone.                      *)
EvidenceIsSound == EvidenceIsMeasured /\ AloneUnderTheLock

(* ARA neither deletes nor overwrites a manifest it did not make, even one *)
(* that has the name ARA would use.                                        *)
ForeignKept ==
    [][\A n \in Names : models[n] = Foreign => models'[n] = Foreign]_vars

(* Nothing but the world outside removes or replaces a manifest that a     *)
(* durable claim names.                                                    *)
ClaimIsKept(n) ==
    claims[n] # None /\ models[n] = claims[n].served /\ budget' = budget
        => models'[n] = models[n]

(* While a durable claim names an installed manifest, no ARA process       *)
(* removes or replaces it: a hand-over that is on record stays usable.     *)
(* Excepted are the names of claims that an interrupt or error cut off     *)
(* from the flag of the process that made the manifest (README, section 7). *)
ClaimedKept == [][\A n \in ServedNames \ cut : ClaimIsKept(n)]_vars

(* "setup was interrupted after ownership handoff; ARA preserved the exact *)
(* ownership record and governed manifest" (cli.py:5328), without the      *)
(* exception: the code violates it.                                        *)
PreservedAfterHandoff == [][\A n \in ServedNames : ClaimIsKept(n)]_vars

=============================================================================
