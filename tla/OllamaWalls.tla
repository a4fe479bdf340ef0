---------------------------- MODULE OllamaWalls ----------------------------
(***************************************************************************)
(* The physical walls around an Ollama model: what ARA works out from a    *)
(* memory reading before it lets the daemon load a model, the evidence it  *)
(* keeps of a load, who may use that evidence later, and what it checks    *)
(* around a governed request.  One process, one rung after another, while  *)
(* other programs take and give back memory, and a reading may fail.       *)
(*                                                                         *)
(* All sizes are in one unit.  A total and what is free of it are read     *)
(* together, so one number, or Missing, stands for both.                      *)
(***************************************************************************)
EXTENDS Integers

CONSTANTS
    Machines,           \* [kind, gpus, sys, acc]: accelerator, how many, totals
    Models,             \* [size, perToken]: on disk, of KV cache; or Missing
    Rungs,              \* contexts to try
    Allocations,        \* [size, vram]: what a load may turn out to take
    OtherUses,          \* [sys, acc]: what other programs may hold
    SystemMargin, AcceleratorMargin, RuntimeOverhead,
    SystemMayFail,      \* may reading the system's memory fail?
    SmiMayFail,         \* may nvidia-smi fail or time out?
    Missing                \* unknown, or nothing

Numbers == Nat \cup {Missing}
RunnerSizes == [size: Nat, vram: Nat, ctx: Nat]
Snapshots == [sys: Numbers, kind: {"apple", "nvidia", Missing}, count: Nat, acc: Numbers]

ASSUME WallsAssumption ==
    /\ Machines \subseteq [kind: {"none", "apple", "nvidia"}, gpus: Nat \ {0}, sys: Nat, acc: Nat]
    /\ Models \subseteq [size: (Nat \ {0}) \cup {Missing}, perToken: (Nat \ {0}) \cup {Missing}]
    /\ Rungs \subseteq Nat \ {0}
    /\ Allocations \subseteq {a \in [size: Nat \ {0}, vram: Nat] : a.vram <= a.size}
    /\ OtherUses \subseteq [sys: Nat, acc: Nat]
    /\ SystemMargin \in Nat /\ AcceleratorMargin \in Nat /\ RuntimeOverhead \in Nat \ {0}
    /\ SystemMayFail \in BOOLEAN /\ SmiMayFail \in BOOLEAN
    /\ Missing \notin Int \cup {"none", "apple", "nvidia"} \cup RunnerSizes \cup Snapshots

VARIABLES
    pc,
    machine, model,
    others,     \* what other programs hold
    runner,     \* the daemon's runner [size, vram, ctx], or Missing
    rung,       \* the context last asked for; 0 before the first
    before,     \* the reading this rung was admitted on, or Missing
    best,       \* the last point that fit, with its admission; or Missing
    row,        \* the stored characterization, or Missing
    disturbed   \* have other programs moved since the last reading?

wallsVars == <<pc, machine, model, others, runner, rung, before, best, row, disturbed>>

-----------------------------------------------------------------------------
(* The machine, and what a reading of it shows.                            *)

Apple == machine.kind = "apple"
SystemTaken(r) == IF r = Missing THEN 0 ELSE IF Apple THEN r.size ELSE r.size - r.vram
AcceleratorTaken(r) == IF r = Missing \/ Apple THEN 0 ELSE r.vram
FreeSystem == machine.sys - others.sys - SystemTaken(runner)
FreeAccelerator == machine.acc - others.acc - AcceleratorTaken(runner)

(* Other programs and a runner together.                                   *)
Holds(o, r) ==
    /\ o.sys + SystemTaken(r) <= machine.sys
    /\ machine.kind = "nvidia" => o.acc + AcceleratorTaken(r) <= machine.acc
    /\ machine.kind = "none" /\ r # Missing => r.vram = 0

(* capture_memory_snapshot: a machine whose nvidia-smi fails looks like    *)
(* one without an accelerator.                                             *)
NoAccelerator == [kind |-> Missing, count |-> 0, acc |-> Missing]
Accelerators ==
    IF machine.kind = "nvidia"
    THEN {[kind |-> "nvidia", count |-> machine.gpus, acc |-> FreeAccelerator]}
         \cup (IF SmiMayFail THEN {NoAccelerator} ELSE {})
    ELSE {IF Apple THEN [kind |-> "apple", count |-> 1, acc |-> Missing] ELSE NoAccelerator}
Readings ==
    {[sys |-> s, kind |-> a.kind, count |-> a.count, acc |-> a.acc] :
        s \in {FreeSystem} \cup (IF SystemMayFail THEN {Missing} ELSE {}), a \in Accelerators}

-----------------------------------------------------------------------------
(* preflight_admission.                                                    *)

(* Five quarters of the weights, rounded up, the KV cache, the runtime.    *)
AllocationBound(c) == (model.size * 5 + 3) \div 4 + c * model.perToken + RuntimeOverhead

Within(n, available, margin) == n <= (IF available > margin THEN available - margin ELSE 0)

PossibleWalls(s) ==
    IF s.kind = "apple" THEN {"system_unified"}
    ELSE IF s.kind = "nvidia"
         THEN IF s.count = 1 /\ s.acc # Missing THEN {"system", "accelerator"} ELSE {}
         ELSE IF s.count = 0 THEN {"system"} ELSE {}

(* Mutant: only the system's memory is a wall.                             *)
AdmittedBySystem(s, c) ==
    /\ s.sys # Missing /\ model.size # Missing /\ model.perToken # Missing
    /\ Within(AllocationBound(c), s.sys, SystemMargin)
    /\ PossibleWalls(s) # {}

Admitted(s, c) ==
    /\ s.sys # Missing /\ model.size # Missing /\ model.perToken # Missing
    /\ Within(AllocationBound(c), s.sys, SystemMargin)
    /\ PossibleWalls(s) # {}
    /\ "accelerator" \in PossibleWalls(s) => Within(AllocationBound(c), s.acc, AcceleratorMargin)

(* The admission as it is stored.                                          *)
Admission(s, c) ==
    LET walls == PossibleWalls(s)
    IN [ctx |-> c, total |-> AllocationBound(c), walls |-> walls, sys |-> s.sys,
        acc |-> IF "accelerator" \in walls THEN s.acc ELSE Missing]

-----------------------------------------------------------------------------
(* characterization_point.                                                 *)

OnAccelerator == {"accelerator", "partial_offload"}

(* Where the runner is, as far as the reading tells.                       *)
Placement(s, r) ==
    IF r.vram = 0 THEN "cpu"
    ELSE IF s.kind = "apple" THEN "unified"
    ELSE IF s.kind = "nvidia" /\ s.count = 1
         THEN IF r.vram = r.size THEN "accelerator" ELSE "partial_offload"
         ELSE "unknown"

(* No reason for a refusal.                                                *)
KeepsWalls(s, r, c) ==
    /\ Placement(s, r) # "unknown"
    /\ s.sys # Missing /\ s.sys >= SystemMargin
    /\ Placement(s, r) \in OnAccelerator => s.acc # Missing /\ s.acc >= AcceleratorMargin
    /\ r.ctx = c

(* Of the memory deltas only it matters later whether they are known.      *)
Point(b, s, r, c) ==
    [ctx |-> c, placement |-> Placement(s, r), size |-> r.size, vram |-> r.vram,
     sysDelta |-> b.sys # Missing /\ s.sys # Missing,
     accDelta |-> Placement(s, r) \in OnAccelerator /\ b.acc # Missing /\ s.acc # Missing,
     admission |-> Admission(b, c)]

-----------------------------------------------------------------------------
(* assess_characterization: what of a row's wall evidence it asks for      *)
(* before the row may govern.  Which machine, daemon and methodology a row *)
(* is about is left out here.                                              *)

WallEvidenceComplete(e) ==
    /\ e.placement = "cpu" => e.vram = 0
    /\ e.placement = "unified" => e.vram <= e.size
    /\ e.placement = "accelerator" => e.vram = e.size
    /\ e.placement = "partial_offload" => 0 < e.vram /\ e.vram < e.size
    /\ e.sysDelta
    /\ e.accDelta <=> e.placement \in OnAccelerator

(* Mutant: the reader takes the accelerator for the stricter wall.         *)
EvidenceNeedsBoth(e) ==
    LET a == e.admission
    IN /\ a.ctx = e.ctx /\ a.acc # Missing
       /\ Within(a.total, a.sys, SystemMargin) /\ Within(a.total, a.acc, AcceleratorMargin)

AdmissionEvidenceComplete(e) ==
    LET a == e.admission
    IN /\ a.ctx = e.ctx
       /\ a.walls \in {{"system"}, {"system_unified"}, {"system", "accelerator"}}
       /\ Within(a.total, a.sys, SystemMargin)
       /\ IF "accelerator" \in a.walls THEN Within(a.total, a.acc, AcceleratorMargin)
          ELSE a.acc = Missing

Reusable(e) == WallEvidenceComplete(e) /\ AdmissionEvidenceComplete(e)

(* Mutant: what is resident already is not told from what is not.          *)
HeadroomAsIfResident(s, e, resident) == s.sys # Missing /\ s.sys >= SystemMargin

(* live_headroom_refusal_reason: there is room for the recorded peak.      *)
Headroom(s, e, resident) ==
    LET offloaded == e.placement \in OnAccelerator
        systemPeak == IF resident THEN 0 ELSE IF offloaded THEN e.size - e.vram ELSE e.size
    IN /\ s.sys # Missing
       /\ e.placement = "unified" => s.kind = "apple"
       /\ offloaded => s.kind = "nvidia" /\ s.count = 1
       /\ s.sys >= systemPeak + SystemMargin
       /\ offloaded => s.acc # Missing /\ s.acc >= (IF resident THEN 0 ELSE e.vram) + AcceleratorMargin

(* live_residency_refusal_reason: margins, context and placement.          *)
MatchesEvidence(s, r, e) == KeepsWalls(s, r, e.ctx) /\ Placement(s, r) = e.placement

-----------------------------------------------------------------------------
(* _ollama_measure_ceiling.                                                *)

WallsInit ==
    /\ pc = "ramp"
    /\ machine \in Machines /\ model \in Models /\ others \in OtherUses
    /\ Holds(others, Missing)
    /\ runner = Missing /\ rung = 0 /\ before = Missing /\ best = Missing /\ row = Missing
    /\ disturbed = FALSE

Still == UNCHANGED <<machine, model, others>>

(* The next rung is read for and admitted, or the ramp ends.               *)
Preflight ==
    /\ pc = "ramp"
    /\ \E c \in Rungs :
         /\ c > rung /\ \A d \in Rungs : d > rung => c <= d
         /\ \E s \in Readings :
              /\ rung' = c /\ before' = s
              /\ pc' = IF Admitted(s, c) THEN "load" ELSE "store"
    /\ disturbed' = FALSE
    /\ Still /\ UNCHANGED <<runner, best, row>>

LastRung ==
    /\ pc = "ramp" /\ \A c \in Rungs : c <= rung
    /\ pc' = "store"
    /\ Still /\ UNCHANGED <<runner, rung, before, best, row, disturbed>>

(* The daemon (external) loads what it was asked for, wherever it likes    *)
(* and with at most the context asked for.                                 *)
Loads(asked, limit) ==
    \E a \in Allocations, c \in Rungs :
        /\ c <= asked /\ a.size <= limit
        /\ runner' = [size |-> a.size, vram |-> a.vram, ctx |-> c]
        /\ Holds(others, runner')

LoadProbe ==
    /\ pc = "load"
    /\ \/ Loads(rung, AllocationBound(rung)) /\ pc' = "measure"
       \/ pc' = "store" /\ UNCHANGED runner
    /\ Still /\ UNCHANGED <<rung, before, best, row, disturbed>>

(* A point that fits becomes the best one; whether the ramp goes on shows  *)
(* in `pc`, and the probe is expired either way.                           *)
Measure ==
    /\ pc = "measure"
    /\ \E s \in Readings :
         IF KeepsWalls(s, runner, rung)
         THEN best' = Point(before, s, runner, rung) /\ pc' = "ramp"
         ELSE pc' = "store" /\ UNCHANGED best
    /\ runner' = Missing /\ before' = Missing
    /\ disturbed' = FALSE
    /\ Still /\ UNCHANGED <<rung, row>>

(* _ollama_characterization_config and the save; the rest was local.       *)
Store ==
    /\ pc = "store"
    /\ row' = best /\ pc' = "ready"
    /\ rung' = 0 /\ before' = Missing /\ best' = Missing
    /\ Still /\ UNCHANGED <<runner, disturbed>>

-----------------------------------------------------------------------------
(* _governed_ollama_request: the memory readings around one request.       *)

Admit ==
    /\ pc = "ready" /\ row # Missing /\ Reusable(row)
    /\ \E s \in Readings :
         /\ pc' = IF ~(Headroom(s, row, runner # Missing)
                        /\ (runner # Missing => MatchesEvidence(s, runner, row))) THEN "ready"
                   ELSE IF runner = Missing THEN "warm" ELSE "generate"
    /\ disturbed' = FALSE
    /\ Still /\ UNCHANGED <<runner, rung, before, best, row>>

(* The daemon loads the base model; nothing ties it to the bound.          *)
Warm ==
    /\ pc = "warm"
    /\ \/ Loads(row.ctx, machine.sys + machine.acc) /\ pc' = "warmed"
       \/ pc' = "ready" /\ UNCHANGED runner
    /\ Still /\ UNCHANGED <<rung, before, best, row, disturbed>>

Recheck(from, to) ==
    /\ pc = from
    /\ \E s \in Readings :
            pc' = IF runner # Missing /\ MatchesEvidence(s, runner, row) THEN to ELSE "ready"
    /\ disturbed' = FALSE
    /\ Still /\ UNCHANGED <<runner, rung, before, best, row>>

(* While it generates, the daemon may load the model anew.                 *)
GenerateReply ==
    /\ pc = "generate"
    /\ \/ Loads(row.ctx, machine.sys + machine.acc)
       \/ runner' = Missing
       \/ UNCHANGED runner
    /\ pc' = "generated"
    /\ Still /\ UNCHANGED <<rung, before, best, row, disturbed>>

Finish ==
    /\ pc = "shown" /\ pc' = "ready"
    /\ Still /\ UNCHANGED <<runner, rung, before, best, row, disturbed>>

(* External: the daemon's keep-alive, and every other program.             *)
RunnerEvicted ==
    /\ pc = "ready" /\ runner # Missing /\ runner' = Missing
    /\ Still /\ UNCHANGED <<pc, rung, before, best, row, disturbed>>

Others ==
    /\ others' \in OtherUses /\ Holds(others', runner)
    /\ disturbed' = TRUE
    /\ UNCHANGED <<pc, machine, model, runner, rung, before, best, row>>

WallsNext ==
    \/ Preflight \/ LastRung \/ LoadProbe \/ Measure \/ Store
    \/ Admit \/ Warm \/ Recheck("warmed", "generate")
    \/ GenerateReply \/ Recheck("generated", "shown") \/ Finish
    \/ RunnerEvicted \/ Others

WallsSpec == WallsInit /\ [][WallsNext]_wallsVars

-----------------------------------------------------------------------------
(* Properties.                                                             *)

Walls == SUBSET {"system", "system_unified", "accelerator"}
Evidence ==
    [ctx: Nat, placement: {"cpu", "unified", "accelerator", "partial_offload"}, size: Nat, vram: Nat,
     sysDelta: BOOLEAN, accDelta: BOOLEAN,
     admission: [ctx: Nat, total: Nat, walls: Walls, sys: Numbers, acc: Numbers]]

WallsTypeOK ==
    /\ pc \in {"ramp", "load", "measure", "store", "ready", "warm", "warmed", "generate",
               "generated", "shown"}
    /\ machine \in Machines /\ model \in Models /\ others \in OtherUses
    /\ runner \in RunnerSizes \cup {Missing}
    /\ rung \in Rungs \cup {0}
    /\ before \in Snapshots \cup {Missing}
    /\ best \in Evidence \cup {Missing}
    /\ row \in Evidence \cup {Missing}
    /\ disturbed \in BOOLEAN

Roomy(placed) ==
    /\ FreeSystem >= SystemMargin
    /\ machine.kind = "nvidia" /\ placed => FreeAccelerator >= AcceleratorMargin

(* A probe that takes no more than the bound it was admitted for, wherever *)
(* the daemon puts it, leaves the reserve free on every wall the machine   *)
(* has, as long as no other program takes memory after the reading.  There *)
(* is no watchdog to stop it otherwise.                                    *)
EveryLoadKeepsReserves == pc = "measure" /\ ~disturbed => Roomy(TRUE)

(* The same, of every load whose reading saw the machine's accelerator.    *)
AdmittedLoadKeepsReserves ==
    pc = "measure" /\ ~disturbed /\ (machine.kind = "nvidia" => before.kind = "nvidia")
        => Roomy(TRUE)

(* Writer and reader agree: a ceiling that the ramp stores is one that     *)
(* assess_characterization lets govern, unless the accelerator it landed   *)
(* on was not seen when it was admitted.                                   *)
StoredEvidenceGoverns ==
    row # Missing /\ (row.placement \in OnAccelerator => row.admission.acc # Missing) => Reusable(row)

(* A row that may govern a model on the accelerator was admitted against   *)
(* the accelerator's wall before it was loaded, although neither reader    *)
(* compares the admission's walls with the placement.                      *)
GovernedWasBounded ==
    row # Missing /\ Reusable(row) /\ row.placement \in OnAccelerator =>
        /\ "accelerator" \in row.admission.walls
        /\ row.admission.total + AcceleratorMargin <= row.admission.acc

(* A governed request that finds nothing resident and reloads what was     *)
(* recorded keeps the reserves on the walls of that placement, and one     *)
(* whose answer is shown kept them to the end, where it was recorded.      *)
GovernedRequestKeepsReserves ==
    /\ /\ pc = "warmed" /\ ~disturbed
       /\ runner.size = row.size /\ runner.vram = row.vram
       => Roomy(row.placement \in OnAccelerator)
    /\ pc = "shown" /\ ~disturbed => Roomy(runner.vram > 0) /\ runner.ctx = row.ctx

(* Both: neither a load that measures nor one that answers takes the       *)
(* reserve of a wall. (ollama_evidence.admit_load, cli._render_run_ollama) *)
ReservesAreKept == AdmittedLoadKeepsReserves /\ GovernedRequestKeepsReserves

=============================================================================
