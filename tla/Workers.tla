------------------------------ MODULE Workers ------------------------------
(***************************************************************************)
(* One run of an engine's worker script: src/ara/workers/*.py for the      *)
(* llama.cpp lanes "cpu", "vulkan" and "gguf" (cuda-gguf), the engine      *)
(* packages' measure_one, generate and benchmark for "mlx" and "cuda".  It *)
(* refuses before it loads, then measures a context in repeated loads or   *)
(* answers prompts, while other processes of the host take and give back   *)
(* memory.  Memory is counted in half GiB, a context in thousands of       *)
(* tokens.                                                                 *)
(*                                                                         *)
(* All lanes but gguf guard one wall and measure in a child process, which *)
(* a watchdog in the child, or the parent for mlx, cuts off at the budget. *)
(* gguf guards RAM and VRAM, loads in its own process and reads both from  *)
(* the load log.  A repeat's calm, seen and tripped are history.           *)
(***************************************************************************)
EXTENDS Integers, Sequences, FiniteSetsExt

CONSTANTS Jobs,        \* worker invocations: lane, op, ctx, prompts, ask, extra, --margin
          Ambients,    \* amounts other processes may hold, in RAM and in VRAM
          Total,       \* the wall: RAM or unified memory, or VRAM for cuda
          VTotal,      \* the VRAM of a gguf host
          VCap,        \* the --vram-margin given
          ModelWeights, \* what the weights take
          Overhead,    \* the --overhead given
          WiredFloor,  \* the least wired memory mlx's base estimate assumes: 2.5 GiB
          Slope,       \* KV cache per unit of context, all layers
          Layers,      \* layers of the model
          Floor,       \* what CUDA takes before any layer
          FitContext,  \* the model's window, or 4000 tokens if that is less
          MaxDrift     \* bound: changes of the ambient load

\* A one-shot run has one prompt, a benchmark its suite's.
ASSUME WorkersAssumption ==
    /\ Jobs \subseteq [lane : {"cpu", "vulkan", "gguf", "mlx", "cuda"},
                       op : {"preflight", "measure", "generate", "benchmark"},
                       ctx : Nat, prompts : Seq(Nat), ask : Nat, extra : Nat,
                       margin : Nat]
    /\ \A j \in Jobs : /\ j.op = "generate" => Len(j.prompts) = 1
                       /\ j.op = "benchmark" => Len(j.prompts) > 0
    /\ Ambients \subseteq Nat
    /\ {Total, VTotal, VCap, ModelWeights, Overhead, WiredFloor, Slope, Floor,
        FitContext} \subseteq Nat
    /\ Layers \in Nat \ {0}

VARIABLES job,     \* the invocation
          other,   \* what other processes hold: [ram, vram]
          drift,   \* changes of other so far
          pc,      \* "gate", "repeat", "probe", "median", "load", "answer", "done"
          gate,    \* what the gate read and decided: [ram, vram, layers, ctx]
          child,   \* the load in progress
          taken,   \* the accepted repeats
          entries, \* one per prompt so far
          result,  \* "none", "refused", "crashed", "answered", "measured", "estimated"
          mem      \* the amount it reports as measured or estimated

workersVars == <<job, other, drift, pc, gate, child, taken, entries, result, mem>>

Least(a, b) == IF a < b THEN a ELSE b
Most(a, b) == IF a < b THEN b ELSE a

EffectiveMargin(total, cap) == Least(cap, Most(1, total \div 10))
SafeThreshold(total, margin) == Most(0, total - margin)
Budget == SafeThreshold(Total, IF job.lane \in {"mlx", "cuda"} THEN job.margin
                               ELSE EffectiveMargin(Total, job.margin))

(***************************************************************************)
(* The reason to refuse before the load: the base alone, or the prediction *)
(* at the context, reaches the budget.  mlx's base is not the prediction   *)
(* at no context: it rests on another reading, wired, and assumes no less  *)
(* than WiredFloor of it.                                                  *)
(***************************************************************************)
\* Mutant: the floor comes on top of what is wired.
FloorOnTop(wired) == wired + WiredFloor + ModelWeights + Overhead
MlxBase(wired) == Most(wired, WiredFloor) + ModelWeights + Overhead
Predicted(used, c) == used + ModelWeights + Overhead + Slope * c
BaseEstimate(used, wired) == IF job.lane = "mlx" THEN MlxBase(wired) ELSE Predicted(used, 0)

\* Mutant: what the host already uses is left out.
ModelOnly(used, wired, c) == ModelWeights + Overhead + Slope * c >= Budget
SafetyGate(used, wired, c) == \/ BaseEstimate(used, wired) >= Budget
                              \/ Predicted(used, c) >= Budget

(***************************************************************************)
(* The two walls of gguf, with k layers on the GPU.                        *)
(***************************************************************************)
PerLayer(c) == ModelWeights \div Layers + (Slope * c) \div Layers
VramEstimate(k, c) == Floor + k * PerLayer(c)
RamEstimate(k, c, live) == live + (Layers - k) * PerLayer(c)
VramBudget(vram) == SafeThreshold(VTotal - vram, VCap)

FitLayers(c, vbudget) ==
    LET fits == {k \in 0..Layers : VramEstimate(k, c) <= vbudget}
    IN  IF fits = {} THEN 0 ELSE Max(fits)
TwoWallGate(k, c, ram, vram) == \/ VramEstimate(k, c) >= VramBudget(vram)
                                \/ RamEstimate(k, c, ram) >= Budget

\* two_wall_measurement: what a load reports stays under both budgets, RAM on
\* top of what the host used at the gate.
TwoWalls(v, r) == v < VramBudget(gate.vram) /\ gate.ram + r < Budget
\* Mutant: only the offload line of the log is checked.
OffloadVerified(k, v, r) == k = gate.layers /\ k > 0
\* The load log proves the layers asked for, at least one, and both walls.
Verified(k, v, r) == k = gate.layers /\ k > 0 /\ TwoWalls(v, r)

(***************************************************************************)
(* One prompt's tokens under the ceiling; 0 when it is refused.            *)
(***************************************************************************)
GovernedMaxTokens(p, ask, ceiling) ==
    IF p >= ceiling \/ p + ask > ceiling THEN 0 ELSE Least(ask, ceiling - p)

Repeats == IF job.lane = "cuda" THEN 1 ELSE 3
Need == ModelWeights + Slope * job.ctx + job.extra
NoGate == [ram |-> 0, vram |-> 0, layers |-> 0, ctx |-> 0]
NoChild == [at |-> "none", base |-> 0, high |-> 0, growth |-> 0, layers |-> 0,
            tripped |-> FALSE, hung |-> FALSE, calm |-> TRUE, seen |-> FALSE]

\* What the child holds; one that has printed is gone.
Held == CASE child.at = "weights" -> ModelWeights
          [] child.at = "full" -> Need
          [] OTHER -> 0
Used == other.ram + Held
Alive == child.at \in {"fresh", "weights", "full", "measured"}

Hosts == [ram : Ambients, vram : IF job.lane = "gguf" THEN Ambients ELSE {0}]

WorkersInit == /\ job \in Jobs
        /\ other \in Hosts
        /\ drift = 0 /\ pc = "gate" /\ gate = NoGate /\ child = NoChild
        /\ taken = <<>> /\ entries = <<>> /\ result = "none" /\ mem = 0

End(how) == pc' = "done" /\ result' = how /\ child' = NoChild

\* Other processes of the host take or give back memory.
Ambient == /\ drift < MaxDrift /\ pc # "done"
           /\ \E o \in Hosts \ {other} :
                /\ other' = o /\ drift' = drift + 1
                /\ child' = [child EXCEPT !.calm = FALSE]
           /\ UNCHANGED <<job, pc, gate, taken, entries, result, mem>>

(***************************************************************************)
(* The gate.  The context it is asked about is the one the job can reach:  *)
(* all of the ceiling where llama.cpp allocates it up front, the prompt    *)
(* and its answer where the cache grows.                                   *)
(***************************************************************************)
\* mlx and cuda refuse a one-shot request beyond the ceiling before they look
\* at memory, and gate an accepted one at what it can reach.
OneShotContext == job.prompts[1] + job.ask
BeyondCeiling == GovernedMaxTokens(job.prompts[1], job.ask, job.ctx) = 0

Prompts == {job.prompts[i] : i \in DOMAIN job.prompts}
\* Mutant: a batch is gated for its shortest prompt.
ShortestContexts == {Least(job.ctx, Min(Prompts) + job.ask)}
\* An mlx batch is gated at what its longest prompt can reach, or at the ceiling
\* when the prompts cannot be counted.
BatchContexts == {Least(job.ctx, Max(Prompts) + job.ask), job.ctx}

Grows == job.lane \in {"mlx", "cuda"}
GatedContexts == CASE Grows /\ job.op = "generate" -> {OneShotContext}
                   [] job.lane = "mlx" /\ job.op = "benchmark" -> BatchContexts
                   [] OTHER -> {job.ctx}

\* The model is not found, is no causal model, or its metadata is unreadable.
Unresolved == pc = "gate" /\ End("refused")
              /\ UNCHANGED <<job, other, drift, gate, taken, entries, mem>>

\* A vulkan batch first probes whether the model comes up on the GPU.
Probes == job.op = "measure" \/ (job.lane = "vulkan" /\ job.op = "benchmark")

Read(k, c) == gate' = [ram |-> other.ram, vram |-> other.vram, layers |-> k, ctx |-> c]
Pass(to) == pc' = to /\ UNCHANGED <<child, result>>

\* mlx reads what is wired, then samples its baseline: by then others may have
\* come and gone, so the first reading is any that they may cause.
GateOneWall(c) ==
    /\ pc = "gate" /\ job.lane # "gguf" /\ job.op # "preflight"
    /\ ~(job.lane = "cuda" /\ job.op = "benchmark")
    /\ Read(0, c)
    /\ \E wired \in IF job.lane = "mlx" THEN Ambients ELSE {other.ram} :
          IF SafetyGate(other.ram, wired, c) \/ (Grows /\ job.op = "generate" /\ BeyondCeiling)
          THEN End("refused") ELSE Pass(IF Probes THEN "repeat" ELSE "load")
    /\ UNCHANGED <<job, other, drift, taken, entries, mem>>

GateTwoWalls ==
    LET k == FitLayers(job.ctx, VramBudget(other.vram))
    IN  /\ pc = "gate" /\ job.lane = "gguf" /\ job.op # "preflight"
        /\ Read(k, job.ctx)
        /\ IF TwoWallGate(k, job.ctx, other.ram, other.vram)
           THEN End("refused") ELSE Pass("load")
        /\ UNCHANGED <<job, other, drift, taken, entries, mem>>

\* A cuda batch reads the card once and gates each prompt by itself.
StartCudaBatch ==
    /\ pc = "gate" /\ job.lane = "cuda" /\ job.op = "benchmark"
    /\ Read(0, job.ctx) /\ Pass("answer")
    /\ UNCHANGED <<job, other, drift, taken, entries, mem>>

(***************************************************************************)
(* The estimate that the ramp starts from: what the host would hold with   *)
(* the model at no context, to which the driver adds the slope.            *)
(***************************************************************************)
OneWallBase == Predicted(other.ram, 0)
\* Mutant: the split is fitted for no context at all.
FitAtNothing == FitLayers(0, VramBudget(other.vram))
\* gguf fits the split once, for the window or 4000 tokens.
PreflightLayers == FitLayers(FitContext, VramBudget(other.vram))
TwoWallBase(k) == RamEstimate(k, 0, other.ram)

Preflight == /\ pc = "gate" /\ job.op = "preflight"
             /\ Read(PreflightLayers, FitContext)
             /\ End("estimated")
             /\ mem' = IF job.lane = "gguf" THEN TwoWallBase(PreflightLayers) ELSE OneWallBase
             /\ UNCHANGED <<job, other, drift, taken, entries>>

(***************************************************************************)
(* A probe in a child process: it reads its baseline, loads the weights,   *)
(* fills the cache, reads again and prints its one line.                   *)
(***************************************************************************)
\* mlx reads the host before it launches the child, and refuses at the budget.
Launch == /\ pc = "repeat"
          /\ IF job.lane = "mlx" /\ other.ram >= Budget THEN End("refused")
             ELSE /\ pc' = "probe"
                  /\ child' = [NoChild EXCEPT !.at = "fresh", !.base = other.ram,
                                              !.high = other.ram]
                  /\ UNCHANGED result
          /\ UNCHANGED <<job, other, drift, gate, taken, entries, mem>>

\* llama.cpp may come up with fewer layers on the GPU than it was asked for.
Grow == /\ pc = "probe" /\ ~child.hung
        /\ \/ /\ child.at = "fresh"
              /\ \E n \in IF job.lane = "vulkan" THEN {0, Layers} ELSE {Layers} :
                    child' = [child EXCEPT !.at = "weights", !.layers = n]
           \/ child.at = "weights" /\ child' = [child EXCEPT !.at = "full"]
        /\ UNCHANGED <<job, other, drift, pc, gate, taken, entries, result, mem>>

\* The load raises, and the child says so; or it hangs.
Raise == /\ pc = "probe" /\ child.at \in {"fresh", "weights"} /\ ~child.hung
         /\ \/ child' = [child EXCEPT !.at = "dead"]
            \/ child' = [child EXCEPT !.hung = TRUE]
         /\ UNCHANGED <<job, other, drift, pc, gate, taken, entries, result, mem>>

\* The watchdog, or mlx's parent, samples what the host uses.  Between two
\* samples anything can go unseen.
Sample == /\ pc = "probe" /\ Alive
          /\ child' = [child EXCEPT !.high = Most(@, Used),
                                    !.tripped = @ \/ Used >= Budget,
                                    !.seen = @ \/ child.at = "full"]
          /\ child' # child
          /\ UNCHANGED <<job, other, drift, pc, gate, taken, entries, result, mem>>

\* mlx's parent kills the child's process group at the budget, when a sample
\* cannot be read, or when the child takes too long; cuda's parent for time only.
CutByMlx == job.lane = "mlx"
\* Mutant: cuda's parent waits for ever.
Waits == FALSE
TimedOut == job.lane = "cuda" /\ child.hung
Cut == /\ pc = "probe" /\ Alive /\ (CutByMlx \/ TimedOut)
       /\ End("refused")
       /\ UNCHANGED <<job, other, drift, gate, taken, entries, mem>>

\* The watchdog's os._exit, some time after its sample: too late once the
\* child has printed.
ExitAtTheWall == /\ pc = "probe" /\ job.lane # "mlx" /\ Alive /\ child.tripped
                 /\ child.at # "measured"
                 /\ child' = [child EXCEPT !.at = "dead"]
                 /\ UNCHANGED <<job, other, drift, pc, gate, taken, entries, result, mem>>

\* The growth a child reports: its own resident set for cpu; GPU counters of the
\* whole host, never below zero, for vulkan; what the card holds now for cuda.
CpuGrowth == Held
VulkanGrowth == Most(0, Held + other.ram - child.base)
CudaGrowth == Used - child.base

PrintLine == /\ pc = "probe" /\ child.at = "full" /\ ~child.hung
         /\ child' = [child EXCEPT !.at = "measured",
                !.growth = CASE job.lane = "cpu" -> CpuGrowth
                             [] job.lane = "vulkan" -> VulkanGrowth
                             [] OTHER -> CudaGrowth]
         /\ UNCHANGED <<job, other, drift, pc, gate, taken, entries, result, mem>>

\* What refuses the whole run: a child that failed or was cut off before it
\* printed; a vulkan child whose log shows nothing on the GPU; an mlx child
\* during which a sample saw the budget, whatever it printed.
NoLine == child.at = "dead"
NotOffloaded == job.lane = "vulkan" /\ child.layers = 0
\* Mutant: a line that was printed counts.
PrintedCounts == FALSE
SawTheBudget == job.lane = "mlx" /\ child.tripped

\* For mlx the growth is the highest sample of the host over the baseline.
MlxGrowth == child.high - child.base
Repeat == [gb |-> IF job.lane = "mlx" THEN MlxGrowth ELSE child.growth,
           vram |-> 0, calm |-> child.calm, seen |-> child.seen,
           layers |-> child.layers, tripped |-> child.tripped]

Collect ==
    /\ pc = "probe" /\ child.at \in {"dead", "measured"}
    /\ IF NoLine \/ NotOffloaded \/ SawTheBudget THEN End("refused") /\ UNCHANGED taken
       ELSE /\ taken' = Append(taken, Repeat)
            /\ child' = NoChild
            /\ pc' = CASE job.op = "benchmark" -> "load"
                       [] job.op # "benchmark" /\ Len(taken') < Repeats -> "repeat"
                       [] OTHER -> "median"
            /\ UNCHANGED result
    /\ UNCHANGED <<job, other, drift, gate, entries, mem>>

(***************************************************************************)
(* gguf loads in its own process and reads the log; so do the runs that    *)
(* answer prompts, whose loads nothing watches.                            *)
(***************************************************************************)
\* The load raises: only mlx turns that into a refusal.
LoadRaises == /\ pc = "load"
              /\ End(IF job.lane = "mlx" THEN "refused" ELSE "crashed")
              /\ UNCHANGED <<job, other, drift, gate, taken, entries, mem>>

LoadOneWall == /\ pc = "load" /\ job.lane # "gguf"
               /\ Pass("answer")
               /\ UNCHANGED <<job, other, drift, gate, taken, entries, mem>>

LoadTwoWalls ==
    /\ pc = "load" /\ job.lane = "gguf"
    /\ \E k \in {0, gate.layers}, x, y \in 0..job.extra :
         LET v == VramEstimate(k, job.ctx) + x
             r == RamEstimate(k, job.ctx, 0) + 1 + y
         IN  IF ~Verified(k, v, r) THEN End("refused") /\ UNCHANGED taken
             ELSE /\ taken' = Append(taken, [gb |-> r, vram |-> v, calm |-> TRUE,
                                  seen |-> TRUE, layers |-> k, tripped |-> FALSE])
                  /\ Pass(CASE job.op # "measure" -> "answer"
                             [] job.op = "measure" /\ Len(taken') < Repeats -> "load"
                             [] OTHER -> "median")
    /\ UNCHANGED <<job, other, drift, gate, entries, mem>>

\* Mutant: the last reading.
LastOf(s) == s[Len(s)]
\* statistics.median of an odd number of readings
Median(s) == CHOOSE x \in {s[i] : i \in DOMAIN s} :
                /\ 2 * Cardinality({i \in DOMAIN s : s[i] > x}) < Len(s)
                /\ 2 * Cardinality({i \in DOMAIN s : s[i] < x}) < Len(s)
Readings(f) == [i \in DOMAIN taken |-> taken[i][f]]

\* The context's measurement.  gguf checks both walls once more, on the two
\* medians, and does not catch what that check raises.
Report == LET gb == Median(Readings("gb"))
              v == Median(Readings("vram"))
          IN  /\ pc = "median"
              /\ IF job.lane = "gguf" /\ ~TwoWalls(v, gb)
                 THEN End("crashed") /\ UNCHANGED mem
                 ELSE /\ End("measured")
                      /\ mem' = IF job.lane = "gguf" THEN gate.ram + gb ELSE gb
              /\ UNCHANGED <<job, other, drift, gate, taken, entries>>

(***************************************************************************)
(* The prompts, one after the other.  A benchmark keeps a refusal or an    *)
(* error as that prompt's entry; in a one-shot run it ends the run.        *)
(***************************************************************************)
Entry(kind, p, given, gated) ==
    /\ entries' = Append(entries,
          [kind |-> kind, prompt |-> p, given |-> given, gated |-> gated])
    /\ UNCHANGED <<pc, child, result>>

OneShot(how) == job.op = "generate" /\ End(how) /\ UNCHANGED entries

Answer ==
    LET p == job.prompts[Len(entries) + 1]
        given == GovernedMaxTokens(p, job.ask, job.ctx)
    IN  /\ pc = "answer" /\ Len(entries) < Len(job.prompts)
        /\ ~(job.lane = "cuda" /\ job.op = "benchmark")
        /\ \/ given = 0 /\ OneShot("refused")
           \/ given = 0 /\ job.op = "benchmark" /\ Entry("refused", p, 0, gate.ctx)
           \/ given > 0 /\ Entry("completion", p, given, gate.ctx)
           \/ given > 0 /\ job.op = "benchmark" /\ Entry("error", p, given, gate.ctx)
           \/ given > 0 /\ OneShot("crashed")
        /\ UNCHANGED <<job, other, drift, gate, taken, mem>>

\* A cuda batch gates the prompt on the reading at its start, and loads for the
\* first one that passes, catching nothing.
CudaAnswer ==
    LET p == job.prompts[Len(entries) + 1]
        reach == p + job.ask
        refuse == \/ GovernedMaxTokens(p, job.ask, job.ctx) = 0
                  \/ SafetyGate(gate.ram, gate.ram, reach)
    IN  /\ pc = "answer" /\ Len(entries) < Len(job.prompts)
        /\ job.lane = "cuda" /\ job.op = "benchmark"
        /\ \/ refuse /\ Entry("refused", p, 0, reach)
           \/ ~refuse /\ \E kind \in {"completion", "error"} : Entry(kind, p, job.ask, reach)
           \/ /\ ~refuse /\ \A i \in DOMAIN entries : entries[i].kind = "refused"
              /\ End("crashed") /\ UNCHANGED entries
        /\ UNCHANGED <<job, other, drift, gate, taken, mem>>

Answered == /\ pc = "answer" /\ Len(entries) = Len(job.prompts)
            /\ End("answered")
            /\ UNCHANGED <<job, other, drift, gate, taken, entries, mem>>

WorkerStep == \/ Unresolved \/ GateTwoWalls \/ StartCudaBatch \/ Preflight
        \/ \E c \in GatedContexts : GateOneWall(c)
        \/ Launch \/ Grow \/ Raise \/ Sample \/ Cut \/ ExitAtTheWall \/ PrintLine \/ Collect
        \/ LoadRaises \/ LoadOneWall \/ LoadTwoWalls \/ Report
        \/ Answer \/ CudaAnswer \/ Answered

WorkersNext == Ambient \/ WorkerStep

\* The scripts run to their end unless a load hangs.
WorkersSpec == WorkersInit /\ [][WorkersNext]_workersVars /\ WF_workersVars(WorkerStep)

(***************************************************************************)
(* Properties                                                              *)
(***************************************************************************)

\* The gate and the watchdog agree: while the host holds what the gate read
\* and the model takes no more than the overhead on top of its weights and
\* cache, no sample of a probe sees the budget.  (safety_gate, the L5 watchdogs)
SoundEstimatesNeverTrip ==
    Alive /\ child.calm /\ other.ram = gate.ram /\ job.extra <= Overhead
        => ~child.tripped

\* A disturbance in fewer than half of the repeats does not move the reported
\* growth: it is the model's own whenever most repeats ran while nothing else
\* changed and - for mlx - a sample met the full load.  (run's median)
DisturbancesAreOutvoted ==
    result = "measured" /\ job.lane # "gguf" =>
        LET good == {i \in DOMAIN taken :
                \/ job.lane = "cpu"
                \/ taken[i].calm /\ (job.lane = "mlx" => taken[i].seen)}
        IN  2 * Cardinality(good) > Len(taken) => mem = Need

\* What is reported was watched and ran where it says: no accepted mlx repeat
\* had a sample at the budget, and every accepted vulkan or gguf repeat ran on
\* the GPU, for gguf with the layers that were gated.  (_supervise_process,
\* offload_ok, offload_ok_partial)
AcceptedRepeatsAreHonest ==
    result = "measured" => \A i \in DOMAIN taken :
        /\ job.lane = "mlx" => ~taken[i].tripped
        /\ job.lane = "vulkan" => taken[i].layers > 0
        /\ job.lane = "gguf" => (taken[i].layers = gate.layers /\ gate.layers > 0)

\* The uncaught second check of gguf's medians never fires, so a gguf worker
\* that measured never dies without its line; and unless the estimate lands
\* exactly on the VRAM budget, the fitted split passes the gate whenever any
\* split does.  (run and fit_layers of cuda_gguf_llama.py)
TwoWallsAgree ==
    job.lane = "gguf" =>
        /\ Len(taken) = Repeats => result # "crashed"
        /\ LET k == FitLayers(job.ctx, VramBudget(other.vram))
               Fits(n) == ~TwoWallGate(n, job.ctx, other.ram, other.vram)
           IN  (\E n \in 0..Layers : Fits(n))
                  => Fits(k) \/ VramEstimate(k, job.ctx) = VramBudget(other.vram)

\* What the driver admits the worker's gate admits: at any context the split was
\* fitted for, the driver's base and slope together stay under the budget only if
\* the gate would not refuse on the same host; for gguf they are no less than
\* what its gate predicts for RAM, whatever split it then fits.  The one exception
\* is mlx's floor: where less than that is wired, its gate predicts more than the
\* driver, by no more than what is missing.  (preflight against safety_gate, _gate)
FloorShort == IF job.lane = "mlx" THEN Most(0, WiredFloor - other.ram) ELSE 0
PreflightCoversTheGate ==
    result = "estimated" /\ other = [ram |-> gate.ram, vram |-> gate.vram] =>
        \A c \in 0..FitContext :
            IF job.lane = "gguf"
            THEN RamEstimate(FitLayers(c, VramBudget(other.vram)), c, other.ram)
                    <= mem + Slope * c
            ELSE mem + Slope * c + FloorShort < Budget
                    => ~SafetyGate(other.ram, other.ram, c)

\* Every completion had room: prompt and answer together stay within the
\* context the memory gate was asked about, and that within the ceiling.
AnswersWereGated ==
    \A i \in DOMAIN entries : entries[i].kind = "completion" =>
        /\ entries[i].prompt + entries[i].given <= entries[i].gated
        /\ entries[i].gated <= job.ctx

\* Every run ends with its one line or with the worker's death, except that a
\* hung load holds up the cpu and vulkan lanes, which wait without a timeout.
RunsEnd == <>(pc = "done" \/ (job.lane \in {"cpu", "vulkan"} /\ child.hung))

\* The places that predict a footprint agree: the gate with the watchdog, the
\* gate with gguf's check afterwards, the driver's own gate with the worker's.
PredictionsAgree == SoundEstimatesNeverTrip /\ TwoWallsAgree /\ PreflightCoversTheGate

\* A measurement says what it seems to: of the model and not of a disturbance,
\* watched, and where it was asked to run.
MeasurementsAreHonest == DisturbancesAreOutvoted /\ AcceptedRepeatsAreHonest

=============================================================================
