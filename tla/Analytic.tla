------------------------------ MODULE Analytic ------------------------------
(***************************************************************************)
(* What ARA says of a model it has not measured: `ara profile --model` and *)
(* `ara models recommend` (cli.py), over the facts of the machine          *)
(* (detect.py, engines.py), of the model cache (catalog.py) and of the     *)
(* measurement store (scoring.py).  The two commands gather their facts    *)
(* along different ways and must come to the same verdict, and a ramp that *)
(* measures the model later must not find more than the verdict promised.  *)
(*                                                                         *)
(* Nothing here has a state: the definitions are functions of a machine    *)
(* and of a model, and the properties hold of all machines and models      *)
(* given.  Sizes are thousandths: of a GB where a file is weighed, of a    *)
(* GiB where memory is.                                                    *)
(***************************************************************************)
EXTENDS Ramp, Sequences

CONSTANTS
    Machines,   \* [system, arch, smi, vram, gpus, ram]
    Models,     \* [form, files, config, header, size, hub, stored]
    Evidence,   \* stored benchmark rows: [valid, cell, quant, artifact, score]
    Margin      \* MARGIN_GB

Known(S) == S \cup {None}

\* What a file says of its model, and what the store keeps of it.
Descriptions == [kv: Known(Nat), window: Known(Nat)]
Catalogued == [kv: Known(Nat), window: Known(Nat), weights: Known(Nat)]
Scores == [valid: BOOLEAN, cell: BOOLEAN, quant: STRING, artifact: STRING, score: Int]

Backend == [mlx |-> "apple", cuda |-> "cuda", cpu |-> "cpu", vulkan |-> "vulkan", cuda_gguf |-> "cuda_gguf"]

Engines == DOMAIN Backend

\* Why there is no verdict, or no context with it, and what else limits the context.
Reasons == {"engine_incompatible", "engine_compatibility_unknown", "two_wall_capacity_unavailable",
            "artifact_unresolved", "unsupported_format", "undescribed", "no_current_budget",
            "insufficient_memory", "size_unknown", "exceeds_safe_budget", "architecture_unknown"}
Bindings == {"context_window", "memory"}

\* A cached file has a size.
ASSUME AnalyticAssumption ==
    /\ Margin \in Nat
    /\ None \notin Engines \cup Reasons \cup Bindings \cup Catalogued
    /\ \A a \in Models :
        /\ a.form \in {"repo", "selector", "invalid"}
        /\ a.files \notin {None, {}} => a.size \in Nat
        /\ a.config \in Known(Descriptions) /\ a.header \in Known(Descriptions)
        /\ a.stored \in Known(Catalogued)
    /\ \A rows \in Evidence : rows \in Seq(Scores)

-----------------------------------------------------------------------------
(* The machine. *)

AppleSilicon(m) == m.system = "Darwin" /\ m.arch = "arm64"

\* nvidia-smi on the PATH is enough for the choice, whether or not it answers.
BackendName(m) ==
    IF AppleSilicon(m) THEN "apple" ELSE IF m.smi # "absent" THEN "cuda" ELSE "cpu"

AccelKind(m) ==
    IF m.smi = "answers" THEN "nvidia" ELSE IF AppleSilicon(m) THEN "apple" ELSE "none"

Kinds(engine) == IF engine \in {"mlx", "cuda"} THEN {"transformers"} ELSE {"gguf"}

ForBackend(backend) == CHOOSE e \in Engines : Backend[e] = backend

ResolveEngine(choice, m) == IF choice = None THEN ForBackend(BackendName(m)) ELSE choice

Vram(m) == IF AccelKind(m) = "nvidia" THEN m.vram ELSE None

\* The memory wall known without an engine: one device's memory, or the RAM.
Wall(m, backend) ==
    CASE backend = "cuda" -> Vram(m)
      [] backend = "apple" -> None
      [] OTHER -> m.ram

Budget(wall) == IF wall = None THEN None ELSE Max({wall - Margin, 0})

-----------------------------------------------------------------------------
(* What an engine can run on. *)

Systems == [mlx |-> {"Darwin"}, cuda |-> {"Windows"}, cuda_gguf |-> {"Linux", "Windows"},
            vulkan |-> {"Linux", "Windows"}, cpu |-> {}]

Arch(engine) == IF engine = "mlx" THEN "arm64" ELSE "x86_64"

NvidiaGpus(m) == {g \in m.gpus : g.vendor = "nvidia"}

NvidiaFacts(m) ==
    IF AccelKind(m) = "nvidia" \/ NvidiaGpus(m) # {}
    THEN [present |-> "yes", vram |-> ({Vram(m)} \cup {g.vram : g \in NvidiaGpus(m)}) \ {None}]
    ELSE [present |-> IF \E g \in m.gpus : g.vendor = "unknown" THEN "unknown" ELSE "no", vram |-> {}]

NvidiaCompatible(m) ==
    LET facts == NvidiaFacts(m) IN
    CASE facts.present = "no" -> "incompatible"
      [] facts.present = "yes" /\ facts.vram # {} -> "compatible"
      [] OTHER -> "unknown"

VulkanCompatible(m) ==
    CASE \E g \in m.gpus : g.vulkan -> "compatible"
      [] m.gpus = {} /\ AccelKind(m) = "none" -> "incompatible"
      [] m.gpus # {} /\ \A g \in m.gpus : ~g.vulkan /\ g.vendor # "unknown" -> "incompatible"
      [] OTHER -> "unknown"

Compatibility(engine, m) ==
    CASE engine = "cpu" -> "compatible"
      [] engine # "cpu" /\ None \in {m.system, m.arch} -> "unknown"
      [] engine # "cpu" /\ None \notin {m.system, m.arch} ->
            IF m.system \notin Systems[engine] \/ m.arch # Arch(engine) THEN "incompatible"
            ELSE CASE engine = "mlx" -> "compatible"
                   [] engine = "vulkan" -> VulkanCompatible(m)
                   [] OTHER -> NvidiaCompatible(m)

-----------------------------------------------------------------------------
(* What the cache holds of a model: form is the form of the reference (a    *)
(* repository, or one GGUF file selected in it or lying on the disk), files *)
(* the kinds of files cached, None if the cache cannot be read.             *)

Resolved(kind) == [resolved |-> TRUE, kind |-> kind]
Unresolved(kind) == [resolved |-> FALSE, kind |-> kind]

ArtifactEvidence(a) ==
    CASE a.form = "selector" -> Resolved("gguf")
      [] a.form = "invalid" \/ (a.form = "repo" /\ a.files = None) -> Unresolved(None)
      [] a.form = "repo" /\ a.files # None ->
            CASE {"gguf", "transformers"} \subseteq a.files -> Unresolved("mixed")
              [] "gguf" \in a.files /\ "transformers" \notin a.files -> Unresolved("gguf")
              [] "transformers" \in a.files /\ "gguf" \notin a.files -> Resolved("transformers")
              [] OTHER -> Unresolved(None)

\* An engine that does take the format, and runs on this machine.
Alternatives(engine, kind, m) ==
    {e \in Engines \ {engine} : kind \in Kinds(e) /\ Compatibility(e, m) = "compatible"}

ArtifactCompatibility(engine, evidence) ==
    IF ~evidence.resolved THEN "unknown"
    ELSE IF evidence.kind \in Kinds(engine) THEN "compatible" ELSE "incompatible"

\* Tensor shapes tell the layers, not the growth of the cache.
Shards(a) ==
    IF a.files # None /\ "transformers" \in a.files THEN [kv |-> None, window |-> None] ELSE None

\* config.json, or the header of the smallest cached GGUF, or the shards.
Describe(a) ==
    CASE a.form = "selector" -> a.header
      [] a.form # "selector" /\ a.config # None -> a.config
      [] a.form # "selector" /\ a.config = None -> IF a.header # None THEN a.header ELSE Shards(a)

CacheSize(a) == IF a.form = "repo" /\ a.files # None THEN a.size ELSE None

StoredWeights(a) == IF a.stored = None THEN None ELSE a.stored.weights

FirstKnown(sizes) ==
    LET known == {i \in DOMAIN sizes : sizes[i] # None}
    IN IF known = {} THEN None ELSE sizes[Min(known)]

\* Mutant: the Hub is asked before the cache is weighed.
HubWeights(a, kind) ==
    IF kind = "gguf" THEN FirstKnown(<<StoredWeights(a), a.hub>>)
    ELSE FirstKnown(<<StoredWeights(a), a.hub, CacheSize(a)>>)

\* The size profile goes by.
ProfileWeights(a, kind) ==
    IF kind = "gguf" THEN FirstKnown(<<StoredWeights(a), a.hub>>)
    ELSE FirstKnown(<<StoredWeights(a), CacheSize(a), a.hub>>)

-----------------------------------------------------------------------------
(* The fit. *)

\* A file's size, in GB, as the memory its weights take, in GiB.
GiB(weights) == (weights * 931) \div 1000

Fits(verdict, context, binding, reason) ==
    [fits |-> verdict, context |-> context, binding |-> binding, reason |-> reason]

Unknown(reason) == Fits("unknown", None, None, reason)

\* The most tokens whose cache, on top of the weights, stays under the budget.
AnalyticCeiling(base, kv, budget) ==
    LET tokens == (budget - base) \div kv
    IN IF tokens > 0 /\ base + kv * tokens >= budget THEN tokens - 1 ELSE tokens

WindowBinds(ceiling, window) == window # None /\ ceiling > window

ModelFit(budget, meta, weights) ==
    CASE budget = None -> Unknown("no_current_budget")
      [] budget = 0 -> Unknown("insufficient_memory")
      [] budget \notin {None, 0} /\ weights = None -> Unknown("size_unknown")
      [] budget \notin {None, 0} /\ weights # None ->
            IF GiB(weights) >= budget THEN Fits("no", None, None, "exceeds_safe_budget")
            ELSE IF meta.kv = None THEN Fits("yes", None, None, "architecture_unknown")
            ELSE LET ceiling == AnalyticCeiling(GiB(weights), meta.kv, budget)
                 IN IF WindowBinds(ceiling, meta.window)
                    THEN Fits("yes", meta.window, "context_window", None)
                    ELSE Fits("yes", ceiling, "memory", None)

\* Why profile has no budget for this engine on this machine at all.
CapacityReason(engine, m) ==
    LET runs == Compatibility(engine, m) IN
    CASE runs = "incompatible" -> "engine_incompatible"
      [] runs = "unknown" -> "engine_compatibility_unknown"
      [] runs = "compatible" ->
            IF engine = "cuda_gguf" THEN "two_wall_capacity_unavailable" ELSE None

\* ara profile --model: no budget is read from the store, whatever was measured.
Profile(choice, m, a) ==
    LET engine == ResolveEngine(choice, m)
        evidence == ArtifactEvidence(a)
        artifact == ArtifactCompatibility(engine, evidence)
        capacity == CapacityReason(engine, m)
    IN CASE capacity # None -> Unknown(capacity)
         [] capacity = None /\ artifact # "compatible" ->
                Unknown(IF artifact = "unknown" THEN "artifact_unresolved" ELSE "unsupported_format")
         [] capacity = None /\ artifact = "compatible" ->
                IF Describe(a) = None THEN Unknown("undescribed")
                ELSE ModelFit(Budget(Wall(m, Backend[engine])), Describe(a),
                              ProfileWeights(a, evidence.kind))

\* What profile prints.
Verdict(fit) ==
    CASE fit.fits = "unknown" -> "unknown"
      [] fit.fits = "no" -> "won't fit"
      [] fit.fits = "yes" ->
            IF fit.binding = "context_window" THEN "full window"
            ELSE IF fit.context \notin {None, 0} THEN "context-limited" ELSE "fits"

\* The capacity section above it: a number is printed only for a known wall.
LimitsShown(engine, m) ==
    CASE CapacityReason(engine, m) # None -> "compatibility"
      [] CapacityReason(engine, m) = None /\ engine = "mlx" -> "authority unknown"
      [] CapacityReason(engine, m) = None /\ engine # "mlx" ->
            IF Budget(Wall(m, Backend[engine])) = 0 THEN "insufficient" ELSE "estimated"

-----------------------------------------------------------------------------
(* ara models recommend. *)

Cached(a) == a.files \notin {None, {}}

\* The row of the catalog it builds for itself: what the cache holds now, and, of
\* selected files, what was stored of them, if they are still there.
ScannedRow(a) ==
    IF a.form = "selector"
    THEN IF a.stored # None /\ Cached(a) THEN a.stored ELSE None
    ELSE IF Cached(a) /\ Describe(a) # None
         THEN [kv |-> Describe(a).kv, window |-> Describe(a).window, weights |-> CacheSize(a)]
         ELSE None

RecommendBudget(choice, m) ==
    Budget(Wall(m, IF choice = "mlx" THEN "apple" ELSE BackendName(m)))

RecommendFit(choice, m, a) == ModelFit(RecommendBudget(choice, m), ScannedRow(a), ScannedRow(a).weights)

Status(fit) ==
    CASE fit.fits = "no" -> "excluded"
      [] fit.fits = "yes" /\ fit.context # None -> "recommended"
      [] OTHER -> "unrankable"

\* A measured row may rank a model if it is whole, of an engine that has this
\* backend, of this quantization and of the very file that is cached.
Usable(row, quant, artifact) ==
    row.valid /\ row.cell /\ row.quant = quant /\ row.artifact = artifact

UsableRows(rows, quant, artifact) == {i \in DOMAIN rows : Usable(rows[i], quant, artifact)}

\* Mutant: the rows are gone through from the oldest on.
OldestScore(rows, quant, artifact) ==
    LET usable == UsableRows(rows, quant, artifact)
    IN IF usable = {} THEN None ELSE rows[Min(usable)].score

\* The newest of the rows of one model and use case, which are stored oldest first.
MeasuredScore(rows, quant, artifact) ==
    LET usable == UsableRows(rows, quant, artifact)
    IN IF usable = {} THEN None ELSE rows[Max(usable)].score

\* A row usable takes the warning of the newer ones back; an older one gives its own.
Warned(rows, quant, artifact) ==
    LET usable == UsableRows(rows, quant, artifact)
    IN IF usable = {} THEN rows # <<>> ELSE Min(usable) > 1

\* A published score stands in for a model not measured here.
ScoreFor(measured, imported) ==
    IF measured # None THEN [tier |-> "measured", value |-> measured]
    ELSE IF imported # None THEN [tier |-> "imported", value |-> imported] ELSE None

-----------------------------------------------------------------------------
(* Properties. *)

\* What the store knows of the model is what a scan would record now.
StoreIsCurrent(a) ==
    IF a.form = "selector"
    THEN a.stored # None /\ Cached(a) /\ a.stored.weights # None
         /\ a.header = [kv |-> a.stored.kv, window |-> a.stored.window]
    ELSE StoredWeights(a) \in {None, CacheSize(a)}

\* Wherever profile gives a verdict for the engine ARA picks by itself, recommend
\* comes to the same fit, to the token, and lists every model profile told a context
\* of, under a budget that is shown: with the weights from the store, the cache or the Hub on one
\* side and from a scan on the other. (_model_fit: "so the two compute identically")
ProfileAndRecommendAgree ==
    \A m \in Machines, a \in Models :
        LET told == Profile(None, m, a) IN
        told.fits # "unknown" /\ StoreIsCurrent(a) =>
            /\ ScannedRow(a) # None /\ RecommendFit(None, m, a) = told
            /\ Verdict(told) \in {"full window", "context-limited"} => Status(told) = "recommended"
            /\ Verdict(told) = "won't fit" => Status(told) = "excluded"
            /\ LimitsShown(ResolveEngine(None, m), m) = "estimated"

\* The engine profile points at when the format is wrong for the one asked for is
\* one that profile itself, asked again, accepts for the machine and the format.
HintsAreAccepted ==
    \A m \in Machines, a \in Models, e \in Engines :
        Profile(e, m, a).reason = "unsupported_format" =>
            \A hint \in Alternatives(e, ArtifactEvidence(a).kind, m) :
                Profile(hint, m, a).reason \notin
                    {"engine_incompatible", "engine_compatibility_unknown", "unsupported_format",
                     "artifact_unresolved"}

\* A model whose weights and cache are at least what its files and architecture
\* say is never measured above the context it was promised, nor at all if it was
\* said not to fit: not even at the same budget. (model_fit over run_ramp)
EstimateBoundsTheRamp ==
    footprint # None /\ direct # None =>
        \A w \in 0 .. footprint.base + 1, kv \in 1 .. footprint.slope :
            GiB(w) <= footprint.base =>
                LET fit == ModelFit(est.budget, [kv |-> kv, window |-> est.window], w)
                IN fit.fits = "yes" /\ direct <= fit.context

\* No score ranks a model but the newest one measured of the cached file at its
\* quantization, and none that was published where such a one is stored; rows none
\* of which can be used are not passed over without a warning. (render_recommend)
ScoresAreCurrent ==
    \A rows \in Evidence, quant \in {"q4", "q8"}, imported \in {None, 9} :
        LET score == ScoreFor(MeasuredScore(rows, quant, "now"), imported)
            usable == {i \in DOMAIN rows : Usable(rows[i], quant, "now")} IN
        IF usable = {}
        THEN (score # None => score.tier = "imported") /\ (rows # <<>> => Warned(rows, quant, "now"))
        ELSE \E i \in usable : score = [tier |-> "measured", value |-> rows[i].score]
                               /\ \A j \in usable : j <= i

\* The three commands that speak of one model agree. (estimate.py, cli.py, ramp.py)
EstimatesAgree ==
    EstimateBoundsTheRamp /\ ProfileAndRecommendAgree /\ HintsAreAccepted /\ ScoresAreCurrent

=============================================================================
