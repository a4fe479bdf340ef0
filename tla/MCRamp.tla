------------------------------- MODULE MCRamp -------------------------------
EXTENDS Analytic

\* Estimates of a machine with a budget of 12 units: with and without a launch
\* baseline, flat to steep, for models with no, a small and a large window.
MCEstimates ==
    {e \in [base: {2, 4}, ref: {0, 2}, slope: {0, 1, 2}, budget: {12}, kv: {0, 1},
            window: {1, 5, 9, None}] : e.ref <= e.base}

MCFootprints == [base: {0, 2}, slope: {0, 1, 2}]

MCSchedule == {2, 4, 8, 16}

\* Machines of all systems, with every kind of graphics card, known or not.
MCGpus == {{}, {[vendor |-> "nvidia", vram |-> None, vulkan |-> FALSE]},
           {[vendor |-> "nvidia", vram |-> 6000, vulkan |-> TRUE]},
           {[vendor |-> "amd", vram |-> 4000, vulkan |-> TRUE]},
           {[vendor |-> "unknown", vram |-> None, vulkan |-> FALSE]}}

\* What nvidia-smi says of the memory is read only if it answers.
MCMachines ==
    {m \in [system: {"Darwin", "Linux", "Windows", None}, arch: {"arm64", "x86_64"},
            smi: {"absent", "silent", "answers"}, vram: {1500, 6000}, gpus: MCGpus,
            ram: {None, 2000, 8000}] :
        m.smi # "answers" => m.vram = 6000}

Meta == {[kv |-> None, window |-> None], [kv |-> 2, window |-> 900], [kv |-> 2, window |-> 4000]}

Stored == [kv: {None, 2}, window: {900}, weights: {None, 1000, 4297, 7000}]

\* Repositories and selected files, cached or not, small, just as large as a
\* budget, and too large, with and without a stored row.  Of a repository's stored
\* row only the weights are read.
MCModels ==
    {a \in [form: {"repo", "selector"}, files: {None, {}, {"gguf"}, {"transformers"}, {"gguf", "transformers"}},
            config: Meta \cup {None}, header: Meta \cup {None}, size: {None, 4297, 7000},
            hub: {None, 1000}, stored: Stored \cup {None}] :
        /\ a.files \in {None, {}} <=> a.size = None
        /\ a.form = "selector" => a.config = None
        /\ a.form = "repo" /\ a.stored # None => a.stored.kv = 2
        /\ "gguf" \notin (IF a.files = None THEN {} ELSE a.files) /\ a.form = "repo" => a.header = None}

MCRows == [valid: {TRUE}, cell: BOOLEAN, quant: {"q4", "q8"}, artifact: {"now", "before"}, score: {3, 5}]

MCEvidence == {<<>>} \cup [1 .. 1 -> MCRows] \cup [1 .. 2 -> MCRows] \cup [1 .. 3 -> MCRows]
=============================================================================
