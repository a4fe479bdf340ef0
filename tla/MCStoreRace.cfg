SPECIFICATION StoreSpec
CONSTANTS
    Procs = {p1, p2}
    p1 = p1
    p2 = p2
    OldStores <- MCOldStores
    Authorities = {"a1"}
    Builds = {"b1"}
    Engines = {"mlx"}
    Cached = {"hf"}
    DefaultEngine = "cuda"
    MaxOpens = 2
    MaxSaves = 1
CHECK_DEADLOCK FALSE
SYMMETRY Symmetry
INVARIANTS
    SchemaApplied
