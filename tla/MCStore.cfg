SPECIFICATION StoreSpec
CONSTANTS
    Procs = {p1, p2}
    p1 = p1
    p2 = p2
    OldStores <- MCOldStores
    Authorities = {"a1", "unscoped"}
    Builds = {"b1"}
    Engines = {"mlx", "cuda"}
    Cached = {"hf", "other"}
    DefaultEngine = "cuda"
    MaxOpens = 2
    MaxSaves = 1
SYMMETRY Symmetry
INVARIANTS
    OnlyOwnEvidenceGoverns
    UpgradesKeepTheStore
    ViewsClaimOnlyWhatGoverns
CHECK_DEADLOCK FALSE
