SPECIFICATION Spec
CONSTANTS
    p1 = p1
    p2 = p2
    None = None
    Procs = {p1, p2}
    MaxCtx = 2
    MaxBase = 2
    MaxInst = 2
    MaxOutside = 1
    MaxCommands = 3
    NamesTaken = TRUE
    OutsideLoads = TRUE
SYMMETRY Symm
INVARIANTS
    EvidenceIsSound
    HandedOutIsGoverned
PROPERTIES
    ForeignKept
    ClaimedKept
CHECK_DEADLOCK FALSE
