SPECIFICATION WallsSpec
CONSTANTS
    Missing = Missing
    Machines <- MCMachines
    Models <- MCModels
    Rungs = {1, 2, 3}
    Allocations <- MCAllocations
    OtherUses <- MCOtherUses
    SystemMargin = 2
    AcceleratorMargin = 1
    RuntimeOverhead = 1
    SystemMayFail = TRUE
    SmiMayFail = TRUE
INVARIANTS
    ReservesAreKept
    StoredEvidenceGoverns
