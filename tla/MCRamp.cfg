SPECIFICATION FairSpec
CONSTANTS
    Schedule <- MCSchedule
    Estimates <- MCEstimates
    Footprints <- MCFootprints
    Readings = {1, 5, 12}
    MinGap = 1
    MaxSteps = 2
    None = None
    Machines <- MCMachines
    Models <- MCModels
    Evidence <- MCEvidence
    Margin = 2000
INVARIANTS
    CeilingSeparatesEvidence
    NeverReachesTheWall
    FittedCeilingIsEarned
    EstimatesAgree
PROPERTIES
    Terminates
CHECK_DEADLOCK FALSE
