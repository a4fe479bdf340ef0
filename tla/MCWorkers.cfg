SPECIFICATION WorkersSpec
CONSTANTS
    Jobs <- MCJobs
    Ambients = {2, 6, 9}
    Total = 20
    VTotal = 14
    VCap = 2
    ModelWeights = 6
    Overhead = 2
    WiredFloor = 5
    Slope = 2
    Layers = 2
    Floor = 3
    FitContext = 2
    MaxDrift = 2
INVARIANTS
    PredictionsAgree
    MeasurementsAreHonest
    AnswersWereGated
PROPERTIES
    RunsEnd
CHECK_DEADLOCK FALSE
