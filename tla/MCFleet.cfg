SPECIFICATION OrderedSpec
CONSTANTS
    Agents = {1, 2}
    Jobs = {1, 2}
    Contents = {c1}
    Stamps <- MCStamps
    None = None
    MaxFaults = 1
INVARIANTS
    AgreeOnDispatch
    QuarantineOnlyAfterLosingTheAgent
PROPERTIES
    RefinesLedger
    QueuedWorkFinishes
