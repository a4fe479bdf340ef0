SPECIFICATION Spec
CONSTANTS
    Procs = {p1, p2}
    Nobody = Nobody
    Engines = {mlx, cpu}
    Scoped = {mlx}
    Ceilings = {1, 2}
    Commands = {"characterize", "benchmark", "run", "serve", "install", "uninstall"}
    MaxCommands = 2
    MaxChanges = 1
    MaxKills = 1
    MaxLoads = 2
    Revisions = {1, 2, 3}
    Snapshots <- MCSnapshots
    Others <- MCOthers
CONSTRAINT OneEvent
SYMMETRY Symmetry
INVARIANTS
    EvidenceIsOneWorld
    AnswersAreMeasured
    OnlyTheIdentifiedIsLoaded
PROPERTIES
    MeasurementsAreUndisturbed
CHECK_DEADLOCK FALSE
