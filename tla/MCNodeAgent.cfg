SPECIFICATION Spec
CONSTANTS
    Agents = {a1, a2}
    Jobs = {j1, j2}
    Contents = {c1}
    None = None
SYMMETRY MCSymmetry
INVARIANTS
    LaneHoldsOneJob
    DiskLeads
PROPERTIES
    OutcomesSurvive
