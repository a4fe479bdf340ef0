SPECIFICATION Spec
CONSTANTS
    Agents = {a1, a2}
    Jobs = {j1, j2, j3}
    Contents = {c1}
    Stamps <- MCStamps
    None = None
SYMMETRY MCSymmetry
INVARIANTS
    AtMostOneOffer
    PlaintextOnlyWhileActive
PROPERTIES
    SettledIsFinal
