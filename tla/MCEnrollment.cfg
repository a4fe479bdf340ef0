SPECIFICATION Spec
CONSTANTS
    Tokens = {t1, t2}
    Agents = {a1, a2}
    Enrollers = {e1, e2}
    None = None
SYMMETRY MCSymmetry
INVARIANTS
    OneAgentPerToken
    HandshakesDoNotMix
PROPERTIES
    SessionsAreKept
