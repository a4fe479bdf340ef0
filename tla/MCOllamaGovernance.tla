------------------------- MODULE MCOllamaGovernance -------------------------
EXTENDS OllamaGovernance, TLC

CONSTANTS p1, p2

Symm == Permutations(Procs)
=============================================================================
