---------------------------- MODULE MCNodeAgent ----------------------------
EXTENDS NodeAgent, TLC

MCSymmetry == Permutations(Agents) \cup Permutations(Jobs)
=============================================================================
