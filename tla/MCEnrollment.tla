---------------------------- MODULE MCEnrollment ----------------------------
EXTENDS Enrollment, TLC

MCSymmetry == Permutations(Tokens) \cup Permutations(Agents) \cup Permutations(Enrollers)
=============================================================================
