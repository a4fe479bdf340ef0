--------------------------- MODULE MCCoordinator ---------------------------
(* Two agents and three jobs: enough for an expired offer, a younger queued *)
(* job with an older stamp, and a third row that ties on the stamp.         *)
EXTENDS Coordinator, TLC

MCStamps == {1, 2}
MCSymmetry == Permutations(Agents) \cup Permutations(Jobs)
=============================================================================
