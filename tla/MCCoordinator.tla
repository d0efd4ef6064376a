--------------------------- MODULE MCCoordinator ---------------------------
(* Coordinator for TLC: runs and repositories are interchangeable, so safety *)
(* properties are checked up to their permutations.                          *)
EXTENDS Coordinator, TLC

Symmetry == Permutations(Runs) \cup Permutations(Repos)
=============================================================================
