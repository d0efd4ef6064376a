--------------------------- MODULE MCDatabaseRestore ---------------------------
(* A TLC instance of DatabaseRestore: the runs are interchangeable. *)
EXTENDS DatabaseRestore, TLC

MCSymmetry == Permutations(Runs)
=============================================================================
