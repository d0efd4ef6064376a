--------------------------- MODULE MCFileRestore ---------------------------
(* FileRestore for TLC. What is named only by constants is interchangeable. *)
EXTENDS FileRestore, TLC

Symmetry == Permutations(Repositories) \union Permutations(Folders)
            \union Permutations(Files) \union Permutations(Containers)
=============================================================================
