----------------------------- MODULE MCCatalog -----------------------------
(* Catalog for TLC. The ids and the forms are interchangeable.              *)
EXTENDS Catalog, TLC

Symmetry == Permutations(Forms) \union Permutations(Sources) \union
            Permutations(Repositories) \union Permutations(Jobs)
=============================================================================
