----------------------------- MODULE MCSession -----------------------------
(* Session for TLC. Tabs, browsers and passwords are interchangeable.       *)
EXTENDS Session, TLC

Symmetry == Permutations(Tabs) \union Permutations(Browsers) \union Permutations(Words)
=============================================================================
