--------------------------- MODULE MCModelLifecycle ---------------------------
(* ModelLifecycle for TLC: models and loader threads are interchangeable. *)
EXTENDS ModelLifecycle, TLC

Symmetry == Permutations(Models) \cup Permutations(Loaders)
=============================================================================
