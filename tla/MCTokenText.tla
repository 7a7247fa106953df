------------------------------ MODULE MCTokenText ------------------------------
(* TokenText for TLC: the answers are interchangeable. *)
EXTENDS TokenText, TLC

Symmetry == Permutations(Answers)
=============================================================================
