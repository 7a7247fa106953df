-------------------------- MODULE MCDownloadService --------------------------
(* DownloadService for TLC: the files are interchangeable. *)
EXTENDS DownloadService, TLC

Symmetry == Permutations(Files)
=============================================================================
