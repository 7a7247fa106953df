---------------------------- MODULE MCDecodeOnPool ----------------------------
(* DecodeOnPool for TLC: a product in many chunks, a node split by thread, and
   a product with a chunk for each thread. *)
EXTENDS DecodeOnPool
Products == {0, 2}
Chunks == [n \in Products |-> IF n = 0 THEN 4 * NThreads ELSE NThreads]
=============================================================================
