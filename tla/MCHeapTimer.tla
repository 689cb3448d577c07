---------------------------- MODULE MCHeapTimer ----------------------------
(* Small instances of HeapTimer for TLC.                                   *)
EXTENDS HeapTimer, TLC

Symmetry == Permutations(Keys)
=============================================================================
