---------------------------- MODULE MCBlockDeque ----------------------------
(* Small instances of BlockDeque for TLC.                                  *)
EXTENDS BlockDeque, TLC

Symmetry == Permutations(Producers) \cup Permutations(Consumers)
=============================================================================
