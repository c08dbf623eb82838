---------------------------- MODULE MCBatchAdvance ----------------------------
(* BatchAdvance for TLC.                                                     *)
EXTENDS BatchAdvance, TLC

Symmetry == Permutations(Users)
=============================================================================
