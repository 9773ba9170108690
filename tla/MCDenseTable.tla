---------------------------- MODULE MCDenseTable ----------------------------
(* Instances of DenseTable for TLC. *)
EXTENDS DenseTable, TLC
Alike == Permutations(Keys)
=============================================================================
