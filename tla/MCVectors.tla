------------------------------ MODULE MCVectors ------------------------------
(* Instances of Vectors for TLC. *)
EXTENDS Vectors, TLC

Alike == Permutations(Vectors)

\* Bound: the cells of all blocks together, in the states that are followed further.
MaxCells == 5
FewCells == FoldFunction(LAMBDA b, n : Len(b.cells) + n, 0, heap) <= MaxCells
=============================================================================
