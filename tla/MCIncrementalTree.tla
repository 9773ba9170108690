--------------------------- MODULE MCIncrementalTree ---------------------------
(* Instances of IncrementalTree for TLC. *)
EXTENDS IncrementalTree

\* A sparse column that tells only one point from the others, and a dense one.
Columns == [f \in Features |->
              IF f \in Sparse THEN [p \in Points |-> IF p = "b" THEN 2 ELSE 1]
                              ELSE [p \in Points |-> CASE p = "c" -> 2 [] p = "d" -> 1 [] OTHER -> 3]]

\* The second batch has two values of the dense column that the first has not, the greater first.
FewBatches == {<<<<"a", 0>>, <<"b", 1>>>>, <<<<"c", 1>>, <<"d", 0>>>>, <<<<"c", 1>>, <<"d", 1>>>>,
               <<<<"a", 1>>>>}
=============================================================================
