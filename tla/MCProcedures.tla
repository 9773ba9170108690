---------------------------- MODULE MCProcedures ----------------------------
(* Instances of Procedures for TLC. *)
EXTENDS Procedures, TLC

\* A query with post-processing and output, and a query with a limited output.
TestBatches == {<<"Q", "P", "O">>, <<"Q", "L">>}
Symmetry == Permutations(Names)

\* Bound: after a crash no save fails, and never do those of two names.
MaxMishaps == 1
FewMishaps == crashes + Cardinality(unsaved) <= MaxMishaps
=============================================================================
