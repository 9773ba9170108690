-------------------------- MODULE MCPromptEngine ---------------------------
(* Instances of PromptEngine for TLC. *)
EXTENDS PromptEngine

\* A query with post-processing, an INSERT, and an INSERT before a query that is printed.
SmallBatches == {<<"Q", "P">>, <<"I">>, <<"I", "Q", "O">>}

\* Two queries with post-processing in one exec, and one INSERT alone.
PairBatches == {<<"Q", "P", "Q", "P">>, <<"I">>}

\* What an exec that holds a CACHE may hold besides: nothing or an INSERT, or any of these.
BesideInsert == {<<>>, <<"I">>}
BesideAny == PairBatches \cup {<<>>}

\* A stored procedure as record and stop leave it: the library mark, then the exec.
Procedure == <<"N", "Q", "P">>
=============================================================================
