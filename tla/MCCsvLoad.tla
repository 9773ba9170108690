------------------------------- MODULE MCCsvLoad -------------------------------
(* Instances of CsvLoad for TLC. *)
EXTENDS CsvLoad

Least == -12
IntAndVector == <<"int", "ints">>

\* Files of up to four pieces: blank, whole, ragged and overlong lines, with either line end, and
\* numbers at, below and beyond the ends of the type.
PieceSet == {<<"n">>, <<"1", "1", ",", "-", "1", ";", "n">>, <<"-", "1", "2", ",", " ", "r", "n">>,
             <<"t", "3", ",", "1", ";", "2", "n">>, <<"1", "2", ",", ";", "4", "n">>,
             <<"1", "-", "1", ",", "+", "3", "n">>}
LastSet == {<<>>, <<",", "-", "1", "3", ";", "2">>, <<"r">>, <<"4", "n">>,
            <<"1", ",", "2", ";", "1", "1", ";", "n">>}
SomeFiles == {FlattenSeq(Append(p, l)) : p \in UNION {[1..n -> PieceSet] : n \in 0..3}, l \in LastSet}
             \cup {BOM \o <<"1", ",", "n", ",", "2">>, BOM}
=============================================================================
