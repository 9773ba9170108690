------------------------------- MODULE MCWindows -------------------------------
(* Instances of Windows for TLC. *)
EXTENDS Windows

SomeData == {-2, 0, 3}
=============================================================================
