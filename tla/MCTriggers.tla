----------------------------- MODULE MCTriggers -----------------------------
(* Instances of Triggers for TLC. *)
EXTENDS Triggers, TLC

\* One period shorter than a round of the host, one longer, close to the modulus.
TwoPeriods == [slow |-> 13, fast |-> 3]
Payees == [slow |-> "chain", fast |-> "post"]

\* A condition and an action, a procedure that fires the callback trigger itself, and one
\* that only post-processes.
Bodies == [condition |-> <<"Q">>, action |-> <<"Q">>, chain |-> <<"T", "O">>, post |-> <<"P">>]
Alike == Permutations(Workers)
=============================================================================
