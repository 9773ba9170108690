---------------------------- MODULE MCThreadPool ----------------------------
(* Instances of ThreadPool for TLC. *)
EXTENDS ThreadPool, TLC

CONSTANTS p1, p2, p3, p4

\* No payload submits another.
Flat == [p \in Payloads |-> {}]

\* p1 and p2 each fire a nested trigger.
Nested == [p \in Payloads |-> CASE p = p1 -> {p3} [] p = p2 -> {p4} [] OTHER -> {}]
=============================================================================
