------------------------------ MODULE TaskPool ------------------------------
(***************************************************************************)
(* What a caller of ThreadPool::enqueue_task relies on: a payload it hands  *)
(* over is called at most once, with its own function and argument, and     *)
(* only after it was handed over.  Whether and when a payload is called is  *)
(* left open: this is the safety contract of the pool.                      *)
(***************************************************************************)
EXTENDS Naturals

CONSTANT Payloads   \* the payload_t values given to the pool, one per task

VARIABLES
  submitted,        \* payloads passed to enqueue_task so far
  runs,             \* how often each payload has been called
  returned          \* payloads whose call has returned

taskVars == <<submitted, runs, returned>>

TaskInit ==
  /\ submitted = {}
  /\ runs = [p \in Payloads |-> 0]
  /\ returned = {}

\* The caller hands p over.
Submit(p) ==
  /\ p \notin submitted
  /\ submitted' = submitted \cup {p}
  /\ UNCHANGED <<runs, returned>>

\* Some worker calls p: allowed once per submitted payload.
Run(p) ==
  /\ p \in submitted
  /\ runs[p] = 0
  /\ runs' = [runs EXCEPT ![p] = 1]
  /\ UNCHANGED <<submitted, returned>>

\* The call of p returns.
Return(p) ==
  /\ runs[p] = 1
  /\ p \notin returned
  /\ returned' = returned \cup {p}
  /\ UNCHANGED <<submitted, runs>>

TaskNext == \E p \in Payloads : Submit(p) \/ Run(p) \/ Return(p)

TaskSpec == TaskInit /\ [][TaskNext]_taskVars
=============================================================================
