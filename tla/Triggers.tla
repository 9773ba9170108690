------------------------------ MODULE Triggers ------------------------------
(***************************************************************************)
(* The trigger hosts (server/threading.cpp), the T messages of the engine  *)
(* (server/server.cpp) and the procedures that pool workers run for them   *)
(* over the one MonetDB session (server/monetdb_conn.cpp).                 *)
(*                                                                         *)
(* Three kinds of threads: the host thread of the interval triggers, the   *)
(* engine, and the workers of the pool.  The pool itself is ThreadPool;    *)
(* here it is the queue of the payloads it was given.  A step is one       *)
(* access to state that threads share.                                     *)
(***************************************************************************)
EXTENDS Integers, Sequences, FiniteSets

CONSTANTS
  Workers, Engine,   \* the threads that run statements
  Interval,          \* interval triggers: name -> its period in ms
  Payee,             \* interval triggers: name -> the procedure it runs
  Body,              \* procedures: name -> sequence of statement kinds
  Condition, Action, \* the two procedures of the callback trigger
  Values,            \* first elements a query can return
  IntRange,          \* int(x) keeps x modulo this
  Modulus,           \* 2^32 in the code: the width of uint32_t
  PerMs,             \* 10^6 in the code: nanoseconds of the clock in a millisecond
  Deltas,            \* times between two rounds of the host, in nanoseconds
  MaxMessages, MaxRounds, MaxPending,
  None, Wild         \* no procedure; the result of reading a name that is gone

Names == DOMAIN Interval
Threads == Workers \cup {Engine}
\* The host sleeps 50 ms between two measurements, so that no time it measures is 0.
ASSUME TriggerAssumption ==
  /\ Engine \notin Workers
  /\ IsFiniteSet(Names) /\ Modulus \in Nat /\ PerMs \in Nat \ {0}
  /\ \A ns \in Deltas : ns \in Nat /\ ns \div PerMs \in 1 .. Modulus - 1
  /\ \A n \in Names : Interval[n] \in 1 .. Modulus - 1 /\ Payee[n] \in DOMAIN Body
  /\ {Condition, Action} \subseteq DOMAIN Body
  /\ \A p \in DOMAIN Body : Body[p] \in Seq({"Q", "P", "O", "T"})
  /\ Values \subseteq Int /\ IntRange \in Nat \ {0}
  /\ None \notin [rows : BOOLEAN, is : Values \cup {0}]

VARIABLES
  memory,    \* the storage of the map's vector of values
  size,      \* how many of them are in the map
  scan,      \* the host's iteration: next element, end as captured, delta_t
  registry,  \* the callback trigger: its union fields and `materialized`
  pending,   \* payloads given to the pool and not yet taken
  session,   \* MonetdbServer: res and last_error
  frame,     \* what each thread is executing
  messages, rounds,
  elapsed, due, fired, moved, \* history of the interval triggers, by the measured time
  age, seen,                  \* and by the clock: time, and rounds, since the measurement
                              \* before each registration
  own, crossed                \* history of each thread's last query

hostVars == <<memory, size, scan, rounds, elapsed, due, fired, moved, age, seen>>
sessionVars == <<session, own, crossed>>
vars == <<hostVars, sessionVars, registry, pending, frame, messages>>

-----------------------------------------------------------------------------
(* Interval triggers. *)

NoScan == [at |-> 0, end |-> 0, dt |-> 0]

\* IntervalBasedTrigger::tick: does it fire, and what is left after it.
FiresAfterModulo(t, dt) == t.left <= dt % t.interval
Fires(t, dt) == t.left <= dt
Left(t, dt) ==
  LET current == dt % t.interval
  IN  IF t.left <= current THEN (((t.interval + t.left) % Modulus) - current) % Modulus
      ELSE t.left - current

Position(n) == {k \in 1 .. size : memory[k].name = n}

\* emplace() does nothing when the name is taken; waits for the host's lock.
AddInterval(n) ==
  /\ scan.at = 0
  /\ IF Position(n) # {} THEN UNCHANGED <<memory, size, elapsed, due, fired, moved, age, seen>>
     ELSE /\ memory' = [memory EXCEPT ![size + 1] =
                          [name |-> n, interval |-> Interval[n], left |-> 0, action |-> Payee[n]]]
          /\ size' = size + 1
          /\ elapsed' = [elapsed EXCEPT ![n] = 0]
          /\ age' = [age EXCEPT ![n] = 0]
          /\ seen' = [seen EXCEPT ![n] = 0]
          /\ due' = [due EXCEPT ![n] = 0]
          /\ fired' = [fired EXCEPT ![n] = 0]
          /\ moved' = moved \ {n}
  /\ UNCHANGED <<scan, rounds>>

\* erase(): the last value takes the place of the erased one.  No lock is taken.
RemoveInterval(n) ==
  /\ \A k \in Position(n) : /\ memory' = [memory EXCEPT ![k] = memory[size]]
                            /\ size' = size - 1
                            /\ moved' = IF scan.at > 0 /\ k # size
                                        THEN moved \cup {memory[size].name} ELSE moved
  /\ Position(n) = {} => UNCHANGED <<memory, size, moved>>
  /\ UNCHANGED <<scan, rounds, elapsed, due, fired, age, seen>>

Live == {memory[k].name : k \in 1 .. size}

\* By the measured time alone: is there a multiple of the period in this round?
Due(n, dt) == elapsed[n] = 0 \/ (elapsed[n] + dt) \div Interval[n] > elapsed[n] \div Interval[n]

\* The host wakes up ns after its last round, measures that in whole milliseconds and forgets
\* the rest, takes the lock and the iterators of the map.
StartRound(ns) ==
  LET dt == ns \div PerMs IN
  /\ scan.at = 0
  /\ rounds < MaxRounds
  /\ rounds' = rounds + 1
  /\ scan' = [at |-> 1, end |-> size, dt |-> dt]
  /\ due' = [n \in Names |-> IF n \in Live /\ Due(n, dt) THEN due[n] + 1 ELSE due[n]]
  /\ elapsed' = [n \in Names |-> IF n \in Live THEN elapsed[n] + dt ELSE elapsed[n]]
  /\ age' = [n \in Names |-> IF n \in Live THEN age[n] + ns ELSE age[n]]
  /\ seen' = [n \in Names |-> IF n \in Live THEN seen[n] + 1 ELSE seen[n]]
  /\ UNCHANGED <<memory, size, fired, moved, pending, sessionVars, registry, frame, messages>>

Visit ==
  LET t == memory[scan.at] IN
  /\ scan.at \in 1 .. scan.end
  /\ memory' = [memory EXCEPT ![scan.at].left = Left(t, scan.dt)]
  /\ scan' = [scan EXCEPT !.at = @ + 1]
  /\ IF Fires(t, scan.dt)
     THEN /\ Len(pending) < MaxPending
          /\ pending' = Append(pending, [cond |-> None, act |-> t.action])
          /\ fired' = [fired EXCEPT ![t.name] = @ + 1]
     ELSE UNCHANGED <<pending, fired>>
  /\ UNCHANGED <<size, rounds, elapsed, due, moved, age, seen, sessionVars, registry, frame,
                 messages>>

EndRound ==
  /\ scan.at > scan.end
  /\ scan' = NoScan
  /\ UNCHANGED <<memory, size, rounds, elapsed, due, fired, moved, age, seen,
                 pending, sessionVars, registry, frame, messages>>

-----------------------------------------------------------------------------
(* Threads that run statements. *)

Idle == [pc |-> "idle", cond |-> None, act |-> None, part |-> "act", i |-> 0, ret |-> 0, local |-> None]
Running(t) == frame[t].pc # "idle"
Procedure(f) == IF f.part = "cond" THEN f.cond ELSE f.act
Statements(f) == IF Procedure(f) = Wild THEN <<>> ELSE Body[Procedure(f)]
Advance(f) == [f EXCEPT !.pc = "next", !.i = @ + 1]
AtStatement(t, kind) ==
  /\ frame[t].pc = "next"
  /\ frame[t].i <= Len(Statements(frame[t]))
  /\ Statements(frame[t])[frame[t].i] = kind

\* The pool calls execTriggerPayload or execTriggerPayloadCond.
Take(w) ==
  /\ ~Running(w)
  /\ pending # <<>>
  /\ LET p == Head(pending) IN
     frame' = [frame EXCEPT ![w] =
       [Idle EXCEPT !.pc = "next", !.i = 1, !.cond = p.cond, !.act = p.act,
                    !.part = IF p.cond = None THEN "act" ELSE "cond"]]
  /\ pending' = Tail(pending)
  /\ UNCHANGED <<hostVars, sessionVars, registry, messages>>

\* What a query came to; "read" when its thread has dealt with it.
Outcomes == [what : {"value"}, is : Values] \cup [what : {"empty", "none", "error"}, is : {0}]
Nothing == [what |-> "none", is |-> 0]
Read == [what |-> "read", is |-> 0]

\* exec() starts with a copy of res.  An error that nobody has tested yet taints the query.
BeginQuery(t) ==
  /\ frame' = [frame EXCEPT ![t].pc = "query", ![t].local = session.res]
  /\ own' = [own EXCEPT ![t] = Nothing]
  /\ crossed' = [crossed EXCEPT ![t] = session.error]
  /\ UNCHANGED session

WorkerQuery(w) ==
  /\ AtStatement(w, "Q")
  /\ BeginQuery(w)
  /\ UNCHANGED <<hostVars, registry, pending, messages>>

\* Whoever is between its query and its read has been interfered with.
Cross(t) == [u \in Threads |-> IF u # t /\ own[u] # Read THEN TRUE ELSE crossed[u]]

\* monetdbe_query returns: rows, a result without rows, no result, or an error.
\* Only a result replaces res; without one the local copy, if any, is stored again.
EndQuery(t) ==
  /\ frame[t].pc = "query"
  /\ \E r \in Outcomes :
       LET res == IF r.what \in {"value", "empty"} THEN [rows |-> r.what = "value", is |-> r.is]
                  ELSE frame[t].local
       IN /\ session' = [res |-> IF res = None THEN session.res ELSE res,
                         error |-> session.error \/ r.what = "error"]
          /\ own' = [own EXCEPT ![t] = r]
  /\ crossed' = Cross(t)
  /\ frame' = [frame EXCEPT ![t].pc = IF t = Engine THEN "idle" ELSE "read", ![t].local = None]
  /\ UNCHANGED <<hostVars, registry, pending, messages>>

\* haserror() reports an error once: it clears it.
ClearError == session' = [session EXCEPT !.error = FALSE]

FirstElementUnchecked == IF session.res # None /\ session.res.rows THEN session.res.is ELSE 0
FirstElement ==
  IF ~session.error /\ session.res # None /\ session.res.rows THEN session.res.is ELSE 0

\* ret = int(server->getFirstElement())
ReadFirst(w) ==
  /\ frame[w].pc = "read"
  /\ ClearError
  /\ crossed' = IF session.error THEN Cross(w) ELSE crossed
  /\ frame' = [frame EXCEPT ![w] = [Advance(@) EXCEPT !.ret = FirstElement % IntRange]]
  /\ UNCHANGED <<hostVars, own, registry, pending, messages>>

\* Post-processing in a library of the procedure; its result is the code's own.
\* The functions that the compiler emits end with `return 0`.
Postprocess(w) ==
  /\ AtStatement(w, "P")
  /\ \E r \in {0, 1} : frame' = [frame EXCEPT ![w] = [Advance(@) EXCEPT !.ret = r]]
  /\ UNCHANGED <<hostVars, sessionVars, registry, pending, messages>>

\* print_monetdb_results tests the error first.
Output(w) ==
  /\ AtStatement(w, "O")
  /\ ClearError
  /\ crossed' = IF session.error THEN Cross(w) ELSE crossed
  /\ frame' = [frame EXCEPT ![w] = Advance(@)]
  /\ UNCHANGED <<hostVars, own, registry, pending, messages>>

\* The end of a procedure: a condition that gave a non-zero value is followed by the action.
Finish(w) ==
  LET f == frame[w] IN
  /\ f.pc = "next"
  /\ f.i > Len(Statements(f))
  /\ frame' = [frame EXCEPT ![w] =
       IF f.part = "cond" /\ f.ret # 0
       THEN [f EXCEPT !.part = "act", !.i = 1, !.ret = 0] ELSE Idle]
  /\ own' = [own EXCEPT ![w] = Read]
  /\ crossed' = [crossed EXCEPT ![w] = FALSE]
  /\ UNCHANGED <<hostVars, session, registry, pending, messages>>

-----------------------------------------------------------------------------
(* Callback triggers. *)

Unregistered == [known |-> FALSE, query |-> None, action |-> None, materialized |-> FALSE,
                 named |-> TRUE, twice |-> FALSE]

\* execute_trigger(name): nothing for an unknown trigger; looks at `materialized`.
LookUp(t) ==
  frame' = [frame EXCEPT ![t] =
    IF ~registry.known THEN IF t = Engine THEN Idle ELSE Advance(@)
    ELSE [@ EXCEPT !.pc = IF registry.materialized THEN "enqueue" ELSE "bindQuery"]]

WorkerExecute(w) ==
  /\ AtStatement(w, "T")
  /\ LookUp(w)
  /\ registry' = [registry EXCEPT !.twice =
       @ \/ \E u \in Threads \ {w} : frame[u].pc \in {"bindQuery", "bindAction", "bound"}]
  /\ UNCHANGED <<hostVars, sessionVars, pending, messages>>

\* The fields are unions: a second thread reads the pointer that the first stored as a name.
BindQuery(t) ==
  /\ frame[t].pc = "bindQuery"
  /\ registry' = [registry EXCEPT !.query = IF @ = None /\ registry.named THEN Condition ELSE Wild]
  /\ frame' = [frame EXCEPT ![t].pc = "bindAction"]
  /\ UNCHANGED <<hostVars, sessionVars, pending, messages>>

BindAction(t) ==
  /\ frame[t].pc = "bindAction"
  /\ registry' = [registry EXCEPT !.action = IF @ = None /\ registry.named THEN Action ELSE Wild]
  /\ frame' = [frame EXCEPT ![t].pc = "bound"]
  /\ UNCHANGED <<hostVars, sessionVars, pending, messages>>

BoundForgotten(t) ==
  /\ frame[t].pc = "bound"
  /\ frame' = [frame EXCEPT ![t].pc = "enqueue"]
  /\ UNCHANGED <<hostVars, sessionVars, registry, pending, messages>>

Bound(t) ==
  /\ frame[t].pc = "bound"
  /\ registry' = [registry EXCEPT !.materialized = TRUE]
  /\ frame' = [frame EXCEPT ![t].pc = "enqueue"]
  /\ UNCHANGED <<hostVars, sessionVars, pending, messages>>

Enqueue(t) ==
  /\ frame[t].pc = "enqueue"
  /\ Len(pending) < MaxPending
  /\ pending' = Append(pending, [cond |-> registry.query, act |-> registry.action])
  /\ frame' = [frame EXCEPT ![t] = IF t = Engine THEN Idle ELSE Advance(@)]
  /\ UNCHANGED <<hostVars, sessionVars, registry, messages>>

-----------------------------------------------------------------------------
(* The engine's messages.  The names that a TC message registers point into the   *)
(* message, which the prompt replaces with its next request.                      *)

Handle == /\ ~Running(Engine)
          /\ messages < MaxMessages
          /\ messages' = messages + 1

\* The action must be a stored procedure in memory; any other name is only reported.
HandleTI(n) ==
  /\ Handle
  /\ AddInterval(n) \/ UNCHANGED hostVars
  /\ UNCHANGED <<sessionVars, registry, pending, frame>>

HandleTR(n) == Handle /\ RemoveInterval(n) /\ UNCHANGED <<sessionVars, registry, pending, frame>>

HandleTC ==
  /\ Handle
  /\ registry' = IF registry.known THEN registry ELSE [Unregistered EXCEPT !.known = TRUE]
  /\ UNCHANGED <<hostVars, sessionVars, pending, frame>>

\* Both names must be those of stored procedures in memory, too.
HandleTA ==
  /\ Handle
  /\ \/ /\ Len(pending) < MaxPending
        /\ pending' = Append(pending, [cond |-> Condition, act |-> Action])
     \/ UNCHANGED pending
  /\ UNCHANGED <<hostVars, sessionVars, registry, frame>>

HandleTN ==
  /\ Handle
  /\ LookUp(Engine)
  /\ registry' = [registry EXCEPT !.twice =
       @ \/ \E w \in Workers : frame[w].pc \in {"bindQuery", "bindAction", "bound"}]
  /\ UNCHANGED <<hostVars, sessionVars, pending>>

HandleQ == Handle /\ BeginQuery(Engine) /\ UNCHANGED <<hostVars, registry, pending>>

\* `handle && !server->haserror()`: the post-processing of the engine's last query.
HandleP ==
  /\ Handle
  /\ own[Engine] # Read
  /\ ClearError
  /\ crossed' = IF session.error THEN Cross(Engine) ELSE crossed
  /\ frame' = [frame EXCEPT ![Engine].pc = IF session.error THEN "idle" ELSE "postproc"]
  /\ own' = IF session.error THEN [own EXCEPT ![Engine] = Read] ELSE own
  /\ UNCHANGED <<hostVars, registry, pending>>

EndP ==
  /\ frame[Engine].pc = "postproc"
  /\ frame' = [frame EXCEPT ![Engine].pc = "idle"]
  /\ own' = [own EXCEPT ![Engine] = Read]
  /\ UNCHANGED <<hostVars, session, crossed, registry, pending, messages>>

\* The end of the request: an error that nobody has tested is printed and forgotten.
EndRequest ==
  /\ Handle
  /\ ClearError
  /\ crossed' = IF session.error THEN Cross(Engine) ELSE crossed
  /\ own' = [own EXCEPT ![Engine] = Read]
  /\ frame' = [frame EXCEPT ![Engine].pc = "ended"]
  /\ UNCHANGED <<hostVars, registry, pending>>

\* The next request of the prompt: the text of the messages before it is freed.
NextRequest ==
  /\ frame[Engine].pc = "ended"
  /\ frame' = [frame EXCEPT ![Engine].pc = "idle"]
  /\ registry' = IF registry.known THEN [registry EXCEPT !.named = FALSE] ELSE registry
  /\ UNCHANGED <<hostVars, sessionVars, pending, messages>>

-----------------------------------------------------------------------------
NoTrigger == [name |-> None, interval |-> 1, left |-> 0, action |-> None]

Init ==
  /\ memory = [k \in 1 .. Cardinality(Names) |-> NoTrigger]
  /\ size = 0 /\ scan = NoScan /\ rounds = 0 /\ messages = 0
  /\ elapsed = [n \in Names |-> 0] /\ due = elapsed /\ fired = elapsed
  /\ age = elapsed /\ seen = elapsed
  /\ moved = {}
  /\ registry = Unregistered
  /\ pending = <<>>
  /\ session = [res |-> None, error |-> FALSE]
  /\ frame = [t \in Threads |-> Idle]
  /\ own = [t \in Threads |-> Read]
  /\ crossed = [t \in Threads |-> FALSE]

Host == (\E ns \in Deltas : StartRound(ns)) \/ Visit \/ EndRound
Serve(w) == \/ Take(w) \/ WorkerQuery(w) \/ ReadFirst(w) \/ Postprocess(w)
            \/ Output(w) \/ Finish(w) \/ WorkerExecute(w)
Step(t) == EndQuery(t) \/ BindQuery(t) \/ BindAction(t) \/ Bound(t) \/ Enqueue(t)
EngineStep ==
  \/ \E n \in Names : HandleTI(n)
  \/ \E n \in Names : HandleTR(n)
  \/ HandleTC \/ HandleTA \/ HandleTN \/ HandleQ \/ HandleP \/ EndP
  \/ EndRequest \/ NextRequest
Next == Host \/ (\E w \in Workers : Serve(w)) \/ (\E t \in Threads : Step(t)) \/ EngineStep
Spec == Init /\ [][Next]_vars

-----------------------------------------------------------------------------
(* Properties. *)

\* The types of the variables.
Procedures == DOMAIN Body \cup {None, Wild}
Payload == [cond : Procedures, act : Procedures]
TypeOK ==
  /\ \A k \in DOMAIN memory : /\ memory[k].name \in Names \cup {None}
                              /\ memory[k].left \in 0 .. Modulus - 1
  /\ size \in 0 .. Cardinality(Names)
  /\ pending \in Seq(Payload)
  /\ \A t \in Threads : /\ frame[t].part \in {"cond", "act"}
                        /\ frame[t].ret \in 0 .. IntRange - 1 \cup {1}
  /\ moved \subseteq Names
  /\ crossed \in [Threads -> BOOLEAN]

\* Between two rounds of the host a registered trigger has fired in just those rounds in
\* which a multiple of its period went by in the measured time, several of them in one round
\* counting once: remove_trigger, which takes no lock, can only disturb the trigger that
\* erase() moves.
FiresWhenDue == scan.at = 0 => \A n \in Live \ moved : fired[n] = due[n]

\* What tick() leaves is, by the clock, the time to a multiple of the period since the
\* measurement before the registration, late by less than 1 ms for each round since, which
\* is what measuring in whole milliseconds loses; the unsigned arithmetic stays in 1 .. interval.
OnPhase ==
  scan.at = 0 => \A k \in 1 .. size :
    LET t == memory[k] IN
    t.name \notin moved /\ seen[t.name] > 0 =>
      /\ t.left \in 1 .. t.interval
      /\ \E late \in 0 .. (PerMs - 1) * seen[t.name] :
           (PerMs * t.left + age[t.name] - late) % (PerMs * t.interval) = 0

\* A condition that ends with a query is decided on that query's own first element, and a
\* failed or empty query is false: only a thread that used the session in between, an error
\* nobody had tested, or a statement without a result can make it otherwise.
DecidesOnOwn ==
  \A w \in Workers :
    LET f == frame[w] IN
    (/\ f.pc = "next" /\ f.part = "cond" /\ Statements(f) # <<>>
     /\ f.i > Len(Statements(f)) /\ Statements(f)[Len(Statements(f))] = "Q"
     /\ ~crossed[w] /\ own[w].what # "none")
    => f.ret = own[w].is % IntRange

\* The engine post-processes only a query that did not fail, unless a worker reported, and so
\* cleared, the engine's error.
EngineSeesError ==
  frame[Engine].pc = "postproc" => own[Engine].what # "error" \/ crossed[Engine]

\* A callback trigger submits its own two procedures, unless two threads filled its unions at
\* once or its names were freed with the request that registered it.
SubmitsOwn ==
  \A k \in 1 .. Len(pending) :
    LET p == pending[k] IN
    p.cond # None => \/ p = [cond |-> Condition, act |-> Action]
                     \/ registry.twice \/ ~registry.named

\* After every round each interval trigger that removals left in its place has fired as
\* often as its interval passed in the measured time, and what it waits for is late by the
\* clock by at most what the measurements lost.
Scheduled == TypeOK /\ FiresWhenDue /\ OnPhase

\* On the one database session of the process, a worker that no other thread crossed decides
\* on the result of its own condition, and the engine handles its own error.
OnOwnResult == DecidesOnOwn /\ EngineSeesError
=============================================================================
