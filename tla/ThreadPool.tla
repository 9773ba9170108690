----------------------------- MODULE ThreadPool -----------------------------
(***************************************************************************)
(* server/threading.cpp, class ThreadPool.  Worker threads poll a flag byte *)
(* each; enqueue_task puts a payload straight into a free worker's slot     *)
(* when the tick thread is not draining, and into a locked queue otherwise; *)
(* the tick thread moves queued payloads into slots.                        *)
(*                                                                         *)
(* Every access to memory that two threads share is a step of its own,     *)
(* except that what happens under payload_queue_lock and is visible only to *)
(* its holders is merged with the neighbouring visible access.  The two     *)
(* words of a payload_t are stored and loaded one at a time.                *)
(***************************************************************************)
EXTENDS Integers, Sequences

CONSTANTS
  Producers,   \* threads outside the pool that call enqueue_task and busy
  NThreads,    \* n_threads: workers of the pool
  Modulus,     \* tick() copies n_threads into a uint8_t: 2^8 in the code
  Burst,       \* queue length per worker that makes tick() hold the lock, 1 << 10
  Payloads,    \* the payloads ever submitted, each a separate allocation
  Spawns,      \* Spawns[p]: payloads that running p hands to enqueue_task
  NoPayload    \* payload_t{nullptr, nullptr}

Workers == 0 .. NThreads - 1
Callers == Producers \cup Workers
Spawned == UNION {Spawns[p] : p \in Payloads}

ASSUME PoolAssumption ==
  /\ NThreads \in Nat \ {0}
  /\ Modulus \in Nat \ {0}
  /\ Burst \in Nat \ {0}
  /\ Producers \cap Workers = {}
  /\ Spawns \in [Payloads -> SUBSET Payloads]
  /\ NoPayload \notin Payloads

TickThreads == NThreads % Modulus
HighWater == TickThreads * Burst

VARIABLES
  tfPayload,        \* bit 0 of thread_flags[w]: slot w holds a payload
  tfRunning,        \* bit 1 of thread_flags[w]: worker w should keep polling
  current_payload,  \* the slots, [f, args]
  pq,               \* payload_queue
  pq_lock,          \* payload_queue_lock is held
  ticking,
  terminate,
  pc,               \* where each caller is
  held,             \* the payload a caller is enqueueing
  idx,              \* loop index of a caller in enqueue_task or busy
  fn, arg,          \* the two words worker w loaded for its call
  tpc, ti, sz,      \* tick(): position, index i and local sz
  submitted, runs, returned, torn   \* history: what happened to each payload

flagVars == <<tfPayload, tfRunning>>
poolVars == <<current_payload, pq, pq_lock, ticking>>
callVars == <<pc, held, idx>>
workVars == <<fn, arg>>
tickVars == <<tpc, ti, sz>>
histVars == <<submitted, runs, returned, torn>>
vars == <<flagVars, poolVars, terminate, callVars, workVars, tickVars, histVars>>

MaybePayload == Payloads \cup {NoPayload}

EnqueuePC == {"check", "scan", "putF", "putArgs", "set", "lock", "mark"}
ProducerPC == EnqueuePC \cup {"out", "probe", "probing", "quiet"}
WorkerPC == EnqueuePC \cup {"loop", "loadF", "loadArgs", "call", "exit"}
TickPC == {"loop", "poll", "outer", "fast", "fastScan", "fastLock", "fastArgs",
           "fastSet", "slowLock", "slow", "slowScan", "slowArgs", "slowSet",
           "done", "halt", "join", "gone"}

Init ==
  /\ tfPayload = [w \in Workers |-> FALSE]
  /\ tfRunning = [w \in Workers |-> TRUE]
  /\ current_payload = [w \in Workers |-> [f |-> NoPayload, args |-> NoPayload]]
  /\ pq = <<>>
  /\ pq_lock = FALSE
  /\ ticking = FALSE
  /\ terminate = FALSE
  /\ pc = [c \in Callers |-> IF c \in Producers THEN "out" ELSE "loop"]
  /\ held = [c \in Callers |-> NoPayload]
  /\ idx = [c \in Callers |-> 0]
  /\ fn = [w \in Workers |-> NoPayload]
  /\ arg = [w \in Workers |-> NoPayload]
  /\ tpc = "loop" /\ ti = 0 /\ sz = 0
  /\ submitted = {}
  /\ runs = [p \in Payloads |-> 0]
  /\ returned = {}
  /\ torn = FALSE

Goto(c, from, to) == pc[c] = from /\ pc' = [pc EXCEPT ![c] = to]
-----------------------------------------------------------------------------
(* Faulty variants of actions below, each one plausible slip in the code.    *)
(* Nothing refers to them: they show which slips the properties notice.      *)

CheckTickingIgnored(c) ==      \* the fast path is tried even while tick() drains
  /\ Goto(c, "check", "scan")
  /\ idx' = [idx EXCEPT ![c] = 0]
  /\ UNCHANGED <<flagVars, poolVars, terminate, held, workVars, tickVars, histVars>>

ScanSlotSetEarly(c) ==         \* the flag is set before the slot is written
  /\ pc[c] = "scan"
  /\ IF idx[c] \in Workers
     THEN IF tfPayload[idx[c]]
          THEN idx' = [idx EXCEPT ![c] = @ + 1] /\ UNCHANGED <<pc, tfPayload>>
          ELSE /\ pc' = [pc EXCEPT ![c] = "putF"]
               /\ tfPayload' = [tfPayload EXCEPT ![idx[c]] = TRUE]
               /\ UNCHANGED idx
     ELSE pc' = [pc EXCEPT ![c] = "lock"] /\ UNCHANGED <<idx, tfPayload>>
  /\ UNCHANGED <<tfRunning, poolVars, terminate, held, workVars, tickVars, histVars>>

PushBackEmptied(c) ==          \* the payload is emptied before it is pushed
  /\ Goto(c, "lock", "mark")
  /\ ~pq_lock
  /\ pq_lock' = TRUE
  /\ pq' = Append(pq, NoPayload)
  /\ UNCHANGED <<flagVars, current_payload, ticking, terminate, held, idx, workVars, tickVars, histVars>>

MarkTickingNoUnlock(c) ==      \* enqueue_task forgets to unlock
  /\ Goto(c, "mark", IF c \in Producers THEN "out" ELSE "call")
  /\ ticking' = TRUE
  /\ held' = [held EXCEPT ![c] = NoPayload]
  /\ UNCHANGED <<flagVars, current_payload, pq, pq_lock, terminate, idx, workVars, tickVars, histVars>>

PollQuitsAtOnce(w) ==          \* a worker told to stop ignores its slot
  /\ pc[w] = "loop"
  /\ \/ tfPayload[w] /\ tfRunning[w] /\ pc' = [pc EXCEPT ![w] = "loadF"]
     \/ ~tfRunning[w] /\ pc' = [pc EXCEPT ![w] = "exit"]
  /\ UNCHANGED <<flagVars, poolVars, terminate, held, idx, workVars, tickVars, histVars>>

CallPayloadUnsetsFirst(w) ==   \* the flag is cleared before the call, not after
  /\ Goto(w, "loadArgs", "call")
  /\ LET a == current_payload[w].args IN
       /\ arg' = [arg EXCEPT ![w] = a]
       /\ runs' = [p \in Payloads |-> IF p = a THEN runs[p] + 1 ELSE runs[p]]
       /\ torn' = (torn \/ fn[w] # a)
  /\ tfPayload' = [tfPayload EXCEPT ![w] = FALSE]
  /\ UNCHANGED <<tfRunning, poolVars, terminate, held, idx, fn, tickVars, submitted, returned>>

UnsetPayloadForgotten(w) ==    \* the flag is not cleared after the call
  /\ Goto(w, "call", "loop")
  /\ returned' = returned \cup ({arg[w]} \cap Payloads)
  /\ UNCHANGED <<flagVars, poolVars, terminate, held, idx, workVars, tickVars, submitted, runs, torn>>

FastSetNoUnlock ==             \* the lock is kept when the for loop goes on
  /\ tpc = "fastSet"
  /\ tfPayload' = [tfPayload EXCEPT ![ti] = TRUE]
  /\ pq' = Tail(pq)
  /\ sz' = Len(pq')
  /\ tpc' = IF sz' >= HighWater \/ sz' = 0 THEN "fast" ELSE "fastScan"
  /\ ti' = ti + 1
  /\ UNCHANGED <<tfRunning, current_payload, pq_lock, ticking, terminate, callVars, workVars, histVars>>

TickHaltSkipsOne ==            \* the last worker is never told to stop
  /\ tpc = "halt" /\ tpc' = "join"
  /\ tfRunning' = [w \in Workers |-> tfRunning[w] /\ w >= TickThreads - 1]
  /\ UNCHANGED <<tfPayload, poolVars, terminate, callVars, workVars, ti, sz, histVars>>
-----------------------------------------------------------------------------
(* enqueue_task, run by a producer or by a worker from inside a payload. *)

Enqueue(c, p) ==
  /\ p \notin submitted
  /\ submitted' = submitted \cup {p}
  /\ pc' = [pc EXCEPT ![c] = "check"]
  /\ held' = [held EXCEPT ![c] = p]
  /\ UNCHANGED <<flagVars, poolVars, terminate, idx, workVars, tickVars, runs, returned, torn>>

CheckTicking(c) ==
  /\ Goto(c, "check", IF ticking THEN "lock" ELSE "scan")
  /\ idx' = [idx EXCEPT ![c] = 0]
  /\ UNCHANGED <<flagVars, poolVars, terminate, held, workVars, tickVars, histVars>>

ScanSlot(c) ==
  /\ pc[c] = "scan"
  /\ \/ /\ idx[c] \in Workers
        /\ ~tfPayload[idx[c]]
        /\ pc' = [pc EXCEPT ![c] = "putF"]
        /\ UNCHANGED idx
     \/ /\ idx[c] \in Workers
        /\ tfPayload[idx[c]]
        /\ idx' = [idx EXCEPT ![c] = @ + 1]
        /\ UNCHANGED pc
     \/ /\ idx[c] \notin Workers
        /\ pc' = [pc EXCEPT ![c] = "lock"]
        /\ UNCHANGED idx
  /\ UNCHANGED <<flagVars, poolVars, terminate, held, workVars, tickVars, histVars>>

PutF(c) ==
  /\ Goto(c, "putF", "putArgs")
  /\ current_payload' = [current_payload EXCEPT ![idx[c]].f = held[c]]
  /\ UNCHANGED <<flagVars, pq, pq_lock, ticking, terminate, held, idx, workVars, tickVars, histVars>>

PutArgs(c) ==
  /\ Goto(c, "putArgs", "set")
  /\ current_payload' = [current_payload EXCEPT ![idx[c]].args = held[c]]
  /\ UNCHANGED <<flagVars, pq, pq_lock, ticking, terminate, held, idx, workVars, tickVars, histVars>>

\* Where enqueue_task returns to: the producer's own code, or the payload
\* the worker is running.
Caller(c) == IF c \in Producers THEN "out" ELSE "call"

SetPayload(c) ==
  /\ Goto(c, "set", Caller(c))
  /\ tfPayload' = [tfPayload EXCEPT ![idx[c]] = TRUE]
  /\ held' = [held EXCEPT ![c] = NoPayload]
  /\ UNCHANGED <<tfRunning, poolVars, terminate, idx, workVars, tickVars, histVars>>

PushBack(c) ==
  /\ Goto(c, "lock", "mark")
  /\ ~pq_lock
  /\ pq_lock' = TRUE
  /\ pq' = Append(pq, held[c])
  /\ UNCHANGED <<flagVars, current_payload, ticking, terminate, held, idx, workVars, tickVars, histVars>>

MarkTicking(c) ==
  /\ Goto(c, "mark", Caller(c))
  /\ ticking' = TRUE
  /\ pq_lock' = FALSE
  /\ held' = [held EXCEPT ![c] = NoPayload]
  /\ UNCHANGED <<flagVars, current_payload, pq, terminate, idx, workVars, tickVars, histVars>>

EnqueueStep(c) ==
  \/ CheckTicking(c) \/ ScanSlot(c) \/ PutF(c) \/ PutArgs(c) \/ SetPayload(c)
  \/ PushBack(c) \/ MarkTicking(c)
-----------------------------------------------------------------------------
(* busy(), run by a producer: "quiet" is the point where it returned false. *)

BusyCall(c) ==
  /\ Goto(c, "out", "probe")
  /\ UNCHANGED <<flagVars, poolVars, terminate, held, idx, workVars, tickVars, histVars>>

BusyTicking(c) ==
  /\ Goto(c, "probe", IF ticking THEN "out" ELSE "probing")
  /\ idx' = [idx EXCEPT ![c] = 0]
  /\ UNCHANGED <<flagVars, poolVars, terminate, held, workVars, tickVars, histVars>>

BusyScan(c) ==
  /\ pc[c] = "probing"
  /\ \/ /\ idx[c] \in Workers
        /\ tfPayload[idx[c]]
        /\ pc' = [pc EXCEPT ![c] = "out"]
        /\ UNCHANGED idx
     \/ /\ idx[c] \in Workers
        /\ ~tfPayload[idx[c]]
        /\ idx' = [idx EXCEPT ![c] = @ + 1]
        /\ UNCHANGED pc
     \/ /\ idx[c] \notin Workers
        /\ pc' = [pc EXCEPT ![c] = "quiet"]
        /\ UNCHANGED idx
  /\ UNCHANGED <<flagVars, poolVars, terminate, held, workVars, tickVars, histVars>>

LeaveQuiet(c) ==
  /\ Goto(c, "quiet", "out")
  /\ UNCHANGED <<flagVars, poolVars, terminate, held, idx, workVars, tickVars, histVars>>

BusyStep(c) == BusyTicking(c) \/ BusyScan(c) \/ LeaveQuiet(c)
-----------------------------------------------------------------------------
(* daemon_proc(w) *)

Poll(w) ==
  /\ pc[w] = "loop"
  /\ \/ /\ tfPayload[w]
        /\ pc' = [pc EXCEPT ![w] = "loadF"]
     \/ /\ ~tfPayload[w] /\ ~tfRunning[w]
        /\ pc' = [pc EXCEPT ![w] = "exit"]
  /\ UNCHANGED <<flagVars, poolVars, terminate, held, idx, workVars, tickVars, histVars>>

LoadF(w) ==
  /\ Goto(w, "loadF", "loadArgs")
  /\ fn' = [fn EXCEPT ![w] = current_payload[w].f]
  /\ UNCHANGED <<flagVars, poolVars, terminate, held, idx, arg, tickVars, histVars>>

\* payload_t::operator() loads the argument and calls f.
CallPayload(w) ==
  /\ Goto(w, "loadArgs", "call")
  /\ LET a == current_payload[w].args IN
       /\ arg' = [arg EXCEPT ![w] = a]
       /\ runs' = [p \in Payloads |-> IF p = a THEN runs[p] + 1 ELSE runs[p]]
       /\ torn' = (torn \/ fn[w] # a)
  /\ UNCHANGED <<flagVars, poolVars, terminate, held, idx, fn, tickVars, submitted, returned>>

SpawnsOf(w) == IF arg[w] \in Payloads THEN Spawns[arg[w]] ELSE {}

\* The running payload calls enqueue_task itself (a procedure with a TN query).
SpawnTask(w, p) ==
  /\ pc[w] = "call"
  /\ p \in SpawnsOf(w)
  /\ Enqueue(w, p)

\* The payload returns and the worker clears its bit.
UnsetPayload(w) ==
  /\ Goto(w, "call", "loop")
  /\ SpawnsOf(w) \subseteq submitted
  /\ returned' = returned \cup ({arg[w]} \cap Payloads)
  /\ tfPayload' = [tfPayload EXCEPT ![w] = FALSE]
  /\ UNCHANGED <<tfRunning, poolVars, terminate, held, idx, workVars, tickVars, submitted, runs, torn>>

WorkerStep(w) ==
  \/ Poll(w) \/ LoadF(w) \/ CallPayload(w) \/ UnsetPayload(w)
  \/ \E p \in Payloads : SpawnTask(w, p)
-----------------------------------------------------------------------------
(* tick() *)

TickGoto(from, to) == tpc = from /\ tpc' = to

\* pq->size() without the lock: while a push is under way the deque's
\* pointers may be read half updated.
SizeReads ==
  IF \E c \in Callers : pc[c] = "mark" THEN 0 .. HighWater + Len(pq) ELSE {Len(pq)}

TickLoop ==
  /\ TickGoto("loop", IF terminate THEN "halt" ELSE "poll")
  /\ UNCHANGED <<flagVars, poolVars, terminate, callVars, workVars, ti, sz, histVars>>

TickPoll ==
  /\ tpc = "poll"
  /\ \/ ticking /\ tpc' = "outer" /\ sz' \in SizeReads
     \/ ~ticking /\ tpc' = "loop" /\ UNCHANGED sz
  /\ UNCHANGED <<flagVars, poolVars, terminate, callVars, workVars, ti, histVars>>

TickOuter ==
  /\ TickGoto("outer", IF pq = <<>> THEN "done" ELSE "fast")
  /\ UNCHANGED <<flagVars, poolVars, terminate, callVars, workVars, ti, sz, histVars>>

TickFast ==
  /\ TickGoto("fast", IF pq # <<>> /\ sz < HighWater THEN "fastScan" ELSE "slowLock")
  /\ ti' = 0
  /\ UNCHANGED <<flagVars, poolVars, terminate, callVars, workVars, sz, histVars>>

\* for(i...) if(!HAVE_PAYLOAD(tf[i])) lock
FastScan ==
  /\ tpc = "fastScan"
  /\ \/ ti < TickThreads /\ ~tfPayload[ti] /\ tpc' = "fastLock" /\ UNCHANGED ti
     \/ ti < TickThreads /\ tfPayload[ti] /\ ti' = ti + 1 /\ UNCHANGED tpc
     \/ ti >= TickThreads /\ tpc' = "fast" /\ UNCHANGED ti
  /\ UNCHANGED <<flagVars, poolVars, terminate, callVars, workVars, sz, histVars>>

\* lock, then the first word of current_payload[i] = pq->front()
FastLock ==
  /\ TickGoto("fastLock", "fastArgs")
  /\ ~pq_lock
  /\ pq_lock' = TRUE
  /\ current_payload' = [current_payload EXCEPT ![ti].f = Head(pq)]
  /\ UNCHANGED <<flagVars, pq, ticking, terminate, callVars, workVars, ti, sz, histVars>>

FastArgs ==
  /\ TickGoto("fastArgs", "fastSet")
  /\ current_payload' = [current_payload EXCEPT ![ti].args = Head(pq)]
  /\ UNCHANGED <<flagVars, pq, pq_lock, ticking, terminate, callVars, workVars, ti, sz, histVars>>

\* SET, pop_front, sz = size, unlock and the test that leaves the for loop
FastSet ==
  /\ tpc = "fastSet"
  /\ tfPayload' = [tfPayload EXCEPT ![ti] = TRUE]
  /\ pq' = Tail(pq)
  /\ sz' = Len(pq')
  /\ pq_lock' = FALSE
  /\ tpc' = IF sz' >= HighWater \/ sz' = 0 THEN "fast" ELSE "fastScan"
  /\ ti' = ti + 1
  /\ UNCHANGED <<tfRunning, current_payload, ticking, terminate, callVars, workVars, histVars>>

SlowLock ==
  /\ TickGoto("slowLock", "slow")
  /\ ~pq_lock
  /\ pq_lock' = TRUE
  /\ UNCHANGED <<flagVars, current_payload, pq, ticking, terminate, callVars, workVars, ti, sz, histVars>>

\* while(!pq->empty()) with the lock held all the way
TickSlow ==
  /\ TickGoto("slow", IF pq = <<>> THEN "outer" ELSE "slowScan")
  /\ ti' = 0
  /\ pq_lock' = (pq # <<>>)
  /\ UNCHANGED <<flagVars, current_payload, pq, ticking, terminate, callVars, workVars, sz, histVars>>

SlowScan ==
  /\ tpc = "slowScan"
  /\ \/ /\ ti < TickThreads /\ ~tfPayload[ti] /\ tpc' = "slowArgs" /\ UNCHANGED ti
        /\ current_payload' = [current_payload EXCEPT ![ti].f = Head(pq)]
     \/ /\ ti < TickThreads /\ tfPayload[ti] /\ ti' = ti + 1
        /\ UNCHANGED <<tpc, current_payload>>
     \/ /\ ti >= TickThreads /\ tpc' = "slow"
        /\ UNCHANGED <<ti, current_payload>>
  /\ UNCHANGED <<flagVars, pq, pq_lock, ticking, terminate, callVars, workVars, sz, histVars>>

SlowArgs ==
  /\ TickGoto("slowArgs", "slowSet")
  /\ current_payload' = [current_payload EXCEPT ![ti].args = Head(pq)]
  /\ UNCHANGED <<flagVars, pq, pq_lock, ticking, terminate, callVars, workVars, ti, sz, histVars>>

SlowSet ==
  /\ tpc = "slowSet"
  /\ tfPayload' = [tfPayload EXCEPT ![ti] = TRUE]
  /\ pq' = Tail(pq)
  /\ tpc' = IF pq' = <<>> THEN "slow" ELSE "slowScan"
  /\ ti' = ti + 1
  /\ UNCHANGED <<tfRunning, current_payload, pq_lock, ticking, terminate, callVars, workVars, sz, histVars>>

TickDone ==
  /\ TickGoto("done", "loop")
  /\ ticking' = FALSE
  /\ UNCHANGED <<flagVars, current_payload, pq, pq_lock, terminate, callVars, workVars, ti, sz, histVars>>

TickHalt ==
  /\ TickGoto("halt", "join")
  /\ tfRunning' = [w \in Workers |-> tfRunning[w] /\ w >= TickThreads]
  /\ UNCHANGED <<tfPayload, poolVars, terminate, callVars, workVars, ti, sz, histVars>>

TickJoin ==
  /\ TickGoto("join", "gone")
  /\ \A w \in Workers : w < TickThreads => pc[w] = "exit"
  /\ UNCHANGED <<flagVars, poolVars, terminate, callVars, workVars, ti, sz, histVars>>

TickStep ==
  \/ TickLoop \/ TickPoll \/ TickOuter \/ TickFast \/ FastScan \/ FastLock
  \/ FastArgs \/ FastSet \/ SlowLock \/ TickSlow \/ SlowScan \/ SlowArgs
  \/ SlowSet \/ TickDone \/ TickHalt \/ TickJoin
-----------------------------------------------------------------------------
(* The owner submits tasks while the pool lives and destroys it once no     *)
(* producer is inside enqueue_task.                                         *)

ProducerCall(c) ==
  /\ ~terminate /\ pc[c] = "out"
  /\ \/ \E p \in Payloads \ Spawned : Enqueue(c, p)
     \/ BusyCall(c)

\* ~ThreadPool()
Destroy ==
  /\ ~terminate
  /\ \A c \in Producers : pc[c] = "out"
  /\ terminate' = TRUE
  /\ UNCHANGED <<flagVars, poolVars, callVars, workVars, tickVars, histVars>>

Next ==
  \/ \E c \in Producers : ProducerCall(c) \/ BusyStep(c)
  \/ \E c \in Callers : EnqueueStep(c)
  \/ \E w \in Workers : WorkerStep(w)
  \/ TickStep
  \/ Destroy

Spec == Init /\ [][Next]_vars

\* Every thread the process started is scheduled, and a payload's function
\* returns.  Nothing obliges the owner to call enqueue_task, busy or the
\* destructor.
Fairness ==
  /\ \A c \in Producers : WF_vars(BusyStep(c))
  /\ \A c \in Callers : WF_vars(EnqueueStep(c))
  /\ \A w \in Workers : WF_vars(WorkerStep(w))
  /\ WF_vars(TickStep)

FairSpec == Spec /\ Fairness
-----------------------------------------------------------------------------
(* Properties *)

FlagsOK == tfPayload \in [Workers -> BOOLEAN] /\ tfRunning \in [Workers -> BOOLEAN]
SlotsOK == current_payload \in [Workers -> [f : MaybePayload, args : MaybePayload]]
QueueOK == pq \in Seq(Payloads) /\ pq_lock \in BOOLEAN /\ ticking \in BOOLEAN /\ terminate \in BOOLEAN
PlacesOK ==
  /\ pc \in [Callers -> ProducerPC \cup WorkerPC]
  /\ \A c \in Producers : pc[c] \in ProducerPC
  /\ \A w \in Workers : pc[w] \in WorkerPC
  /\ idx \in [Callers -> 0 .. NThreads]
WordsOK ==
  /\ held \in [Callers -> MaybePayload]
  /\ fn \in [Workers -> MaybePayload] /\ arg \in [Workers -> MaybePayload]
TickOK == tpc \in TickPC /\ ti \in Nat /\ sz \in Nat
HistoryOK ==
  /\ submitted \subseteq Payloads /\ returned \subseteq Payloads
  /\ runs \in [Payloads -> Nat] /\ torn \in BOOLEAN

\* Every variable stays within the values the code can store in it.
TypeOK == FlagsOK /\ SlotsOK /\ QueueOK /\ PlacesOK /\ WordsOK /\ TickOK /\ HistoryOK

\* tick() is about to use pq->front() or pop_front().
TakingFront == {"fastScan", "fastLock", "fastArgs", "fastSet", "slowScan", "slowArgs", "slowSet"}

\* The tick thread reads and pops the front of the deque long after the
\* unlocked emptiness tests that guard it (lines 42 to 53, 57 to 63): however
\* many callers push meanwhile, there is a front to take.
FrontDefined == tpc \in TakingFront => pq # <<>>

\* No worker calls a null function or passes a null argument: a slot whose
\* flag a worker sees has had both words of some payload stored in it, even
\* when several callers fill slots at once (lines 22 to 24, 127 to 128).
NoNullCall == \A w \in Workers : pc[w] = "call" => fn[w] # NoPayload /\ arg[w] # NoPayload

\* When ~ThreadPool() returns and the arrays are freed, no worker is left that
\* reads them and, unless payloads submit others, no slot holds one that was not run
\* (lines 74 to 85).
CleanJoin == tpc = "gone" => \A w \in Workers : pc[w] = "exit" /\ ~tfPayload[w]

\* Where an unfinished payload is: with its caller, queued, or in a slot.
InHand(c, p) == held[c] = p /\ pc[c] # "mark"
Queued(p) == \E i \in DOMAIN pq : pq[i] = p
InSlot(w, p) == tfPayload[w] /\ current_payload[w].args = p

\* One caller at a time: no payload is called twice and none runs with the
\* function of another (tests/thread_pool.hpp line 20 frees its argument, the
\* trigger payloads of monetdb_conn.cpp lines 430 and 441 delete theirs).
CalledOnce == ~torn /\ \A p \in Payloads : runs[p] <= 1

\* One caller at a time: a payload given to enqueue_task is never dropped
\* between the caller, the queue and the slots.
NeverDropped ==
  \A p \in submitted \ returned :
    \/ \E c \in Callers : InHand(c, p)
    \/ Queued(p)
    \/ \E w \in Workers : InSlot(w, p)

\* One caller at a time: after busy() returned false to it no payload of its
\* is running or waits in a slot; only a queued one can be outstanding.
QuietMeansNotRunning ==
  \A c \in Producers : pc[c] = "quiet" => \A p \in submitted \ returned : Queued(p)

\* A payload in a slot is called and returns, whatever the callers and tick() do.
SlotServed == \A w \in Workers : tfPayload[w] ~> ~tfPayload[w]

\* Once tick() has seen a nonempty queue it empties it.
DrainEmpties == tpc = "fast" /\ pq # <<>> ~> pq = <<>>

\* The destructor returns.
ShutdownCompletes == terminate ~> tpc = "gone"

\* tick() drains with the lock held while every worker sits in a payload that
\* waits for that lock (lines 56 to 67 and 134): nobody can move again.
SlowStuck ==
  /\ tpc \in {"slow", "slowScan"}
  /\ \A w \in Workers : w < TickThreads => tfPayload[w] /\ pc[w] = "lock"

\* A running payload returns, unless tick() and the payloads block each other
\* in that one way.
PayloadReturns == \A w \in Workers : pc[w] = "call" ~> pc[w] = "loop" \/ SlowStuck

\* The pool implements the contract of TaskPool.
Contract == INSTANCE TaskPool
RefinesTaskPool == Contract!TaskSpec

\* One caller at a time: every payload is accounted for from enqueue_task to its return,
\* is called once with its own function and argument, and busy() tells when none is left
\* (lines 24 to 27, 41 to 72, 126 to 146).
CallsExact == CalledOnce /\ NeverDropped /\ QuietMeansNotRunning

\* However many threads call enqueue_task, tick() takes only what is in the deque and a
\* worker calls only what was written to its slot (lines 24 and 41 to 67).
TakesDefined == FrontDefined /\ NoNullCall

\* tick() and the workers keep up: a full slot is served and a drain ends with the queue
\* empty, though size() and empty() are read without the lock.
Served == SlotServed /\ DrainEmpties
=============================================================================
