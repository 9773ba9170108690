-------------------------- MODULE ThreadPoolProofs --------------------------
(* Proofs about ThreadPool, for any number of workers, callers and payloads. *)
EXTENDS ThreadPool, TLAPS

-----------------------------------------------------------------------------
(* Facts that hold whoever calls enqueue_task. *)

\* A caller inside enqueue_task holds a payload.
HeldOK == \A c \in Callers : pc[c] \in EnqueuePC => held[c] \in Payloads

\* The slot a caller fills, and the one tick() fills, exist.
IdxOK == \A c \in Callers : pc[c] \in {"putF", "putArgs", "set"} => idx[c] \in Workers

Filling == {"fastLock", "fastArgs", "fastSet", "slowArgs", "slowSet"}
TiOK == tpc \in Filling => ti < TickThreads

BaseInv == TypeOK /\ HeldOK /\ IdxOK /\ TiOK /\ FrontDefined

\* tick()'s own thread count never exceeds the pool's: reducing n_threads to
\* a uint8_t can only lose workers.
LEMMA TickThreadsBound == TickThreads \in Nat /\ TickThreads <= NThreads /\ HighWater \in Nat
<1>1. TickThreads \in Nat /\ TickThreads <= NThreads
  BY PoolAssumption DEF TickThreads
<1>2. HighWater \in Nat
  BY <1>1, PoolAssumption DEF HighWater
<1> QED BY <1>1, <1>2

\* The slots tick() looks at are slots of the pool.
LEMMA TickSlots == \A i \in Nat : i < TickThreads => i \in Workers
BY TickThreadsBound, PoolAssumption DEF Workers

\* The front of a nonempty queue, and what is left when it is popped.
LEMMA FrontAndRest ==
  ASSUME NEW S, NEW q \in Seq(S), q # <<>>
  PROVE  /\ Head(q) \in S /\ Head(q) = q[1]
         /\ Tail(q) \in Seq(S) /\ Len(q) \in Nat \ {0} /\ Len(Tail(q)) = Len(q) - 1
         /\ \A i \in 1 .. Len(q) - 1 : Tail(q)[i] = q[i + 1]
OBVIOUS

\* Initially all that holds.
LEMMA BaseInit == Init => BaseInv
<1> SUFFICES ASSUME Init PROVE BaseInv
  OBVIOUS
<1>1. TypeOK
  <2> USE DEF Init
  <2>1. /\ tfPayload \in [Workers -> BOOLEAN] /\ tfRunning \in [Workers -> BOOLEAN]
        /\ pq_lock \in BOOLEAN /\ ticking \in BOOLEAN /\ terminate \in BOOLEAN /\ torn \in BOOLEAN
    OBVIOUS
  <2>2. current_payload \in [Workers -> [f : MaybePayload, args : MaybePayload]]
    BY DEF MaybePayload
  <2>3. /\ pq \in Seq(Payloads)
        /\ submitted \subseteq Payloads /\ returned \subseteq Payloads
        /\ runs \in [Payloads -> Nat]
    OBVIOUS
  <2>4. /\ pc \in [Callers -> ProducerPC \cup WorkerPC]
        /\ \A c \in Producers : pc[c] \in ProducerPC
        /\ \A w \in Workers : pc[w] \in WorkerPC
    BY PoolAssumption DEF Callers, ProducerPC, WorkerPC
  <2>5. /\ held \in [Callers -> MaybePayload] /\ fn \in [Workers -> MaybePayload]
        /\ arg \in [Workers -> MaybePayload]
    BY DEF MaybePayload
  <2>6. idx \in [Callers -> 0 .. NThreads]
    BY PoolAssumption
  <2>7. tpc \in TickPC /\ ti \in Nat /\ sz \in Nat
    BY DEF TickPC
  <2> QED BY <2>1, <2>2, <2>3, <2>4, <2>5, <2>6, <2>7 DEF TypeOK, FlagsOK, SlotsOK, QueueOK, PlacesOK, WordsOK, TickOK, HistoryOK
<1>2. HeldOK /\ IdxOK
  BY PoolAssumption DEF Init, HeldOK, IdxOK, EnqueuePC, Callers
<1>3. TiOK /\ FrontDefined
  BY DEF Init, TiOK, FrontDefined, Filling, TakingFront
<1> QED BY <1>1, <1>2, <1>3 DEF BaseInv
\* Facts about strings and index sets the step lemmas share.
LEMMA PCSets ==
  /\ EnqueuePC \subseteq ProducerPC /\ EnqueuePC \subseteq WorkerPC
  /\ Workers \subseteq Callers /\ Producers \subseteq Callers
  /\ Callers = Producers \cup Workers
  /\ Producers \cap Workers = {}
  /\ \A i \in 0 .. NThreads : i \in Workers => i + 1 \in 0 .. NThreads
BY PoolAssumption DEF EnqueuePC, ProducerPC, WorkerPC, Workers, Callers

\* Every step of enqueue_task keeps BaseInv.
LEMMA BaseEnqueueStep ==
  ASSUME BaseInv, NEW c \in Callers, EnqueueStep(c)
  PROVE  BaseInv'
<1> USE DEF flagVars, poolVars, callVars, workVars, tickVars, histVars, BaseInv, TypeOK, Goto
<1>1. CASE CheckTicking(c)
  <2> USE <1>1 DEF CheckTicking
  <2>1. FlagsOK' /\ SlotsOK' /\ QueueOK' /\ WordsOK' /\ TickOK' /\ HistoryOK' /\ TiOK' /\ FrontDefined'
    BY DEF FlagsOK, SlotsOK, QueueOK, WordsOK, TickOK, HistoryOK, TiOK, FrontDefined
  <2>2. PlacesOK'
    BY PCSets, PoolAssumption DEF PlacesOK, EnqueuePC, ProducerPC, WorkerPC
  <2>3. HeldOK'
    BY DEF HeldOK, EnqueuePC, PlacesOK
  <2>4. IdxOK'
    BY DEF IdxOK, PlacesOK
  <2> QED BY <2>1, <2>2, <2>3, <2>4
<1>2. CASE ScanSlot(c)
  <2> USE <1>2 DEF ScanSlot
  <2>1. FlagsOK' /\ SlotsOK' /\ QueueOK' /\ WordsOK' /\ TickOK' /\ HistoryOK' /\ TiOK' /\ FrontDefined'
    BY DEF FlagsOK, SlotsOK, QueueOK, WordsOK, TickOK, HistoryOK, TiOK, FrontDefined
  <2>2. PlacesOK'
    BY PCSets, PoolAssumption DEF PlacesOK, EnqueuePC, ProducerPC, WorkerPC
  <2>3. HeldOK'
    BY DEF HeldOK, EnqueuePC, PlacesOK
  <2>4. IdxOK'
    BY DEF IdxOK, PlacesOK
  <2> QED BY <2>1, <2>2, <2>3, <2>4
<1>3. CASE PutF(c)
  <2> USE <1>3 DEF PutF
  <2>1. FlagsOK' /\ QueueOK' /\ WordsOK' /\ TickOK' /\ HistoryOK' /\ TiOK' /\ FrontDefined'
    BY DEF FlagsOK, QueueOK, WordsOK, TickOK, HistoryOK, TiOK, FrontDefined
  <2>2. SlotsOK'
    BY DEF SlotsOK, IdxOK, HeldOK, EnqueuePC, MaybePayload
  <2>3. PlacesOK'
    BY PCSets, PoolAssumption DEF PlacesOK, EnqueuePC, ProducerPC, WorkerPC
  <2>4. HeldOK'
    BY DEF HeldOK, EnqueuePC, PlacesOK
  <2>5. IdxOK'
    BY DEF IdxOK, PlacesOK
  <2> QED BY <2>1, <2>2, <2>3, <2>4, <2>5
<1>4. CASE PutArgs(c)
  <2> USE <1>4 DEF PutArgs
  <2>1. FlagsOK' /\ QueueOK' /\ WordsOK' /\ TickOK' /\ HistoryOK' /\ TiOK' /\ FrontDefined'
    BY DEF FlagsOK, QueueOK, WordsOK, TickOK, HistoryOK, TiOK, FrontDefined
  <2>2. SlotsOK'
    BY DEF SlotsOK, IdxOK, HeldOK, EnqueuePC, MaybePayload
  <2>3. PlacesOK'
    BY PCSets, PoolAssumption DEF PlacesOK, EnqueuePC, ProducerPC, WorkerPC
  <2>4. HeldOK'
    BY DEF HeldOK, EnqueuePC, PlacesOK
  <2>5. IdxOK'
    BY DEF IdxOK, PlacesOK
  <2> QED BY <2>1, <2>2, <2>3, <2>4, <2>5
<1>5. CASE SetPayload(c)
  <2> USE <1>5 DEF SetPayload
  <2>1. SlotsOK' /\ QueueOK' /\ TickOK' /\ HistoryOK' /\ TiOK' /\ FrontDefined'
    BY DEF SlotsOK, QueueOK, TickOK, HistoryOK, TiOK, FrontDefined
  <2>2. FlagsOK'
    BY DEF FlagsOK, IdxOK
  <2>3. PlacesOK'
    BY PCSets, PoolAssumption DEF PlacesOK, EnqueuePC, ProducerPC, WorkerPC, Caller
  <2>4. WordsOK'
    BY DEF WordsOK, MaybePayload
  <2>5. HeldOK'
    BY DEF HeldOK, EnqueuePC, PlacesOK, Caller
  <2>6. IdxOK'
    BY DEF IdxOK, PlacesOK, Caller
  <2> QED BY <2>1, <2>2, <2>3, <2>4, <2>5, <2>6
<1>6. CASE PushBack(c)
  <2> USE <1>6 DEF PushBack
  <2>1. FlagsOK' /\ SlotsOK' /\ WordsOK' /\ TickOK' /\ HistoryOK' /\ TiOK'
    BY DEF FlagsOK, SlotsOK, WordsOK, TickOK, HistoryOK, TiOK
  <2>2. QueueOK'
    BY DEF QueueOK, HeldOK, EnqueuePC
  <2>3. PlacesOK'
    BY PCSets, PoolAssumption DEF PlacesOK, EnqueuePC, ProducerPC, WorkerPC
  <2>4. HeldOK'
    BY DEF HeldOK, EnqueuePC, PlacesOK
  <2>5. IdxOK'
    BY DEF IdxOK, PlacesOK
  <2>6. FrontDefined'
    BY DEF FrontDefined, QueueOK, HeldOK, EnqueuePC
  <2> QED BY <2>1, <2>2, <2>3, <2>4, <2>5, <2>6
<1>7. CASE MarkTicking(c)
  <2> USE <1>7 DEF MarkTicking
  <2>1. FlagsOK' /\ SlotsOK' /\ TickOK' /\ HistoryOK' /\ TiOK' /\ FrontDefined'
    BY DEF FlagsOK, SlotsOK, TickOK, HistoryOK, TiOK, FrontDefined
  <2>2. QueueOK'
    BY DEF QueueOK
  <2>3. PlacesOK'
    BY PCSets, PoolAssumption DEF PlacesOK, EnqueuePC, ProducerPC, WorkerPC, Caller
  <2>4. WordsOK'
    BY DEF WordsOK, MaybePayload
  <2>5. HeldOK'
    BY DEF HeldOK, EnqueuePC, PlacesOK, Caller
  <2>6. IdxOK'
    BY DEF IdxOK, PlacesOK, Caller
  <2> QED BY <2>1, <2>2, <2>3, <2>4, <2>5, <2>6
<1> QED BY <1>1, <1>2, <1>3, <1>4, <1>5, <1>6, <1>7 DEF EnqueueStep

\* Entering enqueue_task, from a producer or from a running payload.
LEMMA BaseEnqueue ==
  ASSUME BaseInv, NEW c \in Callers, NEW p \in Payloads, Enqueue(c, p)
  PROVE  BaseInv'
<1> USE DEF flagVars, poolVars, callVars, workVars, tickVars, histVars, BaseInv, TypeOK, Goto
<1> USE DEF Enqueue
<1>1. FlagsOK' /\ SlotsOK' /\ QueueOK' /\ TickOK' /\ TiOK' /\ FrontDefined'
  BY DEF FlagsOK, SlotsOK, QueueOK, TickOK, TiOK, FrontDefined
<1>2. PlacesOK'
  BY PCSets, PoolAssumption DEF PlacesOK, EnqueuePC, ProducerPC, WorkerPC
<1>3. WordsOK'
  BY DEF WordsOK, MaybePayload
<1>4. HistoryOK'
  BY DEF HistoryOK
<1>5. HeldOK'
  BY PCSets DEF HeldOK, EnqueuePC, WordsOK, PlacesOK
<1>6. IdxOK'
  BY PCSets DEF IdxOK, PlacesOK
<1> QED BY <1>1, <1>2, <1>3, <1>4, <1>5, <1>6

\* Every step of a worker outside enqueue_task keeps BaseInv.
LEMMA BaseWorkerStep ==
  ASSUME BaseInv, NEW w \in Workers, WorkerStep(w)
  PROVE  BaseInv'
<1> USE DEF flagVars, poolVars, callVars, workVars, tickVars, histVars, BaseInv, TypeOK, Goto
<1>1. CASE Poll(w)
  <2> USE <1>1 DEF Poll
  <2>1. FlagsOK' /\ SlotsOK' /\ QueueOK' /\ WordsOK' /\ TickOK' /\ HistoryOK' /\ TiOK' /\ FrontDefined'
    BY DEF FlagsOK, SlotsOK, QueueOK, WordsOK, TickOK, HistoryOK, TiOK, FrontDefined
  <2>2. PlacesOK'
    BY PCSets, PoolAssumption DEF PlacesOK, EnqueuePC, ProducerPC, WorkerPC
  <2>3. HeldOK'
    BY PCSets DEF HeldOK, EnqueuePC, PlacesOK
  <2>4. IdxOK'
    BY PCSets DEF IdxOK, PlacesOK
  <2> QED BY <2>1, <2>2, <2>3, <2>4
<1>2. CASE LoadF(w)
  <2> USE <1>2 DEF LoadF
  <2>1. FlagsOK' /\ SlotsOK' /\ QueueOK' /\ TickOK' /\ HistoryOK' /\ TiOK' /\ FrontDefined'
    BY DEF FlagsOK, SlotsOK, QueueOK, TickOK, HistoryOK, TiOK, FrontDefined
  <2>2. PlacesOK'
    BY PCSets, PoolAssumption DEF PlacesOK, EnqueuePC, ProducerPC, WorkerPC
  <2>3. WordsOK'
    BY DEF WordsOK, SlotsOK
  <2>4. HeldOK'
    BY PCSets DEF HeldOK, EnqueuePC, PlacesOK
  <2>5. IdxOK'
    BY PCSets DEF IdxOK, PlacesOK
  <2> QED BY <2>1, <2>2, <2>3, <2>4, <2>5
<1>3. CASE CallPayload(w)
  <2> USE <1>3 DEF CallPayload
  <2>1. FlagsOK' /\ SlotsOK' /\ QueueOK' /\ TickOK' /\ TiOK' /\ FrontDefined'
    BY DEF FlagsOK, SlotsOK, QueueOK, TickOK, TiOK, FrontDefined
  <2>2. PlacesOK'
    BY PCSets, PoolAssumption DEF PlacesOK, EnqueuePC, ProducerPC, WorkerPC
  <2>3. WordsOK'
    BY DEF WordsOK, SlotsOK
  <2>4. HistoryOK'
    BY DEF HistoryOK
  <2>5. HeldOK'
    BY PCSets DEF HeldOK, EnqueuePC, PlacesOK
  <2>6. IdxOK'
    BY PCSets DEF IdxOK, PlacesOK
  <2> QED BY <2>1, <2>2, <2>3, <2>4, <2>5, <2>6
<1>4. CASE UnsetPayload(w)
  <2> USE <1>4 DEF UnsetPayload
  <2>1. SlotsOK' /\ QueueOK' /\ WordsOK' /\ TickOK' /\ TiOK' /\ FrontDefined'
    BY DEF SlotsOK, QueueOK, WordsOK, TickOK, TiOK, FrontDefined
  <2>2. FlagsOK'
    BY DEF FlagsOK
  <2>3. PlacesOK'
    BY PCSets, PoolAssumption DEF PlacesOK, EnqueuePC, ProducerPC, WorkerPC
  <2>4. HistoryOK'
    BY DEF HistoryOK
  <2>5. HeldOK'
    BY PCSets DEF HeldOK, EnqueuePC, PlacesOK
  <2>6. IdxOK'
    BY PCSets DEF IdxOK, PlacesOK
  <2> QED BY <2>1, <2>2, <2>3, <2>4, <2>5, <2>6
<1>5. CASE \E p \in Payloads : SpawnTask(w, p)
  BY <1>5, BaseEnqueue, PCSets DEF SpawnTask
<1> QED BY <1>1, <1>2, <1>3, <1>4, <1>5 DEF WorkerStep

\* busy() and the calls of a producer keep BaseInv.
LEMMA BaseOwnerStep ==
  ASSUME BaseInv, NEW c \in Producers, ProducerCall(c) \/ BusyStep(c)
  PROVE  BaseInv'
<1> USE DEF flagVars, poolVars, callVars, workVars, tickVars, histVars, BaseInv, TypeOK, Goto
<1>1. CASE BusyCall(c)
  <2> USE <1>1 DEF BusyCall
  <2>1. FlagsOK' /\ SlotsOK' /\ QueueOK' /\ WordsOK' /\ TickOK' /\ HistoryOK' /\ TiOK' /\ FrontDefined'
    BY DEF FlagsOK, SlotsOK, QueueOK, WordsOK, TickOK, HistoryOK, TiOK, FrontDefined
  <2>2. PlacesOK'
    BY PCSets, PoolAssumption DEF PlacesOK, EnqueuePC, ProducerPC, WorkerPC
  <2>3. HeldOK'
    BY PCSets DEF HeldOK, EnqueuePC, PlacesOK
  <2>4. IdxOK'
    BY PCSets DEF IdxOK, PlacesOK
  <2> QED BY <2>1, <2>2, <2>3, <2>4
<1>2. CASE BusyTicking(c)
  <2> USE <1>2 DEF BusyTicking
  <2>1. FlagsOK' /\ SlotsOK' /\ QueueOK' /\ WordsOK' /\ TickOK' /\ HistoryOK' /\ TiOK' /\ FrontDefined'
    BY DEF FlagsOK, SlotsOK, QueueOK, WordsOK, TickOK, HistoryOK, TiOK, FrontDefined
  <2>2. PlacesOK'
    BY PCSets, PoolAssumption DEF PlacesOK, EnqueuePC, ProducerPC, WorkerPC
  <2>3. HeldOK'
    BY PCSets DEF HeldOK, EnqueuePC, PlacesOK
  <2>4. IdxOK'
    BY PCSets DEF IdxOK, PlacesOK
  <2> QED BY <2>1, <2>2, <2>3, <2>4
<1>3. CASE BusyScan(c)
  <2> USE <1>3 DEF BusyScan
  <2>1. FlagsOK' /\ SlotsOK' /\ QueueOK' /\ WordsOK' /\ TickOK' /\ HistoryOK' /\ TiOK' /\ FrontDefined'
    BY DEF FlagsOK, SlotsOK, QueueOK, WordsOK, TickOK, HistoryOK, TiOK, FrontDefined
  <2>2. PlacesOK'
    BY PCSets, PoolAssumption DEF PlacesOK, EnqueuePC, ProducerPC, WorkerPC
  <2>3. HeldOK'
    BY PCSets DEF HeldOK, EnqueuePC, PlacesOK
  <2>4. IdxOK'
    BY PCSets DEF IdxOK, PlacesOK
  <2> QED BY <2>1, <2>2, <2>3, <2>4
<1>4. CASE LeaveQuiet(c)
  <2> USE <1>4 DEF LeaveQuiet
  <2>1. FlagsOK' /\ SlotsOK' /\ QueueOK' /\ WordsOK' /\ TickOK' /\ HistoryOK' /\ TiOK' /\ FrontDefined'
    BY DEF FlagsOK, SlotsOK, QueueOK, WordsOK, TickOK, HistoryOK, TiOK, FrontDefined
  <2>2. PlacesOK'
    BY PCSets, PoolAssumption DEF PlacesOK, EnqueuePC, ProducerPC, WorkerPC
  <2>3. HeldOK'
    BY PCSets DEF HeldOK, EnqueuePC, PlacesOK
  <2>4. IdxOK'
    BY PCSets DEF IdxOK, PlacesOK
  <2> QED BY <2>1, <2>2, <2>3, <2>4
<1>5. ASSUME NEW p \in Payloads, Enqueue(c, p) PROVE BaseInv'
  BY <1>5, BaseEnqueue, PCSets
<1> QED BY <1>1, <1>2, <1>3, <1>4, <1>5 DEF ProducerCall, BusyStep

\* Every step of tick() keeps BaseInv.
LEMMA BaseTickStep ==
  ASSUME BaseInv, TickStep
  PROVE  BaseInv'
<1> USE DEF flagVars, poolVars, callVars, workVars, tickVars, histVars, BaseInv, TypeOK, TickGoto
<1>1. CASE TickLoop
  <2> USE <1>1 DEF TickLoop
  <2>1. FlagsOK' /\ SlotsOK' /\ QueueOK' /\ PlacesOK' /\ WordsOK' /\ HistoryOK' /\ HeldOK' /\ IdxOK'
    BY DEF FlagsOK, SlotsOK, QueueOK, PlacesOK, WordsOK, HistoryOK, HeldOK, IdxOK
  <2>2. TickOK'
    BY DEF TickOK, TickPC
  <2>3. TiOK'
    BY DEF TiOK, Filling
  <2>4. FrontDefined'
    BY DEF FrontDefined, TakingFront
  <2> QED BY <2>1, <2>2, <2>3, <2>4
<1>2. CASE TickPoll
  <2> USE <1>2 DEF TickPoll
  <2>1. FlagsOK' /\ SlotsOK' /\ QueueOK' /\ PlacesOK' /\ WordsOK' /\ HistoryOK' /\ HeldOK' /\ IdxOK'
    BY DEF FlagsOK, SlotsOK, QueueOK, PlacesOK, WordsOK, HistoryOK, HeldOK, IdxOK
  <2>2. TickOK'
    BY TickThreadsBound DEF TickOK, TickPC, SizeReads, QueueOK
  <2>3. TiOK'
    BY DEF TiOK, Filling
  <2>4. FrontDefined'
    BY DEF FrontDefined, TakingFront
  <2> QED BY <2>1, <2>2, <2>3, <2>4
<1>3. CASE TickOuter
  <2> USE <1>3 DEF TickOuter
  <2>1. FlagsOK' /\ SlotsOK' /\ QueueOK' /\ PlacesOK' /\ WordsOK' /\ HistoryOK' /\ HeldOK' /\ IdxOK'
    BY DEF FlagsOK, SlotsOK, QueueOK, PlacesOK, WordsOK, HistoryOK, HeldOK, IdxOK
  <2>2. TickOK'
    BY DEF TickOK, TickPC
  <2>3. TiOK'
    BY DEF TiOK, Filling
  <2>4. FrontDefined'
    BY DEF FrontDefined, TakingFront
  <2> QED BY <2>1, <2>2, <2>3, <2>4
<1>4. CASE TickFast
  <2> USE <1>4 DEF TickFast
  <2>1. FlagsOK' /\ SlotsOK' /\ QueueOK' /\ PlacesOK' /\ WordsOK' /\ HistoryOK' /\ HeldOK' /\ IdxOK'
    BY DEF FlagsOK, SlotsOK, QueueOK, PlacesOK, WordsOK, HistoryOK, HeldOK, IdxOK
  <2>2. TickOK'
    BY DEF TickOK, TickPC
  <2>3. TiOK'
    BY DEF TiOK, Filling
  <2>4. FrontDefined'
    BY DEF FrontDefined, TakingFront
  <2> QED BY <2>1, <2>2, <2>3, <2>4
<1>5. CASE FastScan
  <2> USE <1>5 DEF FastScan
  <2>1. FlagsOK' /\ SlotsOK' /\ QueueOK' /\ PlacesOK' /\ WordsOK' /\ HistoryOK' /\ HeldOK' /\ IdxOK'
    BY DEF FlagsOK, SlotsOK, QueueOK, PlacesOK, WordsOK, HistoryOK, HeldOK, IdxOK
  <2>2. TickOK'
    BY DEF TickOK, TickPC
  <2>3. TiOK'
    BY DEF TiOK, Filling
  <2>4. FrontDefined'
    BY DEF FrontDefined, TakingFront
  <2> QED BY <2>1, <2>2, <2>3, <2>4
<1>6. CASE FastLock
  <2> USE <1>6 DEF FastLock
  <2>1. FlagsOK' /\ PlacesOK' /\ WordsOK' /\ HistoryOK' /\ HeldOK' /\ IdxOK'
    BY DEF FlagsOK, PlacesOK, WordsOK, HistoryOK, HeldOK, IdxOK
  <2>2. SlotsOK'
    BY TickSlots, FrontAndRest DEF SlotsOK, TiOK, Filling, FrontDefined, TakingFront, QueueOK, MaybePayload, TickOK
  <2>3. QueueOK'
    BY DEF QueueOK
  <2>4. TickOK'
    BY DEF TickOK, TickPC
  <2>5. TiOK'
    BY DEF TiOK, Filling
  <2>6. FrontDefined'
    BY DEF FrontDefined, TakingFront
  <2> QED BY <2>1, <2>2, <2>3, <2>4, <2>5, <2>6
<1>7. CASE FastArgs
  <2> USE <1>7 DEF FastArgs
  <2>1. FlagsOK' /\ QueueOK' /\ PlacesOK' /\ WordsOK' /\ HistoryOK' /\ HeldOK' /\ IdxOK'
    BY DEF FlagsOK, QueueOK, PlacesOK, WordsOK, HistoryOK, HeldOK, IdxOK
  <2>2. SlotsOK'
    BY TickSlots, FrontAndRest DEF SlotsOK, TiOK, Filling, FrontDefined, TakingFront, QueueOK, MaybePayload, TickOK
  <2>3. TickOK'
    BY DEF TickOK, TickPC
  <2>4. TiOK'
    BY DEF TiOK, Filling
  <2>5. FrontDefined'
    BY DEF FrontDefined, TakingFront
  <2> QED BY <2>1, <2>2, <2>3, <2>4, <2>5
<1>8. CASE FastSet
  <2> USE <1>8 DEF FastSet
  <2>1. SlotsOK' /\ PlacesOK' /\ WordsOK' /\ HistoryOK' /\ HeldOK' /\ IdxOK'
    BY DEF SlotsOK, PlacesOK, WordsOK, HistoryOK, HeldOK, IdxOK
  <2>2. FlagsOK'
    BY TickSlots DEF FlagsOK, TiOK, Filling, TickOK
  <2>3. QueueOK'
    BY FrontAndRest DEF QueueOK, FrontDefined, TakingFront
  <2>4. TickOK'
    BY DEF TickOK, TickPC, QueueOK, FrontDefined, TakingFront
  <2>5. TiOK'
    BY DEF TiOK, Filling
  <2>6. FrontDefined'
    BY DEF FrontDefined, TakingFront, QueueOK
  <2> QED BY <2>1, <2>2, <2>3, <2>4, <2>5, <2>6
<1>9. CASE SlowLock
  <2> USE <1>9 DEF SlowLock
  <2>1. FlagsOK' /\ SlotsOK' /\ PlacesOK' /\ WordsOK' /\ HistoryOK' /\ HeldOK' /\ IdxOK'
    BY DEF FlagsOK, SlotsOK, PlacesOK, WordsOK, HistoryOK, HeldOK, IdxOK
  <2>2. QueueOK'
    BY DEF QueueOK
  <2>3. TickOK'
    BY DEF TickOK, TickPC
  <2>4. TiOK'
    BY DEF TiOK, Filling
  <2>5. FrontDefined'
    BY DEF FrontDefined, TakingFront
  <2> QED BY <2>1, <2>2, <2>3, <2>4, <2>5
<1>10. CASE TickSlow
  <2> USE <1>10 DEF TickSlow
  <2>1. FlagsOK' /\ SlotsOK' /\ PlacesOK' /\ WordsOK' /\ HistoryOK' /\ HeldOK' /\ IdxOK'
    BY DEF FlagsOK, SlotsOK, PlacesOK, WordsOK, HistoryOK, HeldOK, IdxOK
  <2>2. QueueOK'
    BY DEF QueueOK
  <2>3. TickOK'
    BY DEF TickOK, TickPC
  <2>4. TiOK'
    BY DEF TiOK, Filling
  <2>5. FrontDefined'
    BY DEF FrontDefined, TakingFront
  <2> QED BY <2>1, <2>2, <2>3, <2>4, <2>5
<1>11. CASE SlowScan
  <2> USE <1>11 DEF SlowScan
  <2>1. FlagsOK' /\ QueueOK' /\ PlacesOK' /\ WordsOK' /\ HistoryOK' /\ HeldOK' /\ IdxOK'
    BY DEF FlagsOK, QueueOK, PlacesOK, WordsOK, HistoryOK, HeldOK, IdxOK
  <2>2. SlotsOK'
    BY TickSlots, FrontAndRest DEF SlotsOK, TiOK, Filling, FrontDefined, TakingFront, QueueOK, MaybePayload, TickOK
  <2>3. TickOK'
    BY DEF TickOK, TickPC
  <2>4. TiOK'
    BY DEF TiOK, Filling
  <2>5. FrontDefined'
    BY DEF FrontDefined, TakingFront
  <2> QED BY <2>1, <2>2, <2>3, <2>4, <2>5
<1>12. CASE SlowArgs
  <2> USE <1>12 DEF SlowArgs
  <2>1. FlagsOK' /\ QueueOK' /\ PlacesOK' /\ WordsOK' /\ HistoryOK' /\ HeldOK' /\ IdxOK'
    BY DEF FlagsOK, QueueOK, PlacesOK, WordsOK, HistoryOK, HeldOK, IdxOK
  <2>2. SlotsOK'
    BY TickSlots, FrontAndRest DEF SlotsOK, TiOK, Filling, FrontDefined, TakingFront, QueueOK, MaybePayload, TickOK
  <2>3. TickOK'
    BY DEF TickOK, TickPC
  <2>4. TiOK'
    BY DEF TiOK, Filling
  <2>5. FrontDefined'
    BY DEF FrontDefined, TakingFront
  <2> QED BY <2>1, <2>2, <2>3, <2>4, <2>5
<1>13. CASE SlowSet
  <2> USE <1>13 DEF SlowSet
  <2>1. SlotsOK' /\ PlacesOK' /\ WordsOK' /\ HistoryOK' /\ HeldOK' /\ IdxOK'
    BY DEF SlotsOK, PlacesOK, WordsOK, HistoryOK, HeldOK, IdxOK
  <2>2. FlagsOK'
    BY TickSlots DEF FlagsOK, TiOK, Filling, TickOK
  <2>3. QueueOK'
    BY FrontAndRest DEF QueueOK, FrontDefined, TakingFront
  <2>4. TickOK'
    BY DEF TickOK, TickPC, QueueOK, FrontDefined, TakingFront
  <2>5. TiOK'
    BY DEF TiOK, Filling
  <2>6. FrontDefined'
    BY DEF FrontDefined, TakingFront
  <2> QED BY <2>1, <2>2, <2>3, <2>4, <2>5, <2>6
<1>14. CASE TickDone
  <2> USE <1>14 DEF TickDone
  <2>1. FlagsOK' /\ SlotsOK' /\ PlacesOK' /\ WordsOK' /\ HistoryOK' /\ HeldOK' /\ IdxOK'
    BY DEF FlagsOK, SlotsOK, PlacesOK, WordsOK, HistoryOK, HeldOK, IdxOK
  <2>2. QueueOK'
    BY DEF QueueOK
  <2>3. TickOK'
    BY DEF TickOK, TickPC
  <2>4. TiOK'
    BY DEF TiOK, Filling
  <2>5. FrontDefined'
    BY DEF FrontDefined, TakingFront
  <2> QED BY <2>1, <2>2, <2>3, <2>4, <2>5
<1>15. CASE TickHalt
  <2> USE <1>15 DEF TickHalt
  <2>1. SlotsOK' /\ QueueOK' /\ PlacesOK' /\ WordsOK' /\ HistoryOK' /\ HeldOK' /\ IdxOK'
    BY DEF SlotsOK, QueueOK, PlacesOK, WordsOK, HistoryOK, HeldOK, IdxOK
  <2>2. FlagsOK'
    BY DEF FlagsOK
  <2>3. TickOK'
    BY DEF TickOK, TickPC
  <2>4. TiOK'
    BY DEF TiOK, Filling
  <2>5. FrontDefined'
    BY DEF FrontDefined, TakingFront
  <2> QED BY <2>1, <2>2, <2>3, <2>4, <2>5
<1>16. CASE TickJoin
  <2> USE <1>16 DEF TickJoin
  <2>1. FlagsOK' /\ SlotsOK' /\ QueueOK' /\ PlacesOK' /\ WordsOK' /\ HistoryOK' /\ HeldOK' /\ IdxOK'
    BY DEF FlagsOK, SlotsOK, QueueOK, PlacesOK, WordsOK, HistoryOK, HeldOK, IdxOK
  <2>2. TickOK'
    BY DEF TickOK, TickPC
  <2>3. TiOK'
    BY DEF TiOK, Filling
  <2>4. FrontDefined'
    BY DEF FrontDefined, TakingFront
  <2> QED BY <2>1, <2>2, <2>3, <2>4
<1> QED BY <1>1, <1>2, <1>3, <1>4, <1>5, <1>6, <1>7, <1>8, <1>9, <1>10, <1>11, <1>12, <1>13, <1>14, <1>15, <1>16 DEF TickStep

\* BaseInv is inductive.
LEMMA BaseNext == BaseInv /\ [Next]_vars => BaseInv'
<1> SUFFICES ASSUME BaseInv, [Next]_vars PROVE BaseInv'
  OBVIOUS
<1>1. ASSUME NEW c \in Producers, ProducerCall(c) \/ BusyStep(c) PROVE BaseInv'
  BY <1>1, BaseOwnerStep
<1>2. ASSUME NEW c \in Callers, EnqueueStep(c) PROVE BaseInv'
  BY <1>2, BaseEnqueueStep
<1>3. ASSUME NEW w \in Workers, WorkerStep(w) PROVE BaseInv'
  BY <1>3, BaseWorkerStep
<1>4. CASE TickStep
  BY <1>4, BaseTickStep
<1>5. CASE Destroy
  <2> USE <1>5 DEF Destroy, BaseInv, TypeOK, flagVars, poolVars, callVars, workVars, tickVars, histVars
  <2>1. FlagsOK' /\ SlotsOK' /\ PlacesOK' /\ WordsOK' /\ TickOK' /\ HistoryOK' /\ HeldOK' /\ IdxOK' /\ TiOK' /\ FrontDefined'
    BY DEF FlagsOK, SlotsOK, PlacesOK, WordsOK, TickOK, HistoryOK, HeldOK, IdxOK, TiOK, FrontDefined
  <2>2. QueueOK'
    BY DEF QueueOK
  <2> QED BY <2>1, <2>2
<1>6. CASE UNCHANGED vars
  BY <1>6 DEF vars, flagVars, poolVars, callVars, workVars, tickVars, histVars, BaseInv, TypeOK,
     FlagsOK, SlotsOK, QueueOK, PlacesOK, WordsOK, TickOK, HistoryOK, HeldOK, IdxOK, TiOK, FrontDefined
<1> QED BY <1>1, <1>2, <1>3, <1>4, <1>5, <1>6 DEF Next

\* Every reachable state is well typed, for any number of workers and callers.
THEOREM TypeCorrect == Spec => []TypeOK
<1>1. BaseInv => TypeOK
  BY DEF BaseInv
<1> QED BY <1>1, BaseInit, BaseNext, PTL DEF Spec

\* tick() never reads or pops the front of an empty deque, although its guards
\* read the deque without the lock.
THEOREM FrontAlwaysDefined == Spec => []FrontDefined
<1>1. BaseInv => FrontDefined
  BY DEF BaseInv
<1> QED BY <1>1, BaseInit, BaseNext, PTL DEF Spec
-----------------------------------------------------------------------------
(* One caller: a single thread outside the pool uses it, and no payload      *)
(* submits another.  Then enqueue_task's unlocked fast path and tick() never *)
(* fill slots at the same time: the caller takes that path only when ticking *)
(* is false, only the caller makes it true, and tick() fills slots only      *)
(* while it is true.                                                         *)

OneCaller == (\A c, d \in Producers : c = d) /\ Spawned = {}

FastPC == {"scan", "putF", "putArgs", "set"}
Draining == TickPC \ {"loop", "poll", "halt", "join", "gone"}

WorkersOut == \A w \in Workers : pc[w] \notin EnqueuePC
FastWhenIdle == \A c \in Producers : pc[c] \in FastPC \cup {"probing", "quiet"} => ~ticking
DrainWhenTicking == tpc \in Draining => ticking
TickSlotFree == tpc \in Filling => ~tfPayload[ti]
CallerSlotFree == \A c \in Producers : pc[c] \in {"putF", "putArgs", "set"} => ~tfPayload[idx[c]]
HandEmpty == \A c \in Callers : pc[c] \notin EnqueuePC => held[c] = NoPayload
ProbedFree ==
  \A c \in Producers, w \in Workers :
    pc[c] = "quiet" \/ (pc[c] = "probing" /\ w < idx[c]) => ~tfPayload[w]

Exclusion == /\ WorkersOut /\ FastWhenIdle /\ DrainWhenTicking
             /\ TickSlotFree /\ CallerSlotFree /\ HandEmpty /\ ProbedFree

LEMMA ExclusionInit == Init => Exclusion
<1> SUFFICES ASSUME Init PROVE Exclusion
  OBVIOUS
<1>1. WorkersOut /\ FastWhenIdle /\ CallerSlotFree
  BY PCSets DEF Init, WorkersOut, FastWhenIdle, CallerSlotFree, EnqueuePC, FastPC
<1>2. DrainWhenTicking /\ TickSlotFree
  BY DEF Init, DrainWhenTicking, TickSlotFree, Draining, Filling
<1>3. HandEmpty /\ ProbedFree
  BY PCSets DEF Init, HandEmpty, ProbedFree
<1> QED BY <1>1, <1>2, <1>3 DEF Exclusion

LEMMA ExclusionEnqueueStep ==
  ASSUME OneCaller, BaseInv, Exclusion, NEW c \in Producers, EnqueueStep(c)
  PROVE  Exclusion'
<1> USE PCSets, PoolAssumption DEF flagVars, poolVars, callVars, workVars, tickVars, histVars, BaseInv, TypeOK, Goto, TickGoto
<1> USE DEF Exclusion, WorkersOut, FastWhenIdle, DrainWhenTicking, TickSlotFree, CallerSlotFree, HandEmpty, ProbedFree, EnqueuePC, FastPC, Draining, Filling
<1> USE DEF OneCaller, Caller
<1>1. CASE CheckTicking(c)
  BY <1>1 DEF CheckTicking, FlagsOK, PlacesOK, WordsOK, TickOK, QueueOK, IdxOK, TiOK, HeldOK
<1>2. CASE ScanSlot(c)
  BY <1>2 DEF ScanSlot, FlagsOK, PlacesOK, WordsOK, TickOK, QueueOK, IdxOK, TiOK, HeldOK
<1>3. CASE PutF(c)
  BY <1>3 DEF PutF, FlagsOK, PlacesOK, WordsOK, TickOK, QueueOK, IdxOK, TiOK, HeldOK
<1>4. CASE PutArgs(c)
  BY <1>4 DEF PutArgs, FlagsOK, PlacesOK, WordsOK, TickOK, QueueOK, IdxOK, TiOK, HeldOK
<1>5. CASE SetPayload(c)
  BY <1>5 DEF SetPayload, FlagsOK, PlacesOK, WordsOK, TickOK, QueueOK, IdxOK, TiOK, HeldOK
<1>6. CASE PushBack(c)
  BY <1>6 DEF PushBack, FlagsOK, PlacesOK, WordsOK, TickOK, QueueOK, IdxOK, TiOK, HeldOK
<1>7. CASE MarkTicking(c)
  BY <1>7 DEF MarkTicking, FlagsOK, PlacesOK, WordsOK, TickOK, QueueOK, IdxOK, TiOK, HeldOK
<1> QED BY <1>1, <1>2, <1>3, <1>4, <1>5, <1>6, <1>7 DEF EnqueueStep

LEMMA ExclusionWorkerStep ==
  ASSUME OneCaller, BaseInv, Exclusion, NEW w \in Workers, Poll(w) \/ LoadF(w) \/ CallPayload(w) \/ UnsetPayload(w)
  PROVE  Exclusion'
<1> USE PCSets, PoolAssumption DEF flagVars, poolVars, callVars, workVars, tickVars, histVars, BaseInv, TypeOK, Goto, TickGoto
<1> USE DEF Exclusion, WorkersOut, FastWhenIdle, DrainWhenTicking, TickSlotFree, CallerSlotFree, HandEmpty, ProbedFree, EnqueuePC, FastPC, Draining, Filling
<1>1. CASE Poll(w)
  <2> USE <1>1 DEF Poll
  <2>1. WorkersOut' /\ HandEmpty'
    BY DEF PlacesOK
  <2>2. FastWhenIdle' /\ CallerSlotFree'
    BY DEF PlacesOK
  <2>3. DrainWhenTicking' /\ TickSlotFree'
    OBVIOUS
  <2>4. ProbedFree'
    BY DEF PlacesOK
  <2> QED BY <2>1, <2>2, <2>3, <2>4
<1>2. CASE LoadF(w)
  BY <1>2 DEF LoadF, FlagsOK, PlacesOK, WordsOK, TickOK, QueueOK, IdxOK, TiOK, HeldOK
<1>3. CASE CallPayload(w)
  BY <1>3 DEF CallPayload, FlagsOK, PlacesOK, WordsOK, TickOK, QueueOK, IdxOK, TiOK, HeldOK
<1>4. CASE UnsetPayload(w)
  BY <1>4 DEF UnsetPayload, FlagsOK, PlacesOK, WordsOK, TickOK, QueueOK, IdxOK, TiOK, HeldOK
<1> QED BY <1>1, <1>2, <1>3, <1>4

LEMMA ExclusionBusyStep ==
  ASSUME OneCaller, BaseInv, Exclusion, NEW c \in Producers, BusyCall(c) \/ BusyStep(c)
  PROVE  Exclusion'
<1> USE PCSets, PoolAssumption DEF flagVars, poolVars, callVars, workVars, tickVars, histVars, BaseInv, TypeOK, Goto, TickGoto
<1> USE DEF Exclusion, WorkersOut, FastWhenIdle, DrainWhenTicking, TickSlotFree, CallerSlotFree, HandEmpty, ProbedFree, EnqueuePC, FastPC, Draining, Filling
<1>1. CASE BusyCall(c)
  BY <1>1 DEF BusyCall, FlagsOK, PlacesOK, WordsOK, TickOK, QueueOK, IdxOK, TiOK, HeldOK
<1>2. CASE BusyTicking(c)
  <2> USE <1>2 DEF BusyTicking
  <2>1. WorkersOut' /\ FastWhenIdle' /\ DrainWhenTicking' /\ TickSlotFree' /\ CallerSlotFree' /\ HandEmpty'
    BY DEF FlagsOK, PlacesOK, WordsOK, TickOK, QueueOK, IdxOK, TiOK, HeldOK
  <2>2. ProbedFree'
    BY DEF PlacesOK, FlagsOK, Workers
  <2> QED BY <2>1, <2>2
<1>3. CASE BusyScan(c)
  <2> USE <1>3 DEF BusyScan
  <2>1. WorkersOut' /\ FastWhenIdle' /\ DrainWhenTicking' /\ TickSlotFree' /\ CallerSlotFree' /\ HandEmpty'
    BY DEF FlagsOK, PlacesOK, WordsOK, TickOK, QueueOK, IdxOK, TiOK, HeldOK
  <2>2. ProbedFree'
    BY DEF PlacesOK, FlagsOK, Workers
  <2> QED BY <2>1, <2>2
<1>4. CASE LeaveQuiet(c)
  BY <1>4 DEF LeaveQuiet, FlagsOK, PlacesOK, WordsOK, TickOK, QueueOK, IdxOK, TiOK, HeldOK
<1> QED BY <1>1, <1>2, <1>3, <1>4 DEF BusyStep

LEMMA ExclusionTickStep ==
  ASSUME OneCaller, BaseInv, Exclusion, TickStep
  PROVE  Exclusion'
<1> USE PCSets, PoolAssumption DEF flagVars, poolVars, callVars, workVars, tickVars, histVars, BaseInv, TypeOK, Goto, TickGoto
<1> USE DEF Exclusion, WorkersOut, FastWhenIdle, DrainWhenTicking, TickSlotFree, CallerSlotFree, HandEmpty, ProbedFree, EnqueuePC, FastPC, Draining, Filling
<1>1. CASE TickLoop
  BY <1>1 DEF TickLoop, FlagsOK, PlacesOK, WordsOK, TickOK, QueueOK, IdxOK, TiOK, HeldOK
<1>2. CASE TickPoll
  BY <1>2 DEF TickPoll, FlagsOK, PlacesOK, WordsOK, TickOK, QueueOK, IdxOK, TiOK, HeldOK
<1>3. CASE TickOuter
  BY <1>3 DEF TickOuter, FlagsOK, PlacesOK, WordsOK, TickOK, QueueOK, IdxOK, TiOK, HeldOK
<1>4. CASE TickFast
  BY <1>4 DEF TickFast, FlagsOK, PlacesOK, WordsOK, TickOK, QueueOK, IdxOK, TiOK, HeldOK
<1>5. CASE FastScan
  BY <1>5 DEF FastScan, FlagsOK, PlacesOK, WordsOK, TickOK, QueueOK, IdxOK, TiOK, HeldOK
<1>6. CASE FastLock
  BY <1>6 DEF FastLock, FlagsOK, PlacesOK, WordsOK, TickOK, QueueOK, IdxOK, TiOK, HeldOK
<1>7. CASE FastArgs
  BY <1>7 DEF FastArgs, FlagsOK, PlacesOK, WordsOK, TickOK, QueueOK, IdxOK, TiOK, HeldOK
<1>8. CASE FastSet
  BY <1>8 DEF FastSet, FlagsOK, PlacesOK, WordsOK, TickOK, QueueOK, IdxOK, TiOK, HeldOK
<1>9. CASE SlowLock
  BY <1>9 DEF SlowLock, FlagsOK, PlacesOK, WordsOK, TickOK, QueueOK, IdxOK, TiOK, HeldOK
<1>10. CASE TickSlow
  BY <1>10 DEF TickSlow, FlagsOK, PlacesOK, WordsOK, TickOK, QueueOK, IdxOK, TiOK, HeldOK
<1>11. CASE SlowScan
  BY <1>11 DEF SlowScan, FlagsOK, PlacesOK, WordsOK, TickOK, QueueOK, IdxOK, TiOK, HeldOK
<1>12. CASE SlowArgs
  BY <1>12 DEF SlowArgs, FlagsOK, PlacesOK, WordsOK, TickOK, QueueOK, IdxOK, TiOK, HeldOK
<1>13. CASE SlowSet
  BY <1>13 DEF SlowSet, FlagsOK, PlacesOK, WordsOK, TickOK, QueueOK, IdxOK, TiOK, HeldOK
<1>14. CASE TickDone
  BY <1>14 DEF TickDone, FlagsOK, PlacesOK, WordsOK, TickOK, QueueOK, IdxOK, TiOK, HeldOK
<1>15. CASE TickHalt
  BY <1>15 DEF TickHalt, FlagsOK, PlacesOK, WordsOK, TickOK, QueueOK, IdxOK, TiOK, HeldOK
<1>16. CASE TickJoin
  BY <1>16 DEF TickJoin, FlagsOK, PlacesOK, WordsOK, TickOK, QueueOK, IdxOK, TiOK, HeldOK
<1> QED BY <1>1, <1>2, <1>3, <1>4, <1>5, <1>6, <1>7, <1>8, <1>9, <1>10, <1>11, <1>12, <1>13, <1>14, <1>15, <1>16 DEF TickStep

\* With one caller, the steps of a pool whose workers submit nothing.
LEMMA OneCallerSteps ==
  ASSUME OneCaller, BaseInv, Exclusion, Next
  PROVE  \/ \E c \in Producers : EnqueueStep(c) \/ BusyCall(c) \/ BusyStep(c)
         \/ \E c \in Producers, p \in Payloads : pc[c] = "out" /\ Enqueue(c, p)
         \/ \E w \in Workers : Poll(w) \/ LoadF(w) \/ CallPayload(w) \/ UnsetPayload(w)
         \/ TickStep
         \/ Destroy
<1>1. ASSUME NEW c \in Producers, ProducerCall(c)
      PROVE BusyCall(c) \/ \E p \in Payloads : pc[c] = "out" /\ Enqueue(c, p)
  BY <1>1 DEF ProducerCall
<1>2. ASSUME NEW c \in Callers, EnqueueStep(c) PROVE c \in Producers
  <2>1. pc[c] \in EnqueuePC
    BY <1>2 DEF EnqueueStep, CheckTicking, ScanSlot, PutF, PutArgs, SetPayload, PushBack, MarkTicking, Goto, EnqueuePC
  <2> QED BY <2>1, PCSets DEF Exclusion, WorkersOut
<1>3. ASSUME NEW w \in Workers, WorkerStep(w)
      PROVE Poll(w) \/ LoadF(w) \/ CallPayload(w) \/ UnsetPayload(w)
  BY <1>3, PoolAssumption DEF WorkerStep, SpawnTask, SpawnsOf, OneCaller, Spawned
<1> QED BY <1>1, <1>2, <1>3 DEF Next

LEMMA ExclusionNext == OneCaller /\ BaseInv /\ Exclusion /\ [Next]_vars => Exclusion'
<1> SUFFICES ASSUME OneCaller, BaseInv, Exclusion, [Next]_vars PROVE Exclusion'
  OBVIOUS
<1> USE DEF Exclusion, WorkersOut, FastWhenIdle, DrainWhenTicking, TickSlotFree, CallerSlotFree, HandEmpty, ProbedFree
<1>1. ASSUME NEW c \in Producers, NEW p \in Payloads, Enqueue(c, p), pc[c] = "out" PROVE Exclusion'
  BY <1>1, PCSets DEF Enqueue, BaseInv, TypeOK, PlacesOK, WordsOK, EnqueuePC, FastPC, flagVars, poolVars, tickVars
<1>2. CASE Destroy \/ UNCHANGED vars
  BY <1>2 DEF Destroy, vars, flagVars, poolVars, callVars, workVars, tickVars
<1> QED BY <1>1, <1>2, OneCallerSteps, ExclusionEnqueueStep, ExclusionBusyStep, ExclusionWorkerStep, ExclusionTickStep

\* What the words of a slot are: a flagged slot holds one whole payload, a slot
\* being filled holds the part already stored, and a worker's copies agree with
\* the slot it runs.
SlotWords ==
  \A w \in Workers : tfPayload[w] =>
    current_payload[w].f = current_payload[w].args /\ current_payload[w].args \in Payloads
TickWords ==
  /\ tpc \in {"fastArgs", "fastSet", "slowArgs", "slowSet"} => current_payload[ti].f = Head(pq)
  /\ tpc \in {"fastSet", "slowSet"} => current_payload[ti].args = Head(pq)
CallerWords ==
  \A c \in Producers :
    /\ pc[c] \in {"putArgs", "set"} => current_payload[idx[c]].f = held[c]
    /\ pc[c] = "set" => current_payload[idx[c]].args = held[c]
WorkerWords ==
  \A w \in Workers :
    /\ pc[w] \in {"loadF", "loadArgs", "call"} => tfPayload[w]
    /\ pc[w] \in {"loadArgs", "call"} => fn[w] = current_payload[w].f
    /\ pc[w] = "call" => arg[w] = current_payload[w].args

WordInv == SlotWords /\ TickWords /\ CallerWords /\ WorkerWords /\ ~torn

LEMMA WordInit == Init => WordInv
<1> SUFFICES ASSUME Init PROVE WordInv
  OBVIOUS
<1>1. SlotWords /\ TickWords /\ ~torn
  BY DEF Init, SlotWords, TickWords
<1>2. CallerWords /\ WorkerWords
  BY PCSets DEF Init, CallerWords, WorkerWords
<1> QED BY <1>1, <1>2 DEF WordInv

LEMMA WordEnqueueStep ==
  ASSUME OneCaller, BaseInv, Exclusion, WordInv, NEW c \in Producers, EnqueueStep(c)
  PROVE  WordInv'
<1> USE PCSets, PoolAssumption DEF flagVars, poolVars, callVars, workVars, tickVars, histVars, BaseInv, TypeOK, Goto, TickGoto
<1> USE DEF Exclusion, WordInv, SlotWords, TickWords, CallerWords, WorkerWords
<1> USE DEF OneCaller, Caller
<1>1. CASE CheckTicking(c)
  BY <1>1 DEF CheckTicking, FlagsOK, SlotsOK, PlacesOK, WordsOK, HeldOK, IdxOK, EnqueuePC, CallerSlotFree, FastWhenIdle, DrainWhenTicking, Draining, FastPC, OneCaller, TickPC, TickOK
<1>2. CASE ScanSlot(c)
  BY <1>2 DEF ScanSlot, FlagsOK, SlotsOK, PlacesOK, WordsOK, HeldOK, IdxOK, EnqueuePC, CallerSlotFree, FastWhenIdle, DrainWhenTicking, Draining, FastPC, OneCaller, TickPC, TickOK
<1>3. CASE PutF(c)
  BY <1>3 DEF PutF, FlagsOK, SlotsOK, PlacesOK, WordsOK, HeldOK, IdxOK, EnqueuePC, CallerSlotFree, FastWhenIdle, DrainWhenTicking, Draining, FastPC, OneCaller, TickPC, TickOK
<1>4. CASE PutArgs(c)
  BY <1>4 DEF PutArgs, FlagsOK, SlotsOK, PlacesOK, WordsOK, HeldOK, IdxOK, EnqueuePC, CallerSlotFree, FastWhenIdle, DrainWhenTicking, Draining, FastPC, OneCaller, TickPC, TickOK
<1>5. CASE SetPayload(c)
  BY <1>5 DEF SetPayload, FlagsOK, SlotsOK, PlacesOK, WordsOK, HeldOK, IdxOK, EnqueuePC, CallerSlotFree, FastWhenIdle, DrainWhenTicking, Draining, FastPC, OneCaller, TickPC, TickOK
<1>6. CASE PushBack(c)
  BY <1>6 DEF PushBack, FlagsOK, SlotsOK, PlacesOK, WordsOK, HeldOK, QueueOK, FrontDefined, TakingFront, OneCaller, EnqueuePC
<1>7. CASE MarkTicking(c)
  BY <1>7 DEF MarkTicking, FlagsOK, SlotsOK, PlacesOK, WordsOK, HeldOK
<1> QED BY <1>1, <1>2, <1>3, <1>4, <1>5, <1>6, <1>7 DEF EnqueueStep

LEMMA WordWorkerStep ==
  ASSUME OneCaller, BaseInv, Exclusion, WordInv, NEW w \in Workers, Poll(w) \/ LoadF(w) \/ CallPayload(w) \/ UnsetPayload(w)
  PROVE  WordInv'
<1> USE PCSets, PoolAssumption DEF flagVars, poolVars, callVars, workVars, tickVars, histVars, BaseInv, TypeOK, Goto, TickGoto
<1> USE DEF Exclusion, WordInv, SlotWords, TickWords, CallerWords, WorkerWords
<1>1. CASE Poll(w)
  BY <1>1 DEF Poll, FlagsOK, SlotsOK, PlacesOK, WordsOK, HeldOK, IdxOK, CallerSlotFree, TickSlotFree, TiOK, Filling, TickOK
<1>2. CASE LoadF(w)
  BY <1>2 DEF LoadF, FlagsOK, SlotsOK, PlacesOK, WordsOK, HeldOK, IdxOK, CallerSlotFree, TickSlotFree, TiOK, Filling, TickOK
<1>3. CASE CallPayload(w)
  BY <1>3 DEF CallPayload, FlagsOK, SlotsOK, PlacesOK, WordsOK, HeldOK, IdxOK, CallerSlotFree, TickSlotFree, TiOK, Filling, TickOK
<1>4. CASE UnsetPayload(w)
  BY <1>4 DEF UnsetPayload, FlagsOK, SlotsOK, PlacesOK, WordsOK, HeldOK, IdxOK, CallerSlotFree, TickSlotFree, TiOK, Filling, TickOK
<1> QED BY <1>1, <1>2, <1>3, <1>4

LEMMA WordBusyStep ==
  ASSUME OneCaller, BaseInv, Exclusion, WordInv, NEW c \in Producers, BusyCall(c) \/ BusyStep(c)
  PROVE  WordInv'
<1> USE PCSets, PoolAssumption DEF flagVars, poolVars, callVars, workVars, tickVars, histVars, BaseInv, TypeOK, Goto, TickGoto
<1> USE DEF Exclusion, WordInv, SlotWords, TickWords, CallerWords, WorkerWords
<1>1. CASE BusyCall(c)
  BY <1>1 DEF BusyCall, FlagsOK, SlotsOK, PlacesOK, WordsOK, HeldOK
<1>2. CASE BusyTicking(c)
  BY <1>2 DEF BusyTicking, FlagsOK, SlotsOK, PlacesOK, WordsOK, HeldOK
<1>3. CASE BusyScan(c)
  BY <1>3 DEF BusyScan, FlagsOK, SlotsOK, PlacesOK, WordsOK, HeldOK
<1>4. CASE LeaveQuiet(c)
  BY <1>4 DEF LeaveQuiet, FlagsOK, SlotsOK, PlacesOK, WordsOK, HeldOK
<1> QED BY <1>1, <1>2, <1>3, <1>4 DEF BusyStep

LEMMA WordTickStep ==
  ASSUME OneCaller, BaseInv, Exclusion, WordInv, TickStep
  PROVE  WordInv'
<1> USE PCSets, PoolAssumption DEF flagVars, poolVars, callVars, workVars, tickVars, histVars, BaseInv, TypeOK, Goto, TickGoto
<1> USE DEF Exclusion, WordInv, SlotWords, TickWords, CallerWords, WorkerWords
<1>1. CASE TickLoop
  BY <1>1 DEF TickLoop, FlagsOK, SlotsOK, PlacesOK, WordsOK, HeldOK
<1>2. CASE TickPoll
  BY <1>2 DEF TickPoll, FlagsOK, SlotsOK, PlacesOK, WordsOK, HeldOK
<1>3. CASE TickOuter
  BY <1>3 DEF TickOuter, FlagsOK, SlotsOK, PlacesOK, WordsOK, HeldOK
<1>4. CASE TickFast
  BY <1>4 DEF TickFast, FlagsOK, SlotsOK, PlacesOK, WordsOK, HeldOK
<1>5. CASE FastScan
  BY <1>5, TickSlots, FrontAndRest DEF FastScan, FlagsOK, SlotsOK, PlacesOK, WordsOK, HeldOK, TickOK, TiOK, Filling, TickSlotFree, DrainWhenTicking, FastWhenIdle, Draining, FastPC, QueueOK, FrontDefined, TakingFront
<1>6. CASE FastLock
  BY <1>6, TickSlots, FrontAndRest DEF FastLock, FlagsOK, SlotsOK, PlacesOK, WordsOK, HeldOK, TickOK, TiOK, Filling, TickSlotFree, DrainWhenTicking, FastWhenIdle, Draining, FastPC, QueueOK, FrontDefined, TakingFront
<1>7. CASE FastArgs
  BY <1>7, TickSlots, FrontAndRest DEF FastArgs, FlagsOK, SlotsOK, PlacesOK, WordsOK, HeldOK, TickOK, TiOK, Filling, TickSlotFree, DrainWhenTicking, FastWhenIdle, Draining, FastPC, QueueOK, FrontDefined, TakingFront
<1>8. CASE FastSet
  BY <1>8, TickSlots, FrontAndRest DEF FastSet, FlagsOK, SlotsOK, PlacesOK, WordsOK, HeldOK, TickOK, TiOK, Filling, TickSlotFree, DrainWhenTicking, FastWhenIdle, Draining, FastPC, QueueOK, FrontDefined, TakingFront
<1>9. CASE SlowLock
  BY <1>9 DEF SlowLock, FlagsOK, SlotsOK, PlacesOK, WordsOK, HeldOK, TickOK, TiOK, Filling, TickSlotFree, DrainWhenTicking, FastWhenIdle, Draining, FastPC, QueueOK, FrontDefined, TakingFront
<1>10. CASE TickSlow
  BY <1>10 DEF TickSlow, FlagsOK, SlotsOK, PlacesOK, WordsOK, HeldOK, TickOK, TiOK, Filling, TickSlotFree, DrainWhenTicking, FastWhenIdle, Draining, FastPC, QueueOK, FrontDefined, TakingFront
<1>11. CASE SlowScan
  <2> USE <1>11 DEF SlowScan
  <2>1. \A c \in Producers : pc[c] \notin FastPC
    BY DEF FastWhenIdle, DrainWhenTicking, Draining, TickPC
  <2>2. CASE UNCHANGED current_payload /\ tpc' \in {"slow", "slowScan"}
    BY <2>2
  <2>3. CASE /\ ti < TickThreads /\ ~tfPayload[ti] /\ tpc' = "slowArgs" /\ UNCHANGED ti
             /\ current_payload' = [current_payload EXCEPT ![ti].f = Head(pq)]
    <3>1. SlotWords' /\ WorkerWords'
      BY <2>3, TickSlots DEF SlotsOK, PlacesOK, TickOK
    <3>2. TickWords'
      BY <2>3, TickSlots DEF SlotsOK, TickOK
    <3>3. CallerWords'
      BY <2>1, <2>3 DEF FastPC
    <3> QED BY <3>1, <3>2, <3>3
  <2> QED BY <2>2, <2>3
<1>12. CASE SlowArgs
  BY <1>12, TickSlots, FrontAndRest DEF SlowArgs, FlagsOK, SlotsOK, PlacesOK, WordsOK, HeldOK, TickOK, TiOK, Filling, TickSlotFree, DrainWhenTicking, FastWhenIdle, Draining, FastPC, QueueOK, FrontDefined, TakingFront
<1>13. CASE SlowSet
  BY <1>13, TickSlots, FrontAndRest DEF SlowSet, FlagsOK, SlotsOK, PlacesOK, WordsOK, HeldOK, TickOK, TiOK, Filling, TickSlotFree, DrainWhenTicking, FastWhenIdle, Draining, FastPC, QueueOK, FrontDefined, TakingFront
<1>14. CASE TickDone
  BY <1>14 DEF TickDone, FlagsOK, SlotsOK, PlacesOK, WordsOK, HeldOK
<1>15. CASE TickHalt
  BY <1>15 DEF TickHalt, FlagsOK, SlotsOK, PlacesOK, WordsOK, HeldOK
<1>16. CASE TickJoin
  BY <1>16 DEF TickJoin, FlagsOK, SlotsOK, PlacesOK, WordsOK, HeldOK
<1> QED BY <1>1, <1>2, <1>3, <1>4, <1>5, <1>6, <1>7, <1>8, <1>9, <1>10, <1>11, <1>12, <1>13, <1>14, <1>15, <1>16 DEF TickStep

LEMMA WordNext == OneCaller /\ BaseInv /\ Exclusion /\ WordInv /\ [Next]_vars => WordInv'
<1> SUFFICES ASSUME OneCaller, BaseInv, Exclusion, WordInv, [Next]_vars PROVE WordInv'
  OBVIOUS
<1> USE DEF WordInv, SlotWords, TickWords, CallerWords, WorkerWords
<1>1. ASSUME NEW c \in Producers, NEW p \in Payloads, Enqueue(c, p), pc[c] = "out" PROVE WordInv'
  BY <1>1, PCSets DEF Enqueue, BaseInv, TypeOK, PlacesOK, WordsOK, flagVars, poolVars, workVars, tickVars
<1>2. CASE Destroy \/ UNCHANGED vars
  BY <1>2 DEF Destroy, vars, flagVars, poolVars, callVars, workVars, tickVars, histVars
<1> QED BY <1>1, <1>2, OneCallerSteps, WordEnqueueStep, WordBusyStep, WordWorkerStep, WordTickStep

\* Where a payload is, exactly one of: not submitted, in its caller's hands,
\* queued, in a slot (being run or not), returned.
Untouched(p) == p \in submitted /\ p \notin returned /\ runs[p] = 0

CallerPlace ==
  \A c \in Callers, p \in Payloads : InHand(c, p) =>
    Untouched(p) /\ ~Queued(p) /\ \A w \in Workers : ~InSlot(w, p)
QueuePlace ==
  /\ \A p \in Payloads : Queued(p) => Untouched(p) /\ \A w \in Workers : ~InSlot(w, p)
  /\ \A i, j \in DOMAIN pq : pq[i] = pq[j] => i = j
SlotPlace ==
  \A w \in Workers, p \in Payloads : InSlot(w, p) =>
    /\ p \in submitted /\ p \notin returned
    /\ runs[p] = IF pc[w] = "call" THEN 1 ELSE 0
    /\ \A v \in Workers : InSlot(v, p) => v = w
DonePlace ==
  \A p \in Payloads : /\ p \in returned => p \in submitted /\ runs[p] = 1
                      /\ p \notin submitted => runs[p] = 0

PlaceInv == CallerPlace /\ QueuePlace /\ SlotPlace /\ DonePlace /\ NeverDropped

OneInv == BaseInv /\ Exclusion /\ WordInv /\ PlaceInv

LEMMA PlaceInit == Init => PlaceInv
<1> SUFFICES ASSUME Init PROVE PlaceInv
  OBVIOUS
<1>1. CallerPlace
  BY PoolAssumption DEF Init, CallerPlace, InHand
<1>2. QueuePlace /\ SlotPlace
  BY DEF Init, QueuePlace, SlotPlace, InSlot, Queued
<1>3. DonePlace /\ NeverDropped
  BY DEF Init, DonePlace, NeverDropped
<1> QED BY <1>1, <1>2, <1>3 DEF PlaceInv

\* A step that moves no payload keeps PlaceInv: it may store to slots that are
\* not flagged and move threads, as long as no worker starts or ends a call.
LEMMA PlaceFrame ==
  ASSUME BaseInv, PlaceInv, UNCHANGED <<tfPayload, pq, held, submitted, runs, returned>>,
         \A c \in Callers : pc'[c] = "mark" <=> pc[c] = "mark",
         \A w \in Workers : pc'[w] = "call" <=> pc[w] = "call",
         \A w \in Workers : tfPayload[w] => current_payload'[w].args = current_payload[w].args
  PROVE  PlaceInv'
<1>1. \A c \in Callers, p \in Payloads : InHand(c, p)' = InHand(c, p)
  BY DEF InHand
<1>2. \A p \in Payloads : Queued(p)' = Queued(p) /\ Untouched(p)' = Untouched(p)
  BY DEF Queued, Untouched
<1>3. \A w \in Workers, p \in Payloads : InSlot(w, p)' = InSlot(w, p)
  BY DEF InSlot
<1> USE DEF PlaceInv
<1>4. CallerPlace' /\ QueuePlace'
  BY <1>1, <1>2, <1>3 DEF CallerPlace, QueuePlace
<1>5. SlotPlace' /\ DonePlace'
  BY <1>3 DEF SlotPlace, DonePlace
<1>6. NeverDropped'
  BY <1>1, <1>2, <1>3 DEF NeverDropped, BaseInv, TypeOK, HistoryOK
<1> QED BY <1>4, <1>5, <1>6

\* Submitting a payload puts it in the caller's hands.
LEMMA PlaceEnqueue ==
  ASSUME OneInv, NEW c \in Producers, NEW p \in Payloads, pc[c] = "out", Enqueue(c, p)
  PROVE  PlaceInv'
<1> USE PCSets DEF OneInv, Enqueue, flagVars, poolVars, workVars, tickVars
<1>1. held[c] = NoPayload
  BY DEF Exclusion, HandEmpty, EnqueuePC
<1>2. p \notin submitted /\ submitted' = submitted \cup {p} /\ runs[p] = 0 /\ p \notin returned
  BY DEF PlaceInv, DonePlace
<1>3. ~Queued(p) /\ \A w \in Workers : ~InSlot(w, p)
  BY DEF PlaceInv, QueuePlace, SlotPlace, Untouched
<1>4. \A d \in Callers, q \in Payloads : InHand(d, q)' <=> InHand(d, q) \/ (d = c /\ q = p)
  BY <1>1, PoolAssumption DEF InHand, BaseInv, TypeOK, PlacesOK, WordsOK
<1>5. \A q \in Payloads : /\ Queued(q)' = Queued(q)
                          /\ Untouched(q) => Untouched(q)'
                          /\ \A w \in Workers : InSlot(w, q)' = InSlot(w, q)
  BY DEF Queued, Untouched, InSlot
<1>6. Untouched(p)'
  BY <1>2 DEF Untouched
<1>7. CallerPlace' /\ QueuePlace'
  BY <1>3, <1>4, <1>5, <1>6 DEF PlaceInv, CallerPlace, QueuePlace
<1>8. SlotPlace' /\ DonePlace'
  BY <1>5, <1>2 DEF PlaceInv, SlotPlace, DonePlace, BaseInv, TypeOK, PlacesOK
<1>9. NeverDropped'
  BY <1>4, <1>5, <1>2 DEF PlaceInv, NeverDropped, BaseInv, TypeOK, HistoryOK
<1> QED BY <1>7, <1>8, <1>9 DEF PlaceInv

\* enqueue_task hands the payload to a slot or to the queue, or moves nothing.
LEMMA PlaceEnqueueStep ==
  ASSUME OneCaller, OneInv, NEW c \in Producers, EnqueueStep(c)
  PROVE  PlaceInv'
<1> USE PCSets DEF OneInv, flagVars, poolVars, workVars, tickVars, histVars, Goto
<1>0. c \in Callers /\ c \notin Workers
  OBVIOUS
<1>h. \A d \in Callers, q \in Payloads : InHand(d, q) => d = c
  BY PoolAssumption DEF InHand, Exclusion, HandEmpty, WorkersOut, OneCaller
<1>1. CASE CheckTicking(c) \/ ScanSlot(c) \/ PutF(c) \/ PutArgs(c)
  <2>1. /\ UNCHANGED <<tfPayload, pq, held, submitted, runs, returned>>
        /\ \A d \in Callers : pc'[d] = "mark" <=> pc[d] = "mark"
        /\ \A w \in Workers : pc'[w] = "call" <=> pc[w] = "call"
    BY <1>1, <1>0 DEF CheckTicking, ScanSlot, PutF, PutArgs, BaseInv, TypeOK, PlacesOK
  <2>2. \A w \in Workers : tfPayload[w] => current_payload'[w].args = current_payload[w].args
    BY <1>1 DEF CheckTicking, ScanSlot, PutF, PutArgs, Exclusion, CallerSlotFree, BaseInv, TypeOK, SlotsOK, IdxOK
  <2> QED BY <2>1, <2>2, PlaceFrame
<1>2. CASE SetPayload(c)
  <2> USE <1>2 DEF SetPayload
  <2>1. /\ idx[c] \in Workers /\ held[c] \in Payloads /\ ~tfPayload[idx[c]]
        /\ current_payload[idx[c]].args = held[c] /\ InHand(c, held[c])
    BY DEF BaseInv, IdxOK, HeldOK, Exclusion, CallerSlotFree, WordInv, CallerWords, InHand, EnqueuePC
  <2>2. \A d \in Callers, q \in Payloads : ~InHand(d, q)'
    BY <1>h, PoolAssumption DEF InHand, BaseInv, TypeOK, PlacesOK, WordsOK
  <2>3. \A q \in Payloads : Queued(q)' = Queued(q) /\ Untouched(q)' = Untouched(q)
    BY DEF Queued, Untouched
  <2>4. \A w \in Workers, q \in Payloads : InSlot(w, q)' <=> InSlot(w, q) \/ (w = idx[c] /\ q = held[c])
    BY <2>1 DEF InSlot, BaseInv, TypeOK, FlagsOK
  <2>5. Untouched(held[c]) /\ ~Queued(held[c]) /\ \A w \in Workers : ~InSlot(w, held[c])
    BY <2>1 DEF PlaceInv, CallerPlace
  <2>6. pc[idx[c]] # "call"
    BY <2>1 DEF WordInv, WorkerWords
  <2>7. CallerPlace' /\ QueuePlace'
    BY <2>2, <2>3, <2>4, <2>5 DEF PlaceInv, CallerPlace, QueuePlace
  <2>8. SlotPlace'
    BY <2>1, <2>4, <2>5, <2>6, <1>0 DEF PlaceInv, SlotPlace, Untouched, InSlot, BaseInv, TypeOK, PlacesOK
  <2>9. DonePlace'
    BY DEF PlaceInv, DonePlace
  <2>10. NeverDropped'
    BY <2>1, <2>3, <2>4, <1>h DEF PlaceInv, NeverDropped, BaseInv, TypeOK, HistoryOK, InHand
  <2> QED BY <2>7, <2>8, <2>9, <2>10 DEF PlaceInv
<1>3. CASE PushBack(c)
  <2> USE <1>3 DEF PushBack
  <2>1. held[c] \in Payloads /\ InHand(c, held[c]) /\ pq \in Seq(Payloads)
    BY DEF BaseInv, TypeOK, QueueOK, HeldOK, InHand, EnqueuePC
  <2>2. \A d \in Callers, q \in Payloads : ~InHand(d, q)'
    BY <1>h, <1>0 DEF InHand, BaseInv, TypeOK, PlacesOK
  <2>3. \A q \in Payloads : Queued(q)' <=> Queued(q) \/ q = held[c]
    BY <2>1 DEF Queued
  <2>4. \A w \in Workers, q \in Payloads : InSlot(w, q)' = InSlot(w, q)
    BY DEF InSlot
  <2>5. Untouched(held[c]) /\ ~Queued(held[c]) /\ \A w \in Workers : ~InSlot(w, held[c])
    BY <2>1 DEF PlaceInv, CallerPlace
  <2>6. CallerPlace'
    BY <2>2 DEF CallerPlace
  <2>7. QueuePlace'
    <3>1. \A q \in Payloads : Untouched(q)' = Untouched(q)
      BY DEF Untouched
    <3>2. \A i, j \in DOMAIN pq' : pq'[i] = pq'[j] => i = j
      BY <2>1, <2>5 DEF PlaceInv, QueuePlace, Queued
    <3> QED BY <3>1, <3>2, <2>3, <2>4, <2>5 DEF PlaceInv, QueuePlace
  <2>8. SlotPlace' /\ DonePlace'
    BY <2>4, <1>0 DEF PlaceInv, SlotPlace, DonePlace, BaseInv, TypeOK, PlacesOK
  <2>9. NeverDropped'
    BY <2>1, <2>3, <2>4, <1>h DEF PlaceInv, NeverDropped, BaseInv, TypeOK, HistoryOK, InHand
  <2> QED BY <2>6, <2>7, <2>8, <2>9 DEF PlaceInv
<1>4. CASE MarkTicking(c)
  <2> USE <1>4 DEF MarkTicking
  <2>1. \A d \in Callers, q \in Payloads : ~InHand(d, q) /\ ~InHand(d, q)'
    BY <1>h, <1>0, PoolAssumption DEF InHand, BaseInv, TypeOK, PlacesOK, WordsOK
  <2>2. \A q \in Payloads : Queued(q)' = Queued(q) /\ Untouched(q)' = Untouched(q)
    BY DEF Queued, Untouched
  <2>3. \A w \in Workers, q \in Payloads : InSlot(w, q)' = InSlot(w, q)
    BY DEF InSlot
  <2>4. CallerPlace' /\ QueuePlace'
    BY <2>1, <2>2, <2>3 DEF PlaceInv, CallerPlace, QueuePlace
  <2>5. SlotPlace' /\ DonePlace'
    BY <2>3, <1>0 DEF PlaceInv, SlotPlace, DonePlace, BaseInv, TypeOK, PlacesOK
  <2>6. NeverDropped'
    BY <2>1, <2>2, <2>3 DEF PlaceInv, NeverDropped, BaseInv, TypeOK, HistoryOK
  <2> QED BY <2>4, <2>5, <2>6 DEF PlaceInv
<1> QED BY <1>1, <1>2, <1>3, <1>4 DEF EnqueueStep

\* A worker calls the payload in its slot once and takes it out when it returns.
LEMMA PlaceWorkerStep ==
  ASSUME OneCaller, OneInv, NEW w \in Workers, Poll(w) \/ LoadF(w) \/ CallPayload(w) \/ UnsetPayload(w)
  PROVE  PlaceInv'
<1> USE PCSets DEF OneInv, flagVars, poolVars, workVars, tickVars, histVars, Goto
<1>0. w \in Callers /\ w \notin Producers /\ pc \in [Callers -> ProducerPC \cup WorkerPC]
  BY DEF BaseInv, TypeOK, PlacesOK
<1>1. CASE Poll(w) \/ LoadF(w)
  <2>1. /\ UNCHANGED <<tfPayload, pq, held, submitted, runs, returned, current_payload>>
        /\ \A d \in Callers : pc'[d] = "mark" <=> pc[d] = "mark"
        /\ \A v \in Workers : pc'[v] = "call" <=> pc[v] = "call"
    BY <1>1, <1>0 DEF Poll, LoadF
  <2> QED BY <2>1, PlaceFrame
<1>2. CASE CallPayload(w)
  <2> USE <1>2 DEF CallPayload
  <2> DEFINE a == current_payload[w].args
  <2>1. tfPayload[w] /\ a \in Payloads /\ InSlot(w, a) /\ pc[w] # "call"
    BY DEF WordInv, WorkerWords, SlotWords, InSlot
  <2>2. a \in submitted /\ a \notin returned /\ runs[a] = 0 /\ \A v \in Workers : InSlot(v, a) => v = w
    BY <2>1 DEF PlaceInv, SlotPlace
  <2>3. \A q \in Payloads : runs'[q] = IF q = a THEN 1 ELSE runs[q]
    BY <2>2
  <2>4. /\ \A d \in Callers, q \in Payloads : InHand(d, q)' = InHand(d, q)
        /\ \A q \in Payloads : Queued(q)' = Queued(q)
        /\ \A v \in Workers, q \in Payloads : InSlot(v, q)' = InSlot(v, q)
    BY <1>0 DEF InHand, Queued, InSlot
  <2>5. \A q \in Payloads : Untouched(q)' <=> Untouched(q) /\ q # a
    BY <2>3 DEF Untouched
  <2>6. CallerPlace' /\ QueuePlace'
    BY <2>1, <2>4, <2>5 DEF PlaceInv, CallerPlace, QueuePlace
  <2>7. SlotPlace'
    BY <2>1, <2>2, <2>3, <2>4, <1>0 DEF PlaceInv, SlotPlace, InSlot
  <2>8. DonePlace'
    BY <2>2, <2>3 DEF PlaceInv, DonePlace
  <2>9. NeverDropped'
    BY <2>4 DEF PlaceInv, NeverDropped, BaseInv, TypeOK, HistoryOK
  <2> QED BY <2>6, <2>7, <2>8, <2>9 DEF PlaceInv
<1>3. CASE UnsetPayload(w)
  <2> USE <1>3 DEF UnsetPayload
  <2> DEFINE a == arg[w]
  <2>1. tfPayload[w] /\ a \in Payloads /\ InSlot(w, a) /\ a = current_payload[w].args
    BY DEF WordInv, WorkerWords, SlotWords, InSlot
  <2>2. a \in submitted /\ a \notin returned /\ runs[a] = 1 /\ \A v \in Workers : InSlot(v, a) => v = w
    BY <2>1 DEF PlaceInv, SlotPlace
  <2>3. returned' = returned \cup {a}
    BY <2>1
  <2>4. /\ \A d \in Callers, q \in Payloads : InHand(d, q)' = InHand(d, q)
        /\ \A q \in Payloads : Queued(q)' = Queued(q)
        /\ \A v \in Workers, q \in Payloads : InSlot(v, q)' <=> InSlot(v, q) /\ v # w
    BY <1>0 DEF InHand, Queued, InSlot, BaseInv, TypeOK, FlagsOK
  <2>5. \A q \in Payloads : Untouched(q)' = Untouched(q)
    BY <2>2, <2>3 DEF Untouched
  <2>6. CallerPlace' /\ QueuePlace'
    BY <2>4, <2>5 DEF PlaceInv, CallerPlace, QueuePlace
  <2>7. SlotPlace'
    BY <2>1, <2>2, <2>3, <2>4, <1>0 DEF PlaceInv, SlotPlace
  <2>8. DonePlace'
    BY <2>2, <2>3 DEF PlaceInv, DonePlace
  <2>9. NeverDropped'
    <3> SUFFICES ASSUME NEW q \in submitted \ returned' PROVE
          \/ \E d \in Callers : InHand(d, q)'
          \/ Queued(q)'
          \/ \E v \in Workers : InSlot(v, q)'
      BY DEF NeverDropped
    <3>1. q \in Payloads /\ q \notin returned /\ q # a
      BY <2>3 DEF BaseInv, TypeOK, HistoryOK
    <3>2. ~InSlot(w, q)
      BY <2>1, <3>1 DEF InSlot
    <3> QED BY <2>4, <3>1, <3>2 DEF PlaceInv, NeverDropped
  <2> QED BY <2>6, <2>7, <2>8, <2>9 DEF PlaceInv
<1> QED BY <1>1, <1>2, <1>3

\* tick() moves the front of the queue into a slot, or moves nothing.
LEMMA PlaceTickStep ==
  ASSUME OneInv, TickStep
  PROVE  PlaceInv'
<1> USE DEF OneInv, flagVars, poolVars, callVars, workVars, tickVars, histVars, TickGoto
<1>1. ASSUME FastSet \/ SlowSet PROVE PlaceInv'
  <2>1. /\ tfPayload' = [tfPayload EXCEPT ![ti] = TRUE] /\ pq' = Tail(pq)
        /\ UNCHANGED <<current_payload, pc, held, submitted, runs, returned>>
    BY <1>1 DEF FastSet, SlowSet
  <2>2. tpc \in {"fastSet", "slowSet"} /\ pq \in Seq(Payloads) /\ pq # <<>> /\ ti \in Workers
    BY <1>1, TickSlots DEF FastSet, SlowSet, BaseInv, TypeOK, QueueOK, TickOK, FrontDefined, TakingFront, TiOK, Filling
  <2> DEFINE h == Head(pq)
  <2>3. h \in Payloads /\ Queued(h) /\ ~tfPayload[ti] /\ current_payload[ti].args = h /\ pc[ti] # "call"
    BY <2>2, FrontAndRest DEF Queued, Exclusion, TickSlotFree, Filling, WordInv, TickWords, WorkerWords
  <2>4. Untouched(h) /\ \A w \in Workers : ~InSlot(w, h)
    BY <2>3 DEF PlaceInv, QueuePlace
  <2>5. \A q \in Payloads : Queued(q)' <=> Queued(q) /\ q # h
    <3>1. \A i \in DOMAIN pq : pq[i] = pq[1] => i = 1
      BY <2>2 DEF PlaceInv, QueuePlace
    <3>2. /\ DOMAIN pq = 1 .. Len(pq) /\ DOMAIN pq' = 1 .. Len(pq) - 1 /\ Len(pq) \in Nat \ {0}
          /\ h = pq[1] /\ \A i \in 1 .. Len(pq) - 1 : pq'[i] = pq[i + 1]
      BY <2>1, <2>2, FrontAndRest
    <3>3. ASSUME NEW q \in Payloads, NEW i \in DOMAIN pq', pq'[i] = q PROVE Queued(q) /\ q # h
      <4>1. i + 1 \in DOMAIN pq /\ pq[i + 1] = q /\ i + 1 # 1
        BY <3>2, <3>3
      <4> QED BY <4>1, <3>1, <3>2 DEF Queued
    <3>4. ASSUME NEW q \in Payloads, q # h, NEW i \in DOMAIN pq, pq[i] = q PROVE Queued(q)'
      <4>1. i - 1 \in DOMAIN pq' /\ pq'[i - 1] = q
        BY <3>2, <3>4
      <4> QED BY <4>1 DEF Queued
    <3> QED BY <3>3, <3>4 DEF Queued
  <2>6. \A w \in Workers, q \in Payloads : InSlot(w, q)' <=> InSlot(w, q) \/ (w = ti /\ q = h)
    BY <2>1, <2>2, <2>3 DEF InSlot, BaseInv, TypeOK, FlagsOK
  <2>7. /\ \A d \in Callers, q \in Payloads : InHand(d, q)' = InHand(d, q)
        /\ \A q \in Payloads : Untouched(q)' = Untouched(q)
    BY <2>1 DEF InHand, Untouched
  <2>8. CallerPlace'
    BY <2>3, <2>5, <2>6, <2>7 DEF PlaceInv, CallerPlace
  <2>9. QueuePlace'
    <3>1. \A i, j \in DOMAIN pq' : pq'[i] = pq'[j] => i = j
      BY <2>1, <2>2, FrontAndRest DEF PlaceInv, QueuePlace
    <3> QED BY <3>1, <2>5, <2>6, <2>7 DEF PlaceInv, QueuePlace
  <2>10. SlotPlace'
    BY <2>1, <2>3, <2>4, <2>6 DEF PlaceInv, SlotPlace, Untouched
  <2>11. DonePlace'
    BY <2>1 DEF PlaceInv, DonePlace
  <2>12. NeverDropped'
    BY <2>1, <2>2, <2>3, <2>5, <2>6, <2>7 DEF PlaceInv, NeverDropped, BaseInv, TypeOK, HistoryOK
  <2> QED BY <2>8, <2>9, <2>10, <2>11, <2>12 DEF PlaceInv
<1>2. ASSUME ~FastSet, ~SlowSet PROVE PlaceInv'
  <2>1. UNCHANGED <<tfPayload, pq, held, pc, submitted, runs, returned>>
    BY <1>2 DEF TickStep, TickLoop, TickPoll, TickOuter, TickFast, FastScan, FastLock, FastArgs, SlowLock, TickSlow,
       SlowScan, SlowArgs, TickDone, TickHalt, TickJoin
  <2>2. \A w \in Workers : tfPayload[w] => current_payload'[w].args = current_payload[w].args
    <3>1. CASE FastArgs \/ SlowArgs
      BY <3>1 DEF FastArgs, SlowArgs, Exclusion, TickSlotFree, Filling, BaseInv, TypeOK, SlotsOK
    <3>2. CASE FastLock \/ SlowScan
      BY <3>2 DEF FastLock, SlowScan, BaseInv, TypeOK, SlotsOK
    <3>3. CASE UNCHANGED current_payload
      BY <3>3
    <3> QED BY <1>2, <3>1, <3>2, <3>3 DEF TickStep, TickLoop, TickPoll, TickOuter, TickFast, FastScan, SlowLock,
          TickSlow, TickDone, TickHalt, TickJoin
  <2> QED BY <2>1, <2>2, PlaceFrame
<1> QED BY <1>1, <1>2

\* With one caller OneInv is inductive.
LEMMA OneNext == OneCaller /\ OneInv /\ [Next]_vars => OneInv'
<1> SUFFICES ASSUME OneCaller, OneInv, [Next]_vars PROVE PlaceInv'
  BY BaseNext, ExclusionNext, WordNext DEF OneInv
<1>1. ASSUME NEW c \in Producers, BusyCall(c) \/ BusyStep(c) PROVE PlaceInv'
  <2>1. /\ UNCHANGED <<tfPayload, pq, held, submitted, runs, returned, current_payload>>
        /\ \A d \in Callers : pc'[d] = "mark" <=> pc[d] = "mark"
        /\ \A w \in Workers : pc'[w] = "call" <=> pc[w] = "call"
    BY <1>1, PCSets DEF BusyStep, BusyCall, BusyTicking, BusyScan, LeaveQuiet, Goto, flagVars, poolVars, histVars,
       OneInv, BaseInv, TypeOK, PlacesOK
  <2> QED BY <2>1, PlaceFrame DEF OneInv
<1>2. CASE Destroy \/ UNCHANGED vars
  <2>1. UNCHANGED <<tfPayload, pq, held, pc, submitted, runs, returned, current_payload>>
    BY <1>2 DEF Destroy, vars, flagVars, poolVars, callVars, histVars
  <2> QED BY <2>1, PlaceFrame DEF OneInv
<1> QED BY <1>1, <1>2, OneCallerSteps, PlaceEnqueue, PlaceEnqueueStep, PlaceWorkerStep, PlaceTickStep DEF OneInv

LEMMA OneInit == Init => OneInv
BY BaseInit, ExclusionInit, WordInit, PlaceInit DEF OneInv

\* A pool with one caller calls no payload twice and mixes no two payloads up.
THEOREM AtMostOnce ==
  ASSUME OneCaller
  PROVE  Spec => []CalledOnce
<1>1. OneInv => CalledOnce
  <2> SUFFICES ASSUME OneInv, NEW p \in Payloads PROVE runs[p] <= 1
    BY DEF CalledOnce, OneInv, WordInv
  <2>1. CASE p \notin submitted \/ p \in returned
    BY <2>1 DEF OneInv, PlaceInv, DonePlace
  <2>2. CASE p \in submitted \ returned
    BY <2>2 DEF OneInv, PlaceInv, NeverDropped, CallerPlace, QueuePlace, SlotPlace, Untouched
  <2> QED BY <2>1, <2>2
<1>2. OneInv /\ [Next]_vars => OneInv'
  BY OneNext
<1> QED BY <1>1, <1>2, OneInit, PTL DEF Spec

\* A pool with one caller never drops a payload.
THEOREM NothingDropped ==
  ASSUME OneCaller
  PROVE  Spec => []NeverDropped
<1>1. OneInv => NeverDropped
  BY DEF OneInv, PlaceInv
<1>2. OneInv /\ [Next]_vars => OneInv'
  BY OneNext
<1> QED BY <1>1, <1>2, OneInit, PTL DEF Spec

\* When busy() has told the one caller that the pool is idle, none of its
\* payloads is running or waiting in a slot.
THEOREM QuietIsNotRunning ==
  ASSUME OneCaller
  PROVE  Spec => []QuietMeansNotRunning
<1>1. OneInv => QuietMeansNotRunning
  <2> SUFFICES ASSUME OneInv, NEW c \in Producers, pc[c] = "quiet", NEW p \in submitted \ returned
               PROVE  Queued(p)
    BY DEF QuietMeansNotRunning
  <2>1. \A w \in Workers : ~InSlot(w, p)
    BY DEF OneInv, Exclusion, ProbedFree, InSlot
  <2>2. \A d \in Callers : ~InHand(d, p)
    BY PCSets, PoolAssumption DEF OneInv, Exclusion, HandEmpty, WorkersOut, OneCaller, InHand, EnqueuePC,
       BaseInv, TypeOK, HistoryOK
  <2> QED BY <2>1, <2>2 DEF OneInv, PlaceInv, NeverDropped
<1>2. OneInv /\ [Next]_vars => OneInv'
  BY OneNext
<1> QED BY <1>1, <1>2, OneInit, PTL DEF Spec

\* The contract of a pool with one caller: exactly the calls that were asked for.
THEOREM ExactCalls ==
  ASSUME OneCaller
  PROVE  Spec => []CallsExact
<1>1. CalledOnce /\ NeverDropped /\ QuietMeansNotRunning => CallsExact
  BY DEF CallsExact
<1> QED BY <1>1, AtMostOnce, NothingDropped, QuietIsNotRunning, PTL

\* The pool with one caller implements TaskPool: entering enqueue_task submits,
\* the worker's call runs, its return returns, and every other step stutters.
THEOREM Refinement ==
  ASSUME OneCaller
  PROVE  Spec => RefinesTaskPool
<1>1. Init => Contract!TaskInit
  BY DEF Init, Contract!TaskInit
<1>2. OneInv /\ [Next]_vars => [Contract!TaskNext]_(Contract!taskVars)
  <2> SUFFICES ASSUME OneInv, [Next]_vars PROVE Contract!TaskNext \/ UNCHANGED Contract!taskVars
    OBVIOUS
  <2>1. ASSUME NEW c \in Producers, NEW p \in Payloads, Enqueue(c, p) PROVE Contract!TaskNext
    <3>1. Contract!Submit(p)
      BY <2>1 DEF Enqueue, Contract!Submit
    <3> QED BY <3>1 DEF Contract!TaskNext
  <2>2. ASSUME NEW w \in Workers, CallPayload(w) PROVE Contract!TaskNext
    <3> DEFINE a == current_payload[w].args
    <3>1. a \in Payloads /\ a \in submitted /\ runs[a] = 0
      BY <2>2 DEF CallPayload, Goto, OneInv, WordInv, WorkerWords, SlotWords, PlaceInv, SlotPlace, InSlot
    <3>2. runs' = [runs EXCEPT ![a] = 1] /\ UNCHANGED <<submitted, returned>>
      <4>1. runs \in [Payloads -> Nat]
        BY DEF OneInv, BaseInv, TypeOK, HistoryOK
      <4>2. runs' = [p \in Payloads |-> IF p = a THEN runs[p] + 1 ELSE runs[p]] /\ UNCHANGED <<submitted, returned>>
        BY <2>2 DEF CallPayload
      <4>3. \A p \in Payloads : (IF p = a THEN runs[p] + 1 ELSE runs[p]) = IF p = a THEN 1 ELSE runs[p]
        BY <3>1
      <4>4. runs' = [p \in Payloads |-> IF p = a THEN 1 ELSE runs[p]]
        BY <4>2, <4>3
      <4> QED BY <4>1, <4>2, <4>4, <3>1
    <3>3. Contract!Run(a)
      BY <3>1, <3>2 DEF Contract!Run
    <3> QED BY <3>1, <3>3 DEF Contract!TaskNext
  <2>3. ASSUME NEW w \in Workers, UnsetPayload(w) PROVE Contract!TaskNext
    <3> DEFINE a == arg[w]
    <3>1. a \in Payloads /\ a \notin returned /\ runs[a] = 1
      BY <2>3 DEF UnsetPayload, Goto, OneInv, WordInv, WorkerWords, SlotWords, PlaceInv, SlotPlace, InSlot
    <3>2. returned' = returned \cup {a} /\ UNCHANGED <<submitted, runs>>
      BY <2>3, <3>1 DEF UnsetPayload
    <3>3. Contract!Return(a)
      BY <3>1, <3>2 DEF Contract!Return
    <3> QED BY <3>1, <3>3 DEF Contract!TaskNext
  <2>4. ASSUME NEW c \in Producers, EnqueueStep(c) \/ BusyCall(c) \/ BusyStep(c) PROVE UNCHANGED Contract!taskVars
    BY <2>4 DEF EnqueueStep, CheckTicking, ScanSlot, PutF, PutArgs, SetPayload, PushBack, MarkTicking, BusyStep, BusyCall,
       BusyTicking, BusyScan, LeaveQuiet, histVars, Contract!taskVars
  <2>5. ASSUME NEW w \in Workers, Poll(w) \/ LoadF(w) PROVE UNCHANGED Contract!taskVars
    BY <2>5 DEF Poll, LoadF, histVars, Contract!taskVars
  <2>6. CASE TickStep
    BY <2>6 DEF TickStep, TickLoop, TickPoll, TickOuter, TickFast, FastScan, FastLock, FastArgs, FastSet, SlowLock, TickSlow,
       SlowScan, SlowArgs, SlowSet, TickDone, TickHalt, TickJoin, histVars, Contract!taskVars
  <2>7. CASE Destroy \/ UNCHANGED vars
    BY <2>7 DEF Destroy, vars, histVars, Contract!taskVars
  <2> QED BY <2>1, <2>2, <2>3, <2>4, <2>5, <2>6, <2>7, OneCallerSteps DEF OneInv
<1>3. OneInv /\ [Next]_vars => OneInv'
  BY OneNext
<1> QED BY <1>1, <1>2, <1>3, OneInit, PTL DEF Spec, RefinesTaskPool, Contract!TaskSpec

-----------------------------------------------------------------------------
(* Many callers: even when several threads race for a slot and its words mix *)
(* two payloads, no null function is called, since a word once stored never   *)
(* becomes null again.                                                       *)

Filled(w) == current_payload[w].f # NoPayload /\ current_payload[w].args # NoPayload

FlagFilled == \A w \in Workers : tfPayload[w] => Filled(w)
CallerFilled ==
  \A c \in Callers :
    /\ pc[c] \in {"putArgs", "set"} => current_payload[idx[c]].f # NoPayload
    /\ pc[c] = "set" => current_payload[idx[c]].args # NoPayload
TickFilled ==
  /\ tpc \in {"fastArgs", "fastSet", "slowArgs", "slowSet"} => current_payload[ti].f # NoPayload
  /\ tpc \in {"fastSet", "slowSet"} => current_payload[ti].args # NoPayload
\* A worker inside its payload's own enqueue_task still holds what it loaded.
WorkerFilled ==
  \A w \in Workers :
    /\ pc[w] \in {"loadF", "loadArgs"} => Filled(w)
    /\ pc[w] \notin {"loop", "loadF", "exit"} => fn[w] # NoPayload
    /\ pc[w] \notin {"loop", "loadF", "loadArgs", "exit"} => arg[w] # NoPayload

NullInv == FlagFilled /\ CallerFilled /\ TickFilled /\ WorkerFilled

LEMMA NullInit == Init => NullInv
<1> SUFFICES ASSUME Init PROVE NullInv
  OBVIOUS
<1>1. FlagFilled /\ TickFilled
  BY DEF Init, FlagFilled, TickFilled
<1>2. CallerFilled /\ WorkerFilled
  BY PCSets DEF Init, CallerFilled, WorkerFilled
<1> QED BY <1>1, <1>2 DEF NullInv

\* A word of a slot that holds part of a payload always will.
LEMMA WordsStay ==
  ASSUME BaseInv, [Next]_vars, NEW w \in Workers
  PROVE  /\ current_payload[w].f # NoPayload => current_payload'[w].f # NoPayload
         /\ current_payload[w].args # NoPayload => current_payload'[w].args # NoPayload
<1> USE PoolAssumption DEF BaseInv, TypeOK, SlotsOK
<1>1. CASE UNCHANGED current_payload
  BY <1>1
<1>2. ASSUME NEW c \in Callers, PutF(c) \/ PutArgs(c)
      PROVE  \E p \in Payloads, i \in Workers :
               \/ current_payload' = [current_payload EXCEPT ![i].f = p]
               \/ current_payload' = [current_payload EXCEPT ![i].args = p]
  BY <1>2 DEF PutF, PutArgs, Goto, HeldOK, IdxOK, EnqueuePC
<1>3. ASSUME FastLock \/ FastArgs \/ SlowArgs \/ (SlowScan /\ ~UNCHANGED current_payload)
      PROVE  \E p \in Payloads, i \in Workers :
               \/ current_payload' = [current_payload EXCEPT ![i].f = p]
               \/ current_payload' = [current_payload EXCEPT ![i].args = p]
  <2>1. Head(pq) \in Payloads
    BY <1>3, FrontAndRest DEF FastLock, FastArgs, SlowArgs, SlowScan, TickGoto, FrontDefined, TakingFront, QueueOK
  <2>2. ti \in Workers
    BY <1>3, TickSlots DEF FastLock, FastArgs, SlowArgs, SlowScan, TickGoto, TiOK, Filling, TickOK
  <2> QED BY <1>3, <2>1, <2>2 DEF FastLock, FastArgs, SlowArgs, SlowScan
<1>4. \/ UNCHANGED current_payload
      \/ \E c \in Callers : PutF(c) \/ PutArgs(c)
      \/ FastLock \/ FastArgs \/ SlowArgs \/ SlowScan
  <2>1. ASSUME NEW c \in Producers, ProducerCall(c) \/ BusyStep(c) PROVE UNCHANGED current_payload
    BY <2>1 DEF ProducerCall, Enqueue, BusyStep, BusyCall, BusyTicking, BusyScan, LeaveQuiet, poolVars
  <2>2. ASSUME NEW c \in Callers, EnqueueStep(c) PROVE UNCHANGED current_payload \/ PutF(c) \/ PutArgs(c)
    BY <2>2 DEF EnqueueStep, CheckTicking, ScanSlot, SetPayload, PushBack, MarkTicking, poolVars
  <2>3. ASSUME NEW v \in Workers, WorkerStep(v) PROVE UNCHANGED current_payload
    BY <2>3 DEF WorkerStep, Poll, LoadF, CallPayload, UnsetPayload, SpawnTask, Enqueue, poolVars
  <2>4. CASE TickStep
    BY <2>4 DEF TickStep, TickLoop, TickPoll, TickOuter, TickFast, FastScan, FastSet, SlowLock, TickSlow, SlowSet,
       TickDone, TickHalt, TickJoin, poolVars
  <2>5. CASE Destroy \/ UNCHANGED vars
    BY <2>5 DEF Destroy, vars, poolVars
  <2> QED BY <2>1, <2>2, <2>3, <2>4, <2>5 DEF Next
<1>5. ASSUME NEW p \in Payloads, NEW i \in Workers,
             \/ current_payload' = [current_payload EXCEPT ![i].f = p]
             \/ current_payload' = [current_payload EXCEPT ![i].args = p]
      PROVE  /\ current_payload[w].f # NoPayload => current_payload'[w].f # NoPayload
             /\ current_payload[w].args # NoPayload => current_payload'[w].args # NoPayload
  BY <1>5
<1> QED BY <1>1, <1>2, <1>3, <1>4, <1>5

\* A step that sets no flag and moves no worker or caller keeps their part of it.
LEMMA NullFrame ==
  ASSUME BaseInv, NullInv, [Next]_vars, UNCHANGED <<tfPayload, pc, idx, fn, arg>>
  PROVE  FlagFilled' /\ CallerFilled' /\ WorkerFilled'
<1>1. \A w \in Workers : Filled(w) => Filled(w)'
  BY WordsStay DEF Filled
<1>2. FlagFilled' /\ WorkerFilled'
  BY <1>1 DEF NullInv, FlagFilled, WorkerFilled
<1>3. CallerFilled'
  BY WordsStay DEF NullInv, CallerFilled, BaseInv, IdxOK
<1> QED BY <1>2, <1>3

\* enqueue_task keeps NullInv.
LEMMA NullEnqueueStep ==
  ASSUME BaseInv, NullInv, [Next]_vars, NEW c \in Callers, EnqueueStep(c)
  PROVE  NullInv'
<1> USE PCSets, PoolAssumption DEF flagVars, poolVars, callVars, workVars, tickVars, histVars, BaseInv, TypeOK, Goto, TickGoto
<1> USE DEF NullInv, FlagFilled, CallerFilled, TickFilled, WorkerFilled, Filled
<1>w. \A v \in Workers : /\ current_payload[v].f # NoPayload => current_payload'[v].f # NoPayload
                      /\ current_payload[v].args # NoPayload => current_payload'[v].args # NoPayload
  BY WordsStay
<1> USE <1>w
<1> USE DEF Caller
<1>1. CASE CheckTicking(c)
  BY <1>1 DEF CheckTicking, FlagsOK, SlotsOK, PlacesOK, WordsOK, HeldOK, IdxOK, EnqueuePC
<1>2. CASE ScanSlot(c)
  BY <1>2 DEF ScanSlot, FlagsOK, SlotsOK, PlacesOK, WordsOK, HeldOK, IdxOK, EnqueuePC
<1>3. CASE PutF(c)
  BY <1>3 DEF PutF, FlagsOK, SlotsOK, PlacesOK, WordsOK, HeldOK, IdxOK, EnqueuePC
<1>4. CASE PutArgs(c)
  BY <1>4 DEF PutArgs, FlagsOK, SlotsOK, PlacesOK, WordsOK, HeldOK, IdxOK, EnqueuePC
<1>5. CASE SetPayload(c)
  BY <1>5 DEF SetPayload, FlagsOK, SlotsOK, PlacesOK, WordsOK, HeldOK, IdxOK, EnqueuePC
<1>6. CASE PushBack(c)
  BY <1>6 DEF PushBack, FlagsOK, SlotsOK, PlacesOK, WordsOK, HeldOK, IdxOK, EnqueuePC
<1>7. CASE MarkTicking(c)
  BY <1>7 DEF MarkTicking, FlagsOK, SlotsOK, PlacesOK, WordsOK, HeldOK, IdxOK, EnqueuePC
<1> QED BY <1>1, <1>2, <1>3, <1>4, <1>5, <1>6, <1>7 DEF EnqueueStep

\* A worker's own steps keep NullInv.
LEMMA NullWorkerStep ==
  ASSUME BaseInv, NullInv, [Next]_vars, NEW w \in Workers, Poll(w) \/ LoadF(w) \/ CallPayload(w) \/ UnsetPayload(w)
  PROVE  NullInv'
<1> USE PCSets, PoolAssumption DEF flagVars, poolVars, callVars, workVars, tickVars, histVars, BaseInv, TypeOK, Goto, TickGoto
<1> USE DEF NullInv, FlagFilled, CallerFilled, TickFilled, WorkerFilled, Filled
<1>w. \A v \in Workers : /\ current_payload[v].f # NoPayload => current_payload'[v].f # NoPayload
                      /\ current_payload[v].args # NoPayload => current_payload'[v].args # NoPayload
  BY WordsStay
<1> USE <1>w
<1>1. CASE Poll(w)
  BY <1>1 DEF Poll, FlagsOK, SlotsOK, PlacesOK, WordsOK, HeldOK, IdxOK, EnqueuePC
<1>2. CASE LoadF(w)
  BY <1>2 DEF LoadF, FlagsOK, SlotsOK, PlacesOK, WordsOK, HeldOK, IdxOK, EnqueuePC
<1>3. CASE CallPayload(w)
  BY <1>3 DEF CallPayload, FlagsOK, SlotsOK, PlacesOK, WordsOK, HeldOK, IdxOK, EnqueuePC
<1>4. CASE UnsetPayload(w)
  BY <1>4 DEF UnsetPayload, FlagsOK, SlotsOK, PlacesOK, WordsOK, HeldOK, IdxOK, EnqueuePC
<1> QED BY <1>1, <1>2, <1>3, <1>4

\* busy() keeps NullInv.
LEMMA NullBusyStep ==
  ASSUME BaseInv, NullInv, [Next]_vars, NEW c \in Producers, BusyCall(c) \/ BusyStep(c)
  PROVE  NullInv'
<1> USE PCSets, PoolAssumption DEF flagVars, poolVars, callVars, workVars, tickVars, histVars, BaseInv, TypeOK, Goto, TickGoto
<1> USE DEF NullInv, FlagFilled, CallerFilled, TickFilled, WorkerFilled, Filled
<1>w. \A v \in Workers : /\ current_payload[v].f # NoPayload => current_payload'[v].f # NoPayload
                      /\ current_payload[v].args # NoPayload => current_payload'[v].args # NoPayload
  BY WordsStay
<1> USE <1>w
<1>1. CASE BusyCall(c)
  BY <1>1 DEF BusyCall, FlagsOK, SlotsOK, PlacesOK, WordsOK, HeldOK, IdxOK, EnqueuePC
<1>2. CASE BusyTicking(c)
  BY <1>2 DEF BusyTicking, FlagsOK, SlotsOK, PlacesOK, WordsOK, HeldOK, IdxOK, EnqueuePC
<1>3. CASE BusyScan(c)
  BY <1>3 DEF BusyScan, FlagsOK, SlotsOK, PlacesOK, WordsOK, HeldOK, IdxOK, EnqueuePC
<1>4. CASE LeaveQuiet(c)
  BY <1>4 DEF LeaveQuiet, FlagsOK, SlotsOK, PlacesOK, WordsOK, HeldOK, IdxOK, EnqueuePC
<1> QED BY <1>1, <1>2, <1>3, <1>4 DEF BusyStep

\* tick() keeps NullInv.
LEMMA NullTickStep ==
  ASSUME BaseInv, NullInv, [Next]_vars, TickStep
  PROVE  NullInv'
<1> USE PCSets, PoolAssumption DEF flagVars, poolVars, callVars, workVars, tickVars, histVars, BaseInv, TypeOK, Goto, TickGoto
<1> USE DEF NullInv, FlagFilled, CallerFilled, TickFilled, WorkerFilled, Filled
<1>w. \A v \in Workers : /\ current_payload[v].f # NoPayload => current_payload'[v].f # NoPayload
                      /\ current_payload[v].args # NoPayload => current_payload'[v].args # NoPayload
  BY WordsStay
<1> USE <1>w
<1>1. CASE TickLoop
  BY <1>1, TickSlots, FrontAndRest DEF TickLoop, FlagsOK, SlotsOK, TickOK, TiOK, Filling, QueueOK, FrontDefined, TakingFront, PlacesOK, IdxOK
<1>2. CASE TickPoll
  BY <1>2, TickSlots, FrontAndRest DEF TickPoll, FlagsOK, SlotsOK, TickOK, TiOK, Filling, QueueOK, FrontDefined, TakingFront, PlacesOK, IdxOK
<1>3. CASE TickOuter
  BY <1>3, TickSlots, FrontAndRest DEF TickOuter, FlagsOK, SlotsOK, TickOK, TiOK, Filling, QueueOK, FrontDefined, TakingFront, PlacesOK, IdxOK
<1>4. CASE TickFast
  BY <1>4, TickSlots, FrontAndRest DEF TickFast, FlagsOK, SlotsOK, TickOK, TiOK, Filling, QueueOK, FrontDefined, TakingFront, PlacesOK, IdxOK
<1>5. CASE FastScan
  BY <1>5, TickSlots, FrontAndRest DEF FastScan, FlagsOK, SlotsOK, TickOK, TiOK, Filling, QueueOK, FrontDefined, TakingFront, PlacesOK, IdxOK
<1>6. CASE FastLock
  BY <1>6, TickSlots, FrontAndRest DEF FastLock, FlagsOK, SlotsOK, TickOK, TiOK, Filling, QueueOK, FrontDefined, TakingFront, PlacesOK, IdxOK
<1>7. CASE FastArgs
  BY <1>7, TickSlots, FrontAndRest DEF FastArgs, FlagsOK, SlotsOK, TickOK, TiOK, Filling, QueueOK, FrontDefined, TakingFront, PlacesOK, IdxOK
<1>8. CASE FastSet
  BY <1>8, TickSlots, FrontAndRest DEF FastSet, FlagsOK, SlotsOK, TickOK, TiOK, Filling, QueueOK, FrontDefined, TakingFront, PlacesOK, IdxOK
<1>9. CASE SlowLock
  BY <1>9, TickSlots, FrontAndRest DEF SlowLock, FlagsOK, SlotsOK, TickOK, TiOK, Filling, QueueOK, FrontDefined, TakingFront, PlacesOK, IdxOK
<1>10. CASE TickSlow
  BY <1>10, TickSlots, FrontAndRest DEF TickSlow, FlagsOK, SlotsOK, TickOK, TiOK, Filling, QueueOK, FrontDefined, TakingFront, PlacesOK, IdxOK
<1>11. CASE SlowScan
  <2>f. UNCHANGED <<tfPayload, pc, idx, fn, arg>>
    BY <1>11 DEF SlowScan
  <2>1. FlagFilled' /\ CallerFilled' /\ WorkerFilled'
    BY <2>f, NullFrame
  <2>2. CASE tpc' # "slowArgs"
    BY <1>11, <2>1, <2>2 DEF SlowScan
  <2>3. CASE ti < TickThreads /\ current_payload' = [current_payload EXCEPT ![ti].f = Head(pq)] /\ tpc' = "slowArgs" /\ ti' = ti
    <3>1. Head(pq) \in Payloads /\ ti \in Workers
      BY <1>11, <2>3, TickSlots, FrontAndRest DEF SlowScan, TickOK, QueueOK, FrontDefined, TakingFront
    <3>2. current_payload'[ti'].f # NoPayload
      BY <2>3, <3>1 DEF SlotsOK
    <3> QED BY <2>1, <2>3, <3>2
  <2> QED BY <1>11, <2>2, <2>3 DEF SlowScan
<1>12. CASE SlowArgs
  BY <1>12, TickSlots, FrontAndRest DEF SlowArgs, FlagsOK, SlotsOK, TickOK, TiOK, Filling, QueueOK, FrontDefined, TakingFront, PlacesOK, IdxOK
<1>13. CASE SlowSet
  BY <1>13, TickSlots, FrontAndRest DEF SlowSet, FlagsOK, SlotsOK, TickOK, TiOK, Filling, QueueOK, FrontDefined, TakingFront, PlacesOK, IdxOK
<1>14. CASE TickDone
  BY <1>14, TickSlots, FrontAndRest DEF TickDone, FlagsOK, SlotsOK, TickOK, TiOK, Filling, QueueOK, FrontDefined, TakingFront, PlacesOK, IdxOK
<1>15. CASE TickHalt
  BY <1>15, TickSlots, FrontAndRest DEF TickHalt, FlagsOK, SlotsOK, TickOK, TiOK, Filling, QueueOK, FrontDefined, TakingFront, PlacesOK, IdxOK
<1>16. CASE TickJoin
  BY <1>16, TickSlots, FrontAndRest DEF TickJoin, FlagsOK, SlotsOK, TickOK, TiOK, Filling, QueueOK, FrontDefined, TakingFront, PlacesOK, IdxOK
<1> QED BY <1>1, <1>2, <1>3, <1>4, <1>5, <1>6, <1>7, <1>8, <1>9, <1>10, <1>11, <1>12, <1>13, <1>14, <1>15, <1>16 DEF TickStep

\* No worker ever calls a null payload, however many threads fill slots.
THEOREM NullNeverCalled == Spec => []NoNullCall
<1>1. BaseInv /\ NullInv /\ [Next]_vars => NullInv'
  <2> SUFFICES ASSUME BaseInv, NullInv, [Next]_vars PROVE NullInv'
    OBVIOUS
  <2>1. ASSUME NEW c \in Callers, NEW p \in Payloads, Enqueue(c, p), pc[c] \in {"out", "call"} PROVE NullInv'
    BY <2>1, PCSets DEF Enqueue, BaseInv, TypeOK, PlacesOK, NullInv, FlagFilled, CallerFilled, TickFilled, WorkerFilled,
       Filled, flagVars, poolVars, workVars, tickVars
  <2>2. ASSUME NEW c \in Producers, ProducerCall(c) PROVE NullInv'
    BY <2>1, <2>2, NullBusyStep, PCSets DEF ProducerCall
  <2>3. ASSUME NEW w \in Workers, WorkerStep(w) PROVE NullInv'
    BY <2>1, <2>3, NullWorkerStep, PCSets DEF WorkerStep, SpawnTask
  <2>4. CASE Destroy \/ UNCHANGED vars
    BY <2>4 DEF Destroy, vars, flagVars, poolVars, callVars, workVars, tickVars, NullInv, FlagFilled, CallerFilled,
       TickFilled, WorkerFilled, Filled
  <2> QED BY <2>2, <2>3, <2>4, NullEnqueueStep, NullBusyStep, NullTickStep DEF Next
<1>2. NullInv => NoNullCall
  BY DEF NullInv, WorkerFilled, NoNullCall
<1> QED BY <1>1, <1>2, BaseInit, BaseNext, NullInit, PTL DEF Spec

\* However many threads call enqueue_task, nothing undefined is taken or called.
THEOREM DefinedTakes == Spec => []TakesDefined
<1>1. FrontDefined /\ NoNullCall => TakesDefined
  BY DEF TakesDefined
<1> QED BY <1>1, FrontAlwaysDefined, NullNeverCalled, PTL


-----------------------------------------------------------------------------
(* The destructor: what tick() and the workers find once nobody submits. *)

\* No payload submits another, as where no procedure creates a trigger query.
NoneSpawn == \A p \in Payloads : Spawns[p] = {}

\* The number of threads survives the reduction to a uint8_t.
FitsByte == NThreads < Modulus

\* Workers stay out of enqueue_task, and so do the owners from the destructor on.
OutsideInv ==
  /\ \A w \in Workers : pc[w] \notin EnqueuePC
  /\ terminate => \A c \in Producers : pc[c] = "out"

\* A worker is told to stop after the last drain, and leaves with its slot empty.
StopInv ==
  /\ tpc \in {"halt", "join", "gone"} => terminate
  /\ \A w \in Workers : ~tfRunning[w] => tpc \in {"join", "gone"}
  /\ \A w \in Workers : pc[w] = "exit" => ~tfPayload[w] /\ ~tfRunning[w]
  /\ tpc = "gone" => \A w \in Workers : pc[w] = "exit"

JoinInv == OutsideInv /\ StopInv

LEMMA JoinInit == Init => JoinInv
<1> SUFFICES ASSUME Init PROVE JoinInv
  OBVIOUS
<1>1. terminate = FALSE /\ tpc = "loop" /\ \A w \in Workers : tfRunning[w]
  BY DEF Init
<1>2. \A w \in Workers : pc[w] = "loop"
  BY PCSets DEF Init
<1>3. OutsideInv
  BY <1>1, <1>2 DEF OutsideInv, EnqueuePC
<1>4. StopInv
  BY <1>1, <1>2 DEF StopInv
<1> QED BY <1>3, <1>4 DEF JoinInv

\* A caller inside enqueue_task is a producer, and the destructor has not been called.
LEMMA JoinEnqueueStep ==
  ASSUME BaseInv, JoinInv, NEW c \in Callers, EnqueueStep(c)
  PROVE  JoinInv'
<1>1. pc[c] \in EnqueuePC
  BY DEF EnqueueStep, CheckTicking, ScanSlot, PutF, PutArgs, SetPayload, PushBack, MarkTicking, Goto, EnqueuePC
<1>2. c \in Producers /\ ~terminate
  BY <1>1, PCSets DEF JoinInv, OutsideInv, EnqueuePC
<1>3. /\ UNCHANGED <<terminate, tpc, tfRunning>>
      /\ \A b \in Callers \ {c} : pc'[b] = pc[b]
  BY DEF EnqueueStep, CheckTicking, ScanSlot, PutF, PutArgs, SetPayload, PushBack, MarkTicking, Goto,
         flagVars, tickVars, BaseInv, TypeOK, PlacesOK
<1>4. \A w \in Workers : pc'[w] = pc[w]
  BY <1>2, <1>3, PCSets
<1>5. \A w \in Workers : tfRunning[w] /\ pc[w] # "exit"
  BY <1>2 DEF JoinInv, StopInv
<1>6. OutsideInv'
  BY <1>2, <1>3, <1>4 DEF JoinInv, OutsideInv
<1>7. StopInv'
  BY <1>2, <1>3, <1>4, <1>5 DEF JoinInv, StopInv
<1> QED BY <1>6, <1>7 DEF JoinInv

\* An owner's own steps come before the destructor.
LEMMA JoinOwnerStep ==
  ASSUME BaseInv, JoinInv, NEW c \in Producers, ProducerCall(c) \/ BusyStep(c)
  PROVE  JoinInv'
<1>1. ~terminate
  BY DEF ProducerCall, BusyStep, BusyTicking, BusyScan, LeaveQuiet, Goto, JoinInv, OutsideInv
<1>2. /\ UNCHANGED <<terminate, tpc, tfRunning, tfPayload>>
      /\ \A b \in Callers \ {c} : pc'[b] = pc[b]
  BY DEF ProducerCall, Enqueue, BusyCall, BusyStep, BusyTicking, BusyScan, LeaveQuiet, Goto, flagVars, tickVars,
         BaseInv, TypeOK, PlacesOK
<1>3. \A w \in Workers : pc'[w] = pc[w]
  BY <1>2, PCSets
<1> QED BY <1>1, <1>2, <1>3 DEF JoinInv, OutsideInv, StopInv

\* A worker clears only its own slot, and leaves only when told to.
LEMMA JoinWorkerStep ==
  ASSUME NoneSpawn, BaseInv, JoinInv, NEW w \in Workers, WorkerStep(w)
  PROVE  JoinInv'
<1>1. \A p \in Payloads : ~SpawnTask(w, p)
  BY DEF NoneSpawn, SpawnTask, SpawnsOf
<1>2. /\ UNCHANGED <<terminate, tpc, tfRunning>>
      /\ \A b \in Callers \ {w} : pc'[b] = pc[b]
      /\ pc'[w] \in {"loadF", "loadArgs", "call", "loop", "exit"} /\ pc[w] # "exit"
      /\ \A v \in Workers \ {w} : tfPayload'[v] = tfPayload[v]
      /\ pc'[w] = "exit" => tfPayload' = tfPayload /\ ~tfPayload[w] /\ ~tfRunning[w]
  BY <1>1, PCSets DEF WorkerStep, Poll, LoadF, CallPayload, UnsetPayload, Goto, flagVars, tickVars, BaseInv, TypeOK,
                      PlacesOK, FlagsOK
<1>3. \A v \in Workers \ {w} : pc'[v] = pc[v]
  BY <1>2, PCSets
<1>4. \A c \in Producers : pc'[c] = pc[c]
  BY <1>2, PCSets
<1>5. tpc # "gone"
  BY <1>2 DEF JoinInv, StopInv
<1>6. OutsideInv'
  BY <1>2, <1>3, <1>4 DEF JoinInv, OutsideInv, EnqueuePC
<1>7. StopInv'
  BY <1>2, <1>3, <1>5 DEF JoinInv, StopInv
<1> QED BY <1>6, <1>7 DEF JoinInv

\* tick() tells every worker to stop, waits for them, and touches no slot after that.
LEMMA JoinTickStep ==
  ASSUME FitsByte, BaseInv, JoinInv, TickStep
  PROVE  JoinInv'
<1>1. UNCHANGED <<terminate, pc>>
  BY DEF TickStep, TickLoop, TickPoll, TickOuter, TickFast, FastScan, FastLock, FastArgs, FastSet, SlowLock, TickSlow,
         SlowScan, SlowArgs, SlowSet, TickDone, TickHalt, TickJoin, callVars
<1>2. OutsideInv'
  BY <1>1 DEF JoinInv, OutsideInv
<1>3. CASE TickHalt \/ TickJoin
  <2>1. tfPayload' = tfPayload /\ terminate
    BY <1>3 DEF TickHalt, TickJoin, TickGoto, flagVars, JoinInv, StopInv
  <2>2. CASE TickHalt
    <3>1. tpc = "halt" /\ tpc' = "join" /\ tfRunning' = [w \in Workers |-> tfRunning[w] /\ w >= TickThreads]
      BY <2>2 DEF TickHalt, TickGoto
    <3>2. \A w \in Workers : ~tfRunning[w] => ~tfRunning'[w]
      BY <3>1
    <3> QED BY <1>1, <1>2, <2>1, <3>1, <3>2 DEF JoinInv, StopInv
  <2>3. CASE TickJoin
    <3>1. TickThreads = NThreads
      BY PoolAssumption DEF FitsByte, TickThreads
    <3>2. \A w \in Workers : w < TickThreads
      BY <3>1, PoolAssumption DEF Workers
    <3>3. \A w \in Workers : pc[w] = "exit"
      BY <2>3, <3>2 DEF TickJoin
    <3> QED BY <1>1, <1>2, <2>1, <2>3, <3>3 DEF TickJoin, TickGoto, flagVars, JoinInv, StopInv
  <2> QED BY <1>3, <2>2, <2>3
<1>4. CASE ~(TickHalt \/ TickJoin)
  <2>1. /\ tpc \notin {"join", "gone"} /\ tfRunning' = tfRunning
        /\ tpc' \notin {"join", "gone"} /\ (tpc' = "halt" => terminate)
    BY <1>4 DEF TickStep, TickLoop, TickPoll, TickOuter, TickFast, FastScan, FastLock, FastArgs, FastSet, SlowLock,
         TickSlow, SlowScan, SlowArgs, SlowSet, TickDone, TickGoto, flagVars
  <2>2. \A w \in Workers : tfRunning[w] /\ pc[w] # "exit"
    BY <2>1 DEF JoinInv, StopInv
  <2> QED BY <1>1, <1>2, <2>1, <2>2 DEF JoinInv, StopInv
<1> QED BY <1>3, <1>4

\* When the destructor returns every worker has left and every slot is empty, however many owners
\* submitted before: the stop flags are set after the last drain, by a loop that counts all the
\* workers (threading.cpp:41-85).
THEOREM JoinsCleanly ==
  ASSUME NoneSpawn, FitsByte
  PROVE  Spec => []CleanJoin
<1>1. BaseInv /\ JoinInv /\ [Next]_vars => JoinInv'
  <2> SUFFICES ASSUME BaseInv, JoinInv, [Next]_vars PROVE JoinInv'
    OBVIOUS
  <2>1. CASE Destroy
    BY <2>1 DEF Destroy, flagVars, callVars, tickVars, JoinInv, OutsideInv, StopInv
  <2>2. CASE UNCHANGED vars
    BY <2>2 DEF vars, flagVars, callVars, tickVars, JoinInv, OutsideInv, StopInv
  <2> QED BY <2>1, <2>2, JoinEnqueueStep, JoinOwnerStep, JoinWorkerStep, JoinTickStep DEF Next
<1>2. JoinInv => CleanJoin
  BY DEF JoinInv, StopInv, CleanJoin
<1> QED BY <1>1, <1>2, BaseInit, BaseNext, JoinInit, PTL DEF Spec
=============================================================================
