----------------------- MODULE GarbageCollectorProofs -----------------------
(* Proofs about GarbageCollector, for any number of threads and objects. *)
EXTENDS GarbageCollector, FiniteSetTheorems, TLAPS

\* A thread that alive_cnt counts.
InsidePC == {"size", "slot", "put", "leave"}
Inside(t) == rpc[t] \in InsidePC
Counted == alive_cnt = Cardinality({t \in Mutators : Inside(t)})

\* A thread that has not written its object yet.
Holds(t) == rpc[t] \in {"spin", "enter", "size", "slot", "put"}
HoldsOK == \A t \in Mutators : Holds(t) => obj[t] \in registered \ Small

\* Slots are numbered from 1, and gc() goes through those that were taken.
TakenOK == \A t \in Mutators : rpc[t] = "put" => rslot[t] >= 1
Locked == {"lock", "wait", "swap", "count"}
GcRange ==
  /\ dpc \in Locked => slot_pos >= 1
  /\ dpc \in {"reset", "clear", "unlock", "back", "free", "wipe"} => dslot >= 1
  /\ dpc = "free" => di \in 1 .. dslot
  /\ dpc = "wipe" => di = dslot + 1

\* An object is in one place at most, and one that was freed is in none but the part of the
\* retired queue that gc() has gone through.
OneHolder ==
  \A t, u \in Mutators : Holds(t) /\ Holds(u) /\ obj[t] = obj[u] => t = u
HeldNowhere ==
  \A t \in Mutators : Holds(t) =>
    freed[obj[t]] = 0 /\ \A b \in Queues, k \in Slots : cells[b][k] # obj[t]
OneCell ==
  \A b, c \in Queues, k, m \in Slots :
    cells[b][k] \in Objects /\ cells[b][k] = cells[c][m] => b = c /\ k = m
CellsRegistered ==
  \A b \in Queues, k \in Slots : cells[b][k] \in Objects => cells[b][k] \in registered \ Small
FreedGone ==
  \A b \in Queues, k \in Slots :
    cells[b][k] \in Objects =>
      \/ freed[cells[b][k]] = 0
      \/ freed[cells[b][k]] = 1 /\ b = dq /\ dpc \in {"free", "wipe"} /\ k < di
PlaceInv ==
  HoldsOK /\ OneHolder /\ HeldNowhere /\ OneCell /\ CellsRegistered /\ FreedGone /\ FreedOnce
-----------------------------------------------------------------------------
(* Types, and what alive_cnt counts. *)

LEMMA TypeInit == Init => TypeOK /\ Counted
<1> SUFFICES ASSUME Init PROVE TypeOK /\ Counted
  OBVIOUS
<1> USE CollectorAssumption DEF Init
<1>1. QueuesOK
  <2>1. cells \in [Queues -> [Slots -> Entries]]
    BY DEF Entries
  <2> QED BY <2>1 DEF QueuesOK, Queues
<1>2. SharedOK
  BY DEF SharedOK
<1>6. GcOK
  BY DEF GcOK, DaemonPC, Queues
<1>4. RegOK
  BY DEF RegOK, RegPC, Queues
<1>5. HistoryOK
  BY DEF HistoryOK
<1>3. Counted
  <2>1. {t \in Mutators : Inside(t)} = {}
    BY DEF Inside, InsidePC
  <2> QED BY <2>1, FS_EmptySet DEF Counted
<1> QED BY <1>1, <1>2, <1>3, <1>4, <1>5, <1>6 DEF TypeOK

\* Who is counted changes only in Enter and Leave, by the thread that takes the step.
LEMMA CountStep ==
  ASSUME TypeOK, Counted, [Next]_vars
  PROVE  Counted' /\ alive_cnt' \in Nat
<1> DEFINE S == {t \in Mutators : Inside(t)}
<1> USE DEF Inside, InsidePC, RegGoto
<1>0. /\ IsFiniteSet(S) /\ Cardinality(S) \in Nat /\ alive_cnt = Cardinality(S)
      /\ rpc \in [Mutators -> RegPC]
  BY CollectorAssumption, FS_Subset, FS_CardinalityType DEF Counted, TypeOK, RegOK
<1>1. ASSUME UNCHANGED <<alive_cnt>>, S' = S PROVE Counted' /\ alive_cnt' \in Nat
  BY <1>0, <1>1 DEF Counted
<1>2. ASSUME NEW t \in Mutators, NEW o \in Objects, RegSmall(t, o) \/ Reg(t, o)
      PROVE  Counted' /\ alive_cnt' \in Nat
  <2>1. alive_cnt' = alive_cnt /\ rpc' = [rpc EXCEPT ![t] = rpc'[t]]
        /\ rpc[t] = "out" /\ rpc'[t] \in {"out", "spin"}
    BY <1>0, <1>2 DEF RegSmall, Reg, countVars
  <2>2. S' = S
    BY <2>1, <1>0
  <2> QED BY <1>1, <2>1, <2>2
<1>3. ASSUME NEW t \in Mutators, Enter(t) PROVE Counted' /\ alive_cnt' \in Nat
  <2>1. S' = S \cup {t} /\ t \notin S
    BY <1>0, <1>3 DEF Enter
  <2>2. Cardinality(S') = Cardinality(S) + 1
    BY <2>1, <1>0, FS_AddElement
  <2> QED BY <2>2, <1>0, <1>3 DEF Enter, Counted
<1>4. ASSUME NEW t \in Mutators, Leave(t) PROVE Counted' /\ alive_cnt' \in Nat
  <2>1. S' = S \ {t} /\ t \in S
    BY <1>0, <1>4 DEF Leave
  <2>2. Cardinality(S') = Cardinality(S) - 1 /\ IsFiniteSet(S')
    <3>1. Cardinality(S \ {t}) = Cardinality(S) - 1 /\ IsFiniteSet(S \ {t})
      BY <2>1, <1>0, FS_RemoveElement
    <3> QED BY <3>1, <2>1
  <2>3. Cardinality(S') \in Nat
    BY <2>2, FS_CardinalityType
  <2> QED BY <2>2, <2>3, <1>0, <1>4 DEF Leave, Counted
<1>5. ASSUME NEW t \in Mutators, Spin(t) \/ AddSize(t) \/ TakeSlot(t) \/ Put(t) \/ Mark(t)
      PROVE  Counted' /\ alive_cnt' \in Nat
  <2>1. alive_cnt' = alive_cnt /\ S' = S
    BY <1>0, <1>5 DEF Spin, AddSize, TakeSlot, Put, Mark, countVars
  <2> QED BY <1>1, <2>1
<1>6. CASE Daemon \/ UNCHANGED vars
  <2>1. UNCHANGED <<alive_cnt, rpc>>
    BY <1>6 DEF Daemon, Poll, Weigh, Sleep, GcEnter, Lock, Wait, Swap, Count, Reset, Clear, Unlock,
                Back, Free, Wipe, Rest, Return, vars, countVars, regVars, gcFrame
  <2> QED BY <1>1, <2>1
<1> QED BY <1>2, <1>3, <1>4, <1>5, <1>6 DEF Next, RegStep

LEMMA QueuesStep ==
  ASSUME TypeOK, [Next]_vars
  PROVE  QueuesOK'
<1> USE DEF TypeOK, QueuesOK
<1>1. ASSUME NEW t \in Mutators, Put(t) PROVE QueuesOK'
  <2>1. obj[t] \in Entries
    BY DEF RegOK, Entries
  <2> QED BY <1>1, <2>1 DEF Put
<1>2. CASE Wipe
  BY <1>2 DEF Wipe, Entries
<1>3. CASE Swap \/ Back
  BY <1>3 DEF Swap, Back, GcOK
<1>4. CASE \/ Count \/ Reset \/ Clear \/ Unlock \/ Lock \/ Rest \/ Poll \/ Weigh \/ Sleep
           \/ GcEnter \/ Wait \/ Free \/ Return \/ UNCHANGED vars
  <2>1. UNCHANGED queueVars
    BY <1>4 DEF Count, Reset, Clear, Unlock, Lock, Rest, Poll, Weigh, Sleep, GcEnter, Wait, Free,
                Return, vars
  <2> QED BY <2>1 DEF queueVars
<1>5. ASSUME NEW t \in Mutators, NEW o \in Objects, RegSmall(t, o) \/ Reg(t, o) PROVE QueuesOK'
  BY <1>5 DEF RegSmall, Reg, queueVars
<1>6. ASSUME NEW t \in Mutators,
             Spin(t) \/ Enter(t) \/ AddSize(t) \/ TakeSlot(t) \/ Leave(t) \/ Mark(t)
      PROVE  QueuesOK'
  <2>1. UNCHANGED queueVars
    BY <1>6 DEF Spin, Enter, AddSize, TakeSlot, Leave, Mark
  <2> QED BY <2>1 DEF queueVars
<1> QED BY <1>1, <1>2, <1>3, <1>4, <1>5, <1>6 DEF Next, RegStep, Daemon

LEMMA SharedStep ==
  ASSUME TypeOK, Counted, [Next]_vars
  PROVE  SharedOK'
<1>0. alive_cnt' \in Nat
  BY CountStep
<1> USE <1>0 DEF TypeOK, SharedOK
<1>1. ASSUME NEW t \in Mutators, NEW o \in Objects, RegSmall(t, o) \/ Reg(t, o) PROVE SharedOK'
  BY <1>1 DEF RegSmall, Reg, countVars, flagVars
<1>2. ASSUME NEW t \in Mutators, AddSize(t) \/ TakeSlot(t) \/ Mark(t) PROVE SharedOK'
  <2>1. slot_pos' \in Nat /\ current_size' \in Nat
    BY <1>2 DEF AddSize, TakeSlot, Mark, countVars
  <2>2. lock' \in BOOLEAN /\ running' \in BOOLEAN
    BY <1>2 DEF AddSize, TakeSlot, Mark, flagVars
  <2> QED BY <2>1, <2>2
<1>3. ASSUME NEW t \in Mutators, Spin(t) \/ Enter(t) \/ Put(t) \/ Leave(t) PROVE SharedOK'
  <2>1. UNCHANGED <<slot_pos, current_size, lock, running>>
    BY <1>3 DEF Spin, Enter, Put, Leave, countVars, flagVars
  <2> QED BY <2>1
<1>4. CASE Lock \/ Reset \/ Clear \/ Unlock \/ Rest
  <2>1. slot_pos' \in Nat /\ current_size' \in Nat
    BY <1>4 DEF Lock, Reset, Clear, Unlock, Rest, countVars
  <2>2. lock' \in BOOLEAN /\ running' \in BOOLEAN
    BY <1>4 DEF Lock, Reset, Clear, Unlock, Rest, flagVars
  <2> QED BY <2>1, <2>2
<1>5. CASE \/ Poll \/ Weigh \/ Sleep \/ GcEnter \/ Wait \/ Swap \/ Count \/ Back \/ Free
           \/ Wipe \/ Return \/ UNCHANGED vars
  <2>1. UNCHANGED <<slot_pos, current_size, lock, running>>
    BY <1>5 DEF Poll, Weigh, Sleep, GcEnter, Wait, Swap, Count, Back, Free, Wipe, Return, vars,
                countVars, flagVars
  <2> QED BY <2>1
<1> QED BY <1>1, <1>2, <1>3, <1>4, <1>5 DEF Next, RegStep, Daemon

LEMMA RegTypeStep ==
  ASSUME TypeOK, [Next]_vars
  PROVE  RegOK'
<1> USE DEF TypeOK, RegOK, RegGoto, RegPC
<1>1. ASSUME NEW t \in Mutators, NEW o \in Objects, RegSmall(t, o) PROVE RegOK'
  BY <1>1 DEF RegSmall
<1>2. ASSUME NEW t \in Mutators, NEW o \in Objects, Reg(t, o) PROVE RegOK'
  BY <1>2 DEF Reg, QueuesOK
<1>3. ASSUME NEW t \in Mutators, TakeSlot(t) PROVE RegOK'
  BY <1>3 DEF TakeSlot, SharedOK
<1>4. ASSUME NEW t \in Mutators, Mark(t) PROVE RegOK'
  BY <1>4 DEF Mark
<1>5. ASSUME NEW t \in Mutators, Spin(t) \/ Enter(t) \/ AddSize(t) \/ Put(t) \/ Leave(t)
      PROVE  RegOK'
  <2>1. UNCHANGED <<obj, rq, rslot>> /\ \E pc \in RegPC : rpc' = [rpc EXCEPT ![t] = pc]
    BY <1>5 DEF Spin, Enter, AddSize, Put, Leave
  <2> QED BY <2>1
<1>6. CASE Daemon \/ UNCHANGED vars
  <2>1. UNCHANGED regVars
    BY <1>6 DEF Daemon, Poll, Weigh, Sleep, GcEnter, Lock, Wait, Swap, Count, Reset, Clear, Unlock,
                Back, Free, Wipe, Rest, Return, gcFrame, vars
  <2> QED BY <2>1 DEF regVars
<1> QED BY <1>1, <1>2, <1>3, <1>4, <1>5, <1>6 DEF Next, RegStep

LEMMA GcTypeStep ==
  ASSUME TypeOK, [Next]_vars
  PROVE  GcOK'
<1> USE DEF TypeOK, GcOK, DaemonGoto, DaemonPC
<1>1. ASSUME NEW t \in Mutators, NEW o \in Objects, RegSmall(t, o) \/ Reg(t, o) PROVE GcOK'
  <2>1. UNCHANGED <<dpc, timer, gcVars>>
    BY <1>1 DEF RegSmall, Reg
  <2> QED BY <2>1 DEF gcVars
<1>2. ASSUME NEW t \in Mutators, RegStep(t) PROVE GcOK'
  <2>1. UNCHANGED <<dpc, timer, gcVars>>
    BY <1>2 DEF RegStep, Spin, Enter, AddSize, TakeSlot, Put, Leave, Mark
  <2> QED BY <2>1 DEF gcVars
<1>3. CASE Sleep \/ Return
  BY <1>3, CollectorAssumption DEF Sleep, Return, gcVars
<1>4. CASE Poll \/ Weigh \/ Lock \/ Wait \/ Swap \/ Reset \/ Clear \/ Unlock \/ Wipe \/ Rest
  <2>1. UNCHANGED <<timer, gcVars>> /\ dpc' \in DaemonPC
    BY <1>4 DEF Poll, Weigh, Lock, Wait, Swap, Reset, Clear, Unlock, Wipe, Rest, gcFrame
  <2> QED BY <2>1 DEF gcVars
<1>5. CASE GcEnter \/ Count \/ Back \/ Free
  BY <1>5 DEF GcEnter, Count, Back, Free, QueuesOK, SharedOK
<1>6. CASE UNCHANGED vars
  BY <1>6 DEF vars, gcVars
<1> QED BY <1>1, <1>2, <1>3, <1>4, <1>5, <1>6 DEF Next, Daemon

LEMMA HistoryStep ==
  ASSUME TypeOK, [Next]_vars
  PROVE  HistoryOK'
<1> USE DEF TypeOK, HistoryOK
<1>1. ASSUME NEW t \in Mutators, NEW o \in Objects, RegSmall(t, o) \/ Reg(t, o) PROVE HistoryOK'
  BY <1>1 DEF RegSmall, Reg
<1>2. ASSUME NEW t \in Mutators, Enter(t) \/ Put(t) PROVE HistoryOK'
  BY <1>2 DEF Enter, Put
<1>3. CASE Free
  <2>1. freed' \in [Objects -> Nat] /\ registered' \subseteq Objects /\ overtaken' \in BOOLEAN
    BY <1>3 DEF Free
  <2>2. wild' \in BOOLEAN /\ overrun' \in BOOLEAN
    BY <1>3 DEF Free
  <2> QED BY <2>1, <2>2
<1>4. ASSUME NEW t \in Mutators, Spin(t) \/ AddSize(t) \/ TakeSlot(t) \/ Leave(t) \/ Mark(t)
      PROVE  HistoryOK'
  <2>1. UNCHANGED histVars
    BY <1>4 DEF Spin, AddSize, TakeSlot, Leave, Mark
  <2> QED BY <2>1 DEF histVars
<1>5. CASE \/ Poll \/ Weigh \/ Sleep \/ GcEnter \/ Lock \/ Wait \/ Swap \/ Count \/ Reset
           \/ Clear \/ Unlock \/ Back \/ Wipe \/ Rest \/ Return \/ UNCHANGED vars
  <2>1. UNCHANGED histVars
    BY <1>5 DEF Poll, Weigh, Sleep, GcEnter, Lock, Wait, Swap, Count, Reset, Clear, Unlock, Back,
                Wipe, Rest, Return, gcFrame, vars
  <2> QED BY <2>1 DEF histVars
<1> QED BY <1>1, <1>2, <1>3, <1>4, <1>5 DEF Next, RegStep, Daemon

\* In particular alive_cnt is the number of threads between ++alive_cnt and --alive_cnt
\* (libaquery.cpp:442-446), so it never wraps below zero.
THEOREM TypeCorrect == Spec => []TypeOK
<1>1. TypeOK /\ Counted /\ [Next]_vars => TypeOK' /\ Counted'
  BY QueuesStep, SharedStep, RegTypeStep, GcTypeStep, HistoryStep, CountStep DEF TypeOK
<1> QED BY <1>1, TypeInit, PTL DEF Spec
-----------------------------------------------------------------------------
(* No object is freed twice. *)

LEMMA RangeStep ==
  ASSUME TypeOK, GcRange, TakenOK, [Next]_vars
  PROVE  GcRange' /\ TakenOK'
<1> USE DEF GcRange, TakenOK, Locked, RegGoto, DaemonGoto
<1>0. /\ slot_pos \in Nat /\ dslot \in Nat /\ di \in Nat /\ dpc \in DaemonPC
      /\ rpc \in [Mutators -> RegPC] /\ rslot \in [Mutators -> Nat]
  BY DEF TypeOK, SharedOK, GcOK, RegOK
<1>1. ASSUME NEW t \in Mutators, NEW o \in Objects, RegSmall(t, o) \/ Reg(t, o)
      PROVE  GcRange' /\ TakenOK'
  BY <1>0, <1>1 DEF RegSmall, Reg, countVars, gcVars
<1>2. ASSUME NEW t \in Mutators, TakeSlot(t) PROVE GcRange' /\ TakenOK'
  BY <1>0, <1>2 DEF TakeSlot, gcVars
<1>3. ASSUME NEW t \in Mutators,
             Spin(t) \/ Enter(t) \/ AddSize(t) \/ Put(t) \/ Leave(t) \/ Mark(t)
      PROVE  GcRange' /\ TakenOK'
  BY <1>0, <1>3 DEF Spin, Enter, AddSize, Put, Leave, Mark, countVars, gcVars
<1>4. CASE Daemon
  <2>1. TakenOK'
    BY <1>4 DEF Daemon, Poll, Weigh, Sleep, GcEnter, Lock, Wait, Swap, Count, Reset, Clear, Unlock,
                Back, Free, Wipe, Rest, Return, regVars, gcFrame
  <2>2. CASE GcEnter
    <3>1. dpc' = (IF slot_pos = 0 THEN "return" ELSE "lock") /\ slot_pos' = slot_pos
      BY <2>2 DEF GcEnter, countVars
    <3> QED BY <1>0, <2>1, <3>1
  <2>3. CASE Count
    <3>1. dpc = "count" /\ dpc' = "reset" /\ dslot' = slot_pos
      BY <2>3 DEF Count
    <3> QED BY <1>0, <2>1, <3>1
  <2>4. CASE Back
    <3>1. dpc = "back" /\ dpc' = "free" /\ di' = 1 /\ dslot' = dslot
      BY <2>4 DEF Back
    <3> QED BY <1>0, <2>1, <3>1
  <2>5. CASE Free
    <3>1. dpc = "free" /\ dpc' = (IF di < dslot THEN "free" ELSE "wipe") /\ di' = di + 1
          /\ dslot' = dslot
      BY <2>5 DEF Free
    <3> QED BY <1>0, <2>1, <3>1
  <2>6. CASE Reset \/ Clear \/ Unlock \/ Wipe \/ Rest
    <3>1. \/ dpc = "reset" /\ dpc' = "clear" /\ dslot' = dslot
          \/ dpc = "clear" /\ dpc' = "unlock" /\ dslot' = dslot
          \/ dpc = "unlock" /\ dpc' = "back" /\ dslot' = dslot
          \/ dpc' \in {"rest", "return"}
      BY <2>6 DEF Reset, Clear, Unlock, Wipe, Rest, gcFrame, gcVars
    <3> QED BY <1>0, <2>1, <3>1
  <2>7. CASE Poll \/ Weigh \/ Sleep \/ Return
    <3>1. dpc' \in {"weigh", "sleep", "gc", "loop"}
      BY <2>7 DEF Poll, Weigh, Sleep, Return
    <3> QED BY <2>1, <3>1
  <2>8. CASE Lock \/ Wait \/ Swap
    <3>1. slot_pos' = slot_pos /\ dpc \in Locked /\ dpc' \in Locked
      BY <2>8 DEF Lock, Wait, Swap, countVars
    <3> QED BY <1>0, <2>1, <3>1
  <2> QED BY <1>4, <2>2, <2>3, <2>4, <2>5, <2>6, <2>7, <2>8 DEF Daemon
<1>5. CASE UNCHANGED vars
  BY <1>5 DEF vars, countVars, regVars, gcVars
<1> QED BY <1>1, <1>2, <1>3, <1>4, <1>5 DEF Next, RegStep

\* Steps that write no entry and free nothing keep every object where it is.
LEMMA PlaceFrame ==
  ASSUME TypeOK, PlaceInv, UNCHANGED <<cells, freed, registered>>,
         \A t \in Mutators : Holds(t)' => Holds(t) /\ obj'[t] = obj[t],
         UNCHANGED <<dq, di, dpc>> \/ dpc \notin {"free", "wipe"}
  PROVE  PlaceInv'
<1>1. HoldsOK' /\ OneHolder' /\ HeldNowhere'
  BY DEF PlaceInv, HoldsOK, OneHolder, HeldNowhere
<1>2. OneCell' /\ CellsRegistered' /\ FreedOnce'
  BY DEF PlaceInv, OneCell, CellsRegistered, FreedOnce
<1>3. FreedGone'
  BY DEF PlaceInv, FreedGone
<1> QED BY <1>1, <1>2, <1>3 DEF PlaceInv

LEMMA PlaceRegSmall ==
  ASSUME TypeOK, PlaceInv, NEW t \in Mutators, NEW o \in Objects, RegSmall(t, o)
  PROVE  PlaceInv'
<1> USE DEF RegSmall, PlaceInv
<1>0. /\ freed \in [Objects -> Nat] /\ rpc \in [Mutators -> RegPC]
      /\ UNCHANGED <<cells, rpc, obj, dq, di, dpc>>
  BY DEF TypeOK, HistoryOK, RegOK, RegGoto, queueVars, gcVars
<1>1. freed[o] = 0 /\ o \in Small /\ o \notin registered
  BY <1>0 DEF FreedOnce
<1>2. HoldsOK' /\ OneHolder'
  BY <1>0 DEF HoldsOK, OneHolder, Holds
<1>3. HeldNowhere'
  BY <1>0, <1>1 DEF HeldNowhere, HoldsOK, Holds
<1>4. OneCell' /\ CellsRegistered'
  BY <1>0 DEF OneCell, CellsRegistered
<1>5. FreedGone'
  BY <1>0, <1>1 DEF FreedGone, CellsRegistered
<1>6. FreedOnce'
  BY <1>0, <1>1 DEF FreedOnce
<1> QED BY <1>2, <1>3, <1>4, <1>5, <1>6

LEMMA PlaceReg ==
  ASSUME TypeOK, PlaceInv, NEW t \in Mutators, NEW o \in Objects, Reg(t, o)
  PROVE  PlaceInv'
<1> USE DEF Reg, PlaceInv
<1>0. /\ freed \in [Objects -> Nat] /\ rpc \in [Mutators -> RegPC]
      /\ obj \in [Mutators -> Objects \cup {Null}]
      /\ UNCHANGED <<cells, freed, dq, di, dpc>>
      /\ rpc' = [rpc EXCEPT ![t] = "spin"] /\ rpc[t] = "out"
      /\ registered' = registered \cup {o} /\ obj' = [obj EXCEPT ![t] = o]
  BY DEF TypeOK, HistoryOK, RegOK, RegGoto, queueVars, gcVars
<1>1. freed[o] = 0 /\ o \notin registered /\ o \notin Small
  BY <1>0 DEF FreedOnce
<1>2. /\ \A u \in Mutators : Holds(u) => obj[u] # o
      /\ \A b \in Queues, k \in Slots : cells[b][k] # o
  BY <1>1 DEF HoldsOK, CellsRegistered
<1>3. \A u \in Mutators : u # t => (Holds(u)' <=> Holds(u)) /\ obj'[u] = obj[u]
  BY <1>0 DEF Holds
<1>4. obj'[t] = o
  BY <1>0
<1>5. HoldsOK'
  BY <1>0, <1>1, <1>3, <1>4 DEF HoldsOK
<1>6. OneHolder'
  BY <1>2, <1>3, <1>4 DEF OneHolder
<1>7. HeldNowhere'
  BY <1>0, <1>1, <1>2, <1>3, <1>4 DEF HeldNowhere
<1>8. OneCell' /\ CellsRegistered' /\ FreedGone'
  BY <1>0 DEF OneCell, CellsRegistered, FreedGone
<1>9. FreedOnce'
  BY <1>0 DEF FreedOnce
<1> QED BY <1>5, <1>6, <1>7, <1>8, <1>9

LEMMA PlacePut ==
  ASSUME TypeOK, TakenOK, PlaceInv, NEW t \in Mutators, Put(t)
  PROVE  PlaceInv'
<1> DEFINE o == obj[t]
<1>0. /\ freed \in [Objects -> Nat] /\ rpc \in [Mutators -> RegPC]
      /\ rq[t] \in Queues /\ rslot[t] \in Nat /\ cells \in [Queues -> [Slots -> Entries]]
      /\ UNCHANGED <<freed, registered, obj, dq, di, dpc>>
      /\ rpc' = [rpc EXCEPT ![t] = "leave"] /\ rpc[t] = "put" /\ rslot[t] >= 1
  BY DEF Put, TypeOK, QueuesOK, HistoryOK, RegOK, RegGoto, gcVars, TakenOK
<1>1. \A u \in Mutators : Holds(u)' <=> (u # t /\ Holds(u))
  BY <1>0 DEF Holds
<1>2. Holds(t) /\ o \in registered \ Small /\ freed[o] = 0
      /\ \A b \in Queues, k \in Slots : cells[b][k] # o
  BY <1>0 DEF Holds, PlaceInv, HoldsOK, HeldNowhere
<1>3. \A u \in Mutators : Holds(u)' => obj[u] # o
  BY <1>1, <1>2 DEF PlaceInv, OneHolder
<1>4. CASE rslot[t] <= Capacity(rq[t])
  <2>1. rslot[t] \in Slots
    BY <1>0, <1>4, CollectorAssumption DEF Slots, Capacity, Queues
  <2>2. \A b \in Queues, k \in Slots :
          cells'[b][k] = IF b = rq[t] /\ k = rslot[t] THEN o ELSE cells[b][k]
    BY <1>0, <1>4, <2>1 DEF Put
  <2>3. HoldsOK' /\ OneHolder'
    BY <1>0, <1>1 DEF PlaceInv, HoldsOK, OneHolder
  <2>4. HeldNowhere'
    BY <1>0, <1>1, <1>3, <2>2 DEF PlaceInv, HeldNowhere
  <2>5. OneCell'
    BY <1>2, <2>2 DEF PlaceInv, OneCell
  <2>6. CellsRegistered'
    BY <1>0, <1>2, <2>2 DEF PlaceInv, CellsRegistered
  <2>7. FreedGone'
    BY <1>0, <1>2, <2>2 DEF PlaceInv, FreedGone
  <2>8. FreedOnce'
    BY <1>0 DEF PlaceInv, FreedOnce
  <2> QED BY <2>3, <2>4, <2>5, <2>6, <2>7, <2>8 DEF PlaceInv
<1>5. CASE ~(rslot[t] <= Capacity(rq[t]))
  <2>1. UNCHANGED cells
    BY <1>5 DEF Put
  <2> QED BY <1>0, <1>1, <2>1, PlaceFrame
<1> QED BY <1>4, <1>5

LEMMA PlaceFree ==
  ASSUME TypeOK, GcRange, PlaceInv, Free
  PROVE  PlaceInv'
<1> DEFINE x == cells[dq][di]
<1>0. /\ freed \in [Objects -> Nat] /\ dq \in Queues /\ di \in Nat /\ dslot \in Nat
      /\ UNCHANGED <<cells, registered, rpc, obj, dq, dslot>>
      /\ dpc = "free" /\ dpc' \in {"free", "wipe"} /\ di' = di + 1 /\ di \in 1 .. dslot
      /\ Slots \subseteq Nat
  BY DEF Free, TypeOK, HistoryOK, GcOK, queueVars, regVars, DaemonGoto, GcRange, Slots
<1>1. HoldsOK' /\ OneHolder'
  BY <1>0 DEF PlaceInv, HoldsOK, OneHolder, Holds
<1>6. OneCell' /\ CellsRegistered'
  BY <1>0 DEF PlaceInv, OneCell, CellsRegistered
<1>2. CASE UNCHANGED freed
  <2>1. HeldNowhere' /\ FreedOnce'
    BY <1>0, <1>2 DEF PlaceInv, HeldNowhere, FreedOnce, Holds
  <2>2. ASSUME NEW b \in Queues, NEW k \in Slots, cells[b][k] \in Objects
        PROVE  \/ freed'[cells[b][k]] = 0
               \/ freed'[cells[b][k]] = 1 /\ b = dq /\ k < di + 1
    BY <1>0, <1>2, <2>2 DEF PlaceInv, FreedGone
  <2>3. FreedGone'
    BY <1>0, <2>2 DEF FreedGone
  <2> QED BY <1>1, <1>6, <2>1, <2>3 DEF PlaceInv
<1>3. CASE di \in Slots /\ x \in Objects /\ freed' = [freed EXCEPT ![x] = @ + 1]
  <2>1. freed[x] = 0 /\ x \in registered
    BY <1>0, <1>3 DEF PlaceInv, FreedGone, CellsRegistered
  <2>2. HeldNowhere'
    BY <1>0, <1>3 DEF PlaceInv, HeldNowhere, Holds
  <2>3. FreedOnce'
    BY <1>0, <1>3, <2>1 DEF PlaceInv, FreedOnce
  <2>4. ASSUME NEW b \in Queues, NEW k \in Slots, cells[b][k] \in Objects
        PROVE  \/ freed'[cells[b][k]] = 0
               \/ freed'[cells[b][k]] = 1 /\ b = dq /\ k < di + 1
    <3>1. CASE cells[b][k] = x
      <4>1. b = dq /\ k = di
        BY <1>0, <1>3, <3>1, <2>4 DEF PlaceInv, OneCell
      <4> QED BY <4>1, <2>1, <1>0, <1>3
    <3>2. CASE cells[b][k] # x
      BY <1>0, <1>3, <3>2, <2>4 DEF PlaceInv, FreedGone
    <3> QED BY <3>1, <3>2
  <2>5. FreedGone'
    BY <1>0, <2>4 DEF FreedGone
  <2> QED BY <1>1, <1>6, <2>2, <2>3, <2>5 DEF PlaceInv
<1>4. di <= Capacity(dq) => di \in Slots
  BY <1>0, CollectorAssumption DEF Slots, Capacity, Queues
<1>5. \/ UNCHANGED freed
      \/ di <= Capacity(dq) /\ x \in Objects /\ freed' = [freed EXCEPT ![x] = @ + 1]
  <2>1. CASE di <= Capacity(dq)
    <3>1. freed' = IF x \in Objects THEN [freed EXCEPT ![x] = @ + 1] ELSE freed
      BY <2>1 DEF Free
    <3> QED BY <2>1, <3>1
  <2>2. CASE ~(di <= Capacity(dq))
    BY <2>2 DEF Free
  <2> QED BY <2>1, <2>2
<1> QED BY <1>2, <1>3, <1>4, <1>5

LEMMA PlaceWipe ==
  ASSUME TypeOK, GcRange, PlaceInv, Wipe
  PROVE  PlaceInv'
<1>0. /\ cells \in [Queues -> [Slots -> Entries]] /\ dq \in Queues /\ dslot \in Nat
      /\ UNCHANGED <<freed, registered, rpc, obj, dq>>
      /\ dpc = "wipe" /\ di = dslot + 1
      /\ Slots \subseteq Nat /\ Null \notin Objects
  BY CollectorAssumption
     DEF Wipe, TypeOK, QueuesOK, GcOK, regVars, gcVars, histVars, gcFrame, DaemonGoto, GcRange, Slots
<1>1. \A b \in Queues, k \in Slots :
        cells'[b][k] = IF b = dq /\ k <= dslot THEN Null ELSE cells[b][k]
  BY <1>0 DEF Wipe
<1>2. HoldsOK' /\ OneHolder' /\ FreedOnce'
  BY <1>0 DEF PlaceInv, HoldsOK, OneHolder, FreedOnce, Holds
<1>3. HeldNowhere'
  <2>1. \A t \in Mutators : Holds(t) => obj[t] # Null
    BY <1>0 DEF PlaceInv, HoldsOK, TypeOK, HistoryOK
  <2> QED BY <1>0, <1>1, <2>1 DEF PlaceInv, HeldNowhere, Holds
<1>4. OneCell' /\ CellsRegistered'
  BY <1>0, <1>1 DEF PlaceInv, OneCell, CellsRegistered
<1>5. FreedGone'
  BY <1>0, <1>1 DEF PlaceInv, FreedGone
<1> QED BY <1>2, <1>3, <1>4, <1>5 DEF PlaceInv

LEMMA PlaceStep ==
  ASSUME TypeOK, GcRange, TakenOK, PlaceInv, [Next]_vars
  PROVE  PlaceInv'
<1>0. rpc \in [Mutators -> RegPC] /\ obj \in [Mutators -> Objects \cup {Null}]
  BY DEF TypeOK, RegOK
<1>1. ASSUME NEW t \in Mutators, NEW o \in Objects, RegSmall(t, o) \/ Reg(t, o)
      PROVE  PlaceInv'
  BY <1>1, PlaceRegSmall, PlaceReg
<1>2. ASSUME NEW t \in Mutators, Put(t) PROVE PlaceInv'
  BY <1>2, PlacePut
<1>3. ASSUME NEW t \in Mutators,
             Spin(t) \/ Enter(t) \/ AddSize(t) \/ TakeSlot(t) \/ Leave(t) \/ Mark(t)
      PROVE  PlaceInv'
  <2>1. UNCHANGED <<cells, freed, registered, dq, di, dpc>>
    BY <1>3 DEF Spin, Enter, AddSize, TakeSlot, Leave, Mark, queueVars, gcVars, histVars
  <2>2. \A u \in Mutators : Holds(u)' => Holds(u) /\ obj'[u] = obj[u]
    BY <1>0, <1>3 DEF Spin, Enter, AddSize, TakeSlot, Leave, Mark, RegGoto, Holds
  <2> QED BY <2>1, <2>2, PlaceFrame
<1>4. CASE Free \/ Wipe
  BY <1>4, PlaceFree, PlaceWipe
<1>5. CASE \/ Poll \/ Weigh \/ Sleep \/ GcEnter \/ Lock \/ Wait \/ Swap \/ Count \/ Reset
           \/ Clear \/ Unlock \/ Back \/ Rest \/ Return
  <2>1. UNCHANGED <<cells, freed, registered, rpc, obj>> /\ dpc \notin {"free", "wipe"}
    BY <1>5 DEF Poll, Weigh, Sleep, GcEnter, Lock, Wait, Swap, Count, Reset, Clear, Unlock, Back,
                Rest, Return, queueVars, regVars, histVars, gcFrame, DaemonGoto
  <2> QED BY <2>1, PlaceFrame DEF Holds
<1>6. CASE UNCHANGED vars
  <2>1. UNCHANGED <<cells, freed, registered, rpc, obj, dq, di, dpc>>
    BY <1>6 DEF vars, queueVars, regVars, gcVars, histVars
  <2> QED BY <2>1, PlaceFrame DEF Holds
<1> QED BY <1>1, <1>2, <1>3, <1>4, <1>5, <1>6 DEF Next, RegStep, Daemon

LEMMA PlacesInit == Init => GcRange /\ TakenOK /\ PlaceInv
<1> SUFFICES ASSUME Init PROVE GcRange /\ TakenOK /\ PlaceInv
  OBVIOUS
<1>1. GcRange /\ TakenOK
  BY DEF Init, GcRange, TakenOK, Locked
<1>2. HoldsOK /\ OneHolder /\ HeldNowhere
  BY DEF Init, HoldsOK, OneHolder, HeldNowhere, Holds
<1>3. \A b \in Queues, k \in Slots : cells[b][k] \notin Objects
  BY CollectorAssumption DEF Init
<1>4. OneCell /\ CellsRegistered /\ FreedGone
  BY <1>3 DEF OneCell, CellsRegistered, FreedGone
<1>5. FreedOnce
  BY DEF Init, FreedOnce
<1> QED BY <1>1, <1>2, <1>4, <1>5 DEF PlaceInv

\* No object is freed twice or without being registered, however many threads register and
\* however they and the daemon interleave (libaquery.cpp:359-448).
THEOREM AtMostOnceFreed == Spec => []FreedOnce
<1>1. TypeOK /\ GcRange /\ TakenOK /\ PlaceInv /\ [Next]_vars
        => GcRange' /\ TakenOK' /\ PlaceInv'
  BY RangeStep, PlaceStep
<1>2. PlaceInv => FreedOnce
  BY DEF PlaceInv
<1> QED BY <1>1, <1>2, PlacesInit, TypeCorrect, PTL DEF Spec
-----------------------------------------------------------------------------
(* What alive_cnt and lock achieve while no registration is overtaken.       *)

\* No registration was overtaken and nothing was written past a queue.
Calm == ~overtaken /\ ~overrun

\* The threads that alive_cnt counts use the current queue, and gc() is before its test of
\* alive_cnt or has let go of the lock.
CountedUseCurrent == \A t \in Mutators : Inside(t) => rq[t] = q /\ dpc \notin Committed

\* The queue that gc() retires, until it has cleared it, is not the one in use.
Swapped == {"count", "reset", "clear", "unlock", "back"}
QueuesApart ==
  /\ dpc \in Swapped <=> q = q_back
  /\ dpc \in {"lock", "wait", "swap"} => dq = q
  /\ dpc \in Swapped \cup {"free", "wipe"} => dq # q

\* A slot that was taken and not yet written has one thread and holds no object.
Writing(t) == rpc[t] = "put"
SlotsOwned ==
  \A t \in Mutators : Writing(t) =>
    /\ rslot[t] <= slot_pos
    /\ \A u \in Mutators : Writing(u) /\ rslot[u] = rslot[t] => u = t
    /\ rslot[t] \in Slots => cells[q][rslot[t]] \notin Objects

\* Objects lie below slot_pos, which counts the retired queue until gc() resets it, or below
\* the length that gc() remembered.
OldCount == {"count", "reset"}
InRetired(k) ==
  \/ dpc = "count" /\ k <= slot_pos
  \/ dpc \in {"reset", "clear", "unlock", "back", "free", "wipe"} /\ k <= dslot
ObjectsBelow ==
  \A b \in Queues, k \in Slots : cells[b][k] \in Objects =>
    \/ b = q /\ dpc \notin OldCount /\ k <= slot_pos
    \/ b = dq /\ dq # q /\ InRetired(k)

\* Every slot that was taken is written or about to be; all of them are written in a queue
\* that gc() retires.
Written(b, k) == k \in Slots /\ cells[b][k] \in Objects
SlotsFilled ==
  /\ dpc \notin OldCount =>
       \A k \in 1 .. slot_pos : Written(q, k) \/ \E t \in Mutators : Writing(t) /\ rslot[t] = k
  /\ dpc = "count" => \A k \in 1 .. slot_pos : Written(dq, k)
  /\ dpc \in {"reset", "clear", "unlock", "back"} => \A k \in 1 .. dslot : Written(dq, k)
  /\ dpc = "free" => \A k \in di .. dslot : Written(dq, k)

Accounted == \A o \in registered : freed[o] = 1 \/ WithThread(o) \/ Queued(o) \/ Retired(o)

SlotsInv == QueuesApart /\ SlotsOwned /\ ObjectsBelow /\ SlotsFilled
CalmParts == CountedUseCurrent /\ SlotsInv /\ Accounted
CalmInv == Calm => CalmParts

\* The types that the lemmas below use.
LEMMA CalmTypes ==
  ASSUME TypeOK
  PROVE  /\ slot_pos \in Nat /\ dslot \in Nat /\ di \in Nat /\ alive_cnt \in Nat
         /\ q \in Queues /\ q_back \in Queues /\ dq \in Queues
         /\ cells \in [Queues -> [Slots -> Entries]]
         /\ rpc \in [Mutators -> RegPC] /\ obj \in [Mutators -> Objects \cup {Null}]
         /\ rq \in [Mutators -> Queues] /\ rslot \in [Mutators -> Nat]
         /\ registered \subseteq Objects /\ freed \in [Objects -> Nat]
         /\ Slots \subseteq Nat \ {0}
BY CollectorAssumption DEF TypeOK, QueuesOK, SharedOK, RegOK, GcOK, HistoryOK, Slots

\* Steps of a thread that take no slot and write none.
LEMMA SlotsRegFrame ==
  ASSUME SlotsInv,
         UNCHANGED <<q, q_back, cells, slot_pos, rslot, dpc, dq, dslot, di>>,
         \A t \in Mutators : Writing(t)' <=> Writing(t)
  PROVE  SlotsInv'
<1>1. QueuesApart' /\ ObjectsBelow'
  BY DEF SlotsInv, QueuesApart, ObjectsBelow, InRetired
<1>2. SlotsOwned'
  BY DEF SlotsInv, SlotsOwned
<1>3. SlotsFilled'
  BY DEF SlotsInv, SlotsFilled, Written
<1> QED BY <1>1, <1>2, <1>3 DEF SlotsInv

\* An object stays accounted for while its entry does.
LEMMA AccountedFrame ==
  ASSUME Accounted, UNCHANGED <<q, cells, slot_pos, dpc, dq, dslot, di, registered, freed>>,
         \A t \in Mutators : Holds(t) => Holds(t)' /\ obj'[t] = obj[t]
  PROVE  Accounted'
<1>1. ASSUME NEW o \in registered PROVE (WithThread(o) => WithThread(o)')
        /\ (Queued(o) => Queued(o)') /\ (Retired(o) => Retired(o)')
  BY DEF WithThread, Queued, Retired, Holds
<1> QED BY <1>1 DEF Accounted

\* Steps of the daemon that only move it on.
IdlePC == {"loop", "weigh", "sleep", "gc", "rest", "return"}
LEMMA CalmDaemonFrame ==
  ASSUME SlotsInv, Accounted,
         UNCHANGED <<q, q_back, cells, slot_pos, rpc, obj, rq, rslot, dq, dslot, di,
                     registered, freed>>,
         \/ dpc \in IdlePC /\ dpc' \in IdlePC
         \/ dpc = "lock" /\ dpc' = "wait"
         \/ dpc = "wait" /\ dpc' = "swap"
         \/ dpc = "clear" /\ dpc' = "unlock"
         \/ dpc = "unlock" /\ dpc' = "back"
  PROVE  SlotsInv' /\ Accounted'
<1> USE DEF IdlePC
<1>1. QueuesApart'
  BY DEF SlotsInv, QueuesApart, Swapped
<1>2. SlotsOwned'
  BY DEF SlotsInv, SlotsOwned, Writing
<1>3. ObjectsBelow'
  BY DEF SlotsInv, ObjectsBelow, InRetired, OldCount
<1>4. SlotsFilled'
  BY DEF SlotsInv, SlotsFilled, Written, Writing, OldCount
<1>5. Accounted'
  <2>1. ASSUME NEW o \in registered PROVE (WithThread(o) => WithThread(o)')
          /\ (Queued(o) => Queued(o)') /\ (Retired(o) => Retired(o)')
    BY DEF WithThread, Queued, Retired
  <2> QED BY <2>1 DEF Accounted
<1> QED BY <1>1, <1>2, <1>3, <1>4, <1>5 DEF SlotsInv

LEMMA CalmRegSmall ==
  ASSUME TypeOK, PlaceInv, CalmParts, NEW t \in Mutators, NEW o \in Objects,
         RegSmall(t, o) \/ Reg(t, o)
  PROVE  CalmParts'
<1>0. /\ UNCHANGED <<q, q_back, cells, slot_pos, rslot, dpc, dq, dslot, di>>
      /\ registered' = registered \cup {o}
      /\ rpc[t] = "out" /\ rpc' = [rpc EXCEPT ![t] = rpc'[t]] /\ rpc'[t] \in {"out", "spin"}
      /\ \A u \in Mutators \ {t} : rpc'[u] = rpc[u] /\ obj'[u] = obj[u] /\ rq'[u] = rq[u]
  BY CalmTypes DEF RegSmall, Reg, RegGoto, queueVars, countVars, gcVars
<1>1. SlotsInv'
  BY <1>0, SlotsRegFrame, CalmTypes DEF CalmParts, Writing
<1>2. CountedUseCurrent'
  BY <1>0, CalmTypes DEF CalmParts, CountedUseCurrent, Inside, InsidePC
<1>3. freed[o] <= IF o \in registered THEN 1 ELSE 0
  BY DEF PlaceInv, FreedOnce
<1>4. freed'[o] = 1 \/ WithThread(o)'
  <2>1. CASE RegSmall(t, o)
    BY <2>1, <1>3, CalmTypes DEF RegSmall
  <2>2. CASE Reg(t, o)
    BY <2>2, <1>0, CalmTypes DEF Reg, RegGoto, WithThread
  <2> QED BY <2>1, <2>2
<1>5. ASSUME NEW p \in registered, p # o
      PROVE  /\ freed'[p] = freed[p]
             /\ WithThread(p) => WithThread(p)'
             /\ Queued(p) => Queued(p)'
             /\ Retired(p) => Retired(p)'
  <2>1. freed'[p] = freed[p]
    BY <1>5, CalmTypes DEF RegSmall, Reg
  <2>2. WithThread(p) => WithThread(p)'
    BY <1>0 DEF WithThread
  <2>3. (Queued(p) => Queued(p)') /\ (Retired(p) => Retired(p)')
    BY <1>0 DEF Queued, Retired
  <2> QED BY <2>1, <2>2, <2>3
<1>6. Accounted'
  BY <1>0, <1>4, <1>5 DEF CalmParts, Accounted
<1> QED BY <1>1, <1>2, <1>6 DEF CalmParts

\* A thread is counted from Enter on; unless it was overtaken, it has the current queue.
LEMMA CalmPass ==
  ASSUME TypeOK, CalmParts, ~overtaken', NEW t \in Mutators,
         Spin(t) \/ Enter(t) \/ AddSize(t) \/ Leave(t) \/ Mark(t)
  PROVE  CalmParts'
<1>0. /\ UNCHANGED <<q, q_back, cells, slot_pos, rslot, rq, dpc, dq, dslot, di, registered, freed>>
      /\ \A u \in Mutators \ {t} : rpc'[u] = rpc[u] /\ obj'[u] = obj[u]
      /\ \/ Enter(t) /\ rpc[t] = "enter" /\ rpc'[t] = "size" /\ obj' = obj
         \/ rpc[t] = "spin" /\ rpc'[t] = "enter" /\ obj' = obj
         \/ rpc[t] = "size" /\ rpc'[t] = "slot" /\ obj' = obj
         \/ rpc[t] = "leave" /\ rpc'[t] = "mark"
         \/ rpc[t] = "mark" /\ rpc'[t] = "out"
  <2>1. UNCHANGED <<q, q_back, cells, slot_pos, rslot, rq, dpc, dq, dslot, di, registered, freed>>
    BY DEF Spin, Enter, AddSize, Leave, Mark, queueVars, countVars, gcVars, histVars
  <2>2. \A u \in Mutators \ {t} : rpc'[u] = rpc[u] /\ obj'[u] = obj[u]
    BY CalmTypes DEF Spin, Enter, AddSize, Leave, Mark, RegGoto
  <2>3. \/ Enter(t) /\ rpc[t] = "enter" /\ rpc'[t] = "size" /\ obj' = obj
        \/ rpc[t] = "spin" /\ rpc'[t] = "enter" /\ obj' = obj
        \/ rpc[t] = "size" /\ rpc'[t] = "slot" /\ obj' = obj
        \/ rpc[t] = "leave" /\ rpc'[t] = "mark"
        \/ rpc[t] = "mark" /\ rpc'[t] = "out"
    BY CalmTypes DEF Spin, Enter, AddSize, Leave, Mark, RegGoto
  <2> QED BY <2>1, <2>2, <2>3
<1>1. SlotsInv'
  BY <1>0, SlotsRegFrame DEF CalmParts, Writing
<1>2. CountedUseCurrent'
  <2>1. Enter(t) => rq[t] = q /\ dpc \notin Committed
    BY DEF Enter
  <2>2. ASSUME NEW u \in Mutators, Inside(u)' PROVE rq[u] = q /\ dpc \notin Committed
    BY <1>0, <2>1, <2>2 DEF CalmParts, CountedUseCurrent, Inside, InsidePC
  <2> QED BY <1>0, <2>2 DEF CountedUseCurrent
<1>3. Accounted'
  <2>1. \A u \in Mutators : Holds(u) => Holds(u)' /\ obj'[u] = obj[u]
    BY <1>0 DEF Holds
  <2> QED BY <1>0, <2>1, AccountedFrame DEF CalmParts
<1> QED BY <1>1, <1>2, <1>3 DEF CalmParts

LEMMA CalmTakeSlot ==
  ASSUME TypeOK, CalmParts, NEW t \in Mutators, TakeSlot(t)
  PROVE  CalmParts'
<1>0. /\ UNCHANGED <<q, q_back, cells, obj, rq, dpc, dq, dslot, di, registered, freed>>
      /\ slot_pos' = slot_pos + 1 /\ slot_pos \in Nat /\ rslot \in [Mutators -> Nat]
      /\ rslot'[t] = slot_pos + 1
      /\ rpc[t] = "slot" /\ rpc'[t] = "put"
      /\ \A u \in Mutators \ {t} : rpc'[u] = rpc[u] /\ rslot'[u] = rslot[u]
      /\ Slots \subseteq Nat
  BY CalmTypes DEF TakeSlot, RegGoto, queueVars, gcVars, histVars
<1>1. dpc \notin Committed
  BY <1>0 DEF CalmParts, CountedUseCurrent, Inside, InsidePC
<1>2. CountedUseCurrent'
  BY <1>0 DEF CalmParts, CountedUseCurrent, Inside, InsidePC
<1>3. QueuesApart'
  BY <1>0 DEF CalmParts, SlotsInv, QueuesApart
<1>4. slot_pos + 1 \in Slots => cells[q][slot_pos + 1] \notin Objects
  BY <1>0, CalmTypes DEF CalmParts, SlotsInv, ObjectsBelow
<1>5. SlotsOwned'
  <2>1. \A u \in Mutators \ {t} : Writing(u)' => Writing(u) /\ rslot[u] <= slot_pos
    BY <1>0 DEF CalmParts, SlotsInv, SlotsOwned, Writing
  <2>2. ASSUME NEW u \in Mutators, Writing(u)'
        PROVE  /\ rslot'[u] <= slot_pos'
               /\ \A v \in Mutators : Writing(v)' /\ rslot'[v] = rslot'[u] => v = u
               /\ rslot'[u] \in Slots => cells[q][rslot'[u]] \notin Objects
    <3>1. CASE u = t
      BY <1>0, <1>4, <2>1, <3>1
    <3>2. CASE u # t
      <4>1. Writing(u) /\ rslot'[u] = rslot[u] /\ rslot[u] <= slot_pos
        BY <1>0, <2>1, <2>2, <3>2
      <4>2. \A v \in Mutators \ {t} : Writing(v)' => Writing(v) /\ rslot'[v] = rslot[v]
        BY <1>0, <2>1
      <4> QED BY <4>1, <4>2, <1>0 DEF CalmParts, SlotsInv, SlotsOwned
    <3> QED BY <3>1, <3>2
  <2> QED BY <1>0, <2>2 DEF SlotsOwned
<1>6. ObjectsBelow'
  BY <1>0, <1>1 DEF CalmParts, SlotsInv, ObjectsBelow, InRetired, Committed
<1>7. SlotsFilled'
  <2>1. ASSUME NEW k \in 1 .. slot_pos'
        PROVE  Written(q, k) \/ \E u \in Mutators : Writing(u)' /\ rslot'[u] = k
    <3>1. CASE k = slot_pos + 1
      BY <3>1, <1>0 DEF Writing
    <3>2. CASE k # slot_pos + 1
      <4>1. k \in 1 .. slot_pos /\ dpc \notin OldCount
        BY <3>2, <1>0, <1>1 DEF OldCount, Committed
      <4>2. Written(q, k) \/ \E u \in Mutators : Writing(u) /\ rslot[u] = k
        BY <4>1 DEF CalmParts, SlotsInv, SlotsFilled
      <4> QED BY <4>2, <1>0 DEF Writing
    <3> QED BY <3>1, <3>2
  <2> QED BY <1>0, <1>1, <2>1 DEF CalmParts, SlotsInv, SlotsFilled, Written, Committed
<1>8. Accounted'
  <2>1. ASSUME NEW o \in registered PROVE (WithThread(o) => WithThread(o)')
          /\ (Queued(o) => Queued(o)') /\ (Retired(o) => Retired(o)')
    BY <1>0, <1>1 DEF WithThread, Queued, Retired, Committed
  <2> QED BY <1>0, <2>1 DEF CalmParts, Accounted
<1> QED BY <1>2, <1>3, <1>5, <1>6, <1>7, <1>8 DEF CalmParts, SlotsInv

LEMMA CalmPut ==
  ASSUME TypeOK, TakenOK, PlaceInv, CalmParts, ~overrun', NEW t \in Mutators, Put(t)
  PROVE  CalmParts'
<1>0. /\ UNCHANGED <<q, q_back, slot_pos, obj, rq, rslot, dpc, dq, dslot, di, registered, freed>>
      /\ rpc[t] = "put" /\ rpc'[t] = "leave"
      /\ \A u \in Mutators \ {t} : rpc'[u] = rpc[u]
      /\ rslot[t] <= Capacity(rq[t]) /\ cells' = [cells EXCEPT ![rq[t]][rslot[t]] = obj[t]]
      /\ Slots \subseteq Nat
  BY CalmTypes DEF Put, RegGoto, countVars, gcVars
<1>1. dpc \notin Committed /\ rq[t] = q
  BY <1>0 DEF CalmParts, CountedUseCurrent, Inside, InsidePC
<1>2. rslot[t] \in Slots /\ rslot[t] <= slot_pos
  <2>1. rslot[t] \in Nat /\ rslot[t] >= 1
    BY <1>0, CalmTypes DEF TakenOK
  <2>2. rslot[t] \in Slots
    BY <1>0, <2>1, CollectorAssumption DEF Slots, Capacity
  <2>3. rslot[t] <= slot_pos
    BY <1>0 DEF CalmParts, SlotsInv, SlotsOwned, Writing
  <2> QED BY <2>2, <2>3
<1>3. obj[t] \in Objects
  BY <1>0, CalmTypes DEF PlaceInv, HoldsOK, Holds
<1>4. \A b \in Queues, k \in Slots :
        cells'[b][k] = IF b = q /\ k = rslot[t] THEN obj[t] ELSE cells[b][k]
  BY <1>0, <1>1, <1>2, CalmTypes
<1>5. cells[q][rslot[t]] \notin Objects
  BY <1>0, <1>2 DEF CalmParts, SlotsInv, SlotsOwned, Writing
<1>6. CountedUseCurrent'
  BY <1>0 DEF CalmParts, CountedUseCurrent, Inside, InsidePC
<1>7. QueuesApart'
  BY <1>0 DEF CalmParts, SlotsInv, QueuesApart
<1>8. SlotsOwned'
  <2>1. \A u \in Mutators : Writing(u)' => u # t /\ Writing(u) /\ rslot[u] # rslot[t]
    BY <1>0 DEF CalmParts, SlotsInv, SlotsOwned, Writing
  <2> QED BY <1>0, <1>4, <2>1, CalmTypes DEF CalmParts, SlotsInv, SlotsOwned
<1>9. ObjectsBelow'
  BY <1>0, <1>1, <1>2, <1>4 DEF CalmParts, SlotsInv, ObjectsBelow, InRetired, OldCount, Committed
<1>10. SlotsFilled'
  <2>1. \A b \in Queues, k \in Nat : Written(b, k) => Written(b, k)'
    BY <1>3, <1>4 DEF Written
  <2>2. Written(q, rslot[t])'
    BY <1>2, <1>3, <1>4, <1>0, CalmTypes DEF Written
  <2>3. ASSUME NEW k \in 1 .. slot_pos
        PROVE  Written(q, k)' \/ \E u \in Mutators : Writing(u)' /\ rslot[u] = k
    <3>1. dpc \notin OldCount
      BY <1>1 DEF OldCount, Committed
    <3>2. Written(q, k) \/ \E u \in Mutators : Writing(u) /\ rslot[u] = k
      BY <3>1 DEF CalmParts, SlotsInv, SlotsFilled
    <3>3. CASE Written(q, k)
      BY <3>3, <2>1, <1>0, CalmTypes
    <3>4. CASE \E u \in Mutators : Writing(u) /\ rslot[u] = k
      BY <3>4, <2>2, <1>0 DEF Writing
    <3> QED BY <3>2, <3>3, <3>4
  <2>4. dpc = "back" => \A k \in 1 .. dslot : Written(dq, k)'
    BY <2>1, <1>0, CalmTypes DEF CalmParts, SlotsInv, SlotsFilled
  <2>5. dpc = "free" => \A k \in di .. dslot : Written(dq, k)'
    BY <2>1, <1>0, CalmTypes DEF CalmParts, SlotsInv, SlotsFilled
  <2>6. \A b, k : (Written(b, k)' <=> k \in Slots /\ cells'[b][k] \in Objects)
    BY DEF Written
  <2> QED BY <1>0, <1>1, <2>3, <2>4, <2>5, <2>6 DEF SlotsFilled, Written, Committed
<1>11. Accounted'
  <2>1. ASSUME NEW o \in registered PROVE o \in Objects
    BY CalmTypes
  <2>2. ASSUME NEW o \in registered, WithThread(o) PROVE WithThread(o)' \/ Queued(o)'
    <3>1. PICK u \in Mutators : obj[u] = o /\ rpc[u] \in {"spin", "enter", "size", "slot", "put"}
      BY <2>2 DEF WithThread
    <3>2. CASE u = t
      BY <3>1, <3>2, <1>0, <1>2, <1>4, CalmTypes DEF Queued
    <3>3. CASE u # t
      BY <3>1, <3>3, <1>0 DEF WithThread
    <3> QED BY <3>2, <3>3
  <2>3. ASSUME NEW o \in registered, Queued(o) PROVE Queued(o)'
    BY <2>3, <2>1, <1>0, <1>4, <1>5, CalmTypes DEF Queued
  <2>4. ASSUME NEW o \in registered, Retired(o) PROVE Retired(o)'
    BY <2>4, <2>1, <1>0, <1>1, <1>4, <1>5, CalmTypes DEF Retired
  <2> QED BY <1>0, <2>2, <2>3, <2>4 DEF CalmParts, Accounted
<1> QED BY <1>6, <1>7, <1>8, <1>9, <1>10, <1>11 DEF CalmParts, SlotsInv

LEMMA CalmMove ==
  ASSUME TypeOK, Counted, CalmParts,
         Poll \/ Weigh \/ Sleep \/ GcEnter \/ Lock \/ Wait \/ Clear \/ Unlock \/ Rest \/ Return
  PROVE  CalmParts'
<1> USE DEF DaemonGoto
<1>1. CASE GcEnter
  <2>0. /\ UNCHANGED <<q, q_back, cells, slot_pos, rpc, obj, rq, rslot, dslot, di, registered, freed>>
        /\ dq' = q /\ dpc = "gc" /\ dpc' \in {"return", "lock"}
    BY <1>1 DEF GcEnter, queueVars, countVars, regVars, histVars
  <2>1. CountedUseCurrent'
    BY <2>0 DEF CalmParts, CountedUseCurrent, Inside, Committed
  <2>2. QueuesApart' /\ SlotsOwned'
    BY <2>0 DEF CalmParts, SlotsInv, QueuesApart, SlotsOwned, Writing, Swapped
  <2>3. ObjectsBelow'
    BY <2>0 DEF CalmParts, SlotsInv, ObjectsBelow, InRetired, OldCount
  <2>4. SlotsFilled'
    BY <2>0 DEF CalmParts, SlotsInv, SlotsFilled, Written, Writing, OldCount
  <2>5. Accounted'
    <3>1. ASSUME NEW o \in registered PROVE (WithThread(o) => WithThread(o)')
            /\ (Queued(o) => Queued(o)') /\ ~Retired(o)
      BY <2>0 DEF WithThread, Queued, Retired
    <3> QED BY <2>0, <3>1 DEF CalmParts, Accounted
  <2> QED BY <2>1, <2>2, <2>3, <2>4, <2>5 DEF CalmParts, SlotsInv
<1>2. CASE Wait
  <2>0. /\ UNCHANGED <<q, q_back, cells, slot_pos, rpc, obj, rq, rslot, dq, dslot, di,
                       registered, freed>>
        /\ dpc = "wait" /\ dpc' = "swap" /\ alive_cnt = 0
    BY <1>2 DEF Wait, queueVars, countVars, regVars, gcVars, gcFrame, histVars
  <2>1. \A t \in Mutators : ~Inside(t)
    <3>1. IsFiniteSet({t \in Mutators : Inside(t)})
      BY CollectorAssumption, FS_Subset
    <3>2. {t \in Mutators : Inside(t)} = {}
      BY <2>0, <3>1, FS_EmptySet DEF Counted
    <3> QED BY <3>2
  <2>2. CountedUseCurrent'
    BY <2>0, <2>1 DEF CountedUseCurrent, Inside
  <2> QED BY <2>0, <2>2, CalmDaemonFrame DEF CalmParts
<1>3. CASE Poll \/ Weigh \/ Sleep \/ Lock \/ Clear \/ Unlock \/ Rest \/ Return
  <2>0. UNCHANGED <<q, q_back, cells, slot_pos, rpc, obj, rq, rslot, dq, dslot, di,
                    registered, freed>>
    BY <1>3 DEF Poll, Weigh, Sleep, Lock, Clear, Unlock, Rest, Return, queueVars, countVars,
                regVars, gcVars, gcFrame, histVars
  <2>1. \/ dpc \in IdlePC /\ dpc' \in IdlePC
        \/ dpc = "lock" /\ dpc' = "wait"
        \/ dpc = "clear" /\ dpc' = "unlock"
        \/ dpc = "unlock" /\ dpc' = "back"
    BY <1>3 DEF Poll, Weigh, Sleep, Lock, Clear, Unlock, Rest, Return, IdlePC
  <2>2. CountedUseCurrent'
    BY <2>0, <2>1 DEF CalmParts, CountedUseCurrent, Inside, Committed, IdlePC
  <2> QED BY <2>0, <2>1, <2>2, CalmDaemonFrame DEF CalmParts
<1> QED BY <1>1, <1>2, <1>3

\* gc() takes the queue away when every slot of it is written and nobody is at one.
LEMMA CalmSwap ==
  ASSUME TypeOK, CalmParts, Swap
  PROVE  CalmParts'
<1>0. /\ UNCHANGED <<q_back, cells, slot_pos, rpc, obj, rq, rslot, dq, dslot, di, registered, freed>>
      /\ dpc = "swap" /\ dpc' = "count" /\ q' = q_back
  BY DEF Swap, DaemonGoto, countVars, regVars, gcVars, gcFrame, histVars
<1>1. q = dq /\ q # q_back
  BY <1>0 DEF CalmParts, SlotsInv, QueuesApart, Swapped
<1>2. \A t \in Mutators : ~Inside(t) /\ ~Writing(t)
  BY <1>0 DEF CalmParts, CountedUseCurrent, Committed, Inside, InsidePC, Writing
<1>3. CountedUseCurrent' /\ SlotsOwned'
  BY <1>0, <1>2 DEF CountedUseCurrent, SlotsOwned, Inside, Writing
<1>4. QueuesApart'
  BY <1>0, <1>1 DEF QueuesApart, Swapped
<1>5. ObjectsBelow'
  BY <1>0, <1>1 DEF CalmParts, SlotsInv, ObjectsBelow, InRetired, OldCount
<1>6. SlotsFilled'
  <2>1. \A k \in 1 .. slot_pos : Written(dq, k)
    BY <1>0, <1>1, <1>2 DEF CalmParts, SlotsInv, SlotsFilled, OldCount
  <2> QED BY <1>0, <2>1 DEF SlotsFilled, Written, OldCount
<1>7. Accounted'
  <2>1. ASSUME NEW o \in registered PROVE (WithThread(o) => WithThread(o)')
          /\ (Queued(o) => Retired(o)') /\ ~Retired(o)
    BY <1>0, <1>1 DEF WithThread, Queued, Retired
  <2> QED BY <1>0, <2>1 DEF CalmParts, Accounted
<1> QED BY <1>3, <1>4, <1>5, <1>6, <1>7 DEF CalmParts, SlotsInv

LEMMA CalmCount ==
  ASSUME TypeOK, CalmParts, Count
  PROVE  CalmParts'
<1>0. /\ UNCHANGED <<q, q_back, cells, slot_pos, rpc, obj, rq, rslot, dq, di, registered, freed>>
      /\ dpc = "count" /\ dpc' = "reset" /\ dslot' = slot_pos
  BY DEF Count, DaemonGoto, queueVars, countVars, regVars, histVars
<1>1. CountedUseCurrent'
  BY <1>0 DEF CalmParts, CountedUseCurrent, Inside, Committed
<1>2. QueuesApart' /\ SlotsOwned'
  BY <1>0 DEF CalmParts, SlotsInv, QueuesApart, SlotsOwned, Writing, Swapped
<1>3. ObjectsBelow'
  BY <1>0 DEF CalmParts, SlotsInv, ObjectsBelow, InRetired, OldCount
<1>4. SlotsFilled'
  BY <1>0 DEF CalmParts, SlotsInv, SlotsFilled, Written, OldCount
<1>5. Accounted'
  <2>1. ASSUME NEW o \in registered PROVE (WithThread(o) => WithThread(o)')
          /\ (Queued(o) => Queued(o)') /\ (Retired(o) => Retired(o)')
    BY <1>0 DEF WithThread, Queued, Retired
  <2> QED BY <1>0, <2>1 DEF CalmParts, Accounted
<1> QED BY <1>1, <1>2, <1>3, <1>4, <1>5 DEF CalmParts, SlotsInv

LEMMA CalmReset ==
  ASSUME TypeOK, CalmParts, Reset
  PROVE  CalmParts'
<1>0. /\ UNCHANGED <<q, q_back, cells, rpc, obj, rq, rslot, dq, dslot, di, registered, freed>>
      /\ dpc = "reset" /\ dpc' = "clear" /\ slot_pos' = 0
  BY DEF Reset, DaemonGoto, queueVars, regVars, gcVars, gcFrame, histVars
<1>1. \A t \in Mutators : ~Inside(t) /\ ~Writing(t)
  BY <1>0 DEF CalmParts, CountedUseCurrent, Committed, Inside, InsidePC, Writing
<1>2. CountedUseCurrent' /\ SlotsOwned'
  BY <1>0, <1>1 DEF CountedUseCurrent, SlotsOwned, Inside, Writing
<1>3. QueuesApart'
  BY <1>0 DEF CalmParts, SlotsInv, QueuesApart, Swapped
<1>4. ObjectsBelow'
  BY <1>0 DEF CalmParts, SlotsInv, ObjectsBelow, InRetired, OldCount
<1>5. SlotsFilled'
  <2>1. \A k \in 1 .. dslot : Written(dq, k)
    BY <1>0 DEF CalmParts, SlotsInv, SlotsFilled
  <2> QED BY <1>0, <2>1 DEF SlotsFilled, Written
<1>6. Accounted'
  <2>1. ASSUME NEW o \in registered PROVE (WithThread(o) => WithThread(o)')
          /\ ~Queued(o) /\ (Retired(o) => Retired(o)')
    <3>1. ~Queued(o)
      BY <1>0, CalmTypes DEF Queued, CalmParts, SlotsInv, ObjectsBelow, OldCount
    <3> QED BY <1>0, <3>1 DEF WithThread, Retired
  <2> QED BY <1>0, <2>1 DEF CalmParts, Accounted
<1> QED BY <1>2, <1>3, <1>4, <1>5, <1>6 DEF CalmParts, SlotsInv

LEMMA CalmBack ==
  ASSUME TypeOK, CalmParts, Back
  PROVE  CalmParts'
<1>0. /\ UNCHANGED <<q, cells, slot_pos, rpc, obj, rq, rslot, dq, dslot, registered, freed>>
      /\ dpc = "back" /\ dpc' = "free" /\ q_back' = dq /\ di' = 1
  BY DEF Back, DaemonGoto, countVars, regVars, histVars
<1>1. CountedUseCurrent'
  BY <1>0 DEF CalmParts, CountedUseCurrent, Inside, Committed
<1>2. QueuesApart' /\ SlotsOwned'
  BY <1>0 DEF CalmParts, SlotsInv, QueuesApart, SlotsOwned, Writing, Swapped
<1>3. ObjectsBelow'
  BY <1>0 DEF CalmParts, SlotsInv, ObjectsBelow, InRetired, OldCount
<1>4. SlotsFilled'
  BY <1>0 DEF CalmParts, SlotsInv, SlotsFilled, Written, Writing, OldCount
<1>5. Accounted'
  <2>1. ASSUME NEW o \in registered PROVE (WithThread(o) => WithThread(o)')
          /\ (Queued(o) => Queued(o)') /\ (Retired(o) => Retired(o)')
    BY <1>0, CalmTypes DEF WithThread, Queued, Retired
  <2> QED BY <1>0, <2>1 DEF CalmParts, Accounted
<1> QED BY <1>1, <1>2, <1>3, <1>4, <1>5 DEF CalmParts, SlotsInv

LEMMA CalmFree ==
  ASSUME TypeOK, GcRange, PlaceInv, PlaceInv', CalmParts, ~overrun', Free
  PROVE  CalmParts' /\ wild' = wild
<1> DEFINE x == cells[dq][di]
<1>0. /\ UNCHANGED <<q, q_back, cells, slot_pos, rpc, obj, rq, rslot, dq, dslot, registered>>
      /\ dpc = "free" /\ dpc' = (IF di < dslot THEN "free" ELSE "wipe") /\ di' = di + 1
      /\ di \in 1 .. dslot /\ di \in Nat /\ dslot \in Nat
  BY CalmTypes DEF Free, DaemonGoto, GcRange, queueVars, countVars, regVars
<1>1. x \in Objects
  BY <1>0 DEF CalmParts, SlotsInv, SlotsFilled, Written
<1>2. freed' = [freed EXCEPT ![x] = @ + 1] /\ wild' = wild
  BY <1>1, CollectorAssumption, CalmTypes DEF Free, TypeOK, HistoryOK
<1>3. CountedUseCurrent'
  BY <1>0 DEF CalmParts, CountedUseCurrent, Inside, Committed
<1>4. QueuesApart' /\ SlotsOwned'
  BY <1>0 DEF CalmParts, SlotsInv, QueuesApart, SlotsOwned, Writing, Swapped
<1>5. ObjectsBelow'
  BY <1>0 DEF CalmParts, SlotsInv, ObjectsBelow, InRetired, OldCount
<1>6. SlotsFilled'
  BY <1>0 DEF CalmParts, SlotsInv, SlotsFilled, Written, Writing, OldCount
<1>7. Accounted'
  <2>1. \A o \in registered : freed'[o] \in Nat /\ freed'[o] <= 1
    BY <1>0, <1>2, CalmTypes DEF PlaceInv, FreedOnce
  <2>2. \A o \in registered : freed[o] = 1 \/ o = x => freed'[o] = 1
    BY <1>1, <1>2, <2>1, CalmTypes
  <2>3. ASSUME NEW o \in registered, o # x PROVE (WithThread(o) => WithThread(o)')
          /\ (Queued(o) => Queued(o)') /\ (Retired(o) => Retired(o)')
    <3>1. Retired(o) => Retired(o)'
      <4> SUFFICES ASSUME Retired(o) PROVE Retired(o)'
        OBVIOUS
      <4>1. PICK k \in Slots : cells[dq][k] = o /\ di <= k /\ k <= dslot
        BY <1>0 DEF Retired
      <4>2. k # di /\ k \in Nat
        BY <2>3, <4>1, CalmTypes
      <4> QED BY <1>0, <4>1, <4>2 DEF Retired
    <3> QED BY <1>0, <3>1 DEF WithThread, Queued
  <2> QED BY <1>0, <2>2, <2>3 DEF CalmParts, Accounted
<1> QED BY <1>2, <1>3, <1>4, <1>5, <1>6, <1>7 DEF CalmParts, SlotsInv

LEMMA CalmWipe ==
  ASSUME TypeOK, CalmParts, Wipe
  PROVE  CalmParts'
<1>0. /\ UNCHANGED <<q, q_back, slot_pos, rpc, obj, rq, rslot, dq, dslot, di, registered, freed>>
      /\ dpc = "wipe" /\ dpc' = "rest"
      /\ cells' = [cells EXCEPT ![dq] = [k \in Slots |-> IF k <= dslot THEN Null ELSE @[k]]]
  BY DEF Wipe, DaemonGoto, countVars, regVars, gcVars, gcFrame, histVars
<1>1. dq # q /\ q \in Queues /\ dq \in Queues
  BY <1>0, CalmTypes DEF CalmParts, SlotsInv, QueuesApart, Swapped
<1>2. \A b \in Queues, k \in Slots :
        cells'[b][k] = IF b = dq /\ k <= dslot THEN Null ELSE cells[b][k]
  BY <1>0, CalmTypes
<1>3. CountedUseCurrent'
  BY <1>0 DEF CalmParts, CountedUseCurrent, Inside, Committed
<1>4. QueuesApart'
  BY <1>0 DEF CalmParts, SlotsInv, QueuesApart, Swapped
<1>5. SlotsOwned'
  BY <1>0, <1>1, <1>2 DEF CalmParts, SlotsInv, SlotsOwned, Writing
<1>6. ObjectsBelow'
  BY <1>0, <1>1, <1>2, CollectorAssumption DEF CalmParts, SlotsInv, ObjectsBelow, InRetired, OldCount
<1>7. SlotsFilled'
  BY <1>0, <1>1, <1>2 DEF CalmParts, SlotsInv, SlotsFilled, Written, Writing, OldCount
<1>8. Accounted'
  <2>1. ASSUME NEW o \in registered PROVE (WithThread(o) => WithThread(o)')
          /\ (Queued(o) => Queued(o)') /\ ~Retired(o)
    BY <1>0, <1>1, <1>2 DEF WithThread, Queued, Retired
  <2> QED BY <1>0, <2>1 DEF CalmParts, Accounted
<1> QED BY <1>3, <1>4, <1>5, <1>6, <1>7, <1>8 DEF CalmParts, SlotsInv

\* What was overtaken or overrun stays so.
LEMMA CalmBefore ==
  ASSUME TypeOK, [Next]_vars
  PROVE  (~overtaken' => ~overtaken) /\ (~overrun' => ~overrun)
<1> USE DEF TypeOK, HistoryOK
<1>1. ASSUME NEW t \in Mutators, NEW o \in Objects, RegSmall(t, o) \/ Reg(t, o)
      PROVE  (~overtaken' => ~overtaken) /\ (~overrun' => ~overrun)
  BY <1>1 DEF RegSmall, Reg
<1>2. ASSUME NEW t \in Mutators, RegStep(t)
      PROVE  (~overtaken' => ~overtaken) /\ (~overrun' => ~overrun)
  BY <1>2 DEF RegStep, Spin, Enter, AddSize, TakeSlot, Put, Leave, Mark, RegGoto, histVars
<1>3. CASE Daemon
  BY <1>3 DEF Daemon, Poll, Weigh, Sleep, GcEnter, Lock, Wait, Swap, Count, Reset, Clear, Unlock,
              Back, Free, Wipe, Rest, Return, DaemonGoto, gcFrame, histVars
<1>4. CASE UNCHANGED vars
  BY <1>4 DEF vars, histVars
<1> QED BY <1>1, <1>2, <1>3, <1>4 DEF Next

LEMMA CalmStep ==
  ASSUME TypeOK, Counted, GcRange, TakenOK, PlaceInv, PlaceInv', CalmInv, [Next]_vars
  PROVE  CalmInv'
<1> SUFFICES ASSUME ~overtaken', ~overrun' PROVE CalmParts'
  BY DEF CalmInv, Calm
<1>0. CalmParts
  BY CalmBefore DEF CalmInv, Calm
<1>1. ASSUME NEW t \in Mutators, NEW o \in Objects, RegSmall(t, o) \/ Reg(t, o) PROVE CalmParts'
  BY <1>0, <1>1, CalmRegSmall
<1>2. ASSUME NEW t \in Mutators, RegStep(t) PROVE CalmParts'
  BY <1>0, <1>2, CalmPass, CalmTakeSlot, CalmPut DEF RegStep
<1>3. CASE Daemon
  BY <1>0, <1>3, CalmMove, CalmSwap, CalmCount, CalmReset, CalmBack, CalmFree, CalmWipe DEF Daemon
<1>4. CASE UNCHANGED vars
  BY <1>0, <1>4
     DEF CalmParts, CountedUseCurrent, Inside, SlotsInv, QueuesApart, SlotsOwned, ObjectsBelow,
         InRetired, SlotsFilled, Written, Writing, Accounted, WithThread, Queued, Retired,
         vars, queueVars, countVars, regVars, gcVars, histVars
<1> QED BY <1>1, <1>2, <1>3, <1>4 DEF Next

LEMMA WildStep ==
  ASSUME TypeOK, GcRange, PlaceInv, PlaceInv', CalmInv, NothingWild, [Next]_vars
  PROVE  NothingWild'
<1> SUFFICES ASSUME ~overtaken' PROVE ~wild'
  BY DEF NothingWild
<1>0. ~overtaken /\ ~wild
  BY CalmBefore DEF NothingWild
<1>1. CASE Free
  <2>1. ~overrun
    BY <1>1 DEF Free, DaemonGoto
  <2>2. CalmParts
    BY <1>0, <2>1 DEF CalmInv, Calm
  <2>3. CASE overrun'
    BY <1>0, <1>1, <2>1, <2>3 DEF Free
  <2>4. CASE ~overrun'
    BY <1>0, <1>1, <2>2, <2>4, CalmFree
  <2> QED BY <2>3, <2>4
<1>2. CASE \/ Poll \/ Weigh \/ Sleep \/ GcEnter \/ Lock \/ Wait \/ Swap \/ Count \/ Reset
           \/ Clear \/ Unlock \/ Back \/ Wipe \/ Rest \/ Return \/ UNCHANGED vars
  BY <1>0, <1>2 DEF Poll, Weigh, Sleep, GcEnter, Lock, Wait, Swap, Count, Reset, Clear, Unlock, Back,
                    Wipe, Rest, Return, gcFrame, histVars, vars
<1>3. ASSUME NEW t \in Mutators, NEW o \in Objects, RegSmall(t, o) \/ Reg(t, o) PROVE ~wild'
  BY <1>0, <1>3 DEF RegSmall, Reg
<1>4. ASSUME NEW t \in Mutators, RegStep(t) PROVE ~wild'
  BY <1>0, <1>4 DEF RegStep, Spin, Enter, AddSize, TakeSlot, Put, Leave, Mark, histVars
<1> QED BY <1>1, <1>2, <1>3, <1>4 DEF Next, Daemon

\* Unless gc() overtakes a registration or a queue overflows, every registered object is freed
\* or is where a later gc() finds it, and free() is called with objects only: alive_cnt and
\* lock suffice for that, for any number of threads (libaquery.cpp:367-448).
THEOREM CalmCollections == Spec => []QueuesSafe
<1>1. Init => CalmInv /\ NothingWild
  <2> SUFFICES ASSUME Init PROVE CalmInv /\ NothingWild
    OBVIOUS
  <2>1. CountedUseCurrent
    BY DEF Init, CountedUseCurrent, Inside, InsidePC
  <2>2. QueuesApart /\ SlotsOwned
    BY DEF Init, QueuesApart, SlotsOwned, Swapped, Writing
  <2>3. ObjectsBelow
    <3>1. \A b \in Queues, k \in Slots : cells[b][k] \notin Objects
      BY CollectorAssumption DEF Init
    <3> QED BY <3>1 DEF ObjectsBelow
  <2>4. SlotsFilled
    BY DEF Init, SlotsFilled, OldCount
  <2>5. Accounted /\ NothingWild
    BY DEF Init, Accounted, NothingWild
  <2> QED BY <2>1, <2>2, <2>3, <2>4, <2>5 DEF CalmInv, CalmParts, SlotsInv
<1>2. /\ TypeOK /\ Counted /\ GcRange /\ TakenOK /\ PlaceInv /\ CalmInv /\ NothingWild
      /\ [Next]_vars
      => /\ TypeOK' /\ Counted' /\ GcRange' /\ TakenOK' /\ PlaceInv' /\ CalmInv' /\ NothingWild'
  <2> SUFFICES ASSUME TypeOK, Counted, GcRange, TakenOK, PlaceInv, CalmInv, NothingWild,
                      [Next]_vars
               PROVE  /\ TypeOK' /\ Counted' /\ GcRange' /\ TakenOK' /\ PlaceInv' /\ CalmInv'
                      /\ NothingWild'
    OBVIOUS
  <2>1. TypeOK' /\ Counted'
    BY QueuesStep, SharedStep, RegTypeStep, GcTypeStep, HistoryStep, CountStep DEF TypeOK
  <2>2. GcRange' /\ TakenOK' /\ PlaceInv'
    BY RangeStep, PlaceStep
  <2>3. CalmInv' /\ NothingWild'
    BY <2>2, CalmStep, WildStep
  <2> QED BY <2>1, <2>2, <2>3
<1>3. CalmInv /\ NothingWild => QueuesSafe
  BY DEF CalmInv, Calm, CalmParts, Accounted, QueuesSafe, NothingLost
<1> QED BY <1>1, <1>2, <1>3, TypeInit, PlacesInit, PTL DEF Spec
=============================================================================
