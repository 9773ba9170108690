-------------------------- MODULE GarbageCollector --------------------------
(***************************************************************************)
(* server/gc.h and libaquery.cpp, class GC.  Threads hand objects to reg(), *)
(* which writes them into the current queue; the daemon swaps the two       *)
(* queues and frees what the retired one holds.  A flag that reg() spins on *)
(* and a count of registrations under way are meant to keep the two apart.  *)
(*                                                                         *)
(* Each access to a field that threads share is a step.  An entry is the    *)
(* object alone: every caller in the repository passes free().  The object  *)
(* GC is never deleted, so terminate_daemon() does not appear.              *)
(***************************************************************************)
EXTENDS Integers, FiniteSets

CONSTANTS
  Mutators,      \* threads that call reg(): the engine thread, pool workers
  Objects,       \* the objects ever registered
  Small,         \* those below the threshold, freed by reg() itself
  MaxSlots,      \* max_slots
  MaxSize,       \* max_size, in objects
  ForcedClean,   \* forced_clean, in rounds of the daemon
  Null, Garbage  \* an empty entry, an entry of memory never initialised

ASSUME CollectorAssumption ==
  /\ IsFiniteSet(Mutators)
  /\ Small \subseteq Objects
  /\ MaxSlots \in Nat \ {0} /\ MaxSize \in Nat /\ ForcedClean \in Nat
  /\ Null \notin Objects /\ Garbage \notin Objects /\ Null # Garbage

Queues == {"first", "second"}

Slots == 1 .. 2 * MaxSlots

\* Entries that fit: the second queue is an array of pointers, half the bytes.
Capacity(b) == IF b = "first" THEN 2 * MaxSlots ELSE MaxSlots

VARIABLES
  q, q_back,                \* the two queues
  cells,                    \* their entries
  slot_pos, alive_cnt, current_size,
  lock, running,
  rpc, obj, rq, rslot,      \* reg(), per thread: position, v, _q, _slot
  dpc, timer,               \* the daemon: position, forceclean_timer
  dq, dslot, di,            \* gc(): _q, _slot, i
  registered, freed,        \* history: objects given to reg(), times each was freed
  overtaken, wild, overrun  \* history: see Enter, Free and Put

queueVars == <<q, q_back, cells>>
countVars == <<slot_pos, alive_cnt, current_size>>
flagVars == <<lock, running>>
regVars == <<rpc, obj, rq, rslot>>
gcVars == <<dq, dslot, di>>
histVars == <<registered, freed, overtaken, wild, overrun>>
vars == <<queueVars, countVars, flagVars, regVars, dpc, timer, gcVars, histVars>>

\* start_deamon(): neither queue is initialised.
Init ==
  /\ q = "first" /\ q_back = "second"
  /\ cells \in [Queues -> {[k \in Slots |-> x] : x \in {Null, Garbage}}]
  /\ slot_pos = 0 /\ alive_cnt = 0 /\ current_size = 0
  /\ lock = FALSE /\ running \in BOOLEAN          \* running is not initialised
  /\ rpc = [t \in Mutators |-> "out"] /\ obj = [t \in Mutators |-> Null]
  /\ rq = [t \in Mutators |-> "first"] /\ rslot = [t \in Mutators |-> 0]
  /\ dpc = "loop" /\ timer = 0
  /\ dq = "first" /\ dslot = 0 /\ di = 0
  /\ registered = {} /\ freed = [o \in Objects |-> 0]
  /\ overtaken = FALSE /\ wild = FALSE /\ overrun = FALSE

RegGoto(t, from, to) == ~overrun /\ rpc[t] = from /\ rpc' = [rpc EXCEPT ![t] = to]
DaemonGoto(from, to) == ~overrun /\ dpc = from /\ dpc' = to
-----------------------------------------------------------------------------
(* Faulty variants of actions below, each one plausible slip in the code.    *)
(* Nothing refers to them: they show which slips the properties notice.      *)

LeaveBeforePut(t) ==           \* alive_cnt is decremented before the entry is written
  /\ RegGoto(t, "slot", "put")
  /\ slot_pos' = slot_pos + 1
  /\ rslot' = [rslot EXCEPT ![t] = slot_pos + 1]
  /\ alive_cnt' = alive_cnt - 1
  /\ UNCHANGED <<queueVars, current_size, flagVars, obj, rq, dpc, timer, gcVars, histVars>>

LeaveForgotten(t) ==           \* --alive_cnt is missing
  /\ RegGoto(t, "leave", "mark")
  /\ UNCHANGED <<queueVars, countVars, flagVars, obj, rq, rslot, dpc, timer, gcVars, histVars>>

RegSmallFalls(t, o) ==         \* a small object is freed and queued all the same
  /\ RegGoto(t, "out", "spin")
  /\ o \in Small \ registered
  /\ registered' = registered \cup {o}
  /\ freed' = [freed EXCEPT ![o] = @ + 1]
  /\ obj' = [obj EXCEPT ![t] = o]
  /\ rq' = [rq EXCEPT ![t] = q]
  /\ UNCHANGED <<queueVars, countVars, flagVars, rslot, dpc, timer, gcVars,
                 overtaken, wild, overrun>>

WaitSkipped ==                 \* gc() does not wait for alive_cnt
  /\ DaemonGoto("wait", "swap")
  /\ UNCHANGED <<queueVars, countVars, flagVars, regVars, timer, gcVars, histVars>>

-----------------------------------------------------------------------------
(* reg(), by any thread.                                                     *)

\* if (sz < threshould) f(v)
RegSmall(t, o) ==
  /\ RegGoto(t, "out", "out")
  /\ o \in Small \ registered
  /\ registered' = registered \cup {o}
  /\ freed' = [freed EXCEPT ![o] = @ + 1]
  /\ UNCHANGED <<queueVars, countVars, flagVars, obj, rq, rslot, dpc, timer, gcVars,
                 overtaken, wild, overrun>>

\* auto _q = q
Reg(t, o) ==
  /\ RegGoto(t, "out", "spin")
  /\ o \in Objects \ (Small \cup registered)
  /\ registered' = registered \cup {o}
  /\ obj' = [obj EXCEPT ![t] = o]
  /\ rq' = [rq EXCEPT ![t] = q]
  /\ UNCHANGED <<queueVars, countVars, flagVars, rslot, dpc, timer, gcVars, freed,
                 overtaken, wild, overrun>>

\* while(lock);
Spin(t) ==
  /\ RegGoto(t, "spin", "enter")
  /\ ~lock
  /\ UNCHANGED <<queueVars, countVars, flagVars, obj, rq, rslot, dpc, timer, gcVars, histVars>>

\* gc() no longer looks at alive_cnt, and has not yet let go of the queues.
Committed == {"swap", "count", "reset", "clear", "unlock"}

\* ++alive_cnt.  The registration is overtaken if gc() is past its test of alive_cnt or
\* has already retired the queue that this thread read.
Enter(t) ==
  /\ RegGoto(t, "enter", "size")
  /\ alive_cnt' = alive_cnt + 1
  /\ overtaken' = (overtaken \/ dpc \in Committed \/ rq[t] # q)
  /\ UNCHANGED <<queueVars, slot_pos, current_size, flagVars, obj, rq, rslot, dpc, timer,
                 gcVars, registered, freed, wild, overrun>>

\* current_size += sz
AddSize(t) ==
  /\ RegGoto(t, "size", "slot")
  /\ current_size' = current_size + 1
  /\ UNCHANGED <<queueVars, slot_pos, alive_cnt, flagVars, obj, rq, rslot, dpc, timer,
                 gcVars, histVars>>

\* auto _slot = (slot_pos += 1)
TakeSlot(t) ==
  /\ RegGoto(t, "slot", "put")
  /\ slot_pos' = slot_pos + 1
  /\ rslot' = [rslot EXCEPT ![t] = slot_pos + 1]
  /\ UNCHANGED <<queueVars, alive_cnt, current_size, flagVars, obj, rq, dpc, timer,
                 gcVars, histVars>>

\* _q[_slot - 1] = {v, f}; nothing tests the slot against the length of the queue, and
\* the model follows the program no further than a write past its end.
Put(t) ==
  /\ RegGoto(t, "put", "leave")
  /\ IF rslot[t] <= Capacity(rq[t])
     THEN cells' = [cells EXCEPT ![rq[t]][rslot[t]] = obj[t]] /\ UNCHANGED overrun
     ELSE overrun' = TRUE /\ UNCHANGED cells
  /\ UNCHANGED <<q, q_back, countVars, flagVars, obj, rq, rslot, dpc, timer, gcVars,
                 registered, freed, overtaken, wild>>

\* --alive_cnt
Leave(t) ==
  /\ RegGoto(t, "leave", "mark")
  /\ alive_cnt' = alive_cnt - 1
  /\ UNCHANGED <<queueVars, slot_pos, current_size, flagVars, obj, rq, rslot, dpc, timer,
                 gcVars, histVars>>

\* running = true
Mark(t) ==
  /\ RegGoto(t, "mark", "out")
  /\ running' = TRUE
  /\ obj' = [obj EXCEPT ![t] = Null]
  /\ UNCHANGED <<queueVars, countVars, lock, rq, rslot, dpc, timer, gcVars, histVars>>

RegStep(t) == \/ Spin(t) \/ Enter(t) \/ AddSize(t) \/ TakeSlot(t) \/ Put(t) \/ Leave(t)
              \/ Mark(t)
-----------------------------------------------------------------------------
(* daemon() and gc().                                                        *)

gcFrame == <<regVars, timer, gcVars, histVars>>

\* if (running)
Poll ==
  /\ DaemonGoto("loop", IF running THEN "weigh" ELSE "sleep")
  /\ UNCHANGED <<queueVars, countVars, flagVars, gcFrame>>

\* if (current_size > max_size || forceclean_timer > forced_clean)
Weigh ==
  /\ DaemonGoto("weigh", IF current_size > MaxSize \/ timer > ForcedClean THEN "gc" ELSE "sleep")
  /\ UNCHANGED <<queueVars, countVars, flagVars, gcFrame>>

\* sleep_for(interval); forceclean_timer += interval.  The timer stops counting at the
\* first value that forces a collection.
Sleep ==
  /\ DaemonGoto("sleep", "loop")
  /\ timer' = IF timer > ForcedClean THEN timer ELSE timer + 1
  /\ UNCHANGED <<queueVars, countVars, flagVars, regVars, gcVars, histVars>>

\* gc(): _q = q; if (slot_pos == 0) return
GcEnter ==
  /\ DaemonGoto("gc", IF slot_pos = 0 THEN "return" ELSE "lock")
  /\ dq' = q
  /\ UNCHANGED <<queueVars, countVars, flagVars, regVars, timer, dslot, di, histVars>>

\* lock = true
Lock ==
  /\ DaemonGoto("lock", "wait")
  /\ lock' = TRUE
  /\ UNCHANGED <<queueVars, countVars, running, gcFrame>>

\* while(alive_cnt != 0);
Wait ==
  /\ DaemonGoto("wait", "swap")
  /\ alive_cnt = 0
  /\ UNCHANGED <<queueVars, countVars, flagVars, gcFrame>>

\* q = _q_back
Swap ==
  /\ DaemonGoto("swap", "count")
  /\ q' = q_back
  /\ UNCHANGED <<q_back, cells, countVars, flagVars, gcFrame>>

\* _slot = slot_pos
Count ==
  /\ DaemonGoto("count", "reset")
  /\ dslot' = slot_pos
  /\ UNCHANGED <<queueVars, countVars, flagVars, regVars, timer, dq, di, histVars>>

\* slot_pos = 0
Reset ==
  /\ DaemonGoto("reset", "clear")
  /\ slot_pos' = 0
  /\ UNCHANGED <<queueVars, alive_cnt, current_size, flagVars, gcFrame>>

\* current_size = 0
Clear ==
  /\ DaemonGoto("clear", "unlock")
  /\ current_size' = 0
  /\ UNCHANGED <<queueVars, slot_pos, alive_cnt, flagVars, gcFrame>>

\* lock = false
Unlock ==
  /\ DaemonGoto("unlock", "back")
  /\ lock' = FALSE
  /\ UNCHANGED <<queueVars, countVars, running, gcFrame>>

\* q_back = t; i = 0
Back ==
  /\ DaemonGoto("back", "free")
  /\ q_back' = dq
  /\ di' = 1
  /\ UNCHANGED <<q, cells, countVars, flagVars, regVars, timer, dq, dslot, histVars>>

\* if (_q[i].memory) _q[i].deallocator(_q[i].memory); _slot, too, may be past the end.
Free ==
  /\ DaemonGoto("free", IF di < dslot THEN "free" ELSE "wipe")
  /\ di' = di + 1
  /\ IF di <= Capacity(dq)
     THEN LET x == cells[dq][di] IN
            /\ freed' = IF x \in Objects THEN [freed EXCEPT ![x] = @ + 1] ELSE freed
            /\ wild' = (wild \/ x = Garbage)
            /\ UNCHANGED overrun
     ELSE overrun' = TRUE /\ UNCHANGED <<freed, wild>>
  /\ UNCHANGED <<queueVars, countVars, flagVars, regVars, timer, dq, dslot, registered,
                 overtaken>>

\* memset(_q, 0, sizeof(gcmemory_t) * _slot)
Wipe ==
  /\ DaemonGoto("wipe", "rest")
  /\ cells' = [cells EXCEPT ![dq] = [k \in Slots |-> IF k <= dslot THEN Null ELSE @[k]]]
  /\ UNCHANGED <<q, q_back, countVars, flagVars, gcFrame>>

\* running = false
Rest ==
  /\ DaemonGoto("rest", "return")
  /\ running' = FALSE
  /\ UNCHANGED <<queueVars, countVars, lock, gcFrame>>

\* forceclean_timer = 0
Return ==
  /\ DaemonGoto("return", "sleep")
  /\ timer' = 0
  /\ UNCHANGED <<queueVars, countVars, flagVars, regVars, gcVars, histVars>>

Daemon ==
  \/ Poll \/ Weigh \/ Sleep \/ GcEnter \/ Lock \/ Wait \/ Swap \/ Count \/ Reset \/ Clear
  \/ Unlock \/ Back \/ Free \/ Wipe \/ Rest \/ Return

Next ==
  \/ \E t \in Mutators, o \in Objects : RegSmall(t, o) \/ Reg(t, o)
  \/ \E t \in Mutators : RegStep(t)
  \/ Daemon

Spec == Init /\ [][Next]_vars

\* Every thread inside reg() is scheduled, and so is the daemon.
Fairness == WF_vars(Daemon) /\ \A t \in Mutators : WF_vars(RegStep(t))

FairSpec == Spec /\ Fairness
-----------------------------------------------------------------------------
(* Properties.                                                               *)

RegPC == {"out", "spin", "enter", "size", "slot", "put", "leave", "mark"}
DaemonPC == {"loop", "weigh", "sleep", "gc", "lock", "wait", "swap", "count", "reset", "clear",
             "unlock", "back", "free", "wipe", "rest", "return"}
Entries == Objects \cup {Null, Garbage}

QueuesOK ==
  /\ q \in Queues /\ q_back \in Queues
  /\ cells \in [Queues -> [Slots -> Entries]]
SharedOK ==
  /\ slot_pos \in Nat /\ alive_cnt \in Nat /\ current_size \in Nat
  /\ lock \in BOOLEAN /\ running \in BOOLEAN
RegOK ==
  /\ rpc \in [Mutators -> RegPC]
  /\ obj \in [Mutators -> Objects \cup {Null}]
  /\ rq \in [Mutators -> Queues] /\ rslot \in [Mutators -> Nat]
GcOK ==
  /\ dpc \in DaemonPC /\ timer \in 0 .. ForcedClean + 1
  /\ dq \in Queues /\ dslot \in Nat /\ di \in Nat
HistoryOK ==
  /\ registered \subseteq Objects /\ freed \in [Objects -> Nat]
  /\ overtaken \in BOOLEAN /\ wild \in BOOLEAN /\ overrun \in BOOLEAN

\* Every variable keeps its type; in particular alive_cnt never wraps below zero, however
\* reg() and gc() interleave.
TypeOK == QueuesOK /\ SharedOK /\ RegOK /\ GcOK /\ HistoryOK

\* No object is freed twice, and none that was not given to reg(): neither a registration
\* that gc() overtakes nor a slot taken twice makes an entry survive its own collection
\* (libaquery.cpp:375-379).
FreedOnce == \A o \in Objects : freed[o] <= IF o \in registered THEN 1 ELSE 0

\* Where an object is that is not freed yet: with its thread, in the current queue, or in the
\* part of the retired queue that gc() has still to go through.
WithThread(o) ==
  \E t \in Mutators : obj[t] = o /\ rpc[t] \in {"spin", "enter", "size", "slot", "put"}
Queued(o) == \E k \in Slots : k <= slot_pos /\ cells[q][k] = o
Retired(o) ==
  \E k \in Slots :
    /\ cells[dq][k] = o
    /\ \/ dpc = "count" /\ k <= slot_pos
       \/ dpc \in {"reset", "clear", "unlock", "back"} /\ k <= dslot
       \/ dpc = "free" /\ di <= k /\ k <= dslot

\* As long as no registration was overtaken, alive_cnt and lock do what they are for: no
\* object drops out of the queues before it is freed.
NothingLost ==
  ~overtaken /\ ~overrun =>
    \A o \in registered : freed[o] = 1 \/ WithThread(o) \/ Queued(o) \/ Retired(o)

\* As long as no registration was overtaken, gc() passes no uninitialised entry to a
\* deallocator, though neither queue is initialised and slots are taken before written.
NothingWild == ~overtaken => ~wild

\* reg() returns: the collection that holds the lock waits only for registrations that do
\* not wait for it.
RegReturns == \A t \in Mutators : rpc[t] # "out" ~> rpc[t] = "out" \/ overrun

\* Unless gc() overtakes a registration or the queue overflows, a registered object is freed
\* or is still where a later gc() finds it, and free() is never called with what is no object.
QueuesSafe == NothingLost /\ NothingWild
=============================================================================
