--------------------------- MODULE TriggersProofs ---------------------------
(* Proofs about Triggers, for any periods, procedures, workers and times. *)
EXTENDS Triggers, FiniteSetTheorems, TLAPS

-----------------------------------------------------------------------------
(* What the host keeps.                                                      *)

Places == 1 .. Cardinality(Names)
Entry == [name : Names \cup {None}, interval : 1 .. Modulus - 1, left : 0 .. Modulus - 1,
          action : Procedures]

HostOK ==
  /\ memory \in [Places -> Entry]
  /\ size \in 0 .. Cardinality(Names)
  /\ scan \in [at : Nat, end : Nat, dt : Nat]
  /\ elapsed \in [Names -> Nat] /\ due \in [Names -> Nat] /\ fired \in [Names -> Nat]
  /\ moved \subseteq Names

\* The iterators of a round stay within the storage, and nothing is added meanwhile.
ScanOK ==
  /\ scan.at = 0 => scan.end = 0
  /\ scan.at > 0 => /\ size <= scan.end /\ scan.end <= Cardinality(Names)
                    /\ scan.at <= scan.end + 1 /\ scan.dt > 0

\* The map's values, and those that a round still goes through, are registered triggers.
Kept(k) == k \in 1 .. size \/ k \in 1 .. scan.end
KeptOK ==
  /\ \A k \in Places : Kept(k) => /\ memory[k].name \in Names
                                  /\ memory[k].interval = Interval[memory[k].name]
  /\ \A j, k \in 1 .. size : memory[j].name = memory[k].name => j = k

\* Past the end of the map, a round finds only triggers that were moved or removed.
LeftOver ==
  \A k \in size + 1 .. scan.end : memory[k].name \in Live => memory[k].name \in moved

\* What is left after e ms: nothing at first, then what completes the period.
OnTime(left, interval, e) ==
  IF e = 0 THEN left = 0 ELSE left \in 1 .. interval /\ (left + e) % interval = 0

\* A trigger in its place: the round has visited it, or it still waits for this round's time.
Passed(n, e, dt) == e = 0 \/ (e + dt) \div Interval[n] > e \div Interval[n]
OnSchedule(k) ==
  LET t == memory[k]
      e == elapsed[t.name] - scan.dt
  IN  IF scan.at = 0 \/ k < scan.at
      THEN OnTime(t.left, t.interval, elapsed[t.name]) /\ fired[t.name] = due[t.name]
      ELSE /\ e \in Nat /\ OnTime(t.left, t.interval, e)
           /\ due[t.name] = fired[t.name] + IF Passed(t.name, e, scan.dt) THEN 1 ELSE 0
ScheduleOK == \A k \in 1 .. size : memory[k].name \notin moved => OnSchedule(k)

HostInv == HostOK /\ ScanOK /\ KeptOK /\ LeftOver /\ ScheduleOK

-----------------------------------------------------------------------------
(* What the threads execute, and what the session shows them.                *)

PC == {"idle", "next", "query", "read", "bindQuery", "bindAction", "bound", "enqueue", "postproc",
       "ended"}
Results == [rows : BOOLEAN, is : Values \cup {0}]
Returns == 0 .. IntRange - 1 \cup {1}
Frames == [pc : PC, cond : Procedures, act : Procedures, part : {"cond", "act"}, i : Nat,
           ret : Returns, local : Results \cup {None}]
ThreadsOK ==
  /\ frame \in [Threads -> Frames]
  /\ session \in [res : Results \cup {None}, error : BOOLEAN]
  /\ own \in [Threads -> Outcomes \cup {Read}]
  /\ crossed \in [Threads -> BOOLEAN]
  /\ pending \in Seq(Payload)
  /\ registry \in [known : BOOLEAN, query : Procedures, action : Procedures,
                   materialized : BOOLEAN, named : BOOLEAN, twice : BOOLEAN]

\* Where a worker is in its condition.
PlaceOK(f) ==
  f.part = "cond" =>
    /\ f.cond # None
    /\ f.pc = "next" => f.i \in 1 .. Len(Statements(f)) + 1
    /\ f.pc \in {"query", "read"} => f.i \in 1 .. Len(Statements(f)) /\ Statements(f)[f.i] = "Q"
    /\ f.pc \in {"bindQuery", "bindAction", "bound", "enqueue"} =>
         f.i \in 1 .. Len(Statements(f)) /\ Statements(f)[f.i] = "T"

\* The session holds what the thread's own query came to.
Shows(t) ==
  /\ session.error <=> own[t].what = "error"
  /\ own[t].what = "value" => session.res = [rows |-> TRUE, is |-> own[t].is]
  /\ own[t].what = "empty" => session.res # None /\ ~session.res.rows

\* Until another thread crosses it.
OwnQuery(t) ==
  /\ frame[t].pc = "query" => own[t] = Nothing /\ (~crossed[t] => ~session.error)
  /\ frame[t].pc = "read" => own[t] # Read /\ (~crossed[t] => Shows(t))
Decided(w) ==
  LET f == frame[w] IN
  (/\ f.pc = "next" /\ f.part = "cond" /\ f.i > 1 /\ Statements(f)[f.i - 1] = "Q"
   /\ ~crossed[w] /\ own[w].what # "none")
  => f.ret = own[w].is % IntRange
EngineError ==
  own[Engine].what = "error" /\ ~crossed[Engine] => session.error /\ frame[Engine].pc # "postproc"
OwnInv ==
  /\ \A w \in Workers : PlaceOK(frame[w]) /\ Decided(w)
  /\ \A t \in Threads : OwnQuery(t)
  /\ EngineError

-----------------------------------------------------------------------------
(* How a callback trigger gets its procedures.                               *)

Binding(t) == frame[t].pc \in {"bindQuery", "bindAction", "bound"}
Sound == registry.known /\ registry.named /\ ~registry.twice
Filled == registry.query = Condition /\ registry.action = Action
BindInv ==
  /\ ~registry.known => registry = Unregistered
                        /\ \A t \in Threads : ~Binding(t) /\ frame[t].pc # "enqueue"
  /\ Sound =>
       /\ \A t, u \in Threads : Binding(t) /\ Binding(u) => t = u
       /\ \A t \in Threads :
            /\ Binding(t) => ~registry.materialized
            /\ frame[t].pc = "bindQuery" => registry.query = None /\ registry.action = None
            /\ frame[t].pc = "bindAction" => registry.query = Condition /\ registry.action = None
            /\ frame[t].pc = "bound" => Filled
            /\ frame[t].pc = "enqueue" => registry.materialized
       /\ registry.materialized => Filled
       /\ ~registry.materialized /\ (\A t \in Threads : ~Binding(t)) =>
            registry.query = None /\ registry.action = None

-----------------------------------------------------------------------------
(* Arithmetic of tick().                                                     *)

LEMMA Division ==
  ASSUME NEW m \in Nat \ {0}, NEW a \in Int
  PROVE  a = m * (a \div m) + (a % m) /\ a % m \in 0 .. m - 1 /\ a \div m \in Int
OBVIOUS

LEMMA DivisionAtLeast ==
  ASSUME NEW m \in Nat \ {0}, NEW a \in Int, NEW k \in Int
  PROVE  a \div m >= k <=> a >= m * k
OBVIOUS

LEMMA Multiple ==
  ASSUME NEW m \in Nat \ {0}, NEW k \in Int
  PROVE  (m * k) % m = 0
OBVIOUS

\* The unsigned sum may wrap, and the difference wraps back.
LEMMA WrapsBack ==
  ASSUME NEW m \in Nat \ {0}, NEW i \in 1 .. m - 1, NEW l \in 0 .. m - 1, NEW r \in 0 .. i - 1,
         l <= r
  PROVE  (((i + l) % m) - r) % m = i + l - r
OBVIOUS

LEMMA Wrapped ==
  ASSUME NEW m \in Nat \ {0}, NEW i \in Nat \ {0}, NEW l \in Nat, i < m, l < m, NEW dt \in Nat,
         l <= dt % i
  PROVE  (((i + l) % m) - (dt % i)) % m = i + l - (dt % i)
<1>1. dt % i \in 0 .. i - 1
  BY Division
<1> QED BY <1>1, WrapsBack

\* What the unsigned arithmetic of tick() comes to.
LEMMA LeftValue ==
  ASSUME NEW t, t.interval \in Nat \ {0}, t.left \in Nat,
         t.interval < Modulus, t.left < Modulus, NEW dt \in Nat
  PROVE  Left(t, dt) = IF t.left <= dt % t.interval THEN t.interval + t.left - (dt % t.interval)
                       ELSE t.left - (dt % t.interval)
<1>1. Modulus \in Nat \ {0}
  BY TriggerAssumption
<1>2. CASE t.left <= dt % t.interval
  <2>1. (((t.interval + t.left) % Modulus) - (dt % t.interval)) % Modulus
          = t.interval + t.left - (dt % t.interval)
    BY <1>1, <1>2, Wrapped, Zenon
  <2> QED BY <1>2, <2>1 DEF Left
<1>3. CASE ~(t.left <= dt % t.interval)
  BY <1>3 DEF Left
<1> QED BY <1>2, <1>3

LEMMA LeftType ==
  ASSUME NEW t, t.interval \in 1 .. Modulus - 1, t.left \in 0 .. Modulus - 1, NEW dt \in Nat
  PROVE  Left(t, dt) \in 0 .. Modulus - 1
<1>0. /\ Modulus \in Nat /\ t.interval \in Nat \ {0} /\ t.left \in Nat
      /\ t.interval < Modulus /\ t.left < Modulus
  BY TriggerAssumption
<1>1. dt % t.interval \in 0 .. t.interval - 1
  BY <1>0
<1> QED BY <1>0, <1>1, LeftValue

LEMMA CountdownStart ==
  ASSUME NEW I \in Nat \ {0}, NEW dt \in Nat, NEW r \in 0 .. I - 1, r = dt % I
  PROVE  I - r \in 1 .. I /\ ((I - r) + dt) % I = 0
<1>0. dt = I * (dt \div I) + r /\ dt \div I \in Int
  OBVIOUS
<1>1. PICK d \in Int : dt = I * d + r
  BY <1>0
<1>2. (I - r) + dt = I * (d + 1)
  BY <1>1
<1>3. (I * (d + 1)) % I = 0
  BY Multiple
<1> QED BY <1>2, <1>3

\* tick() keeps a trigger on time, and it fires just when a multiple of its period went by.
LEMMA TickOnTime ==
  ASSUME NEW n \in Names, NEW t, t.interval = Interval[n], t.left \in 0 .. Modulus - 1,
         NEW e \in Nat, NEW dt \in Nat \ {0}, OnTime(t.left, t.interval, e)
  PROVE  OnTime(Left(t, dt), t.interval, e + dt) /\ (Fires(t, dt) <=> Passed(n, e, dt))
<1>0. Interval[n] \in 1 .. Modulus - 1 /\ Modulus \in Nat
  BY TriggerAssumption
<1>1. /\ t.interval \in Nat \ {0} /\ t.left \in Nat
      /\ t.interval < Modulus /\ t.left < Modulus
  BY <1>0
<1>2. PICK I \in Nat \ {0} : I = t.interval
  BY <1>1
<1>3. PICK l \in Nat : l = t.left
  BY <1>1
<1>4. dt % I \in 0 .. I - 1
  BY Division
<1>5. PICK r \in 0 .. I - 1 : r = dt % I
  BY <1>4
<1>6. Left(t, dt) = IF l <= r THEN I + l - r ELSE l - r
  BY <1>1, <1>2, <1>3, <1>5, LeftValue
<1>7. CASE e = 0
  <2>1. l = 0
    BY <1>3, <1>7 DEF OnTime
  <2>2. Left(t, dt) = I - r
    BY <1>6, <2>1
  <2>3. I - r \in 1 .. I /\ ((I - r) + dt) % I = 0
    BY <1>5, CountdownStart
  <2>4. Fires(t, dt) /\ Passed(n, e, dt)
    BY <1>3, <1>7, <2>1 DEF Fires, Passed
  <2> QED BY <1>2, <1>7, <2>2, <2>3, <2>4 DEF OnTime
<1>8. CASE e # 0
  <2>1. l \in 1 .. I /\ (l + e) % I = 0
    BY <1>2, <1>3, <1>8 DEF OnTime
  <2>2. PICK d \in Int : dt = I * d + r
    <3>1. dt = I * (dt \div I) + r /\ dt \div I \in Int
      BY <1>5
    <3> QED BY <3>1
  <2>3. PICK k \in Int : l + e = I * k
    <3>1. l + e = I * ((l + e) \div I) /\ (l + e) \div I \in Int
      BY <2>1
    <3> QED BY <3>1
  <2>4. PICK s \in Int : s = Left(t, dt)
    <3>1. I + l - r \in Int /\ l - r \in Int
      OBVIOUS
    <3> QED BY <1>6, <3>1
  <2>5. (l <= r /\ s = I + l - r) \/ (~(l <= r) /\ s = l - r)
    BY <1>6, <2>4
  <2>6. s \in 1 .. I
    BY <2>1, <2>5
  <2>7. (s + (e + dt)) % I = 0
    <3>1. CASE l <= r
      <4>1. s + (e + dt) = I * (k + d + 1)
        BY <2>2, <2>3, <2>5, <3>1
      <4>2. (I * (k + d + 1)) % I = 0
        BY Multiple
      <4> QED BY <4>1, <4>2
    <3>2. CASE ~(l <= r)
      <4>1. s + (e + dt) = I * (k + d)
        BY <2>2, <2>3, <2>5, <3>2
      <4>2. (I * (k + d)) % I = 0
        BY Multiple
      <4> QED BY <4>1, <4>2
    <3> QED BY <3>1, <3>2
  <2>8. e \div I = k - 1
    <3>1. ~(e \div I >= k)
      BY <2>1, <2>3, DivisionAtLeast
    <3>2. e >= I * (k - 1)
      BY <2>1, <2>3
    <3>3. e \div I >= k - 1
      BY <3>2, DivisionAtLeast
    <3>4. e \div I \in Int
      OBVIOUS
    <3> QED BY <3>1, <3>3, <3>4
  <2>9. (e + dt) \div I >= k <=> l <= dt
    <3>1. (e + dt) \div I >= k <=> e + dt >= I * k
      BY DivisionAtLeast
    <3> QED BY <2>3, <3>1
  <2>10. (e + dt) \div I \in Int
    OBVIOUS
  <2>11. Fires(t, dt) <=> Passed(n, e, dt)
    BY <1>2, <1>3, <1>8, <2>8, <2>9, <2>10 DEF Fires, Passed
  <2> QED BY <1>2, <1>8, <2>4, <2>6, <2>7, <2>11 DEF OnTime
<1> QED BY <1>7, <1>8

-----------------------------------------------------------------------------
(* The host's round, and its triggers.                                       *)

LEMMA HostTypes ==
  ASSUME HostInv
  PROVE  /\ memory \in [Places -> Entry] /\ size \in Nat /\ size <= Cardinality(Names)
         /\ Cardinality(Names) \in Nat /\ IsFiniteSet(Names)
         /\ scan \in [at : Nat, end : Nat, dt : Nat]
         /\ scan.at \in Nat /\ scan.end \in Nat /\ scan.dt \in Nat
         /\ scan.end <= Cardinality(Names)
         /\ \A k : Kept(k) => k \in Places
         /\ Modulus \in Nat /\ \A n \in Names : Interval[n] \in 1 .. Modulus - 1
         /\ elapsed \in [Names -> Nat] /\ due \in [Names -> Nat] /\ fired \in [Names -> Nat]
         /\ moved \subseteq Names
<1>1. Cardinality(Names) \in Nat
  BY TriggerAssumption, FS_CardinalityType
<1>2. scan.at \in Nat /\ scan.end \in Nat /\ scan.end <= Cardinality(Names)
  BY <1>1 DEF HostInv, HostOK, ScanOK
<1>3. \A k : Kept(k) => k \in Places
  BY <1>1, <1>2 DEF HostInv, HostOK, Kept, Places
<1> QED BY <1>1, <1>2, <1>3, TriggerAssumption DEF HostInv, HostOK

\* A trigger that is not in the map finds room: the names in it differ.
LEMMA RoomLeft ==
  ASSUME HostInv, NEW n \in Names, Position(n) = {}
  PROVE  size < Cardinality(Names)
<1> DEFINE f == [k \in 1 .. size |-> memory[k].name]
<1>1. SUFFICES ASSUME size = Cardinality(Names) PROVE FALSE
  BY HostTypes
<1>2. f \in [1 .. size -> Names \ {n}]
  BY HostTypes DEF HostInv, KeptOK, Kept, Position
<1>3. IsFiniteSet(1 .. size) /\ Cardinality(1 .. size) = size
  <2>1. 1 \in Int /\ size \in Int /\ size \in Nat
    BY HostTypes
  <2>2. IsFiniteSet(1 .. size) /\ Cardinality(1 .. size) = IF 1 > size THEN 0 ELSE size - 1 + 1
    BY <2>1, FS_Interval, Zenon
  <2> QED BY <2>1, <2>2
<1>4. IsFiniteSet(Names \ {n}) /\ Cardinality(Names \ {n}) = Cardinality(Names) - 1
  BY HostTypes, FS_RemoveElement
<1>5. \E j, k \in 1 .. size : j # k /\ f[j] = f[k]
  <2> DEFINE S == 1 .. size
             T == Names \ {n}
  <2>1. IsFiniteSet(S) /\ IsFiniteSet(T) /\ f \in [S -> T]
    BY <1>2, <1>3, <1>4
  <2>2. Cardinality(T) < Cardinality(S)
    BY <1>1, <1>3, <1>4, HostTypes
  <2> HIDE DEF f, S, T
  <2>3. \E j, k \in S : j # k /\ f[j] = f[k]
    BY <2>1, <2>2, FS_PigeonHole
  <2> QED BY <2>3 DEF S
<1> QED BY <1>5 DEF HostInv, KeptOK

LEMMA HostStart ==
  ASSUME HostInv, NEW ns \in Deltas, StartRound(ns)
  PROVE  HostInv'
<1> PICK dt \in Nat : dt = ns \div PerMs /\ dt # 0
  BY TriggerAssumption
<1>0. /\ memory' = memory /\ size' = size /\ fired' = fired /\ moved' = moved
      /\ scan.at = 0 /\ scan' = [at |-> 1, end |-> size, dt |-> dt] /\ dt \in Nat \ {0}
  BY DEF StartRound
<1>1. /\ due' = [n \in Names |-> IF n \in Live /\ Due(n, dt) THEN due[n] + 1 ELSE due[n]]
      /\ elapsed' = [n \in Names |-> IF n \in Live THEN elapsed[n] + dt ELSE elapsed[n]]
  BY DEF StartRound
<1>2. HostOK' /\ ScanOK'
  BY <1>0, <1>1, HostTypes DEF HostInv, HostOK, ScanOK
<1>3. KeptOK' /\ LeftOver'
  BY <1>0, HostTypes DEF HostInv, KeptOK, LeftOver, Kept
<1>4. ASSUME NEW k \in 1 .. size, memory[k].name \notin moved PROVE OnSchedule(k)'
  <2> DEFINE n == memory[k].name
  <2>1. n \in Names /\ n \in Live
    BY <1>4, HostTypes DEF HostInv, KeptOK, Kept, Live
  <2>2. OnTime(memory[k].left, memory[k].interval, elapsed[n]) /\ fired[n] = due[n]
    BY <1>0, <1>4 DEF HostInv, ScheduleOK, OnSchedule
  <2>3. elapsed'[n] = elapsed[n] + dt /\ elapsed'[n] - dt = elapsed[n] /\ elapsed[n] \in Nat
    BY <1>0, <1>1, <2>1, HostTypes
  <2>4. due'[n] = fired[n] + IF Passed(n, elapsed[n], dt) THEN 1 ELSE 0
    BY <1>1, <2>1, <2>2, HostTypes DEF Due, Passed
  <2> QED BY <1>0, <2>2, <2>3, <2>4 DEF OnSchedule
<1>5. ScheduleOK'
  BY <1>0, <1>4 DEF ScheduleOK
<1> QED BY <1>2, <1>3, <1>5 DEF HostInv

LEMMA HostVisit ==
  ASSUME HostInv, Visit
  PROVE  HostInv'
<1> DEFINE a == scan.at
           t == memory[a]
           dt == scan.dt
<1>0. /\ a \in 1 .. scan.end /\ dt \in Nat \ {0}
      /\ memory' = [memory EXCEPT ![a].left = Left(t, dt)]
      /\ scan' = [scan EXCEPT !.at = @ + 1]
      /\ fired' = IF Fires(t, dt) THEN [fired EXCEPT ![t.name] = @ + 1] ELSE fired
      /\ UNCHANGED <<size, elapsed, due, moved>>
  BY HostTypes DEF Visit, HostInv, ScanOK
<1>1. a \in Places /\ t \in Entry /\ t.name \in Names /\ t.interval = Interval[t.name]
      /\ t.interval \in 1 .. Modulus - 1 /\ t.left \in 0 .. Modulus - 1
  <2>1. Kept(a) /\ a \in Places
    BY <1>0, HostTypes DEF Kept
  <2> QED BY <2>1, HostTypes DEF HostInv, KeptOK, Entry
<1>2. memory' \in [Places -> Entry]
      /\ \A k \in Places : /\ memory'[k].name = memory[k].name
                           /\ memory'[k].interval = memory[k].interval
                           /\ memory'[k].left = IF k = a THEN Left(t, dt) ELSE memory[k].left
  <2>1. Left(t, dt) \in 0 .. Modulus - 1
    BY <1>0, <1>1, LeftType
  <2> QED BY <1>0, <1>1, <2>1, HostTypes DEF Entry
<1>3. scan' \in [at : Nat, end : Nat, dt : Nat] /\ scan'.at = a + 1 /\ scan'.end = scan.end
      /\ scan'.dt = dt
  BY <1>0, HostTypes
<1>4. HostOK' /\ ScanOK'
  BY <1>0, <1>1, <1>2, <1>3, HostTypes DEF HostInv, HostOK, ScanOK
<1>5. \A k : Kept(k)' <=> Kept(k)
  BY <1>0, <1>3 DEF Kept
<1>6. KeptOK'
  BY <1>0, <1>2, <1>5, HostTypes DEF HostInv, KeptOK, Kept
<1>7. Live' = Live
  BY <1>0, <1>2, HostTypes DEF Live, Kept
<1>8. LeftOver'
  BY <1>0, <1>2, <1>3, <1>7, HostTypes DEF HostInv, LeftOver, Kept
<1>9. ASSUME NEW k \in 1 .. size, memory[k].name \notin moved PROVE OnSchedule(k)'
  <2> DEFINE n == memory[k].name
  <2>0. OnSchedule(k) /\ n \in Names /\ k \in Places /\ Kept(k) /\ n \in Live
    BY <1>9, HostTypes DEF HostInv, ScheduleOK, KeptOK, Kept, Live
  <2>1. CASE k = a
    <3>1. /\ elapsed[n] - dt \in Nat /\ OnTime(t.left, t.interval, elapsed[n] - dt)
          /\ due[n] = fired[n] + IF Passed(n, elapsed[n] - dt, dt) THEN 1 ELSE 0
      BY <1>0, <2>0, <2>1 DEF OnSchedule
    <3>2. (elapsed[n] - dt) + dt = elapsed[n]
      BY <2>0, HostTypes
    <3>3. OnTime(Left(t, dt), t.interval, elapsed[n])
          /\ (Fires(t, dt) <=> Passed(n, elapsed[n] - dt, dt))
      BY <1>0, <1>1, <2>1, <3>1, <3>2, TickOnTime
    <3>4. fired'[n] = due[n]
      BY <1>0, <2>0, <2>1, <3>1, <3>3, HostTypes
    <3> QED BY <1>0, <1>2, <1>3, <2>0, <2>1, <3>3, <3>4, HostTypes DEF OnSchedule
  <2>2. CASE k # a
    <3>1. n # t.name
      <4>1. CASE a \in 1 .. size
        BY <2>2, <4>1 DEF HostInv, KeptOK
      <4>2. CASE a \notin 1 .. size
        <5>1. a \in size + 1 .. scan.end
          BY <1>0, <4>2, HostTypes
        <5> QED BY <1>9, <2>0, <5>1 DEF HostInv, LeftOver
      <4> QED BY <4>1, <4>2
    <3>2. fired'[n] = fired[n]
      BY <1>0, <2>0, <3>1, HostTypes
    <3>3. k < a + 1 <=> k < a
      BY <1>0, <2>2, HostTypes
    <3> QED BY <1>0, <1>2, <1>3, <2>0, <2>2, <3>2, <3>3, HostTypes DEF OnSchedule
  <2> QED BY <2>1, <2>2
<1>10. ScheduleOK'
  BY <1>0, <1>2, <1>9, HostTypes DEF ScheduleOK, Kept
<1> QED BY <1>4, <1>6, <1>8, <1>10 DEF HostInv

LEMMA HostEnd ==
  ASSUME HostInv, EndRound
  PROVE  HostInv'
<1>0. /\ scan.at > scan.end /\ scan' = [at |-> 0, end |-> 0, dt |-> 0]
      /\ UNCHANGED <<memory, size, elapsed, due, fired, moved>>
  BY DEF EndRound, NoScan
<1>1. size <= scan.end
  BY <1>0, HostTypes DEF HostInv, ScanOK
<1>2. HostOK' /\ ScanOK'
  BY <1>0, HostTypes DEF HostInv, HostOK, ScanOK
<1>3. KeptOK' /\ LeftOver'
  BY <1>0, HostTypes DEF HostInv, KeptOK, LeftOver, Kept
<1>4. ScheduleOK'
  <2>1. \A k \in 1 .. size : k < scan.at
    BY <1>0, <1>1, HostTypes
  <2> QED BY <1>0, <2>1 DEF HostInv, ScheduleOK, OnSchedule
<1> QED BY <1>2, <1>3, <1>4 DEF HostInv

LEMMA HostAdd ==
  ASSUME HostInv, NEW n \in Names, AddInterval(n)
  PROVE  HostInv'
<1> DEFINE new == [name |-> n, interval |-> Interval[n], left |-> 0, action |-> Payee[n]]
<1>0. scan' = scan /\ scan.at = 0 /\ scan.end = 0
  BY DEF AddInterval, HostInv, ScanOK
<1>1. CASE Position(n) # {}
  <2>1. UNCHANGED <<memory, size, scan, elapsed, due, fired, moved>>
    BY <1>1 DEF AddInterval
  <2> QED BY <2>1 DEF HostInv, HostOK, ScanOK, KeptOK, Kept, LeftOver, Live, ScheduleOK, OnSchedule
<1>2. CASE Position(n) = {}
  <2>0. /\ memory' = [memory EXCEPT ![size + 1] = new] /\ size' = size + 1
        /\ elapsed' = [elapsed EXCEPT ![n] = 0] /\ due' = [due EXCEPT ![n] = 0]
        /\ fired' = [fired EXCEPT ![n] = 0] /\ moved' = moved \ {n}
    BY <1>2 DEF AddInterval
  <2>1. size + 1 \in Places /\ size + 1 <= Cardinality(Names)
    <3>1. size < Cardinality(Names)
      BY <1>2, RoomLeft
    <3> QED BY <3>1, HostTypes DEF Places
  <2>2. new \in Entry
    BY TriggerAssumption DEF Entry, Procedures
  <2>3. memory' \in [Places -> Entry] /\ memory'[size + 1] = new
        /\ \A k \in 1 .. size : memory'[k] = memory[k]
    BY <2>0, <2>1, <2>2, HostTypes DEF Kept
  <2>4. HostOK' /\ ScanOK'
    BY <1>0, <2>0, <2>1, <2>3, HostTypes DEF HostInv, HostOK, ScanOK
  <2>5. \A k \in 1 .. size : memory[k].name # n /\ memory[k].name \in Names
    BY <1>2, HostTypes DEF Position, HostInv, KeptOK, Kept
  <2>6. \A k : Kept(k)' <=> k \in 1 .. size \/ k = size + 1
    BY <1>0, <2>0, HostTypes DEF Kept
  <2>7. KeptOK'
    <3>1. \A k \in Places : Kept(k)' => /\ memory'[k].name \in Names
                                        /\ memory'[k].interval = Interval[memory'[k].name]
      BY <2>3, <2>6 DEF HostInv, KeptOK, Kept
    <3>2. \A j, k \in 1 .. size' : memory'[j].name = memory'[k].name => j = k
      BY <2>0, <2>3, <2>5, HostTypes DEF HostInv, KeptOK
    <3> QED BY <3>1, <3>2 DEF KeptOK
  <2>8. LeftOver'
    BY <1>0, <2>0, HostTypes DEF LeftOver
  <2>9. ScheduleOK'
    <3>1. ASSUME NEW k \in 1 .. size, memory[k].name \notin moved PROVE OnSchedule(k)'
      BY <1>0, <2>0, <2>3, <2>5, <3>1, HostTypes DEF HostInv, ScheduleOK, OnSchedule
    <3> PICK z \in Places : z = size + 1
      BY <2>1
    <3>2. OnSchedule(z)'
      <4>1. elapsed'[n] = 0 /\ due'[n] = 0 /\ fired'[n] = 0
        BY <2>0, HostTypes
      <4>2. memory'[z].name = n /\ memory'[z].left = 0 /\ scan'.at = 0
        BY <1>0, <2>3
      <4> QED BY <4>1, <4>2 DEF OnSchedule, OnTime
    <3>3. ASSUME NEW k \in 1 .. size', memory'[k].name \notin moved' PROVE OnSchedule(k)'
      <4>1. CASE k = z
        BY <3>2, <4>1
      <4>2. CASE k # z
        <5>1. k \in 1 .. size
          BY <2>0, <4>2, HostTypes
        <5>2. memory[k].name \notin moved
          BY <2>0, <2>3, <2>5, <3>3, <5>1
        <5> QED BY <3>1, <5>1, <5>2
      <4> QED BY <4>1, <4>2
    <3> QED BY <3>3 DEF ScheduleOK
  <2> QED BY <2>4, <2>7, <2>8, <2>9 DEF HostInv
<1> QED BY <1>1, <1>2

\* Only a trigger that erase() moves during a round can lose its place.
LEMMA HostRemove ==
  ASSUME HostInv, NEW n \in Names, RemoveInterval(n)
  PROVE  HostInv'
<1>0. UNCHANGED <<scan, elapsed, due, fired>>
  BY DEF RemoveInterval
<1>1. CASE Position(n) = {}
  <2>1. UNCHANGED <<memory, size, scan, elapsed, due, fired, moved>>
    BY <1>0, <1>1 DEF RemoveInterval
  <2> QED BY <2>1 DEF HostInv, HostOK, ScanOK, KeptOK, Kept, LeftOver, Live, ScheduleOK, OnSchedule
<1>2. CASE Position(n) # {}
  <2>0. PICK k \in 1 .. size : k \in Position(n) /\ memory[k].name = n
    BY <1>2 DEF Position
  <2>1. /\ memory' = [memory EXCEPT ![k] = memory[size]] /\ size' = size - 1
        /\ moved' = IF scan.at > 0 /\ k # size THEN moved \cup {memory[size].name} ELSE moved
    BY <2>0 DEF RemoveInterval
  <2>2. size \in 1 .. size /\ k \in Places /\ size \in Places /\ memory[size].name \in Names
    BY <2>0, HostTypes DEF Kept, HostInv, KeptOK
  <2>3. memory' \in [Places -> Entry]
        /\ \A j \in Places : memory'[j] = IF j = k THEN memory[size] ELSE memory[j]
    BY <2>1, <2>2, HostTypes
  <2>4. HostOK' /\ ScanOK'
    BY <1>0, <2>1, <2>2, <2>3, HostTypes DEF HostInv, HostOK, ScanOK
  <2>5. \A j : Kept(j)' => Kept(j) /\ j \in Places
    BY <1>0, <2>1, HostTypes DEF Kept
  <2>6. KeptOK'
    <3>1. \A j \in Places : Kept(j)' => /\ memory'[j].name \in Names
                                        /\ memory'[j].interval = Interval[memory'[j].name]
      BY <2>2, <2>3, <2>5 DEF HostInv, KeptOK, Kept
    <3>2. ASSUME NEW i \in 1 .. size', NEW j \in 1 .. size', memory'[i].name = memory'[j].name
          PROVE  i = j
      <4>1. i \in 1 .. size /\ j \in 1 .. size /\ i # size /\ j # size /\ i \in Places /\ j \in Places
        BY <2>1, HostTypes DEF Kept
      <4> QED BY <2>2, <2>3, <3>2, <4>1 DEF HostInv, KeptOK
    <3> QED BY <3>1, <3>2 DEF KeptOK
  <2>7. Live' \subseteq Live /\ n \notin Live'
    <3>1. ASSUME NEW j \in 1 .. size' PROVE memory'[j].name \in Live \ {n}
      <4>1. j \in 1 .. size /\ j # size /\ j \in Places
        BY <2>1, HostTypes DEF Kept
      <4>2. memory'[j].name \in Live
        BY <2>2, <2>3, <4>1 DEF Live
      <4>3. memory'[j].name # n
        BY <2>0, <2>2, <2>3, <4>1 DEF HostInv, KeptOK
      <4> QED BY <4>2, <4>3
    <3> QED BY <3>1 DEF Live
  <2>8. LeftOver'
    <3> SUFFICES ASSUME NEW j \in size .. scan.end, memory'[j].name \in Live'
                 PROVE  memory'[j].name \in moved'
      BY <1>0, <2>1, HostTypes DEF LeftOver
    <3>1. j \in Places /\ scan.at > 0
      BY <2>2, HostTypes DEF Kept, HostInv, ScanOK
    <3>2. CASE j = size
      <4>1. memory'[j].name = memory[size].name
        BY <2>3, <3>1, <3>2
      <4>2. k # size
        BY <2>0, <2>7, <4>1
      <4> QED BY <2>1, <3>1, <4>1, <4>2
    <3>3. CASE j # size
      <4>1. j \in size + 1 .. scan.end /\ j # k
        BY <3>3, HostTypes
      <4>2. memory'[j] = memory[j] /\ memory[j].name \in Live
        BY <2>3, <2>7, <3>1, <4>1
      <4> QED BY <2>1, <4>1, <4>2 DEF HostInv, LeftOver
    <3> QED BY <3>2, <3>3
  <2>9. ScheduleOK'
    <3> SUFFICES ASSUME NEW j \in 1 .. size', memory'[j].name \notin moved' PROVE OnSchedule(j)'
      BY DEF ScheduleOK
    <3>1. j \in 1 .. size /\ j # size /\ j \in Places
      BY <2>1, HostTypes DEF Kept
    <3>2. CASE j # k
      BY <1>0, <2>1, <2>3, <3>1, <3>2 DEF HostInv, ScheduleOK, OnSchedule
    <3>3. CASE j = k
      <4>1. memory'[j] = memory[size] /\ ~(scan.at > 0) /\ memory[size].name \notin moved
        BY <2>1, <2>3, <3>1, <3>3
      <4>2. scan.at = 0
        BY <4>1, HostTypes
      <4> QED BY <1>0, <2>2, <4>1, <4>2 DEF HostInv, ScheduleOK, OnSchedule
    <3> QED BY <3>2, <3>3
  <2> QED BY <2>4, <2>6, <2>8, <2>9 DEF HostInv
<1> QED BY <1>1, <1>2

LEMMA HostStep ==
  ASSUME HostInv, [Next]_vars
  PROVE  HostInv'
<1>1. CASE Host
  BY <1>1, HostStart, HostVisit, HostEnd DEF Host
<1>3. ASSUME UNCHANGED hostVars PROVE HostInv'
  <2>1. UNCHANGED <<memory, size, scan, elapsed, due, fired, moved>>
    BY <1>3 DEF hostVars
  <2> QED BY <2>1 DEF HostInv, HostOK, ScanOK, KeptOK, Kept, LeftOver, Live, ScheduleOK, OnSchedule
<1>2. ASSUME NEW n \in Names, HandleTI(n) \/ HandleTR(n) PROVE HostInv'
  <2>1. CASE HandleTI(n)
    BY <1>3, <2>1, HostAdd DEF HandleTI
  <2>2. CASE HandleTR(n)
    BY <2>2, HostRemove DEF HandleTR
  <2> QED BY <1>2, <2>1, <2>2
<1>4. ASSUME NEW w \in Workers, Serve(w) PROVE UNCHANGED hostVars
  BY <1>4 DEF Serve, Take, WorkerQuery, ReadFirst, Postprocess, Output, Finish, WorkerExecute
<1>5. ASSUME NEW t \in Threads, Step(t) PROVE UNCHANGED hostVars
  BY <1>5 DEF Step, EndQuery, BindQuery, BindAction, Bound, Enqueue
<1>6. CASE \/ HandleTC \/ HandleTA \/ HandleTN \/ HandleQ \/ HandleP \/ EndP \/ EndRequest
           \/ NextRequest \/ UNCHANGED vars
  <2>1. UNCHANGED hostVars
    BY <1>6 DEF HandleTC, HandleTA, HandleTN, HandleQ, HandleP, EndP, EndRequest, NextRequest, vars
  <2> QED BY <2>1, <1>3
<1> QED BY <1>1, <1>2, <1>3, <1>4, <1>5, <1>6 DEF Next, EngineStep

LEMMA HostStarts == Init => HostInv
<1> SUFFICES ASSUME Init PROVE HostInv
  OBVIOUS
<1>0. /\ memory = [k \in 1 .. Cardinality(Names) |-> NoTrigger] /\ size = 0
      /\ scan = [at |-> 0, end |-> 0, dt |-> 0] /\ moved = {}
      /\ elapsed = [n \in Names |-> 0] /\ due = elapsed /\ fired = elapsed
      /\ Cardinality(Names) \in Nat
  BY TriggerAssumption, FS_CardinalityType DEF Init, NoScan
<1>1. memory \in [Places -> Entry]
  <2>1. ASSUME NEW k \in Places PROVE NoTrigger \in Entry
    <3>1. Names # {}
      BY <1>0, FS_EmptySet DEF Places
    <3>2. Modulus - 1 \in Nat \ {0}
      BY <3>1, TriggerAssumption
    <3>3. 1 \in 1 .. Modulus - 1 /\ 0 \in 0 .. Modulus - 1
      BY <3>2, TriggerAssumption
    <3> QED BY <3>3 DEF NoTrigger, Entry, Procedures
  <2> QED BY <1>0, <2>1 DEF Places
<1>2. HostOK /\ ScanOK
  BY <1>0, <1>1 DEF HostOK, ScanOK
<1>3. KeptOK /\ LeftOver /\ ScheduleOK
  BY <1>0 DEF KeptOK, Kept, LeftOver, ScheduleOK
<1> QED BY <1>2, <1>3 DEF HostInv

-----------------------------------------------------------------------------
(* The measured time and the clock.                                          *)

\* Each round since the registration lost less than a millisecond.
Lost(time, measured, count) ==
  /\ time - PerMs * measured \in 0 .. (PerMs - 1) * count
  /\ count > 0 => measured > 0
ClockOK ==
  /\ elapsed \in [Names -> Nat] /\ age \in [Names -> Nat] /\ seen \in [Names -> Nat]
  /\ \A n \in Names : Lost(age[n], elapsed[n], seen[n])

\* One round, for numbers.
LEMMA OneRound ==
  ASSUME NEW m \in Nat \ {0}, NEW ns \in Nat, NEW a \in Nat, NEW e \in Nat, NEW s \in Nat,
         a - m * e \in 0 .. (m - 1) * s
  PROVE  (a + ns) - m * (e + (ns \div m)) \in 0 .. (m - 1) * (s + 1)
<1>1. PICK d \in Int, r \in 0 .. m - 1 : d = ns \div m /\ ns = m * d + r
  BY Division
<1>2. m * (e + d) = m * e + m * d /\ m * e \in Int /\ m * d \in Int
  OBVIOUS
<1>3. (m - 1) * (s + 1) = (m - 1) * s + (m - 1) /\ (m - 1) * s \in Int
  OBVIOUS
<1>4. (a + ns) - m * (e + d) = (a - m * e) + r
  BY <1>1, <1>2
<1> QED BY <1>1, <1>3, <1>4

LEMMA ClockStep ==
  ASSUME ClockOK, HostInv, [Next]_vars
  PROVE  ClockOK'
<1>0. PerMs \in Nat \ {0}
  BY TriggerAssumption
<1>1. ASSUME UNCHANGED <<elapsed, age, seen>> PROVE ClockOK'
  BY <1>1 DEF ClockOK
<1>2. ASSUME NEW ns \in Deltas, StartRound(ns) PROVE ClockOK'
  <2>1. ns \in Nat /\ ns \div PerMs \in Nat \ {0}
    BY TriggerAssumption
  <2>2. /\ elapsed' = [n \in Names |-> IF n \in Live THEN elapsed[n] + (ns \div PerMs) ELSE elapsed[n]]
        /\ age' = [n \in Names |-> IF n \in Live THEN age[n] + ns ELSE age[n]]
        /\ seen' = [n \in Names |-> IF n \in Live THEN seen[n] + 1 ELSE seen[n]]
    BY <1>2 DEF StartRound
  <2>3. ASSUME NEW n \in Names PROVE Lost(age'[n], elapsed'[n], seen'[n])
    <3>1. age[n] \in Nat /\ elapsed[n] \in Nat /\ seen[n] \in Nat /\ Lost(age[n], elapsed[n], seen[n])
      BY DEF ClockOK
    <3>2. CASE n \in Live
      <4>1. /\ age'[n] = age[n] + ns /\ elapsed'[n] = elapsed[n] + (ns \div PerMs)
            /\ seen'[n] = seen[n] + 1
        BY <2>2, <3>2
      <4>2. (age[n] + ns) - PerMs * (elapsed[n] + (ns \div PerMs)) \in 0 .. (PerMs - 1) * (seen[n] + 1)
        BY <1>0, <2>1, <3>1, OneRound DEF Lost
      <4>3. elapsed[n] + (ns \div PerMs) > 0
        BY <2>1, <3>1
      <4> QED BY <4>1, <4>2, <4>3 DEF Lost
    <3>3. CASE n \notin Live
      <4>1. age'[n] = age[n] /\ elapsed'[n] = elapsed[n] /\ seen'[n] = seen[n]
        BY <2>2, <3>3
      <4> QED BY <3>1, <4>1
    <3> QED BY <3>2, <3>3
  <2>4. elapsed' \in [Names -> Nat] /\ age' \in [Names -> Nat] /\ seen' \in [Names -> Nat]
    BY <2>1, <2>2 DEF ClockOK
  <2> QED BY <2>3, <2>4 DEF ClockOK
<1>3. ASSUME NEW n \in Names, AddInterval(n) PROVE ClockOK'
  <2>1. CASE Position(n) # {}
    BY <1>1, <1>3, <2>1 DEF AddInterval
  <2>2. CASE Position(n) = {}
    <3>1. /\ elapsed' = [elapsed EXCEPT ![n] = 0] /\ age' = [age EXCEPT ![n] = 0]
          /\ seen' = [seen EXCEPT ![n] = 0]
      BY <1>3, <2>2 DEF AddInterval
    <3>2. ASSUME NEW k \in Names PROVE Lost(age'[k], elapsed'[k], seen'[k])
      <4>1. CASE k = n
        <5>1. age'[k] = 0 /\ elapsed'[k] = 0 /\ seen'[k] = 0
          BY <3>1, <4>1 DEF ClockOK
        <5>2. PerMs * 0 = 0 /\ (PerMs - 1) * 0 = 0
          BY <1>0
        <5> QED BY <5>1, <5>2 DEF Lost
      <4>2. CASE k # n
        <5>1. age'[k] = age[k] /\ elapsed'[k] = elapsed[k] /\ seen'[k] = seen[k]
          BY <3>1, <4>2 DEF ClockOK
        <5> QED BY <5>1 DEF ClockOK
      <4> QED BY <4>1, <4>2
    <3> QED BY <3>1, <3>2 DEF ClockOK
  <2> QED BY <2>1, <2>2
<1>4. CASE \E n \in Names : HandleTI(n) \/ HandleTR(n)
  BY <1>1, <1>3, <1>4 DEF HandleTI, HandleTR, RemoveInterval, hostVars
<1>5. CASE Host
  BY <1>1, <1>2, <1>5 DEF Host, Visit, EndRound
<1>6. ASSUME NEW w \in Workers, Serve(w) PROVE ClockOK'
  BY <1>1, <1>6 DEF Serve, Take, WorkerQuery, ReadFirst, Postprocess, Output, Finish, WorkerExecute,
     hostVars
<1>7. ASSUME NEW t \in Threads, Step(t) PROVE ClockOK'
  BY <1>1, <1>7 DEF Step, EndQuery, BindQuery, BindAction, Bound, Enqueue, hostVars
<1>8. CASE \/ HandleTC \/ HandleTA \/ HandleTN \/ HandleQ \/ HandleP \/ EndP \/ EndRequest
           \/ NextRequest \/ UNCHANGED vars
  BY <1>1, <1>8 DEF HandleTC, HandleTA, HandleTN, HandleQ, HandleP, EndP, EndRequest, NextRequest,
     vars, hostVars
<1> QED BY <1>4, <1>5, <1>6, <1>7, <1>8 DEF Next, EngineStep

LEMMA ClockStart == Init => ClockOK
<1> SUFFICES ASSUME Init PROVE ClockOK
  OBVIOUS
<1>1. PerMs * 0 = 0 /\ (PerMs - 1) * 0 = 0
  BY TriggerAssumption
<1>2. \A n \in Names : elapsed[n] = 0 /\ age[n] = 0 /\ seen[n] = 0
  BY DEF Init
<1> QED BY <1>1, <1>2 DEF Init, ClockOK, Lost

\* What the invariants say between two rounds.
LEMMA HostBetween == HostInv /\ ClockOK => FiresWhenDue /\ OnPhase
<1>1. HostInv => FiresWhenDue
  <2> SUFFICES ASSUME HostInv, scan.at = 0, NEW k \in 1 .. size, memory[k].name \notin moved
               PROVE  fired[memory[k].name] = due[memory[k].name]
    BY DEF FiresWhenDue, Live
  <2> QED BY DEF HostInv, ScheduleOK, OnSchedule
<1>2. HostInv /\ ClockOK => OnPhase
  <2> SUFFICES ASSUME HostInv, ClockOK, scan.at = 0, NEW k \in 1 .. size,
                      memory[k].name \notin moved, seen[memory[k].name] > 0
               PROVE  /\ memory[k].left \in 1 .. memory[k].interval
                      /\ \E late \in 0 .. (PerMs - 1) * seen[memory[k].name] :
                           (PerMs * memory[k].left + age[memory[k].name] - late)
                             % (PerMs * memory[k].interval) = 0
    BY DEF OnPhase
  <2>0. memory[k].name \in Names /\ memory[k].interval = Interval[memory[k].name]
    BY HostTypes DEF HostInv, KeptOK, Kept
  <2>1. OnTime(memory[k].left, memory[k].interval, elapsed[memory[k].name])
    BY DEF HostInv, ScheduleOK, OnSchedule
  <2> PICK n \in Names : n = memory[k].name
    BY <2>0
  <2>2. /\ elapsed[n] \in Nat /\ age[n] \in Nat /\ seen[n] \in Nat /\ seen[n] > 0
        /\ Lost(age[n], elapsed[n], seen[n])
    BY DEF ClockOK
  <2> PICK e \in Nat, a \in Nat, c \in Nat : e = elapsed[n] /\ a = age[n] /\ c = seen[n]
    BY <2>2
  <2>3. e > 0 /\ a - PerMs * e \in 0 .. (PerMs - 1) * c
    BY <2>2 DEF Lost
  <2>4. memory[k].left \in 1 .. memory[k].interval /\ (memory[k].left + e) % memory[k].interval = 0
    BY <2>1, <2>3 DEF OnTime
  <2>5. memory[k].interval \in Nat \ {0} /\ PerMs \in Nat \ {0}
    BY <2>0, TriggerAssumption
  <2>6. memory[k].left \in Nat
    BY <2>4, <2>5
  <2>7. (PerMs * memory[k].left + a - (a - PerMs * e)) % (PerMs * memory[k].interval) = 0
    <3> PICK m \in Nat \ {0}, i \in Nat \ {0}, l \in Nat :
          m = PerMs /\ i = memory[k].interval /\ l = memory[k].left
      BY <2>5, <2>6
    <3>1. (l + e) % i = 0
      BY <2>4
    <3>2. PICK q \in Int : l + e = i * q
      <4>1. l + e = i * ((l + e) \div i) /\ (l + e) \div i \in Int
        BY <3>1
      <4> QED BY <4>1
    <3>3. m * l + a - (a - m * e) = m * (l + e)
      <4>1. m * l \in Int /\ m * e \in Int /\ m * (l + e) = m * l + m * e
        OBVIOUS
      <4> QED BY <4>1
    <3>4. m * (i * q) = (m * i) * q /\ m * i \in Nat \ {0}
      OBVIOUS
    <3>5. ((m * i) * q) % (m * i) = 0
      BY <3>4, Multiple
    <3>6. (m * l + a - (a - m * e)) % (m * i) = 0
      BY <3>2, <3>3, <3>4, <3>5
    <3> QED BY <3>6
  <2>8. \E late \in 0 .. (PerMs - 1) * c :
          (PerMs * memory[k].left + a - late) % (PerMs * memory[k].interval) = 0
    BY <2>3, <2>7
  <2> QED BY <2>4, <2>8
<1> QED BY <1>1, <1>2

-----------------------------------------------------------------------------
(* Types of what the threads execute and share.                              *)

LEMMA FrameTypes ==
  ASSUME ThreadsOK
  PROVE  /\ frame \in [Threads -> Frames] /\ Idle \in Frames
         /\ session.res \in Results \cup {None} /\ session.error \in BOOLEAN
         /\ own \in [Threads -> Outcomes \cup {Read}] /\ crossed \in [Threads -> BOOLEAN]
         /\ pending \in Seq(Payload)
         /\ None \in Procedures /\ Wild \in Procedures
         /\ Condition \in Procedures /\ Action \in Procedures
         /\ Workers \subseteq Threads /\ Engine \in Threads /\ Engine \notin Workers
         /\ Nothing \in Outcomes /\ None \notin Results
         /\ IntRange \in Nat \ {0} /\ {0, 1} \subseteq Returns
<1>0. 0 \in Returns
  BY TriggerAssumption DEF Returns
<1>1. Idle \in Frames
  BY <1>0 DEF Frames, Idle, PC, Procedures
<1>2. Nothing \in Outcomes
  BY DEF Nothing, Outcomes
<1> QED BY <1>0, <1>1, <1>2, TriggerAssumption DEF ThreadsOK, Procedures, Threads, Results, Returns

\* The host and the messages that only concern it.
LEMMA ThreadsHost ==
  ASSUME ThreadsOK, HostInv,
         \/ Host \/ \E n \in Names : HandleTI(n) \/ HandleTR(n)
         \/ HandleTA
  PROVE  /\ ThreadsOK' /\ UNCHANGED <<frame, session, own, crossed, registry>>
         /\ \/ UNCHANGED pending
            \/ \E p \in Payload : pending' = Append(pending, p)
                                  /\ (p.cond = None \/ p = [cond |-> Condition, act |-> Action])
<1>1. UNCHANGED <<frame, session, own, crossed, registry>>
  BY DEF Host, StartRound, Visit, EndRound, HandleTI, HandleTR, HandleTA, sessionVars
<1>2. \/ UNCHANGED pending
      \/ \E p \in Payload : pending' = Append(pending, p)
                            /\ (p.cond = None \/ p = [cond |-> Condition, act |-> Action])
  <2>1. CASE Visit
    <3>1. Kept(scan.at)
      BY <2>1 DEF Visit, Kept
    <3>2. [cond |-> None, act |-> memory[scan.at].action] \in Payload
      BY <3>1, HostTypes DEF Payload, Procedures, Entry
    <3> QED BY <2>1, <3>2 DEF Visit
  <2>2. CASE HandleTA
    BY <2>2, TriggerAssumption DEF HandleTA, Payload, Procedures
  <2>3. CASE \/ (\E ns \in Deltas : StartRound(ns)) \/ EndRound
             \/ \E n \in Names : HandleTI(n) \/ HandleTR(n)
    BY <2>3 DEF StartRound, EndRound, HandleTI, HandleTR
  <2> QED BY <2>1, <2>2, <2>3 DEF Host
<1>3. pending' \in Seq(Payload)
  BY <1>2, FrameTypes
<1> QED BY <1>1, <1>2, <1>3 DEF ThreadsOK

\* A thread's frame after its step.
LEMMA ThreadsFrame ==
  ASSUME ThreadsOK, NEW t \in Threads, NEW f \in Frames, frame' = [frame EXCEPT ![t] = f],
         session' \in [res : Results \cup {None}, error : BOOLEAN],
         own' \in [Threads -> Outcomes \cup {Read}], crossed' \in [Threads -> BOOLEAN],
         pending' \in Seq(Payload),
         registry' \in [known : BOOLEAN, query : Procedures, action : Procedures,
                        materialized : BOOLEAN, named : BOOLEAN, twice : BOOLEAN]
  PROVE  ThreadsOK'
BY DEF ThreadsOK

\* Changes of a frame, one field at a time.
LEMMA FrameFields ==
  ASSUME NEW f \in Frames
  PROVE  /\ \A x \in PC : [f EXCEPT !.pc = x] \in Frames
         /\ \A x \in Nat : [f EXCEPT !.i = x] \in Frames
         /\ \A x \in Returns : [f EXCEPT !.ret = x] \in Frames
         /\ \A x \in {"cond", "act"} : [f EXCEPT !.part = x] \in Frames
         /\ \A x \in Results \cup {None} : [f EXCEPT !.local = x] \in Frames
BY DEF Frames

LEMMA AdvanceType ==
  ASSUME NEW f \in Frames
  PROVE  /\ Advance(f) \in Frames /\ Advance(f).pc = "next" /\ Advance(f).i = f.i + 1
         /\ Advance(f).part = f.part /\ Advance(f).cond = f.cond /\ Advance(f).act = f.act
         /\ Advance(f).ret = f.ret
<1> DEFINE g == [f EXCEPT !.pc = "next"]
<1>0. f.i + 1 \in Nat /\ "next" \in PC
  BY DEF Frames, PC
<1>1. g \in Frames /\ g.pc = "next" /\ g.i = f.i /\ g.part = f.part /\ g.cond = f.cond
      /\ g.act = f.act /\ g.ret = f.ret
  BY <1>0, FrameFields DEF Frames
<1>2. Advance(f) = [g EXCEPT !.i = f.i + 1]
  BY DEF Advance
<1> HIDE DEF g
<1>3. Advance(f) \in Frames
  BY <1>0, <1>1, <1>2, FrameFields
<1> QED BY <1>1, <1>2, <1>3 DEF Frames

LEMMA LookUpType ==
  ASSUME ThreadsOK, NEW t \in Threads, LookUp(t)
  PROVE  \E f \in Frames : frame' = [frame EXCEPT ![t] = f]
<1>1. Advance(frame[t]) \in Frames
  BY FrameTypes, AdvanceType
<1>2. \A pc \in PC : [frame[t] EXCEPT !.pc = pc] \in Frames
  BY FrameTypes DEF Frames
<1> QED BY <1>1, <1>2, FrameTypes DEF LookUp, PC

LEMMA ResultIs ==
  ASSUME NEW r \in Results
  PROVE  r.is \in Int
<1> DEFINE S == Values \cup {0}
<1>1. r \in [rows : BOOLEAN, is : S]
  BY DEF Results
<1>2. \A x \in S : x \in Int
  BY TriggerAssumption
<1> HIDE DEF S
<1>3. r.is \in S
  BY <1>1
<1> QED BY <1>2, <1>3, Zenon

LEMMA FirstElementType ==
  ASSUME ThreadsOK
  PROVE  FirstElement \in Int
<1>1. session.res # None => session.res \in Results
  BY FrameTypes
<1> QED BY <1>1, ResultIs DEF FirstElement

LEMMA ThreadsServe ==
  ASSUME ThreadsOK, NEW w \in Workers, Serve(w)
  PROVE  ThreadsOK'
<1> USE DEF ThreadsOK
<1>0. w \in Threads /\ frame[w] \in Frames
  BY FrameTypes
<1>1. CASE Take(w)
  <2> DEFINE p == Head(pending)
             f == [Idle EXCEPT !.pc = "next", !.i = 1, !.cond = p.cond, !.act = p.act,
                               !.part = IF p.cond = None THEN "act" ELSE "cond"]
  <2>1. p \in Payload /\ Tail(pending) \in Seq(Payload)
    BY <1>1 DEF Take
  <2>2. f \in Frames
    BY <2>1, FrameTypes DEF Frames, Payload, PC, Idle
  <2>3. frame' = [frame EXCEPT ![w] = f]
    BY <1>1 DEF Take
  <2> QED BY <1>0, <1>1, <2>1, <2>2, <2>3, ThreadsFrame DEF Take, sessionVars
<1>2. CASE WorkerQuery(w)
  <2>1. frame' \in [Threads -> Frames]
    BY <1>0, <1>2, FrameTypes DEF WorkerQuery, BeginQuery, Frames, PC
  <2> QED BY <1>0, <1>2, <2>1, FrameTypes DEF WorkerQuery, BeginQuery
<1>3. CASE ReadFirst(w)
  <2>1. FirstElement \in Int
    BY FirstElementType
  <2>2. FirstElement % IntRange \in Returns
    BY <2>1, FrameTypes DEF Returns
  <2>3. [Advance(frame[w]) EXCEPT !.ret = FirstElement % IntRange] \in Frames
    BY <1>0, <2>2, AdvanceType, FrameFields
  <2>4. Cross(w) \in [Threads -> BOOLEAN]
    BY FrameTypes DEF Cross
  <2> QED BY <1>0, <1>3, <2>3, <2>4, FrameTypes DEF ReadFirst, ClearError
<1>4. CASE Postprocess(w)
  <2>1. \A r \in {0, 1} : [Advance(frame[w]) EXCEPT !.ret = r] \in Frames
    BY <1>0, AdvanceType, FrameFields, FrameTypes
  <2> QED BY <1>0, <1>4, <2>1, FrameTypes DEF Postprocess, sessionVars
<1>5. CASE Output(w)
  <2>1. Advance(frame[w]) \in Frames /\ Cross(w) \in [Threads -> BOOLEAN]
    BY <1>0, AdvanceType, FrameTypes DEF Cross
  <2> QED BY <1>0, <1>5, <2>1, FrameTypes DEF Output, ClearError
<1>6. CASE Finish(w)
  <2>1. [[[frame[w] EXCEPT !.part = "act"] EXCEPT !.i = 1] EXCEPT !.ret = 0] \in Frames
    BY <1>0, FrameTypes, FrameFields
  <2> QED BY <1>0, <1>6, <2>1, FrameTypes DEF Finish
<1>7. CASE WorkerExecute(w)
  <2>1. PICK f \in Frames : frame' = [frame EXCEPT ![w] = f]
    BY <1>0, <1>7, LookUpType DEF WorkerExecute
  <2>2. registry' \in [known : BOOLEAN, query : Procedures, action : Procedures,
                       materialized : BOOLEAN, named : BOOLEAN, twice : BOOLEAN]
    BY <1>7 DEF WorkerExecute
  <2> QED BY <1>0, <1>7, <2>1, <2>2, ThreadsFrame DEF WorkerExecute, sessionVars
<1> QED BY <1>1, <1>2, <1>3, <1>4, <1>5, <1>6, <1>7 DEF Serve

LEMMA ThreadsMove ==
  ASSUME ThreadsOK, NEW t \in Threads, Step(t)
  PROVE  ThreadsOK'
<1> USE DEF ThreadsOK
<1>0. frame[t] \in Frames
  BY FrameTypes
<1>1. CASE EndQuery(t)
  <2>1. PICK r \in Outcomes :
          /\ session' = [res |-> IF (IF r.what \in {"value", "empty"}
                                     THEN [rows |-> r.what = "value", is |-> r.is]
                                     ELSE frame[t].local) = None
                                 THEN session.res
                                 ELSE IF r.what \in {"value", "empty"}
                                      THEN [rows |-> r.what = "value", is |-> r.is]
                                      ELSE frame[t].local,
                         error |-> session.error \/ r.what = "error"]
          /\ own' = [own EXCEPT ![t] = r]
    BY <1>1 DEF EndQuery
  <2>2. [rows |-> r.what = "value", is |-> r.is] \in Results
    BY DEF Outcomes, Results
  <2>3. session' \in [res : Results \cup {None}, error : BOOLEAN]
    BY <1>0, <2>1, <2>2, FrameTypes DEF Frames
  <2>4. crossed' \in [Threads -> BOOLEAN]
    BY <1>1, FrameTypes DEF EndQuery, Cross
  <2>5. frame' \in [Threads -> Frames]
    BY <1>0, <1>1, FrameTypes DEF EndQuery, Frames, PC
  <2>6. own' \in [Threads -> Outcomes \cup {Read}] /\ UNCHANGED <<pending, registry>>
    BY <1>1, <2>1, FrameTypes DEF EndQuery
  <2> QED BY <2>3, <2>4, <2>5, <2>6
<1>2. CASE BindQuery(t) \/ BindAction(t) \/ Bound(t)
  <2>1. frame' \in [Threads -> Frames]
    <3>1. \A x \in PC : [frame[t] EXCEPT !.pc = x] \in Frames
      BY <1>0, FrameFields
    <3> QED BY <1>2, <3>1, FrameTypes DEF BindQuery, BindAction, Bound, PC
  <2>2. registry' \in [known : BOOLEAN, query : Procedures, action : Procedures,
                       materialized : BOOLEAN, named : BOOLEAN, twice : BOOLEAN]
    BY <1>2, FrameTypes DEF BindQuery, BindAction, Bound
  <2>3. UNCHANGED <<session, own, crossed, pending>>
    BY <1>2 DEF BindQuery, BindAction, Bound, sessionVars
  <2> QED BY <2>1, <2>2, <2>3
<1>3. CASE Enqueue(t)
  <2>1. [cond |-> registry.query, act |-> registry.action] \in Payload
    BY DEF Payload
  <2>2. pending' \in Seq(Payload)
    BY <1>3, <2>1 DEF Enqueue
  <2>3. Advance(frame[t]) \in Frames
    BY <1>0, AdvanceType
  <2>4. frame' \in [Threads -> Frames]
    BY <1>3, <2>3, FrameTypes DEF Enqueue
  <2>5. UNCHANGED <<session, own, crossed, registry>>
    BY <1>3 DEF Enqueue, sessionVars
  <2> QED BY <2>2, <2>4, <2>5
<1> QED BY <1>1, <1>2, <1>3 DEF Step

LEMMA ThreadsEngine ==
  ASSUME ThreadsOK,
         HandleTC \/ HandleTN \/ HandleQ \/ HandleP \/ EndP \/ EndRequest \/ NextRequest
  PROVE  ThreadsOK'
<1> USE DEF ThreadsOK
<1>0. Engine \in Threads /\ frame[Engine] \in Frames
  BY FrameTypes
<1>1. CASE HandleTC \/ NextRequest
  <2>1. UNCHANGED <<session, own, crossed, pending>> /\ frame' \in [Threads -> Frames]
    <3>1. [frame[Engine] EXCEPT !.pc = "idle"] \in Frames
      BY <1>0, FrameFields DEF PC
    <3> QED BY <1>1, <3>1, FrameTypes DEF HandleTC, NextRequest, sessionVars
  <2>2. registry' \in [known : BOOLEAN, query : Procedures, action : Procedures,
                       materialized : BOOLEAN, named : BOOLEAN, twice : BOOLEAN]
    BY <1>1, FrameTypes DEF HandleTC, NextRequest, Unregistered
  <2> QED BY <2>1, <2>2
<1>2. CASE HandleTN
  <2>1. PICK f \in Frames : frame' = [frame EXCEPT ![Engine] = f]
    BY <1>0, <1>2, LookUpType DEF HandleTN
  <2>2. registry' \in [known : BOOLEAN, query : Procedures, action : Procedures,
                       materialized : BOOLEAN, named : BOOLEAN, twice : BOOLEAN]
    BY <1>2 DEF HandleTN
  <2> QED BY <1>0, <1>2, <2>1, <2>2, ThreadsFrame DEF HandleTN, sessionVars
<1>3. CASE HandleQ
  <2>1. frame' \in [Threads -> Frames]
    BY <1>0, <1>3, FrameTypes DEF HandleQ, BeginQuery, Frames, PC
  <2> QED BY <1>0, <1>3, <2>1, FrameTypes DEF HandleQ, BeginQuery
<1>4. CASE HandleP \/ EndP \/ EndRequest
  <2>1. frame' \in [Threads -> Frames]
    <3>1. \A x \in PC : [frame[Engine] EXCEPT !.pc = x] \in Frames
      BY <1>0, FrameFields
    <3> QED BY <1>4, <3>1, FrameTypes DEF HandleP, EndP, EndRequest, PC
  <2>2. Cross(Engine) \in [Threads -> BOOLEAN]
    BY FrameTypes DEF Cross
  <2>3. /\ session' \in [res : Results \cup {None}, error : BOOLEAN]
        /\ own' \in [Threads -> Outcomes \cup {Read}] /\ crossed' \in [Threads -> BOOLEAN]
        /\ UNCHANGED <<pending, registry>>
    BY <1>4, <2>2, FrameTypes DEF HandleP, EndP, EndRequest, ClearError
  <2> QED BY <2>1, <2>3
<1> QED BY <1>1, <1>2, <1>3, <1>4

LEMMA ThreadsStep ==
  ASSUME ThreadsOK, HostInv, [Next]_vars
  PROVE  ThreadsOK'
<1>1. CASE UNCHANGED vars
  BY <1>1 DEF ThreadsOK, vars, sessionVars
<1> QED BY <1>1, ThreadsHost, ThreadsServe, ThreadsMove, ThreadsEngine DEF Next, EngineStep

LEMMA ThreadsStart == Init => ThreadsOK
<1> SUFFICES ASSUME Init PROVE ThreadsOK
  OBVIOUS
<1>1. 0 \in Returns
  BY TriggerAssumption DEF Returns
<1>2. Idle \in Frames
  BY <1>1 DEF Frames, Idle, PC, Procedures
<1>3. frame \in [Threads -> Frames]
  BY <1>2 DEF Init
<1>4. /\ session \in [res : Results \cup {None}, error : BOOLEAN]
      /\ own \in [Threads -> Outcomes \cup {Read}] /\ crossed \in [Threads -> BOOLEAN]
      /\ pending \in Seq(Payload)
  BY DEF Init
<1>5. registry \in [known : BOOLEAN, query : Procedures, action : Procedures,
                    materialized : BOOLEAN, named : BOOLEAN, twice : BOOLEAN]
  BY DEF Init, Unregistered, Procedures
<1> QED BY <1>3, <1>4, <1>5 DEF ThreadsOK

LEMMA TypesKept == HostInv /\ ThreadsOK => TypeOK
<1> SUFFICES ASSUME HostInv, ThreadsOK PROVE TypeOK
  OBVIOUS
<1>1. \A k \in DOMAIN memory : /\ memory[k].name \in Names \cup {None}
                                /\ memory[k].left \in 0 .. Modulus - 1
  BY HostTypes DEF Entry
<1>2. \A t \in Threads : /\ frame[t].part \in {"cond", "act"}
                          /\ frame[t].ret \in 0 .. IntRange - 1 \cup {1}
  BY FrameTypes DEF Frames, Returns
<1> QED BY <1>1, <1>2, HostTypes, FrameTypes DEF TypeOK, HostInv, HostOK

\* Whatever the periods, the times between the rounds and the removals that the host does not
\* see, an interval trigger that was left in its place has fired, between two rounds, in just the
\* rounds in which its period went by in the time as measured; and it waits for the rest of the
\* period by the clock, late by less than 1 ms for each round since its registration
\* (threading.cpp:177-219).
THEOREM TicksOnSchedule == Spec => []Scheduled
<1>1. Init => HostInv /\ ThreadsOK /\ ClockOK
  BY HostStarts, ThreadsStart, ClockStart
<1>2. HostInv /\ ThreadsOK /\ ClockOK /\ [Next]_vars => (HostInv /\ ThreadsOK /\ ClockOK)'
  BY HostStep, ThreadsStep, ClockStep
<1>3. HostInv /\ ThreadsOK /\ ClockOK => Scheduled
  BY HostBetween, TypesKept DEF Scheduled
<1> QED BY <1>1, <1>2, <1>3, PTL DEF Spec

-----------------------------------------------------------------------------
(* What each thread decides on.                                              *)

LEMMA SameStatements ==
  ASSUME NEW f, NEW g, f.part = g.part, f.cond = g.cond, f.act = g.act
  PROVE  Statements(f) = Statements(g)
BY DEF Statements, Procedure

\* A condition has statements: its place in them is a place in a sequence.
LEMMA StatementsType ==
  ASSUME NEW f \in Frames, f.part = "cond", f.cond # None
  PROVE  Statements(f) \in Seq({"Q", "P", "O", "T"}) /\ Len(Statements(f)) \in Nat
<1>1. f.cond \in Procedures
  BY DEF Frames
<1>2. Statements(f) \in Seq({"Q", "P", "O", "T"})
  BY <1>1, TriggerAssumption DEF Statements, Procedure, Procedures
<1> QED BY <1>2

LEMMA OwnFields ==
  ASSUME ThreadsOK, NEW t \in Threads
  PROVE  /\ own[t] = Read \/ own[t] \in Outcomes
         /\ own[t].what = "error" => own[t] # Read
         /\ crossed[t] \in BOOLEAN /\ session.error \in BOOLEAN
         /\ frame[t] \in Frames /\ frame[t].i \in Nat
<1>1. own[t] = Read \/ own[t] \in Outcomes
  BY FrameTypes
<1>2. frame[t] \in Frames
  BY FrameTypes
<1>3. frame[t].i \in Nat
  BY <1>2 DEF Frames
<1> QED BY <1>1, <1>2, <1>3, FrameTypes DEF Read

\* The step of one thread: the others keep their place, and either the session is left as it
\* was or whoever still needs it is crossed.
LEMMA OwnOthers ==
  ASSUME ThreadsOK, OwnInv, NEW t \in Threads,
         \A u \in Threads : u # t => frame'[u] = frame[u] /\ own'[u] = own[u],
         \/ session' = session /\ \A u \in Threads : u # t => crossed'[u] = crossed[u]
         \/ \A u \in Threads : u # t => crossed'[u] = IF own[u] # Read THEN TRUE ELSE crossed[u],
         OwnQuery(t)', t \in Workers => PlaceOK(frame'[t]) /\ Decided(t)',
         t = Engine => EngineError'
  PROVE  OwnInv'
<1>1. ASSUME NEW u \in Threads, u # t PROVE OwnQuery(u)'
  <2>1. OwnQuery(u)
    BY DEF OwnInv
  <2>2. Nothing # Read
    BY DEF Nothing, Read
  <2> QED BY <1>1, <2>1, <2>2 DEF OwnQuery, Shows
<1>2. ASSUME NEW u \in Workers, u # t PROVE PlaceOK(frame'[u]) /\ Decided(u)'
  <2>0. u \in Threads
    BY DEF Threads
  <2>1. PlaceOK(frame[u]) /\ Decided(u)
    BY DEF OwnInv
  <2>2. frame'[u] = frame[u] /\ own'[u] = own[u] /\ (~crossed'[u] => ~crossed[u])
    BY <1>2, <2>0
  <2> QED BY <2>1, <2>2 DEF Decided
<1>3. ASSUME t # Engine PROVE EngineError'
  <2>0. Engine \in Threads
    BY DEF Threads
  <2>1. EngineError
    BY DEF OwnInv
  <2>2. own[Engine].what = "error" => own[Engine] # Read
    BY <2>0, OwnFields
  <2>3. frame'[Engine] = frame[Engine] /\ own'[Engine] = own[Engine]
    BY <1>3, <2>0
  <2> QED BY <1>3, <2>0, <2>1, <2>2, <2>3 DEF EngineError
<1>4. \A w \in Workers : w \in Threads
  BY DEF Threads
<1>5. \A u \in Threads : OwnQuery(u)'
  BY <1>1
<1>6. \A w \in Workers : PlaceOK(frame'[w]) /\ Decided(w)'
  BY <1>2
<1>7. EngineError'
  BY <1>3
<1> QED BY <1>5, <1>6, <1>7 DEF OwnInv

\* A step that leaves the session alone and is not a step of a query.
LEMMA OwnFrame ==
  ASSUME ThreadsOK, OwnInv, NEW t \in Threads, NEW g \in Frames,
         frame' = [frame EXCEPT ![t] = g], UNCHANGED <<session, own, crossed>>,
         g.pc \notin {"query", "read", "postproc"}, t \in Workers => PlaceOK(g),
         g.pc = "next" /\ g.part = "cond" /\ g.i > 1 => Statements(g)[g.i - 1] # "Q"
  PROVE  OwnInv'
<1>1. frame'[t] = g /\ \A u \in Threads : u # t => frame'[u] = frame[u]
  BY FrameTypes
<1>2. OwnQuery(t)' /\ Decided(t)'
  BY <1>1 DEF OwnQuery, Decided
<1>3. t = Engine => EngineError'
  BY <1>1 DEF OwnInv, EngineError
<1> QED BY <1>1, <1>2, <1>3, OwnOthers

LEMMA PcChange ==
  ASSUME NEW f \in Frames, NEW x \in PC
  PROVE  /\ [f EXCEPT !.pc = x] \in Frames /\ [f EXCEPT !.pc = x].pc = x
         /\ [f EXCEPT !.pc = x].i = f.i /\ [f EXCEPT !.pc = x].part = f.part
         /\ [f EXCEPT !.pc = x].cond = f.cond /\ [f EXCEPT !.pc = x].act = f.act
         /\ [f EXCEPT !.pc = x].ret = f.ret
BY FrameFields DEF Frames

\* A statement other than a query is behind the worker.
LEMMA OwnAdvance ==
  ASSUME ThreadsOK, OwnInv, NEW f \in Frames, NEW g \in Frames, PlaceOK(f),
         f.part = "cond" => f.i \in 1 .. Len(Statements(f)) /\ Statements(f)[f.i] # "Q",
         g.pc = "next", g.i = f.i + 1, g.part = f.part, g.cond = f.cond, g.act = f.act
  PROVE  /\ PlaceOK(g)
         /\ g.pc = "next" /\ g.part = "cond" /\ g.i > 1 => Statements(g)[g.i - 1] # "Q"
<1>1. Statements(g) = Statements(f)
  BY SameStatements
<1>2. f.i \in Nat /\ g.i - 1 = f.i
  BY DEF Frames
<1>3. CASE f.part = "cond"
  <2>1. f.cond # None /\ Len(Statements(f)) \in Nat
    BY <1>3, StatementsType DEF PlaceOK
  <2>2. g.i \in 1 .. Len(Statements(g)) + 1
    BY <1>1, <1>2, <1>3, <2>1
  <2> QED BY <1>1, <1>2, <1>3, <2>1, <2>2 DEF PlaceOK
<1>4. CASE f.part # "cond"
  BY <1>4 DEF PlaceOK
<1> QED BY <1>3, <1>4


\* Where AtStatement finds a worker.
LEMMA AtPlace ==
  ASSUME ThreadsOK, OwnInv, NEW w \in Workers, NEW kind, AtStatement(w, kind)
  PROVE  /\ w \in Threads /\ frame[w] \in Frames /\ frame[w].pc = "next" /\ PlaceOK(frame[w])
         /\ frame[w].part = "cond" => /\ frame[w].i \in 1 .. Len(Statements(frame[w]))
                                      /\ Statements(frame[w])[frame[w].i] = kind
<1> DEFINE f == frame[w]
           s == Statements(f)
<1>1. w \in Threads /\ f \in Frames
  BY FrameTypes
<1>2. f.pc = "next" /\ f.i <= Len(s) /\ s[f.i] = kind
  BY DEF AtStatement
<1>3. PlaceOK(f)
  BY DEF OwnInv
<1>4. ASSUME f.part = "cond" PROVE f.i \in 1 .. Len(s)
  <2>1. f.cond # None /\ f.i \in 1 .. Len(s) + 1
    BY <1>2, <1>3, <1>4 DEF PlaceOK
  <2>2. Len(s) \in Nat
    BY <1>1, <1>4, <2>1, StatementsType
  <2> QED BY <1>2, <2>1, <2>2
<1> QED BY <1>1, <1>2, <1>3, <1>4

LEMMA OwnTake ==
  ASSUME ThreadsOK, OwnInv, NEW w \in Workers, Take(w)
  PROVE  OwnInv'
<1> DEFINE p == Head(pending)
           g == [Idle EXCEPT !.pc = "next", !.i = 1, !.cond = p.cond, !.act = p.act,
                             !.part = IF p.cond = None THEN "act" ELSE "cond"]
<1>1. p \in Payload
  BY FrameTypes DEF Take
<1>2. g \in Frames /\ g.pc = "next" /\ g.i = 1 /\ (g.part = "cond" => g.cond # None)
  BY <1>1, FrameTypes DEF Frames, Payload, PC, Idle
<1>3. frame' = [frame EXCEPT ![w] = g] /\ UNCHANGED <<session, own, crossed>> /\ w \in Threads
  BY FrameTypes DEF Take, sessionVars
<1> HIDE DEF g
<1>4. PlaceOK(g)
  <2> SUFFICES ASSUME g.part = "cond" PROVE PlaceOK(g)
    BY DEF PlaceOK
  <2>1. Len(Statements(g)) \in Nat
    BY <1>2, StatementsType
  <2> QED BY <1>2, <2>1 DEF PlaceOK
<1>5. ~(g.i > 1) /\ g.pc \notin {"query", "read", "postproc"}
  BY <1>2
<1> QED BY <1>2, <1>3, <1>4, <1>5, OwnFrame, Zenon

\* The start of a query.
LEMMA OwnBegin ==
  ASSUME ThreadsOK, OwnInv, NEW t \in Threads, BeginQuery(t),
         t \in Workers => AtStatement(t, "Q")
  PROVE  OwnInv'
<1>1. /\ \A u \in Threads : u # t => frame'[u] = frame[u] /\ own'[u] = own[u]
      /\ \A u \in Threads : u # t => crossed'[u] = crossed[u]
      /\ session' = session
  BY FrameTypes DEF BeginQuery
<1>2. own'[t] = Nothing /\ crossed'[t] = session.error
  BY FrameTypes DEF BeginQuery
<1>3. frame'[t] = [frame[t] EXCEPT !.pc = "query", !.local = session.res]
  BY FrameTypes DEF BeginQuery
<1>4. /\ frame'[t].pc = "query" /\ frame'[t].i = frame[t].i /\ frame'[t].part = frame[t].part
      /\ frame'[t].cond = frame[t].cond /\ frame'[t].act = frame[t].act
  BY <1>3, FrameTypes DEF Frames
<1>5. OwnQuery(t)'
  BY <1>1, <1>2, <1>4 DEF OwnQuery
<1>6. ASSUME t \in Workers PROVE PlaceOK(frame'[t]) /\ Decided(t)'
  <2>1. /\ PlaceOK(frame[t]) /\ frame[t].pc = "next"
        /\ frame[t].part = "cond" => /\ frame[t].i \in 1 .. Len(Statements(frame[t]))
                                     /\ Statements(frame[t])[frame[t].i] = "Q"
    BY <1>6, AtPlace
  <2>2. Statements(frame'[t]) = Statements(frame[t])
    BY <1>4, SameStatements
  <2> QED BY <1>4, <2>1, <2>2 DEF PlaceOK, Decided
<1>7. EngineError' \/ t # Engine
  BY <1>2 DEF EngineError, Nothing
<1> QED BY <1>1, <1>5, <1>6, <1>7, OwnOthers

\* The end of a query: the session shows its outcome, unless it was crossed before.
LEMMA OwnEnd ==
  ASSUME ThreadsOK, OwnInv, NEW t \in Threads, EndQuery(t)
  PROVE  OwnInv'
<1>1. PICK r \in Outcomes :
        /\ session' = [res |-> IF (IF r.what \in {"value", "empty"}
                                   THEN [rows |-> r.what = "value", is |-> r.is]
                                   ELSE frame[t].local) = None
                               THEN session.res
                               ELSE IF r.what \in {"value", "empty"}
                                    THEN [rows |-> r.what = "value", is |-> r.is]
                                    ELSE frame[t].local,
                       error |-> session.error \/ r.what = "error"]
        /\ own' = [own EXCEPT ![t] = r]
  BY DEF EndQuery
<1>2. frame[t].pc = "query" /\ OwnQuery(t)
  BY DEF EndQuery, OwnInv
<1>3. /\ own'[t] = r /\ r # Read
      /\ \A u \in Threads : u # t => own'[u] = own[u] /\ frame'[u] = frame[u]
      /\ crossed'[t] = crossed[t]
      /\ \A u \in Threads : u # t => crossed'[u] = IF own[u] # Read THEN TRUE ELSE crossed[u]
  BY <1>1, FrameTypes DEF EndQuery, Cross, Outcomes, Read
<1>4. frame'[t] = [frame[t] EXCEPT !.pc = IF t = Engine THEN "idle" ELSE "read", !.local = None]
  BY FrameTypes DEF EndQuery
<1>5. /\ frame'[t].pc = IF t = Engine THEN "idle" ELSE "read"
      /\ frame'[t].i = frame[t].i /\ frame'[t].part = frame[t].part
      /\ frame'[t].cond = frame[t].cond /\ frame'[t].act = frame[t].act
  BY <1>4, FrameTypes DEF Frames
<1>6. ASSUME ~crossed[t] PROVE Shows(t)'
  <2>1. session.error = FALSE
    BY <1>2, <1>6, OwnFields DEF OwnQuery
  <2>2. session'.error <=> r.what = "error"
    BY <1>1, <2>1
  <2>3. ASSUME r.what \in {"value", "empty"}
        PROVE  session'.res = [rows |-> r.what = "value", is |-> r.is] /\ session'.res # None
    <3>1. [rows |-> r.what = "value", is |-> r.is] \in Results
      BY DEF Outcomes, Results
    <3> QED BY <1>1, <2>3, <3>1, FrameTypes
  <2>4. r.what = "value" => session'.res = [rows |-> TRUE, is |-> r.is]
    BY <2>3, Zenon
  <2>5. ASSUME r.what = "empty" PROVE session'.res # None /\ ~session'.res.rows
    <3>1. session'.res = [rows |-> FALSE, is |-> r.is] /\ session'.res # None
      BY <2>3, <2>5
    <3> QED BY <3>1
  <2> QED BY <1>3, <2>2, <2>4, <2>5 DEF Shows
<1>7. OwnQuery(t)'
  BY <1>3, <1>5, <1>6 DEF OwnQuery
<1>8. ASSUME t \in Workers PROVE PlaceOK(frame'[t]) /\ Decided(t)'
  <2>1. PlaceOK(frame[t])
    BY <1>8 DEF OwnInv
  <2>2. Statements(frame'[t]) = Statements(frame[t])
    BY <1>5, SameStatements
  <2>3. frame'[t].pc = "read"
    BY <1>5, <1>8, FrameTypes
  <2> QED BY <1>2, <1>5, <2>1, <2>2, <2>3 DEF PlaceOK, Decided
<1>9. ASSUME t = Engine PROVE EngineError'
  BY <1>1, <1>3, <1>5, <1>9 DEF EngineError
<1> QED BY <1>3, <1>7, <1>8, <1>9, OwnOthers


\* A test of the error: whoever tests it clears it for the others.
LEMMA OwnClear ==
  ASSUME ThreadsOK, NEW t \in Threads, ClearError,
         crossed' = IF session.error THEN Cross(t) ELSE crossed
  PROVE  /\ \/ session' = session /\ \A u \in Threads : u # t => crossed'[u] = crossed[u]
            \/ \A u \in Threads : u # t => crossed'[u] = IF own[u] # Read THEN TRUE ELSE crossed[u]
         /\ crossed'[t] = crossed[t]
<1>1. CASE session.error
  BY <1>1, FrameTypes DEF Cross
<1>2. CASE ~session.error
  <2>1. session' = session
    BY <1>2, OwnFields DEF ClearError, ThreadsOK
  <2> QED BY <1>2, <2>1
<1> QED BY <1>1, <1>2

\* What getFirstElement gives the thread that the session still shows its own query.
LEMMA ReadsOwn ==
  ASSUME ThreadsOK, NEW t \in Threads, Shows(t), own[t] # Read, own[t].what # "none"
  PROVE  FirstElement = own[t].is
<1>1. own[t] \in Outcomes
  BY OwnFields
<1>2. own[t].what = "value" \/ (own[t].what \in {"empty", "error"} /\ own[t].is = 0)
  BY <1>1 DEF Outcomes
<1>3. CASE own[t].what = "value"
  <2>1. session.res = [rows |-> TRUE, is |-> own[t].is] /\ session.error = FALSE
    BY <1>3, OwnFields DEF Shows
  <2>2. session.res # None
    <3>1. [rows |-> TRUE, is |-> own[t].is] \in Results
      BY <1>1, <1>3 DEF Outcomes, Results
    <3> QED BY <2>1, <3>1, FrameTypes
  <2> QED BY <2>1, <2>2 DEF FirstElement
<1>4. CASE own[t].what \in {"empty", "error"} /\ own[t].is = 0
  BY <1>4 DEF Shows, FirstElement
<1> QED BY <1>2, <1>3, <1>4

LEMMA OwnRead ==
  ASSUME ThreadsOK, OwnInv, NEW w \in Workers, ReadFirst(w)
  PROVE  OwnInv'
<1> DEFINE f == frame[w]
           a == Advance(f)
<1>1. w \in Threads /\ w # Engine /\ f \in Frames /\ f.pc = "read"
  BY FrameTypes DEF ReadFirst
<1>2. OwnQuery(w) /\ PlaceOK(f)
  BY <1>1 DEF OwnInv
<1>3. /\ a \in Frames /\ a.pc = "next" /\ a.i = f.i + 1 /\ a.part = f.part
      /\ a.cond = f.cond /\ a.act = f.act
  BY <1>1, AdvanceType
<1>4. frame' = [frame EXCEPT ![w] = [a EXCEPT !.ret = FirstElement % IntRange]]
  BY DEF ReadFirst
<1> HIDE DEF a
<1>5. /\ frame'[w].pc = "next" /\ frame'[w].i = f.i + 1 /\ frame'[w].part = f.part
      /\ frame'[w].cond = f.cond /\ frame'[w].act = f.act
      /\ frame'[w].ret = FirstElement % IntRange
      /\ \A u \in Threads : u # w => frame'[u] = frame[u]
  BY <1>1, <1>3, <1>4, FrameTypes DEF Frames
<1>6. own' = own
  BY DEF ReadFirst
<1>7. /\ \/ session' = session /\ \A u \in Threads : u # w => crossed'[u] = crossed[u]
         \/ \A u \in Threads : u # w => crossed'[u] = IF own[u] # Read THEN TRUE ELSE crossed[u]
      /\ crossed'[w] = crossed[w]
  BY <1>1, OwnClear DEF ReadFirst
<1>8. OwnQuery(w)'
  BY <1>5 DEF OwnQuery
<1>9. Statements(frame'[w]) = Statements(f)
  BY <1>5, SameStatements
<1>10. PlaceOK(frame'[w])
  <2>1. CASE f.part = "cond"
    <3>1. f.i \in 1 .. Len(Statements(f)) /\ f.cond # None
      BY <1>1, <1>2, <2>1 DEF PlaceOK
    <3>2. Len(Statements(f)) \in Nat
      BY <1>1, <2>1, <3>1, StatementsType
    <3>3. f.i + 1 \in 1 .. Len(Statements(f)) + 1
      BY <3>1, <3>2
    <3> QED BY <1>5, <1>9, <3>1, <3>3 DEF PlaceOK
  <2>2. CASE f.part # "cond"
    BY <1>5, <2>2 DEF PlaceOK
  <2> QED BY <2>1, <2>2
<1>11. Decided(w)'
  <2>1. own[w].what # "none" /\ ~crossed[w] => FirstElement = own[w].is
    BY <1>1, <1>2, ReadsOwn DEF OwnQuery
  <2> QED BY <1>5, <1>6, <1>7, <2>1 DEF Decided
<1> QED BY <1>1, <1>5, <1>6, <1>7, <1>8, <1>10, <1>11, OwnOthers, Zenon

LEMMA OwnOutput ==
  ASSUME ThreadsOK, OwnInv, NEW w \in Workers, Output(w)
  PROVE  OwnInv'
<1> DEFINE f == frame[w]
           a == Advance(f)
<1>1. /\ w \in Threads /\ f \in Frames /\ PlaceOK(f)
      /\ f.part = "cond" => f.i \in 1 .. Len(Statements(f)) /\ Statements(f)[f.i] = "O"
  BY AtPlace DEF Output
<1>2. /\ a \in Frames /\ a.pc = "next" /\ a.i = f.i + 1 /\ a.part = f.part
      /\ a.cond = f.cond /\ a.act = f.act
  BY <1>1, AdvanceType
<1>3. /\ PlaceOK(a)
      /\ a.pc = "next" /\ a.part = "cond" /\ a.i > 1 => Statements(a)[a.i - 1] # "Q"
  BY <1>1, <1>2, OwnAdvance
<1>4. frame' = [frame EXCEPT ![w] = a] /\ own' = own
  BY DEF Output
<1> HIDE DEF a
<1>5. frame'[w] = a /\ \A u \in Threads : u # w => frame'[u] = frame[u]
  BY <1>1, <1>4, FrameTypes
<1>6. \/ session' = session /\ \A u \in Threads : u # w => crossed'[u] = crossed[u]
      \/ \A u \in Threads : u # w => crossed'[u] = IF own[u] # Read THEN TRUE ELSE crossed[u]
  BY <1>1, OwnClear DEF Output
<1>7. OwnQuery(w)' /\ Decided(w)'
  BY <1>2, <1>3, <1>5 DEF OwnQuery, Decided
<1>8. w # Engine
  BY FrameTypes
<1> QED BY <1>1, <1>3, <1>4, <1>5, <1>6, <1>7, <1>8, OwnOthers, Zenon

LEMMA RetChange ==
  ASSUME NEW f \in Frames, NEW x \in Returns
  PROVE  /\ [f EXCEPT !.ret = x] \in Frames
         /\ [f EXCEPT !.ret = x].pc = f.pc /\ [f EXCEPT !.ret = x].i = f.i
         /\ [f EXCEPT !.ret = x].part = f.part /\ [f EXCEPT !.ret = x].cond = f.cond
         /\ [f EXCEPT !.ret = x].act = f.act
BY FrameFields DEF Frames

LEMMA OwnPostprocess ==
  ASSUME ThreadsOK, OwnInv, NEW w \in Workers, Postprocess(w)
  PROVE  OwnInv'
<1> DEFINE f == frame[w]
           a == Advance(f)
<1>1. /\ w \in Threads /\ f \in Frames /\ PlaceOK(f)
      /\ f.part = "cond" => f.i \in 1 .. Len(Statements(f)) /\ Statements(f)[f.i] = "P"
  BY AtPlace DEF Postprocess
<1>2. /\ a \in Frames /\ a.pc = "next" /\ a.i = f.i + 1 /\ a.part = f.part
      /\ a.cond = f.cond /\ a.act = f.act
  BY <1>1, AdvanceType
<1>3. PICK r \in {0, 1} : frame' = [frame EXCEPT ![w] = [a EXCEPT !.ret = r]]
  BY DEF Postprocess
<1> DEFINE g == [a EXCEPT !.ret = r]
<1> HIDE DEF a
<1>4. /\ g \in Frames /\ g.pc = "next" /\ g.i = f.i + 1 /\ g.part = f.part
      /\ g.cond = f.cond /\ g.act = f.act
  BY <1>2, <1>3, RetChange, FrameTypes
<1>5. frame' = [frame EXCEPT ![w] = g] /\ UNCHANGED <<session, own, crossed>>
  BY <1>3 DEF Postprocess, sessionVars
<1> HIDE DEF g
<1>6. /\ PlaceOK(g)
      /\ g.pc = "next" /\ g.part = "cond" /\ g.i > 1 => Statements(g)[g.i - 1] # "Q"
  BY <1>1, <1>4, OwnAdvance
<1>7. g.pc \notin {"query", "read", "postproc"}
  BY <1>4
<1> QED BY <1>1, <1>4, <1>5, <1>6, <1>7, OwnFrame, Zenon

LEMMA OwnFinish ==
  ASSUME ThreadsOK, OwnInv, NEW w \in Workers, Finish(w)
  PROVE  OwnInv'
<1>1. w \in Threads /\ frame[w] \in Frames /\ w # Engine
  BY FrameTypes
<1>2. /\ own'[w] = Read
      /\ \A u \in Threads : u # w => own'[u] = own[u] /\ frame'[u] = frame[u]
      /\ \A u \in Threads : u # w => crossed'[u] = crossed[u]
      /\ session' = session
  BY <1>1, FrameTypes DEF Finish
<1>3. frame'[w].part = "act" /\ frame'[w].pc \in {"idle", "next"}
  <2>1. frame[w].pc = "next"
    BY DEF Finish
  <2>2. frame'[w] = IF frame[w].part = "cond" /\ frame[w].ret # 0
                    THEN [frame[w] EXCEPT !.part = "act", !.i = 1, !.ret = 0] ELSE Idle
    BY <1>1, FrameTypes DEF Finish
  <2> QED BY <1>1, <2>1, <2>2 DEF Frames, Idle
<1>4. OwnQuery(w)' /\ PlaceOK(frame'[w]) /\ Decided(w)'
  BY <1>3 DEF OwnQuery, PlaceOK, Decided
<1> QED BY <1>1, <1>2, <1>4, OwnOthers


\* A look-up of the callback trigger: only a T statement makes a worker look it up.
LEMMA OwnLookUp ==
  ASSUME ThreadsOK, OwnInv, NEW t \in Threads, LookUp(t), UNCHANGED <<session, own, crossed>>,
         t \in Workers => AtStatement(t, "T")
  PROVE  OwnInv'
<1> DEFINE f == frame[t]
<1>1. f \in Frames
  BY FrameTypes
<1>2. CASE ~registry.known /\ t = Engine
  <2>1. frame' = [frame EXCEPT ![t] = Idle] /\ t \notin Workers
    BY <1>2, FrameTypes DEF LookUp
  <2>2. Idle \in Frames /\ Idle.pc = "idle"
    BY FrameTypes DEF Idle
  <2> QED BY <2>1, <2>2, OwnFrame
<1>3. CASE ~registry.known /\ t # Engine
  <2> DEFINE g == Advance(f)
  <2>1. frame' = [frame EXCEPT ![t] = g] /\ t \in Workers
    BY <1>3, FrameTypes DEF LookUp, Threads
  <2>2. /\ PlaceOK(f)
        /\ f.part = "cond" => f.i \in 1 .. Len(Statements(f)) /\ Statements(f)[f.i] = "T"
    BY <2>1, AtPlace
  <2>3. /\ g \in Frames /\ g.pc = "next" /\ g.i = f.i + 1 /\ g.part = f.part
        /\ g.cond = f.cond /\ g.act = f.act
    BY <1>1, AdvanceType
  <2>4. /\ PlaceOK(g)
        /\ g.pc = "next" /\ g.part = "cond" /\ g.i > 1 => Statements(g)[g.i - 1] # "Q"
    BY <1>1, <2>2, <2>3, OwnAdvance
  <2> HIDE DEF g
  <2>5. g.pc \notin {"query", "read", "postproc"}
    BY <2>3
  <2> QED BY <2>1, <2>3, <2>4, <2>5, OwnFrame, Zenon
<1>4. CASE registry.known
  <2>1. PICK x \in {"enqueue", "bindQuery"} : frame' = [frame EXCEPT ![t] = [f EXCEPT !.pc = x]]
    BY <1>4 DEF LookUp
  <2> DEFINE g == [f EXCEPT !.pc = x]
  <2>2. x \in PC
    BY DEF PC
  <2>3. g \in Frames /\ g.pc = x /\ g.i = f.i /\ g.part = f.part /\ g.cond = f.cond /\ g.act = f.act
    BY <1>1, <2>2, PcChange
  <2> HIDE DEF g
  <2>4. ASSUME t \in Workers PROVE PlaceOK(g)
    <3>1. /\ PlaceOK(f)
          /\ f.part = "cond" => f.i \in 1 .. Len(Statements(f)) /\ Statements(f)[f.i] = "T"
      BY <2>4, AtPlace
    <3>2. Statements(g) = Statements(f)
      BY <2>3, SameStatements
    <3> QED BY <2>3, <3>1, <3>2 DEF PlaceOK
  <2>5. g.pc \notin {"query", "read", "postproc", "next"}
    BY <2>3
  <2>6. frame' = [frame EXCEPT ![t] = g]
    BY <2>1 DEF g
  <2> QED BY <2>3, <2>4, <2>5, <2>6, OwnFrame
<1> QED BY <1>2, <1>3, <1>4

\* The binding of the callback trigger's procedures.
LEMMA OwnBinding ==
  ASSUME ThreadsOK, OwnInv, NEW t \in Threads, BindQuery(t) \/ BindAction(t) \/ Bound(t)
  PROVE  OwnInv'
<1> DEFINE f == frame[t]
<1>1. f \in Frames /\ f.pc \in {"bindQuery", "bindAction", "bound"}
  BY FrameTypes DEF BindQuery, BindAction, Bound
<1>2. PICK x \in {"bindAction", "bound", "enqueue"} :
        frame' = [frame EXCEPT ![t] = [f EXCEPT !.pc = x]]
  BY DEF BindQuery, BindAction, Bound
<1>3. UNCHANGED <<session, own, crossed>>
  BY DEF BindQuery, BindAction, Bound, sessionVars
<1> DEFINE g == [f EXCEPT !.pc = x]
<1>4. x \in PC
  BY DEF PC
<1>5. g \in Frames /\ g.pc = x /\ g.i = f.i /\ g.part = f.part /\ g.cond = f.cond /\ g.act = f.act
  BY <1>1, <1>4, PcChange
<1>6. frame' = [frame EXCEPT ![t] = g]
  BY <1>2
<1> HIDE DEF g
<1>7. ASSUME t \in Workers PROVE PlaceOK(g)
  <2>1. PlaceOK(f)
    BY <1>7 DEF OwnInv
  <2>2. Statements(g) = Statements(f)
    BY <1>5, SameStatements
  <2> QED BY <1>1, <1>5, <2>1, <2>2 DEF PlaceOK
<1>8. g.pc \notin {"query", "read", "postproc", "next"}
  BY <1>5
<1> QED BY <1>3, <1>5, <1>6, <1>7, <1>8, OwnFrame

LEMMA OwnEnqueue ==
  ASSUME ThreadsOK, OwnInv, NEW t \in Threads, Enqueue(t)
  PROVE  OwnInv'
<1> DEFINE f == frame[t]
           g == Advance(f)
<1>1. f \in Frames /\ f.pc = "enqueue" /\ UNCHANGED <<session, own, crossed>>
  BY FrameTypes DEF Enqueue, sessionVars
<1>2. CASE t = Engine
  <2>1. frame' = [frame EXCEPT ![t] = Idle] /\ t \notin Workers
    BY <1>2, FrameTypes DEF Enqueue
  <2>2. Idle \in Frames /\ Idle.pc = "idle"
    BY FrameTypes DEF Idle
  <2> QED BY <1>1, <2>1, <2>2, OwnFrame
<1>3. CASE t # Engine
  <2>1. frame' = [frame EXCEPT ![t] = g] /\ t \in Workers
    BY <1>3, FrameTypes DEF Enqueue, Threads
  <2>2. PlaceOK(f)
    BY <2>1 DEF OwnInv
  <2>3. f.part = "cond" => f.i \in 1 .. Len(Statements(f)) /\ Statements(f)[f.i] # "Q"
    BY <1>1, <2>2 DEF PlaceOK
  <2>4. /\ g \in Frames /\ g.pc = "next" /\ g.i = f.i + 1 /\ g.part = f.part
        /\ g.cond = f.cond /\ g.act = f.act
    BY <1>1, AdvanceType
  <2>5. /\ PlaceOK(g)
        /\ g.pc = "next" /\ g.part = "cond" /\ g.i > 1 => Statements(g)[g.i - 1] # "Q"
    BY <1>1, <2>2, <2>3, <2>4, OwnAdvance
  <2> HIDE DEF g
  <2>6. g.pc \notin {"query", "read", "postproc"}
    BY <2>4
  <2> QED BY <1>1, <2>1, <2>4, <2>5, <2>6, OwnFrame, Zenon
<1> QED BY <1>2, <1>3

\* The engine's post-processing, and the end of its request.
LEMMA OwnEngine ==
  ASSUME ThreadsOK, OwnInv, HandleP \/ EndP \/ EndRequest \/ NextRequest
  PROVE  OwnInv'
<1>1. Engine \in Threads /\ Engine \notin Workers /\ frame[Engine] \in Frames /\ EngineError
  BY FrameTypes DEF OwnInv
<1>2. CASE HandleP
  <2>1. /\ \A u \in Threads : u # Engine => frame'[u] = frame[u] /\ own'[u] = own[u]
        /\ own'[Engine] = IF session.error THEN Read ELSE own[Engine]
        /\ frame'[Engine].pc = IF session.error THEN "idle" ELSE "postproc"
    BY <1>1, <1>2, FrameTypes DEF HandleP, Frames
  <2>2. /\ \/ session' = session /\ \A u \in Threads : u # Engine => crossed'[u] = crossed[u]
           \/ \A u \in Threads :
                u # Engine => crossed'[u] = IF own[u] # Read THEN TRUE ELSE crossed[u]
        /\ crossed'[Engine] = crossed[Engine]
    BY <1>1, <1>2, OwnClear DEF HandleP
  <2>3. OwnQuery(Engine)'
    BY <2>1 DEF OwnQuery
  <2>4. EngineError'
    <3>1. CASE session.error
      BY <2>1, <3>1 DEF EngineError, Read
    <3>2. CASE ~session.error
      BY <1>1, <2>1, <2>2, <3>2 DEF EngineError
    <3> QED BY <3>1, <3>2
  <2> QED BY <1>1, <2>1, <2>2, <2>3, <2>4, OwnOthers, Zenon
<1>3. CASE EndP
  <2>1. /\ \A u \in Threads : u # Engine => frame'[u] = frame[u] /\ own'[u] = own[u]
        /\ own'[Engine] = Read /\ frame'[Engine].pc = "idle"
        /\ session' = session /\ crossed' = crossed
    BY <1>1, <1>3, FrameTypes DEF EndP, Frames
  <2>2. OwnQuery(Engine)' /\ EngineError'
    BY <2>1 DEF OwnQuery, EngineError, Read
  <2> QED BY <1>1, <2>1, <2>2, OwnOthers
<1>4. CASE EndRequest
  <2>1. /\ \A u \in Threads : u # Engine => frame'[u] = frame[u] /\ own'[u] = own[u]
        /\ own'[Engine] = Read /\ frame'[Engine].pc = "ended"
    BY <1>1, <1>4, FrameTypes DEF EndRequest, Frames
  <2>2. \/ session' = session /\ \A u \in Threads : u # Engine => crossed'[u] = crossed[u]
        \/ \A u \in Threads :
             u # Engine => crossed'[u] = IF own[u] # Read THEN TRUE ELSE crossed[u]
    BY <1>1, <1>4, OwnClear DEF EndRequest
  <2>3. OwnQuery(Engine)' /\ EngineError'
    BY <2>1 DEF OwnQuery, EngineError, Read
  <2> QED BY <1>1, <2>1, <2>2, <2>3, OwnOthers, Zenon
<1>5. CASE NextRequest
  <2> DEFINE g == [frame[Engine] EXCEPT !.pc = "idle"]
  <2>1. frame' = [frame EXCEPT ![Engine] = g] /\ UNCHANGED <<session, own, crossed>>
    BY <1>5 DEF NextRequest, sessionVars
  <2>2. g \in Frames
    BY <1>1, FrameFields DEF PC
  <2>3. g.pc = "idle"
    BY <1>1 DEF Frames
  <2> HIDE DEF g
  <2> QED BY <1>1, <2>1, <2>2, <2>3, OwnFrame
<1> QED BY <1>2, <1>3, <1>4, <1>5

LEMMA OwnStep ==
  ASSUME ThreadsOK, HostInv, OwnInv, [Next]_vars
  PROVE  OwnInv'
<1>1. ASSUME UNCHANGED <<frame, session, own, crossed>> PROVE OwnInv'
  BY <1>1 DEF OwnInv, PlaceOK, Decided, OwnQuery, EngineError, Shows
<1>2. CASE UNCHANGED vars \/ HandleTC
  BY <1>1, <1>2 DEF vars, sessionVars, HandleTC
<1>3. CASE Host \/ (\E n \in Names : HandleTI(n) \/ HandleTR(n)) \/ HandleTA
  BY <1>1, <1>3, ThreadsHost
<1>4. CASE \E w \in Workers : Serve(w)
  <2>1. PICK w \in Workers : Serve(w)
    BY <1>4
  <2>2. w \in Threads
    BY FrameTypes
  <2>3. CASE WorkerQuery(w)
    BY <2>2, <2>3, OwnBegin DEF WorkerQuery
  <2>4. CASE WorkerExecute(w)
    BY <2>2, <2>4, OwnLookUp DEF WorkerExecute, sessionVars
  <2>5. CASE Take(w) \/ ReadFirst(w) \/ Postprocess(w) \/ Output(w) \/ Finish(w)
    BY <2>5, OwnTake, OwnRead, OwnPostprocess, OwnOutput, OwnFinish
  <2> QED BY <2>1, <2>3, <2>4, <2>5 DEF Serve
<1>5. CASE \E t \in Threads : Step(t)
  BY <1>5, OwnEnd, OwnBinding, OwnEnqueue DEF Step
<1>6. CASE HandleTN
  BY <1>6, OwnLookUp, FrameTypes DEF HandleTN, sessionVars
<1>7. CASE HandleQ
  BY <1>7, OwnBegin, FrameTypes DEF HandleQ
<1>8. CASE HandleP \/ EndP \/ EndRequest \/ NextRequest
  BY <1>8, OwnEngine
<1> QED BY <1>2, <1>3, <1>4, <1>5, <1>6, <1>7, <1>8 DEF Next, EngineStep

LEMMA OwnStart == Init => OwnInv
BY FrameTypes, ThreadsStart DEF Init, OwnInv, PlaceOK, Decided, OwnQuery, EngineError, Idle, Read

\* On the one session of the process a worker that no other thread crossed decides on the result
\* of its own condition, and the engine post-processes no query of its own that failed
\* (monetdb_conn.cpp, server.cpp:285-352 and 591-594).
THEOREM DecidesOnOwnQuery == Spec => []OnOwnResult
<1> DEFINE Inv == HostInv /\ ThreadsOK /\ OwnInv
<1>1. Init => Inv
  BY HostStarts, ThreadsStart, OwnStart
<1>2. Inv /\ [Next]_vars => Inv'
  BY HostStep, ThreadsStep, OwnStep
<1>3. Inv => DecidesOnOwn
  <2> SUFFICES ASSUME Inv, NEW w \in Workers,
                      LET f == frame[w] IN
                      /\ f.pc = "next" /\ f.part = "cond" /\ Statements(f) # <<>>
                      /\ f.i > Len(Statements(f)) /\ Statements(f)[Len(Statements(f))] = "Q"
                      /\ ~crossed[w] /\ own[w].what # "none"
               PROVE  frame[w].ret = own[w].is % IntRange
    BY DEF DecidesOnOwn
  <2> DEFINE s == Statements(frame[w])
  <2>1. frame[w] \in Frames /\ PlaceOK(frame[w]) /\ Decided(w)
    BY FrameTypes DEF OwnInv
  <2>2. frame[w].cond # None /\ frame[w].i \in 1 .. Len(s) + 1
    BY <2>1 DEF PlaceOK
  <2>3. s \in Seq({"Q", "P", "O", "T"}) /\ Len(s) \in Nat
    BY <2>1, <2>2, StatementsType
  <2>4. Len(s) > 0
    BY <2>3
  <2>5. frame[w].i > 1 /\ frame[w].i - 1 = Len(s)
    BY <2>2, <2>3, <2>4
  <2> QED BY <2>1, <2>5 DEF Decided
<1>4. Inv => EngineSeesError
  BY DEF OwnInv, EngineError, EngineSeesError
<1>5. Inv => OnOwnResult
  BY <1>3, <1>4 DEF OnOwnResult
<1> QED BY <1>1, <1>2, <1>5, PTL DEF Spec

-----------------------------------------------------------------------------
(* What a callback trigger submits.                                          *)

\* A thread that is about to use the callback trigger.
Using(t) == Binding(t) \/ frame[t].pc = "enqueue"

\* Every payload of a callback trigger has its two procedures, unless its fields were spoiled.
PendingOK ==
  \A k \in 1 .. Len(pending) :
    \/ pending[k].cond = None
    \/ pending[k] = [cond |-> Condition, act |-> Action]
    \/ registry.twice \/ ~registry.named

LEMMA RegistryTypes ==
  ASSUME ThreadsOK
  PROVE  registry \in [known : BOOLEAN, query : Procedures, action : Procedures,
                       materialized : BOOLEAN, named : BOOLEAN, twice : BOOLEAN]
BY DEF ThreadsOK

\* A step that neither uses the trigger nor changes it.
LEMMA BindFrame ==
  ASSUME BindInv, NEW t \in Threads, UNCHANGED registry,
         \A u \in Threads : u # t => frame'[u] = frame[u],
         ~Using(t), ~Using(t)'
  PROVE  BindInv'
<1>1. \A u \in Threads : /\ Binding(u)' => Binding(u) /\ frame'[u] = frame[u]
                         /\ frame'[u].pc = "enqueue" => frame'[u] = frame[u]
                         /\ Binding(u) => Binding(u)'
  BY DEF Using, Binding
<1>2. ASSUME ~registry.known PROVE registry = Unregistered
                                   /\ \A u \in Threads : ~Binding(u) /\ frame[u].pc # "enqueue"
  BY <1>2 DEF BindInv
<1>3. ~registry'.known => /\ registry' = Unregistered
                          /\ \A u \in Threads : ~Binding(u)' /\ frame'[u].pc # "enqueue"
  BY <1>1, <1>2
<1>4. \A u \in Threads : frame'[u].pc \in {"bindQuery", "bindAction", "bound"} => frame'[u] = frame[u]
  BY <1>1 DEF Binding
<1>5. ASSUME Sound' PROVE Sound /\ (Filled <=> Filled')
  BY <1>5 DEF Sound, Filled
<1>6. ASSUME Sound', NEW u \in Threads
      PROVE  /\ Binding(u)' => ~registry'.materialized
             /\ frame'[u].pc = "bindQuery" => registry'.query = None /\ registry'.action = None
             /\ frame'[u].pc = "bindAction" => registry'.query = Condition /\ registry'.action = None
             /\ frame'[u].pc = "bound" => Filled'
             /\ frame'[u].pc = "enqueue" => registry'.materialized
  BY <1>1, <1>4, <1>5, <1>6 DEF BindInv
<1>7. ASSUME Sound'
      PROVE  /\ \A u, v \in Threads : Binding(u)' /\ Binding(v)' => u = v
             /\ registry'.materialized => Filled'
             /\ ~registry'.materialized /\ (\A u \in Threads : ~Binding(u)') =>
                  registry'.query = None /\ registry'.action = None
  BY <1>1, <1>5, <1>7 DEF BindInv
<1> QED BY <1>3, <1>6, <1>7 DEF BindInv

\* Where a look-up of the trigger leaves its thread.
LEMMA LookUpPlace ==
  ASSUME ThreadsOK, NEW t \in Threads, LookUp(t)
  PROVE  /\ \A u \in Threads : u # t => frame'[u] = frame[u]
         /\ ~registry.known => ~Using(t)'
         /\ registry.known /\ registry.materialized => frame'[t].pc = "enqueue"
         /\ registry.known /\ ~registry.materialized => frame'[t].pc = "bindQuery"
<1>1. \A u \in Threads : u # t => frame'[u] = frame[u]
  BY FrameTypes DEF LookUp
<1>2. frame[t] \in Frames
  BY FrameTypes
<1>3. ASSUME ~registry.known PROVE ~Using(t)'
  <2>1. frame'[t] = IF t = Engine THEN Idle ELSE Advance(frame[t])
    BY <1>3, FrameTypes DEF LookUp
  <2>2. Idle.pc = "idle" /\ Advance(frame[t]).pc = "next"
    BY <1>2, AdvanceType DEF Idle
  <2> QED BY <2>1, <2>2 DEF Using, Binding
<1>4. ASSUME registry.known
      PROVE  frame'[t].pc = IF registry.materialized THEN "enqueue" ELSE "bindQuery"
  BY <1>2, <1>4, FrameTypes DEF LookUp, Frames
<1> QED BY <1>1, <1>3, <1>4

LEMMA BindLookUp ==
  ASSUME ThreadsOK, BindInv, NEW t \in Threads, LookUp(t), ~Using(t),
         registry' = [registry EXCEPT !.twice = @ \/ \E u \in Threads \ {t} : Binding(u)]
  PROVE  BindInv' /\ (registry.twice => registry'.twice) /\ registry'.named = registry.named
<1>0. /\ registry'.known = registry.known /\ registry'.query = registry.query
      /\ registry'.action = registry.action /\ registry'.materialized = registry.materialized
      /\ registry'.named = registry.named
      /\ registry'.twice <=> registry.twice \/ \E u \in Threads \ {t} : Binding(u)
  BY RegistryTypes
<1>1. CASE ~registry.known
  <2>1. registry = Unregistered /\ \A u \in Threads : ~Binding(u)
    BY <1>1 DEF BindInv
  <2>2. registry' = registry
    <3>1. (registry.twice \/ \E u \in Threads \ {t} : Binding(u)) = FALSE
      BY <2>1 DEF Unregistered
    <3>2. registry' = [registry EXCEPT !.twice = FALSE]
      BY <3>1
    <3> QED BY <2>1, <3>2 DEF Unregistered
  <2> QED BY <1>0, <1>1, <2>2, BindFrame, LookUpPlace
<1>2. CASE registry.known
  <2>1. /\ \A u \in Threads : u # t => frame'[u] = frame[u]
        /\ frame'[t].pc = IF registry.materialized THEN "enqueue" ELSE "bindQuery"
    BY <1>2, LookUpPlace
  <2>2. ASSUME Sound' PROVE /\ Sound /\ (Filled' <=> Filled)
                            /\ \A u \in Threads : ~Binding(u)
                            /\ \A u \in Threads : u # t => ~Binding(u)'
    BY <1>0, <2>1, <2>2 DEF Sound, Filled, Using, Binding
  <2>3. ASSUME Sound' PROVE /\ registry.materialized => Filled
                            /\ ~registry.materialized => registry.query = None /\ registry.action = None
                            /\ \A u \in Threads : frame[u].pc = "enqueue" => registry.materialized
    BY <2>2, <2>3 DEF BindInv
  <2>4. ASSUME Sound', NEW u \in Threads
        PROVE  /\ Binding(u)' => ~registry'.materialized /\ u = t
               /\ frame'[u].pc = "bindQuery" => registry'.query = None /\ registry'.action = None
               /\ frame'[u].pc \notin {"bindAction", "bound"}
               /\ frame'[u].pc = "enqueue" => registry'.materialized
    BY <1>0, <2>1, <2>2, <2>3, <2>4 DEF Binding
  <2>5. ASSUME Sound' PROVE /\ registry'.materialized => Filled'
                            /\ ~registry'.materialized =>
                                  registry'.query = None /\ registry'.action = None
    BY <1>0, <2>2, <2>3, <2>5
  <2>6. registry'.known
    BY <1>0, <1>2
  <2> QED BY <1>0, <2>4, <2>5, <2>6 DEF BindInv
<1> QED BY <1>1, <1>2

\* The one thread that binds the trigger's procedures.
LEMMA BindFill ==
  ASSUME ThreadsOK, BindInv, NEW t \in Threads, BindQuery(t) \/ BindAction(t) \/ Bound(t)
  PROVE  BindInv' /\ registry'.twice = registry.twice /\ registry'.named = registry.named
<1>0. /\ registry'.known = registry.known /\ registry'.named = registry.named
      /\ registry'.twice = registry.twice /\ (Sound' <=> Sound)
  BY RegistryTypes DEF BindQuery, BindAction, Bound, Sound
<1>1. \A u \in Threads : u # t => frame'[u] = frame[u] /\ (Binding(u)' <=> Binding(u))
  BY FrameTypes DEF BindQuery, BindAction, Bound, Binding
<1>2. Binding(t) /\ registry.known
  BY DEF BindQuery, BindAction, Bound, Binding, BindInv
<1>3. registry'.known
  BY <1>0, <1>2
<1>4. ASSUME Sound
      PROVE  /\ ~registry.materialized
             /\ \A u \in Threads : u # t => ~Binding(u) /\ frame[u].pc # "enqueue"
             /\ frame[t].pc = "bindQuery" => registry.query = None /\ registry.action = None
             /\ frame[t].pc = "bindAction" => registry.query = Condition /\ registry.action = None
             /\ frame[t].pc = "bound" => Filled
  BY <1>2, <1>4 DEF BindInv
<1>5. ASSUME Sound
      PROVE  \A u \in Threads : u # t =>
               frame'[u].pc \notin {"bindQuery", "bindAction", "bound", "enqueue"} /\ ~Binding(u)'
  BY <1>1, <1>4, <1>5 DEF Binding
<1>6. ASSUME Sound
      PROVE  \/ /\ frame'[t].pc = "bindAction" /\ ~registry'.materialized
                /\ registry'.query = Condition /\ registry'.action = None
             \/ frame'[t].pc = "bound" /\ ~registry'.materialized /\ Filled'
             \/ frame'[t].pc = "enqueue" /\ registry'.materialized /\ Filled'
  <2>0. frame[t] \in Frames /\ registry.named
    BY <1>6, FrameTypes DEF Sound
  <2>1. CASE BindQuery(t)
    <3>1. frame[t].pc = "bindQuery" /\ frame'[t].pc = "bindAction"
      BY <2>0, <2>1, FrameTypes DEF BindQuery, Frames
    <3>2. registry' = [registry EXCEPT !.query = Condition]
      BY <1>4, <1>6, <2>0, <2>1, <3>1 DEF BindQuery
    <3> QED BY <1>4, <1>6, <3>1, <3>2, RegistryTypes
  <2>2. CASE BindAction(t)
    <3>1. frame[t].pc = "bindAction" /\ frame'[t].pc = "bound"
      BY <2>0, <2>2, FrameTypes DEF BindAction, Frames
    <3>2. registry' = [registry EXCEPT !.action = Action]
      BY <1>4, <1>6, <2>0, <2>2, <3>1 DEF BindAction
    <3> QED BY <1>4, <1>6, <3>1, <3>2, RegistryTypes DEF Filled
  <2>3. CASE Bound(t)
    <3>1. frame[t].pc = "bound" /\ frame'[t].pc = "enqueue"
      BY <2>0, <2>3, FrameTypes DEF Bound, Frames
    <3>2. registry' = [registry EXCEPT !.materialized = TRUE]
      BY <2>3 DEF Bound
    <3> QED BY <1>4, <1>6, <3>1, <3>2, RegistryTypes DEF Filled
  <2> QED BY <2>1, <2>2, <2>3
<1>7. ASSUME Sound', NEW u \in Threads
      PROVE  /\ Binding(u)' => ~registry'.materialized /\ u = t
             /\ frame'[u].pc = "bindQuery" => registry'.query = None /\ registry'.action = None
             /\ frame'[u].pc = "bindAction" => registry'.query = Condition /\ registry'.action = None
             /\ frame'[u].pc = "bound" => Filled'
             /\ frame'[u].pc = "enqueue" => registry'.materialized
  BY <1>0, <1>5, <1>6, <1>7 DEF Binding
<1>8. ASSUME Sound'
      PROVE  /\ registry'.materialized => Filled'
             /\ ~registry'.materialized => Binding(t)'
  BY <1>0, <1>6, <1>8 DEF Binding
<1> QED BY <1>0, <1>3, <1>7, <1>8 DEF BindInv


LEMMA BindEnqueue ==
  ASSUME ThreadsOK, BindInv, PendingOK, NEW t \in Threads, Enqueue(t)
  PROVE  BindInv' /\ PendingOK'
<1>1. /\ frame[t].pc = "enqueue" /\ registry' = registry
      /\ \A u \in Threads : u # t => frame'[u] = frame[u] /\ (Binding(u)' <=> Binding(u))
  BY FrameTypes DEF Enqueue, Binding
<1>2. frame'[t].pc \in {"idle", "next"}
  <2>1. frame'[t] = IF t = Engine THEN Idle ELSE Advance(frame[t])
    BY FrameTypes DEF Enqueue
  <2>2. frame[t] \in Frames
    BY FrameTypes
  <2>3. Idle.pc = "idle" /\ Advance(frame[t]).pc = "next"
    BY <2>2, AdvanceType DEF Idle
  <2> QED BY <2>1, <2>3
<1>3. registry.known /\ (Sound => registry.materialized /\ Filled)
  BY <1>1 DEF BindInv
<1>4. ASSUME Sound', NEW u \in Threads
      PROVE  /\ ~Binding(u)' /\ frame'[u].pc \notin {"bindQuery", "bindAction", "bound"}
             /\ registry'.materialized /\ Filled'
  <2>1. Sound /\ registry.materialized /\ Filled
    BY <1>1, <1>3, <1>4 DEF Sound
  <2>2. ~Binding(u)
    BY <2>1 DEF BindInv
  <2>3. ~Binding(u)'
    BY <1>1, <1>2, <2>2 DEF Binding
  <2> QED BY <1>1, <2>1, <2>3 DEF Filled, Binding
<1>5. ASSUME Sound' PROVE registry'.materialized /\ Filled'
  BY <1>1, <1>3, <1>5 DEF Sound, Filled
<1>6. BindInv'
  BY <1>1, <1>3, <1>4, <1>5 DEF BindInv
<1>7. PendingOK'
  <2>1. pending' = Append(pending, [cond |-> registry.query, act |-> registry.action])
    BY DEF Enqueue
  <2>2. pending \in Seq(Payload)
    BY FrameTypes
  <2>3. \/ registry.twice \/ ~registry.named
        \/ [cond |-> registry.query, act |-> registry.action] = [cond |-> Condition, act |-> Action]
    BY <1>3 DEF Sound, Filled
  <2>4. ASSUME NEW k \in 1 .. Len(pending')
        PROVE  \/ k \in 1 .. Len(pending) /\ pending'[k] = pending[k]
               \/ pending'[k] = [cond |-> registry.query, act |-> registry.action]
    BY <2>1, <2>2
  <2> QED BY <1>1, <2>3, <2>4 DEF PendingOK
<1> QED BY <1>6, <1>7

\* What is already pending stays as it was.
LEMMA PendingFrame ==
  ASSUME PendingOK, UNCHANGED pending,
         registry.twice \/ ~registry.named => registry'.twice \/ ~registry'.named
  PROVE  PendingOK'
BY DEF PendingOK

LEMMA PendingHost ==
  ASSUME ThreadsOK, HostInv, PendingOK,
         Host \/ (\E n \in Names : HandleTI(n) \/ HandleTR(n)) \/ HandleTA
  PROVE  PendingOK' /\ UNCHANGED <<frame, registry>>
<1>1. UNCHANGED <<frame, registry>> /\
      \/ UNCHANGED pending
      \/ \E p \in Payload : pending' = Append(pending, p)
                            /\ (p.cond = None \/ p = [cond |-> Condition, act |-> Action])
  BY ThreadsHost
<1>2. CASE UNCHANGED pending
  BY <1>1, <1>2, PendingFrame
<1>3. CASE \E p \in Payload : pending' = Append(pending, p)
                              /\ (p.cond = None \/ p = [cond |-> Condition, act |-> Action])
  <2>1. PICK p \in Payload : pending' = Append(pending, p)
                             /\ (p.cond = None \/ p = [cond |-> Condition, act |-> Action])
    BY <1>3
  <2>2. pending \in Seq(Payload)
    BY FrameTypes
  <2>3. ASSUME NEW k \in 1 .. Len(pending')
        PROVE  (k \in 1 .. Len(pending) /\ pending'[k] = pending[k]) \/ pending'[k] = p
    BY <2>1, <2>2
  <2> QED BY <1>1, <2>1, <2>3 DEF PendingOK
<1> QED BY <1>1, <1>2, <1>3

LEMMA PendingTake ==
  ASSUME ThreadsOK, PendingOK, NEW w \in Workers, Take(w)
  PROVE  PendingOK'
<1>1. pending \in Seq(Payload) /\ pending # <<>> /\ pending' = Tail(pending) /\ registry' = registry
  BY FrameTypes DEF Take
<1>2. ASSUME NEW k \in 1 .. Len(pending')
      PROVE  k + 1 \in 1 .. Len(pending) /\ pending'[k] = pending[k + 1]
  BY <1>1
<1> QED BY <1>1, <1>2 DEF PendingOK

\* The steps of a worker that do not concern the callback trigger.
LEMMA BindServe ==
  ASSUME ThreadsOK, BindInv, NEW w \in Workers, Serve(w), ~WorkerExecute(w)
  PROVE  BindInv' /\ UNCHANGED registry /\ (~Take(w) => UNCHANGED pending)
<1>0. w \in Threads /\ frame[w] \in Frames /\ w # Engine
  BY FrameTypes
<1>1. UNCHANGED registry /\ (~Take(w) => UNCHANGED pending)
  BY DEF Serve, Take, WorkerQuery, ReadFirst, Postprocess, Output, Finish
<1>2. frame[w].pc \in {"idle", "next", "read"}
  BY DEF Serve, Take, Running, WorkerQuery, ReadFirst, Postprocess, Output, Finish, AtStatement
<1>3. \A u \in Threads : u # w => frame'[u] = frame[u]
  BY FrameTypes DEF Serve, Take, WorkerQuery, BeginQuery, ReadFirst, Postprocess, Output, Finish
<1>4. frame'[w].pc \in {"idle", "next", "query"}
  <2>1. CASE Take(w)
    BY <1>0, <2>1, FrameTypes DEF Take, Idle
  <2>2. CASE WorkerQuery(w)
    BY <1>0, <2>2, FrameTypes DEF WorkerQuery, BeginQuery, Frames
  <2>3. CASE ReadFirst(w) \/ Postprocess(w) \/ Output(w)
    <3> DEFINE a == Advance(frame[w])
    <3>1. a \in Frames /\ a.pc = "next"
      BY <1>0, AdvanceType
    <3>2. frame'[w] = a \/ \E x : frame'[w] = [a EXCEPT !.ret = x]
      BY <1>0, <2>3, FrameTypes DEF ReadFirst, Postprocess, Output
    <3> HIDE DEF a
    <3> QED BY <3>1, <3>2 DEF Frames
  <2>4. CASE Finish(w)
    <3>1. frame'[w] = IF frame[w].part = "cond" /\ frame[w].ret # 0
                      THEN [frame[w] EXCEPT !.part = "act", !.i = 1, !.ret = 0] ELSE Idle
      BY <1>0, <2>4, FrameTypes DEF Finish
    <3>2. frame[w].pc = "next"
      BY <2>4 DEF Finish
    <3> QED BY <1>0, <3>1, <3>2 DEF Frames, Idle
  <2> QED BY <2>1, <2>2, <2>3, <2>4 DEF Serve
<1>5. ~Using(w) /\ ~Using(w)'
  BY <1>2, <1>4 DEF Using, Binding
<1> QED BY <1>0, <1>1, <1>3, <1>5, BindFrame

\* The queries, and the engine's post-processing.
LEMMA BindQueries ==
  ASSUME ThreadsOK, BindInv, NEW t \in Threads,
         EndQuery(t) \/ (t = Engine /\ (HandleQ \/ HandleP \/ EndP \/ EndRequest))
  PROVE  BindInv' /\ UNCHANGED <<registry, pending>>
<1>0. frame[t] \in Frames
  BY FrameTypes
<1>1. UNCHANGED <<registry, pending>>
  BY DEF EndQuery, HandleQ, HandleP, EndP, EndRequest
<1>2. frame[t].pc \in {"idle", "query", "postproc"}
  BY DEF EndQuery, HandleQ, HandleP, EndP, EndRequest, Handle, Running
<1>3. \A u \in Threads : u # t => frame'[u] = frame[u]
  BY FrameTypes DEF EndQuery, HandleQ, BeginQuery, HandleP, EndP, EndRequest
<1>4. frame'[t].pc \in {"idle", "query", "read", "postproc", "ended"}
  BY <1>0, FrameTypes DEF EndQuery, HandleQ, BeginQuery, HandleP, EndP, EndRequest, Frames
<1>5. ~Using(t) /\ ~Using(t)'
  BY <1>2, <1>4 DEF Using, Binding
<1> QED BY <1>1, <1>3, <1>5, BindFrame

\* A new trigger starts unused; the request after it frees its names.
LEMMA BindRegister ==
  ASSUME ThreadsOK, BindInv, HandleTC \/ NextRequest
  PROVE  /\ BindInv' /\ UNCHANGED pending
         /\ registry.twice \/ ~registry.named => registry'.twice \/ ~registry'.named
<1>1. UNCHANGED pending
  BY DEF HandleTC, NextRequest
<1>2. CASE HandleTC /\ registry.known
  <2>1. UNCHANGED <<frame, registry>>
    BY <1>2 DEF HandleTC
  <2>2. BindInv'
    BY <2>1 DEF BindInv, Binding, Sound, Filled
  <2> QED BY <1>1, <2>1, <2>2
<1>3. CASE HandleTC /\ ~registry.known
  <2>1. registry = Unregistered /\ \A u \in Threads : ~Binding(u) /\ frame[u].pc # "enqueue"
    BY <1>3 DEF BindInv
  <2>2. registry' = [Unregistered EXCEPT !.known = TRUE] /\ frame' = frame
    BY <1>3 DEF HandleTC
  <2>3. BindInv'
    BY <2>1, <2>2 DEF BindInv, Binding, Unregistered
  <2>4. ~registry.twice /\ registry.named
    BY <2>1 DEF Unregistered
  <2> QED BY <1>1, <2>3, <2>4
<1>4. CASE NextRequest /\ registry.known
  <2>1. registry'.known /\ ~registry'.named
    BY <1>4, RegistryTypes DEF NextRequest
  <2>2. BindInv'
    BY <2>1 DEF BindInv, Sound
  <2> QED BY <1>1, <2>1, <2>2
<1>5. CASE NextRequest /\ ~registry.known
  <2>1. /\ Engine \in Threads /\ registry' = registry /\ frame[Engine].pc = "ended"
        /\ frame'[Engine].pc = "idle" /\ \A u \in Threads : u # Engine => frame'[u] = frame[u]
    BY <1>5, FrameTypes DEF NextRequest, Frames
  <2>2. ~Using(Engine) /\ ~Using(Engine)'
    BY <2>1 DEF Using, Binding
  <2> QED BY <1>1, <2>1, <2>2, BindFrame
<1> QED BY <1>2, <1>3, <1>4, <1>5

LEMMA BindStep ==
  ASSUME ThreadsOK, HostInv, BindInv, PendingOK, [Next]_vars
  PROVE  BindInv' /\ PendingOK'
<1>1. ASSUME UNCHANGED <<frame, registry>> PROVE BindInv'
  BY <1>1 DEF BindInv, Binding, Sound, Filled
<1>2. CASE UNCHANGED vars
  BY <1>1, <1>2, PendingFrame DEF vars
<1>3. CASE Host \/ (\E n \in Names : HandleTI(n) \/ HandleTR(n)) \/ HandleTA
  BY <1>1, <1>3, PendingHost
<1>4. CASE \E w \in Workers : Serve(w)
  <2>1. PICK w \in Workers : Serve(w)
    BY <1>4
  <2>2. CASE WorkerExecute(w)
    <3>1. /\ w \in Threads /\ LookUp(w) /\ ~Using(w)
          /\ registry' = [registry EXCEPT !.twice = @ \/ \E u \in Threads \ {w} : Binding(u)]
      BY <2>2, FrameTypes DEF WorkerExecute, AtStatement, Using, Binding
    <3>2. BindInv' /\ (registry.twice => registry'.twice) /\ registry'.named = registry.named
      BY <3>1, BindLookUp
    <3>3. UNCHANGED pending
      BY <2>2 DEF WorkerExecute
    <3> QED BY <3>2, <3>3, PendingFrame
  <2>3. CASE ~WorkerExecute(w)
    BY <2>1, <2>3, BindServe, PendingFrame, PendingTake
  <2> QED BY <2>2, <2>3
<1>5. CASE \E t \in Threads : Step(t)
  <2>1. PICK t \in Threads : Step(t)
    BY <1>5
  <2>2. CASE EndQuery(t)
    BY <2>2, BindQueries, PendingFrame
  <2>3. CASE BindQuery(t) \/ BindAction(t) \/ Bound(t)
    <3>1. UNCHANGED pending
      BY <2>3 DEF BindQuery, BindAction, Bound
    <3> QED BY <2>3, <3>1, BindFill, PendingFrame
  <2>4. CASE Enqueue(t)
    BY <2>4, BindEnqueue
  <2> QED BY <2>1, <2>2, <2>3, <2>4 DEF Step
<1>6. CASE HandleTN
  <2>1. /\ Engine \in Threads /\ LookUp(Engine) /\ ~Using(Engine) /\ Threads \ {Engine} = Workers
        /\ registry' = [registry EXCEPT !.twice = @ \/ \E u \in Workers : Binding(u)]
    BY <1>6, TriggerAssumption DEF HandleTN, Handle, Running, Using, Binding, Threads
  <2>2. BindInv' /\ (registry.twice => registry'.twice) /\ registry'.named = registry.named
    BY <2>1, BindLookUp
  <2>3. UNCHANGED pending
    BY <1>6 DEF HandleTN
  <2> QED BY <2>2, <2>3, PendingFrame
<1>7. CASE HandleQ \/ HandleP \/ EndP \/ EndRequest
  BY <1>7, BindQueries, PendingFrame, FrameTypes
<1>8. CASE HandleTC \/ NextRequest
  BY <1>8, BindRegister, PendingFrame
<1> QED BY <1>2, <1>3, <1>4, <1>5, <1>6, <1>7, <1>8 DEF Next, EngineStep

LEMMA BindStart == Init => BindInv /\ PendingOK
BY DEF Init, BindInv, PendingOK, Binding, Unregistered, Idle, Sound

\* A callback trigger, however often it is executed and by whichever threads, submits its own two
\* procedures, unless two threads bound them at once or the request that named them was replaced
\* (threading.cpp:221-331).
THEOREM SubmitsItsOwn == Spec => []SubmitsOwn
<1> DEFINE Inv == HostInv /\ ThreadsOK /\ BindInv /\ PendingOK
<1>1. Init => Inv
  BY HostStarts, ThreadsStart, BindStart
<1>2. Inv /\ [Next]_vars => Inv'
  BY HostStep, ThreadsStep, BindStep
<1>3. Inv => SubmitsOwn
  BY DEF PendingOK, SubmitsOwn
<1> QED BY <1>1, <1>2, <1>3, PTL DEF Spec
=============================================================================
