----------------------------- MODULE GroupByProofs -----------------------------
(***************************************************************************)
(* Proofs about what GROUP BY is made of: the hash table that forms the    *)
(* groups (DenseTable) and the aggregates over their rows (Windows).       *)
(*                                                                         *)
(* DenseTable, for every hash of the keys and every size of the table: the *)
(* index stays sound (TableInvariant, IndexIsSound), the table is a        *)
(* KeyedStore (ImplementsStore) and rows are grouped by their keys         *)
(* (RowsAreGrouped).  The invariant speaks of each bucket and of each two  *)
(* neighbours on the circle (Sound).  That two buckets are                 *)
(* never those of one value, that one is always empty and that everything  *)
(* on the way to a bucket is rich enough to let a search pass is derived   *)
(* from it (OnTheWay, SomeEmpty).  An insertion and an erasure are proved  *)
(* in two parts: what the loop does to the buckets (ShiftUpIs,             *)
(* ShiftDownIs), and that the result is sound (Inserted, Removed).         *)
(*                                                                         *)
(* Windows, for every column and window and in every build: the values are *)
(* those that their definitions give but for the causes named there        *)
(* (ValuesAreByDefinition), and every cell is written, inside the arrays   *)
(* (CellsAreSound).                                                        *)
(***************************************************************************)
EXTENDS DenseTable, Windows, FiniteSetTheorems, NaturalsInduction, TLAPS

(* Arithmetic.                                                               *)

\* A set of naturals has a least element, a finite set of them a greatest one.
LEMMA LeastOf ==
  ASSUME NEW S \in SUBSET Nat, S # {}
  PROVE  \E x \in S : \A y \in S : x <= y
<1>. DEFINE R == OpToRel(<, Nat)
<1>1. IsWellFoundedOn(R, Nat)
  BY NatLessThanWellFounded DEF OpToRel
<1>2. \A x, y \in S : x < y => <<x, y>> \in R
  BY DEF OpToRel
<1>. HIDE DEF R
<1>3. PICK x \in S : \A y \in S : ~(<<y, x>> \in R)
  BY <1>1, WFMin
<1>4. ASSUME NEW y \in S PROVE x <= y
  <2>1. ~(y < x) /\ x \in Nat /\ y \in Nat
    BY <1>2, <1>3
  <2>. QED BY <2>1
<1>. QED BY <1>4

\* The recursive function N is what its definition says.
LEMMA NIs == N = [b \in 0 .. MaxBits |-> IF b = 0 THEN 1 ELSE 2 * N[b - 1]]
<1>. DEFINE Doubles(m, f) == f = [b \in 0 .. m |-> IF b = 0 THEN 1 ELSE 2 * f[b - 1]]
            Bad == {m \in 0 .. MaxBits : ~\E f : Doubles(m, f)}
<1>1. MaxBits \in Nat
  BY TableAssumption
<1>2. ASSUME Bad # {} PROVE FALSE
  <2>1. Bad \in SUBSET Nat
    OBVIOUS
  <2>2. PICK m \in Bad : \A x \in Bad : m <= x
    BY <1>2, <2>1, LeastOf
  <2>. HIDE DEF Doubles
  <2>3. m \in 0 .. MaxBits /\ ~\E f : Doubles(m, f)
    OBVIOUS
  <2>4. m # 0
    <3>1. Doubles(0, [b \in 0 .. 0 |-> 1])
      BY DEF Doubles
    <3>. QED BY <2>3, <3>1
  <2>5. m - 1 \in 0 .. MaxBits /\ m - 1 \notin Bad
    <3>1. m - 1 \in 0 .. MaxBits /\ ~(m <= m - 1)
      BY <1>1, <2>3, <2>4
    <3>. QED BY <2>2, <3>1
  <2>6. PICK f : Doubles(m - 1, f)
    BY <2>5
  <2>. DEFINE g == [b \in 0 .. m |-> IF b = m THEN 2 * f[m - 1] ELSE f[b]]
  <2>7. Doubles(m, g)
    <3>1. ASSUME NEW b \in 0 .. m PROVE g[b] = IF b = 0 THEN 1 ELSE 2 * g[b - 1]
      <4>1. CASE b = m
        <5>1. g[b] = 2 * f[m - 1] /\ g[b - 1] = f[m - 1]
          BY <2>3, <2>4, <4>1
        <5>. QED BY <2>4, <4>1, <5>1
      <4>2. CASE b # m
        <5>1. b \in 0 .. m - 1 /\ g[b] = f[b]
          BY <2>3, <4>2
        <5>2. f[b] = IF b = 0 THEN 1 ELSE 2 * f[b - 1]
          BY <2>6, <5>1, Zenon DEF Doubles
        <5>3. b # 0 => b - 1 \in 0 .. m /\ b - 1 # m
          BY <2>3, <5>1
        <5>4. b # 0 => g[b - 1] = f[b - 1]
          BY <5>3
        <5>. QED BY <5>1, <5>2, <5>4
      <4>. QED BY <4>1, <4>2
    <3>. QED BY <3>1 DEF Doubles
  <2>. QED BY <2>3, <2>7
<1>3. \E f : Doubles(MaxBits, f)
  BY <1>1, <1>2
<1>. QED BY <1>3, Zenon DEF N

\* One more bit doubles, and b bits of the hash and the rest of them make up all of it.
LEMMA Powers ==
  /\ MaxBits \in Nat /\ Far \in Nat
  /\ \A b \in 0 .. MaxBits : N[b] \in Nat /\ N[b] >= 1 /\ N[b] <= N[MaxBits]
  /\ \A b \in 1 .. MaxBits : N[b] = 2 * N[b - 1]
  /\ \A b \in 0 .. MaxBits : N[b] * N[MaxBits - b] = N[MaxBits]
<1>1. MaxBits \in Nat
  BY TableAssumption
<1>2. N[0] = 1
  BY <1>1, NIs
<1>3. \A b \in 1 .. MaxBits : N[b] = 2 * N[b - 1]
  <2>1. ASSUME NEW b \in 1 .. MaxBits PROVE N[b] = 2 * N[b - 1]
    <3>1. b \in 0 .. MaxBits /\ b # 0
      BY <1>1
    <3>. QED BY <3>1, NIs
  <2>. QED BY <2>1
<1>4. \A b \in 0 .. MaxBits : N[b] \in Nat /\ N[b] >= 1
  <2>. DEFINE Bad == {b \in 0 .. MaxBits : ~(N[b] \in Nat /\ N[b] >= 1)}
  <2>1. ASSUME Bad # {} PROVE FALSE
    <3>0. Bad \in SUBSET Nat
      OBVIOUS
    <3>1. PICK m \in Bad : \A x \in Bad : m <= x
      BY <2>1, <3>0, LeastOf
    <3>2. m \in 1 .. MaxBits /\ m - 1 \in 0 .. MaxBits /\ ~(m <= m - 1)
      BY <1>1, <1>2
    <3>3. N[m - 1] \in Nat /\ N[m - 1] >= 1
      BY <3>1, <3>2
    <3>. QED BY <1>3, <3>2, <3>3
  <2>. QED BY <2>1
<1>5. \A b \in 0 .. MaxBits : N[b] * N[MaxBits - b] = N[MaxBits]
  <2>. DEFINE Bad == {b \in 0 .. MaxBits : N[b] * N[MaxBits - b] # N[MaxBits]}
  <2>1. ASSUME Bad # {} PROVE FALSE
    <3>0. Bad \in SUBSET Nat
      OBVIOUS
    <3>1. PICK m \in Bad : \A x \in Bad : m <= x
      BY <2>1, <3>0, LeastOf
    <3>2. m # 0
      BY <1>1, <1>2, <1>4
    <3>3. m \in 1 .. MaxBits /\ m - 1 \in 0 .. MaxBits /\ ~(m <= m - 1) /\ MaxBits - m + 1 \in 1 .. MaxBits
      BY <1>1, <3>2
    <3>4. N[m - 1] * N[MaxBits - (m - 1)] = N[MaxBits]
      BY <3>1, <3>3
    <3>5. N[m] = 2 * N[m - 1] /\ N[MaxBits - m + 1] = 2 * N[MaxBits - m]
      <4>1. (MaxBits - m + 1) - 1 = MaxBits - m
        BY <1>1, <3>3
      <4>. QED BY <1>3, <3>3, <4>1
    <3>6. N[m - 1] \in Nat /\ N[MaxBits - m] \in Nat /\ MaxBits - (m - 1) = MaxBits - m + 1
      BY <1>1, <1>4, <3>3
    <3>7. N[m] * N[MaxBits - m] = N[m - 1] * N[MaxBits - (m - 1)]
      BY <3>5, <3>6
    <3>. QED BY <3>4, <3>7
  <2>. QED BY <2>1
<1>6. \A b \in 0 .. MaxBits : N[b] <= N[MaxBits]
  <2>1. ASSUME NEW b \in 0 .. MaxBits PROVE N[b] <= N[MaxBits]
    <3>1. MaxBits - b \in 0 .. MaxBits /\ MaxBits \in 0 .. MaxBits
      BY <1>1
    <3>2. \A x, y \in Nat : y >= 1 => x <= x * y
      OBVIOUS
    <3>3. N[b] \in Nat /\ N[MaxBits - b] \in Nat /\ N[MaxBits - b] >= 1
      BY <1>4, <3>1
    <3>4. N[b] <= N[b] * N[MaxBits - b]
      BY <3>2, <3>3
    <3>. QED BY <1>5, <3>4
  <2>. QED BY <2>1
<1>7. Far \in Nat
  BY <1>1, <1>4 DEF Far
<1>. QED BY <1>1, <1>3, <1>4, <1>5, <1>6, <1>7

-----------------------------------------------------------------------------
(* The circle of the buckets 0 .. n - 1.                                     *)

Turn(p, n) == IF p + 1 = n THEN 0 ELSE p + 1      \* the next bucket
Back(p, n) == IF p = 0 THEN n - 1 ELSE p - 1
Off(p, q, n) == IF q >= p THEN q - p ELSE q - p + n    \* steps from p to q

\* Division with remainder.
LEMMA Division ==
  ASSUME NEW n \in Nat, n >= 1, NEW x \in Nat
  PROVE  \E q \in Nat, m \in 0 .. n - 1 : x = n * q + m
<1>. DEFINE Bad == {y \in Nat : ~\E q \in Nat, m \in 0 .. n - 1 : y = n * q + m}
<1>1. ASSUME Bad # {} PROVE FALSE
  <2>0. Bad \in SUBSET Nat
    OBVIOUS
  <2>1. PICK y \in Bad : \A z \in Bad : y <= z
    BY <1>1, <2>0, LeastOf
  <2>2. y # 0
    <3>1. 0 = n * 0 + 0 /\ 0 \in Nat /\ 0 \in 0 .. n - 1
      OBVIOUS
    <3>. QED BY <3>1
  <2>3. y \in Nat /\ y - 1 \in Nat /\ ~(y <= y - 1)
    BY <2>2
  <2>4. PICK q \in Nat, m \in 0 .. n - 1 : y - 1 = n * q + m
    BY <2>1, <2>3
  <2>5. CASE m + 1 = n
    <3>1. y = n * (q + 1) + 0 /\ q + 1 \in Nat /\ 0 \in 0 .. n - 1
      BY <2>3, <2>4, <2>5
    <3>. QED BY <3>1
  <2>6. CASE m + 1 # n
    <3>1. y = n * q + (m + 1) /\ m + 1 \in 0 .. n - 1
      BY <2>3, <2>4, <2>6
    <3>. QED BY <3>1
  <2>. QED BY <2>5, <2>6
<1>. QED BY <1>1

\* The remainder steps round the circle, and a sum of two of its numbers wraps once.
LEMMA Remainders ==
  ASSUME NEW n \in Nat, n >= 1
  PROVE  /\ \A x \in Nat : x % n \in 0 .. n - 1 /\ (x + 1) % n = Turn(x % n, n)
         /\ \A p, j \in 0 .. n - 1 : (p + j) % n = IF p + j < n THEN p + j ELSE p + j - n
<1>1. ASSUME NEW x \in Nat PROVE x % n \in 0 .. n - 1
  OBVIOUS
<1>2. ASSUME NEW x \in Nat PROVE (x + 1) % n = Turn(x % n, n)
  <2>1. PICK q \in Nat, m \in 0 .. n - 1 : x = n * q + m
    BY Division
  <2>2. ASSUME NEW r \in Nat, NEW l \in 0 .. n - 1 PROVE (n * r + l) % n = l
    OBVIOUS
  <2>3. x % n = m
    BY <2>1, <2>2
  <2>4. CASE m + 1 = n
    <3>1. x + 1 = n * (q + 1) + 0 /\ q + 1 \in Nat /\ 0 \in 0 .. n - 1
      BY <2>1, <2>4
    <3>2. (n * (q + 1) + 0) % n = 0
      BY <2>2, <3>1
    <3>. QED BY <2>3, <2>4, <3>1, <3>2 DEF Turn
  <2>5. CASE m + 1 # n
    <3>1. x + 1 = n * q + (m + 1) /\ m + 1 \in 0 .. n - 1
      BY <2>1, <2>5
    <3>. QED BY <2>2, <2>3, <2>5, <3>1 DEF Turn
  <2>. QED BY <2>4, <2>5
<1>3. ASSUME NEW p \in 0 .. n - 1, NEW j \in 0 .. n - 1
      PROVE  (p + j) % n = IF p + j < n THEN p + j ELSE p + j - n
  OBVIOUS
<1>. QED BY <1>1, <1>2, <1>3

\* Off counts the steps from p to q, and Turn and Back are one step.
LEMMA Circle ==
  ASSUME NEW n \in Nat, n >= 1, NEW p \in 0 .. n - 1
  PROVE  /\ (p + 1) % n = Turn(p, n) /\ (p + n - 1) % n = Back(p, n)
         /\ \A q \in 0 .. n - 1 : Off(p, q, n) \in 0 .. n - 1 /\ (p + Off(p, q, n)) % n = q
         /\ \A j \in 0 .. n - 1 : (p + j) % n \in 0 .. n - 1 /\ Off(p, (p + j) % n, n) = j
         /\ (p + n) % n = p /\ (p + n + 1) % n = Turn(p, n)
<1>1. (p + 1) % n = Turn(p, n)
  <2>1. p % n = p
    OBVIOUS
  <2>. QED BY <2>1, Remainders
<1>2. (p + (n - 1)) % n = Back(p, n) /\ n - 1 \in 0 .. n - 1
  <2>1. n - 1 \in 0 .. n - 1
    OBVIOUS
  <2>2. (p + (n - 1)) % n = IF p + (n - 1) < n THEN p + (n - 1) ELSE p + (n - 1) - n
    BY <2>1, Remainders
  <2>. QED BY <2>1, <2>2 DEF Back
<1>3. ASSUME NEW q \in 0 .. n - 1 PROVE Off(p, q, n) \in 0 .. n - 1 /\ (p + Off(p, q, n)) % n = q
  <2>1. Off(p, q, n) \in 0 .. n - 1
    BY DEF Off
  <2>2. (p + Off(p, q, n)) % n = IF p + Off(p, q, n) < n THEN p + Off(p, q, n) ELSE p + Off(p, q, n) - n
    BY <2>1, Remainders
  <2>. QED BY <2>1, <2>2 DEF Off
<1>4. ASSUME NEW j \in 0 .. n - 1 PROVE (p + j) % n \in 0 .. n - 1 /\ Off(p, (p + j) % n, n) = j
  <2>1. (p + j) % n = IF p + j < n THEN p + j ELSE p + j - n
    BY Remainders
  <2>. QED BY <2>1 DEF Off
<1>5. (p + n) % n = p
  <2>0. p + (n - 1) \in Nat
    OBVIOUS
  <2>1. (p + (n - 1) + 1) % n = Turn((p + (n - 1)) % n, n)
    BY <2>0, Remainders
  <2>2. Turn(Back(p, n), n) = p
    BY DEF Turn, Back
  <2>3. p + (n - 1) + 1 = p + n
    OBVIOUS
  <2>. QED BY <1>2, <2>1, <2>2, <2>3
<1>6. (p + n + 1) % n = Turn(p, n)
  <2>1. p + n \in Nat
    OBVIOUS
  <2>. QED BY <1>5, <2>1, Remainders
<1>7. (p + n) - 1 = p + (n - 1)
  OBVIOUS
<1>. QED BY <1>1, <1>2, <1>3, <1>4, <1>5, <1>6, <1>7

\* What the steps along the circle do to the offset from p.
LEMMA Offsets ==
  ASSUME NEW n \in Nat, n >= 1, NEW p \in 0 .. n - 1, NEW q \in 0 .. n - 1
  PROVE  /\ Turn(q, n) \in 0 .. n - 1 /\ Back(q, n) \in 0 .. n - 1
         /\ Turn(Back(q, n), n) = q /\ Back(Turn(q, n), n) = q
         /\ Off(p, p, n) = 0 /\ (Off(p, q, n) = 0 => q = p) /\ Off(p, q, n) \in 0 .. n - 1
         /\ q # p => Off(p, Back(q, n), n) = Off(p, q, n) - 1
         /\ Turn(q, n) # p => Off(p, Turn(q, n), n) = Off(p, q, n) + 1
         /\ Turn(q, n) = p => Off(p, q, n) = n - 1
         /\ \A r \in 0 .. n - 1 : Off(p, q, n) = Off(p, r, n) => q = r
BY DEF Turn, Back, Off

-----------------------------------------------------------------------------
(* The buckets that a search for a key looks at.                             *)

HashOK == hash \in [Keys -> [high : Highs, print : Prints]]
Bucket == [dist : Nat, print : Nat, at : Nat]
Ring(b) == 0 .. N[b] - 1

\* A shifted hash is a bucket.
LEMMA HomeIn ==
  ASSUME HashOK, NEW k \in Keys, NEW b \in 0 .. MaxBits
  PROVE  Home(k, b) \in Ring(b)
<1>. DEFINE x == hash[k].high
            n == N[b]
            m == N[MaxBits - b]
<1>1. x \in 0 .. N[MaxBits] - 1
  BY TableAssumption DEF HashOK
<1>2. MaxBits - b \in 0 .. MaxBits
  BY Powers
<1>3. n \in Nat /\ m \in Nat /\ n >= 1 /\ m >= 1 /\ m * n = N[MaxBits]
  BY <1>2, Powers
<1>4. x \in 0 .. m * n - 1
  BY <1>1, <1>3
<1>. HIDE DEF x, n, m
<1>5. \A d, e \in Nat : d >= 1 /\ e >= 1 => \A y \in 0 .. d * e - 1 : y \div d \in 0 .. e - 1
  OBVIOUS
<1>6. x \div m \in 0 .. n - 1
  BY <1>3, <1>4, <1>5
<1>. QED BY <1>6 DEF Home, Ring, x, n, m

\* A search walks from the home bucket round the circle, past every bucket after the first two
\* steps and within Far.
LEMMA Walk ==
  ASSUME HashOK, NEW k \in Keys, NEW b \in 1 .. MaxBits
  PROVE  /\ Place(k, 0, b) = Home(k, b)
         /\ \A j \in Nat : Place(k, j, b) \in Ring(b) /\ Place(k, j + 1, b) = Turn(Place(k, j, b), N[b])
         /\ \A q \in Ring(b) : \E j \in 2 .. Far : Place(k, j, b) = q
<1>. DEFINE n == N[b]
            h == Home(k, b)
<1>1. b \in 0 .. MaxBits /\ b - 1 \in 0 .. MaxBits
  BY Powers
<1>2. n \in Nat /\ n >= 2 /\ n + 1 <= Far /\ Far \in Nat
  <2>1. N[b] = 2 * N[b - 1] /\ N[b - 1] >= 1 /\ N[b - 1] \in Nat /\ N[b] <= N[MaxBits]
    BY <1>1, Powers
  <2>2. N[MaxBits] \in Nat
    BY Powers
  <2>. QED BY <2>1, <2>2 DEF Far
<1>3. h \in 0 .. n - 1
  BY <1>1, HomeIn DEF Ring
<1>4. ASSUME NEW j PROVE Place(k, j, b) = (h + j) % n
  BY DEF Place
<1>5. Ring(b) = 0 .. n - 1
  BY DEF Ring
<1>. HIDE DEF n, h
<1>. n >= 1
  BY <1>2
<1>r. /\ \A x \in Nat : x % n \in 0 .. n - 1 /\ (x + 1) % n = Turn(x % n, n)
      /\ \A p, j \in 0 .. n - 1 : (p + j) % n = IF p + j < n THEN p + j ELSE p + j - n
  BY <1>2, Remainders
<1>c. /\ (h + 1) % n = Turn(h, n)
      /\ \A q \in 0 .. n - 1 : Off(h, q, n) \in 0 .. n - 1 /\ (h + Off(h, q, n)) % n = q
      /\ (h + n) % n = h /\ (h + n + 1) % n = Turn(h, n)
  BY <1>2, <1>3, Circle
<1>6. Place(k, 0, b) = h
  <2>1. h % n = h /\ h + 0 = h
    BY <1>2, <1>3
  <2>. QED BY <1>4, <2>1
<1>7. ASSUME NEW j \in Nat PROVE Place(k, j, b) \in Ring(b) /\ Place(k, j + 1, b) = Turn(Place(k, j, b), n)
  <2>1. h + j \in Nat /\ h + (j + 1) = (h + j) + 1
    BY <1>2, <1>3
  <2>2. (h + j) % n \in 0 .. n - 1 /\ ((h + j) + 1) % n = Turn((h + j) % n, n)
    BY <2>1, <1>r
  <2>. QED BY <1>4, <1>5, <2>1, <2>2
<1>8. ASSUME NEW q \in Ring(b) PROVE \E j \in 2 .. Far : Place(k, j, b) = q
  <2>1. /\ Off(h, q, n) \in 0 .. n - 1 /\ (h + Off(h, q, n)) % n = q
        /\ (h + n) % n = h /\ (h + n + 1) % n = Turn(h, n) /\ (h + 1) % n = Turn(h, n)
    BY <1>5, <1>c
  <2>2. CASE Off(h, q, n) >= 2
    BY <1>2, <1>4, <2>1, <2>2
  <2>3. CASE Off(h, q, n) = 0
    <3>1. q = h
      BY <1>4, <1>6, <2>1, <2>3
    <3>2. n \in 2 .. Far
      BY <1>2
    <3>. QED BY <1>4, <2>1, <3>1, <3>2
  <2>4. CASE Off(h, q, n) = 1
    <3>1. n + 1 \in 2 .. Far /\ h + (n + 1) = h + n + 1
      BY <1>2, <1>3
    <3>. QED BY <1>4, <2>1, <2>4, <3>1
  <2>. QED BY <1>2, <2>1, <2>2, <2>3, <2>4
<1>. QED BY <1>6, <1>7, <1>8 DEF n, h

\* The word that a search expects.
LEMMA WordIs ==
  ASSUME HashOK, NEW k \in Keys, NEW j \in Nat
  PROVE  Word(k, j).dist = j + 1 /\ Word(k, j).print = hash[k].print /\ hash[k].print \in Nat
BY TableAssumption DEF Word, HashOK

-----------------------------------------------------------------------------
(* A sound index: bs has 2^b buckets, in which the values of vs with an index  *)
(* in I lie, each in one bucket, in Robin Hood order.                          *)

\* The bucket c at p is that of a value in I.
Fits(c, p, b, vs, I) ==
  /\ c.dist >= 1 /\ c.at \in I /\ c.print = hash[KeyAt(vs, c.at)].print
  /\ Place(KeyAt(vs, c.at), c.dist - 1, b) = p

\* The bucket d behind c is at most one step poorer.
Tight(c, d) == d.dist > 1 => c.dist + 1 > d.dist \/ (c.dist + 1 = d.dist /\ c.print >= d.print)

\* Only one bucket, at p, has the value ix.
Alone(ix, p, bs, b) == bs[p].at = ix /\ \A q \in Ring(b) : bs[q].at = ix => q = p

Sound(bs, b, vs, I) ==
  /\ bs \in [Ring(b) -> Bucket]
  /\ \A p \in Ring(b) : bs[p] = Empty \/ Fits(bs[p], p, b, vs, I)
  /\ \A ix \in I : \E p \in Ring(b) : Alone(ix, p, bs, b)
  /\ \A p \in Ring(b) : Tight(bs[p], bs[Turn(p, N[b])])

\* The keys of those values differ.
Distinct(vs, I) ==
  /\ I \subseteq Nat \ {0}
  /\ \A ix \in I : KeyAt(vs, ix) \in Keys
  /\ \A ix, j \in I : KeyAt(vs, ix) = KeyAt(vs, j) => ix = j

\* What a search for k finds at its j-th bucket, in terms of distances.
LEMMA Compared ==
  ASSUME HashOK, NEW k \in Keys, NEW j \in Nat, NEW b, NEW vs, NEW bs \in [Ring(b) -> Bucket],
         Place(k, j, b) \in Ring(b)
  PROVE  LET c == bs[Place(k, j, b)]
             f == hash[k].print
         IN  /\ c \in Bucket /\ f \in Nat
             /\ Poorer(k, j, bs, b) <=> c.dist < j + 1 \/ (c.dist = j + 1 /\ c.print < f)
             /\ Less(Word(k, j), c) <=> j + 1 < c.dist \/ (c.dist = j + 1 /\ f < c.print)
             /\ Same(Word(k, j), c) <=> c.dist = j + 1 /\ c.print = f
             /\ Holds(k, j, bs, b, vs) <=> c.dist = j + 1 /\ c.print = f /\ KeyAt(vs, c.at) = k
<1>. DEFINE c == bs[Place(k, j, b)]
            wd == Word(k, j)
<1>1. c \in Bucket
  OBVIOUS
<1>2. wd.dist = j + 1 /\ wd.print = hash[k].print /\ hash[k].print \in Nat
  BY WordIs
<1>3. /\ Poorer(k, j, bs, b) <=> Less(c, wd)
      /\ Holds(k, j, bs, b, vs) <=> Same(wd, c) /\ KeyAt(vs, c.at) = k
  BY DEF Poorer, Holds
<1>4. c.dist \in Nat /\ c.print \in Nat
  BY <1>1 DEF Bucket
<1>. HIDE DEF c, wd
<1>5. /\ Less(c, wd) <=> c.dist < j + 1 \/ (c.dist = j + 1 /\ c.print < hash[k].print)
      /\ Less(wd, c) <=> j + 1 < c.dist \/ (c.dist = j + 1 /\ hash[k].print < c.print)
      /\ Same(wd, c) <=> c.dist = j + 1 /\ c.print = hash[k].print
  BY <1>2, <1>4 DEF Less, Same
<1>. QED BY <1>1, <1>2, <1>3, <1>5 DEF c, wd

\* No bucket on the way to the bucket of a key is poorer than the key is there, because each
\* bucket is at most one step poorer than the one before it.
LEMMA OnTheWay ==
  ASSUME HashOK, NEW b \in 1 .. MaxBits, NEW vs, NEW I, NEW bs, Sound(bs, b, vs, I),
         NEW k \in Keys, NEW m \in Nat,
         bs[Place(k, m, b)].dist = m + 1, bs[Place(k, m, b)].print = hash[k].print
  PROVE  \A j \in 0 .. m : ~Poorer(k, j, bs, b)
<1>. DEFINE P(j) == Place(k, j, b)
            Bad == {d \in 0 .. m : Poorer(k, m - d, bs, b)}
<1>1. bs \in [Ring(b) -> Bucket] /\ \A p \in Ring(b) : Tight(bs[p], bs[Turn(p, N[b])])
  BY DEF Sound
<1>2. \A j \in Nat : P(j) \in Ring(b) /\ P(j + 1) = Turn(P(j), N[b])
  BY Walk
<1>3. \A j \in Nat : /\ Poorer(k, j, bs, b) <=> bs[P(j)].dist < j + 1
                                               \/ (bs[P(j)].dist = j + 1 /\ bs[P(j)].print < hash[k].print)
                     /\ bs[P(j)].dist \in Nat /\ bs[P(j)].print \in Nat
  BY <1>1, <1>2, Compared DEF Bucket
<1>4. hash[k].print \in Nat
  BY WordIs
<1>5. ASSUME Bad # {} PROVE FALSE
  <2>0. Bad \in SUBSET Nat
    OBVIOUS
  <2>1. PICK d \in Bad : \A e \in Bad : d <= e
    BY <1>5, <2>0, LeastOf
  <2>2. d # 0
    <3>1. ~Poorer(k, m, bs, b)
      BY <1>3, <1>4
    <3>2. m - 0 = m
      OBVIOUS
    <3>. QED BY <2>1, <3>1, <3>2
  <2>3. d \in 1 .. m /\ d - 1 \in 0 .. m /\ m - d \in Nat /\ m - (d - 1) = (m - d) + 1
    BY <2>2
  <2>4. d - 1 \notin Bad
    BY <2>1, <2>3
  <2>5. ~Poorer(k, (m - d) + 1, bs, b)
    BY <2>3, <2>4
  <2>. DEFINE j == m - d
  <2>6. j \in Nat /\ Poorer(k, j, bs, b) /\ ~Poorer(k, j + 1, bs, b)
    BY <2>3, <2>5
  <2>. HIDE DEF j
  <2>7. Tight(bs[P(j)], bs[P(j + 1)])
    BY <1>1, <1>2, <2>6
  <2>. QED BY <1>3, <1>4, <2>6, <2>7 DEF Tight
<1>6. ASSUME NEW j \in 0 .. m PROVE ~Poorer(k, j, bs, b)
  <2>1. m - j \in 0 .. m /\ m - (m - j) = j
    OBVIOUS
  <2>. QED BY <1>5, <2>1
<1>. QED BY <1>6

\* With fewer values than buckets there is an empty bucket.
LEMMA SomeEmpty ==
  ASSUME NEW b \in 0 .. MaxBits, NEW vs, NEW m \in Nat, m < N[b], NEW I, I \subseteq 1 .. m,
         NEW bs, Sound(bs, b, vs, I)
  PROVE  \E p \in Ring(b) : bs[p] = Empty
<1>. SUFFICES ASSUME \A p \in Ring(b) : bs[p] # Empty PROVE FALSE
  OBVIOUS
<1>1. N[b] \in Nat /\ N[b] >= 1
  BY Powers
<1>. DEFINE f == [p \in Ring(b) |-> bs[p].at]
<1>2. f \in [Ring(b) -> 1 .. m]
  BY DEF Sound, Fits
<1>3. IsFiniteSet(Ring(b)) /\ Cardinality(Ring(b)) = N[b]
  <2>. DEFINE l == N[b] - 1
  <2>1. l \in Int /\ ~(0 > l) /\ l - 0 + 1 = N[b]
    BY <1>1
  <2>. HIDE DEF l
  <2>0. \A x, y \in Int : IsFiniteSet(x .. y) /\ Cardinality(x .. y) = IF x > y THEN 0 ELSE y - x + 1
    BY FS_Interval
  <2>3. 0 \in Int
    OBVIOUS
  <2>2. IsFiniteSet(0 .. l) /\ Cardinality(0 .. l) = IF 0 > l THEN 0 ELSE l - 0 + 1
    BY <2>0, <2>1, <2>3, Zenon
  <2>. QED BY <2>1, <2>2 DEF l, Ring
<1>4. IsFiniteSet(1 .. m) /\ Cardinality(1 .. m) = m
  BY FS_Interval
<1>. HIDE DEF f
<1>5. PICK p, q \in Ring(b) : p # q /\ f[p] = f[q]
  BY <1>2, <1>3, <1>4, FS_PigeonHole
<1>6. bs[p].at = bs[q].at /\ bs[p].at \in I
  BY <1>5 DEF f, Sound, Fits
<1>. QED BY <1>5, <1>6 DEF Sound, Alone

-----------------------------------------------------------------------------
(* Searches.                                                                 *)

\* A search for the place of k ends: at the key if it is there, else at a first poorer bucket.
Stop(k, bs, b, vs) == FirstFrom(0, LAMBDA ix : Holds(k, ix, bs, b, vs) \/ Poorer(k, ix, bs, b))

\* An empty bucket is poorer than every word, so a search ends.
LEMMA Stops ==
  ASSUME HashOK, NEW b \in 1 .. MaxBits, NEW vs, NEW I, NEW bs, Sound(bs, b, vs, I),
         \E p \in Ring(b) : bs[p] = Empty, NEW k \in Keys
  PROVE  \E j \in 2 .. Far : bs[Place(k, j, b)] = Empty /\ Poorer(k, j, bs, b)
<1>1. bs \in [Ring(b) -> Bucket]
  BY DEF Sound
<1>2. PICK p \in Ring(b) : bs[p] = Empty
  OBVIOUS
<1>3. PICK j \in 2 .. Far : Place(k, j, b) = p
  BY Walk
<1>4. bs[Place(k, j, b)].dist = 0 /\ j \in Nat
  BY <1>2, <1>3, Powers DEF Empty
<1>5. Poorer(k, j, bs, b)
  BY <1>1, <1>3, <1>4, Compared
<1>. QED BY <1>2, <1>3, <1>5

\* What the comparisons of a search say of the bucket that it looks at.
LEMMA SearchSees ==
  ASSUME HashOK, NEW k \in Keys, NEW b \in 1 .. MaxBits, NEW vs, NEW bs \in [Ring(b) -> Bucket]
  PROVE  \A ix \in Nat :
           LET c == bs[Place(k, ix, b)]
           IN  /\ Poorer(k, ix, bs, b) <=> c.dist < ix + 1 \/ (c.dist = ix + 1 /\ c.print < hash[k].print)
               /\ Less(Word(k, ix), c) <=> ix + 1 < c.dist \/ (c.dist = ix + 1 /\ hash[k].print < c.print)
               /\ Same(Word(k, ix), c) <=> c.dist = ix + 1 /\ c.print = hash[k].print
               /\ Holds(k, ix, bs, b, vs) <=> c.dist = ix + 1 /\ c.print = hash[k].print /\ KeyAt(vs, c.at) = k
               /\ c \in Bucket /\ c.dist \in Nat /\ c.print \in Nat /\ hash[k].print \in Nat
<1>1. ASSUME NEW ix \in Nat
      PROVE  LET c == bs[Place(k, ix, b)]
             IN  /\ Poorer(k, ix, bs, b) <=> c.dist < ix + 1 \/ (c.dist = ix + 1 /\ c.print < hash[k].print)
                 /\ Less(Word(k, ix), c) <=> ix + 1 < c.dist \/ (c.dist = ix + 1 /\ hash[k].print < c.print)
                 /\ Same(Word(k, ix), c) <=> c.dist = ix + 1 /\ c.print = hash[k].print
                 /\ Holds(k, ix, bs, b, vs) <=> c.dist = ix + 1 /\ c.print = hash[k].print /\ KeyAt(vs, c.at) = k
                 /\ c \in Bucket /\ hash[k].print \in Nat
  <2>1. Place(k, ix, b) \in Ring(b)
    BY Walk
  <2>. QED BY <2>1, Compared
<1>2. ASSUME NEW ix \in Nat PROVE bs[Place(k, ix, b)].dist \in Nat /\ bs[Place(k, ix, b)].print \in Nat
  BY <1>1 DEF Bucket
<1>. QED BY <1>1, <1>2

\* The same without the keys of the values.
LEMMA WordsSeen ==
  ASSUME HashOK, NEW k \in Keys, NEW b \in 1 .. MaxBits, NEW bs \in [Ring(b) -> Bucket]
  PROVE  \A ix \in Nat :
           LET c == bs[Place(k, ix, b)]
           IN  /\ Poorer(k, ix, bs, b) <=> c.dist < ix + 1 \/ (c.dist = ix + 1 /\ c.print < hash[k].print)
               /\ Less(Word(k, ix), c) <=> ix + 1 < c.dist \/ (c.dist = ix + 1 /\ hash[k].print < c.print)
               /\ Same(Word(k, ix), c) <=> c.dist = ix + 1 /\ c.print = hash[k].print
               /\ c \in Bucket /\ c.dist \in Nat /\ c.print \in Nat /\ hash[k].print \in Nat
<1>1. \A ix \in Nat :
        LET c == bs[Place(k, ix, b)]
        IN  /\ Poorer(k, ix, bs, b) <=> c.dist < ix + 1 \/ (c.dist = ix + 1 /\ c.print < hash[k].print)
            /\ Less(Word(k, ix), c) <=> ix + 1 < c.dist \/ (c.dist = ix + 1 /\ hash[k].print < c.print)
            /\ Same(Word(k, ix), c) <=> c.dist = ix + 1 /\ c.print = hash[k].print
            /\ Holds(k, ix, bs, b, 0) <=> c.dist = ix + 1 /\ c.print = hash[k].print /\ KeyAt(0, c.at) = k
            /\ c \in Bucket /\ c.dist \in Nat /\ c.print \in Nat /\ hash[k].print \in Nat
  BY SearchSees, Z3
<1>. QED BY <1>1

\* Where a value lies.
LEMMA LiesAt ==
  ASSUME HashOK, NEW b \in 1 .. MaxBits, NEW vs, NEW I, NEW bs, Sound(bs, b, vs, I),
         NEW ix \in I, ix # 0
  PROVE  \E p \in Ring(b), m \in Nat :
           /\ Alone(ix, p, bs, b) /\ Fits(bs[p], p, b, vs, I)
           /\ Place(KeyAt(vs, ix), m, b) = p /\ bs[p].dist = m + 1
           /\ bs[p].print = hash[KeyAt(vs, ix)].print
<1>1. PICK p \in Ring(b) : Alone(ix, p, bs, b)
  BY DEF Sound
<1>. DEFINE m == bs[p].dist - 1
<1>2. bs[p].at = ix
  BY <1>1 DEF Alone
<1>3. Fits(bs[p], p, b, vs, I)
  BY <1>2 DEF Sound, Empty
<1>4. bs[p] \in Bucket
  BY DEF Sound
<1>5. m \in Nat /\ bs[p].dist = m + 1
  BY <1>3, <1>4 DEF Fits, Bucket
<1>6. Place(KeyAt(vs, ix), m, b) = p /\ bs[p].print = hash[KeyAt(vs, ix)].print
  BY <1>2, <1>3 DEF Fits
<1>. QED BY <1>1, <1>3, <1>5, <1>6

\* The first bucket at which P holds, when there is one.
LEMMA StopIs ==
  ASSUME HashOK, NEW b \in 1 .. MaxBits, NEW vs, NEW I, NEW bs, Sound(bs, b, vs, I),
         \E p \in Ring(b) : bs[p] = Empty, NEW k \in Keys
  PROVE  LET j == Stop(k, bs, b, vs)
         IN  /\ j \in 0 .. Far
             /\ Holds(k, j, bs, b, vs) \/ Poorer(k, j, bs, b)
             /\ \A ix \in 0 .. j - 1 : ~Holds(k, ix, bs, b, vs) /\ ~Poorer(k, ix, bs, b)
<1>. DEFINE S == {ix \in 0 .. Far : Holds(k, ix, bs, b, vs) \/ Poorer(k, ix, bs, b)}
            Is(j) == (Holds(k, j, bs, b, vs) \/ Poorer(k, j, bs, b))
                     /\ \A d \in 0 .. j - 1 : ~(Holds(k, d, bs, b, vs) \/ Poorer(k, d, bs, b))
<1>0. Far \in Nat
  BY Powers
<1>1. S # {} /\ S \in SUBSET Nat
  BY Stops
<1>2. PICK j \in S : \A ix \in S : j <= ix
  BY <1>1, LeastOf
<1>3. Is(j) /\ j \in 0 .. Far
  <2>1. \A d \in 0 .. j - 1 : d \in 0 .. Far /\ ~(j <= d)
    BY <1>0
  <2>. QED BY <1>2, <2>1
<1>4. Stop(k, bs, b, vs) = CHOOSE ix \in 0 .. Far : Is(ix)
  BY DEF Stop, FirstFrom
<1>. HIDE DEF Is
<1>5. Stop(k, bs, b, vs) \in 0 .. Far /\ Is(Stop(k, bs, b, vs))
  BY <1>3, <1>4
<1>. QED BY <1>5 DEF Is

\* It finds a key that is there, and for a new one the place it has to take.
LEMMA StopSound ==
  ASSUME HashOK, NEW b \in 1 .. MaxBits, NEW vs, NEW I, NEW bs, Sound(bs, b, vs, I),
         Distinct(vs, I), \E p \in Ring(b) : bs[p] = Empty, NEW k \in Keys
  PROVE  LET j == Stop(k, bs, b, vs)
             there == {ix \in I : KeyAt(vs, ix) = k}
         IN  /\ j \in 0 .. Far
             /\ \A ix \in there : Holds(k, j, bs, b, vs) /\ bs[Place(k, j, b)].at = ix
             /\ there = {} => /\ ~Holds(k, j, bs, b, vs)
                              /\ ~Less(Word(k, j), bs[Place(k, j, b)])
                              /\ \A ix \in 0 .. j - 1 : ~Poorer(k, ix, bs, b)
<1>. DEFINE j == Stop(k, bs, b, vs)
<1>1. /\ j \in 0 .. Far
      /\ Holds(k, j, bs, b, vs) \/ Poorer(k, j, bs, b)
      /\ \A ix \in 0 .. j - 1 : ~Holds(k, ix, bs, b, vs) /\ ~Poorer(k, ix, bs, b)
  BY StopIs
<1>. HIDE DEF j
<1>2. j \in Nat
  BY <1>1, Powers
<1>3. bs \in [Ring(b) -> Bucket] /\ \A ix \in Nat : Place(k, ix, b) \in Ring(b)
  BY Walk DEF Sound
<1>4. \A ix \in Nat :
        LET c == bs[Place(k, ix, b)]
        IN  /\ Poorer(k, ix, bs, b) <=> c.dist < ix + 1 \/ (c.dist = ix + 1 /\ c.print < hash[k].print)
            /\ Less(Word(k, ix), c) <=> ix + 1 < c.dist \/ (c.dist = ix + 1 /\ hash[k].print < c.print)
            /\ Holds(k, ix, bs, b, vs) <=> c.dist = ix + 1 /\ c.print = hash[k].print /\ KeyAt(vs, c.at) = k
            /\ c.dist \in Nat /\ c.print \in Nat /\ hash[k].print \in Nat
  BY <1>3, SearchSees
<1>5. \A ix \in Nat : Holds(k, ix, bs, b, vs) => bs[Place(k, ix, b)].at \in I
  BY <1>3, <1>4 DEF Sound, Fits, Empty
<1>6. ASSUME NEW ix \in I, KeyAt(vs, ix) = k
      PROVE  Holds(k, j, bs, b, vs) /\ bs[Place(k, j, b)].at = ix
  <2>1. ix # 0
    BY DEF Distinct
  <2>3. PICK p \in Ring(b), m \in Nat :
          /\ Alone(ix, p, bs, b) /\ Place(k, m, b) = p
          /\ bs[p].dist = m + 1 /\ bs[p].print = hash[k].print
    BY <1>6, <2>1, LiesAt
  <2>2. bs[p].at = ix
    BY <2>3 DEF Alone
  <2>4. m \in Nat /\ Place(k, m, b) = p /\ bs[p].dist = m + 1 /\ bs[p].print = hash[k].print
    BY <2>3
  <2>5. \A d \in 0 .. m : ~Poorer(k, d, bs, b)
    BY <2>4, OnTheWay
  <2>6. Holds(k, m, bs, b, vs)
    BY <1>4, <1>6, <2>2, <2>4
  <2>7. j <= m
    BY <1>1, <1>2, <2>4, <2>6
  <2>8. Holds(k, j, bs, b, vs)
    BY <1>1, <1>2, <2>4, <2>5, <2>7
  <2>9. bs[Place(k, j, b)].at \in I /\ KeyAt(vs, bs[Place(k, j, b)].at) = k
    BY <1>2, <1>4, <1>5, <2>8
  <2>. QED BY <1>6, <2>8, <2>9 DEF Distinct
<1>7. ASSUME \A ix \in I : KeyAt(vs, ix) # k
      PROVE  ~Holds(k, j, bs, b, vs) /\ ~Less(Word(k, j), bs[Place(k, j, b)])
  <2>1. ~Holds(k, j, bs, b, vs)
    BY <1>2, <1>4, <1>5, <1>7
  <2>. QED BY <1>1, <1>2, <1>4, <2>1
<1>. QED BY <1>1, <1>6, <1>7 DEF j

\* find, whose first two steps only compare.
Found(k, bs, b, vs) ==
  LET j == FirstFrom(0, LAMBDA ix : Holds(k, ix, bs, b, vs) \/ (ix > 1 /\ Poorer(k, ix, bs, b)))
  IN  IF Holds(k, j, bs, b, vs) THEN bs[Place(k, j, b)].at ELSE 0

\* do_find gives the index of the key that it looks for, or 0 when no value has the key.
LEMMA FoundSound ==
  ASSUME HashOK, NEW b \in 1 .. MaxBits, NEW vs, NEW I, NEW bs, Sound(bs, b, vs, I),
         Distinct(vs, I), \E p \in Ring(b) : bs[p] = Empty, NEW k \in Keys
  PROVE  LET ix == Found(k, bs, b, vs)
         IN  IF ix = 0 THEN \A x \in I : KeyAt(vs, x) # k ELSE ix \in I /\ KeyAt(vs, ix) = k
<1>9. bs \in [Ring(b) -> Bucket] /\ \A ix \in Nat : Place(k, ix, b) \in Ring(b)
  BY Walk DEF Sound
<1>10. \A ix \in Nat :
        LET c == bs[Place(k, ix, b)]
        IN  /\ Poorer(k, ix, bs, b) <=> c.dist < ix + 1 \/ (c.dist = ix + 1 /\ c.print < hash[k].print)
            /\ Less(Word(k, ix), c) <=> ix + 1 < c.dist \/ (c.dist = ix + 1 /\ hash[k].print < c.print)
            /\ Same(Word(k, ix), c) <=> c.dist = ix + 1 /\ c.print = hash[k].print
            /\ Holds(k, ix, bs, b, vs) <=> c.dist = ix + 1 /\ c.print = hash[k].print /\ KeyAt(vs, c.at) = k
            /\ c \in Bucket /\ c.dist \in Nat /\ c.print \in Nat /\ hash[k].print \in Nat
  BY <1>9, SearchSees, Z3
<1>. DEFINE Over(ix) == Holds(k, ix, bs, b, vs) \/ (ix > 1 /\ Poorer(k, ix, bs, b))
            S == {ix \in 0 .. Far : Over(ix)}
            Is(ix) == Over(ix) /\ \A d \in 0 .. ix - 1 : ~Over(d)
            j == FirstFrom(0, LAMBDA ix : Over(ix))
<1>0. Far \in Nat
  BY Powers
<1>1. PICK e \in 2 .. Far : bs[Place(k, e, b)] = Empty /\ Poorer(k, e, bs, b)
  BY Stops
<1>2. S # {} /\ S \in SUBSET Nat
  <2>1. e \in S
    BY <1>0, <1>1
  <2>. QED BY <2>1
<1>3. PICK i0 \in S : \A ix \in S : i0 <= ix
  BY <1>2, LeastOf
<1>4. Is(i0) /\ i0 \in 0 .. Far
  <2>1. \A d \in 0 .. i0 - 1 : d \in 0 .. Far /\ ~(i0 <= d)
    BY <1>0
  <2>. QED BY <1>3, <2>1
<1>5. j = CHOOSE ix \in 0 .. Far : Is(ix)
  BY DEF FirstFrom
<1>6. Found(k, bs, b, vs) = IF Holds(k, j, bs, b, vs) THEN bs[Place(k, j, b)].at ELSE 0
  BY DEF Found
<1>. HIDE DEF Is, j
<1>7. j \in 0 .. Far /\ Is(j)
  BY <1>4, <1>5
<1>8. j \in Nat
  BY <1>0, <1>7
<1>11. Holds(k, j, bs, b, vs) => bs[Place(k, j, b)].at \in I /\ KeyAt(vs, bs[Place(k, j, b)].at) = k
  BY <1>8, <1>9, <1>10 DEF Sound, Fits, Empty
<1>12. ASSUME NEW ix \in I, KeyAt(vs, ix) = k PROVE Holds(k, j, bs, b, vs)
  <2>1. ix # 0
    BY DEF Distinct
  <2>3. PICK p \in Ring(b), m \in Nat :
          /\ Alone(ix, p, bs, b) /\ Place(k, m, b) = p
          /\ bs[p].dist = m + 1 /\ bs[p].print = hash[k].print
    BY <1>12, <2>1, LiesAt
  <2>2. bs[p].at = ix
    BY <2>3 DEF Alone
  <2>4. m \in Nat /\ Place(k, m, b) = p /\ bs[p].dist = m + 1 /\ bs[p].print = hash[k].print
    BY <2>3
  <2>5. \A d \in 0 .. m : ~Poorer(k, d, bs, b)
    BY <2>4, OnTheWay
  <2>6. Holds(k, m, bs, b, vs)
    BY <1>10, <1>12, <2>2, <2>4
  <2>7. j <= m
    BY <1>7, <1>8, <2>4, <2>6 DEF Is
  <2>. QED BY <1>7, <1>8, <2>4, <2>5, <2>7 DEF Is
<1>13. \A ix \in I : ix # 0
  BY DEF Distinct
<1>. QED BY <1>6, <1>11, <1>12, <1>13

\* next_while_less: the first bucket that is not better than the key would be there.
LEMMA NextWhileLessIs ==
  ASSUME HashOK, NEW b \in 1 .. MaxBits, NEW vs, NEW I, NEW bs, Sound(bs, b, vs, I),
         \E p \in Ring(b) : bs[p] = Empty, NEW k \in Keys
  PROVE  LET j == NextWhileLess(k, bs, b)
         IN  /\ j \in 0 .. Far
             /\ ~Less(Word(k, j), bs[Place(k, j, b)])
             /\ \A ix \in 0 .. j - 1 : Less(Word(k, ix), bs[Place(k, ix, b)])
<1>. DEFINE Over(ix) == ~Less(Word(k, ix), bs[Place(k, ix, b)])
            S == {ix \in 0 .. Far : Over(ix)}
            Is(ix) == Over(ix) /\ \A d \in 0 .. ix - 1 : ~Over(d)
            j == NextWhileLess(k, bs, b)
<1>0. Far \in Nat
  BY Powers
<1>1. PICK e \in 2 .. Far : bs[Place(k, e, b)] = Empty /\ Poorer(k, e, bs, b)
  BY Stops
<1>2. S # {} /\ S \in SUBSET Nat
  <2>1. bs \in [Ring(b) -> Bucket] /\ e \in Nat
    BY <1>0 DEF Sound
  <2>2. ~Less(Word(k, e), bs[Place(k, e, b)])
    BY <1>1, <2>1, SearchSees
  <2>3. e \in S
    BY <1>0, <2>2
  <2>. QED BY <2>3
<1>3. PICK i0 \in S : \A ix \in S : i0 <= ix
  BY <1>2, LeastOf
<1>4. Is(i0) /\ i0 \in 0 .. Far
  <2>1. \A d \in 0 .. i0 - 1 : d \in 0 .. Far /\ ~(i0 <= d)
    BY <1>0
  <2>. QED BY <1>3, <2>1
<1>5. j = CHOOSE ix \in 0 .. Far : Is(ix)
  BY DEF FirstFrom, NextWhileLess
<1>. HIDE DEF Is, j
<1>6. j \in 0 .. Far /\ Is(j)
  BY <1>4, <1>5
<1>. QED BY <1>6 DEF Is, j

-----------------------------------------------------------------------------
(* Placing a bucket and shifting up.                                         *)

\* A bucket that has moved on by one.
LEMMA Fields ==
  ASSUME NEW c \in Bucket
  PROVE  /\ c.dist \in Nat /\ c.print \in Nat /\ c.at \in Nat
         /\ [c EXCEPT !.dist = @ + 1] \in Bucket
         /\ [c EXCEPT !.dist = @ + 1].dist = c.dist + 1
         /\ [c EXCEPT !.dist = @ + 1].print = c.print /\ [c EXCEPT !.dist = @ + 1].at = c.at
BY DEF Bucket

\* The buckets from p up to the next empty one, z, move on by one and c comes to p.
NextEmpty(z, p, bs, b) ==
  /\ z \in Ring(b) /\ bs[z].dist = 0
  /\ \A q \in Ring(b) : Off(p, q, N[b]) < Off(p, z, N[b]) => bs[q].dist # 0
Raised(c, p, z, bs, b) ==
  [q \in Ring(b) |-> IF q = p THEN c
                     ELSE IF Off(p, q, N[b]) <= Off(p, z, N[b])
                          THEN [bs[Back(q, N[b])] EXCEPT !.dist = @ + 1] ELSE bs[q]]

\* place_and_shift_up moves just the buckets up to the next empty one.
LEMMA ShiftUpIs ==
  ASSUME NEW b \in 1 .. MaxBits, NEW bs \in [Ring(b) -> Bucket], NEW c \in Bucket, NEW p \in Ring(b),
         \E q \in Ring(b) : bs[q].dist = 0
  PROVE  \E z \in Ring(b) : NextEmpty(z, p, bs, b) /\ ShiftUp(c, p, bs, b) = Raised(c, p, z, bs, b)
<1>. DEFINE n == N[b]
            At(j) == (p + j) % n
            S == {j \in 0 .. Far : bs[At(j)].dist = 0}
            Is(j) == bs[At(j)].dist = 0 /\ \A d \in 0 .. j - 1 : ~(bs[At(d)].dist = 0)
            gap == FirstFrom(0, LAMBDA j : bs[(p + j) % N[b]].dist = 0)
            shifted == {At(j) : j \in 1 .. gap}
            before(q) == bs[(q + n - 1) % n]
<1>1. n \in Nat /\ n >= 1 /\ n <= Far /\ Far \in Nat
  <2>1. b \in 0 .. MaxBits /\ MaxBits \in 0 .. MaxBits
    BY Powers
  <2>2. N[b] \in Nat /\ N[b] >= 1 /\ N[b] <= N[MaxBits] /\ N[MaxBits] \in Nat
    BY <2>1, Powers
  <2>. QED BY <2>2 DEF Far
<1>2. Ring(b) = 0 .. n - 1
  BY DEF Ring
<1>3. /\ \A q \in Ring(b) : Off(p, q, n) \in 0 .. n - 1 /\ At(Off(p, q, n)) = q
      /\ \A j \in 0 .. n - 1 : At(j) \in Ring(b) /\ Off(p, At(j), n) = j
  <2>1. n \in Nat /\ n >= 1 /\ p \in 0 .. n - 1
    BY <1>1, <1>2
  <2>. HIDE DEF n
  <2>2. /\ \A q \in 0 .. n - 1 : Off(p, q, n) \in 0 .. n - 1 /\ (p + Off(p, q, n)) % n = q
        /\ \A j \in 0 .. n - 1 : (p + j) % n \in 0 .. n - 1 /\ Off(p, (p + j) % n, n) = j
    BY <2>1, Circle
  <2>. QED BY <1>2, <2>2
<1>4. \A q \in Ring(b) : (q + n - 1) % n = Back(q, n)
  BY <1>1, <1>2, Circle
<1>5. PICK e \in Ring(b) : bs[e].dist = 0
  OBVIOUS
<1>6. ShiftUp(c, p, bs, b) =
        [q \in DOMAIN bs |-> IF q = p THEN c
                             ELSE IF q \in shifted THEN [before(q) EXCEPT !.dist = @ + 1] ELSE bs[q]]
  BY DEF ShiftUp
<1>7. gap = CHOOSE j \in 0 .. Far : Is(j)
  BY DEF FirstFrom
<1>. HIDE DEF n, gap
<1>8. Off(p, e, n) \in S /\ S \in SUBSET Nat
  BY <1>1, <1>3, <1>5
<1>9. PICK i0 \in S : \A ix \in S : i0 <= ix
  BY <1>8, LeastOf
<1>10. Is(i0) /\ i0 \in 0 .. Far
  <2>1. \A d \in 0 .. i0 - 1 : d \in 0 .. Far /\ ~(i0 <= d)
    BY <1>1
  <2>. QED BY <1>9, <2>1
<1>11. gap \in 0 .. Far /\ Is(gap)
  <2>. HIDE DEF Is
  <2>. QED BY <1>7, <1>10
<1>12. gap \in 0 .. n - 1
  <2>1. ~(Off(p, e, n) \in 0 .. gap - 1)
    BY <1>3, <1>5, <1>11
  <2>. QED BY <1>1, <1>3, <1>11, <2>1
<1>. DEFINE z == At(gap)
<1>13. z \in Ring(b) /\ Off(p, z, n) = gap /\ bs[z].dist = 0
  BY <1>3, <1>11, <1>12
<1>. HIDE DEF z
<1>14. \A q \in Ring(b) : q \in shifted <=> q # p /\ Off(p, q, n) <= gap
  <2>1. ASSUME NEW q \in Ring(b), q \in shifted PROVE q # p /\ Off(p, q, n) <= gap
    <3>1. PICK j \in 1 .. gap : q = At(j)
      BY <2>1
    <3>2. j \in 0 .. n - 1 /\ Off(p, q, n) = j /\ j # 0
      BY <1>1, <1>3, <1>12, <3>1
    <3>3. Off(p, p, n) = 0
      BY <1>2 DEF Off
    <3>. QED BY <1>12, <3>2, <3>3
  <2>2. ASSUME NEW q \in Ring(b), q # p, Off(p, q, n) <= gap PROVE q \in shifted
    <3>1. Off(p, q, n) # 0
      BY <1>1, <1>2, <2>2 DEF Off
    <3>2. Off(p, q, n) \in 1 .. gap /\ q = At(Off(p, q, n))
      BY <1>3, <1>12, <2>2, <3>1
    <3>. QED BY <3>2
  <2>. QED BY <2>1, <2>2
<1>15. shifted \subseteq Ring(b)
  BY <1>1, <1>3, <1>12
<1>16. ShiftUp(c, p, bs, b) =
         [q \in Ring(b) |-> IF q = p THEN c
                            ELSE IF Off(p, q, n) <= gap
                                 THEN [bs[Back(q, n)] EXCEPT !.dist = @ + 1] ELSE bs[q]]
  <2>1. ASSUME NEW q \in Ring(b)
        PROVE  (IF q \in shifted THEN [before(q) EXCEPT !.dist = @ + 1] ELSE bs[q]) =
               IF q \in shifted THEN [bs[Back(q, n)] EXCEPT !.dist = @ + 1] ELSE bs[q]
    BY <1>4
  <2>2. DOMAIN bs = Ring(b)
    OBVIOUS
  <2>. HIDE DEF before, shifted
  <2>. QED BY <1>6, <1>14, <2>1, <2>2
<1>17. \A q \in Ring(b) : Off(p, q, n) < gap => bs[q].dist # 0
  <2>1. ASSUME NEW q \in Ring(b), Off(p, q, n) < gap PROVE bs[q].dist # 0
    <3>1. Off(p, q, n) \in 0 .. gap - 1 /\ At(Off(p, q, n)) = q
      BY <1>3, <1>12, <2>1
    <3>. QED BY <1>11, <3>1
  <2>. QED BY <2>1
<1>18. NextEmpty(z, p, bs, b)
  BY <1>13, <1>17 DEF NextEmpty, n
<1>19. ShiftUp(c, p, bs, b) = Raised(c, p, z, bs, b)
  BY <1>13, <1>16 DEF Raised, n
<1>. QED BY <1>13, <1>18, <1>19

\* The bucket before the one where a search stops is not poorer than the key is there.
LEMMA BehindOf ==
  ASSUME HashOK, NEW k \in Keys, NEW b \in 1 .. MaxBits, NEW bs \in [Ring(b) -> Bucket],
         NEW l \in Nat, ~Poorer(k, l, bs, b)
  PROVE  LET d == bs[Back(Place(k, l + 1, b), N[b])]
         IN  d.dist > l + 1 \/ (d.dist = l + 1 /\ d.print >= hash[k].print)
<1>1. LET e == bs[Place(k, l, b)]
      IN  /\ Poorer(k, l, bs, b) <=> e.dist < l + 1 \/ (e.dist = l + 1 /\ e.print < hash[k].print)
          /\ e.dist \in Nat /\ e.print \in Nat /\ hash[k].print \in Nat
  BY WordsSeen
<1>2. Back(Place(k, l + 1, b), N[b]) = Place(k, l, b)
  <2>1. Place(k, l, b) \in Ring(b) /\ Place(k, l + 1, b) = Turn(Place(k, l, b), N[b])
    BY Walk
  <2>2. N[b] \in Nat /\ N[b] >= 1
    <3>1. b \in 0 .. MaxBits
      BY Powers
    <3>. QED BY <3>1, Powers
  <2>. QED BY <2>1, <2>2 DEF Ring, Turn, Back
<1>. DEFINE e == bs[Place(k, l, b)]
<1>3. /\ Poorer(k, l, bs, b) <=> e.dist < l + 1 \/ (e.dist = l + 1 /\ e.print < hash[k].print)
      /\ e.dist \in Nat /\ e.print \in Nat /\ hash[k].print \in Nat
  BY <1>1
<1>4. bs[Back(Place(k, l + 1, b), N[b])] = e
  BY <1>2
<1>. HIDE DEF e
<1>5. e.dist > l + 1 \/ (e.dist = l + 1 /\ e.print >= hash[k].print)
  BY <1>3
<1>. QED BY <1>4, <1>5

\* A value whose index is new takes the place where its key is not worse off than the bucket
\* there, nor better than the one before: the index stays sound.
LEMMA Inserted ==
  ASSUME HashOK, NEW b \in 1 .. MaxBits, NEW vs, NEW I, NEW bs, Sound(bs, b, vs, I),
         \A x \in I : x \in Nat \ {0} /\ KeyAt(vs, x) \in Keys, \E q \in Ring(b) : bs[q] = Empty,
         NEW ix \in Nat \ {0}, ix \notin I, NEW k \in Keys, KeyAt(vs, ix) = k,
         NEW j \in Nat, ~Less(Word(k, j), bs[Place(k, j, b)]), j > 0 => ~Poorer(k, j - 1, bs, b)
  PROVE  Sound(IndexAt(k, j, ix, bs, b), b, vs, I \cup {ix})
<1>. DEFINE n == N[b]
            p == Place(k, j, b)
            c == [dist |-> j + 1, print |-> hash[k].print, at |-> ix]
            U == IndexAt(k, j, ix, bs, b)
<1>1. n \in Nat /\ n >= 1 /\ n >= 2
  <2>1. b \in 0 .. MaxBits /\ b - 1 \in 0 .. MaxBits
    BY Powers
  <2>2. N[b] = 2 * N[b - 1] /\ N[b - 1] \in Nat /\ N[b - 1] >= 1
    BY <2>1, Powers
  <2>. QED BY <2>2
<1>2. Ring(b) = 0 .. n - 1
  BY DEF Ring
<1>3. hash[k].print \in Nat
  BY WordIs
<1>4. c \in Bucket /\ c.dist = j + 1 /\ c.print = hash[k].print /\ c.at = ix
  BY <1>3 DEF Bucket
<1>5. p \in Ring(b) /\ \A l \in Nat : Place(k, l, b) \in Ring(b) /\ Place(k, l + 1, b) = Turn(Place(k, l, b), n)
  BY Walk
<1>6. U = ShiftUp(c, p, bs, b)
  BY DEF IndexAt
<1>7. /\ bs \in [Ring(b) -> Bucket]
      /\ \A q \in Ring(b) : bs[q] = Empty \/ Fits(bs[q], q, b, vs, I)
      /\ \A x \in I : \E q \in Ring(b) : Alone(x, q, bs, b)
      /\ \A q \in Ring(b) : Tight(bs[q], bs[Turn(q, n)])
  BY DEF Sound
<1>8. \A q \in Ring(b) : /\ bs[q].dist \in Nat /\ bs[q].print \in Nat /\ bs[q].at \in Nat
                         /\ bs[q].dist = 0 <=> bs[q] = Empty
                         /\ bs[q] = Empty => bs[q].at = 0
  <2>1. ASSUME NEW q \in Ring(b) PROVE bs[q].dist \in Nat /\ bs[q].print \in Nat /\ bs[q].at \in Nat
    BY <1>7 DEF Bucket
  <2>2. Empty.dist = 0 /\ Empty.at = 0
    BY DEF Empty
  <2>. QED BY <1>7, <2>1, <2>2 DEF Fits
<1>9. \A q \in Ring(b) :
        LET e == [bs[q] EXCEPT !.dist = @ + 1]
        IN  e \in Bucket /\ e.dist = bs[q].dist + 1 /\ e.print = bs[q].print /\ e.at = bs[q].at
  BY <1>7, Fields
<1>10. \E q \in Ring(b) : bs[q].dist = 0
  BY <1>8
<1>. DEFINE off(q) == Off(p, q, n)
            turn(q) == Turn(q, n)
            back(q) == Back(q, n)
<1>11. PICK z \in Ring(b) :
         /\ bs[z].dist = 0
         /\ \A q \in Ring(b) : off(q) < off(z) => bs[q].dist # 0
         /\ U = [q \in Ring(b) |-> IF q = p THEN c ELSE IF off(q) <= off(z)
                                   THEN [bs[back(q)] EXCEPT !.dist = @ + 1] ELSE bs[q]]
  <2>1. bs \in [Ring(b) -> Bucket] /\ c \in Bucket /\ p \in Ring(b)
    BY <1>4, <1>5, <1>7
  <2>. HIDE DEF p, c, U
  <2>2. PICK z \in Ring(b) : NextEmpty(z, p, bs, b) /\ ShiftUp(c, p, bs, b) = Raised(c, p, z, bs, b)
    BY <2>1, <1>10, ShiftUpIs
  <2>3. U = Raised(c, p, z, bs, b)
    BY <1>6, <2>2
  <2>. QED BY <2>2, <2>3, Zenon DEF NextEmpty, Raised
<1>12. \A q \in Ring(b) :
         /\ turn(q) \in Ring(b) /\ back(q) \in Ring(b)
         /\ turn(back(q)) = q /\ back(turn(q)) = q
         /\ off(p) = 0 /\ (off(q) = 0 => q = p) /\ off(q) \in 0 .. n - 1
         /\ q # p => off(back(q)) = off(q) - 1
         /\ turn(q) # p => off(turn(q)) = off(q) + 1
         /\ turn(q) = p => off(q) = n - 1
         /\ \A r \in Ring(b) : off(q) = off(r) => q = r
  <2>1. p \in 0 .. n - 1
    BY <1>2, <1>5
  <2>2. ASSUME NEW q \in 0 .. n - 1
        PROVE  /\ turn(q) \in 0 .. n - 1 /\ back(q) \in 0 .. n - 1
               /\ turn(back(q)) = q /\ back(turn(q)) = q
               /\ off(p) = 0 /\ (off(q) = 0 => q = p) /\ off(q) \in 0 .. n - 1
               /\ q # p => off(back(q)) = off(q) - 1
               /\ turn(q) # p => off(turn(q)) = off(q) + 1
               /\ turn(q) = p => off(q) = n - 1
               /\ \A r \in 0 .. n - 1 : off(q) = off(r) => q = r
    <3>. HIDE DEF n, p
    <3>. QED BY <1>1, <2>1, Offsets
  <2>. HIDE DEF n, p, off, turn, back
  <2>. QED BY <1>2, <2>2
<1>13. \A q \in Ring(b) : /\ q = p => U[q] = c
                          /\ q # p /\ off(q) <= off(z) => U[q] = [bs[back(q)] EXCEPT !.dist = @ + 1]
                          /\ q # p /\ off(q) > off(z) => U[q] = bs[q]
  <2>1. \A q \in Ring(b) : off(q) > off(z) => ~(off(q) <= off(z))
    <3>1. \A q \in Ring(b) : off(q) \in Nat
      BY <1>12
    <3>. QED BY <3>1
  <2>. HIDE DEF c, U, off
  <2>. QED BY <1>11, <2>1
<1>. HIDE DEF n, p, c, U, off, turn, back
\* The new bucket and the two beside it.
<1>14. c.dist > 1 => Tight(bs[back(p)], c) /\ bs[back(p)].dist >= 1
  <2>. SUFFICES ASSUME j > 0 PROVE Tight(bs[back(p)], c) /\ bs[back(p)].dist >= 1
    BY <1>4
  <2>1. PICK l \in Nat : j = l + 1 /\ l = j - 1
    <3>1. j - 1 \in Nat /\ j = (j - 1) + 1
      OBVIOUS
    <3>. QED BY <3>1
  <2>2. ~Poorer(k, l, bs, b)
    BY <2>1
  <2>. DEFINE d == bs[Back(Place(k, l + 1, b), N[b])]
  <2>3. d.dist > l + 1 \/ (d.dist = l + 1 /\ d.print >= hash[k].print)
    BY <1>7, <2>2, BehindOf
  <2>4. d = bs[back(p)]
    BY <2>1 DEF p, back, n
  <2>5. bs[back(p)].dist \in Nat /\ bs[back(p)].print \in Nat
    BY <1>5, <1>8, <1>12
  <2>. HIDE DEF d
  <2>6. d.dist \in Nat /\ d.print \in Nat
    BY <2>4, <2>5
  <2>7. Tight(d, c) /\ d.dist >= 1
    BY <1>3, <1>4, <2>1, <2>3, <2>6 DEF Tight
  <2>. QED BY <2>4, <2>7
<1>15. ~(j + 1 < bs[p].dist \/ (bs[p].dist = j + 1 /\ hash[k].print < bs[p].print))
  BY <1>7, SearchSees DEF p
\* Its parts.
<1>16. U \in [Ring(b) -> Bucket]
  <2>1. ASSUME NEW q \in Ring(b) PROVE U[q] \in Bucket
    <3>1. CASE q = p
      BY <1>4, <1>13, <3>1
    <3>2. CASE q # p /\ off(q) <= off(z)
      <4>1. U[q] = [bs[back(q)] EXCEPT !.dist = @ + 1] /\ back(q) \in Ring(b)
        BY <1>12, <1>13, <3>2
      <4>. QED BY <1>9, <4>1
    <3>3. CASE q # p /\ off(q) > off(z)
      BY <1>7, <1>13, <3>3
    <3>4. off(q) <= off(z) \/ off(q) > off(z)
      BY <1>12
    <3>. QED BY <3>1, <3>2, <3>3, <3>4
  <2>2. U = [q \in Ring(b) |-> U[q]]
    BY <1>11
  <2>. QED BY <2>1, <2>2
<1>17. ASSUME NEW q \in Ring(b) PROVE U[q] = Empty \/ Fits(U[q], q, b, vs, I \cup {ix})
  <2>1. CASE q = p
    <3>0. c.dist - 1 = j
      BY <1>4
    <3>1. U[q] = c /\ c.dist - 1 = j
      BY <1>13, <2>1, <3>0
    <3>. QED BY <1>4, <2>1, <3>1 DEF Fits, p
  <2>2. CASE q # p /\ off(q) <= off(z)
    <3>. DEFINE d == bs[back(q)]
    <3>1. back(q) \in Ring(b) /\ off(back(q)) < off(z) /\ turn(back(q)) = q
      BY <1>12, <2>2
    <3>2. Fits(d, back(q), b, vs, I)
      BY <1>7, <1>8, <1>11, <3>1
    <3>3. U[q].dist = d.dist + 1 /\ U[q].print = d.print /\ U[q].at = d.at /\ d.dist \in Nat /\ d.dist >= 1
      BY <1>8, <1>9, <1>13, <2>2, <3>1, <3>2 DEF Fits
    <3>4. Place(KeyAt(vs, d.at), d.dist, b) = q
      <4>1. KeyAt(vs, d.at) \in Keys
        <5>1. d.at \in I
          BY <3>2 DEF Fits
        <5>. QED BY <5>1
      <4>2. d.dist - 1 \in Nat /\ (d.dist - 1) + 1 = d.dist
        BY <3>3
      <4>3. Place(KeyAt(vs, d.at), (d.dist - 1) + 1, b) = Turn(Place(KeyAt(vs, d.at), d.dist - 1, b), N[b])
        BY <4>1, <4>2, Walk
      <4>. QED BY <3>1, <3>2, <4>2, <4>3 DEF Fits, turn, n
    <3>5. U[q].dist - 1 = d.dist
      BY <3>3
    <3>. QED BY <3>2, <3>3, <3>4, <3>5 DEF Fits
  <2>3. CASE q # p /\ off(q) > off(z)
    <3>1. U[q] = bs[q]
      BY <1>13, <2>3
    <3>. QED BY <1>7, <3>1 DEF Fits
  <2>. QED BY <1>5, <1>12, <2>1, <2>2, <2>3
<1>18. ASSUME NEW x \in I \cup {ix} PROVE \E q \in Ring(b) : Alone(x, q, U, b)
  <2>0. \A q \in Ring(b) : /\ q = p => U[q].at = ix
                           /\ q # p /\ off(q) <= off(z) => U[q].at = bs[back(q)].at /\ back(q) \in Ring(b)
                           /\ q # p /\ off(q) > off(z) => U[q].at = bs[q].at
                           /\ bs[q].at # ix
    <3>1. \A q \in Ring(b) : bs[q].at = 0 \/ bs[q].at \in I
      BY <1>7, <1>8 DEF Fits
    <3>. QED BY <1>4, <1>9, <1>12, <1>13, <3>1
  <2>00. \A q \in Ring(b) : off(q) <= off(z) \/ off(q) > off(z)
    BY <1>12
  <2>1. CASE x = ix
    <3>1. ASSUME NEW q \in Ring(b), U[q].at = ix PROVE q = p
      BY <1>12, <2>0, <2>00, <3>1
    <3>. QED BY <1>5, <2>0, <2>1, <3>1 DEF Alone
  <2>2. CASE x # ix
    <3>1. PICK r \in Ring(b) : bs[r].at = x /\ \A q \in Ring(b) : bs[q].at = x => q = r
      BY <1>7, <2>2 DEF Alone
    <3>2. bs[r].dist # 0 /\ r # z
      BY <1>8, <1>11, <2>2, <3>1
    <3>3. off(r) # off(z)
      BY <1>12, <3>2
    <3>4. CASE off(r) < off(z)
      <4>1. turn(r) \in Ring(b) /\ turn(r) # p /\ off(turn(r)) <= off(z) /\ back(turn(r)) = r
        BY <1>5, <1>12, <3>4
      <4>2. U[turn(r)].at = x
        BY <2>0, <3>1, <4>1
      <4>3. ASSUME NEW q \in Ring(b), U[q].at = x PROVE q = turn(r)
        <5>1. q # p
          BY <2>0, <2>2, <4>3
        <5>2. CASE off(q) <= off(z)
          <6>1. back(q) = r
            BY <2>0, <3>1, <4>3, <5>1, <5>2
          <6>. QED BY <1>12, <6>1
        <5>3. CASE off(q) > off(z)
          <6>1. q = r
            BY <2>0, <3>1, <4>3, <5>1, <5>3
          <6>. QED BY <1>12, <3>4, <5>3, <6>1
        <5>. QED BY <2>00, <5>2, <5>3
      <4>. QED BY <4>1, <4>2, <4>3 DEF Alone
    <3>5. CASE off(r) > off(z)
      <4>1. r # p
        BY <1>12, <3>5
      <4>2. U[r].at = x
        BY <2>0, <3>1, <3>5, <4>1
      <4>3. ASSUME NEW q \in Ring(b), U[q].at = x PROVE q = r
        <5>1. q # p
          BY <2>0, <2>2, <4>3
        <5>2. CASE off(q) <= off(z)
          <6>1. back(q) = r
            BY <2>0, <3>1, <4>3, <5>1, <5>2
          <6>. QED BY <1>12, <3>5, <5>1, <5>2, <6>1
        <5>3. CASE off(q) > off(z)
          BY <2>0, <3>1, <4>3, <5>1, <5>3
        <5>. QED BY <2>00, <5>2, <5>3
      <4>. QED BY <4>2, <4>3 DEF Alone
    <3>. QED BY <1>12, <3>3, <3>4, <3>5
  <2>. QED BY <2>1, <2>2
<1>19. ASSUME NEW q \in Ring(b) PROVE Tight(U[q], U[turn(q)])
  <2>. DEFINE t == turn(q)
  <2>0. t \in Ring(b) /\ back(t) = q /\ back(q) \in Ring(b) /\ turn(back(q)) = q
    BY <1>12
  <2>1. CASE t = p
    <3>1. U[t] = c /\ q = back(p)
      BY <1>13, <2>0, <2>1
    <3>2. CASE c.dist > 1
      <4>1. off(q) = n - 1 /\ q # p
        BY <1>1, <1>12, <2>1
      <4>2. off(z) # n - 1
        <5>1. z # q
          BY <1>11, <1>14, <3>1, <3>2
        <5>. QED BY <1>12, <4>1, <5>1
      <4>3. off(q) > off(z)
        BY <1>1, <1>12, <4>1, <4>2
      <4>. QED BY <1>13, <1>14, <3>1, <3>2, <4>1, <4>3
    <3>3. CASE ~(c.dist > 1)
      BY <3>1, <3>3 DEF Tight
    <3>. QED BY <3>2, <3>3
  <2>2. CASE t # p /\ off(t) <= off(z)
    <3>0. U[t] = [bs[q] EXCEPT !.dist = @ + 1]
      BY <1>13, <2>0, <2>2
    <3>1. U[t].dist = bs[q].dist + 1 /\ U[t].print = bs[q].print
      BY <1>9, <3>0
    <3>2. CASE q = p
      <4>1. U[q] = c
        BY <1>13, <3>2
      <4>. QED BY <1>3, <1>4, <1>8, <1>15, <3>1, <3>2, <4>1 DEF Tight
    <3>3. CASE q # p
      <4>1. off(q) < off(z) /\ off(back(q)) < off(z) /\ off(q) <= off(z)
        BY <1>12, <2>0, <2>2, <3>3
      <4>2. U[q].dist = bs[back(q)].dist + 1 /\ U[q].print = bs[back(q)].print
        BY <1>9, <1>13, <2>0, <3>3, <4>1
      <4>3. bs[back(q)].dist # 0 /\ bs[back(q)].dist \in Nat /\ bs[q].dist \in Nat
        BY <1>8, <1>11, <2>0, <4>1
      <4>4. Tight(bs[back(q)], bs[q])
        BY <1>7, <2>0 DEF turn
      <4>. QED BY <1>8, <2>0, <3>1, <4>2, <4>3, <4>4 DEF Tight
    <3>. QED BY <3>2, <3>3
  <2>3. CASE t # p /\ off(t) > off(z)
    <3>1. U[t] = bs[t]
      BY <1>13, <2>0, <2>3
    <3>2. CASE q = z
      <4>1. bs[t].dist <= 1
        <5>1. Tight(bs[z], bs[t])
          BY <1>7, <3>2 DEF turn
        <5>. QED BY <1>8, <1>11, <2>0, <5>1 DEF Tight
      <4>. QED BY <1>8, <2>0, <3>1, <4>1 DEF Tight
    <3>3. CASE q # z
      <4>1. off(q) # off(z)
        BY <1>12, <3>3
      <4>2. off(q) > off(z) /\ q # p
        BY <1>5, <1>12, <2>3, <4>1
      <4>3. U[q] = bs[q]
        BY <1>13, <4>2
      <4>. QED BY <1>7, <3>1, <4>3 DEF turn
    <3>. QED BY <3>2, <3>3
  <2>4. off(t) <= off(z) \/ off(t) > off(z)
    BY <1>12, <2>0
  <2>. QED BY <2>1, <2>2, <2>3, <2>4
<1>. QED BY <1>16, <1>17, <1>18, <1>19 DEF Sound, U, turn, n

-----------------------------------------------------------------------------
(* Filling the buckets from the values.                                      *)

\* The buckets without a value.
LEMMA NoneSound ==
  ASSUME NEW b \in 1 .. MaxBits, NEW vs
  PROVE  Sound(NoBuckets(b), b, vs, {})
<1>1. NoBuckets(b) = [p \in Ring(b) |-> Empty]
  BY DEF NoBuckets, Ring
<1>2. Empty \in Bucket /\ Empty.dist = 0
  BY DEF Empty, Bucket
<1>3. \A p \in Ring(b) : Turn(p, N[b]) \in Ring(b)
  <2>1. b \in 0 .. MaxBits
    BY Powers
  <2>2. N[b] \in Nat /\ N[b] >= 1
    BY <2>1, Powers
  <2>. QED BY <2>2 DEF Ring, Turn
<1>4. Tight(Empty, Empty)
  BY <1>2 DEF Tight
<1>. QED BY <1>1, <1>2, <1>3, <1>4 DEF Sound

\* The buckets depend on the values by their keys alone.
LEMMA SameKeys ==
  ASSUME NEW b, NEW vs, NEW us, NEW I, NEW bs, Sound(bs, b, vs, I),
         \A ix \in I : KeyAt(us, ix) = KeyAt(vs, ix)
  PROVE  Sound(bs, b, us, I)
<1>1. \A p \in Ring(b) : Fits(bs[p], p, b, vs, I) => Fits(bs[p], p, b, us, I)
  BY DEF Fits
<1>. QED BY <1>1 DEF Sound

\* The recursive function in Filled is what its definition says.
LEMMA FillIs ==
  ASSUME NEW b, NEW vs, Len(vs) \in Nat
  PROVE  \E f : /\ f = [n \in 0 .. Len(vs) |-> IF n = 0 THEN NoBuckets(b) ELSE FillIn(f[n - 1], n, b, vs)]
                /\ Filled(b, vs) = f[Len(vs)]
<1>. DEFINE Fills(m, f) == f = [n \in 0 .. m |-> IF n = 0 THEN NoBuckets(b) ELSE FillIn(f[n - 1], n, b, vs)]
            top == Len(vs)
            Bad == {m \in 0 .. top : ~\E f : Fills(m, f)}
<1>1. ASSUME Bad # {} PROVE FALSE
  <2>1. Bad \in SUBSET Nat
    OBVIOUS
  <2>2. PICK m \in Bad : \A x \in Bad : m <= x
    BY <1>1, <2>1, LeastOf
  <2>. HIDE DEF Fills
  <2>3. m \in 0 .. top /\ ~\E f : Fills(m, f)
    OBVIOUS
  <2>4. m # 0
    <3>1. Fills(0, [n \in 0 .. 0 |-> NoBuckets(b)])
      BY DEF Fills
    <3>. QED BY <2>3, <3>1
  <2>5. m - 1 \in 0 .. top /\ m - 1 \notin Bad
    <3>1. m - 1 \in 0 .. top /\ ~(m <= m - 1)
      BY <2>3, <2>4
    <3>. QED BY <2>2, <3>1
  <2>6. PICK f : Fills(m - 1, f)
    BY <2>5
  <2>. DEFINE g == [n \in 0 .. m |-> IF n = m THEN FillIn(f[m - 1], m, b, vs) ELSE f[n]]
  <2>7. Fills(m, g)
    <3>1. ASSUME NEW n \in 0 .. m PROVE g[n] = IF n = 0 THEN NoBuckets(b) ELSE FillIn(g[n - 1], n, b, vs)
      <4>1. CASE n = m
        <5>1. g[n] = FillIn(f[m - 1], m, b, vs) /\ g[n - 1] = f[m - 1]
          BY <2>3, <2>4, <4>1
        <5>. QED BY <2>4, <4>1, <5>1
      <4>2. CASE n # m
        <5>1. n \in 0 .. m - 1 /\ g[n] = f[n]
          BY <2>3, <4>2
        <5>2. f[n] = IF n = 0 THEN NoBuckets(b) ELSE FillIn(f[n - 1], n, b, vs)
          BY <2>6, <5>1, Zenon DEF Fills
        <5>3. n # 0 => n - 1 \in 0 .. m /\ n - 1 # m
          BY <2>3, <5>1
        <5>4. n # 0 => g[n - 1] = f[n - 1]
          BY <5>3
        <5>. QED BY <5>1, <5>2, <5>4
      <4>. QED BY <4>1, <4>2
    <3>. QED BY <3>1 DEF Fills
  <2>. QED BY <2>3, <2>7
<1>2. \E f : Fills(top, f)
  BY <1>1
<1>3. PICK f : f = CHOOSE g : Fills(top, g)
  OBVIOUS
<1>4. Fills(top, f)
  BY <1>2, <1>3
<1>5. Filled(b, vs) = f[top]
  BY <1>3 DEF Filled
<1>. QED BY <1>4, <1>5

\* It inserts the values in turn: filled buckets are sound.
LEMMA FilledSound ==
  ASSUME HashOK, NEW b \in 1 .. MaxBits, NEW vs, Len(vs) \in Nat, Len(vs) < N[b],
         Distinct(vs, 1 .. Len(vs))
  PROVE  Sound(Filled(b, vs), b, vs, 1 .. Len(vs))
<1>1. PICK f : /\ f = [n \in 0 .. Len(vs) |-> IF n = 0 THEN NoBuckets(b) ELSE FillIn(f[n - 1], n, b, vs)]
               /\ Filled(b, vs) = f[Len(vs)]
  BY FillIs
<1>. DEFINE Bad == {n \in 0 .. Len(vs) : ~Sound(f[n], b, vs, 1 .. n)}
<1>2. f[0] = NoBuckets(b) /\ \A n \in 1 .. Len(vs) : f[n] = FillIn(f[n - 1], n, b, vs)
  <2>1. \A n \in 0 .. Len(vs) : f[n] = IF n = 0 THEN NoBuckets(b) ELSE FillIn(f[n - 1], n, b, vs)
    BY <1>1, Zenon
  <2>. QED BY <2>1
<1>3. ASSUME NEW n \in 1 .. Len(vs), Sound(f[n - 1], b, vs, 1 .. n - 1)
      PROVE  Sound(f[n], b, vs, 1 .. n)
  <2>. DEFINE bs == f[n - 1]
              k == KeyAt(vs, n)
              j == NextWhileLess(k, bs, b)
              I == 1 .. n - 1
  <2>1. k \in Keys /\ \A x \in I : x \in Nat \ {0} /\ KeyAt(vs, x) \in Keys
    BY DEF Distinct
  <2>2. n - 1 \in Nat /\ n - 1 < N[b] /\ n \in Nat \ {0} /\ n \notin I /\ b \in 0 .. MaxBits /\ I \cup {n} = 1 .. n
    BY Powers
  <2>3. Sound(bs, b, vs, I)
    BY <1>3
  <2>. HIDE DEF bs, k, j, I
  <2>4. I \subseteq 1 .. n - 1
    BY DEF I
  <2>5. \E p \in Ring(b) : bs[p] = Empty
    BY <2>2, <2>3, <2>4, SomeEmpty
  <2>6. /\ j \in 0 .. Far /\ ~Less(Word(k, j), bs[Place(k, j, b)])
        /\ \A ix \in 0 .. j - 1 : Less(Word(k, ix), bs[Place(k, ix, b)])
    BY <2>1, <2>3, <2>5, NextWhileLessIs DEF j
  <2>7. j \in Nat
    BY <2>6, Powers
  <2>8. ASSUME j > 0 PROVE ~Poorer(k, j - 1, bs, b)
    <3>1. PICK l \in Nat : l = j - 1
      BY <2>7, <2>8
    <3>2. Less(Word(k, l), bs[Place(k, l, b)])
      BY <2>6, <2>7, <3>1
    <3>3. ~Poorer(k, l, bs, b)
      <4>1. bs \in [Ring(b) -> Bucket]
        BY <2>3 DEF Sound
      <4>. QED BY <2>1, <3>2, <4>1, WordsSeen
    <3>. QED BY <3>1, <3>3
  <2>9. Sound(IndexAt(k, j, n, bs, b), b, vs, I \cup {n})
    <3>1. KeyAt(vs, n) = k
      BY DEF k
    <3>. QED BY <2>1, <2>2, <2>3, <2>5, <2>6, <2>7, <2>8, <3>1, Inserted
  <2>10. f[n] = IndexAt(k, j, n, bs, b)
    BY <1>2 DEF FillIn, k, j, bs
  <2>. QED BY <2>2, <2>9, <2>10
<1>4. ASSUME Bad # {} PROVE FALSE
  <2>1. Bad \in SUBSET Nat
    OBVIOUS
  <2>2. PICK m \in Bad : \A x \in Bad : m <= x
    BY <1>4, <2>1, LeastOf
  <2>3. m # 0
    <3>1. 1 .. 0 = {}
      OBVIOUS
    <3>. QED BY <1>2, <3>1, NoneSound
  <2>4. m \in 1 .. Len(vs) /\ m - 1 \in 0 .. Len(vs) /\ ~(m <= m - 1)
    BY <2>3
  <2>5. Sound(f[m - 1], b, vs, 1 .. m - 1)
    BY <2>2, <2>4
  <2>. QED BY <1>3, <2>4, <2>5
<1>5. Sound(f[Len(vs)], b, vs, 1 .. Len(vs))
  BY <1>4
<1>. QED BY <1>1, <1>5

-----------------------------------------------------------------------------
(* Erasing a bucket and shifting the ones behind it back.                    *)

\* The buckets behind p up to r, each away from its home, move back by one.
LastMoved(r, p, bs, b) ==
  /\ r \in Ring(b) /\ bs[Turn(r, N[b])].dist < 2 /\ Turn(r, N[b]) # p
  /\ \A q \in Ring(b) : Off(p, q, N[b]) < Off(p, r, N[b]) => bs[Turn(q, N[b])].dist >= 2
Lowered(p, r, bs, b) ==
  [q \in Ring(b) |-> IF q = r THEN Empty
                     ELSE IF Off(p, q, N[b]) < Off(p, r, N[b])
                          THEN [bs[Turn(q, N[b])] EXCEPT !.dist = @ - 1] ELSE bs[q]]

\* do_erase moves the buckets back up to the first that is at home or empty.
LEMMA ShiftDownIs ==
  ASSUME NEW p \in Ring(bits), bits \in 1 .. MaxBits, buckets \in [Ring(bits) -> Bucket],
         buckets[p].dist # 0, \E q \in Ring(bits) : buckets[q].dist = 0
  PROVE  \E r \in Ring(bits) : LastMoved(r, p, buckets, bits) /\ ShiftDown(p) = Lowered(p, r, buckets, bits)
<1>. DEFINE n == N[bits]
            bs == buckets
            At(j) == (p + j) % n
            S == {j \in 1 .. Far : bs[At(j)].dist < 2}
            Is(j) == bs[At(j)].dist < 2 /\ \A d \in 1 .. j - 1 : ~(bs[At(d)].dist < 2)
            run == FirstFrom(1, LAMBDA j : buckets[(p + j) % N[bits]].dist < 2)
            last == (p + run - 1) % n
            moving == {At(j) : j \in 0 .. run - 2}
            next(q) == bs[(q + 1) % n]
<1>1. n \in Nat /\ n >= 1 /\ n <= Far /\ Far \in Nat
  <2>1. bits \in 0 .. MaxBits /\ MaxBits \in 0 .. MaxBits
    BY Powers
  <2>2. N[bits] \in Nat /\ N[bits] >= 1 /\ N[bits] <= N[MaxBits] /\ N[MaxBits] \in Nat
    BY <2>1, Powers
  <2>. QED BY <2>2 DEF Far
<1>2. Ring(bits) = 0 .. n - 1
  BY DEF Ring
<1>3. /\ \A q \in Ring(bits) : Off(p, q, n) \in 0 .. n - 1 /\ At(Off(p, q, n)) = q
      /\ \A j \in 0 .. n - 1 : At(j) \in Ring(bits) /\ Off(p, At(j), n) = j
  <2>1. n \in Nat /\ n >= 1 /\ p \in 0 .. n - 1
    BY <1>1, <1>2
  <2>. HIDE DEF n
  <2>2. /\ \A q \in 0 .. n - 1 : Off(p, q, n) \in 0 .. n - 1 /\ (p + Off(p, q, n)) % n = q
        /\ \A j \in 0 .. n - 1 : (p + j) % n \in 0 .. n - 1 /\ Off(p, (p + j) % n, n) = j
    BY <2>1, Circle
  <2>. QED BY <1>2, <2>2
<1>4. \A q \in Ring(bits) : (q + 1) % n = Turn(q, n)
  BY <1>1, <1>2, Circle
<1>5. PICK e \in Ring(bits) : bs[e].dist = 0
  OBVIOUS
<1>6. ShiftDown(p) = [q \in DOMAIN bs |-> IF q = last THEN Empty
                                          ELSE IF q \in moving THEN [next(q) EXCEPT !.dist = @ - 1]
                                          ELSE bs[q]]
  BY DEF ShiftDown
<1>7. run = CHOOSE j \in 1 .. Far : Is(j)
  BY DEF FirstFrom
<1>. HIDE DEF n, run
<1>0. Off(p, e, n) # 0
  <2>1. At(0) = p
    <3>1. Off(p, p, n) = 0
      BY <1>2 DEF Off
    <3>. QED BY <1>3, <3>1
  <2>. QED BY <1>3, <1>5, <2>1
<1>8. Off(p, e, n) \in S /\ S \in SUBSET Nat
  BY <1>0, <1>1, <1>3, <1>5
<1>9. PICK i0 \in S : \A ix \in S : i0 <= ix
  BY <1>8, LeastOf
<1>10. Is(i0) /\ i0 \in 1 .. Far
  <2>1. \A d \in 1 .. i0 - 1 : d \in 1 .. Far /\ ~(i0 <= d)
    BY <1>1
  <2>. QED BY <1>9, <2>1
<1>11. run \in 1 .. Far /\ Is(run)
  <2>. HIDE DEF Is
  <2>. QED BY <1>7, <1>10
<1>12. run \in 1 .. n - 1
  <2>1. ~(Off(p, e, n) \in 1 .. run - 1)
    BY <1>3, <1>5, <1>11
  <2>. QED BY <1>0, <1>1, <1>3, <1>11, <2>1
<1>. DEFINE l == run - 1
            r == At(l)
<1>l. l \in 0 .. n - 2 /\ l + 1 = run /\ l \in 0 .. n - 1
  BY <1>1, <1>12
<1>13. r = last
  <2>1. p + run - 1 = p + l
    BY <1>2, <1>12
  <2>. QED BY <2>1
<1>14. r \in Ring(bits) /\ Off(p, r, n) = l
  BY <1>3, <1>l
<1>. HIDE DEF r, l, last
\* The bucket behind the one at offset j is the one at offset j + 1.
<1>15. \A j \in 0 .. n - 2 : Turn(At(j), n) = At(j + 1)
  <2>1. ASSUME NEW j \in 0 .. n - 2 PROVE Turn(At(j), n) = At(j + 1)
    <3>1. p + j \in Nat /\ (p + j) + 1 = p + (j + 1)
      BY <1>1, <1>2
    <3>2. (p + j + 1) % n = Turn((p + j) % n, n)
      BY <1>1, <3>1, Remainders
    <3>. QED BY <3>1, <3>2
  <2>. QED BY <2>1
<1>16. Turn(r, n) = At(run) /\ Turn(r, n) # p
  <2>1. Turn(r, n) = At(run)
    BY <1>15, <1>l DEF r
  <2>2. Off(p, p, n) = 0
    BY <1>2 DEF Off
  <2>3. Off(p, At(run), n) = run
    BY <1>1, <1>3, <1>12
  <2>. QED BY <1>12, <2>1, <2>2, <2>3
<1>17. bs[Turn(r, n)].dist < 2
  BY <1>11, <1>16
<1>18. ASSUME NEW q \in Ring(bits), Off(p, q, n) < l
       PROVE  bs[Turn(q, n)].dist >= 2
  <2>0. PICK j \in 0 .. n - 1 : j = Off(p, q, n) /\ q = At(j)
    BY <1>3
  <2>1. j \in 0 .. n - 2 /\ j + 1 \in 1 .. run - 1 /\ q = At(j) /\ j + 1 \in 0 .. n - 1
    <3>1. j < l
      BY <1>18, <2>0
    <3>. HIDE DEF At
    <3>. QED BY <1>l, <1>1, <1>12, <2>0, <3>1
  <2>2. Turn(q, n) = At(j + 1)
    BY <1>15, <2>1
  <2>3. ~(bs[At(j + 1)].dist < 2)
    BY <1>11, <2>1
  <2>4. bs[At(j + 1)].dist \in Nat
    BY <1>3, <2>1 DEF Bucket
  <2>. QED BY <2>2, <2>3, <2>4
<1>19. \A q \in Ring(bits) : q \in moving <=> Off(p, q, n) < l
  <2>1. ASSUME NEW q \in Ring(bits), q \in moving PROVE Off(p, q, n) < l
    <3>1. PICK j \in 0 .. run - 2 : q = At(j)
      BY <2>1
    <3>2. j \in 0 .. n - 1 /\ j < l /\ j \in Int
      BY <1>l, <1>12, <1>1
    <3>. QED BY <1>3, <3>1, <3>2
  <2>2. ASSUME NEW q \in Ring(bits), Off(p, q, n) < l PROVE q \in moving
    <3>1. Off(p, q, n) \in 0 .. run - 2 /\ q = At(Off(p, q, n))
      BY <1>3, <1>l, <1>12, <2>2
    <3>. QED BY <3>1
  <2>. QED BY <2>1, <2>2
<1>20. ShiftDown(p) =
         [q \in Ring(bits) |-> IF q = r THEN Empty
                               ELSE IF Off(p, q, n) < Off(p, r, n)
                                    THEN [bs[Turn(q, n)] EXCEPT !.dist = @ - 1] ELSE bs[q]]
  <2>1. ASSUME NEW q \in Ring(bits)
        PROVE  (IF q \in moving THEN [next(q) EXCEPT !.dist = @ - 1] ELSE bs[q]) =
               IF q \in moving THEN [bs[Turn(q, n)] EXCEPT !.dist = @ - 1] ELSE bs[q]
    BY <1>4
  <2>2. DOMAIN bs = Ring(bits)
    OBVIOUS
  <2>. HIDE DEF next, moving
  <2>. QED BY <1>6, <1>13, <1>14, <1>19, <2>1, <2>2
<1>21. LastMoved(r, p, bs, bits)
  BY <1>14, <1>16, <1>17, <1>18 DEF LastMoved, n
<1>22. ShiftDown(p) = Lowered(p, r, bs, bits)
  BY <1>20 DEF Lowered, n
<1>. QED BY <1>14, <1>21, <1>22

\* A bucket behind its home is one step nearer to it when it moves back.
LEMMA FieldsDown ==
  ASSUME NEW c \in Bucket, c.dist >= 1
  PROVE  /\ [c EXCEPT !.dist = @ - 1] \in Bucket
         /\ [c EXCEPT !.dist = @ - 1].dist = c.dist - 1
         /\ [c EXCEPT !.dist = @ - 1].print = c.print /\ [c EXCEPT !.dist = @ - 1].at = c.at
BY DEF Bucket

\* Without the bucket at p, which was that of ix, the index of the other values is sound.
LEMMA Removed ==
  ASSUME HashOK, NEW b \in 1 .. MaxBits, NEW vs, NEW I, NEW bs, Sound(bs, b, vs, I),
         \A x \in I : x \in Nat \ {0} /\ KeyAt(vs, x) \in Keys,
         NEW ix \in I, NEW p \in Ring(b), Alone(ix, p, bs, b),
         NEW r \in Ring(b), LastMoved(r, p, bs, b)
  PROVE  Sound(Lowered(p, r, bs, b), b, vs, I \ {ix})
<1>. DEFINE n == N[b]
            D == Lowered(p, r, bs, b)
            off(q) == Off(p, q, n)
            turn(q) == Turn(q, n)
            back(q) == Back(q, n)
<1>1. n \in Nat /\ n >= 1
  <2>1. b \in 0 .. MaxBits
    BY Powers
  <2>. QED BY <2>1, Powers
<1>2. Ring(b) = 0 .. n - 1
  BY DEF Ring
<1>7. /\ bs \in [Ring(b) -> Bucket]
      /\ \A q \in Ring(b) : bs[q] = Empty \/ Fits(bs[q], q, b, vs, I)
      /\ \A x \in I : \E q \in Ring(b) : Alone(x, q, bs, b)
      /\ \A q \in Ring(b) : Tight(bs[q], bs[turn(q)])
  BY DEF Sound
<1>3. Empty \in Bucket /\ Empty.dist = 0 /\ Empty.at = 0
  BY DEF Empty, Bucket
<1>8. \A q \in Ring(b) : /\ bs[q].dist \in Nat /\ bs[q].print \in Nat /\ bs[q].at \in Nat
                         /\ bs[q].dist = 0 <=> bs[q] = Empty
                         /\ bs[q] = Empty => bs[q].at = 0
  <2>1. ASSUME NEW q \in Ring(b) PROVE bs[q].dist \in Nat /\ bs[q].print \in Nat /\ bs[q].at \in Nat
    BY <1>7 DEF Bucket
  <2>. QED BY <1>3, <1>7, <2>1 DEF Fits
<1>9. \A q \in Ring(b) :
        LET e == [bs[q] EXCEPT !.dist = @ - 1]
        IN  bs[q].dist >= 1 => e \in Bucket /\ e.dist = bs[q].dist - 1 /\ e.print = bs[q].print /\ e.at = bs[q].at
  BY <1>7, FieldsDown
<1>11. /\ bs[turn(r)].dist < 2 /\ turn(r) # p
       /\ \A q \in Ring(b) : off(q) < off(r) => bs[turn(q)].dist >= 2
       /\ D = [q \in Ring(b) |-> IF q = r THEN Empty ELSE IF off(q) < off(r)
                                 THEN [bs[turn(q)] EXCEPT !.dist = @ - 1] ELSE bs[q]]
  BY Zenon DEF LastMoved, Lowered
<1>12. \A q \in Ring(b) :
         /\ turn(q) \in Ring(b) /\ back(q) \in Ring(b)
         /\ turn(back(q)) = q /\ back(turn(q)) = q
         /\ off(p) = 0 /\ (off(q) = 0 => q = p) /\ off(q) \in 0 .. n - 1
         /\ q # p => off(back(q)) = off(q) - 1
         /\ turn(q) # p => off(turn(q)) = off(q) + 1
         /\ turn(q) = p => off(q) = n - 1
         /\ \A s \in Ring(b) : off(q) = off(s) => q = s
  <2>1. p \in 0 .. n - 1
    BY <1>2
  <2>2. ASSUME NEW q \in 0 .. n - 1
        PROVE  /\ turn(q) \in 0 .. n - 1 /\ back(q) \in 0 .. n - 1
               /\ turn(back(q)) = q /\ back(turn(q)) = q
               /\ off(p) = 0 /\ (off(q) = 0 => q = p) /\ off(q) \in 0 .. n - 1
               /\ q # p => off(back(q)) = off(q) - 1
               /\ turn(q) # p => off(turn(q)) = off(q) + 1
               /\ turn(q) = p => off(q) = n - 1
               /\ \A s \in 0 .. n - 1 : off(q) = off(s) => q = s
    <3>1. n \in Nat /\ n >= 1 /\ p \in 0 .. n - 1 /\ q \in 0 .. n - 1
      BY <1>1, <2>1
    <3>. HIDE DEF n
    <3>2. /\ Turn(q, n) \in 0 .. n - 1 /\ Back(q, n) \in 0 .. n - 1
          /\ Turn(Back(q, n), n) = q /\ Back(Turn(q, n), n) = q
          /\ Off(p, p, n) = 0 /\ (Off(p, q, n) = 0 => q = p) /\ Off(p, q, n) \in 0 .. n - 1
          /\ q # p => Off(p, Back(q, n), n) = Off(p, q, n) - 1
          /\ Turn(q, n) # p => Off(p, Turn(q, n), n) = Off(p, q, n) + 1
          /\ Turn(q, n) = p => Off(p, q, n) = n - 1
          /\ \A s \in 0 .. n - 1 : Off(p, q, n) = Off(p, s, n) => q = s
      BY <3>1 DEF Turn, Back, Off
    <3>. QED BY <3>2
  <2>. HIDE DEF n, off, turn, back
  <2>. QED BY <1>2, <2>2
<1>13. \A q \in Ring(b) : /\ q = r => D[q] = Empty
                          /\ off(q) < off(r) => D[q] = [bs[turn(q)] EXCEPT !.dist = @ - 1]
                          /\ off(q) > off(r) => D[q] = bs[q]
  <2>1. \A q \in Ring(b) : /\ off(q) > off(r) => ~(off(q) < off(r)) /\ q # r
                           /\ off(q) < off(r) => q # r
    <3>1. \A q \in Ring(b) : off(q) \in Nat
      BY <1>12
    <3>. QED BY <3>1
  <2>. HIDE DEF D, off
  <2>. QED BY <1>11, <2>1
<1>14. off(r) < n - 1
  <2>1. off(r) # n - 1
    BY <1>11, <1>12
  <2>. HIDE DEF n
  <2>. QED BY <1>12, <2>1, <1>1
<1>. HIDE DEF n, D, off, turn, back
<1>15. \A q \in Ring(b) : off(q) < off(r) \/ q = r \/ off(q) > off(r)
  BY <1>12
\* Where the buckets come from.
<1>16. \A q \in Ring(b) : off(q) < off(r) =>
         /\ turn(q) \in Ring(b) /\ turn(q) # p /\ off(turn(q)) = off(q) + 1
         /\ bs[turn(q)].dist >= 2 /\ D[q] \in Bucket
         /\ D[q].dist = bs[turn(q)].dist - 1 /\ D[q].print = bs[turn(q)].print /\ D[q].at = bs[turn(q)].at
  <2>1. ASSUME NEW q \in Ring(b), off(q) < off(r)
        PROVE  /\ turn(q) \in Ring(b) /\ turn(q) # p /\ off(turn(q)) = off(q) + 1
               /\ bs[turn(q)].dist >= 2 /\ D[q] \in Bucket
               /\ D[q].dist = bs[turn(q)].dist - 1 /\ D[q].print = bs[turn(q)].print /\ D[q].at = bs[turn(q)].at
    <3>1. turn(q) \in Ring(b) /\ bs[turn(q)].dist >= 2 /\ bs[turn(q)].dist >= 1
      BY <1>8, <1>11, <1>12, <2>1
    <3>2. turn(q) # p /\ off(turn(q)) = off(q) + 1
      BY <1>1, <1>12, <1>14, <2>1
    <3>3. D[q] = [bs[turn(q)] EXCEPT !.dist = @ - 1]
      BY <1>13, <2>1
    <3>. QED BY <1>9, <3>1, <3>2, <3>3
  <2>. QED BY <2>1
\* Its parts.
<1>17. D \in [Ring(b) -> Bucket]
  <2>1. ASSUME NEW q \in Ring(b) PROVE D[q] \in Bucket
    BY <1>3, <1>7, <1>13, <1>15, <1>16
  <2>2. D = [q \in Ring(b) |-> D[q]]
    BY <1>11
  <2>. QED BY <2>1, <2>2
<1>18. \A q \in Ring(b) : q # p => bs[q].at # ix
  BY DEF Alone
<1>19. ASSUME NEW q \in Ring(b) PROVE D[q] = Empty \/ Fits(D[q], q, b, vs, I \ {ix})
  <2>1. CASE off(q) < off(r)
    <3>. DEFINE d == bs[turn(q)]
    <3>1. turn(q) \in Ring(b) /\ turn(q) # p /\ d.dist >= 2 /\ d.dist \in Nat
      BY <1>8, <1>16, <2>1
    <3>2. Fits(d, turn(q), b, vs, I)
      BY <1>3, <1>7, <3>1
    <3>3. D[q].dist = d.dist - 1 /\ D[q].print = d.print /\ D[q].at = d.at
      BY <1>16, <2>1
    <3>4. Place(KeyAt(vs, d.at), d.dist - 2, b) = q
      <4>1. KeyAt(vs, d.at) \in Keys
        <5>1. d.at \in I
          BY <3>2 DEF Fits
        <5>. QED BY <5>1
      <4>2. PICK l \in Nat : l = d.dist - 2 /\ l + 1 = d.dist - 1
        BY <3>1
      <4>3. Place(KeyAt(vs, d.at), l + 1, b) = Turn(Place(KeyAt(vs, d.at), l, b), n) /\ Place(KeyAt(vs, d.at), l, b) \in Ring(b)
        BY <4>1, Walk DEF n
      <4>4. Place(KeyAt(vs, d.at), d.dist - 1, b) = turn(q)
        BY <3>2 DEF Fits
      <4>5. turn(Place(KeyAt(vs, d.at), l, b)) = turn(q)
        BY <4>2, <4>3, <4>4 DEF turn
      <4>. QED BY <1>12, <4>2, <4>3, <4>5
    <3>5. D[q].dist - 1 = d.dist - 2 /\ D[q].dist >= 1
      BY <3>1, <3>3
    <3>6. D[q].at \in I \ {ix}
      BY <1>18, <3>1, <3>2, <3>3 DEF Fits
    <3>. QED BY <3>2, <3>3, <3>4, <3>5, <3>6 DEF Fits
  <2>2. CASE q = r
    BY <1>13, <2>2
  <2>3. CASE off(q) > off(r)
    <3>0. q # p
      <4>1. off(p) = 0 /\ off(r) \in Nat
        BY <1>12
      <4>. QED BY <2>3, <4>1
    <3>1. D[q] = bs[q] /\ q # p
      BY <1>13, <2>3, <3>0
    <3>2. bs[q].at # ix
      BY <1>18, <3>1
    <3>. QED BY <1>7, <3>1, <3>2 DEF Fits
  <2>. QED BY <1>15, <2>1, <2>2, <2>3
<1>20. ASSUME NEW x \in I \ {ix} PROVE \E q \in Ring(b) : Alone(x, q, D, b)
  <2>0. \A q \in Ring(b) : /\ off(q) < off(r) => D[q].at = bs[turn(q)].at
                           /\ q = r => D[q].at = 0
                           /\ off(q) > off(r) => D[q].at = bs[q].at
    BY <1>3, <1>13, <1>16
  <2>1. PICK s \in Ring(b) : bs[s].at = x /\ \A q \in Ring(b) : bs[q].at = x => q = s
    BY <1>7 DEF Alone
  <2>2. s # p /\ x # 0
    BY <2>1 DEF Alone
  <2>3. CASE off(s) <= off(r)
    <3>1. back(s) \in Ring(b) /\ off(back(s)) < off(r) /\ turn(back(s)) = s
      BY <1>12, <2>2, <2>3
    <3>2. D[back(s)].at = x
      BY <2>0, <2>1, <3>1
    <3>3. ASSUME NEW q \in Ring(b), D[q].at = x PROVE q = back(s)
      <4>1. CASE off(q) < off(r)
        <5>1. turn(q) \in Ring(b) /\ back(turn(q)) = q
          BY <1>12
        <5>2. bs[turn(q)].at = x
          BY <2>0, <3>3, <4>1
        <5>. QED BY <2>1, <5>1, <5>2
      <4>2. CASE q = r
        BY <2>0, <2>2, <3>3, <4>2
      <4>3. CASE off(q) > off(r)
        <5>1. q = s
          BY <2>0, <2>1, <3>3, <4>3
        <5>. QED BY <1>12, <2>3, <4>3, <5>1
      <4>. QED BY <1>15, <4>1, <4>2, <4>3
    <3>. QED BY <3>1, <3>2, <3>3 DEF Alone
  <2>4. CASE off(s) > off(r)
    <3>1. D[s].at = x
      BY <2>0, <2>1, <2>4
    <3>2. ASSUME NEW q \in Ring(b), D[q].at = x PROVE q = s
      <4>1. CASE off(q) < off(r)
        <5>1. turn(q) = s /\ off(turn(q)) = off(q) + 1
          BY <1>16, <2>0, <2>1, <3>2, <4>1
        <5>. QED BY <1>12, <2>4, <4>1, <5>1
      <4>2. CASE q = r
        BY <2>0, <2>2, <3>2, <4>2
      <4>3. CASE off(q) > off(r)
        BY <2>0, <2>1, <3>2, <4>3
      <4>. QED BY <1>15, <4>1, <4>2, <4>3
    <3>. QED BY <3>1, <3>2 DEF Alone
  <2>. QED BY <1>12, <2>3, <2>4
<1>21. ASSUME NEW q \in Ring(b) PROVE Tight(D[q], D[turn(q)])
  <2>. DEFINE t == turn(q)
  <2>0. t \in Ring(b) /\ back(t) = q /\ turn(t) \in Ring(b)
    BY <1>12
  <2>1. CASE t = r
    <3>1. D[t] = Empty
      BY <1>13, <2>0, <2>1
    <3>. QED BY <1>3, <3>1 DEF Tight
  <2>2. CASE off(t) < off(r)
    <3>1. /\ bs[turn(t)].dist >= 2 /\ bs[turn(t)].dist \in Nat /\ bs[turn(t)].print \in Nat
          /\ D[t].dist = bs[turn(t)].dist - 1 /\ D[t].print = bs[turn(t)].print
          /\ bs[t].dist \in Nat /\ bs[t].print \in Nat /\ bs[q].dist \in Nat /\ bs[q].print \in Nat
          /\ Tight(bs[t], bs[turn(t)]) /\ Tight(bs[q], bs[t])
      BY <1>7, <1>8, <1>16, <2>0, <2>2
    <3>2. CASE t = p
      <4>1. off(q) > off(r)
        BY <1>1, <1>12, <1>14, <3>2
      <4>2. D[q] = bs[q]
        BY <1>13, <4>1
      <4>. QED BY <3>1, <4>2 DEF Tight
    <3>3. CASE t # p
      <4>1. off(q) < off(r)
        BY <1>12, <2>0, <2>2, <3>3
      <4>2. D[q].dist = bs[t].dist - 1 /\ D[q].print = bs[t].print
        BY <1>16, <4>1
      <4>. QED BY <3>1, <4>2 DEF Tight
    <3>. QED BY <3>2, <3>3
  <2>3. CASE off(t) > off(r)
    <3>1. D[t] = bs[t]
      BY <1>13, <2>0, <2>3
    <3>2. CASE q = r
      <4>1. bs[t].dist < 2 /\ bs[t].dist \in Nat
        BY <1>8, <1>11, <2>0, <3>2
      <4>. QED BY <3>1, <4>1 DEF Tight
    <3>3. CASE q # r
      <4>1. t # p
        BY <1>12, <2>3
      <4>2. off(t) = off(q) + 1 /\ off(q) # off(r)
        BY <1>12, <3>3, <4>1
      <4>3. off(q) > off(r)
        BY <1>12, <2>3, <4>2
      <4>4. D[q] = bs[q]
        BY <1>13, <4>3
      <4>. QED BY <1>7, <3>1, <4>4
    <3>. QED BY <3>2, <3>3
  <2>. QED BY <1>15, <2>0, <2>1, <2>2, <2>3
<1>. QED BY <1>17, <1>19, <1>20, <1>21 DEF Sound, D, turn, n

\* The values after an erasure: the last one takes the place of the erased one.
Shorter(vs, ix) == SubSeq([vs EXCEPT ![ix] = vs[Len(vs)]], 1, Len(vs) - 1)

\* The values that are left: all but the erased one, the last one in its place.
LEMMA ShorterIs ==
  ASSUME NEW S, NEW vs \in Seq(S), NEW ix \in 1 .. Len(vs)
  PROVE  /\ Shorter(vs, ix) \in Seq(S) /\ Len(Shorter(vs, ix)) = Len(vs) - 1
         /\ \A x \in 1 .. Len(vs) - 1 : Shorter(vs, ix)[x] = IF x = ix THEN vs[Len(vs)] ELSE vs[x]
<1>. DEFINE us == [vs EXCEPT ![ix] = vs[Len(vs)]]
<1>1. Len(vs) \in Nat /\ DOMAIN vs = 1 .. Len(vs) /\ \A x \in 1 .. Len(vs) : vs[x] \in S
  OBVIOUS
<1>2. us \in [1 .. Len(vs) -> S]
  BY <1>1
<1>3. us \in Seq(S) /\ Len(us) = Len(vs)
  BY <1>1, <1>2
<1>4. \A x \in 1 .. Len(vs) : us[x] = IF x = ix THEN vs[Len(vs)] ELSE vs[x]
  BY <1>1
<1>. HIDE DEF us
<1>5. SubSeq(us, 1, Len(vs) - 1) \in Seq(S) /\ Len(SubSeq(us, 1, Len(vs) - 1)) = Len(vs) - 1
  BY <1>1, <1>3
<1>6. \A x \in 1 .. Len(vs) - 1 : SubSeq(us, 1, Len(vs) - 1)[x] = us[x]
  BY <1>1, <1>3
<1>. QED BY <1>1, <1>4, <1>5, <1>6 DEF us, Shorter

\* Its bucket then holds that place.
LEMMA MovedSound ==
  ASSUME HashOK, bits \in 1 .. MaxBits, values \in Seq(Keys \X Vals),
         Distinct(values, 1 .. Len(values)), NEW ix \in 1 .. Len(values),
         NEW bs, Sound(bs, bits, values, (1 .. Len(values)) \ {ix})
  PROVE  Sound(Moved(bs, ix), bits, Shorter(values, ix), 1 .. Len(values) - 1)
<1>. DEFINE last == Len(values)
            I == (1 .. last) \ {ix}
            us == Shorter(values, ix)
            k == KeyAt(values, last)
<1>1. last \in Nat /\ last >= 1 /\ last \in 1 .. last
  OBVIOUS
<1>2. \A x \in 1 .. last - 1 : us[x] = IF x = ix THEN values[last] ELSE values[x]
  BY ShorterIs
<1>3. \A x \in 1 .. last - 1 : KeyAt(us, x) = IF x = ix THEN k ELSE KeyAt(values, x)
  BY <1>2 DEF KeyAt
<1>4. k \in Keys
  BY <1>1 DEF Distinct
<1>. HIDE DEF us, k
<1>5. CASE ix = last
  <2>1. I = 1 .. last - 1
    BY <1>1, <1>5
  <2>2. Moved(bs, ix) = bs
    BY <1>5 DEF Moved
  <2>3. \A x \in I : KeyAt(us, x) = KeyAt(values, x)
    BY <1>3, <2>1
  <2>4. Sound(bs, bits, us, I)
    BY <2>3, SameKeys
  <2>. QED BY <2>1, <2>2, <2>4 DEF us
<1>6. CASE ix # last
  <2>1. last \in I /\ last # 0 /\ ix \in 1 .. last - 1
    BY <1>1, <1>6
  <2>2. /\ bs \in [Ring(bits) -> Bucket]
        /\ \A p \in Ring(bits) : bs[p] = Empty \/ Fits(bs[p], p, bits, values, I)
        /\ \A x \in I : \E p \in Ring(bits) : Alone(x, p, bs, bits)
        /\ \A p \in Ring(bits) : Tight(bs[p], bs[Turn(p, N[bits])])
    BY DEF Sound
  <2>3. PICK s \in Ring(bits) : bs[s].at = last /\ \A q \in Ring(bits) : bs[q].at = last => q = s
    BY <2>1, <2>2 DEF Alone
  <2>. DEFINE Is(d) == bs[Place(k, d, bits)].at = last
              S == {d \in 0 .. Far : Is(d)}
              Is1(d) == Is(d) /\ \A e \in 0 .. d - 1 : ~Is(e)
              j == FirstFrom(0, LAMBDA d : bs[Place(k, d, bits)].at = last)
  <2>4. Far \in Nat
    BY Powers
  <2>5. S # {} /\ S \in SUBSET Nat
    <3>1. PICK d \in 2 .. Far : Place(k, d, bits) = s
      BY <1>4, Walk
    <3>2. d \in 0 .. Far /\ Is(d)
      BY <2>3, <2>4, <3>1
    <3>. QED BY <3>2
  <2>6. PICK d0 \in S : \A d \in S : d0 <= d
    BY <2>5, LeastOf
  <2>7. Is1(d0) /\ d0 \in 0 .. Far
    <3>1. \A d \in 0 .. d0 - 1 : d \in 0 .. Far /\ ~(d0 <= d)
      BY <2>4
    <3>. QED BY <2>6, <3>1
  <2>8. j = CHOOSE d \in 0 .. Far : Is1(d)
    BY DEF FirstFrom
  <2>9. Moved(bs, ix) = [bs EXCEPT ![Place(k, j, bits)].at = ix]
    BY <1>6 DEF Moved, k
  <2>. HIDE DEF Is1, j
  <2>10. j \in 0 .. Far /\ Is1(j)
    BY <2>7, <2>8
  <2>11. Place(k, j, bits) = s
    <3>1. j \in Nat
      BY <2>4, <2>10
    <3>2. Place(k, j, bits) \in Ring(bits)
      BY <1>4, <3>1, Walk
    <3>. QED BY <2>3, <2>10, <3>2 DEF Is1
  <2>. DEFINE E == Moved(bs, ix)
  <2>12. bs[s] \in Bucket
    BY <2>2
  <2>13. E = [q \in Ring(bits) |-> IF q = s THEN [bs[s] EXCEPT !.at = ix] ELSE bs[q]]
    BY <2>2, <2>9, <2>11
  <2>14. LET c == [bs[s] EXCEPT !.at = ix]
         IN  c \in Bucket /\ c.dist = bs[s].dist /\ c.print = bs[s].print /\ c.at = ix
    BY <2>12 DEF Bucket
  <2>15. \A q \in Ring(bits) :
           /\ E[q] \in Bucket /\ E[q].dist = bs[q].dist /\ E[q].print = bs[q].print
           /\ E[q].at = IF q = s THEN ix ELSE bs[q].at
           /\ q # s => E[q] = bs[q]
    BY <2>2, <2>13, <2>14
  <2>16. E \in [Ring(bits) -> Bucket]
    BY <2>13, <2>15
  <2>. HIDE DEF E
  <2>17. ASSUME NEW q \in Ring(bits) PROVE E[q] = Empty \/ Fits(E[q], q, bits, us, 1 .. last - 1)
    <3>1. CASE q = s
      <4>1. Fits(bs[s], s, bits, values, I)
        <5>1. Empty.at = 0
          BY DEF Empty
        <5>. QED BY <2>1, <2>2, <2>3, <5>1
      <4>2. KeyAt(us, ix) = k /\ bs[s].at = last
        BY <1>3, <2>1, <2>3
      <4>3. E[q].at = ix /\ E[q].dist = bs[s].dist /\ E[q].print = bs[s].print
        BY <2>15, <3>1
      <4>. QED BY <2>1, <3>1, <4>1, <4>2, <4>3 DEF Fits, k
    <3>2. CASE q # s
      <4>1. E[q] = bs[q]
        BY <2>15, <3>2
      <4>2. CASE Fits(bs[q], q, bits, values, I)
        <5>1. bs[q].at \in I /\ bs[q].at # last
          BY <2>3, <3>2, <4>2 DEF Fits
        <5>2. bs[q].at \in 1 .. last - 1 /\ bs[q].at # ix
          BY <1>1, <5>1
        <5>3. KeyAt(us, bs[q].at) = KeyAt(values, bs[q].at)
          BY <1>3, <5>2
        <5>. QED BY <4>1, <4>2, <5>2, <5>3 DEF Fits
      <4>. QED BY <2>2, <4>1, <4>2
    <3>. QED BY <3>1, <3>2
  <2>18. ASSUME NEW x \in 1 .. last - 1 PROVE \E q \in Ring(bits) : Alone(x, q, E, bits)
    <3>0. \A q \in Ring(bits) : bs[q].at # ix
      <4>1. Empty.at = 0 /\ ix # 0
        BY DEF Empty
      <4>. QED BY <2>2, <4>1 DEF Fits
    <3>1. CASE x = ix
      <4>1. E[s].at = ix
        BY <2>15
      <4>2. ASSUME NEW q \in Ring(bits), E[q].at = ix PROVE q = s
        BY <2>15, <3>0, <4>2
      <4>. QED BY <3>1, <4>1, <4>2 DEF Alone
    <3>2. CASE x # ix
      <4>1. x \in I /\ x # last
        BY <1>1, <3>2
      <4>2. PICK r \in Ring(bits) : bs[r].at = x /\ \A q \in Ring(bits) : bs[q].at = x => q = r
        BY <2>2, <4>1 DEF Alone
      <4>3. r # s
        BY <2>3, <4>1, <4>2
      <4>. QED BY <2>15, <3>2, <4>2, <4>3 DEF Alone
    <3>. QED BY <3>1, <3>2
  <2>19. ASSUME NEW q \in Ring(bits) PROVE Tight(E[q], E[Turn(q, N[bits])])
    <3>1. Turn(q, N[bits]) \in Ring(bits)
      <4>1. bits \in 0 .. MaxBits
        BY Powers
      <4>2. N[bits] \in Nat /\ N[bits] >= 1
        BY <4>1, Powers
      <4>. QED BY <4>2 DEF Ring, Turn
    <3>. QED BY <2>2, <2>15, <3>1 DEF Tight
  <2>20. Sound(E, bits, us, 1 .. last - 1)
    BY <2>16, <2>17, <2>18, <2>19 DEF Sound
  <2>. QED BY <2>20 DEF E, us
<1>. QED BY <1>5, <1>6

\* The search of an erasure: from the first bucket that is not better than the key would be
\* there, past the ones with the same word that hold another key.
EraseStop(k, bs, b, vs) ==
  FirstFrom(NextWhileLess(k, bs, b),
            LAMBDA d : ~Same(Word(k, d), bs[Place(k, d, b)]) \/ Holds(k, d, bs, b, vs))

\* From there to the bucket of the key all buckets have the same word, so it finds the key.
LEMMA EraseStopSound ==
  ASSUME HashOK, NEW b \in 1 .. MaxBits, NEW vs, NEW I, NEW bs, Sound(bs, b, vs, I),
         Distinct(vs, I), \E p \in Ring(b) : bs[p] = Empty, NEW k \in Keys
  PROVE  LET j == EraseStop(k, bs, b, vs)
         IN  /\ j \in Nat
             /\ \A ix \in I : KeyAt(vs, ix) = k => Holds(k, j, bs, b, vs)
             /\ Holds(k, j, bs, b, vs) => bs[Place(k, j, b)].at \in I /\ KeyAt(vs, bs[Place(k, j, b)].at) = k
<1>. DEFINE from == NextWhileLess(k, bs, b)
            Over(d) == ~Same(Word(k, d), bs[Place(k, d, b)]) \/ Holds(k, d, bs, b, vs)
            S == {d \in from .. Far : Over(d)}
            Is(d) == Over(d) /\ \A e \in from .. d - 1 : ~Over(e)
            j == EraseStop(k, bs, b, vs)
<1>0. Far \in Nat
  BY Powers
<1>1. bs \in [Ring(b) -> Bucket] /\ \A ix \in Nat : Place(k, ix, b) \in Ring(b)
  BY Walk DEF Sound
<1>2. \A ix \in Nat :
        LET c == bs[Place(k, ix, b)]
        IN  /\ Poorer(k, ix, bs, b) <=> c.dist < ix + 1 \/ (c.dist = ix + 1 /\ c.print < hash[k].print)
            /\ Less(Word(k, ix), c) <=> ix + 1 < c.dist \/ (c.dist = ix + 1 /\ hash[k].print < c.print)
            /\ Same(Word(k, ix), c) <=> c.dist = ix + 1 /\ c.print = hash[k].print
            /\ Holds(k, ix, bs, b, vs) <=> c.dist = ix + 1 /\ c.print = hash[k].print /\ KeyAt(vs, c.at) = k
            /\ c \in Bucket /\ c.dist \in Nat /\ c.print \in Nat /\ hash[k].print \in Nat
  BY <1>1, SearchSees, Z3
<1>3. /\ from \in 0 .. Far /\ ~Less(Word(k, from), bs[Place(k, from, b)])
      /\ \A ix \in 0 .. from - 1 : Less(Word(k, ix), bs[Place(k, ix, b)])
  BY NextWhileLessIs
<1>4. PICK e \in 2 .. Far : bs[Place(k, e, b)] = Empty /\ Poorer(k, e, bs, b)
  BY Stops
<1>. HIDE DEF from
<1>5. from \in Nat
  BY <1>0, <1>3
<1>6. e \in from .. Far /\ Over(e)
  <2>1. e \in Nat
    BY <1>0
  <2>2. ~Less(Word(k, e), bs[Place(k, e, b)]) /\ ~Same(Word(k, e), bs[Place(k, e, b)])
    BY <1>2, <1>4, <2>1
  <2>3. ~(e \in 0 .. from - 1)
    BY <1>3, <2>2
  <2>. QED BY <1>0, <1>5, <2>1, <2>2, <2>3
<1>7. S # {} /\ S \in SUBSET Nat
  BY <1>0, <1>5, <1>6
<1>8. PICK d0 \in S : \A d \in S : d0 <= d
  BY <1>7, LeastOf
<1>9. Is(d0) /\ d0 \in from .. Far
  <2>1. \A d \in from .. d0 - 1 : d \in from .. Far /\ ~(d0 <= d)
    BY <1>0, <1>5
  <2>. QED BY <1>8, <2>1
<1>10. j = CHOOSE d \in from .. Far : Is(d)
  BY DEF FirstFrom, EraseStop, from
<1>. HIDE DEF Is, j
<1>11. j \in from .. Far /\ Is(j)
  BY <1>9, <1>10
<1>12. j \in Nat
  BY <1>0, <1>5, <1>11
<1>13. Holds(k, j, bs, b, vs) => bs[Place(k, j, b)].at \in I /\ KeyAt(vs, bs[Place(k, j, b)].at) = k
  BY <1>1, <1>2, <1>12 DEF Sound, Fits, Empty
<1>14. ASSUME NEW ix \in I, KeyAt(vs, ix) = k PROVE Holds(k, j, bs, b, vs)
  <2>1. ix # 0
    BY DEF Distinct
  <2>3. PICK p \in Ring(b), m \in Nat :
          /\ Alone(ix, p, bs, b) /\ Place(k, m, b) = p
          /\ bs[p].dist = m + 1 /\ bs[p].print = hash[k].print
    BY <1>14, <2>1, LiesAt
  <2>2. bs[p].at = ix
    BY <2>3 DEF Alone
  <2>4. m \in Nat /\ Place(k, m, b) = p /\ bs[p].dist = m + 1 /\ bs[p].print = hash[k].print
    BY <2>3
  <2>5. \A d \in 0 .. m : ~Poorer(k, d, bs, b)
    BY <2>4, OnTheWay
  <2>6. Holds(k, m, bs, b, vs)
    BY <1>2, <1>14, <2>2, <2>4
  <2>7. from <= m
    <3>1. ~Less(Word(k, m), bs[Place(k, m, b)])
      BY <1>2, <2>4
    <3>. QED BY <1>3, <1>5, <2>4, <3>1
  \* By the order the words stay the same.
  <2>8. \A d \in from .. m : Same(Word(k, d), bs[Place(k, d, b)])
    <3>. DEFINE Bad == {d \in from .. m : ~Same(Word(k, d), bs[Place(k, d, b)])}
    <3>1. ASSUME Bad # {} PROVE FALSE
      <4>1. Bad \in SUBSET Nat
        BY <1>5, <2>4
      <4>2. PICK d \in Bad : \A x \in Bad : d <= x
        BY <3>1, <4>1, LeastOf
      <4>3. d # from
        <5>1. ~Poorer(k, from, bs, b)
          BY <1>5, <2>4, <2>5, <2>7
        <5>2. Same(Word(k, from), bs[Place(k, from, b)])
          <6>. DEFINE c == bs[Place(k, from, b)]
          <6>1. /\ Poorer(k, from, bs, b) <=> c.dist < from + 1 \/ (c.dist = from + 1 /\ c.print < hash[k].print)
                /\ Less(Word(k, from), c) <=> from + 1 < c.dist \/ (c.dist = from + 1 /\ hash[k].print < c.print)
                /\ Same(Word(k, from), c) <=> c.dist = from + 1 /\ c.print = hash[k].print
                /\ c.dist \in Nat /\ c.print \in Nat /\ hash[k].print \in Nat
            BY <1>2, <1>5
          <6>2. ~Less(Word(k, from), c)
            BY <1>3
          <6>. HIDE DEF c
          <6>3. Same(Word(k, from), c)
            BY <1>5, <5>1, <6>1, <6>2
          <6>. QED BY <6>3 DEF c
        <5>. QED BY <4>2, <5>2
      <4>4. PICK l \in Nat : d = l + 1 /\ l \in from .. m /\ l \notin Bad
        <5>1. d - 1 \in Nat /\ d = (d - 1) + 1 /\ d - 1 \in from .. m /\ ~(d <= d - 1)
          BY <1>5, <2>4, <4>2, <4>3
        <5>. QED BY <4>2, <5>1
      <4>5. Same(Word(k, l), bs[Place(k, l, b)])
        BY <4>4
      <4>6. Tight(bs[Place(k, l, b)], bs[Place(k, l + 1, b)])
        <5>1. Place(k, l + 1, b) = Turn(Place(k, l, b), N[b]) /\ Place(k, l, b) \in Ring(b)
          BY <4>4, Walk
        <5>. QED BY <5>1 DEF Sound
      <4>7. ~Poorer(k, l + 1, bs, b)
        BY <2>4, <2>5, <4>4
      <4>. DEFINE c == bs[Place(k, l, b)]
                  u == bs[Place(k, l + 1, b)]
      <4>8. c.dist = l + 1 /\ c.print = hash[k].print /\ c.print \in Nat
        BY <1>2, <4>4, <4>5
      <4>9. l + 1 \in Nat
        BY <4>4
      <4>10. /\ Poorer(k, l + 1, bs, b) <=> u.dist < (l + 1) + 1 \/ (u.dist = (l + 1) + 1 /\ u.print < hash[k].print)
             /\ Same(Word(k, l + 1), u) <=> u.dist = (l + 1) + 1 /\ u.print = hash[k].print
             /\ u.dist \in Nat /\ u.print \in Nat
        BY <1>2, <4>9
      <4>11. Tight(c, u)
        BY <4>6
      <4>. HIDE DEF c, u
      <4>12. u.dist = (l + 1) + 1 /\ u.print = hash[k].print
        BY <4>4, <4>7, <4>8, <4>10, <4>11 DEF Tight
      <4>13. Same(Word(k, l + 1), u)
        BY <4>10, <4>12
      <4>. QED BY <4>2, <4>4, <4>13 DEF u
    <3>. QED BY <3>1
  <2>9. j <= m
    <3>1. ~(m \in from .. j - 1)
      BY <1>11, <2>6 DEF Is
    <3>. QED BY <1>5, <1>12, <2>4, <2>7, <3>1
  <2>10. j \in from .. m
    BY <1>5, <1>11, <1>12, <2>4, <2>9
  <2>. QED BY <1>11, <2>8, <2>10 DEF Is
<1>. QED BY <1>12, <1>13, <1>14 DEF j

-----------------------------------------------------------------------------
(* The invariant.                                                            *)

\* The index is sound and has room, and the values have different keys.
TableInv ==
  /\ HashOK
  /\ bits \in 0 .. MaxBits
  /\ values \in Seq(Keys \X Vals)
  /\ Distinct(values, 1 .. Len(values))
  /\ Len(values) <= Capacity(bits)
  /\ bits > 0 => Sound(buckets, bits, values, 1 .. Len(values))

\* The groups below that of row r have a row before it.
InOrderUpTo(r) == \A g \in 1 .. groups[r] : \E x \in 1 .. r : groups[x] = g

\* Every row that was pushed is in the group of its key, and every group has a row.
GroupInv ==
  /\ groups \in Seq(1 .. Len(values))
  /\ rows \in Seq(Keys) /\ Len(groups) <= Len(rows)
  /\ \A r \in 1 .. Len(groups) : KeyAt(values, groups[r]) = rows[r] /\ InOrderUpTo(r)
  /\ rows # <<>> => \A g \in 1 .. Len(values) : \E x \in 1 .. Len(groups) : groups[x] = g

\* Four fifths of the buckets are fewer than the buckets, and more of them with each bit.
LEMMA Rooms ==
  /\ \A b \in 0 .. MaxBits : Capacity(b) \in Nat /\ Capacity(b) < N[b] /\ N[b] \in Nat
  /\ \A b \in 1 .. MaxBits : Capacity(b - 1) < Capacity(b)
  /\ Capacity(0) = 0
  /\ \A b \in 1 .. MaxBits : Capacity(b) >= 1
<1>1. ASSUME NEW b \in 0 .. MaxBits
      PROVE  Capacity(b) \in Nat /\ 5 * Capacity(b) <= 4 * N[b] /\ 4 * N[b] <= 5 * Capacity(b) + 4
             /\ N[b] \in Nat /\ N[b] >= 1
  <2>1. N[b] \in Nat /\ N[b] >= 1
    BY Powers
  <2>. DEFINE x == N[b]
  <2>. HIDE DEF x
  <2>2. x \in Nat => (x * 4) \div 5 \in Nat /\ 5 * ((x * 4) \div 5) <= 4 * x /\ 4 * x <= 5 * ((x * 4) \div 5) + 4
    OBVIOUS
  <2>. QED BY <2>1, <2>2 DEF Capacity, x
<1>2. \A b \in 0 .. MaxBits : Capacity(b) \in Nat /\ Capacity(b) < N[b] /\ N[b] \in Nat
  <2>1. ASSUME NEW b \in 0 .. MaxBits PROVE Capacity(b) \in Nat /\ Capacity(b) < N[b] /\ N[b] \in Nat
    <3>. DEFINE c == Capacity(b)
                x == N[b]
    <3>1. c \in Nat /\ 5 * c <= 4 * x /\ x \in Nat /\ x >= 1
      BY <1>1
    <3>. HIDE DEF c, x
    <3>2. c < x
      BY <3>1
    <3>. QED BY <3>1, <3>2 DEF c, x
  <2>. QED BY <2>1
<1>3. ASSUME NEW b \in 1 .. MaxBits PROVE Capacity(b - 1) < Capacity(b)
  <2>. DEFINE c == Capacity(b - 1)
              d == Capacity(b)
              x == N[b - 1]
              y == N[b]
  <2>1. b - 1 \in 0 .. MaxBits /\ b \in 0 .. MaxBits
    BY Powers
  <2>2. /\ c \in Nat /\ 5 * c <= 4 * x /\ 4 * x <= 5 * c + 4 /\ x \in Nat /\ x >= 1
        /\ d \in Nat /\ 4 * y <= 5 * d + 4 /\ y \in Nat
    BY <1>1, <2>1
  <2>3. y = 2 * x
    BY Powers
  <2>4. x = 1 => c = 0 /\ d >= 1
    BY <2>2, <2>3
  <2>. HIDE DEF c, d, x, y
  <2>5. c < d
    BY <2>2, <2>3, <2>4
  <2>. QED BY <2>5 DEF c, d
<1>4. Capacity(0) = 0
  <2>1. N[0] = 1 /\ 0 \in 0 .. MaxBits
    BY Powers, NIs
  <2>2. Capacity(0) \in Nat /\ 5 * Capacity(0) <= 4
    BY <1>1, <2>1
  <2>. QED BY <2>2
<1>5. ASSUME NEW b \in 1 .. MaxBits PROVE Capacity(b) >= 1
  <2>1. b - 1 \in 0 .. MaxBits /\ b \in 0 .. MaxBits
    BY Powers
  <2>2. Capacity(b - 1) \in Nat /\ Capacity(b) \in Nat
    BY <1>2, <2>1
  <2>. QED BY <1>3, <2>2
<1>. QED BY <1>2, <1>3, <1>4, <1>5

\* A table with room has an empty bucket.
LEMMA Vacant ==
  ASSUME TableInv, bits > 0
  PROVE  /\ bits \in 1 .. MaxBits /\ Len(values) \in Nat
         /\ \E p \in Ring(bits) : buckets[p] = Empty
<1>1. bits \in 1 .. MaxBits /\ bits \in 0 .. MaxBits /\ Len(values) \in Nat
  BY Powers DEF TableInv
<1>2. Len(values) < N[bits]
  <2>1. Capacity(bits) \in Nat /\ Capacity(bits) < N[bits] /\ N[bits] \in Nat
    BY <1>1, Rooms
  <2>. QED BY <1>1, <2>1 DEF TableInv
<1>3. Sound(buckets, bits, values, 1 .. Len(values)) /\ 1 .. Len(values) \subseteq 1 .. Len(values)
  BY DEF TableInv
<1>4. \E p \in Ring(bits) : buckets[p] = Empty
  BY <1>1, <1>2, <1>3, SomeEmpty
<1>. QED BY <1>1, <1>4

\* A table that makes room for one more value keeps its index sound.
LEMMA RoomySound ==
  ASSUME TableInv, Full => bits < MaxBits
  PROVE  /\ Roomy.b \in 1 .. MaxBits
         /\ Len(values) \in Nat /\ Len(values) + 1 <= Capacity(Roomy.b)
         /\ Sound(Roomy.bs, Roomy.b, values, 1 .. Len(values))
         /\ \E p \in Ring(Roomy.b) : Roomy.bs[p] = Empty
<1>1. MaxBits \in Nat /\ bits \in 0 .. MaxBits /\ Len(values) \in Nat
  BY Powers DEF TableInv
<1>0. StartBits + 1 \in 1 .. MaxBits
  BY TableAssumption
<1>2. /\ Roomy.b \in 1 .. MaxBits /\ Len(values) + 1 <= Capacity(Roomy.b)
      /\ Sound(Roomy.bs, Roomy.b, values, 1 .. Len(values))
  <2>1. CASE Full
    <3>. DEFINE b == IF bits = 0 THEN StartBits + 1 ELSE bits + 1
    <3>1. Roomy = [b |-> b, bs |-> Filled(b, values)]
      BY <2>1 DEF Roomy
    <3>2. b \in 1 .. MaxBits
      BY <1>0, <1>1, <2>1
    <3>3. Len(values) + 1 <= Capacity(b)
      <4>1. CASE bits = 0
        <5>1. Len(values) = 0
          BY <1>1, <4>1, Rooms DEF TableInv
        <5>2. Capacity(b) >= 1
          BY <3>2, Rooms
        <5>. QED BY <5>1, <5>2
      <4>2. CASE bits # 0
        <5>1. b = bits + 1 /\ b - 1 = bits
          BY <1>1, <4>2
        <5>2. Capacity(bits) < Capacity(b)
          BY <3>2, <5>1, Rooms
        <5>3. Capacity(bits) \in Nat /\ Capacity(b) \in Nat
          <6>1. b \in 0 .. MaxBits
            BY <3>2, <1>1
          <6>. QED BY <1>1, <6>1, Rooms
        <5>4. Len(values) <= Capacity(bits)
          BY DEF TableInv
        <5>. HIDE DEF b
        <5>. QED BY <1>1, <5>2, <5>3, <5>4
      <4>. QED BY <4>1, <4>2
    <3>. HIDE DEF b
    <3>4. Len(values) < N[b]
      <4>1. b \in 0 .. MaxBits
        BY <3>2, <1>1
      <4>2. Capacity(b) \in Nat /\ Capacity(b) < N[b] /\ N[b] \in Nat
        BY <4>1, Rooms
      <4>. QED BY <1>1, <3>3, <4>2
    <3>5. HashOK /\ Distinct(values, 1 .. Len(values))
      BY DEF TableInv
    <3>6. Sound(Filled(b, values), b, values, 1 .. Len(values))
      BY <1>1, <3>2, <3>4, <3>5, FilledSound
    <3>. QED BY <3>1, <3>2, <3>3, <3>6
  <2>2. CASE ~Full
    <3>1. Roomy = [b |-> bits, bs |-> buckets]
      BY <2>2 DEF Roomy
    <3>2. bits # 0 /\ ~(Len(values) >= Capacity(bits))
      BY <2>2 DEF Full
    <3>3. Capacity(bits) \in Nat
      BY <1>1, Rooms
    <3>4. bits \in 1 .. MaxBits /\ bits > 0 /\ Len(values) + 1 <= Capacity(bits)
      BY <1>1, <3>2, <3>3
    <3>. QED BY <3>1, <3>4 DEF TableInv
  <2>. QED BY <2>1, <2>2
<1>3. \E p \in Ring(Roomy.b) : Roomy.bs[p] = Empty
  <2>1. Roomy.b \in 0 .. MaxBits
    BY <1>1, <1>2
  <2>2. Capacity(Roomy.b) \in Nat /\ Capacity(Roomy.b) < N[Roomy.b] /\ N[Roomy.b] \in Nat
    BY <2>1, Rooms
  <2>3. Len(values) < N[Roomy.b]
    BY <1>1, <1>2, <2>2
  <2>4. 1 .. Len(values) \subseteq 1 .. Len(values)
    OBVIOUS
  <2>. QED BY <1>1, <1>2, <2>1, <2>3, <2>4, SomeEmpty
<1>. QED BY <1>1, <1>2, <1>3

\* The index does not depend on anything but the buckets, the values and the hashes.
LEMMA SoundNext ==
  ASSUME hash' = hash, Sound(buckets', bits', values', 1 .. Len(values'))
  PROVE  Sound(buckets, bits, values, 1 .. Len(values))'
BY DEF Sound, Fits, Tight, Alone, Place, Home, KeyAt, Bucket, Ring, Empty, Turn

\* The same for the keys after a step.
LEMMA DistinctNext ==
  ASSUME Distinct(values', 1 .. Len(values'))
  PROVE  Distinct(values, 1 .. Len(values))'
BY DEF Distinct, KeyAt

\* Entering a key keeps the table sound; the values change at this key alone, and the row is
\* given the index of its key.
LEMMA EnterKeeps ==
  ASSUME TableInv, hash' = hash, NEW k \in Keys, NEW v \in Vals, NEW replace \in BOOLEAN,
         Enter(k, v, replace)
  PROVE  /\ TableInv'
         /\ \/ \E ix \in 1 .. Len(values) :
                 /\ KeyAt(values, ix) = k
                 /\ values' = IF replace THEN [values EXCEPT ![ix] = <<k, v>>] ELSE values
                 /\ groups' = IF rows = <<>> THEN groups ELSE Append(groups, ix)
            \/ /\ \A ix \in 1 .. Len(values) : KeyAt(values, ix) # k
               /\ values' = Append(values, <<k, v>>)
               /\ groups' = IF rows = <<>> THEN groups ELSE Append(groups, Len(values) + 1)
<1>. DEFINE b == Roomy.b
            bs == Roomy.bs
            I == 1 .. Len(values)
            j == Stop(k, bs, b, values)
            at == IF Holds(k, j, bs, b, values) THEN bs[Place(k, j, b)].at ELSE 0
            new == Len(values) + 1
<1>1. /\ bits' = b
      /\ IF at > 0 THEN /\ buckets' = bs
                        /\ values' = IF replace THEN [values EXCEPT ![at] = <<k, v>>] ELSE values
         ELSE /\ values' = Append(values, <<k, v>>)
              /\ buckets' = IndexAt(k, j, new, bs, b)
      /\ groups' = IF rows = <<>> THEN groups ELSE Append(groups, IF at > 0 THEN at ELSE new)
      /\ Full => bits < MaxBits
  BY DEF Enter, Stop
<1>2. /\ b \in 1 .. MaxBits /\ Len(values) \in Nat /\ Len(values) + 1 <= Capacity(b)
      /\ Sound(bs, b, values, I) /\ \E p \in Ring(b) : bs[p] = Empty
  BY <1>1, RoomySound
<1>3. HashOK /\ values \in Seq(Keys \X Vals) /\ Distinct(values, I)
  BY DEF TableInv
<1>. HIDE DEF b, bs
<1>4. LET there == {ix \in I : KeyAt(values, ix) = k}
      IN  /\ j \in 0 .. Far
          /\ \A ix \in there : Holds(k, j, bs, b, values) /\ bs[Place(k, j, b)].at = ix
          /\ there = {} => /\ ~Holds(k, j, bs, b, values)
                           /\ ~Less(Word(k, j), bs[Place(k, j, b)])
                           /\ \A ix \in 0 .. j - 1 : ~Poorer(k, ix, bs, b)
  BY <1>2, <1>3, StopSound
<1>5. b \in 0 .. MaxBits /\ b > 0 /\ b \in Nat /\ Capacity(b) \in Nat
  <2>1. b \in 0 .. MaxBits
    BY <1>2, Powers
  <2>. QED BY <1>2, <2>1, Rooms
<1>6. DOMAIN values = I /\ \A ix \in I : values[ix] \in Keys \X Vals
  BY <1>3
<1>7. CASE \E ix \in I : KeyAt(values, ix) = k
  <2>1. PICK ix \in I : KeyAt(values, ix) = k
    BY <1>7
  <2>2. at = ix /\ at > 0
    BY <1>4, <2>1
  <2>. HIDE DEF at, j
  <2>3. /\ bits' = b /\ buckets' = bs
        /\ values' = IF replace THEN [values EXCEPT ![ix] = <<k, v>>] ELSE values
        /\ groups' = IF rows = <<>> THEN groups ELSE Append(groups, ix)
    BY <1>1, <2>2
  <2>4. /\ values' \in Seq(Keys \X Vals) /\ Len(values') = Len(values)
        /\ \A x \in I : KeyAt(values', x) = KeyAt(values, x)
    <3>1. CASE replace
      <4>1. values' = [values EXCEPT ![ix] = <<k, v>>]
        BY <2>3, <3>1
      <4>2. values' \in [1 .. Len(values) -> Keys \X Vals]
        BY <1>6, <4>1
      <4>3. values' \in Seq(Keys \X Vals) /\ Len(values') = Len(values)
        BY <1>2, <4>2
      <4>4. \A x \in I : values'[x] = IF x = ix THEN <<k, v>> ELSE values[x]
        BY <1>6, <4>1
      <4>. QED BY <2>1, <4>3, <4>4 DEF KeyAt
    <3>2. CASE ~replace
      BY <1>3, <2>3, <3>2
    <3>. QED BY <3>1, <3>2
  <2>5. Sound(buckets', bits', values', 1 .. Len(values'))
    BY <1>2, <2>3, <2>4, SameKeys
  <2>6. Distinct(values', 1 .. Len(values'))
    BY <1>3, <2>4 DEF Distinct
  <2>7. Len(values') <= Capacity(bits')
    BY <1>2, <1>5, <2>3, <2>4
  <2>8. TableInv'
    <3>1. HashOK'
      BY <1>3 DEF HashOK
    <3>2. Capacity(bits)' = Capacity(bits')
      BY DEF Capacity
    <3>3. bits' \in 0 .. MaxBits
      BY <1>5, <2>3
    <3>. QED BY <2>4, <2>5, <2>6, <2>7, <3>1, <3>2, <3>3, SoundNext, DistinctNext DEF TableInv
  <2>. QED BY <2>1, <2>3, <2>8
<1>8. CASE \A ix \in I : KeyAt(values, ix) # k
  <2>1. /\ j \in 0 .. Far /\ ~Holds(k, j, bs, b, values) /\ ~Less(Word(k, j), bs[Place(k, j, b)])
        /\ \A ix \in 0 .. j - 1 : ~Poorer(k, ix, bs, b)
    <3>1. {ix \in I : KeyAt(values, ix) = k} = {}
      BY <1>8
    <3>. QED BY <1>4, <3>1
  <2>2. ~(at > 0)
    BY <2>1
  <2>3. j \in Nat
    BY <2>1, Powers
  <2>. HIDE DEF at, j
  <2>4. /\ bits' = b /\ values' = Append(values, <<k, v>>) /\ buckets' = IndexAt(k, j, new, bs, b)
        /\ groups' = IF rows = <<>> THEN groups ELSE Append(groups, new)
    BY <1>1, <2>2
  <2>5. <<k, v>> \in Keys \X Vals
    OBVIOUS
  <2>6. /\ values' \in Seq(Keys \X Vals) /\ Len(values') = new
        /\ values'[new] = <<k, v>> /\ \A x \in I : values'[x] = values[x]
    BY <1>2, <1>3, <2>4, <2>5
  <2>7. KeyAt(values', new) = k /\ \A x \in I : KeyAt(values', x) = KeyAt(values, x)
    BY <2>6 DEF KeyAt
  <2>8. new \in Nat \ {0} /\ new \notin I /\ I \cup {new} = 1 .. new
    BY <1>2
  <2>9. Sound(bs, b, values', I)
    BY <1>2, <2>7, SameKeys
  <2>10. \A x \in I : x \in Nat \ {0} /\ KeyAt(values', x) \in Keys
    BY <1>2, <1>3, <2>7 DEF Distinct
  <2>11. j > 0 => ~Poorer(k, j - 1, bs, b)
    BY <2>1, <2>3
  <2>12. Sound(IndexAt(k, j, new, bs, b), b, values', I \cup {new})
    <3>. HIDE DEF new, I
    <3>1. \A ix \in Nat \ {0} : ix = new => Sound(IndexAt(k, j, ix, bs, b), b, values', I \cup {ix})
      <4>1. ASSUME NEW ix \in Nat \ {0}, ix = new PROVE Sound(IndexAt(k, j, ix, bs, b), b, values', I \cup {ix})
        <5>1. ix \notin I /\ KeyAt(values', ix) = k
          BY <2>7, <2>8, <4>1
        <5>2. ~Less(Word(k, j), bs[Place(k, j, b)])
          BY <2>1
        <5>. QED BY <1>2, <1>3, <2>3, <2>9, <2>10, <2>11, <5>1, <5>2, Inserted
      <4>. QED BY <4>1
    <3>. QED BY <2>8, <3>1
  <2>13. Sound(buckets', bits', values', 1 .. Len(values'))
    BY <2>4, <2>6, <2>8, <2>12
  <2>14. Distinct(values', 1 .. Len(values'))
    <3>1. \A x \in 1 .. new : x \in I \/ x = new
      BY <1>2
    <3>. HIDE DEF new
    <3>. QED BY <1>3, <1>8, <2>6, <2>7, <2>8, <3>1 DEF Distinct
  <2>15. Len(values') <= Capacity(bits')
    BY <1>2, <1>5, <2>4, <2>6
  <2>16. TableInv'
    <3>1. HashOK'
      BY <1>3 DEF HashOK
    <3>2. Capacity(bits)' = Capacity(bits')
      BY DEF Capacity
    <3>3. bits' \in 0 .. MaxBits
      BY <1>5, <2>4
    <3>. QED BY <2>6, <2>13, <2>14, <2>15, <3>1, <3>2, <3>3, SoundNext, DistinctNext DEF TableInv
  <2>. QED BY <1>8, <2>4, <2>16
<1>. QED BY <1>7, <1>8

\* An erasure keeps the table sound and takes the key, if it is there, out of the values.
LEMMA EraseKeeps ==
  ASSUME TableInv, NEW k \in Keys, Erase(k)
  PROVE  /\ TableInv'
         /\ \/ \E ix \in 1 .. Len(values) : KeyAt(values, ix) = k /\ values' = Shorter(values, ix)
            \/ (\A ix \in 1 .. Len(values) : KeyAt(values, ix) # k) /\ values' = values
<1>. DEFINE I == 1 .. Len(values)
            j == EraseStop(k, buckets, bits, values)
            p == Place(k, j, bits)
            ix == buckets[p].at
<1>1. /\ IF values # <<>> /\ Holds(k, j, buckets, bits, values)
         THEN /\ buckets' = Moved(ShiftDown(p), ix)
              /\ values' = Shorter(values, ix)
         ELSE UNCHANGED <<buckets, values>>
      /\ hash' = hash /\ bits' = bits
  BY DEF Erase, EraseStop, Shorter
<1>2. HashOK /\ values \in Seq(Keys \X Vals) /\ Distinct(values, I) /\ Len(values) \in Nat /\ bits \in 0 .. MaxBits
  BY DEF TableInv
<1>. HIDE DEF j
<1>3. HashOK'
  BY <1>1, <1>2 DEF HashOK
<1>4. Capacity(bits)' = Capacity(bits)
  BY <1>1 DEF Capacity
<1>5. ASSUME values' = values, buckets' = buckets PROVE TableInv'
  <2>1. Distinct(values', 1 .. Len(values')) /\ Len(values') <= Capacity(bits)
    BY <1>5 DEF TableInv
  <2>2. bits > 0 => Sound(buckets', bits', values', 1 .. Len(values'))
    BY <1>1, <1>5 DEF TableInv
  <2>. QED BY <1>1, <1>2, <1>3, <1>4, <1>5, <2>1, <2>2, SoundNext, DistinctNext DEF TableInv
<1>6. CASE bits = 0
  <2>1. Len(values) = 0
    BY <1>2, <1>6, Rooms DEF TableInv
  <2>2. values = <<>>
    BY <1>2, <2>1
  <2>3. UNCHANGED <<buckets, values>>
    BY <1>1, <2>2
  <2>. QED BY <1>2, <1>5, <2>1, <2>3
<1>7. CASE bits # 0
  <2>1. bits \in 1 .. MaxBits /\ bits > 0
    BY <1>2, <1>7, Powers
  <2>2. Sound(buckets, bits, values, I) /\ \E q \in Ring(bits) : buckets[q] = Empty
    BY <2>1, Vacant DEF TableInv
  <2>3. /\ j \in Nat
        /\ \A x \in I : KeyAt(values, x) = k => Holds(k, j, buckets, bits, values)
        /\ Holds(k, j, buckets, bits, values) => ix \in I /\ KeyAt(values, ix) = k
    BY <1>2, <2>1, <2>2, EraseStopSound DEF j
  <2>4. CASE ~(values # <<>> /\ Holds(k, j, buckets, bits, values))
    <3>1. values' = values /\ buckets' = buckets
      BY <1>1, <2>4
    <3>2. \A x \in I : KeyAt(values, x) # k
      <4>1. values = <<>> => I = {}
        BY <1>2
      <4>. QED BY <2>3, <2>4, <4>1
    <3>. QED BY <1>5, <3>1, <3>2
  <2>5. CASE values # <<>> /\ Holds(k, j, buckets, bits, values)
    <3>1. /\ buckets' = Moved(ShiftDown(p), ix) /\ values' = Shorter(values, ix)
          /\ ix \in I /\ KeyAt(values, ix) = k
      BY <1>1, <2>3, <2>5
    <3>2. p \in Ring(bits)
      BY <1>2, <2>1, <2>3, Walk
    <3>3. PICK x : x = ix
      OBVIOUS
    <3>. HIDE DEF p
    <3>4. x \in I /\ x # 0 /\ buckets[p].at = x
      BY <1>2, <3>1, <3>3
    <3>. HIDE DEF ix
    <3>5. /\ buckets \in [Ring(bits) -> Bucket]
          /\ \A q \in Ring(bits) : buckets[q] = Empty \/ Fits(buckets[q], q, bits, values, I)
          /\ \A y \in I : \E q \in Ring(bits) : Alone(y, q, buckets, bits)
      BY <2>2 DEF Sound
    <3>6. Empty.at = 0 /\ Empty.dist = 0
      BY DEF Empty
    <3>7. buckets[p].dist # 0 /\ \E q \in Ring(bits) : buckets[q].dist = 0
      <4>1. Fits(buckets[p], p, bits, values, I)
        BY <3>2, <3>4, <3>5, <3>6
      <4>2. buckets[p].dist \in Nat /\ buckets[p].dist >= 1
        BY <3>2, <3>5, <4>1 DEF Fits, Bucket
      <4>. QED BY <2>2, <3>6, <4>2
    <3>8. PICK r \in Ring(bits) : LastMoved(r, p, buckets, bits) /\ ShiftDown(p) = Lowered(p, r, buckets, bits)
      BY <2>1, <3>2, <3>5, <3>7, ShiftDownIs
    <3>9. Alone(x, p, buckets, bits)
      BY <3>2, <3>4, <3>5 DEF Alone
    <3>10. \A y \in I : y \in Nat \ {0} /\ KeyAt(values, y) \in Keys
      BY <1>2 DEF Distinct
    <3>11. Sound(ShiftDown(p), bits, values, I \ {x})
      <4>. HIDE DEF I
      <4>1. Sound(Lowered(p, r, buckets, bits), bits, values, I \ {x})
        BY <1>2, <2>1, <2>2, <3>2, <3>4, <3>8, <3>9, <3>10, Removed
      <4>. QED BY <3>8, <4>1
    <3>12. Sound(Moved(ShiftDown(p), x), bits, Shorter(values, x), 1 .. Len(values) - 1)
      BY <1>2, <2>1, <3>4, <3>11, MovedSound
    <3>13. /\ Shorter(values, x) \in Seq(Keys \X Vals) /\ Len(Shorter(values, x)) = Len(values) - 1
           /\ \A y \in 1 .. Len(values) - 1 : Shorter(values, x)[y] = IF y = x THEN values[Len(values)] ELSE values[y]
      BY <1>2, <3>4, ShorterIs
    <3>14. values' = Shorter(values, x) /\ buckets' = Moved(ShiftDown(p), x) /\ Len(values') = Len(values) - 1
      BY <3>1, <3>3, <3>13
    <3>15. Sound(buckets', bits', values', 1 .. Len(values'))
      BY <1>1, <3>12, <3>14
    <3>16. Distinct(values', 1 .. Len(values'))
      <4>1. \A y \in 1 .. Len(values') : KeyAt(values', y) = IF y = x THEN KeyAt(values, Len(values)) ELSE KeyAt(values, y)
        BY <3>13, <3>14 DEF KeyAt
      <4>2. \A y \in 1 .. Len(values') : y \in I /\ y # Len(values) /\ y \in Nat \ {0}
        BY <1>2, <3>14
      <4>3. Len(values) \in I
        BY <1>2, <3>4
      <4>4. \A y \in 1 .. Len(values') : KeyAt(values', y) \in Keys
        BY <3>10, <4>1, <4>2, <4>3
      <4>5. ASSUME NEW y \in 1 .. Len(values'), NEW z \in 1 .. Len(values'), KeyAt(values', y) = KeyAt(values', z)
            PROVE  y = z
        <5>. DEFINE from(wd) == IF wd = x THEN Len(values) ELSE wd
        <5>1. KeyAt(values, from(y)) = KeyAt(values, from(z)) /\ from(y) \in I /\ from(z) \in I
          BY <4>1, <4>2, <4>3, <4>5
        <5>2. from(y) = from(z)
          <6>. HIDE DEF from
          <6>. QED BY <1>2, <5>1 DEF Distinct
        <5>. QED BY <4>2, <5>2
      <4>. QED BY <4>2, <4>4, <4>5 DEF Distinct
    <3>17. Len(values') <= Capacity(bits)
      <4>1. Capacity(bits) \in Nat /\ Len(values) <= Capacity(bits)
        BY <1>2, Rooms DEF TableInv
      <4>. QED BY <1>2, <3>14, <4>1
    <3>18. TableInv'
      BY <1>1, <1>2, <1>3, <1>4, <3>13, <3>14, <3>15, <3>16, <3>17, SoundNext, DistinctNext DEF TableInv
    <3>. QED BY <3>1, <3>18
  <2>. QED BY <2>4, <2>5
<1>. QED BY <1>6, <1>7

\* Clear empties the buckets.
LEMMA ClearKeeps ==
  ASSUME TableInv, Clear
  PROVE  TableInv' /\ values' = <<>>
<1>1. /\ values' = <<>> /\ buckets' = [p \in DOMAIN buckets |-> Empty]
      /\ hash' = hash /\ bits' = bits
  BY DEF Clear
<1>2. values' \in Seq(Keys \X Vals) /\ Len(values') = 0 /\ 1 .. Len(values') = {}
  BY <1>1
<1>3. ASSUME bits > 0 PROVE Sound(buckets', bits', values', 1 .. Len(values'))
  <2>1. bits \in 1 .. MaxBits
    BY <1>3, Vacant
  <2>2. DOMAIN buckets = Ring(bits)
    BY <1>3 DEF TableInv, Sound
  <2>3. buckets' = NoBuckets(bits)
    BY <1>1, <2>2 DEF NoBuckets, Ring
  <2>4. Sound(NoBuckets(bits), bits, values', {})
    BY <2>1, NoneSound
  <2>. QED BY <1>1, <1>2, <2>3, <2>4
<1>4. Distinct(values', 1 .. Len(values'))
  BY <1>2 DEF Distinct
<1>5. Len(values') <= Capacity(bits) /\ Capacity(bits)' = Capacity(bits)
  <2>1. Capacity(bits) \in Nat
    BY Rooms DEF TableInv
  <2>2. Capacity(bits)' = Capacity(bits)
    BY <1>1 DEF Capacity
  <2>. QED BY <1>2, <2>1, <2>2
<1>6. HashOK'
  BY <1>1 DEF HashOK, TableInv
<1>. QED BY <1>1, <1>2, <1>3, <1>4, <1>5, <1>6, SoundNext, DistinctNext DEF TableInv

-----------------------------------------------------------------------------
(* The invariant holds.                                                      *)

\* reserve finds a number of bits, because the hash has enough for all rows.
LEMMA ReservedIs ==
  ASSUME NEW n \in 0 .. MaxRows
  PROVE  Reserved(n) \in 0 .. MaxBits
<1>1. /\ MaxBits \in Nat /\ StartBits \in 0 .. MaxBits - 1 /\ MaxRows \in 0 .. Capacity(MaxBits)
      /\ MaxBits \in 0 .. MaxBits
  BY TableAssumption
<1>2. Capacity(MaxBits) \in Nat
  BY <1>1, Rooms
<1>. DEFINE S == {b \in StartBits .. MaxBits : Capacity(b) >= n}
<1>3. S \in SUBSET Nat /\ MaxBits \in S
  BY <1>1, <1>2
<1>4. PICK x \in S : \A y \in S : x <= y
  BY <1>3, LeastOf
<1>5. Min(S) \in S
  <2>. HIDE DEF S
  <2>. QED BY <1>4 DEF Min
<1>6. Reserved(n) = IF n = 0 THEN 0 ELSE Min(S)
  BY DEF Reserved
<1>. QED BY <1>1, <1>5, <1>6

\* The table is sound before the first call: nothing is reserved, or the buckets are empty.
LEMMA InitTable == ASSUME Init PROVE TableInv
<1>1. PICK n \in 0 .. MaxRows : rows \in [1 .. n -> Keys]
  BY DEF Init
<1>2. MaxRows \in Nat
  <2>1. MaxBits \in 0 .. MaxBits /\ MaxRows \in 0 .. Capacity(MaxBits)
    BY TableAssumption
  <2>2. Capacity(MaxBits) \in Nat
    BY <2>1, Rooms
  <2>. QED BY <2>1, <2>2
<1>3. Len(rows) = n
  BY <1>1, <1>2
<1>4. bits \in 0 .. MaxBits
  BY <1>3, ReservedIs DEF Init
<1>5. HashOK /\ values = <<>> /\ (bits > 0 => buckets = NoBuckets(bits))
  BY <1>4, Powers DEF Init, HashOK
<1>6. values \in Seq(Keys \X Vals) /\ Len(values) = 0 /\ 1 .. Len(values) = {}
  BY <1>5
<1>7. Distinct(values, 1 .. Len(values))
  BY <1>6 DEF Distinct
<1>8. Len(values) <= Capacity(bits)
  <2>1. Capacity(bits) \in Nat
    BY <1>4, Rooms
  <2>. QED BY <1>6, <2>1
<1>9. ASSUME bits > 0 PROVE Sound(buckets, bits, values, 1 .. Len(values))
  <2>1. bits \in 1 .. MaxBits
    BY <1>4, <1>9, Powers
  <2>2. Sound(NoBuckets(bits), bits, values, {})
    BY <2>1, NoneSound
  <2>. QED BY <1>5, <1>6, <1>9, <2>2
<1>. QED BY <1>4, <1>5, <1>6, <1>7, <1>8, <1>9 DEF TableInv

\* No row has a group before the first push.
LEMMA InitGroups == ASSUME Init PROVE GroupInv
<1>1. PICK n \in 0 .. MaxRows : rows \in [1 .. n -> Keys]
  BY DEF Init
<1>2. n \in Nat
  <2>1. MaxBits \in 0 .. MaxBits /\ MaxRows \in 0 .. Capacity(MaxBits)
    BY TableAssumption
  <2>2. Capacity(MaxBits) \in Nat
    BY <2>1, Rooms
  <2>. QED BY <2>1, <2>2
<1>3. rows \in Seq(Keys) /\ Len(rows) = n
  BY <1>1, <1>2
<1>4. groups = <<>>
  BY DEF Init
<1>5. groups \in Seq(1 .. Len(values)) /\ Len(groups) = 0
  BY <1>4
<1>6. 1 .. Len(groups) = {} /\ 1 .. Len(values) = {}
  BY <1>5 DEF Init
<1>. QED BY <1>2, <1>3, <1>5, <1>6 DEF GroupInv

\* What a step does with the values and the groups.
LEMMA PushedKey ==
  ASSUME GroupInv, Push
  PROVE  /\ rows[Len(groups) + 1] \in Keys /\ (CHOOSE v \in Vals : TRUE) \in Vals
         /\ Len(groups) + 1 \in 1 .. Len(rows) /\ Len(groups) \in Nat
<1>1. rows \in Seq(Keys) /\ Len(groups) \in Nat /\ Len(groups) < Len(rows)
  BY DEF GroupInv, Push
<1>2. Len(groups) + 1 \in 1 .. Len(rows)
  BY <1>1
<1>3. Vals # {}
  BY TableAssumption
<1>. QED BY <1>1, <1>2, <1>3

\* Every call keeps the table sound.
LEMMA NextTable ==
  ASSUME TableInv, GroupInv, [Next]_vars
  PROVE  TableInv'
<1>1. CASE \E k \in Keys : Erase(k)
  BY <1>1, EraseKeeps
<1>2. CASE \E k \in Keys, v \in Vals : Insert(k, v)
  BY <1>2, EnterKeeps DEF Insert
<1>3. CASE Clear
  BY <1>3, ClearKeeps
<1>4. CASE Push
  <2>1. hash' = hash /\ Enter(rows[Len(groups) + 1], CHOOSE v \in Vals : TRUE, FALSE)
    BY <1>4 DEF Push
  <2>. QED BY <1>4, <2>1, PushedKey, EnterKeeps
<1>5. CASE UNCHANGED <<hash, bits, buckets, values>>
  <2>1. HashOK' /\ Capacity(bits)' = Capacity(bits)
    BY <1>5 DEF HashOK, Capacity, TableInv
  <2>2. bits' > 0 => Sound(buckets', bits', values', 1 .. Len(values'))
    BY <1>5 DEF TableInv
  <2>3. Distinct(values', 1 .. Len(values'))
    BY <1>5 DEF TableInv
  <2>. QED BY <1>5, <2>1, <2>2, <2>3, SoundNext, DistinctNext DEF TableInv
<1>6. CASE UNCHANGED vars
  BY <1>5, <1>6 DEF vars
<1>. QED BY <1>1, <1>2, <1>3, <1>4, <1>6 DEF Next

\* While rows are grouped only Push changes the table, which has no row otherwise.
LEMMA NextGroups ==
  ASSUME TableInv, GroupInv, [Next]_vars
  PROVE  GroupInv'
<1>1. /\ groups \in Seq(1 .. Len(values)) /\ Len(groups) \in Nat /\ Len(values) \in Nat
      /\ rows \in Seq(Keys) /\ Len(groups) <= Len(rows) /\ values \in Seq(Keys \X Vals)
      /\ \A r \in 1 .. Len(groups) : KeyAt(values, groups[r]) = rows[r] /\ InOrderUpTo(r)
      /\ rows # <<>> => \A g \in 1 .. Len(values) : \E x \in 1 .. Len(groups) : groups[x] = g
  BY DEF GroupInv, TableInv
<1>2. ASSUME rows = <<>>, groups' = groups, rows' = rows PROVE GroupInv'
  <2>1. Len(groups) = 0 /\ groups = <<>>
    BY <1>1, <1>2
  <2>2. groups' \in Seq(1 .. Len(values')) /\ Len(groups') = 0 /\ 1 .. Len(groups') = {}
    BY <1>2, <2>1
  <2>3. rows' \in Seq(Keys) /\ Len(groups') <= Len(rows')
    BY <1>1, <1>2, <2>2
  <2>. QED BY <1>2, <2>2, <2>3 DEF GroupInv
<1>3. CASE \E k \in Keys : Erase(k)
  BY <1>2, <1>3 DEF Erase, Call
<1>4. CASE \E k \in Keys, v \in Vals : Insert(k, v)
  BY <1>2, <1>4 DEF Insert, Call, Enter
<1>5. CASE Clear
  BY <1>2, <1>5 DEF Clear, Call
<1>6. CASE Push
  <2>. DEFINE l == Len(groups) + 1
              k == rows[l]
              v == CHOOSE v \in Vals : TRUE
  <2>1. hash' = hash /\ rows' = rows /\ Enter(k, v, FALSE) /\ rows # <<>>
    BY <1>6 DEF Push
  <2>2. k \in Keys /\ v \in Vals /\ l \in 1 .. Len(rows)
    BY <1>6, PushedKey
  <2>. HIDE DEF v
  <2>3. PICK g : /\ groups' = Append(groups, g) /\ g \in 1 .. Len(values') /\ KeyAt(values', g) = k
                 /\ Len(values') \in Nat /\ Len(values) <= Len(values')
                 /\ \A ix \in 1 .. Len(values) : values'[ix] = values[ix]
                 /\ Len(values') = Len(values) \/ (Len(values') = Len(values) + 1 /\ g = Len(values'))
    <3>1. \/ \E ix \in 1 .. Len(values) :
                 /\ KeyAt(values, ix) = k /\ values' = values /\ groups' = Append(groups, ix)
          \/ /\ values' = Append(values, <<k, v>>)
             /\ groups' = Append(groups, Len(values) + 1)
      <4>. HIDE DEF k
      <4>. QED BY <2>1, <2>2, EnterKeeps
    <3>2. CASE \E ix \in 1 .. Len(values) :
                 /\ KeyAt(values, ix) = k /\ values' = values /\ groups' = Append(groups, ix)
      BY <1>1, <3>2
    <3>3. CASE values' = Append(values, <<k, v>>) /\ groups' = Append(groups, Len(values) + 1)
      <4>1. <<k, v>> \in Keys \X Vals
        BY <2>2
      <4>2. /\ Len(values') = Len(values) + 1 /\ values'[Len(values) + 1] = <<k, v>>
            /\ \A ix \in 1 .. Len(values) : values'[ix] = values[ix]
        <5>. HIDE DEF k
        <5>. QED BY <1>1, <3>3, <4>1
      <4>. QED BY <1>1, <3>3, <4>2 DEF KeyAt
    <3>. QED BY <3>1, <3>2, <3>3
  <2>4. \A r \in 1 .. Len(groups) : groups[r] \in 1 .. Len(values) /\ groups[r] \in 1 .. Len(values')
    <3>1. \A r \in 1 .. Len(groups) : groups[r] \in 1 .. Len(values)
      BY <1>1
    <3>2. 1 .. Len(values) \subseteq 1 .. Len(values')
      BY <1>1, <2>3
    <3>. QED BY <3>1, <3>2
  <2>5. groups \in Seq(1 .. Len(values'))
    BY <1>1, <2>3
  <2>6. /\ groups' \in Seq(1 .. Len(values')) /\ Len(groups') = l
        /\ groups'[l] = g /\ \A r \in 1 .. Len(groups) : groups'[r] = groups[r]
    BY <1>1, <2>3, <2>5
  <2>7. \A r \in 1 .. Len(groups') : KeyAt(values', groups'[r]) = rows'[r]
    <3>1. ASSUME NEW r \in 1 .. Len(groups) PROVE KeyAt(values', groups'[r]) = rows'[r]
      BY <1>1, <2>1, <2>3, <2>4, <2>6 DEF KeyAt
    <3>2. KeyAt(values', groups'[l]) = rows'[l]
      BY <2>1, <2>3, <2>6
    <3>3. \A r \in 1 .. Len(groups') : r \in 1 .. Len(groups) \/ r = l
      BY <1>1, <2>6
    <3>. QED BY <3>1, <3>2, <3>3
  <2>8. rows' \in Seq(Keys) /\ Len(groups') <= Len(rows')
    BY <1>1, <2>1, <2>2, <2>6
  <2>9. \A h \in 1 .. Len(values') : \E x \in 1 .. l : groups'[x] = h
    <3>1. ASSUME NEW h \in 1 .. Len(values) PROVE \E x \in 1 .. l : groups'[x] = h
      <4>1. PICK x \in 1 .. Len(groups) : groups[x] = h
        BY <1>1, <2>1
      <4>2. groups'[x] = h
        BY <2>6, <4>1
      <4>3. x \in 1 .. l
        BY <1>1, <4>1
      <4>. QED BY <4>2, <4>3
    <3>2. \A h \in 1 .. Len(values') : h \in 1 .. Len(values) \/ h = g
      <4>1. Len(values') = Len(values) \/ (Len(values') = Len(values) + 1 /\ g = Len(values'))
        BY <2>3
      <4>. QED BY <1>1, <4>1
    <3>3. l \in 1 .. l
      BY <1>1
    <3>. QED BY <2>6, <3>1, <3>2, <3>3
  <2>10. \A r \in 1 .. Len(groups') : \A h \in 1 .. groups'[r] : \E x \in 1 .. r : groups'[x] = h
    <3>1. ASSUME NEW r \in 1 .. Len(groups), NEW h \in 1 .. groups'[r]
          PROVE  \E x \in 1 .. r : groups'[x] = h
      <4>1. PICK x \in 1 .. r : groups[x] = h
        BY <1>1, <2>6, <3>1 DEF InOrderUpTo
      <4>2. x \in 1 .. Len(groups)
        BY <1>1, <3>1
      <4>. QED BY <2>6, <4>1, <4>2
    <3>2. ASSUME NEW h \in 1 .. g PROVE \E x \in 1 .. l : groups'[x] = h
      <4>1. g \in 1 .. Len(values') /\ Len(values') \in Nat
        BY <2>3
      <4>2. h \in 1 .. Len(values')
        BY <4>1
      <4>. QED BY <2>9, <4>2, Zenon
    <3>3. \A r \in 1 .. Len(groups') : r \in 1 .. Len(groups) \/ r = l
      BY <1>1, <2>6
    <3>. QED BY <2>6, <3>1, <3>2, <3>3
  <2>. QED BY <2>6, <2>7, <2>8, <2>9, <2>10 DEF GroupInv, KeyAt, InOrderUpTo
<1>7. CASE UNCHANGED <<values, groups, rows>>
  BY <1>1, <1>7 DEF GroupInv, KeyAt, InOrderUpTo
<1>8. CASE UNCHANGED vars
  BY <1>7, <1>8 DEF vars
<1>. QED BY <1>3, <1>4, <1>5, <1>6, <1>8 DEF Next

\* The invariant is what the runs check of the index.
LEMMA SoundIndex == ASSUME TableInv, GroupInv PROVE IndexSound
<1>1. /\ HashOK /\ bits \in 0 .. MaxBits /\ values \in Seq(Keys \X Vals) /\ Len(values) \in Nat
      /\ Distinct(values, 1 .. Len(values)) /\ Len(values) <= Capacity(bits)
      /\ DOMAIN values = 1 .. Len(values) /\ Capacity(bits) \in Nat
  BY Rooms DEF TableInv
<1>2. ASSUME bits > 0
      PROVE  /\ bits \in 1 .. MaxBits /\ N[bits] \in Nat /\ N[bits] >= 1
             /\ Sound(buckets, bits, values, DOMAIN values) /\ DOMAIN buckets = Ring(bits)
             /\ \E p \in Ring(bits) : buckets[p] = Empty
  <2>1. bits \in 0 .. MaxBits
    BY <1>1
  <2>2. N[bits] \in Nat /\ N[bits] >= 1
    BY <2>1, Powers
  <2>3. Sound(buckets, bits, values, DOMAIN values)
    BY <1>1, <1>2 DEF TableInv
  <2>4. DOMAIN buckets = Ring(bits)
    BY <2>3 DEF Sound
  <2>. QED BY <1>2, <2>2, <2>3, <2>4, Vacant
<1>3. TypeOK
  <2>1. bits = 0 => values = <<>>
    BY <1>1, Rooms
  <2>2. groups \in Seq(DOMAIN values)
    BY <1>1 DEF GroupInv
  <2>. QED BY <1>1, <1>2, <2>1, <2>2 DEF TypeOK, Ring
<1>4. ASSUME bits > 0 PROVE
        /\ \A ix \in DOMAIN values : Cardinality({p \in DOMAIN buckets : buckets[p].at = ix}) = 1
        /\ \A p \in DOMAIN buckets : buckets[p] # Empty =>
             /\ buckets[p].dist > 0 /\ buckets[p].at \in DOMAIN values
             /\ LET k == KeyAt(values, buckets[p].at)
                IN  buckets[p].print = hash[k].print /\ Place(k, buckets[p].dist - 1, bits) = p
  <2>1. ASSUME NEW ix \in DOMAIN values PROVE Cardinality({p \in DOMAIN buckets : buckets[p].at = ix}) = 1
    <3>1. PICK p \in Ring(bits) : Alone(ix, p, buckets, bits)
      BY <1>2, <1>4 DEF Sound
    <3>2. {q \in DOMAIN buckets : buckets[q].at = ix} = {p}
      BY <1>2, <1>4, <3>1 DEF Alone
    <3>. QED BY <3>2, FS_Singleton
  <2>2. ASSUME NEW p \in DOMAIN buckets, buckets[p] # Empty
        PROVE  /\ buckets[p].dist > 0 /\ buckets[p].at \in DOMAIN values
               /\ LET k == KeyAt(values, buckets[p].at)
                  IN  buckets[p].print = hash[k].print /\ Place(k, buckets[p].dist - 1, bits) = p
    <3>1. Fits(buckets[p], p, bits, values, DOMAIN values) /\ buckets[p].dist \in Nat
      BY <1>2, <1>4, <2>2 DEF Sound, Bucket
    <3>2. buckets[p].dist > 0
      BY <3>1 DEF Fits
    <3>. QED BY <3>1, <3>2 DEF Fits
  <2>. QED BY <2>1, <2>2
<1>5. ASSUME bits > 0, NEW p \in DOMAIN buckets
      PROVE  LET q == buckets[(p + 1) % N[bits]]
             IN  q.dist > 1 => ~Less([buckets[p] EXCEPT !.dist = @ + 1], q)
  <2>. DEFINE q == buckets[(p + 1) % N[bits]]
              c == buckets[p]
              e == [buckets[p] EXCEPT !.dist = @ + 1]
  <2>1. p \in 0 .. N[bits] - 1 /\ N[bits] \in Nat /\ N[bits] >= 1 /\ p \in Ring(bits)
    BY <1>2, <1>5 DEF Ring
  <2>2. (p + 1) % N[bits] = Turn(p, N[bits])
    BY <2>1, Circle
  <2>3. Tight(c, q)
    BY <1>2, <1>5, <2>1, <2>2 DEF Sound
  <2>4. Turn(p, N[bits]) \in Ring(bits)
    BY <2>1 DEF Turn, Ring
  <2>5. c \in Bucket /\ q \in Bucket
    BY <1>2, <1>5, <2>1, <2>2, <2>4 DEF Sound
  <2>6. e.dist = c.dist + 1 /\ e.print = c.print /\ c.dist \in Nat /\ c.print \in Nat
    BY <2>5, Fields
  <2>7. q.dist \in Nat /\ q.print \in Nat
    BY <2>5, Fields
  <2>. HIDE DEF q, c, e
  <2>8. q.dist > 1 => ~Less(e, q)
    BY <2>3, <2>6, <2>7 DEF Tight, Less
  <2>. QED BY <2>8 DEF q, e
<1>6. ASSUME bits > 0, NEW k \in Keys
      PROVE  LET ix == Find(k)
             IN  IF ix = 0 THEN \A x \in DOMAIN values : KeyAt(values, x) # k ELSE KeyAt(values, ix) = k
  <2>1. Find(k) = IF values = <<>> THEN 0 ELSE Found(k, buckets, bits, values)
    BY DEF Find, FindIn, Found
  <2>2. LET ix == Found(k, buckets, bits, values)
        IN  IF ix = 0 THEN \A x \in DOMAIN values : KeyAt(values, x) # k
            ELSE ix \in DOMAIN values /\ KeyAt(values, ix) = k
    <3>1. Distinct(values, DOMAIN values)
      BY <1>1
    <3>. QED BY <1>1, <1>2, <1>6, <3>1, FoundSound
  <2>3. values = <<>> => DOMAIN values = {}
    OBVIOUS
  <2>. QED BY <2>1, <2>2, <2>3
<1>. QED BY <1>3, <1>4, <1>5, <1>6 DEF IndexSound, IndexExact, RobinHood, FindsAll

\* The two parts of the invariant hold in every state.
THEOREM TableInvariant == Spec => [](TableInv /\ GroupInv)
<1>1. Init => TableInv /\ GroupInv
  BY InitTable, InitGroups
<1>2. TableInv /\ GroupInv /\ [Next]_vars => (TableInv /\ GroupInv)'
  BY NextTable, NextGroups
<1>. QED BY <1>1, <1>2, PTL DEF Spec

\* However keys are inserted, erased and moved as the table grows, and whatever their hashes,
\* each value has one bucket, with its distance and fingerprint; the buckets are in Robin Hood
\* order; and a search finds each key that is there and no other.
THEOREM IndexIsSound == Spec => []IndexSound
<1>1. TableInv /\ GroupInv => IndexSound
  BY SoundIndex
<1>. QED BY <1>1, TableInvariant, PTL

-----------------------------------------------------------------------------
(* The table implements KeyedStore.                                          *)

ContentsOf(vs) ==
  [k \in {KeyAt(vs, ix) : ix \in DOMAIN vs} |-> vs[CHOOSE ix \in DOMAIN vs : KeyAt(vs, ix) = k][2]]

\* The refinement mapping, before and after a step.
LEMMA ContentsNow ==
  Contents = ContentsOf(values) /\ Contents' = ContentsOf(values')
BY DEF Contents, ContentsOf, KeyAt

\* With different keys, each key has the value that is next to it.
LEMMA ContentsIs ==
  ASSUME NEW vs \in Seq(Keys \X Vals), Distinct(vs, 1 .. Len(vs))
  PROVE  /\ DOMAIN ContentsOf(vs) = {KeyAt(vs, ix) : ix \in 1 .. Len(vs)}
         /\ \A ix \in 1 .. Len(vs) : ContentsOf(vs)[KeyAt(vs, ix)] = vs[ix][2]
<1>1. DOMAIN vs = 1 .. Len(vs)
  OBVIOUS
<1>2. DOMAIN ContentsOf(vs) = {KeyAt(vs, ix) : ix \in 1 .. Len(vs)}
  BY <1>1 DEF ContentsOf
<1>3. ASSUME NEW ix \in 1 .. Len(vs)
      PROVE  ContentsOf(vs)[KeyAt(vs, ix)] = vs[ix][2]
  <2>. DEFINE k == KeyAt(vs, ix)
              x == CHOOSE j \in 1 .. Len(vs) : KeyAt(vs, j) = k
  <2>1. x \in 1 .. Len(vs) /\ KeyAt(vs, x) = k
    <3>1. \E j \in 1 .. Len(vs) : KeyAt(vs, j) = k
      OBVIOUS
    <3>. HIDE DEF k
    <3>. QED BY <3>1
  <2>. HIDE DEF x
  <2>2. x = ix
    BY <2>1 DEF Distinct
  <2>3. ContentsOf(vs)[k] = vs[x][2]
    BY <1>1 DEF ContentsOf, x
  <2>. QED BY <2>2, <2>3
<1>. QED BY <1>2, <1>3

\* A function that gives each key its value is the contents.
GivesEach(f, vs) ==
  /\ f = [x \in DOMAIN f |-> f[x]] /\ DOMAIN f = {KeyAt(vs, ix) : ix \in 1 .. Len(vs)}
  /\ \A ix \in 1 .. Len(vs) : f[KeyAt(vs, ix)] = vs[ix][2]

\* There is one function that gives each key its value.
LEMMA ContentsAre ==
  ASSUME NEW vs \in Seq(Keys \X Vals), Distinct(vs, 1 .. Len(vs)), NEW f, GivesEach(f, vs)
  PROVE  ContentsOf(vs) = f
<1>0. /\ f = [x \in DOMAIN f |-> f[x]] /\ DOMAIN f = {KeyAt(vs, ix) : ix \in 1 .. Len(vs)}
      /\ \A ix \in 1 .. Len(vs) : f[KeyAt(vs, ix)] = vs[ix][2]
  BY Zenon DEF GivesEach
<1>. DEFINE D == DOMAIN f
<1>1. /\ DOMAIN ContentsOf(vs) = D
      /\ \A ix \in 1 .. Len(vs) : ContentsOf(vs)[KeyAt(vs, ix)] = vs[ix][2]
  BY <1>0, ContentsIs
<1>2. ContentsOf(vs) = [x \in D |-> ContentsOf(vs)[x]]
  <2>1. ContentsOf(vs) = [k \in DOMAIN ContentsOf(vs) |-> ContentsOf(vs)[k]]
    BY DEF ContentsOf
  <2>. QED BY <1>1, <2>1
<1>3. \A x \in D : ContentsOf(vs)[x] = f[x]
  BY <1>0, <1>1
<1>. QED BY <1>0, <1>2, <1>3

\* The contents after a change at one key.
Emplaced(c, k, v) == [x \in DOMAIN c \cup {k} |-> IF x = k THEN v ELSE c[x]]
Assigned(c, k, v) == [c EXCEPT ![k] = v]
Dropped(c, k) == [x \in DOMAIN c \ {k} |-> c[x]]

\* A new key is added with its value.
LEMMA EmplaceIs ==
  ASSUME NEW vs \in Seq(Keys \X Vals), NEW us \in Seq(Keys \X Vals),
         Distinct(vs, 1 .. Len(vs)), Distinct(us, 1 .. Len(us)),
         NEW k \in Keys, NEW v \in Vals, us = Append(vs, <<k, v>>),
         k \notin DOMAIN ContentsOf(vs)
  PROVE  ContentsOf(us) = Emplaced(ContentsOf(vs), k, v)
<1>. DEFINE c == ContentsOf(vs)
            n == Len(vs)
            f == [x \in DOMAIN c \cup {k} |-> IF x = k THEN v ELSE c[x]]
<1>1. /\ DOMAIN c = {KeyAt(vs, ix) : ix \in 1 .. n}
      /\ \A ix \in 1 .. n : c[KeyAt(vs, ix)] = vs[ix][2]
  BY ContentsIs
<1>2. k \notin DOMAIN c
  OBVIOUS
<1>3. n \in Nat /\ Len(us) = n + 1 /\ us[n + 1] = <<k, v>> /\ \A ix \in 1 .. n : us[ix] = vs[ix]
  BY Zenon, SMT
<1>4. KeyAt(us, n + 1) = k /\ \A ix \in 1 .. n : KeyAt(us, ix) = KeyAt(vs, ix)
  BY <1>3 DEF KeyAt
<1>5. \A ix \in 1 .. Len(us) : ix \in 1 .. n \/ ix = n + 1
  BY <1>3
<1>. HIDE DEF c
<1>6. DOMAIN c \cup {k} = {KeyAt(us, ix) : ix \in 1 .. Len(us)}
  <2>1. \A ix \in 1 .. n : ix \in 1 .. Len(us)
    BY <1>3
  <2>2. n + 1 \in 1 .. Len(us)
    BY <1>3
  <2>. HIDE DEF n
  <2>. QED BY <1>1, <1>4, <1>5, <2>1, <2>2
<1>7. \A ix \in 1 .. Len(us) : f[KeyAt(us, ix)] = us[ix][2]
  <2>1. ASSUME NEW ix \in 1 .. n PROVE f[KeyAt(us, ix)] = us[ix][2]
    <3>1. KeyAt(us, ix) # k /\ KeyAt(us, ix) \in DOMAIN c /\ c[KeyAt(us, ix)] = vs[ix][2]
      BY <1>1, <1>2, <1>4
    <3>. QED BY <1>3, <3>1
  <2>2. f[KeyAt(us, n + 1)] = us[n + 1][2]
    BY <1>3, <1>4
  <2>. HIDE DEF f
  <2>. QED BY <1>5, <2>1, <2>2
<1>8. f = [x \in DOMAIN f |-> f[x]] /\ DOMAIN f = DOMAIN c \cup {k}
  OBVIOUS
<1>. HIDE DEF f
<1>9. ContentsOf(us) = f
  <2>1. DOMAIN f = {KeyAt(us, j) : j \in 1 .. Len(us)}
    BY <1>6, <1>8
  <2>2. GivesEach(f, us)
    BY <1>7, <1>8, <2>1, Zenon DEF GivesEach
  <2>. QED BY <2>2, ContentsAre
<1>. QED BY <1>9 DEF c, f, Emplaced

\* insert_or_assign gives a key that is there the new value.
LEMMA AssignIs ==
  ASSUME NEW vs \in Seq(Keys \X Vals), NEW us \in Seq(Keys \X Vals),
         Distinct(vs, 1 .. Len(vs)), Distinct(us, 1 .. Len(us)),
         NEW k \in Keys, NEW v \in Vals, NEW ix \in 1 .. Len(vs), KeyAt(vs, ix) = k,
         us = [vs EXCEPT ![ix] = <<k, v>>]
  PROVE  k \in DOMAIN ContentsOf(vs) /\ ContentsOf(us) = Assigned(ContentsOf(vs), k, v)
<1>. DEFINE c == ContentsOf(vs)
            n == Len(vs)
            f == [c EXCEPT ![k] = v]
<1>1. /\ DOMAIN c = {KeyAt(vs, j) : j \in 1 .. n}
      /\ \A j \in 1 .. n : c[KeyAt(vs, j)] = vs[j][2]
  BY ContentsIs
<1>2. k \in DOMAIN c
  BY <1>1
<1>3. Len(us) = n /\ \A j \in 1 .. n : us[j] = IF j = ix THEN <<k, v>> ELSE vs[j]
  <2>1. us \in [1 .. n -> Keys \X Vals]
    BY SMT
  <2>. QED BY <2>1
<1>4. \A j \in 1 .. n : KeyAt(us, j) = KeyAt(vs, j)
  BY <1>3 DEF KeyAt
<1>5. \A j \in 1 .. n : KeyAt(vs, j) = k => j = ix
  BY DEF Distinct
<1>. HIDE DEF c
<1>6. DOMAIN c = {KeyAt(us, j) : j \in 1 .. Len(us)}
  BY <1>1, <1>3, <1>4
<1>7. \A j \in 1 .. Len(us) : f[KeyAt(us, j)] = us[j][2]
  <2>1. ASSUME NEW j \in 1 .. n PROVE f[KeyAt(us, j)] = us[j][2]
    <3>1. KeyAt(us, j) \in DOMAIN c /\ c[KeyAt(us, j)] = vs[j][2]
      BY <1>1, <1>4
    <3>2. KeyAt(us, j) = k <=> j = ix
      BY <1>4, <1>5
    <3>3. f[KeyAt(us, j)] = IF KeyAt(us, j) = k THEN v ELSE c[KeyAt(us, j)]
      BY <3>1
    <3>4. us[j] = IF j = ix THEN <<k, v>> ELSE vs[j]
      BY <1>3
    <3>5. <<k, v>>[2] = v
      OBVIOUS
    <3>. HIDE DEF f
    <3>. QED BY <3>1, <3>2, <3>3, <3>4, <3>5
  <2>. QED BY <1>3, <2>1
<1>8. f = [x \in DOMAIN f |-> f[x]] /\ DOMAIN f = DOMAIN c
  <2>1. c = [x \in DOMAIN c |-> c[x]]
    BY DEF c, ContentsOf
  <2>. QED BY <2>1
<1>. HIDE DEF f
<1>9. ContentsOf(us) = f
  <2>1. DOMAIN f = {KeyAt(us, j) : j \in 1 .. Len(us)}
    BY <1>6, <1>8
  <2>2. GivesEach(f, us)
    BY <1>7, <1>8, <2>1, Zenon DEF GivesEach
  <2>. QED BY <2>2, ContentsAre
<1>. QED BY <1>2, <1>9 DEF c, f, Assigned

\* An erasure takes the key out.
LEMMA EraseIs ==
  ASSUME NEW vs \in Seq(Keys \X Vals), NEW us \in Seq(Keys \X Vals),
         Distinct(vs, 1 .. Len(vs)), Distinct(us, 1 .. Len(us)),
         NEW k \in Keys, NEW ix \in 1 .. Len(vs), KeyAt(vs, ix) = k, us = Shorter(vs, ix)
  PROVE  k \in DOMAIN ContentsOf(vs) /\ ContentsOf(us) = Dropped(ContentsOf(vs), k)
<1>. DEFINE c == ContentsOf(vs)
            n == Len(vs)
            f == [x \in DOMAIN c \ {k} |-> c[x]]
            from(j) == IF j = ix THEN n ELSE j
<1>1. /\ DOMAIN c = {KeyAt(vs, j) : j \in 1 .. n}
      /\ \A j \in 1 .. n : c[KeyAt(vs, j)] = vs[j][2]
  BY ContentsIs
<1>2. k \in DOMAIN c
  BY <1>1
<1>3. n \in Nat /\ Len(us) = n - 1 /\ \A j \in 1 .. n - 1 : us[j] = vs[from(j)]
  BY ShorterIs
<1>4. \A j \in 1 .. n - 1 : KeyAt(us, j) = KeyAt(vs, from(j))
  BY <1>3 DEF KeyAt
<1>5. \A j \in 1 .. n : KeyAt(vs, j) = k => j = ix
  BY DEF Distinct
<1>6. /\ \A j \in 1 .. n - 1 : from(j) \in 1 .. n /\ from(j) # ix
      /\ \A j \in 1 .. n : j # ix => \E m \in 1 .. n - 1 : from(m) = j
  <2>1. ASSUME NEW j \in 1 .. n - 1 PROVE from(j) \in 1 .. n /\ from(j) # ix
    BY <1>3
  <2>2. ASSUME NEW j \in 1 .. n, j # ix PROVE \E m \in 1 .. n - 1 : from(m) = j
    <3>1. CASE j = n
      <4>1. ix \in 1 .. n - 1 /\ from(ix) = j
        BY <1>3, <2>2, <3>1
      <4>. QED BY <4>1
    <3>2. CASE j # n
      <4>1. j \in 1 .. n - 1 /\ from(j) = j
        BY <1>3, <2>2, <3>2
      <4>. QED BY <4>1
    <3>. QED BY <3>1, <3>2
  <2>. QED BY <2>1, <2>2
<1>. HIDE DEF c, from, n
<1>7. DOMAIN c \ {k} = {KeyAt(us, j) : j \in 1 .. Len(us)}
  <2>1. ASSUME NEW x \in DOMAIN c \ {k} PROVE x \in {KeyAt(us, j) : j \in 1 .. Len(us)}
    <3>1. PICK j \in 1 .. n : x = KeyAt(vs, j)
      BY <1>1
    <3>2. j # ix
      BY <3>1
    <3>3. PICK m \in 1 .. n - 1 : from(m) = j
      BY <1>6, <3>2
    <3>. QED BY <1>3, <1>4, <3>1, <3>3
  <2>2. ASSUME NEW j \in 1 .. Len(us) PROVE KeyAt(us, j) \in DOMAIN c \ {k}
    <3>1. j \in 1 .. n - 1
      BY <1>3
    <3>2. KeyAt(us, j) = KeyAt(vs, from(j)) /\ from(j) \in 1 .. n /\ from(j) # ix
      BY <1>4, <1>6, <3>1
    <3>. QED BY <1>1, <1>5, <3>2
  <2>. QED BY <2>1, <2>2
<1>8. \A j \in 1 .. Len(us) : f[KeyAt(us, j)] = us[j][2]
  <2>1. ASSUME NEW j \in 1 .. Len(us) PROVE f[KeyAt(us, j)] = us[j][2]
    <3>1. j \in 1 .. n - 1
      BY <1>3
    <3>2. KeyAt(us, j) = KeyAt(vs, from(j)) /\ from(j) \in 1 .. n /\ us[j] = vs[from(j)]
      BY <1>3, <1>4, <1>6, <3>1
    <3>3. KeyAt(us, j) \in DOMAIN c \ {k}
      BY <1>7
    <3>. QED BY <1>1, <3>2, <3>3
  <2>. QED BY <2>1
<1>9. f = [x \in DOMAIN f |-> f[x]] /\ DOMAIN f = DOMAIN c \ {k}
  OBVIOUS
<1>. HIDE DEF f
<1>10. ContentsOf(us) = f
  <2>1. DOMAIN f = {KeyAt(us, j) : j \in 1 .. Len(us)}
    BY <1>7, <1>9
  <2>2. GivesEach(f, us)
    BY <1>8, <1>9, <2>1, Zenon DEF GivesEach
  <2>. QED BY <2>2, ContentsAre
<1>. QED BY <1>2, <1>10 DEF c, f, Dropped

\* Each step changes the store at one key, or not at all.
LEMMA InitStore == ASSUME Init PROVE Store!Init
<1>1. values = <<>> /\ DOMAIN values = {}
  BY DEF Init
<1>2. Contents = [k \in {} |-> values[CHOOSE ix \in DOMAIN values : KeyAt(values, ix) = k][2]]
  BY <1>1 DEF Contents
<1>3. Contents = <<>>
  BY <1>2
<1>. QED BY <1>3 DEF Store!Init

\* Entering a key is Emplace, Assign or no step of the store.
LEMMA EnterStore ==
  ASSUME TableInv, hash' = hash, NEW k \in Keys, NEW v \in Vals, NEW replace \in BOOLEAN,
         Enter(k, v, replace)
  PROVE  [Store!Next]_Contents
<1>1. /\ values \in Seq(Keys \X Vals) /\ values' \in Seq(Keys \X Vals)
      /\ Distinct(values, 1 .. Len(values)) /\ Distinct(values', 1 .. Len(values'))
  <2>1. TableInv'
    BY EnterKeeps
  <2>2. values' \in Seq(Keys \X Vals) /\ Distinct(values, 1 .. Len(values))'
    BY <2>1 DEF TableInv
  <2>. QED BY <2>2 DEF TableInv, Distinct, KeyAt
<1>2. Contents = ContentsOf(values) /\ Contents' = ContentsOf(values')
  BY ContentsNow
<1>3. \/ \E ix \in 1 .. Len(values) :
           /\ KeyAt(values, ix) = k
           /\ values' = IF replace THEN [values EXCEPT ![ix] = <<k, v>>] ELSE values
      \/ /\ \A ix \in 1 .. Len(values) : KeyAt(values, ix) # k
         /\ values' = Append(values, <<k, v>>)
  BY EnterKeeps
<1>4. CASE values' = values
  BY <1>2, <1>4
<1>5. CASE \E ix \in 1 .. Len(values) : KeyAt(values, ix) = k /\ values' = [values EXCEPT ![ix] = <<k, v>>]
  <2>1. k \in DOMAIN Contents /\ Contents' = Assigned(Contents, k, v)
    <3>1. PICK ix \in 1 .. Len(values) : KeyAt(values, ix) = k /\ values' = [values EXCEPT ![ix] = <<k, v>>]
      BY <1>5
    <3>2. PICK us \in Seq(Keys \X Vals) : us = values'
      BY <1>1
    <3>3. Distinct(us, 1 .. Len(us)) /\ us = [values EXCEPT ![ix] = <<k, v>>]
      BY <1>1, <3>1, <3>2
    <3>4. k \in DOMAIN ContentsOf(values) /\ ContentsOf(us) = Assigned(ContentsOf(values), k, v)
      <4>1. values \in Seq(Keys \X Vals) /\ Distinct(values, 1 .. Len(values)) /\ KeyAt(values, ix) = k
        BY <1>1, <3>1
      <4>. QED BY ONLY <3>3, <4>1, AssignIs
    <3>. QED BY <1>2, <3>2, <3>4
  <2>2. Store!Assign(k, v)
    BY <2>1 DEF Store!Assign, Assigned
  <2>. QED BY <2>2 DEF Store!Next
<1>6. CASE (\A ix \in 1 .. Len(values) : KeyAt(values, ix) # k) /\ values' = Append(values, <<k, v>>)
  <2>1. k \notin DOMAIN Contents /\ Contents' = Emplaced(Contents, k, v)
    <3>1. PICK us \in Seq(Keys \X Vals) : us = values'
      BY <1>1
    <3>2. Distinct(us, 1 .. Len(us)) /\ us = Append(values, <<k, v>>)
      BY <1>1, <1>6, <3>1
    <3>3. k \notin DOMAIN ContentsOf(values)
      <4>1. DOMAIN ContentsOf(values) = {KeyAt(values, ix) : ix \in 1 .. Len(values)}
        BY <1>1, ContentsIs
      <4>. QED BY <1>6, <4>1
    <3>4. ContentsOf(us) = Emplaced(ContentsOf(values), k, v)
      BY <1>1, <3>2, <3>3, EmplaceIs
    <3>. QED BY <1>2, <3>1, <3>3, <3>4
  <2>2. Store!Emplace(k, v)
    BY <2>1 DEF Store!Emplace, Emplaced
  <2>. QED BY <2>2 DEF Store!Next
<1>. QED BY <1>3, <1>4, <1>5, <1>6

\* Every step of the table is a step of the store or none.
LEMMA NextStore ==
  ASSUME TableInv, GroupInv, [Next]_vars
  PROVE  [Store!Next]_Contents
<1>0. Contents = ContentsOf(values) /\ Contents' = ContentsOf(values')
  BY ContentsNow
<1>1. ASSUME NEW k \in Keys, Erase(k) PROVE [Store!Next]_Contents
  <2>1. /\ TableInv'
        /\ \/ \E ix \in 1 .. Len(values) : KeyAt(values, ix) = k /\ values' = Shorter(values, ix)
           \/ values' = values
    BY <1>1, EraseKeeps
  <2>2. /\ values \in Seq(Keys \X Vals) /\ values' \in Seq(Keys \X Vals)
        /\ Distinct(values, 1 .. Len(values)) /\ Distinct(values', 1 .. Len(values'))
    <3>1. values' \in Seq(Keys \X Vals) /\ Distinct(values, 1 .. Len(values))'
      BY <2>1 DEF TableInv
    <3>. QED BY <3>1 DEF TableInv, Distinct, KeyAt
  <2>3. CASE values' = values
    BY <1>0, <2>3
  <2>4. CASE \E ix \in 1 .. Len(values) : KeyAt(values, ix) = k /\ values' = Shorter(values, ix)
    <3>1. k \in DOMAIN Contents /\ Contents' = Dropped(Contents, k)
      <4>1. PICK ix \in 1 .. Len(values) : KeyAt(values, ix) = k /\ values' = Shorter(values, ix)
        BY <2>4
      <4>2. PICK us \in Seq(Keys \X Vals) : us = values'
        BY <2>2
      <4>3. Distinct(us, 1 .. Len(us)) /\ us = Shorter(values, ix)
        BY <2>2, <4>1, <4>2
      <4>4. k \in DOMAIN ContentsOf(values) /\ ContentsOf(us) = Dropped(ContentsOf(values), k)
        BY <2>2, <4>1, <4>3, EraseIs
      <4>. QED BY <1>0, <4>2, <4>4
    <3>2. Store!Erase(k)
      BY <3>1 DEF Store!Erase, Dropped
    <3>. QED BY <3>2 DEF Store!Next
  <2>. QED BY <2>1, <2>3, <2>4
<1>2. CASE \E k \in Keys, v \in Vals : Insert(k, v)
  BY <1>2, EnterStore DEF Insert
<1>3. CASE Clear
  <2>1. values' = <<>> /\ DOMAIN values' = {}
    BY <1>3 DEF Clear
  <2>2. ContentsOf(values') = <<>>
    <3>1. ContentsOf(values') = [k \in {} |-> values'[CHOOSE ix \in DOMAIN values' : KeyAt(values', ix) = k][2]]
      BY <2>1 DEF ContentsOf
    <3>. QED BY <3>1
  <2>3. Store!Clear
    BY <1>0, <2>2 DEF Store!Clear
  <2>. QED BY <2>3 DEF Store!Next
<1>4. CASE Push
  <2>1. hash' = hash /\ Enter(rows[Len(groups) + 1], CHOOSE v \in Vals : TRUE, FALSE)
    BY <1>4 DEF Push
  <2>. QED BY <1>4, <2>1, PushedKey, EnterStore
<1>5. CASE values' = values
  BY <1>0, <1>5
<1>6. CASE UNCHANGED vars
  BY <1>5, <1>6 DEF vars
<1>. QED BY <1>1, <1>2, <1>3, <1>4, <1>6 DEF Next

\* The table implements the partial function: every call changes it at one key, as the call
\* says, and growing the table, moving values and grouping rows do not show.
THEOREM ImplementsStore == Spec => IsStore
<1>1. Init => Store!Init
  BY InitStore
<1>2. TableInv /\ GroupInv /\ [Next]_vars => [Store!Next]_Contents
  BY NextStore
<1>. QED BY <1>1, <1>2, TableInvariant, PTL DEF Spec, IsStore, Store!Spec

-----------------------------------------------------------------------------
(* Grouping.                                                                 *)

\* GROUP BY gives two rows the same number exactly when their keys are equal, in the order in
\* which the keys first occur, for every column, every hash and every size of the table.
THEOREM RowsAreGrouped == Spec => []RowsGrouped
<1>1. TableInv /\ GroupInv => RowsGrouped
  <2>. SUFFICES ASSUME TableInv, GroupInv, NEW r \in DOMAIN groups
                PROVE  /\ KeyAt(values, groups[r]) = rows[r]
                       /\ \A x \in 1 .. r : groups[x] = groups[r] <=> rows[x] = rows[r]
                       /\ \A g \in 1 .. groups[r] : \E x \in 1 .. r : groups[x] = g
    BY DEF RowsGrouped
  <2>1. /\ groups \in Seq(1 .. Len(values)) /\ Len(groups) \in Nat /\ Len(values) \in Nat
        /\ r \in 1 .. Len(groups)
        /\ \A x \in 1 .. Len(groups) : KeyAt(values, groups[x]) = rows[x] /\ groups[x] \in 1 .. Len(values)
        /\ \A x \in 1 .. Len(groups) : InOrderUpTo(x)
    BY DEF GroupInv, TableInv
  <2>2. \A x \in 1 .. r : x \in 1 .. Len(groups)
    BY <2>1
  <2>3. \A g, h \in 1 .. Len(values) : KeyAt(values, g) = KeyAt(values, h) => g = h
    BY DEF TableInv, Distinct
  <2>. QED BY <2>1, <2>2, <2>3 DEF InOrderUpTo
<1>. QED BY <1>1, TableInvariant, PTL

-----------------------------------------------------------------------------
(* The aggregates.  Their invariant says where each function is in its loops *)
(* (Control), what the accumulators hold before row i (AccOK), that the      *)
(* cells are filled so far (FirstFills, AllFilled) and that each of them is  *)
(* the value of its window (AllRight).                                       *)

-----------------------------------------------------------------------------
(* Sums of rows.                                                             *)

\* A sum of one element more.
LEMMA TotalIs ==
  ASSUME Bounds, NEW f, NEW lo
  PROVE  /\ Total(f, lo, 0) = 0
         /\ \A n \in 1..MaxLen : Total(f, lo, n) = Total(f, lo, n - 1) + f[lo + n - 1]
<1>. DEFINE Totals(m, t) == t = [k \in 0..m |-> IF k = 0 THEN 0 ELSE t[k - 1] + f[lo + k - 1]]
            Bad == {m \in 0..MaxLen : ~\E t : Totals(m, t)}
<1>0. MaxLen \in Nat
  BY DEF Bounds
<1>1. ASSUME Bad # {} PROVE FALSE
  <2>1. Bad \in SUBSET Nat
    OBVIOUS
  <2>2. PICK m \in Bad : \A x \in Bad : m <= x
    BY <1>1, <2>1, LeastOf
  <2>. HIDE DEF Totals
  <2>3. m \in 0..MaxLen /\ ~\E t : Totals(m, t)
    OBVIOUS
  <2>4. m # 0
    <3>1. Totals(0, [k \in 0..0 |-> 0])
      BY DEF Totals
    <3>. QED BY <2>3, <3>1
  <2>5. m - 1 \in 0..MaxLen /\ m - 1 \notin Bad
    <3>1. m - 1 \in 0..MaxLen /\ ~(m <= m - 1)
      BY <1>0, <2>3, <2>4
    <3>. QED BY <2>2, <3>1
  <2>6. PICK t : Totals(m - 1, t)
    BY <2>5
  <2>. DEFINE g == [k \in 0..m |-> IF k = m THEN t[m - 1] + f[lo + m - 1] ELSE t[k]]
  <2>7. Totals(m, g)
    <3>1. ASSUME NEW k \in 0..m PROVE g[k] = IF k = 0 THEN 0 ELSE g[k - 1] + f[lo + k - 1]
      <4>1. CASE k = m
        <5>1. g[k] = t[m - 1] + f[lo + m - 1] /\ g[k - 1] = t[m - 1]
          BY <2>3, <2>4, <4>1
        <5>. QED BY <2>4, <4>1, <5>1
      <4>2. CASE k # m
        <5>1. k \in 0..m - 1 /\ g[k] = t[k]
          BY <2>3, <4>2
        <5>2. t[k] = IF k = 0 THEN 0 ELSE t[k - 1] + f[lo + k - 1]
          BY <2>6, <5>1, Zenon DEF Totals
        <5>3. k # 0 => k - 1 \in 0..m /\ k - 1 # m
          BY <2>3, <5>1
        <5>4. k # 0 => g[k - 1] = t[k - 1]
          BY <5>3
        <5>. QED BY <5>1, <5>2, <5>4
      <4>. QED BY <4>1, <4>2
    <3>. QED BY <3>1 DEF Totals
  <2>. QED BY <2>3, <2>7
<1>2. \E t : Totals(MaxLen, t)
  BY <1>0, <1>1
<1>3. PICK t : t = CHOOSE g : Totals(MaxLen, g)
  OBVIOUS
<1>4. Totals(MaxLen, t)
  BY <1>2, <1>3
<1>5. ASSUME NEW n PROVE Total(f, lo, n) = t[n]
  BY <1>3 DEF Total
<1>6. ASSUME NEW n \in 0..MaxLen PROVE t[n] = IF n = 0 THEN 0 ELSE t[n - 1] + f[lo + n - 1]
  <2>. HIDE DEF Totals
  <2>1. t = [k \in 0..MaxLen |-> IF k = 0 THEN 0 ELSE t[k - 1] + f[lo + k - 1]]
    BY <1>4 DEF Totals
  <2>. QED BY <2>1, Zenon
<1>7. 0 \in 0..MaxLen /\ \A n \in 1..MaxLen : n \in 0..MaxLen /\ n # 0
  BY <1>0
<1>. QED BY <1>5, <1>6, <1>7

\* Sums of integers are integers.
LEMMA TotalInt ==
  ASSUME Bounds, NEW n \in 0..MaxLen, NEW f \in [0..(n - 1) -> Int], NEW lo \in Nat, NEW m \in 0..(n - lo)
  PROVE  Total(f, lo, m) \in Int
<1>. DEFINE Bad == {k \in 0..m : Total(f, lo, k) \notin Int}
<1>0. MaxLen \in Nat
  BY DEF Bounds
<1>1. ASSUME Bad # {} PROVE FALSE
  <2>1. Bad \in SUBSET Nat
    OBVIOUS
  <2>2. PICK k \in Bad : \A x \in Bad : k <= x
    BY <1>1, <2>1, LeastOf
  <2>3. k \in 0..m /\ Total(f, lo, k) \notin Int
    OBVIOUS
  <2>4. k # 0
    BY <2>3, TotalIs
  <2>5. k - 1 \in 0..m /\ k \in 1..MaxLen /\ ~(k <= k - 1) /\ lo + k - 1 \in 0..(n - 1)
    BY <1>0, <2>3, <2>4
  <2>6. k - 1 \notin Bad
    BY <2>2, <2>5
  <2>7. Total(f, lo, k - 1) \in Int
    BY <2>5, <2>6
  <2>8. Total(f, lo, k) = Total(f, lo, k - 1) + f[lo + k - 1]
    BY <2>5, TotalIs
  <2>. QED BY <2>3, <2>5, <2>7, <2>8
<1>. QED BY <1>1

\* A window that moves on by one row loses the first and gains the next.
LEMMA TotalMoves ==
  ASSUME Bounds, NEW n \in 0..MaxLen, NEW f \in [0..(n - 1) -> Int], NEW lo \in Nat, NEW m \in Nat, lo + m + 1 <= n
  PROVE  Total(f, lo + 1, m) = Total(f, lo, m) + f[lo + m] - f[lo]
<1>. DEFINE Bad == {k \in 0..m : Total(f, lo + 1, k) # Total(f, lo, k) + f[lo + k] - f[lo]}
<1>0. MaxLen \in Nat
  BY DEF Bounds
<1>1. \A k \in 0..m : lo + k \in 0..(n - 1) /\ f[lo + k] \in Int /\ f[lo] \in Int
  BY <1>0
<1>2. ASSUME Bad # {} PROVE FALSE
  <2>1. Bad \in SUBSET Nat
    OBVIOUS
  <2>2. PICK k \in Bad : \A x \in Bad : k <= x
    BY <1>2, <2>1, LeastOf
  <2>3. k \in 0..m /\ Total(f, lo + 1, k) # Total(f, lo, k) + f[lo + k] - f[lo]
    OBVIOUS
  <2>4. k # 0
    <3>1. Total(f, lo + 1, 0) = 0 /\ Total(f, lo, 0) = 0
      BY TotalIs
    <3>2. 0 \in 0..m /\ lo + 0 = lo
      OBVIOUS
    <3>. QED BY <1>1, <2>3, <3>1, <3>2
  <2>5. k - 1 \in 0..m /\ k \in 1..MaxLen /\ ~(k <= k - 1) /\ k \in Nat
    BY <1>0, <2>3, <2>4
  <2>6. k - 1 \notin Bad
    BY <2>2, <2>5
  <2>7. Total(f, lo + 1, k - 1) = Total(f, lo, k - 1) + f[lo + (k - 1)] - f[lo]
    BY <2>5, <2>6
  <2>8. /\ Total(f, lo, k) = Total(f, lo, k - 1) + f[lo + k - 1]
        /\ Total(f, lo + 1, k) = Total(f, lo + 1, k - 1) + f[lo + 1 + k - 1]
    BY <2>5, TotalIs
  <2>9. lo + 1 + k - 1 = lo + k /\ lo + k - 1 = lo + (k - 1)
    BY <2>5
  <2>10. Total(f, lo, k - 1) \in Int
    <3>1. k - 1 \in 0..(n - lo)
      BY <2>5
    <3>. QED BY <3>1, TotalInt
  <2>. QED BY <1>1, <2>3, <2>5, <2>7, <2>8, <2>9, <2>10
<1>3. m \in 0..m
  OBVIOUS
<1>. QED BY <1>2, <1>3

-----------------------------------------------------------------------------
(* Averages and variances.                                                   *)

\* What a quotient is.
LEMMA Quotient ==
  ASSUME NEW x \in Int, NEW n \in Nat \ {0}
  PROVE  /\ x \div n \in Int /\ n * (x \div n) <= x /\ x < n * (x \div n) + n
         /\ \A d \in Int : n * d <= x /\ x < n * d + n => x \div n = d
<1>. DEFINE q == x \div n
<1>1. q \in Int /\ n * q <= x /\ x < n * q + n
  OBVIOUS
<1>2. ASSUME NEW d \in Int, n * d <= x, x < n * d + n PROVE q = d
  <2>. HIDE DEF q
  <2>1. CASE q < d
    <3>1. n * (q + 1) <= n * d
      <4>1. \E e \in Nat : d = q + 1 + e
        <5>1. d - q - 1 \in Nat /\ d = q + 1 + (d - q - 1)
          BY <1>1, <2>1
        <5>. QED BY <5>1
      <4>2. PICK e \in Nat : d = q + 1 + e
        BY <4>1
      <4>3. n * d = n * (q + 1) + n * e /\ n * e >= 0
        BY <1>1, <4>2
      <4>. QED BY <1>1, <4>3
    <3>2. n * (q + 1) = n * q + n
      BY <1>1
    <3>. QED BY <1>1, <1>2, <3>1, <3>2
  <2>2. CASE d < q
    <3>1. n * (d + 1) <= n * q
      <4>1. \E e \in Nat : q = d + 1 + e
        <5>1. q - d - 1 \in Nat /\ q = d + 1 + (q - d - 1)
          BY <1>1, <2>2
        <5>. QED BY <5>1
      <4>2. PICK e \in Nat : q = d + 1 + e
        BY <4>1
      <4>3. n * q = n * (d + 1) + n * e /\ n * e >= 0
        BY <1>1, <4>2
      <4>. QED BY <1>1, <4>3
    <3>2. n * (d + 1) = n * d + n
      BY <1>1
    <3>. QED BY <1>1, <1>2, <3>1, <3>2
  <2>. QED BY <1>1, <2>1, <2>2
<1>. QED BY <1>1, <1>2

\* A multiple is divided without a remainder, and more of it is so much more.
LEMMA Exactly ==
  ASSUME NEW x \in Int, NEW n \in Nat \ {0}
  PROVE  (x * n) \div n = x
<1>1. n * x <= x * n /\ x * n < n * x + n /\ x * n \in Int
  OBVIOUS
<1>. QED BY <1>1, Quotient

\* The common denominator is a multiple of every number of rows.
LEMMA UnitIs ==
  ASSUME Bounds, Denominator, NEW n \in 1..MaxLen
  PROVE  \E q \in Nat \ {0} : Unit = q * n
<1>1. MaxLen \in Nat /\ Unit \in Nat /\ Unit # 0 /\ Unit % n = 0 /\ n \in Nat /\ n # 0
  BY DEF Bounds, Denominator
<1>2. PICK q \in Nat, m \in 0..n - 1 : Unit = n * q + m
  BY <1>1, Division
<1>3. \A r \in Nat, l \in 0..n - 1 : (n * r + l) % n = l
  BY <1>1
<1>4. Unit = n * q
  BY <1>1, <1>2, <1>3
<1>5. q # 0
  BY <1>1, <1>4
<1>. QED BY <1>1, <1>4, <1>5

\* So is its square.
LEMMA ScaleIs ==
  ASSUME Bounds, Denominator, NEW n \in 1..MaxLen
  PROVE  \E q \in Nat \ {0} : Scale = q * n
<1>1. PICK q \in Nat \ {0} : Unit = q * n
  BY UnitIs
<1>2. Unit \in Nat \ {0} /\ n \in Nat
  BY DEF Bounds, Denominator
<1>3. Scale = (Unit * q) * n
  BY <1>1, <1>2 DEF Scale
<1>4. Unit * q \in Nat /\ Unit * q # 0
  BY <1>2
<1>. QED BY <1>3, <1>4

\* The mean of x more.
LEMMA MeanMoves ==
  ASSUME Bounds, Denominator, NEW n \in 1..MaxLen, NEW x \in Int, NEW y \in Int
  PROVE  ((x + y) * Scale) \div n = (x * Scale) \div n + (y * Scale) \div n
<1>1. PICK q \in Nat \ {0} : Scale = q * n
  BY ScaleIs
<1>2. n \in Nat \ {0}
  BY DEF Bounds
<1>3. \A z \in Int : (z * Scale) \div n = z * q
  <2>1. ASSUME NEW z \in Int PROVE (z * Scale) \div n = z * q
    <3>1. z * Scale = (z * q) * n /\ z * q \in Int
      BY <1>1, <1>2
    <3>. QED BY <1>2, <3>1, Exactly
  <2>. QED BY <2>1
<1>4. x + y \in Int /\ (x + y) * q = x * q + y * q
  BY <1>1
<1>. QED BY <1>3, <1>4

\* The mean of n rows times n is their sum.
LEMMA MeanIs ==
  ASSUME Bounds, Denominator, NEW n \in 1..MaxLen, NEW x \in Int
  PROVE  (x * Unit) \div n \in Int /\ ((x * Unit) \div n) * n = x * Unit
<1>1. PICK q \in Nat \ {0} : Unit = q * n
  BY UnitIs
<1>2. n \in Nat \ {0}
  BY DEF Bounds
<1>3. x * Unit = (x * q) * n /\ x * q \in Int
  BY <1>1, <1>2
<1>4. (x * Unit) \div n = x * q
  BY <1>2, <1>3, Exactly
<1>. QED BY <1>3, <1>4

\* Dividing twice is dividing by the product.
LEMMA DividedTwice ==
  ASSUME NEW m \in Int, NEW n \in Nat \ {0}
  PROVE  m \div n = (m * n) \div (n * n)
<1>1. PICK d \in Int : d = m \div n
  BY Quotient
<1>2. n * d <= m /\ m < n * d + n
  BY <1>1, Quotient
<1>3. n * n \in Nat \ {0} /\ m * n \in Int
  OBVIOUS
<1>4. (n * n) * d <= m * n
  <2>1. PICK e \in Nat : m = n * d + e
    <3>1. m - n * d \in Nat /\ m = n * d + (m - n * d)
      BY <1>2
    <3>. QED BY <3>1
  <2>2. m * n = (n * n) * d + e * n /\ e * n >= 0
    BY <2>1
  <2>. QED BY <2>2, <1>3
<1>5. m * n < (n * n) * d + n * n
  <2>1. PICK e \in Nat : n * d + n = m + e + 1
    <3>1. n * d + n - m - 1 \in Nat /\ n * d + n = m + (n * d + n - m - 1) + 1
      BY <1>2
    <3>. QED BY <3>1
  <2>2. (n * n) * d + n * n = (n * d + n) * n
    OBVIOUS
  <2>3. (n * d + n) * n = m * n + e * n + n /\ e * n >= 0
    BY <2>1
  <2>. QED BY <2>2, <2>3, <1>3
<1>. QED BY <1>1, <1>3, <1>4, <1>5, Quotient

\* e is the mean of n rows, m the sum of the squares of their deviations from it, in units of u
\* and of its square: s is the sum of the rows, q that of their squares.
IsMean(e, n, s, u) == e * n = s * u
IsSpread(m, n, q, s, u) == m * n = (u * u) * (n * q - s * s)

\* One row more in the incremental variance.
LEMMA VarianceMoves ==
  ASSUME NEW n \in Nat \ {0}, NEW u \in Int, NEW x \in Int, NEW s \in Int, NEW q \in Int,
         NEW e \in Int, NEW e1 \in Int, NEW m \in Int,
         IsMean(e, n, s, u), IsMean(e1, n + 1, s + x, u), IsSpread(m, n, q, s, u)
  PROVE  IsSpread(m + (x * u - e) * (x * u - e1), n + 1, q + x * x, s + x, u)
<1>0. PICK m1 \in Int : m1 = m + (x * u - e) * (x * u - e1)
  OBVIOUS
<1>00. e * n = s * u /\ e1 * (n + 1) = (s + x) * u /\ m * n = (u * u) * (n * q - s * s)
  BY DEF IsMean, IsSpread
<1>. DEFINE d == x * u - e
            y == x * u
            z == s * u
<1>1. d \in Int /\ y \in Int /\ z \in Int /\ d = y - e /\ e * n = z
  BY <1>00
<1>2. (y - e1) * (n + 1) = n * d
  <2>1. e1 * (n + 1) = z + y
    BY <1>00
  <2>2. (y - e1) * (n + 1) = y * n + y - e1 * (n + 1)
    BY <1>1
  <2>3. n * d = y * n - z
    BY <1>1
  <2>. QED BY <1>1, <2>1, <2>2, <2>3
<1>3. m1 * (n + 1) = m * n + m + n * (d * d)
  <2>1. m1 * (n + 1) = m * (n + 1) + d * ((y - e1) * (n + 1))
    BY <1>0, <1>1
  <2>2. d * (n * d) = n * (d * d) /\ m * (n + 1) = m * n + m
    BY <1>1
  <2>. QED BY <1>2, <2>1, <2>2
<1>4. n * (n * (d * d)) = (n * y - z) * (n * y - z)
  <2>1. n * d = n * y - z
    BY <1>1
  <2>2. n * (n * (d * d)) = (n * d) * (n * d)
    BY <1>1
  <2>. QED BY <2>1, <2>2
<1>5. n * (m1 * (n + 1)) = n * ((u * u) * ((n + 1) * (q + x * x) - (s + x) * (s + x)))
  <2>1. n * (m1 * (n + 1)) = n * (m * n) + m * n + (n * y - z) * (n * y - z)
    <3>1. n * (m * n + m + n * (d * d)) = n * (m * n) + m * n + n * (n * (d * d))
      BY <1>1
    <3>. QED BY <1>3, <1>4, <3>1
  <2>. DEFINE v == u * u
  <2>2. (n * y - z) * (n * y - z) = v * ((n * x - s) * (n * x - s))
    <3>1. n * y - z = (n * x - s) * u
      OBVIOUS
    <3>2. ((n * x - s) * u) * ((n * x - s) * u) = v * ((n * x - s) * (n * x - s))
      OBVIOUS
    <3>. QED BY <3>1, <3>2
  <2>3. v \in Int
    OBVIOUS
  <2>4. m * n = v * (n * q - s * s)
    BY <1>00
  <2>. HIDE DEF v
  <2>5. n * (v * (n * q - s * s)) + v * (n * q - s * s) + v * ((n * x - s) * (n * x - s))
          = n * (v * ((n + 1) * (q + x * x) - (s + x) * (s + x)))
    <3>1. /\ n * (v * (n * q - s * s)) = v * (n * (n * q - s * s))
          /\ n * (v * ((n + 1) * (q + x * x) - (s + x) * (s + x)))
                = v * (n * ((n + 1) * (q + x * x) - (s + x) * (s + x)))
      BY <2>3
    <3>2. n * (n * q - s * s) + (n * q - s * s) + (n * x - s) * (n * x - s)
            = n * ((n + 1) * (q + x * x) - (s + x) * (s + x))
      OBVIOUS
    <3>3. \A a, b, c \in Int : v * a + v * b + v * c = v * (a + b + c)
      BY <2>3
    <3>4. n * (n * q - s * s) \in Int /\ n * q - s * s \in Int /\ (n * x - s) * (n * x - s) \in Int
      OBVIOUS
    <3>. QED BY <3>1, <3>2, <3>3, <3>4
  <2>6. n * (v * ((n + 1) * (q + x * x) - (s + x) * (s + x))) = n * (m * n) + m * n + v * ((n * x - s) * (n * x - s))
    BY <2>4, <2>5
  <2>7. v = u * u
    BY DEF v
  <2>. QED BY <2>1, <2>2, <2>6, <2>7
<1>6. \A a, b \in Int : n * a = n * b => a = b
  OBVIOUS
<1>7. m1 * (n + 1) \in Int /\ (u * u) * ((n + 1) * (q + x * x) - (s + x) * (s + x)) \in Int
  BY <1>1
<1>. QED BY <1>0, <1>5, <1>6, <1>7 DEF IsSpread

-----------------------------------------------------------------------------
(* The invariant.                                                            *)

Row == 0..(size - 1)
Extrema == {"mins", "maxs", "minw", "maxw", "min", "max", "sum", "avg"}
Sums == {"sums", "avgs", "vars", "stddevs", "sumw", "avgw", "varw", "stddevw", "var"}
Shifts == {"deltas", "prev", "aggnext"}
Ratios == {"ratios", "ratiow"}
TwoLoops == {"sumw", "avgw", "varw", "stddevw", "ratios", "ratiow"}
Variances == {"vars", "stddevs", "varw", "stddevw"}

Pairs == (Data \cup {0}) \X (Data \cup {0, 1})
Entries == Seq(Data \X Row)
AccType == [s : Int, ssq : Int, best : Int, EnX : Int, MnX : Int, cache : Entries]
Spoilt == IF Simd /\ op \in Carried THEN {Garbage} ELSE {}
CellType == {Undef} \cup IF op \in Ratios THEN Pairs ELSE Int \cup Spoilt

\* The types, as TypeOK but for what a cell is.
Shape ==
  /\ op \in Reductions \cup Prefix \cup Moving /\ floating \in BOOLEAN
  /\ size \in 0..MaxLen /\ arr \in [Row -> Data]
  /\ pc \in {"begin", "first", "second", "done", "crashed"}
  /\ w \in 0..Greatest(MaxLen, MaxWindow) /\ i \in 0..MaxLen
  /\ acc \in AccType /\ ret \in [Row -> CellType] /\ roots \in [Row -> Nat]

\* Where each function is in its loops, and how the window was clamped.
Control ==
  /\ pc = "begin" => /\ i = 0 /\ acc = Accumulators /\ wild = {} /\ (op \notin Moving => w = 1)
                     /\ \A j \in Row : ret[j] = Undef /\ roots[j] = 0
                     /\ w <= MaxWindow
  /\ pc # "begin" => /\ op \in {"minw", "maxw"} => w <= MaxWindow
                     /\ op \in Sums => w <= size /\ (op \notin Moving => w = size)
                     /\ op \in Ratios => w <= Greatest(size, 1)
  /\ pc = "first" => /\ op \in Extrema => i <= size
                     /\ op \in Sums \cup Shifts => i >= 1 /\ i <= Greatest(FirstEnd, 1)
                     /\ op \in Ratios => i <= w
  /\ pc = "second" => /\ op \in TwoLoops /\ w < size /\ w <= i /\ i <= size
                      /\ op \in {"varw", "stddevw"} => i = w
  /\ pc = "done" => i >= size \/ op \in Shifts

\* The least and the greatest of the first n rows and the limit that the loop starts from.
LeastSoFar(m, n) == (n = 0 => m = Huge) /\ (n > 0 => m \in Values(0..(n - 1))) /\ \A k \in 0..(n - 1) : m <= arr[k]
GreatestSoFar(m, n) == /\ m \in Values(0..(n - 1)) \cup {LowestLimit} /\ m >= LowestLimit
                       /\ \A k \in 0..(n - 1) : m >= arr[k]

\* The deque before row n: rows of the last window in their order, none of which beats one before
\* it, and for every row of that window one that is not before it and that it does not beat.
Deque(q, n) ==
  /\ n > 0 => q # <<>>
  /\ \A l \in DOMAIN q : q[l][1] = arr[q[l][2]] /\ q[l][2] \in First(n - 1)..(n - 1)
  /\ \A l, m \in DOMAIN q : l < m => q[l][2] < q[m][2] /\ ~Beats(q[m][1], q[l][1])
  /\ \A k \in First(n - 1)..(n - 1) : \E l \in DOMAIN q : q[l][2] >= k /\ ~Beats(arr[k], q[l][1])

\* What the accumulators hold before row i.
AccOK ==
  pc = "first" /\ size > 0 =>
    /\ op \in {"mins", "min"} => LeastSoFar(acc.best, i)
    /\ op \in {"maxs", "max"} => GreatestSoFar(acc.best, i)
    /\ op \in {"minw", "maxw"} => Deque(acc.cache, i)
    /\ op \in Sums \cup {"sum", "avg"} => acc.s = SumTo(i)
    /\ op \in Variances => /\ acc.EnX * i = acc.s * Unit
                           /\ acc.MnX * i = Scale * (i * SumSqTo(i) - acc.s * acc.s)

\* How often each cell was rooted.
RootsOK ==
  /\ pc = "done" /\ op = "stddevw" => \A j \in Row : roots[j] = 1
  /\ pc = "first" /\ op = "stddevw" => \A j \in Row : roots[j] = IF j < i - 1 THEN 1 ELSE 0
  /\ pc \in {"first", "done"} /\ op = "stddevs" =>
       \A j \in Row : roots[j] = IF 0 < j /\ j < i THEN 1 ELSE 0

\* The first loop leaves no cell out.
Reached == IF op \in Reductions THEN 0 ELSE IF op = "aggnext" THEN i - 1 ELSE i
FirstFills == pc = "first" => \A j \in Row : j < Reached => ret[j] # Undef

\* What the properties say of cell j, if its content is c and not garbage.
RightValue(j, c) ==
  /\ op \in {"minw", "mins"} => c = Min(Values(Window(j))) * Scale
  /\ op = "maxw" => c = Max(Values(Window(j))) * Scale
  /\ op = "maxs" => c = (IF BelowStart(Window(j)) THEN Tiny ELSE Max(Values(Window(j)))) * Scale
  /\ op \in Variances =>
       c = (Scale * ((j + 1) * SumSqTo(j + 1) - SumTo(j + 1) * SumTo(j + 1))) \div ((j + 1) * (j + 1))
  /\ op \in {"sums", "sumw"} => c = Sum(j) * Scale
  /\ op \in {"avgs", "avgw"} /\ Fitting(j) => c = (Sum(j) * Scale) \div Rows(j)
Right(j, c) == c = Garbage \/ RightValue(j, c)
AllRight == \A j \in Row : ret[j] # Undef => Right(j, ret[j])

Inv == Shape /\ Control /\ AccOK /\ RootsOK /\ FirstFills /\ ReductionIsLast /\ InBounds /\ AllRight

\* What the end of the first loop adds: the second one goes on where it ended.
AllFilled == op \notin Reductions => \A j \in Row : pc = "done" \/ (pc # "begin" /\ j < Reached) => ret[j] # Undef

-----------------------------------------------------------------------------
(* Facts about a state.                                                      *)

LEMMA Facts ==
  ASSUME Parameters, Shape
  PROVE  /\ MaxLen \in Nat /\ MaxWindow \in Nat /\ size \in Nat /\ size <= MaxLen /\ DOMAIN arr = Row /\ DOMAIN ret = Row
         /\ \A j \in Row : arr[j] \in Data /\ arr[j] \in Int /\ arr[j] <= Huge /\ -Huge - 1 <= arr[j] /\ j \in Nat /\ j < size
         /\ Scale \in Nat \ {0} /\ Unit \in Nat \ {0} /\ Huge \in Int /\ LowestLimit \in Int /\ Start \in Int
         /\ Undef \notin Int /\ Garbage \notin Int /\ Undef # Garbage /\ i \in Nat /\ w \in Nat
<1>1. /\ MaxLen \in Nat /\ MaxWindow \in Nat /\ Unit \in Nat \ {0} /\ Huge \in Int /\ Undef \notin Int /\ Tiny \in Int
      /\ Data \subseteq (-Huge - 1)..Huge /\ Garbage \notin Int /\ Undef # Garbage
  BY DEF Parameters, Bounds, Denominator, Limits, NoCell
<1>2. size \in Nat /\ size <= MaxLen /\ DOMAIN arr = Row /\ DOMAIN ret = Row /\ i \in Nat /\ w \in Nat
  BY <1>1 DEF Shape, Greatest
<1>3. \A j \in Row : arr[j] \in Data /\ j \in Nat /\ j < size
  BY <1>2 DEF Shape, Row
<1>4. \A x \in Data : x \in Int /\ x <= Huge /\ -Huge - 1 <= x
  BY <1>1
<1>5. Scale \in Nat \ {0}
  BY <1>1 DEF Scale
<1>6. LowestLimit \in Int /\ Start \in Int
  BY <1>1 DEF LowestLimit, Start
<1>. QED BY <1>1, <1>2, <1>3, <1>4, <1>5, <1>6

\* An operator yields an integer, whatever the width.
LEMMA NarrowInt ==
  ASSUME Parameters, NEW x \in Int
  PROVE  Narrow(x) \in Int
<1>1. Huge \in Nat
  BY DEF Parameters, Limits
<1>2. PICK m \in Nat \ {0} : m = 2 * Huge + 2
  BY <1>1
<1>3. PICK y \in Int : y = x + Huge + 1
  BY <1>1
<1>4. y % m \in Int
  OBVIOUS
<1>5. (y % m) - (Huge + 1) \in Int
  BY <1>1, <1>4
<1>. QED BY <1>2, <1>3, <1>5 DEF Narrow

\* The least and the greatest value of a set.
LEMMA Extreme ==
  ASSUME NEW S \in SUBSET Int, NEW m \in S
  PROVE  /\ (\A y \in S : m <= y) => Min(S) = m
         /\ (\A y \in S : m >= y) => Max(S) = m
<1>1. ASSUME \A y \in S : m <= y PROVE Min(S) = m
  <2>1. \A x \in S : (\A y \in S : x <= y) => x = m
    BY <1>1
  <2>2. \E x \in S : \A y \in S : x <= y
    BY <1>1
  <2>. QED BY <2>1, <2>2 DEF Min
<1>2. ASSUME \A y \in S : m >= y PROVE Max(S) = m
  <2>1. \A x \in S : (\A y \in S : x >= y) => x = m
    BY <1>2
  <2>2. \E x \in S : \A y \in S : x >= y
    BY <1>2
  <2>. QED BY <2>1, <2>2 DEF Max
<1>. QED BY <1>1, <1>2

\* Sums of the first rows.
LEMMA FirstSums ==
  ASSUME Parameters, Shape
  PROVE  /\ \A n \in 0..size : SumTo(n) \in Int /\ SumSqTo(n) \in Int
         /\ SumTo(0) = 0 /\ SumSqTo(0) = 0
         /\ \A n \in Row : SumTo(n + 1) = SumTo(n) + arr[n] /\ SumSqTo(n + 1) = SumSqTo(n) + arr[n] * arr[n]
<1>1. size \in 0..MaxLen /\ Bounds /\ MaxLen \in Nat /\ size \in Nat /\ size <= MaxLen
  BY Facts DEF Parameters
<1>2. arr \in [0..(size - 1) -> Int] /\ Squares \in [0..(size - 1) -> Int] /\ \A n \in Row : Squares[n] = arr[n] * arr[n]
  <2>1. arr \in [Row -> Data] /\ DOMAIN arr = Row /\ \A j \in Row : arr[j] \in Int
    BY Facts DEF Shape
  <2>. QED BY <2>1 DEF Squares, Row
<1>3. ASSUME NEW n \in 0..size PROVE SumTo(n) \in Int /\ SumSqTo(n) \in Int
  <2>1. n \in 0..(size - 0) /\ 0 \in Nat
    BY <1>1
  <2>. QED BY <1>1, <1>2, <2>1, TotalInt DEF SumTo, SumSqTo
<1>4. SumTo(0) = 0 /\ SumSqTo(0) = 0
  BY <1>1, TotalIs DEF SumTo, SumSqTo
<1>5. ASSUME NEW n \in Row
      PROVE SumTo(n + 1) = SumTo(n) + arr[n] /\ SumSqTo(n + 1) = SumSqTo(n) + arr[n] * arr[n]
  <2>1. n + 1 \in 1..MaxLen /\ n + 1 - 1 = n /\ 0 + (n + 1) - 1 = n
    BY <1>1 DEF Row
  <2>2. SumTo(n + 1) = SumTo(n) + arr[n] /\ SumSqTo(n + 1) = SumSqTo(n) + Squares[n]
    <3>1. ASSUME NEW f PROVE Total(f, 0, n + 1) = Total(f, 0, n) + f[n]
      <4>1. PICK k \in 1..MaxLen : k = n + 1
        BY <2>1
      <4>2. Total(f, 0, k) = Total(f, 0, k - 1) + f[0 + k - 1]
        BY <1>1, TotalIs, Zenon
      <4>3. k - 1 = n /\ 0 + k - 1 = n
        BY <2>1, <4>1
      <4>. QED BY <4>1, <4>2, <4>3, Zenon
    <3>. QED BY <3>1 DEF SumTo, SumSqTo
  <2>. QED BY <1>2, <2>2
<1>. QED BY <1>3, <1>4, <1>5

\* Beats is a strict order in which what does not beat b does not beat what is beaten by b.
LEMMA BeatsOrder ==
  ASSUME NEW a \in Int, NEW b \in Int, NEW c \in Int
  PROVE  /\ ~Beats(a, a)
         /\ ~Beats(a, b) /\ ~Beats(b, c) => ~Beats(a, c)
         /\ Beats(a, b) /\ ~Beats(c, b) => ~Beats(c, a)
         /\ Beats(a, b) /\ ~Beats(c, b) => Beats(a, c) \/ a = c \/ ~Beats(c, a)
         /\ op = "minw" => (Beats(a, b) <=> a < b)
         /\ op = "maxw" => (Beats(a, b) <=> a > b)
BY DEF Beats

\* The window that row n looks at, and the index at which the front of the deque leaves.
LEMMA FirstIs ==
  ASSUME Parameters, Shape, op \in {"minw", "maxw"}, w <= MaxWindow, NEW n \in Row
  PROVE  /\ First(n) \in 0..n
         /\ n > 0 => First(n - 1) <= First(n)
         /\ \A k \in First(n - 1)..(n - 1) : k = (n - w) % Modulus <=> k < First(n)
<1>1. /\ n \in Nat /\ n < size /\ w \in Nat /\ MaxLen \in Nat /\ MaxWindow \in Nat /\ size \in Nat /\ size <= MaxLen
      /\ Modulus \in Nat /\ Modulus > MaxLen + MaxWindow /\ op \notin Prefix
  BY Facts DEF Parameters, Bounds, Prefix
<1>2. \A x \in 0..(Modulus - 1) : x % Modulus = x
  BY <1>1
<1>3. \A x \in 1..(Modulus - 1) : (-x) % Modulus = Modulus - x
  BY <1>1
<1>4. CASE w = 0
  <2>1. n - w \in 0..(Modulus - 1) /\ n - w = n
    BY <1>1, <1>4
  <2>2. (n - w) % Modulus = n
    BY <1>2, <2>1
  <2>. QED BY <1>1, <1>4, <2>2 DEF First
<1>5. CASE w > n
  <2>1. w - n \in 1..(Modulus - 1) /\ n - w = -(w - n)
    BY <1>1, <1>5
  <2>2. (n - w) % Modulus = Modulus - (w - n) /\ Modulus - (w - n) > n
    <3>1. PICK x \in 1..(Modulus - 1) : x = w - n
      BY <2>1
    <3>2. (n - w) % Modulus = Modulus - x
      BY <1>3, <2>1, <3>1
    <3>. QED BY <1>1, <3>1, <3>2
  <2>. QED BY <1>1, <1>5, <2>2 DEF First
<1>6. CASE w > 0 /\ w <= n
  <2>1. n - w \in 0..(Modulus - 1)
    BY <1>1, <1>6
  <2>2. (n - w) % Modulus = n - w
    BY <1>2, <2>1
  <2>3. First(n) = n - w + 1
    BY <1>1, <1>6 DEF First
  <2>4. First(n - 1) = n - w
    <3>1. CASE n = w
      BY <1>1, <1>6, <3>1 DEF First
    <3>2. CASE n # w
      BY <1>1, <1>6, <3>2 DEF First
    <3>. QED BY <3>1, <3>2
  <2>. QED BY <1>1, <1>6, <2>2, <2>3, <2>4
<1>. QED BY <1>1, <1>4, <1>5, <1>6

\* The deque takes in a row: the front is still in the window, the back no worse than the row.
LEMMA Slides ==
  ASSUME Parameters, Shape, op \in {"minw", "maxw"}, w <= MaxWindow, i \in Row,
         NEW q \in Entries, Deque(q, i)
  PROVE  Slide(q) \in Entries /\ Slide(q) # <<>> /\ Deque(Slide(q), i + 1)
<1>. DEFINE gone == q # <<>> /\ Head(q)[2] = (i - w) % Modulus
            aged == IF gone THEN Tail(q) ELSE q
            o == IF gone THEN 1 ELSE 0
            kept == {k \in 1..Len(aged) : \A l \in k..Len(aged) : Beats(arr[i], aged[l][1])}
            keep == IF kept = {} THEN Len(aged) ELSE Min(kept) - 1
            r == Append(SubSeq(aged, 1, keep), <<arr[i], i>>)
<1>1. /\ i \in Nat /\ i < size /\ w \in Nat /\ First(i) \in 0..i
      /\ i > 0 => First(i - 1) <= First(i)
      /\ \A k \in First(i - 1)..(i - 1) : k = (i - w) % Modulus <=> k < First(i)
      /\ \A j \in Row : arr[j] \in Data /\ arr[j] \in Int /\ j \in Int
  BY Facts, FirstIs
<1>2. Len(q) \in Nat /\ DOMAIN q = 1..Len(q) /\ \A l \in 1..Len(q) : q[l] \in Data \X Row
  BY DEF Entries
<1>3. /\ i > 0 => q # <<>>
      /\ \A l \in 1..Len(q) : q[l][1] = arr[q[l][2]] /\ q[l][2] \in First(i - 1)..(i - 1) /\ q[l][2] \in Row
                              /\ q[l][1] \in Int /\ q[l][2] \in Int
      /\ \A l, m \in 1..Len(q) : l < m => q[l][2] < q[m][2] /\ ~Beats(q[m][1], q[l][1])
      /\ \A k \in First(i - 1)..(i - 1) : \E l \in 1..Len(q) : q[l][2] >= k /\ ~Beats(arr[k], q[l][1])
  <2>1. \A l \in 1..Len(q) : q[l][2] \in Row
    BY <1>2
  <2>2. \A l \in 1..Len(q) : q[l][1] = arr[q[l][2]] /\ q[l][2] \in First(i - 1)..(i - 1)
    BY <1>2 DEF Deque
  <2>3. \A l \in 1..Len(q) : q[l][1] \in Int /\ q[l][2] \in Int
    BY <1>1, <2>1, <2>2
  <2>4. /\ i > 0 => q # <<>>
        /\ \A l, m \in 1..Len(q) : l < m => q[l][2] < q[m][2] /\ ~Beats(q[m][1], q[l][1])
        /\ \A k \in First(i - 1)..(i - 1) : \E l \in 1..Len(q) : q[l][2] >= k /\ ~Beats(arr[k], q[l][1])
    BY <1>2, Zenon DEF Deque
  <2>. QED BY <2>1, <2>2, <2>3, <2>4
<1>4. gone => Len(q) > 0 /\ q[1][2] = (i - w) % Modulus
  BY <1>2 DEF Entries
<1>5. /\ aged \in Entries /\ Len(aged) = Len(q) - o /\ Len(aged) \in Nat /\ o \in {0, 1}
      /\ \A l \in 1..Len(aged) : aged[l] = q[l + o] /\ l + o \in 1..Len(q)
  <2>1. CASE gone
    <3>1. q # <<>> /\ Len(q) > 0
      BY <1>4, <2>1
    <3>2. Tail(q) \in Entries /\ Len(Tail(q)) = Len(q) - 1 /\ \A l \in 1..(Len(q) - 1) : Tail(q)[l] = q[l + 1]
      BY <1>2, <3>1 DEF Entries
    <3>. QED BY <1>2, <2>1, <3>1, <3>2
  <2>2. CASE ~gone
    BY <1>2, <2>2
  <2>. QED BY <2>1, <2>2
<1>. HIDE DEF aged, o, gone
<1>6. /\ keep \in 0..Len(aged)
      /\ \A l \in (keep + 1)..Len(aged) : Beats(arr[i], aged[l][1])
      /\ keep > 0 => ~Beats(arr[i], aged[keep][1])
  <2>1. CASE kept = {}
    <3>1. keep = Len(aged)
      BY <2>1
    <3>2. keep > 0 => Len(aged) \in 1..Len(aged) /\ Len(aged) \notin kept
      BY <1>5, <2>1
    <3>. QED BY <1>5, <3>1, <3>2
  <2>2. CASE kept # {}
    <3>1. kept \in SUBSET Nat
      OBVIOUS
    <3>2. PICK m \in kept : \A y \in kept : m <= y
      BY <2>2, <3>1, LeastOf
    <3>3. Min(kept) = m
      <4>1. kept \in SUBSET Int
        BY <3>1
      <4>. HIDE DEF kept
      <4>. QED BY <3>2, <4>1, Extreme
    <3>4. keep = m - 1 /\ m \in 1..Len(aged) /\ \A l \in m..Len(aged) : Beats(arr[i], aged[l][1])
      BY <2>2, <3>3
    <3>5. ASSUME m - 1 > 0 PROVE ~Beats(arr[i], aged[m - 1][1])
      <4>1. m - 1 \in 1..Len(aged) /\ ~(m <= m - 1)
        BY <1>5, <3>4, <3>5
      <4>2. m - 1 \notin kept
        BY <3>2, <4>1
      <4>3. PICK l \in (m - 1)..Len(aged) : ~Beats(arr[i], aged[l][1])
        BY <4>1, <4>2
      <4>4. l = m - 1
        BY <1>5, <3>4, <4>3
      <4>. QED BY <4>3, <4>4
    <3>6. keep \in 0..Len(aged) /\ keep + 1 = m
      BY <1>5, <3>4
    <3>. HIDE DEF keep, kept
    <3>. QED BY <3>4, <3>5, <3>6
  <2>. QED BY <2>1, <2>2
<1>7. Slide(q) = r
  BY DEF Slide, aged, gone
<1>. HIDE DEF keep, kept
<1>8. /\ r \in Entries /\ Len(r) = keep + 1 /\ r[keep + 1] = <<arr[i], i>>
      /\ \A l \in 1..keep : r[l] = aged[l]
  <2>1. <<arr[i], i>> \in Data \X Row
    BY <1>1
  <2>2. SubSeq(aged, 1, keep) \in Entries /\ Len(SubSeq(aged, 1, keep)) = keep
        /\ \A l \in 1..keep : SubSeq(aged, 1, keep)[l] = aged[l]
    BY <1>5, <1>6 DEF Entries
  <2>. QED BY <1>6, <2>1, <2>2 DEF Entries
<1>9. /\ DOMAIN r = 1..(keep + 1) /\ keep \in Nat
      /\ \A l \in 1..keep : r[l] = q[l + o] /\ l + o \in 1..Len(q)
      /\ r[keep + 1][1] = arr[i] /\ r[keep + 1][2] = i /\ arr[i] \in Int
  <2>1. keep \in Nat /\ DOMAIN r = 1..Len(r)
    BY <1>5, <1>6, <1>8 DEF Entries
  <2>2. ASSUME NEW l \in 1..keep PROVE r[l] = q[l + o] /\ l + o \in 1..Len(q)
    <3>1. l \in 1..Len(aged)
      BY <1>5, <1>6
    <3>. QED BY <1>5, <1>8, <3>1
  <2>. QED BY <1>1, <1>8, <2>1, <2>2
<1>. HIDE DEF r
<1>10. \A l \in 1..Len(q) : q[l][2] < First(i) <=> (gone /\ l = 1)
  <2>1. \A l \in 1..Len(q) : q[l][2] < First(i) <=> q[l][2] = (i - w) % Modulus
    BY <1>1, <1>3
  <2>2. ASSUME NEW l \in 1..Len(q), q[l][2] < First(i) PROVE gone /\ l = 1
    <3>1. ASSUME l # 1 PROVE FALSE
      <4>1. 1 \in 1..Len(q) /\ 1 < l
        BY <1>2, <3>1
      <4>2. q[1][2] < q[l][2]
        BY <1>3, <4>1
      <4>3. q[1][2] < First(i)
        BY <1>1, <1>3, <2>2, <4>1, <4>2
      <4>. QED BY <1>3, <2>1, <2>2, <4>1, <4>2, <4>3
    <3>2. q # <<>> /\ Head(q) = q[1]
      BY <1>2, <3>1 DEF Entries
    <3>. QED BY <2>1, <2>2, <3>1, <3>2 DEF gone
  <2>3. ASSUME NEW l \in 1..Len(q), gone, l = 1 PROVE q[l][2] < First(i)
    BY <1>4, <2>1, <2>3
  <2>. QED BY <2>2, <2>3
<1>12. \A l \in 1..(keep + 1) : r[l][1] = arr[r[l][2]] /\ r[l][2] \in First(i)..i /\ r[l][1] \in Int
  <2>1. ASSUME NEW l \in 1..(keep + 1)
        PROVE r[l][1] = arr[r[l][2]] /\ r[l][2] \in First(i)..i /\ r[l][1] \in Int
    <3>1. CASE l = keep + 1
      BY <1>1, <1>9, <3>1
    <3>2. CASE l # keep + 1
      <4>1. l \in 1..keep
        BY <1>9, <3>2
      <4>2. r[l] = q[l + o] /\ l + o \in 1..Len(q)
        BY <1>9, <4>1
      <4>3. ~(gone /\ l + o = 1)
        BY <4>1 DEF o
      <4>4. ~(q[l + o][2] < First(i))
        BY <1>10, <4>2, <4>3
      <4>5. q[l + o][1] = arr[q[l + o][2]] /\ q[l + o][2] \in First(i - 1)..(i - 1) /\ q[l + o][1] \in Int
        BY <1>3, <4>2
      <4>6. q[l + o][2] \in First(i)..i
        BY <1>1, <1>3, <4>2, <4>4, <4>5
      <4>. QED BY <4>2, <4>5, <4>6
    <3>. QED BY <3>1, <3>2
  <2>. QED BY <2>1
<1>13. \A l \in 1..keep : ~Beats(arr[i], r[l][1])
  <2>1. ASSUME NEW l \in 1..keep PROVE ~Beats(arr[i], r[l][1])
    <3>1. keep \in 1..keep /\ r[l] = q[l + o] /\ l + o \in 1..Len(q) /\ r[keep] = q[keep + o] /\ keep + o \in 1..Len(q)
      BY <1>9
    <3>2. ~Beats(arr[i], r[keep][1])
      <4>1. keep > 0 /\ r[keep] = aged[keep]
        BY <1>8, <1>9
      <4>. QED BY <1>6, <4>1
    <3>3. CASE l = keep
      BY <3>2, <3>3
    <3>4. CASE l # keep
      <4>1. l + o < keep + o
        BY <1>5, <1>9, <3>4
      <4>2. ~Beats(q[keep + o][1], q[l + o][1])
        BY <1>3, <3>1, <4>1
      <4>3. q[keep + o][1] \in Int /\ q[l + o][1] \in Int
        BY <1>3, <3>1
      <4>. QED BY <1>9, <3>1, <3>2, <4>2, <4>3, BeatsOrder
    <3>. QED BY <3>3, <3>4
  <2>. QED BY <2>1
<1>14. \A l, m \in 1..(keep + 1) : l < m => r[l][2] < r[m][2] /\ ~Beats(r[m][1], r[l][1])
  <2>1. ASSUME NEW l \in 1..(keep + 1), NEW m \in 1..(keep + 1), l < m
        PROVE r[l][2] < r[m][2] /\ ~Beats(r[m][1], r[l][1])
    <3>1. l \in 1..keep /\ r[l] = q[l + o] /\ l + o \in 1..Len(q)
      BY <1>9, <2>1
    <3>2. CASE m = keep + 1
      <4>1. q[l + o][2] \in First(i - 1)..(i - 1) /\ q[l + o][2] \in Int
        BY <1>3, <3>1
      <4>2. q[l + o][2] < i
        BY <1>1, <4>1
      <4>. QED BY <1>9, <1>13, <3>1, <3>2, <4>2
    <3>3. CASE m # keep + 1
      <4>1. m \in 1..keep /\ r[m] = q[m + o] /\ m + o \in 1..Len(q) /\ l + o < m + o
        BY <1>5, <1>9, <2>1, <3>3
      <4>. QED BY <1>3, <3>1, <4>1
    <3>. QED BY <3>2, <3>3
  <2>. QED BY <2>1
<1>15. \A k \in First(i)..i : \E l \in 1..(keep + 1) : r[l][2] >= k /\ ~Beats(arr[k], r[l][1])
  <2>1. ASSUME NEW k \in First(i)..i
        PROVE \E l \in 1..(keep + 1) : r[l][2] >= k /\ ~Beats(arr[k], r[l][1])
    <3>0. keep + 1 \in 1..(keep + 1) /\ k \in Row /\ arr[k] \in Int
      <4>1. size \in Nat
        BY Facts
      <4>2. k \in Row
        BY <1>1, <2>1, <4>1 DEF Row
      <4>. QED BY <1>1, <1>9, <4>2
    <3>1. CASE k = i
      <4>1. r[keep + 1][2] >= k /\ ~Beats(arr[k], r[keep + 1][1])
        BY <1>1, <1>9, <3>1, BeatsOrder
      <4>. QED BY <3>0, <4>1
    <3>2. CASE k # i
      <4>1. k \in First(i - 1)..(i - 1)
        <5>1. i > 0 /\ i - 1 \in Row
          <6>1. size \in Nat
            BY Facts
          <6>2. k \in Nat /\ k <= i
            BY <1>1, <2>1
          <6>. QED BY <1>1, <3>2, <6>1, <6>2 DEF Row
        <5>2. First(i - 1) \in Int
          <6>1. PICK n \in Row : n = i - 1
            BY <5>1
          <6>2. First(n) \in 0..n /\ n \in Nat
            BY <6>1, FirstIs, Facts
          <6>. QED BY <6>1, <6>2
        <5>. QED BY <1>1, <2>1, <3>2, <5>1, <5>2
      <4>2. PICK l \in 1..Len(q) : q[l][2] >= k /\ ~Beats(arr[k], q[l][1])
        BY <1>3, <4>1
      <4>3. q[l][2] \in Int /\ q[l][1] \in Int
        BY <1>3
      <4>4. ~(gone /\ l = 1)
        BY <1>1, <1>10, <2>1, <4>2, <4>3
      <4>5. PICK x \in 1..Len(aged) : x + o = l
        <5>1. l - o \in 1..Len(aged) /\ (l - o) + o = l
          <6>1. CASE gone
            BY <1>2, <1>5, <4>4, <6>1 DEF o
          <6>2. CASE ~gone
            BY <1>2, <1>5, <6>2 DEF o
          <6>. QED BY <6>1, <6>2
        <5>. QED BY <5>1
      <4>6. aged[x] = q[l]
        BY <1>5, <4>5
      <4>7. CASE x <= keep
        <5>1. x \in 1..keep /\ x \in 1..(keep + 1) /\ r[x] = q[l]
          BY <1>8, <1>9, <4>5, <4>6, <4>7
        <5>. QED BY <4>2, <5>1
      <4>8. CASE x > keep
        <5>1. Beats(arr[i], q[l][1])
          BY <1>5, <1>6, <1>9, <4>5, <4>6, <4>8
        <5>2. ~Beats(arr[k], arr[i])
          BY <1>9, <3>0, <4>2, <4>3, <5>1, BeatsOrder
        <5>. QED BY <1>9, <2>1, <3>0, <5>2
      <4>. QED BY <1>5, <1>9, <4>5, <4>7, <4>8
    <3>. QED BY <3>1, <3>2
  <2>. QED BY <2>1
<1>16. r # <<>>
  BY <1>8, <1>9 DEF Entries
<1>17. Deque(r, i + 1)
  <2>1. PICK m \in Int : m = i + 1
    BY <1>1
  <2>2. m - 1 = i
    BY <1>1, <2>1
  <2>3. \A l \in DOMAIN r : r[l][1] = arr[r[l][2]] /\ r[l][2] \in First(m - 1)..(m - 1)
    BY <1>9, <1>12, <2>2
  <2>4. \A l, x \in DOMAIN r : l < x => r[l][2] < r[x][2] /\ ~Beats(r[x][1], r[l][1])
    BY <1>9, <1>14
  <2>5. \A k \in First(m - 1)..(m - 1) : \E l \in DOMAIN r : r[l][2] >= k /\ ~Beats(arr[k], r[l][1])
    BY <1>9, <1>15, <2>2
  <2>6. Deque(r, m)
    BY <1>16, <2>3, <2>4, <2>5, Zenon DEF Deque
  <2>. QED BY <2>1, <2>6
<1>. QED BY <1>7, <1>8, <1>16, <1>17

-----------------------------------------------------------------------------
(* One iteration of the first loop: the accumulators and the cell.           *)

\* Reductions, prefix and moving functions are different functions.
LEMMA Kinds ==
  ASSUME Shape
  PROVE  /\ op \in Extrema \cup Sums \cup Shifts \cup Ratios
         /\ op \in Extrema => op \notin Sums \cup Shifts \cup Ratios \cup TwoLoops \cup Variances
         /\ op \in Sums => op \notin Shifts \cup Ratios
         /\ op \in Shifts => op \notin Ratios \cup TwoLoops \cup Variances
         /\ op \in Variances => op \in Sums
         /\ op \in TwoLoops \cup Shifts \cup Ratios \cup Variances => op \notin Reductions
BY DEF Shape, Reductions, Prefix, Moving, Extrema, Sums, Shifts, Ratios, TwoLoops, Variances

\* What max and maxs have after some rows: their maximum, or the limit if it is above them all.
LEMMA FromTheLimit ==
  ASSUME Parameters, Shape, NEW n \in 1..size, NEW m, GreatestSoFar(m, n)
  PROVE  (IF BelowStart(0..(n - 1)) THEN Tiny ELSE Max(Values(0..(n - 1)))) = m
<1>1. /\ size \in Nat /\ Huge \in Nat /\ Tiny \in Nat
      /\ \A j \in Row : arr[j] \in Int /\ arr[j] >= -Huge - 1
  BY Facts DEF Parameters, Limits
<1>2. \A k \in 0..(n - 1) : k \in Row
  BY <1>1 DEF Row
<1>3. Values(0..(n - 1)) \in SUBSET Int
  BY <1>1, <1>2 DEF Values
<1>4. /\ m \in Values(0..(n - 1)) \cup {LowestLimit} /\ m >= LowestLimit
      /\ \A k \in 0..(n - 1) : m >= arr[k]
  BY DEF GreatestSoFar
<1>5. LowestLimit \in Int /\ m \in Int
  BY <1>1, <1>3, <1>4 DEF LowestLimit
<1>6. CASE BelowStart(0..(n - 1))
  <2>1. floating /\ LowestLimit = Tiny /\ \A k \in 0..(n - 1) : arr[k] < Tiny
    BY <1>6 DEF BelowStart, LowestLimit
  <2>2. m \notin Values(0..(n - 1))
    BY <1>1, <1>4, <2>1, <1>2 DEF Values
  <2>. QED BY <1>4, <1>6, <2>1, <2>2
<1>7. CASE ~BelowStart(0..(n - 1))
  <2>1. m \in Values(0..(n - 1))
    <3>1. SUFFICES ASSUME m = LowestLimit PROVE m \in Values(0..(n - 1))
      BY <1>4
    <3>2. PICK k \in 0..(n - 1) : arr[k] >= LowestLimit
      <4>1. CASE floating
        <5>1. PICK k \in 0..(n - 1) : ~(arr[k] < Tiny)
          BY <1>7, <4>1 DEF BelowStart
        <5>2. arr[k] >= Tiny
          BY <1>1, <1>2, <5>1
        <5>. QED BY <4>1, <5>2 DEF LowestLimit
      <4>2. CASE ~floating
        <5>1. 0 \in 0..(n - 1)
          OBVIOUS
        <5>2. arr[0] >= -Huge - 1
          BY <1>1, <1>2, <5>1
        <5>. QED BY <4>2, <5>1, <5>2 DEF LowestLimit
      <4>. QED BY <4>1, <4>2
    <3>3. arr[k] = m
      BY <1>1, <1>2, <1>4, <1>5, <3>1, <3>2
    <3>. QED BY <3>2, <3>3 DEF Values
  <2>2. \A y \in Values(0..(n - 1)) : m >= y
    BY <1>4 DEF Values
  <2>3. Max(Values(0..(n - 1))) = m
    BY <1>3, <2>1, <2>2, Extreme
  <2>. QED BY <1>7, <2>3
<1>. QED BY <1>6, <1>7

\* min and mins, max and maxs.
LEMMA ExtremumStep ==
  ASSUME Parameters, Shape, AccOK, pc = "first", i \in Row, op \in {"min", "mins", "max", "maxs"}, NEW lane
  PROVE  LET a == Accumulate(acc)
         IN  /\ a \in AccType
             /\ op \in {"mins", "min"} => LeastSoFar(a.best, i + 1)
             /\ op \in {"maxs", "max"} => GreatestSoFar(a.best, i + 1)
             /\ op \in {"mins", "maxs"} => Cell(a, lane) \in Int /\ Right(i, Cell(a, lane))
<1>. DEFINE a == Accumulate(acc)
<1>1. /\ i \in Nat /\ i < size /\ size \in Nat /\ arr[i] \in Int /\ acc \in AccType /\ acc.best \in Int /\ Scale \in Int
      /\ arr[i] <= Huge /\ LowestLimit \in Int
      /\ \A j \in Row : arr[j] \in Int
  BY Facts DEF Shape, AccType
<1>2. \A k \in 0..i : k \in Row
  BY <1>1 DEF Row
<1>3. Values(0..i) = Values(0..(i - 1)) \cup {arr[i]} /\ i + 1 - 1 = i
  <2>1. 0..i = 0..(i - 1) \cup {i}
    BY <1>1
  <2>. QED BY <1>1, <2>1 DEF Values
<1>4. Values(0..i) \in SUBSET Int
  BY <1>1, <1>2 DEF Values
<1>5. CASE op \in {"mins", "min"}
  <2>1. a = [acc EXCEPT !.best = Least(@, arr[i])]
    BY <1>5 DEF Accumulate
  <2>2. a \in AccType /\ a.best = Least(acc.best, arr[i])
    <3>1. Least(acc.best, arr[i]) \in Int
      BY <1>1 DEF Least
    <3>. QED BY <1>1, <2>1, <3>1 DEF AccType
  <2>3. LeastSoFar(acc.best, i)
    BY <1>1, <1>5 DEF AccOK
  <2>4. a.best \in Values(0..i) /\ \A k \in 0..i : a.best <= arr[k]
    <3>1. i = 0 => a.best = arr[i]
      BY <1>1, <2>2, <2>3 DEF LeastSoFar, Least
    <3>2. arr[i] \in Values(0..i)
      BY <1>3
    <3>3. i > 0 => a.best \in Values(0..i)
      BY <1>3, <2>2, <2>3 DEF LeastSoFar, Least
    <3>4. ASSUME NEW k \in 0..i PROVE a.best <= arr[k]
      <4>1. CASE k = i
        BY <1>1, <2>2, <4>1 DEF Least
      <4>2. CASE k # i
        <5>1. k \in 0..(i - 1) /\ k \in Row
          BY <1>1, <1>2, <4>2
        <5>2. acc.best <= arr[k] /\ arr[k] \in Int
          BY <1>1, <2>3, <5>1 DEF LeastSoFar
        <5>. QED BY <1>1, <2>2, <5>2 DEF Least
      <4>. QED BY <4>1, <4>2
    <3>. QED BY <1>1, <3>1, <3>2, <3>3, <3>4
  <2>5. LeastSoFar(a.best, i + 1)
    <3>. HIDE DEF a
    <3>. QED BY <1>1, <1>3, <2>4 DEF LeastSoFar
  <2>6. ASSUME op = "mins" PROVE Cell(a, lane) \in Int /\ Right(i, Cell(a, lane))
    <3>1. Window(i) = 0..i
      BY <2>6 DEF Window, First, Prefix
    <3>2. Min(Values(0..i)) = a.best
      <4>1. \A y \in Values(0..i) : a.best <= y
        BY <2>4 DEF Values
      <4>. HIDE DEF a
      <4>. QED BY <1>4, <2>4, <4>1, Extreme
    <3>3. Cell(a, lane) = a.best * Scale
      BY <2>6 DEF Cell
    <3>4. a.best \in Int
      BY <2>2 DEF AccType
    <3>. HIDE DEF a
    <3>. QED BY <1>1, <2>6, <3>1, <3>2, <3>3, <3>4 DEF Right, RightValue, Variances
  <2>. HIDE DEF a
  <2>7. Accumulate(acc) = a
    BY DEF a
  <2>. QED BY <1>5, <2>2, <2>5, <2>6, <2>7
<1>6. CASE op \in {"maxs", "max"}
  <2>1. a = [acc EXCEPT !.best = Greatest(@, arr[i])]
    BY <1>6 DEF Accumulate
  <2>2. a \in AccType /\ a.best = Greatest(acc.best, arr[i])
    <3>1. Greatest(acc.best, arr[i]) \in Int
      BY <1>1 DEF Greatest
    <3>. QED BY <1>1, <2>1, <3>1 DEF AccType
  <2>3. GreatestSoFar(acc.best, i)
    BY <1>1, <1>6 DEF AccOK
  <2>4. /\ a.best \in Values(0..i) \cup {LowestLimit} /\ a.best >= LowestLimit
        /\ \A k \in 0..i : a.best >= arr[k]
    <3>1. a.best \in Values(0..i) \cup {LowestLimit}
      BY <1>3, <2>2, <2>3 DEF GreatestSoFar, Greatest
    <3>2. a.best >= LowestLimit
      BY <1>1, <2>2, <2>3 DEF GreatestSoFar, Greatest
    <3>4. ASSUME NEW k \in 0..i PROVE a.best >= arr[k]
      <4>1. CASE k = i
        BY <1>1, <2>2, <4>1 DEF Greatest
      <4>2. CASE k # i
        <5>1. k \in 0..(i - 1) /\ k \in Row
          BY <1>1, <1>2, <4>2
        <5>2. acc.best >= arr[k] /\ arr[k] \in Int
          BY <1>1, <2>3, <5>1 DEF GreatestSoFar
        <5>. QED BY <1>1, <2>2, <5>2 DEF Greatest
      <4>. QED BY <4>1, <4>2
    <3>. QED BY <3>1, <3>2, <3>4
  <2>5. GreatestSoFar(a.best, i + 1)
    <3>. HIDE DEF a
    <3>. QED BY <1>1, <1>3, <2>4 DEF GreatestSoFar
  <2>6. ASSUME op = "maxs" PROVE Cell(a, lane) \in Int /\ Right(i, Cell(a, lane))
    <3>1. Window(i) = 0..i
      BY <2>6 DEF Window, First, Prefix
    <3>2. (IF BelowStart(0..i) THEN Tiny ELSE Max(Values(0..i))) = a.best
      <4>. HIDE DEF a
      <4>1. PICK n \in 1..size : n = i + 1 /\ n - 1 = i
        BY <1>1
      <4>2. GreatestSoFar(a.best, n)
        BY <2>5, <4>1
      <4>. QED BY <4>1, <4>2, FromTheLimit
    <3>3. Cell(a, lane) = a.best * Scale
      BY <2>6 DEF Cell
    <3>4. a.best \in Int
      BY <2>2 DEF AccType
    <3>. HIDE DEF a
    <3>. QED BY <1>1, <2>6, <3>1, <3>2, <3>3, <3>4 DEF Right, RightValue, Variances
  <2>. HIDE DEF a
  <2>7. Accumulate(acc) = a
    BY DEF a
  <2>. QED BY <1>6, <2>2, <2>5, <2>6, <2>7
<1>. QED BY <1>5, <1>6

\* minw and maxw.
LEMMA DequeStep ==
  ASSUME Parameters, Shape, AccOK, pc = "first", i \in Row, op \in {"minw", "maxw"}, w <= MaxWindow,
         NEW lane
  PROVE  LET a == Accumulate(acc)
         IN  a \in AccType /\ Deque(a.cache, i + 1) /\ Cell(a, lane) \in Int /\ Right(i, Cell(a, lane))
<1>. DEFINE a == Accumulate(acc)
            r == Slide(acc.cache)
<1>1. /\ i \in Nat /\ i < size /\ size \in Nat /\ acc \in AccType /\ acc.cache \in Entries /\ Scale \in Int
      /\ \A j \in Row : arr[j] \in Int
  BY Facts DEF Shape, AccType
<1>2. Deque(acc.cache, i)
  BY <1>1 DEF AccOK
<1>3. r \in Entries /\ r # <<>> /\ Deque(r, i + 1)
  BY <1>1, <1>2, Slides
<1>4. a = [acc EXCEPT !.cache = r]
  BY DEF Accumulate
<1>. HIDE DEF r
<1>5. a \in AccType /\ a.cache = r
  BY <1>1, <1>3, <1>4 DEF AccType
<1>6. Len(r) \in Nat /\ Len(r) > 0 /\ DOMAIN r = 1..Len(r) /\ Head(r) = r[1]
  BY <1>3 DEF Entries
<1>7. PICK n \in Int : n = i + 1 /\ n - 1 = i
  BY <1>1
<1>8. /\ \A l \in DOMAIN r : r[l][1] = arr[r[l][2]] /\ r[l][2] \in Window(i)
      /\ \A l, m \in DOMAIN r : l < m => ~Beats(r[m][1], r[l][1])
      /\ \A k \in Window(i) : \E l \in DOMAIN r : ~Beats(arr[k], r[l][1])
  <2>1. Deque(r, n)
    BY <1>3, <1>7
  <2>2. First(n - 1)..(n - 1) = Window(i)
    BY <1>7 DEF Window
  <2>. QED BY <2>1, <2>2, Zenon DEF Deque
<1>9. \A k \in Window(i) : k \in Row /\ arr[k] \in Int
  <2>1. First(i) \in 0..i
    BY FirstIs
  <2>. QED BY <1>1, <2>1 DEF Window, Row
<1>10. 1 \in DOMAIN r /\ r[1][1] \in Values(Window(i)) /\ r[1][1] \in Int /\ Values(Window(i)) \in SUBSET Int
  <2>1. 1 \in DOMAIN r
    BY <1>6
  <2>. QED BY <1>8, <1>9, <2>1 DEF Values
<1>11. \A k \in Window(i) : ~Beats(arr[k], r[1][1])
  <2>1. ASSUME NEW k \in Window(i) PROVE ~Beats(arr[k], r[1][1])
    <3>1. PICK l \in DOMAIN r : ~Beats(arr[k], r[l][1])
      BY <1>8
    <3>2. CASE l = 1
      BY <3>1, <3>2
    <3>3. CASE l # 1
      <4>1. 1 < l
        BY <1>6, <3>3
      <4>2. ~Beats(r[l][1], r[1][1])
        BY <1>8, <1>10, <4>1
      <4>3. r[l][1] \in Int /\ arr[k] \in Int
        BY <1>8, <1>9
      <4>. QED BY <1>10, <3>1, <4>2, <4>3, BeatsOrder
    <3>. QED BY <3>2, <3>3
  <2>. QED BY <2>1
<1>12. /\ op = "minw" => Min(Values(Window(i))) = r[1][1]
       /\ op = "maxw" => Max(Values(Window(i))) = r[1][1]
  <2>1. ASSUME op = "minw" PROVE \A y \in Values(Window(i)) : r[1][1] <= y
    BY <1>9, <1>10, <1>11, <2>1, BeatsOrder DEF Values
  <2>2. ASSUME op = "maxw" PROVE \A y \in Values(Window(i)) : r[1][1] >= y
    BY <1>9, <1>10, <1>11, <2>2, BeatsOrder DEF Values
  <2>. QED BY <1>10, <2>1, <2>2, Extreme
<1>13. Cell(a, lane) = r[1][1] * Scale
  BY <1>5, <1>6 DEF Cell
<1>14. Cell(a, lane) \in Int /\ Right(i, Cell(a, lane))
  <2>. HIDE DEF a
  <2>. QED BY <1>1, <1>10, <1>12, <1>13 DEF Right, RightValue, Variances
<1>. QED BY <1>3, <1>5, <1>14

\* As long as the window has not filled, it is all of the rows so far.
LEMMA WholeWindow ==
  ASSUME Parameters, Shape, NEW j \in Row, op \in Prefix \/ w = 0 \/ j < w
  PROVE  First(j) = 0 /\ Rows(j) = j + 1 /\ Sum(j) = SumTo(j + 1)
<1>1. j \in Nat
  BY Facts
<1>2. First(j) = 0
  BY DEF First
<1>3. Rows(j) = j + 1
  BY <1>1, <1>2 DEF Rows
<1>. QED BY <1>2, <1>3 DEF Sum, SumTo

\* The sums and the averages: s is the sum of the rows so far.
LEMMA SumStep ==
  ASSUME Parameters, Shape, Control, AccOK, FirstFills, AllRight, pc = "first", i \in Row, i < FirstEnd,
         op \in {"sum", "avg", "sums", "avgs", "sumw", "avgw", "var"}, NEW lane \in Lane(1)
  PROVE  LET a == Accumulate(acc)
         IN  /\ a \in AccType /\ a.s = SumTo(i + 1)
             /\ op \in {"sums", "avgs", "sumw", "avgw"} =>
                  Cell(a, lane) \in Int \cup Spoilt /\ Right(i, Cell(a, lane))
<1>. DEFINE a == Accumulate(acc)
<1>1. /\ i \in Nat /\ i < size /\ size \in Nat /\ arr[i] \in Int /\ acc \in AccType /\ acc.s \in Int /\ acc.ssq \in Int
      /\ Scale \in Int /\ size <= MaxLen /\ MaxLen \in Nat
  BY Facts DEF Shape, AccType
<1>2. acc.s = SumTo(i) /\ SumTo(i + 1) = SumTo(i) + arr[i] /\ SumTo(i) \in Int
  <2>1. acc.s = SumTo(i)
    BY <1>1 DEF AccOK, Sums
  <2>2. i \in 0..size
    BY <1>1
  <2>. QED BY <2>1, <2>2, FirstSums
<1>3. a = [acc EXCEPT !.s = @ + arr[i], !.ssq = @ + Narrow(arr[i] * arr[i])]
  BY DEF Accumulate
<1>4. a \in AccType /\ a.s = SumTo(i + 1)
  <2>1. PICK s1 \in Int, q1 \in Int : s1 = acc.s + arr[i] /\ q1 = acc.ssq + Narrow(arr[i] * arr[i])
    <3>1. PICK x \in Int : x = arr[i] * arr[i]
      BY <1>1
    <3>. QED BY <1>1, <3>1, NarrowInt
  <2>2. a = [acc EXCEPT !.s = s1, !.ssq = q1]
    BY <1>3, <2>1
  <2>3. a \in AccType /\ a.s = s1
    BY <1>1, <2>2 DEF AccType
  <2>. QED BY <1>2, <2>1, <2>3
<1>. HIDE DEF a
<1>5. ASSUME op \in {"sums", "avgs", "sumw", "avgw"}
      PROVE  Cell(a, lane) \in Int \cup Spoilt /\ Right(i, Cell(a, lane))
  <2>1. i >= 1 /\ i - 1 \in Row
    BY <1>1, <1>5 DEF Control, Sums, Row
  <2>2. op \in Prefix \/ i < w
    BY <1>5 DEF FirstEnd, Prefix
  <2>3. Rows(i) = i + 1 /\ Sum(i) = SumTo(i + 1)
    BY <2>2, WholeWindow
  <2>4. CASE op \in {"sums", "sumw"}
    <3>1. op \in Prefix \/ i - 1 < w
      BY <1>1, <2>1, <2>2, Facts
    <3>2. Sum(i - 1) = SumTo(i)
      <4>1. i - 1 + 1 = i
        BY <1>1
      <4>. QED BY <2>1, <3>1, <4>1, WholeWindow
    <3>3. ret[i - 1] # Undef
      BY <1>1, <2>1, <2>4 DEF FirstFills, Reached, Reductions
    <3>4. Cell(a, lane) = Behind(lane, arr[i] * Scale)
      BY <2>4 DEF Cell
    <3>5. CASE lane \/ ret[i - 1] = Garbage
      <4>1. Cell(a, lane) = Garbage
        BY <3>4, <3>5 DEF Behind
      <4>2. Garbage \in Spoilt
        <5>1. CASE lane
          <6>1. Simd /\ op \in Carried
            BY <5>1 DEF Lane
          <6>. QED BY <6>1 DEF Spoilt
        <5>2. CASE ret[i - 1] = Garbage
          <6>1. ret[i - 1] \in CellType /\ op \notin Ratios
            BY <2>1, <2>4 DEF Shape, Ratios
          <6>. QED BY <5>2, <6>1, Facts DEF CellType
        <5>. QED BY <3>5, <5>1, <5>2
      <4>. QED BY <4>1, <4>2 DEF Right, RightValue
    <3>6. CASE ~(lane \/ ret[i - 1] = Garbage)
      <4>1. ret[i - 1] = SumTo(i) * Scale
        BY <2>1, <2>4, <3>2, <3>3, <3>6 DEF AllRight, Right, RightValue
      <4>2. Cell(a, lane) = ret[i - 1] + arr[i] * Scale
        BY <3>4, <3>6 DEF Behind
      <4>3. Cell(a, lane) = SumTo(i + 1) * Scale /\ Cell(a, lane) \in Int
        BY <1>1, <1>2, <4>1, <4>2
      <4>. QED BY <2>3, <2>4, <4>3 DEF Right, RightValue, Variances
    <3>. QED BY <3>5, <3>6
  <2>5. CASE op \in {"avgs", "avgw"}
    <3>1. Cell(a, lane) = (SumTo(i + 1) * Scale) \div (i + 1)
      BY <1>4, <2>5 DEF Cell
    <3>2. Cell(a, lane) \in Int
      <4>1. SumTo(i + 1) * Scale \in Int /\ i + 1 \in Nat \ {0}
        BY <1>1, <1>2
      <4>. QED BY <3>1, <4>1, Quotient
    <3>. QED BY <2>3, <2>5, <3>1, <3>2 DEF Right, RightValue, Variances
  <2>. QED BY <1>5, <2>4, <2>5
<1>6. Accumulate(acc) = a
  BY DEF a
<1>. QED BY <1>4, <1>5, <1>6

\* The variances, by the mean and the sum of squared deviations of the rows so far.
LEMMA VarianceStep ==
  ASSUME Parameters, Shape, Control, AccOK, pc = "first", i \in Row, op \in Variances, NEW lane
  PROVE  LET a == Accumulate(acc)
         IN  /\ a \in AccType /\ a.s = SumTo(i + 1) /\ a.EnX * (i + 1) = a.s * Unit
             /\ a.MnX * (i + 1) = Scale * ((i + 1) * SumSqTo(i + 1) - a.s * a.s)
             /\ Cell(a, lane) \in Int /\ Right(i, Cell(a, lane))
<1>. DEFINE a == Accumulate(acc)
<1>1. /\ i \in Nat /\ i < size /\ size \in Nat /\ arr[i] \in Int /\ acc \in AccType /\ acc.s \in Int
      /\ acc.EnX \in Int /\ acc.MnX \in Int /\ Scale \in Int /\ Unit \in Int /\ size <= MaxLen /\ MaxLen \in Nat
  BY Facts DEF Shape, AccType
<1>2. i >= 1
  BY <1>1 DEF Control, Variances, Sums
<1>3. i \in 0..size /\ i \in Nat \ {0} /\ i + 1 \in 1..MaxLen /\ i + 1 \in Nat \ {0}
  BY <1>1, <1>2
<1>4. PICK n \in Nat \ {0}, x \in Int, s \in Int, e \in Int, m \in Int, q \in Int :
        n = i /\ x = arr[i] /\ s = acc.s /\ e = acc.EnX /\ m = acc.MnX /\ q = SumSqTo(i)
  <2>1. SumSqTo(i) \in Int
    BY <1>3, FirstSums
  <2>. QED BY <1>1, <1>3, <2>1
<1>5. /\ s = SumTo(i) /\ e * n = s * Unit /\ m * n = Scale * (n * q - s * s)
      /\ SumTo(i + 1) = s + x /\ SumSqTo(i + 1) = q + x * x
  <2>1. s = SumTo(i) /\ e * n = s * Unit /\ m * n = Scale * (n * q - s * s)
    BY <1>1, <1>4 DEF AccOK, Sums, Variances
  <2>. QED BY <1>4, <2>1, FirstSums
<1>6. PICK e1 \in Int : e1 = ((s + x) * Unit) \div (i + 1) /\ e1 * (n + 1) = (s + x) * Unit
  <2>1. PICK y \in Int : y = s + x
    BY <1>4
  <2>2. PICK k \in 1..MaxLen : k = i + 1
    BY <1>3
  <2>3. (y * Unit) \div k \in Int /\ ((y * Unit) \div k) * k = y * Unit
    BY MeanIs DEF Parameters
  <2>. QED BY <1>4, <2>1, <2>2, <2>3
<1>7. PICK m1 \in Int : m1 = m + (x * Unit - e) * (x * Unit - e1)
  BY <1>1
<1>8. a = [acc EXCEPT !.s = s + x, !.EnX = e1, !.MnX = m1]
  BY <1>4, <1>6, <1>7 DEF Accumulate, Deviation, Variances
<1>9. m1 * (n + 1) = Scale * ((n + 1) * (q + x * x) - (s + x) * (s + x))
  <2>1. PICK u \in Int : u = Unit
    BY <1>1
  <2>2. IsMean(e, n, s, u) /\ IsMean(e1, n + 1, s + x, u) /\ IsSpread(m, n, q, s, u) /\ Scale = u * u
    BY <1>5, <1>6, <2>1 DEF Scale, IsMean, IsSpread
  <2>3. IsSpread(m + (x * u - e) * (x * u - e1), n + 1, q + x * x, s + x, u)
    BY <2>2, VarianceMoves, Zenon
  <2>. QED BY <1>7, <2>1, <2>2, <2>3 DEF IsSpread
<1>10. a \in AccType /\ a.s = SumTo(i + 1) /\ a.EnX = e1 /\ a.MnX = m1 /\ a.s = s + x
  <2>1. PICK y \in Int : y = s + x
    BY <1>4
  <2>2. a = [acc EXCEPT !.s = y, !.EnX = e1, !.MnX = m1]
    BY <1>8, <2>1
  <2>. HIDE DEF a
  <2>3. a \in AccType /\ a.s = y /\ a.EnX = e1 /\ a.MnX = m1
    BY <1>1, <1>6, <1>7, <2>2 DEF AccType
  <2>. QED BY <1>5, <2>1, <2>3
<1>. HIDE DEF a
<1>11. Cell(a, lane) = m1 \div (i + 1)
  BY <1>10 DEF Cell, Variances
<1>12. Cell(a, lane) = (m1 * (n + 1)) \div ((n + 1) * (n + 1)) /\ Cell(a, lane) \in Int
  <2>1. PICK k \in Nat \ {0} : k = n + 1 /\ k = i + 1
    BY <1>3, <1>4
  <2>2. m1 \div k = (m1 * k) \div (k * k) /\ m1 \div k \in Int
    BY DividedTwice, Quotient
  <2>. QED BY <1>11, <2>1, <2>2
<1>13. Right(i, Cell(a, lane))
  BY <1>4, <1>5, <1>9, <1>12 DEF Right, RightValue, Variances
<1>14. Accumulate(acc) = a
  BY DEF a
<1>. QED BY <1>4, <1>5, <1>6, <1>9, <1>10, <1>12, <1>13, <1>14

\* The functions without accumulators.
LEMMA ShiftStep ==
  ASSUME Parameters, Shape, Control, pc = "first", i \in Row, op \in Shifts \cup Ratios, NEW lane
  PROVE  /\ Cell(acc, lane) \in (IF op \in Ratios THEN Pairs ELSE Int) /\ \A j, c : Right(j, c)
         /\ op = "aggnext" => i - 1 \in Row
<1>1. /\ i \in Nat /\ i < size /\ size \in Nat /\ Scale \in Int
      /\ \A j \in Row : arr[j] \in Data /\ arr[j] \in Int
  BY Facts
<1>2. \A j, c : Right(j, c)
  BY DEF Right, RightValue, Shifts, Ratios, Variances
<1>3. CASE op \in Shifts
  <2>1. i >= 1 /\ i - 1 \in Row
    BY <1>1, <1>3 DEF Control, Row
  <2>2. CASE op = "deltas"
    <3>1. Cell(acc, lane) = Narrow(arr[i] - arr[i - 1]) * Scale
      BY <2>2 DEF Cell
    <3>2. PICK d \in Int : d = arr[i] - arr[i - 1]
      BY <1>1, <2>1
    <3>3. Narrow(d) * Scale \in Int
      <4>1. PICK y \in Int : y = Narrow(d)
        BY NarrowInt
      <4>. QED BY <1>1, <4>1
    <3>. QED BY <3>2, <3>3, <1>1, <1>2, <2>1, <2>2, <3>1 DEF Ratios
  <2>3. CASE op = "prev"
    <3>1. Cell(acc, lane) = arr[i - 1] * Scale
      BY <2>3 DEF Cell
    <3>. QED BY <1>1, <1>2, <2>1, <2>3, <3>1 DEF Ratios
  <2>4. CASE op = "aggnext"
    <3>1. Cell(acc, lane) = arr[i] * Scale
      BY <2>4 DEF Cell
    <3>. QED BY <1>1, <1>2, <2>1, <2>4, <3>1 DEF Ratios
  <2>. QED BY <1>3, <2>2, <2>3, <2>4 DEF Shifts
<1>4. CASE op \in Ratios
  <2>1. Cell(acc, lane) = <<arr[i], arr[0]>>
    BY <1>4 DEF Cell, Ratios
  <2>2. 0 \in Row
    BY <1>1 DEF Row
  <2>. QED BY <1>1, <1>2, <1>4, <2>1, <2>2 DEF Pairs, Ratios
<1>. QED BY <1>3, <1>4

-----------------------------------------------------------------------------
(* The steps.                                                                *)

\* What a value should be depends on the inputs and the window alone.
LEMMA RightSame ==
  ASSUME UNCHANGED inputs, w' = w
  PROVE  /\ size' = size /\ Row' = Row /\ CellType' = CellType /\ AccType' = AccType /\ Start' = Start
         /\ LowestLimit' = LowestLimit /\ FirstEnd' = FirstEnd
         /\ \A n : SumTo(n)' = SumTo(n) /\ SumSqTo(n)' = SumSqTo(n)
         /\ \A m, n : LeastSoFar(m, n)' = LeastSoFar(m, n) /\ GreatestSoFar(m, n)' = GreatestSoFar(m, n)
         /\ \A q, n : Deque(q, n)' = Deque(q, n)
         /\ \A j, c : Right(j, c)' = Right(j, c)
<1>1. op' = op /\ floating' = floating /\ arr' = arr /\ w' = w
  BY DEF inputs
<1>2. size' = size /\ LowestLimit' = LowestLimit
  BY <1>1 DEF size, LowestLimit
<1>3. Row' = Row /\ FirstEnd' = FirstEnd /\ Start' = Start /\ CellType' = CellType
  BY <1>1, <1>2 DEF Row, FirstEnd, Start, CellType, Pairs, Spoilt
<1>4. AccType' = AccType
  BY <1>3 DEF AccType, Entries
<1>5. \A f, lo, n : Total(f, lo, n)' = Total(f, lo, n)
  BY DEF Total
<1>6. \A n : SumTo(n)' = SumTo(n) /\ SumSqTo(n)' = SumSqTo(n)
  BY <1>1 DEF SumTo, SumSqTo, Squares, Total
<1>7. \A j : First(j)' = First(j)
  BY <1>1 DEF First
<1>8. \A S : Values(S)' = Values(S)
  BY <1>1 DEF Values
<1>9. \A j : Window(j)' = Window(j) /\ Rows(j)' = Rows(j) /\ Sum(j)' = Sum(j)
  BY <1>1, <1>7 DEF Window, Rows, Sum, Total
<1>10. \A m, n : LeastSoFar(m, n)' = LeastSoFar(m, n) /\ GreatestSoFar(m, n)' = GreatestSoFar(m, n)
  BY <1>1, <1>2, <1>8 DEF LeastSoFar, GreatestSoFar
<1>11. \A q, n : Deque(q, n)' = Deque(q, n)
  BY <1>1, <1>7 DEF Deque, Beats
<1>12. \A j, c : Right(j, c)' = Right(j, c)
  <2>1. \A S : BelowStart(S)' = BelowStart(S)
    BY <1>1 DEF BelowStart
  <2>2. \A j : Fitting(j)' = Fitting(j)
    BY <1>1 DEF Fitting, Narrow
  <2>. QED BY <1>1, <1>2, <1>6, <1>8, <1>9, <2>1, <2>2 DEF Right, RightValue, Scale
<1>. QED BY <1>2, <1>3, <1>4, <1>6, <1>10, <1>11, <1>12

\* Before the first loop.
LEMMA Ready ==
  ASSUME WindowInit, Parameters
  PROVE  Inv /\ AllFilled
<1>1. PICK n \in 0..MaxLen : arr \in [0..(n - 1) -> Data]
  BY DEF WindowInit
<1>2. MaxLen \in Nat \ {0} /\ MaxWindow \in Nat \ {0}
  BY DEF Parameters, Bounds
<1>3. size = n /\ DOMAIN arr = 0..(n - 1)
  <2>1. DOMAIN arr = 0..(n - 1)
    BY <1>1
  <2>2. Cardinality(0..(n - 1)) = n
    <3>1. n \in Nat /\ 0 \in Int /\ n - 1 \in Int
      BY <1>2
    <3>2. Cardinality(0..(n - 1)) = IF 0 > n - 1 THEN 0 ELSE (n - 1) - 0 + 1
      BY <3>1, FS_Interval
    <3>. QED BY <3>1, <3>2
  <2>. QED BY <2>1, <2>2 DEF size
<1>4. Row = DOMAIN arr
  BY <1>3 DEF Row
<1>5. /\ pc = "begin" /\ i = 0 /\ acc = Accumulators /\ wild = {}
      /\ ret = [j \in DOMAIN arr |-> Undef] /\ roots = [j \in DOMAIN arr |-> 0]
      /\ op \in Reductions \cup Prefix \cup Moving /\ floating \in BOOLEAN
      /\ w \in IF op \in Moving THEN 0..MaxWindow ELSE {1}
  BY DEF WindowInit
<1>6. Shape
  <2>1. Accumulators \in AccType
    <3>1. <<>> \in Entries
      BY DEF Entries
    <3>. QED BY <3>1 DEF Accumulators, AccType
  <2>2. w \in 0..Greatest(MaxLen, MaxWindow)
    BY <1>2, <1>5 DEF Greatest
  <2>. QED BY <1>1, <1>2, <1>3, <1>4, <1>5, <2>1, <2>2 DEF Shape, CellType
<1>7. Control
  <2>1. w <= MaxWindow /\ (op \notin Moving => w = 1)
    BY <1>2, <1>5
  <2>2. \A j \in Row : ret[j] = Undef /\ roots[j] = 0
    BY <1>4, <1>5
  <2>. QED BY <1>5, <2>1, <2>2 DEF Control
<1>8. AccOK /\ RootsOK /\ FirstFills /\ ReductionIsLast /\ InBounds /\ AllFilled
  BY <1>5 DEF AccOK, RootsOK, FirstFills, ReductionIsLast, InBounds, AllFilled
<1>9. AllRight
  BY <1>4, <1>5 DEF AllRight
<1>. QED BY <1>6, <1>7, <1>8, <1>9 DEF Inv

\* What every function's beginning has in common.
LEMMA Begun ==
  ASSUME Parameters, Inv, Begin
  PROVE  /\ UNCHANGED inputs /\ UNCHANGED <<out, roots>> /\ pc = "begin" /\ pc' = "first"
         /\ i = 0 /\ acc = Accumulators /\ wild = {} /\ w <= MaxWindow /\ (op \notin Moving => w = 1)
         /\ \A j \in Row : ret[j] = Undef /\ roots[j] = 0
         /\ ReductionIsLast' /\ size' = size /\ Row' = Row /\ CellType' = CellType
         /\ acc \in AccType /\ ret \in [Row -> CellType] /\ MaxLen \in Nat \ {0} /\ MaxWindow \in Nat
<1>1. UNCHANGED inputs /\ UNCHANGED <<out, roots>> /\ pc = "begin" /\ pc' = "first"
  BY DEF Begin, BeginExtremum, BeginSums, BeginShift, BeginRatio, Loop
<1>2. /\ i = 0 /\ acc = Accumulators /\ wild = {} /\ w <= MaxWindow /\ (op \notin Moving => w = 1)
      /\ \A j \in Row : ret[j] = Undef /\ roots[j] = 0
  BY <1>1 DEF Inv, Control
<1>3. ReductionIsLast'
  BY <1>1 DEF ReductionIsLast
<1>4. size' = size /\ Row' = Row /\ CellType' = CellType
  BY <1>1 DEF inputs, size, Row, CellType, Pairs, Spoilt
<1>5. acc \in AccType /\ ret \in [Row -> CellType]
  BY DEF Inv, Shape
<1>6. MaxLen \in Nat \ {0} /\ MaxWindow \in Nat
  BY DEF Parameters, Bounds
<1>. QED BY <1>1, <1>2, <1>3, <1>4, <1>5, <1>6

\* A function of extrema, or sum or avg, begins: nothing is written yet, the best value is the limit.
LEMMA BeginExtremumStep ==
  ASSUME Parameters, Inv, Begin, BeginExtremum
  PROVE  Inv'
<1>1. /\ op \in Extrema /\ acc' = [acc EXCEPT !.best = Start] /\ i' = 0 /\ w' = w /\ ret' = ret /\ wild' = wild
  BY DEF BeginExtremum, Loop, Extrema
<1>2. Shape
  BY DEF Inv
<1>3. op' = op /\ floating' = floating /\ arr' = arr
  BY Begun DEF inputs
<1>4. Start \in Int /\ Start' = Start /\ LowestLimit \in Int /\ LowestLimit' = LowestLimit /\ w \in Nat /\ size \in Nat
  BY <1>2, <1>3, Facts DEF Start, LowestLimit
<1>5. op \notin Sums \cup Shifts \cup Ratios \cup TwoLoops \cup Variances
  BY <1>1, <1>2, Kinds
<1>6. acc' \in AccType /\ acc'.best = Start /\ acc'.s = 0 /\ acc'.cache = <<>>
  <2>1. acc' \in AccType /\ acc'.best = Start /\ acc'.s = acc.s /\ acc'.cache = acc.cache
    BY <1>1, <1>4, Begun DEF AccType
  <2>. QED BY <2>1, Begun DEF Accumulators
<1>7. Shape'
  <2>1. acc' \in AccType'
    BY <1>6, Begun DEF AccType, Entries
  <2>. QED BY <1>1, <1>2, <1>3, <2>1, Begun DEF Shape
<1>8. Control'
  <2>1. op \notin {"varw", "stddevw"} /\ size' = size
    BY <1>5, Begun DEF Variances
  <2>2. op \in {"minw", "maxw"} => w <= MaxWindow
    BY Begun
  <2>. QED BY <1>1, <1>3, <1>4, <1>5, <2>1, <2>2, Begun DEF Control, Sums, Shifts, Ratios, Extrema
<1>9. AccOK'
  <2>1. op \in {"min", "mins"} => LeastSoFar(Start, 0)'
    BY <1>4 DEF LeastSoFar, Start
  <2>2. op \in {"max", "maxs"} => GreatestSoFar(Start, 0)'
    BY <1>4 DEF GreatestSoFar, Start
  <2>3. op \in {"minw", "maxw"} => Deque(<<>>, 0)'
    <3>1. ASSUME op \in {"minw", "maxw"} PROVE First(0 - 1) = 0
      <4>1. op \notin Prefix
        BY <3>1 DEF Prefix
      <4>2. 0 - 1 < w
        BY <1>4
      <4>. QED BY <4>2 DEF First
    <3>2. First(0 - 1)' = First(0 - 1)
      BY <1>1, <1>3 DEF First
    <3>3. DOMAIN <<>> = {} /\ 0..(0 - 1) = {}
      OBVIOUS
    <3>. QED BY <3>1, <3>2, <3>3 DEF Deque
  <2>4. SumTo(0)' = 0
    <3>1. SumTo(0) = 0
      BY <1>2, FirstSums
    <3>2. SumTo(0)' = SumTo(0)
      BY <1>3 DEF SumTo, Total
    <3>. QED BY <3>1, <3>2
  <2>5. /\ op \in {"min", "mins"} => LeastSoFar(acc.best, i)'
        /\ op \in {"max", "maxs"} => GreatestSoFar(acc.best, i)'
        /\ op \in {"minw", "maxw"} => Deque(acc.cache, i)'
        /\ acc'.s = SumTo(i)'
    BY <1>1, <1>4, <1>6, <2>1, <2>2, <2>3, <2>4 DEF LeastSoFar, GreatestSoFar, Deque, SumTo
  <2>. QED BY <1>1, <1>3, <1>5, <2>5 DEF AccOK, Sums, Variances
<1>10. RootsOK'
  BY <1>3, <1>5 DEF RootsOK, Variances
<1>11. FirstFills'
  <2>1. Reached' = 0
    BY <1>1, <1>3 DEF Reached, Extrema
  <2>2. \A j \in Row : ~(j < 0)
    BY <1>4 DEF Row
  <2>. QED BY <2>1, <2>2, Begun DEF FirstFills
<1>12. InBounds'
  BY <1>1, Begun DEF InBounds
<1>13. AllRight'
  BY <1>1, Begun DEF AllRight
<1>. QED BY <1>7, <1>8, <1>9, <1>10, <1>11, <1>12, <1>13, Begun DEF Inv

\* deltas, prev and aggnext begin.
LEMMA BeginShiftStep ==
  ASSUME Parameters, Inv, Begin, BeginShift
  PROVE  Inv'
<1>1. /\ op \in Shifts /\ i' = 1 /\ w' = w /\ acc' = acc /\ wild' = wild
      /\ ret' = IF size = 0 \/ op = "aggnext" THEN ret
                ELSE [ret EXCEPT ![0] = IF op = "prev" THEN arr[0] * Scale ELSE 0]
  BY DEF BeginShift, Loop, Shifts
<1>2. Shape
  BY DEF Inv
<1>3. op' = op /\ floating' = floating /\ arr' = arr
  BY Begun DEF inputs
<1>4. /\ w \in Nat /\ size \in Nat /\ Scale \in Int /\ Undef \notin Int
      /\ \A j \in Row : arr[j] \in Int /\ j \in Nat
  BY <1>2, Facts
<1>5. op \notin Extrema \cup Sums \cup Ratios \cup TwoLoops \cup Variances \cup Reductions
  BY <1>1, <1>2, Kinds
<1>6. Int \subseteq CellType
  BY <1>5 DEF CellType
<1>7. /\ ret' \in [Row -> CellType]
      /\ \A j \in Row : j < 1 /\ op # "aggnext" => ret'[j] # Undef
  <2>1. CASE size = 0 \/ op = "aggnext"
    <3>1. ret' = ret
      BY <1>1, <2>1
    <3>2. size = 0 => Row = {}
      BY DEF Row
    <3>. QED BY <2>1, <3>1, <3>2, Begun
  <2>2. CASE ~(size = 0 \/ op = "aggnext")
    <3>1. 0 \in Row
      BY <1>4, <2>2 DEF Row
    <3>2. PICK c \in Int : ret' = [ret EXCEPT ![0] = c]
      <4>1. arr[0] * Scale \in Int /\ 0 \in Int
        BY <1>4, <3>1
      <4>2. (IF op = "prev" THEN arr[0] * Scale ELSE 0) \in Int
        BY <4>1
      <4>. QED BY <1>1, <2>2, <4>2
    <3>3. ret' \in [Row -> CellType] /\ ret'[0] = c
      BY <1>6, <3>1, <3>2, Begun
    <3>4. \A j \in Row : j < 1 => j = 0
      BY <1>4
    <3>. QED BY <1>4, <3>3, <3>4
  <2>. QED BY <2>1, <2>2
<1>8. Shape'
  <2>1. AccType' = AccType
    BY Begun DEF AccType, Entries
  <2>2. i' \in 0..MaxLen
    BY <1>1, Begun
  <2>. QED BY <1>1, <1>2, <1>3, <1>7, <2>1, <2>2, Begun DEF Shape
<1>9. Control'
  <2>1. 1 <= Greatest(FirstEnd, 1)'
    <3>1. FirstEnd' = size
      BY <1>3, <1>5, Begun DEF FirstEnd, TwoLoops
    <3>. QED BY <1>4, <3>1 DEF Greatest
  <2>2. op \notin {"minw", "maxw"}
    BY <1>1 DEF Shifts
  <2>. QED BY <1>1, <1>3, <1>5, <2>1, <2>2, Begun DEF Control
<1>10. AccOK'
  BY <1>1, <1>3, <1>5 DEF AccOK, Shifts, Sums, Variances
<1>11. RootsOK'
  BY <1>1, <1>3, <1>5 DEF RootsOK, Variances
<1>12. FirstFills'
  <2>1. Reached' = IF op = "aggnext" THEN 0 ELSE 1
    BY <1>1, <1>3, <1>5 DEF Reached
  <2>2. \A j \in Row : ~(j < 0)
    BY <1>4
  <2>. QED BY <1>7, <2>1, <2>2, Begun DEF FirstFills
<1>13. InBounds'
  BY <1>1, Begun DEF InBounds
<1>14. AllRight'
  BY <1>1, <1>3 DEF AllRight, Right, RightValue, Shifts, Variances
<1>. QED BY <1>8, <1>9, <1>10, <1>11, <1>12, <1>13, <1>14, Begun DEF Inv

\* ratios and ratiow begin, on an empty column by writing past its end.
LEMMA BeginRatioStep ==
  ASSUME Parameters, Inv, Begin, BeginRatio
  PROVE  Inv'
<1>1. /\ op \in Ratios /\ i' = 0 /\ acc' = acc
      /\ w' = IF size <= w THEN Least(w, 1) ELSE w
      /\ ret' = IF size > 0 THEN [ret EXCEPT ![0] = <<0, 1>>] ELSE ret
      /\ wild' = IF size > 0 THEN wild ELSE wild \cup {<<"ret", 0>>}
  BY DEF BeginRatio, Loop, Ratios
<1>2. Shape
  BY DEF Inv
<1>3. op' = op /\ floating' = floating /\ arr' = arr
  BY Begun DEF inputs
<1>4. w \in Nat /\ size \in Nat /\ \A j \in Row : j \in Nat
  BY <1>2, Facts
<1>5. op \notin Extrema \cup Sums \cup Shifts \cup Variances \cup Reductions
  BY <1>1, <1>2, Kinds
<1>6. CellType = {Undef} \cup Pairs /\ <<0, 1>> \in Pairs
  BY <1>1 DEF CellType, Pairs
<1>7. ret' \in [Row -> CellType]
  <2>1. CASE size > 0
    <3>1. 0 \in Row
      BY <1>4, <2>1 DEF Row
    <3>. QED BY <1>1, <1>6, <2>1, <3>1, Begun
  <2>2. CASE ~(size > 0)
    BY <1>1, <2>2, Begun
  <2>. QED BY <2>1, <2>2
<1>8. w' \in 0..w /\ w' <= Greatest(size, 1)
  BY <1>1, <1>4 DEF Least, Greatest
<1>9. Shape'
  <2>1. AccType' = AccType
    BY Begun DEF AccType, Entries
  <2>2. w' \in 0..Greatest(MaxLen, MaxWindow)
    BY <1>2, <1>4, <1>8, Begun DEF Shape, Greatest
  <2>. QED BY <1>1, <1>2, <1>3, <1>7, <2>1, <2>2, Begun DEF Shape
<1>10. Control'
  <2>1. op \notin {"minw", "maxw"}
    BY <1>1 DEF Ratios
  <2>2. Greatest(size, 1)' = Greatest(size, 1)
    BY Begun DEF Greatest
  <2>3. 0 <= w'
    BY <1>4, <1>8
  <2>. QED BY <1>1, <1>3, <1>5, <1>8, <2>1, <2>2, <2>3, Begun DEF Control
<1>11. AccOK'
  BY <1>1, <1>3, <1>5 DEF AccOK, Ratios, Sums, Variances
<1>12. RootsOK'
  BY <1>1, <1>3, <1>5 DEF RootsOK, Variances
<1>13. FirstFills'
  <2>1. Reached' = 0
    BY <1>1, <1>3, <1>5 DEF Reached, Ratios
  <2>2. \A j \in Row : ~(j < 0)
    BY <1>4
  <2>. QED BY <2>1, <2>2, Begun DEF FirstFills
<1>14. InBounds'
  <2>1. size > 0 => wild' = {}
    BY <1>1, Begun
  <2>2. ~(size > 0) => size' = 0 /\ op' \in {"ratios", "ratiow"}
    BY <1>1, <1>3, <1>4, Begun DEF Ratios
  <2>. QED BY <2>1, <2>2 DEF InBounds
<1>15. AllRight'
  BY <1>1, <1>3 DEF AllRight, Right, RightValue, Ratios, Variances
<1>. QED BY <1>9, <1>10, <1>11, <1>12, <1>13, <1>14, <1>15, Begun DEF Inv

\* The sums, averages and variances begin: the first cell is that of a window of one row.
LEMMA BeginSumsStep ==
  ASSUME Parameters, Inv, Begin, BeginSums
  PROVE  Inv'
<1>1. op \in Sums /\ i' = 1 /\ w' = Clamped /\ wild' = wild
  BY DEF BeginSums, Loop, Sums
<1>2. Shape
  BY DEF Inv
<1>3. op' = op /\ floating' = floating /\ arr' = arr
  BY Begun DEF inputs
<1>4. /\ w \in Nat /\ size \in Nat /\ Scale \in Int /\ Unit \in Int /\ Undef \notin Int /\ size <= MaxLen
      /\ \A j \in Row : arr[j] \in Int /\ j \in Nat /\ j < size
  BY <1>2, Facts
<1>5. op \notin Extrema \cup Shifts \cup Ratios
  BY <1>1, <1>2, Kinds
<1>6. Int \subseteq CellType
  BY <1>5 DEF CellType
<1>7. w' \in Nat /\ w' <= size /\ (op \notin Moving => w' = size)
  BY <1>1, <1>4 DEF Clamped, Least
<1>8. ASSUME size > 0
      PROVE  /\ 0 \in Row /\ arr[0] \in Int /\ acc' \in AccType /\ acc'.s = arr[0] /\ acc'.EnX = arr[0] * Unit /\ acc'.MnX = 0
             /\ SumTo(1) = arr[0] /\ SumSqTo(1) = arr[0] * arr[0]
  <2>1. 0 \in Row
    BY <1>4, <1>8 DEF Row
  <2>2. PICK x \in Int, y \in Int, z \in Int : x = arr[0] /\ y = Narrow(arr[0] * arr[0]) /\ z = arr[0] * Unit
    <3>1. arr[0] \in Int
      BY <1>4, <2>1
    <3>2. arr[0] * Unit \in Int
      BY <1>4, <3>1
    <3>3. PICK q \in Int : q = arr[0] * arr[0]
      BY <3>1
    <3>. QED BY <3>1, <3>2, <3>3, NarrowInt
  <2>3. acc' = [acc EXCEPT !.s = x, !.ssq = y, !.EnX = z]
    BY <1>8, <2>2 DEF BeginSums
  <2>4. acc' \in AccType /\ acc'.s = x /\ acc'.EnX = z /\ acc'.MnX = acc.MnX
    BY <2>3, Begun DEF AccType
  <2>5. acc.MnX = 0
    BY Begun DEF Accumulators
  <2>6. SumTo(1) = arr[0] /\ SumSqTo(1) = arr[0] * arr[0]
    <3>1. SumTo(0 + 1) = 0 + arr[0] /\ SumSqTo(0 + 1) = 0 + arr[0] * arr[0]
      BY <1>2, <2>1, FirstSums
    <3>2. 0 + 1 = 1 /\ 0 + arr[0] = arr[0] /\ 0 + arr[0] * arr[0] = arr[0] * arr[0]
      <4>1. arr[0] \in Int
        BY <2>2
      <4>. QED BY <4>1
    <3>. QED BY <3>1, <3>2
  <2>. QED BY <2>1, <2>2, <2>4, <2>5, <2>6
<1>9. size = 0 => acc' = acc /\ ret' = ret /\ Row = {}
  BY DEF BeginSums, Row
<1>10. acc' \in AccType
  BY <1>4, <1>8, <1>9, Begun
<1>11. ASSUME size > 0, op # "var"
       PROVE  \E c \in Int : /\ ret' = [ret EXCEPT ![0] = c]
                             /\ c = IF op \in {"sums", "sumw", "avgs", "avgw"} THEN arr[0] * Scale ELSE 0
  <2>1. arr[0] * Scale \in Int
    BY <1>4, <1>8, <1>11
  <2>2. (IF op \in {"sums", "sumw", "avgs", "avgw"} THEN arr[0] * Scale ELSE 0) \in Int
    BY <2>1
  <2>. QED BY <1>11, <2>2 DEF BeginSums
<1>12. op = "var" => ret' = ret
  BY <1>4, <1>9 DEF BeginSums
<1>13. /\ ret' \in [Row -> CellType]
       /\ \A j \in Row : j > 0 => ret'[j] = Undef
       /\ op # "var" => \A j \in Row : j < 1 => ret'[j] # Undef
  <2>1. CASE size = 0 \/ op = "var"
    BY <1>9, <1>12, <2>1, Begun
  <2>2. CASE size > 0 /\ op # "var"
    <3>1. PICK c \in Int : ret' = [ret EXCEPT ![0] = c]
      BY <1>11, <2>2
    <3>2. ret' \in [Row -> CellType] /\ ret'[0] = c /\ \A j \in Row : j # 0 => ret'[j] = ret[j]
      BY <1>6, <1>8, <2>2, <3>1, Begun
    <3>3. \A j \in Row : j < 1 => j = 0
      BY <1>4
    <3>4. \A j \in Row : j > 0 => j # 0
      BY <1>4
    <3>. QED BY <1>4, <3>2, <3>3, <3>4, Begun
  <2>. QED BY <1>4, <2>1, <2>2
<1>14. Shape'
  <2>1. AccType' = AccType
    BY Begun DEF AccType, Entries
  <2>2. w' \in 0..Greatest(MaxLen, MaxWindow)
    BY <1>4, <1>7, Begun DEF Greatest
  <2>3. i' \in 0..MaxLen
    BY <1>1, Begun
  <2>. QED BY <1>2, <1>3, <1>10, <1>13, <2>1, <2>2, <2>3, Begun DEF Shape
<1>15. Control'
  <2>1. i' <= Greatest(FirstEnd, 1)'
    <3>1. FirstEnd' \in Nat
      BY <1>3, <1>4, <1>7, Begun DEF FirstEnd
    <3>. QED BY <1>1, <3>1 DEF Greatest
  <2>2. op \notin {"minw", "maxw"}
    BY <1>1 DEF Sums
  <2>. QED BY <1>1, <1>3, <1>5, <1>7, <2>1, <2>2, Begun DEF Control
<1>16. AccOK'
  <2>1. ASSUME size > 0
        PROVE  /\ acc'.s = SumTo(i)'
               /\ acc'.EnX * i' = acc'.s * Unit
               /\ acc'.MnX * i' = Scale' * (i' * SumSqTo(i)' - acc'.s * acc'.s)
    <3>1. SumTo(i)' = SumTo(1) /\ SumSqTo(i)' = SumSqTo(1)
      BY <1>1, <1>3 DEF SumTo, SumSqTo, Squares, Total
    <3>2. arr[0] * Unit \in Int /\ arr[0] * arr[0] \in Int /\ Scale' = Scale
      BY <1>4, <1>8, <2>1 DEF Scale
    <3>3. (arr[0] * Unit) * 1 = arr[0] * Unit
      BY <3>2
    <3>4. 0 * 1 = Scale * (1 * (arr[0] * arr[0]) - arr[0] * arr[0])
      <4>1. 1 * (arr[0] * arr[0]) - arr[0] * arr[0] = 0
        BY <3>2
      <4>2. Scale * 0 = 0 /\ 0 * 1 = 0
        BY <1>4
      <4>. QED BY <4>1, <4>2
    <3>. QED BY <1>1, <1>8, <2>1, <3>1, <3>2, <3>3, <3>4
  <2>2. op \notin {"mins", "min", "maxs", "max", "minw", "maxw"} /\ op \notin {"sum", "avg"}
    BY <1>1 DEF Sums
  <2>3. Scale' * (i' * SumSqTo(i)' - acc'.s * acc'.s) = (Scale * (i * SumSqTo(i) - acc.s * acc.s))'
    OBVIOUS
  <2>. QED BY <1>3, <2>1, <2>2, <2>3, Begun DEF AccOK
<1>17. RootsOK'
  <2>1. \A j \in Row : roots[j] = 0 /\ j \in Nat
    BY <1>4, Begun
  <2>2. \A j \in Nat : ~(j < 1 - 1) /\ ~(0 < j /\ j < 1)
    OBVIOUS
  <2>. QED BY <1>1, <1>3, <2>1, <2>2, Begun DEF RootsOK
<1>18. FirstFills'
  <2>1. Reached' = IF op = "var" THEN 0 ELSE 1
    <3>1. op \in Reductions <=> op = "var"
      BY <1>1 DEF Sums, Reductions
    <3>2. op # "aggnext"
      BY <1>1 DEF Sums
    <3>. QED BY <1>1, <1>3, <3>1, <3>2 DEF Reached
  <2>2. \A j \in Row : ~(j < 0)
    BY <1>4
  <2>. QED BY <1>13, <2>1, <2>2, Begun DEF FirstFills
<1>19. InBounds'
  BY <1>1, Begun DEF InBounds
<1>20. AllRight'
  <2>. SUFFICES ASSUME NEW j \in Row', ret'[j] # Undef
                PROVE  Right(j, ret[j])'
    BY DEF AllRight
  <2>1. j \in Row /\ j \in Nat /\ size > 0
    BY <1>4, Begun
  <2>2. j = 0
    BY <1>13, <2>1
  <2>3. op # "var" /\ op \notin {"mins", "minw", "maxs", "maxw"}
    <3>1. op # "var"
      BY <1>12, <2>1, Begun
    <3>. QED BY <1>1, <3>1 DEF Sums
  <2>4. PICK c \in Int : /\ ret' = [ret EXCEPT ![0] = c]
                         /\ c = IF op \in {"sums", "sumw", "avgs", "avgw"} THEN arr[0] * Scale ELSE 0
    BY <1>11, <2>1, <2>3
  <2>5. ret'[j] = c
    BY <2>1, <2>2, <2>4, Begun
  <2>6. First(j)' = 0
    <3>1. w' = 0 \/ j < w'
      BY <1>7, <2>2
    <3>. QED BY <3>1 DEF First
  <2>7. Rows(j)' = 1 /\ Sum(j)' = arr[0]
    <3>1. Rows(j)' = 1
      BY <2>2, <2>6 DEF Rows
    <3>2. Sum(j)' = SumTo(1)
      BY <1>3, <2>6, <3>1 DEF Sum, SumTo, Total
    <3>. QED BY <1>8, <2>1, <3>1, <3>2
  <2>8. SumTo(j + 1)' = arr[0] /\ SumSqTo(j + 1)' = arr[0] * arr[0]
    <3>1. j + 1 = 1
      BY <2>2
    <3>2. SumTo(j + 1)' = SumTo(1) /\ SumSqTo(j + 1)' = SumSqTo(1)
      BY <1>3, <3>1 DEF SumTo, SumSqTo, Squares, Total
    <3>. QED BY <1>8, <2>1, <3>2
  <2>9. Scale' = Scale
    BY DEF Scale
  <2>10. CASE op \in {"sums", "sumw"}
    BY <1>3, <2>3, <2>4, <2>5, <2>7, <2>9, <2>10 DEF Right, RightValue, Variances
  <2>11. CASE op \in {"avgs", "avgw"}
    <3>1. arr[0] * Scale \in Int
      BY <1>4, <1>8, <2>1
    <3>2. (arr[0] * Scale) \div 1 = arr[0] * Scale
      <4>1. PICK x \in Int : x = arr[0] * Scale
        BY <3>1
      <4>2. (x * 1) \div 1 = x /\ x * 1 = x
        BY Exactly
      <4>. QED BY <4>1, <4>2
    <3>. QED BY <1>3, <2>3, <2>4, <2>5, <2>7, <2>9, <2>11, <3>2 DEF Right, RightValue, Variances
  <2>12. CASE op \in Variances
    <3>1. (Scale * ((j + 1) * (arr[0] * arr[0]) - arr[0] * arr[0])) \div ((j + 1) * (j + 1)) = 0
      <4>1. arr[0] * arr[0] \in Int
        BY <1>8, <2>1
      <4>2. (j + 1) * (arr[0] * arr[0]) - arr[0] * arr[0] = 0
        <5>1. PICK y \in Int : y = arr[0] * arr[0]
          BY <4>1
        <5>2. (0 + 1) * y - y = 0
          OBVIOUS
        <5>. QED BY <2>2, <5>1, <5>2
      <4>3. Scale * 0 = 0 /\ (j + 1) * (j + 1) = 1
        BY <1>4, <2>2
      <4>4. 0 \div 1 = 0
        OBVIOUS
      <4>. QED BY <4>2, <4>3, <4>4
    <3>2. c = 0
      BY <2>4, <2>12 DEF Variances
    <3>. QED BY <1>3, <2>3, <2>5, <2>8, <2>9, <2>12, <3>1, <3>2 DEF Right, RightValue, Variances
  <2>13. op \in {"sums", "sumw"} \cup {"avgs", "avgw"} \cup Variances
    BY <1>1, <2>3 DEF Sums, Variances
  <2>. QED BY <2>10, <2>11, <2>12, <2>13
<1>. QED BY <1>14, <1>15, <1>16, <1>17, <1>18, <1>19, <1>20, Begun DEF Inv

\* Every function begins well.
LEMMA BeginStep ==
  ASSUME Parameters, Inv, Begin
  PROVE  Inv'
BY BeginExtremumStep, BeginShiftStep, BeginRatioStep, BeginSumsStep DEF Begin

\* The accumulators and the cell after an iteration of the first loop.
LEMMA Iteration ==
  ASSUME Parameters, Inv, pc = "first", i \in Row, i < FirstEnd,
         NEW a, a = IF op \in {"deltas", "prev", "aggnext", "ratios", "ratiow"} THEN acc ELSE Accumulate(acc),
         NEW lane \in Lane(1)
  PROVE  /\ a \in AccType
         /\ op \notin Reductions => /\ Cell(a, lane) \in CellType /\ Cell(a, lane) # Undef
                                    /\ Right(IF op = "aggnext" THEN i - 1 ELSE i, Cell(a, lane))
         /\ op \in {"mins", "min"} => LeastSoFar(a.best, i + 1)
         /\ op \in {"maxs", "max"} => GreatestSoFar(a.best, i + 1)
         /\ op \in {"minw", "maxw"} => Deque(a.cache, i + 1)
         /\ op \in Sums \cup {"sum", "avg"} => a.s = SumTo(i + 1)
         /\ op \in Variances => /\ a.EnX * (i + 1) = a.s * Unit
                                /\ a.MnX * (i + 1) = Scale * ((i + 1) * SumSqTo(i + 1) - a.s * a.s)
<1>1. Shape /\ Control /\ AccOK /\ FirstFills /\ AllRight
  BY DEF Inv
<1>2. op \in Extrema \cup Sums \cup Shifts \cup Ratios /\ Undef \notin Int
  BY <1>1, Kinds, Facts
<1>3. /\ op \notin Ratios => Int \cup Spoilt \subseteq CellType
      /\ Undef \notin Spoilt
  BY <1>1, Facts DEF CellType, Spoilt
<1>4. CASE op \in {"min", "mins", "max", "maxs"}
  <2>1. a = Accumulate(acc) /\ op \notin Ratios \cup Sums \cup Variances
    BY <1>4 DEF Ratios, Sums, Variances
  <2>2. op \in Reductions \/ op \in {"mins", "maxs"}
    BY <1>4 DEF Reductions
  <2>. QED BY <1>1, <1>2, <1>3, <1>4, <2>1, <2>2, ExtremumStep
<1>5. CASE op \in {"minw", "maxw"}
  <2>1. a = Accumulate(acc) /\ op \notin Ratios \cup Sums \cup Variances
    BY <1>5 DEF Ratios, Sums, Variances
  <2>2. w <= MaxWindow
    BY <1>1, <1>5 DEF Control
  <2>. QED BY <1>1, <1>2, <1>3, <1>5, <2>1, <2>2, DequeStep
<1>6. CASE op \in {"sum", "avg", "sums", "avgs", "sumw", "avgw", "var"}
  <2>1. a = Accumulate(acc) /\ op \notin Ratios \cup Variances
    BY <1>6 DEF Ratios, Variances
  <2>2. op \in Reductions \/ op \in {"sums", "avgs", "sumw", "avgw"}
    BY <1>6 DEF Reductions
  <2>. QED BY <1>1, <1>2, <1>3, <1>6, <2>1, <2>2, SumStep
<1>7. CASE op \in Variances
  <2>1. a = Accumulate(acc) /\ op \notin Ratios \cup {"sum", "avg", "mins", "min", "maxs", "max", "minw", "maxw", "aggnext"}
    BY <1>7 DEF Ratios, Variances
  <2>. QED BY <1>1, <1>2, <1>3, <1>7, <2>1, VarianceStep
<1>8. CASE op \in Shifts \cup Ratios
  <2>1. a = acc /\ op \notin Sums \cup Variances \cup {"sum", "avg", "mins", "min", "maxs", "max", "minw", "maxw"}
    BY <1>8 DEF Ratios, Shifts, Sums, Variances
  <2>2. acc \in AccType
    BY <1>1 DEF Shape
  <2>3. Cell(acc, lane) \in (IF op \in Ratios THEN Pairs ELSE Int) /\ \A j, c : Right(j, c)
    BY <1>1, <1>8, ShiftStep
  <2>4. Undef \notin Pairs
    BY DEF Pairs, Parameters, NoCell
  <2>5. Cell(acc, lane) \in CellType /\ Cell(acc, lane) # Undef
    BY <1>2, <2>3, <2>4 DEF CellType
  <2>. QED BY <2>1, <2>2, <2>3, <2>5
<1>9. op \in Extrema => op \in {"min", "mins", "max", "maxs"} \cup {"minw", "maxw"} \cup {"sum", "avg"}
  BY DEF Extrema
<1>10. op \in Sums => op \in {"sums", "avgs", "sumw", "avgw", "var"} \cup Variances
  BY DEF Sums, Variances
<1>. QED BY <1>2, <1>4, <1>5, <1>6, <1>7, <1>8, <1>9, <1>10

\* An iteration of the first loop writes one right cell.
LEMMA FirstLoopStep ==
  ASSUME Parameters, Inv, FirstLoop
  PROVE  Inv'
<1>1. /\ pc = "first" /\ pc' = "first" /\ i < FirstEnd /\ i < size /\ i' = i + 1 /\ UNCHANGED inputs /\ w' = w
      /\ out' = out /\ wild' = wild /\ roots' = Rooted
      /\ acc' = IF op \in {"deltas", "prev", "aggnext", "ratios", "ratiow"} THEN acc ELSE Accumulate(acc)
  BY DEF FirstLoop
<1>2. Shape /\ Control /\ AccOK /\ RootsOK /\ FirstFills /\ AllRight /\ InBounds
  BY <1>1 DEF Inv
<1>3. /\ i \in Nat /\ size \in Nat /\ w \in Nat /\ size <= MaxLen /\ MaxLen \in Nat /\ Undef \notin Int
      /\ \A j \in Row : j \in Nat /\ j < size
  BY <1>2, Facts
<1>4. i \in Row
  BY <1>1, <1>3 DEF Row
<1>5. op' = op /\ floating' = floating /\ arr' = arr
  BY <1>1 DEF inputs
<1>. DEFINE at == IF op = "aggnext" THEN i - 1 ELSE i
<1>6. /\ size' = size /\ Row' = Row /\ CellType' = CellType /\ AccType' = AccType
      /\ LowestLimit' = LowestLimit /\ FirstEnd' = FirstEnd
      /\ \A j, c : Right(j, c)' = Right(j, c)
  BY <1>1, RightSame
<1>7. /\ acc' \in AccType
      /\ op \notin Reductions => \A lane \in Lane(1) : /\ Cell(acc', lane) \in CellType /\ Cell(acc', lane) # Undef
                                                       /\ Right(at, Cell(acc', lane))
  <2>1. FALSE \in Lane(1)
    BY DEF Lane
  <2>. QED BY <1>1, <1>4, <2>1, Iteration
<1>8. op \notin Reductions => at \in Row
  <2>1. op = "aggnext" => i >= 1
    BY <1>1, <1>2 DEF Control, Shifts
  <2>. QED BY <1>1, <1>3, <1>4, <2>1 DEF Row
<1>9. op \notin Reductions => \E c \in CellType : ret' = [ret EXCEPT ![at] = c] /\ c # Undef /\ Right(at, c)
  <2>1. ASSUME op \notin Reductions
        PROVE  \E lane \in Lane(1) : ret' = [ret EXCEPT ![at] = Cell(acc', lane)]
    BY <2>1 DEF FirstLoop
  <2>. QED BY <1>7, <2>1
<1>10. op \in Reductions => ret' = ret
  BY DEF FirstLoop
<1>11. /\ ret' \in [Row -> CellType]
       /\ \A j \in Row : ret[j] # Undef => ret'[j] # Undef
       /\ op \notin Reductions => ret'[at] # Undef
       /\ \A j \in Row : ret'[j] # Undef => Right(j, ret'[j])
  <2>0. ret \in [Row -> CellType]
    BY <1>2 DEF Shape
  <2>1. CASE op \in Reductions
    BY <1>2, <1>10, <2>0, <2>1 DEF AllRight
  <2>2. CASE op \notin Reductions
    <3>1. PICK c \in CellType : ret' = [ret EXCEPT ![at] = c] /\ c # Undef /\ Right(at, c)
      BY <1>9, <2>2
    <3>. HIDE DEF at
    <3>2. ret' \in [Row -> CellType] /\ ret'[at] = c /\ \A j \in Row : j # at => ret'[j] = ret[j]
      BY <1>8, <2>0, <2>2, <3>1
    <3>3. ASSUME NEW j \in Row, ret'[j] # Undef PROVE Right(j, ret'[j])
      <4>1. CASE j = at
        BY <3>1, <3>2, <4>1
      <4>2. CASE j # at
        <5>1. ret'[j] = ret[j]
          BY <3>2, <4>2
        <5>. QED BY <1>2, <3>3, <5>1 DEF AllRight
      <4>. QED BY <4>1, <4>2
    <3>. QED BY <3>1, <3>2, <3>3
  <2>. QED BY <2>1, <2>2
<1>12. /\ roots' \in [Row -> Nat]
       /\ op = "stddevw" => i - 1 \in Row /\ \A j \in Row : roots'[j] = IF j = i - 1 THEN roots[j] + 1 ELSE roots[j]
       /\ op = "stddevs" => \A j \in Row : roots'[j] = IF j = i THEN roots[j] + 1 ELSE roots[j]
  <2>0. roots \in [Row -> Nat]
    BY <1>2 DEF Shape
  <2>1. CASE op = "stddevw"
    <3>1. i - 1 \in Row
      <4>1. i >= 1
        BY <1>1, <1>2, <2>1 DEF Control, Sums
      <4>. QED BY <1>1, <1>3, <4>1 DEF Row
    <3>2. roots' = [roots EXCEPT ![i - 1] = @ + 1]
      BY <1>1, <2>1 DEF Rooted
    <3>. QED BY <2>0, <2>1, <3>1, <3>2
  <2>2. CASE op = "stddevs"
    <3>1. roots' = [roots EXCEPT ![i] = @ + 1]
      BY <1>1, <2>2 DEF Rooted
    <3>. QED BY <1>4, <2>0, <2>2, <3>1
  <2>3. CASE op \notin {"stddevs", "stddevw"}
    <3>1. roots' = roots
      BY <1>1, <2>3 DEF Rooted
    <3>. QED BY <2>0, <2>3, <3>1
  <2>. QED BY <2>1, <2>2, <2>3
<1>13. Shape'
  <2>1. i' \in 0..MaxLen
    BY <1>1, <1>3
  <2>. QED BY <1>1, <1>2, <1>5, <1>6, <1>7, <1>11, <1>12, <2>1 DEF Shape
<1>14. Control'
  <2>1. op \in Extrema => FirstEnd = size
    BY DEF Extrema, FirstEnd
  <2>2. op \in Ratios => FirstEnd = w
    BY DEF Ratios, FirstEnd
  <2>3. op \in Extrema => i' <= size
    BY <1>1, <1>3
  <2>4. op \in Sums \cup Shifts => i' >= 1 /\ i' <= Greatest(FirstEnd, 1)
    <3>1. FirstEnd \in Nat
      BY <1>3 DEF FirstEnd
    <3>. QED BY <1>1, <1>3, <3>1 DEF Greatest
  <2>5. op \in Ratios => i' <= w
    BY <1>1, <1>3, <2>2
  <2>6. Greatest(FirstEnd, 1)' = Greatest(FirstEnd, 1) /\ Greatest(size, 1)' = Greatest(size, 1)
    BY <1>6 DEF Greatest
  <2>. QED BY <1>1, <1>2, <1>5, <1>6, <2>3, <2>4, <2>5, <2>6 DEF Control
<1>15. AccOK'
  <2>1. /\ op \in {"mins", "min"} => LeastSoFar(acc'.best, i + 1)
        /\ op \in {"maxs", "max"} => GreatestSoFar(acc'.best, i + 1)
        /\ op \in {"minw", "maxw"} => Deque(acc'.cache, i + 1)
        /\ op \in Sums \cup {"sum", "avg"} => acc'.s = SumTo(i + 1)
        /\ op \in Variances => /\ acc'.EnX * (i + 1) = acc'.s * Unit
                               /\ acc'.MnX * (i + 1) = Scale * ((i + 1) * SumSqTo(i + 1) - acc'.s * acc'.s)
    <3>1. FALSE \in Lane(1)
      BY DEF Lane
    <3>. QED BY <1>1, <1>4, <3>1, Iteration
  <2>2. \A m, n : LeastSoFar(m, n)' = LeastSoFar(m, n) /\ GreatestSoFar(m, n)' = GreatestSoFar(m, n)
    BY <1>1, RightSame
  <2>3. \A q, n : Deque(q, n)' = Deque(q, n)
    BY <1>1, RightSame
  <2>4. \A n : SumTo(n)' = SumTo(n) /\ SumSqTo(n)' = SumSqTo(n)
    BY <1>1, RightSame
  <2>5. PICK b, q, n : b = acc'.best /\ q = acc'.cache /\ n = i + 1
    OBVIOUS
  <2>6. /\ LeastSoFar(acc.best, i)' = LeastSoFar(b, n)' /\ GreatestSoFar(acc.best, i)' = GreatestSoFar(b, n)'
        /\ Deque(acc.cache, i)' = Deque(q, n)'
        /\ SumTo(i)' = SumTo(n)' /\ SumSqTo(i)' = SumSqTo(n)'
    BY <1>1, <2>5 DEF LeastSoFar, GreatestSoFar, Deque, SumTo, SumSqTo
  <2>7. Scale' = Scale
    BY DEF Scale
  <2>8. /\ op \in {"mins", "min"} => LeastSoFar(acc.best, i)'
        /\ op \in {"maxs", "max"} => GreatestSoFar(acc.best, i)'
        /\ op \in {"minw", "maxw"} => Deque(acc.cache, i)'
    BY <2>1, <2>2, <2>3, <2>5, <2>6
  <2>9. SumTo(i)' = SumTo(i + 1) /\ SumSqTo(i)' = SumSqTo(i + 1)
    BY <2>4, <2>5, <2>6
  <2>. QED BY <1>1, <1>5, <2>1, <2>7, <2>8, <2>9 DEF AccOK
<1>16. RootsOK'
  <2>1. ASSUME op = "stddevw", NEW j \in Row PROVE roots'[j] = IF j < i' - 1 THEN 1 ELSE 0
    <3>1. roots[j] = IF j < i - 1 THEN 1 ELSE 0
      BY <1>1, <1>2, <2>1 DEF RootsOK
    <3>2. roots'[j] = IF j = i - 1 THEN roots[j] + 1 ELSE roots[j]
      BY <1>12, <2>1
    <3>. QED BY <1>1, <1>3, <3>1, <3>2
  <2>2. ASSUME op = "stddevs", NEW j \in Row PROVE roots'[j] = IF 0 < j /\ j < i' THEN 1 ELSE 0
    <3>1. roots[j] = IF 0 < j /\ j < i THEN 1 ELSE 0
      BY <1>1, <1>2, <2>2 DEF RootsOK
    <3>2. roots'[j] = IF j = i THEN roots[j] + 1 ELSE roots[j]
      BY <1>12, <2>2
    <3>3. i >= 1
      BY <1>1, <1>2, <2>2 DEF Control, Sums
    <3>. QED BY <1>1, <1>3, <3>1, <3>2, <3>3
  <2>. QED BY <1>1, <1>5, <1>6, <2>1, <2>2 DEF RootsOK
<1>17. FirstFills'
  <2>1. ASSUME NEW j \in Row, j < Reached' PROVE ret'[j] # Undef
    <3>1. op \notin Reductions
      BY <1>3, <1>5, <2>1 DEF Reached
    <3>2. Reached = at /\ Reached' = at + 1
      BY <1>1, <1>3, <1>5, <3>1 DEF Reached
    <3>3. j < at \/ j = at
      <4>1. at \in Int
        BY <1>3
      <4>. QED BY <1>3, <2>1, <3>2, <4>1
    <3>. HIDE DEF at
    <3>. QED BY <1>1, <1>2, <1>11, <3>1, <3>2, <3>3 DEF FirstFills
  <2>. QED BY <1>6, <2>1 DEF FirstFills
<1>18. ReductionIsLast'
  BY <1>1 DEF ReductionIsLast
<1>19. InBounds'
  BY <1>1, <1>2, <1>5, <1>6 DEF InBounds
<1>20. AllRight'
  <2>1. ASSUME NEW j \in Row', ret'[j] # Undef PROVE Right(j, ret[j])'
    <3>1. PICK c : c = ret'[j]
      OBVIOUS
    <3>2. Right(j, c)'
      BY <1>6, <1>11, <2>1, <3>1
    <3>. QED BY <3>1, <3>2 DEF Right, RightValue
  <2>. QED BY <2>1 DEF AllRight
<1>. QED BY <1>13, <1>14, <1>15, <1>16, <1>17, <1>18, <1>19, <1>20 DEF Inv

\* Only ratios and ratiow run past the column, and only past an empty one.
LEMMA OverrunStep ==
  ASSUME Parameters, Inv, Overrun
  PROVE  Inv'
<1>1. /\ pc = "first" /\ pc' = "first" /\ i < FirstEnd /\ i >= size /\ i' = i + 1 /\ UNCHANGED inputs /\ w' = w
      /\ acc' = acc /\ ret' = ret /\ roots' = roots
  BY DEF Overrun
<1>2. Shape /\ Control /\ RootsOK /\ AllRight
  BY <1>1 DEF Inv
<1>3. /\ i \in Nat /\ size \in Nat /\ w \in Nat /\ MaxLen \in Nat \ {0}
      /\ \A j \in Row : j \in Nat
  BY <1>2, Facts DEF Parameters, Bounds
<1>4. op' = op /\ floating' = floating /\ arr' = arr
  BY <1>1 DEF inputs
<1>5. /\ size' = size /\ Row' = Row /\ CellType' = CellType /\ AccType' = AccType
      /\ LowestLimit' = LowestLimit /\ FirstEnd' = FirstEnd
      /\ \A j, c : Right(j, c)' = Right(j, c)
  BY <1>1, RightSame
<1>6. op \in Ratios /\ size = 0 /\ i = 0 /\ i' = 1 /\ w >= 1
  <2>1. FirstEnd = w /\ op \in TwoLoops
    BY <1>1, <1>3 DEF FirstEnd, TwoLoops
  <2>2. op \notin Sums
    BY <1>1, <1>2, <1>3, <2>1 DEF Control
  <2>3. op \in Ratios
    BY <2>1, <2>2 DEF TwoLoops, Sums, Ratios
  <2>4. w <= Greatest(size, 1)
    BY <1>1, <1>2, <2>3 DEF Control
  <2>. QED BY <1>1, <1>3, <2>1, <2>3, <2>4 DEF Greatest
<1>7. Row = {}
  BY <1>6 DEF Row
<1>8. op \notin Extrema \cup Sums \cup Shifts \cup Variances
  BY <1>2, <1>6, Kinds
<1>9. Shape'
  BY <1>1, <1>2, <1>3, <1>4, <1>5, <1>6 DEF Shape
<1>10. Control'
  <2>1. w <= Greatest(size, 1) /\ Greatest(size, 1)' = Greatest(size, 1)
    BY <1>1, <1>2, <1>5, <1>6 DEF Control, Greatest
  <2>2. op \notin {"minw", "maxw"}
    BY <1>6 DEF Ratios
  <2>. QED BY <1>1, <1>4, <1>5, <1>6, <1>8, <2>1, <2>2 DEF Control
<1>11. AccOK'
  BY <1>5, <1>6 DEF AccOK
<1>12. RootsOK' /\ FirstFills' /\ AllRight'
  BY <1>5, <1>7 DEF RootsOK, FirstFills, AllRight
<1>13. ReductionIsLast'
  BY <1>1 DEF ReductionIsLast
<1>14. InBounds'
  BY <1>4, <1>5, <1>6 DEF InBounds, Ratios
<1>. QED BY <1>9, <1>10, <1>11, <1>12, <1>13, <1>14 DEF Inv

\* The first loop has filled what it should; a reduction returns the extremum, sum or average of all rows.
LEMMA EndFirstStep ==
  ASSUME Parameters, Inv, EndFirst
  PROVE  Inv' /\ AllFilled'
<1>1. /\ pc = "first" /\ i >= FirstEnd /\ UNCHANGED inputs /\ w' = w /\ acc' = acc /\ wild' = wild
      /\ pc' = IF op \in Reductions \/ FirstEnd >= size THEN "done" ELSE "second"
      /\ i' = IF pc' = "second" THEN w ELSE i
      /\ ret' = IF op = "aggnext" /\ size > 0 THEN [ret EXCEPT ![size - 1] = arr[size - 1] * Scale] ELSE ret
      /\ roots' = IF op = "stddevw" /\ pc' = "done" /\ size > 0
                  THEN [roots EXCEPT ![size - 1] = @ + 1] ELSE roots
      /\ out' = CASE op = "sum" -> acc.s * Scale
                  [] op = "avg" /\ size > 0 -> (acc.s * Scale) \div size
                  [] op \in {"min", "max"} -> acc.best * Scale
                  [] op = "var" -> <<acc.ssq * (size + 1) - acc.s * acc.s, (size + 1) * (size + 1)>>
                  [] OTHER -> out
  BY DEF EndFirst
<1>2. Shape /\ Control /\ AccOK /\ RootsOK /\ FirstFills /\ AllRight /\ InBounds
  BY <1>1 DEF Inv
<1>3. /\ i \in Nat /\ size \in Nat /\ w \in Nat /\ size <= MaxLen /\ MaxLen \in Nat /\ Undef \notin Int
      /\ Scale \in Int /\ LowestLimit \in Int /\ DOMAIN arr = Row
      /\ \A j \in Row : j \in Nat /\ j < size /\ arr[j] \in Int
  BY <1>2, Facts
<1>4. op' = op /\ floating' = floating /\ arr' = arr
  BY <1>1 DEF inputs
<1>5. /\ size' = size /\ Row' = Row /\ CellType' = CellType /\ AccType' = AccType
      /\ LowestLimit' = LowestLimit /\ FirstEnd' = FirstEnd
      /\ \A j, c : Right(j, c)' = Right(j, c)
      /\ \A n : SumTo(n)' = SumTo(n)
  BY <1>1, RightSame
<1>6. FirstEnd = (IF op \in TwoLoops THEN w ELSE size) /\ FirstEnd \in Nat
  BY <1>3 DEF FirstEnd, TwoLoops
<1>7. /\ pc' \in {"done", "second"}
      /\ pc' = "second" => op \in TwoLoops /\ op \notin Reductions /\ w < size /\ w <= i /\ i' = w
      /\ pc' = "done" => i' = i /\ i >= size
  <2>1. op \in Reductions => op \notin TwoLoops
    BY <1>2, Kinds
  <2>. QED BY <1>1, <1>3, <1>6, <2>1
<1>8. op \in Extrema => i = size /\ pc' = "done"
  <2>1. op \in Extrema => op \notin TwoLoops
    BY <1>2, Kinds
  <2>2. op \in Extrema => i <= size
    BY <1>1, <1>2 DEF Control
  <2>. QED BY <1>1, <1>3, <1>6, <1>7, <2>1, <2>2
<1>9. size > 0 => size - 1 \in Row
  BY <1>3 DEF Row
<1>10. /\ ret' \in [Row -> CellType]
       /\ \A j \in Row : ret'[j] = ret[j] \/ (op = "aggnext" /\ j = size - 1)
       /\ op = "aggnext" /\ size > 0 => ret'[size - 1] # Undef
  <2>0. ret \in [Row -> CellType]
    BY <1>2 DEF Shape
  <2>1. CASE op = "aggnext" /\ size > 0
    <3>1. PICK c \in Int : c = arr[size - 1] * Scale
      <4>1. arr[size - 1] * Scale \in Int
        BY <1>3, <1>9, <2>1
      <4>. QED BY <4>1
    <3>2. ret' = [ret EXCEPT ![size - 1] = c] /\ c \in CellType
      BY <1>1, <2>1, <3>1 DEF CellType, Ratios
    <3>. QED BY <1>3, <1>9, <2>0, <2>1, <3>2
  <2>2. CASE ~(op = "aggnext" /\ size > 0)
    BY <1>1, <2>0, <2>2
  <2>. QED BY <2>1, <2>2
<1>11. /\ roots' \in [Row -> Nat]
       /\ op = "stddevw" /\ pc' = "done" /\ size > 0 =>
            \A j \in Row : roots'[j] = IF j = size - 1 THEN roots[j] + 1 ELSE roots[j]
       /\ op # "stddevw" => roots' = roots
  <2>0. roots \in [Row -> Nat]
    BY <1>2 DEF Shape
  <2>. QED BY <1>1, <1>9, <2>0
<1>12. Shape'
  BY <1>1, <1>2, <1>3, <1>4, <1>5, <1>7, <1>10, <1>11 DEF Shape
<1>13. Control'
  <2>1. Greatest(size, 1)' = Greatest(size, 1)
    BY <1>5 DEF Greatest
  <2>2. /\ op \in {"minw", "maxw"} => w <= MaxWindow
        /\ op \in Sums => w <= size /\ (op \notin Moving => w = size)
        /\ op \in Ratios => w <= Greatest(size, 1)
    BY <1>1, <1>2 DEF Control
  <2>. QED BY <1>1, <1>3, <1>4, <1>5, <1>7, <2>1, <2>2 DEF Control
<1>14. AccOK' /\ FirstFills'
  BY <1>7 DEF AccOK, FirstFills
<1>15. RootsOK'
  <2>1. ASSUME pc' = "done", op = "stddevw", NEW j \in Row PROVE roots'[j] = 1
    <3>1. i <= Greatest(FirstEnd, 1) /\ w <= size /\ FirstEnd = w
      BY <1>1, <1>2, <1>6, <2>1 DEF Control, Sums, TwoLoops
    <3>2. i = size /\ size > 0
      BY <1>3, <1>7, <2>1, <3>1 DEF Greatest
    <3>3. roots[j] = IF j < i - 1 THEN 1 ELSE 0
      BY <1>1, <1>2, <2>1 DEF RootsOK
    <3>4. roots'[j] = IF j = size - 1 THEN roots[j] + 1 ELSE roots[j]
      BY <1>11, <2>1, <3>2
    <3>. QED BY <1>3, <3>2, <3>3, <3>4
  <2>2. ASSUME pc' = "done", op = "stddevs", NEW j \in Row PROVE roots'[j] = IF 0 < j /\ j < i' THEN 1 ELSE 0
    BY <1>1, <1>2, <1>7, <1>11, <2>2 DEF RootsOK
  <2>. QED BY <1>4, <1>5, <1>7, <2>1, <2>2 DEF RootsOK
<1>16. ReductionIsLast'
  <2>. SUFFICES ASSUME size > 0
                PROVE  /\ op = "sum" => out' = SumTo(size) * Scale
                       /\ op = "avg" => out' = (SumTo(size) * Scale) \div size
                       /\ op = "min" => out' = Min(Values(DOMAIN arr)) * Scale
                       /\ op = "max" => out' = (IF BelowStart(DOMAIN arr) THEN Tiny ELSE Max(Values(DOMAIN arr))) * Scale
    <3>1. Scale' = Scale /\ Values(DOMAIN arr)' = Values(DOMAIN arr) /\ BelowStart(DOMAIN arr)' = BelowStart(DOMAIN arr)
      BY <1>4 DEF Scale, Values, BelowStart
    <3>2. SumTo(size)' = SumTo(size)
      BY <1>4, <1>5 DEF SumTo, Total
    <3>. QED BY <1>4, <1>5, <3>1, <3>2 DEF ReductionIsLast
  <2>1. op \in {"sum", "avg"} => acc.s = SumTo(size)
    BY <1>1, <1>2, <1>8 DEF AccOK, Extrema
  <2>2. DOMAIN arr = 0..(size - 1) /\ Values(DOMAIN arr) \in SUBSET Int
    BY <1>3 DEF Row, Values
  <2>3. ASSUME op = "min" PROVE acc.best = Min(Values(DOMAIN arr))
    <3>1. LeastSoFar(acc.best, size)
      BY <1>1, <1>2, <1>8, <2>3 DEF AccOK, Extrema
    <3>2. acc.best \in Values(DOMAIN arr) /\ \A y \in Values(DOMAIN arr) : acc.best <= y
      BY <2>2, <3>1 DEF LeastSoFar, Values
    <3>. QED BY <2>2, <3>2, Extreme
  <2>4. ASSUME op = "max" PROVE acc.best = IF BelowStart(DOMAIN arr) THEN Tiny ELSE Max(Values(DOMAIN arr))
    <3>1. PICK n \in 1..size : n = size
      BY <1>3
    <3>2. GreatestSoFar(acc.best, n)
      BY <1>1, <1>2, <1>8, <2>4, <3>1 DEF AccOK, Extrema
    <3>. QED BY <1>2, <2>2, <3>1, <3>2, FromTheLimit
  <2>. QED BY <1>1, <2>1, <2>3, <2>4
<1>17. InBounds'
  BY <1>1, <1>2, <1>4, <1>5 DEF InBounds
<1>18. AllRight'
  <2>1. ASSUME NEW j \in Row', ret'[j] # Undef PROVE Right(j, ret[j])'
    <3>1. PICK c : c = ret'[j]
      OBVIOUS
    <3>2. Right(j, c)
      <4>1. CASE op = "aggnext"
        BY <4>1 DEF Right, RightValue, Variances
      <4>2. CASE op # "aggnext"
        <5>1. ret'[j] = ret[j] /\ j \in Row
          BY <1>5, <1>10, <2>1, <4>2
        <5>. QED BY <1>2, <2>1, <3>1, <5>1 DEF AllRight
      <4>. QED BY <4>1, <4>2
    <3>3. Right(j, c)'
      BY <1>5, <3>2
    <3>. QED BY <3>1, <3>3 DEF Right, RightValue
  <2>. QED BY <2>1 DEF AllRight
<1>19. AllFilled'
  <2>. SUFFICES ASSUME op \notin Reductions, NEW j \in Row, pc' = "done" \/ j < Reached'
                PROVE  ret'[j] # Undef
    BY <1>4, <1>5 DEF AllFilled
  <2>1. j < Reached \/ (op = "aggnext" /\ j = size - 1)
    <3>1. CASE pc' = "done"
      BY <1>3, <1>7, <3>1 DEF Reached
    <3>2. CASE pc' = "second"
      <4>1. op # "aggnext" /\ j < w /\ w <= i /\ op \notin Reductions
        BY <1>4, <1>7, <3>2 DEF Reached, TwoLoops
      <4>. QED BY <1>3, <4>1 DEF Reached
    <3>. QED BY <1>7, <3>1, <3>2
  <2>2. CASE j < Reached
    BY <1>1, <1>2, <1>3, <1>10, <2>2 DEF FirstFills
  <2>3. CASE op = "aggnext" /\ j = size - 1
    BY <1>3, <1>10, <2>3
  <2>. QED BY <2>1, <2>2, <2>3
<1>. QED BY <1>12, <1>13, <1>14, <1>15, <1>16, <1>17, <1>18, <1>19 DEF Inv

\* What the second loop of sumw and avgw makes of the value before: the window has moved on by one row.
LEMMA Moves ==
  ASSUME Parameters, Shape, Control, pc = "second", i < size, op \in {"sumw", "avgw"}, w # 0,
         ret[i - 1] \in Int, Right(i - 1, ret[i - 1]), NEW x, x = ret[i - 1] + Gain
  PROVE  x \in Int /\ Right(i, x)
<1>1. /\ i \in Nat /\ size \in Nat /\ w \in Nat /\ size <= MaxLen /\ MaxLen \in Nat /\ Garbage \notin Int
      /\ Scale \in Int /\ arr \in [Row -> Int]
      /\ \A j \in Row : j \in Nat /\ j < size /\ arr[j] \in Int
  <2>1. arr \in [Row -> Int]
    <3>1. arr \in [Row -> Data] /\ \A j \in Row : arr[j] \in Int
      BY Facts DEF Shape
    <3>. QED BY <3>1
  <2>. QED BY <2>1, Facts
<1>2. w < size /\ w <= i /\ op \notin Prefix /\ op \notin Variances
  BY DEF Control, Prefix, Variances
<1>3. w \in 1..MaxLen /\ w \in Nat \ {0}
  BY <1>1, <1>2
<1>4. i \in Row /\ i - 1 \in Row /\ i - w \in Row
  BY <1>1, <1>2, <1>3 DEF Row
<1>5. First(i) = (i - w) + 1 /\ First(i - 1) = i - w /\ Rows(i) = w /\ Rows(i - 1) = w
  <2>1. First(i) = (i - w) + 1
    BY <1>1, <1>2, <1>3 DEF First
  <2>2. First(i - 1) = i - w
    <3>1. CASE i = w
      BY <1>1, <1>2, <1>3, <3>1 DEF First
    <3>2. CASE i # w
      BY <1>1, <1>2, <1>3, <3>2 DEF First
    <3>. QED BY <3>1, <3>2
  <2>. QED BY <1>1, <2>1, <2>2 DEF Rows
<1>6. PICK d \in Int, s \in Int : d = arr[i] - arr[i - w] /\ s = Sum(i - 1) /\ Sum(i) = s + d
  <2>1. PICK lo \in Nat : lo = i - w
    BY <1>1, <1>2
  <2>2. size \in 0..MaxLen /\ arr \in [0..(size - 1) -> Int] /\ lo + w + 1 <= size /\ w \in 0..(size - lo) /\ lo + w = i
    BY <1>1, <2>1 DEF Row
  <2>3. Total(arr, lo + 1, w) = Total(arr, lo, w) + arr[lo + w] - arr[lo]
    <3>1. Bounds
      BY DEF Parameters
    <3>2. PICK m \in Nat, len \in 0..MaxLen : m = w /\ len = size
      BY <1>1, <2>2
    <3>3. PICK f \in [0..(len - 1) -> Int] : f = arr
      BY <2>2, <3>2, Zenon
    <3>4. lo + m + 1 <= len
      BY <2>2, <3>2
    <3>5. Total(f, lo + 1, m) = Total(f, lo, m) + f[lo + m] - f[lo]
      BY <3>1, <3>4, TotalMoves
    <3>. QED BY <3>2, <3>3, <3>5, Zenon
  <2>4. Total(arr, lo, w) \in Int
    BY <2>2, TotalInt DEF Parameters
  <2>5. Sum(i) = Total(arr, lo + 1, w) /\ Sum(i - 1) = Total(arr, lo, w)
    BY <1>5, <2>1 DEF Sum
  <2>6. arr[i] \in Int /\ arr[lo] \in Int /\ arr[i - w] = arr[lo] /\ arr[lo + w] = arr[i]
    BY <1>1, <1>4, <2>1, <2>2
  <2>. QED BY <2>3, <2>4, <2>5, <2>6
<1>7. CASE op = "sumw"
  <2>1. ret[i - 1] = s * Scale
    BY <1>1, <1>6, <1>7 DEF Right, RightValue
  <2>2. Gain = d * Scale
    BY <1>6, <1>7 DEF Gain
  <2>3. x = (s + d) * Scale /\ x \in Int
    BY <1>1, <2>1, <2>2
  <2>. QED BY <1>2, <1>6, <1>7, <2>3 DEF Right, RightValue
<1>8. CASE op = "avgw"
  <2>1. PICK n \in Int : n = Narrow(d)
    BY NarrowInt
  <2>2. Gain = (n * Scale) \div w
    BY <1>6, <1>8, <2>1 DEF Gain
  <2>3. (n * Scale) \div w \in Int
    <3>1. PICK y \in Int : y = n * Scale
      BY <1>1
    <3>. QED BY <1>3, <3>1, Quotient
  <2>4. x \in Int
    BY <2>2, <2>3
  <2>5. ASSUME Fitting(i) PROVE x = (Sum(i) * Scale) \div Rows(i)
    <3>1. \A k \in w..i : arr[k] - arr[k - w] = Narrow(arr[k] - arr[k - w])
      BY <1>8, <2>5 DEF Fitting
    <3>2. n = d
      <4>1. i \in w..i
        BY <1>1, <1>2
      <4>. QED BY <1>6, <2>1, <3>1, <4>1
    <3>3. Fitting(i - 1)
      <4>1. \A k \in w..(i - 1) : k \in w..i
        BY <1>1
      <4>. QED BY <3>1, <4>1 DEF Fitting
    <3>4. ret[i - 1] = (s * Scale) \div w
      BY <1>1, <1>5, <1>6, <1>8, <3>3 DEF Right, RightValue
    <3>5. ((s + d) * Scale) \div w = (s * Scale) \div w + (d * Scale) \div w
      BY <1>3, MeanMoves DEF Parameters
    <3>. QED BY <1>5, <1>6, <2>2, <3>2, <3>4, <3>5
  <2>. QED BY <1>2, <1>8, <2>4, <2>5 DEF Right, RightValue
<1>. QED BY <1>7, <1>8

\* The second loop of sumw and avgw moves each sum on by one row, or builds on a cell a lane read early.
LEMMA SlideSumsStep ==
  ASSUME Parameters, Inv, AllFilled, SlideSums
  PROVE  Inv' /\ AllFilled'
<1>1. /\ pc = "second" /\ i < size /\ op \in {"sumw", "avgw"} /\ UNCHANGED inputs /\ w' = w
      /\ acc' = acc /\ out' = out /\ roots' = roots
  BY DEF SlideSums
<1>2. Shape /\ Control /\ InBounds /\ AllRight
  BY DEF Inv
<1>3. /\ i \in Nat /\ size \in Nat /\ w \in Nat /\ size <= MaxLen /\ MaxLen \in Nat /\ Undef \notin Int
      /\ Garbage \notin Int /\ Undef # Garbage
      /\ Scale \in Int /\ arr \in [Row -> Int]
      /\ \A j \in Row : j \in Nat /\ j < size /\ arr[j] \in Int
  <2>1. arr \in [Row -> Int]
    <3>1. arr \in [Row -> Data] /\ \A j \in Row : arr[j] \in Int
      BY <1>2, Facts DEF Shape
    <3>. QED BY <3>1
  <2>. QED BY <1>2, <2>1, Facts
<1>4. op' = op /\ floating' = floating /\ arr' = arr
  BY <1>1 DEF inputs
<1>5. /\ size' = size /\ Row' = Row /\ CellType' = CellType /\ AccType' = AccType
      /\ LowestLimit' = LowestLimit /\ FirstEnd' = FirstEnd
      /\ \A j, c : Right(j, c)' = Right(j, c)
  BY <1>1, RightSame
<1>6. w < size /\ w <= i /\ op \notin Reductions /\ op # "aggnext" /\ op \notin Prefix
  BY <1>1, <1>2 DEF Control, Reductions, Prefix
<1>7. Reached = i /\ Reached' = i'
  BY <1>1, <1>4, <1>6 DEF Reached
<1>8. ret \in [Row -> CellType] /\ op \notin Ratios /\ op \in Carried
  BY <1>1, <1>2 DEF Shape, Ratios, Carried
<1>9. ASSUME w = 0 PROVE pc' = "crashed" /\ i' = i /\ ret' = ret
  BY <1>9 DEF SlideSums
<1>10. ASSUME w # 0
       PROVE  /\ pc' = pc /\ wild' = wild /\ i' = i + 1 /\ i \in Row
              /\ \E x \in CellType : x # Undef /\ Right(i, x) /\ ret' = [ret EXCEPT ![i] = x]
  <2>1. PICK lane \in Lane(w) : ret' = [ret EXCEPT ![i] = Behind(lane, Gain)]
    BY <1>10 DEF SlideSums
  <2>2. pc' = pc /\ wild' = wild /\ i' = i + 1
    BY <1>10 DEF SlideSums
  <2>3. i \in Row /\ i - 1 \in Row /\ i - w \in Row
    BY <1>1, <1>3, <1>6, <1>10 DEF Row
  <2>4. ret[i - 1] # Undef /\ Right(i - 1, ret[i - 1])
    <3>1. i - 1 < Reached
      BY <1>3, <1>7
    <3>2. ret[i - 1] # Undef
      BY <1>1, <1>6, <2>3, <3>1 DEF AllFilled
    <3>. QED BY <1>2, <2>3, <3>2 DEF AllRight
  <2>5. CASE lane \/ ret[i - 1] = Garbage
    <3>1. Behind(lane, Gain) = Garbage
      BY <2>5 DEF Behind
    <3>2. Simd
      <4>1. CASE lane
        BY <4>1 DEF Lane
      <4>2. CASE ret[i - 1] = Garbage
        <5>1. ret[i - 1] \in CellType
          BY <1>8, <2>3
        <5>. QED BY <1>3, <1>8, <4>2, <5>1 DEF CellType, Spoilt
      <4>. QED BY <2>5, <4>1, <4>2
    <3>3. Garbage \in CellType /\ Right(i, Garbage)
      BY <1>8, <3>2 DEF CellType, Spoilt, Right
    <3>. QED BY <1>3, <2>1, <2>2, <2>3, <3>1, <3>3
  <2>6. CASE ~(lane \/ ret[i - 1] = Garbage)
    <3>. PICK x : x = ret[i - 1] + Gain
      OBVIOUS
    <3>1. ret' = [ret EXCEPT ![i] = x]
      BY <2>1, <2>6 DEF Behind
    <3>2. x \in Int /\ Right(i, x)
      <4>1. ret[i - 1] \in Int
        BY <1>8, <2>3, <2>4, <2>6 DEF CellType, Spoilt
      <4>. QED BY <1>1, <1>2, <1>10, <2>4, <4>1, Moves
    <3>3. x \in CellType /\ x # Undef
      BY <1>3, <1>8, <3>2 DEF CellType
    <3>. QED BY <2>2, <2>3, <3>1, <3>2, <3>3
  <2>. QED BY <2>5, <2>6
<1>11. /\ pc' \in {"crashed", "second"} /\ i' \in Nat /\ i' >= i /\ i' <= size /\ ret' \in [Row -> CellType]
       /\ AllFilled'
       /\ \A j \in Row : ret'[j] # Undef => Right(j, ret'[j])
  <2>1. CASE w = 0
    BY <1>1, <1>2, <1>3, <1>4, <1>5, <1>7, <1>8, <1>9, <2>1 DEF AllFilled, AllRight
  <2>2. CASE w # 0
    <3>1. PICK x \in CellType : x # Undef /\ Right(i, x) /\ ret' = [ret EXCEPT ![i] = x]
      BY <1>10, <2>2
    <3>2. pc' = "second" /\ i' = i + 1 /\ i \in Row
      BY <1>1, <1>10, <2>2
    <3>3. ret' \in [Row -> CellType] /\ ret'[i] = x /\ \A j \in Row : j # i => ret'[j] = ret[j]
      BY <1>8, <3>1, <3>2
    <3>4. ASSUME NEW j \in Row, j < i + 1 PROVE ret'[j] # Undef
      <4>1. CASE j = i
        BY <3>1, <3>3, <4>1
      <4>2. CASE j # i
        <5>1. j < Reached
          BY <1>3, <1>7, <3>4, <4>2
        <5>. QED BY <1>1, <1>6, <3>3, <4>2, <5>1 DEF AllFilled
      <4>. QED BY <4>1, <4>2
    <3>5. AllFilled'
      BY <1>5, <1>7, <3>2, <3>4 DEF AllFilled
    <3>6. ASSUME NEW j \in Row, ret'[j] # Undef PROVE Right(j, ret'[j])
      <4>1. CASE j = i
        BY <3>1, <3>3, <4>1
      <4>2. CASE j # i
        BY <1>2, <3>3, <3>6, <4>2 DEF AllRight
      <4>. QED BY <4>1, <4>2
    <3>. QED BY <1>1, <1>3, <3>2, <3>3, <3>5, <3>6
  <2>. QED BY <2>1, <2>2
<1>12. Shape'
  BY <1>1, <1>2, <1>3, <1>4, <1>5, <1>11 DEF Shape
<1>13. Control'
  <2>1. op \in Sums => w <= size /\ (op \notin Moving => w = size)
    BY <1>1, <1>2 DEF Control
  <2>2. op \in TwoLoops /\ op \notin Ratios
    BY <1>1 DEF TwoLoops, Ratios
  <2>. QED BY <1>1, <1>3, <1>4, <1>5, <1>6, <1>11, <2>1, <2>2 DEF Control
<1>14. AccOK' /\ FirstFills' /\ ReductionIsLast'
  BY <1>11 DEF AccOK, FirstFills, ReductionIsLast
<1>15. RootsOK'
  BY <1>1, <1>4 DEF RootsOK
<1>16. InBounds'
  <2>1. w = 0 \/ wild' = wild
    BY <1>10
  <2>. QED BY <1>1, <1>2, <1>4, <1>5, <2>1 DEF InBounds
<1>17. AllRight'
  <2>1. ASSUME NEW j \in Row', ret'[j] # Undef PROVE Right(j, ret[j])'
    <3>1. PICK c : c = ret'[j]
      OBVIOUS
    <3>2. Right(j, c)'
      BY <1>5, <1>11, <2>1, <3>1
    <3>. QED BY <3>1, <3>2 DEF Right, RightValue
  <2>. QED BY <2>1 DEF AllRight
<1>. QED BY <1>11, <1>12, <1>13, <1>14, <1>15, <1>16, <1>17 DEF Inv

\* The second loop of varw and stddevw leaves the column in its first iteration.
LEMMA SlideVarStep ==
  ASSUME Parameters, Inv, SlideVar
  PROVE  Inv' /\ (AllFilled => AllFilled')
<1>1. /\ pc = "second" /\ pc' = "crashed" /\ op \in {"varw", "stddevw"} /\ UNCHANGED inputs
      /\ UNCHANGED <<w, i, acc, ret, out, roots>>
  BY DEF SlideVar
<1>2. Shape /\ Control /\ InBounds /\ AllRight
  BY <1>1 DEF Inv
<1>3. op' = op /\ floating' = floating /\ arr' = arr
  BY <1>1 DEF inputs
<1>4. /\ size' = size /\ Row' = Row /\ CellType' = CellType /\ AccType' = AccType
      /\ \A j, c : Right(j, c)' = Right(j, c)
  BY <1>1, RightSame
<1>5. Shape'
  BY <1>1, <1>2, <1>3, <1>4 DEF Shape
<1>6. Control'
  <2>1. /\ op \in Sums => w <= size /\ (op \notin Moving => w = size)
        /\ op \notin {"minw", "maxw"} \cup Ratios
    BY <1>1, <1>2 DEF Control, Ratios
  <2>. QED BY <1>1, <1>3, <1>4, <2>1 DEF Control
<1>7. AccOK' /\ FirstFills' /\ ReductionIsLast'
  BY <1>1 DEF AccOK, FirstFills, ReductionIsLast
<1>8. RootsOK'
  BY <1>1 DEF RootsOK
<1>9. InBounds'
  <2>1. w < size
    BY <1>1, <1>2 DEF Control
  <2>. QED BY <1>1, <1>3, <1>4, <2>1 DEF InBounds
<1>10. AllRight'
  <2>1. ASSUME NEW j \in Row', ret'[j] # Undef PROVE Right(j, ret[j])'
    <3>1. PICK c : c = ret[j] /\ c = ret'[j]
      BY <1>1
    <3>2. Right(j, c)'
      BY <1>2, <1>4, <2>1, <3>1 DEF AllRight
    <3>. QED BY <3>1, <3>2 DEF Right, RightValue
  <2>. QED BY <2>1 DEF AllRight
<1>11. AllFilled => AllFilled'
  BY <1>1, <1>3, <1>4 DEF AllFilled, Reached
<1>. QED BY <1>5, <1>6, <1>7, <1>8, <1>9, <1>10, <1>11 DEF Inv

\* The second loop of ratios and ratiow.
LEMMA SlideRatioStep ==
  ASSUME Parameters, Inv, SlideRatio
  PROVE  Inv' /\ (AllFilled => AllFilled')
<1>1. /\ pc = "second" /\ pc' = "second" /\ i < size /\ op \in {"ratios", "ratiow"} /\ UNCHANGED inputs
      /\ i' = i + 1 /\ ret' = [ret EXCEPT ![i] = <<arr[i], arr[i - w]>>]
      /\ UNCHANGED <<w, acc, out, roots, wild>>
  BY DEF SlideRatio
<1>2. Shape /\ Control /\ InBounds
  BY DEF Inv
<1>3. /\ i \in Nat /\ size \in Nat /\ w \in Nat /\ size <= MaxLen /\ MaxLen \in Nat
      /\ \A j \in Row : arr[j] \in Data /\ j \in Nat
  BY <1>2, Facts
<1>4. op' = op /\ floating' = floating /\ arr' = arr
  BY <1>1 DEF inputs
<1>5. /\ size' = size /\ Row' = Row /\ CellType' = CellType /\ AccType' = AccType
  BY <1>1, RightSame
<1>6. w < size /\ w <= i /\ op \in Ratios /\ op \notin Extrema \cup Sums \cup Shifts \cup Variances \cup Reductions
  <2>1. op \in Ratios
    BY <1>1 DEF Ratios
  <2>. QED BY <1>1, <1>2, <2>1, Kinds DEF Control
<1>7. PICK c : c = <<arr[i], arr[i - w]>> /\ c \in Pairs /\ c # Undef
  <2>1. i \in Row /\ i - w \in Row
    BY <1>1, <1>3, <1>6 DEF Row
  <2>2. <<arr[i], arr[i - w]>> \in Pairs
    BY <1>3, <2>1 DEF Pairs
  <2>3. Undef \notin Pairs
    BY DEF Pairs, Parameters, NoCell
  <2>. QED BY <2>2, <2>3
<1>8. i \in Row
  BY <1>1, <1>3 DEF Row
<1>9. ret' \in [Row -> CellType] /\ ret'[i] = c /\ \A j \in Row : j # i => ret'[j] = ret[j]
  <2>1. c \in CellType
    BY <1>6, <1>7 DEF CellType
  <2>2. ret \in [Row -> CellType]
    BY <1>2 DEF Shape
  <2>3. ret' = [ret EXCEPT ![i] = c]
    BY <1>1, <1>7
  <2>. QED BY <1>8, <2>1, <2>2, <2>3
<1>10. Shape'
  <2>1. i' \in 0..MaxLen
    BY <1>1, <1>3
  <2>. QED BY <1>1, <1>2, <1>4, <1>5, <1>9, <2>1 DEF Shape
<1>11. Control'
  <2>1. w <= Greatest(size, 1) /\ Greatest(size, 1)' = Greatest(size, 1)
    BY <1>1, <1>2, <1>5, <1>6 DEF Control, Greatest
  <2>2. op \in TwoLoops /\ w <= i' /\ i' <= size /\ op \notin {"minw", "maxw", "varw", "stddevw"}
    BY <1>1, <1>3, <1>6 DEF TwoLoops
  <2>. QED BY <1>1, <1>4, <1>5, <1>6, <2>1, <2>2 DEF Control
<1>12. AccOK' /\ FirstFills' /\ ReductionIsLast'
  BY <1>1 DEF AccOK, FirstFills, ReductionIsLast
<1>13. RootsOK'
  BY <1>1, <1>4 DEF RootsOK
<1>14. InBounds'
  BY <1>1, <1>2, <1>4, <1>5 DEF InBounds
<1>15. AllRight'
  BY <1>1, <1>4 DEF AllRight, Right, RightValue, Variances
<1>16. ASSUME AllFilled PROVE AllFilled'
  <2>1. Reached = i /\ Reached' = i + 1
    BY <1>1, <1>4, <1>6 DEF Reached, Ratios
  <2>2. ASSUME NEW j \in Row, j < i + 1 PROVE ret'[j] # Undef
    <3>1. CASE j = i
      BY <1>7, <1>9, <3>1
    <3>2. CASE j # i
      <4>1. j < Reached
        BY <1>3, <2>1, <2>2, <3>2
      <4>. QED BY <1>1, <1>6, <1>9, <1>16, <3>2, <4>1 DEF AllFilled
    <3>. QED BY <3>1, <3>2
  <2>. QED BY <1>1, <1>5, <2>1, <2>2 DEF AllFilled
<1>. QED BY <1>10, <1>11, <1>12, <1>13, <1>14, <1>15, <1>16 DEF Inv

\* Of the functions of two loops only the sums, averages and ratios end their second one.
LEMMA EndSecondStep ==
  ASSUME Parameters, Inv, EndSecond
  PROVE  Inv' /\ (AllFilled => AllFilled')
<1>1. /\ pc = "second" /\ pc' = "done" /\ i >= size /\ UNCHANGED inputs
      /\ UNCHANGED <<w, i, acc, ret, out, roots, wild>>
  BY DEF EndSecond
<1>2. Shape /\ Control /\ InBounds
  BY DEF Inv
<1>3. op' = op /\ floating' = floating /\ arr' = arr
  BY <1>1 DEF inputs
<1>4. /\ size' = size /\ Row' = Row /\ CellType' = CellType /\ AccType' = AccType
      /\ \A j, c : Right(j, c)' = Right(j, c)
  BY <1>1, RightSame
<1>5. i \in Nat /\ size \in Nat /\ w \in Nat /\ \A j \in Row : j \in Nat /\ j < size
  BY <1>2, Facts
<1>6. op \in {"sumw", "avgw", "ratios", "ratiow"}
  <2>1. op \in TwoLoops /\ w < size /\ (op \in {"varw", "stddevw"} => i = w)
    BY <1>1, <1>2 DEF Control
  <2>2. op \notin {"varw", "stddevw"}
    BY <1>1, <1>5, <2>1
  <2>. QED BY <2>1, <2>2 DEF TwoLoops
<1>7. Shape'
  BY <1>1, <1>2, <1>3, <1>4 DEF Shape
<1>8. Control'
  <2>1. /\ op \in Sums => w <= size /\ (op \notin Moving => w = size)
        /\ op \in Ratios => w <= Greatest(size, 1)
        /\ op \notin {"minw", "maxw"} /\ Greatest(size, 1)' = Greatest(size, 1)
    BY <1>1, <1>2, <1>4, <1>6 DEF Control, Greatest
  <2>. QED BY <1>1, <1>3, <1>4, <2>1 DEF Control
<1>9. AccOK' /\ FirstFills'
  BY <1>1 DEF AccOK, FirstFills
<1>10. ReductionIsLast' /\ RootsOK'
  BY <1>3, <1>6 DEF ReductionIsLast, RootsOK
<1>11. InBounds'
  BY <1>1, <1>2, <1>3, <1>4 DEF InBounds
<1>12. AllRight'
  <2>1. ASSUME NEW j \in Row', ret'[j] # Undef PROVE Right(j, ret[j])'
    <3>1. PICK c : c = ret[j] /\ c = ret'[j]
      BY <1>1
    <3>2. Right(j, c)'
      BY <1>4, <2>1, <3>1 DEF AllRight, Inv
    <3>. QED BY <3>1, <3>2 DEF Right, RightValue
  <2>. QED BY <2>1 DEF AllRight
<1>13. ASSUME AllFilled PROVE AllFilled'
  <2>1. Reached = i
    BY <1>6 DEF Reached, Reductions
  <2>2. \A j \in Row : j < Reached
    BY <1>1, <1>5, <2>1
  <2>. QED BY <1>1, <1>3, <1>4, <1>13, <2>2 DEF AllFilled
<1>. QED BY <1>7, <1>8, <1>9, <1>10, <1>11, <1>12, <1>13 DEF Inv

\* A step that changes nothing.
LEMMA Stutters ==
  ASSUME Inv, UNCHANGED windowVars
  PROVE  Inv' /\ (AllFilled => AllFilled')
<1>1. /\ op' = op /\ floating' = floating /\ arr' = arr /\ w' = w /\ pc' = pc /\ i' = i /\ acc' = acc /\ ret' = ret
      /\ out' = out /\ roots' = roots /\ wild' = wild
  BY DEF windowVars
<1>2. /\ size' = size /\ Row' = Row /\ CellType' = CellType /\ AccType' = AccType /\ LowestLimit' = LowestLimit
      /\ FirstEnd' = FirstEnd /\ Reached' = Reached
  BY <1>1 DEF size, Row, CellType, Pairs, Spoilt, AccType, Entries, LowestLimit, FirstEnd, Reached
<1>3. Shape' = Shape
  BY <1>1, <1>2 DEF Shape
<1>4. Control' = Control
  BY <1>1, <1>2 DEF Control, Greatest
<1>5. AccOK' = AccOK
  <2>1. LeastSoFar(acc.best, i)' = LeastSoFar(acc.best, i) /\ GreatestSoFar(acc.best, i)' = GreatestSoFar(acc.best, i)
    BY <1>1, <1>2 DEF LeastSoFar, GreatestSoFar, Values
  <2>2. Deque(acc.cache, i)' = Deque(acc.cache, i)
    BY <1>1 DEF Deque, First, Beats
  <2>3. SumTo(i)' = SumTo(i) /\ SumSqTo(i)' = SumSqTo(i)
    BY <1>1 DEF SumTo, SumSqTo, Squares, Total
  <2>. QED BY <1>1, <1>2, <2>1, <2>2, <2>3 DEF AccOK, Scale
<1>6. RootsOK' = RootsOK /\ FirstFills' = FirstFills /\ AllFilled' = AllFilled
  BY <1>1, <1>2 DEF RootsOK, FirstFills, AllFilled
<1>7. ReductionIsLast' = ReductionIsLast
  <2>1. SumTo(size)' = SumTo(size)
    BY <1>1, <1>2 DEF SumTo, Total
  <2>. QED BY <1>1, <1>2, <2>1 DEF ReductionIsLast, Values, BelowStart, Scale
<1>8. InBounds' = InBounds
  BY <1>1, <1>2 DEF InBounds
<1>9. AllRight'
  <2>0. \A j, c : Right(j, c)' = Right(j, c)
    BY <1>1, RightSame DEF inputs
  <2>1. ASSUME NEW j \in Row', ret'[j] # Undef PROVE Right(j, ret[j])'
    <3>1. PICK c : c = ret[j] /\ c = ret'[j]
      BY <1>1
    <3>2. Right(j, c)'
      BY <1>2, <2>0, <2>1, <3>1 DEF AllRight, Inv
    <3>. QED BY <3>1, <3>2 DEF Right, RightValue
  <2>. QED BY <2>1 DEF AllRight
<1>. QED BY <1>1, <1>3, <1>4, <1>5, <1>6, <1>7, <1>8, <1>9 DEF Inv

-----------------------------------------------------------------------------
(* What the invariant says.                                                  *)

\* Every step keeps the invariant, and leaves the cells filled.
LEMMA Steps ==
  ASSUME Parameters, Inv, AllFilled, [WindowNext]_windowVars
  PROVE  Inv' /\ AllFilled'
<1>1. CASE Begin
  <2>1. Inv' /\ pc' = "first"
    BY <1>1, BeginStep, Begun
  <2>. QED BY <2>1 DEF Inv, AllFilled, FirstFills
<1>2. CASE FirstLoop
  <2>1. Inv' /\ pc' = "first"
    BY <1>2, FirstLoopStep DEF FirstLoop
  <2>. QED BY <2>1 DEF Inv, AllFilled, FirstFills
<1>3. CASE Overrun
  <2>1. Inv' /\ pc' = "first"
    BY <1>3, OverrunStep DEF Overrun
  <2>. QED BY <2>1 DEF Inv, AllFilled, FirstFills
<1>4. CASE EndFirst
  BY <1>4, EndFirstStep
<1>5. CASE SlideSums
  BY <1>5, SlideSumsStep
<1>6. CASE SlideVar
  BY <1>6, SlideVarStep
<1>7. CASE SlideRatio
  BY <1>7, SlideRatioStep
<1>8. CASE EndSecond
  BY <1>8, EndSecondStep
<1>9. CASE UNCHANGED windowVars
  BY <1>9, Stutters
<1>. QED BY <1>1, <1>2, <1>3, <1>4, <1>5, <1>6, <1>7, <1>8, <1>9 DEF WindowNext

\* The invariant has the types, the bounds and the roots in it.
LEMMA TypesAndRoots ==
  ASSUME Parameters, Inv
  PROVE  WindowTypeOK /\ InBounds /\ RootedOnce /\ ReductionIsLast
<1>1. Shape /\ Control /\ RootsOK /\ InBounds /\ ReductionIsLast
  BY DEF Inv
<1>2. /\ size \in Nat /\ DOMAIN arr = Row /\ DOMAIN ret = Row /\ i \in Nat
      /\ \A j \in Row : j \in Nat /\ j < size
  BY <1>1, Facts
<1>3. WindowTypeOK
  <2>1. ASSUME NEW j \in DOMAIN ret
        PROVE  \/ ret[j] = Undef
               \/ ret[j] = Garbage /\ Simd /\ op \in Carried
               \/ op \in {"ratios", "ratiow"} /\ Len(ret[j]) = 2
               \/ op \notin {"ratios", "ratiow"} /\ ret[j] \in Int
    <3>1. ret[j] \in CellType
      BY <1>1, <1>2, <2>1 DEF Shape
    <3>2. \A c \in Pairs : Len(c) = 2
      BY DEF Pairs
    <3>. QED BY <3>1, <3>2 DEF CellType, Spoilt, Ratios
  <2>2. acc.cache \in Seq(Data \X DOMAIN arr)
    BY <1>1, <1>2 DEF Shape, AccType, Entries
  <2>. QED BY <1>1, <1>2, <2>1, <2>2 DEF Shape, WindowTypeOK
<1>4. RootedOnce
  <2>0. DOMAIN roots = Row
    BY <1>1 DEF Shape
  <2>1. ASSUME pc = "done", op = "stddevs", NEW j \in Row, j > 0 PROVE roots[j] = 1
    <3>1. i >= size
      BY <1>1, <2>1 DEF Control, Shifts
    <3>2. 0 < j /\ j < i
      BY <1>2, <2>1, <3>1
    <3>. QED BY <1>1, <2>1, <3>2 DEF RootsOK
  <2>2. ASSUME pc = "first", op = "stddevw", NEW j \in Row, j >= i - 1 PROVE roots[j] = 0
    <3>1. ~(j < i - 1)
      BY <1>2, <2>2
    <3>. QED BY <1>1, <2>2, <3>1 DEF RootsOK
  <2>. QED BY <1>1, <2>0, <2>1, <2>2 DEF RootedOnce, RootsOK
<1>. QED BY <1>1, <1>3, <1>4

\* Filled cells with the right values are what the properties speak of.
LEMMA Defined ==
  ASSUME Parameters, Inv, AllFilled
  PROVE  ValuesByDefinition /\ CellsSound
<1>1. Shape /\ AllRight
  BY DEF Inv
<1>2. DOMAIN ret = Row
  BY <1>1, Facts
<1>3. ExtremumOfWindow /\ VarianceOfPrefix
  <2>1. op \notin Carried => \A j \in Row : ret[j] # Undef => ret[j] # Garbage
    BY <1>1, Facts DEF Shape, CellType, Spoilt, Pairs, Parameters, NoCell
  <2>2. op \in {"minw", "mins", "maxw", "maxs"} \cup Variances => op \notin Carried
    BY DEF Carried, Variances
  <2>. QED BY <1>1, <1>2, <2>1, <2>2 DEF ExtremumOfWindow, VarianceOfPrefix, Written, AllRight, Right, RightValue, Variances
<1>4. MovingSums
  BY <1>1, <1>2 DEF MovingSums, Built, AllRight, Right, RightValue
<1>5. AllWritten
  BY <1>2 DEF AllWritten, AllFilled, Written
<1>. QED BY <1>3, <1>4, <1>5, TypesAndRoots DEF ValuesByDefinition, CellsSound

\* In any build, whichever iterations it runs side by side, each running and moving value is the
\* minimum, maximum, sum, mean or variance of its window computed from the rows, and each reduction
\* the last of them, for every column, window and width of the type.  Left out are the values that
\* a lane built from a cell not written yet, which only sums, sumw and avgw have, the averages after
\* a difference that does not fit the type, and floating maxima without a positive row.
THEOREM ValuesAreByDefinition ==
  WindowSpec => []ValuesByDefinition
<1>1. WindowInit => Inv /\ AllFilled
  BY Ready, WindowAssumption
<1>2. Inv /\ AllFilled /\ [WindowNext]_windowVars => (Inv /\ AllFilled)'
  BY Steps, WindowAssumption
<1>3. Inv /\ AllFilled => ValuesByDefinition
  BY Defined, WindowAssumption
<1>. QED BY <1>1, <1>2, <1>3, PTL DEF WindowSpec

\* In any build every cell of a result is written by the time its function returns, each variance is
\* rooted once, and the arrays are left only in the three unguarded cases.
THEOREM CellsAreSound ==
  WindowSpec => []CellsSound
<1>1. WindowInit => Inv /\ AllFilled
  BY Ready, WindowAssumption
<1>2. Inv /\ AllFilled /\ [WindowNext]_windowVars => (Inv /\ AllFilled)'
  BY Steps, WindowAssumption
<1>3. Inv /\ AllFilled => CellsSound
  BY Defined, WindowAssumption
<1>. QED BY <1>1, <1>2, <1>3, PTL DEF WindowSpec

=============================================================================
