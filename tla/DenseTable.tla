----------------------------- MODULE DenseTable -----------------------------
(***************************************************************************)
(* ankerl::unordered_dense::table (server/unordered_dense.h) as the engine *)
(* uses it: aq_map behind the trigger hosts and the function map, and the  *)
(* AQHashTable of GROUP BY (server/hasher.h), which extends the set.       *)
(*                                                                         *)
(* The values lie in one vector without holes.  A bucket holds the index   *)
(* of a value and its distance from the bucket where it belongs, 1 there   *)
(* and 0 in an empty bucket, followed by a fingerprint of the hash.  One   *)
(* step is one call; one thread uses a table at a time.                    *)
(***************************************************************************)
EXTENDS Integers, Sequences, FiniteSets, FiniteSetsExt

CONSTANTS Keys, Vals,
          MaxBits,      \* the hash has this many high bits, which choose the bucket
          StartBits,    \* 3 in the code (initial_shifts = 64 - 3)
          Highs,        \* the values of those bits that occur
          Prints,       \* fingerprints: the low byte of the hash
          MaxRows, MaxCalls

\* 1 << bits, the number of buckets, and how many values these may hold: max_load_factor is 0.8.
N[b \in 0 .. MaxBits] == IF b = 0 THEN 1 ELSE 2 * N[b - 1]
Capacity(b) == (N[b] * 4) \div 5

ASSUME TableAssumption ==
  /\ MaxBits \in Nat /\ StartBits \in 0 .. MaxBits - 1
  /\ Highs \subseteq 0 .. N[MaxBits] - 1 /\ Prints \subseteq Nat
  /\ Keys # {} /\ Vals # {}
  /\ MaxRows \in 0 .. Capacity(MaxBits) /\ MaxCalls \in Nat

VARIABLES hash,    \* the hash of each key: high bits and fingerprint
          bits,    \* log2 of the number of buckets; 0 before the first allocation
          buckets, \* 0 .. 2^bits - 1 -> [dist, print, at]
          values,  \* m_values: pairs of a key and a value
          groups,  \* AQHashTable: row -> group number (reversemap)
          rows,    \* the column being grouped, FALSE for a map
          calls
vars == <<hash, bits, buckets, values, groups, rows, calls>>

Empty == [dist |-> 0, print |-> 0, at |-> 0]
\* Where a loop that walks on from step i until P ends; none walks on for more than Far steps.
Far == N[MaxBits] + 1
FirstFrom(i, P(_)) == CHOOSE j \in i .. Far : P(j) /\ \A d \in i .. j - 1 : ~P(d)
Home(k, b) == hash[k].high \div N[MaxBits - b]   \* hash >> m_shifts
KeyAt(vs, i) == vs[i][1]
\* The word that the code compares: the distance above the fingerprint.
Less(d, e) == d.dist < e.dist \/ (d.dist = e.dist /\ d.print < e.print)
Same(d, e) == d.dist = e.dist /\ d.print = e.print

\* The j-th bucket that a search for k looks at, and the word it expects there.
Place(k, j, b) == (Home(k, b) + j) % N[b]
Word(k, j) == [dist |-> j + 1, print |-> hash[k].print]

HoldsByPrint(k, j, bs, b, vs) == Same(Word(k, j), bs[Place(k, j, b)])
Holds(k, j, bs, b, vs) ==
  LET found == bs[Place(k, j, b)] IN Same(Word(k, j), found) /\ KeyAt(vs, found.at) = k
Poorer(k, j, bs, b) == Less(bs[Place(k, j, b)], Word(k, j))

\* do_find: the first two buckets are only compared, not taken for the end.
FindIn(k, bs, b, vs) ==
  LET j == FirstFrom(0, LAMBDA i : Holds(k, i, bs, b, vs) \/ (i > 1 /\ Poorer(k, i, bs, b)))
  IN  IF vs = <<>> THEN 0
      ELSE IF Holds(k, j, bs, b, vs) THEN bs[Place(k, j, b)].at ELSE 0
Find(k) == FindIn(k, buckets, bits, values)

\* place_and_shift_up: everything up to the next empty bucket moves on by one.
ShiftUp(bucket, p, bs, b) ==
  LET gap == FirstFrom(0, LAMBDA j : bs[(p + j) % N[b]].dist = 0)
      shifted == {(p + j) % N[b] : j \in 1 .. gap}
      before(q) == bs[(q + N[b] - 1) % N[b]]
  IN  [q \in DOMAIN bs |-> IF q = p THEN bucket
                           ELSE IF q \in shifted THEN [before(q) EXCEPT !.dist = @ + 1] ELSE bs[q]]
IndexAt(k, j, i, bs, b) ==
  ShiftUp([dist |-> j + 1, print |-> hash[k].print, at |-> i], Place(k, j, b), bs, b)

\* clear_and_fill_buckets_from_values, with next_while_less for each value.
NoBuckets(b) == [p \in 0 .. N[b] - 1 |-> Empty]
NextWhileLess(k, bs, b) == FirstFrom(0, LAMBDA j : ~Less(Word(k, j), bs[Place(k, j, b)]))
FillIn(bs, n, b, vs) == LET k == KeyAt(vs, n) IN IndexAt(k, NextWhileLess(k, bs, b), n, bs, b)
Filled(b, vs) ==
  LET fill[n \in 0 .. Len(vs)] == IF n = 0 THEN NoBuckets(b) ELSE FillIn(fill[n - 1], n, b, vs)
  IN  fill[Len(vs)]

\* A full table doubles before it looks for the key; a table without buckets is full, and
\* its increase_size counts from the shift that it would have started with.
Full == bits = 0 \/ Len(values) >= Capacity(bits)
Roomy == IF Full THEN LET b == IF bits = 0 THEN StartBits + 1 ELSE bits + 1
                      IN  [b |-> b, bs |-> Filled(b, values)]
         ELSE [b |-> bits, bs |-> buckets]

\* try_emplace, emplace and hashtable_push: the index of k, which is added if it is new.
\* `replace` is insert_or_assign.
Enter(k, v, replace) ==
  LET r == Roomy
      j == FirstFrom(0, LAMBDA i : Holds(k, i, r.bs, r.b, values) \/ Poorer(k, i, r.bs, r.b))
      at == IF Holds(k, j, r.bs, r.b, values) THEN r.bs[Place(k, j, r.b)].at ELSE 0
      new == Len(values) + 1
  IN  /\ (Full => bits < MaxBits)
      /\ bits' = r.b
      /\ IF at > 0 THEN /\ buckets' = r.bs
                        /\ values' = IF replace THEN [values EXCEPT ![at] = <<k, v>>] ELSE values
         ELSE /\ values' = Append(values, <<k, v>>)
              /\ buckets' = IndexAt(k, j, new, r.bs, r.b)
      /\ groups' = IF rows = <<>> THEN groups ELSE Append(groups, IF at > 0 THEN at ELSE new)

Call == calls < MaxCalls /\ calls' = calls + 1 /\ rows = <<>>

Insert(k, v) == Call /\ \E replace \in BOOLEAN : Enter(k, v, replace) /\ UNCHANGED <<hash, rows>>

\* do_erase: the buckets behind move back as long as they are away from home, and the last
\* value takes the place of the erased one.
ShiftDown(p) ==
  LET run == FirstFrom(1, LAMBDA j : buckets[(p + j) % N[bits]].dist < 2)
      last == (p + run - 1) % N[bits]
      moving == {(p + j) % N[bits] : j \in 0 .. run - 2}
      next(q) == buckets[(q + 1) % N[bits]]
  IN  [q \in DOMAIN buckets |-> IF q = last THEN Empty
                                ELSE IF q \in moving THEN [next(q) EXCEPT !.dist = @ - 1]
                                ELSE buckets[q]]
MovedForgotten(bs, i) == bs
Moved(bs, i) ==
  LET last == Len(values)
      k == KeyAt(values, last)
      j == FirstFrom(0, LAMBDA d : bs[Place(k, d, bits)].at = last)
  IN  IF i = last THEN bs ELSE [bs EXCEPT ![Place(k, j, bits)].at = i]

\* do_erase_key has a search of its own.
Erase(k) ==
  LET from == NextWhileLess(k, buckets, bits)
      j == FirstFrom(from, LAMBDA d : \/ ~Same(Word(k, d), buckets[Place(k, d, bits)])
                                     \/ Holds(k, d, buckets, bits, values))
      i == buckets[Place(k, j, bits)].at
      last == Len(values)
  IN  /\ Call
      /\ IF values # <<>> /\ Holds(k, j, buckets, bits, values)
         THEN /\ buckets' = Moved(ShiftDown(Place(k, j, bits)), i)
              /\ values' = SubSeq([values EXCEPT ![i] = values[last]], 1, last - 1)
         ELSE UNCHANGED <<buckets, values>>
      /\ UNCHANGED <<hash, bits, groups, rows>>

Clear == /\ Call
         /\ values' = <<>>
         /\ buckets' = [p \in DOMAIN buckets |-> Empty]
         /\ UNCHANGED <<hash, bits, groups, rows>>

-----------------------------------------------------------------------------
(* AQHashTable: the rows of a column are pushed one by one.  The pragma omp    *)
(* simd on that loop changes nothing: a call that searches and grows a table   *)
(* cannot run for several rows at a time.                                      *)

Push == /\ rows # <<>> /\ Len(groups) < Len(rows)
        /\ Enter(rows[Len(groups) + 1], CHOOSE v \in Vals : TRUE, FALSE)
        /\ UNCHANGED <<hash, rows, calls>>

\* reserve(sz): the fewest buckets that hold sz keys.
Reserved(sz) == IF sz = 0 THEN 0 ELSE Min({b \in StartBits .. MaxBits : Capacity(b) >= sz})

Init ==
  /\ hash \in [Keys -> [high : Highs, print : Prints]]
  /\ rows \in UNION {[1 .. n -> Keys] : n \in 0 .. MaxRows}
  /\ bits = Reserved(Len(rows))
  /\ buckets = IF bits = 0 THEN <<>> ELSE NoBuckets(bits)
  /\ values = <<>> /\ groups = <<>> /\ calls = 0

Next == \/ \E k \in Keys : Erase(k) \/ \E v \in Vals : Insert(k, v)
        \/ Clear \/ Push
Spec == Init /\ [][Next]_vars

-----------------------------------------------------------------------------
(* Properties. *)

\* The types, and buckets for every value with room to spare: without an empty bucket the
\* loops of the searches would not end.
TypeOK ==
  /\ bits \in 0 .. MaxBits
  /\ bits = 0 => values = <<>>
  /\ bits > 0 => /\ DOMAIN buckets = 0 .. N[bits] - 1
                 /\ \E p \in DOMAIN buckets : buckets[p] = Empty
  /\ \A i \in DOMAIN values : values[i] \in Keys \X Vals
  /\ groups \in Seq(DOMAIN values)

\* Every value has one bucket, at the distance from its home that the bucket says and with the
\* fingerprint of its key; no other bucket is used.  Growing, shifting up, shifting back and
\* the move of the last value all have to keep it.
IndexExact ==
  bits > 0 =>
    /\ \A i \in DOMAIN values : Cardinality({p \in DOMAIN buckets : buckets[p].at = i}) = 1
    /\ \A p \in DOMAIN buckets : buckets[p] # Empty =>
         /\ buckets[p].dist > 0 /\ buckets[p].at \in DOMAIN values
         /\ LET k == KeyAt(values, buckets[p].at)
            IN  buckets[p].print = hash[k].print /\ Place(k, buckets[p].dist - 1, bits) = p

\* Robin Hood order, on which all early ends of searches rest: a bucket is at most one step
\* poorer than the one before it, and at equal homes the fingerprints do not rise.
RobinHood ==
  bits > 0 => \A p \in DOMAIN buckets :
    LET q == buckets[(p + 1) % N[bits]]
    IN  q.dist > 1 => ~Less([buckets[p] EXCEPT !.dist = @ + 1], q)

\* A search finds each key where it is, and no other key.
FindsAll ==
  bits > 0 => \A k \in Keys :
    LET i == Find(k)
    IN  IF i = 0 THEN \A x \in DOMAIN values : KeyAt(values, x) # k ELSE KeyAt(values, i) = k

\* Seen from outside the table is a partial function that each call changes at one key.
Contents == [k \in {KeyAt(values, i) : i \in DOMAIN values} |->
               values[CHOOSE i \in DOMAIN values : KeyAt(values, i) = k][2]]
Store == INSTANCE KeyedStore WITH contents <- Contents
IsStore == Store!Spec

\* GROUP BY: a row's number is the place of its own key, so two rows have the same number exactly
\* when their keys are equal, whatever hashes collide; and numbers are given out without gaps in
\* the order in which the keys first occur.
RowsGrouped ==
  \A r \in DOMAIN groups :
    /\ KeyAt(values, groups[r]) = rows[r]
    /\ \A x \in 1 .. r : groups[x] = groups[r] <=> rows[x] = rows[r]
    /\ \A g \in 1 .. groups[r] : \E x \in 1 .. r : groups[x] = g

\* After every insert, erasure and rehash the index is sound: each value has one bucket that
\* holds its place, fingerprint and distance, no bucket is poorer than the one before it allows,
\* and so a search finds the keys that are there and no other.
IndexSound == TypeOK /\ IndexExact /\ RobinHood /\ FindsAll
=============================================================================
