---------------------------- MODULE VectorsProofs ----------------------------
(* Proofs about Vectors, for any vectors, values and bounds. *)
EXTENDS Vectors, SequenceTheorems, FiniteSetTheorems, WellFoundedInduction, TLAPS

-----------------------------------------------------------------------------
(* The inductive invariant.                                                  *)

Cell == Data \cup {Blank}
Fields == [at : 0 .. MaxBlocks, from : Nat, size : Nat, cap : Nat]
Blocks == [live : BOOLEAN, cells : Seq(Cell)]

\* The fields of a vector: an owner begins where its block begins, and has room for its size.
InOrder(r) ==
  /\ r \in Fields /\ r.from < MaxSize /\ r.from + r.size <= MaxSize /\ r.cap <= 2 * MaxSize + 1
  /\ r.at = Null => r = Empty
  /\ r.cap > 0 => r.from = 0 /\ r.size <= r.cap

\* As long as the block is there the elements lie in it, and an owner's are its list.
Lies(r, h) == r.at # Null /\ h[r.at].live => r.from + r.size <= Len(h[r.at].cells)
Stands(r, h, list) ==
  /\ list \in Seq(Cell) /\ (r.cap = 0 => list = <<>>)
  /\ r.cap > 0 /\ h[r.at].live => list = SubSeq(h[r.at].cells, 1, r.size)

Order ==
  /\ vec \in [Vectors -> Fields] /\ heap \in [1 .. MaxBlocks -> Blocks]
  /\ holds \in [Vectors -> Seq(Cell)]
  /\ \A v \in Vectors : InOrder(vec[v]) /\ Lies(vec[v], heap) /\ Stands(vec[v], heap, holds[v])

IInv == Order /\ UndefinedForCause

-----------------------------------------------------------------------------
(* Cells and lists.                                                          *)

LEMMA Bounds == MaxSize \in Nat /\ MaxSize >= 1 /\ MaxBlocks \in Nat /\ IsFiniteSet(Vectors)
BY VectorAssumption

\* The first n cells.
LEMMA FirstCells ==
  ASSUME NEW s \in Seq(Cell), NEW n \in 0 .. Len(s)
  PROVE  /\ SubSeq(s, 1, n) \in Seq(Cell) /\ Len(SubSeq(s, 1, n)) = n
         /\ \A k \in 1 .. n : SubSeq(s, 1, n)[k] = s[k]
<1>1. \A k \in 1 .. n : s[k] \in Cell
  OBVIOUS
<1>. QED BY <1>1, SubSeqProperties

LEMMA FirstCellsAre ==
  ASSUME NEW s \in Seq(Cell), NEW t \in Seq(Cell), Len(t) <= Len(s),
         \A k \in 1 .. Len(t) : t[k] = s[k]
  PROVE  SubSeq(s, 1, Len(t)) = t
<1>1. Len(t) \in 0 .. Len(s)
  OBVIOUS
<1>2. /\ SubSeq(s, 1, Len(t)) \in Seq(Cell) /\ Len(SubSeq(s, 1, Len(t))) = Len(t)
      /\ \A k \in 1 .. Len(t) : SubSeq(s, 1, Len(t))[k] = s[k]
  BY <1>1, FirstCells
<1>. QED BY <1>2, SeqEqual

LEMMA FilledCells ==
  ASSUME NEW s \in Seq(Cell), NEW n \in Nat
  PROVE  /\ Filled(s, n) \in Seq(Cell)
         /\ Len(Filled(s, n)) = (IF Len(s) <= n THEN n ELSE Len(s))
         /\ \A k \in 1 .. Len(s) : Filled(s, n)[k] = s[k]
         /\ SubSeq(Filled(s, n), 1, Len(s)) = s
<1>. DEFINE t == [k \in 1 .. (n - Len(s)) |-> Blank]
<1>1. t \in Seq(Cell) /\ Len(t) = (IF Len(s) <= n THEN n - Len(s) ELSE 0)
  <2>1. CASE Len(s) <= n
    <3>1. n - Len(s) \in Nat /\ Blank \in Cell
      BY <2>1 DEF Cell
    <3>. QED BY <2>1, <3>1
  <2>2. CASE ~(Len(s) <= n)
    <3>1. 1 .. (n - Len(s)) = 1 .. 0
      BY <2>2
    <3>2. t = [k \in 1 .. 0 |-> Blank]
      BY <3>1
    <3>3. [k \in 1 .. 0 |-> Blank] \in Seq(Cell) /\ Len([k \in 1 .. 0 |-> Blank]) = 0
      OBVIOUS
    <3>. QED BY <2>2, <3>2, <3>3
  <2>. QED BY <2>1, <2>2
<1>. HIDE DEF t
<1>2. Filled(s, n) = s \o t
  BY DEF Filled, t
<1>3. /\ s \o t \in Seq(Cell) /\ Len(s \o t) = Len(s) + Len(t)
      /\ \A k \in 1 .. Len(s) : (s \o t)[k] = s[k]
  BY <1>1
<1>4. Len(s) <= Len(s \o t) /\ Len(s) \in Nat
  BY <1>1, <1>3
<1>5. SubSeq(s \o t, 1, Len(s)) = s
  BY <1>3, <1>4, FirstCellsAre
<1>. QED BY <1>1, <1>2, <1>3, <1>5

\* A list that begins as s does is s and the rest.
LEMMA GluedCells ==
  ASSUME NEW s \in Seq(Cell), NEW t \in Seq(Cell), NEW n, n = Len(t), Len(s) <= n,
         \A k \in 1 .. Len(s) : t[k] = s[k]
  PROVE  s \o SubSeq(t, Len(s) + 1, n) = t
<1>. DEFINE m == Len(s)
            a == m + 1
            u == SubSeq(t, a, n)
<1>1. m \in Nat /\ n \in Nat /\ m <= n /\ a \in Int
  OBVIOUS
<1>2. u \in Seq(Cell) /\ Len(u) = n - m /\ \A k \in 1 .. n - m : u[k] = t[m + k]
  <2>1. CASE m = n
    <3>1. u = <<>>
      <4>1. SubSeq(t, n + 1, n) = <<>>
        BY <1>1, SubSeqEmpty
      <4>. QED BY <2>1, <4>1
    <3>2. <<>> \in Seq(Cell) /\ Len(<<>>) = 0 /\ n - m = 0
      BY <1>1, <2>1
    <3>. QED BY <3>1, <3>2
  <2>2. CASE m # n
    <3>1. a <= n /\ n - a + 1 = n - m /\ \A k \in 1 .. n - m : a + k - 1 = m + k
      BY <1>1, <2>2
    <3>2. \A k \in a .. n : t[k] \in Cell
      BY <1>1
    <3>. HIDE DEF m, a
    <3>3. /\ SubSeq(t, a, n) \in Seq(Cell) /\ Len(SubSeq(t, a, n)) = n - a + 1
          /\ \A k \in 1 .. n - a + 1 : SubSeq(t, a, n)[k] = t[a + k - 1]
      BY <1>1, <3>1, <3>2, SubSeqProperties
    <3>. QED BY <3>1, <3>3
  <2>. QED BY <2>1, <2>2
<1>. HIDE DEF u
<1>3. /\ s \o u \in Seq(Cell) /\ Len(s \o u) = m + (n - m)
      /\ \A k \in 1 .. m + (n - m) : (s \o u)[k] = IF k <= m THEN s[k] ELSE u[k - m]
  <2>1. /\ s \o u \in Seq(Cell) /\ Len(s \o u) = Len(s) + Len(u)
        /\ \A k \in 1 .. Len(s) + Len(u) : (s \o u)[k] = IF k <= Len(s) THEN s[k] ELSE u[k - Len(s)]
    BY <1>2, ConcatProperties
  <2>. QED BY <1>2, <2>1
<1>. DEFINE g == s \o u
<1>4. g \in Seq(Cell) /\ Len(g) = n /\ \A k \in 1 .. n : g[k] = IF k <= m THEN s[k] ELSE u[k - m]
  BY <1>1, <1>3
<1>. HIDE DEF g
<1>5. ASSUME NEW k \in 1 .. n PROVE g[k] = t[k]
  <2>1. CASE k <= m
    BY <1>4, <2>1
  <2>2. CASE ~(k <= m)
    <3>1. k - m \in 1 .. n - m /\ m + (k - m) = k
      BY <1>1, <2>2
    <3>. HIDE DEF m
    <3>. QED BY <1>2, <1>4, <2>2, <3>1
  <2>. QED BY <2>1, <2>2
<1>6. g = t
  BY <1>4, <1>5, SeqEqual
<1>. QED BY <1>6 DEF g, u

\* What a vector shows.
LEMMA Shown ==
  ASSUME Order, NEW r, InOrder(r), Lies(r, heap), r.at # Null => heap[r.at].live
  PROVE  /\ View(r) \in Seq(Cell) /\ Len(View(r)) = r.size /\ r.size \in Nat /\ r.from \in Nat
         /\ \A k \in 1 .. r.size : View(r)[k] = Block(r.at)[r.from + k]
         /\ r.cap > 0 => View(r) = SubSeq(Block(r.at), 1, r.size)
<1>1. r.size \in Nat /\ r.from \in Nat /\ r.cap \in Nat /\ r.at \in 0 .. MaxBlocks
  BY DEF InOrder, Fields
<1>2. CASE r.size = 0
  <2>1. View(r) = <<>> /\ Len(<<>>) = 0
    BY <1>2 DEF View
  <2>2. SubSeq(Block(r.at), 1, r.size) = <<>>
    BY <1>2, SubSeqEmpty
  <2>. QED BY <1>1, <1>2, <2>1, <2>2
<1>3. CASE r.size # 0
  <2>1. r.at # Null
    BY <1>3 DEF InOrder, Empty
  <2>. DEFINE b == Block(r.at)
  <2>2. b \in Seq(Cell) /\ r.from + r.size <= Len(b)
    BY <1>1, <2>1 DEF Order, Blocks, Lies, Block, Null
  <2>. HIDE DEF b
  <2>3. \A k \in r.from + 1 .. r.from + r.size : b[k] \in Cell
    BY <1>1, <2>2
  <2>4. /\ SubSeq(b, r.from + 1, r.from + r.size) \in Seq(Cell)
        /\ Len(SubSeq(b, r.from + 1, r.from + r.size)) = r.size
        /\ \A k \in 1 .. r.size : SubSeq(b, r.from + 1, r.from + r.size)[k] = b[r.from + k]
    <3>. DEFINE m == r.from + 1
                n == r.from + r.size
    <3>1. m \in Int /\ n \in Int /\ m <= n /\ n - m + 1 = r.size /\ \A k \in 1 .. r.size : m + k - 1 = r.from + k
      BY <1>1, <1>3
    <3>2. \A k \in m .. n : b[k] \in Cell
      BY <2>3
    <3>. HIDE DEF m, n
    <3>3. /\ SubSeq(b, m, n) \in Seq(Cell)
          /\ Len(SubSeq(b, m, n)) = n - m + 1
          /\ \A k \in 1 .. n - m + 1 : SubSeq(b, m, n)[k] = b[m + k - 1]
      BY <3>1, <3>2, SubSeqProperties
    <3>. QED BY <3>1, <3>3 DEF m, n
  <2>5. View(r) = SubSeq(b, r.from + 1, r.from + r.size)
    BY <1>3 DEF View, b
  <2>6. r.cap > 0 => View(r) = SubSeq(b, 1, r.size)
    <3>1. r.cap > 0 => r.from + 1 = 1 /\ r.from + r.size = r.size
      BY <1>1 DEF InOrder
    <3>. QED BY <2>5, <3>1
  <2>7. Block(r.at) = b
    BY DEF b
  <2>. QED BY <1>1, <2>4, <2>5, <2>6, <2>7
<1>. QED BY <1>2, <1>3

\* A vector that is used shows what it stands for.
LEMMA SeenShown ==
  ASSUME Order, NEW v \in Vectors, ~Gone(v)
  PROVE  /\ InOrder(vec[v]) /\ Lies(vec[v], heap)
         /\ vec[v].at # Null => heap[vec[v].at].live
         /\ Seen(v) = Cells(v) /\ Cells(v) \in Seq(Cell) /\ Len(Cells(v)) = vec[v].size
         /\ vec[v].size \in Nat /\ vec[v].from \in Nat /\ vec[v].cap \in Nat
         /\ \A k \in 1 .. vec[v].size : Cells(v)[k] = Block(vec[v].at)[vec[v].from + k]
         /\ Owns(v) => Cells(v) = SubSeq(Block(vec[v].at), 1, vec[v].size)
<1>1. InOrder(vec[v]) /\ Lies(vec[v], heap) /\ Stands(vec[v], heap, holds[v])
  BY DEF Order
<1>2. vec[v].at # Null => heap[vec[v].at].live
  BY DEF Gone
<1>3. vec[v].cap \in Nat
  BY <1>1 DEF InOrder, Fields
<1>4. Owns(v) => holds[v] = SubSeq(Block(vec[v].at), 1, vec[v].size)
  <2>1. Owns(v) => vec[v].at # Null
    BY <1>1 DEF InOrder, Owns, Empty
  <2>. QED BY <1>1, <1>2, <2>1 DEF Stands, Owns, Block
<1>5. /\ Cells(v) \in Seq(Cell) /\ Len(Cells(v)) = vec[v].size
      /\ vec[v].size \in Nat /\ vec[v].from \in Nat
      /\ \A k \in 1 .. vec[v].size : Cells(v)[k] = Block(vec[v].at)[vec[v].from + k]
      /\ Owns(v) => Cells(v) = SubSeq(Block(vec[v].at), 1, vec[v].size)
  BY <1>1, <1>2, Shown DEF Cells, Owns
<1>. QED BY <1>1, <1>2, <1>3, <1>4, <1>5 DEF Seen

-----------------------------------------------------------------------------
(* Blocks.                                                                   *)

LEMMA MinIsIn ==
  ASSUME NEW S \in SUBSET Nat, S # {}
  PROVE  Min(S) \in S /\ \A y \in S : Min(S) <= y
<1>. DEFINE R == OpToRel(<, Nat)
<1>1. IsWellFoundedOn(R, Nat)
  BY NatLessThanWellFounded DEF OpToRel
<1>2. \A x, y \in S : x < y => <<x, y>> \in R
  BY DEF OpToRel
<1>. HIDE DEF R
<1>3. PICK x \in S : \A y \in S : ~(<<y, x>> \in R)
  BY <1>1, WFMin
<1>4. ASSUME NEW y \in S PROVE x <= y
  <2>1. ~(y < x) /\ x \in Nat /\ y \in Nat
    BY <1>2, <1>3
  <2>. QED BY <2>1
<1>. QED BY <1>4 DEF Min

\* A new block is nobody else's.
LEMMA NewBlock ==
  ASSUME Order, NEW v \in Vectors
  PROVE  /\ New(v) \in 0 .. MaxBlocks
         /\ New(v) # Null => New(v) \in 1 .. MaxBlocks /\ \A u \in Vectors \ {v} : vec[u].at # New(v)
<1>. DEFINE spare == {b \in DOMAIN heap : \A u \in Vectors \ {v} : vec[u].at # b}
<1>1. New(v) = IF spare = {} THEN Null ELSE Min(spare)
  BY DEF New
<1>2. spare \subseteq 1 .. MaxBlocks /\ spare \in SUBSET Nat
  BY Bounds DEF Order
<1>3. spare # {} => Min(spare) \in spare
  BY <1>2, MinIsIn
<1>4. \A b \in spare : b \in 1 .. MaxBlocks /\ b # Null /\ \A u \in Vectors \ {v} : vec[u].at # b
  BY <1>2 DEF Null
<1>5. Null \in 0 .. MaxBlocks
  BY Bounds DEF Null
<1>. HIDE DEF spare
<1>. QED BY <1>1, <1>3, <1>4, <1>5

Held(s) == [live |-> TRUE, cells |-> s]

LEMMA HeldCells == \A s : Held(s).live /\ Held(s).cells = s
BY DEF Held

LEMMA Allocated ==
  ASSUME Order, NEW v \in Vectors, NEW h \in [1 .. MaxBlocks -> Blocks], NEW s \in Seq(Cell)
  PROVE  /\ Malloc(v, h, s) \in [1 .. MaxBlocks -> Blocks]
         /\ \A b \in 1 .. MaxBlocks :
              Malloc(v, h, s)[b] = IF b = New(v) THEN Held(s) ELSE h[b]
<1>1. Held(s) \in Blocks
  BY DEF Blocks, Held
<1>2. Malloc(v, h, s) = [b \in DOMAIN h |-> IF b = New(v) THEN Held(s) ELSE h[b]]
  BY DEF Malloc, Held
<1>. QED BY <1>1, <1>2

LEMMA Freed ==
  ASSUME Order, NEW b \in 0 .. MaxBlocks
  PROVE  /\ Free(heap, b) \in [1 .. MaxBlocks -> Blocks] /\ NoBlock.live = FALSE
         /\ \A c \in 1 .. MaxBlocks : Free(heap, b)[c] = IF c = b THEN NoBlock ELSE heap[c]
<1>1. NoBlock \in Blocks /\ NoBlock.live = FALSE
  BY DEF NoBlock, Blocks
<1>2. b # Null => b \in 1 .. MaxBlocks
  BY Bounds DEF Null
<1>3. \A c \in 1 .. MaxBlocks : c # Null
  BY DEF Null
<1>. QED BY <1>1, <1>2, <1>3 DEF Free, Order

-----------------------------------------------------------------------------
(* The kinds of steps.                                                       *)

\* The operations that the properties except.
RoomExcused == \E v, w \in Vectors : vec[w].cap > vec[w].size /\ (Copy(v, w) \/ Assign(v, w))
OwnerExcused == \E c, w \in Vectors : InitFromC(c, w)
LenderExcused == \E v \in Vectors : TakesFromLender(v)
LeakExcused == \E v \in Vectors : Forgets(v)

\* A vector gets a new block, in place of the one it had or not.
Builds(v) ==
  \E h, n, cap, s, list :
    /\ Become(v, Owner(v, n, cap), Malloc(v, h, s), list)
    /\ n \in Nat /\ cap \in Nat /\ s \in Seq(Cell) /\ n <= Len(s) /\ n <= cap
    /\ cap <= 2 * MaxSize + 1 /\ (Len(s) > 0 => cap > 0) /\ (cap > 0 => list = SubSeq(s, 1, n))
    /\ cap <= Len(s) \/ RoomExcused
    /\ \/ h = heap /\ (Owns(v) => LeakExcused)
       \/ h = Free(heap, vec[v].at) /\ (vec[v].at # Null /\ ~Owns(v) => LenderExcused)

\* A vector shows cells that are there.
Views(v) ==
  \E r, list :
    /\ Become(v, r, heap, list) /\ InOrder(r) /\ Lies(r, heap)
    /\ r.cap > 0 => heap[r.at].live /\ list = SubSeq(Block(r.at), 1, r.size)
    /\ \/ r.cap = 0 /\ (Owns(v) => LeakExcused)
       \/ r.cap = vec[v].cap /\ r.at = vec[v].at
       \/ (Owns(v) => LeakExcused) /\ OwnerExcused /\ \E w \in Vectors : r.cap = vec[w].cap /\ r.at = vec[w].at

\* A vector writes cells of its block, or behind its elements.
Rewrites(v) ==
  \E n, cells, list :
    LET r == [vec[v] EXCEPT !.size = n] IN
    /\ Rewrite(v, r, vec[v].at, cells, list) /\ n \in Nat /\ InOrder(r)
    /\ vec[v].at # Null /\ heap[vec[v].at].live
    /\ cells \in Seq(Cell) /\ Len(Block(vec[v].at)) <= Len(cells) /\ r.from + n <= Len(cells)
    /\ Owns(v) => list = SubSeq(cells, 1, n)
    /\ Owns(v) \/ Len(cells) = Len(Block(vec[v].at))

\* A vector is emptied, and frees what it owned; or a borrower frees what it borrowed.
Drops(v) ==
  \/ ~Gone(v) /\ Become(v, Empty, IF Owns(v) THEN Free(heap, vec[v].at) ELSE heap, <<>>)
  \/ ~Owns(v) /\ LenderExcused /\ Become(v, Empty, Free(heap, vec[v].at), <<>>)

\* The program meets undefined behaviour, for a cause that is named.
Cause(c) ==
  /\ c = "past_the_end" => ~RoomIsThere \/ \E v \in Vectors : EmptyBorrower(v)
  /\ c = "too_narrow" => \E v \in Vectors : ~Owns(v) /\ vec[v].size > 0
  /\ c = "inside_a_block" => \E v \in Vectors : ~Owns(v) /\ vec[v].from > 0
  /\ c = "the_block_is_gone" => ~OwnersAlive
Stops == \E c : Undefined(c) /\ Cause(c)

\* A vector that a step leaves alone stays in order, whatever becomes of other blocks.
LEMMA OthersStay ==
  ASSUME Order, NEW u \in Vectors, vec'[u] = vec[u], holds'[u] = holds[u],
         vec[u].at # Null => heap'[vec[u].at] = heap[vec[u].at] \/ ~heap'[vec[u].at].live
  PROVE  InOrder(vec'[u]) /\ Lies(vec'[u], heap') /\ Stands(vec'[u], heap', holds'[u])
<1>1. InOrder(vec[u]) /\ Lies(vec[u], heap) /\ Stands(vec[u], heap, holds[u])
  BY DEF Order
<1>2. vec[u].cap > 0 => vec[u].at # Null
  BY <1>1 DEF InOrder, Empty
<1>. QED BY <1>1, <1>2 DEF Lies, Stands

\* What a step of one vector leaves alone.
LEMMA Becomes ==
  ASSUME Order, NEW v \in Vectors, NEW r \in Fields, NEW h, NEW list \in Seq(Cell), Become(v, r, h, list)
  PROVE  /\ vec' \in [Vectors -> Fields] /\ holds' \in [Vectors -> Seq(Cell)] /\ heap' = h
         /\ vec'[v] = r /\ holds'[v] = (IF r.cap > 0 THEN list ELSE <<>>)
         /\ \A u \in Vectors \ {v} : vec'[u] = vec[u] /\ holds'[u] = holds[u]
         /\ r.size <= MaxSize /\ (r.at = Null => r = Empty) /\ UNCHANGED why
<1>1. <<>> \in Seq(Cell)
  OBVIOUS
<1>. QED BY <1>1 DEF Become, Order

LEMMA OwnerFields ==
  ASSUME Order, NEW v \in Vectors, NEW n \in Nat, NEW cap \in Nat
  PROVE  /\ Owner(v, n, cap) \in Fields
         /\ Owner(v, n, cap).at = New(v) /\ Owner(v, n, cap).from = 0
         /\ Owner(v, n, cap).size = n /\ Owner(v, n, cap).cap = cap
BY NewBlock DEF Owner, Fields

LEMMA EmptyFields ==
  /\ Empty \in Fields /\ InOrder(Empty)
  /\ Empty.at = Null /\ Empty.from = 0 /\ Empty.size = 0 /\ Empty.cap = 0
  /\ \A h : Lies(Empty, h) /\ Stands(Empty, h, <<>>)
BY Bounds DEF Empty, Fields, InOrder, Lies, Stands, Null

LEMMA BuildOrder ==
  ASSUME Order, NEW v \in Vectors, Builds(v)
  PROVE  Order' /\ UNCHANGED why
<1>1. PICK h, n, cap, s, list :
        /\ Become(v, Owner(v, n, cap), Malloc(v, h, s), list)
        /\ n \in Nat /\ cap \in Nat /\ s \in Seq(Cell) /\ n <= Len(s) /\ n <= cap
        /\ cap <= 2 * MaxSize + 1 /\ (cap > 0 => list = SubSeq(s, 1, n))
        /\ h = heap \/ h = Free(heap, vec[v].at)
  BY DEF Builds
<1>. DEFINE r == Owner(v, n, cap)
<1>2. r \in Fields /\ r.at = New(v) /\ r.from = 0 /\ r.size = n /\ r.cap = cap
  BY <1>1, OwnerFields
<1>3. vec[v].at \in 0 .. MaxBlocks
  BY DEF Order, Fields
<1>4. h \in [1 .. MaxBlocks -> Blocks]
  BY <1>1, <1>3, Freed DEF Order
<1>5. \A b \in 1 .. MaxBlocks : h[b] = heap[b] \/ ~h[b].live
  BY <1>1, <1>3, Freed
<1>6. /\ Malloc(v, h, s) \in [1 .. MaxBlocks -> Blocks]
      /\ \A b \in 1 .. MaxBlocks :
           Malloc(v, h, s)[b] = IF b = New(v) THEN Held(s) ELSE h[b]
  <2>1. s \in Seq(Cell)
    BY <1>1
  <2>. QED BY <1>4, <2>1, Allocated
<1>7. SubSeq(s, 1, n) \in Seq(Cell)
  BY <1>1, FirstCells
<1>. DEFINE l == IF cap > 0 THEN list ELSE <<>>
<1>8. l \in Seq(Cell) /\ <<>> \in Seq(Cell)
  BY <1>1, <1>7
<1>9. Become(v, r, Malloc(v, h, s), l)
  BY <1>1, <1>2 DEF Become
<1>. HIDE DEF r, l
<1>10. /\ vec' \in [Vectors -> Fields] /\ holds' \in [Vectors -> Seq(Cell)] /\ heap' = Malloc(v, h, s)
       /\ vec'[v] = r /\ holds'[v] = (IF r.cap > 0 THEN l ELSE <<>>)
       /\ \A u \in Vectors \ {v} : vec'[u] = vec[u] /\ holds'[u] = holds[u]
       /\ r.size <= MaxSize /\ (r.at = Null => r = Empty) /\ UNCHANGED why
  BY <1>2, <1>8, <1>9, Becomes
<1>11. ASSUME NEW u \in Vectors \ {v}
       PROVE  InOrder(vec'[u]) /\ Lies(vec'[u], heap') /\ Stands(vec'[u], heap', holds'[u])
  <2>1. vec[u].at # Null => vec[u].at \in 1 .. MaxBlocks /\ vec[u].at # New(v)
    BY NewBlock, Bounds DEF Order, Fields, Null
  <2>2. vec[u].at # Null => heap'[vec[u].at] = heap[vec[u].at] \/ ~heap'[vec[u].at].live
    BY <1>5, <1>6, <1>10, <2>1
  <2>. QED BY <1>10, <2>2, OthersStay
<1>12. InOrder(r) /\ Lies(r, heap') /\ Stands(r, heap', holds'[v])
  <2>1. CASE New(v) = Null
    <3>1. r = Empty /\ r.cap = 0
      BY <1>2, <1>10, <2>1, EmptyFields
    <3>2. holds'[v] = <<>>
      BY <1>10, <3>1
    <3>. QED BY <3>1, <3>2, EmptyFields
  <2>2. CASE New(v) # Null
    <3>1. heap'[r.at] = Held(s)
      BY <1>2, <1>6, <1>10, <2>2, NewBlock
    <3>2. heap'[r.at].cells = s
      BY <3>1, HeldCells
    <3>3. InOrder(r)
      BY <1>1, <1>2, <1>10, <2>2, Bounds DEF InOrder
    <3>4. Lies(r, heap')
      BY <1>1, <1>2, <3>2 DEF Lies
    <3>5. cap > 0 => l = SubSeq(s, 1, n)
      BY <1>1 DEF l
    <3>6. Stands(r, heap', holds'[v])
      BY <1>2, <1>8, <1>10, <3>2, <3>5 DEF Stands
    <3>. QED BY <3>3, <3>4, <3>6
  <2>. QED BY <2>1, <2>2
<1>13. heap' \in [1 .. MaxBlocks -> Blocks]
  BY <1>6, <1>10
<1>. QED BY <1>10, <1>11, <1>12, <1>13 DEF Order

LEMMA ViewOrder ==
  ASSUME Order, NEW v \in Vectors, Views(v)
  PROVE  Order' /\ UNCHANGED why
<1>1. PICK r, list : /\ Become(v, r, heap, list) /\ InOrder(r) /\ Lies(r, heap)
                     /\ r.cap > 0 => heap[r.at].live /\ list = SubSeq(Block(r.at), 1, r.size)
  BY DEF Views
<1>2. r \in Fields /\ r.cap \in Nat /\ r.size \in Nat /\ r.from \in Nat
  BY <1>1 DEF InOrder, Fields
<1>. DEFINE l == IF r.cap > 0 THEN list ELSE <<>>
<1>3. r.cap > 0 => list \in Seq(Cell)
  <2>1. ASSUME r.cap > 0 PROVE list \in Seq(Cell)
    <3>1. r.at # Null /\ r.at \in 1 .. MaxBlocks /\ r.from = 0
      BY <1>1, <1>2, <2>1, EmptyFields, Bounds DEF InOrder, Fields, Null
    <3>2. Block(r.at) \in Seq(Cell)
      BY <3>1 DEF Order, Block, Blocks
    <3>3. r.size <= Len(Block(r.at))
      BY <1>1, <1>2, <2>1, <3>1 DEF Lies, Block
    <3>4. r.size \in 0 .. Len(Block(r.at))
      BY <1>2, <3>2, <3>3
    <3>5. list = SubSeq(Block(r.at), 1, r.size)
      BY <1>1, <2>1
    <3>. QED BY <3>2, <3>4, <3>5, FirstCells
  <2>. QED BY <2>1
<1>4. l \in Seq(Cell)
  BY <1>3
<1>5. Become(v, r, heap, l)
  BY <1>1 DEF Become
<1>. HIDE DEF l
<1>6. /\ vec' \in [Vectors -> Fields] /\ holds' \in [Vectors -> Seq(Cell)] /\ heap' = heap
      /\ vec'[v] = r /\ holds'[v] = (IF r.cap > 0 THEN l ELSE <<>>)
      /\ \A u \in Vectors \ {v} : vec'[u] = vec[u] /\ holds'[u] = holds[u]
      /\ UNCHANGED why
  BY <1>2, <1>4, <1>5, Becomes
<1>7. ASSUME NEW u \in Vectors \ {v}
      PROVE  InOrder(vec'[u]) /\ Lies(vec'[u], heap') /\ Stands(vec'[u], heap', holds'[u])
  BY <1>6, OthersStay
<1>8. Stands(r, heap', holds'[v])
  <2>1. <<>> \in Seq(Cell)
    OBVIOUS
  <2>2. r.cap > 0 => l = SubSeq(Block(r.at), 1, r.size)
    BY <1>1 DEF l
  <2>. QED BY <1>2, <1>4, <1>6, <2>1, <2>2 DEF Stands, Block
<1>. QED BY <1>1, <1>6, <1>7, <1>8 DEF Order

\* A block is written.
LEMMA Written ==
  ASSUME Order, NEW b \in 1 .. MaxBlocks, NEW cells \in Seq(Cell)
  PROVE  LET h == [heap EXCEPT ![b].cells = cells] IN
         /\ h \in [1 .. MaxBlocks -> Blocks]
         /\ h[b].cells = cells /\ (h[b].live <=> heap[b].live)
         /\ \A c \in 1 .. MaxBlocks : c # b => h[c] = heap[c]
<1>. DEFINE x == [heap[b] EXCEPT !.cells = cells]
<1>1. heap[b] \in Blocks
  BY DEF Order
<1>2. x \in Blocks /\ x.cells = cells /\ x.live = heap[b].live
  BY <1>1 DEF Blocks
<1>3. [heap EXCEPT ![b].cells = cells] = [heap EXCEPT ![b] = x]
  OBVIOUS
<1>. HIDE DEF x
<1>. QED BY <1>2, <1>3 DEF Order

\* A vector that becomes a borrower of what it had.
Lent(r) == [r EXCEPT !.cap = 0]

LEMMA GivesUp ==
  ASSUME NEW r, NEW h, InOrder(r), Lies(r, h)
  PROVE  LET s == Lent(r) IN
         /\ s \in Fields /\ InOrder(s) /\ Lies(s, h) /\ Stands(s, h, <<>>)
         /\ s.at = r.at /\ s.cap = 0 /\ s.size = r.size /\ s.from = r.from
<1>. DEFINE s == Lent(r)
<1>1. s \in Fields /\ s.at = r.at /\ s.cap = 0 /\ s.size = r.size /\ s.from = r.from
  BY DEF InOrder, Fields, Lent
<1>2. r = Empty => s = Empty
  BY DEF Empty, Lent
<1>3. <<>> \in Seq(Cell)
  OBVIOUS
<1>. HIDE DEF s
<1>4. InOrder(s) /\ Lies(s, h) /\ Stands(s, h, <<>>)
  BY <1>1, <1>2, <1>3, Bounds DEF InOrder, Lies, Stands
<1>. QED BY <1>1, <1>4 DEF s

LEMMA RewriteOrder ==
  ASSUME Order, NEW v \in Vectors, Rewrites(v)
  PROVE  Order' /\ UNCHANGED why
<1>. DEFINE b == vec[v].at
<1>1. PICK n, cells, list :
        LET r == [vec[v] EXCEPT !.size = n] IN
        /\ Rewrite(v, r, b, cells, list) /\ n \in Nat /\ InOrder(r)
        /\ b # Null /\ heap[b].live
        /\ cells \in Seq(Cell) /\ Len(Block(b)) <= Len(cells) /\ r.from + n <= Len(cells)
        /\ Owns(v) => list = SubSeq(cells, 1, n)
  BY DEF Rewrites
<1>. DEFINE r == [vec[v] EXCEPT !.size = n]
<1>2. /\ r \in Fields /\ r.at = b /\ r.cap = vec[v].cap /\ r.from = vec[v].from /\ r.size = n
      /\ n \in Nat /\ cells \in Seq(Cell) /\ InOrder(r) /\ r.from + n <= Len(cells)
  BY <1>1 DEF Order, Fields
<1>3. /\ vec' = [vec EXCEPT ![v] = r] /\ heap' = [heap EXCEPT ![b].cells = cells] /\ UNCHANGED why
      /\ holds' = [u \in Vectors |->
           IF u = v THEN IF Owns(v) THEN list ELSE <<>>
           ELSE IF u \in Owners(b) THEN SubSeq(cells, 1, Len(holds[u])) ELSE holds[u]]
  BY <1>1 DEF Rewrite
<1>4. b \in 1 .. MaxBlocks /\ heap[b].live /\ heap[b].cells \in Seq(Cell) /\ Len(heap[b].cells) <= Len(cells)
  BY <1>1, Bounds DEF Order, Fields, Null, Block, Blocks
<1>. HIDE DEF r, b
<1>5. /\ heap' \in [1 .. MaxBlocks -> Blocks] /\ heap'[b].cells = cells /\ heap'[b].live
      /\ \A c \in 1 .. MaxBlocks : c # b => heap'[c] = heap[c]
  BY <1>2, <1>3, <1>4, Written
<1>6. vec' \in [Vectors -> Fields] /\ vec'[v] = r /\ \A u \in Vectors \ {v} : vec'[u] = vec[u]
  BY <1>2, <1>3 DEF Order
<1>7. /\ holds'[v] \in Seq(Cell) /\ InOrder(r) /\ Lies(r, heap') /\ Stands(r, heap', holds'[v])
  <2>1. holds'[v] = IF Owns(v) THEN list ELSE <<>>
    BY <1>3
  <2>2. Owns(v) <=> r.cap > 0
    BY <1>2 DEF Owns
  <2>3. <<>> \in Seq(Cell)
    OBVIOUS
  <2>4. Lies(r, heap')
    BY <1>2, <1>5 DEF Lies
  <2>5. ASSUME Owns(v)
        PROVE  list = SubSeq(heap'[r.at].cells, 1, r.size) /\ list \in Seq(Cell)
    <3>1. list = SubSeq(cells, 1, n)
      BY <1>1, <2>5
    <3>2. n \in 0 .. Len(cells)
      BY <1>2 DEF Fields
    <3>3. list \in Seq(Cell)
      BY <1>2, <3>1, <3>2, FirstCells
    <3>. QED BY <1>2, <1>5, <3>1, <3>3
  <2>6. r.cap \in Nat
    BY <1>2 DEF Fields
  <2>7. CASE Owns(v)
    BY <1>2, <2>1, <2>2, <2>4, <2>5, <2>6, <2>7 DEF Stands
  <2>8. CASE ~Owns(v)
    BY <1>2, <2>1, <2>2, <2>3, <2>4, <2>6, <2>8 DEF Stands
  <2>. QED BY <2>7, <2>8
<1>8. ASSUME NEW u \in Vectors \ {v}
      PROVE  /\ holds'[u] \in Seq(Cell)
             /\ InOrder(vec'[u]) /\ Lies(vec'[u], heap') /\ Stands(vec'[u], heap', holds'[u])
  <2>1. InOrder(vec[u]) /\ Lies(vec[u], heap) /\ Stands(vec[u], heap, holds[u]) /\ vec[u] \in Fields
    BY DEF Order
  <2>2. CASE u \notin Owners(b) /\ vec[u].at # b
    <3>1. holds'[u] = holds[u] /\ holds[u] \in Seq(Cell)
      BY <1>3, <2>1, <2>2 DEF Stands
    <3>2. vec[u].at # Null => vec[u].at \in 1 .. MaxBlocks
      BY <2>1, Bounds DEF Fields, Null
    <3>. QED BY <1>5, <1>6, <2>2, <3>1, <3>2, OthersStay
  <2>3. CASE u \notin Owners(b) /\ vec[u].at = b
    <3>1. holds'[u] = holds[u] /\ holds[u] \in Seq(Cell)
      BY <1>3, <2>1, <2>3 DEF Stands
    <3>2. vec[u].cap \in Nat /\ ~(vec[u].cap > 0)
      BY <2>1, <2>3 DEF Owners, Owns, Fields
    <3>3. Lies(vec[u], heap')
      BY <1>4, <1>5, <2>1, <2>3 DEF Lies, Fields
    <3>. QED BY <1>6, <2>1, <3>1, <3>2, <3>3 DEF Stands
  <2>4. CASE u \in Owners(b)
    <3>1. vec[u].at = b /\ vec[u].cap > 0 /\ holds'[u] = SubSeq(cells, 1, Len(holds[u]))
      BY <1>3, <2>4 DEF Owners, Owns
    <3>2. vec[u].from = 0 /\ vec[u].size \in Nat /\ vec[u].size <= Len(heap[b].cells)
      BY <1>4, <2>1, <3>1, Bounds DEF InOrder, Lies, Fields, Null
    <3>3. holds[u] = SubSeq(heap[b].cells, 1, vec[u].size)
      BY <1>4, <2>1, <3>1 DEF Stands
    <3>4. Len(holds[u]) = vec[u].size
      BY <1>4, <3>2, <3>3, FirstCells
    <3>5. vec[u].size \in 0 .. Len(cells)
      BY <1>2, <1>4, <3>2
    <3>6. holds'[u] \in Seq(Cell)
      BY <1>2, <3>1, <3>4, <3>5, FirstCells
    <3>7. Lies(vec[u], heap')
      BY <1>2, <1>5, <3>1, <3>2, <3>5 DEF Lies
    <3>. QED BY <1>5, <1>6, <2>1, <3>1, <3>4, <3>6, <3>7 DEF Stands, InOrder, Fields
  <2>. QED BY <2>2, <2>3, <2>4
<1>9. holds' \in [Vectors -> Seq(Cell)]
  <2>1. \A u \in Vectors : holds'[u] \in Seq(Cell)
    BY <1>7, <1>8
  <2>. QED BY <1>3, <2>1
<1>. QED BY <1>3, <1>5, <1>6, <1>7, <1>8, <1>9 DEF Order

LEMMA DropOrder ==
  ASSUME Order, NEW v \in Vectors, Drops(v)
  PROVE  Order' /\ UNCHANGED why
<1>1. PICK h : h \in {heap, Free(heap, vec[v].at)} /\ Become(v, Empty, h, <<>>)
  BY DEF Drops
<1>2. vec[v].at \in 0 .. MaxBlocks /\ <<>> \in Seq(Cell)
  BY DEF Order, Fields
<1>3. /\ h \in [1 .. MaxBlocks -> Blocks]
      /\ \A b \in 1 .. MaxBlocks : h[b] = heap[b] \/ ~h[b].live
  BY <1>1, <1>2, Freed DEF Order
<1>4. /\ vec' \in [Vectors -> Fields] /\ holds' \in [Vectors -> Seq(Cell)] /\ heap' = h
      /\ vec'[v] = Empty /\ holds'[v] = <<>>
      /\ \A u \in Vectors \ {v} : vec'[u] = vec[u] /\ holds'[u] = holds[u]
      /\ UNCHANGED why
  BY <1>1, <1>2, EmptyFields, Becomes
<1>5. ASSUME NEW u \in Vectors \ {v}
      PROVE  InOrder(vec'[u]) /\ Lies(vec'[u], heap') /\ Stands(vec'[u], heap', holds'[u])
  <2>1. vec[u].at # Null => vec[u].at \in 1 .. MaxBlocks
    BY Bounds DEF Order, Fields, Null
  <2>. QED BY <1>3, <1>4, <2>1, OthersStay
<1>. QED BY <1>3, <1>4, <1>5, EmptyFields DEF Order

LEMMA MoveOrder ==
  ASSUME Order, NEW v \in Vectors, NEW w \in Vectors, v # w, Move(v, w)
  PROVE  Order' /\ UNCHANGED why
<1>. DEFINE h == IF Owns(v) THEN Free(heap, vec[v].at) ELSE heap
<1>1. /\ v # w /\ vec' = [vec EXCEPT ![v] = vec[w], ![w] = Empty] /\ heap' = h
      /\ holds' = [holds EXCEPT ![v] = holds[w], ![w] = <<>>] /\ UNCHANGED why /\ ~Gone(w)
  BY DEF Move, Usable
<1>2. vec[v].at \in 0 .. MaxBlocks /\ <<>> \in Seq(Cell)
  BY DEF Order, Fields
<1>3. /\ h \in [1 .. MaxBlocks -> Blocks]
      /\ \A b \in 1 .. MaxBlocks : h[b] = heap[b] \/ ~h[b].live
  BY <1>2, Freed DEF Order
<1>. HIDE DEF h
<1>4. /\ vec' \in [Vectors -> Fields] /\ holds' \in [Vectors -> Seq(Cell)]
      /\ vec'[v] = vec[w] /\ holds'[v] = holds[w] /\ vec'[w] = Empty /\ holds'[w] = <<>>
      /\ \A u \in Vectors \ {v, w} : vec'[u] = vec[u] /\ holds'[u] = holds[u]
  BY <1>1, <1>2, EmptyFields DEF Order
<1>5. ASSUME NEW u \in Vectors
      PROVE  vec[u].at # Null => heap'[vec[u].at] = heap[vec[u].at] \/ ~heap'[vec[u].at].live
  <2>1. vec[u].at # Null => vec[u].at \in 1 .. MaxBlocks
    BY Bounds DEF Order, Fields, Null
  <2>. QED BY <1>1, <1>3, <2>1
<1>6. ASSUME NEW u \in Vectors \ {v, w}
      PROVE  InOrder(vec'[u]) /\ Lies(vec'[u], heap') /\ Stands(vec'[u], heap', holds'[u])
  BY <1>4, <1>5, OthersStay
<1>7. InOrder(vec'[v]) /\ Lies(vec'[v], heap') /\ Stands(vec'[v], heap', holds'[v])
  <2>1. InOrder(vec[w]) /\ Lies(vec[w], heap) /\ Stands(vec[w], heap, holds[w])
    BY DEF Order
  <2>2. vec[w].cap > 0 => vec[w].at # Null
    BY <2>1, EmptyFields DEF InOrder
  <2>. QED BY <1>4, <1>5, <2>1, <2>2 DEF Lies, Stands
<1>. QED BY <1>1, <1>3, <1>4, <1>6, <1>7, EmptyFields DEF Order

\* A column takes or borrows the container, and the temporary keeps the rest of its fields.
HandsOver(c, w, r, list) ==
  /\ ~Gone(w) /\ why = "none"
  /\ vec' = [vec EXCEPT ![c] = r, ![w].cap = 0]
  /\ r \in {vec[w], Lent(vec[w])} /\ list = (IF r.cap > 0 THEN holds[w] ELSE <<>>)
  /\ holds' = [holds EXCEPT ![c] = list, ![w] = <<>>]
  /\ UNCHANGED <<heap, why>>

LEMMA HandOver ==
  ASSUME Order, NEW c \in Vectors, NEW w \in Vectors
  PROVE  /\ InitFromMove(c, w) => HandsOver(c, w, vec[w], holds[w])
         /\ InitFromRef(c, w) => HandsOver(c, w, Lent(vec[w]), <<>>)
<1>1. Stands(vec[w], heap, holds[w]) /\ vec[w] \in Fields
  BY DEF Order
<1>2. holds[w] = (IF vec[w].cap > 0 THEN holds[w] ELSE <<>>)
  BY <1>1 DEF Stands, Fields
<1>3. ASSUME InitFromMove(c, w) PROVE HandsOver(c, w, vec[w], holds[w])
  BY <1>2, <1>3 DEF InitFromMove, HandsOver, Usable
<1>4. ASSUME InitFromRef(c, w)
      PROVE  HandsOver(c, w, Lent(vec[w]), <<>>)
  <2>1. Lent(vec[w]).cap = 0
    BY <1>1 DEF Fields, Lent
  <2>2. ~Gone(w) /\ why = "none" /\ UNCHANGED <<heap, why>>
    BY <1>4 DEF InitFromRef, Usable
  <2>3. vec' = [vec EXCEPT ![c] = Lent(vec[w]), ![w].cap = 0]
    BY <1>4 DEF InitFromRef, Lent
  <2>4. holds' = [holds EXCEPT ![c] = <<>>, ![w] = <<>>]
    BY <1>4 DEF InitFromRef
  <2>. QED BY <2>1, <2>2, <2>3, <2>4 DEF HandsOver
<1>. QED BY <1>3, <1>4

\* The fields after it: also when the column and the vector are one.
LEMMA HandedOver ==
  ASSUME Order, NEW c \in Vectors, NEW w \in Vectors, NEW r, NEW list, HandsOver(c, w, r, list)
  PROVE  /\ vec' \in [Vectors -> Fields] /\ holds' \in [Vectors -> Seq(Cell)]
         /\ \A u \in Vectors \ {c, w} : vec'[u] = vec[u] /\ holds'[u] = holds[u]
         /\ vec'[w] = Lent(vec[w]) /\ holds'[w] = <<>>
         /\ c # w => vec'[c] = r /\ holds'[c] = list
         /\ r \in Fields /\ r.at = vec[w].at /\ r.size = vec[w].size /\ r.from = vec[w].from
         /\ r.cap \in {0, vec[w].cap} /\ list \in Seq(Cell) /\ UNCHANGED <<heap, why>>
<1>. DEFINE s == Lent(vec[w])
<1>1. InOrder(vec[w]) /\ Lies(vec[w], heap) /\ vec[w] \in Fields
  BY DEF Order
<1>2. s \in Fields /\ s.at = vec[w].at /\ s.cap = 0 /\ s.size = vec[w].size /\ s.from = vec[w].from
  BY <1>1, GivesUp
<1>3. r \in {vec[w], s} /\ list = (IF r.cap > 0 THEN holds[w] ELSE <<>>)
  BY DEF HandsOver
<1>4. holds[w] \in Seq(Cell) /\ <<>> \in Seq(Cell) /\ holds' = [holds EXCEPT ![c] = list, ![w] = <<>>]
  BY DEF Order, HandsOver
<1>5. CASE c # w
  <2>1. vec' = [vec EXCEPT ![c] = r, ![w] = s]
    <3>1. vec' = [vec EXCEPT ![c] = r, ![w].cap = 0] /\ vec \in [Vectors -> Fields]
      BY DEF HandsOver, Order
    <3>2. [vec[w] EXCEPT !.cap = 0] = s
      BY DEF Lent
    <3>. HIDE DEF s
    <3>. QED BY <1>5, <3>1, <3>2
  <2>2. vec \in [Vectors -> Fields] /\ holds \in [Vectors -> Seq(Cell)] /\ UNCHANGED <<heap, why>>
    BY DEF Order, HandsOver
  <2>. HIDE DEF s
  <2>3. r \in Fields /\ r.at = vec[w].at /\ r.size = vec[w].size /\ r.from = vec[w].from
        /\ r.cap \in {0, vec[w].cap} /\ list \in Seq(Cell)
    BY <1>1, <1>2, <1>3, <1>4
  <2>. QED BY <1>2, <1>4, <1>5, <2>1, <2>2, <2>3 DEF s
<1>6. CASE c = w
  <2>1. [r EXCEPT !.cap = 0] = s
    BY <1>1, <1>3 DEF Lent, Fields
  <2>2. vec' = [vec EXCEPT ![w] = s]
    <3>1. vec' = [vec EXCEPT ![w] = r, ![w].cap = 0] /\ vec \in [Vectors -> Fields]
      BY <1>6 DEF HandsOver, Order
    <3>. HIDE DEF s
    <3>. QED BY <2>1, <3>1
  <2>3. vec \in [Vectors -> Fields] /\ holds \in [Vectors -> Seq(Cell)] /\ UNCHANGED <<heap, why>>
    BY DEF Order, HandsOver
  <2>. HIDE DEF s
  <2>4. r \in Fields /\ r.at = vec[w].at /\ r.size = vec[w].size /\ r.from = vec[w].from
        /\ r.cap \in {0, vec[w].cap} /\ list \in Seq(Cell)
    BY <1>1, <1>2, <1>3, <1>4
  <2>. QED BY <1>2, <1>4, <1>6, <2>2, <2>3, <2>4 DEF s
<1>. QED BY <1>5, <1>6

LEMMA HandOverOrder ==
  ASSUME Order, NEW c \in Vectors, NEW w \in Vectors, NEW r, NEW list, HandsOver(c, w, r, list)
  PROVE  Order' /\ UNCHANGED why
<1>1. InOrder(vec[w]) /\ Lies(vec[w], heap) /\ Stands(vec[w], heap, holds[w])
  BY DEF Order
<1>2. InOrder(vec'[w]) /\ Lies(vec'[w], heap) /\ Stands(vec'[w], heap, holds'[w])
  BY <1>1, GivesUp, HandedOver
<1>3. c # w => InOrder(vec'[c]) /\ Lies(vec'[c], heap) /\ Stands(vec'[c], heap, holds'[c])
  <2>1. r \in {vec[w], Lent(vec[w])} /\ list = (IF r.cap > 0 THEN holds[w] ELSE <<>>)
    BY DEF HandsOver
  <2>2. CASE r = vec[w]
    <3>1. vec[w].cap \in Nat
      BY <1>1 DEF InOrder, Fields
    <3>2. list = holds[w]
      BY <1>1, <2>1, <2>2, <3>1 DEF Stands
    <3>. QED BY <1>1, <2>2, <3>2, HandedOver
  <2>3. CASE r = Lent(vec[w])
    <3>1. r.cap = 0 /\ InOrder(r) /\ Lies(r, heap) /\ Stands(r, heap, <<>>)
      BY <1>1, <2>3, GivesUp
    <3>2. list = <<>>
      BY <2>1, <3>1
    <3>. QED BY <3>1, <3>2, HandedOver
  <2>. QED BY <2>1, <2>2, <2>3
<1>4. ASSUME NEW u \in Vectors \ {c, w}
      PROVE  InOrder(vec'[u]) /\ Lies(vec'[u], heap) /\ Stands(vec'[u], heap, holds'[u])
  <2>1. vec'[u] = vec[u] /\ holds'[u] = holds[u]
    BY HandedOver
  <2>. QED BY <2>1 DEF Order
<1>5. UNCHANGED <<heap, why>> /\ heap \in [1 .. MaxBlocks -> Blocks]
  BY DEF HandsOver, Order
<1>. QED BY <1>2, <1>3, <1>4, <1>5, HandedOver DEF Order

\* A program that met undefined behaviour changes nothing any more.
LEMMA StopOrder ==
  ASSUME Order, Stops
  PROVE  Order' /\ UndefinedForCause' /\ UNCHANGED <<vec, heap, holds>>
<1>1. PICK c : Undefined(c) /\ Cause(c)
  BY DEF Stops
<1>2. why' = c /\ vec' = vec /\ heap' = heap /\ holds' = holds
  BY <1>1 DEF Undefined
<1>3. Order'
  BY <1>2 DEF Order
<1>4. (RoomIsThere' <=> RoomIsThere) /\ (OwnersAlive' <=> OwnersAlive)
  BY <1>2 DEF RoomIsThere, OwnersAlive, Owns, Gone, Block
<1>5. UndefinedForCause'
  BY <1>1, <1>2, <1>4 DEF Cause, UndefinedForCause, EmptyBorrower, Owns
<1>. QED BY <1>2, <1>3, <1>5

-----------------------------------------------------------------------------
(* Every operation is a step of one of these kinds.                          *)

HandsOn(c, w) ==
  /\ Owns(c) => LeakExcused
  /\ \E r, list : HandsOver(c, w, r, list) /\ (r.cap = vec[w].cap \/ (Owns(w) => LeakExcused))

Kinds ==
  \/ \E v \in Vectors : Builds(v) \/ Views(v) \/ Rewrites(v) \/ Drops(v)
  \/ \E v, w \in Vectors : (v # w /\ Move(v, w)) \/ HandsOn(v, w)
  \/ Stops

LEMMA BuildsIf ==
  ASSUME NEW v \in Vectors, NEW h, NEW n \in Nat, NEW s \in Seq(Cell), NEW list,
         Become(v, Owner(v, n, Len(s)), Malloc(v, h, s), list),
         n <= Len(s), Len(s) <= 2 * MaxSize + 1, list = SubSeq(s, 1, n),
         \/ h = heap /\ (Owns(v) => LeakExcused)
         \/ h = Free(heap, vec[v].at) /\ (vec[v].at # Null /\ ~Owns(v) => LenderExcused)
  PROVE  Builds(v)
<1>. DEFINE cap == Len(s)
<1>1. /\ Become(v, Owner(v, n, cap), Malloc(v, h, s), list)
      /\ cap \in Nat /\ n <= cap /\ cap <= 2 * MaxSize + 1 /\ cap <= Len(s) /\ (Len(s) > 0 => cap > 0)
  OBVIOUS
<1>. HIDE DEF cap
<1>. QED BY <1>1 DEF Builds

LEMMA RewritesIf ==
  ASSUME NEW v \in Vectors, NEW n \in Nat, NEW r, r = [vec[v] EXCEPT !.size = n],
         NEW cells \in Seq(Cell), NEW list, Rewrite(v, r, vec[v].at, cells, list), InOrder(r),
         vec[v].at # Null, heap[vec[v].at].live, r.from + n <= Len(cells),
         Len(Block(vec[v].at)) <= Len(cells), Owns(v) \/ Len(cells) = Len(Block(vec[v].at)),
         Owns(v) => list = SubSeq(cells, 1, n)
  PROVE  Rewrites(v)
BY Zenon DEF Rewrites

\* A container that grows.
LEMMA GrowStep ==
  ASSUME Order, NEW v \in Vectors, NEW r, r.at = vec[v].at, r.from = vec[v].from,
         NEW sz, NEW cells \in Seq(Cell), NEW n \in Nat, NEW list, Grow(v, r, sz, cells, n, list),
         n <= MaxSize => Len(cells) <= 2 * MaxSize + 1,
         ~(r.size > Len(cells)) /\ ~(cells = <<>> /\ r.at # Null) =>
           n <= Len(cells) /\ list = SubSeq(cells, 1, n),
         Copies(r, sz) => ~Owns(v),
         r.size > Len(cells) => vec[v].size > 0 /\ ~Owns(v),
         cells = <<>> => ~Copies(r, sz) /\ ~Owns(v),
         vec[v].at # Null /\ ~Copies(r, sz) /\ ~Owns(v) => LenderExcused
  PROVE  Builds(v) \/ Drops(v) \/ Stops
<1>1. InOrder(vec[v]) /\ vec[v] \in Fields
  BY DEF Order
<1>2. CASE ~(~Copies(r, sz) /\ r.from # 0) /\ r.size > Len(cells)
  <2>1. Undefined("too_narrow")
    BY <1>2 DEF Grow
  <2>2. Cause("too_narrow")
    BY <1>2 DEF Cause
  <2>. QED BY <2>1, <2>2 DEF Stops
<1>3. CASE ~Copies(r, sz) /\ r.from # 0
  <2>1. Undefined("inside_a_block")
    BY <1>3 DEF Grow
  <2>2. ~Owns(v) /\ vec[v].from > 0
    BY <1>1, <1>3 DEF InOrder, Fields, Owns
  <2>3. Cause("inside_a_block")
    BY <2>2 DEF Cause
  <2>. QED BY <2>1, <2>3 DEF Stops
<1>5. CASE ~(r.size > Len(cells)) /\ ~(~Copies(r, sz) /\ r.from # 0) /\ cells = <<>> /\ r.at # Null
  <2>1. Become(v, Empty, Free(heap, vec[v].at), <<>>)
    BY <1>5 DEF Grow
  <2>. QED BY <1>5, <2>1 DEF Drops
<1>4. CASE ~(r.size > Len(cells)) /\ ~(~Copies(r, sz) /\ r.from # 0) /\ ~(cells = <<>> /\ r.at # Null)
  <2>. DEFINE h == IF Copies(r, sz) THEN heap ELSE Free(heap, vec[v].at)
  <2>1. Become(v, Owner(v, n, Len(cells)), Malloc(v, h, cells), list)
    BY <1>4 DEF Grow
  <2>2. n <= MaxSize
    BY <2>1, OwnerFields DEF Become
  <2>3. \/ h = heap /\ (Owns(v) => LeakExcused)
        \/ h = Free(heap, vec[v].at) /\ (vec[v].at # Null /\ ~Owns(v) => LenderExcused)
    OBVIOUS
  <2>. HIDE DEF h
  <2>4. Len(cells) \in Nat /\ n <= Len(cells) /\ list = SubSeq(cells, 1, n)
    BY <1>4
  <2>5. Len(cells) <= 2 * MaxSize + 1
    BY <2>2
  <2>. QED BY <2>1, <2>3, <2>4, <2>5, BuildsIf
<1>. QED BY <1>2, <1>3, <1>4, <1>5

\* A container that is replaced, the old one freed.
LEMMA ReplaceStep ==
  ASSUME Order, NEW v \in Vectors, NEW cells \in Seq(Cell), NEW n \in Nat, NEW list,
         Replace(v, n, cells, list), n = Len(cells), list = cells,
         vec[v].at # Null /\ ~Owns(v) => LenderExcused
  PROVE  Builds(v) \/ Stops
<1>1. InOrder(vec[v]) /\ vec[v] \in Fields
  BY DEF Order
<1>2. CASE vec[v].from # 0
  <2>1. Undefined("inside_a_block")
    BY <1>2 DEF Replace
  <2>2. ~Owns(v) /\ vec[v].from > 0
    BY <1>1, <1>2 DEF InOrder, Fields, Owns
  <2>3. Cause("inside_a_block")
    BY <2>2 DEF Cause
  <2>. QED BY <2>1, <2>3 DEF Stops
<1>3. CASE vec[v].from = 0
  <2>. DEFINE h == Free(heap, vec[v].at)
  <2>1. Become(v, Owner(v, n, Len(cells)), Malloc(v, h, cells), list)
    BY <1>3 DEF Replace
  <2>2. n <= MaxSize
    BY <2>1, OwnerFields DEF Become
  <2>3. list = SubSeq(cells, 1, n)
    BY FirstCellsAre
  <2>4. Len(cells) <= 2 * MaxSize + 1
    BY <2>2, Bounds
  <2>5. h = Free(heap, vec[v].at)
    OBVIOUS
  <2>. HIDE DEF h
  <2>6. Len(cells) \in Nat /\ n <= Len(cells)
    OBVIOUS
  <2>. QED BY <2>1, <2>3, <2>4, <2>5, <2>6, BuildsIf
<1>. QED BY <1>2, <1>3

\* A cell that is written.
LEMMA WriteStep ==
  ASSUME Order, NEW v \in Vectors, ~Gone(v), vec[v].at # Null, NEW n \in Nat, NEW i \in Nat \ {0},
         NEW x \in Data, NEW list, Write(v, [vec[v] EXCEPT !.size = n], i, x, list),
         i <= n, n <= vec[v].size \/ n = i, n > 0,
         vec[v].from + i > Len(Block(vec[v].at)) => ~RoomIsThere \/ EmptyBorrower(v),
         n <= MaxSize => InOrder([vec[v] EXCEPT !.size = n]),
         Owns(v) /\ i <= Len(Block(vec[v].at)) =>
           list = SubSeq([Block(vec[v].at) EXCEPT ![i] = x], 1, n)
  PROVE  Rewrites(v) \/ Stops
<1>. DEFINE r == [vec[v] EXCEPT !.size = n]
            b == Block(vec[v].at)
<1>1. InOrder(vec[v]) /\ vec[v] \in Fields /\ Lies(vec[v], heap) /\ heap[vec[v].at].live
  BY DEF Order, Gone
<1>2. r.from = vec[v].from /\ r.at = vec[v].at /\ r.size = n /\ r.cap = vec[v].cap
  BY <1>1 DEF Fields
<1>3. b \in Seq(Cell) /\ vec[v].from \in Nat /\ vec[v].size \in Nat /\ vec[v].from + vec[v].size <= Len(b)
  BY <1>1, Bounds DEF Order, Fields, Blocks, Block, Null, Lies
<1>4. CASE vec[v].from + i > Len(b)
  <2>1. Undefined("past_the_end")
    BY <1>2, <1>4 DEF Write
  <2>2. Cause("past_the_end")
    BY <1>4 DEF Cause
  <2>. QED BY <2>1, <2>2 DEF Stops
<1>5. CASE ~(vec[v].from + i > Len(b))
  <2>. DEFINE k == vec[v].from + i
  <2>0. vec[v].from \in Nat /\ i \in Nat /\ i >= 1 /\ Len(b) \in Nat
    BY <1>3
  <2>1. k \in 1 .. Len(b)
    BY <2>0, <1>5
  <2>2. Owns(v) => k = i /\ i <= Len(b)
    BY <1>1, <2>0, <1>5 DEF InOrder, Owns
  <2>3. r.from + n <= Len(b)
    BY <1>2, <1>3, <1>5
  <2>4. Rewrite(v, r, vec[v].at, [b EXCEPT ![k] = x], list)
    BY <1>2, <1>5 DEF Write
  <2>. HIDE DEF k
  <2>5. n <= MaxSize
    BY <1>2, <2>4 DEF Rewrite
  <2>6. InOrder(r)
    BY <2>5
  <2>7. Owns(v) => list = SubSeq([b EXCEPT ![k] = x], 1, n)
    BY <2>2
  <2>. HIDE DEF b
  <2>8. [b EXCEPT ![k] = x] \in Seq(Cell) /\ Len([b EXCEPT ![k] = x]) = Len(b)
    BY <1>3, <2>1 DEF Cell
  <2>9. Len(Block(vec[v].at)) = Len(b)
    BY DEF b
  <2>. HIDE DEF r
  <2>10. r = [vec[v] EXCEPT !.size = n]
    BY DEF r
  <2>. DEFINE cells == [b EXCEPT ![k] = x]
  <2>11. /\ cells \in Seq(Cell) /\ Rewrite(v, r, vec[v].at, cells, list)
         /\ r.from + n <= Len(cells) /\ Len(Block(vec[v].at)) = Len(cells)
         /\ Owns(v) => list = SubSeq(cells, 1, n)
    BY <2>3, <2>4, <2>7, <2>8, <2>9
  <2>. HIDE DEF cells
  <2>12. Len(Block(vec[v].at)) <= Len(cells)
    BY <2>11
  <2>. QED BY <1>1, <2>6, <2>10, <2>11, <2>12, RewritesIf
<1>. QED BY <1>4, <1>5

\* Constructors.
LEMMA MakeStep ==
  ASSUME Order, NEW v \in Vectors, NEW n \in Nat, Make(v, n)
  PROVE  Builds(v)
<1>. DEFINE s == Filled(<<>>, n)
<1>1. s \in Seq(Cell) /\ Len(s) = n
  <2>. DEFINE e == <<>>
  <2>1. e \in Seq(Cell) /\ Len(e) = 0
    OBVIOUS
  <2>. HIDE DEF e
  <2>2. Filled(e, n) \in Seq(Cell) /\ Len(Filled(e, n)) = (IF Len(e) <= n THEN n ELSE Len(e))
    BY <2>1, FilledCells
  <2>3. Filled(e, n) = s
    BY DEF e
  <2>. QED BY <2>1, <2>2, <2>3
<1>2. Become(v, Owner(v, n, Len(s)), Malloc(v, heap, s), s) /\ ~Owns(v)
  <2>1. Become(v, Owner(v, n, n), Malloc(v, heap, s), s) /\ vec[v] = Empty
    BY DEF Make, Fresh
  <2>. QED BY <1>1, <2>1, EmptyFields DEF Owns
<1>. HIDE DEF s
<1>3. SubSeq(s, 1, n) = s
  BY <1>1, FirstCellsAre
<1>4. n <= MaxSize
  BY <1>1, <1>2, OwnerFields DEF Become
<1>5. Len(s) <= 2 * MaxSize + 1 /\ n <= Len(s)
  BY <1>1, <1>4, Bounds
<1>. QED BY <1>1, <1>2, <1>3, <1>5, BuildsIf

LEMMA MakeListStep ==
  ASSUME Order, NEW v \in Vectors, NEW s \in Lists, MakeList(v, s)
  PROVE  Builds(v)
<1>1. s \in Seq(Cell) /\ Len(s) \in Nat
  <2>1. PICK m \in 1 .. 2 : s \in [1 .. m -> Data]
    BY DEF Lists
  <2>2. s \in [1 .. m -> Cell] /\ m \in Nat
    BY <2>1 DEF Cell
  <2>. QED BY <2>2
<1>. DEFINE n == Len(s)
<1>2. Become(v, Owner(v, n, Len(s)), Malloc(v, heap, s), s) /\ ~Owns(v)
  <2>1. Become(v, Owner(v, n, n), Malloc(v, heap, s), s) /\ vec[v] = Empty
    BY DEF MakeList, Fresh
  <2>. QED BY <2>1, EmptyFields DEF Owns
<1>3. SubSeq(s, 1, n) = s
  BY <1>1, FirstCellsAre
<1>4. n <= MaxSize
  BY <1>1, <1>2, OwnerFields DEF Become
<1>5. Len(s) <= 2 * MaxSize + 1 /\ n <= Len(s) /\ n \in Nat
  BY <1>1, <1>4, Bounds
<1>. HIDE DEF n
<1>. QED BY <1>1, <1>2, <1>3, <1>5, BuildsIf

\* A part of a list.
LEMMA PartOf ==
  ASSUME NEW s \in Seq(Cell), NEW a \in Nat, NEW b \in Nat, a < b, b <= Len(s)
  PROVE  SubSeq(s, a + 1, b) \in Seq(Cell) /\ Len(SubSeq(s, a + 1, b)) = b - a
<1>. DEFINE m == a + 1
<1>1. m \in Int /\ b \in Int /\ m <= b /\ b - m + 1 = b - a
  OBVIOUS
<1>2. \A k \in m .. b : s[k] \in Cell
  OBVIOUS
<1>. HIDE DEF m
<1>3. SubSeq(s, m, b) \in Seq(Cell) /\ Len(SubSeq(s, m, b)) = b - m + 1
  BY <1>1, <1>2, SubSeqProperties
<1>. QED BY <1>1, <1>3 DEF m

LEMMA SubvecDeepStep ==
  ASSUME Order, NEW v \in Vectors, NEW w \in Vectors,
         NEW a \in 0 .. (vec[w].size - 1), NEW b \in (a + 1) .. vec[w].size, SubvecDeep(v, w, a, b)
  PROVE  Builds(v)
<1>. DEFINE s == SubSeq(Cells(w), a + 1, b)
            n == Len(s)
<1>1. Cells(w) \in Seq(Cell) /\ Len(Cells(w)) = vec[w].size /\ vec[w].size \in Nat /\ Seen(w) = Cells(w)
  BY SeenShown DEF SubvecDeep, Usable
<1>2. s \in Seq(Cell) /\ n = b - a /\ n \in Nat
  <2>1. a \in Nat /\ b \in Nat /\ a < b /\ b <= Len(Cells(w))
    BY <1>1
  <2>2. b - a \in Nat
    BY <2>1
  <2>. QED BY <1>1, <2>1, <2>2, PartOf
<1>3. Become(v, Owner(v, n, Len(s)), Malloc(v, heap, s), s) /\ ~Owns(v)
  <2>1. Become(v, Owner(v, b - a, b - a), Malloc(v, heap, s), s) /\ vec[v] = Empty
    BY <1>1 DEF SubvecDeep, Fresh
  <2>. QED BY <1>2, <2>1, EmptyFields DEF Owns
<1>. HIDE DEF s
<1>4. SubSeq(s, 1, n) = s
  BY <1>2, FirstCellsAre
<1>5. n <= MaxSize
  BY <1>2, <1>3, OwnerFields DEF Become
<1>6. Len(s) <= 2 * MaxSize + 1 /\ n <= Len(s)
  BY <1>2, <1>5, Bounds
<1>. HIDE DEF n
<1>. QED BY <1>2, <1>3, <1>4, <1>6, BuildsIf

LEMMA MaterializeStep ==
  ASSUME Order, NEW v \in Vectors, NEW rows \in RowLists, Materialize(v, rows)
  PROVE  Builds(v)
<1>. DEFINE s == [k \in DOMAIN rows |-> Cells(v)[rows[k]]]
            n == Len(s)
<1>1. /\ Cells(v) \in Seq(Cell) /\ Len(Cells(v)) = vec[v].size /\ vec[v].size \in Nat
      /\ Seen(v) = Cells(v)
  BY SeenShown DEF Materialize, Usable
<1>2. PICK m \in 1 .. 2 : rows \in [1 .. m -> 1 .. 2]
  BY DEF RowLists
<1>3. \A k \in 1 .. m : rows[k] \in 1 .. Len(Cells(v))
  BY <1>1, <1>2 DEF Materialize
<1>4. s \in Seq(Cell) /\ n \in Nat
  <2>1. \A k \in 1 .. m : Cells(v)[rows[k]] \in Cell
    BY <1>1, <1>3
  <2>2. s = [k \in 1 .. m |-> Cells(v)[rows[k]]] /\ m \in Nat
    BY <1>2
  <2>. QED BY <2>1, <2>2
<1>5. Become(v, Owner(v, n, Len(s)), Malloc(v, heap, s), s)
  BY <1>1 DEF Materialize
<1>6. Owns(v) => LeakExcused
  BY DEF LeakExcused, Forgets
<1>. HIDE DEF s
<1>7. SubSeq(s, 1, n) = s
  BY <1>4, FirstCellsAre
<1>8. n <= MaxSize
  BY <1>4, <1>5, OwnerFields DEF Become
<1>9. Len(s) <= 2 * MaxSize + 1 /\ n <= Len(s)
  BY <1>4, <1>8, Bounds
<1>. HIDE DEF n
<1>. QED BY <1>4, <1>5, <1>6, <1>7, <1>9, BuildsIf

\* An assignment from another kind of container.
LEMMA AssignOtherStep ==
  ASSUME Order, NEW v \in Vectors, NEW w \in Vectors, AssignOther(v, w)
  PROVE  Builds(v) \/ Stops
<1>1. CASE Owns(v) /\ vec[w].at = vec[v].at /\ vec[w].size > 0
  <2>1. Undefined("source_is_target")
    BY <1>1 DEF AssignOther
  <2>2. Cause("source_is_target")
    BY DEF Cause
  <2>. QED BY <2>1, <2>2 DEF Stops
<1>2. CASE ~(Owns(v) /\ vec[w].at = vec[v].at /\ vec[w].size > 0)
  <2>. DEFINE s == Cells(w)
              n == Len(s)
              h == IF Owns(v) THEN Free(heap, vec[v].at) ELSE heap
  <2>1. s \in Seq(Cell) /\ n = vec[w].size /\ n \in Nat /\ Seen(w) = s
    BY SeenShown DEF AssignOther, Usable
  <2>2. Become(v, Owner(v, n, Len(s)), Malloc(v, h, s), s)
    BY <1>2, <2>1 DEF AssignOther
  <2>3. \/ h = heap /\ (Owns(v) => LeakExcused)
        \/ h = Free(heap, vec[v].at) /\ (vec[v].at # Null /\ ~Owns(v) => LenderExcused)
    OBVIOUS
  <2>. HIDE DEF s, h
  <2>4. SubSeq(s, 1, n) = s
    BY <2>1, FirstCellsAre
  <2>5. n <= MaxSize
    BY <2>1, <2>2, OwnerFields DEF Become
  <2>6. Len(s) <= 2 * MaxSize + 1 /\ n <= Len(s)
    BY <2>1, <2>5, Bounds
  <2>. HIDE DEF n
  <2>. QED BY <2>1, <2>2, <2>3, <2>4, <2>6, BuildsIf
<1>. QED BY <1>1, <1>2

\* Copies: of an owner, cells for its size and its capacity; of a borrower, its fields.
LEMMA CopiedStep ==
  ASSUME Order, NEW v \in Vectors, NEW w \in Vectors, Copy(v, w) \/ Assign(v, w)
  PROVE  Builds(v) \/ Views(v) \/ Stops
<1>0. CASE Undefined("source_is_target")
  BY <1>0 DEF Stops, Cause
<1>. SUFFICES ASSUME ~Undefined("source_is_target") PROVE Builds(v) \/ Views(v)
  BY <1>0
<1>. DEFINE s == Cells(w)
<1>1. /\ InOrder(vec[w]) /\ Lies(vec[w], heap) /\ s \in Seq(Cell) /\ Len(s) = vec[w].size
      /\ Seen(w) = s
  BY SeenShown DEF Copy, Assign, Usable
<1>2. Owns(v) => LeakExcused
  <2>1. Copy(v, w) => ~Owns(v)
    BY EmptyFields DEF Copy, Fresh, Owns
  <2>. QED BY <2>1 DEF LeakExcused, Forgets
<1>3. /\ vec[w].size \in Nat /\ vec[w].cap \in Nat /\ vec[w].cap <= 2 * MaxSize + 1
      /\ Owns(w) => vec[w].size <= vec[w].cap
  BY <1>1 DEF InOrder, Fields, Owns
<1>4. CASE Owns(w)
  <2>1. Become(v, Owner(v, vec[w].size, vec[w].cap), Malloc(v, heap, s), s)
    BY <1>1, <1>4 DEF Copy, Assign, Copied
  <2>2. SubSeq(s, 1, vec[w].size) = s
    BY <1>1, FirstCellsAre
  <2>3. vec[w].cap <= Len(s) \/ RoomExcused
    BY <1>1, <1>3 DEF RoomExcused
  <2>4. vec[w].size <= Len(s) /\ vec[w].size <= vec[w].cap /\ vec[w].cap > 0
    BY <1>1, <1>3, <1>4 DEF Owns
  <2>. HIDE DEF s
  <2>. QED BY <1>1, <1>2, <1>3, <2>1, <2>2, <2>3, <2>4 DEF Builds
<1>5. CASE ~Owns(w)
  <2>1. Become(v, vec[w], heap, <<>>)
    BY <1>5 DEF Copy, Assign, Copied
  <2>2. vec[w].cap = 0 /\ ~(vec[w].cap > 0)
    BY <1>3, <1>5 DEF Owns
  <2>. QED BY <1>1, <1>2, <2>1, <2>2 DEF Views
<1>. QED BY <1>4, <1>5

\* Borrowers.
LEMMA BorrowStep ==
  ASSUME Order, NEW v \in Vectors, NEW w \in Vectors, Borrow(v, w)
  PROVE  Views(v)
<1>. DEFINE r == Lent(vec[w])
<1>1. InOrder(vec[w]) /\ Lies(vec[w], heap)
  BY DEF Order
<1>2. InOrder(r) /\ Lies(r, heap) /\ r.cap = 0
  BY <1>1, GivesUp
<1>3. Become(v, r, heap, <<>>) /\ (Owns(v) => LeakExcused)
  BY DEF Borrow, Lent, LeakExcused, Forgets
<1>. HIDE DEF r
<1>4. ~(r.cap > 0)
  BY <1>2
<1>. QED BY <1>2, <1>3, <1>4 DEF Views

LEMMA SubvecStep ==
  ASSUME Order, NEW v \in Vectors, NEW w \in Vectors,
         NEW a \in 0 .. (vec[w].size - 1), NEW b \in (a + 1) .. vec[w].size, Subvec(v, w, a, b)
  PROVE  Views(v) /\ Usable(v)
<1>. DEFINE r == [vec[w] EXCEPT !.from = @ + a, !.size = b - a, !.cap = 0]
<1>1. InOrder(vec[w]) /\ Lies(vec[w], heap) /\ vec[w] \in Fields
  BY DEF Order
<1>2. /\ vec[w].size \in Nat /\ vec[w].from \in Nat
      /\ a \in Nat /\ b \in Nat /\ a < b /\ b <= vec[w].size /\ b - a \in Nat
  BY <1>1 DEF Fields
<1>20. vec[w].size > 0
  BY <1>2
<1>21. vec[w].at # Null
  BY <1>1, <1>20, EmptyFields DEF InOrder
<1>3. r \in Fields /\ r.at = vec[w].at /\ r.from = vec[w].from + a /\ r.size = b - a /\ r.cap = 0
  <2>. DEFINE d == b - a
              f == vec[w].from + a
  <2>1. d \in Nat /\ f \in Nat /\ vec[w].at \in 0 .. MaxBlocks
    BY <1>1, <1>2 DEF Fields
  <2>2. r = [vec[w] EXCEPT !.from = f, !.size = d, !.cap = 0]
    OBVIOUS
  <2>. HIDE DEF d, f
  <2>3. r \in Fields /\ r.at = vec[w].at /\ r.from = f /\ r.size = d /\ r.cap = 0
    BY <1>1, <2>1, <2>2 DEF Fields
  <2>. QED BY <2>3 DEF d, f
<1>4. Become(v, r, heap, <<>>) /\ ~Owns(v) /\ Usable(v)
  BY EmptyFields DEF Subvec, Fresh, Owns
<1>. HIDE DEF r
<1>5. InOrder(r)
  <2>1. r.from + r.size <= MaxSize /\ r.from < MaxSize /\ ~(r.cap > 0) /\ r.cap <= 2 * MaxSize + 1
    BY <1>1, <1>2, <1>3, Bounds DEF InOrder
  <2>. QED BY <1>3, <1>21, <2>1 DEF InOrder
<1>6. heap[vec[w].at].live => r.from + r.size <= Len(heap[vec[w].at].cells)
  <2>1. vec[w].at \in 1 .. MaxBlocks
    BY <1>1, <1>21, Bounds DEF Fields, Null
  <2>2. Len(heap[vec[w].at].cells) \in Nat
    BY <2>1 DEF Order, Blocks
  <2>3. heap[vec[w].at].live => vec[w].from + vec[w].size <= Len(heap[vec[w].at].cells)
    BY <1>1, <1>21 DEF Lies
  <2>4. r.from + r.size = vec[w].from + b
    BY <1>2, <1>3
  <2>. DEFINE m == Len(heap[vec[w].at].cells)
              f == vec[w].from
              z == vec[w].size
  <2>5. m \in Nat /\ f \in Nat /\ z \in Nat /\ b <= z /\ r.from + r.size = f + b
    BY <1>2, <2>2, <2>4
  <2>6. heap[vec[w].at].live => f + z <= m
    BY <2>3
  <2>. HIDE DEF m, f, z
  <2>7. heap[vec[w].at].live => r.from + r.size <= m
    BY <2>5, <2>6
  <2>. QED BY <2>7 DEF m
<1>7. Lies(r, heap)
  BY <1>3, <1>6 DEF Lies
<1>8. ~(r.cap > 0)
  BY <1>3
<1>. QED BY <1>3, <1>4, <1>5, <1>7, <1>8 DEF Views

\* A vector that is cut short.
LEMMA CutStep ==
  ASSUME Order, NEW v \in Vectors, NEW n \in Nat, n < vec[v].size, Usable(v),
         Become(v, [vec[v] EXCEPT !.size = n], heap, SubSeq(Seen(v), 1, n))
  PROVE  Views(v)
<1>. DEFINE r == [vec[v] EXCEPT !.size = n]
            list == SubSeq(Seen(v), 1, n)
            s == Block(vec[v].at)
<1>1. /\ InOrder(vec[v]) /\ Lies(vec[v], heap) /\ vec[v] \in Fields
      /\ vec[v].at # Null => heap[vec[v].at].live
      /\ Seen(v) = Cells(v) /\ Cells(v) \in Seq(Cell) /\ Len(Cells(v)) = vec[v].size
      /\ vec[v].size \in Nat /\ vec[v].from \in Nat
      /\ \A k \in 1 .. vec[v].size : Cells(v)[k] = s[vec[v].from + k]
  BY SeenShown DEF Usable, InOrder
<1>2. r \in Fields /\ r.at = vec[v].at /\ r.from = vec[v].from /\ r.size = n /\ r.cap = vec[v].cap
  BY <1>1 DEF Fields
<1>3. vec[v].at # Null /\ vec[v].at \in 1 .. MaxBlocks
  BY <1>1, EmptyFields, Bounds DEF InOrder, Fields, Null
<1>4. s \in Seq(Cell) /\ vec[v].from + vec[v].size <= Len(s)
  BY <1>1, <1>3 DEF Order, Blocks, Block, Lies
<1>5. Become(v, r, heap, list)
  OBVIOUS
<1>6. InOrder(r)
  <2>. HIDE DEF r
  <2>0. /\ vec[v].from < MaxSize /\ vec[v].from + vec[v].size <= MaxSize
        /\ vec[v].cap <= 2 * MaxSize + 1 /\ vec[v].cap \in Nat
        /\ vec[v].cap > 0 => vec[v].from = 0 /\ vec[v].size <= vec[v].cap
    BY <1>1 DEF InOrder, Fields
  <2>1. vec[v].from + n <= MaxSize
    BY <1>1, <2>0, Bounds
  <2>2. r.from < MaxSize /\ r.from + r.size <= MaxSize /\ r.cap <= 2 * MaxSize + 1
    BY <1>2, <2>0, <2>1
  <2>3. r.cap > 0 => r.from = 0 /\ r.size <= r.cap
    BY <1>1, <1>2, <2>0
  <2>. QED BY <1>2, <1>3, <2>2, <2>3 DEF InOrder
<1>7. Lies(r, heap)
  <2>1. r.from + r.size <= Len(s)
    BY <1>1, <1>2, <1>4
  <2>. QED BY <1>2, <2>1 DEF Lies, Block
<1>8. n \in 0 .. Len(Cells(v))
  BY <1>1
<1>9. list \in Seq(Cell) /\ Len(list) = n /\ \A k \in 1 .. n : list[k] = Cells(v)[k]
  BY <1>1, <1>8, FirstCells
<1>10. vec[v].cap > 0 => list = SubSeq(s, 1, n)
  <2>1. ASSUME vec[v].cap > 0 PROVE list = SubSeq(s, 1, n)
    <3>1. vec[v].from = 0
      BY <1>1, <2>1 DEF InOrder
    <3>2. \A k \in 1 .. n : list[k] = s[k]
      <4>1. \A k \in 1 .. n : k \in 1 .. vec[v].size /\ vec[v].from + k = k
        BY <1>1, <3>1
      <4>. HIDE DEF list, s
      <4>. QED BY <1>1, <1>9, <4>1
    <3>3. n <= Len(s)
      BY <1>1, <1>4, <3>1
    <3>. HIDE DEF list, s
    <3>. QED BY <1>4, <1>9, <3>2, <3>3, FirstCellsAre
  <2>. QED BY <2>1
<1>. HIDE DEF r, list
<1>11. r.cap > 0 => heap[r.at].live /\ list = SubSeq(Block(r.at), 1, r.size)
  BY <1>1, <1>2, <1>3, <1>10
<1>. QED BY <1>2, <1>5, <1>6, <1>7, <1>11 DEF Views

LEMMA CutsStep ==
  ASSUME Order, NEW v \in Vectors, Pop(v) \/ Clear(v)
  PROVE  Views(v)
<1>1. vec[v].size \in Nat
  BY DEF Order, Fields
<1>2. PICK n \in Nat : Cut(v, n)
  BY <1>1 DEF Pop, Clear
<1>. QED BY <1>2, CutStep DEF Cut

\* The fields of another vector, capacity and all.
LEMMA InitFromCStep ==
  ASSUME Order, NEW c \in Vectors, NEW w \in Vectors, InitFromC(c, w)
  PROVE  Views(c)
<1>1. /\ InOrder(vec[w]) /\ Lies(vec[w], heap)
      /\ vec[w].at # Null => heap[vec[w].at].live
      /\ Owns(w) => Seen(w) = SubSeq(Block(vec[w].at), 1, vec[w].size)
  BY SeenShown DEF InitFromC, Usable
<1>2. vec[w].cap > 0 => vec[w].at # Null
  BY <1>1, EmptyFields DEF InOrder
<1>3. Become(c, vec[w], heap, Seen(w)) /\ (Owns(c) => LeakExcused)
  BY DEF InitFromC, LeakExcused, Forgets
<1>4. OwnerExcused
  BY DEF OwnerExcused
<1>5. \E u \in Vectors : vec[w].cap = vec[u].cap /\ vec[w].at = vec[u].at
  OBVIOUS
<1>. DEFINE r == vec[w]
            list == Seen(w)
<1>6. /\ Become(c, r, heap, list) /\ InOrder(r) /\ Lies(r, heap)
      /\ r.cap > 0 => heap[r.at].live /\ list = SubSeq(Block(r.at), 1, r.size)
      /\ \E u \in Vectors : r.cap = vec[u].cap /\ r.at = vec[u].at
  BY <1>1, <1>2, <1>3, <1>5 DEF Owns
<1>. HIDE DEF r, list
<1>. QED BY <1>3, <1>4, <1>6 DEF Views

\* Containers replaced.
LEMMA ShrinkStep ==
  ASSUME Order, NEW v \in Vectors, ShrinkToFit(v)
  PROVE  Builds(v) \/ Stops
<1>. DEFINE s == Cells(v)
<1>1. s \in Seq(Cell) /\ Len(s) = vec[v].size /\ Seen(v) = s /\ vec[v].size \in Nat
  BY SeenShown DEF ShrinkToFit, Usable
<1>2. Replace(v, vec[v].size, s, s)
  BY <1>1 DEF ShrinkToFit
<1>3. ~Owns(v) => LenderExcused
  BY DEF LenderExcused, TakesFromLender
<1>. HIDE DEF s
<1>. QED BY <1>1, <1>2, <1>3, ReplaceStep

LEMMA PopResizeStep ==
  ASSUME Order, NEW v \in Vectors, PopResize(v)
  PROVE  Builds(v) \/ Views(v) \/ Stops
<1>. DEFINE n == vec[v].size - 1
            s == SubSeq(Cells(v), 1, n)
<1>1. /\ Cells(v) \in Seq(Cell) /\ Len(Cells(v)) = vec[v].size /\ Seen(v) = Cells(v)
      /\ vec[v].size \in Nat /\ vec[v].cap \in Nat
  BY SeenShown DEF PopResize, Usable
<1>2. n \in Nat /\ n < vec[v].size /\ n \in 0 .. Len(Cells(v))
  BY <1>1 DEF PopResize
<1>3. s \in Seq(Cell) /\ Len(s) = n
  BY <1>1, <1>2, FirstCells
<1>4. CASE vec[v].cap > 2 * n
  <2>1. Replace(v, n, s, s)
    BY <1>1, <1>4 DEF PopResize
  <2>2. Owns(v)
    BY <1>1, <1>2, <1>4 DEF Owns
  <2>. HIDE DEF s, n
  <2>. QED BY <1>2, <1>3, <2>1, <2>2, ReplaceStep
<1>5. CASE ~(vec[v].cap > 2 * n)
  <2>1. Become(v, [vec[v] EXCEPT !.size = n], heap, SubSeq(Seen(v), 1, n)) /\ Usable(v)
    BY <1>5 DEF PopResize
  <2>. HIDE DEF n
  <2>. QED BY <1>2, <2>1, CutStep
<1>. QED BY <1>4, <1>5

\* Cells written in place.
LEMMA SetCellStep ==
  ASSUME Order, NEW v \in Vectors, NEW i \in 1 .. MaxSize, NEW x \in Data, SetCell(v, i, x)
  PROVE  Rewrites(v) \/ Stops
<1>. DEFINE n == vec[v].size
            b == Block(vec[v].at)
            list == IF Owns(v) THEN [holds[v] EXCEPT ![i] = x] ELSE <<>>
<1>1. /\ InOrder(vec[v]) /\ Lies(vec[v], heap) /\ vec[v] \in Fields /\ ~Gone(v)
      /\ n \in Nat /\ vec[v].from \in Nat /\ i <= n /\ i \in Nat /\ i >= 1 /\ n > 0
      /\ Owns(v) => holds[v] = Cells(v) /\ Cells(v) = SubSeq(b, 1, n)
  <2>1. ~Gone(v) /\ i <= n
    BY DEF SetCell, Usable
  <2>2. /\ InOrder(vec[v]) /\ Lies(vec[v], heap) /\ n \in Nat /\ vec[v].from \in Nat
        /\ Owns(v) => holds[v] = Cells(v) /\ Cells(v) = SubSeq(b, 1, n)
    BY <2>1, SeenShown DEF Seen
  <2>3. i \in Nat /\ i >= 1
    BY Bounds
  <2>. QED BY <2>1, <2>2, <2>3 DEF InOrder
<1>2. vec[v].at # Null /\ vec[v].at \in 1 .. MaxBlocks
  BY <1>1, EmptyFields, Bounds DEF InOrder, Fields, Null
<1>3. b \in Seq(Cell) /\ vec[v].from + n <= Len(b)
  BY <1>1, <1>2 DEF Order, Blocks, Block, Lies, Gone
<1>4. [vec[v] EXCEPT !.size = n] = vec[v]
  BY <1>1 DEF Fields
<1>5. Write(v, [vec[v] EXCEPT !.size = n], i, x, list)
  BY <1>4 DEF SetCell
<1>6. InOrder([vec[v] EXCEPT !.size = n])
  BY <1>1, <1>4
<1>7. Owns(v) /\ i <= Len(b) => list = SubSeq([b EXCEPT ![i] = x], 1, n)
  <2>1. ASSUME Owns(v) PROVE list = SubSeq([b EXCEPT ![i] = x], 1, n)
    <3>1. n <= Len(b) /\ Len(b) \in Nat
      BY <1>1, <1>3, <2>1 DEF InOrder, Owns
    <3>2. holds[v] = SubSeq(b, 1, n) /\ list = [holds[v] EXCEPT ![i] = x]
      BY <1>1, <2>1
    <3>. HIDE DEF b, list, n
    <3>3. n \in 0 .. Len(b) /\ i \in 1 .. Len(b)
      BY <1>1, <3>1
    <3>4. holds[v] \in Seq(Cell) /\ Len(holds[v]) = n /\ \A k \in 1 .. n : holds[v][k] = b[k]
      BY <1>3, <3>2, <3>3, FirstCells
    <3>5. i \in 1 .. n /\ x \in Cell
      BY <1>1 DEF Cell
    <3>6. list \in Seq(Cell) /\ Len(list) = n
      BY <3>2, <3>4, <3>5
    <3>7. [b EXCEPT ![i] = x] \in Seq(Cell) /\ Len([b EXCEPT ![i] = x]) = Len(b)
      BY <1>3, <3>3, <3>5
    <3>8. \A k \in 1 .. n : list[k] = [b EXCEPT ![i] = x][k]
      <4>1. ASSUME NEW k \in 1 .. n PROVE list[k] = [b EXCEPT ![i] = x][k]
        <5>1. k \in 1 .. Len(b) /\ k \in 1 .. Len(holds[v])
          BY <1>1, <3>1, <3>4
        <5>2. holds[v][k] = b[k]
          BY <3>4
        <5>3. [b EXCEPT ![i] = x][k] = (IF k = i THEN x ELSE b[k])
          BY <1>3, <5>1
        <5>4. [holds[v] EXCEPT ![i] = x][k] = (IF k = i THEN x ELSE holds[v][k])
          BY <3>4, <5>1
        <5>. QED BY <3>2, <5>2, <5>3, <5>4
      <4>. QED BY <4>1
    <3>. QED BY <3>1, <3>6, <3>7, <3>8, FirstCellsAre
  <2>. QED BY <2>1
<1>8. ~(vec[v].from + i > Len(b))
  BY <1>1, <1>3
<1>9. i \in Nat \ {0} /\ n <= vec[v].size
  BY <1>1
<1>. HIDE DEF list, n
<1>. QED BY <1>1, <1>2, <1>5, <1>6, <1>7, <1>8, <1>9, WriteStep

LEMMA AssignValueStep ==
  ASSUME Order, NEW v \in Vectors, NEW x \in Data, AssignValue(v, x)
  PROVE  Builds(v) \/ Rewrites(v) \/ Stops
<1>. DEFINE b == Block(vec[v].at)
            r == [vec[v] EXCEPT !.size = 1]
<1>1. /\ InOrder(vec[v]) /\ Lies(vec[v], heap) /\ vec[v] \in Fields /\ ~Gone(v)
      /\ vec[v].size \in Nat /\ vec[v].from \in Nat /\ vec[v].cap \in Nat
  BY SeenShown DEF AssignValue, Usable, InOrder
<1>2. CASE vec[v].at = Null
  <2>1. Become(v, Owner(v, 1, 1), Malloc(v, heap, <<x>>), <<x>>)
    BY <1>2 DEF AssignValue
  <2>2. ~Owns(v)
    BY <1>1, <1>2, EmptyFields DEF InOrder, Owns
  <2>. DEFINE s == <<x>>
  <2>3. s \in Seq(Cell) /\ Len(s) = 1
    BY DEF Cell
  <2>. HIDE DEF s
  <2>4. SubSeq(s, 1, 1) = s
    BY <2>3, FirstCellsAre
  <2>5. Become(v, Owner(v, 1, Len(s)), Malloc(v, heap, s), s)
    BY <2>1, <2>3 DEF s
  <2>6. Len(s) <= 2 * MaxSize + 1 /\ 1 <= Len(s) /\ 1 \in Nat
    BY <2>3, Bounds
  <2>. QED BY <2>2, <2>3, <2>4, <2>5, <2>6, BuildsIf
<1>3. CASE vec[v].at # Null
  <2>1. Write(v, r, 1, x, <<x>>)
    BY <1>3 DEF AssignValue
  <2>2. vec[v].at \in 1 .. MaxBlocks
    BY <1>1, <1>3, Bounds DEF Fields, Null
  <2>3. b \in Seq(Cell) /\ vec[v].from + vec[v].size <= Len(b)
    BY <1>1, <1>3, <2>2 DEF Order, Blocks, Block, Lies, Gone
  <2>4. r \in Fields /\ r.at = vec[v].at /\ r.size = 1 /\ r.from = vec[v].from /\ r.cap = vec[v].cap
    BY <1>1 DEF Fields
  <2>5. vec[v].from + 1 > Len(b) => ~RoomIsThere \/ EmptyBorrower(v)
    <3>1. ASSUME vec[v].from + 1 > Len(b), Owns(v) PROVE ~RoomIsThere
      <4>1. Len(b) = 0 /\ vec[v].cap > 0
        BY <1>1, <2>3, <3>1 DEF InOrder, Owns
      <4>2. ~(vec[v].cap <= Len(b))
        BY <1>1, <4>1
      <4>. QED BY <1>1, <3>1, <4>2 DEF RoomIsThere
    <3>2. ASSUME vec[v].from + 1 > Len(b), ~Owns(v) PROVE EmptyBorrower(v)
      <4>. HIDE DEF b
      <4>1. vec[v].size = 0
        BY <1>1, <2>3, <3>2
      <4>2. vec[v].cap = 0
        BY <1>1, <3>2 DEF Owns
      <4>. QED BY <1>3, <4>1, <4>2 DEF EmptyBorrower
    <3>. QED BY <3>1, <3>2
  <2>6. InOrder(r)
    <3>. HIDE DEF r
    <3>1. vec[v].from < MaxSize /\ vec[v].cap <= 2 * MaxSize + 1 /\ (vec[v].cap > 0 => vec[v].from = 0)
      BY <1>1 DEF InOrder
    <3>2. r.from < MaxSize /\ r.from + r.size <= MaxSize /\ r.cap <= 2 * MaxSize + 1
      BY <1>1, <2>4, <3>1, Bounds
    <3>3. r.cap > 0 => r.from = 0 /\ r.size <= r.cap
      BY <1>1, <2>4, <3>1
    <3>. QED BY <1>3, <2>4, <3>2, <3>3 DEF InOrder
  <2>7. 1 <= Len(b) => <<x>> = SubSeq([b EXCEPT ![1] = x], 1, 1)
    <3>. HIDE DEF b
    <3>1. ASSUME 1 <= Len(b) PROVE <<x>> = SubSeq([b EXCEPT ![1] = x], 1, 1)
      <4>. DEFINE c == [b EXCEPT ![1] = x]
                  s == <<x>>
      <4>1. x \in Cell /\ 1 \in 1 .. Len(b)
        BY <2>3, <3>1 DEF Cell
      <4>2. c \in Seq(Cell) /\ Len(c) = Len(b) /\ c[1] = x
        BY <2>3, <4>1
      <4>3. s \in Seq(Cell) /\ Len(s) = 1 /\ s[1] = x
        BY <4>1
      <4>. HIDE DEF c, s
      <4>4. \A k \in 1 .. Len(s) : s[k] = c[k]
        BY <4>2, <4>3
      <4>5. SubSeq(c, 1, Len(s)) = s
        BY <3>1, <4>2, <4>3, <4>4, FirstCellsAre
      <4>. QED BY <4>3, <4>5 DEF c, s
    <3>. QED BY <3>1
  <2>8. 1 \in Nat \ {0} /\ 1 \in Nat /\ 1 <= 1 /\ 1 = 1 /\ 1 > 0
    OBVIOUS
  <2>. HIDE DEF b
  <2>. QED BY <1>1, <1>3, <2>1, <2>5, <2>6, <2>7, <2>8, WriteStep DEF b
<1>. QED BY <1>2, <1>3

\* Containers that grow when they are full, and are written when they are not.
LEMMA PushedCells ==
  ASSUME NEW s \in Seq(Cell), NEW x \in Data, NEW m \in Nat, Len(s) + 1 <= m
  PROVE  LET cells == Filled(Append(s, x), m) IN
         /\ cells \in Seq(Cell) /\ Len(cells) = m
         /\ SubSeq(cells, 1, Len(s) + 1) = Append(s, x)
<1>. DEFINE t == Append(s, x)
<1>1. t \in Seq(Cell) /\ Len(t) = Len(s) + 1
  BY DEF Cell
<1>. HIDE DEF t
<1>2. /\ Filled(t, m) \in Seq(Cell) /\ Len(Filled(t, m)) = (IF Len(t) <= m THEN m ELSE Len(t))
      /\ SubSeq(Filled(t, m), 1, Len(t)) = t
  BY <1>1, FilledCells
<1>3. Len(Filled(t, m)) = m
  BY <1>1, <1>2
<1>. QED BY <1>1, <1>2, <1>3 DEF t

LEMMA EmplaceBackStep ==
  ASSUME Order, NEW v \in Vectors, NEW x \in Data, EmplaceBack(v, x)
  PROVE  Builds(v) \/ Rewrites(v) \/ Drops(v) \/ Stops
<1>. DEFINE r == vec[v]
            n == r.size + 1
            s == Cells(v)
            b == Block(r.at)
<1>1. /\ InOrder(r) /\ Lies(r, heap) /\ ~Gone(v) /\ s \in Seq(Cell) /\ Len(s) = r.size
      /\ Seen(v) = s /\ r.size \in Nat /\ r.from \in Nat /\ r.cap \in Nat
      /\ Owns(v) => s = SubSeq(b, 1, r.size)
  BY SeenShown DEF EmplaceBack, Usable
<1>2. Push(v, r, x, s)
  BY <1>1 DEF EmplaceBack
<1>3. CASE r.size >= r.cap
  <2>. DEFINE m == n + r.size \div 2
              cells == Filled(Append(s, x), m)
              list == Append(s, x)
  <2>1. Grow(v, r, r.size, cells, n, list)
    BY <1>2, <1>3 DEF Push, Cells
  <2>2. /\ n \in Nat /\ m \in Nat /\ n <= m /\ (n <= MaxSize => m <= 2 * MaxSize + 1) /\ r.size <= m
        /\ m > 0
    <3>1. r.size \in Nat
      BY <1>1
    <3>2. r.size \div 2 \in Nat /\ r.size \div 2 <= r.size
      BY <3>1
    <3>. HIDE DEF r
    <3>. QED BY <3>1, <3>2, Bounds
  <2>. HIDE DEF m
  <2>3. cells \in Seq(Cell) /\ Len(cells) = m /\ SubSeq(cells, 1, n) = list
    <3>1. Len(s) + 1 <= m /\ Len(s) + 1 = n
      BY <1>1, <2>2
    <3>. HIDE DEF s, n
    <3>. QED BY <1>1, <2>2, <3>1, PushedCells
  <2>4. Copies(r, r.size) => ~Owns(v)
    BY <1>1 DEF Copies, Owns
  <2>5. ~(r.size > Len(cells)) /\ cells # <<>>
    <3>. HIDE DEF cells
    <3>. QED BY <1>1, <2>2, <2>3
  <2>6. r.at # Null /\ ~Copies(r, r.size) /\ ~Owns(v) => LenderExcused
    <3>1. ~Copies(r, r.size) /\ ~Owns(v) => r.size = 0
      BY <1>1 DEF Copies, Owns
    <3>. QED BY <3>1 DEF LenderExcused, TakesFromLender
  <2>. HIDE DEF cells, list
  <2>7. n <= Len(cells) /\ (n <= MaxSize => Len(cells) <= 2 * MaxSize + 1)
    BY <2>2, <2>3
  <2>. HIDE DEF n
  <2>. QED BY <2>1, <2>2, <2>3, <2>4, <2>5, <2>6, <2>7, GrowStep
<1>4. CASE ~(r.size >= r.cap)
  <2>. DEFINE list == Append(s, x)
  <2>1. Write(v, [r EXCEPT !.size = n], n, x, list)
    BY <1>2, <1>4 DEF Push
  <2>2. Owns(v) /\ r.from = 0 /\ r.at # Null /\ r.size < r.cap /\ r.cap > 0
    BY <1>1, <1>4, EmptyFields DEF InOrder, Owns
  <2>3. r.at \in 1 .. MaxBlocks
    BY <1>1, <2>2, Bounds DEF InOrder, Fields, Null
  <2>4. b \in Seq(Cell) /\ r.size <= Len(b) /\ Len(b) \in Nat
    BY <1>1, <2>2, <2>3 DEF Order, Blocks, Block, Lies, Gone
  <2>5. r.from + n > Len(b) => ~RoomIsThere
    <3>1. ASSUME r.from + n > Len(b) PROVE ~RoomIsThere
      <4>1. ~(r.cap <= Len(b))
        BY <1>1, <2>2, <2>4, <3>1
      <4>. QED BY <1>1, <2>2, <4>1 DEF RoomIsThere
    <3>. QED BY <3>1
  <2>6. n <= MaxSize => InOrder([r EXCEPT !.size = n])
    <3>. DEFINE q == [r EXCEPT !.size = n]
    <3>1. q \in Fields /\ q.at = r.at /\ q.size = n /\ q.from = r.from /\ q.cap = r.cap /\ n \in Nat
      BY <1>1 DEF Fields, InOrder
    <3>. HIDE DEF q
    <3>2. r.cap <= 2 * MaxSize + 1 /\ r.from < MaxSize
      BY <1>1 DEF InOrder
    <3>3. n <= MaxSize => q.from + q.size <= MaxSize
      BY <2>2, <3>1, Bounds
    <3>4. q.from = 0 /\ q.size <= q.cap
      BY <1>1, <2>2, <3>1
    <3>5. n <= MaxSize => InOrder(q)
      BY <2>2, <3>1, <3>2, <3>3, <3>4 DEF InOrder
    <3>. QED BY <3>5 DEF q
  <2>7. n <= Len(b) => list = SubSeq([b EXCEPT ![n] = x], 1, n)
    <3>1. ASSUME n <= Len(b) PROVE list = SubSeq([b EXCEPT ![n] = x], 1, n)
      <4>. DEFINE c == [b EXCEPT ![n] = x]
      <4>1. x \in Cell /\ n \in 1 .. Len(b) /\ r.size \in 0 .. Len(b) /\ n = Len(s) + 1
        BY <1>1, <2>4, <3>1 DEF Cell
      <4>2. \A k \in 1 .. r.size : s[k] = b[k]
        BY <1>1, <2>2, <2>4, <4>1, FirstCells
      <4>. HIDE DEF b, s
      <4>3. c \in Seq(Cell) /\ Len(c) = Len(b)
        BY <2>4, <4>1
      <4>40. s \in Seq(Cell) /\ Len(s) = r.size /\ r.size \in Nat /\ x \in Cell
        BY <1>1, <4>1
      <4>4. list \in Seq(Cell) /\ Len(list) = n
        BY <4>40
      <4>5. ASSUME NEW k \in 1 .. n PROVE list[k] = c[k]
        <5>1. c[k] = IF k = n THEN x ELSE b[k]
          BY <2>4, <4>1
        <5>2. list[k] = IF k = n THEN x ELSE s[k]
          BY <4>40
        <5>3. k # n => k \in 1 .. r.size
          BY <4>40
        <5>. QED BY <4>2, <5>1, <5>2, <5>3
      <4>. HIDE DEF c, list, n
      <4>6. n <= Len(c) /\ \A k \in 1 .. Len(list) : list[k] = c[k]
        BY <3>1, <4>3, <4>4, <4>5
      <4>. QED BY <4>3, <4>4, <4>6, FirstCellsAre DEF c
    <3>. QED BY <3>1
  <2>8. n \in Nat \ {0} /\ n \in Nat /\ n <= n /\ n = n /\ n > 0
    BY <1>1
  <2>. HIDE DEF list, n
  <2>. QED BY <1>1, <2>1, <2>2, <2>5, <2>6, <2>7, <2>8, WriteStep
<1>. QED BY <1>3, <1>4

LEMMA InitFromScalarStep ==
  ASSUME Order, NEW c \in Vectors, NEW x \in Data, InitFromScalar(c, x)
  PROVE  Builds(c) \/ Drops(c) \/ Stops
<1>. DEFINE r == [vec[c] EXCEPT !.size = 0, !.cap = 0]
<1>1. r.size = 0 /\ r.cap = 0 /\ r.at = vec[c].at /\ r.from = vec[c].from
  BY DEF Order, Fields
<1>2. ~Owns(c) => LenderExcused
  BY DEF LenderExcused, TakesFromLender
<1>3. Push(c, r, x, <<>>)
  BY DEF InitFromScalar
<1>. HIDE DEF r
<1>. DEFINE cells == <<x>>
            e == <<>>
<1>4. cells \in Seq(Cell) /\ Len(cells) = 1 /\ cells = Append(e, x) /\ e \in Seq(Cell) /\ Len(e) = 0
  BY DEF Cell
<1>5. View(r) = e
  BY <1>1 DEF View
<1>6. r.size >= r.cap /\ r.size + 1 = 1 /\ 1 + 0 \div 2 = 1
  BY <1>1
<1>7. Grow(c, r, r.size, Filled(Append(e, x), 1), 1, Append(e, x))
  BY <1>1, <1>3, <1>5, <1>6 DEF Push
<1>. HIDE DEF cells, e
<1>8. Filled(Append(e, x), 1) = cells
  <2>1. /\ Filled(Append(e, x), 1) \in Seq(Cell) /\ Len(Filled(Append(e, x), 1)) = 1
        /\ SubSeq(Filled(Append(e, x), 1), 1, Len(e) + 1) = Append(e, x)
    <3>1. Len(e) + 1 <= 1 /\ 1 \in Nat
      BY <1>4
    <3>. QED BY <1>4, <3>1, PushedCells
  <2>2. SubSeq(Filled(Append(e, x), 1), 1, 1) = Filled(Append(e, x), 1)
    BY <2>1, FirstCellsAre
  <2>. QED BY <1>4, <2>1, <2>2
<1>9. SubSeq(cells, 1, 1) = cells
  BY <1>4, FirstCellsAre
<1>10. ~Copies(r, r.size) /\ cells # <<>> /\ ~(r.size > Len(cells))
  <2>1. ~Copies(r, r.size)
    BY <1>1 DEF Copies
  <2>2. cells # <<>>
    BY <1>4
  <2>3. ~(r.size > Len(cells))
    BY <1>1, <1>4
  <2>. QED BY <2>1, <2>2, <2>3
<1>11. Grow(c, r, r.size, cells, 1, cells)
  BY <1>4, <1>7, <1>8
<1>12. Len(cells) <= 2 * MaxSize + 1 /\ 1 <= Len(cells) /\ 1 \in Nat
  BY <1>4, Bounds
<1>. QED BY <1>1, <1>2, <1>4, <1>9, <1>10, <1>11, <1>12, GrowStep

LEMMA ReserveStep ==
  ASSUME Order, NEW v \in Vectors, NEW n \in 0 .. MaxSize, Reserve(v, n)
  PROVE  Builds(v) \/ Drops(v) \/ Stops
<1>. DEFINE r == vec[v]
            s == Cells(v)
            cells == IF r.size > n THEN Filled(<<>>, n) ELSE Filled(s, n)
<1>1. /\ InOrder(r) /\ s \in Seq(Cell) /\ Len(s) = r.size /\ Seen(v) = s
      /\ r.size \in Nat /\ r.cap \in Nat /\ n >= r.cap
  BY SeenShown DEF Reserve, Usable
<1>2. Grow(v, r, n, cells, r.size, s)
  BY <1>1 DEF Reserve, Cells
<1>3. n \in Nat /\ n <= MaxSize
  BY Bounds
<1>4. /\ cells \in Seq(Cell) /\ Len(cells) = n
      /\ r.size <= n => SubSeq(cells, 1, r.size) = s
  <2>1. CASE r.size > n
    <3>. DEFINE e == <<>>
    <3>1. e \in Seq(Cell) /\ Len(e) = 0
      OBVIOUS
    <3>2. cells = Filled(e, n)
      BY <2>1
    <3>. HIDE DEF e, cells
    <3>3. Filled(e, n) \in Seq(Cell) /\ Len(Filled(e, n)) = (IF Len(e) <= n THEN n ELSE Len(e))
      BY <1>3, <3>1, FilledCells
    <3>. QED BY <1>1, <1>3, <2>1, <3>1, <3>2, <3>3
  <2>2. CASE ~(r.size > n)
    <3>1. cells = Filled(s, n)
      BY <2>2
    <3>. HIDE DEF s, cells
    <3>2. /\ Filled(s, n) \in Seq(Cell) /\ Len(Filled(s, n)) = (IF Len(s) <= n THEN n ELSE Len(s))
          /\ SubSeq(Filled(s, n), 1, Len(s)) = s
      BY <1>1, <1>3, FilledCells
    <3>. QED BY <1>1, <1>3, <2>2, <3>1, <3>2
  <2>. QED BY <2>1, <2>2
<1>. HIDE DEF s, cells
<1>5. /\ Copies(r, n) => ~Owns(v)
      /\ ~Copies(r, n) /\ ~Owns(v) => LenderExcused
      /\ Owns(v) => r.size <= n /\ n > 0
  <2>1. ~Copies(r, n) /\ ~Owns(v) => n = 0
    BY <1>1, <1>3 DEF Copies, Owns
  <2>2. n = 0 /\ ~Owns(v) => LenderExcused
    BY DEF LenderExcused, TakesFromLender
  <2>. QED BY <1>1, <1>3, <2>1, <2>2 DEF InOrder, Owns, Copies
<1>6. ~(r.size > Len(cells)) => r.size <= Len(cells) /\ s = SubSeq(cells, 1, r.size)
  BY <1>1, <1>3, <1>4
<1>7. r.size > Len(cells) => r.size > 0 /\ ~Owns(v)
  BY <1>1, <1>3, <1>4, <1>5
<1>8. Len(cells) <= 2 * MaxSize + 1
  BY <1>3, <1>4, Bounds
<1>9. cells = <<>> => ~Copies(r, n) /\ ~Owns(v)
  BY <1>3, <1>4, <1>5 DEF Copies
<1>. QED BY <1>1, <1>2, <1>4, <1>5, <1>6, <1>7, <1>8, <1>9, GrowStep

\* The cells that a resize keeps, whatever was behind the size.
LEMMA ResizeStep ==
  ASSUME Order, NEW v \in Vectors, NEW n \in 0 .. MaxSize, Resize(v, n)
  PROVE  Builds(v) \/ Drops(v) \/ Stops
<1>. DEFINE r == vec[v]
            q == IF n = 0 THEN [r EXCEPT !.size = 0] ELSE r
            s == Cells(v)
            old == IF r.cap = 0 THEN s ELSE Block(r.at)
            m == Min({n, Len(old)})
            kept == SubSeq(old, 1, m)
            cells == Filled(kept, n)
            list == s \o SubSeq(cells, Len(s) + 1, n)
<1>1. /\ InOrder(r) /\ Lies(r, heap) /\ ~Gone(v) /\ s \in Seq(Cell) /\ Len(s) = r.size /\ Seen(v) = s
      /\ r.size \in Nat /\ r.cap \in Nat /\ n >= r.cap
      /\ Owns(v) => s = SubSeq(Block(r.at), 1, r.size)
  BY SeenShown DEF Resize, Usable
<1>2. Grow(v, q, n, cells, n, list)
  BY <1>1 DEF Resize, Cells
<1>3. n \in Nat /\ n <= MaxSize
  BY Bounds
<1>30. /\ q.at = r.at /\ q.from = r.from /\ q.cap = r.cap /\ (n > 0 => q.size = r.size)
       /\ (n = 0 => q.size = 0) /\ (r.at = Null => r.size = 0)
  BY <1>1, <1>3, EmptyFields DEF InOrder, Fields
<1>. HIDE DEF q
<1>4. old \in Seq(Cell) /\ r.size <= Len(old) /\ \A k \in 1 .. r.size : old[k] = s[k]
  <2>1. CASE r.cap = 0
    BY <1>1, <2>1
  <2>2. CASE r.cap # 0
    <3>1. Owns(v) /\ r.from = 0 /\ r.at # Null
      BY <1>1, <2>2, EmptyFields DEF InOrder, Owns
    <3>2. r.at \in 1 .. MaxBlocks
      BY <1>1, <3>1, Bounds DEF InOrder, Fields, Null
    <3>3. Block(r.at) \in Seq(Cell) /\ r.size <= Len(Block(r.at))
      BY <1>1, <3>1, <3>2 DEF Order, Blocks, Block, Lies, Gone
    <3>4. r.size \in 0 .. Len(Block(r.at))
      BY <1>1, <3>3
    <3>5. \A k \in 1 .. r.size : SubSeq(Block(r.at), 1, r.size)[k] = Block(r.at)[k]
      BY <3>3, <3>4, FirstCells
    <3>6. old = Block(r.at)
      BY <2>2
    <3>. HIDE DEF s, old
    <3>. QED BY <1>1, <3>1, <3>3, <3>5, <3>6
  <2>. QED BY <2>1, <2>2
<1>. HIDE DEF s, old
<1>5. m \in 0 .. Len(old) /\ m <= n /\ m \in {n, Len(old)}
  <2>1. {n, Len(old)} \in SUBSET Nat /\ {n, Len(old)} # {}
    BY <1>3, <1>4
  <2>2. m \in {n, Len(old)} /\ \A y \in {n, Len(old)} : m <= y
    BY <2>1, MinIsIn
  <2>. HIDE DEF m
  <2>. QED BY <1>3, <1>4, <2>2
<1>. HIDE DEF m
<1>6. kept \in Seq(Cell) /\ Len(kept) = m /\ \A k \in 1 .. m : kept[k] = old[k]
  BY <1>4, <1>5, FirstCells
<1>. HIDE DEF kept
<1>7. cells \in Seq(Cell) /\ Len(cells) = n /\ \A k \in 1 .. m : cells[k] = kept[k]
  <2>1. /\ cells \in Seq(Cell) /\ Len(cells) = (IF Len(kept) <= n THEN n ELSE Len(kept))
        /\ \A k \in 1 .. Len(kept) : cells[k] = kept[k]
    BY <1>3, <1>6, FilledCells
  <2>. HIDE DEF cells
  <2>. QED BY <1>5, <1>6, <2>1
<1>. HIDE DEF cells
<1>8. r.size <= n => list = cells
  <2>1. ASSUME r.size <= n PROVE list = cells
    <3>1. r.size <= m
      BY <1>1, <1>3, <1>4, <1>5, <2>1
    <3>2. \A k \in 1 .. r.size : cells[k] = s[k]
      <4>1. \A k \in 1 .. r.size : k \in 1 .. m
        BY <1>1, <1>4, <1>5, <3>1
      <4>. QED BY <1>4, <1>6, <1>7, <4>1
    <3>3. n = Len(cells) /\ Len(s) <= n /\ \A k \in 1 .. Len(s) : cells[k] = s[k]
      BY <1>1, <1>7, <2>1, <3>2
    <3>. QED BY <1>1, <1>7, <3>3, GluedCells
  <2>. QED BY <2>1
<1>. HIDE DEF list
<1>9. /\ Copies(q, n) => ~Owns(v)
      /\ ~Copies(q, n) /\ ~Owns(v) => LenderExcused
      /\ Owns(v) => r.size <= n /\ n > 0
      /\ n = 0 => ~Copies(q, n)
  <2>1. ~Copies(q, n) /\ ~Owns(v) => n = 0
    BY <1>1, <1>3, <1>30 DEF Copies, Owns
  <2>2. n = 0 /\ ~Owns(v) => LenderExcused
    BY DEF LenderExcused, TakesFromLender
  <2>. QED BY <1>1, <1>3, <1>30, <2>1, <2>2 DEF InOrder, Owns, Copies
<1>10. ~(q.size > Len(cells)) /\ ~(cells = <<>> /\ q.at # Null) => list = SubSeq(cells, 1, n)
  <2>1. SubSeq(cells, 1, n) = cells
    BY <1>7, FirstCellsAre
  <2>2. ~(q.size > Len(cells)) /\ ~(cells = <<>> /\ q.at # Null) => r.size <= n
    <3>1. CASE n > 0
      BY <1>1, <1>3, <1>7, <1>30, <3>1
    <3>2. CASE n = 0
      <4>1. cells = <<>>
        BY <1>7, <3>2
      <4>. QED BY <1>1, <1>30, <3>2, <4>1
    <3>. QED BY <1>3, <3>1, <3>2
  <2>. QED BY <1>8, <2>1, <2>2
<1>11. q.size > Len(cells) => r.size > 0 /\ ~Owns(v)
  BY <1>1, <1>3, <1>7, <1>9, <1>30
<1>12. Len(cells) <= 2 * MaxSize + 1 /\ n <= Len(cells)
  BY <1>3, <1>7, Bounds
<1>13. cells = <<>> => ~Copies(q, n) /\ ~Owns(v)
  BY <1>3, <1>7, <1>9
<1>. QED BY <1>1, <1>2, <1>3, <1>7, <1>9, <1>10, <1>11, <1>12, <1>13, <1>30, GrowStep

\* A list written over the beginning of a block.
LEMMA OverWritten ==
  ASSUME NEW s \in Seq(Cell), NEW old \in Seq(Cell), NEW n, n = Len(s)
  PROVE  LET cells == s \o SubSeq(old, n + 1, Len(old)) IN
         /\ cells \in Seq(Cell) /\ Len(cells) = (IF n <= Len(old) THEN Len(old) ELSE n)
         /\ SubSeq(cells, 1, n) = s
<1>. DEFINE a == n + 1
            l == Len(old)
            u == SubSeq(old, a, l)
            cells == s \o u
<1>1. n \in Nat /\ l \in Nat /\ a \in Int
  OBVIOUS
<1>2. u \in Seq(Cell) /\ Len(u) = (IF n <= l THEN l - n ELSE 0)
  <2>1. CASE n >= l
    <3>1. u = <<>>
      <4>1. a > l
        BY <1>1, <2>1
      <4>. HIDE DEF a, l
      <4>. QED BY <1>1, <4>1, SubSeqEmpty
    <3>2. <<>> \in Seq(Cell) /\ Len(<<>>) = 0
      OBVIOUS
    <3>3. (IF n <= l THEN l - n ELSE 0) = 0
      BY <1>1, <2>1
    <3>. QED BY <3>1, <3>2, <3>3
  <2>2. CASE ~(n >= l)
    <3>1. a <= l /\ l - a + 1 = l - n /\ n <= l
      BY <1>1, <2>2
    <3>2. \A k \in a .. l : old[k] \in Cell
      BY <1>1
    <3>. HIDE DEF a, l
    <3>3. SubSeq(old, a, l) \in Seq(Cell) /\ Len(SubSeq(old, a, l)) = l - a + 1
      BY <1>1, <3>1, <3>2, SubSeqProperties
    <3>. QED BY <3>1, <3>3
  <2>. QED BY <2>1, <2>2
<1>. HIDE DEF u
<1>3. /\ cells \in Seq(Cell) /\ Len(cells) = Len(s) + Len(u)
      /\ \A k \in 1 .. Len(s) + Len(u) : cells[k] = IF k <= Len(s) THEN s[k] ELSE u[k - Len(s)]
  BY <1>2, ConcatProperties
<1>. HIDE DEF cells
<1>4. Len(cells) = (IF n <= l THEN l ELSE n) /\ n <= Len(cells)
  BY <1>1, <1>2, <1>3
<1>5. \A k \in 1 .. n : cells[k] = s[k]
  <2>1. \A k \in 1 .. n : k \in 1 .. Len(s) + Len(u) /\ k <= Len(s)
    BY <1>1, <1>2
  <2>. QED BY <1>3, <2>1
<1>6. SubSeq(cells, 1, n) = s
  BY <1>3, <1>4, <1>5, FirstCellsAre
<1>. QED BY <1>3, <1>4, <1>6 DEF cells, u

\* The values of a column are no more than finitely many.
LEMMA DistinctValues ==
  ASSUME NEW cells \in Seq(Cell), NEW size \in Nat, size = Len(cells)
  PROVE  LET values == {cells[k] : k \in 1 .. size} IN
         /\ Cardinality(values) \in Nat /\ values \subseteq Cell
         /\ Cardinality(values) = 0 => size = 0
<1>. DEFINE values == {cells[k] : k \in 1 .. size}
            f == [k \in 1 .. size |-> cells[k]]
<1>1. f \in Surjection(1 .. size, values)
  BY DEF Surjection
<1>2. IsFiniteSet(1 .. size)
  BY FS_Interval
<1>3. IsFiniteSet(values)
  <2>. HIDE DEF values, f
  <2>. QED BY <1>1, <1>2, FS_Surjection
<1>4. values \subseteq Cell
  OBVIOUS
<1>5. values = {} => size = 0
  <2>1. size # 0 => cells[1] \in values
    <3>1. size # 0 => 1 \in 1 .. size
      OBVIOUS
    <3>. QED BY <3>1
  <2>. QED BY <2>1
<1>. HIDE DEF values
<1>6. Cardinality(values) \in Nat /\ (Cardinality(values) = 0 => values = {})
  BY <1>3, FS_CardinalityType, FS_EmptySet
<1>. QED BY <1>4, <1>5, <1>6 DEF values

LEMMA DistinctStep ==
  ASSUME Order, NEW v \in Vectors, DistinctColumn(v)
  PROVE  Builds(v) \/ Rewrites(v) \/ Drops(v) \/ Stops
<1>. DEFINE r == vec[v]
            values == {Cells(v)[k] : k \in 1 .. r.size}
            n == Cardinality(values)
            q == [r EXCEPT !.size = n]
            b == Block(r.at)
<1>1. /\ InOrder(r) /\ Lies(r, heap) /\ ~Gone(v) /\ Cells(v) \in Seq(Cell) /\ Len(Cells(v)) = r.size
      /\ r.size \in Nat /\ r.cap \in Nat /\ r.from \in Nat
  BY SeenShown DEF DistinctColumn, Usable
<1>2. n \in Nat /\ values \subseteq Cell /\ (n = 0 => r.size = 0)
  BY <1>1, DistinctValues
<1>3. PICK s \in SetToSeqs(values) :
        IF n >= r.cap THEN Grow(v, q, n, Filled(s, n + 1 + n \div 2), n, s)
        ELSE Rewrite(v, q, r.at, s \o SubSeq(b, n + 1, Len(b)), s)
  BY DEF DistinctColumn
<1>4. s \in Seq(Cell) /\ Len(s) = n
  <2>1. s \in [1 .. n -> values]
    BY DEF SetToSeqs
  <2>. HIDE DEF values, n
  <2>2. s \in [1 .. n -> Cell]
    BY <1>2, <2>1
  <2>. QED BY <1>2, <2>2
<1>5. n = 0 => LenderExcused \/ Owns(v)
  BY <1>2 DEF LenderExcused, TakesFromLender
<1>. HIDE DEF n, values
<1>6. q \in Fields /\ q.at = r.at /\ q.from = r.from /\ q.cap = r.cap /\ q.size = n
  BY <1>1, <1>2 DEF InOrder, Fields
<1>7. CASE n >= r.cap
  <2>. DEFINE m == n + 1 + n \div 2
              cells == Filled(s, m)
  <2>1. Grow(v, q, n, cells, n, s)
    BY <1>3, <1>7
  <2>2. m \in Nat /\ n <= m /\ (n <= MaxSize => m <= 2 * MaxSize + 1) /\ m > 0
    <3>1. n \div 2 \in Nat /\ 2 * (n \div 2) <= n
      BY <1>2
    <3>2. n <= MaxSize => n \div 2 <= MaxSize
      BY <1>2, <3>1, Bounds
    <3>3. m \in Nat /\ n <= m /\ m > 0
      BY <1>2, <3>1
    <3>4. n <= MaxSize => m <= 2 * MaxSize + 1
      BY <1>2, <3>1, Bounds
    <3>. QED BY <3>3, <3>4
  <2>. HIDE DEF m
  <2>3. /\ cells \in Seq(Cell) /\ Len(cells) = (IF Len(s) <= m THEN m ELSE Len(s))
        /\ SubSeq(cells, 1, Len(s)) = s
    BY <1>4, <2>2, FilledCells
  <2>. HIDE DEF cells
  <2>4. Len(cells) = m /\ SubSeq(cells, 1, n) = s
    BY <1>4, <2>2, <2>3
  <2>5. Copies(q, n) => ~Owns(v)
    BY <1>1, <1>6 DEF Copies, Owns
  <2>6. ~(q.size > Len(cells)) /\ n <= Len(cells) /\ cells # <<>>
    BY <1>2, <1>6, <2>2, <2>3, <2>4
  <2>7. ~Copies(q, n) /\ ~Owns(v) => LenderExcused
    <3>1. ~Copies(q, n) /\ ~Owns(v) => n = 0
      BY <1>1, <1>2, <1>6 DEF Copies, Owns
    <3>. QED BY <1>5, <3>1
  <2>8. n <= MaxSize => Len(cells) <= 2 * MaxSize + 1
    BY <2>2, <2>4
  <2>. HIDE DEF q
  <2>. QED BY <1>2, <1>6, <2>1, <2>3, <2>4, <2>5, <2>6, <2>7, <2>8, GrowStep
<1>8. CASE ~(n >= r.cap)
  <2>. DEFINE cells == s \o SubSeq(b, n + 1, Len(b))
  <2>1. Rewrite(v, q, r.at, cells, s)
    BY <1>3, <1>8
  <2>2. Owns(v) /\ r.from = 0 /\ r.at # Null /\ n < r.cap /\ r.cap > 0
    BY <1>1, <1>2, <1>8, EmptyFields DEF InOrder, Owns
  <2>3. r.at \in 1 .. MaxBlocks
    BY <1>1, <2>2, Bounds DEF InOrder, Fields, Null
  <2>4. b \in Seq(Cell) /\ heap[r.at].live
    BY <1>1, <2>2, <2>3 DEF Order, Blocks, Block, Gone
  <2>. HIDE DEF b
  <2>5. /\ cells \in Seq(Cell) /\ Len(cells) = (IF n <= Len(b) THEN Len(b) ELSE n)
        /\ SubSeq(cells, 1, n) = s
    BY <1>4, <2>4, OverWritten
  <2>. HIDE DEF cells
  <2>6. n <= MaxSize
    BY <1>6, <2>1 DEF Rewrite
  <2>7. InOrder(q)
    <3>1. r.cap <= 2 * MaxSize + 1
      BY <1>1 DEF InOrder
    <3>2. q.from + q.size <= MaxSize /\ q.from < MaxSize /\ q.size <= q.cap /\ q.from = 0
      BY <1>1, <1>2, <1>6, <2>2, <2>6, Bounds
    <3>. HIDE DEF q
    <3>. QED BY <1>6, <2>2, <3>1, <3>2 DEF InOrder
  <2>8. q.from + n <= Len(cells) /\ Len(b) <= Len(cells)
    <3>. HIDE DEF q
    <3>1. Len(b) \in Nat
      BY <2>4
    <3>. QED BY <1>2, <1>6, <2>2, <2>5, <3>1
  <2>9. q = [r EXCEPT !.size = n] /\ Len(Block(r.at)) <= Len(cells)
    BY <2>8 DEF b
  <2>. HIDE DEF q
  <2>. QED BY <1>2, <2>1, <2>2, <2>4, <2>5, <2>7, <2>8, <2>9, RewritesIf
<1>. QED BY <1>7, <1>8

\* More elements behind one's own.
LEMMA AppendedStep ==
  ASSUME Order, NEW v \in Vectors, ~Gone(v), NEW n \in Nat, NEW both \in Seq(Cell),
         Len(both) = n, vec[v].cap < n \/ n > 0, Appended(v, n, both, both), ~Owns(v) => LenderExcused
  PROVE  Builds(v) \/ Rewrites(v) \/ Stops
<1>. DEFINE r == vec[v]
            b == Block(r.at)
            q == [r EXCEPT !.size = n]
<1>1. /\ InOrder(r) /\ Lies(r, heap) /\ r \in Fields
      /\ r.size \in Nat /\ r.cap \in Nat /\ r.from \in Nat
  BY DEF Order, Fields
<1>4. IF r.cap < n THEN Replace(v, n, both, both)
      ELSE IF n > Len(b) THEN Undefined("past_the_end")
      ELSE Rewrite(v, q, r.at, both \o SubSeq(b, n + 1, Len(b)), both)
  BY DEF Appended
<1>6. q \in Fields /\ q.at = r.at /\ q.from = r.from /\ q.cap = r.cap /\ q.size = n
  BY <1>1 DEF InOrder, Fields
<1>7. CASE r.cap < n
  <2>1. Replace(v, n, both, both)
    BY <1>4, <1>7
  <2>. QED BY <2>1, ReplaceStep
<1>8. CASE ~(r.cap < n)
  <2>2. Owns(v) /\ r.from = 0 /\ r.at # Null /\ n <= r.cap /\ r.cap > 0
    BY <1>1, <1>8, EmptyFields DEF InOrder, Owns
  <2>3. r.at \in 1 .. MaxBlocks
    BY <1>1, <2>2, Bounds DEF InOrder, Fields, Null
  <2>4. b \in Seq(Cell) /\ heap[r.at].live /\ Len(b) \in Nat
    BY <1>1, <2>2, <2>3 DEF Order, Blocks, Block, Gone
  <2>5. CASE n > Len(b)
    <3>1. Undefined("past_the_end")
      BY <1>4, <1>8, <2>5
    <3>2. ~(r.cap <= Len(b))
      <4>. HIDE DEF b
      <4>. QED BY <1>1, <2>2, <2>4, <2>5
    <3>3. ~RoomIsThere
      BY <1>1, <2>2, <3>2 DEF RoomIsThere
    <3>. QED BY <3>1, <3>3 DEF Cause, Stops
  <2>6. CASE ~(n > Len(b))
    <3>. DEFINE cells == both \o SubSeq(b, n + 1, Len(b))
    <3>1. Rewrite(v, q, r.at, cells, both)
      BY <1>4, <1>8, <2>6
    <3>. HIDE DEF b
    <3>2. /\ cells \in Seq(Cell) /\ Len(cells) = (IF n <= Len(b) THEN Len(b) ELSE n)
          /\ SubSeq(cells, 1, n) = both
      BY <2>4, OverWritten
    <3>. HIDE DEF cells
    <3>3. n <= MaxSize
      BY <1>6, <3>1 DEF Rewrite
    <3>4. InOrder(q)
      <4>1. r.cap <= 2 * MaxSize + 1
        BY <1>1 DEF InOrder
      <4>. HIDE DEF q
      <4>2. q.from + q.size <= MaxSize /\ q.from < MaxSize /\ q.size <= q.cap /\ q.from = 0
        BY <1>1, <1>6, <2>2, <3>3, Bounds
      <4>. QED BY <1>6, <2>2, <4>1, <4>2 DEF InOrder
    <3>5. q.from + n <= Len(cells) /\ Len(b) <= Len(cells)
      <4>. HIDE DEF q
      <4>. QED BY <1>6, <2>2, <2>4, <3>2
    <3>6. q = [r EXCEPT !.size = n] /\ Len(Block(r.at)) <= Len(cells)
      BY <3>5 DEF b
    <3>. HIDE DEF q
    <3>. QED BY <2>2, <2>4, <3>1, <3>2, <3>4, <3>5, <3>6, RewritesIf
  <2>. QED BY <2>5, <2>6
<1>. QED BY <1>7, <1>8

\* What a merge appends to.
LEMMA Merged ==
  ASSUME Order, NEW v \in Vectors, NEW w \in Vectors, Merges(v, w), NEW s \in Seq(Cell),
         Len(s) = vec[w].size
  PROVE  LET n == vec[v].size + vec[w].size
             both == Cells(v) \o s
         IN /\ n \in Nat /\ both \in Seq(Cell) /\ Len(both) = n /\ (vec[v].cap < n \/ n > 0)
            /\ Seen(v) = Cells(v)
<1>1. /\ Cells(v) \in Seq(Cell) /\ Len(Cells(v)) = vec[v].size
      /\ vec[v].size \in Nat /\ vec[v].cap \in Nat /\ Seen(v) = Cells(v)
  BY SeenShown DEF Merges, Usable
<1>2. vec[w].size \in Nat
  BY SeenShown DEF Merges, Usable
<1>. DEFINE both == Cells(v) \o s
<1>3. both \in Seq(Cell) /\ Len(both) = Len(Cells(v)) + Len(s)
  BY <1>1, ConcatProperties
<1>. HIDE DEF both
<1>4. vec[w].size > 0 \/ vec[v].cap < vec[v].size + vec[w].size
  BY DEF Merges
<1>. QED BY <1>1, <1>2, <1>3, <1>4 DEF both

LEMMA MergeStep ==
  ASSUME Order, NEW v \in Vectors, NEW w \in Vectors, Merge(v, w)
  PROVE  Builds(v) \/ Rewrites(v) \/ Stops
<1>. DEFINE n == vec[v].size + vec[w].size
            both == Cells(v) \o Cells(w)
<1>1. Cells(w) \in Seq(Cell) /\ Len(Cells(w)) = vec[w].size /\ Seen(w) = Cells(w) /\ ~Gone(v)
  BY SeenShown DEF Merge, Merges, Usable
<1>2. /\ n \in Nat /\ both \in Seq(Cell) /\ Len(both) = n /\ (vec[v].cap < n \/ n > 0)
      /\ Seen(v) = Cells(v)
  BY <1>1, Merged DEF Merge
<1>3. ~Owns(v) => LenderExcused
  BY DEF LenderExcused, TakesFromLender
<1>4. Undefined("source_is_target") \/ Appended(v, n, both, both)
  BY <1>1, <1>2 DEF Merge
<1>5. Undefined("source_is_target") => Stops
  BY DEF Stops, Cause
<1>. HIDE DEF n, both
<1>6. Appended(v, n, both, both) => Builds(v) \/ Rewrites(v) \/ Stops
  BY <1>1, <1>2, <1>3, AppendedStep DEF n
<1>. QED BY <1>4, <1>5, <1>6

\* The cells of a range that is written in its own way.
LEMMA RangedCells ==
  ASSUME Order, NEW v \in Vectors, NEW w \in Vectors, ~Gone(w)
  PROVE  Ranged(v, w) \in Seq(Cell) /\ Len(Ranged(v, w)) = vec[w].size
<1>1. Cells(w) \in Seq(Cell) /\ Len(Cells(w)) = vec[w].size /\ vec[w].size \in Nat
  BY SeenShown
<1>. DEFINE d == vec[v].size - vec[w].from
            m == vec[w].size
            c == Cells(w)
            same == vec[w].at = vec[v].at
<1>2. d \in Int
  BY DEF Order, Fields
<1>3. Ranged(v, w) = [i \in DOMAIN c |-> c[IF same /\ d > 0 /\ i > d THEN 1 + ((i - 1) % d) ELSE i]]
  BY DEF Ranged
<1>4. c \in Seq(Cell) /\ Len(c) = m /\ m \in Nat /\ DOMAIN c = 1 .. m
  BY <1>1
<1>. HIDE DEF d, m, c, same
<1>5. ASSUME NEW i \in 1 .. m
      PROVE  c[IF same /\ d > 0 /\ i > d THEN 1 + ((i - 1) % d) ELSE i] \in Cell
  <2>1. CASE d > 0 /\ i > d
    <3>. DEFINE k == (i - 1) % d
    <3>1. k \in 0 .. (d - 1)
      <4>1. i - 1 \in Int /\ d \in Nat \ {0}
        BY <1>2, <1>4, <2>1
      <4>. QED BY <4>1
    <3>. HIDE DEF k
    <3>2. 1 + k \in 1 .. m /\ i \in 1 .. m
      BY <1>2, <1>4, <2>1, <3>1
    <3>3. c[1 + k] \in Cell /\ c[i] \in Cell
      BY <1>4, <3>2
    <3>. QED BY <3>3 DEF k
  <2>2. CASE ~(d > 0 /\ i > d)
    BY <1>4, <2>2
  <2>. QED BY <2>1, <2>2
<1>. DEFINE f == [i \in 1 .. m |-> c[IF same /\ d > 0 /\ i > d THEN 1 + ((i - 1) % d) ELSE i]]
<1>6. f \in [1 .. m -> Cell]
  BY <1>5
<1>7. Ranged(v, w) = f
  BY <1>3, <1>4
<1>. HIDE DEF f
<1>8. f \in Seq(Cell) /\ Len(f) = m
  BY <1>4, <1>6
<1>. QED BY <1>7, <1>8 DEF m

LEMMA MergeRangeStep ==
  ASSUME Order, NEW v \in Vectors, NEW w \in Vectors, MergeRange(v, w)
  PROVE  Builds(v) \/ Rewrites(v) \/ Stops
<1>. DEFINE n == vec[v].size + vec[w].size
            s == Ranged(v, w)
            both == Cells(v) \o s
<1>1. s \in Seq(Cell) /\ Len(s) = vec[w].size /\ ~Gone(v)
  BY RangedCells DEF MergeRange, Merges, Usable
<1>2. /\ n \in Nat /\ both \in Seq(Cell) /\ Len(both) = n /\ (vec[v].cap < n \/ n > 0)
      /\ Seen(v) = Cells(v)
  <2>1. Merges(v, w)
    BY DEF MergeRange
  <2>. HIDE DEF s
  <2>. QED BY <1>1, <2>1, Merged
<1>3. ~Owns(v) => LenderExcused
  BY DEF LenderExcused, TakesFromLender
<1>4. Undefined("source_is_target") \/ Appended(v, n, both, both)
  BY <1>2 DEF MergeRange
<1>5. Undefined("source_is_target") => Stops
  BY DEF Stops, Cause
<1>. HIDE DEF n, both, s
<1>6. Appended(v, n, both, both) => Builds(v) \/ Rewrites(v) \/ Stops
  BY <1>1, <1>2, <1>3, AppendedStep DEF n
<1>. QED BY <1>4, <1>5, <1>6

\* ColRef::init, and a vector that is moved to itself.
LEMMA InitColumnStep ==
  ASSUME Order, NEW c \in Vectors, InitColumn(c)
  PROVE  Views(c)
<1>1. Become(c, Empty, heap, <<>>) /\ (Owns(c) => LeakExcused)
  BY DEF InitColumn, LeakExcused, Forgets
<1>2. InOrder(Empty) /\ Lies(Empty, heap) /\ Empty.cap = 0 /\ ~(Empty.cap > 0)
  BY EmptyFields
<1>. QED BY <1>1, <1>2 DEF Views

LEMMA MoveToItselfStep ==
  ASSUME Order, NEW v \in Vectors, Move(v, v)
  PROVE  Drops(v)
<1>1. /\ vec' = [vec EXCEPT ![v] = vec[v], ![v] = Empty]
      /\ heap' = IF Owns(v) THEN Free(heap, vec[v].at) ELSE heap
      /\ holds' = [holds EXCEPT ![v] = holds[v], ![v] = <<>>] /\ UNCHANGED why /\ ~Gone(v)
  BY DEF Move, Usable
<1>2. vec' = [vec EXCEPT ![v] = Empty] /\ holds' = [holds EXCEPT ![v] = <<>>]
  BY <1>1 DEF Order
<1>3. Empty.size <= MaxSize /\ ~(Empty.cap > 0)
  BY EmptyFields, Bounds
<1>4. Become(v, Empty, IF Owns(v) THEN Free(heap, vec[v].at) ELSE heap, <<>>)
  BY <1>1, <1>2, <1>3 DEF Become
<1>. QED BY <1>1, <1>4 DEF Drops

LEMMA DropsAndUses ==
  ASSUME Order, NEW v \in Vectors
  PROVE  (Drop(v) => Drops(v)) /\ (UseGone(v) => Stops)
<1>1. Drop(v) => Drops(v)
  BY DEF Drop, Drops, Usable
<1>2. ASSUME UseGone(v) PROVE Stops
  <2>1. Undefined("the_block_is_gone") /\ ~OwnersAlive
    BY <1>2 DEF UseGone, OwnersAlive
  <2>. QED BY <2>1 DEF Stops, Cause
<1>. QED BY <1>1, <1>2

LEMMA ByVector ==
  ASSUME Order, NEW v \in Vectors,
         \/ \E n \in 0..MaxSize : Make(v, n)
         \/ \E s \in Lists : MakeList(v, s)
         \/ \E x \in Data : AssignValue(v, x) \/ EmplaceBack(v, x) \/ InitFromScalar(v, x)
         \/ \E i \in 1..MaxSize, x \in Data : SetCell(v, i, x)
         \/ \E n \in 0..MaxSize : Reserve(v, n) \/ Resize(v, n)
         \/ \E rows \in RowLists : Materialize(v, rows)
         \/ ShrinkToFit(v) \/ PopResize(v) \/ Pop(v) \/ Clear(v) \/ Drop(v)
         \/ InitColumn(v) \/ DistinctColumn(v) \/ UseGone(v)
  PROVE  (Builds(v) \/ Views(v) \/ Rewrites(v) \/ Drops(v) \/ Stops) /\ why = "none"
<1>1. ASSUME NEW n \in 0 .. MaxSize, Make(v, n) PROVE Builds(v) /\ why = "none"
  BY <1>1, MakeStep, Bounds DEF Make, Usable
<1>2. ASSUME NEW s \in Lists, MakeList(v, s) PROVE Builds(v) /\ why = "none"
  BY <1>2, MakeListStep DEF MakeList, Usable
<1>3. ASSUME NEW x \in Data, AssignValue(v, x) PROVE (Builds(v) \/ Rewrites(v) \/ Stops) /\ why = "none"
  BY <1>3, AssignValueStep DEF AssignValue, Usable
<1>4. ASSUME NEW x \in Data, EmplaceBack(v, x)
      PROVE  (Builds(v) \/ Rewrites(v) \/ Drops(v) \/ Stops) /\ why = "none"
  BY <1>4, EmplaceBackStep DEF EmplaceBack, Usable
<1>5. ASSUME NEW x \in Data, InitFromScalar(v, x)
      PROVE  (Builds(v) \/ Drops(v) \/ Stops) /\ why = "none"
  <2>1. why = "none"
    BY <1>5 DEF InitFromScalar, Usable
  <2>. QED BY <1>5, <2>1, InitFromScalarStep
<1>6. ASSUME NEW i \in 1 .. MaxSize, NEW x \in Data, SetCell(v, i, x)
      PROVE  (Rewrites(v) \/ Stops) /\ why = "none"
  BY <1>6, SetCellStep DEF SetCell, Usable
<1>7. ASSUME NEW n \in 0 .. MaxSize, Reserve(v, n) PROVE (Builds(v) \/ Drops(v) \/ Stops) /\ why = "none"
  BY <1>7, ReserveStep DEF Reserve, Usable
<1>8. ASSUME NEW n \in 0 .. MaxSize, Resize(v, n) PROVE (Builds(v) \/ Drops(v) \/ Stops) /\ why = "none"
  BY <1>8, ResizeStep DEF Resize, Usable
<1>9. ASSUME NEW rows \in RowLists, Materialize(v, rows) PROVE Builds(v) /\ why = "none"
  BY <1>9, MaterializeStep DEF Materialize, Usable
<1>10. ASSUME ShrinkToFit(v) PROVE (Builds(v) \/ Stops) /\ why = "none"
  BY <1>10, ShrinkStep DEF ShrinkToFit, Usable
<1>11. ASSUME PopResize(v) PROVE (Builds(v) \/ Views(v) \/ Stops) /\ why = "none"
  BY <1>11, PopResizeStep DEF PopResize, Usable
<1>12. ASSUME Pop(v) \/ Clear(v) PROVE Views(v) /\ why = "none"
  BY <1>12, CutsStep DEF Pop, Clear, Cut, Usable
<1>13. ASSUME Drop(v) \/ UseGone(v) PROVE (Drops(v) \/ Stops) /\ why = "none"
  BY <1>13, DropsAndUses DEF Drop, UseGone, Usable
<1>15. ASSUME InitColumn(v) PROVE Views(v) /\ why = "none"
  BY <1>15, InitColumnStep DEF InitColumn, Usable
<1>14. ASSUME DistinctColumn(v) PROVE (Builds(v) \/ Rewrites(v) \/ Drops(v) \/ Stops) /\ why = "none"
  BY <1>14, DistinctStep DEF DistinctColumn, Usable
<1>. QED BY <1>1, <1>2, <1>3, <1>4, <1>5, <1>6, <1>7, <1>8, <1>9, <1>10, <1>11, <1>12, <1>13, <1>14, <1>15

LEMMA ByPair ==
  ASSUME Order, NEW v \in Vectors, NEW w \in Vectors,
         \/ Borrow(v, w) \/ Copy(v, w) \/ Assign(v, w) \/ Move(v, w) \/ AssignOther(v, w)
         \/ Merge(v, w) \/ MergeRange(v, w) \/ AssignOtherColumn(v, w)
         \/ InitFromMove(v, w) \/ InitFromRef(v, w) \/ InitFromC(v, w)
         \/ \E a \in 0..(vec[w].size - 1) : \E b \in (a + 1)..vec[w].size :
              Subvec(v, w, a, b) \/ SubvecDeep(v, w, a, b)
  PROVE  /\ \/ Builds(v) \/ Views(v) \/ Rewrites(v) \/ Drops(v)
            \/ (v # w /\ Move(v, w)) \/ HandsOn(v, w) \/ Stops
         /\ why = "none"
<1>1. ASSUME Borrow(v, w) PROVE Views(v) /\ why = "none"
  BY <1>1, BorrowStep DEF Borrow, Usable
<1>2. ASSUME Copy(v, w) \/ Assign(v, w) PROVE (Builds(v) \/ Views(v) \/ Stops) /\ why = "none"
  BY <1>2, CopiedStep DEF Copy, Assign, Usable
<1>3. ASSUME Move(v, w) PROVE ((v # w /\ Move(v, w)) \/ Drops(v)) /\ why = "none"
  BY <1>3, MoveToItselfStep DEF Move, Usable
<1>4. ASSUME AssignOther(v, w) PROVE (Builds(v) \/ Stops) /\ why = "none"
  BY <1>4, AssignOtherStep DEF AssignOther, Usable
<1>5. ASSUME Merge(v, w) PROVE (Builds(v) \/ Rewrites(v) \/ Stops) /\ why = "none"
  BY <1>5, MergeStep DEF Merge, Merges, Usable
<1>11. ASSUME MergeRange(v, w) PROVE (Builds(v) \/ Rewrites(v) \/ Stops) /\ why = "none"
  BY <1>11, MergeRangeStep DEF MergeRange, Merges, Usable
<1>6. ASSUME InitFromMove(v, w) \/ AssignOtherColumn(v, w) PROVE HandsOn(v, w) /\ why = "none"
  <2>0. InitFromMove(v, w)
    BY <1>6 DEF AssignOtherColumn
  <2>1. HandsOver(v, w, vec[w], holds[w])
    BY <2>0, HandOver
  <2>2. why = "none" /\ (Owns(v) => LeakExcused)
    BY <2>0 DEF InitFromMove, Usable, LeakExcused, Forgets
  <2>. QED BY <2>1, <2>2 DEF HandsOn
<1>7. ASSUME InitFromRef(v, w) PROVE HandsOn(v, w) /\ why = "none"
  <2>1. HandsOver(v, w, Lent(vec[w]), <<>>)
    BY <1>7, HandOver
  <2>2. (Owns(w) => LeakExcused) /\ (Owns(v) => LeakExcused)
    BY <1>7 DEF LeakExcused, Forgets
  <2>3. why = "none"
    BY <1>7 DEF InitFromRef, Usable
  <2>. DEFINE r == Lent(vec[w])
              list == <<>>
  <2>4. HandsOver(v, w, r, list) /\ (r.cap = vec[w].cap \/ (Owns(w) => LeakExcused))
    BY <2>1, <2>2
  <2>. HIDE DEF r, list
  <2>. QED BY <2>2, <2>3, <2>4 DEF HandsOn
<1>8. ASSUME InitFromC(v, w) PROVE Views(v) /\ why = "none"
  BY <1>8, InitFromCStep DEF InitFromC, Usable
<1>9. ASSUME NEW a \in 0 .. (vec[w].size - 1), NEW b \in (a + 1) .. vec[w].size, Subvec(v, w, a, b)
      PROVE  Views(v) /\ why = "none"
  BY <1>9, SubvecStep DEF Usable
<1>10. ASSUME NEW a \in 0 .. (vec[w].size - 1), NEW b \in (a + 1) .. vec[w].size,
              SubvecDeep(v, w, a, b)
       PROVE  Builds(v) /\ why = "none"
  BY <1>10, SubvecDeepStep DEF SubvecDeep, Usable
<1>. QED BY <1>1, <1>2, <1>3, <1>4, <1>5, <1>6, <1>7, <1>8, <1>9, <1>10, <1>11

LEMMA Steps == Order /\ Next => Kinds /\ why = "none"
<1>. SUFFICES ASSUME Order, Next PROVE Kinds /\ why = "none"
  OBVIOUS
<1>1. CASE \E v \in Vectors :
             \/ \E n \in 0..MaxSize : Make(v, n)
             \/ \E s \in Lists : MakeList(v, s)
             \/ \E x \in Data : AssignValue(v, x) \/ EmplaceBack(v, x) \/ InitFromScalar(v, x)
             \/ \E i \in 1..MaxSize, x \in Data : SetCell(v, i, x)
             \/ \E n \in 0..MaxSize : Reserve(v, n) \/ Resize(v, n)
             \/ \E rows \in RowLists : Materialize(v, rows)
             \/ ShrinkToFit(v) \/ PopResize(v) \/ Pop(v) \/ Clear(v) \/ Drop(v)
             \/ InitColumn(v) \/ DistinctColumn(v) \/ UseGone(v)
  <2>1. \E v \in Vectors :
          (Builds(v) \/ Views(v) \/ Rewrites(v) \/ Drops(v) \/ Stops) /\ why = "none"
    BY <1>1, ByVector
  <2>. QED BY <2>1 DEF Kinds
<1>2. CASE \E v, w \in Vectors :
             \/ Borrow(v, w) \/ Copy(v, w) \/ Assign(v, w) \/ Move(v, w) \/ AssignOther(v, w)
             \/ Merge(v, w) \/ MergeRange(v, w) \/ AssignOtherColumn(v, w)
             \/ InitFromMove(v, w) \/ InitFromRef(v, w) \/ InitFromC(v, w)
             \/ \E a \in 0..(vec[w].size - 1) : \E b \in (a + 1)..vec[w].size :
                  Subvec(v, w, a, b) \/ SubvecDeep(v, w, a, b)
  <2>1. \E v, w \in Vectors :
          /\ \/ Builds(v) \/ Views(v) \/ Rewrites(v) \/ Drops(v)
             \/ (v # w /\ Move(v, w)) \/ HandsOn(v, w) \/ Stops
          /\ why = "none"
    BY <1>2, ByPair
  <2>. QED BY <2>1 DEF Kinds
<1>. QED BY <1>1, <1>2 DEF Next

-----------------------------------------------------------------------------
(* The contents of the vectors.                                              *)

LEMMA KeepsOrder == Order /\ Kinds => Order' /\ (UNCHANGED why \/ UndefinedForCause')
<1>. SUFFICES ASSUME Order, Kinds PROVE Order' /\ (UNCHANGED why \/ UndefinedForCause')
  OBVIOUS
<1>1. CASE \E v \in Vectors : Builds(v) \/ Views(v) \/ Rewrites(v) \/ Drops(v)
  BY <1>1, BuildOrder, ViewOrder, RewriteOrder, DropOrder
<1>2. CASE \E v, w \in Vectors : v # w /\ Move(v, w)
  BY <1>2, MoveOrder
<1>3. CASE \E v, w \in Vectors : HandsOn(v, w)
  BY <1>3, HandOverOrder DEF HandsOn
<1>4. CASE Stops
  BY <1>4, StopOrder
<1>. QED BY <1>1, <1>2, <1>3, <1>4 DEF Kinds

LEMMA Begins == Init => IInv
<1>. SUFFICES ASSUME Init PROVE IInv
  OBVIOUS
<1>1. /\ vec = [v \in Vectors |-> Empty] /\ heap = [b \in 1..MaxBlocks |-> NoBlock]
      /\ holds = [v \in Vectors |-> <<>>] /\ why = "none"
  BY DEF Init
<1>2. NoBlock \in Blocks /\ <<>> \in Seq(Cell)
  BY DEF NoBlock, Blocks
<1>3. Order
  BY <1>1, <1>2, EmptyFields DEF Order
<1>. QED BY <1>1, <1>3 DEF IInv, UndefinedForCause

LEMMA Inductive == Spec => []IInv
<1>1. IInv /\ [Next]_vars => IInv'
  <2>. SUFFICES ASSUME IInv, [Next]_vars PROVE IInv'
    OBVIOUS
  <2>1. CASE Next
    <3>1. Order' /\ why = "none" /\ (UNCHANGED why \/ UndefinedForCause')
      BY <2>1, Steps, KeepsOrder DEF IInv
    <3>2. UNCHANGED why => UndefinedForCause'
      BY <3>1 DEF UndefinedForCause
    <3>. QED BY <3>1, <3>2 DEF IInv
  <2>2. CASE UNCHANGED vars
    BY <2>2 DEF vars, IInv, Order, UndefinedForCause, RoomIsThere, OwnersAlive, EmptyBorrower,
                Owns, Gone, Block
  <2>. QED BY <2>1, <2>2
<1>. QED BY <1>1, Begins, PTL DEF Spec

LEMMA OrderTypes == Order => TypeOK /\ ListKept
<1>. SUFFICES ASSUME Order PROVE TypeOK /\ ListKept
  OBVIOUS
<1>1. ASSUME NEW v \in Vectors
      PROVE  /\ vec[v] \in [at : 0..MaxBlocks, from : 0..MaxSize, size : 0..MaxSize,
                            cap : 0..(2 * MaxSize + 1)]
             /\ ~Owns(v) => holds[v] = <<>>
             /\ Owns(v) /\ ~Gone(v) => Cells(v) = holds[v]
  <2>1. InOrder(vec[v]) /\ Stands(vec[v], heap, holds[v]) /\ vec[v] \in Fields
    BY DEF Order
  <2>2. /\ vec[v].at \in 0 .. MaxBlocks /\ vec[v].from \in Nat /\ vec[v].size \in Nat
        /\ vec[v].cap \in Nat
    BY <2>1 DEF Fields
  <2>3. /\ vec[v].from <= MaxSize /\ vec[v].size <= MaxSize /\ vec[v].cap <= 2 * MaxSize + 1
    BY <2>1, <2>2, Bounds DEF InOrder
  <2>4. /\ vec[v].from \in 0 .. MaxSize /\ vec[v].size \in 0 .. MaxSize
        /\ vec[v].cap \in 0 .. (2 * MaxSize + 1)
    BY <2>2, <2>3, Bounds
  <2>5. vec[v] \in [at : 0..MaxBlocks, from : 0..MaxSize, size : 0..MaxSize,
                    cap : 0..(2 * MaxSize + 1)]
    <3>1. vec[v] = [at |-> vec[v].at, from |-> vec[v].from, size |-> vec[v].size, cap |-> vec[v].cap]
      BY <2>1 DEF Fields
    <3>. DEFINE t == vec[v].at
                f == vec[v].from
                z == vec[v].size
                c == vec[v].cap
    <3>2. t \in 0 .. MaxBlocks /\ f \in 0 .. MaxSize /\ z \in 0 .. MaxSize /\ c \in 0 .. (2 * MaxSize + 1)
      BY <2>2, <2>4
    <3>3. vec[v] = [at |-> t, from |-> f, size |-> z, cap |-> c]
      BY <3>1
    <3>. HIDE DEF t, f, z, c
    <3>. QED BY <3>2, <3>3
  <2>6. ~Owns(v) => holds[v] = <<>>
    BY <2>1, <2>2 DEF Owns, Stands
  <2>7. Owns(v) /\ ~Gone(v) => Cells(v) = holds[v]
    BY SeenShown DEF Seen
  <2>. QED BY <2>5, <2>6, <2>7
<1>2. ASSUME NEW b \in DOMAIN heap
      PROVE  heap[b].live \in BOOLEAN /\ Range(heap[b].cells) \subseteq Data \cup {Blank}
  <2>1. heap[b] \in Blocks
    BY DEF Order
  <2>2. heap[b].live \in BOOLEAN /\ heap[b].cells \in Seq(Cell)
    BY <2>1 DEF Blocks
  <2>3. \A k \in DOMAIN heap[b].cells : heap[b].cells[k] \in Cell
    BY <2>2
  <2>. QED BY <2>2, <2>3 DEF Range, Cell
<1>3. vec \in [Vectors -> [at : 0..MaxBlocks, from : 0..MaxSize, size : 0..MaxSize,
                           cap : 0..(2 * MaxSize + 1)]]
  <2>1. vec \in [Vectors -> Fields]
    BY DEF Order
  <2>. QED BY <1>1, <2>1
<1>. QED BY <1>1, <1>2, <1>3 DEF TypeOK, ListKept

\* A column's list is what its operations say, whatever was copied, moved, lent, grown or cut
\* (vector_type.hpp, table.h); undefined behaviour is met only on a borrower, with a capacity
\* that is not there, or where a vector is the source of its own assignment or merge.
THEOREM KeepsContents == Spec => []ContentsKept
<1>1. IInv => ContentsKept
  BY OrderTypes DEF IInv, ContentsKept
<1>. QED BY <1>1, Inductive, PTL

-----------------------------------------------------------------------------
(* Capacities, and who releases a block.                                     *)

\* No two vectors own one block.
OneEach ==
  \A u, w \in Vectors : Owns(u) /\ Owns(w) /\ vec[u].at = vec[w].at => u = w

LEMMA SingleIsOneEach == Order => (Single <=> OneEach)
<1>. SUFFICES ASSUME Order PROVE Single <=> OneEach
  OBVIOUS
<1>1. ASSUME NEW b PROVE IsFiniteSet(Owners(b)) /\ Cardinality(Owners(b)) \in Nat
  <2>1. Owners(b) \in SUBSET Vectors
    BY DEF Owners
  <2>2. IsFiniteSet(Owners(b))
    BY <2>1, Bounds, FS_Subset
  <2>. QED BY <2>2, FS_CardinalityType
<1>2. ASSUME OneEach, NEW b \in DOMAIN heap PROVE Cardinality(Owners(b)) <= 1
  <2>1. CASE Owners(b) = {}
    <3>1. Cardinality(Owners(b)) = 0
      BY <2>1, FS_EmptySet
    <3>. QED BY <3>1
  <2>2. CASE Owners(b) # {}
    <3>1. PICK u : u \in Owners(b)
      BY <2>2
    <3>2. Owners(b) = {u}
      BY <1>2, <3>1 DEF Owners, OneEach
    <3>3. Cardinality(Owners(b)) = 1
      BY <3>2, FS_Singleton
    <3>. QED BY <3>3
  <2>. QED BY <2>1, <2>2
<1>3. ASSUME Single, NEW u \in Vectors, NEW w \in Vectors, Owns(u), Owns(w), vec[u].at = vec[w].at
      PROVE  u = w
  <2>. DEFINE b == vec[u].at
  <2>1. InOrder(vec[u]) /\ vec[u] \in Fields
    BY DEF Order
  <2>2. b \in 1 .. MaxBlocks
    BY <1>3, <2>1, EmptyFields, Bounds DEF InOrder, Owns, Fields, Null
  <2>3. b \in DOMAIN heap
    BY <2>2 DEF Order
  <2>4. Cardinality(Owners(b)) <= 1
    BY <1>3, <2>3 DEF Single
  <2>5. u \in Owners(b) /\ w \in Owners(b)
    BY <1>3 DEF Owners
  <2>. HIDE DEF b
  <2>6. Cardinality(Owners(b)) # 0
    BY <1>1, <2>5, FS_EmptySet
  <2>7. Cardinality(Owners(b)) = 1
    BY <1>1, <2>4, <2>6
  <2>8. \E x : Owners(b) = {x}
    BY <1>1, <2>7, FS_Singleton
  <2>. QED BY <2>5, <2>8
<1>. QED BY <1>2, <1>3 DEF Single, OneEach

\* What a step may do to the blocks.
BlocksStep ==
  /\ RoomIsThere => RoomIsThere' \/ RoomExcused
  /\ OneEach => OneEach' \/ OwnerExcused
  /\ OwnersAlive /\ OneEach => OwnersAlive' \/ LenderExcused
  /\ Unowned' \subseteq Unowned \/ LeakExcused

LEMMA Places ==
  ASSUME Order, NEW u \in Vectors
  PROVE  /\ vec[u].at \in 0 .. MaxBlocks /\ vec[u].cap \in Nat
         /\ vec[u].at # Null => vec[u].at \in 1 .. MaxBlocks
         /\ Owns(u) => vec[u].at # Null /\ vec[u].at \in 1 .. MaxBlocks
         /\ DOMAIN heap = 1 .. MaxBlocks
<1>1. InOrder(vec[u]) /\ vec[u] \in Fields
  BY DEF Order
<1>2. vec[u].at \in 0 .. MaxBlocks /\ vec[u].cap \in Nat
  BY <1>1 DEF Fields
<1>3. vec[u].at # Null => vec[u].at \in 1 .. MaxBlocks
  BY <1>2, Bounds DEF Null
<1>4. Owns(u) => vec[u].at # Null
  BY <1>1, EmptyFields DEF InOrder, Owns
<1>. QED BY <1>2, <1>3, <1>4 DEF Order

LEMMA AfterBuild ==
  ASSUME Order, NEW v \in Vectors, Builds(v)
  PROVE  \E s \in Seq(Cell), cap \in Nat :
           /\ \A u \in Vectors \ {v} : vec'[u] = vec[u]
           /\ vec'[v].cap = cap /\ vec'[v].at = New(v) /\ (New(v) = Null => cap = 0)
           /\ (cap <= Len(s) \/ RoomExcused) /\ (Len(s) > 0 => cap > 0)
           /\ New(v) # Null => heap'[New(v)] = Held(s)
           /\ DOMAIN heap' = 1 .. MaxBlocks
           /\ \/ /\ Owns(v) => LeakExcused
                 /\ \A b \in 1 .. MaxBlocks : b # New(v) => heap'[b] = heap[b]
              \/ /\ vec[v].at # Null /\ ~Owns(v) => LenderExcused
                 /\ \A b \in 1 .. MaxBlocks :
                      b # New(v) => heap'[b] = IF b = vec[v].at THEN NoBlock ELSE heap[b]
<1>1. PICK h, n, cap, s, list :
        /\ Become(v, Owner(v, n, cap), Malloc(v, h, s), list)
        /\ n \in Nat /\ cap \in Nat /\ s \in Seq(Cell) /\ n <= Len(s)
        /\ (Len(s) > 0 => cap > 0) /\ (cap > 0 => list = SubSeq(s, 1, n))
        /\ cap <= Len(s) \/ RoomExcused
        /\ \/ h = heap /\ (Owns(v) => LeakExcused)
           \/ h = Free(heap, vec[v].at) /\ (vec[v].at # Null /\ ~Owns(v) => LenderExcused)
  BY DEF Builds
<1>. DEFINE r == Owner(v, n, cap)
<1>2. r \in Fields /\ r.at = New(v) /\ r.from = 0 /\ r.size = n /\ r.cap = cap
  BY <1>1, OwnerFields
<1>3. h \in [1 .. MaxBlocks -> Blocks]
  BY <1>1, Freed, Places DEF Order
<1>4. /\ Malloc(v, h, s) \in [1 .. MaxBlocks -> Blocks]
      /\ \A b \in 1 .. MaxBlocks : Malloc(v, h, s)[b] = IF b = New(v) THEN Held(s) ELSE h[b]
  <2>1. s \in Seq(Cell)
    BY <1>1
  <2>. QED BY <1>3, <2>1, Allocated
<1>5. SubSeq(s, 1, n) \in Seq(Cell)
  BY <1>1, FirstCells
<1>. DEFINE l == IF cap > 0 THEN list ELSE <<>>
<1>6. l \in Seq(Cell)
  BY <1>1, <1>5
<1>7. Become(v, r, Malloc(v, h, s), l)
  BY <1>1, <1>2 DEF Become
<1>. HIDE DEF r, l
<1>8. /\ heap' = Malloc(v, h, s) /\ vec'[v] = r
      /\ \A u \in Vectors \ {v} : vec'[u] = vec[u]
      /\ (r.at = Null => r = Empty)
  BY <1>2, <1>6, <1>7, Becomes
<1>9. New(v) = Null => cap = 0
  BY <1>2, <1>8, EmptyFields
<1>10. New(v) # Null => heap'[New(v)] = Held(s)
  BY <1>4, <1>8, NewBlock
<1>11. \A b \in 1 .. MaxBlocks : b # New(v) => heap'[b] = h[b]
  BY <1>4, <1>8
<1>12. \/ /\ Owns(v) => LeakExcused
          /\ \A b \in 1 .. MaxBlocks : b # New(v) => heap'[b] = heap[b]
       \/ /\ vec[v].at # Null /\ ~Owns(v) => LenderExcused
          /\ \A b \in 1 .. MaxBlocks :
               b # New(v) => heap'[b] = IF b = vec[v].at THEN NoBlock ELSE heap[b]
  <2>1. CASE h = heap /\ (Owns(v) => LeakExcused)
    BY <1>11, <2>1
  <2>2. CASE h = Free(heap, vec[v].at) /\ (vec[v].at # Null /\ ~Owns(v) => LenderExcused)
    <3>1. \A b \in 1 .. MaxBlocks : h[b] = IF b = vec[v].at THEN NoBlock ELSE heap[b]
      BY <2>2, Freed, Places
    <3>. QED BY <1>11, <2>2, <3>1
  <2>. QED BY <1>1, <2>1, <2>2
<1>13. DOMAIN heap' = 1 .. MaxBlocks
  BY <1>4, <1>8
<1>. QED BY <1>1, <1>2, <1>8, <1>9, <1>10, <1>12, <1>13

LEMMA BuildBlocks ==
  ASSUME Order, NEW v \in Vectors, Builds(v)
  PROVE  BlocksStep
<1>1. PICK s \in Seq(Cell), cap \in Nat :
        /\ \A u \in Vectors \ {v} : vec'[u] = vec[u]
        /\ vec'[v].cap = cap /\ vec'[v].at = New(v) /\ (New(v) = Null => cap = 0)
        /\ (cap <= Len(s) \/ RoomExcused) /\ (Len(s) > 0 => cap > 0)
        /\ New(v) # Null => heap'[New(v)] = Held(s)
        /\ DOMAIN heap' = 1 .. MaxBlocks
        /\ \/ /\ Owns(v) => LeakExcused
              /\ \A b \in 1 .. MaxBlocks : b # New(v) => heap'[b] = heap[b]
           \/ /\ vec[v].at # Null /\ ~Owns(v) => LenderExcused
              /\ \A b \in 1 .. MaxBlocks :
                   b # New(v) => heap'[b] = IF b = vec[v].at THEN NoBlock ELSE heap[b]
  BY AfterBuild
<1>2. \A u \in Vectors \ {v} : Owns(u) => vec[u].at \in 1 .. MaxBlocks /\ vec[u].at # New(v)
  BY Places, NewBlock
<1>3. \A u \in Vectors \ {v} : vec'[u] = vec[u] /\ (Owns(u)' <=> Owns(u))
  BY <1>1 DEF Owns
<1>4. Owns(v)' => cap > 0 /\ New(v) # Null /\ heap'[New(v)].live /\ heap'[New(v)].cells = s
  BY <1>1, HeldCells DEF Owns
<1>5. /\ NoBlock.live = FALSE
      /\ \A b \in 1 .. MaxBlocks : b # New(v) => heap'[b] = heap[b] \/ heap'[b] = NoBlock
  BY <1>1 DEF NoBlock
<1>6. RoomIsThere => RoomIsThere' \/ RoomExcused
  <2>. SUFFICES ASSUME RoomIsThere, ~RoomExcused, NEW u \in Vectors, Owns(u)', ~Gone(u)'
                PROVE  vec'[u].cap <= Len(heap'[vec'[u].at].cells)
    BY DEF RoomIsThere, Block
  <2>1. CASE u = v
    BY <1>1, <1>4, <2>1
  <2>2. CASE u # v
    <3>1. Owns(u) /\ vec'[u] = vec[u] /\ vec[u].at \in 1 .. MaxBlocks /\ vec[u].at # New(v)
      BY <1>2, <1>3, <2>2
    <3>2. heap'[vec[u].at] = heap[vec[u].at]
      BY <1>5, <3>1, Places DEF Gone
    <3>3. ~Gone(u)
      BY <3>1, <3>2 DEF Gone
    <3>. QED BY <3>1, <3>2, <3>3 DEF RoomIsThere, Block
  <2>. QED BY <2>1, <2>2
<1>7. OneEach => OneEach'
  <2>. SUFFICES ASSUME OneEach, NEW u \in Vectors, NEW w \in Vectors, Owns(u)', Owns(w)',
                       vec'[u].at = vec'[w].at
                PROVE  u = w
    BY DEF OneEach
  <2>. QED BY <1>1, <1>2, <1>3 DEF OneEach
<1>8. OwnersAlive /\ OneEach => OwnersAlive' \/ LenderExcused
  <2>. SUFFICES ASSUME OwnersAlive, OneEach, ~LenderExcused, NEW u \in Vectors, Owns(u)'
                PROVE  heap'[vec'[u].at].live
    BY DEF OwnersAlive, Gone
  <2>1. CASE u = v
    BY <1>1, <1>4, <2>1
  <2>2. CASE u # v
    <3>1. Owns(u) /\ vec'[u] = vec[u] /\ vec[u].at \in 1 .. MaxBlocks /\ vec[u].at # New(v)
      BY <1>2, <1>3, <2>2
    <3>2. heap[vec[u].at].live
      BY <3>1, Places DEF OwnersAlive, Gone
    <3>3. Owns(v) => vec[u].at # vec[v].at
      BY <2>2, <3>1 DEF OneEach
    <3>4. vec[v].at = Null => vec[u].at # vec[v].at
      BY <3>1, Places
    <3>5. heap'[vec[u].at] = heap[vec[u].at]
      BY <1>1, <3>1, <3>3, <3>4
    <3>. QED BY <3>1, <3>2, <3>5
  <2>. QED BY <2>1, <2>2
<1>9. Unowned' \subseteq Unowned \/ LeakExcused
  <2>. SUFFICES ASSUME ~LeakExcused, NEW b \in 1 .. MaxBlocks, heap'[b].live, heap'[b].cells # <<>>,
                       \A u \in Vectors : ~(Owns(u)' /\ vec'[u].at = b)
                PROVE  heap[b].live /\ heap[b].cells # <<>> /\ \A u \in Vectors : ~(Owns(u) /\ vec[u].at = b)
    <3>1. DOMAIN heap = 1 .. MaxBlocks /\ DOMAIN heap' = 1 .. MaxBlocks
      BY <1>1 DEF Order
    <3>. QED BY <3>1 DEF Unowned, Owners
  <2>1. b # New(v)
    <3>1. ASSUME b = New(v) PROVE FALSE
      <4>1. New(v) # Null
        BY <3>1 DEF Null
      <4>2. heap'[b].cells = s
        BY <1>1, <3>1, <4>1, HeldCells
      <4>3. s # <<>> /\ Len(s) > 0
        BY <4>2
      <4>4. Owns(v)' /\ vec'[v].at = b
        BY <1>1, <3>1, <4>3 DEF Owns
      <4>. QED BY <4>4
    <3>. QED BY <3>1
  <2>2. heap'[b] = heap[b]
    BY <1>5, <2>1
  <2>3. ASSUME NEW u \in Vectors, Owns(u), vec[u].at = b PROVE FALSE
    <3>1. CASE u # v
      BY <1>3, <2>3, <3>1
    <3>2. CASE u = v
      <4>1. heap'[b] = NoBlock
        BY <1>1, <2>1, <2>3, <3>2
      <4>. QED BY <1>5, <4>1
    <3>. QED BY <3>1, <3>2
  <2>. QED BY <2>2, <2>3
<1>. QED BY <1>6, <1>7, <1>8, <1>9 DEF BlocksStep

LEMMA ViewBlocks ==
  ASSUME Order, NEW v \in Vectors, Views(v)
  PROVE  BlocksStep
<1>1. PICK r, list : /\ Become(v, r, heap, list) /\ InOrder(r)
                     /\ r.cap > 0 => heap[r.at].live
                     /\ \/ r.cap = 0 /\ (Owns(v) => LeakExcused)
                        \/ r.cap = vec[v].cap /\ r.at = vec[v].at
                        \/ /\ (Owns(v) => LeakExcused) /\ OwnerExcused
                           /\ \E w \in Vectors : r.cap = vec[w].cap /\ r.at = vec[w].at
  BY DEF Views
<1>2. r \in Fields /\ r.cap \in Nat
  BY <1>1 DEF InOrder, Fields
<1>3. vec' = [vec EXCEPT ![v] = r] /\ heap' = heap
  BY <1>1 DEF Become
<1>4. vec'[v] = r /\ \A u \in Vectors \ {v} : vec'[u] = vec[u]
  BY <1>3 DEF Order
<1>5. (Owns(v)' <=> r.cap > 0) /\ \A u \in Vectors \ {v} : Owns(u)' <=> Owns(u)
  BY <1>4 DEF Owns
<1>6. RoomIsThere => RoomIsThere'
  <2>. SUFFICES ASSUME RoomIsThere, NEW u \in Vectors, Owns(u)', ~Gone(u)'
                PROVE  vec'[u].cap <= Len(heap[vec'[u].at].cells)
    BY <1>3 DEF RoomIsThere, Block
  <2>1. PICK w \in Vectors : vec'[u].cap = vec[w].cap /\ vec'[u].at = vec[w].at
    <3>1. CASE u = v
      BY <1>1, <1>2, <1>4, <1>5, <3>1
    <3>2. CASE u # v
      BY <1>4, <3>2
    <3>. QED BY <3>1, <3>2
  <2>2. Owns(w) /\ ~Gone(w)
    BY <1>3, <2>1 DEF Owns, Gone
  <2>. QED BY <2>1, <2>2 DEF RoomIsThere, Block
<1>7. OneEach => OneEach' \/ OwnerExcused
  <2>. SUFFICES ASSUME OneEach, ~OwnerExcused, NEW u \in Vectors, NEW w \in Vectors, Owns(u)', Owns(w)',
                       vec'[u].at = vec'[w].at
                PROVE  u = w
    BY DEF OneEach
  <2>1. \A x \in Vectors : Owns(x)' => Owns(x) /\ vec'[x].at = vec[x].at
    BY <1>1, <1>2, <1>4, <1>5 DEF Owns
  <2>. QED BY <2>1 DEF OneEach
<1>8. OwnersAlive => OwnersAlive'
  <2>. SUFFICES ASSUME OwnersAlive, NEW u \in Vectors, Owns(u)'
                PROVE  ~Gone(u)'
    BY DEF OwnersAlive
  <2>1. CASE u = v
    BY <1>1, <1>3, <1>4, <1>5, <2>1 DEF Gone
  <2>2. CASE u # v
    BY <1>3, <1>4, <1>5, <2>2 DEF OwnersAlive, Gone
  <2>. QED BY <2>1, <2>2
<1>9. Unowned' \subseteq Unowned \/ LeakExcused
  <2>. SUFFICES ASSUME ~LeakExcused, NEW b, \A u \in Vectors : ~(Owns(u)' /\ vec'[u].at = b),
                       NEW u \in Vectors, Owns(u), vec[u].at = b
                PROVE  FALSE
    BY <1>3 DEF Unowned, Owners
  <2>1. CASE u = v
    BY <1>1, <1>2, <1>4, <1>5, <2>1 DEF Owns
  <2>2. CASE u # v
    BY <1>4, <1>5, <2>2
  <2>. QED BY <2>1, <2>2
<1>. QED BY <1>6, <1>7, <1>8, <1>9 DEF BlocksStep

LEMMA RewriteBlocks ==
  ASSUME Order, NEW v \in Vectors, Rewrites(v)
  PROVE  BlocksStep
<1>. DEFINE b == vec[v].at
<1>1. PICK n, cells, list :
        LET r == [vec[v] EXCEPT !.size = n] IN
        /\ Rewrite(v, r, b, cells, list) /\ b # Null /\ heap[b].live
        /\ cells \in Seq(Cell) /\ Len(Block(b)) <= Len(cells)
        /\ Owns(v) \/ Len(cells) = Len(Block(b))
  BY DEF Rewrites
<1>. DEFINE r == [vec[v] EXCEPT !.size = n]
<1>2. r.at = b /\ r.cap = vec[v].cap
  BY DEF Order, Fields
<1>3. vec' = [vec EXCEPT ![v] = r] /\ heap' = [heap EXCEPT ![b].cells = cells]
  BY <1>1 DEF Rewrite
<1>. HIDE DEF r
<1>4. \A u \in Vectors : vec'[u].at = vec[u].at /\ vec'[u].cap = vec[u].cap
  BY <1>2, <1>3 DEF Order
<1>5. b \in 1 .. MaxBlocks
  BY <1>1, Places
<1>. DEFINE h == [heap EXCEPT ![b].cells = cells]
<1>6. /\ h \in [1 .. MaxBlocks -> Blocks] /\ h[b].cells = cells /\ (h[b].live <=> heap[b].live)
      /\ \A c \in 1 .. MaxBlocks : c # b => h[c] = heap[c]
  <2>1. cells \in Seq(Cell)
    BY <1>1
  <2>. HIDE DEF b
  <2>. QED BY <1>5, <2>1, Written
<1>7. heap' = h
  BY <1>3
<1>. HIDE DEF h
<1>8. /\ DOMAIN heap' = 1 .. MaxBlocks
      /\ \A c \in 1 .. MaxBlocks : heap'[c].live <=> heap[c].live
      /\ \A c \in 1 .. MaxBlocks : Len(heap[c].cells) <= Len(heap'[c].cells)
      /\ \A c \in 1 .. MaxBlocks : c # b => heap'[c] = heap[c]
  <2>1. \A c \in 1 .. MaxBlocks : Len(heap[c].cells) \in Nat
    BY DEF Order, Blocks
  <2>2. Len(heap[b].cells) <= Len(cells)
    BY <1>1 DEF Block
  <2>. HIDE DEF b
  <2>3. ASSUME NEW c \in 1 .. MaxBlocks PROVE Len(heap[c].cells) <= Len(h[c].cells)
    <3>1. CASE c = b
      BY <1>6, <2>2, <3>1
    <3>2. CASE c # b
      <4>1. h[c] = heap[c] /\ Len(heap[c].cells) \in Nat
        BY <1>6, <2>1, <3>2
      <4>. QED BY <4>1
    <3>. QED BY <3>1, <3>2
  <2>4. DOMAIN h = 1 .. MaxBlocks /\ \A c \in 1 .. MaxBlocks : h[c].live <=> heap[c].live
    BY <1>6
  <2>. QED BY <1>6, <1>7, <2>3, <2>4
<1>9. \A u \in Vectors : Owns(u)' <=> Owns(u)
  BY <1>4 DEF Owns
<1>10. \A u \in Vectors : Owns(u) => (Gone(u)' <=> Gone(u))
  BY <1>4, <1>8, Places DEF Gone
<1>11. RoomIsThere => RoomIsThere'
  <2>. SUFFICES ASSUME RoomIsThere, NEW u \in Vectors, Owns(u), ~Gone(u)
                PROVE  vec[u].cap <= Len(heap'[vec[u].at].cells)
    BY <1>4, <1>9, <1>10 DEF RoomIsThere, Block
  <2>1. vec[u].cap <= Len(heap[vec[u].at].cells) /\ vec[u].at \in 1 .. MaxBlocks /\ vec[u].cap \in Nat
    BY Places DEF RoomIsThere, Block
  <2>2. /\ Len(heap[vec[u].at].cells) \in Nat /\ Len(heap'[vec[u].at].cells) \in Nat
        /\ Len(heap[vec[u].at].cells) <= Len(heap'[vec[u].at].cells)
    BY <1>6, <1>7, <1>8, <2>1 DEF Order, Blocks
  <2>. DEFINE l == Len(heap[vec[u].at].cells)
              m == Len(heap'[vec[u].at].cells)
              k == vec[u].cap
  <2>3. k \in Nat /\ l \in Nat /\ m \in Nat /\ k <= l /\ l <= m
    BY <2>1, <2>2
  <2>. HIDE DEF l, m, k
  <2>4. k <= m
    BY <2>3
  <2>. QED BY <2>4 DEF k, m
<1>12. OneEach => OneEach'
  BY <1>4, <1>9 DEF OneEach
<1>13. OwnersAlive => OwnersAlive'
  BY <1>9, <1>10 DEF OwnersAlive
<1>14. Unowned' \subseteq Unowned
  <2>. SUFFICES ASSUME NEW c \in 1 .. MaxBlocks, heap'[c].live, heap'[c].cells # <<>>,
                       \A u \in Vectors : ~(Owns(u) /\ vec[u].at = c)
                PROVE  heap[c].live /\ heap[c].cells # <<>>
    <3>1. DOMAIN heap = 1 .. MaxBlocks /\ DOMAIN heap' = 1 .. MaxBlocks
      BY <1>8 DEF Order
    <3>. QED BY <1>4, <1>9, <3>1 DEF Unowned, Owners
  <2>1. CASE c = b
    <3>1. ~Owns(v) /\ heap'[b].cells = cells
      BY <1>6, <1>7, <2>1
    <3>2. Len(cells) = Len(heap[b].cells)
      BY <1>1, <3>1 DEF Block
    <3>3. cells # <<>> /\ cells \in Seq(Cell)
      BY <1>1, <2>1, <3>1
    <3>4. Len(cells) > 0
      BY <3>3
    <3>5. heap[b].cells # <<>>
      BY <3>2, <3>4
    <3>. QED BY <1>8, <2>1, <3>5
  <2>2. CASE c # b
    BY <1>8, <2>2
  <2>. QED BY <2>1, <2>2
<1>. QED BY <1>11, <1>12, <1>13, <1>14 DEF BlocksStep

\* A block that its owner gives up.
LEMMA GivenUp ==
  ASSUME Order, NEW v \in Vectors,
         heap' = IF Owns(v) THEN Free(heap, vec[v].at) ELSE heap
  PROVE  /\ DOMAIN heap' = 1 .. MaxBlocks /\ NoBlock.live = FALSE
         /\ \A b \in 1 .. MaxBlocks :
              heap'[b] = IF Owns(v) /\ b = vec[v].at THEN NoBlock ELSE heap[b]
<1>1. CASE Owns(v)
  BY <1>1, Freed, Places
<1>2. CASE ~Owns(v)
  BY <1>2, Places DEF NoBlock
<1>. QED BY <1>1, <1>2

\* A vector takes the place of another, or is emptied, and gives up what it owned.
LEMMA DropBlocks ==
  ASSUME Order, NEW v \in Vectors, Drops(v)
  PROVE  BlocksStep
<1>1. /\ vec' = [vec EXCEPT ![v] = Empty]
      /\ heap' = heap \/ heap' = Free(heap, vec[v].at)
      /\ Owns(v) => heap' = Free(heap, vec[v].at)
      /\ Owns(v) \/ heap' = heap \/ LenderExcused
  BY DEF Drops, Become
<1>2. /\ DOMAIN heap' = 1 .. MaxBlocks /\ NoBlock.live = FALSE
      /\ \A b \in 1 .. MaxBlocks :
           heap'[b] = heap[b] \/ (b = vec[v].at /\ heap'[b] = NoBlock)
      /\ \A b \in 1 .. MaxBlocks : Owns(v) /\ b = vec[v].at => heap'[b] = NoBlock
  <2>1. CASE heap' = heap
    BY <1>1, <2>1, Freed, Places
  <2>2. CASE heap' = Free(heap, vec[v].at)
    BY <2>2, Freed, Places
  <2>. QED BY <1>1, <2>1, <2>2
<1>3. ~Owns(v)' /\ \A u \in Vectors \ {v} : vec'[u] = vec[u] /\ (Owns(u)' <=> Owns(u))
  <2>1. vec'[v] = Empty /\ \A u \in Vectors \ {v} : vec'[u] = vec[u]
    BY <1>1 DEF Order
  <2>. QED BY <2>1, EmptyFields DEF Owns
<1>4. RoomIsThere => RoomIsThere'
  <2>. SUFFICES ASSUME RoomIsThere, NEW u \in Vectors, Owns(u)', ~Gone(u)'
                PROVE  vec'[u].cap <= Len(heap'[vec'[u].at].cells)
    BY DEF RoomIsThere, Block
  <2>1. u # v /\ vec'[u] = vec[u] /\ Owns(u) /\ vec[u].at # Null /\ vec[u].at \in 1 .. MaxBlocks
    BY <1>3, Places
  <2>2. heap'[vec[u].at] = heap[vec[u].at]
    BY <1>2, <2>1 DEF Gone
  <2>. QED BY <2>1, <2>2 DEF RoomIsThere, Block, Gone
<1>5. OneEach => OneEach'
  BY <1>3 DEF OneEach
<1>6. OwnersAlive /\ OneEach => OwnersAlive' \/ LenderExcused
  <2>. SUFFICES ASSUME OwnersAlive, OneEach, ~LenderExcused, NEW u \in Vectors, Owns(u)'
                PROVE  ~Gone(u)'
    BY DEF OwnersAlive
  <2>1. u # v /\ vec'[u] = vec[u] /\ Owns(u) /\ vec[u].at # Null /\ vec[u].at \in 1 .. MaxBlocks
    BY <1>3, Places
  <2>2. heap'[vec[u].at] = heap[vec[u].at]
    <3>1. CASE Owns(v)
      BY <1>2, <2>1, <3>1 DEF OneEach
    <3>2. CASE ~Owns(v)
      BY <1>1, <3>2
    <3>. QED BY <3>1, <3>2
  <2>. QED BY <2>1, <2>2 DEF OwnersAlive, Gone
<1>7. Unowned' \subseteq Unowned
  <2>0. DOMAIN heap = 1 .. MaxBlocks
    BY DEF Order
  <2>. SUFFICES ASSUME NEW b \in 1 .. MaxBlocks, heap'[b].live, heap'[b].cells # <<>>,
                       \A u \in Vectors : ~(Owns(u)' /\ vec'[u].at = b)
                PROVE  heap[b].live /\ heap[b].cells # <<>> /\ \A u \in Vectors : ~(Owns(u) /\ vec[u].at = b)
    BY <1>2, <2>0 DEF Unowned, Owners
  <2>1. heap'[b] = heap[b] /\ ~(Owns(v) /\ b = vec[v].at)
    BY <1>2
  <2>. QED BY <1>3, <2>1
<1>. QED BY <1>4, <1>5, <1>6, <1>7 DEF BlocksStep

LEMMA MoveBlocks ==
  ASSUME Order, NEW v \in Vectors, NEW w \in Vectors, v # w, Move(v, w)
  PROVE  BlocksStep
<1>1. /\ v # w /\ vec' = [vec EXCEPT ![v] = vec[w], ![w] = Empty]
      /\ heap' = IF Owns(v) THEN Free(heap, vec[v].at) ELSE heap
  BY DEF Move
<1>2. /\ DOMAIN heap' = 1 .. MaxBlocks /\ NoBlock.live = FALSE
      /\ \A b \in 1 .. MaxBlocks :
           heap'[b] = IF Owns(v) /\ b = vec[v].at THEN NoBlock ELSE heap[b]
  BY <1>1, GivenUp
<1>3. /\ vec'[v] = vec[w] /\ (Owns(v)' <=> Owns(w)) /\ ~Owns(w)'
      /\ \A u \in Vectors \ {v, w} : vec'[u] = vec[u] /\ (Owns(u)' <=> Owns(u))
  <2>1. vec'[v] = vec[w] /\ vec'[w] = Empty /\ \A u \in Vectors \ {v, w} : vec'[u] = vec[u]
    BY <1>1 DEF Order
  <2>. QED BY <2>1, EmptyFields DEF Owns
\* Who owns a block after it had a place before.
<1>4. \A u \in Vectors : Owns(u)' =>
        \E x \in Vectors \ {v} : Owns(x) /\ vec'[u] = vec[x] /\ x = (IF u = v THEN w ELSE u)
  BY <1>1, <1>3
<1>5. RoomIsThere => RoomIsThere'
  <2>. SUFFICES ASSUME RoomIsThere, NEW u \in Vectors, Owns(u)', ~Gone(u)'
                PROVE  vec'[u].cap <= Len(heap'[vec'[u].at].cells)
    BY DEF RoomIsThere, Block
  <2>1. PICK x \in Vectors : x # v /\ vec'[u] = vec[x] /\ Owns(x)
    BY <1>4
  <2>2. vec[x].at # Null /\ vec[x].at \in 1 .. MaxBlocks
    BY <2>1, Places
  <2>3. heap'[vec[x].at] = heap[vec[x].at]
    BY <1>2, <2>1, <2>2 DEF Gone
  <2>. QED BY <2>1, <2>3 DEF RoomIsThere, Block, Gone
<1>6. OneEach => OneEach'
  <2>. SUFFICES ASSUME OneEach, NEW u \in Vectors, NEW y \in Vectors, Owns(u)', Owns(y)',
                       vec'[u].at = vec'[y].at
                PROVE  u = y
    BY DEF OneEach
  <2>1. PICK x \in Vectors : Owns(x) /\ vec'[u] = vec[x] /\ x = (IF u = v THEN w ELSE u)
    BY <1>4
  <2>2. PICK z \in Vectors : Owns(z) /\ vec'[y] = vec[z] /\ z = (IF y = v THEN w ELSE y)
    BY <1>4
  <2>3. x = z
    BY <2>1, <2>2 DEF OneEach
  <2>4. u # w /\ y # w
    BY <1>3
  <2>. QED BY <2>1, <2>2, <2>3, <2>4
<1>7. OwnersAlive /\ OneEach => OwnersAlive'
  <2>. SUFFICES ASSUME OwnersAlive, OneEach, NEW u \in Vectors, Owns(u)'
                PROVE  ~Gone(u)'
    BY DEF OwnersAlive
  <2>1. PICK x \in Vectors : x # v /\ vec'[u] = vec[x] /\ Owns(x)
    BY <1>4
  <2>2. vec[x].at # Null /\ vec[x].at \in 1 .. MaxBlocks
    BY <2>1, Places
  <2>3. heap'[vec[x].at] = heap[vec[x].at]
    BY <1>2, <2>1, <2>2 DEF OneEach
  <2>. QED BY <2>1, <2>3 DEF OwnersAlive, Gone
<1>8. Unowned' \subseteq Unowned
  <2>0. DOMAIN heap = 1 .. MaxBlocks
    BY DEF Order
  <2>. SUFFICES ASSUME NEW b \in 1 .. MaxBlocks, heap'[b].live, heap'[b].cells # <<>>,
                       \A u \in Vectors : ~(Owns(u)' /\ vec'[u].at = b)
                PROVE  heap[b].live /\ heap[b].cells # <<>> /\ \A u \in Vectors : ~(Owns(u) /\ vec[u].at = b)
    BY <1>2, <2>0 DEF Unowned, Owners
  <2>1. heap'[b] = heap[b] /\ ~(Owns(v) /\ b = vec[v].at)
    BY <1>2
  <2>. QED BY <1>3, <2>1
<1>. QED BY <1>5, <1>6, <1>7, <1>8 DEF BlocksStep

LEMMA HandOverBlocks ==
  ASSUME Order, NEW c \in Vectors, NEW w \in Vectors, HandsOn(c, w)
  PROVE  BlocksStep
<1>1. PICK r, list : HandsOver(c, w, r, list) /\ (r.cap = vec[w].cap \/ (Owns(w) => LeakExcused))
  BY DEF HandsOn
<1>0. Owns(c) => LeakExcused
  BY DEF HandsOn
<1>2. /\ \A u \in Vectors \ {c, w} : vec'[u] = vec[u]
      /\ vec'[w] = Lent(vec[w])
      /\ c # w => vec'[c] = r
      /\ r.at = vec[w].at /\ r.cap \in {0, vec[w].cap} /\ heap' = heap
  BY <1>1, HandedOver
<1>3. Lent(vec[w]).cap = 0
  BY GivesUp DEF Order
<1>4. ~Owns(w)'
  BY <1>2, <1>3 DEF Owns
<1>5. \A u \in Vectors : Owns(u)' =>
        \E x \in Vectors : /\ Owns(x) /\ x = (IF u = c THEN w ELSE u)
                           /\ vec'[u].at = vec[x].at /\ vec'[u].cap = vec[x].cap
  <2>. SUFFICES ASSUME NEW u \in Vectors, Owns(u)'
                PROVE  \E x \in Vectors : /\ Owns(x) /\ x = (IF u = c THEN w ELSE u)
                                          /\ vec'[u].at = vec[x].at /\ vec'[u].cap = vec[x].cap
    OBVIOUS
  <2>1. u # w
    BY <1>4
  <2>2. CASE u = c
    <3>1. vec'[u] = r
      BY <1>2, <2>1, <2>2
    <3>2. r.cap > 0 /\ r.cap = vec[w].cap
      BY <1>2, <3>1 DEF Owns
    <3>. QED BY <1>2, <2>2, <3>1, <3>2 DEF Owns
  <2>3. CASE u # c
    BY <1>2, <2>1, <2>3 DEF Owns
  <2>. QED BY <2>2, <2>3
<1>6. RoomIsThere => RoomIsThere'
  <2>. SUFFICES ASSUME RoomIsThere, NEW u \in Vectors, Owns(u)', ~Gone(u)'
                PROVE  vec'[u].cap <= Len(heap[vec'[u].at].cells)
    BY <1>2 DEF RoomIsThere, Block
  <2>1. PICK x \in Vectors : Owns(x) /\ vec'[u].at = vec[x].at /\ vec'[u].cap = vec[x].cap
    BY <1>5
  <2>2. ~Gone(x)
    BY <1>2, <2>1 DEF Gone
  <2>. QED BY <2>1, <2>2 DEF RoomIsThere, Block
<1>7. OneEach => OneEach'
  <2>. SUFFICES ASSUME OneEach, NEW u \in Vectors, NEW y \in Vectors, Owns(u)', Owns(y)',
                       vec'[u].at = vec'[y].at
                PROVE  u = y
    BY DEF OneEach
  <2>1. PICK x \in Vectors : Owns(x) /\ vec'[u].at = vec[x].at /\ x = (IF u = c THEN w ELSE u)
    BY <1>5
  <2>2. PICK z \in Vectors : Owns(z) /\ vec'[y].at = vec[z].at /\ z = (IF y = c THEN w ELSE y)
    BY <1>5
  <2>3. x = z
    BY <2>1, <2>2 DEF OneEach
  <2>4. u # w /\ y # w
    BY <1>4
  <2>. QED BY <2>1, <2>2, <2>3, <2>4
<1>8. OwnersAlive => OwnersAlive'
  <2>. SUFFICES ASSUME OwnersAlive, NEW u \in Vectors, Owns(u)'
                PROVE  ~Gone(u)'
    BY DEF OwnersAlive
  <2>1. PICK x \in Vectors : Owns(x) /\ vec'[u].at = vec[x].at
    BY <1>5
  <2>. QED BY <1>2, <2>1 DEF OwnersAlive, Gone
<1>9. Unowned' \subseteq Unowned \/ LeakExcused
  <2>. SUFFICES ASSUME ~LeakExcused, NEW b, \A u \in Vectors : ~(Owns(u)' /\ vec'[u].at = b),
                       NEW u \in Vectors, Owns(u), vec[u].at = b
                PROVE  FALSE
    BY <1>2 DEF Unowned, Owners
  <2>1. u # c
    BY <1>0
  <2>2. CASE u = w
    <3>1. vec'[c] = r /\ r.cap = vec[w].cap
      BY <1>1, <1>2, <2>1, <2>2
    <3>. QED BY <1>2, <2>2, <3>1 DEF Owns
  <2>3. CASE u # w
    <3>1. vec'[u] = vec[u]
      BY <1>2, <2>1, <2>3
    <3>. QED BY <3>1 DEF Owns
  <2>. QED BY <2>2, <2>3
<1>. QED BY <1>6, <1>7, <1>8, <1>9 DEF BlocksStep

LEMMA StillBlocks ==
  ASSUME UNCHANGED <<vec, heap>>
  PROVE  BlocksStep
BY DEF BlocksStep, RoomIsThere, OneEach, OwnersAlive, Unowned, Owners, Owns, Gone, Block

LEMMA AnyStep == Order /\ [Next]_vars => BlocksStep
<1>. SUFFICES ASSUME Order, [Next]_vars PROVE BlocksStep
  OBVIOUS
<1>1. CASE Next
  <2>1. Kinds
    BY <1>1, Steps
  <2>2. CASE \E v \in Vectors : Builds(v) \/ Views(v) \/ Rewrites(v) \/ Drops(v)
    BY <2>2, BuildBlocks, ViewBlocks, RewriteBlocks, DropBlocks
  <2>3. CASE \E v, w \in Vectors : (v # w /\ Move(v, w)) \/ HandsOn(v, w)
    BY <2>3, MoveBlocks, HandOverBlocks
  <2>4. CASE Stops
    BY <2>4, StopOrder, StillBlocks
  <2>. QED BY <2>1, <2>2, <2>3, <2>4 DEF Kinds
<1>2. CASE UNCHANGED vars
  BY <1>2, StillBlocks DEF vars
<1>. QED BY <1>1, <1>2

\* emplace_back, reserve, resize, merge and the others never count on cells that are not there:
\* only the copy of a vector with room to spare takes over a capacity without its cells.
THEOREM RoomStays == Spec => CapacityIsReal
<1>1. Order /\ [Next]_vars =>
        [RoomIsThere =>
           \/ RoomIsThere'
           \/ \E v, w \in Vectors : vec[w].cap > vec[w].size /\ (Copy(v, w) \/ Assign(v, w))]_vars
  BY AnyStep DEF BlocksStep, RoomExcused
<1>2. IInv => Order
  BY DEF IInv
<1>. QED BY <1>1, <1>2, Inductive, PTL DEF Spec, CapacityIsReal

\* As long as every block has one owner and every owner its block, no operation gives a block a
\* second owner, frees one that is lent or in use, or forgets one, but those named in the
\* properties.
THEOREM KeepsBlocks == Spec => BlocksKept
<1>1. Order /\ Order' /\ [Next]_vars => [Single => Single' \/ \E c, w \in Vectors : InitFromC(c, w)]_vars
  <2>. SUFFICES ASSUME Order, Order', [Next]_vars, Single
                PROVE  Single' \/ \E c, w \in Vectors : InitFromC(c, w)
    OBVIOUS
  <2>1. OneEach' \/ OwnerExcused
    BY AnyStep, SingleIsOneEach DEF BlocksStep
  <2>2. Order' => (Single' <=> OneEach')
    BY SingleIsOneEach, PTL
  <2>. QED BY <2>1, <2>2 DEF OwnerExcused
<1>2. Order /\ [Next]_vars =>
        [OwnersAlive /\ Single => OwnersAlive' \/ \E v \in Vectors : TakesFromLender(v)]_vars
  BY AnyStep, SingleIsOneEach DEF BlocksStep, LenderExcused
<1>3. Order /\ [Next]_vars =>
        [Unowned' \subseteq Unowned \/ \E v \in Vectors : Forgets(v)]_vars
  BY AnyStep DEF BlocksStep, LeakExcused
<1>4. IInv => Order
  BY DEF IInv
<1>5. Spec => OneOwner
  BY <1>1, <1>4, Inductive, PTL DEF Spec, OneOwner
<1>6. Spec => LenderKeepsBlock
  BY <1>2, <1>4, Inductive, PTL DEF Spec, LenderKeepsBlock
<1>7. Spec => NothingLeaks
  BY <1>3, <1>4, Inductive, PTL DEF Spec, NothingLeaks
<1>. QED BY <1>5, <1>6, <1>7 DEF BlocksKept
=============================================================================
