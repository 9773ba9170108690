-------------------------------- MODULE Vectors --------------------------------
(* Columns and their memory: vector_type (server/vector_type.hpp) and the ways a  *)
(* ColRef and a TableInfo (server/table.h) take, lend and replace containers.     *)
(*                                                                                *)
(* A vector owns its container when its capacity is not 0, else it borrows one.   *)
(* A client uses a borrower only as long as the block it borrowed is there; an    *)
(* owner it uses without a look.  A block that was freed, reallocated or given to *)
(* the collector is gone (GarbageCollector says when it is really freed).         *)
EXTENDS Integers, Sequences, FiniteSets, FiniteSetsExt, SequencesExt

CONSTANTS Vectors,     \* the objects: columns and temporaries
          Data,        \* values a column may hold
          Blank,       \* a cell nothing was put into: zeroed, or what malloc left there
          MaxSize,     \* bound: elements of a vector
          MaxBlocks    \* bound: blocks that are live or pointed to at a time

ASSUME VectorAssumption == /\ MaxSize \in Nat \ {0} /\ MaxBlocks \in Nat
                           /\ Blank \notin Data /\ IsFiniteSet(Vectors)

VARIABLES vec,     \* per vector: container (block and offset), size, capacity
          heap,    \* the blocks: whether they are allocated, and their cells
          holds,   \* history: the list an owner stands for
          why      \* the undefined behaviour met, or "none"

vars == <<vec, heap, holds, why>>

Null == 0
NoBlock == [live |-> FALSE, cells |-> <<>>]
Empty == [at |-> Null, from |-> 0, size |-> 0, cap |-> 0]
Init == /\ vec = [v \in Vectors |-> Empty]
        /\ heap = [b \in 1..MaxBlocks |-> NoBlock]
        /\ holds = [v \in Vectors |-> <<>>]
        /\ why = "none"

Owns(v) == vec[v].cap > 0
Owners(b) == {v \in Vectors : Owns(v) /\ vec[v].at = b}
Gone(v) == vec[v].at # Null /\ ~heap[vec[v].at].live
Fresh(v) == vec[v] = Empty
Usable(v) == why = "none" /\ ~Gone(v)

Block(b) == heap[b].cells
View(r) == IF r.size = 0 THEN <<>> ELSE SubSeq(Block(r.at), r.from + 1, r.from + r.size)
Cells(v) == View(vec[v])
\* What a reader of v should see: an owner's list, or what the borrowed cells hold.
Seen(v) == IF Owns(v) THEN holds[v] ELSE Cells(v)

\* The block that malloc or realloc returns to v: one that nobody else points to.
New(v) == LET spare == {b \in DOMAIN heap : \A u \in Vectors \ {v} : vec[u].at # b}
          IN IF spare = {} THEN Null ELSE Min(spare)
Filled(s, n) == s \o [k \in 1..(n - Len(s)) |-> Blank]
Malloc(v, h, s) == [b \in DOMAIN h |-> IF b = New(v) THEN [live |-> TRUE, cells |-> s] ELSE h[b]]
Free(h, b) == IF b = Null THEN h ELSE [h EXCEPT ![b] = NoBlock]
Owner(v, n, cap) == [at |-> New(v), from |-> 0, size |-> n, cap |-> cap]

\* One step of v: its new fields, the heap, and the list it stands for from now on.
Become(v, r, h, list) ==
  /\ r.size <= MaxSize /\ (r.at = Null => r = Empty)
  /\ vec' = [vec EXCEPT ![v] = r]
  /\ heap' = h
  /\ holds' = [holds EXCEPT ![v] = IF r.cap > 0 THEN list ELSE <<>>]
  /\ UNCHANGED why
Undefined(cause) == why' = cause /\ UNCHANGED <<vec, heap, holds>>

\* vector_type(size): the cells are not initialised.
Make(v, n) ==
  /\ Usable(v) /\ Fresh(v)
  /\ LET s == Filled(<<>>, n) IN Become(v, Owner(v, n, n), Malloc(v, heap, s), s)

\* vector_type({...})
MakeList(v, s) ==
  Usable(v) /\ Fresh(v) /\ Become(v, Owner(v, Len(s), Len(s)), Malloc(v, heap, s), s)

\* _ref, getRef, the container-and-length constructors, and on a column that was in use initfrom
\* of a const vector or of a container and a length, and init_from.
Borrow(v, w) ==
  /\ Usable(v) /\ Usable(w)
  /\ Become(v, [vec[w] EXCEPT !.cap = 0], heap, <<>>)

\* subvec: a borrower of a part.
Subvec(v, w, a, b) ==
  /\ Usable(v) /\ Usable(w) /\ Fresh(v)
  /\ Become(v, [vec[w] EXCEPT !.from = @ + a, !.size = b - a, !.cap = 0], heap, <<>>)

\* subvec_memcpy, subvec_deep.
SubvecDeep(v, w, a, b) ==
  /\ Usable(v) /\ Usable(w) /\ Fresh(v)
  /\ LET s == SubSeq(Cells(w), a + 1, b)
     IN Become(v, Owner(v, b - a, b - a), Malloc(v, heap, s), SubSeq(Seen(w), a + 1, b))

\* _copy: the source's capacity is taken over, cells are allocated for its size only; the copy of
\* a borrower borrows.
Copied(v, w) ==
  IF Owns(w) THEN Become(v, Owner(v, vec[w].size, vec[w].cap), Malloc(v, heap, Cells(w)), Seen(w))
  ELSE Become(v, vec[w], heap, <<>>)

Copy(v, w) == Usable(v) /\ Usable(w) /\ Fresh(v) /\ v # w /\ Copied(v, w)
\* operator=(const &): the container v had is forgotten.  An owner assigned to itself has new cells
\* by the time its elements are read.
Assign(v, w) ==
  /\ Usable(v) /\ Usable(w) /\ ~Fresh(v)
  /\ IF v = w /\ Owns(v) /\ vec[v].size > 0 THEN Undefined("source_is_target") ELSE Copied(v, w)

\* A vector moved to itself is dropped.
Move(v, w) ==
  /\ Usable(v) /\ Usable(w)
  /\ vec' = [vec EXCEPT ![v] = vec[w], ![w] = Empty]
  /\ heap' = IF Owns(v) THEN Free(heap, vec[v].at) ELSE heap
  /\ holds' = [holds EXCEPT ![v] = holds[w], ![w] = <<>>]
  /\ UNCHANGED why

\* operator= from a container of another kind (a ColView), here the cells that w sees: v's own
\* block is freed before the source is read.
AssignOther(v, w) ==
  /\ Usable(v) /\ Usable(w)
  /\ IF Owns(v) /\ vec[w].at = vec[v].at /\ vec[w].size > 0 THEN Undefined("source_is_target")
     ELSE Become(v, Owner(v, vec[w].size, vec[w].size),
                 Malloc(v, IF Owns(v) THEN Free(heap, vec[v].at) ELSE heap, Cells(w)), Seen(w))

\* Cells changed in place: another owner of the block sees them, whoever writes.
Rewrite(v, r, b, cells, list) ==
  /\ r.size <= MaxSize
  /\ vec' = [vec EXCEPT ![v] = r]
  /\ heap' = [heap EXCEPT ![b].cells = cells]
  /\ holds' = [u \in Vectors |->
       IF u = v THEN IF Owns(v) THEN list ELSE <<>>
       ELSE IF u \in Owners(b) THEN SubSeq(cells, 1, Len(holds[u])) ELSE holds[u]]
  /\ UNCHANGED why

Write(v, r, i, x, list) ==
  LET k == r.from + i
  IN IF k > Len(Block(r.at)) THEN Undefined("past_the_end")
     ELSE Rewrite(v, r, r.at, [Block(r.at) EXCEPT ![k] = x], list)

\* operator[] on the left of an assignment.
SetCell(v, i, x) ==
  /\ Usable(v) /\ i <= vec[v].size
  /\ Write(v, vec[v], i, x, IF Owns(v) THEN [holds[v] EXCEPT ![i] = x] ELSE <<>>)

\* operator=(value): a vector of one element, in the container it has or in a new one.
AssignValue(v, x) ==
  /\ Usable(v)
  /\ IF vec[v].at = Null THEN Become(v, Owner(v, 1, 1), Malloc(v, heap, <<x>>), <<x>>)
     ELSE Write(v, [vec[v] EXCEPT !.size = 1], 1, x, <<x>>)

\* grow: a borrower with elements gets a copy, everyone else a realloc; of a container to no cells
\* that is (in glibc) a free.  Elements beyond the new cells are copied or zeroed past the end.
CopiesNever(r, sz) == FALSE
Copies(r, sz) == r.cap = 0 /\ sz > 0
Grow(v, r, sz, cells, n, list) ==
  IF ~Copies(r, sz) /\ r.from # 0 THEN Undefined("inside_a_block")
  ELSE IF r.size > Len(cells) THEN Undefined("too_narrow")
  ELSE IF cells = <<>> /\ r.at # Null THEN Become(v, Empty, Free(heap, r.at), <<>>)
  ELSE Become(v, Owner(v, n, Len(cells)),
              Malloc(v, IF Copies(r, sz) THEN heap ELSE Free(heap, r.at), cells), list)

\* emplace_back: grows geometrically when the size has reached the capacity.
Push(v, r, x, list) ==
  LET n == r.size + 1
  IN IF r.size >= r.cap
     THEN Grow(v, r, r.size, Filled(Append(View(r), x), n + r.size \div 2), n, Append(list, x))
     ELSE Write(v, [r EXCEPT !.size = n], n, x, Append(list, x))

EmplaceBack(v, x) == Usable(v) /\ Push(v, vec[v], x, Seen(v))

Reserve(v, n) ==
  LET r == vec[v]
  IN /\ Usable(v) /\ n >= r.cap
     /\ Grow(v, r, n, IF r.size > n THEN Filled(<<>>, n) ELSE Filled(View(r), n),
             r.size, Seen(v))

\* resize: does nothing below the capacity; the size is set before the cells behind it are
\* zeroed, so what the memory held becomes elements.
Resize(v, n) ==
  LET r == vec[v]
      old == IF r.cap = 0 THEN View(r) ELSE Block(r.at)
      cells == Filled(SubSeq(old, 1, Min({n, Len(old)})), n)
  IN /\ Usable(v) /\ n >= r.cap
     /\ Grow(v, IF n = 0 THEN [r EXCEPT !.size = 0] ELSE r, n, cells, n,
             Seen(v) \o SubSeq(cells, Len(Seen(v)) + 1, n))

ReplaceKeepsRoom(v, n, cells, list) ==
  IF vec[v].from # 0 THEN Undefined("inside_a_block")
  ELSE Become(v, [Owner(v, n, Len(cells)) EXCEPT !.cap = vec[v].cap],
              Malloc(v, Free(heap, vec[v].at), cells), list)
\* A container replaced by a new one of the same elements, the old one freed.
Replace(v, n, cells, list) ==
  IF vec[v].from # 0 THEN Undefined("inside_a_block")
  ELSE Become(v, Owner(v, n, Len(cells)), Malloc(v, Free(heap, vec[v].at), cells), list)

ShrinkToFit(v) ==
  /\ Usable(v) /\ vec[v].size > 0 /\ vec[v].cap # vec[v].size
  /\ Replace(v, vec[v].size, Cells(v), Seen(v))

\* pop_resize: takes the last element and halves a container more than half empty.
PopResize(v) ==
  LET n == vec[v].size - 1
  IN /\ Usable(v) /\ n >= 0
     /\ IF vec[v].cap > 2 * n THEN Replace(v, n, SubSeq(Cells(v), 1, n), SubSeq(Seen(v), 1, n))
        ELSE Become(v, [vec[v] EXCEPT !.size = n], heap, SubSeq(Seen(v), 1, n))

\* qpop, pop, clear: the elements behind the new size stay in the container.
Cut(v, n) ==
  /\ Usable(v) /\ n < vec[v].size
  /\ Become(v, [vec[v] EXCEPT !.size = n], heap, SubSeq(Seen(v), 1, n))
Pop(v) == Cut(v, vec[v].size - 1) /\ vec[v].size > 0
Clear(v) == Cut(v, 0)

MergeAtStart(v, w) ==
  LET n == vec[v].size + vec[w].size
  IN /\ Usable(v) /\ Usable(w) /\ vec[w].size > 0
     /\ vec[v].cap < n /\ Replace(v, n, Filled(Cells(w), n), Seen(v) \o Seen(w))
\* A merge with something to append, or that replaces a container all the same.
Merges(v, w) ==
  /\ Usable(v) /\ Usable(w)
  /\ vec[w].size > 0 \/ vec[v].cap < vec[v].size + vec[w].size
\* More elements behind one's own.
Appended(v, n, both, list) ==
  IF vec[v].cap < n THEN Replace(v, n, both, list)
  ELSE IF n > Len(Block(vec[v].at)) THEN Undefined("past_the_end")
  ELSE LET old == Block(vec[v].at)
       IN Rewrite(v, [vec[v] EXCEPT !.size = n], vec[v].at,
                  both \o SubSeq(old, n + 1, Len(old)), list)

\* merge: one memcpy, of cells that may not be those it writes to.
Overlap(v, w) ==
  /\ vec[w].at = vec[v].at /\ vec[v].size < vec[w].from + vec[w].size
  /\ vec[w].from < vec[v].size + vec[w].size
Merge(v, w) ==
  LET n == vec[v].size + vec[w].size
  IN /\ Merges(v, w)
     /\ IF n <= vec[v].cap /\ Overlap(v, w) THEN Undefined("source_is_target")
        ELSE Appended(v, n, Cells(v) \o Cells(w), Seen(v) \o Seen(w))

\* merge of a range: cell by cell, after the old container was freed; in place, a range that
\* reaches the cells being written reads its beginning again.
Ranged(v, w) ==
  LET d == vec[v].size - vec[w].from
  IN [i \in DOMAIN Cells(w) |->
        Cells(w)[IF vec[w].at = vec[v].at /\ d > 0 /\ i > d THEN 1 + ((i - 1) % d) ELSE i]]
MergeRange(v, w) ==
  LET n == vec[v].size + vec[w].size
  IN /\ Merges(v, w)
     /\ IF vec[v].cap < n /\ vec[w].at = vec[v].at /\ vec[w].size > 0
        THEN Undefined("source_is_target")
        ELSE Appended(v, n, Cells(v) \o Ranged(v, w), Seen(v) \o Ranged(v, w))

\* The destructor gives what it owns to the collector.
Drop(v) ==
  /\ Usable(v) /\ ~Fresh(v)
  /\ Become(v, Empty, IF Owns(v) THEN Free(heap, vec[v].at) ELSE heap, <<>>)

\* ColRef::init: a column of nothing, whatever it had.
InitColumn(c) == Usable(c) /\ ~Fresh(c) /\ Become(c, Empty, heap, <<>>)

\* A column takes over the container of a temporary, which keeps pointing to it.
InitFromMove(c, w) ==
  /\ Usable(c) /\ Usable(w)
  /\ vec' = [vec EXCEPT ![c] = vec[w], ![w].cap = 0]
  /\ holds' = [holds EXCEPT ![c] = holds[w], ![w] = <<>>]
  /\ UNCHANGED <<heap, why>>

\* operator= from a column of another type treats container, size and capacity likewise.
AssignOtherColumn(c, w) == InitFromMove(c, w)

\* A column borrows a named vector, which gives up its capacity: nobody owns the block.
InitFromRef(c, w) ==
  /\ Usable(c) /\ Usable(w)
  /\ vec' = [vec EXCEPT ![c] = [vec[w] EXCEPT !.cap = 0], ![w].cap = 0]
  /\ holds' = [holds EXCEPT ![c] = <<>>, ![w] = <<>>]
  /\ UNCHANGED <<heap, why>>

\* A column takes the fields a module's function returned, capacity and all.
InitFromC(c, w) ==
  /\ Usable(c) /\ Usable(w)
  /\ Become(c, vec[w], heap, Seen(w))

\* A column of one value: size and capacity are reset, the container is not.
InitFromScalar(c, x) == Usable(c) /\ Push(c, [vec[c] EXCEPT !.size = 0, !.cap = 0], x, <<>>)

\* TableInfo::distinct on a column: its size becomes that of the set, it grows, and the set's
\* members, in any order, are written over it.
DistinctColumn(c) ==
  LET values == {Cells(c)[k] : k \in 1..vec[c].size}
      n == Cardinality(values)
  IN /\ Usable(c)
     /\ \E s \in SetToSeqs(values) :
          IF n >= vec[c].cap
          THEN Grow(c, [vec[c] EXCEPT !.size = n], n, Filled(s, n + 1 + n \div 2), n, s)
          ELSE LET old == Block(vec[c].at)
               IN Rewrite(c, [vec[c] EXCEPT !.size = n], vec[c].at,
                          s \o SubSeq(old, n + 1, Len(old)), s)

\* TableInfo::materialize: the chosen rows in a new column, which is copied over the old one.
Materialize(c, rows) ==
  LET s == [k \in DOMAIN rows |-> Seen(c)[rows[k]]]
      cells == [k \in DOMAIN rows |-> Cells(c)[rows[k]]]
  IN /\ Usable(c) /\ \A k \in DOMAIN rows : rows[k] <= vec[c].size
     /\ Become(c, Owner(c, Len(s), Len(s)), Malloc(c, heap, cells), s)

\* Any use of an owner whose block somebody else released.
UseGone(v) == why = "none" /\ Owns(v) /\ Gone(v) /\ Undefined("the_block_is_gone")

Lists == UNION {[1..n -> Data] : n \in 1..2}
RowLists == UNION {[1..n -> 1..2] : n \in 1..2}
Next ==
  \/ \E v \in Vectors :
       \/ \E n \in 0..MaxSize : Make(v, n)
       \/ \E s \in Lists : MakeList(v, s)
       \/ \E x \in Data : AssignValue(v, x) \/ EmplaceBack(v, x) \/ InitFromScalar(v, x)
       \/ \E i \in 1..MaxSize, x \in Data : SetCell(v, i, x)
       \/ \E n \in 0..MaxSize : Reserve(v, n) \/ Resize(v, n)
       \/ \E rows \in RowLists : Materialize(v, rows)
       \/ ShrinkToFit(v) \/ PopResize(v) \/ Pop(v) \/ Clear(v) \/ Drop(v)
       \/ InitColumn(v) \/ DistinctColumn(v) \/ UseGone(v)
  \/ \E v, w \in Vectors :
       \/ Borrow(v, w) \/ Copy(v, w) \/ Assign(v, w) \/ Move(v, w) \/ AssignOther(v, w)
       \/ Merge(v, w) \/ MergeRange(v, w) \/ AssignOtherColumn(v, w)
       \/ InitFromMove(v, w) \/ InitFromRef(v, w) \/ InitFromC(v, w)
       \/ \E a \in 0..(vec[w].size - 1) : \E b \in (a + 1)..vec[w].size :
            Subvec(v, w, a, b) \/ SubvecDeep(v, w, a, b)

Spec == Init /\ [][Next]_vars
--------------------------------------------------------------------------------
\* Every vector's fields and every block have their types.
TypeOK ==
  /\ vec \in [Vectors -> [at : 0..MaxBlocks, from : 0..MaxSize, size : 0..MaxSize,
                          cap : 0..(2 * MaxSize + 1)]]
  /\ \A b \in DOMAIN heap : /\ heap[b].live \in BOOLEAN
                            /\ Range(heap[b].cells) \subseteq Data \cup {Blank}
  /\ \A v \in Vectors : ~Owns(v) => holds[v] = <<>>

\* The list an owner stands for is what its cells hold, whatever was copied, moved, lent, grown
\* or cut before, and whoever else used the block.
ListKept ==
  \A v \in Vectors : Owns(v) /\ ~Gone(v) => Cells(v) = holds[v]

Single == \A b \in DOMAIN heap : Cardinality(Owners(b)) <= 1
\* A block never gets a second owner (who would release it again), but by the fields that a
\* module's function returned.
OneOwner == [][Single => Single' \/ \E c, w \in Vectors : InitFromC(c, w)]_vars

OwnersAlive == \A v \in Vectors : Owns(v) => ~Gone(v)
\* The uses of a borrower after which its lender's block may be gone: shrink_to_fit, merge (also
\* with nothing), initfrom of a value, resize and reserve of 0, and those that grow an empty one,
\* where grow() takes capacity 0 for "nothing allocated".
TakesFromLender(v) ==
  /\ ~Owns(v)
  /\ \/ ShrinkToFit(v) \/ \E w \in Vectors : Merge(v, w) \/ MergeRange(v, w)
     \/ Resize(v, 0) \/ Reserve(v, 0)
     \/ \E x \in Data : InitFromScalar(v, x) \/ (vec[v].size = 0 /\ EmplaceBack(v, x))
     \/ vec[v].size = 0 /\ DistinctColumn(v)
\* While a vector owns a block nobody else releases it: neither a borrower that grows, nor a
\* temporary moved from, nor a copy; but for the operations named above.
LenderKeepsBlock ==
  [][OwnersAlive /\ Single => OwnersAlive' \/ \E v \in Vectors : TakesFromLender(v)]_vars

RoomIsThere ==
  \A v \in Vectors : Owns(v) /\ ~Gone(v) => vec[v].cap <= Len(Block(vec[v].at))
\* An owner's capacity is never more than its block has cells, unless it was copied from a
\* vector with room to spare.
CapacityIsReal ==
  [][RoomIsThere =>
       \/ RoomIsThere'
       \/ \E v, w \in Vectors : vec[w].cap > vec[w].size /\ (Copy(v, w) \/ Assign(v, w))]_vars

Unowned == {b \in DOMAIN heap : heap[b].live /\ heap[b].cells # <<>> /\ Owners(b) = {}}
\* The operations that forget the container of an owner: operator=, materialize, init and
\* initfrom write over it, and initfrom of a named owner gives up its capacity to nobody.
Forgets(v) ==
  /\ Owns(v)
  /\ \/ InitColumn(v) \/ \E rows \in RowLists : Materialize(v, rows)
     \/ \E w \in Vectors : \/ Assign(v, w) \/ Borrow(v, w) \/ InitFromMove(v, w)
                            \/ InitFromRef(v, w) \/ InitFromRef(w, v) \/ InitFromC(v, w)
\* Nothing else leaves a block without an owner: neither growing, shrinking, merging, moving and
\* dropping, nor a step of another vector.
NothingLeaks == [][Unowned' \subseteq Unowned \/ \E v \in Vectors : Forgets(v)]_vars

EmptyBorrower(v) == vec[v].at # Null /\ vec[v].cap = 0 /\ vec[v].size = 0
\* A cell outside a block is touched, or a pointer released that malloc did not return, only
\* with a capacity that is not there, or on a borrower.  (The other cause, a source that is the
\* target's own memory, is in Assign, AssignOther, Merge and MergeRange.)
UndefinedForCause ==
  /\ why = "past_the_end" => ~RoomIsThere \/ \E v \in Vectors : EmptyBorrower(v)
  /\ why = "too_narrow" => \E v \in Vectors : ~Owns(v) /\ vec[v].size > 0
  /\ why = "inside_a_block" => \E v \in Vectors : ~Owns(v) /\ vec[v].from > 0
  /\ why = "the_block_is_gone" => ~OwnersAlive

\* The list of an owner is what its operations say, and nothing is undefined but on a borrower,
\* with a capacity that is not there, or where a vector is the source of its own assignment or
\* merge.
ContentsKept == TypeOK /\ ListKept /\ UndefinedForCause

\* Every block has one vector that releases it, as long as anyone uses it: no operation adds
\* a second, takes it from its lender or leaves it with none, but those named above.
BlocksKept == OneOwner /\ LenderKeepsBlock /\ NothingLeaks
=============================================================================
