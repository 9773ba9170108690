-------------------------- MODULE IncrementalTree --------------------------
(***************************************************************************)
(* sdk/incrementalDecisionTree.cpp, class DecisionTree, with the split     *)
(* search of sdk/Evaluation.cpp and what sdk/RF.cpp does to a tree.  A fit *)
(* adds a batch of rows and may forget old ones; the recursion over the    *)
(* tree is a stack of calls, one node per step.                            *)
(*                                                                         *)
(* A row is an id; its content is in data.  Which of the possible cuts has *)
(* the least impurity, and how accurate the tree was on a batch, are left  *)
(* open: they are arithmetic on doubles.                                   *)
(***************************************************************************)
EXTENDS Integers, Sequences, FiniteSets, SequencesExt

CONSTANTS
  Points,     \* what the features of a row can be
  Sparse,     \* columns of featureId kept as sorted arrays
  Dense,      \* columns of featureId kept as values with their counts
  Val,        \* Val[f][p]: column f of point p
  classes,    \* classes are 0 .. classes - 1
  FirstRound, \* roundNo of a new tree, 64
  Batches,    \* the batches a fit can get: sequences of <<point, class>>
  MaxRows,    \* bound on the rows ever given
  MaxRetain   \* bound on retain

Features == Sparse \cup Dense
Classes == 0 .. classes - 1
NoResult == classes                   \* a result that was never written
Larger(a, b) == IF a > b THEN a ELSE b
Smaller(a, b) == IF a < b THEN a ELSE b

\* The whole part of the logarithm.  The children of node n are 2n and 2n + 1, so it is the height
\* of a node as well.
Log2[n \in 1 .. 2 * MaxRetain] == IF n = 1 THEN 0 ELSE Log2[n \div 2] + 1
Height(n) == Log2[n]
Nodes == {n \in 1 .. 2 * MaxRetain : Height(n) <= Log2[MaxRetain]}

ASSUME TreeAssumption ==
  /\ Sparse \cap Dense = {} /\ Features # {} /\ classes \in Nat \ {0, 1}
  /\ Val \in [Features -> [Points -> Int]]
  /\ FirstRound \in Nat \ {0} /\ MaxRows \in Nat /\ MaxRetain \in Nat \ {0, 1}
  /\ \A b \in Batches : b \in Seq(Points \X Classes) /\ Len(b) \in 1 .. MaxRetain

VARIABLES
  isRF,        \* the tree belongs to a forest, so it forgets at random
  evalue,      \* "gini" or "entropy": what impurity is
  data,        \* the rows, data[r] = <<point, class>>
  DTree,       \* the nodes
  maxHeight, retain, roundNo, forgetRate,
  stack,       \* the calls still to be made, [op, n, rows]
  flagged,     \* rows whose extra column is DBL_MAX: forgotten
  freed,       \* rows given to free()
  twice,       \* some row was given to free() again
  wild,        \* the flag of a freed row was read: nothing is said from here on
  given        \* history: the batches given to this tree, the latest first

tree == <<DTree, stack>>
rates == <<isRF, evalue, maxHeight, retain, roundNo, forgetRate>>
memory == <<flagged, freed, twice, wild>>
treeVars == <<data, tree, rates, memory, given>>

V(f, r) == Val[f][data[r][1]]
C(r) == data[r][2]
Count(s, c) == Cardinality({i \in DOMAIN s : C(s[i]) = c})
\* The rows of s that are in S, in their order.
Picked(s, S) ==
  LET pick[k \in 0 .. Len(s)] ==
        IF k = 0 THEN <<>> ELSE IF s[k] \in S THEN Append(pick[k - 1], s[k]) ELSE pick[k - 1]
  IN pick[Len(s)]

\* The first of the most frequent classes.
Majority(s) == CHOOSE c \in Classes : \A d \in Classes :
                 Count(s, c) > Count(s, d) \/ (Count(s, c) = Count(s, d) /\ c <= d)

NewNode == [created |-> FALSE, terminate |-> FALSE, feature |-> "", dpoint |-> 0, result |-> NoResult,
            rows |-> <<>>, sorted |-> [f \in Sparse |-> <<>>], count |-> [f \in Dense |-> <<>>]]

NewTree == [n \in Nodes |-> IF n = 1 THEN [NewNode EXCEPT !.created = TRUE, !.terminate = TRUE, !.result = 0]
                                     ELSE NewNode]

TreeInit ==
  /\ isRF \in BOOLEAN /\ evalue \in {"gini", "entropy"}
  /\ data = <<>> /\ DTree = NewTree
  /\ maxHeight = 1 /\ retain = 0 /\ roundNo = FirstRound /\ forgetRate = -10
  /\ stack = <<>> /\ flagged = {} /\ freed = {} /\ twice = FALSE /\ wild = FALSE /\ given = <<>>
-----------------------------------------------------------------------------
(* The summaries a node keeps of its rows, and the cuts they offer.          *)

Tally(f, s, v, c) == Cardinality({i \in DOMAIN s : V(f, s[i]) = v /\ C(s[i]) = c})
ByValue(s) == SortSeq(s, LAMBDA a, b : a[1] < b[1] \/ (a[1] = b[1] /\ a[2] < b[2]))
Fresh(f, s) == ByValue([i \in DOMAIN s |-> <<V(f, s[i]), C(s[i])>>])
-----------------------------------------------------------------------------
(* Faulty variants of definitions of this module, each one plausible slip.   *)
(* Nothing refers to them: they show which slips the properties notice.      *)

MergeKeepsLost(f, old, lost, new) == ByValue(old \o Fresh(f, new))
RebuildsAtAnyHeight(n, s, new) == DTree[n].terminate \/ Len(s) = 1 \/ new = <<>>
FreeForgottenFront ==          \* the index of the freed rows starts at 0
  /\ stack # <<>> /\ Head(stack).op = "Free" /\ ~wild
  /\ LET S == ToSet(SubSeq(DTree[1].rows, 1, Len(Head(stack).rows)))
     IN twice' = (twice \/ S \cap freed # {}) /\ freed' = freed \cup S
  /\ stack' = Tail(stack)
  /\ UNCHANGED <<data, DTree, rates, flagged, wild, given>>
-----------------------------------------------------------------------------
(* The record of a dense column: its values in the order of record[], each   *)
(* with its counts per class.                                                *)
Entry(f, s, v) == [v |-> v, n |-> [c \in Classes |-> Tally(f, s, v, c)]]
Recorded(f, s) == LET vs == SetToSortSeq({V(f, s[i]) : i \in DOMAIN s}, <)
                  IN [k \in DOMAIN vs |-> Entry(f, s, vs[k])]

\* The two records as one: by their heads, so that it is in order if both are.
Interleaved(old, new) ==
  LET m[j \in 0 .. Len(old), k \in 0 .. Len(new)] ==
        LET a == old[Len(old) - j + 1]
            b == new[Len(new) - k + 1]
        IN IF j = 0 THEN SubSeq(new, Len(new) - k + 1, Len(new))
           ELSE IF k = 0 THEN SubSeq(old, Len(old) - j + 1, Len(old))
           ELSE IF b.v > a.v THEN <<a>> \o m[j - 1, k] ELSE <<b>> \o m[j, k - 1]
  IN m[Len(old), Len(new)]

\* With the new rows: values not seen before come in the order of the rows, which is not sorted.
Plus(f, old, s) ==
  LET seen == {old[k].v : k \in DOMAIN old}
      at   == SetToSortSeq({i \in DOMAIN s : V(f, s[i]) \notin seen
                                            /\ \A j \in 1 .. i - 1 : V(f, s[j]) # V(f, s[i])}, <)
  IN Interleaved([k \in DOMAIN old |->
                    [old[k] EXCEPT !.n = [c \in Classes |-> @[c] + Tally(f, s, old[k].v, c)]]],
                 [k \in DOMAIN at |-> Entry(f, s, V(f, s[at[k]]))])

\* Without the lost rows, which are sorted and looked for in the order of the record: one whose
\* turn has not come when its value does is not found, nor is any of its class after it.
Minus(f, old, lost) ==
  LET fg == [c \in Classes |-> Fresh(f, Picked(lost, {r \in ToSet(lost) : C(r) = c}))]
      found(k, e) == [c \in Classes |->
        IF k[c] < Len(fg[c]) /\ fg[c][k[c] + 1][1] = e.v
        THEN Smaller(Tally(f, lost, e.v, c), e.n[c]) ELSE 0]
      step(acc, e) == LET n == found(acc.k, e) IN
        [k |-> [c \in Classes |-> acc.k[c] + n[c]],
         out |-> Append(acc.out, [e EXCEPT !.n = [c \in Classes |-> @[c] - n[c]]])]
  IN FoldLeft(step, [k |-> [c \in Classes |-> 0], out |-> <<>>], old).out

\* The sorted array without the lost rows, which are met in ascending order
\* in each class, and with the new ones.
Merge(f, old, lost, new) ==
  LET fg == [c \in Classes |-> Fresh(f, Picked(lost, {r \in ToSet(lost) : C(r) = c}))]
      step(acc, e) == IF acc.k[e[2]] < Len(fg[e[2]]) /\ fg[e[2]][acc.k[e[2]] + 1] = e
                      THEN [acc EXCEPT !.k[e[2]] = @ + 1]
                      ELSE [acc EXCEPT !.out = Append(@, e)]
  IN ByValue(FoldLeft(step, [k |-> [c \in Classes |-> 0], out |-> <<>>], old).out \o Fresh(f, new))

SparseCuts(s) == {s[i][1] : i \in {j \in DOMAIN s : s[j][1] < Last(s)[1]}}

\* giniDense and entropyDense turn the counts into running sums where they stand, in the order
\* of the record, up to the first that reaches size, and cut before that one.  A sum of 0 has no
\* gini: 0 / 0 is less than nothing.
Upto(raw, k) == [c \in Classes |-> MapThenSumSet(LAMBDA j : raw[j].n[c], 1 .. k)]
Total(t) == MapThenSumSet(LAMBDA c : t[c], Classes)
Reached(raw, size) == {k \in DOMAIN raw : Total(Upto(raw, k)) >= size}
Running(raw, size) ==
  [k \in DOMAIN raw |-> IF \E j \in Reached(raw, size) : j < k THEN raw[k]
                        ELSE [raw[k] EXCEPT !.n = Upto(raw, k)]]
DenseCuts(raw, size) ==
  {raw[k].v : k \in {j \in DOMAIN raw \ Reached(raw, size) :
                       evalue = "entropy" \/ Total(Upto(raw, j)) > 0}}

-----------------------------------------------------------------------------
(* Update: node n gets the rows s and a fresh subtree.                       *)

Goes(s, f, v, left) == Picked(s, {r \in ToSet(s) : (V(f, r) <= v) = left})
Call(op, n, s) == [op |-> op, n |-> n, rows |-> s]

Leaf(n, s, c) == DTree' = [DTree EXCEPT ![n] = [@ EXCEPT !.created = TRUE, !.terminate = TRUE,
                                                        !.result = c, !.rows = s]]

CutsOf(sorted, raw, size) ==
  UNION {{<<f, v>> : v \in SparseCuts(sorted[f])} : f \in Sparse}
  \cup UNION {{<<f, v>> : v \in DenseCuts(raw[f], size)} : f \in Dense}

\* Node n splits at cut: what it keeps, and the calls for its children.
Split(n, s, sorted, raw, cut, op, t, rest) ==
  /\ DTree' = [DTree EXCEPT ![n] = [@ EXCEPT !.created = TRUE, !.terminate = FALSE, !.rows = s,
                 !.feature = cut[1], !.dpoint = cut[2], !.sorted = sorted,
                 !.count = [f \in Dense |-> Running(raw[f], Len(s))]]]
  /\ stack' = <<Call(op, 2 * n, Goes(t, cut[1], cut[2], TRUE)),
                Call(op, 2 * n + 1, Goes(t, cut[1], cut[2], FALSE))>> \o rest

UpdateNode(n, s, rest) ==
  LET sorted == [f \in Sparse |-> Fresh(f, s)]
      raw    == [f \in Dense |-> Recorded(f, s)]
      cuts   == CutsOf(sorted, raw, Len(s))
      pure   == \A i, j \in DOMAIN s : C(s[i]) = C(s[j])
  IN \/ /\ Height(n) = maxHeight \/ pure \/ cuts = {}
        /\ Leaf(n, s, Majority(s)) /\ stack' = rest
     \/ /\ Height(n) # maxHeight /\ ~pure
        /\ \E cut \in cuts : Split(n, s, sorted, raw, cut, "Update", s, rest)

Update ==
  /\ stack # <<>> /\ Head(stack).op = "Update" /\ ~wild
  /\ UpdateNode(Head(stack).n, Head(stack).rows, Tail(stack))
  /\ UNCHANGED <<data, rates, memory, given>>
-----------------------------------------------------------------------------
(* IncrementalUpdate: the root chooses what to forget, the nodes below find  *)
(* it by the flag, and a node whose best cut is still the same only hands    *)
(* the new rows down.                                                        *)

Excess(n, new) ==
  LET over == Len(DTree[n].rows) + Len(new) - retain
  IN IF n # 1 \/ over <= 0 THEN 0 ELSE IF over < Len(DTree[n].rows) THEN over ELSE Len(DTree[n].rows)

Without(s, S) == Picked(s, ToSet(s) \ S)
Within(s, S) == Picked(s, S)

\* What the root may forget: the rows at the end, or any in a forest (where the order of the
\* rows, shuffled before the choice, means nothing).
MayForget(s, k) == IF isRF THEN kSubset(k, ToSet(s)) ELSE {ToSet(SubSeq(s, Len(s) - k + 1, Len(s)))}

Lost(n) == ToSet(DTree[n].rows) \cap flagged

Rebuilds(n, s, new) == DTree[n].terminate \/ Height(n) = maxHeight \/ Len(s) = 1 \/ new = <<>>

Free(S) == twice' = (twice \/ S \cap freed # {}) /\ freed' = freed \cup S

IncrementalNode(n, new, lost, rest) ==
  LET node   == DTree[n]
      s      == new \o Without(node.rows, lost)
      gone   == Within(node.rows, lost)
      sorted == [f \in Sparse |-> Merge(f, node.sorted[f], gone, new)]
      raw    == [f \in Dense |-> Plus(f, Minus(f, node.count[f], gone), new)]
      cuts   == CutsOf(sorted, raw, Len(s))
      free   == IF n = 1 THEN <<Call("Free", n, gone)>> ELSE <<>>
      over   == Rebuilds(n, s, new)
  IN \/ over /\ UpdateNode(n, s, rest) /\ (IF n = 1 THEN Free(lost) ELSE UNCHANGED <<freed, twice>>)
     \/ /\ ~over /\ cuts = {}
        /\ Leaf(n, s, Majority(new)) /\ stack' = rest /\ UNCHANGED <<freed, twice>>
     \/ /\ ~over /\ UNCHANGED <<freed, twice>>
        /\ \E cut \in cuts :
             IF cut = <<node.feature, node.dpoint>>
             THEN Split(n, s, sorted, raw, cut, "Incremental", new, free \o rest)
             ELSE Split(n, s, sorted, raw, cut, "Update", s, free \o rest)

IncrementalRoot ==
  /\ stack # <<>> /\ Head(stack).op = "Incremental" /\ Head(stack).n = 1 /\ ~wild
  /\ LET new == Head(stack).rows
         k   == Excess(1, new)
     IN IF k = Len(DTree[1].rows)
        THEN UpdateNode(1, new, Tail(stack)) /\ UNCHANGED memory
        ELSE \E lost \in MayForget(DTree[1].rows, k) :
               /\ flagged' = flagged \cup lost
               /\ IncrementalNode(1, new, lost, Tail(stack))
               /\ UNCHANGED wild
  /\ UNCHANGED <<data, rates, given>>

IncrementalChild ==
  /\ stack # <<>> /\ Head(stack).op = "Incremental" /\ Head(stack).n # 1 /\ ~wild
  /\ LET n    == Head(stack).n
         new  == Head(stack).rows
         old  == ToSet(DTree[n].rows)
         lost == Lost(n)
     IN \/ /\ old \cap freed # {} /\ wild' = TRUE
           /\ UNCHANGED <<tree, flagged, freed, twice>>
        \/ /\ old \cap freed = {} /\ UNCHANGED <<flagged, wild>>
           /\ \/ /\ lost = old /\ (old = {} \/ new # <<>>)
                 /\ UpdateNode(n, new, Tail(stack)) /\ UNCHANGED <<freed, twice>>
              \/ /\ lost = old /\ old # {} /\ new = <<>>
                 /\ stack' = Tail(stack) /\ UNCHANGED <<DTree, freed, twice>>
              \/ /\ lost # old
                 /\ IncrementalNode(n, new, lost, Tail(stack))
  /\ UNCHANGED <<data, rates, given>>

\* Back in the root: the rows it forgot are freed.
FreeForgotten ==
  /\ stack # <<>> /\ Head(stack).op = "Free" /\ ~wild
  /\ Free(ToSet(Head(stack).rows)) /\ stack' = Tail(stack)
  /\ UNCHANGED <<data, DTree, rates, flagged, wild, given>>
-----------------------------------------------------------------------------
NewIds(k) == [i \in 1 .. k |-> Len(data) + i]
Doublings(r) == Cardinality({k \in 0 .. r : roundNo * 2^k <= r})

Retain(r) == retain' = r /\ maxHeight' = Larger(Log2[r], 1) /\ UNCHANGED <<isRF, evalue>>

fit(b) ==
  /\ stack = <<>> /\ ~wild /\ Len(data) + Len(b) <= MaxRows
  /\ data' = data \o b
  /\ given' = <<NewIds(Len(b))>> \o given
  /\ \/ /\ DTree[1].rows = <<>>
        /\ Retain(Len(b))
        /\ stack' = <<Call("Update", 1, NewIds(Len(b)))>>
        /\ UNCHANGED <<roundNo, forgetRate>>
     \/ /\ DTree[1].rows # <<>> /\ forgetRate = 0
        /\ \E r \in Len(b) .. MaxRetain : Retain(r)
        /\ stack' = <<Call("Incremental", 1, NewIds(Len(b)))>>
        /\ UNCHANGED <<roundNo, forgetRate>>
     \/ /\ DTree[1].rows # <<>> /\ forgetRate < 0
        /\ LET r == Len(DTree[1].rows) + Len(b) IN
             /\ r <= MaxRetain /\ Retain(r)
             /\ roundNo' = roundNo * 2^Doublings(r)
             /\ \E better \in BOOLEAN :
                  forgetRate' = IF ~better THEN -10
                                ELSE IF forgetRate + 5 * Doublings(r) >= 0 THEN 0
                                ELSE forgetRate + 5 * Doublings(r)
        /\ stack' = <<Call("Incremental", 1, NewIds(Len(b)))>>
  /\ UNCHANGED <<DTree, memory>>

\* The forest replaces the tree by a new one, fitted on copies of its rows.
Rotate ==
  /\ isRF /\ stack = <<>> /\ ~wild
  /\ LET s == DTree[1].rows IN
       /\ s # <<>> /\ Len(data) + Len(s) <= MaxRows
       /\ data' = data \o [i \in DOMAIN s |-> data[s[i]]]
       /\ given' = <<NewIds(Len(s))>>
       /\ Retain(Len(s))
       /\ stack' = <<Call("Update", 1, NewIds(Len(s)))>>
  /\ DTree' = NewTree /\ roundNo' = FirstRound /\ forgetRate' = -10
  /\ UNCHANGED memory

TreeNext ==
  \/ \E b \in Batches : fit(b)
  \/ Rotate \/ Update \/ IncrementalRoot \/ IncrementalChild \/ FreeForgotten

TreeSpec == TreeInit /\ [][TreeNext]_treeVars
-----------------------------------------------------------------------------
(* Between two fits.                                                         *)
Settled == stack = <<>> /\ ~wild

\* Where Test goes on to a child.
Inner(n) == ~DTree[n].terminate /\ Height(n) < maxHeight

\* A node that got nothing new when all its rows were forgotten keeps them.
Kept(n) == n # 1 /\ DTree[n].rows # <<>> /\ ToSet(DTree[n].rows) \subseteq flagged

\* The nodes a Test can reach, but not through one that kept forgotten rows.
Below(E) == LET below[n \in Nodes] == n = 1 \/ (n \in E /\ below[n \div 2]) IN {n \in Nodes : below[n]}
Sound == Below({n \in Nodes \ {1} : Inner(n \div 2) /\ ~Kept(n)})

\* Every variable holds what its declaration says.
TreeTypeOK ==
  /\ \A n \in Nodes : DTree[n].result \in Classes \cup {NoResult} /\ ToSet(DTree[n].rows) \subseteq DOMAIN data
  /\ retain \in 0 .. MaxRetain /\ maxHeight \in 1 .. Log2[MaxRetain] /\ forgetRate \in {-10, -5, 0}
  /\ flagged \cup freed \subseteq DOMAIN data /\ twice \in BOOLEAN /\ wild \in BOOLEAN
  /\ \A i \in DOMAIN stack : stack[i].op \in {"Update", "Incremental", "Free"} /\ stack[i].n \in Nodes

\* The children of a node hold its rows, each on its side of the cut, after
\* any sequence of fits: a child that only got the new rows, or that dropped
\* the flagged ones on its own, ends up with the same as one rebuilt, and in the
\* same order but in a forest, whose roots are shuffled.
ChildrenPartition ==
  Settled => \A n \in Sound : Inner(n) =>
    \A left \in BOOLEAN :
      LET m == IF left THEN 2 * n ELSE 2 * n + 1
          s == Goes(DTree[n].rows, DTree[n].feature, DTree[n].dpoint, left)
      IN IF Kept(m) THEN s = <<>>
         ELSE IF isRF THEN ToSet(DTree[m].rows) = ToSet(s) ELSE DTree[m].rows = s

\* The sorted arrays that IncrementalUpdate merges and thins out are those a
\* sort of the rows would give.
SortedExact ==
  Settled => \A n \in Sound : Inner(n) =>
    \A f \in Sparse : DTree[n].sorted[f] = Fresh(f, DTree[n].rows)

\* A value is once in the record of a dense column, and its counts, running sums on top of
\* running sums, never fall below the number of rows: a row that is forgotten may be missed,
\* where the record is out of order, but none is taken off twice.
CountsCover ==
  Settled => \A n \in Sound : Inner(n) =>
    \A f \in Dense : LET counts == DTree[n].count[f] IN
      /\ \A j, k \in DOMAIN counts : counts[j].v = counts[k].v => j = k
      /\ \A i \in DOMAIN DTree[n].rows : LET r == DTree[n].rows[i] IN
           \E k \in DOMAIN counts :
             counts[k].v = V(f, r) /\ counts[k].n[C(r)] >= Tally(f, DTree[n].rows, V(f, r), C(r))

\* The tree learns from the latest rows: all of the last batch and, unless a
\* forest chose, the ones given just before it, never more than retain.
KeepsLatest ==
  Settled /\ given # <<>> =>
    LET s == DTree[1].rows IN
      /\ Len(s) <= retain
      /\ Head(given) = SubSeq(s, 1, Len(Head(given)))
      /\ ~isRF => s = SubSeq(FlattenSeq(given), 1, Len(s))

\* A leaf answers with the most frequent class of its rows, or of those the last fit gave it: the
\* latter only if no sorted array tells its rows apart.  (That no cut was found does not mean that
\* its rows are alike: the inflated counts of a dense column may offer none.)
LeafMajority ==
  Settled => \A n \in Sound : DTree[n].terminate /\ DTree[n].rows # <<>> =>
    LET s == DTree[n].rows IN
    \/ DTree[n].result = Majority(s)
    \/ /\ DTree[n].result = Majority(Within(s, ToSet(Head(given))))
       /\ \A f \in Sparse, i, j \in DOMAIN s : V(f, s[i]) = V(f, s[j])

\* Test ends, at a result that was written, though maxHeight moves with retain.
TestDefined ==
  Settled => \A n \in Sound :
    IF Inner(n) THEN DTree[2 * n].created /\ DTree[2 * n + 1].created
                ELSE DTree[n].result # NoResult

\* A row is freed once, and no node that a Test or a fit relies on holds it.
RowsAlive ==
  /\ ~twice
  /\ Settled => \A n \in Sound : ToSet(DTree[n].rows) \cap freed = {}

\* What a fit leaves is the tree that a rebuild from its rows would give: the children of a
\* sound inner node hold the rows of their side, and a Test ends at an answer that was written.
NodesFresh == TreeTypeOK /\ ChildrenPartition /\ TestDefined

\* The root keeps the latest rows, at most retain of them, and no node keeps a row that was freed.
RowsKept == KeepsLatest /\ RowsAlive

\* What a node has computed from its rows: its sorted arrays are exact, its counts cover the
\* rows, its answer is that of its rows, or of its new ones where no sorted array tells them apart.
SummariesExact == SortedExact /\ CountsCover /\ LeafMajority
=============================================================================
