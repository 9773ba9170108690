-------------------------------- MODULE Windows --------------------------------
(* The running and moving aggregates of server/aggregations.h over one column:    *)
(* the loops that fill ret element by element, with their accumulators.           *)
(*                                                                                *)
(* Averages and variances are exact rationals, kept as integers times Scale.      *)
(* Every loop carries `#pragma omp simd`, a promise to an -fopenmp build that no   *)
(* iteration reads memory that an earlier one writes: it may run iterations side   *)
(* by side, as the lanes of a block, and a lane then reads the cells of its block  *)
(* as they were before it.  The accumulators are locals in registers, which the    *)
(* promise is not about, and a build keeps their order.  Simd says whether the     *)
(* build has -fopenmp; blocks begin and end anywhere.                              *)
EXTENDS Integers, Sequences, FiniteSets, FiniteSetsExt

CONSTANTS Data,          \* the values of the column
          MaxLen,        \* bound: rows of the column
          MaxWindow,     \* bound: windows the query asks for
          Simd,          \* the build has -fopenmp (a debug build has not)
          Modulus,       \* stands for 2^32, the width of an index
          Huge,          \* numeric_limits<T>::max()
          Tiny,          \* numeric_limits<T>::min() of a floating type: least positive value
          Unit,          \* a common denominator of all averages
          Undef,         \* a cell nothing was written to
          Garbage        \* a value built from such a cell

Bounds == /\ MaxLen \in Nat \ {0} /\ MaxWindow \in Nat \ {0} /\ Simd \in BOOLEAN
          /\ Modulus \in Nat /\ Modulus > MaxLen + MaxWindow
Limits == /\ Huge \in Nat /\ Data \subseteq (-Huge - 1)..Huge
          /\ Tiny \in Nat \ {0} /\ \A x \in Data : x > 0 => x >= Tiny
Denominator == Unit \in Nat \ {0} /\ \A k \in 1..MaxLen : Unit % k = 0
NoCell == /\ Undef \notin Int /\ Garbage \notin Int /\ Undef # Garbage
          /\ \A a, b \in Data \cup {0, 1} : Undef # <<a, b>> /\ Garbage # <<a, b>>

Parameters == Bounds /\ Limits /\ Denominator /\ NoCell
ASSUME WindowAssumption == Parameters

VARIABLES op,      \* the function the generated code calls
          floating,\* the column has a floating type
          arr,     \* the column
          w,       \* the window, clamped as the function does
          pc,      \* begin, first, second, done, crashed
          i,       \* the loop index
          acc,     \* the accumulators
          ret,     \* the result column
          out,     \* the result of a reduction
          roots,   \* how often sqrt was applied to each cell of ret
          wild     \* accesses outside the arrays: <<array, index>>

windowVars == <<op, floating, arr, w, pc, i, acc, ret, out, roots, wild>>

size == Cardinality(DOMAIN arr)
Least(a, b) == IF a < b THEN a ELSE b
Greatest(a, b) == IF a < b THEN b ELSE a

\* Averages are kept times Unit, variances and the cells of the result times Scale.
Scale == Unit * Unit

Reductions == {"sum", "avg", "max", "min", "var"}
Prefix == {"mins", "maxs", "sums", "avgs", "vars", "stddevs", "deltas", "prev", "aggnext", "ratios"}
Moving == {"minw", "maxw", "sumw", "avgw", "varw", "stddevw", "ratiow"}
sd == op \in {"stddevs", "stddevw"}

\* numeric_limits<T>::min(): for a floating type the least positive value, not the least.
LowestLimit == IF floating THEN Tiny ELSE -Huge - 1

\* What an operator on elements yields in the element's own type: an integer as wide as int wraps.
Narrow(x) == IF floating THEN x ELSE ((x + Huge + 1) % (2 * Huge + 2)) - (Huge + 1)

\* The functions whose loops build ret[i] from ret[i-1].  Their lanes other than the first of a
\* block read a cell that is not written yet; `from` is where the loop began.
Carried == {"sums", "sumw", "avgw"}
Lane(from) == IF Simd /\ op \in Carried /\ i > from THEN BOOLEAN ELSE {FALSE}
Behind(lane, d) == IF lane \/ ret[i - 1] = Garbage THEN Garbage ELSE ret[i - 1] + d

Accumulators == [s |-> 0, ssq |-> 0, best |-> 0, EnX |-> 0, MnX |-> 0, cache |-> <<>>]

WindowInit ==
  /\ op \in Reductions \cup Prefix \cup Moving
  /\ floating \in BOOLEAN
  /\ arr \in UNION {[0..(n - 1) -> Data] : n \in 0..MaxLen}
  /\ w \in IF op \in Moving THEN 0..MaxWindow ELSE {1}
  /\ pc = "begin" /\ i = 0
  /\ acc = Accumulators
  /\ ret = [j \in DOMAIN arr |-> Undef]
  /\ out = Undef
  /\ roots = [j \in DOMAIN arr |-> 0]
  /\ wild = {}

inputs == <<op, floating, arr>>
Loop(from) == pc' = "first" /\ i' = from

Start == IF op \in {"max", "maxs"} THEN LowestLimit ELSE Huge

\* maxs, mins, max and min start from the limits of the type; their loops start at 0, as do those
\* of minw and maxw, sum and avg.
BeginExtremum ==
  /\ op \in {"mins", "maxs", "minw", "maxw", "min", "max", "sum", "avg"}
  /\ acc' = [acc EXCEPT !.best = Start]
  /\ Loop(0) /\ UNCHANGED <<w, ret, wild>>

Clamped == IF op \in Moving THEN Least(w, size) ELSE size

\* The functions that seed the first cell and the accumulators and clamp the window to the column.
BeginSums ==
  /\ op \in {"sums", "avgs", "vars", "stddevs", "sumw", "avgw", "varw", "stddevw", "var"}
  /\ w' = Clamped
  /\ IF size = 0 THEN UNCHANGED <<acc, ret>>
     ELSE /\ acc' = [acc EXCEPT !.s = arr[0], !.ssq = Narrow(arr[0] * arr[0]), !.EnX = arr[0] * Unit]
          /\ ret' = IF op = "var" THEN ret
                    ELSE [ret EXCEPT ![0] = IF op \in {"sums", "sumw", "avgs", "avgw"}
                                            THEN arr[0] * Scale ELSE 0]
  /\ Loop(1) /\ UNCHANGED wild

\* deltas and prev seed the first cell; aggnext seeds none, its last cell follows its loop.
BeginShift ==
  /\ op \in {"deltas", "prev", "aggnext"}
  /\ ret' = IF size = 0 \/ op = "aggnext" THEN ret
            ELSE [ret EXCEPT ![0] = IF op = "prev" THEN arr[0] * Scale ELSE 0]
  /\ Loop(1) /\ UNCHANGED <<w, acc, wild>>

\* ratiow: a window that does not fit the column becomes 1; ret[0] is written
\* unasked.
BeginRatio ==
  LET window == IF size <= w THEN Least(w, 1) ELSE w
  IN /\ op \in {"ratios", "ratiow"}
     /\ w' = window
     /\ ret' = IF size > 0 THEN [ret EXCEPT ![0] = <<0, 1>>] ELSE ret
     /\ wild' = IF size > 0 THEN wild ELSE wild \cup {<<"ret", 0>>}
     /\ Loop(0) /\ UNCHANGED acc

Begin == /\ pc = "begin"
         /\ BeginExtremum \/ BeginSums \/ BeginShift \/ BeginRatio
         /\ UNCHANGED <<inputs, out, roots>>

\* Where the first loop ends: the clamped window for the functions of two loops, else the column.
FirstEnd == IF op \in {"sumw", "avgw", "varw", "stddevw", "ratios", "ratiow"} THEN w ELSE size

\* The deque of minw (maxw): the front leaves when its index is i - w in 32 bits, then the values
\* that the new one beats leave at the back.
Beats(a, b) == IF op = "minw" THEN a < b ELSE a > b
Slide(cache) ==
  LET aged == IF cache # <<>> /\ Head(cache)[2] = (i - w) % Modulus THEN Tail(cache) ELSE cache
      kept == {k \in 1..Len(aged) : \A l \in k..Len(aged) : Beats(arr[i], aged[l][1])}
      keep == IF kept = {} THEN Len(aged) ELSE Min(kept) - 1
  IN Append(SubSeq(aged, 1, keep), <<arr[i], i>>)

DeviationTwice(EnX, _EnX) == (arr[i] * Unit - _EnX) * (arr[i] * Unit - _EnX)
Deviation(EnX, _EnX) == (arr[i] * Unit - EnX) * (arr[i] * Unit - _EnX)

\* One iteration of the first loop: the accumulators, then the cell.
Accumulate(a) ==
  CASE op \in {"mins", "min"} -> [a EXCEPT !.best = Least(@, arr[i])]
    [] op \in {"maxs", "max"} -> [a EXCEPT !.best = Greatest(@, arr[i])]
    [] op \in {"minw", "maxw"} -> [a EXCEPT !.cache = Slide(@)]
    [] op \in {"vars", "stddevs", "varw", "stddevw"} ->
         LET sum == a.s + arr[i]
             _EnX == (sum * Unit) \div (i + 1)
         IN [a EXCEPT !.s = sum, !.EnX = _EnX, !.MnX = @ + Deviation(a.EnX, _EnX)]
    [] OTHER -> [a EXCEPT !.s = @ + arr[i], !.ssq = @ + Narrow(arr[i] * arr[i])]

Cell(a, lane) ==
  CASE op \in {"mins", "maxs"} -> a.best * Scale
    [] op \in {"minw", "maxw"} -> Head(a.cache)[1] * Scale
    [] op \in {"sums", "sumw"} -> Behind(lane, arr[i] * Scale)
    [] op \in {"avgs", "avgw"} -> (a.s * Scale) \div (i + 1)
    [] op \in {"vars", "stddevs", "varw", "stddevw"} -> a.MnX \div (i + 1)
    [] op = "deltas" -> Narrow(arr[i] - arr[i - 1]) * Scale
    [] op = "prev" -> arr[i - 1] * Scale
    [] op = "aggnext" -> arr[i] * Scale
    [] OTHER -> <<arr[i], arr[0]>>

\* stddevw roots the cell behind the one it writes, stddevs the one it writes.
RootedHere == IF sd THEN [roots EXCEPT ![i] = @ + 1] ELSE roots
Rooted == CASE op = "stddevw" -> [roots EXCEPT ![i - 1] = @ + 1]
            [] op = "stddevs" -> [roots EXCEPT ![i] = @ + 1]
            [] OTHER -> roots

FirstLoop ==
  /\ pc = "first" /\ i < FirstEnd /\ i < size
  /\ acc' = IF op \in {"deltas", "prev", "aggnext", "ratios", "ratiow"} THEN acc ELSE Accumulate(acc)
  /\ \E lane \in Lane(1) :
       ret' = IF op \in Reductions THEN ret
              ELSE [ret EXCEPT ![IF op = "aggnext" THEN i - 1 ELSE i] = Cell(acc', lane)]
  /\ roots' = Rooted
  /\ i' = i + 1
  /\ UNCHANGED <<inputs, w, pc, out, wild>>

\* An iteration past the column: ratiow on an empty one.
Overrun == /\ pc = "first" /\ i < FirstEnd /\ i >= size
           /\ wild' = wild \cup {<<"arr", i>>, <<"ret", i>>}
           /\ i' = i + 1
           /\ UNCHANGED <<inputs, w, pc, acc, ret, out, roots>>

EndFirst ==
  /\ pc = "first" /\ i >= FirstEnd
  /\ pc' = IF op \in Reductions \/ FirstEnd >= size THEN "done" ELSE "second"
  /\ i' = IF pc' = "second" THEN w ELSE i
  /\ ret' = IF op = "aggnext" /\ size > 0 THEN [ret EXCEPT ![size - 1] = arr[size - 1] * Scale] ELSE ret
  /\ roots' = IF op = "stddevw" /\ pc' = "done" /\ size > 0
              THEN [roots EXCEPT ![size - 1] = @ + 1] ELSE roots
  /\ out' = CASE op = "sum" -> acc.s * Scale
              [] op = "avg" /\ size > 0 -> (acc.s * Scale) \div size
              [] op \in {"min", "max"} -> acc.best * Scale
              [] op = "var" -> <<acc.ssq * (size + 1) - acc.s * acc.s, (size + 1) * (size + 1)>>
              [] OTHER -> out
  /\ UNCHANGED <<inputs, w, acc, wild>>

\* What the row that enters the window adds and the one that leaves it takes: sumw works in the
\* long type of ret, avgw subtracts in the element's own.
Gain == IF op = "avgw" THEN (Narrow(arr[i] - arr[i - w]) * Scale) \div w ELSE (arr[i] - arr[i - w]) * Scale

\* The second loop of sumw and avgw; with a window of 0 the first read is ret[-1].
SlideSums ==
  /\ pc = "second" /\ i < size /\ op \in {"sumw", "avgw"}
  /\ IF w = 0
     THEN pc' = "crashed" /\ wild' = wild \cup {<<"ret", i - 1>>} /\ UNCHANGED <<i, ret>>
     ELSE /\ \E lane \in Lane(w) : ret' = [ret EXCEPT ![i] = Behind(lane, Gain)]
          /\ i' = i + 1 /\ UNCHANGED <<pc, wild>>
  /\ UNCHANGED <<inputs, w, acc, out, roots>>

\* The second loop of varw reads arr[i - w - 1], which is arr[-1] in its first iteration: an index
\* of 2^32 - 1 elements, beyond what is mapped.
SlideVar ==
  /\ pc = "second" /\ i < size /\ op \in {"varw", "stddevw"}
  /\ wild' = wild \cup {<<"arr", i - w - 1>>} /\ pc' = "crashed"
  /\ UNCHANGED <<inputs, w, i, acc, ret, out, roots>>

SlideRatio ==
  /\ pc = "second" /\ i < size /\ op \in {"ratios", "ratiow"}
  /\ ret' = [ret EXCEPT ![i] = <<arr[i], arr[i - w]>>]
  /\ i' = i + 1
  /\ UNCHANGED <<inputs, w, pc, acc, out, roots, wild>>

EndSecond == /\ pc = "second" /\ i >= size
             /\ pc' = "done"
             /\ UNCHANGED <<inputs, w, i, acc, ret, out, roots, wild>>

WindowNext == Begin \/ FirstLoop \/ Overrun \/ EndFirst \/ SlideSums \/ SlideVar \/ SlideRatio \/ EndSecond
WindowSpec == WindowInit /\ [][WindowNext]_windowVars

--------------------------------------------------------------------------------
\* Types; an element no loop has reached yet is Undef, and only the functions that build a cell
\* from the one before ever make garbage, in an -fopenmp build.
WindowTypeOK ==
  /\ pc \in {"begin", "first", "second", "done", "crashed"}
  /\ i \in 0..MaxLen /\ w \in 0..Greatest(MaxLen, MaxWindow)
  /\ DOMAIN ret = DOMAIN arr
  /\ \A j \in DOMAIN ret : \/ ret[j] = Undef
                           \/ ret[j] = Garbage /\ Simd /\ op \in Carried
                           \/ op \in {"ratios", "ratiow"} /\ Len(ret[j]) = 2
                           \/ op \notin {"ratios", "ratiow"} /\ ret[j] \in Int
  /\ acc.cache \in Seq(Data \X DOMAIN arr)

\* The cells the loops have produced so far, and the rows a function looks at for one of them: the
\* last w, or all of them for a window of 0 (see the deque) and for the running functions.
Written == {j \in DOMAIN ret : ret[j] # Undef}
Built == {j \in DOMAIN ret : ret[j] \notin {Undef, Garbage}}
First(j) == IF op \in Prefix \/ w = 0 \/ j < w THEN 0 ELSE j - w + 1
Window(j) == First(j)..j
Rows(j) == j - First(j) + 1
Values(S) == {arr[k] : k \in S}

\* The sum of n elements of f from lo on, that of the rows of a window and that of the first n rows.
Total(f, lo, n) ==
  LET t[k \in 0..MaxLen] == IF k = 0 THEN 0 ELSE t[k - 1] + f[lo + k - 1] IN t[n]
Squares == [k \in DOMAIN arr |-> arr[k] * arr[k]]
Sum(j) == Total(arr, First(j), Rows(j))
SumTo(n) == Total(arr, 0, n)
SumSqTo(n) == Total(Squares, 0, n)

\* At every moment each value minw, mins, maxw and maxs have produced is the extremum of its
\* window, through every ageing and eviction of the deque.  The running maximum of a floating
\* column starts from a positive number, and stays there as long as no row is above it.
BelowStart(S) == floating /\ \A k \in S : arr[k] < Tiny
ExtremumOfWindow ==
  \A j \in Written :
    /\ op \in {"minw", "mins"} => ret[j] = Min(Values(Window(j))) * Scale
    /\ op = "maxw" => ret[j] = Max(Values(Window(j))) * Scale
    /\ op = "maxs" => ret[j] = (IF BelowStart(Window(j)) THEN Tiny ELSE Max(Values(Window(j)))) * Scale

\* Each value sums, sumw, avgs and avgw have produced is the sum (average) of the rows of its
\* window, although most are built from the value before them (src/README.md:271, 273), unless
\* a lane has read that value too early, or a difference avgw took did not fit the element's type.
Fitting(j) == op = "avgw" => \A k \in w..j : arr[k] - arr[k - w] = Narrow(arr[k] - arr[k - w])
MovingSums ==
  \A j \in Built :
    /\ op \in {"sums", "sumw"} => ret[j] = Sum(j) * Scale
    /\ op \in {"avgs", "avgw"} /\ Fitting(j) => ret[j] = (Sum(j) * Scale) \div Rows(j)

\* The incremental update of vars and varw yields the population variance of the rows so far
\* (src/README.md:272).
VarianceOfPrefix ==
  \A j \in Written :
    op \in {"vars", "varw", "stddevs", "stddevw"} =>
      ret[j] = (Scale * ((j + 1) * SumSqTo(j + 1) - SumTo(j + 1) * SumTo(j + 1))) \div ((j + 1) * (j + 1))

\* The reductions agree with the running function of the same name on a whole, non-empty column:
\* sum, avg, max and min are the last value of sums, avgs, maxs and mins.
ReductionIsLast ==
  pc = "done" /\ size > 0 =>
    /\ op = "sum" => out = SumTo(size) * Scale
    /\ op = "avg" => out = (SumTo(size) * Scale) \div size
    /\ op = "min" => out = Min(Values(DOMAIN arr)) * Scale
    /\ op = "max" => out = (IF BelowStart(DOMAIN arr) THEN Tiny ELSE Max(Values(DOMAIN arr))) * Scale

\* Every cell of the result is written by the time a function returns: the seed, the loops and
\* the epilogue together cover the column, for every window.
AllWritten == pc = "done" /\ op \notin Reductions => Written = DOMAIN ret

\* No function leaves its arrays, whatever the column and the window, except in the three cases the
\* code does not guard: sums of a window of 0, a variance whose window is shorter than the column,
\* and the ratios of an empty column.
InBounds ==
  wild # {} => \/ op \in {"sumw", "avgw"} /\ w = 0
               \/ op \in {"varw", "stddevw"} /\ w < size
               \/ op \in {"ratios", "ratiow"} /\ size = 0

\* Each variance is rooted exactly once on the way to a standard deviation, and the roots of
\* stddevw trail the loop, so that no variance is built from a rooted one.
RootedOnce == /\ pc = "done" /\ op = "stddevw" => \A j \in DOMAIN roots : roots[j] = 1
              /\ pc = "done" /\ op = "stddevs" => \A j \in DOMAIN roots : j > 0 => roots[j] = 1
              /\ op = "stddevw" /\ pc = "first" => \A j \in DOMAIN roots : j >= i - 1 => roots[j] = 0

\* Every value an aggregate has written is the minimum, maximum, sum, mean or variance of the
\* cells of its window, as computed directly from them, but for the three ways in which the code
\* departs from that: lanes that read too early, a difference that overflows, and the maximum of a
\* floating column without a positive row.
ValuesByDefinition == ExtremumOfWindow /\ MovingSums /\ VarianceOfPrefix /\ ReductionIsLast

\* Every cell of the result is written, its root is taken once, and no access leaves the arrays
\* but in the three cases that the callers do not exclude.
CellsSound == WindowTypeOK /\ AllWritten /\ InBounds /\ RootedOnce
=============================================================================
