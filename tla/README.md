# AQuery2: TLA+ models and proofs

AQuery2 is an in-memory column store.  A Python prompt (`src/prompt.py`) parses
SQL-like statements, generates SQL for an embedded database (MonetDB) and C++
for everything else, compiles the C++ to `dll.so`, and hands both to a C++
server (`src/server/`, loaded into the prompt's process as `server.so`) that runs
as a thread of its own.  This directory models the parts of it whose order of
steps, or whose sequences of calls, decide whether they are right, checks the
models with TLC and proves the main results with TLAPS.

    tlc -config PoolOneCaller.cfg MCThreadPool      one run of TLC
    tlapm ThreadPoolProofs.tla                       one module of proofs

The configuration is the default one of `aquery_config.py` and the Makefile:
`THREADING=1`, `AQUERY_ITC_USE_SEMPH=1`, the prompt in threaded mode.

## 1. Inventory

| part | state it keeps | operations | talks to |
|---|---|---|---|
| **Prompt** `prompt.py`, `common/utils.py` | last queries `cxt.queries`, `out.cpp`, `state.payload`, `cfg` (shared), current procedure | one per typed command: exec, r, rr, procedure, engine, CACHE ... | engine: `receive_args`, `cfg.new_query`, two semaphores, `dll.so` |
| **Engine** `server.cpp` `threaded_main` | `n_recv`, `n_recvd`, handle of `dll.so`, `last_error`, recorded procedure | one case per message Q P O M F U N R T C | prompt, database session, procedures, triggers |
| **Thread pool** `threading.cpp` | slots and flag bytes, locked queue, `ticking` | `enqueue_task`, `busy`, `tick`, worker loop, destructor | trigger hosts, payloads (which may enqueue again) |
| **Interval triggers** `threading.cpp` | map of triggers with their remaining time | add, remove, 50 ms tick | pool |
| **Callback triggers** `threading.cpp`, `engine/ast.py` | map of (table, condition, action) | add, execute, remove; activation on INSERT | pool, procedures |
| **Stored procedures** `server.cpp`, `proctool.py` | recorded messages and libraries, `.aqp` and `.so` files | record, stop, run, load, display | engine, triggers |
| **Database session** `monetdb_conn.cpp` | one `res`, `cnt`, `last_error` | exec, fetch, haserror, execute a procedure | engine thread and pool workers |
| **Garbage collector** `gc.h`, `libaquery.cpp` | two queues, slot counter, daemon | `reg`, `gc`, daemon loop, start, terminate | every vector, from all threads |
| **Vectors, tables** `vector_type.hpp`, `table.h` | container, size, capacity (0: borrowed) | construct, copy, move, lend, grow, shrink, merge, initfrom | collector, scratch space, procedures |
| **Aggregations** `aggregations.h` | accumulators of one call | reductions, prefix and moving functions | procedures |
| **Hash grouping** `hasher.h`, `unordered_dense.h` | buckets, values, group numbers | insert, assign, erase, clear, grow, group rows | trigger hosts, procedures |
| **CSV loading** `csv.h`, `engine/ast.py` | three blocks, a thread that reads ahead | open, next line, read row, append | LOAD statements |
| **Decision trees** `sdk/` | a tree with the rows it learnt from | fit, incremental update, forget, test, rotate | user modules |
| **Scratch space** `gc.h`, `libaquery.cpp` | bump pointer, retired regions | alloc, release, reset, cleanup | vectors of a running procedure |
| **Compiler catalog** `engine/storage.py` | tables, columns, triggers, procedures, pending queries | CREATE, DROP, INSERT, post-exec triggers | code generation |
| **Build manager** `build.py` | checksums of sources and libraries | build driver, build dll | prompt |
| **Session memory** `sdk/aquery_mem.cpp` | per-session map of pointers | alloc, free, end of session | user modules |

Parser, code generation, the DuckDB and MariaDB connectors and vendored code are
listed in PROJECT.json with the reason they are not modelled; section 7 has the
reasons in full.

What is hard here: the prompt and the engine share memory guarded by one flag
and two semaphores; the pool fills the same slots from callers and from its
dispatcher without a lock; `tick()` drains while holding the lock that payloads
need; errors are kept in a field that reading clears, and engine and workers
share it; compilation and its result are decoupled from the request that uses it;
the file reader works on two of three blocks while another thread fills the
third; vectors tell owner from borrower by a capacity of 0 and free blocks
without asking; trees and hash tables are updated in place by code that must give
what a rebuild would.  The hazards are listed line by
line in PROJECT.json; two that no property states, trigger activations appended too late
(`prompt.py:521`) and the shared flag of `gc()` (`libaquery.cpp:380`), are in section 5.

What makes each part correct:

- *pool*: a payload is called at most once, with its own argument, never lost;
  `busy()` does not overlook one; draining and shutting down end.
- *hand-over*: the shared memory has one owner at a time; every message is handled
  once, in order, to the end; nobody sleeps forever; a procedure runs only from
  its own library and only if its own statement succeeded.
- *garbage collector*: an object is freed once and only if registered; none is lost.
- *procedures*: what is replayed is what was recorded, with its own libraries, in
  memory and from disk.
- *triggers and session*: a trigger fires in the rounds in which a period went by and
  lags behind the clock by what measuring in milliseconds loses, no more; a condition is decided by its own result; an error is seen by
  the one who caused it; a callback trigger submits its own procedures.
- *vectors*: a block has one owner, who alone releases it; a list is what was put
  into it; capacity is room that is there.
- *aggregations*: each value is that of its window, on every column and window.
- *grouping*: the table is a partial function; rows share a group exactly when their keys are equal.
- *CSV loading*: the table gets the rows of the file, complete and in order, with
  the numbers that were written, or none if the database refuses; every load ends.
- *trees*: what the incremental update leaves is what a rebuild would.

## 2. Modules

| module | what it is |
|---|---|
| `TaskPool` | abstract: what a caller relies on (called at most once, after it was handed over) |
| `ThreadPool` | `class ThreadPool`, one step per access to shared memory |
| `ThreadPoolProofs` | theorems about `ThreadPool` |
| `Mailbox` | abstract: shared memory with one owner at a time |
| `PromptEngine` | the prompt's commands and `threaded_main`'s loop |
| `PromptEngineProofs` | theorems about `PromptEngine` |
| `GarbageCollector` | `class GC`, one step per access to a shared field |
| `GarbageCollectorProofs` | theorems about `GarbageCollector` |
| `Procedures` | stored procedures: record, stop, run, load, files, libraries, crashes |
| `ProceduresProofs` | theorems about `Procedures` |
| `Triggers` | both trigger hosts, the workers that run conditions and actions, the shared database session |
| `TriggersProofs` | theorems about `Triggers` |
| `KeyedStore` | abstract: a partial function from keys to values |
| `DenseTable` | the hash table under the trigger hosts and GROUP BY; implements `KeyedStore` |
| `IncrementalTree` | `class DecisionTree` with the split search and the forest's rotation |
| `Windows` | reductions, prefix and moving aggregates, loop iteration by loop iteration |
| `Vectors` | who owns, borrows and releases the memory of columns |
| `VectorsProofs` | theorems about `Vectors` |
| `CsvLoad` | LOAD: the reader with its thread, rows, fields, numbers |
| `DataProofs` | theorems about how rows come in and are learnt from: it extends `CsvLoad` (its reader) and `IncrementalTree` |
| `GroupByProofs` | theorems about what GROUP BY is made of: it extends `DenseTable` and `Windows` |
| `MC...` | instances of each for TLC |

Each detailed module also holds a few *faulty variants* of its definitions.  No
specification uses them; substituting one shows that the property it is paired with
(PROJECT.json, "mutants") notices that slip.

### ThreadPool

State: a flag byte per worker is two Booleans (`tfPayload`, `tfRunning`), a slot
`current_payload[w]` has the two words `f` and `args`, `pq` is the deque,
`pq_lock` its mutex.  Callers (threads outside the pool, and workers whose
payload enqueues) walk through `enqueue_task`: `CheckTicking`, `ScanSlot`, `PutF`,
`PutArgs`, `SetPayload` on the unlocked path, `PushBack`, `MarkTicking` on the
locked one.  Workers: `Poll`, `LoadF`, `CallPayload`, `UnsetPayload`.  The
dispatcher: `TickLoop` ... `TickJoin`, with the fast drain (lock per item) and the
slow drain (lock held throughout).  Every access to memory that another thread may
touch at that moment is a step of its own, and a `payload_t` is stored and loaded
a word at a time, because nothing in the code makes it atomic.

`TaskPool` has what its callers know of a payload (`submitted`, `runs`, `returned`); these
are history variables of `ThreadPool` under the same names.

### PromptEngine

The prompt is a position `ppc` and the command in hand; an array that it makes is an
index into `sent`, and `kept` is the one `state.payload` keeps alive (assigning
it frees the one before).  A message is its first letter.  The engine is a position
`epc`, the loop index and the message in hand; `handle` names the exec whose
library it opened.  `done` records every message handled with its outcome.
Reading an array that is no longer kept, or past its end, gives any message.
An exec with a CACHE may hold other statements (`BesideCache`): the end of exec, `EndOfExec`,
builds `dll.so` and sets `has_dll` for their post-processing after CACHE has handed the
memory over.  `pinned` is the code of the `dll.so` that a request which begins to record, or a
stored procedure that is replayed, leaves open for good (`Pin`, `server.cpp:604`): the dynamic linker
gives it again, whatever was built since.
`sem_init` is called with its two value arguments exchanged (`libaquery.h:291`), so
the engine's semaphore starts with a credit there and without one on other
platforms; both are initial states.

`Mailbox` has the `owner` of the shared memory, the memory itself (`mail`) and each
thread's own state; the owner is the engine exactly while `new_query` is set.

Abstracted: contents of statements, results and trigger payloads; the user-module
messages M, F, U; recording of procedures (a stored procedure exists and RE
replays it, see `Procedures`); restart of the engine thread.  `MaxRequests` bounds
the number of requests in a behaviour (`MayRaise`) and of arrays made; it is the only
bound.

### GarbageCollector

`reg()` is `Reg`, `Spin`, `Enter`, `AddSize`, `TakeSlot`, `Put`, `Leave`, `Mark`, by any
thread; the daemon's loop is `Poll` ... `Return` with `gc()` from `GcEnter` to `Rest`.
The two queues keep their lengths (the second is allocated with the size of a
pointer per entry, half of the first) and start with whatever the memory held.
`overtaken` is set when a thread passes `while(lock);` before `gc()` sets `lock` and
counts itself only after `gc()` has seen `alive_cnt == 0`: from then on an entry can
land in the wrong queue.  `overrun` is set by a write past a queue's end, where the
model stops.  `forced_clean` is counted in rounds of the daemon.  Objects below the
threshold (`Small`) are freed in `reg()`.

### Procedures

One request of the prompt at a time (`PromptEngine` and its proof of `OneOwner`
justify that), performed message by message; a crash may come at any step and keeps
only `so` and `aqp`.  A message is a kind and the exec whose library holds its
procedure.  A library is known by its path; `opened` is what the dynamic linker has
mapped, where a path that is still open answers with the code opened first.
History: `ran` and the field `of` keep what was performed while recording, `played`
what a replay goes through, `faults` what has gone wrong (a stale library was opened;
a crash, a failed copy or a failed save left files of two recordings, or half a file, side by
side; the engine called or read what is not there), and `unsaved` the names whose last save
failed.  With `DiskMayFail`, copying `dll.so`, opening an `.aqp` file and writing it may fail; the
engine goes on in each case, as the code does.  Bounds: `MaxExecs`, `MaxRequests`,
`MaxCrashes`.

### Triggers

Three kinds of threads.  The *host* of the interval triggers goes round its map:
`StartRound` takes the lock, the iterators and the time since the last round (any of
`Deltas`, in units of which `PerMs` make a millisecond), of which it measures the whole
milliseconds and forgets the rest, `Visit` ticks one trigger, `EndRound` lets go.  The map is its
vector of values, so that `RemoveInterval`, which takes no lock, moves the last trigger
into the hole under the host's hands.  The *engine* handles TI, TR, TC, TA, TN and
ordinary statements, and clears `last_error` at the end of every request (`EndRequest`); a TI or
TA whose procedure is unknown is only reported; the *workers* take payloads and run the condition and then the
action, statement by statement.  All of them use one `session`: `res` and `last_error`
are read in steps of their own (`EndQuery` ... `ReadFirst`, `Postprocess`).  The
callback trigger's `registry` has the unions of name and procedure that `execute_trigger`
fills at the first activation (`BindQuery`, `BindAction`), by whichever thread comes
first, and `named` turns false when the prompt frees the message that the names lie in.
History: `elapsed`, `due`, `fired`, `moved` for the interval triggers, `age` and `seen` for their time by
the clock, `own` and
`crossed` for each thread's last query.  The pool is the queue of what it was given:
`ThreadPool` models the pool itself.  Bounds: `MaxMessages`, `MaxRounds`, `MaxPending`.

### KeyedStore and DenseTable

`DenseTable` is Robin Hood hashing with the values in a vector: a bucket is a distance,
a fingerprint and an index.  `Find` looks at the first two buckets unrolled, as the code
does; `Enter` finds the place, displaces and grows; `Erase` shifts back and moves the
last value into the hole; `Clear`.  `AQHashTable` is the same table with one `Push` per
row, which numbers the groups; `ht_postproc`, which collects their rows, is not modelled (section 7).  Which key hashes where is chosen in `Init`, any function to a few
values.  The table implements `KeyedStore` (`IsStore`).  The powers of two (`N`) and the loops
(`FirstFrom`) are written so that they can be reasoned about; `Far` bounds how far a loop walks.

### IncrementalTree

A tree is a heap of nodes (children `2n` and `2n + 1`) with their rows, sorted arrays of
the sparse columns, counts of the dense ones and their cut.  The counts of a dense column are a
sequence of values with their counts in the order of `record` (`Recorded`), which `Plus` (the merge
with those of the new rows, `Interleaved`) can leave unsorted, as the code does; `Minus` forgets
and `Running` sums in that order.  `evalue`, gini or entropy, is chosen in `Init`.  `Fit` adapts `retain`,
`maxHeight` and `forgetRate` and pushes a call; the recursion of `Update` and
`IncrementalUpdate` is a `stack` with one node per step, the release of forgotten rows
among them.  A row is an id with the flag (`DBL_MAX` in an extra column) by which
children learn that the root forgot it.  Which cut has the least impurity, and how
accurate the tree was on a batch, may be any.  `Rotate` is what `RF.cpp` does with a
forest's trees.  `wild` is where the model stops: the flag of a freed row was read.
The rows of a side (`Goes`), the ones kept (`Without`) and the ones forgotten (`Within`) are all
what `Picked` takes from a sequence in its order; it and the tree's heights (`Log2`), like the reach
of a Test (`Sound`, with `Below`), are recursive functions, so that they can be reasoned about.
The shuffle by which a forest chooses what to forget also shuffles the root's rows; the order means
nothing there, so the model leaves it alone and the properties do not look at it.

### Windows

One state per loop iteration, with index, accumulators, `cache` (the deque of `minw`
and `maxw`) and the result column, whose cells are `Undef` until written.  Averages and
variances are exact: integers times a common denominator.  `sqrt` is a mark on the cell
(`roots`).  Accesses outside the arrays are collected in `wild`.  With `Simd`, as in the
default build (-fopenmp), the compiler may run iterations of a loop side by side: one that is not the
first of its block reads `ret[i-1]` before it is written and gets `Garbage`.  Blocks may begin and end
anywhere.  This concerns the loops that build a cell from the one before (`Carried`); the accumulators
of the others are locals that the compiler sees and whose order it keeps, and every other loop reads
what no iteration of it writes.  A build without it is `AQ_DEBUG=1` (`src/Makefile:90`).
`Narrow` wraps what is computed in an integer column's own type; types narrower than `int` are widened
first.  Sums, which have a longer type, are taken as unbounded.  `Unit`, the common
denominator, is any number that every count of rows divides.  The specification is
called `WindowSpec`, so that `GroupByProofs` can extend this module beside `DenseTable`.

### Vectors

A vector is a block with an offset, a size and a capacity; 0 is a borrower.  `heap` has
the blocks: live or not, and their cells; `Blank` is a cell nothing was put into.  One
action per operation of `vector_type` and of `ColRef` and `TableInfo` that changes
containers.  `malloc` may return any block nobody points to (the least, without loss),
and a freed block is gone at once.  A client uses a borrower only while the block it
borrowed is there; nothing keeps it from using an owner.  A size may be 0, and a
vector its own source (assignment, merge, a merge with a range of its own cells);
`init` and `initfrom` may find a column that owns a container.  `holds` is the list an owner
stands for, kept independently of the cells.  `why` says which undefined behaviour was
met, where the model stops.  Bounds: `MaxSize`, `MaxBlocks`, and in the run `MaxCells` cells in
all blocks together.

### CsvLoad

The loading thread is `Open`, `StartRead`, `NextLine`, `FinishRead`, `CopyBlock`, `Scan`,
`ReadRow`, then `AppendTable`, `Close`, `Join`; the reading thread `WorkerWait`,
`WorkerRead`, `WorkerStop`.  Its lock is held in each of these but while the third block
is copied.  Bytes are one-letter strings in three blocks; a line is cut out of them where
the code does.  `AppendTable` appends all rows, or none if the database refuses (`refused`).
Fields become integers and vectors of integers digit by digit, with the
code's test for overflow, in temporaries that are moved into the columns.  What the
file says is defined apart, on the whole file (`Rows`, `Meaning`, `Elements`).  `Unread` is what
the reader has not handed out yet, wherever it lies: the window, the third block once it is read,
the source.

## 3. Runs

| run | instance | question |
|---|---|---|
| `pool_one_caller` | 1 caller, 2 workers, 3 payloads, `Burst` 1, fair | exactly-once hand-over, refinement of `TaskPool`, clean shutdown; slots are served, drains and shutdown end |
| `pool_nested` | 1 caller, 2 workers, payloads that submit payloads, fair | what survives several callers; the one way payloads block each other |
| `engine_requests` | exec, CACHE alone or beside an INSERT, procedure, r, rr; 3 requests; builds succeed | ownership, skipping, right library |
| `engine_failures` | all commands, 3 backends, 2 requests, builds may fail, fair | live reads, order, completeness; no mutual sleep, the prompt returns |
| `gc_race` | 2 threads, 2 objects and a small one, 2 slots, fair | freed once; lost or wild only if overtaken; no registration spins for ever |
| `procedures` | 2 names, 2 execs, 6 requests, 1 crash, copies and saves may fail | replay equals record; right library; files match memory |
| `triggers` | 2 interval triggers (periods 13 and 3, modulus 16), rounds of 5½ and 15 ms, 1 callback trigger, 2 workers, 3 messages, 2 rounds | fires when due, lag behind the clock; own results and errors; own procedures |
| `dense_table` | 4 keys, hashes at both ends of 8 buckets, 2 fingerprints, 5 calls; 3 rows to group | exact index, Robin Hood order, refinement of `KeyedStore`, groups |
| `incremental_tree` | a sparse and a dense column, 4 points, 2 classes, 6 rows, `retain` up to 4, gini and entropy | incremental equals rebuilt; answers; latest rows kept, freed once; exact summaries |
| `windows` | columns of up to 5 rows of 3 values, windows 0 to 6, floating or of an integer type whose limits (-5 .. 4) differences and squares overflow; -fopenmp | every value is that of its window, but for the named exceptions; all cells; bounds |
| `vectors` | 2 vectors of up to 3 elements, 2 blocks, 5 cells | owners, lenders, capacity, leaks, lists |
| `csv_load` | blocks of 7 bytes, files of up to 4 blocks, an integer and a vector column, -12 .. 11, fair | rows and numbers of the file, or none; hand-over of the third block; every load ends |

A property of a run is often a conjunction of named parts, each an invariant with a comment
of its own.  The properties and their parts:

| property | parts |
|---|---|
| `CallsExact` | `CalledOnce`, `NeverDropped`, `QuietMeansNotRunning` |
| `TakesDefined` | `FrontDefined`, `NoNullCall` |
| `Served` | `SlotServed`, `DrainEmpties` |
| `OutcomesForCause` | `OwnQuery`, `ExecSkipsForCause` |
| `PerformedInFull` | `OnceInOrder`, `AnsweredInFull` |
| `QueuesSafe` | `NothingLost`, `NothingWild` |
| `RecordsAgree` | `TypeOK`, `RecordingAgreed`, `KnownIsSaved` |
| `Scheduled` | `TypeOK`, `FiresWhenDue`, `OnPhase` |
| `OnOwnResult` | `DecidesOnOwn`, `EngineSeesError` |
| `IndexSound` | `TypeOK`, `IndexExact`, `RobinHood`, `FindsAll` |
| `NodesFresh` | `TreeTypeOK`, `ChildrenPartition`, `TestDefined` |
| `RowsKept` | `KeepsLatest`, `RowsAlive` |
| `SummariesExact` | `SortedExact`, `CountsCover`, `LeafMajority` |
| `ValuesByDefinition` | `ExtremumOfWindow`, `MovingSums`, `VarianceOfPrefix`, `ReductionIsLast` |
| `CellsSound` | `WindowTypeOK`, `AllWritten`, `InBounds`, `RootedOnce` |
| `LoadedAsWritten` | `InOrder`, `LoadsFile`, `ValuesAsWritten` |
| `BlocksHandedOver` | `TypeOK`, `NoRace`, `Asserted`, `TailOfFile`, `LineOfFile` |
| `ContentsKept` | `TypeOK`, `ListKept`, `UndefinedForCause` |
| `BlocksKept` | `OneOwner`, `LenderKeepsBlock`, `NothingLeaks` |

Bounds.  `Burst = 1` (1024 in the code) makes the slow drain happen with two queued
payloads; two workers suffice for two slots to be chosen in either order; three or four
payloads fill both slots and still leave one in the queue.  Three requests are
enough for a leftover of the first (error, `has_dll`, library, credit) to meet the
third with one in between.  Two slots let the second queue (half as long) be filled, and
`MaxSize` 0 or 1 lets a collection start under either condition (three objects and a
small one pass too, without the liveness property).  Six requests let a
name be recorded, stopped, recorded again, lost in a crash and run; two execs give it
two libraries.  A state constraint (`FewMishaps`) leaves out failing saves after a crash, and of both names.  A modulus of 16 with periods 13 and 3 and measured times of 5 (of 5½) and 15 ms makes
the sum in `Left` wrap, and one round miss several periods of one trigger and none of the
other.  Two workers and the engine are three users of one session.  Four keys in eight
buckets that all belong to the first or the last one displace each other around the end of the table, and five calls
fill, erase and fill again through a growth.  Six rows are three or four batches, so that a node
is rebuilt, updated in place, forgets and is updated again; the second batch brings two new values of
the dense column, the greater first.  Five rows and windows up to
six have windows shorter than, equal to and longer than the column.  Two vectors suffice
for every operation, which touches at most two; two blocks let the list that a vector had
and the one it gets exist side by side; five cells (`MaxCells`, a state constraint) are a list of three beside one of two.  Seven bytes hold a line with a vector of two
numbers, a line end of either kind and one that is too long; in four blocks both block
copies and the reading thread's last, empty answer happen.

`CHECK_DEADLOCK FALSE` stands where the system may stop: the pool after its destructor,
callers without payloads or objects left, requests, messages, calls or rows used up
(`procedures`, `triggers`, `dense_table`, `incremental_tree`), a function that has returned
(`windows`), a file that is loaded, and undefined behaviour, after which a model does not
go on.  The engine runs check deadlock.

Fairness.  Weak fairness of each thread's own steps: the operating system
schedules every thread.  A user who types and an owner who calls `enqueue_task`,
`reg` or the destructor are not fair.  In `ThreadPool` each worker, each call under way
and the dispatcher is a separate fairness condition; a payload's function is assumed
to return.  In `GarbageCollector` each thread inside `reg()` and the daemon; the spins
are guards, which a fair thread passes only if they stay true long enough to be seen,
as weak fairness says.  In `CsvLoad` the two threads; waiting on a condition variable is
a state that only a wake-up ends, so a lost wake-up is a thread that waits for ever.

What they show beyond "holds":

- With one caller the pool is exact; with several (`pool_nested`) payloads are lost and
  doubled, so `CallsExact` is stated for one caller, but no null
  payload is ever called and no front of an empty deque is taken.  `PayloadReturns`
  names the only way a payload hangs (`SlowStuck`).  `CleanJoin` is checked with
  payloads that submit nothing: one that submits another while the pool shuts down can
  leave a filled slot behind.
- The shared memory has one owner as long as an exec holds one CACHE statement; with
  two it has not (section 5), yet even then nobody sleeps for ever (proved,
  `NeitherSleepsForGood`).  `RunsOwnCode` needs builds that succeed, and excepts the code
  that a stored procedure left open (`pinned`, backend AQuery).  `RefinesMailbox` needs a CACHE that stands
  beside no post-processed statement.
- `FreedOnce` holds even when registrations are overtaken.  `NothingLost` and
  `NothingWild` hold until one is: the double read (`q`, then `lock`, then `alive_cnt`)
  is the one gap in the handshake.
- `PlaysWhatRan` and `RecordingAgreed` hold without reserve, `KnownIsSaved` for every name
  whose last save has not failed: the engine knows a procedure that it could not save.
  `RightLibrary` says that nothing missing is called *first*: a stale library or mixed
  files must have come before (`faults`).  Recording the same name twice in one
  session is enough for a stale library.
- Interval triggers fire by the measured time, whatever times are measured, and that falls behind
  the clock by less than a millisecond a round (up to 2 % of a round of 50 ms); a trigger's first round
  also counts the time before it was registered.  Removal without the lock
  harms only the one trigger that `erase()` moves.  Conditions and the engine's errors are
  right as long as no other thread uses the session between a statement and its reading, the
  clearing of the error at the end of a request included.
- The table under the trigger hosts and GROUP BY is exact: every search ends where it
  should, through growth, wrap-around and erasure.
- In a tree, only a node that kept rows which were all forgotten can touch freed rows; all
  others hold what a rebuild would, except for the counts of dense columns (`CountsCover`) and,
  with gini, leaves above rows that a dense column would tell apart (`LeafMajority`).
- The moving aggregates are right on every column and window of the bounds but for cells built
  from one not yet written (`Garbage`), differences of `avgw` that overflow (`Fitting`), maxima of floating
  columns without a positive row (`BelowStart`) and the three unguarded cases that `InBounds` names.
- The exceptions in `OneOwner`, `LenderKeepsBlock`, `CapacityIsReal`, `NothingLeaks` and
  `UndefinedForCause` are those among the modelled operations of vectors that break the
  discipline of owner and borrower; all other modelled ones keep it in every sequence of calls,
  with sizes of 0, a vector as its own source and columns initialised twice among them.
- The reader of files never mixes blocks or rows, and the two threads always part.

## 4. Proofs

All theorems hold for every value of the constants that satisfies the named
assumptions (`PoolAssumption`, `PromptAssumption`, `CollectorAssumption`, `TriggerAssumption`,
`ProcedureAssumption`, `NothingAssumption`, `VectorAssumption`, `BlockAssumption`, `TableAssumption`,
`WindowAssumption`, `TreeAssumption`); they give the types of the constants, say that `None`, `Torn` and `Blank` are none of the things they stand in
for, and bound intervals and measured times by the width of the code's integers (a round takes at least a millisecond);
that a block has at least two bytes is half of the byte order mark.  `TableAssumption` says that
the table's rows fit into the largest table, as the 2^64 buckets of the code hold more than there
is memory; `WindowAssumption` (the formula `Parameters`) that an index plus a window fits its 32 bits, that the values lie within the limits of
their type and that `Unit` is a common denominator; `TreeAssumption` that there is a column and
more than one class, that `MaxRetain` is at least two and that no batch is empty or longer than it
(a fit sets `retain` to at least the length of its batch).

| theorem | extra assumption | argument |
|---|---|---|
| `ThreadPoolProofs!TypeCorrect`, `FrontAlwaysDefined` | none | `BaseInv`: callers inside `enqueue_task` hold a payload and a valid slot; the dispatcher is the only one who pops, so what it saw nonempty stays nonempty |
| `NullNeverCalled` | none | `NullInv`: a set flag means both words of the slot were written at some time, and words never return to null; with the line above, `DefinedTakes` |
| `AtMostOnce`, `NothingDropped`, `QuietIsNotRunning`, together `ExactCalls`, and `Refinement` | `OneCaller`: one thread outside, no nested submission | `Exclusion` (the caller takes the unlocked path only while `ticking` is false, and only it sets it), then `WordInv` (both words of a slot belong to the same payload), then `PlaceInv` (an unfinished payload is in exactly one place) |
| `JoinsCleanly` | `NoneSpawn`: no payload submits another; `FitsByte`: fewer threads than a byte counts | `JoinInv`: callers inside `enqueue_task` are outside threads, and the destructor runs only when there are none (`OutsideInv`); a running flag is cleared only by the join, a worker that has exited has no flag set, the dispatcher is gone only after all workers have exited (`StopInv`) |
| `PromptEngineProofs!TypeCorrect` | none | part by part, one leaf per action |
| `NeitherSleepsForGood` | none | `WaitInv`: a waiting prompt whose request was answered has a credit or is about to get one; a raised request whose wake-up was posted finds the engine awake or a credit |
| `OneOwner` (refinement of `Mailbox`) | `OneAtATime`: one CACHE per exec; `PlainCache`: beside a CACHE nothing is post-processed | `TurnInv` (while `new_query` is set the prompt is past its writes; the engine serves only then) and `CacheInv` (the one store after the hand-over, `has_dll = 0`, writes the value already there) |
| `ReadsOnlyLiveMessages` | `OneAtATime` | `ArrayInv`: outside the three steps that make an array, `n_recv`, `n_recvd` and the kept payload describe the same array |
| `PerformsInFull` | `OneAtATime` | `ServeInv` on top of `ArrayInv`: no message of the newest array is done before it is handed over; while it is served, exactly the messages before the loop index are done, in order; an array that was answered is complete |
| `RunsOwnLibrary` | `OneAtATime`, `PlainCache`; `AlwaysBuilds`: every build succeeds and no `exec_n`; `LibraryFirst`: a recorded procedure loads a library before it calls one | `BuildInv`: an exec's array has its library message before its calls, `dll.so` is the one of the newest exec that compiled, and the handle the engine opened is that of the array in hand, or of the `dll.so` left open when a stored procedure was (`pinned`) |
| `OutcomesHaveCauses` | `OneAtATime`, `PlainCache`, `AlwaysBuilds`; `OneConsumer`: a query is followed by one procedure or one output, as `storage.py` emits them | `OwnQueryInv`: the error field at a message that reads it is that of the query just before it, because every query overwrites it and the one reader that clears it comes once; `ErrorInv` for what an `exec` keeps |
| `GarbageCollectorProofs!TypeCorrect` | none | `Counted`: `alive_cnt` is the number of threads between `Enter` and `Leave`, hence never below zero |
| `AtMostOnceFreed` | none | `PlaceInv`: an object is in one place (a thread's hand, one entry of one queue, or freed), and freed ones are only in the part of the retired queue that the loop has gone through, which `Wipe` clears |
| `CalmCollections` | none | `CalmInv`: while nothing is overtaken or overrun, counted threads use the current queue and `gc()` is not between its test and `Unlock`; threads at `Put` own distinct slots that hold no object; objects lie in the current queue below `slot_pos`, in the other only while it is retired and below `_slot`; every slot taken is written or about to be |
| `TriggersProofs!TicksOnSchedule` | none | `HostInv`: within a round, the triggers already visited are on time for `elapsed` and those still to come for `elapsed` less the measured time, `Left` being what is left of the period at that time; removal under the host's hands spoils only the trigger that moves (`moved`).  The clock is the measured time and, for each round, a rest of less than `PerMs`, which adds up to the lag of `OnPhase` |
| `DecidesOnOwnQuery` | none | `OwnInv`: a thread that nobody crossed between its query and its reading finds `res` and `last_error` as its own query left them; to clear the error at the end of a request is to cross every thread that has not read yet |
| `SubmitsItsOwn` | none | `BindInv`: unless two threads bound it at once (`twice`) or the names are gone (`named`), one thread at a time is binding, its position says which of the two fields are filled, and a materialized trigger has both; `PendingOK`: so has each payload it gave to the pool |
| `ProceduresProofs!RecordsStayInStep`, `PlaysRecorded` | none | `IInv`: a request in hand is a suffix of one the prompt makes; what was recorded without its marks is `ran`; prompt and engine agree on the name under way; what is known is on disk, or its name is in `unsaved`; a replay is at the same place in the record and in `ran` |
| `CallsRightLibrary` | none | `RightInv`, on top of `IInv`: as long as no library was stale and no files mixed (by a crash, a failed copy or a failed save), the files hold, for every recorded call, the library of its own exec (`FilesOK`); what a record calls is open with that code (`KeepOK`); the library in use is that of the batch in hand (`OwnOK`); what a load has opened so far is what the files hold (`ModulesOK`) |
| `VectorsProofs!KeepsContents`, `RoomStays`, `KeepsBlocks` | none | `Order`: an owner begins where its block begins and has room for its size, elements lie in live blocks, the first cells of an owner's block are its list.  Lemma `Steps`: every operation is one of seven kinds of steps (build, view, rewrite, drop, move, hand on, stop), each of which keeps `Order` and releases, shares or forgets a block only in the operations that the properties name |
| `DataProofs!HandsOverBlocks`, `ReadsLineByLine` | none | `Control`: after the first request there is either a request or an answer, a short answer is the file's last, and a window that ends before the second block does is the last too; `DataOK`: byte by byte, the window, the third block and the source continue each other in the file, through shifting, copying and reading ahead; `LineStart`: behind the header the window begins behind a newline |
| `DataProofs!TreeInvariant` | none | `TreeInv`, which says what a tree is in the middle of a fit.  `StackOK`: one call for a node, that for the root alone, the release of rows last.  `Waiting`: a call comes from an inner parent that the fit has gone through.  `Matched`: every node that no call is to rebuild has children that hold their sides of its rows, or have a call that brings exactly what is missing (all rows of the side to `Update`; the new ones to `IncrementalUpdate`, to which the child's unforgotten ones are to be added).  `Visited`: nodes gone through hold no forgotten row and are inner nodes only above `maxHeight`.  `RootRows`: the root has the latest rows or a call with the newest batch.  `Unreleased`: rows to be released are flagged and not released yet |
| `NodesStayFresh`, `LatestRowsKept` | none | `TreeInv` with no call left: what a Test can reach (`Sound`) is in the branches that the invariant speaks of (`BelowWithin`).  `ChildrenPartition` alone is not inductive: in the middle of a fit a parent has the new rows and its children have not |
| `GroupByProofs!TableInvariant`, `IndexIsSound` | none | `TableInv`: every value has exactly one bucket and every full bucket one value (`Alone`); a bucket lies where its distance says and carries its key's print (`Fits`); after a bucket comes an empty one or one whose distance is at most one more, with the prints in order (`Tight`); keys differ, and values are fewer than buckets.  From the neighbours follows that all on the way to a value is at least as rich (`OnTheWay`), from the count that some bucket is empty (`SomeEmpty`), and from both that a search ends where it should (`StopSound`); Robin Hood order alone is not inductive, because an erasure reads the buckets behind it |
| `ImplementsStore` | none | on top of `TableInvariant`: the contents of the table are a function of the values alone, and each call changes them as `KeyedStore` does or not at all |
| `RowsAreGrouped` | none | `GroupInv`: the group of a row is the place of its key in the table, numbers appear without gaps in the order of first occurrence, and every group has a row; that rows share a group only if their keys are equal is that keys in the table differ (`TableInv`) |
| `ValuesAreByDefinition`, `CellsAreSound` | none: in every build, with `Simd` or without | `Inv` (`Control`: where a function is and how its window was clamped; `AccOK`: the accumulators are the extremum, the deque, the sum, the mean and the spread of the rows before `i`; `RootsOK`; `AllRight`: every cell written is the value of its window, `Garbage`, or one of the other exceptions) and, on top, `AllFilled`: every cell up to the index is written.  The deque keeps, for every row of the window, a later one that it does not beat (`Deque`, lemma `Slides`); a sum moves by what enters less what leaves (`TotalMoves`); the update of the variance is exact (`VarianceMoves`) |

`OneOwner` needs `OneAtATime` and `PlainCache`: two CACHE statements in one exec, or one beside a
post-processed SELECT, are the counterexamples without them (3 in section 5).  `AtMostOnce` needs `OneCaller` for the same reason.
`AtMostOnceFreed` needs the strengthening because "freed at most once" says nothing of
entries that a late thread writes into the queue being freed.

`RunsOwnLibrary` and `OutcomesHaveCauses` need `AlwaysBuilds`, because after a failed build, or
an `exec_n` followed by `rr`, a call runs in whichever library was opened before (5 in
section 5).  `JoinsCleanly` needs `NoneSpawn`, as its run does.  The theorems about the
collector, triggers, procedures, vectors, files, trees and the hash table need nothing further: their exceptions are part of
the properties (`overtaken`, `moved`, `crossed`, `faults`, the operations named in `OneOwner` and the
other parts).  So are those of the aggregates (`Garbage`, `Fitting`, `BelowStart`).

Where a fact goes by induction over rows, buckets or nodes (`Powers`, `TotalIs`, `FillIs`, `EverySeq`,
`BelowWithin`), the proof takes the least counterexample: that a set of naturals has one (`LeastOf`) follows from a theorem about
relations, which the prover can apply, unlike the induction schemes over operators.

Only model-checked: the liveness properties (`Served`, `ShutdownCompletes`, `PayloadReturns`,
`Answered`, `RegReturns`, `Ends`: fairness and ENABLED are outside the prover's reach) and
two safety properties: `SummariesExact` of `IncrementalTree` and `LoadedAsWritten` of `CsvLoad`.  What
the splitting of a line into fields and digits computes for every text, and what the merges of sorted
columns, the running sums and the majority leave in a node, is the result of sorts and folds over
data; their operators are of the community modules, whose definitions by recursion over sets and
sequences the prover has no facts about.  The proofs about trees hold whatever these summaries are:
any cut may win.

## 5. Disagreements and defects found while modelling

The properties above state what the code does keep; each exception in one of them is
listed here, with the change that makes TLC show it where there is one.

*Pool, hand-over, collector, procedures*

1. `threading.cpp:70`: `tick()` stores `ticking = false` after its last look at the
   queue; a payload pushed in between is stranded and `busy()` denies it (the invariant
   "not busy implies every submitted payload has returned" fails with one caller and
   one worker).  `tests/thread_pool.hpp` closes the tasks' file on that answer.
2. `prompt.py:521`: trigger activations are appended after the array was sent; an INSERT
   fires its trigger with the next exec, or never.
3. `common/utils.py:175`: two CACHE statements in one exec free the array under
   the engine's loop (`CacheRuns = {2}` in `EngineRequests.cfg`: `RefinesMailbox` fails).
   `prompt.py:515`: beside one CACHE, a statement with post-processing rebuilds `dll.so` and sets
   `has_dll` while the engine has the request (`<<"Q", "P">>` added to `BesideInsert` in `MCPromptEngine`: the
   same).
4. `libaquery.cpp:380`: `gc()` ends with `running = false` and so undoes that of an
   object registered meanwhile; the collection that `gc.h:79` forces after a second is
   not made ("a registered object is freed some day" fails with one thread and two objects).
5. `prompt.py:516`: a failed build is ignored and the engine looks for the new procedures in
   the old `dll.so` (`BuildMayFail = TRUE` in `EngineRequests.cfg`: `RunsOwnCode` fails).
   `server.cpp:604`: a request that begins to record, or a stored procedure that is replayed, leaves its
   library open; when that is `dll.so` (backend AQuery), the next `dlopen` gives the old code
   (`pinned`).
6. `server.cpp:271`: a procedure recorded twice under one name meets its first library
   (drop the condition on `faults` from `RightLibrary`).  `:453`: the result of `save_proc_tofile`
   is not looked at, nor are those of `fwrite` and `fclose` in it: a procedure that could not be
   saved is known all the same, and an older file stays beside its new libraries (drop `unsaved`
   from `KnownIsSaved`).  `:257`: a copy is named by the procedure and a number, so that `p10.so` is the
   eleventh library of `p` and the first of `p1` (not modelled: copies have distinct paths).

*Triggers and session*

7. `threading.cpp:204`: `remove_trigger` takes no lock; a round under way skips the trigger
   that was moved, or ticks the removed one once more.  Several periods missed in one
   round fire once.  An interval of 0 divides by zero (`:216`).  `:186`: each round drops the
   part of a millisecond it has measured, and the first one counts the time before the trigger was
   registered (`OnPhase` with `late = 0` fails).
8. `threading.cpp:244`: the first activations of a callback trigger by two threads at once
   read a procedure's address as a name; names registered by one request are read after
   the next has freed them (`server.cpp:532`).  `DROP TRIGGER` of a callback trigger
   removes nothing on the server.
9. `monetdb_conn.cpp:126`: one thread reads another's error or rows; a statement without a
   result leaves the rows of an earlier one to a condition; `int(getFirstElement())` makes
   a multiple of 2^32 false.  `server.cpp:593`: the end of every request clears `last_error`,
   also that of a worker's condition, which is then decided on old rows.

*Aggregations and grouping*

10. `aggregations.h:246` and `:269`: the second loops of `sumw` and `avgw` build each cell
    from the one before under `#pragma omp simd`.  Compiled with the flags of
    `src/Makefile:96` (-Ofast -fopenmp), g++ 12 vectorises `avgw` of integers and `sumw` of
    doubles, with wrong values, against README:271; with `Written` for
    `Built` in `MovingSums` TLC shows how.  `:207` (`sums`) and `hasher.h:189` are the same pattern.  `avgw` takes the difference of two
    elements in their own type, which may overflow (`:271`, `Fitting`).
11. `aggregations.h:310`: the second loop of `varw` and `stddevw` reads `arr[2^32 - 1]` when the
    window is shorter than the column; `s *= rw` truncates for integer columns.  `sumw` and
    `avgw` of a window of 0 read `ret[-1]`; the ratios of an empty column write `ret[0]`.
12. `aggregations.h:73`: maxima of floating columns start at the least *positive* number, against
    README:273 (`BelowStart(S) == FALSE`: `ExtremumOfWindow` fails).
    `var` divides by one more than the number of rows, `vars` does not
    (README:272 says population variance); README:274 has the ratio upside down;
    `first` is mapped to `frist` (`common/types.py:340`).
13. `engine/ast.py:704` takes an attribute of a string: no GROUP BY query that needs the
    C++ loop can be generated.  `PerfectHashTable` (`hasher.h:318`) does not compile.

*Vectors*

14. `vector_type.hpp:44`: a copy has the capacity of its source and room for its size only
    (`CapacityIsReal`).  `:188`: an empty borrower that grows reallocates its lender's block;
    DISTINCT on an empty borrowed column does (`LenderKeepsBlock`).  `:268`, `:306`:
    `shrink_to_fit` and `merge` release a borrowed block.  `:203`: `resize` and `reserve` of a
    borrower below its size overflow the new block.  `:133`: assignment leaks, and so does
    `initfrom` of a named vector (`table.h:122`, `NothingLeaks`); `table.h:135` makes two
    owners (`OneOwner`).  `:45`: `v = v` allocates a new block before it reads the old one, which it has
    just let go of: the list is lost.  `:188`: `resize(0)` and `reserve(0)` of any borrower reallocate
    its lender's block.  `table.h:98`: `init` and `initfrom` of a column that owns a container forget
    it; so does assigning a column of another type (`:147`), which moreover reads elements of one
    size as those of another.  `:310`: `merge` copies overlapping memory when its source borrows cells of the same
    block beyond the target's list; `merge` of a range of the vector's own cells (`:324`) reads them after
    they were freed, if it has to grow.
15. `resize` leaves the memory's old contents as elements; `distinct_inplace` (`:156`) does not
    set the size; `erase` (`:233`) assigns each element to itself and drops the last.

*CSV*

16. A row with too few or too many fields, or a line longer than a block, throws out of the
    generated procedure, where nobody catches it.  Numbers take every digit of a field:
    `1.5` in an integer column is 15, a number too large keeps its first digits, and a
    separator before the first element of a vector is an element 0.  An exponent of many
    digits makes `parse_float` loop over its absolute value.  `table_ext_monetdb.hpp:74`: after a
    failed CREATE, or with an older error still there, no row is appended; an error of the append is
    only printed.

*Trees*

17. A node all of whose rows were forgotten and that gets none keeps them, and reads them
    after they are freed at the next fit (`wild`, excluded by `Kept`).  `giniDense` and
    `entropyDense` leave running sums where the next fit expects counts, against the comment
    at `incrementalDecisionTree.cpp:44`.  `:376`: new values of a dense column are merged in the order they
    came in, although `d` has their sorted order, so that `record` may be unsorted; a cut is then
    taken from sums in that order, and forgetting (`:325`), which goes through `record` once, misses rows.
    `Evaluation.cpp:176`: with gini, a value whose rows were all forgotten has count 0, and 0/0 is
    a cut that no comparison prefers; as the inflated sums end the search early, a node whose rows differ
    may become a leaf.  A leaf made for want of a cut answers for its new rows only
    (`incrementalDecisionTree.cpp:819`).  `irf.cpp` copies `f` bytes, not `f` numbers.  Rows are not freed
    when an update replaces all of them.

*Prompt and compiler, read but not modelled*

18. `storage.py`: every line of the prompt starts from a fresh context unless `keep` is on, so
    tables of earlier lines are forgotten; SELECT INTO and CREATE TABLE AS replace a table's
    object and with it its triggers; aliases of a plain SELECT stay behind.
    `prompt()` survives a ParseException and a few others; any other error ends it.
19. `build.py`: checksums are taken after the build, so a source edited while it runs is
    recorded as built; the list of headers leaves out `unordered_dense.h`, `csv.h` and
    others, whose change does not cause a rebuild.
20. `ast.py` (joins): the sets of equated columns are updated for the two columns of a
    condition only, so a chain `a = b`, `a = c` does not equate `b` and `c`.

## 6. Plan

The modules planned are written and, but for the data computations named in section 4, proved about.
What is left:

- `IncrementalTree`: `SummariesExact`, if `ByValue` and `Merge` are written as recursive functions.
- `CsvLoad`: one line at a time, that the fields are those of `Rows`.
- `Mailbox` and `KeyedStore` are small enough to be refined by more than one module: the IPC
  mode of the prompt and `aq_map`'s other users are candidates.

## 7. Not modelled

- *Scratch space*: its only user is the loop of a GROUP BY query, which cannot be generated
  at this commit (13 above); no behaviour of the program reaches its states.
- *Catalog*: dictionaries of one Python thread.  Each statement changes them by a few
  assignments, nothing runs in between and nothing is persisted; what matters outside is
  the array it hands over, which `PromptEngine` has.
- *Build manager*: what it decides depends on file contents and external compilers;
  `PromptEngine` has both outcomes of a build.
- *Session memory*: a map per session that only the example modules use.
- *Parser and code generation*: pure functions from text to text; a statement about them
  needs the semantics of SQL and C++.
- *Other connectors*: calls into client libraries that are not part of the repository.
- *Vendored code and data*: number formatting (dragonbox, jeaiii), MonetDB's headers, test
  data.  `csv.h` and `unordered_dense.h` are modelled because the program's results rest on
  them.
- `ht_postproc` (`hasher.h:172`), which collects the rows of each group: its only user is the loop
  of a GROUP BY query that cannot be generated (13 above), and its loops carry dependences under
  `#pragma omp simd`, so that what it yields depends on the compiler.
- Within modelled parts: element-wise operators, correlation, floating-point rounding and
  unsigned columns of `int`'s width, whose differences wrap at every fall
  (`Windows`); the constructor that takes room from the scratch space, joins, sorting and printing of tables (`Vectors`); headers, floats, dates and
  quoting (`CsvLoad`); impurities and the forest's average (`IncrementalTree`); the IPC mode
  and commands that touch nothing shared (`PromptEngine`); `proctool.py` and triggers that
  run procedures being recorded (`Procedures`).
