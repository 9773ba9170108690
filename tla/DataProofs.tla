----------------------------- MODULE DataProofs -----------------------------
(* Proofs about how rows come in.  CsvLoad, for any files and any length of a    *)
(* block: what the two threads of the reader hand to each other, and the lines   *)
(* that come out of it.  IncrementalTree, for any columns, batches and bounds:   *)
(* what a sequence of fits leaves in the nodes of a tree.                        *)
EXTENDS CsvLoad, IncrementalTree, SequenceTheorems, FiniteSetTheorems, WellFoundedInduction, TLAPS

--------------------------------------------------------------------------------
(* The inductive invariant.                                                      *)

Positions == 0..(3 * block_len - 1)
Shape ==
  /\ file \in Seq(Range(file)) /\ source \in Seq(Range(file)) /\ Len(source) <= Len(file)
  /\ DOMAIN buffer = Positions
  /\ data_begin \in Nat /\ data_end \in Nat
  /\ data_begin <= data_end /\ data_end <= 2 * block_len + 1
  /\ worker \in {"off", "check", "waiting", "done"}
  /\ desired_byte_count \in {-1, block_len} /\ read_byte_count \in -1..block_len
  /\ pc \in {"open", "start", "next", "finish", "finishing", "copy", "restart", "scan", "row",
             "append", "close", "join", "closed", "thrown"}
  /\ header \in BOOLEAN

\* The file is at its end, and so is what was read ahead of it.
Ended == source = <<>> /\ read_byte_count <= 0

\* The window: it lies in the first two blocks; next_line leaves the second one free when it has
\* to be filled, and a window that ends before it does is the last.
WindowOK ==
  /\ data_begin < data_end => data_end <= 2 * block_len
  /\ pc \in {"finish", "finishing"} => data_end <= block_len
  /\ pc \in {"finish", "finishing", "copy", "restart", "scan"} =>
       data_begin < data_end /\ data_begin < block_len
  /\ worker # "off" =>
       IF pc \in {"finish", "finishing"} THEN data_end = block_len \/ Ended
       ELSE IF pc \in {"copy", "restart"} THEN data_end = 2 * block_len \/ source = <<>>
       ELSE data_end = 2 * block_len \/ Ended

\* The request and its answer: at each moment one of the two is there, but before the first
\* request; the loading thread copies only after an answer, and a short answer is the last.
ReaderOK ==
  /\ pc = "open" => worker = "off" /\ data_end = 0 /\ source = file
  /\ pc \in {"start", "restart", "finish", "finishing", "copy", "join"} => worker # "off"
  /\ worker = "off" \/ pc = "start" => desired_byte_count = -1 /\ read_byte_count = -1
  /\ worker = "off" /\ pc # "open" => source = <<>>
  /\ pc = "start" => data_end = 2 * block_len
  /\ pc \in {"copy", "restart"} => desired_byte_count = -1 /\ read_byte_count # -1
  /\ read_byte_count \in 0..(block_len - 1) => source = <<>>
  /\ worker # "off" /\ pc # "start" => (desired_byte_count = -1) # (read_byte_count = -1)

Control == Shape /\ WindowOK /\ ReaderOK

\* How much of the third block is read and not yet copied, and how much of the file lies before
\* the window's end and before its beginning.
InThird == IF pc \in {"copy", "restart"} \/ read_byte_count = -1 THEN 0 ELSE read_byte_count
Held == Len(file) - Len(source) - InThird
Gone == Held - (data_end - data_begin)

\* Every block holds the part of the file that it should.
DataOK ==
  /\ Gone >= 0
  /\ \A p \in data_begin..(data_end - 1) : buffer[At(p)] = file[Held - data_end + p + 1]
  /\ \A k \in 1..InThird : buffer[2 * block_len + k - 1] = file[Held + k]
  /\ \A k \in 1..Len(source) : source[k] = file[Len(file) - Len(source) + k]

\* Behind the header the window begins with a line.
LineStart ==
  /\ pc = "open" => header
  /\ ~header /\ data_begin < data_end => Gone >= 1 /\ file[Gone] = "n"

\* The bytes from b + 1 to e are a line of f, and its newline, if it has one, is at e + 1.
LineAt(f, b, e, next) ==
  /\ b \in Nat /\ e \in Nat /\ b <= e /\ e <= Len(f)
  /\ \A k \in (b + 1)..e : f[k] # "n"
  /\ \/ e = Len(f) /\ next = e
     \/ e < Len(f) /\ f[e + 1] = "n" /\ next = e + 1
LineRead ==
  pc = "row" => /\ ~header
                /\ \E b, e \in Nat : /\ b >= 1 /\ file[b] = "n" /\ b < Gone /\ LineAt(file, b, e, Gone)
                                     /\ line = Plain(SubSeq(file, b + 1, e))

--------------------------------------------------------------------------------
(* The control of the two threads.                                               *)

\* A block has at least two bytes.
LEMMA BlockLength == block_len \in Nat /\ block_len >= 2
BY BlockAssumption

\* The invariant of the hand-over holds in the first state.
LEMMA Start == Init => Control
<1>. SUFFICES ASSUME Init PROVE Control
  OBVIOUS
<1>1. /\ file \in Files /\ source = file /\ buffer = [p \in 0..(3 * block_len - 1) |-> Undef]
      /\ data_begin = 0 /\ data_end = 0 /\ pc = "open" /\ header = TRUE
      /\ worker = "off" /\ desired_byte_count = -1 /\ read_byte_count = -1
  BY DEF Init
<1>2. file \in Seq(Range(file))
  BY <1>1, BlockAssumption
<1>3. Len(file) \in Nat
  BY <1>2
<1>. QED BY <1>1, <1>2, <1>3, BlockLength DEF Control, Shape, WindowOK, ReaderOK, Positions

\* What reading leaves of the file.
LEMMA Reading ==
  ASSUME Shape, NEW m \in Nat
  PROVE  /\ Given(m) \in 0..m /\ Given(m) <= Len(source)
         /\ (Given(m) < m => Given(m) = Len(source))
         /\ Skip(Given(m)) \in Seq(Range(file))
         /\ Len(Skip(Given(m))) = Len(source) - Given(m)
         /\ \A k \in 1..(Len(source) - Given(m)) : Skip(Given(m))[k] = source[Given(m) + k]
<1>1. source \in Seq(Range(file)) /\ Len(source) \in Nat
  BY DEF Shape
<1>2. Given(m) \in 0..m /\ Given(m) <= Len(source) /\ (Given(m) < m => Given(m) = Len(source))
  BY <1>1 DEF Given
<1>. DEFINE n == Given(m)
           t == SubSeq(source, n + 1, Len(source))
<1>. HIDE DEF n
<1>3. n \in Nat /\ n <= Len(source)
  BY <1>2 DEF n
<1>4. \A i \in (n + 1)..Len(source) : source[i] \in Range(file)
  BY <1>1, <1>3
<1>5. /\ t \in Seq(Range(file))
      /\ Len(t) = IF n + 1 <= Len(source) THEN Len(source) - (n + 1) + 1 ELSE 0
      /\ \A i \in 1..(Len(source) - (n + 1) + 1) : t[i] = source[n + 1 + i - 1]
  BY <1>1, <1>3, <1>4, SubSeqProperties
<1>6. Len(t) = Len(source) - n
  BY <1>1, <1>3, <1>5
<1>7. \A k \in 1..(Len(source) - n) : t[k] = source[n + k]
  BY <1>1, <1>3, <1>5
<1>. QED BY <1>2, <1>5, <1>6, <1>7 DEF Skip, n

\* A source is empty when nothing is left of it.
LEMMA EmptySource ==
  ASSUME Shape
  PROVE  source = <<>> <=> Len(source) = 0
BY EmptySeq DEF Shape

\* Open fills the first two blocks and has requested nothing yet.
LEMMA OpenControl ==
  ASSUME Control, Open
  PROVE  Control'
<1>. DEFINE n == Given(2 * block_len)
<1>1. /\ pc = "open" /\ worker = "off" /\ data_end = 0 /\ source = file
      /\ desired_byte_count = -1 /\ read_byte_count = -1
  BY DEF Open, Control, ReaderOK
<1>2. /\ buffer' = Placed(n, 0) /\ source' = Skip(n) /\ data_end' = n
      /\ data_begin' = (IF IsPrefix(BOM, source) THEN 3 ELSE 0)
      /\ (IF n = 2 * block_len THEN worker' = "check" /\ pc' = "start"
                                   ELSE worker' = worker /\ pc' = "next")
      /\ file' = file /\ header' = header
      /\ desired_byte_count' = desired_byte_count /\ read_byte_count' = read_byte_count
  BY DEF Open, loaded
<1>3. /\ n \in 0..(2 * block_len) /\ n <= Len(source) /\ (n < 2 * block_len => n = Len(source))
      /\ Skip(n) \in Seq(Range(file)) /\ Len(Skip(n)) = Len(source) - n
  <2>1. 2 * block_len \in Nat
    BY BlockLength
  <2>. QED BY <2>1, Reading DEF Control
<1>4. IsPrefix(BOM, source) => n >= 3
  <2>1. Len(BOM) = 3
    BY DEF BOM
  <2>2. IsPrefix(BOM, source) => 3 <= Len(source)
    BY <2>1 DEF IsPrefix
  <2>3. Len(source) \in Nat
    BY DEF Control, Shape
  <2>. QED BY <2>2, <2>3, <1>3, BlockLength
<1>5. DOMAIN buffer' = Positions
  BY <1>2 DEF Placed, Control, Shape
<1>. HIDE DEF n
<1>6. Shape'
  BY <1>1, <1>2, <1>3, <1>4, <1>5, BlockLength DEF Control, Shape, Positions
<1>7. n < 2 * block_len => source' = <<>>
  BY <1>1, <1>2, <1>3, EmptySeq DEF Control, Shape
<1>8. WindowOK'
  BY <1>1, <1>2, <1>3, <1>7, BlockLength DEF WindowOK, Ended
<1>9. ReaderOK'
  BY <1>1, <1>2, <1>3, <1>7, BlockLength DEF ReaderOK
<1>. QED BY <1>6, <1>8, <1>9 DEF Control

\* StartRead makes the first request.
LEMMA StartReadControl ==
  ASSUME Control, StartRead
  PROVE  Control'
<1>1. /\ pc \in {"start", "restart"} /\ desired_byte_count' = block_len /\ read_byte_count' = -1
      /\ worker' = (IF worker = "waiting" THEN "check" ELSE worker)
      /\ pc' = (IF pc = "start" THEN "next" ELSE "scan")
      /\ UNCHANGED <<file, source, buffer, data_begin, data_end, header>>
  BY DEF StartRead, Wake, window, loaded
<1>2. Shape'
  BY <1>1, BlockLength DEF Control, Shape, Positions
<1>3. WindowOK'
  BY <1>1, BlockLength DEF Control, Shape, WindowOK, ReaderOK, Ended
<1>4. ReaderOK'
  BY <1>1, BlockLength DEF Control, Shape, ReaderOK
<1>. QED BY <1>2, <1>3, <1>4 DEF Control

\* NextLine needs no more of the worker than there is.
LEMMA NextLineControl ==
  ASSUME Control, NextLine
  PROVE  Control'
<1>1. /\ pc = "next" /\ UNCHANGED <<file, source, worker, desired_byte_count, read_byte_count>>
      /\ IF data_begin = data_end
         THEN /\ pc' = (IF header THEN "next" ELSE "append") /\ header' = FALSE
              /\ UNCHANGED <<buffer, data_begin, data_end>>
         ELSE /\ header' = header
              /\ IF data_begin >= block_len
                 THEN /\ buffer' = Half(block_len, 0)
                      /\ data_begin' = data_begin - block_len /\ data_end' = data_end - block_len
                      /\ pc' = IF worker # "off" THEN "finish" ELSE "scan"
                 ELSE pc' = "scan" /\ UNCHANGED <<buffer, data_begin, data_end>>
  BY DEF NextLine, window, reader
<1>2. DOMAIN buffer' = Positions
  BY <1>1 DEF Half, Control, Shape
<1>3. Shape'
  <2>1. /\ data_begin \in Nat /\ data_end \in Nat /\ data_begin <= data_end
        /\ data_end <= 2 * block_len + 1 /\ pc = "next" /\ header \in BOOLEAN
    BY <1>1 DEF Control, Shape
  <2>2. /\ data_begin' \in Nat /\ data_end' \in Nat /\ data_begin' <= data_end'
        /\ data_end' <= 2 * block_len + 1
    BY <1>1, <2>1, BlockLength
  <2>3. pc' \in {"next", "append", "finish", "scan"} /\ header' \in BOOLEAN
    BY <1>1, <2>1
  <2>. QED BY <1>1, <1>2, <2>2, <2>3 DEF Control, Shape, Positions
<1>4. WindowOK'
  BY <1>1, BlockLength DEF Control, Shape, WindowOK, Ended
<1>5. ReaderOK'
  BY <1>1, BlockLength DEF Control, Shape, ReaderOK
<1>. QED BY <1>3, <1>4, <1>5 DEF Control

\* FinishRead waits for an answer that there is or will be.
LEMMA FinishReadControl ==
  ASSUME Control, FinishRead
  PROVE  Control'
<1>1. /\ pc = "finish"
      /\ UNCHANGED <<file, source, buffer, data_begin, header, worker, desired_byte_count, read_byte_count>>
      /\ IF read_byte_count # -1 THEN data_end' = data_end + read_byte_count /\ pc' = "copy"
         ELSE data_end' = data_end /\ pc' = "finishing"
  BY DEF FinishRead, Answered, loaded, reader
<1>2. data_end <= block_len /\ (data_end = block_len \/ Ended) /\ worker # "off"
  BY <1>1 DEF Control, WindowOK, ReaderOK
<1>3. Shape'
  <2>1. /\ data_begin \in Nat /\ data_end \in Nat /\ data_begin <= data_end
        /\ read_byte_count \in -1..block_len
    BY DEF Control, Shape
  <2>2. /\ data_end' \in Nat /\ data_begin <= data_end' /\ data_end' <= 2 * block_len + 1
    BY <1>1, <1>2, <2>1, BlockLength
  <2>3. pc' \in {"copy", "finishing"}
    BY <1>1
  <2>. QED BY <1>1, <2>2, <2>3 DEF Control, Shape, Positions
<1>4. WindowOK'
  BY <1>1, <1>2, BlockLength DEF Control, Shape, WindowOK, ReaderOK, Ended
<1>5. ReaderOK'
  BY <1>1, BlockLength DEF Control, Shape, ReaderOK
<1>. QED BY <1>3, <1>4, <1>5 DEF Control

\* CopyBlock puts what was read behind the window, and the next request is made.
LEMMA CopyBlockControl ==
  ASSUME Control, CopyBlock
  PROVE  Control'
<1>1. /\ pc = "copy" /\ pc' = "restart" /\ buffer' = Half(2 * block_len, block_len)
      /\ UNCHANGED <<file, source, data_begin, data_end, header, worker, desired_byte_count, read_byte_count>>
  BY DEF CopyBlock, window, loaded, reader
<1>2. DOMAIN buffer' = Positions
  BY <1>1 DEF Half, Control, Shape
<1>3. Shape'
  BY <1>1, <1>2 DEF Control, Shape, Positions
<1>4. WindowOK' /\ ReaderOK'
  BY <1>1 DEF Control, WindowOK, ReaderOK, Ended
<1>. QED BY <1>3, <1>4 DEF Control

\* LineEnd is where the first newline is, or the end of the window.
LEMMA LineEnds ==
  ASSUME Shape
  PROVE  /\ LineEnd \in data_begin..data_end
         /\ LineEnd = data_end \/ buffer[LineEnd] = "n"
         /\ \A p \in data_begin..(LineEnd - 1) : buffer[p] # "n"
<1>. DEFINE Stops == {e \in data_begin..data_end : e = data_end \/ buffer[e] = "n"}
<1>1. Stops \subseteq Nat /\ data_end \in Stops
  BY DEF Shape
<1>2. PICK e \in Stops : \A y \in Stops : ~(<<y, e>> \in OpToRel(<, Nat))
  BY <1>1, NatLessThanWellFounded, WFMin
<1>3. \A y \in Stops : ~(y < e)
  BY <1>1, <1>2 DEF OpToRel
<1>4. \A p \in data_begin..(e - 1) : buffer[p] # "n"
  BY <1>1, <1>3 DEF Shape
<1>5. \E x \in data_begin..data_end : /\ x = data_end \/ buffer[x] = "n"
                                     /\ \A p \in data_begin..(x - 1) : buffer[p] # "n"
  BY <1>4
<1>. QED BY <1>5 DEF LineEnd

\* Scan only moves the window on.
LEMMA ScanControl ==
  ASSUME Control, Scan
  PROVE  Control'
<1>1. /\ pc = "scan"
      /\ UNCHANGED <<file, source, worker, desired_byte_count, read_byte_count>>
      /\ IF TooLong THEN pc' = "thrown" /\ UNCHANGED <<buffer, data_begin, data_end, header>>
         ELSE /\ buffer' = [buffer EXCEPT ![LineEnd] = Undef]
              /\ data_begin' = LineEnd + 1
              /\ data_end' = IF Unterminated THEN data_end + 1 ELSE data_end
              /\ pc' = IF header THEN "next" ELSE "row"
              /\ header' = FALSE
  BY DEF Scan, window, reader
<1>2. DOMAIN buffer' = Positions
  BY <1>1 DEF Control, Shape
<1>3. /\ LineEnd \in data_begin..data_end /\ data_begin < data_end
      /\ data_end <= 2 * block_len /\ data_begin \in Nat /\ data_end \in Nat
  BY <1>1, LineEnds DEF Control, Shape, WindowOK
<1>4. /\ data_begin' \in Nat /\ data_end' \in Nat
      /\ data_begin' <= data_end' /\ data_end' <= 2 * block_len + 1
      /\ data_begin' < data_end' => data_end' = data_end
  BY <1>1, <1>3, BlockLength DEF Unterminated
<1>5. pc' \in {"thrown", "next", "row"} /\ header' \in BOOLEAN
  BY <1>1 DEF Control, Shape
<1>6. Shape'
  BY <1>1, <1>2, <1>4, <1>5 DEF Control, Shape, Positions
<1>7. worker # "off" => data_end' = 2 * block_len \/ Ended
  <2>1. CASE TooLong
    BY <2>1, <1>1 DEF Control, WindowOK
  <2>2. CASE ~TooLong /\ ~Unterminated
    BY <2>2, <1>1 DEF Control, WindowOK
  <2>3. CASE ~TooLong /\ Unterminated
    <3>1. data_end # 2 * block_len
      BY <2>3, <1>1, <1>3, BlockLength DEF TooLong, Unterminated, Control, WindowOK
    <3>. QED BY <3>1, <1>1 DEF Control, WindowOK
  <2>. QED BY <2>1, <2>2, <2>3
<1>8. WindowOK'
  BY <1>1, <1>3, <1>4, <1>5, <1>7 DEF WindowOK, Ended
<1>9. ReaderOK'
  BY <1>1, <1>5 DEF Control, ReaderOK
<1>. QED BY <1>6, <1>8, <1>9 DEF Control

\* What becomes of a row concerns no block.
LEMMA RowControl ==
  ASSUME Control, ReadRow \/ AppendTable
  PROVE  Control'
<1>1. /\ pc \in {"row", "append"} /\ pc' \in {"next", "thrown", "close"}
      /\ UNCHANGED <<file, source, buffer, data_begin, data_end, header, worker,
                     desired_byte_count, read_byte_count>>
  BY DEF ReadRow, AppendTable, window, reader
<1>2. Shape' /\ WindowOK' /\ ReaderOK'
  BY <1>1 DEF Control, Shape, WindowOK, ReaderOK, Ended, Positions
<1>. QED BY <1>2 DEF Control

\* Closing and joining ask the worker for nothing more.
LEMMA CloseControl ==
  ASSUME Control, Close \/ Join
  PROVE  Control'
<1>1. /\ pc \in {"close", "join"} /\ pc' \in {"join", "closed"} /\ (pc' = "join" => worker # "off")
      /\ (worker' = worker \/ (worker = "waiting" /\ worker' = "check"))
      /\ UNCHANGED <<file, source, buffer, data_begin, data_end, header,
                     desired_byte_count, read_byte_count>>
  <2>1. CASE Close
    <3>1. CASE worker = "off"
      BY <2>1, <3>1 DEF Close, window, reader, loaded
    <3>2. CASE worker # "off"
      BY <2>1, <3>2 DEF Close, window, loaded, Wake
    <3>. QED BY <3>1, <3>2
  <2>2. CASE Join
    BY <2>2 DEF Join, window, reader, loaded
  <2>. QED BY <2>1, <2>2
<1>2. Shape'
  BY <1>1 DEF Control, Shape, Positions
<1>3. WindowOK' /\ ReaderOK'
  BY <1>1 DEF Control, WindowOK, ReaderOK, Ended
<1>. QED BY <1>2, <1>3 DEF Control

\* A worker that waits or stops leaves the blocks alone.
LEMMA WaitControl ==
  ASSUME Control, WorkerWait \/ WorkerStop
  PROVE  Control'
<1>1. /\ worker = "check" /\ worker' \in {"waiting", "done"}
      /\ UNCHANGED <<file, source, buffer, data_begin, data_end, pc, header,
                     desired_byte_count, read_byte_count>>
  BY DEF WorkerWait, WorkerStop, Alive, window, loaded
<1>2. Shape' /\ WindowOK' /\ ReaderOK'
  BY <1>1 DEF Control, Shape, WindowOK, ReaderOK, Ended, Positions
<1>. QED BY <1>2 DEF Control

\* A read answers the request that there is.
LEMMA WorkerReadControl ==
  ASSUME Control, WorkerRead
  PROVE  Control'
<1>. DEFINE n == Given(block_len)
<1>1. /\ worker = "check" /\ desired_byte_count = block_len /\ read_byte_count = -1
      /\ pc \notin {"open", "start", "copy", "restart"}
  <2>1. worker = "check" /\ desired_byte_count # -1
    BY DEF WorkerRead, Alive
  <2>. QED BY <2>1 DEF Control, Shape, ReaderOK
<1>2. /\ buffer' = Placed(n, 2 * block_len) /\ source' = Skip(n)
      /\ read_byte_count' = n /\ desired_byte_count' = -1
      /\ worker' = (IF n = 0 THEN "done" ELSE "check")
      /\ pc' = (IF pc = "finishing" THEN "finish" ELSE pc)
      /\ UNCHANGED <<file, data_begin, data_end, header>>
  BY <1>1 DEF WorkerRead, window, loaded
<1>3. /\ n \in 0..block_len /\ n <= Len(source) /\ (n < block_len => n = Len(source))
      /\ Skip(n) \in Seq(Range(file)) /\ Len(Skip(n)) = Len(source) - n
  BY Reading, BlockLength DEF Control
<1>4. DOMAIN buffer' = Positions
  BY <1>2 DEF Placed, Control, Shape
<1>. HIDE DEF n
<1>5. Shape'
  <2>1. Len(source) \in Nat /\ Len(file) \in Nat /\ Len(source) <= Len(file)
    BY DEF Control, Shape
  <2>2. Len(source') <= Len(file')
    BY <1>2, <1>3, <2>1, BlockLength
  <2>. QED BY <1>2, <1>3, <1>4, <2>2, BlockLength DEF Control, Shape, Positions
<1>6. n < block_len => source' = <<>>
  BY <1>2, <1>3, EmptySeq DEF Control, Shape
<1>7. source = <<>> => n = 0 /\ source' = <<>>
  <2>1. source = <<>> => Len(source) = 0
    OBVIOUS
  <2>. QED BY <2>1, <1>3, <1>6, BlockLength
<1>8. WindowOK'
  BY <1>1, <1>2, <1>3, <1>6, <1>7 DEF Control, WindowOK, Ended
<1>9. ReaderOK'
  BY <1>1, <1>2, <1>3, <1>6, BlockLength DEF Control, Shape, ReaderOK
<1>. QED BY <1>5, <1>8, <1>9 DEF Control

\* The invariant of the hand-over is inductive.
LEMMA ControlStep == Control /\ [Next]_vars => Control'
<1>. SUFFICES ASSUME Control, [Next]_vars PROVE Control'
  OBVIOUS
<1>1. CASE Next
  BY <1>1, OpenControl, StartReadControl, NextLineControl, FinishReadControl, CopyBlockControl,
     ScanControl, RowControl, CloseControl, WaitControl, WorkerReadControl DEF Next, Loader, Worker
<1>2. CASE UNCHANGED vars
  <2>1. UNCHANGED <<file, source, buffer, data_begin, data_end, pc, header, worker,
                    desired_byte_count, read_byte_count>>
    BY <1>2 DEF vars, window, loaded, reader
  <2>2. Shape' /\ WindowOK' /\ ReaderOK'
    BY <2>1 DEF Control, Shape, WindowOK, ReaderOK, Ended, Positions
  <2>. QED BY <2>2 DEF Control
<1>. QED BY <1>1, <1>2

--------------------------------------------------------------------------------
(* The bytes in the blocks.                                                      *)

\* What is gone is what is held without the window.
LEMMA Differences ==
  ASSUME NEW h \in Int, NEW b \in Nat, NEW e \in Nat
  PROVE  h - (e - b) \in Int /\ (h = e => h - (e - b) = b) /\ (b < e => h - (e - b) < h)
OBVIOUS

\* What the proofs about bytes count with.
LEMMA Numbers ==
  ASSUME Shape
  PROVE  /\ block_len \in Nat /\ block_len >= 2
         /\ Len(file) \in Nat /\ Len(source) \in Nat /\ Len(source) <= Len(file)
         /\ data_begin \in Nat /\ data_end \in Nat /\ data_begin <= data_end
         /\ data_end <= 2 * block_len + 1 /\ read_byte_count \in -1..block_len
         /\ InThird \in 0..block_len /\ Held \in Int /\ Gone \in Int
<1>1. /\ block_len \in Nat /\ block_len >= 2
      /\ Len(file) \in Nat /\ Len(source) \in Nat /\ Len(source) <= Len(file)
      /\ data_begin \in Nat /\ data_end \in Nat /\ data_begin <= data_end
      /\ data_end <= 2 * block_len + 1 /\ read_byte_count \in -1..block_len
  BY BlockLength DEF Shape
<1>2. InThird \in 0..block_len
  BY <1>1 DEF InThird
<1>. QED BY <1>1, <1>2 DEF Held, Gone

\* A step that moves no byte and no end of the window.
LEMMA NothingMoves ==
  ASSUME Shape, DataOK, UNCHANGED <<file, source, buffer, data_begin, data_end>>,
         InThird' = InThird, (pc' = "copy") <=> (pc = "copy")
  PROVE  DataOK' /\ Gone' = Gone
<1>1. Held' = Held /\ Gone' = Gone
  BY DEF Held, Gone
<1>2. \A p : At(p)' = At(p)
  BY DEF At
<1>. QED BY <1>1, <1>2 DEF DataOK

\* After Open the blocks hold the beginning of the file.
LEMMA OpenData ==
  ASSUME Control, Open
  PROVE  DataOK'
<1>. DEFINE n == Given(2 * block_len)
<1>1. /\ pc = "open" /\ source = file /\ read_byte_count = -1
  BY DEF Open, Control, ReaderOK
<1>2. /\ buffer' = Placed(n, 0) /\ source' = Skip(n) /\ data_end' = n
      /\ pc' \in {"start", "next"} /\ file' = file /\ read_byte_count' = read_byte_count
  BY DEF Open, loaded
<1>3. /\ n \in 0..(2 * block_len) /\ n <= Len(source) /\ Len(Skip(n)) = Len(source) - n
      /\ \A k \in 1..(Len(source) - n) : Skip(n)[k] = source[n + k]
  <2>1. 2 * block_len \in Nat
    BY BlockLength
  <2>. QED BY <2>1, Reading DEF Control
<1>4. Len(file) \in Nat /\ Shape' /\ block_len \in Nat
  BY OpenControl, Numbers DEF Control
<1>5. \A p \in 0..(n - 1) : buffer'[p] = source[p + 1]
  BY <1>2, <1>3, BlockLength DEF Placed, Control, Shape, Positions
<1>. HIDE DEF n
<1>6. InThird' = 0
  BY <1>1, <1>2 DEF InThird
<1>7. Held' = n
  BY <1>1, <1>2, <1>3, <1>4, <1>6 DEF Held
<1>8. data_begin' \in Nat /\ data_begin' <= data_end'
  BY <1>4 DEF Shape
<1>9. Gone' >= 0
  <2>1. data_end' \in Nat /\ Held' = data_end'
    BY <1>2, <1>4, <1>7 DEF Shape
  <2>2. Gone' = Held' - (data_end' - data_begin')
    BY DEF Gone
  <2>3. Gone' = data_begin'
    <3>1. Held' \in Int /\ data_begin' \in Nat /\ data_end' \in Nat
      BY <1>8, <2>1
    <3>2. \A h \in Int, b \in Nat, e \in Nat : h = e => h - (e - b) = b
      BY Differences
    <3>. QED BY <2>1, <2>2, <3>1, <3>2
  <2>. QED BY <1>8, <2>3
<1>10. \A p \in data_begin'..(data_end' - 1) : buffer'[At(p)'] = file'[Held' - data_end' + p + 1]
  <2>. SUFFICES ASSUME NEW p \in data_begin'..(data_end' - 1)
                PROVE  buffer'[At(p)'] = file'[Held' - data_end' + p + 1]
    OBVIOUS
  <2>1. At(p)' = p
    BY <1>2 DEF At
  <2>2. p \in 0..(n - 1) /\ Held' - data_end' + p + 1 = p + 1
    BY <1>2, <1>3, <1>7, <1>8
  <2>. QED BY <1>1, <1>2, <1>5, <2>1, <2>2
<1>11. \A k \in 1..Len(source') : source'[k] = file'[Len(file') - Len(source') + k]
  BY <1>1, <1>2, <1>3, <1>4
<1>. QED BY <1>6, <1>9, <1>10, <1>11 DEF DataOK

\* Moving the second block to the front takes the window along.
LEMMA ShiftData ==
  ASSUME Control, DataOK, NextLine, data_begin # data_end, data_begin >= block_len
  PROVE  DataOK' /\ Gone' = Gone
<1>1. /\ pc = "next" /\ pc' \in {"finish", "scan"} /\ UNCHANGED <<file, source, read_byte_count>>
      /\ buffer' = Half(block_len, 0)
      /\ data_begin' = data_begin - block_len /\ data_end' = data_end - block_len
  BY DEF NextLine, window, reader
<1>2. /\ block_len \in Nat /\ block_len >= 2 /\ data_begin \in Nat /\ data_end \in Nat
      /\ data_begin < data_end /\ data_end <= 2 * block_len
      /\ InThird \in 0..block_len /\ Held \in Int /\ Gone \in Int
  BY Numbers DEF Control, WindowOK
<1>3. InThird' = InThird
  BY <1>1 DEF InThird
<1>4. Held' = Held
  BY <1>1, <1>3 DEF Held
<1>5. Gone' = Gone
  BY <1>1, <1>2, <1>4 DEF Gone
<1>6. /\ \A p \in 0..(block_len - 1) : buffer'[p] = buffer[p + block_len]
      /\ \A p \in block_len..(3 * block_len - 1) : buffer'[p] = buffer[p]
  BY <1>1, <1>2 DEF Half, Control, Shape, Positions
<1>7. \A p \in data_begin'..(data_end' - 1) : buffer'[At(p)'] = file'[Held' - data_end' + p + 1]
  <2>. SUFFICES ASSUME NEW p \in data_begin'..(data_end' - 1)
                PROVE  buffer'[At(p)'] = file'[Held' - data_end' + p + 1]
    OBVIOUS
  <2>1. At(p)' = p /\ At(p + block_len) = p + block_len
    BY <1>1 DEF At
  <2>2. /\ p \in 0..(block_len - 1) /\ p + block_len \in data_begin..(data_end - 1)
        /\ Held' - data_end' + p + 1 = Held - data_end + (p + block_len) + 1
    BY <1>1, <1>2, <1>4
  <2>3. buffer[At(p + block_len)] = file[Held - data_end + (p + block_len) + 1]
    BY <2>2 DEF DataOK
  <2>. QED BY <1>1, <1>6, <2>1, <2>2, <2>3
<1>8. \A k \in 1..InThird' : buffer'[2 * block_len + k - 1] = file'[Held' + k]
  <2>. SUFFICES ASSUME NEW k \in 1..InThird PROVE buffer'[2 * block_len + k - 1] = file[Held + k]
    BY <1>1, <1>3, <1>4
  <2>1. 2 * block_len + k - 1 \in block_len..(3 * block_len - 1)
    BY <1>2
  <2>. QED BY <1>6, <2>1 DEF DataOK
<1>. QED BY <1>1, <1>5, <1>7, <1>8 DEF DataOK

\* Taking an answer changes no byte still to be handed out.
LEMMA FinishData ==
  ASSUME Control, DataOK, FinishRead, Answered
  PROVE  DataOK' /\ Gone' = Gone
<1>1. /\ pc = "finish" /\ pc' = "copy" /\ data_end' = data_end + read_byte_count
      /\ UNCHANGED <<file, source, buffer, data_begin, read_byte_count>> /\ read_byte_count # -1
  BY DEF FinishRead, Answered, loaded, reader
<1>2. /\ block_len \in Nat /\ block_len >= 2 /\ data_begin \in Nat /\ data_end \in Nat
      /\ data_begin < data_end /\ data_end <= block_len
      /\ InThird \in 0..block_len /\ Held \in Int /\ Gone \in Int /\ read_byte_count \in Nat
      /\ Len(file) \in Nat /\ Len(source) \in Nat
  BY <1>1, Numbers DEF Control, WindowOK
<1>3. InThird = read_byte_count /\ InThird' = 0
  BY <1>1 DEF InThird
<1>4. Held' = Held + read_byte_count
  BY <1>1, <1>2, <1>3 DEF Held
<1>5. Gone' = Gone
  BY <1>1, <1>2, <1>4 DEF Gone
<1>6. read_byte_count > 0 => data_end = block_len
  BY <1>1, <1>2 DEF Control, WindowOK, ReaderOK, Ended
<1>7. \A p \in data_begin'..(data_end' - 1) : buffer'[At(p)'] = file'[Held' - data_end' + p + 1]
  <2>. SUFFICES ASSUME NEW p \in data_begin'..(data_end' - 1)
                PROVE  buffer[At(p)'] = file[Held - data_end + p + 1]
    BY <1>1, <1>2, <1>4
  <2>1. CASE p < data_end
    <3>1. p < block_len /\ p \in data_begin..(data_end - 1)
      BY <1>1, <1>2, <2>1
    <3>2. At(p)' = p /\ At(p) = p
      BY <1>1, <1>2, <3>1 DEF At
    <3>. QED BY <3>1, <3>2 DEF DataOK
  <2>2. CASE p >= data_end
    <3>1. data_end = block_len /\ p >= block_len
      BY <1>1, <1>2, <1>6, <2>2
    <3>2. At(p)' = p + block_len
      BY <1>1, <3>1 DEF At
    <3>3. /\ p - block_len + 1 \in 1..InThird
          /\ p + block_len = 2 * block_len + (p - block_len + 1) - 1
          /\ Held - data_end + p + 1 = Held + (p - block_len + 1)
      BY <1>1, <1>2, <1>3, <3>1
    <3>. QED BY <3>2, <3>3 DEF DataOK
  <2>3. p \in Int
    OBVIOUS
  <2>. QED BY <1>2, <2>1, <2>2, <2>3
<1>. QED BY <1>1, <1>3, <1>5, <1>7 DEF DataOK

\* The copy of the third block continues the window in the file.
LEMMA CopyData ==
  ASSUME Control, DataOK, CopyBlock
  PROVE  DataOK' /\ Gone' = Gone
<1>1. /\ pc = "copy" /\ pc' = "restart" /\ buffer' = Half(2 * block_len, block_len)
      /\ UNCHANGED <<file, source, data_begin, data_end, read_byte_count>>
  BY DEF CopyBlock, window, loaded, reader
<1>2. /\ block_len \in Nat /\ block_len >= 2 /\ data_begin \in Nat /\ data_end \in Nat
      /\ data_begin < data_end /\ data_end <= 2 * block_len
  BY <1>1, Numbers DEF Control, WindowOK
<1>3. InThird = 0 /\ InThird' = 0
  BY <1>1 DEF InThird
<1>4. Held' = Held /\ Gone' = Gone
  BY <1>1, <1>3 DEF Held, Gone
<1>5. /\ \A p \in block_len..(2 * block_len - 1) : buffer'[p] = buffer[p - block_len + 2 * block_len]
      /\ \A p \in 0..(block_len - 1) : buffer'[p] = buffer[p]
  BY <1>1, <1>2 DEF Half, Control, Shape, Positions
<1>6. \A p \in data_begin'..(data_end' - 1) : buffer'[At(p)'] = file'[Held' - data_end' + p + 1]
  <2>. SUFFICES ASSUME NEW p \in data_begin..(data_end - 1)
                PROVE  buffer'[At(p)'] = buffer[At(p)]
    BY <1>1, <1>4 DEF DataOK
  <2>1. At(p)' = p
    BY <1>1 DEF At
  <2>2. CASE p < block_len
    BY <1>1, <1>2, <1>5, <2>1, <2>2 DEF At
  <2>3. CASE p >= block_len
    <3>1. p \in block_len..(2 * block_len - 1) /\ p - block_len + 2 * block_len = p + block_len
      BY <1>2, <2>3
    <3>. QED BY <1>1, <1>5, <2>1, <2>3, <3>1 DEF At
  <2>. QED BY <1>2, <2>2, <2>3
<1>. QED BY <1>1, <1>3, <1>4, <1>6 DEF DataOK

\* What is read into the third block continues the window in the file.
LEMMA WorkerData ==
  ASSUME Control, DataOK, WorkerRead
  PROVE  DataOK' /\ Gone' = Gone
<1>. DEFINE n == Given(block_len)
<1>1. /\ desired_byte_count = block_len /\ read_byte_count = -1
      /\ pc \notin {"open", "start", "copy", "restart"}
  <2>1. worker = "check" /\ desired_byte_count # -1
    BY DEF WorkerRead, Alive
  <2>. QED BY <2>1 DEF Control, Shape, ReaderOK
<1>2. /\ buffer' = Placed(n, 2 * block_len) /\ source' = Skip(n) /\ read_byte_count' = n
      /\ pc' = (IF pc = "finishing" THEN "finish" ELSE pc)
      /\ UNCHANGED <<file, data_begin, data_end>>
  BY <1>1 DEF WorkerRead, window, loaded
<1>3. /\ n \in 0..block_len /\ n <= Len(source) /\ Len(Skip(n)) = Len(source) - n
      /\ \A k \in 1..(Len(source) - n) : Skip(n)[k] = source[n + k]
  BY Reading, BlockLength DEF Control
<1>4. /\ block_len \in Nat /\ block_len >= 2 /\ data_begin \in Nat /\ data_end \in Nat
      /\ data_begin < data_end => data_end <= 2 * block_len
      /\ Len(file) \in Nat /\ Len(source) \in Nat
  BY Numbers DEF Control, WindowOK
<1>5. /\ \A p \in 0..(2 * block_len - 1) : buffer'[p] = buffer[p]
      /\ \A p \in (2 * block_len)..(2 * block_len + n - 1) : buffer'[p] = source[p - 2 * block_len + 1]
  BY <1>2, <1>3, <1>4 DEF Placed, Control, Shape, Positions
<1>. HIDE DEF n
<1>6. InThird = 0 /\ InThird' = n
  BY <1>1, <1>2, <1>3 DEF InThird
<1>7. Held = Len(file) - Len(source) /\ Held' = Held
  BY <1>2, <1>3, <1>4, <1>6 DEF Held
<1>8. Gone' = Gone
  BY <1>2, <1>7 DEF Gone
<1>9. \A p \in data_begin'..(data_end' - 1) : buffer'[At(p)'] = file'[Held' - data_end' + p + 1]
  <2>. SUFFICES ASSUME NEW p \in data_begin..(data_end - 1)
                PROVE  buffer'[At(p)'] = buffer[At(p)]
    BY <1>2, <1>7 DEF DataOK
  <2>1. At(p)' = p /\ At(p) = p
    BY <1>1, <1>2 DEF At
  <2>2. p \in 0..(2 * block_len - 1)
    BY <1>4
  <2>. QED BY <1>5, <2>1, <2>2
<1>10. \A k \in 1..InThird' : buffer'[2 * block_len + k - 1] = file'[Held' + k]
  <2>. SUFFICES ASSUME NEW k \in 1..n PROVE buffer'[2 * block_len + k - 1] = file[Held + k]
    BY <1>2, <1>6, <1>7
  <2>1. /\ 2 * block_len + k - 1 \in (2 * block_len)..(2 * block_len + n - 1)
        /\ (2 * block_len + k - 1) - 2 * block_len + 1 = k /\ k \in 1..Len(source)
    BY <1>3, <1>4
  <2>2. buffer'[2 * block_len + k - 1] = source[k]
    BY <1>5, <2>1
  <2>. QED BY <1>7, <2>1, <2>2 DEF DataOK
<1>11. \A k \in 1..Len(source') : source'[k] = file'[Len(file') - Len(source') + k]
  <2>. SUFFICES ASSUME NEW k \in 1..(Len(source) - n)
                PROVE  Skip(n)[k] = file[Len(file) - (Len(source) - n) + k]
    BY <1>2, <1>3
  <2>1. /\ n + k \in 1..Len(source)
        /\ Len(file) - (Len(source) - n) + k = Len(file) - Len(source) + (n + k)
    BY <1>3, <1>4
  <2>. QED BY <1>3, <2>1 DEF DataOK
<1>. QED BY <1>2, <1>8, <1>9, <1>10, <1>11 DEF DataOK

\* A line that is handed out: the next one of the file, and only this one is consumed.
NextOfFile ==
  \E e \in Nat : LineAt(file, Gone, e, Gone') /\ Gone < Gone' /\ line' = Plain(SubSeq(file, Gone + 1, e))

\* A sequence that agrees with a part of another is that part.
LEMMA LineTaken ==
  ASSUME NEW S, NEW s \in Seq(S), NEW t \in Seq(S), NEW b \in Nat, NEW e \in Nat,
         b <= e, e <= Len(s), Len(t) = e - b, \A k \in 1..(e - b) : t[k] = s[b + k]
  PROVE  t = SubSeq(s, b + 1, e)
<1>1. \A i \in (b + 1)..e : s[i] \in S
  OBVIOUS
<1>2. /\ SubSeq(s, b + 1, e) \in Seq(S)
      /\ Len(SubSeq(s, b + 1, e)) = IF b + 1 <= e THEN e - (b + 1) + 1 ELSE 0
      /\ \A i \in 1..(e - (b + 1) + 1) : SubSeq(s, b + 1, e)[i] = s[b + 1 + i - 1]
  BY <1>1, SubSeqProperties
<1>3. Len(SubSeq(s, b + 1, e)) = e - b
  BY <1>2
<1>4. ASSUME NEW i \in 1..(e - b) PROVE SubSeq(s, b + 1, e)[i] = t[i]
  <2>1. i \in 1..(e - (b + 1) + 1) /\ b + 1 + i - 1 = b + i
    OBVIOUS
  <2>2. SubSeq(s, b + 1, e)[i] = s[b + 1 + i - 1]
    BY <1>2, <2>1, Zenon
  <2>3. t[i] = s[b + i]
    OBVIOUS
  <2>. QED BY <2>1, <2>2, <2>3
<1>. QED BY <1>2, <1>3, <1>4, SeqEqual

\* What next_line cuts off behind a line.
LEMMA Stripped ==
  ASSUME NEW S, NEW t \in Seq(S), NEW n \in Nat, Len(t) = n,
         NEW f, \A k \in 1..n : t[k] = f[k],
         NEW r \in BOOLEAN, r <=> n # 0 /\ f[n] = "r"
  PROVE  [k \in 1..(n - (IF r THEN 1 ELSE 0)) |-> f[k]] = Plain(t)
<1>1. t = [k \in 1..n |-> f[k]]
  OBVIOUS
<1>2. t # <<>> <=> n # 0
  BY EmptySeq
<1>3. CASE r
  <2>1. n \in Nat /\ n >= 1 /\ t # <<>> /\ t[n] = "r"
    BY <1>2, <1>3
  <2>2. Plain(t) = SubSeq(t, 1, n - 1)
    BY <2>1 DEF Plain, Last, Front
  <2>3. \A i \in 1..(n - 1) : t[i] \in S
    BY <2>1
  <2>4. /\ SubSeq(t, 1, n - 1) \in Seq(S)
        /\ Len(SubSeq(t, 1, n - 1)) = IF 1 <= n - 1 THEN (n - 1) - 1 + 1 ELSE 0
        /\ \A i \in 1..((n - 1) - 1 + 1) : SubSeq(t, 1, n - 1)[i] = t[1 + i - 1]
    BY <2>1, <2>3, SubSeqProperties
  <2>5. Len(SubSeq(t, 1, n - 1)) = n - 1
    BY <2>1, <2>4
  <2>6. SubSeq(t, 1, n - 1) = [k \in 1..(n - 1) |-> f[k]]
    BY <2>1, <2>4, <2>5
  <2>. QED BY <1>3, <2>2, <2>6
<1>4. CASE ~r
  <2>1. Plain(t) = t
    BY <1>2, <1>4 DEF Plain, Last
  <2>. QED BY <1>1, <1>4, <2>1
<1>. QED BY <1>3, <1>4

\* Scan hands out the next line of the file and keeps what follows it.
LEMMA ScanData ==
  ASSUME Control, DataOK, Scan, ~TooLong
  PROVE  DataOK' /\ NextOfFile
<1>. DEFINE x == LineEnd
           e == Held - data_end + x
<1>1. /\ pc = "scan" /\ pc' \in {"next", "row"} /\ UNCHANGED <<file, source, worker, read_byte_count>>
      /\ buffer' = [buffer EXCEPT ![x] = Undef]
      /\ data_begin' = x + 1
      /\ data_end' = IF x = data_end THEN data_end + 1 ELSE data_end
  BY DEF Scan, window, reader, Unterminated
<1>2. /\ block_len \in Nat /\ block_len >= 2 /\ data_begin \in Nat /\ data_end \in Nat
      /\ data_begin < data_end /\ data_end <= 2 * block_len /\ data_begin < block_len
      /\ InThird \in 0..block_len /\ Held \in Int /\ Gone \in Int /\ Gone >= 0
      /\ Len(file) \in Nat /\ Len(source) \in Nat /\ Len(source) <= Len(file)
      /\ Gone = Held - (data_end - data_begin)
  BY <1>1, Numbers DEF Control, WindowOK, DataOK, Gone
<1>3. /\ x \in data_begin..data_end /\ (x = data_end \/ buffer[x] = "n")
      /\ \A p \in data_begin..(x - 1) : buffer[p] # "n"
  BY LineEnds DEF Control
<1>4. x <= 2 * block_len - 2
  BY <1>2, <1>3 DEF TooLong
<1>5. \A p \in data_begin..(data_end - 1) : buffer[p] = file[Held - data_end + p + 1]
  <2>1. \A p : At(p) = p
    BY <1>1 DEF At
  <2>. QED BY <2>1 DEF DataOK
<1>6. x = data_end => source = <<>> /\ InThird = 0 /\ Len(source) = 0
  <2>1. worker = "off" => source = <<>> /\ read_byte_count = -1
    BY <1>1 DEF Control, ReaderOK
  <2>2. x = data_end /\ worker # "off" => Ended
    BY <1>1, <1>4, <1>2 DEF Control, WindowOK
  <2>3. Ended => InThird = 0
    BY <1>2, Numbers DEF Ended, InThird, Control
  <2>. QED BY <2>1, <2>2, <2>3 DEF Ended, InThird
<1>7. InThird' = InThird /\ Held' = Held
  BY <1>1 DEF InThird, Held
<1>8. Held = Len(file) - Len(source) - InThird
  BY DEF Held
<1>. HIDE DEF x
<1>9. e \in Nat /\ Gone <= e /\ e <= Len(file)
  BY <1>2, <1>3, <1>8
<1>10. Gone' = IF x = data_end THEN e ELSE e + 1
  BY <1>1, <1>2, <1>3, <1>7 DEF Gone
<1>11. DataOK'
  <2>1. Gone' >= 0
    BY <1>9, <1>10
  <2>2. \A p \in data_begin'..(data_end' - 1) : buffer'[At(p)'] = file'[Held' - data_end' + p + 1]
    <3>. SUFFICES ASSUME NEW p \in data_begin'..(data_end' - 1)
                  PROVE  buffer'[At(p)'] = file[Held - data_end' + p + 1]
      BY <1>1, <1>7
    <3>1. data_end' = data_end /\ p \in data_begin..(data_end - 1) /\ p # x
      BY <1>1, <1>2, <1>3
    <3>2. At(p)' = p
      BY <1>1 DEF At
    <3>3. buffer'[p] = buffer[p]
      BY <1>1, <3>1, <1>2 DEF Control, Shape, Positions
    <3>. QED BY <1>5, <3>1, <3>2, <3>3
  <2>3. \A k \in 1..InThird' : buffer'[2 * block_len + k - 1] = file'[Held' + k]
    <3>. SUFFICES ASSUME NEW k \in 1..InThird PROVE buffer'[2 * block_len + k - 1] = file[Held + k]
      BY <1>1, <1>7
    <3>1. 2 * block_len + k - 1 \in Positions /\ 2 * block_len + k - 1 # x
      BY <1>2, <1>3, <1>4 DEF Positions
    <3>2. buffer'[2 * block_len + k - 1] = buffer[2 * block_len + k - 1]
      BY <1>1, <3>1 DEF Control, Shape
    <3>. QED BY <3>2 DEF DataOK
  <2>. QED BY <1>1, <2>1, <2>2, <2>3 DEF DataOK
<1>12. LineAt(file, Gone, e, Gone')
  <2>1. \A k \in (Gone + 1)..e : file[k] # "n"
    <3>. SUFFICES ASSUME NEW k \in (Gone + 1)..e PROVE file[k] # "n"
      OBVIOUS
    <3>. DEFINE p == k - 1 - (Held - data_end)
    <3>1. p \in data_begin..(x - 1) /\ p \in data_begin..(data_end - 1)
          /\ Held - data_end + p + 1 = k
      BY <1>2, <1>3, <1>9
    <3>. QED BY <1>3, <1>5, <3>1
  <2>2. CASE x = data_end
    <3>1. e = Len(file)
      BY <1>2, <1>6, <1>8, <2>2
    <3>. QED BY <1>2, <1>9, <1>10, <2>1, <2>2, <3>1 DEF LineAt
  <2>3. CASE x # data_end
    <3>1. x \in data_begin..(data_end - 1) /\ Held - data_end + x + 1 = e + 1
      BY <1>2, <1>3, <2>3
    <3>2. file[e + 1] = "n"
      BY <1>3, <1>5, <2>3, <3>1
    <3>3. e < Len(file)
      BY <1>2, <1>8, <3>1
    <3>. QED BY <1>2, <1>9, <1>10, <2>1, <2>3, <3>2, <3>3 DEF LineAt
  <2>. QED BY <2>2, <2>3
<1>13. Gone < Gone'
  BY <1>2, <1>3, <1>10
<1>14. line' = Plain(SubSeq(file, Gone + 1, e))
  <2>. DEFINE n == x - data_begin
             f == [k \in 1..n |-> buffer[data_begin + k - 1]]
  <2>1. n \in Nat /\ n = e - Gone
    BY <1>2, <1>3
  <2>2. \A k \in 1..n : f[k] = file[Gone + k]
    <3>. SUFFICES ASSUME NEW k \in 1..n PROVE buffer[data_begin + k - 1] = file[Gone + k]
      OBVIOUS
    <3>1. data_begin + k - 1 \in data_begin..(data_end - 1)
          /\ Held - data_end + (data_begin + k - 1) + 1 = Gone + k
      BY <1>2, <1>3, <2>1
    <3>. QED BY <1>5, <3>1
  <2>3. file \in Seq(Range(file)) /\ \A k \in 1..n : Gone + k \in 1..Len(file) /\ file[Gone + k] \in Range(file)
    <3>1. file \in Seq(Range(file))
      BY DEF Control, Shape
    <3>2. \A k \in 1..n : Gone + k \in 1..Len(file)
      BY <1>2, <1>9, <2>1
    <3>. QED BY <3>1, <3>2
  <2>4. f \in Seq(Range(file)) /\ Len(f) = n
    BY <2>1, <2>2, <2>3
  <2>. HIDE DEF f
  <2>5. f = SubSeq(file, Gone + 1, e)
    BY <1>2, <1>9, <2>1, <2>2, <2>3, <2>4, LineTaken
  <2>6. CarriageReturn <=> n # 0 /\ f[n] = "r"
    <3>1. n # 0 => f[n] = buffer[x - 1]
      <4>1. n # 0 => n \in 1..n /\ data_begin + n - 1 = x - 1
        BY <1>2, <1>3, <2>1
      <4>. QED BY <4>1 DEF f
    <3>2. x # data_begin <=> n # 0
      BY <1>2, <1>3
    <3>. QED BY <3>1, <3>2 DEF CarriageReturn, x
  <2>7. line' = [k \in 1..(n - (IF CarriageReturn THEN 1 ELSE 0)) |-> f[k]]
    <3>1. line' = [k \in 1..(n - (IF CarriageReturn THEN 1 ELSE 0)) |-> buffer[data_begin + k - 1]]
      BY DEF Scan, x
    <3>2. \A k \in 1..(n - (IF CarriageReturn THEN 1 ELSE 0)) : f[k] = buffer[data_begin + k - 1]
      BY <2>1 DEF f
    <3>. QED BY <3>1, <3>2
  <2>8. CarriageReturn \in BOOLEAN
    BY DEF CarriageReturn
  <2>. HIDE DEF n
  <2>9. [k \in 1..(n - (IF CarriageReturn THEN 1 ELSE 0)) |-> f[k]] = Plain(f)
    BY <2>1, <2>4, <2>6, <2>8, Stripped
  <2>. QED BY <2>5, <2>7, <2>9
<1>. QED BY <1>9, <1>11, <1>12, <1>13, <1>14 DEF NextOfFile

\* What each step does to the place in the file.
LEMMA DataStep ==
  ASSUME Control, DataOK, [Next]_vars
  PROVE  /\ DataOK'
         /\ pc = "open" \/ Gone' = Gone \/ (Scan /\ ~TooLong /\ NextOfFile)
<1>1. CASE Open
  <2>1. pc = "open"
    BY <1>1 DEF Open
  <2>. QED BY <1>1, <2>1, OpenData
<1>2. CASE StartRead
  <2>1. /\ UNCHANGED <<file, source, buffer, data_begin, data_end>>
        /\ InThird' = InThird /\ pc # "copy" /\ pc' # "copy"
    BY <1>2 DEF StartRead, window, InThird, Control, ReaderOK
  <2>. QED BY <2>1, NothingMoves DEF Control
<1>3. CASE NextLine /\ (data_begin = data_end \/ data_begin < block_len)
  <2>1. /\ UNCHANGED <<file, source, buffer, data_begin, data_end, read_byte_count>>
        /\ pc = "next" /\ pc' \in {"next", "append", "scan"}
    <3>1. data_begin # data_end => ~(data_begin >= block_len)
      BY <1>3, Numbers DEF Control
    <3>. QED BY <1>3, <3>1 DEF NextLine, window, reader
  <2>2. InThird' = InThird
    BY <2>1 DEF InThird
  <2>. QED BY <2>1, <2>2, NothingMoves DEF Control
<1>4. CASE NextLine /\ data_begin # data_end /\ data_begin >= block_len
  BY <1>4, ShiftData
<1>5. CASE FinishRead /\ Answered
  BY <1>5, FinishData
<1>6. CASE FinishRead /\ ~Answered
  <2>1. /\ UNCHANGED <<file, source, buffer, data_begin, data_end, read_byte_count>>
        /\ pc = "finish" /\ pc' = "finishing"
    BY <1>6 DEF FinishRead, loaded, reader
  <2>2. InThird' = InThird
    BY <2>1 DEF InThird
  <2>. QED BY <2>1, <2>2, NothingMoves DEF Control
<1>7. CASE CopyBlock
  BY <1>7, CopyData
<1>8. CASE Scan /\ ~TooLong
  BY <1>8, ScanData
<1>9. CASE (Scan /\ TooLong) \/ ReadRow \/ AppendTable \/ Close \/ Join \/ WorkerWait \/ WorkerStop
           \/ UNCHANGED vars
  <2>1. /\ UNCHANGED <<file, source, buffer, data_begin, data_end, read_byte_count>>
        /\ pc' = pc \/ (pc \notin {"copy", "restart"} /\ pc' \notin {"copy", "restart"})
    <3>1. CASE Scan /\ TooLong
      BY <3>1 DEF Scan, window, reader
    <3>2. CASE ReadRow \/ AppendTable
      BY <3>2 DEF ReadRow, AppendTable, window, reader
    <3>3. CASE Close
      <4>1. CASE worker = "off"
        BY <3>3, <4>1 DEF Close, window, reader
      <4>2. CASE worker # "off"
        BY <3>3, <4>2 DEF Close, window
      <4>. QED BY <4>1, <4>2
    <3>4. CASE Join
      BY <3>4 DEF Join, window, reader
    <3>5. CASE WorkerWait \/ WorkerStop
      BY <3>5 DEF WorkerWait, WorkerStop, window
    <3>6. CASE UNCHANGED vars
      BY <3>6 DEF vars, window, reader
    <3>. QED BY <1>9, <3>1, <3>2, <3>3, <3>4, <3>5, <3>6
  <2>2. InThird' = InThird
    BY <2>1 DEF InThird
  <2>3. (pc' = "copy") <=> (pc = "copy")
    BY <2>1
  <2>. QED BY <2>1, <2>2, <2>3, NothingMoves DEF Control
<1>10. CASE WorkerRead
  BY <1>10, WorkerData
<1>11. NextLine => (data_begin = data_end \/ data_begin < block_len)
                   \/ (data_begin # data_end /\ data_begin >= block_len)
  BY Numbers DEF Control
<1>. QED BY <1>1, <1>2, <1>3, <1>4, <1>5, <1>6, <1>7, <1>8, <1>9, <1>10, <1>11
         DEF Next, Loader, Worker

\* The window goes on beginning at a line.
LEMMA StartStep ==
  ASSUME Control, DataOK, LineStart, [Next]_vars
  PROVE  LineStart'
<1>0. Control' /\ DataOK'
  BY ControlStep, DataStep
<1>1. pc' = "open" => pc = "open" /\ header' = header
  BY DEF Next, Loader, Worker, vars, loaded, Open, StartRead, NextLine, FinishRead, CopyBlock, Scan,
         ReadRow, AppendTable, Close, Join, WorkerWait, WorkerStop, WorkerRead
<1>2. SUFFICES ASSUME ~header', data_begin' < data_end' PROVE Gone' >= 1 /\ file'[Gone'] = "n"
  BY <1>1 DEF LineStart
<1>3. CASE Scan /\ ~TooLong
  <2>1. NextOfFile /\ file' = file
    BY <1>3, ScanData DEF Scan
  <2>2. PICK e \in Nat : LineAt(file, Gone, e, Gone')
    BY <2>1 DEF NextOfFile
  <2>3. /\ Held' <= Len(file') /\ Gone' = Held' - (data_end' - data_begin') /\ Held' \in Int
        /\ data_end' \in Nat /\ data_begin' \in Nat /\ Len(file') \in Nat
    <3>1. /\ InThird' >= 0 /\ InThird' \in Int /\ Len(source') \in Nat /\ Len(file') \in Nat
          /\ data_end' \in Nat /\ data_begin' \in Nat
      BY <1>0, BlockLength DEF Control, Shape, InThird
    <3>. QED BY <3>1 DEF Held, Gone
  <2>4. Gone' # Len(file)
    <3>1. data_begin' < data_end' /\ Len(file') = Len(file)
      BY <1>2, <2>1
    <3>2. Gone' < Held'
      BY <2>3, <3>1, Differences
    <3>3. Gone' \in Int
      BY <2>3, Differences
    <3>4. \A g \in Int, h \in Int, n \in Nat : g < h /\ h <= n => g # n
      OBVIOUS
    <3>. QED BY <2>3, <3>1, <3>2, <3>3, <3>4
  <2>. QED BY <2>1, <2>2, <2>4 DEF LineAt
<1>4. CASE ~(Scan /\ ~TooLong)
  <2>1. ~Open
    BY <1>2 DEF Open, loaded, LineStart
  <2>2. Gone' = Gone
    <3>1. pc # "open"
      BY <2>1, <1>1, <1>2 DEF LineStart, Next, Loader, Worker, vars, loaded, StartRead, NextLine,
         FinishRead, CopyBlock, Scan, ReadRow, AppendTable, Close, Join, WorkerWait, WorkerStop, WorkerRead
    <3>. QED BY <1>4, <3>1, DataStep
  <2>3. /\ file' = file /\ header' \in {header, FALSE}
        /\ header' # header => UNCHANGED <<data_begin, data_end>> /\ data_begin = data_end
        /\ UNCHANGED <<data_begin, data_end>> \/ pc = "finish" \/ data_begin # data_end
    <3>1. CASE NextLine
      BY <3>1 DEF NextLine, window
    <3>2. CASE FinishRead
      BY <3>2 DEF FinishRead, loaded
    <3>3. CASE Scan /\ TooLong
      BY <3>3 DEF Scan, window
    <3>4. CASE StartRead \/ CopyBlock \/ ReadRow \/ AppendTable \/ Close \/ Join
      BY <3>4 DEF StartRead, CopyBlock, ReadRow, AppendTable, Close, Join, window, loaded
    <3>5. CASE WorkerWait \/ WorkerStop \/ WorkerRead
      BY <3>5 DEF WorkerWait, WorkerStop, WorkerRead, window, loaded
    <3>6. CASE UNCHANGED vars
      BY <3>6 DEF vars, window, loaded
    <3>. QED BY <1>4, <2>1, <3>1, <3>2, <3>3, <3>4, <3>5, <3>6 DEF Next, Loader, Worker
  <2>4. ~header /\ data_begin < data_end
    <3>1. data_begin <= data_end /\ data_begin \in Nat /\ data_end \in Nat /\ header \in BOOLEAN
      BY DEF Control, Shape
    <3>2. pc = "finish" => data_begin < data_end
      BY DEF Control, WindowOK
    <3>. QED BY <1>2, <2>3, <3>1, <3>2
  <2>. QED BY <2>2, <2>3, <2>4 DEF LineStart
<1>. QED BY <1>3, <1>4

\* The line in hand stays the last one taken from the file.
LEMMA RowStep ==
  ASSUME Control, DataOK, LineStart, LineRead, [Next]_vars
  PROVE  LineRead'
<1>. SUFFICES ASSUME pc' = "row"
     PROVE  /\ ~header'
            /\ \E b, e \in Nat : /\ b >= 1 /\ file'[b] = "n" /\ b < Gone' /\ LineAt(file', b, e, Gone')
                                 /\ line' = Plain(SubSeq(file', b + 1, e))
  BY DEF LineRead
<1>1. CASE pc = "row"
  <2>1. UNCHANGED <<file, line, header>> /\ ~(Scan /\ ~TooLong)
    <3>1. ~(Open \/ StartRead \/ NextLine \/ FinishRead \/ CopyBlock \/ Scan \/ ReadRow \/ AppendTable
            \/ Close \/ Join)
      BY <1>1 DEF Open, StartRead, NextLine, FinishRead, CopyBlock, Scan, ReadRow, AppendTable, Close, Join
    <3>. QED BY <3>1 DEF Next, Loader, Worker, vars, loaded, WorkerWait, WorkerStop, WorkerRead
  <2>2. Gone' = Gone
    BY <1>1, <2>1, DataStep
  <2>. QED BY <1>1, <2>1, <2>2 DEF LineRead
<1>2. CASE pc # "row"
  <2>1. Scan /\ ~TooLong
    BY <1>2 DEF Next, Loader, Worker, vars, Open, StartRead, NextLine, FinishRead, CopyBlock, Scan,
           ReadRow, AppendTable, Close, Join, WorkerWait, WorkerStop, WorkerRead
  <2>2. file' = file /\ ~header /\ ~header' /\ pc = "scan"
    BY <2>1 DEF Scan
  <2>3. NextOfFile
    BY <2>1, ScanData
  <2>4. Gone \in Int /\ Gone >= 1 /\ file[Gone] = "n"
    BY <2>2, Numbers DEF LineStart, Control, WindowOK
  <2>5. Gone \in Nat
    BY <2>4
  <2>6. PICK e \in Nat : /\ LineAt(file, Gone, e, Gone') /\ Gone < Gone'
                         /\ line' = Plain(SubSeq(file, Gone + 1, e))
    BY <2>3 DEF NextOfFile
  <2>. QED BY <2>2, <2>4, <2>5, <2>6
<1>. QED BY <1>1, <1>2

--------------------------------------------------------------------------------
(* The theorems.                                                                 *)

Inv == Control /\ DataOK /\ LineStart /\ LineRead

\* The invariant holds in the first state.
LEMMA Begins == Init => Inv
<1>. SUFFICES ASSUME Init PROVE Inv
  OBVIOUS
<1>1. Control
  BY Start
<1>2. /\ source = file /\ data_begin = 0 /\ data_end = 0 /\ pc = "open" /\ header = TRUE
      /\ read_byte_count = -1
  BY DEF Init
<1>3. InThird = 0 /\ Len(file) \in Nat
  BY <1>1, <1>2, Numbers DEF InThird, Control
<1>4. Gone = 0
  BY <1>2, <1>3 DEF Gone, Held
<1>5. DataOK
  <2>1. \A k \in 1..Len(source) : source[k] = file[Len(file) - Len(source) + k]
    BY <1>2, <1>3
  <2>. QED BY <1>2, <1>3, <1>4, <2>1 DEF DataOK
<1>. QED BY <1>1, <1>2, <1>5 DEF Inv, LineStart, LineRead

\* The invariant holds in every state.
LEMMA Inductive == Spec => []Inv
<1>1. Inv /\ [Next]_vars => Inv'
  BY ControlStep, DataStep, StartStep, RowStep DEF Inv
<1>. QED BY <1>1, Begins, PTL DEF Spec

\* A function on the numbers from 1 to n is a sequence of length n.
LEMMA IsList ==
  ASSUME NEW S, NEW n \in Nat, NEW t, t = [k \in 1..n |-> t[k]], \A k \in 1..n : t[k] \in S
  PROVE  t \in Seq(S) /\ Len(t) = n
OBVIOUS

\* Joining three sequences.
LEMMA Joined ==
  ASSUME NEW S, NEW r \in Seq(S), NEW s \in Seq(S), NEW t \in Seq(S)
  PROVE  /\ r \o s \o t \in Seq(S) /\ Len(r \o s \o t) = Len(r) + Len(s) + Len(t)
         /\ \A k \in 1..Len(r) : (r \o s \o t)[k] = r[k]
         /\ \A k \in 1..Len(s) : (r \o s \o t)[Len(r) + k] = s[k]
         /\ \A k \in 1..Len(t) : (r \o s \o t)[Len(r) + Len(s) + k] = t[k]
<1>1. /\ Len(r) \in Nat /\ Len(s) \in Nat /\ Len(t) \in Nat
  OBVIOUS
<1>2. /\ r \o s \in Seq(S) /\ Len(r \o s) = Len(r) + Len(s)
      /\ \A i \in 1..(Len(r) + Len(s)) :
           (r \o s)[i] = IF i <= Len(r) THEN r[i] ELSE s[i - Len(r)]
  BY ConcatProperties
<1>. DEFINE q == r \o s
<1>3. /\ q \o t \in Seq(S) /\ Len(q \o t) = Len(q) + Len(t)
      /\ \A i \in 1..(Len(q) + Len(t)) :
           (q \o t)[i] = IF i <= Len(q) THEN q[i] ELSE t[i - Len(q)]
  BY <1>2, ConcatProperties
<1>. HIDE DEF q
<1>4. Len(q) = Len(r) + Len(s) /\ \A i \in 1..(Len(r) + Len(s)) : q[i] = IF i <= Len(r) THEN r[i] ELSE s[i - Len(r)]
  BY <1>2 DEF q
<1>5. \A k \in 1..Len(r) : (q \o t)[k] = r[k]
  BY <1>1, <1>3, <1>4
<1>6. \A k \in 1..Len(s) : (q \o t)[Len(r) + k] = s[k]
  <2>. SUFFICES ASSUME NEW k \in 1..Len(s) PROVE (q \o t)[Len(r) + k] = s[k]
    OBVIOUS
  <2>1. /\ Len(r) + k \in 1..(Len(r) + Len(s)) /\ Len(r) + k \in 1..(Len(q) + Len(t))
        /\ Len(r) + k <= Len(q) /\ ~(Len(r) + k <= Len(r)) /\ Len(r) + k - Len(r) = k
    BY <1>1, <1>4
  <2>2. q[Len(r) + k] = s[Len(r) + k - Len(r)]
    BY <1>4, <2>1
  <2>. QED BY <1>3, <2>1, <2>2
<1>7. \A k \in 1..Len(t) : (q \o t)[Len(r) + Len(s) + k] = t[k]
  <2>. SUFFICES ASSUME NEW k \in 1..Len(t) PROVE (q \o t)[Len(r) + Len(s) + k] = t[k]
    OBVIOUS
  <2>1. /\ Len(r) + Len(s) + k \in 1..(Len(q) + Len(t)) /\ ~(Len(r) + Len(s) + k <= Len(q))
        /\ Len(r) + Len(s) + k - Len(q) = k
    BY <1>1, <1>4
  <2>. QED BY <1>3, <2>1
<1>8. Len(q \o t) = Len(r) + Len(s) + Len(t)
  BY <1>3, <1>4
<1>. QED BY <1>3, <1>5, <1>6, <1>7, <1>8 DEF q

\* What has not been handed out is the tail of the file.
LEMMA UnreadTail ==
  Inv => /\ Gone \in Nat /\ Len(file) \in Nat /\ Gone <= Len(file)
         /\ Consumed = Gone /\ Unread = SubSeq(file, Gone + 1, Len(file))
<1>. SUFFICES ASSUME Inv
     PROVE  /\ Gone \in Nat /\ Len(file) \in Nat /\ Gone <= Len(file)
            /\ Consumed = Gone /\ Unread = SubSeq(file, Gone + 1, Len(file))
  OBVIOUS
<1>. DEFINE S == Range(file)
           W == data_end - data_begin
           L == Len(file)
           R == Len(source)
<1>1. /\ block_len \in Nat /\ L \in Nat /\ R \in Nat /\ W \in Nat /\ InThird \in Nat
      /\ Gone \in Nat /\ Held \in Nat /\ Held = L - R - InThird /\ Held = Gone + W
      /\ data_begin \in Nat /\ data_end \in Nat /\ Gone + W + InThird + R = L
  <2>1. /\ block_len \in Nat /\ L \in Nat /\ R \in Nat /\ InThird \in Nat /\ Gone \in Int
        /\ data_begin \in Nat /\ data_end \in Nat /\ data_begin <= data_end /\ R <= L
    BY Numbers DEF Inv, Control
  <2>2. Gone >= 0
    BY DEF Inv, DataOK
  <2>3. Held = L - R - InThird /\ Gone = Held - W
    BY DEF Held, Gone
  <2>4. W \in Nat
    BY <2>1
  <2>. HIDE DEF W, L, R
  <2>. QED BY <2>1, <2>2, <2>3, <2>4
<1>2. /\ file \in Seq(S) /\ source \in Seq(S)
  BY DEF Inv, Control, Shape
<1>3. \A k \in 1..L : file[k] \in S
  BY <1>2
<1>4. InWindow \in Seq(S) /\ Len(InWindow) = W /\ \A k \in 1..W : InWindow[k] = file[Gone + k]
  <2>1. \A k \in 1..W : buffer[At(data_begin + k - 1)] = file[Gone + k] /\ file[Gone + k] \in S
    <3>. SUFFICES ASSUME NEW k \in 1..W
                  PROVE  buffer[At(data_begin + k - 1)] = file[Gone + k] /\ file[Gone + k] \in S
      OBVIOUS
    <3>1. /\ data_begin + k - 1 \in data_begin..(data_end - 1)
          /\ Held - data_end + (data_begin + k - 1) + 1 = Gone + k /\ Gone + k \in 1..L
      BY <1>1
    <3>2. \A p \in data_begin..(data_end - 1) : buffer[At(p)] = file[Held - data_end + p + 1]
      BY DEF Inv, DataOK
    <3>3. buffer[At(data_begin + k - 1)] = file[Held - data_end + (data_begin + k - 1) + 1]
      BY <3>1, <3>2
    <3>. QED BY <1>3, <3>1, <3>3
  <2>2. InWindow = [k \in 1..W |-> file[Gone + k]]
    BY <2>1 DEF InWindow
  <2>. HIDE DEF W, S
  <2>3. \A k \in 1..W : InWindow[k] = file[Gone + k] /\ InWindow[k] \in S
    BY <2>1, <2>2
  <2>4. InWindow = [k \in 1..W |-> InWindow[k]]
    BY <2>2
  <2>. QED BY <1>1, <2>3, <2>4, IsList
<1>5. ThirdBlock \in Seq(S) /\ Len(ThirdBlock) = InThird /\ \A k \in 1..InThird : ThirdBlock[k] = file[Held + k]
  <2>1. \A k \in 1..InThird : buffer[2 * block_len + k - 1] = file[Held + k] /\ file[Held + k] \in S
    <3>1. \A k \in 1..InThird : buffer[2 * block_len + k - 1] = file[Held + k]
      BY DEF Inv, DataOK
    <3>2. \A k \in 1..InThird : Held + k \in 1..L
      BY <1>1
    <3>. QED BY <1>3, <3>1, <3>2
  <2>2. ThirdBlock = [k \in 1..InThird |-> file[Held + k]]
    <3>1. CASE pc \in {"copy", "restart"}
      <4>1. InThird = 0 /\ ThirdBlock = <<>>
        BY <3>1 DEF InThird, ThirdBlock
      <4>. QED BY <4>1
    <3>2. CASE pc \notin {"copy", "restart"}
      <4>1. 1..read_byte_count = 1..InThird
        BY <3>2, Numbers DEF Inv, Control, InThird
      <4>. QED BY <2>1, <3>2, <4>1 DEF ThirdBlock
    <3>. QED BY <3>1, <3>2
  <2>. HIDE DEF S
  <2>3. \A k \in 1..InThird : ThirdBlock[k] = file[Held + k] /\ ThirdBlock[k] \in S
    BY <2>1, <2>2
  <2>4. ThirdBlock = [k \in 1..InThird |-> ThirdBlock[k]]
    BY <2>2
  <2>. QED BY <1>1, <2>3, <2>4, IsList
<1>6. \A k \in 1..R : source[k] = file[L - R + k]
  BY DEF Inv, DataOK
<1>. HIDE DEF W, S, L, R
<1>7. /\ Unread \in Seq(S) /\ Len(Unread) = W + InThird + R
      /\ \A k \in 1..W : Unread[k] = file[Gone + k]
      /\ \A k \in 1..InThird : Unread[W + k] = file[Held + k]
      /\ \A k \in 1..R : Unread[W + InThird + k] = file[L - R + k]
  <2>. DEFINE q == InWindow \o ThirdBlock \o source
  <2>1. /\ q \in Seq(S) /\ Len(q) = Len(InWindow) + Len(ThirdBlock) + Len(source)
        /\ \A k \in 1..Len(InWindow) : q[k] = InWindow[k]
        /\ \A k \in 1..Len(ThirdBlock) : q[Len(InWindow) + k] = ThirdBlock[k]
        /\ \A k \in 1..Len(source) : q[Len(InWindow) + Len(ThirdBlock) + k] = source[k]
    <3>1. InWindow \in Seq(S) /\ ThirdBlock \in Seq(S) /\ source \in Seq(S)
      BY <1>2, <1>4, <1>5 DEF S
    <3>. QED BY <3>1, Joined
  <2>2. Len(InWindow) = W /\ Len(ThirdBlock) = InThird /\ Len(source) = R
    BY <1>4, <1>5 DEF R
  <2>3. Unread = q
    BY DEF Unread
  <2>. HIDE DEF q
  <2>. QED BY <1>4, <1>5, <1>6, <2>1, <2>2, <2>3
<1>8. \A i \in 1..(L - Gone) : Unread[i] = file[Gone + i]
  <2>. SUFFICES ASSUME NEW i \in 1..(L - Gone) PROVE Unread[i] = file[Gone + i]
    OBVIOUS
  <2>1. CASE i <= W
    BY <1>1, <1>7, <2>1
  <2>2. CASE W < i /\ i <= W + InThird
    <3>1. i - W \in 1..InThird /\ W + (i - W) = i /\ Held + (i - W) = Gone + i
      BY <1>1, <2>2
    <3>. QED BY <1>7, <3>1
  <2>3. CASE W + InThird < i
    <3>1. i - W - InThird \in 1..R /\ W + InThird + (i - W - InThird) = i
          /\ L - R + (i - W - InThird) = Gone + i
      BY <1>1, <2>3
    <3>. QED BY <1>7, <3>1
  <2>. QED BY <1>1, <2>1, <2>2, <2>3
<1>9. Len(Unread) = L - Gone /\ Gone <= L
  BY <1>1, <1>7
<1>10. Unread = SubSeq(file, Gone + 1, L)
  <2>. DEFINE t == Unread
  <2>1. /\ file \in Seq(S) /\ t \in Seq(S) /\ Gone \in Nat /\ L \in Nat /\ L = Len(file)
        /\ Gone <= L /\ Len(t) = L - Gone /\ \A k \in 1..(L - Gone) : t[k] = file[Gone + k]
    BY <1>1, <1>2, <1>7, <1>8, <1>9 DEF L
  <2>. HIDE DEF t
  <2>. QED BY <2>1, LineTaken DEF t
<1>11. Consumed = Gone
  BY <1>1, <1>9 DEF Consumed, L
<1>. QED BY <1>1, <1>9, <1>10, <1>11 DEF L

\* The reader hands over whole lines of the file in order through its three blocks: what it has not
\* handed out is the tail of the file, the line in hand is one of the file's, the third block is
\* never copied while a read into it is requested, and the window stays in its blocks.
THEOREM HandsOverBlocks == Spec => []BlocksHandedOver
<1>1. Inv => BlocksHandedOver
  <2>. SUFFICES ASSUME Inv PROVE BlocksHandedOver
    OBVIOUS
  <2>1. TypeOK
    BY Numbers DEF TypeOK, Inv, Control, Shape
  <2>2. NoRace
    BY DEF NoRace, Inv, Control, ReaderOK
  <2>3. Asserted
    BY Numbers DEF Asserted, Inv, Control, WindowOK
  <2>4. TailOfFile
    BY UnreadTail DEF TailOfFile
  <2>5. LineOfFile
    <3>. SUFFICES ASSUME pc = "row"
                  PROVE  \E b \in 2..(Gone + 1) :
                           LET e == IF file[Gone] = "n" THEN Gone - 1 ELSE Gone
                           IN /\ file[b - 1] = "n" /\ b <= e + 1
                              /\ \A k \in b..e : file[k] # "n"
                              /\ e = Gone => Gone = Len(file)
                              /\ line = Plain(SubSeq(file, b, e))
      BY UnreadTail DEF LineOfFile
    <3>1. PICK b \in Nat, e \in Nat : /\ b >= 1 /\ file[b] = "n" /\ b < Gone /\ LineAt(file, b, e, Gone)
                                     /\ line = Plain(SubSeq(file, b + 1, e))
      BY DEF Inv, LineRead
    <3>2. b + 1 \in 2..(Gone + 1) /\ (b + 1) - 1 = b /\ b + 1 <= e + 1
      BY <3>1, UnreadTail DEF LineAt
    <3>3. e = (IF file[Gone] = "n" THEN Gone - 1 ELSE Gone) /\ (e = Gone => Gone = Len(file))
      <4>1. CASE e = Len(file) /\ Gone = e
        <5>1. Gone \in (b + 1)..e
          BY <3>1, <4>1, UnreadTail
        <5>. QED BY <3>1, <4>1, <5>1 DEF LineAt
      <4>2. CASE e < Len(file) /\ file[e + 1] = "n" /\ Gone = e + 1
        BY <4>2
      <4>. QED BY <3>1, <4>1, <4>2 DEF LineAt
    <3>. QED BY <3>1, <3>2, <3>3 DEF LineAt
  <2>. QED BY <2>1, <2>2, <2>3, <2>4, <2>5 DEF BlocksHandedOver
<1>. QED BY <1>1, Inductive, PTL

Located == Consumed = Gone

\* The bytes of the file leave the reader only at its beginning, by its mark, or in next_line, which
\* then returns the line that comes next in the file, whole and without its line end.
LinesInOrder ==
  [][\/ pc = "open"
     \/ Consumed' = Consumed
     \/ /\ pc = "scan" /\ pc' \in {"next", "row"} /\ Consumed < Consumed'
        /\ \E e \in Nat : LineAt(file, Consumed, e, Consumed')
                          /\ line' = Plain(SubSeq(file, Consumed + 1, e))]_vars

\* Through three blocks and two threads, next_line gives out the file line by line.
THEOREM ReadsLineByLine == Spec => LinesInOrder
<1>1. Inv => Located
  BY UnreadTail DEF Located
<1>2. Inv /\ Located /\ Located' /\ [Next]_vars =>
        [\/ pc = "open"
         \/ Consumed' = Consumed
         \/ /\ pc = "scan" /\ pc' \in {"next", "row"} /\ Consumed < Consumed'
            /\ \E e \in Nat : LineAt(file, Consumed, e, Consumed')
                              /\ line' = Plain(SubSeq(file, Consumed + 1, e))]_vars
  <2>. SUFFICES ASSUME Inv, Consumed = Gone, Consumed' = Gone', [Next]_vars
       PROVE  \/ pc = "open"
              \/ Consumed' = Consumed
              \/ /\ pc = "scan" /\ pc' \in {"next", "row"} /\ Consumed < Consumed'
                 /\ \E e \in Nat : LineAt(file, Consumed, e, Consumed')
                                   /\ line' = Plain(SubSeq(file, Consumed + 1, e))
    BY DEF Located
  <2>1. CASE Scan /\ ~TooLong /\ NextOfFile
    <3>1. pc = "scan" /\ pc' \in {"next", "row"}
      BY <2>1 DEF Scan
    <3>. QED BY <2>1, <3>1 DEF NextOfFile
  <2>. QED BY <2>1, DataStep DEF Inv
<1>. QED BY <1>1, <1>2, Inductive, PTL DEF LinesInOrder, Spec

--------------------------------------------------------------------------------
(* A decision tree: the inductive invariant.                                     *)
Child(n, left) == IF left THEN 2 * n ELSE 2 * n + 1

\* A node that keeps only forgotten rows, in the tree t when the rows F are flagged.
Keeps(t, F, n) == n # 1 /\ t[n].rows # <<>> /\ ToSet(t[n].rows) \subseteq F

\* The nodes that are reached from the root through inner nodes which are not in X and which do
\* not keep forgotten rows.
Branch(t, F, X) ==
  IF 1 \in X THEN {} ELSE Below({n \in Nodes \ {1} : n \notin X /\ ~t[n \div 2].terminate /\ ~Keeps(t, F, n)})

\* The nodes that a call is still to be made for, and those of them that will be rebuilt.
Pending(Q) == {c.n : c \in {x \in ToSet(Q) : x.op # "Free"}}
Updating(Q) == {c.n : c \in {x \in ToSet(Q) : x.op = "Update"}}

\* The rows of s that go to one side of a cut, when d are the contents of the rows (Goes), and
\* those of node n.
Part(d, s, f, v, left) == Picked(s, {r \in ToSet(s) : (Val[f][d[r][1]] <= v) = left})
Side(d, t, n, left) == Part(d, t[n].rows, t[n].feature, t[n].dpoint, left)

\* The child m of an inner node whose side is s: what its call has, or what it has without one.
ChildRight(t, F, Q, m, s) ==
  /\ \A c \in ToSet(Q) : c.n = m /\ c.op = "Update" => c.rows = s
  /\ \A c \in ToSet(Q) : c.n = m /\ c.op = "Incremental" => c.rows \o Without(t[m].rows, F) = s
  /\ m \notin Pending(Q) => t[m].created /\ (t[m].rows = s \/ (Keeps(t, F, m) /\ s = <<>>))

\* The children of every node that is not to be rebuilt are right.
Matched(d, t, F, Q) ==
  \A n \in Branch(t, F, Updating(Q)) : ~t[n].terminate =>
    \A left \in BOOLEAN : Child(n, left) \in Nodes /\ ChildRight(t, F, Q, Child(n, left), Side(d, t, n, left))

\* A node that a fit has gone through, or that no fit has yet to: it holds no forgotten row and
\* is a leaf at the latest at the height limit h.
Visited(t, F, Q, h) ==
  \A n \in Branch(t, F, Pending(Q)) :
    ToSet(t[n].rows) \cap F = {} /\ (t[n].terminate \/ Height(n) < h)

\* A call for a node other than the root is made by its parent, which has been gone through.
Waiting(t, F, Q) ==
  \A c \in ToSet(Q) : c.op # "Free" /\ c.n # 1 =>
    c.n \div 2 \in Branch(t, F, Pending(Q)) /\ ~t[c.n \div 2].terminate

\* The calls: one for each node, that for the root alone, and the release of rows at the end.
StackOK(Q) ==
  /\ \A i, j \in DOMAIN Q : Q[i].op # "Free" /\ Q[j].op # "Free" /\ Q[i].n = Q[j].n => i = j
  /\ \A i \in DOMAIN Q : Q[i].op # "Free" /\ Q[i].n = 1 => Len(Q) = 1
  /\ \A i \in DOMAIN Q : Q[i].op = "Free" => i = Len(Q)

\* Types.
Ids == 1 .. Len(data)
NodeFields == {"created", "terminate", "feature", "dpoint", "result", "rows", "sorted", "count"}
NodeOK(x, I) ==
  /\ DOMAIN x = NodeFields
  /\ x.created \in BOOLEAN /\ x.terminate \in BOOLEAN
  /\ x.rows \in Seq(I) /\ (x.rows # <<>> => x.created)
  /\ x.result \in Classes \cup {NoResult} /\ (x.terminate => x.result \in Classes)
Calls(I) == [op : {"Update", "Incremental", "Free"}, n : Nodes, rows : Seq(I)]
IsTree(t, I) == t = [n \in Nodes |-> t[n]] /\ \A n \in Nodes : NodeOK(t[n], I)
TreeShape ==
  /\ data \in Seq(Points \X Classes)
  /\ IsTree(DTree, Ids)
  /\ stack \in Seq(Calls(Ids))
  /\ isRF \in BOOLEAN /\ wild \in BOOLEAN
  /\ retain \in 0 .. MaxRetain /\ maxHeight \in 1 .. Log2[MaxRetain] /\ forgetRate \in {-10, -5, 0}
  /\ given \in Seq(Seq(Ids))

\* Rows are released once: those the root holds are not flagged, those to be released are and
\* have not been released.
Unreleased ==
  /\ twice = FALSE /\ freed \subseteq flagged /\ flagged \subseteq Ids
  /\ ToSet(DTree[1].rows) \cap flagged = {}
  /\ \A c \in ToSet(stack) : c.op = "Free" => ToSet(c.rows) \subseteq flagged /\ ToSet(c.rows) \cap freed = {}

\* No row is twice in s.
Distinct(s) == \A i, j \in DOMAIN s : s[i] = s[j] => i = j

\* The rows s of the root are the latest of those given in the batches g.
Latest(s, g) ==
  /\ Len(s) <= retain /\ (g # <<>> => Head(g) = SubSeq(s, 1, Len(Head(g))))
  /\ ~isRF => Len(s) <= Len(FlattenSeq(g)) /\ s = SubSeq(FlattenSeq(g), 1, Len(s))

\* The root has the latest rows, or a call with the latest batch.
RootRows ==
  LET s == DTree[1].rows IN
  /\ Distinct(s)
  /\ 1 \notin Pending(stack) => Latest(s, given)
  /\ \A c \in ToSet(stack) : c.op # "Free" /\ c.n = 1 =>
       /\ given # <<>> /\ c.rows = Head(given) /\ Len(c.rows) \in 1 .. retain
       /\ Distinct(c.rows) /\ ToSet(c.rows) \cap (flagged \cup ToSet(s)) = {}
       /\ c.op = "Incremental" /\ ~isRF =>
            Len(s) <= Len(FlattenSeq(Tail(given))) /\ s = SubSeq(FlattenSeq(Tail(given)), 1, Len(s))


\* What holds between two calls.
Going(d, t, F, Q, h) == Matched(d, t, F, Q) /\ Visited(t, F, Q, h) /\ Waiting(t, F, Q) /\ StackOK(Q)

\* The inductive invariant.
Growing == ~wild => Going(data, DTree, flagged, stack, maxHeight) /\ RootRows
TreeInv == TreeShape /\ Unreleased /\ Growing

\* The calls for the children of n before others; the tree u which has the rows s in node n and is
\* otherwise t.
WithCalls(op, n, a, b, rest) == <<Call(op, Child(n, TRUE), a), Call(op, Child(n, FALSE), b)>> \o rest
Changed(t, u, n, s, I) ==
  IsTree(u, I) /\ (\A m \in Nodes : m # n => u[m] = t[m]) /\ u[n].created /\ u[n].rows = s

\* Node n is an inner node now, with the rows s; its children get their sides of new.
InnerNow(I, d, t, u, n, s, new, cut, op, rest, Q2) ==
  /\ Changed(t, u, n, s, I) /\ ~u[n].terminate
  /\ \A left : Side(d, u, n, left) = Part(d, s, cut[1], cut[2], left)
  /\ Q2 = WithCalls(op, n, Part(d, new, cut[1], cut[2], TRUE), Part(d, new, cut[1], cut[2], FALSE), rest)

\* Node n has the rows s now, and its children are to be rebuilt from their sides of them.
RebuiltNow(I, d, t, u, n, s, h, rest, Q2) ==
  /\ Changed(t, u, n, s, I)
  /\ \/ u[n].terminate /\ Q2 = rest
     \/ /\ ~u[n].terminate /\ Height(n) # h
        /\ Side(d, u, n, TRUE) \in Seq(I) /\ Side(d, u, n, FALSE) \in Seq(I)
        /\ Q2 = WithCalls("Update", n, Side(d, u, n, TRUE), Side(d, u, n, FALSE), rest)

\* A call for node n, which is not the root, comes next.
CallNext(I, d, t, F, Q, h, n) ==
  /\ Q \in Seq(Calls(I)) /\ h \in 1 .. Log2[MaxRetain] /\ \A m \in Nodes : t[m].rows \in Seq(I)
  /\ Going(d, t, F, Q, h) /\ Q # <<>> /\ Head(Q).op # "Free" /\ n = Head(Q).n /\ n # 1

\* What the call for node n makes of the tree t and of the calls R after it: n has its rows, and is
\* a leaf or has calls for its children which are left to bring them their sides.
Grown(d, t, F, Q, h, u, Q2, n, I) ==
  /\ \A m \in Nodes : m # n => u[m] = t[m]
  /\ u[n].created /\ u[n].rows \in Seq(I)
  /\ \/ u[n].terminate /\ Q2 = Tail(Q)
     \/ /\ ~u[n].terminate /\ Height(n) # h
        /\ \E op \in {"Update", "Incremental"}, a, b \in Seq(I) :
             /\ Q2 = WithCalls(op, n, a, b, Tail(Q))
             /\ op = "Update" => a = Side(d, u, n, TRUE) /\ b = Side(d, u, n, FALSE)
             /\ op = "Incremental" =>
                  /\ n \in Branch(t, F, Updating(Q)) /\ ~t[n].terminate
                  /\ a \o Without(t[Child(n, TRUE)].rows, F) = Side(d, u, n, TRUE)
                  /\ b \o Without(t[Child(n, FALSE)].rows, F) = Side(d, u, n, FALSE)

\* What is known of the node of the next call: its parent has been gone through, and the call
\* brings it its side of the rows of the parent.
HeadRight(d, t, F, Q, h, n) ==
  LET p == n \div 2
  IN /\ n \in Nodes /\ p \in Nodes /\ p # n /\ p \in Branch(t, F, Pending(Q)) /\ p \in Branch(t, F, Updating(Q))
     /\ ~t[p].terminate /\ Height(p) < h /\ Height(n) = Height(p) + 1 /\ Height(p) \in Nat
     /\ n \notin Branch(t, F, Pending(Q)) /\ 1 \notin Pending(Q)
     /\ \A left \in BOOLEAN : n = Child(p, left) =>
          /\ ToSet(Side(d, t, p, left)) \cap F = {}
          /\ Head(Q).op = "Update" => Head(Q).rows = Side(d, t, p, left)
          /\ Head(Q).op = "Incremental" => Head(Q).rows \o Without(t[n].rows, F) = Side(d, t, p, left)

\* The calls Q2 after it: those there were, and those for its children.
CallsRight(I, d, t, F, Q, h, u, Q2, n) ==
  /\ Q2 \in Seq(Calls(I)) /\ StackOK(Q2) /\ n \notin Pending(Q2) /\ 1 \notin Pending(Q2)
  /\ ToSet(Tail(Q)) \subseteq ToSet(Q2) /\ ToSet(Tail(Q)) \subseteq ToSet(Q)
  /\ \A c \in ToSet(Tail(Q)) : c.op # "Free" => c.n # n /\ c.n # 1 /\ c.n \div 2 # n
  /\ \A c \in ToSet(Q2) : c \in ToSet(Tail(Q)) \/ (c.n \div 2 = n /\ c.op # "Free" /\ ~u[n].terminate)
  /\ ~u[n].terminate =>
       /\ Height(n) < h
       /\ \A left \in BOOLEAN : Child(n, left) \in Nodes /\ Child(n, left) \in Pending(Q2)
       /\ \A left \in BOOLEAN : \A c \in ToSet(Q2) : c.n = Child(n, left) =>
            /\ c.op = "Update" => c.rows = Side(d, u, n, left)
            /\ c.op = "Incremental" => c.rows \o Without(t[c.n].rows, F) = Side(d, u, n, left)
       /\ (\A left \in BOOLEAN : Child(n, left) \in Updating(Q2)) \/ (n \in Branch(t, F, Updating(Q)) /\ ~t[n].terminate)

\* What the call for the root makes of the tree: as for another node, but it may forget more rows,
\* and the release of rows may follow.
RootGrown(d, t, F, Q, u, F2, Q2, rest, I) ==
  /\ \A m \in Nodes : m # 1 => u[m] = t[m]
  /\ u[1].rows \in Seq(I) /\ F \subseteq F2 /\ ToSet(u[1].rows) \cap F2 = {}
  /\ rest \in Seq(Calls(I)) /\ Len(rest) <= 1 /\ \A c \in ToSet(rest) : c.op = "Free"
  /\ \/ u[1].terminate /\ Q2 = rest
     \/ /\ ~u[1].terminate
        /\ \E op \in {"Update", "Incremental"}, a, b \in Seq(I) :
             /\ Q2 = WithCalls(op, 1, a, b, rest)
             /\ op = "Update" => a = Side(d, u, 1, TRUE) /\ b = Side(d, u, 1, FALSE)
             /\ op = "Incremental" =>
                  /\ Head(Q).op = "Incremental" /\ ~t[1].terminate
                  /\ a \o Without(t[Child(1, TRUE)].rows, F2) = Side(d, u, 1, TRUE)
                  /\ b \o Without(t[Child(1, FALSE)].rows, F2) = Side(d, u, 1, FALSE)
(* Arithmetic and induction.                                                     *)

\* A set of naturals has a least element.
LEMMA LeastOf ==
  ASSUME NEW S \in SUBSET Nat, S # {}
  PROVE  \E x \in S : \A y \in S : x <= y
<1>. DEFINE R == OpToRel(<, Nat)
<1>1. IsWellFoundedOn(R, Nat)
  BY NatLessThanWellFounded DEF OpToRel
<1>2. \A x, y \in S : x < y => <<x, y>> \in R
  BY DEF OpToRel
<1>. HIDE DEF R
<1>3. PICK x \in S : \A y \in S : ~(<<y, x>> \in R)
  BY <1>1, WFMin
<1>4. ASSUME NEW y \in S PROVE x <= y
  <2>1. ~(y < x) /\ x \in Nat /\ y \in Nat
    BY <1>2, <1>3
  <2>. QED BY <2>1
<1>. QED BY <1>3, <1>4

\* A set with the empty sequence and with every sequence that is one longer than one of its own
\* has all sequences.
LEMMA EverySeq ==
  ASSUME NEW T, NEW B, <<>> \in B, \A s \in Seq(T), x \in T : s \in B => Append(s, x) \in B
  PROVE  Seq(T) \subseteq B
<1>. DEFINE Bad == {n \in Nat : \E s \in Seq(T) : Len(s) = n /\ s \notin B}
<1>1. ASSUME NEW s \in Seq(T), s \notin B PROVE FALSE
  <2>1. Len(s) \in Bad
    BY <1>1
  <2>2. Bad \in SUBSET Nat /\ Bad # {}
    BY <2>1
  <2>3. PICK n \in Bad : \A y \in Bad : n <= y
    BY <2>2, LeastOf
  <2>4. PICK u \in Seq(T) : Len(u) = n /\ u \notin B
    OBVIOUS
  <2>5. u # <<>> /\ n \in Nat
    BY <2>4
  <2>. DEFINE v == SubSeq(u, 1, n - 1)
  <2>6. n > 0 /\ v \in Seq(T) /\ Len(v) = n - 1 /\ u[n] \in T
    BY <2>4, <2>5
  <2>7. u = Append(v, u[n])
    BY <2>4, <2>5, <2>6
  <2>8. v \in B
    <3>1. ~(n <= n - 1) /\ n - 1 \in Nat
      BY <2>5, <2>6
    <3>. QED BY <2>3, <2>6, <3>1
  <2>. QED BY <2>4, <2>6, <2>7, <2>8
<1>. QED BY <1>1

-----------------------------------------------------------------------------
(* Picking rows from a sequence.                                             *)

\* What picks the rows in S is what its definition says.
LEMMA PickIs ==
  ASSUME NEW T, NEW s \in Seq(T), NEW S
  PROVE  \E p : /\ p = [k \in 0 .. Len(s) |-> IF k = 0 THEN <<>> ELSE IF s[k] \in S THEN Append(p[k - 1], s[k]) ELSE p[k - 1]]
                /\ Picked(s, S) = p[Len(s)]
<1>. DEFINE Is(m, p) == p = [k \in 0 .. m |-> IF k = 0 THEN <<>> ELSE IF s[k] \in S THEN Append(p[k - 1], s[k]) ELSE p[k - 1]]
            Bad == {m \in 0 .. Len(s) : ~\E p : Is(m, p)}
<1>1. Len(s) \in Nat
  OBVIOUS
<1>2. ASSUME Bad # {} PROVE FALSE
  <2>1. Bad \in SUBSET Nat
    BY <1>1
  <2>2. PICK m \in Bad : \A x \in Bad : m <= x
    BY <1>2, <2>1, LeastOf
  <2>. HIDE DEF Is
  <2>3. m \in 0 .. Len(s) /\ m \in Nat /\ ~\E p : Is(m, p)
    BY <1>1
  <2>4. m # 0
    <3>1. Is(0, [k \in 0 .. 0 |-> <<>>])
      BY DEF Is
    <3>. QED BY <2>3, <3>1
  <2>5. m - 1 \in 0 .. Len(s) /\ m - 1 \notin Bad
    <3>1. m - 1 \in 0 .. Len(s) /\ ~(m <= m - 1)
      BY <1>1, <2>3, <2>4
    <3>. QED BY <2>2, <3>1
  <2>6. PICK f : Is(m - 1, f)
    BY <2>5
  <2>. DEFINE g == [k \in 0 .. m |-> IF k = m THEN IF s[m] \in S THEN Append(f[m - 1], s[m]) ELSE f[m - 1] ELSE f[k]]
  <2>7. Is(m, g)
    <3>1. ASSUME NEW k \in 0 .. m
          PROVE  g[k] = IF k = 0 THEN <<>> ELSE IF s[k] \in S THEN Append(g[k - 1], s[k]) ELSE g[k - 1]
      <4>1. CASE k = m
        <5>1. g[k] = (IF s[m] \in S THEN Append(f[m - 1], s[m]) ELSE f[m - 1]) /\ g[k - 1] = f[m - 1]
          BY <2>3, <2>4, <4>1
        <5>. QED BY <2>4, <4>1, <5>1
      <4>2. CASE k # m
        <5>1. k \in 0 .. m - 1 /\ g[k] = f[k]
          BY <2>3, <4>2
        <5>2. f[k] = IF k = 0 THEN <<>> ELSE IF s[k] \in S THEN Append(f[k - 1], s[k]) ELSE f[k - 1]
          BY <2>6, <5>1, Zenon DEF Is
        <5>3. k # 0 => k - 1 \in 0 .. m /\ k - 1 # m
          BY <2>3, <5>1
        <5>4. k # 0 => g[k - 1] = f[k - 1]
          BY <5>3
        <5>. QED BY <5>1, <5>2, <5>4
      <4>. QED BY <4>1, <4>2
    <3>. QED BY <3>1 DEF Is
  <2>. QED BY <2>3, <2>7
<1>3. \E p : Is(Len(s), p)
  <2>1. Len(s) \in 0 .. Len(s) /\ Bad = {}
    BY <1>1, <1>2
  <2>. HIDE DEF Is
  <2>. QED BY <2>1
<1>4. PICK p : Is(Len(s), p) /\ Picked(s, S) = p[Len(s)]
  <2>. DEFINE q == CHOOSE p : Is(Len(s), p)
  <2>1. Is(Len(s), q)
    BY <1>3, Zenon
  <2>2. Picked(s, S) = q[Len(s)]
    BY Zenon DEF Picked
  <2>. QED BY <2>1, <2>2
<1>. QED BY <1>4

\* Picking from none, and from one row more.
LEMMA PickedNone == ASSUME NEW S PROVE Picked(<<>>, S) = <<>>
<1>. DEFINE e == <<>>
<1>1. e \in Seq({}) /\ Len(e) = 0
  OBVIOUS
<1>. HIDE DEF e
<1>2. PICK p : /\ p = [k \in 0 .. Len(e) |-> IF k = 0 THEN <<>> ELSE IF e[k] \in S THEN Append(p[k - 1], e[k]) ELSE p[k - 1]]
               /\ Picked(e, S) = p[Len(e)]
  BY <1>1, PickIs
<1>3. p[0] = <<>>
  BY <1>1, <1>2
<1>. QED BY <1>1, <1>2, <1>3 DEF e

\* Picking from a sequence with one more row.
LEMMA PickedAppend ==
  ASSUME NEW T, NEW S, NEW s \in Seq(T), NEW x \in T
  PROVE  Picked(Append(s, x), S) = IF x \in S THEN Append(Picked(s, S), x) ELSE Picked(s, S)
<1>. DEFINE u == Append(s, x)
<1>1. u \in Seq(T) /\ Len(u) = Len(s) + 1 /\ Len(s) \in Nat /\ u[Len(u)] = x /\ \A k \in 1 .. Len(s) : u[k] = s[k]
  OBVIOUS
<1>. HIDE DEF u
<1>2. PICK p : /\ p = [k \in 0 .. Len(s) |-> IF k = 0 THEN <<>> ELSE IF s[k] \in S THEN Append(p[k - 1], s[k]) ELSE p[k - 1]]
               /\ Picked(s, S) = p[Len(s)]
  BY PickIs
<1>3. PICK q : /\ q = [k \in 0 .. Len(u) |-> IF k = 0 THEN <<>> ELSE IF u[k] \in S THEN Append(q[k - 1], u[k]) ELSE q[k - 1]]
               /\ Picked(u, S) = q[Len(u)]
  BY <1>1, PickIs
<1>. DEFINE Bad == {k \in 0 .. Len(s) : q[k] # p[k]}
<1>4. ASSUME Bad # {} PROVE FALSE
  <2>1. Bad \in SUBSET Nat
    BY <1>1
  <2>2. PICK m \in Bad : \A y \in Bad : m <= y
    BY <1>4, <2>1, LeastOf
  <2>3. m \in 0 .. Len(s) /\ m \in 0 .. Len(u) /\ m \in Nat
    BY <1>1
  <2>4. p[m] = IF m = 0 THEN <<>> ELSE IF s[m] \in S THEN Append(p[m - 1], s[m]) ELSE p[m - 1]
    BY <1>2, <2>3
  <2>5. q[m] = IF m = 0 THEN <<>> ELSE IF u[m] \in S THEN Append(q[m - 1], u[m]) ELSE q[m - 1]
    BY <1>3, <2>3
  <2>6. m # 0
    BY <2>4, <2>5
  <2>7. q[m - 1] = p[m - 1]
    <3>1. m - 1 \in 0 .. Len(s) /\ ~(m <= m - 1)
      BY <1>1, <2>3, <2>6
    <3>. QED BY <2>2, <3>1
  <2>8. u[m] = s[m]
    BY <1>1, <2>3, <2>6
  <2>. QED BY <2>4, <2>5, <2>6, <2>7, <2>8
<1>5. q[Len(s)] = p[Len(s)] /\ Len(u) # 0 /\ Len(u) \in 0 .. Len(u) /\ Len(u) - 1 = Len(s)
  BY <1>1, <1>4
<1>6. q[Len(u)] = IF Len(u) = 0 THEN <<>> ELSE IF u[Len(u)] \in S THEN Append(q[Len(u) - 1], u[Len(u)]) ELSE q[Len(u) - 1]
  BY <1>3, <1>5
<1>7. q[Len(u)] = IF x \in S THEN Append(p[Len(s)], x) ELSE p[Len(s)]
  BY <1>1, <1>5, <1>6
<1>. QED BY <1>2, <1>3, <1>7 DEF u

\* The rows of a sequence with one more row.
LEMMA RowsOfAppend ==
  ASSUME NEW T, NEW s \in Seq(T), NEW x \in T
  PROVE  ToSet(Append(s, x)) = ToSet(s) \cup {x}
<1>1. /\ DOMAIN Append(s, x) = 1 .. Len(s) + 1 /\ DOMAIN s = 1 .. Len(s) /\ Len(s) \in Nat
      /\ Append(s, x)[Len(s) + 1] = x /\ \A k \in 1 .. Len(s) : Append(s, x)[k] = s[k]
  OBVIOUS
<1>. QED BY <1>1 DEF ToSet

\* What is picked: the rows in S, once each if no row is twice in s.
LEMMA PickedRows ==
  ASSUME NEW T, NEW S, NEW s \in Seq(T)
  PROVE  Picked(s, S) \in Seq(T) /\ ToSet(Picked(s, S)) = ToSet(s) \cap S
<1>. DEFINE B == {u \in Seq(T) : Picked(u, S) \in Seq(T) /\ ToSet(Picked(u, S)) = ToSet(u) \cap S}
<1>1. <<>> \in B
  <2>1. Picked(<<>>, S) = <<>> /\ <<>> \in Seq(T) /\ ToSet(<<>>) = {}
    BY PickedNone DEF ToSet
  <2>. QED BY <2>1
<1>2. ASSUME NEW u \in Seq(T), NEW x \in T, u \in B PROVE Append(u, x) \in B
  <2>1. ASSUME NEW v \in Seq(T) PROVE ToSet(Append(v, x)) = ToSet(v) \cup {x}
    BY RowsOfAppend
  <2>2. Picked(Append(u, x), S) = IF x \in S THEN Append(Picked(u, S), x) ELSE Picked(u, S)
    BY PickedAppend
  <2>3. Picked(u, S) \in Seq(T) /\ ToSet(Picked(u, S)) = ToSet(u) \cap S
    BY <1>2
  <2>4. Append(u, x) \in Seq(T) /\ Append(Picked(u, S), x) \in Seq(T)
    BY <2>3
  <2>5. ToSet(Picked(Append(u, x), S)) = ToSet(Append(u, x)) \cap S
    <3>1. ToSet(Append(u, x)) = ToSet(u) \cup {x}
      BY <2>1
    <3>2. ToSet(Append(Picked(u, S), x)) = ToSet(Picked(u, S)) \cup {x}
      BY <2>1, <2>3
    <3>. QED BY <2>2, <2>3, <3>1, <3>2
  <2>. QED BY <2>2, <2>3, <2>4, <2>5
<1>3. Seq(T) \subseteq B
  <2>. HIDE DEF B
  <2>. QED BY <1>1, <1>2, EverySeq
<1>. QED BY <1>3

\* What is picked from rows that differ are rows that differ.
LEMMA PickedDistinct ==
  ASSUME NEW T, NEW S, NEW s \in Seq(T), Distinct(s)
  PROVE  Distinct(Picked(s, S))
<1>. DEFINE B == {u \in Seq(T) : Distinct(u) => Distinct(Picked(u, S))}
<1>1. <<>> \in B
  BY PickedNone DEF Distinct
<1>2. ASSUME NEW u \in Seq(T), NEW x \in T, u \in B PROVE Append(u, x) \in B
  <2>. SUFFICES ASSUME Distinct(Append(u, x)) PROVE Distinct(Picked(Append(u, x), S))
    OBVIOUS
  <2>0. /\ DOMAIN Append(u, x) = 1 .. Len(u) + 1 /\ DOMAIN u = 1 .. Len(u) /\ Len(u) \in Nat
        /\ Append(u, x)[Len(u) + 1] = x /\ \A k \in 1 .. Len(u) : Append(u, x)[k] = u[k]
    OBVIOUS
  <2>1. Distinct(u)
    BY <2>0 DEF Distinct
  <2>2. x \notin ToSet(u)
    BY <2>0 DEF Distinct, ToSet
  <2>3. Distinct(Picked(u, S)) /\ Picked(u, S) \in Seq(T) /\ x \notin ToSet(Picked(u, S))
    BY <1>2, <2>1, <2>2, PickedRows
  <2>. DEFINE p == Picked(u, S)
  <2>4. Distinct(Append(p, x))
    <3>. HIDE DEF p
    <3>1. Distinct(p) /\ p \in Seq(T) /\ x \notin ToSet(p)
      BY <2>3 DEF p
    <3>2. /\ DOMAIN Append(p, x) = 1 .. Len(p) + 1 /\ DOMAIN p = 1 .. Len(p) /\ Len(p) \in Nat
          /\ Append(p, x)[Len(p) + 1] = x /\ \A k \in 1 .. Len(p) : Append(p, x)[k] = p[k]
      BY <3>1
    <3>3. \A k \in 1 .. Len(p) : p[k] # x
      BY <3>1, <3>2 DEF ToSet
    <3>. QED BY <3>1, <3>2, <3>3 DEF Distinct
  <2>5. Picked(Append(u, x), S) = IF x \in S THEN Append(p, x) ELSE p
    BY PickedAppend
  <2>. QED BY <2>3, <2>4, <2>5
<1>3. Seq(T) \subseteq B
  <2>. HIDE DEF B
  <2>. QED BY <1>1, <1>2, EverySeq
<1>. QED BY <1>3

\* Only the rows of s in S matter.
LEMMA PickedSame ==
  ASSUME NEW T, NEW s \in Seq(T), NEW S, NEW R, ToSet(s) \cap S = ToSet(s) \cap R
  PROVE  Picked(s, S) = Picked(s, R)
<1>. DEFINE B == {u \in Seq(T) : ToSet(u) \cap S = ToSet(u) \cap R => Picked(u, S) = Picked(u, R)}
<1>1. <<>> \in B
  <2>1. Picked(<<>>, S) = <<>> /\ Picked(<<>>, R) = <<>>
    BY PickedNone
  <2>. QED BY <2>1
<1>2. ASSUME NEW u \in Seq(T), NEW x \in T, u \in B PROVE Append(u, x) \in B
  <2>. SUFFICES ASSUME ToSet(Append(u, x)) \cap S = ToSet(Append(u, x)) \cap R
                PROVE  Picked(Append(u, x), S) = Picked(Append(u, x), R)
    OBVIOUS
  <2>1. ToSet(Append(u, x)) = ToSet(u) \cup {x}
    BY RowsOfAppend
  <2>2. (x \in S) = (x \in R) /\ ToSet(u) \cap S = ToSet(u) \cap R
    BY <2>1
  <2>3. Picked(u, S) = Picked(u, R)
    BY <1>2, <2>2
  <2>4. /\ Picked(Append(u, x), S) = IF x \in S THEN Append(Picked(u, S), x) ELSE Picked(u, S)
        /\ Picked(Append(u, x), R) = IF x \in R THEN Append(Picked(u, R), x) ELSE Picked(u, R)
    BY PickedAppend
  <2>. QED BY <2>2, <2>3, <2>4
<1>3. Seq(T) \subseteq B
  <2>. HIDE DEF B
  <2>. QED BY <1>1, <1>2, EverySeq
<1>. QED BY <1>3

\* Picking all, none, or from what was picked.
LEMMA PickedExtremes ==
  ASSUME NEW T, NEW s \in Seq(T), NEW S
  PROVE  /\ ToSet(s) \subseteq S => Picked(s, S) = s
         /\ ToSet(s) \cap S = {} => Picked(s, S) = <<>>
<1>. DEFINE B == {u \in Seq(T) : (ToSet(u) \subseteq S => Picked(u, S) = u) /\ (ToSet(u) \cap S = {} => Picked(u, S) = <<>>)}
<1>1. <<>> \in B
  BY PickedNone
<1>2. ASSUME NEW u \in Seq(T), NEW x \in T, u \in B PROVE Append(u, x) \in B
  <2>1. ToSet(Append(u, x)) = ToSet(u) \cup {x}
    BY RowsOfAppend
  <2>2. Picked(Append(u, x), S) = IF x \in S THEN Append(Picked(u, S), x) ELSE Picked(u, S)
    BY PickedAppend
  <2>3. ToSet(Append(u, x)) \subseteq S => Picked(Append(u, x), S) = Append(u, x)
    BY <1>2, <2>1, <2>2
  <2>4. ToSet(Append(u, x)) \cap S = {} => Picked(Append(u, x), S) = <<>>
    <3>. SUFFICES ASSUME ToSet(Append(u, x)) \cap S = {} PROVE Picked(Append(u, x), S) = <<>>
      OBVIOUS
    <3>1. x \notin S /\ ToSet(u) \cap S = {}
      BY <2>1
    <3>. QED BY <1>2, <2>2, <3>1
  <2>. QED BY <2>3, <2>4
<1>3. Seq(T) \subseteq B
  <2>. HIDE DEF B
  <2>. QED BY <1>1, <1>2, EverySeq
<1>. QED BY <1>3

\* Picking twice is picking what both sets have.
LEMMA PickedTwice ==
  ASSUME NEW T, NEW s \in Seq(T), NEW S, NEW R
  PROVE  Picked(Picked(s, S), R) = Picked(s, S \cap R)
<1>. DEFINE B == {u \in Seq(T) : Picked(Picked(u, S), R) = Picked(u, S \cap R)}
<1>1. <<>> \in B
  <2>1. Picked(<<>>, S) = <<>> /\ Picked(<<>>, R) = <<>> /\ Picked(<<>>, S \cap R) = <<>>
    BY PickedNone
  <2>. QED BY <2>1
<1>2. ASSUME NEW u \in Seq(T), NEW x \in T, u \in B PROVE Append(u, x) \in B
  <2>1. Picked(u, S) \in Seq(T)
    BY PickedRows
  <2>2. Picked(Append(u, x), S) = IF x \in S THEN Append(Picked(u, S), x) ELSE Picked(u, S)
    BY PickedAppend
  <2>3. Picked(Append(u, x), S \cap R) = IF x \in S \cap R THEN Append(Picked(u, S \cap R), x) ELSE Picked(u, S \cap R)
    BY PickedAppend
  <2>4. Picked(Append(Picked(u, S), x), R) = IF x \in R THEN Append(Picked(Picked(u, S), R), x) ELSE Picked(Picked(u, S), R)
    BY <2>1, PickedAppend
  <2>5. Picked(Picked(u, S), R) = Picked(u, S \cap R)
    BY <1>2
  <2>6. Picked(Picked(Append(u, x), S), R) = Picked(Append(u, x), S \cap R)
    <3>1. CASE x \in S
      <4>1. Picked(Append(u, x), S) = Append(Picked(u, S), x) /\ (x \in S \cap R) = (x \in R)
        BY <2>2, <3>1
      <4>2. Picked(Picked(Append(u, x), S), R) = IF x \in R THEN Append(Picked(u, S \cap R), x) ELSE Picked(u, S \cap R)
        BY <2>4, <2>5, <4>1, Zenon
      <4>. QED BY <2>3, <4>1, <4>2, Zenon
    <3>2. CASE x \notin S
      BY <2>2, <2>3, <2>5, <3>2
    <3>. QED BY <3>1, <3>2
  <2>. QED BY <2>6
<1>3. Seq(T) \subseteq B
  <2>. HIDE DEF B
  <2>. QED BY <1>1, <1>2, EverySeq
<1>. QED BY <1>3

\* Picking from two sequences, one after the other.
LEMMA PickedConcat ==
  ASSUME NEW T, NEW s \in Seq(T), NEW u \in Seq(T), NEW S
  PROVE  Picked(s \o u, S) = Picked(s, S) \o Picked(u, S)
<1>. DEFINE B == {v \in Seq(T) : Picked(s \o v, S) = Picked(s, S) \o Picked(v, S)}
<1>0. Picked(s, S) \in Seq(T)
  BY PickedRows
<1>1. <<>> \in B
  <2>1. Picked(<<>>, S) = <<>> /\ s \o <<>> = s
    BY PickedNone
  <2>2. Picked(s, S) \o <<>> = Picked(s, S)
    BY <1>0, ConcatEmptySeq
  <2>3. s \o <<>> = s
    BY ConcatEmptySeq
  <2>4. Picked(s \o <<>>, S) = Picked(s, S) \o Picked(<<>>, S)
    BY <2>1, <2>2, <2>3, Zenon
  <2>5. <<>> \in Seq(T)
    OBVIOUS
  <2>. QED BY <2>4, <2>5, Zenon
<1>2. ASSUME NEW v \in Seq(T), NEW x \in T, v \in B PROVE Append(v, x) \in B
  <2>1. s \o Append(v, x) = Append(s \o v, x) /\ s \o v \in Seq(T)
    OBVIOUS
  <2>2. Picked(Append(s \o v, x), S) = IF x \in S THEN Append(Picked(s \o v, S), x) ELSE Picked(s \o v, S)
    <3>. DEFINE w == s \o v
    <3>1. w \in Seq(T)
      BY <2>1
    <3>. HIDE DEF w
    <3>2. Picked(Append(w, x), S) = IF x \in S THEN Append(Picked(w, S), x) ELSE Picked(w, S)
      BY <3>1, PickedAppend
    <3>. QED BY <3>2 DEF w
  <2>3. Picked(Append(v, x), S) = IF x \in S THEN Append(Picked(v, S), x) ELSE Picked(v, S)
    BY PickedAppend
  <2>4. Picked(v, S) \in Seq(T)
    BY PickedRows
  <2>5. Picked(s, S) \o Append(Picked(v, S), x) = Append(Picked(s, S) \o Picked(v, S), x)
    BY <1>0, <2>4
  <2>6. Picked(s \o v, S) = Picked(s, S) \o Picked(v, S)
    BY <1>2
  <2>7. Picked(s \o Append(v, x), S) = Picked(s, S) \o Picked(Append(v, x), S)
    BY <2>1, <2>2, <2>3, <2>5, <2>6
  <2>. QED BY <2>7
<1>3. Seq(T) \subseteq B
  <2>. HIDE DEF B
  <2>. QED BY <1>1, <1>2, EverySeq
<1>. QED BY <1>3

-----------------------------------------------------------------------------
(* Nodes and their heights.                                                  *)

\* The recursive function Log2 is what its definition says.
LEMMA LogIs == Log2 = [n \in 1 .. 2 * MaxRetain |-> IF n = 1 THEN 0 ELSE Log2[n \div 2] + 1]
<1>. DEFINE N == 2 * MaxRetain
            Is(m, p) == p = [n \in 1 .. m |-> IF n = 1 THEN 0 ELSE p[n \div 2] + 1]
            Bad == {m \in 1 .. N : ~\E p : Is(m, p)}
<1>1. N \in Nat /\ N >= 1
  BY TreeAssumption
<1>. HIDE DEF N
<1>2. ASSUME Bad # {} PROVE FALSE
  <2>1. Bad \in SUBSET Nat
    BY <1>1
  <2>2. PICK m \in Bad : \A x \in Bad : m <= x
    BY <1>2, <2>1, LeastOf
  <2>. HIDE DEF Is
  <2>3. m \in 1 .. N /\ m \in Nat /\ ~\E p : Is(m, p)
    BY <1>1
  <2>4. m # 1
    <3>1. Is(1, [n \in 1 .. 1 |-> 0])
      BY DEF Is
    <3>. QED BY <2>3, <3>1
  <2>5. m - 1 \in 1 .. N /\ m - 1 \notin Bad
    <3>1. m - 1 \in 1 .. N /\ ~(m <= m - 1)
      BY <1>1, <2>3, <2>4
    <3>. QED BY <2>2, <3>1
  <2>6. PICK f : Is(m - 1, f)
    BY <2>5
  <2>. DEFINE g == [n \in 1 .. m |-> IF n = m THEN f[m \div 2] + 1 ELSE f[n]]
  <2>7. Is(m, g)
    <3>1. ASSUME NEW n \in 1 .. m PROVE g[n] = IF n = 1 THEN 0 ELSE g[n \div 2] + 1
      <4>0. n # 1 => n \div 2 \in 1 .. m /\ n \div 2 < n
        BY <2>3
      <4>1. CASE n = m
        <5>1. g[n] = f[m \div 2] + 1 /\ g[n \div 2] = f[m \div 2]
          BY <2>3, <2>4, <4>0, <4>1
        <5>. QED BY <2>4, <4>1, <5>1
      <4>2. CASE n # m
        <5>1. n \in 1 .. m - 1 /\ g[n] = f[n]
          BY <2>3, <4>2
        <5>2. f[n] = IF n = 1 THEN 0 ELSE f[n \div 2] + 1
          BY <2>6, <5>1, Zenon DEF Is
        <5>3. n # 1 => n \div 2 \in 1 .. m /\ n \div 2 # m
          BY <2>3, <4>0, <5>1
        <5>4. n # 1 => g[n \div 2] = f[n \div 2]
          BY <5>3
        <5>. QED BY <5>1, <5>2, <5>4
      <4>. QED BY <4>1, <4>2
    <3>. QED BY <3>1 DEF Is
  <2>. QED BY <2>3, <2>7
<1>3. \E p : Is(N, p)
  <2>1. N \in 1 .. N /\ Bad = {}
    BY <1>1, <1>2
  <2>. HIDE DEF Is
  <2>. QED BY <2>1
<1>. QED BY <1>3, Zenon DEF Log2, N

\* The height of a node is one more than that of its parent, and grows with the number of the node.
LEMMA Heights ==
  /\ Log2[1] = 0
  /\ \A n \in 1 .. 2 * MaxRetain : Log2[n] \in Nat /\ (n # 1 => n \div 2 \in 1 .. 2 * MaxRetain /\ Log2[n] = Log2[n \div 2] + 1)
  /\ \A m, n \in 1 .. 2 * MaxRetain : m <= n => Log2[m] <= Log2[n]
<1>. DEFINE N == 2 * MaxRetain
<1>1. N \in Nat /\ N >= 1
  BY TreeAssumption
<1>2. \A n \in 1 .. N : Log2[n] = IF n = 1 THEN 0 ELSE Log2[n \div 2] + 1
  BY LogIs
<1>. HIDE DEF N
<1>3. \A n \in 1 .. N : n # 1 => n \div 2 \in 1 .. N /\ n \div 2 < n
  BY <1>1
<1>4. \A n \in 1 .. N : Log2[n] \in Nat
  <2>. DEFINE Bad == {n \in 1 .. N : Log2[n] \notin Nat}
  <2>1. ASSUME Bad # {} PROVE FALSE
    <3>1. Bad \in SUBSET Nat
      BY <1>1
    <3>2. PICK m \in Bad : \A x \in Bad : m <= x
      BY <2>1, <3>1, LeastOf
    <3>3. m \in 1 .. N /\ Log2[m] = IF m = 1 THEN 0 ELSE Log2[m \div 2] + 1
      BY <1>2
    <3>4. m # 1 => m \div 2 \notin Bad
      BY <1>3, <3>2, <3>3
    <3>5. m # 1 => Log2[m \div 2] \in Nat
      BY <1>3, <3>3, <3>4
    <3>. QED BY <3>3, <3>5
  <2>. QED BY <2>1
<1>5. \A n \in 1 .. N : \A m \in 1 .. N : m <= n => Log2[m] <= Log2[n]
  <2>. DEFINE Grows(n) == \A m \in 1 .. N : m <= n => Log2[m] <= Log2[n]
              Bad == {n \in 1 .. N : ~Grows(n)}
  <2>1. ASSUME Bad # {} PROVE FALSE
    <3>1. Bad \in SUBSET Nat
      BY <1>1
    <3>. HIDE DEF Grows
    <3>2. PICK n \in Bad : \A x \in Bad : n <= x
      BY <2>1, <3>1, LeastOf
    <3>3. n \in 1 .. N /\ ~Grows(n)
      OBVIOUS
    <3>4. PICK m \in 1 .. N : m <= n /\ ~(Log2[m] <= Log2[n])
      BY <3>3 DEF Grows
    <3>5. Log2[m] \in Nat /\ Log2[n] \in Nat /\ m # n
      BY <1>4, <3>3, <3>4
    <3>6. m # 1
      BY <1>2, <3>3, <3>4, <3>5
    <3>7. n # 1 /\ n \div 2 \in 1 .. N /\ m \div 2 \in 1 .. N /\ m \div 2 <= n \div 2 /\ ~(n <= n \div 2)
      BY <1>1, <3>3, <3>4, <3>6
    <3>8. Grows(n \div 2)
      BY <3>2, <3>7
    <3>9. Log2[m \div 2] <= Log2[n \div 2] /\ Log2[m \div 2] \in Nat /\ Log2[n \div 2] \in Nat
      BY <1>4, <3>7, <3>8 DEF Grows
    <3>. QED BY <1>2, <3>3, <3>4, <3>6, <3>7, <3>9
  <2>. QED BY <2>1
<1>6. \A n \in 1 .. N : Log2[n] \in Nat /\ (n # 1 => n \div 2 \in 1 .. N /\ Log2[n] = Log2[n \div 2] + 1)
  BY <1>2, <1>3, <1>4
<1>7. Log2[1] = 0
  BY <1>1, <1>2
<1>. QED BY <1>5, <1>6, <1>7 DEF N

\* The parent of a node is a node; a node below the greatest height has two children.
LEMMA NodesAre ==
  /\ 1 \in Nodes /\ Height(1) = 0 /\ Log2[MaxRetain] \in Nat /\ Log2[MaxRetain] >= 1
  /\ \A n \in Nodes : n \in Nat /\ n >= 1 /\ Height(n) \in Nat
  /\ \A n \in Nodes : n # 1 => n \div 2 \in Nodes /\ n \div 2 < n /\ Height(n) = Height(n \div 2) + 1
                               /\ \E left \in BOOLEAN : n = Child(n \div 2, left)
  /\ \A n \in Nat : \A left \in BOOLEAN : Child(n, left) \in Nat /\ Child(n, left) \div 2 = n
  /\ \A n \in Nat : Child(n, TRUE) # Child(n, FALSE)
  /\ \A n \in Nodes : Height(n) < Log2[MaxRetain] =>
       \A left \in BOOLEAN : Child(n, left) \in Nodes /\ Child(n, left) # 1 /\ Height(Child(n, left)) = Height(n) + 1
<1>1. MaxRetain \in Nat /\ MaxRetain > 1
  BY TreeAssumption
<1>2. 1 \in 1 .. 2 * MaxRetain /\ MaxRetain \in 1 .. 2 * MaxRetain
  BY <1>1
<1>3. Log2[MaxRetain] \in Nat /\ Log2[MaxRetain] >= 1
  <2>1. 2 \in 1 .. 2 * MaxRetain /\ 2 <= MaxRetain /\ 2 \div 2 = 1
    BY <1>1
  <2>2. Log2[2] = 1
    BY <2>1, Heights
  <2>. QED BY <1>2, <2>1, <2>2, Heights
<1>4. 1 \in Nodes /\ Height(1) = 0
  BY <1>2, <1>3, Heights DEF Nodes, Height
<1>5. \A n \in Nodes : n \in Nat /\ n >= 1 /\ Height(n) \in Nat /\ n \in 1 .. 2 * MaxRetain
  BY <1>1, Heights DEF Nodes, Height
<1>6. ASSUME NEW n \in Nodes, n # 1
      PROVE  n \div 2 \in Nodes /\ n \div 2 < n /\ Height(n) = Height(n \div 2) + 1
  <2>1. n \in 1 .. 2 * MaxRetain /\ Log2[n] <= Log2[MaxRetain] /\ Log2[n] = Log2[n \div 2] + 1 /\ n \div 2 \in 1 .. 2 * MaxRetain
    BY <1>6, Heights DEF Nodes, Height
  <2>2. Log2[n \div 2] \in Nat /\ n \div 2 < n
    BY <1>1, <2>1, Heights
  <2>. QED BY <1>3, <2>1, <2>2 DEF Nodes, Height
<1>7. /\ \A n \in Nat : \A left \in BOOLEAN : Child(n, left) \in Nat /\ Child(n, left) \div 2 = n
      /\ \A n \in Nat : Child(n, TRUE) # Child(n, FALSE)
  BY DEF Child
<1>8. ASSUME NEW n \in Nodes, Height(n) < Log2[MaxRetain], NEW left \in BOOLEAN
      PROVE  Child(n, left) \in Nodes /\ Child(n, left) # 1 /\ Height(Child(n, left)) = Height(n) + 1
  <2>1. n \in 1 .. 2 * MaxRetain /\ ~(Log2[MaxRetain] <= Log2[n])
    BY <1>3, <1>5, <1>8 DEF Height
  <2>2. n < MaxRetain
    BY <1>1, <1>2, <2>1, Heights
  <2>3. Child(n, left) \in 1 .. 2 * MaxRetain /\ Child(n, left) # 1 /\ Child(n, left) \div 2 = n
    BY <1>1, <2>1, <2>2 DEF Child
  <2>4. Log2[Child(n, left)] = Log2[n] + 1
    BY <2>3, Heights
  <2>. QED BY <1>3, <1>5, <1>8, <2>3, <2>4 DEF Nodes, Height
<1>9. ASSUME NEW n \in Nodes PROVE \E left \in BOOLEAN : n = Child(n \div 2, left)
  <2>1. n \in Nat
    BY <1>5
  <2>2. n = Child(n \div 2, TRUE) \/ n = Child(n \div 2, FALSE)
    BY <2>1 DEF Child
  <2>. QED BY <2>2
<1>. QED BY <1>3, <1>4, <1>5, <1>6, <1>7, <1>8, <1>9

-----------------------------------------------------------------------------
(* Branches.                                                                 *)

\* The recursive function in Below is what its definition says.
LEMMA BelowIs ==
  ASSUME NEW E
  PROVE  /\ Below(E) \subseteq Nodes
         /\ \A n \in Nodes : n \in Below(E) <=> n = 1 \/ (n \in E /\ n \div 2 \in Below(E))
<1>. DEFINE Step(p, n) == n = 1 \/ (n \in E /\ p[n \div 2])
            UpTo(m) == {n \in Nodes : n <= m}
            Is(m, p) == p = [n \in UpTo(m) |-> Step(p, n)]
            Bad == {m \in Nat : ~\E p : Is(m, p)}
<1>0. \A n \in Nodes : n \in Nat /\ n >= 1 /\ (n # 1 => n \div 2 \in Nodes /\ n \div 2 < n)
  BY NodesAre
<1>2. ASSUME Bad # {} PROVE FALSE
  <2>1. Bad \in SUBSET Nat
    OBVIOUS
  <2>2. PICK m \in Bad : \A x \in Bad : m <= x
    BY <1>2, <2>1, LeastOf
  <2>. HIDE DEF Is
  <2>3. m \in Nat /\ ~\E p : Is(m, p)
    OBVIOUS
  <2>4. m # 0
    <3>1. Is(0, [n \in {} |-> TRUE])
      <4>1. UpTo(0) = {}
        BY <1>0
      <4>. QED BY <4>1 DEF Is
    <3>. QED BY <2>3, <3>1
  <2>5. m - 1 \in Nat /\ m - 1 \notin Bad
    <3>1. m - 1 \in Nat /\ ~(m <= m - 1)
      BY <2>3, <2>4
    <3>. QED BY <2>2, <3>1
  <2>6. PICK f : Is(m - 1, f)
    BY <2>5
  <2>. DEFINE g == [n \in UpTo(m) |-> IF n = m THEN Step(f, m) ELSE f[n]]
  <2>. HIDE DEF Step
  <2>7. Is(m, g)
    <3>1. ASSUME NEW n \in UpTo(m) PROVE g[n] = Step(g, n)
      <4>0. n \in Nodes /\ n <= m /\ n \in Nat /\ (n # 1 => n \div 2 \in UpTo(m) /\ n \div 2 # m)
        BY <1>0, <2>3
      <4>1. n # 1 => g[n \div 2] = f[n \div 2]
        BY <4>0
      <4>2. Step(g, n) = Step(f, n)
        BY <4>1, Zenon DEF Step
      <4>3. CASE n = m
        BY <4>2, <4>3
      <4>4. CASE n # m
        <5>1. n \in UpTo(m - 1) /\ g[n] = f[n]
          BY <2>3, <4>0, <4>4
        <5>2. f[n] = Step(f, n)
          <6>1. f = [x \in UpTo(m - 1) |-> Step(f, x)]
            BY <2>6 DEF Is
          <6>. QED BY <5>1, <6>1, Zenon
        <5>. QED BY <4>2, <5>1, <5>2
      <4>. QED BY <4>3, <4>4
    <3>2. g = [n \in UpTo(m) |-> g[n]]
      OBVIOUS
    <3>. HIDE DEF g, UpTo
    <3>3. g = [n \in UpTo(m) |-> Step(g, n)]
      BY <3>1, <3>2
    <3>. QED BY <3>3 DEF Is
  <2>. QED BY <2>3, <2>7
<1>3. \E p : p = [n \in Nodes |-> Step(p, n)]
  <2>1. 2 * MaxRetain \in Nat /\ UpTo(2 * MaxRetain) = Nodes
    BY TreeAssumption DEF Nodes
  <2>. HIDE DEF Is, UpTo
  <2>2. \E p : Is(2 * MaxRetain, p)
    BY <1>2, <2>1
  <2>. QED BY <2>1, <2>2 DEF Is
<1>. DEFINE q == CHOOSE p : p = [n \in Nodes |-> Step(p, n)]
<1>4. q = [n \in Nodes |-> Step(q, n)]
  <2>. HIDE DEF Step
  <2>. QED BY <1>3, Zenon
<1>5. Below(E) = {n \in Nodes : q[n]}
  BY Zenon DEF Below
<1>. HIDE DEF q
<1>6. \A n \in Nodes : q[n] = Step(q, n)
  <2>. HIDE DEF Step
  <2>. QED BY <1>4, Zenon
<1>7. ASSUME NEW n \in Nodes
      PROVE  n \in Below(E) <=> n = 1 \/ (n \in E /\ n \div 2 \in Below(E))
  <2>1. n # 1 => n \div 2 \in Nodes
    BY <1>0
  <2>. HIDE DEF Step
  <2>2. n \in Below(E) <=> q[n]
    BY <1>5
  <2>3. n # 1 => (n \div 2 \in Below(E) <=> q[n \div 2])
    BY <1>5, <2>1
  <2>4. q[n] = Step(q, n)
    BY <1>6
  <2>. QED BY <2>2, <2>3, <2>4, Zenon DEF Step
<1>8. Below(E) \subseteq Nodes
  BY <1>5
<1>. QED BY <1>7, <1>8

\* The nodes of a branch.
LEMMA BranchIs ==
  ASSUME NEW t, NEW F, NEW X
  PROVE  /\ Branch(t, F, X) \subseteq Nodes
         /\ \A n \in Nodes : n \in Branch(t, F, X) <=>
              n \notin X /\ (n = 1 \/ (n \div 2 \in Branch(t, F, X) /\ ~t[n \div 2].terminate /\ ~Keeps(t, F, n)))
<1>. DEFINE E == {n \in Nodes \ {1} : n \notin X /\ ~t[n \div 2].terminate /\ ~Keeps(t, F, n)}
<1>0. 1 \in Nodes /\ \A n \in Nodes : n # 1 => n \div 2 \in Nodes
  BY NodesAre
<1>1. CASE 1 \in X
  <2>1. Branch(t, F, X) = {}
    BY <1>1 DEF Branch
  <2>. QED BY <1>1, <2>1
<1>2. CASE 1 \notin X
  <2>1. Branch(t, F, X) = Below(E)
    BY <1>2 DEF Branch
  <2>2. \A n \in Nodes : n \in E <=> n # 1 /\ n \notin X /\ ~t[n \div 2].terminate /\ ~Keeps(t, F, n)
    OBVIOUS
  <2>. HIDE DEF E
  <2>3. Below(E) \subseteq Nodes /\ \A n \in Nodes : n \in Below(E) <=> n = 1 \/ (n \in E /\ n \div 2 \in Below(E))
    BY BelowIs
  <2>. QED BY <1>0, <1>2, <2>1, <2>2, <2>3
<1>. QED BY <1>1, <1>2

\* A branch lies in a set that has the root and with each parent its children on the branch.
LEMMA Descend ==
  ASSUME NEW t, NEW F, NEW X, NEW B,
         1 \in Branch(t, F, X) => 1 \in B,
         \A n \in Branch(t, F, X) : n # 1 /\ n \div 2 \in Branch(t, F, X) /\ n \div 2 \in B => n \in B
  PROVE  Branch(t, F, X) \subseteq B
<1>. DEFINE Bad == {n \in Branch(t, F, X) : n \notin B}
<1>0. /\ \A n \in Nodes : n \in Nat /\ (n # 1 => n \div 2 \in Nat /\ n \div 2 < n)
      /\ Branch(t, F, X) \subseteq Nodes
      /\ \A n \in Branch(t, F, X) : n # 1 => n \div 2 \in Branch(t, F, X)
  BY NodesAre, BranchIs
<1>1. ASSUME Bad # {} PROVE FALSE
  <2>1. Bad \in SUBSET Nat
    BY <1>0
  <2>2. PICK n \in Bad : \A x \in Bad : n <= x
    BY <1>1, <2>1, LeastOf
  <2>3. n \in Branch(t, F, X) /\ n \notin B /\ n # 1
    OBVIOUS
  <2>4. n \div 2 \in Branch(t, F, X) /\ n \div 2 < n /\ n \in Nat /\ n \div 2 \in Nat
    BY <1>0, <2>3
  <2>5. n \div 2 \notin Bad
    BY <2>2, <2>4
  <2>. QED BY <2>3, <2>4, <2>5
<1>. QED BY <1>1

\* Node n gets a new content, and leaves X for another set X2 which has all others of X: then the
\* branch is no larger than before, but for n, unless n keeps its children.
LEMMA BranchWithin ==
  ASSUME NEW t, NEW u, NEW F, NEW X, NEW X2, NEW n \in Nodes, n # 1,
         \A m \in Nodes : m # n => u[m] = t[m] /\ (m \in X => m \in X2),
         \A m \in Nodes : m # 1 /\ m \div 2 = n =>
           u[n].terminate \/ m \in X2 \/ (n \in Branch(t, F, X) /\ ~t[n].terminate)
  PROVE  Branch(u, F, X2) \subseteq Branch(t, F, X) \cup {n}
<1>. DEFINE B == Branch(t, F, X) \cup {n}
<1>0. /\ 1 \in Nodes /\ \A m \in Nodes : m # 1 => m \div 2 \in Nodes
      /\ Branch(u, F, X2) \subseteq Nodes /\ Branch(t, F, X) \subseteq Nodes
  BY NodesAre, BranchIs
<1>a. \A m \in Nodes : m \in Branch(u, F, X2) <=>
        m \notin X2 /\ (m = 1 \/ (m \div 2 \in Branch(u, F, X2) /\ ~u[m \div 2].terminate /\ ~Keeps(u, F, m)))
  BY BranchIs
<1>b. \A m \in Nodes : m \in Branch(t, F, X) <=>
        m \notin X /\ (m = 1 \/ (m \div 2 \in Branch(t, F, X) /\ ~t[m \div 2].terminate /\ ~Keeps(t, F, m)))
  BY BranchIs
<1>1. 1 \in Branch(u, F, X2) => 1 \in B
  BY <1>0, <1>a, <1>b
<1>2. ASSUME NEW m \in Branch(u, F, X2), m # 1, m \div 2 \in Branch(u, F, X2), m \div 2 \in B
      PROVE  m \in B
  <2>. SUFFICES ASSUME m # n PROVE m \in Branch(t, F, X)
    OBVIOUS
  <2>1. m \in Nodes /\ m \div 2 \in Nodes /\ m \notin X /\ u[m] = t[m]
    BY <1>0, <1>a, <1>2
  <2>2. ~u[m \div 2].terminate /\ ~Keeps(u, F, m) /\ m \notin X2
    BY <1>a, <1>2, <2>1
  <2>3. ~Keeps(t, F, m)
    BY <2>1, <2>2 DEF Keeps
  <2>4. CASE m \div 2 = n
    BY <1>2, <1>b, <2>1, <2>2, <2>3, <2>4
  <2>5. CASE m \div 2 # n
    <3>1. m \div 2 \in Branch(t, F, X) /\ ~t[m \div 2].terminate
      BY <1>2, <2>1, <2>2, <2>5
    <3>. QED BY <1>b, <1>2, <2>1, <2>3, <3>1
  <2>. QED BY <2>4, <2>5
<1>. HIDE DEF B
<1>3. Branch(u, F, X2) \subseteq B
  BY <1>1, <1>2, Descend
<1>. QED BY <1>3 DEF B

\* And no smaller, if n was not on it and X2 has no more than X but children of n.
LEMMA BranchKept ==
  ASSUME NEW t, NEW u, NEW F, NEW X, NEW X2, NEW n \in Nodes, n \notin Branch(t, F, X), 1 \notin X2,
         \A m \in Nodes : m # n => u[m] = t[m],
         \A m \in Nodes : m \in X2 => m \in X \/ m \div 2 = n
  PROVE  Branch(t, F, X) \subseteq Branch(u, F, X2)
<1>. DEFINE B == Branch(u, F, X2)
<1>0. /\ 1 \in Nodes /\ \A m \in Nodes : m # 1 => m \div 2 \in Nodes
      /\ Branch(u, F, X2) \subseteq Nodes /\ Branch(t, F, X) \subseteq Nodes
  BY NodesAre, BranchIs
<1>a. \A m \in Nodes : m \in B <=>
        m \notin X2 /\ (m = 1 \/ (m \div 2 \in B /\ ~u[m \div 2].terminate /\ ~Keeps(u, F, m)))
  BY BranchIs
<1>b. \A m \in Nodes : m \in Branch(t, F, X) <=>
        m \notin X /\ (m = 1 \/ (m \div 2 \in Branch(t, F, X) /\ ~t[m \div 2].terminate /\ ~Keeps(t, F, m)))
  BY BranchIs
<1>. HIDE DEF B
<1>1. 1 \in B
  BY <1>0, <1>a
<1>2. ASSUME NEW m \in Branch(t, F, X), m # 1, m \div 2 \in Branch(t, F, X), m \div 2 \in B
      PROVE  m \in B
  <2>1. m \in Nodes /\ m \div 2 \in Nodes /\ m # n /\ m \div 2 # n
    BY <1>0, <1>2
  <2>2. m \notin X2 /\ u[m] = t[m] /\ u[m \div 2] = t[m \div 2]
    BY <1>b, <1>2, <2>1
  <2>3. ~Keeps(t, F, m) /\ ~t[m \div 2].terminate
    BY <1>b, <1>2, <2>1
  <2>4. ~Keeps(u, F, m)
    BY <2>2, <2>3 DEF Keeps
  <2>. QED BY <1>a, <1>2, <2>1, <2>2, <2>3, <2>4
<1>. QED BY <1>1, <1>2, Descend DEF B

-----------------------------------------------------------------------------
(* Calls.                                                                    *)

\* The calls but the first.
LEMMA Popped ==
  ASSUME NEW T, NEW Q \in Seq(T), Q # <<>>, StackOK(Q), Head(Q).op # "Free"
  PROVE  /\ Tail(Q) \in Seq(T) /\ Head(Q) \in T /\ StackOK(Tail(Q))
         /\ ToSet(Q) = {Head(Q)} \cup ToSet(Tail(Q))
         /\ \A c \in ToSet(Tail(Q)) : c.op # "Free" => c.n # Head(Q).n /\ c.n # 1
         /\ Pending(Q) = {Head(Q).n} \cup Pending(Tail(Q)) /\ Head(Q).n \notin Pending(Tail(Q)) /\ 1 \notin Pending(Tail(Q))
<1>. DEFINE R == Tail(Q)
<1>1. /\ R \in Seq(T) /\ Len(Q) \in Nat /\ Len(Q) >= 1 /\ Len(R) = Len(Q) - 1 /\ Head(Q) = Q[1] /\ Head(Q) \in T
      /\ DOMAIN R = 1 .. Len(Q) - 1 /\ DOMAIN Q = 1 .. Len(Q) /\ \A k \in DOMAIN R : R[k] = Q[k + 1]
  OBVIOUS
<1>. HIDE DEF R
<1>2. ToSet(Q) = {Head(Q)} \cup ToSet(R)
  <2>1. ASSUME NEW c \in ToSet(Q) PROVE c \in {Head(Q)} \cup ToSet(R)
    <3>1. PICK k \in DOMAIN Q : c = Q[k]
      BY DEF ToSet
    <3>2. k = 1 \/ (k - 1 \in DOMAIN R /\ R[k - 1] = Q[k])
      <4>1. k # 1 => k - 1 \in DOMAIN R /\ k - 1 + 1 = k
        BY <1>1
      <4>. QED BY <1>1, <4>1
    <3>. QED BY <1>1, <3>1, <3>2 DEF ToSet
  <2>2. ASSUME NEW c \in ToSet(R) PROVE c \in ToSet(Q)
    <3>1. PICK k \in DOMAIN R : c = R[k]
      BY DEF ToSet
    <3>2. k + 1 \in DOMAIN Q /\ c = Q[k + 1]
      BY <1>1, <3>1
    <3>. QED BY <3>2 DEF ToSet
  <2>3. Head(Q) \in ToSet(Q)
    BY <1>1 DEF ToSet
  <2>. QED BY <2>1, <2>2, <2>3
<1>3. StackOK(R)
  <2>1. \A k \in DOMAIN R : k + 1 \in DOMAIN Q
    BY <1>1
  <2>2. \A k \in DOMAIN R : R[k].op # "Free" => R[k].n # 1
    <3>. SUFFICES ASSUME NEW k \in DOMAIN R, Q[k + 1].op # "Free", Q[k + 1].n = 1 PROVE FALSE
      BY <1>1
    <3>1. Len(Q) = 1
      BY <2>1 DEF StackOK
    <3>. QED BY <1>1, <3>1
  <2>3. \A i, j \in DOMAIN R : R[i].op # "Free" /\ R[j].op # "Free" /\ R[i].n = R[j].n => i = j
    <3>. SUFFICES ASSUME NEW i \in DOMAIN R, NEW j \in DOMAIN R, R[i].op # "Free", R[j].op # "Free", R[i].n = R[j].n
                  PROVE  i = j
      OBVIOUS
    <3>1. i + 1 = j + 1
      BY <1>1, <2>1 DEF StackOK
    <3>. QED BY <1>1, <3>1
  <2>4. \A i \in DOMAIN R : R[i].op = "Free" => i = Len(R)
    <3>. SUFFICES ASSUME NEW i \in DOMAIN R, R[i].op = "Free" PROVE i = Len(R)
      OBVIOUS
    <3>1. i + 1 = Len(Q)
      BY <1>1, <2>1 DEF StackOK
    <3>. QED BY <1>1, <3>1
  <2>. QED BY <2>2, <2>3, <2>4 DEF StackOK
<1>4. ASSUME NEW c \in ToSet(R), c.op # "Free" PROVE c.n # Head(Q).n /\ c.n # 1
  <2>1. PICK k \in DOMAIN R : c = R[k]
    BY DEF ToSet
  <2>2. k + 1 \in DOMAIN Q /\ 1 \in DOMAIN Q /\ k + 1 # 1 /\ c = Q[k + 1]
    BY <1>1, <2>1
  <2>3. c.n # Head(Q).n
    BY <1>1, <1>4, <2>2 DEF StackOK
  <2>4. c.n = 1 => Len(Q) = 1
    BY <1>4, <2>2 DEF StackOK
  <2>. QED BY <1>1, <2>2, <2>3, <2>4
<1>5. Pending(Q) = {Head(Q).n} \cup Pending(R) /\ Head(Q).n \notin Pending(R) /\ 1 \notin Pending(R)
  BY <1>2, <1>4 DEF Pending
<1>. QED BY <1>1, <1>2, <1>3, <1>4, <1>5 DEF R

\* Two more calls before others.
LEMMA Pushed ==
  ASSUME NEW T, NEW R \in Seq(T), StackOK(R), NEW a \in T, NEW b \in T,
         a.op # "Free", b.op # "Free", a.n # b.n, a.n # 1, b.n # 1,
         \A c \in ToSet(R) : c.op # "Free" => c.n # 1 /\ c.n # a.n /\ c.n # b.n
  PROVE  /\ <<a, b>> \o R \in Seq(T) /\ StackOK(<<a, b>> \o R)
         /\ ToSet(<<a, b>> \o R) = {a, b} \cup ToSet(R)
<1>. DEFINE Q == <<a, b>> \o R
<1>1. <<a, b>> \in Seq(T) /\ Len(<<a, b>>) = 2 /\ <<a, b>>[1] = a /\ <<a, b>>[2] = b
  OBVIOUS
<1>. DEFINE ab == <<a, b>>
<1>. HIDE DEF ab
<1>2. /\ ab \o R \in Seq(T) /\ Len(ab \o R) = Len(ab) + Len(R)
      /\ \A k \in 1 .. Len(ab) + Len(R) : (ab \o R)[k] = IF k <= Len(ab) THEN ab[k] ELSE R[k - Len(ab)]
  <2>1. ab \in Seq(T)
    BY <1>1 DEF ab
  <2>. QED BY <2>1, ConcatProperties
<1>3. /\ Q \in Seq(T) /\ DOMAIN Q = 1 .. 2 + Len(R) /\ Len(Q) = 2 + Len(R) /\ Q[1] = a /\ Q[2] = b
      /\ Len(R) \in Nat /\ DOMAIN R = 1 .. Len(R)
      /\ \A k \in DOMAIN Q : k = 1 \/ k = 2 \/ (k - 2 \in DOMAIN R /\ Q[k] = R[k - 2])
      /\ \A k \in DOMAIN R : k + 2 \in DOMAIN Q /\ Q[k + 2] = R[k]
  <2>0. Len(R) \in Nat /\ DOMAIN R = 1 .. Len(R) /\ Len(ab) = 2 /\ ab[1] = a /\ ab[2] = b /\ Q = ab \o R
    BY <1>1 DEF ab
  <2>1. Q \in Seq(T) /\ Len(Q) = 2 + Len(R) /\ \A k \in 1 .. 2 + Len(R) : Q[k] = IF k <= 2 THEN ab[k] ELSE R[k - 2]
    BY <1>2, <2>0, Zenon
  <2>. HIDE DEF Q
  <2>2. DOMAIN Q = 1 .. 2 + Len(R)
    BY <2>1
  <2>3. Q[1] = a /\ Q[2] = b
    BY <2>0, <2>1
  <2>4. \A k \in DOMAIN Q : k = 1 \/ k = 2 \/ (k - 2 \in DOMAIN R /\ Q[k] = R[k - 2])
    BY <2>0, <2>1, <2>2
  <2>5. ASSUME NEW k \in DOMAIN R PROVE k + 2 \in DOMAIN Q /\ Q[k + 2] = R[k]
    <3>1. k + 2 \in 1 .. 2 + Len(R) /\ ~(k + 2 <= 2) /\ k + 2 - 2 = k
      BY <2>0
    <3>. QED BY <2>1, <2>2, <3>1
  <2>. QED BY <2>0, <2>1, <2>2, <2>3, <2>4, <2>5
<1>. HIDE DEF Q
<1>4. ToSet(Q) = {a, b} \cup ToSet(R)
  <2>1. ASSUME NEW c \in ToSet(Q) PROVE c \in {a, b} \cup ToSet(R)
    <3>1. PICK k \in DOMAIN Q : c = Q[k]
      BY DEF ToSet
    <3>2. k = 1 \/ k = 2 \/ (k - 2 \in DOMAIN R /\ c = R[k - 2])
      BY <1>3, <3>1
    <3>. QED BY <1>3, <3>1, <3>2 DEF ToSet
  <2>2. ASSUME NEW c \in ToSet(R) PROVE c \in ToSet(Q)
    <3>1. PICK k \in DOMAIN R : c = R[k]
      BY DEF ToSet
    <3>2. k + 2 \in DOMAIN Q /\ c = Q[k + 2]
      BY <1>3, <3>1
    <3>. QED BY <3>2 DEF ToSet
  <2>3. 1 \in DOMAIN Q /\ 2 \in DOMAIN Q
    BY <1>3
  <2>4. a \in ToSet(Q) /\ b \in ToSet(Q)
    BY <1>3, <2>3 DEF ToSet
  <2>. QED BY <2>1, <2>2, <2>4
<1>5. StackOK(Q)
  <2>0. \A k \in DOMAIN R : R[k].op # "Free" => R[k].n # 1 /\ R[k].n # a.n /\ R[k].n # b.n
    BY DEF ToSet
  <2>1. \A k \in DOMAIN Q : Q[k].op # "Free" => Q[k].n # 1
    BY <1>3, <2>0
  <2>2. ASSUME NEW i \in DOMAIN Q, NEW j \in DOMAIN Q, Q[i].op # "Free", Q[j].op # "Free", Q[i].n = Q[j].n
        PROVE  i = j
    <3>0. i \in Nat /\ j \in Nat
      BY <1>3
    <3>1. CASE i \in {1, 2} \/ j \in {1, 2}
      BY <1>3, <2>0, <2>2, <3>1
    <3>2. CASE i \notin {1, 2} /\ j \notin {1, 2}
      <4>1. i - 2 \in DOMAIN R /\ Q[i] = R[i - 2] /\ j - 2 \in DOMAIN R /\ Q[j] = R[j - 2]
        BY <1>3, <3>2
      <4>2. i - 2 = j - 2
        BY <2>2, <4>1 DEF StackOK
      <4>. QED BY <3>0, <4>2
    <3>. QED BY <3>1, <3>2
  <2>3. ASSUME NEW i \in DOMAIN Q, Q[i].op = "Free" PROVE i = Len(Q)
    <3>0. i \in Nat
      BY <1>3
    <3>1. i - 2 \in DOMAIN R /\ Q[i] = R[i - 2]
      BY <1>3, <2>3
    <3>2. i - 2 = Len(R)
      BY <2>3, <3>1 DEF StackOK
    <3>. QED BY <1>3, <3>0, <3>2
  <2>. QED BY <2>1, <2>2, <2>3 DEF StackOK
<1>. QED BY <1>3, <1>4, <1>5 DEF Q

-----------------------------------------------------------------------------
(* Sides of a cut, and rows that are left out.                               *)

\* The rows of a sequence, and of two one after the other.
LEMMA RowsAre ==
  ASSUME NEW T, NEW s \in Seq(T)
  PROVE  /\ ToSet(s) \subseteq T /\ s \in Seq(ToSet(s)) /\ (ToSet(s) = {} <=> s = <<>>)
         /\ \A S : s \in Seq(S) => ToSet(s) \subseteq S
<1>1. \A k \in DOMAIN s : s[k] \in T /\ s[k] \in ToSet(s)
  BY DEF ToSet
<1>2. ToSet(s) \subseteq T
  BY <1>1 DEF ToSet
<1>3. s \in Seq(ToSet(s))
  BY <1>1
<1>4. ToSet(s) = {} => s = <<>>
  <2>. SUFFICES ASSUME s # <<>> PROVE ToSet(s) # {}
    OBVIOUS
  <2>1. 1 \in DOMAIN s
    OBVIOUS
  <2>. QED BY <1>1, <2>1
<1>5. ToSet(<<>>) = {}
  BY DEF ToSet
<1>6. ASSUME NEW S, s \in Seq(S) PROVE ToSet(s) \subseteq S
  BY <1>6 DEF ToSet
<1>. QED BY <1>2, <1>3, <1>4, <1>5, <1>6

\* The rows and the length of two sequences in a row.
LEMMA RowsOfConcat ==
  ASSUME NEW T, NEW s \in Seq(T), NEW u \in Seq(T)
  PROVE  s \o u \in Seq(T) /\ ToSet(s \o u) = ToSet(s) \cup ToSet(u) /\ Len(s \o u) = Len(s) + Len(u)
<1>1. /\ s \o u \in Seq(T) /\ Len(s \o u) = Len(s) + Len(u)
      /\ \A k \in 1 .. Len(s) + Len(u) : (s \o u)[k] = IF k <= Len(s) THEN s[k] ELSE u[k - Len(s)]
  BY ConcatProperties
<1>2. /\ DOMAIN (s \o u) = 1 .. Len(s) + Len(u) /\ DOMAIN s = 1 .. Len(s) /\ DOMAIN u = 1 .. Len(u)
      /\ Len(s) \in Nat /\ Len(u) \in Nat
  BY <1>1
<1>. DEFINE w == s \o u
<1>. HIDE DEF w
<1>3. ASSUME NEW x \in ToSet(w) PROVE x \in ToSet(s) \cup ToSet(u)
  <2>1. PICK k \in DOMAIN w : x = w[k]
    BY DEF ToSet
  <2>2. CASE k <= Len(s)
    BY <1>1, <1>2, <2>1, <2>2 DEF w, ToSet
  <2>3. CASE ~(k <= Len(s))
    <3>1. k - Len(s) \in DOMAIN u /\ x = u[k - Len(s)]
      BY <1>1, <1>2, <2>1, <2>3 DEF w
    <3>. QED BY <3>1 DEF ToSet
  <2>. QED BY <2>2, <2>3
<1>4. ASSUME NEW x \in ToSet(s) PROVE x \in ToSet(w)
  <2>1. PICK k \in DOMAIN s : x = s[k]
    BY DEF ToSet
  <2>2. k \in DOMAIN w /\ w[k] = x
    BY <1>1, <1>2, <2>1 DEF w
  <2>. QED BY <2>2 DEF ToSet
<1>5. ASSUME NEW x \in ToSet(u) PROVE x \in ToSet(w)
  <2>1. PICK k \in DOMAIN u : x = u[k]
    BY DEF ToSet
  <2>2. k + Len(s) \in 1 .. Len(s) + Len(u) /\ ~(k + Len(s) <= Len(s)) /\ k + Len(s) - Len(s) = k
    BY <1>2, <2>1
  <2>3. w[k + Len(s)] = x /\ k + Len(s) \in DOMAIN w
    BY <1>1, <1>2, <2>1, <2>2 DEF w
  <2>. QED BY <2>3 DEF ToSet
<1>. QED BY <1>1, <1>3, <1>4, <1>5 DEF w

\* What is left out.
LEMMA WithoutIs ==
  ASSUME NEW T, NEW s \in Seq(T), NEW S
  PROVE  /\ Without(s, S) \in Seq(T) /\ ToSet(Without(s, S)) = ToSet(s) \ S
         /\ Within(s, S) \in Seq(T) /\ ToSet(Within(s, S)) = ToSet(s) \cap S
         /\ Without(s, S) = Picked(s, T \ S)
         /\ ToSet(s) \subseteq S => Without(s, S) = <<>>
         /\ Distinct(s) => Distinct(Without(s, S))
         /\ \A R : ToSet(s) \cap S = ToSet(s) \cap R => Without(s, S) = Without(s, R)
<1>1. ToSet(s) \subseteq T
  BY RowsAre
<1>2. Without(s, S) \in Seq(T) /\ ToSet(Without(s, S)) = ToSet(s) \ S
  <2>1. ToSet(s) \cap (ToSet(s) \ S) = ToSet(s) \ S
    OBVIOUS
  <2>. QED BY <2>1, PickedRows DEF Without
<1>3. Within(s, S) \in Seq(T) /\ ToSet(Within(s, S)) = ToSet(s) \cap S
  BY PickedRows DEF Within
<1>4. Without(s, S) = Picked(s, T \ S)
  <2>1. ToSet(s) \cap (ToSet(s) \ S) = ToSet(s) \cap (T \ S)
    BY <1>1
  <2>. QED BY <2>1, PickedSame DEF Without
<1>5. ToSet(s) \subseteq S => Without(s, S) = <<>>
  <2>. SUFFICES ASSUME ToSet(s) \subseteq S PROVE Without(s, S) = <<>>
    OBVIOUS
  <2>1. ToSet(s) \cap (ToSet(s) \ S) = {}
    OBVIOUS
  <2>. QED BY <2>1, PickedExtremes DEF Without
<1>6. Distinct(s) => Distinct(Without(s, S))
  BY PickedDistinct DEF Without
<1>7. ASSUME NEW R, ToSet(s) \cap S = ToSet(s) \cap R PROVE Without(s, S) = Without(s, R)
  <2>1. ToSet(s) \ S = ToSet(s) \ R
    BY <1>7
  <2>. QED BY <2>1 DEF Without
<1>. QED BY <1>2, <1>3, <1>4, <1>5, <1>6, <1>7

\* One side of a cut is picked from the rows; of two sequences it is that of the one and then
\* that of the other; and rows are left out of it as out of the whole.
LEMMA PartIs ==
  ASSUME NEW T, NEW s \in Seq(T), NEW d, NEW f, NEW v, NEW left
  PROVE  /\ Part(d, s, f, v, left) = Picked(s, {r \in T : (Val[f][d[r][1]] <= v) = left})
         /\ Part(d, s, f, v, left) \in Seq(T) /\ ToSet(Part(d, s, f, v, left)) \subseteq ToSet(s)
<1>. DEFINE P == {r \in T : (Val[f][d[r][1]] <= v) = left}
            Q == {r \in ToSet(s) : (Val[f][d[r][1]] <= v) = left}
<1>1. ToSet(s) \subseteq T
  BY RowsAre
<1>2. ToSet(s) \cap P = ToSet(s) \cap Q
  BY <1>1
<1>. HIDE DEF P, Q
<1>3. Picked(s, Q) = Picked(s, P) /\ Picked(s, Q) \in Seq(T) /\ ToSet(Picked(s, Q)) \subseteq ToSet(s)
  BY <1>2, PickedSame, PickedRows
<1>. QED BY <1>3 DEF Part, P, Q

\* The rows of one side of two sequences are those of the first, then those of the second.
LEMMA PartConcat ==
  ASSUME NEW T, NEW s \in Seq(T), NEW u \in Seq(T), NEW d, NEW f, NEW v, NEW left
  PROVE  Part(d, s \o u, f, v, left) = Part(d, s, f, v, left) \o Part(d, u, f, v, left)
<1>. DEFINE P == {r \in T : (Val[f][d[r][1]] <= v) = left}
            w == s \o u
<1>1. w \in Seq(T)
  OBVIOUS
<1>. HIDE DEF w
<1>2. /\ Part(d, s, f, v, left) = Picked(s, P) /\ Part(d, u, f, v, left) = Picked(u, P)
      /\ Part(d, w, f, v, left) = Picked(w, P)
  BY <1>1, PartIs
<1>. HIDE DEF P
<1>3. Picked(w, P) = Picked(s, P) \o Picked(u, P)
  BY PickedConcat DEF w
<1>. QED BY <1>2, <1>3 DEF w

\* It is the same to leave rows out before or after taking a side.
LEMMA PartWithout ==
  ASSUME NEW T, NEW s \in Seq(T), NEW F, NEW d, NEW f, NEW v, NEW left
  PROVE  Part(d, Without(s, F), f, v, left) = Without(Part(d, s, f, v, left), F)
<1>. DEFINE P == {r \in T : (Val[f][d[r][1]] <= v) = left}
            w == Without(s, F)
            p == Part(d, s, f, v, left)
<1>1. w \in Seq(T) /\ w = Picked(s, T \ F) /\ p \in Seq(T)
  <2>1. w \in Seq(T) /\ w = Picked(s, T \ F)
    BY WithoutIs
  <2>2. p \in Seq(T)
    BY PartIs
  <2>. QED BY <2>1, <2>2
<1>. HIDE DEF w
<1>2. p = Picked(s, P) /\ Part(d, w, f, v, left) = Picked(w, P)
  BY <1>1, PartIs
<1>. HIDE DEF P, p
<1>3. Without(p, F) = Picked(p, T \ F)
  BY <1>1, WithoutIs
<1>4. Picked(w, P) = Picked(s, (T \ F) \cap P) /\ Picked(p, T \ F) = Picked(s, P \cap (T \ F))
  BY <1>1, <1>2, PickedTwice
<1>5. (T \ F) \cap P = P \cap (T \ F)
  OBVIOUS
<1>. QED BY <1>2, <1>3, <1>4, <1>5 DEF w, p

\* A child that has its side of the rows s, or none but forgotten ones when its side is empty, gets
\* with its side of the new rows the side of all.
LEMMA HandedDown ==
  ASSUME NEW T, NEW s \in Seq(T), NEW new \in Seq(T), NEW F, NEW d, NEW f, NEW v, NEW left, NEW kid \in Seq(T),
         kid = Part(d, s, f, v, left) \/ (ToSet(kid) \subseteq F /\ Part(d, s, f, v, left) = <<>>)
  PROVE  Part(d, new, f, v, left) \o Without(kid, F) = Part(d, new \o Without(s, F), f, v, left)
<1>. DEFINE w == Without(s, F)
            p == Part(d, s, f, v, left)
<1>1. w \in Seq(T) /\ Part(d, w, f, v, left) = Without(p, F)
  <2>1. w \in Seq(T)
    BY WithoutIs
  <2>2. Part(d, w, f, v, left) = Without(p, F)
    BY PartWithout
  <2>. QED BY <2>1, <2>2
<1>2. Without(kid, F) = Without(p, F)
  <2>1. CASE ToSet(kid) \subseteq F /\ p = <<>>
    <3>1. Without(kid, F) = <<>>
      <4>1. ToSet(kid) \cap (ToSet(kid) \ F) = {}
        BY <2>1
      <4>. QED BY <4>1, PickedExtremes DEF Without
    <3>3. Without(<<>>, F) = <<>>
      BY PickedNone DEF Without
    <3>. QED BY <2>1, <3>1, <3>3
  <2>. QED BY <2>1
<1>. HIDE DEF w, p
<1>3. Part(d, new \o w, f, v, left) = Part(d, new, f, v, left) \o Part(d, w, f, v, left)
  BY <1>1, PartConcat
<1>. QED BY <1>1, <1>2, <1>3 DEF w

\* Rows that come later change no side.
LEMMA PartSame ==
  ASSUME NEW s, NEW d, NEW e, NEW f, NEW v, NEW left, \A r \in ToSet(s) : e[r] = d[r]
  PROVE  Part(e, s, f, v, left) = Part(d, s, f, v, left)
<1>1. {r \in ToSet(s) : (Val[f][e[r][1]] <= v) = left} = {r \in ToSet(s) : (Val[f][d[r][1]] <= v) = left}
  OBVIOUS
<1>. QED BY <1>1 DEF Part

\* A sequence without its last k rows, none of which it has twice, is its front.
LEMMA DropLast ==
  ASSUME NEW T, NEW s \in Seq(T), Distinct(s), NEW k \in 0 .. Len(s)
  PROVE  Without(s, ToSet(SubSeq(s, Len(s) - k + 1, Len(s)))) = SubSeq(s, 1, Len(s) - k)
<1>. DEFINE m == Len(s) - k
            a == SubSeq(s, 1, m)
            b == SubSeq(s, m + 1, Len(s))
            R == T \ ToSet(b)
<1>1. /\ Len(s) \in Nat /\ m \in Nat /\ m <= Len(s) /\ a \in Seq(T) /\ b \in Seq(T) /\ s = a \o b
      /\ Len(a) = m /\ Len(b) = Len(s) - m
      /\ \A i \in 1 .. m : a[i] = s[i]
      /\ \A j \in 1 .. Len(s) - m : b[j] = s[m + j]
  <2>1. Len(s) \in Nat /\ m \in Nat /\ m <= Len(s)
    OBVIOUS
  <2>. HIDE DEF m
  <2>2. a \in Seq(T) /\ Len(a) = m /\ \A i \in 1 .. m : a[i] = s[i]
    BY <2>1
  <2>3. b \in Seq(T) /\ Len(b) = Len(s) - m /\ \A j \in 1 .. Len(s) - m : b[j] = s[m + j]
    BY <2>1
  <2>4. s = a \o b
    <3>. DEFINE w == a \o b
    <3>. HIDE DEF a, b
    <3>1. w \in Seq(T) /\ Len(w) = Len(s) /\ \A x \in 1 .. Len(s) : w[x] = IF x <= m THEN a[x] ELSE b[x - m]
      <4>1. /\ w \in Seq(T) /\ Len(w) = Len(a) + Len(b)
            /\ \A x \in 1 .. Len(a) + Len(b) : w[x] = IF x <= Len(a) THEN a[x] ELSE b[x - Len(a)]
        BY <2>2, <2>3, ConcatProperties
      <4>2. Len(a) + Len(b) = Len(s)
        BY <2>1, <2>2, <2>3
      <4>. QED BY <2>2, <4>1, <4>2
    <3>. HIDE DEF w
    <3>2. ASSUME NEW x \in 1 .. Len(s) PROVE w[x] = s[x]
      <4>1. CASE x <= m
        BY <2>1, <2>2, <3>1, <4>1
      <4>2. CASE ~(x <= m)
        <5>1. x - m \in 1 .. Len(s) - m /\ m + (x - m) = x
          BY <2>1, <4>2
        <5>2. b[x - m] = s[x]
          BY <2>3, <5>1
        <5>. QED BY <3>1, <4>2, <5>2
      <4>. QED BY <4>1, <4>2
    <3>3. w = s
      BY <3>1, <3>2, SeqEqual
    <3>. QED BY <3>3 DEF w
  <2>. QED BY <2>1, <2>2, <2>3, <2>4
<1>. HIDE DEF m, a, b
<1>2. ToSet(a) \cap ToSet(b) = {}
  <2>. SUFFICES ASSUME NEW i \in DOMAIN a, NEW j \in DOMAIN b, a[i] = b[j] PROVE FALSE
    BY DEF ToSet
  <2>1. i \in DOMAIN s /\ m + j \in DOMAIN s /\ s[i] = s[m + j] /\ i # m + j
    BY <1>1
  <2>. QED BY <2>1 DEF Distinct
<1>3. ToSet(a) \subseteq R /\ ToSet(b) \cap R = {}
  <2>1. ToSet(a) \subseteq T
    BY <1>1, RowsAre
  <2>. QED BY <1>2, <2>1
<1>4. Without(s, ToSet(b)) = Picked(s, R)
  BY WithoutIs
<1>. HIDE DEF R
<1>5. Picked(a, R) = a /\ Picked(b, R) = <<>>
  BY <1>1, <1>3, PickedExtremes
<1>6. Picked(a \o b, R) = Picked(a, R) \o Picked(b, R)
  BY <1>1, PickedConcat
<1>7. a \o <<>> = a
  BY <1>1
<1>8. Picked(s, R) = a
  BY <1>1, <1>5, <1>6, <1>7
<1>. QED BY <1>4, <1>8 DEF a, b, m

\* As many rows as a sequence is long, if it has none twice.
LEMMA DistinctSize ==
  ASSUME NEW T, NEW s \in Seq(T), Distinct(s)
  PROVE  IsFiniteSet(ToSet(s)) /\ Cardinality(ToSet(s)) = Len(s)
<1>. DEFINE B == {u \in Seq(T) : Distinct(u) => IsFiniteSet(ToSet(u)) /\ Cardinality(ToSet(u)) = Len(u)}
<1>1. <<>> \in B
  <2>1. ToSet(<<>>) = {} /\ <<>> \in Seq(T) /\ Len(<<>>) = 0
    BY DEF ToSet
  <2>2. IsFiniteSet({}) /\ Cardinality({}) = 0
    BY FS_EmptySet
  <2>. QED BY <2>1, <2>2
<1>2. ASSUME NEW u \in Seq(T), NEW x \in T, u \in B PROVE Append(u, x) \in B
  <2>. SUFFICES ASSUME Distinct(Append(u, x))
                PROVE  IsFiniteSet(ToSet(Append(u, x))) /\ Cardinality(ToSet(Append(u, x))) = Len(Append(u, x))
    OBVIOUS
  <2>0. /\ DOMAIN Append(u, x) = 1 .. Len(u) + 1 /\ DOMAIN u = 1 .. Len(u) /\ Len(u) \in Nat /\ Len(Append(u, x)) = Len(u) + 1
        /\ Append(u, x)[Len(u) + 1] = x /\ \A k \in 1 .. Len(u) : Append(u, x)[k] = u[k]
    OBVIOUS
  <2>1. Distinct(u)
    BY <2>0 DEF Distinct
  <2>2. x \notin ToSet(u)
    BY <2>0 DEF Distinct, ToSet
  <2>3. IsFiniteSet(ToSet(u)) /\ Cardinality(ToSet(u)) = Len(u)
    BY <1>2, <2>1
  <2>4. ToSet(Append(u, x)) = ToSet(u) \cup {x}
    BY RowsOfAppend
  <2>5. IsFiniteSet(ToSet(u) \cup {x}) /\ Cardinality(ToSet(u) \cup {x}) = Cardinality(ToSet(u)) + 1
    BY <2>2, <2>3, FS_AddElement
  <2>. QED BY <2>0, <2>3, <2>4, <2>5
<1>3. Seq(T) \subseteq B
  <2>. HIDE DEF B
  <2>. QED BY <1>1, <1>2, EverySeq
<1>. QED BY <1>3

\* Two sequences of different rows that share none make a sequence of different rows.
LEMMA DistinctConcat ==
  ASSUME NEW T, NEW s \in Seq(T), NEW u \in Seq(T), Distinct(s), Distinct(u), ToSet(s) \cap ToSet(u) = {}
  PROVE  Distinct(s \o u)
<1>. DEFINE w == s \o u
<1>1. /\ w \in Seq(T) /\ Len(w) = Len(s) + Len(u)
      /\ \A k \in 1 .. Len(s) + Len(u) : w[k] = IF k <= Len(s) THEN s[k] ELSE u[k - Len(s)]
  BY ConcatProperties
<1>. HIDE DEF w
<1>2. /\ DOMAIN w = 1 .. Len(s) + Len(u) /\ DOMAIN s = 1 .. Len(s) /\ DOMAIN u = 1 .. Len(u)
      /\ Len(s) \in Nat /\ Len(u) \in Nat
  BY <1>1
<1>3. ASSUME NEW k \in DOMAIN w
      PROVE  \/ k \in DOMAIN s /\ w[k] = s[k] /\ w[k] \in ToSet(s)
             \/ k - Len(s) \in DOMAIN u /\ w[k] = u[k - Len(s)] /\ w[k] \in ToSet(u)
  <2>1. CASE k <= Len(s)
    <3>1. k \in DOMAIN s /\ w[k] = s[k]
      BY <1>1, <1>2, <2>1
    <3>. QED BY <3>1 DEF ToSet
  <2>2. CASE ~(k <= Len(s))
    <3>1. k - Len(s) \in DOMAIN u /\ w[k] = u[k - Len(s)]
      BY <1>1, <1>2, <2>2
    <3>. QED BY <3>1 DEF ToSet
  <2>. QED BY <2>1, <2>2
<1>4. ASSUME NEW i \in DOMAIN w, NEW j \in DOMAIN w, w[i] = w[j] PROVE i = j
  <2>0. i \in Nat /\ j \in Nat
    BY <1>2
  <2>1. CASE i \in DOMAIN s /\ w[i] = s[i] /\ j \in DOMAIN s /\ w[j] = s[j]
    BY <1>4, <2>1 DEF Distinct
  <2>2. CASE /\ i - Len(s) \in DOMAIN u /\ w[i] = u[i - Len(s)]
             /\ j - Len(s) \in DOMAIN u /\ w[j] = u[j - Len(s)]
    <3>1. i - Len(s) = j - Len(s)
      BY <1>4, <2>2 DEF Distinct
    <3>. QED BY <1>2, <2>0, <3>1
  <2>3. ~(w[i] \in ToSet(s) /\ w[i] \in ToSet(u))
    OBVIOUS
  <2>. QED BY <1>3, <1>4, <2>1, <2>2, <2>3
<1>. QED BY <1>4 DEF Distinct, w

-----------------------------------------------------------------------------
(* Batches one after the other.                                              *)

\* The recursive function in FlattenSeq is what its definition says.
LEMMA FlattenIs ==
  ASSUME NEW T, NEW g \in Seq(Seq(T)), g # <<>>
  PROVE  \E p : /\ p = [i \in 1 .. Len(g) |-> IF i = 1 THEN g[i] ELSE p[i - 1] \o g[i]]
                /\ FlattenSeq(g) = p[Len(g)]
<1>. DEFINE Is(m, p) == p = [i \in 1 .. m |-> IF i = 1 THEN g[i] ELSE p[i - 1] \o g[i]]
            Bad == {m \in 0 .. Len(g) : ~\E p : Is(m, p)}
<1>1. Len(g) \in Nat /\ Len(g) # 0
  OBVIOUS
<1>2. ASSUME Bad # {} PROVE FALSE
  <2>. HIDE DEF Is
  <2>1. Bad \in SUBSET Nat
    BY <1>1
  <2>2. PICK m \in Bad : \A x \in Bad : m <= x
    BY <1>2, <2>1, LeastOf
  <2>3. m \in 0 .. Len(g) /\ m \in Nat /\ ~\E p : Is(m, p)
    BY <1>1
  <2>4. m # 0
    <3>1. Is(0, [k \in 1 .. 0 |-> <<>>])
      BY DEF Is
    <3>. QED BY <2>3, <3>1
  <2>5. m - 1 \in 0 .. Len(g) /\ m - 1 \notin Bad
    <3>1. m - 1 \in 0 .. Len(g) /\ ~(m <= m - 1)
      BY <1>1, <2>3, <2>4
    <3>. QED BY <2>2, <3>1
  <2>6. PICK f : Is(m - 1, f)
    BY <2>5
  <2>. DEFINE h == [k \in 1 .. m |-> IF k = m THEN IF m = 1 THEN g[m] ELSE f[m - 1] \o g[m] ELSE f[k]]
  <2>7. Is(m, h)
    <3>1. ASSUME NEW k \in 1 .. m
          PROVE  h[k] = IF k = 1 THEN g[k] ELSE h[k - 1] \o g[k]
      <4>1. CASE k = m
        <5>1. h[k] = (IF m = 1 THEN g[m] ELSE f[m - 1] \o g[m])
          BY <4>1
        <5>2. k # 1 => h[k - 1] = f[m - 1]
          BY <2>3, <4>1
        <5>. QED BY <4>1, <5>1, <5>2
      <4>2. CASE k # m
        <5>1. k \in 1 .. m - 1 /\ h[k] = f[k]
          BY <2>3, <4>2
        <5>2. f[k] = IF k = 1 THEN g[k] ELSE f[k - 1] \o g[k]
          BY <2>6, <5>1, Zenon DEF Is
        <5>3. k # 1 => k - 1 \in 1 .. m /\ k - 1 # m
          BY <2>3, <5>1
        <5>4. k # 1 => h[k - 1] = f[k - 1]
          BY <5>3
        <5>. QED BY <5>1, <5>2, <5>4
      <4>. QED BY <4>1, <4>2
    <3>. QED BY <3>1 DEF Is
  <2>. QED BY <2>3, <2>7
<1>3. \E p : Is(Len(g), p)
  <2>. HIDE DEF Is
  <2>1. Len(g) \in 0 .. Len(g) /\ Bad = {}
    BY <1>1, <1>2
  <2>. QED BY <2>1
<1>. DEFINE q == CHOOSE p : Is(Len(g), p)
<1>4. Is(Len(g), q)
  BY <1>3, Zenon
<1>5. FlattenSeq(g) = q[Len(g)]
  BY <1>1, Zenon DEF FlattenSeq
<1>. QED BY <1>4, <1>5

\* A batch before others.
LEMMA FlattenCons ==
  ASSUME NEW T, NEW g \in Seq(Seq(T)), g # <<>>
  PROVE  FlattenSeq(g) = Head(g) \o FlattenSeq(Tail(g)) /\ FlattenSeq(g) \in Seq(T) /\ FlattenSeq(Tail(g)) \in Seq(T)
<1>. DEFINE r == Tail(g)
<1>1. /\ Len(g) \in Nat /\ Len(g) >= 1 /\ r \in Seq(Seq(T)) /\ Len(r) = Len(g) - 1 /\ Head(g) = g[1]
      /\ \A k \in 1 .. Len(g) : g[k] \in Seq(T)
      /\ \A k \in 1 .. Len(g) - 1 : r[k] = g[k + 1] /\ r[k] \in Seq(T)
  OBVIOUS
<1>. HIDE DEF r
<1>2. PICK p : p = [i \in 1 .. Len(g) |-> IF i = 1 THEN g[i] ELSE p[i - 1] \o g[i]] /\ FlattenSeq(g) = p[Len(g)]
  BY FlattenIs
<1>p. p[1] = g[1] /\ \A i \in 1 .. Len(g) : i # 1 => p[i] = p[i - 1] \o g[i]
  <2>1. \A i \in 1 .. Len(g) : p[i] = IF i = 1 THEN g[i] ELSE p[i - 1] \o g[i]
    BY <1>2, Zenon
  <2>2. 1 \in 1 .. Len(g)
    BY <1>1
  <2>. QED BY <2>1, <2>2, Zenon
<1>3. CASE r = <<>>
  <2>1. Len(g) = 1 /\ FlattenSeq(r) = <<>>
    BY <1>1, <1>3 DEF FlattenSeq
  <2>2. g[1] \o <<>> = g[1] /\ g[1] \in Seq(T)
    BY <1>1
  <2>3. FlattenSeq(g) = g[1] \o FlattenSeq(r) /\ FlattenSeq(g) \in Seq(T) /\ FlattenSeq(r) \in Seq(T)
    BY <1>2, <1>p, <2>1, <2>2
  <2>. QED BY <1>1, <2>3 DEF r
<1>4. CASE r # <<>>
  <2>1. PICK q : q = [i \in 1 .. Len(r) |-> IF i = 1 THEN r[i] ELSE q[i - 1] \o r[i]] /\ FlattenSeq(r) = q[Len(r)]
    BY <1>1, <1>4, FlattenIs
  <2>q. q[1] = r[1] /\ \A i \in 1 .. Len(r) : i # 1 => q[i] = q[i - 1] \o r[i]
    <3>1. \A i \in 1 .. Len(r) : q[i] = IF i = 1 THEN r[i] ELSE q[i - 1] \o r[i]
      BY <2>1, Zenon
    <3>2. 1 \in 1 .. Len(r)
      BY <1>1, <1>4
    <3>. QED BY <3>1, <3>2, Zenon
  <2>. DEFINE Right(i) == q[i] \in Seq(T) /\ p[i + 1] = g[1] \o q[i]
              Bad == {i \in 1 .. Len(r) : ~Right(i)}
  <2>. HIDE DEF Right
  <2>2. ASSUME Bad # {} PROVE FALSE
    <3>1. Bad \in SUBSET Nat
      BY <1>1
    <3>2. PICK i \in Bad : \A x \in Bad : i <= x
      BY <2>2, <3>1, LeastOf
    <3>. USE DEF Right
    <3>3. /\ i \in Nat /\ i \in 1 .. Len(r) /\ i + 1 \in 1 .. Len(g) /\ i + 1 # 1 /\ r[i] = g[i + 1] /\ r[i] \in Seq(T)
          /\ g[1] \in Seq(T) /\ i + 1 - 1 = i
      BY <1>1
    <3>4. p[i + 1] = p[i] \o r[i]
      <4>. DEFINE j == i + 1
      <4>1. j \in 1 .. Len(g) /\ j # 1 /\ j - 1 = i /\ r[i] = g[j]
        BY <3>3
      <4>. HIDE DEF j
      <4>2. p[j] = p[j - 1] \o g[j]
        BY <1>p, <4>1, Zenon
      <4>3. p[j] = p[i] \o r[i]
        BY <4>1, <4>2, Zenon
      <4>. QED BY <4>3 DEF j
    <3>5. CASE i = 1
      BY <1>p, <2>q, <3>3, <3>4, <3>5
    <3>6. CASE i # 1
      <4>1. i - 1 \in 1 .. Len(r) /\ ~(i <= i - 1) /\ i - 1 + 1 = i
        BY <1>1, <3>3, <3>6
      <4>2. Right(i - 1)
        BY <3>2, <4>1
      <4>3. q[i - 1] \in Seq(T) /\ p[i] = g[1] \o q[i - 1] /\ q[i] = q[i - 1] \o r[i]
        BY <2>q, <3>3, <3>6, <4>1, <4>2
      <4>. DEFINE a == g[1]  b == q[i - 1]  c == r[i]
      <4>4. a \in Seq(T) /\ b \in Seq(T) /\ c \in Seq(T)
        BY <3>3, <4>3
      <4>5. (a \o b) \o c = a \o (b \o c) /\ b \o c \in Seq(T)
        <5>. HIDE DEF a, b, c
        <5>1. (a \o b) \o c = a \o (b \o c)
          BY <4>4, ConcatAssociative, SMTT(30)
        <5>2. b \o c \in Seq(T)
          BY <4>4, ConcatProperties
        <5>. QED BY <5>1, <5>2
      <4>. QED BY <3>3, <3>4, <4>3, <4>5
    <3>. QED BY <3>5, <3>6
  <2>3. Len(r) \in 1 .. Len(r) /\ Len(r) + 1 = Len(g)
    BY <1>1, <1>4
  <2>4. Right(Len(r))
    BY <2>2, <2>3
  <2>5. q[Len(r)] \in Seq(T) /\ p[Len(r) + 1] = g[1] \o q[Len(r)]
    BY <2>4 DEF Right
  <2>6. g[1] \in Seq(T)
    BY <1>1
  <2>7. g[1] \o q[Len(r)] \in Seq(T)
    BY <2>5, <2>6
  <2>8. FlattenSeq(g) = g[1] \o FlattenSeq(r) /\ FlattenSeq(g) \in Seq(T) /\ FlattenSeq(r) \in Seq(T)
    <3>1. FlattenSeq(g) = p[Len(r) + 1]
      BY <1>2, <2>3, Zenon
    <3>. QED BY <2>1, <2>5, <2>7, <3>1, Zenon
  <2>. QED BY <1>1, <2>8 DEF r
<1>. QED BY <1>3, <1>4

\* What is dropped from a sequence depends on the rows it has.
LEMMA WithoutSame ==
  ASSUME NEW T, NEW s \in Seq(T), NEW S, NEW R, ToSet(s) \cap S = ToSet(s) \cap R
  PROVE  Without(s, S) = Without(s, R)
<1>1. ToSet(s) \cap (ToSet(s) \ S) = ToSet(s) \cap (ToSet(s) \ R)
  OBVIOUS
<1>. QED BY <1>1, PickedSame DEF Without

-----------------------------------------------------------------------------
(* A call below the root.                                                    *)

\* A branch shrinks when fewer nodes are let through.
LEMMA BranchLess ==
  ASSUME NEW t, NEW u, NEW F, NEW F2, NEW X, NEW X2,
         \A m \in Nodes : (m \in X => m \in X2) /\ (Keeps(t, F, m) => Keeps(u, F2, m)) /\ (t[m].terminate => u[m].terminate)
  PROVE  Branch(u, F2, X2) \subseteq Branch(t, F, X)
<1>. DEFINE B == Branch(t, F, X)
<1>0. 1 \in Nodes /\ (\A m \in Nodes : m # 1 => m \div 2 \in Nodes) /\ Branch(u, F2, X2) \subseteq Nodes
  BY NodesAre, BranchIs
<1>a. \A m \in Nodes : m \in Branch(u, F2, X2) <=>
        m \notin X2 /\ (m = 1 \/ (m \div 2 \in Branch(u, F2, X2) /\ ~u[m \div 2].terminate /\ ~Keeps(u, F2, m)))
  BY BranchIs
<1>b. \A m \in Nodes : m \in B <=>
        m \notin X /\ (m = 1 \/ (m \div 2 \in B /\ ~t[m \div 2].terminate /\ ~Keeps(t, F, m)))
  BY BranchIs
<1>. HIDE DEF B
<1>1. 1 \in Branch(u, F2, X2) => 1 \in B
  BY <1>0, <1>a, <1>b
<1>2. ASSUME NEW m \in Branch(u, F2, X2), m # 1, m \div 2 \in Branch(u, F2, X2), m \div 2 \in B
      PROVE  m \in B
  <2>1. m \in Nodes /\ m \div 2 \in Nodes
    BY <1>0, <1>2
  <2>2. m \notin X2 /\ ~u[m \div 2].terminate /\ ~Keeps(u, F2, m)
    BY <1>a, <1>2, <2>1
  <2>. QED BY <1>b, <1>2, <2>1, <2>2
<1>. QED BY <1>1, <1>2, Descend DEF B

\* The calls to be made include those that rebuild.
LEMMA UpdatingPending ==
  ASSUME NEW Q PROVE Updating(Q) \subseteq Pending(Q)
BY DEF Updating, Pending

\* The parent of the node that is called next has been gone through, and the call brings the node
\* its side of the rows of the parent.
LEMMA HeadIs ==
  ASSUME NEW I, NEW d, NEW t, NEW F, NEW Q, NEW h, NEW n, CallNext(I, d, t, F, Q, h, n)
  PROVE  HeadRight(d, t, F, Q, h, n)
<1>. DEFINE p == n \div 2
<1>. DEFINE Reach == Branch(t, F, Pending(Q))  Live == Branch(t, F, Updating(Q))
<1>0. /\ Q \in Seq(Calls(I)) /\ h \in 1 .. Log2[MaxRetain] /\ \A m \in Nodes : t[m].rows \in Seq(I)
      /\ Going(d, t, F, Q, h) /\ Q # <<>> /\ Head(Q).op # "Free" /\ n = Head(Q).n /\ n # 1
  BY DEF CallNext
<1>1. Head(Q) \in ToSet(Q) /\ n \in Nodes /\ n \in Pending(Q) /\ 1 \notin Pending(Q)
  <2>1. /\ Head(Q) \in Calls(I) /\ ToSet(Q) = {Head(Q)} \cup ToSet(Tail(Q))
        /\ Pending(Q) = {Head(Q).n} \cup Pending(Tail(Q)) /\ 1 \notin Pending(Tail(Q))
    <3>1. StackOK(Q)
      BY <1>0 DEF Going
    <3>. QED BY <1>0, <3>1, Popped
  <2>. QED BY <1>0, <2>1 DEF Calls
<1>2. p \in Nodes /\ p < n /\ Height(n) = Height(p) + 1 /\ p \in Nat /\ n \in Nat /\ Height(p) \in Nat
  BY <1>0, <1>1, NodesAre
<1>3. p \in Reach /\ ~t[p].terminate
  BY <1>0, <1>1 DEF Going, Waiting
<1>4. Reach \subseteq Live
  <2>1. \A m \in Nodes : (m \in Updating(Q) => m \in Pending(Q))
    BY UpdatingPending
  <2>. QED BY <2>1, BranchLess
<1>5. ToSet(t[p].rows) \cap F = {} /\ Height(p) < h
  BY <1>0, <1>3 DEF Going, Visited
<1>6. n \notin Reach
  BY <1>1, BranchIs
<1>7. ASSUME NEW left \in BOOLEAN, n = Child(p, left)
      PROVE  /\ ToSet(Side(d, t, p, left)) \cap F = {}
             /\ Head(Q).op = "Update" => Head(Q).rows = Side(d, t, p, left)
             /\ Head(Q).op = "Incremental" => Head(Q).rows \o Without(t[n].rows, F) = Side(d, t, p, left)
  <2>1. ChildRight(t, F, Q, n, Side(d, t, p, left))
    BY <1>0, <1>3, <1>4, <1>7 DEF Going, Matched
  <2>2. ToSet(Side(d, t, p, left)) \subseteq ToSet(t[p].rows)
    BY <1>0, <1>2, PartIs DEF Side
  <2>3. ToSet(Side(d, t, p, left)) \cap F = {}
    BY <1>5, <2>2
  <2>4. /\ Head(Q).op = "Update" => Head(Q).rows = Side(d, t, p, left)
        /\ Head(Q).op = "Incremental" => Head(Q).rows \o Without(t[n].rows, F) = Side(d, t, p, left)
    BY <1>0, <1>1, <2>1 DEF ChildRight
  <2>. QED BY <2>3, <2>4
<1>8. p # n
  BY <1>2
<1>. QED BY <1>0, <1>1, <1>2, <1>3, <1>4, <1>5, <1>6, <1>7, <1>8 DEF HeadRight

\* The calls after a node has been handled: those there were, and those for its children.
LEMMA NewCalls ==
  ASSUME NEW I, NEW d, NEW t, NEW F, NEW Q, NEW h, NEW n, CallNext(I, d, t, F, Q, h, n),
         NEW u, NEW Q2, Grown(d, t, F, Q, h, u, Q2, n, I)
  PROVE  CallsRight(I, d, t, F, Q, h, u, Q2, n)
<1>. DEFINE R == Tail(Q)
<1>0. /\ Q \in Seq(Calls(I)) /\ h \in 1 .. Log2[MaxRetain] /\ \A m \in Nodes : t[m].rows \in Seq(I)
      /\ Going(d, t, F, Q, h) /\ Q # <<>> /\ Head(Q).op # "Free" /\ n = Head(Q).n /\ n # 1
  BY DEF CallNext
<1>h. HeadRight(d, t, F, Q, h, n)
  BY HeadIs
<1>1. /\ n \in Nodes /\ Height(n) \in Nat /\ Height(n) <= h /\ n \notin Branch(t, F, Pending(Q)) /\ n \in Nat /\ n >= 1
  <2>1. /\ n \in Nodes /\ n \notin Branch(t, F, Pending(Q)) /\ Height(n \div 2) \in Nat /\ Height(n \div 2) < h
        /\ Height(n) = Height(n \div 2) + 1
    BY <1>h, Zenon DEF HeadRight
  <2>2. n \in Nat /\ n >= 1 /\ Height(n) \in Nat
    BY <2>1, NodesAre
  <2>3. Height(n) <= h
    <3>. DEFINE a == Height(n \div 2)  b == Height(n)
    <3>1. a \in Nat /\ a < h /\ b = a + 1
      BY <2>1
    <3>. HIDE DEF a, b
    <3>2. b <= h
      BY <1>0, <3>1
    <3>. QED BY <3>2 DEF b
  <2>. QED BY <2>1, <2>2, <2>3
<1>2. /\ R \in Seq(Calls(I)) /\ StackOK(R) /\ ToSet(Q) = {Head(Q)} \cup ToSet(R)
      /\ \A c \in ToSet(R) : c.op # "Free" => c.n # n /\ c.n # 1
  <2>1. StackOK(Q)
    BY <1>0 DEF Going
  <2>. QED BY <1>0, <2>1, Popped
<1>3. ASSUME NEW c \in ToSet(R), c.op # "Free" PROVE c.n \div 2 # n
  <2>1. c.n \div 2 \in Branch(t, F, Pending(Q))
    BY <1>0, <1>2, <1>3 DEF Going, Waiting
  <2>. QED BY <1>1, <2>1
<1>4. \A c \in ToSet(R) : c.op # "Free" => c.n # n /\ c.n # 1 /\ c.n \div 2 # n
  BY <1>2, <1>3
<1>5. CASE u[n].terminate /\ Q2 = R
  <2>1. n \notin Pending(Q2) /\ 1 \notin Pending(Q2)
    BY <1>2, <1>5 DEF Pending
  <2>2. ToSet(R) \subseteq ToSet(Q2) /\ ToSet(R) \subseteq ToSet(Q)
    BY <1>2, <1>5
  <2>. QED BY <1>2, <1>4, <1>5, <2>1, <2>2 DEF CallsRight
<1>6. CASE ~(u[n].terminate /\ Q2 = R)
  <2>1. /\ ~u[n].terminate /\ Height(n) # h
        /\ \E op \in {"Update", "Incremental"}, a, b \in Seq(I) :
             /\ Q2 = WithCalls(op, n, a, b, R)
             /\ op = "Update" => a = Side(d, u, n, TRUE) /\ b = Side(d, u, n, FALSE)
             /\ op = "Incremental" =>
                  /\ n \in Branch(t, F, Updating(Q)) /\ ~t[n].terminate
                  /\ a \o Without(t[Child(n, TRUE)].rows, F) = Side(d, u, n, TRUE)
                  /\ b \o Without(t[Child(n, FALSE)].rows, F) = Side(d, u, n, FALSE)
    BY <1>6, Zenon DEF Grown
  <2>2. PICK op \in {"Update", "Incremental"}, a \in Seq(I), b \in Seq(I) :
             /\ Q2 = WithCalls(op, n, a, b, R)
             /\ op = "Update" => a = Side(d, u, n, TRUE) /\ b = Side(d, u, n, FALSE)
             /\ op = "Incremental" =>
                  /\ n \in Branch(t, F, Updating(Q)) /\ ~t[n].terminate
                  /\ a \o Without(t[Child(n, TRUE)].rows, F) = Side(d, u, n, TRUE)
                  /\ b \o Without(t[Child(n, FALSE)].rows, F) = Side(d, u, n, FALSE)
    BY <2>1, Zenon
  <2>. DEFINE l == Child(n, TRUE)  r == Child(n, FALSE)  x == Call(op, l, a)  y == Call(op, r, b)
  <2>3. Height(n) < h /\ Height(n) < Log2[MaxRetain]
    <3>. DEFINE level == Height(n)  top == Log2[MaxRetain]
    <3>1. level \in Nat /\ level <= h /\ level # h /\ h \in 1 .. top /\ top \in Nat
      BY <1>0, <1>1, <2>1, NodesAre
    <3>. HIDE DEF level, top
    <3>2. level < h /\ level < top
      BY <3>1
    <3>. QED BY <3>2 DEF level, top
  <2>4. l \in Nodes /\ r \in Nodes /\ l # 1 /\ r # 1 /\ l # r /\ l \div 2 = n /\ r \div 2 = n /\ l # n /\ r # n
    <3>1. l \in Nodes /\ r \in Nodes /\ l # 1 /\ r # 1 /\ l # r /\ l \div 2 = n /\ r \div 2 = n
      BY <1>1, <2>3, NodesAre
    <3>2. \A m \in Nodes : m # 1 => m \div 2 < m
      BY NodesAre
    <3>. HIDE DEF l, r
    <3>3. l \div 2 < l /\ r \div 2 < r
      BY <3>1, <3>2
    <3>4. l # n /\ r # n
      BY <1>1, <3>1, <3>3
    <3>. QED BY <3>1, <3>4
  <2>. HIDE DEF l, r
  <2>5. x \in Calls(I) /\ y \in Calls(I) /\ x.op = op /\ y.op = op /\ x.n = l /\ y.n = r /\ x.rows = a /\ y.rows = b /\ op # "Free"
    BY <2>2, <2>4 DEF Call, Calls
  <2>. HIDE DEF x, y
  <2>6. Q2 = <<x, y>> \o R
    BY <2>2 DEF x, y, l, r, WithCalls
  <2>7. \A c \in ToSet(R) : c.op # "Free" => c.n # 1 /\ c.n # x.n /\ c.n # y.n
    BY <1>4, <2>4, <2>5
  <2>8. Q2 \in Seq(Calls(I)) /\ StackOK(Q2) /\ ToSet(Q2) = {x, y} \cup ToSet(R)
    <3>. HIDE DEF R
    <3>1. x.op # "Free" /\ y.op # "Free" /\ x.n # y.n /\ x.n # 1 /\ y.n # 1
      BY <2>4, <2>5
    <3>3. R \in Seq(Calls(I)) /\ StackOK(R) /\ x \in Calls(I) /\ y \in Calls(I)
      BY <1>2, <2>5
    <3>2. <<x, y>> \o R \in Seq(Calls(I)) /\ StackOK(<<x, y>> \o R) /\ ToSet(<<x, y>> \o R) = {x, y} \cup ToSet(R)
      BY <2>7, <3>1, <3>3, Pushed
    <3>. QED BY <2>6, <3>2, Zenon
  <2>9. n \notin Pending(Q2) /\ 1 \notin Pending(Q2)
    BY <1>4, <2>4, <2>5, <2>8 DEF Pending
  <2>10. l \in Pending(Q2) /\ r \in Pending(Q2)
    BY <2>5, <2>8 DEF Pending
  <2>11. \A left \in BOOLEAN : Child(n, left) = IF left THEN l ELSE r
    BY DEF l, r
  <2>12. op = "Update" => l \in Updating(Q2) /\ r \in Updating(Q2)
    BY <2>5, <2>8 DEF Updating
  <2>13. (\A left \in BOOLEAN : Child(n, left) \in Updating(Q2)) \/ (n \in Branch(t, F, Updating(Q)) /\ ~t[n].terminate)
    BY <2>2, <2>11, <2>12
  <2>14. ASSUME NEW left \in BOOLEAN, NEW c \in ToSet(Q2), c.n = Child(n, left)
         PROVE  /\ c.op = "Update" => c.rows = Side(d, u, n, left)
                /\ c.op = "Incremental" => c.rows \o Without(t[c.n].rows, F) = Side(d, u, n, left)
    <3>1. CASE c.op = "Free"
      BY <3>1
    <3>2. CASE c.op # "Free"
      <4>1. c \notin ToSet(R)
        BY <2>5, <2>7, <2>11, <2>14, <3>2
      <4>2. (left /\ c = x) \/ (~left /\ c = y)
        BY <2>4, <2>5, <2>8, <2>11, <2>14, <4>1
      <4>3. CASE left /\ c = x
        BY <2>2, <2>5, <4>3 DEF l
      <4>4. CASE ~left /\ c = y
        BY <2>2, <2>5, <4>4 DEF r
      <4>. QED BY <4>2, <4>3, <4>4
    <3>. QED BY <3>1, <3>2
  <2>15. \A c \in ToSet(Q2) : c \in ToSet(R) \/ (c.n \div 2 = n /\ c.op # "Free" /\ ~u[n].terminate)
    BY <2>1, <2>4, <2>5, <2>8
  <2>16. \A left \in BOOLEAN : Child(n, left) \in Nodes /\ Child(n, left) \in Pending(Q2)
    BY <2>4, <2>10, <2>11
  <2>17. ToSet(R) \subseteq ToSet(Q2) /\ ToSet(R) \subseteq ToSet(Q)
    BY <1>2, <2>8
  <2>. QED BY <1>4, <2>3, <2>8, <2>9, <2>13, <2>14, <2>15, <2>16, <2>17 DEF CallsRight
<1>. QED BY <1>5, <1>6

\* When a node has its side of its parent and calls for its children, every node is as it should be
\* between two calls.
LEMMA Handled ==
  ASSUME NEW I, NEW d, NEW t, NEW F, NEW Q, NEW h, NEW n, CallNext(I, d, t, F, Q, h, n),
         NEW u, NEW Q2, Grown(d, t, F, Q, h, u, Q2, n, I),
         \A left \in BOOLEAN : n = Child(n \div 2, left) => u[n].rows = Side(d, t, n \div 2, left)
  PROVE  /\ Q2 \in Seq(Calls(I)) /\ Going(d, u, F, Q2, h) /\ 1 \notin Pending(Q2) /\ 1 \notin Pending(Q)
         /\ \A c \in ToSet(Q2) : c.op = "Free" => c \in ToSet(Q)
<1>. DEFINE R == Tail(Q)  p == n \div 2
            Reach == Branch(t, F, Pending(Q))  Live == Branch(t, F, Updating(Q))
            Reach2 == Branch(u, F, Pending(Q2))  Live2 == Branch(u, F, Updating(Q2))
<1>0. /\ Q \in Seq(Calls(I)) /\ h \in 1 .. Log2[MaxRetain] /\ \A m \in Nodes : t[m].rows \in Seq(I)
      /\ Going(d, t, F, Q, h) /\ Q # <<>> /\ Head(Q).op # "Free" /\ n = Head(Q).n /\ n # 1
  BY DEF CallNext
<1>h. HeadRight(d, t, F, Q, h, n)
  BY HeadIs
<1>c. CallsRight(I, d, t, F, Q, h, u, Q2, n)
  BY NewCalls
<1>1. /\ n \in Nodes /\ n # 1 /\ p \in Nodes /\ p # n /\ p \in Reach /\ p \in Live /\ ~t[p].terminate /\ n \notin Reach /\ 1 \notin Pending(Q)
      /\ \A left \in BOOLEAN : n = Child(p, left) => ToSet(Side(d, t, p, left)) \cap F = {}
  BY <1>0, <1>h DEF HeadRight
<1>2. /\ Q2 \in Seq(Calls(I)) /\ StackOK(Q2) /\ n \notin Pending(Q2) /\ 1 \notin Pending(Q2)
      /\ ToSet(R) \subseteq ToSet(Q2) /\ ToSet(R) \subseteq ToSet(Q)
      /\ \A c \in ToSet(R) : c.op # "Free" => c.n # n /\ c.n # 1 /\ c.n \div 2 # n
      /\ \A c \in ToSet(Q2) : c \in ToSet(R) \/ (c.n \div 2 = n /\ c.op # "Free" /\ ~u[n].terminate)
  BY <1>c DEF CallsRight
<1>3. ~u[n].terminate =>
                 /\ Height(n) < h
                 /\ \A left \in BOOLEAN : Child(n, left) \in Nodes /\ Child(n, left) \in Pending(Q2)
                 /\ \A left \in BOOLEAN : \A c \in ToSet(Q2) : c.n = Child(n, left) =>
                      /\ c.op = "Update" => c.rows = Side(d, u, n, left)
                      /\ c.op = "Incremental" => c.rows \o Without(t[c.n].rows, F) = Side(d, u, n, left)
                 /\ (\A left \in BOOLEAN : Child(n, left) \in Updating(Q2)) \/ (n \in Live /\ ~t[n].terminate)
  BY <1>c DEF CallsRight
<1>4. /\ \A m \in Nodes : m # n => u[m] = t[m]
      /\ u[n].created /\ u[n].rows \in Seq(I)
      /\ \A left \in BOOLEAN : n = Child(p, left) => u[n].rows = Side(d, t, p, left)
  BY Zenon DEF Grown
<1>5. ToSet(Q) = {Head(Q)} \cup ToSet(R)
  <2>1. StackOK(Q)
    BY <1>0 DEF Going
  <2>. QED BY <1>0, <2>1, Popped
<1>6. /\ \A m \in Nodes : m \in Nat /\ (m # 1 => \E left \in BOOLEAN : m = Child(m \div 2, left))
      /\ \A m \in Nat : \A left \in BOOLEAN : Child(m, left) \div 2 = m
      /\ Live \subseteq Nodes /\ Reach \subseteq Nodes /\ Live2 \subseteq Nodes /\ Reach2 \subseteq Nodes
  BY NodesAre, BranchIs
<1>7. \A c \in ToSet(Q2) : c.op = "Free" => c \in ToSet(Q)
  BY <1>2
<1>. HIDE DEF R, p, Reach, Live, Reach2, Live2
<1>8. ToSet(u[n].rows) \cap F = {} /\ ~Keeps(u, F, n)
  <2>1. ToSet(u[n].rows) \cap F = {}
    BY <1>1, <1>4, <1>6 DEF p
  <2>2. u[n].rows # <<>> => ToSet(u[n].rows) # {}
    BY <1>4, RowsAre
  <2>. QED BY <2>1, <2>2 DEF Keeps
<1>9. Reach2 \subseteq Reach \cup {n}
  <2>1. \A m \in Nodes : m # n => u[m] = t[m] /\ (m \in Pending(Q) => m \in Pending(Q2))
    BY <1>0, <1>2, <1>4, <1>5 DEF Pending
  <2>2. \A m \in Nodes : m # 1 /\ m \div 2 = n => u[n].terminate \/ m \in Pending(Q2)
    BY <1>3, <1>6
  <2>. QED BY <1>1, <2>1, <2>2, BranchWithin DEF Reach, Reach2
<1>10. Live2 \subseteq Live \cup {n}
  <2>1. \A m \in Nodes : m # n => u[m] = t[m] /\ (m \in Updating(Q) => m \in Updating(Q2))
    BY <1>0, <1>2, <1>4, <1>5 DEF Updating
  <2>2. \A m \in Nodes : m # 1 /\ m \div 2 = n => u[n].terminate \/ m \in Updating(Q2) \/ (n \in Live /\ ~t[n].terminate)
    BY <1>3, <1>6
  <2>. QED BY <1>1, <2>1, <2>2, BranchWithin DEF Live, Live2
<1>11. Reach \subseteq Reach2
  <2>1. \A m \in Nodes : m \in Pending(Q2) => m \in Pending(Q) \/ m \div 2 = n
    BY <1>2 DEF Pending
  <2>. QED BY <1>1, <1>2, <1>4, <2>1, BranchKept DEF Reach, Reach2
<1>12. n \in Reach2
  <2>1. p \in Reach2 /\ ~u[p].terminate
    BY <1>1, <1>4, <1>11
  <2>. QED BY <1>1, <1>2, <1>8, <2>1, BranchIs DEF Reach2, p
<1>13. Waiting(u, F, Q2)
  <2>. SUFFICES ASSUME NEW c \in ToSet(Q2), c.op # "Free", c.n # 1
                PROVE  c.n \div 2 \in Reach2 /\ ~u[c.n \div 2].terminate
    BY DEF Waiting, Reach2
  <2>1. CASE c \in ToSet(R)
    <3>1. c.n \div 2 \in Reach /\ ~t[c.n \div 2].terminate /\ c.n \div 2 # n
      BY <1>0, <1>2, <2>1 DEF Going, Waiting, Reach
    <3>. QED BY <1>4, <1>6, <1>11, <3>1
  <2>2. CASE c \notin ToSet(R)
    BY <1>2, <1>12, <2>2
  <2>. QED BY <2>1, <2>2
<1>14. Visited(u, F, Q2, h)
  <2>. SUFFICES ASSUME NEW m \in Reach2
                PROVE  ToSet(u[m].rows) \cap F = {} /\ (u[m].terminate \/ Height(m) < h)
    BY DEF Visited, Reach2
  <2>1. CASE m = n
    BY <1>3, <1>8, <2>1
  <2>2. CASE m # n
    <3>1. m \in Reach /\ u[m] = t[m]
      BY <1>4, <1>6, <1>9, <2>2
    <3>. QED BY <1>0, <3>1 DEF Going, Visited, Reach
  <2>. QED BY <2>1, <2>2
<1>15. Matched(d, u, F, Q2)
  <2>. SUFFICES ASSUME NEW m \in Live2, ~u[m].terminate, NEW left \in BOOLEAN
                PROVE  Child(m, left) \in Nodes /\ ChildRight(u, F, Q2, Child(m, left), Side(d, u, m, left))
    BY DEF Matched, Live2
  <2>. DEFINE k == Child(m, left)
  <2>0. m \in Nodes /\ k \div 2 = m
    BY <1>6
  <2>. HIDE DEF k
  <2>1. CASE m = n
    <3>1. k \in Nodes /\ k \in Pending(Q2) /\ k # n
      <4>1. k \in Nodes /\ k \in Pending(Q2)
        BY <1>3, <2>1 DEF k
      <4>. QED BY <1>2, <4>1
    <3>2. \A c \in ToSet(Q2) : c.n = k =>
         /\ c.op = "Update" => c.rows = Side(d, u, m, left)
         /\ c.op = "Incremental" => c.rows \o Without(u[k].rows, F) = Side(d, u, m, left)
      <4>1. u[k] = t[k]
        BY <1>4, <3>1
      <4>2. \A c \in ToSet(Q2) : c.n = k =>
         /\ c.op = "Update" => c.rows = Side(d, u, n, left)
         /\ c.op = "Incremental" => c.rows \o Without(t[c.n].rows, F) = Side(d, u, n, left)
        BY <1>3, <2>1, Zenon DEF k
      <4>. QED BY <2>1, <4>1, <4>2
    <3>. QED BY <3>1, <3>2 DEF ChildRight, k
  <2>2. CASE m # n
    <3>1. m \in Live /\ u[m] = t[m]
      BY <1>4, <1>10, <2>0, <2>2
    <3>2. k \in Nodes /\ ChildRight(t, F, Q, k, Side(d, t, m, left)) /\ Side(d, u, m, left) = Side(d, t, m, left)
      BY <1>0, <3>1 DEF Going, Matched, Live, Side, k
    <3>3. \A c \in ToSet(Q2) : c.n = k /\ c.op # "Free" => c \in ToSet(R)
      BY <1>2, <2>0, <2>2
    <3>4. CASE k = n
      <4>1. \A c \in ToSet(Q2) : c.op # "Free" => c.n # n
        BY <1>2, <3>3, <3>4
      <4>2. u[n].rows = Side(d, t, m, left)
        BY <1>4, <2>0, <3>4 DEF k, p
      <4>3. ChildRight(u, F, Q2, n, Side(d, u, m, left))
        BY <1>4, <3>2, <4>1, <4>2 DEF ChildRight
      <4>. QED BY <3>2, <3>4, <4>3 DEF k
    <3>5. CASE k # n
      <4>1. u[k] = t[k] /\ \A c \in ToSet(Q2) : c.n = k /\ c.op # "Free" => c \in ToSet(Q)
        BY <1>2, <1>4, <3>2, <3>3, <3>5
      <4>2. k \in Pending(Q) => k \in Pending(Q2)
        BY <1>0, <1>2, <1>5, <3>5 DEF Pending
      <4>3. Keeps(t, F, k) => Keeps(u, F, k)
        BY <4>1 DEF Keeps
      <4>4. \A c \in ToSet(Q2) : c.n = k /\ c.op = "Update" => c.rows = Side(d, t, m, left)
        BY <3>2, <4>1 DEF ChildRight
      <4>5. \A c \in ToSet(Q2) : c.n = k /\ c.op = "Incremental" => c.rows \o Without(u[k].rows, F) = Side(d, t, m, left)
        BY <3>2, <4>1 DEF ChildRight
      <4>6. k \notin Pending(Q2) => u[k].created /\ (u[k].rows = Side(d, t, m, left) \/ (Keeps(u, F, k) /\ Side(d, t, m, left) = <<>>))
        BY <3>2, <4>1, <4>2, <4>3 DEF ChildRight
      <4>. QED BY <3>2, <4>4, <4>5, <4>6 DEF ChildRight, k
    <3>. QED BY <3>4, <3>5
  <2>. QED BY <2>1, <2>2
<1>16. Going(d, u, F, Q2, h)
  BY <1>2, <1>13, <1>14, <1>15 DEF Going
<1>. QED BY <1>1, <1>2, <1>7, <1>16

\* A node that gets nothing new and keeps its rows, all forgotten, is as it should be.
LEMMA Skipped ==
  ASSUME NEW I, NEW d, NEW t, NEW F, NEW Q, NEW h, NEW n, CallNext(I, d, t, F, Q, h, n),
         Head(Q).op = "Incremental", Head(Q).rows = <<>>,
         Keeps(t, F, n), t[n].created
  PROVE  /\ Tail(Q) \in Seq(Calls(I)) /\ Going(d, t, F, Tail(Q), h) /\ 1 \notin Pending(Tail(Q)) /\ 1 \notin Pending(Q)
         /\ ToSet(Tail(Q)) \subseteq ToSet(Q)
<1>. DEFINE R == Tail(Q)  p == n \div 2
            Reach == Branch(t, F, Pending(Q))  Live == Branch(t, F, Updating(Q))
            Reach2 == Branch(t, F, Pending(R))  Live2 == Branch(t, F, Updating(R))
<1>0. /\ Q \in Seq(Calls(I)) /\ h \in 1 .. Log2[MaxRetain] /\ \A m \in Nodes : t[m].rows \in Seq(I)
      /\ Going(d, t, F, Q, h) /\ Q # <<>> /\ Head(Q).op # "Free" /\ n = Head(Q).n /\ n # 1
  BY DEF CallNext
<1>h. HeadRight(d, t, F, Q, h, n)
  BY HeadIs
<1>1. /\ n \in Nodes /\ n # 1 /\ p \in Nodes /\ n \notin Reach /\ 1 \notin Pending(Q)
      /\ \A left \in BOOLEAN : n = Child(p, left) => Head(Q).rows \o Without(t[n].rows, F) = Side(d, t, p, left)
  BY <1>0, <1>h DEF HeadRight
<1>2. /\ R \in Seq(Calls(I)) /\ StackOK(R) /\ ToSet(Q) = {Head(Q)} \cup ToSet(R)
      /\ \A c \in ToSet(R) : c.op # "Free" => c.n # n /\ c.n # 1
      /\ Pending(Q) = {n} \cup Pending(R) /\ n \notin Pending(R) /\ 1 \notin Pending(R)
  <2>1. StackOK(Q) /\ Head(Q).op # "Free"
    BY <1>0 DEF Going
  <2>. QED BY <1>0, <2>1, Popped
<1>3. /\ \A m \in Nodes : m \in Nat
      /\ \A m \in Nat : \A left \in BOOLEAN : Child(m, left) \div 2 = m
      /\ Live \subseteq Nodes /\ Reach \subseteq Nodes
  BY NodesAre, BranchIs
<1>4. \A left \in BOOLEAN : n = Child(p, left) => Side(d, t, p, left) = <<>>
  <2>1. t[n].rows \in Seq(I) /\ ToSet(t[n].rows) \subseteq F
    BY <1>0, <1>1 DEF Keeps
  <2>2. Without(t[n].rows, F) = <<>>
    BY <2>1, WithoutIs
  <2>. QED BY <1>1, <2>2
<1>5. Live2 = Live
  <2>1. Updating(Q) = Updating(R)
    BY <1>2 DEF Updating
  <2>. QED BY <2>1
<1>6. Reach2 \subseteq Reach
  <2>a. \A m \in Nodes : m \in Reach2 <=>
          m \notin Pending(R) /\ (m = 1 \/ (m \div 2 \in Reach2 /\ ~t[m \div 2].terminate /\ ~Keeps(t, F, m)))
    BY BranchIs
  <2>b. \A m \in Nodes : m \in Reach <=>
          m \notin Pending(Q) /\ (m = 1 \/ (m \div 2 \in Reach /\ ~t[m \div 2].terminate /\ ~Keeps(t, F, m)))
    BY BranchIs
  <2>c. Reach2 \subseteq Nodes /\ 1 \in Nodes
    BY BranchIs, NodesAre
  <2>. HIDE DEF Reach
  <2>1. 1 \in Reach2 => 1 \in Reach
    BY <1>1, <2>b, <2>c
  <2>2. ASSUME NEW m \in Reach2, m # 1, m \div 2 \in Reach2, m \div 2 \in Reach PROVE m \in Reach
    BY <1>2, <2>2, <2>a, <2>b, <2>c
  <2>. QED BY <2>1, <2>2, Descend
<1>7. Reach \subseteq Reach2
  <2>1. \A m \in Nodes : m \in Pending(R) => m \in Pending(Q)
    BY <1>2
  <2>. QED BY <2>1, BranchLess
<1>. HIDE DEF Reach, Reach2, Live, Live2, R, p
<1>8. Waiting(t, F, R)
  BY <1>0, <1>2, <1>7 DEF Going, Waiting, Reach, Reach2
<1>9. Visited(t, F, R, h)
  BY <1>0, <1>6 DEF Going, Visited, Reach, Reach2
<1>10. Matched(d, t, F, R)
  <2>. SUFFICES ASSUME NEW m \in Live, ~t[m].terminate, NEW left \in BOOLEAN
                PROVE  Child(m, left) \in Nodes /\ ChildRight(t, F, R, Child(m, left), Side(d, t, m, left))
    BY <1>5 DEF Matched, Live2
  <2>. DEFINE k == Child(m, left)
  <2>1. k \in Nodes /\ ChildRight(t, F, Q, k, Side(d, t, m, left))
    BY <1>0 DEF Going, Matched, Live
  <2>2. k = n => Side(d, t, m, left) = <<>>
    BY <1>3, <1>4 DEF p
  <2>. HIDE DEF k
  <2>3. CASE k = n
    BY <1>2, <2>1, <2>2, <2>3 DEF ChildRight, k
  <2>4. CASE k # n
    BY <1>2, <2>1, <2>4 DEF ChildRight, k
  <2>. QED BY <2>3, <2>4
<1>. QED BY <1>1, <1>2, <1>8, <1>9, <1>10 DEF Going, R

-----------------------------------------------------------------------------
(* The call for the root.                                                    *)

\* A call for the root is the only one.
LEMMA RootAlone ==
  ASSUME NEW I, NEW Q \in Seq(Calls(I)), StackOK(Q), Q # <<>>, Head(Q).op # "Free", Head(Q).n = 1
  PROVE  Len(Q) = 1 /\ Tail(Q) = <<>> /\ ToSet(Q) = {Head(Q)} /\ Pending(Q) = {1}
<1>1. 1 \in DOMAIN Q /\ Q[1] = Head(Q)
  OBVIOUS
<1>2. Len(Q) = 1
  BY <1>1 DEF StackOK
<1>3. Tail(Q) = <<>>
  <2>1. Tail(Q) \in Seq(Calls(I)) /\ Len(Tail(Q)) = 0
    BY <1>2
  <2>. QED BY <2>1, EmptySeq
<1>4. ToSet(Q) = {Head(Q)}
  <2>1. DOMAIN Q = {1}
    BY <1>2
  <2>. QED BY <1>1, <2>1 DEF ToSet
<1>5. Pending(Q) = {1}
  BY <1>4 DEF Pending
<1>. QED BY <1>2, <1>3, <1>4, <1>5

\* When the root has calls for its children, every node is as it should be between two calls.
LEMMA RootHandled ==
  ASSUME NEW I, NEW d, NEW t, NEW F, NEW Q \in Seq(Calls(I)), NEW h \in 1 .. Log2[MaxRetain],
         Going(d, t, F, Q, h), Q # <<>>, Head(Q).op # "Free", Head(Q).n = 1,
         NEW u, NEW F2, NEW Q2, NEW rest, RootGrown(d, t, F, Q, u, F2, Q2, rest, I)
  PROVE  /\ Q2 \in Seq(Calls(I)) /\ Going(d, u, F2, Q2, h) /\ 1 \notin Pending(Q2)
         /\ \A c \in ToSet(Q2) : c.op = "Free" => c \in ToSet(rest)
<1>. DEFINE Live == Branch(t, F, Updating(Q))
            Reach2 == Branch(u, F2, Pending(Q2))  Live2 == Branch(u, F2, Updating(Q2))
            l == Child(1, TRUE)  r == Child(1, FALSE)
<1>0. /\ \A m \in Nodes : m # 1 => u[m] = t[m]
      /\ u[1].rows \in Seq(I) /\ F \subseteq F2 /\ ToSet(u[1].rows) \cap F2 = {}
      /\ rest \in Seq(Calls(I)) /\ Len(rest) <= 1 /\ \A c \in ToSet(rest) : c.op = "Free"
  BY DEF RootGrown
<1>1. ToSet(Q) = {Head(Q)} /\ Pending(Q) = {1}
  <2>1. StackOK(Q)
    BY DEF Going
  <2>. QED BY <2>1, RootAlone
<1>2. /\ 1 \in Nodes /\ Height(1) = 0 /\ Log2[MaxRetain] \in Nat /\ Log2[MaxRetain] >= 1
      /\ l \in Nodes /\ r \in Nodes /\ l # 1 /\ r # 1 /\ l # r /\ l \div 2 = 1 /\ r \div 2 = 1
      /\ \A left \in BOOLEAN : Child(1, left) = IF left THEN l ELSE r
  <2>1. 1 \in Nodes /\ Height(1) = 0 /\ Log2[MaxRetain] \in Nat /\ Log2[MaxRetain] >= 1
    BY NodesAre
  <2>2. Height(1) < Log2[MaxRetain]
    BY <2>1
  <2>3. \A left \in BOOLEAN : Child(1, left) \in Nodes
    BY <2>1, <2>2, NodesAre
  <2>4. l = 2 /\ r = 3
    BY DEF Child
  <2>5. \A left \in BOOLEAN : Child(1, left) = IF left THEN l ELSE r
    OBVIOUS
  <2>6. l \in Nodes /\ r \in Nodes
    BY <2>3
  <2>7. 2 \div 2 = 1 /\ 3 \div 2 = 1
    OBVIOUS
  <2>. HIDE DEF l, r
  <2>. QED BY <2>1, <2>4, <2>5, <2>6, <2>7
<1>. HIDE DEF l, r
<1>3. /\ \A m \in Nodes : m \in Nat /\ (m # 1 => m \div 2 \in Nodes /\ \E left \in BOOLEAN : m = Child(m \div 2, left))
      /\ \A m \in Nat : \A left \in BOOLEAN : Child(m, left) \div 2 = m
      /\ Live \subseteq Nodes /\ Live2 \subseteq Nodes /\ Reach2 \subseteq Nodes
  BY NodesAre, BranchIs
<1>4. StackOK(rest) /\ \A c \in ToSet(rest) : c.op = "Free"
  <2>1. \A i \in DOMAIN rest : rest[i].op = "Free" /\ i = Len(rest)
    <3>1. \A i \in DOMAIN rest : rest[i] \in ToSet(rest)
      BY DEF ToSet
    <3>2. \A i \in DOMAIN rest : i = Len(rest)
      BY <1>0
    <3>. QED BY <1>0, <3>1, <3>2
  <2>. QED BY <1>0, <2>1 DEF StackOK
<1>5. ~Keeps(u, F2, 1)
  BY DEF Keeps
<1>6. CASE u[1].terminate /\ Q2 = rest
  <2>1. Pending(Q2) = {} /\ Updating(Q2) = {}
    BY <1>4, <1>6 DEF Pending, Updating
  <2>2. \A X : Branch(u, F2, X) \subseteq {1}
    <3>. SUFFICES ASSUME NEW X, NEW m \in Branch(u, F2, X), m # 1, m \div 2 \in {1} PROVE m \in {1}
      <4>. HIDE DEF Live, Live2, Reach2
      <4>1. \A X, m : m \in Branch(u, F2, X) /\ m # 1 /\ m \div 2 \in {1} => m \in {1}
        OBVIOUS
      <4>. QED BY <4>1, Descend
    <3>1. m \in Nodes
      BY BranchIs
    <3>. QED BY <1>6, <3>1, BranchIs
  <2>3. Matched(d, u, F2, Q2)
    BY <1>6, <2>2 DEF Matched
  <2>4. Visited(u, F2, Q2, h)
    BY <1>0, <1>6, <2>2 DEF Visited
  <2>5. Waiting(u, F2, Q2) /\ StackOK(Q2)
    BY <1>4, <1>6 DEF Waiting
  <2>. QED BY <1>0, <1>6, <2>1, <2>3, <2>4, <2>5 DEF Going
<1>7. CASE ~(u[1].terminate /\ Q2 = rest)
  <2>1. ~u[1].terminate
    BY <1>7 DEF RootGrown
  <2>2. PICK op \in {"Update", "Incremental"}, a \in Seq(I), b \in Seq(I) :
             /\ Q2 = WithCalls(op, 1, a, b, rest)
             /\ op = "Update" => a = Side(d, u, 1, TRUE) /\ b = Side(d, u, 1, FALSE)
             /\ op = "Incremental" =>
                  /\ Head(Q).op = "Incremental" /\ ~t[1].terminate
                  /\ a \o Without(t[l].rows, F2) = Side(d, u, 1, TRUE)
                  /\ b \o Without(t[r].rows, F2) = Side(d, u, 1, FALSE)
    BY <1>7, Zenon DEF RootGrown, l, r
  <2>. DEFINE x == Call(op, l, a)  y == Call(op, r, b)
  <2>3. x \in Calls(I) /\ y \in Calls(I) /\ x.op = op /\ y.op = op /\ x.n = l /\ y.n = r /\ x.rows = a /\ y.rows = b /\ op # "Free"
    BY <1>2, <2>2 DEF Call, Calls
  <2>. HIDE DEF x, y
  <2>4. Q2 = <<x, y>> \o rest
    BY <2>2 DEF x, y, l, r, WithCalls
  <2>5. Q2 \in Seq(Calls(I)) /\ StackOK(Q2) /\ ToSet(Q2) = {x, y} \cup ToSet(rest)
    <3>1. x.op # "Free" /\ y.op # "Free" /\ x.n # y.n /\ x.n # 1 /\ y.n # 1
      BY <1>2, <2>3
    <3>2. \A c \in ToSet(rest) : c.op # "Free" => c.n # 1 /\ c.n # x.n /\ c.n # y.n
      BY <1>4
    <3>3. <<x, y>> \o rest \in Seq(Calls(I)) /\ StackOK(<<x, y>> \o rest) /\ ToSet(<<x, y>> \o rest) = {x, y} \cup ToSet(rest)
      <4>1. rest \in Seq(Calls(I)) /\ StackOK(rest) /\ x \in Calls(I) /\ y \in Calls(I)
        BY <1>0, <1>4, <2>3
      <4>. QED BY <3>1, <3>2, <4>1, Pushed, SMTT(60)
    <3>. QED BY <2>4, <3>3, Zenon
  <2>6. /\ Pending(Q2) = {l, r} /\ Updating(Q2) = IF op = "Update" THEN {l, r} ELSE {}
        /\ \A c \in ToSet(Q2) : c.op = "Free" => c \in ToSet(rest)
        /\ \A c \in ToSet(Q2) : c.op # "Free" => c = x \/ c = y
    BY <1>4, <2>3, <2>5 DEF Pending, Updating
  <2>7. 1 \in Reach2 /\ Reach2 \subseteq {1}
    <3>1. 1 \in Reach2
      BY <1>2, <2>6, BranchIs
    <3>2. ASSUME NEW m \in Reach2, m # 1, m \div 2 \in {1} PROVE m \in {1}
      <4>1. m \in Nodes /\ m \notin Pending(Q2)
        BY <1>3, BranchIs
      <4>2. m = l \/ m = r
        BY <1>2, <1>3, <3>2, <4>1
      <4>. QED BY <2>6, <4>1, <4>2
    <3>3. Reach2 \subseteq {1}
      BY <3>1, <3>2, Descend
    <3>. QED BY <3>1, <3>3
  <2>8. \A m \in Live2 : m = 1 \/ (op = "Incremental" /\ m \in Live)
    <3>1. CASE op = "Update"
      <4>2. ASSUME NEW m \in Live2, m # 1, m \div 2 \in {1} PROVE m \in {1}
        <5>1. m \in Nodes /\ m \notin Updating(Q2)
          BY <1>3, BranchIs
        <5>2. m = l \/ m = r
          BY <1>2, <1>3, <4>2, <5>1
        <5>. QED BY <2>6, <3>1, <5>1, <5>2
      <4>3. Live2 \subseteq {1}
        BY <4>2, Descend
      <4>. QED BY <4>3
    <3>2. CASE op = "Incremental"
      <4>1. Updating(Q) = {}
        BY <1>1, <2>2, <3>2 DEF Updating
      <4>2. \A m \in Nodes : Keeps(t, F, m) => Keeps(u, F2, m)
        BY <1>0 DEF Keeps
      <4>3. \A m \in Nodes : t[m].terminate => u[m].terminate
        BY <1>0, <2>2, <3>2
      <4>4. Live2 \subseteq Live
        BY <4>1, <4>2, <4>3, BranchLess
      <4>. QED BY <3>2, <4>4
    <3>. QED BY <2>2, <3>1, <3>2
  <2>9. Waiting(u, F2, Q2)
    <3>1. \A c \in ToSet(Q2) : c.op # "Free" => c.n \div 2 = 1
      BY <1>2, <2>3, <2>6
    <3>. QED BY <2>1, <2>7, <3>1 DEF Waiting
  <2>10. Visited(u, F2, Q2, h)
    <3>1. 0 < h
      BY <1>2
    <3>. QED BY <1>0, <1>2, <2>7, <3>1 DEF Visited
  <2>11. Matched(d, u, F2, Q2)
    <3>. SUFFICES ASSUME NEW m \in Live2, ~u[m].terminate, NEW left \in BOOLEAN
                  PROVE  Child(m, left) \in Nodes /\ ChildRight(u, F2, Q2, Child(m, left), Side(d, u, m, left))
      BY DEF Matched
    <3>. DEFINE k == Child(m, left)
    <3>. HIDE DEF k
    <3>1. CASE m = 1
      <4>1. k = (IF left THEN l ELSE r) /\ k \in Nodes /\ k \in Pending(Q2) /\ k # 1
        BY <1>2, <2>6, <3>1 DEF k
      <4>2. u[k] = t[k]
        BY <1>0, <4>1
      <4>3. \A c \in ToSet(Q2) : c.n = k /\ c.op # "Free" => c = IF left THEN x ELSE y
        BY <1>2, <2>3, <2>6, <4>1
      <4>4. \A c \in ToSet(Q2) : c.n = k /\ c.op = "Update" => c.rows = Side(d, u, m, left)
        BY <2>2, <2>3, <3>1, <4>3
      <4>5. \A c \in ToSet(Q2) : c.n = k /\ c.op = "Incremental" => c.rows \o Without(u[k].rows, F2) = Side(d, u, m, left)
        <5>1. CASE left
          BY <2>2, <2>3, <3>1, <4>1, <4>2, <4>3, <5>1
        <5>2. CASE ~left
          BY <2>2, <2>3, <3>1, <4>1, <4>2, <4>3, <5>2
        <5>. QED BY <5>1, <5>2
      <4>. QED BY <4>1, <4>4, <4>5 DEF ChildRight, k
    <3>2. CASE m # 1
      <4>1. op = "Incremental" /\ m \in Live /\ m \in Nodes /\ u[m] = t[m]
        BY <1>0, <1>3, <2>8, <3>2
      <4>2. k \in Nodes /\ ChildRight(t, F, Q, k, Side(d, t, m, left)) /\ Side(d, u, m, left) = Side(d, t, m, left)
        BY <4>1 DEF Going, Matched, Side, k
      <4>3. k \div 2 = m /\ k # 1 /\ k # l /\ k # r
        <5>1. k \div 2 = m
          BY <1>3, <4>1 DEF k
        <5>2. 1 \div 2 = 0 /\ m # 0
          <6>1. \A j \in Nodes : j >= 1
            BY NodesAre
          <6>. QED BY <4>1, <6>1
        <5>. QED BY <1>2, <3>2, <5>1, <5>2
      <4>4. k \notin Pending(Q) /\ k \notin Pending(Q2) /\ u[k] = t[k]
        BY <1>0, <1>1, <2>6, <4>2, <4>3
      <4>5. \A c \in ToSet(Q2) : c.n = k => c.op = "Free"
        BY <2>3, <2>6, <4>3
      <4>6. Keeps(t, F, k) => Keeps(u, F2, k)
        BY <1>0, <4>4 DEF Keeps
      <4>7. u[k].created /\ (u[k].rows = Side(d, u, m, left) \/ (Keeps(u, F2, k) /\ Side(d, u, m, left) = <<>>))
        BY <4>2, <4>4, <4>6 DEF ChildRight
      <4>. QED BY <4>2, <4>5, <4>7 DEF ChildRight, k
    <3>. QED BY <3>1, <3>2
  <2>12. 1 \notin Pending(Q2)
    BY <1>2, <2>6
  <2>. QED BY <2>5, <2>6, <2>9, <2>10, <2>11, <2>12 DEF Going
<1>. QED BY <1>6, <1>7

-----------------------------------------------------------------------------
(* What the parts of a step make of a node.                                  *)

\* There is a first of the most frequent classes.
LEMMA MajorityIs ==
  ASSUME NEW s, NEW I, s \in Seq(I)
  PROVE  Majority(s) \in Classes
<1>0. classes \in Nat /\ classes > 0 /\ Classes \in SUBSET Nat /\ 0 \in Classes
  BY TreeAssumption DEF Classes
<1>1. ASSUME NEW c PROVE Count(s, c) \in Nat /\ Count(s, c) <= Len(s)
  <2>. DEFINE S == {i \in DOMAIN s : C(s[i]) = c}
  <2>1. IsFiniteSet(1 .. Len(s)) /\ Cardinality(1 .. Len(s)) = Len(s) /\ DOMAIN s = 1 .. Len(s)
    <3>1. Len(s) \in Nat /\ DOMAIN s = 1 .. Len(s)
      OBVIOUS
    <3>2. IsFiniteSet(1 .. Len(s)) /\ Cardinality(1 .. Len(s)) = IF 1 > Len(s) THEN 0 ELSE Len(s) - 1 + 1
      BY <3>1, FS_Interval
    <3>. QED BY <3>1, <3>2
  <2>2. S \in SUBSET (1 .. Len(s))
    BY <2>1
  <2>. HIDE DEF S
  <2>3. IsFiniteSet(S) /\ Cardinality(S) <= Len(s)
    <3>1. IsFiniteSet(S) /\ Cardinality(S) <= Cardinality(1 .. Len(s))
      BY <2>1, <2>2, FS_Subset, Zenon
    <3>. QED BY <2>1, <3>1
  <2>4. Cardinality(S) \in Nat
    BY <2>3, FS_CardinalityType
  <2>. QED BY <2>3, <2>4 DEF Count, S
<1>. DEFINE A == {Len(s) - Count(s, c) : c \in Classes}
<1>2. A \in SUBSET Nat /\ A # {}
  BY <1>0, <1>1
<1>3. PICK x \in A : \A y \in A : x <= y
  BY <1>2, LeastOf
<1>4. PICK m \in Classes : x = Len(s) - Count(s, m)
  OBVIOUS
<1>5. ASSUME NEW c \in Classes PROVE Count(s, c) <= Count(s, m)
  <2>1. Len(s) - Count(s, m) <= Len(s) - Count(s, c)
    BY <1>3, <1>4
  <2>2. Count(s, m) \in Nat /\ Count(s, c) \in Nat /\ Len(s) \in Nat
    BY <1>1
  <2>. QED BY <2>1, <2>2
<1>. DEFINE B == {c \in Classes : Count(s, c) = Count(s, m)}
<1>6. B \in SUBSET Nat /\ B # {}
  BY <1>0
<1>7. PICK b \in B : \A y \in B : b <= y
  BY <1>6, LeastOf
<1>8. ASSUME NEW c \in Classes PROVE Count(s, b) > Count(s, c) \/ (Count(s, b) = Count(s, c) /\ b <= c)
  <2>1. Count(s, b) = Count(s, m) /\ Count(s, c) <= Count(s, m) /\ Count(s, c) \in Nat /\ Count(s, m) \in Nat
    BY <1>1, <1>5
  <2>2. Count(s, c) = Count(s, m) => b <= c
    BY <1>7
  <2>. QED BY <2>1, <2>2
<1>9. \E c \in Classes : \A e \in Classes : Count(s, c) > Count(s, e) \/ (Count(s, c) = Count(s, e) /\ c <= e)
  BY <1>8
<1>. QED BY <1>9, Zenon DEF Majority

\* A side is what Goes says.
LEMMA GoesIs ==
  ASSUME NEW s, NEW f, NEW v, NEW left
  PROVE  Goes(s, f, v, left) = Part(data, s, f, v, left)
BY DEF Goes, Part, V

\* A leaf.
LEMMA LeafIs ==
  ASSUME NEW I, IsTree(DTree, I), NEW n \in Nodes, NEW s \in Seq(I), NEW c \in Classes, Leaf(n, s, c)
  PROVE  Changed(DTree, DTree', n, s, I) /\ DTree'[n].terminate
<1>. DEFINE x == [DTree[n] EXCEPT !.created = TRUE, !.terminate = TRUE, !.result = c, !.rows = s]
<1>1. DTree' = [DTree EXCEPT ![n] = x]
  BY Zenon DEF Leaf
<1>2. NodeOK(DTree[n], I) /\ DTree = [m \in Nodes |-> DTree[m]] /\ \A m \in Nodes : NodeOK(DTree[m], I)
  BY DEF IsTree
<1>3. NodeOK(x, I) /\ x.created /\ x.terminate /\ x.rows = s
  <2>1. DOMAIN DTree[n] = NodeFields
    BY <1>2 DEF NodeOK
  <2>2. DOMAIN x = NodeFields /\ x.created = TRUE /\ x.terminate = TRUE /\ x.rows = s /\ x.result = c
    BY <2>1 DEF NodeFields
  <2>. HIDE DEF x
  <2>. QED BY <2>2 DEF NodeOK
<1>. HIDE DEF x
<1>4. DTree' = [m \in Nodes |-> IF m = n THEN x ELSE DTree[m]]
  BY <1>1, <1>2
<1>5. DTree' = [m \in Nodes |-> DTree'[m]] /\ DTree'[n] = x /\ \A m \in Nodes : m # n => DTree'[m] = DTree[m]
  BY <1>4
<1>. QED BY <1>2, <1>3, <1>5 DEF IsTree, Changed

\* An inner node.
LEMMA SplitIs ==
  ASSUME NEW I, IsTree(DTree, I), NEW n \in Nodes, NEW s \in Seq(I), NEW new, NEW sorted, NEW raw, NEW cut, NEW op, NEW rest,
         Split(n, s, sorted, raw, cut, op, new, rest)
  PROVE  InnerNow(I, data, DTree, DTree', n, s, new, cut, op, rest, stack')
<1>. DEFINE x == [DTree[n] EXCEPT !.created = TRUE, !.terminate = FALSE, !.rows = s,
                 !.feature = cut[1], !.dpoint = cut[2], !.sorted = sorted,
                 !.count = [f \in Dense |-> Running(raw[f], Len(s))]]
<1>1. DTree' = [DTree EXCEPT ![n] = x]
  BY Zenon DEF Split
<1>2. NodeOK(DTree[n], I) /\ DTree = [m \in Nodes |-> DTree[m]] /\ \A m \in Nodes : NodeOK(DTree[m], I)
  BY DEF IsTree
<1>3. NodeOK(x, I) /\ x.created /\ ~x.terminate /\ x.rows = s /\ x.feature = cut[1] /\ x.dpoint = cut[2]
  <2>1. DOMAIN DTree[n] = NodeFields /\ DTree[n].result \in Classes \cup {NoResult}
    BY <1>2 DEF NodeOK
  <2>2. /\ DOMAIN x = NodeFields /\ x.created = TRUE /\ x.terminate = FALSE /\ x.rows = s /\ x.result = DTree[n].result
        /\ x.feature = cut[1] /\ x.dpoint = cut[2]
    BY <2>1 DEF NodeFields
  <2>. HIDE DEF x
  <2>. QED BY <2>1, <2>2 DEF NodeOK
<1>. HIDE DEF x
<1>4. DTree' = [m \in Nodes |-> IF m = n THEN x ELSE DTree[m]]
  BY <1>1, <1>2
<1>5. DTree' = [m \in Nodes |-> DTree'[m]] /\ DTree'[n] = x /\ \A m \in Nodes : m # n => DTree'[m] = DTree[m]
  BY <1>4
<1>6. stack' = WithCalls(op, n, Part(data, new, cut[1], cut[2], TRUE), Part(data, new, cut[1], cut[2], FALSE), rest)
  <2>1. Child(n, TRUE) = 2 * n /\ Child(n, FALSE) = 2 * n + 1
    BY DEF Child
  <2>2. stack' = <<Call(op, 2 * n, Goes(new, cut[1], cut[2], TRUE)),
                   Call(op, 2 * n + 1, Goes(new, cut[1], cut[2], FALSE))>> \o rest
    BY Zenon DEF Split
  <2>3. /\ Goes(new, cut[1], cut[2], TRUE) = Part(data, new, cut[1], cut[2], TRUE)
        /\ Goes(new, cut[1], cut[2], FALSE) = Part(data, new, cut[1], cut[2], FALSE)
    BY GoesIs
  <2>. QED BY <2>1, <2>2, <2>3, Zenon DEF WithCalls
<1>7. ASSUME NEW left PROVE Side(data, DTree', n, left) = Part(data, s, cut[1], cut[2], left)
  <2>1. DTree'[n].rows = s /\ DTree'[n].feature = cut[1] /\ DTree'[n].dpoint = cut[2]
    BY <1>3, <1>5
  <2>. QED BY <2>1, Zenon DEF Side
<1>8. Changed(DTree, DTree', n, s, I) /\ ~DTree'[n].terminate
  BY <1>2, <1>3, <1>5 DEF IsTree, Changed
<1>. QED BY <1>6, <1>7, <1>8, Zenon DEF InnerNow

\* An inner node whose children get their sides of all its rows.
LEMMA InnerRebuilt ==
  ASSUME NEW I, NEW d, NEW t, NEW u, NEW n, NEW s \in Seq(I), NEW cut, NEW h, NEW rest, NEW Q2, Height(n) # h,
         InnerNow(I, d, t, u, n, s, s, cut, "Update", rest, Q2)
  PROVE  RebuiltNow(I, d, t, u, n, s, h, rest, Q2)
<1>1. \A left : Part(d, s, cut[1], cut[2], left) \in Seq(I)
  BY PartIs
<1>2. /\ Side(d, u, n, TRUE) = Part(d, s, cut[1], cut[2], TRUE)
      /\ Side(d, u, n, FALSE) = Part(d, s, cut[1], cut[2], FALSE)
  BY Zenon DEF InnerNow
<1>3. Q2 = WithCalls("Update", n, Part(d, s, cut[1], cut[2], TRUE), Part(d, s, cut[1], cut[2], FALSE), rest)
  BY Zenon DEF InnerNow
<1>4. Q2 = WithCalls("Update", n, Side(d, u, n, TRUE), Side(d, u, n, FALSE), rest)
  BY <1>2, <1>3, Zenon
<1>5. Changed(t, u, n, s, I) /\ ~u[n].terminate
  BY Zenon DEF InnerNow
<1>6. Side(d, u, n, TRUE) \in Seq(I) /\ Side(d, u, n, FALSE) \in Seq(I)
  BY <1>1, <1>2, Zenon
<1>. QED BY <1>4, <1>5, <1>6, Zenon DEF RebuiltNow

\* A node that is rebuilt from the rows s.
LEMMA UpdateIs ==
  ASSUME NEW I, IsTree(DTree, I), NEW n \in Nodes, NEW s \in Seq(I), NEW rest, UpdateNode(n, s, rest)
  PROVE  RebuiltNow(I, data, DTree, DTree', n, s, maxHeight, rest, stack')
<1>1. CASE Leaf(n, s, Majority(s)) /\ stack' = rest
  <2>1. Majority(s) \in Classes
    BY MajorityIs
  <2>2. Changed(DTree, DTree', n, s, I) /\ DTree'[n].terminate
    BY <1>1, <2>1, LeafIs
  <2>. QED BY <1>1, <2>2, Zenon DEF RebuiltNow
<1>2. ASSUME Height(n) # maxHeight, NEW sorted, NEW raw, NEW cut, NEW op, op = "Update",
             Split(n, s, sorted, raw, cut, op, s, rest)
      PROVE  RebuiltNow(I, data, DTree, DTree', n, s, maxHeight, rest, stack')
  <2>1. InnerNow(I, data, DTree, DTree', n, s, s, cut, op, rest, stack')
    BY <1>2, SplitIs
  <2>2. InnerNow(I, data, DTree, DTree', n, s, s, cut, "Update", rest, stack')
    BY <1>2, <2>1, Zenon
  <2>. QED BY <1>2, <2>2, InnerRebuilt
<1>3. \/ Leaf(n, s, Majority(s)) /\ stack' = rest
      \/ Height(n) # maxHeight /\ \E sorted, raw, cut, op : op = "Update" /\ Split(n, s, sorted, raw, cut, op, s, rest)
  BY Zenon DEF UpdateNode
<1>. QED BY <1>1, <1>2, <1>3

\* A call of IncrementalUpdate for node n, after which the node has the rows s and the calls free are
\* to follow.
IncrementalCall(I, n, new, lost, rest, s, free) ==
  /\ IsTree(DTree, I) /\ n \in Nodes /\ new \in Seq(I) /\ IncrementalNode(n, new, lost, rest)
  /\ s \in Seq(I) /\ s = new \o Without(DTree[n].rows, lost)
  /\ free = IF n = 1 THEN <<Call("Free", n, Within(DTree[n].rows, lost))>> ELSE <<>>

\* What it makes of the node: it is rebuilt, or hands its new rows down.
IncrementalMade(I, n, new, lost, rest, s, free) ==
  \/ /\ RebuiltNow(I, data, DTree, DTree', n, s, maxHeight, rest, stack')
     /\ (n = 1 /\ Free(lost)) \/ UNCHANGED <<freed, twice>>
  \/ /\ RebuiltNow(I, data, DTree, DTree', n, s, maxHeight, free \o rest, stack')
     /\ UNCHANGED <<freed, twice>>
  \/ /\ \E cut : /\ InnerNow(I, data, DTree, DTree', n, s, new, cut, "Incremental", free \o rest, stack')
                  /\ cut[1] = DTree[n].feature /\ cut[2] = DTree[n].dpoint
     /\ ~DTree[n].terminate /\ Height(n) # maxHeight /\ UNCHANGED <<freed, twice>>

\* Every IncrementalUpdate of a node rebuilds it or hands its new rows down, and nothing else.
LEMMA IncrementalIs ==
  ASSUME NEW I, NEW n, NEW new, NEW lost, NEW rest, NEW s, NEW free,
         IncrementalCall(I, n, new, lost, rest, s, free)
  PROVE  IncrementalMade(I, n, new, lost, rest, s, free)
<1>0. /\ IsTree(DTree, I) /\ n \in Nodes /\ new \in Seq(I) /\ IncrementalNode(n, new, lost, rest)
      /\ s \in Seq(I) /\ s = new \o Without(DTree[n].rows, lost)
      /\ free = IF n = 1 THEN <<Call("Free", n, Within(DTree[n].rows, lost))>> ELSE <<>>
  BY Zenon DEF IncrementalCall
<1>1. \/ UpdateNode(n, s, rest) /\ ((n = 1 /\ Free(lost)) \/ UNCHANGED <<freed, twice>>)
      \/ Leaf(n, s, Majority(new)) /\ stack' = rest /\ UNCHANGED <<freed, twice>>
      \/ /\ ~Rebuilds(n, s, new) /\ UNCHANGED <<freed, twice>>
         /\ \E sorted, raw, cut :
              IF cut = <<DTree[n].feature, DTree[n].dpoint>>
              THEN Split(n, s, sorted, raw, cut, "Incremental", new, free \o rest)
              ELSE Split(n, s, sorted, raw, cut, "Update", s, free \o rest)
  BY <1>0, Zenon DEF IncrementalNode
<1>2. CASE UpdateNode(n, s, rest) /\ ((n = 1 /\ Free(lost)) \/ UNCHANGED <<freed, twice>>)
  <2>1. RebuiltNow(I, data, DTree, DTree', n, s, maxHeight, rest, stack')
    BY <1>0, <1>2, UpdateIs
  <2>. QED BY <1>2, <2>1, Zenon DEF IncrementalMade
<1>3. CASE Leaf(n, s, Majority(new)) /\ stack' = rest /\ UNCHANGED <<freed, twice>>
  <2>1. Majority(new) \in Classes
    BY <1>0, MajorityIs
  <2>2. Changed(DTree, DTree', n, s, I) /\ DTree'[n].terminate
    BY <1>0, <1>3, <2>1, LeafIs
  <2>3. RebuiltNow(I, data, DTree, DTree', n, s, maxHeight, rest, stack')
    BY <1>3, <2>2, Zenon DEF RebuiltNow
  <2>. QED BY <1>3, <2>3, Zenon DEF IncrementalMade
<1>4. ASSUME ~Rebuilds(n, s, new), UNCHANGED <<freed, twice>>, NEW sorted, NEW raw, NEW cut,
             IF cut = <<DTree[n].feature, DTree[n].dpoint>>
             THEN Split(n, s, sorted, raw, cut, "Incremental", new, free \o rest)
             ELSE Split(n, s, sorted, raw, cut, "Update", s, free \o rest)
      PROVE  IncrementalMade(I, n, new, lost, rest, s, free)
  <2>0. ~DTree[n].terminate /\ Height(n) # maxHeight
    BY <1>4 DEF Rebuilds
  <2>. DEFINE all == free \o rest
  <2>. HIDE DEF all
  <2>1. CASE cut = <<DTree[n].feature, DTree[n].dpoint>>
    <3>1. ASSUME NEW op, op = "Incremental" PROVE InnerNow(I, data, DTree, DTree', n, s, new, cut, op, all, stack')
      <4>1. Split(n, s, sorted, raw, cut, op, new, all)
        BY <1>4, <2>1, <3>1, Zenon DEF all
      <4>. QED BY <1>0, <4>1, SplitIs
    <3>2. cut[1] = DTree[n].feature /\ cut[2] = DTree[n].dpoint
      BY <2>1
    <3>3. InnerNow(I, data, DTree, DTree', n, s, new, cut, "Incremental", free \o rest, stack')
      BY <3>1, Zenon DEF all
    <3>. QED BY <1>4, <2>0, <3>2, <3>3, Zenon DEF IncrementalMade
  <2>2. CASE cut # <<DTree[n].feature, DTree[n].dpoint>>
    <3>1. ASSUME NEW op, op = "Update" PROVE InnerNow(I, data, DTree, DTree', n, s, s, cut, op, all, stack')
      <4>1. Split(n, s, sorted, raw, cut, op, s, all)
        BY <1>4, <2>2, <3>1, Zenon DEF all
      <4>. QED BY <1>0, <4>1, SplitIs
    <3>2. InnerNow(I, data, DTree, DTree', n, s, s, cut, "Update", all, stack')
      BY <3>1, Zenon
    <3>3. RebuiltNow(I, data, DTree, DTree', n, s, maxHeight, all, stack')
      BY <1>0, <2>0, <3>2, InnerRebuilt
    <3>. QED BY <1>4, <3>3, Zenon DEF all, IncrementalMade
  <2>. QED BY <2>1, <2>2
<1>. QED BY <1>1, <1>2, <1>3, <1>4, Zenon

-----------------------------------------------------------------------------
(* The latest rows.                                                          *)

\* The front of two sequences one after the other.
LEMMA FrontOfConcat ==
  ASSUME NEW T, NEW a \in Seq(T), NEW b \in Seq(T), NEW j \in 0 .. Len(b)
  PROVE  SubSeq(a \o b, 1, Len(a) + j) = a \o SubSeq(b, 1, j)
<1>. DEFINE w == a \o b  f == SubSeq(b, 1, j)  x == SubSeq(w, 1, Len(a) + j)  y == a \o f
<1>1. Len(a) \in Nat /\ Len(b) \in Nat /\ j \in Nat /\ j <= Len(b)
  OBVIOUS
<1>2. /\ w \in Seq(T) /\ Len(w) = Len(a) + Len(b)
      /\ \A k \in 1 .. Len(a) + Len(b) : w[k] = IF k <= Len(a) THEN a[k] ELSE b[k - Len(a)]
  BY ConcatProperties
<1>. HIDE DEF w
<1>3. x \in Seq(T) /\ Len(x) = Len(a) + j /\ \A k \in 1 .. Len(a) + j : x[k] = w[k]
  BY <1>1, <1>2
<1>4. f \in Seq(T) /\ Len(f) = j /\ \A k \in 1 .. j : f[k] = b[k]
  BY <1>1
<1>. HIDE DEF f
<1>5. /\ y \in Seq(T) /\ Len(y) = Len(a) + j
      /\ \A k \in 1 .. Len(a) + j : y[k] = IF k <= Len(a) THEN a[k] ELSE f[k - Len(a)]
  BY <1>4, ConcatProperties
<1>. HIDE DEF x, y
<1>6. ASSUME NEW k \in 1 .. Len(x) PROVE x[k] = y[k]
  <2>1. k \in 1 .. Len(a) + j /\ k \in 1 .. Len(a) + Len(b)
    BY <1>1, <1>3
  <2>2. CASE k <= Len(a)
    BY <1>2, <1>3, <1>5, <2>1, <2>2
  <2>3. CASE ~(k <= Len(a))
    <3>1. k - Len(a) \in 1 .. j
      BY <1>1, <2>1, <2>3
    <3>2. x[k] = b[k - Len(a)]
      BY <1>2, <1>3, <2>1, <2>3
    <3>3. y[k] = f[k - Len(a)]
      BY <1>5, <2>1, <2>3
    <3>. QED BY <1>4, <3>1, <3>2, <3>3
  <2>. QED BY <2>2, <2>3
<1>7. x = y
  BY <1>3, <1>5, <1>6, SeqEqual
<1>. QED BY <1>7 DEF x, y, w, f

\* The front of a front.
LEMMA FrontOfFront ==
  ASSUME NEW T, NEW g \in Seq(T), NEW i \in 0 .. Len(g), NEW j \in 0 .. i
  PROVE  SubSeq(SubSeq(g, 1, i), 1, j) = SubSeq(g, 1, j) /\ Len(SubSeq(g, 1, j)) = j
<1>. DEFINE f == SubSeq(g, 1, i)  x == SubSeq(f, 1, j)  y == SubSeq(g, 1, j)
<1>1. Len(g) \in Nat /\ i \in Nat /\ j \in Nat /\ i <= Len(g) /\ j <= i
  OBVIOUS
<1>2. f \in Seq(T) /\ Len(f) = i /\ \A k \in 1 .. i : f[k] = g[k]
  BY <1>1
<1>3. y \in Seq(T) /\ Len(y) = j /\ \A k \in 1 .. j : y[k] = g[k]
  BY <1>1
<1>. HIDE DEF f, y
<1>4. x \in Seq(T) /\ Len(x) = j /\ \A k \in 1 .. j : x[k] = f[k]
  BY <1>1, <1>2
<1>. HIDE DEF x
<1>5. \A k \in 1 .. Len(x) : x[k] = y[k]
  BY <1>1, <1>2, <1>3, <1>4
<1>6. x = y
  BY <1>3, <1>4, <1>5, SeqEqual
<1>. QED BY <1>3, <1>6 DEF x, y, f

\* A batch, or a batch and the front of the rows given before it, are the latest rows.
LEMMA LatestIs ==
  ASSUME NEW I, NEW g \in Seq(Seq(I)), g # <<>>, NEW w \in Seq(I), Len(Head(g)) + Len(w) <= retain,
         ~isRF => Len(w) <= Len(FlattenSeq(Tail(g))) /\ w = SubSeq(FlattenSeq(Tail(g)), 1, Len(w))
  PROVE  Latest(Head(g) \o w, g)
<1>. DEFINE a == Head(g)  r == FlattenSeq(Tail(g))  s == a \o w
<1>1. FlattenSeq(g) = a \o r /\ r \in Seq(I)
  BY FlattenCons
<1>2. a \in Seq(I) /\ Len(a) \in Nat /\ Len(w) \in Nat
  OBVIOUS
<1>. HIDE DEF a, r
<1>3. s \in Seq(I) /\ Len(s) = Len(a) + Len(w)
  BY <1>2, ConcatProperties
<1>4. a = SubSeq(s, 1, Len(a))
  <2>1. 0 \in 0 .. Len(w) /\ Len(a) + 0 = Len(a)
    BY <1>2
  <2>2. SubSeq(s, 1, Len(a) + 0) = a \o SubSeq(w, 1, 0)
    BY <1>2, <2>1, FrontOfConcat
  <2>3. SubSeq(w, 1, 0) = <<>>
    OBVIOUS
  <2>4. a \o <<>> = a
    BY <1>2, ConcatEmptySeq
  <2>. HIDE DEF s
  <2>. QED BY <2>1, <2>2, <2>3, <2>4
<1>5. ASSUME ~isRF PROVE Len(s) <= Len(FlattenSeq(g)) /\ s = SubSeq(FlattenSeq(g), 1, Len(s))
  <2>1. Len(w) <= Len(r) /\ w = SubSeq(r, 1, Len(w))
    BY <1>5 DEF r
  <2>2. Len(w) \in 0 .. Len(r)
    BY <1>1, <1>2, <2>1
  <2>3. SubSeq(a \o r, 1, Len(a) + Len(w)) = a \o SubSeq(r, 1, Len(w))
    BY <1>1, <1>2, <2>2, FrontOfConcat
  <2>4. Len(a \o r) = Len(a) + Len(r) /\ Len(r) \in Nat
    BY <1>1, <1>2, ConcatProperties
  <2>5. Len(s) <= Len(a \o r)
    BY <1>2, <1>3, <2>1, <2>4
  <2>6. SubSeq(FlattenSeq(g), 1, Len(s)) = a \o w
    BY <1>1, <1>3, <2>1, <2>3, Zenon
  <2>. QED BY <1>1, <2>5, <2>6, Zenon
<1>6. Len(s) <= retain
  BY <1>3 DEF a
<1>. QED BY <1>4, <1>5, <1>6, Zenon DEF Latest, a

-----------------------------------------------------------------------------
(* What a call for a node other than the root makes of it.                   *)

\* The children of an inner node that is not only rows which are forgotten are known when its call
\* comes: each has its side of the rows, or keeps forgotten rows and its side is empty.
LEMMA KidsKnown ==
  ASSUME NEW I, NEW d, NEW t, NEW F, NEW Q, NEW h, NEW n, CallNext(I, d, t, F, Q, h, n),
         Head(Q).op = "Incremental", ~Keeps(t, F, n), ~t[n].terminate
  PROVE  /\ n \in Branch(t, F, Updating(Q))
         /\ \A left \in BOOLEAN :
              LET k == Child(n, left) IN
              /\ k \in Nodes
              /\ t[k].rows = Side(d, t, n, left) \/ (ToSet(t[k].rows) \subseteq F /\ Side(d, t, n, left) = <<>>)
<1>. DEFINE p == n \div 2
<1>0. /\ Q \in Seq(Calls(I)) /\ h \in 1 .. Log2[MaxRetain] /\ \A m \in Nodes : t[m].rows \in Seq(I)
      /\ Going(d, t, F, Q, h) /\ Q # <<>> /\ Head(Q).op # "Free" /\ n = Head(Q).n /\ n # 1
  BY DEF CallNext
<1>h. HeadRight(d, t, F, Q, h, n)
  BY HeadIs
<1>1. n \in Nodes /\ p \in Branch(t, F, Updating(Q)) /\ ~t[p].terminate /\ n \notin Branch(t, F, Pending(Q))
  BY <1>h, Zenon DEF HeadRight
<1>2. /\ ToSet(Q) = {Head(Q)} \cup ToSet(Tail(Q))
      /\ \A c \in ToSet(Tail(Q)) : c.op # "Free" => c.n # n
  <2>1. StackOK(Q)
    BY <1>0 DEF Going
  <2>. QED BY <1>0, <2>1, Popped
<1>3. n \notin Updating(Q)
  BY <1>2 DEF Updating
<1>4. n \in Branch(t, F, Updating(Q))
  BY <1>0, <1>1, <1>3, BranchIs
<1>5. ASSUME NEW left \in BOOLEAN
      PROVE  /\ Child(n, left) \in Nodes
             /\ \/ t[Child(n, left)].rows = Side(d, t, n, left)
                \/ ToSet(t[Child(n, left)].rows) \subseteq F /\ Side(d, t, n, left) = <<>>
  <2>. DEFINE k == Child(n, left)
  <2>1. k \in Nodes /\ ChildRight(t, F, Q, k, Side(d, t, n, left))
    BY <1>0, <1>4 DEF Going, Matched
  <2>2. k \div 2 = n
    BY <1>1, NodesAre
  <2>3. k # 1
    <3>1. 1 \div 2 = 0 /\ n # 0
      BY <1>1, NodesAre
    <3>. QED BY <2>2, <3>1
  <2>. HIDE DEF k
  <2>4. k \notin Pending(Q)
    <3>. SUFFICES ASSUME NEW c \in ToSet(Q), c.op # "Free", c.n = k PROVE FALSE
      BY DEF Pending
    <3>1. c.n \div 2 \in Branch(t, F, Pending(Q))
      BY <1>0, <2>3 DEF Going, Waiting
    <3>. QED BY <1>1, <2>2, <3>1
  <2>. QED BY <2>1, <2>4 DEF ChildRight, Keeps, k
<1>. QED BY <1>4, <1>5

\* A node that is rebuilt.
LEMMA RebuiltGrown ==
  ASSUME NEW I, NEW d, NEW t, NEW F, NEW Q, NEW h, NEW u, NEW Q2, NEW n, NEW s \in Seq(I),
         RebuiltNow(I, d, t, u, n, s, h, Tail(Q), Q2)
  PROVE  Grown(d, t, F, Q, h, u, Q2, n, I) /\ u[n].rows = s
<1>1. Changed(t, u, n, s, I)
  BY Zenon DEF RebuiltNow
<1>2. (\A m \in Nodes : m # n => u[m] = t[m]) /\ u[n].created /\ u[n].rows \in Seq(I) /\ u[n].rows = s
  BY <1>1 DEF Changed
<1>3. CASE u[n].terminate /\ Q2 = Tail(Q)
  BY <1>2, <1>3, Zenon DEF Grown
<1>4. ASSUME ~u[n].terminate, Height(n) # h,
             Side(d, u, n, TRUE) \in Seq(I), Side(d, u, n, FALSE) \in Seq(I),
             Q2 = WithCalls("Update", n, Side(d, u, n, TRUE), Side(d, u, n, FALSE), Tail(Q))
      PROVE  Grown(d, t, F, Q, h, u, Q2, n, I)
  <2>. DEFINE a == Side(d, u, n, TRUE)  b == Side(d, u, n, FALSE)  op == "Update"
  <2>1. a \in Seq(I) /\ b \in Seq(I) /\ op \in {"Update", "Incremental"} /\ op # "Incremental"
    BY <1>4
  <2>2. Q2 = WithCalls(op, n, a, b, Tail(Q)) /\ a = Side(d, u, n, TRUE) /\ b = Side(d, u, n, FALSE)
    BY <1>4
  <2>. HIDE DEF a, b, op
  <2>. QED BY <1>2, <1>4, <2>1, <2>2, Zenon DEF Grown
<1>5. \/ u[n].terminate /\ Q2 = Tail(Q)
      \/ /\ ~u[n].terminate /\ Height(n) # h
         /\ Side(d, u, n, TRUE) \in Seq(I) /\ Side(d, u, n, FALSE) \in Seq(I)
         /\ Q2 = WithCalls("Update", n, Side(d, u, n, TRUE), Side(d, u, n, FALSE), Tail(Q))
  BY Zenon DEF RebuiltNow
<1>. QED BY <1>2, <1>3, <1>4, <1>5, Zenon

\* A node that hands its new rows down.
HandsDown(I, d, t, F, Q, h, n, new, s, u, Q2, cut) ==
  /\ CallNext(I, d, t, F, Q, h, n) /\ Head(Q).op = "Incremental" /\ ~Keeps(t, F, n) /\ ~t[n].terminate /\ Height(n) # h
  /\ new \in Seq(I) /\ s = new \o Without(t[n].rows, F) /\ cut[1] = t[n].feature /\ cut[2] = t[n].dpoint
  /\ InnerNow(I, d, t, u, n, s, new, cut, "Incremental", Tail(Q), Q2)

\* A child that hands its new rows down has grown as the calls that follow expect.
LEMMA InnerGrown ==
  ASSUME NEW I, NEW d, NEW t, NEW F, NEW Q, NEW h, NEW n, NEW new, NEW s, NEW u, NEW Q2, NEW cut,
         HandsDown(I, d, t, F, Q, h, n, new, s, u, Q2, cut)
  PROVE  Grown(d, t, F, Q, h, u, Q2, n, I) /\ u[n].rows = s
<1>h. /\ CallNext(I, d, t, F, Q, h, n) /\ Head(Q).op = "Incremental" /\ ~Keeps(t, F, n) /\ ~t[n].terminate /\ Height(n) # h
      /\ new \in Seq(I) /\ s = new \o Without(t[n].rows, F) /\ cut[1] = t[n].feature /\ cut[2] = t[n].dpoint
      /\ InnerNow(I, d, t, u, n, s, new, cut, "Incremental", Tail(Q), Q2)
  BY Zenon DEF HandsDown
<1>0. (\A m \in Nodes : t[m].rows \in Seq(I)) /\ n \in Nodes
  <2>1. HeadRight(d, t, F, Q, h, n)
    BY <1>h, HeadIs
  <2>. QED BY <1>h, <2>1, Zenon DEF HeadRight, CallNext
<1>1. /\ Changed(t, u, n, s, I) /\ ~u[n].terminate
      /\ \A left : Side(d, u, n, left) = Part(d, s, cut[1], cut[2], left)
      /\ Q2 = WithCalls("Incremental", n, Part(d, new, cut[1], cut[2], TRUE), Part(d, new, cut[1], cut[2], FALSE), Tail(Q))
  BY <1>h, Zenon DEF InnerNow
<1>2. (\A m \in Nodes : m # n => u[m] = t[m]) /\ u[n].created /\ u[n].rows = s
  BY <1>1 DEF Changed
<1>3. s \in Seq(I)
  <2>1. Without(t[n].rows, F) \in Seq(I)
    BY <1>0, WithoutIs
  <2>. QED BY <1>h, <2>1, ConcatProperties
<1>4. n \in Branch(t, F, Updating(Q))
  BY <1>h, KidsKnown
<1>5. ASSUME NEW left \in BOOLEAN
      PROVE  /\ Part(d, new, cut[1], cut[2], left) \in Seq(I)
             /\ Part(d, new, cut[1], cut[2], left) \o Without(t[Child(n, left)].rows, F) = Side(d, u, n, left)
  <2>. DEFINE kid == t[Child(n, left)].rows
  <2>1. /\ Child(n, left) \in Nodes
        /\ kid = Side(d, t, n, left) \/ (ToSet(kid) \subseteq F /\ Side(d, t, n, left) = <<>>)
    BY <1>h, KidsKnown
  <2>2. kid \in Seq(I) /\ t[n].rows \in Seq(I)
    BY <1>0, <2>1
  <2>3. Side(d, t, n, left) = Part(d, t[n].rows, cut[1], cut[2], left)
    BY <1>h DEF Side
  <2>. HIDE DEF kid
  <2>4. Part(d, new, cut[1], cut[2], left) \o Without(kid, F) = Part(d, new \o Without(t[n].rows, F), cut[1], cut[2], left)
    <3>. DEFINE w == t[n].rows  f == cut[1]  v == cut[2]
    <3>0. new \in Seq(I)
      BY <1>h
    <3>1. w \in Seq(I) /\ (kid = Part(d, w, f, v, left) \/ (ToSet(kid) \subseteq F /\ Part(d, w, f, v, left) = <<>>))
      BY <2>1, <2>2, <2>3, Zenon
    <3>. HIDE DEF w, f, v
    <3>2. Part(d, new, f, v, left) \o Without(kid, F) = Part(d, new \o Without(w, F), f, v, left)
      BY <2>2, <3>0, <3>1, HandedDown, SMTT(60)
    <3>. QED BY <3>2, Zenon DEF w, f, v
  <2>5. Part(d, new, cut[1], cut[2], left) \in Seq(I)
    BY <1>h, PartIs
  <2>. QED BY <1>h, <1>1, <2>4, <2>5, Zenon DEF kid
<1>. DEFINE a == Part(d, new, cut[1], cut[2], TRUE)  b == Part(d, new, cut[1], cut[2], FALSE)  op == "Incremental"
<1>6. /\ a \in Seq(I) /\ b \in Seq(I) /\ op \in {"Update", "Incremental"} /\ op # "Update"
      /\ a \o Without(t[Child(n, TRUE)].rows, F) = Side(d, u, n, TRUE)
      /\ b \o Without(t[Child(n, FALSE)].rows, F) = Side(d, u, n, FALSE)
      /\ Q2 = WithCalls(op, n, a, b, Tail(Q))
  BY <1>1, <1>5
<1>. HIDE DEF a, b, op
<1>7. u[n].rows \in Seq(I)
  BY <1>2, <1>3
<1>. QED BY <1>h, <1>1, <1>2, <1>4, <1>6, <1>7, Zenon DEF Grown

\* A step below the root.
LEMMA ChildKeeps ==
  ASSUME TreeInv, ~wild, 1 \notin Pending(stack), 1 \notin Pending(stack'),
         stack' \in Seq(Calls(Ids)), Going(data, DTree', flagged, stack', maxHeight),
         \A c \in ToSet(stack') : c.op = "Free" => c \in ToSet(stack),
         IsTree(DTree', Ids), DTree'[1] = DTree[1], UNCHANGED <<data, rates, memory, given>>
  PROVE  TreeInv'
<1>0. /\ UNCHANGED <<data, isRF, maxHeight, retain, roundNo, forgetRate, flagged, freed, twice, wild, given>>
      /\ TreeShape /\ Unreleased /\ RootRows /\ Ids' = Ids
  BY DEF TreeInv, Growing, rates, memory, Ids
<1>1. TreeShape'
  <2>1. Calls(Ids)' = Calls(Ids) /\ IsTree(DTree, Ids)' = IsTree(DTree', Ids)
    BY <1>0 DEF Calls, IsTree
  <2>. QED BY <1>0, <2>1 DEF TreeShape
<1>2. Unreleased'
  BY <1>0 DEF Unreleased
<1>3. RootRows'
  <2>1. Latest(DTree[1].rows, given)' = Latest(DTree[1].rows, given)
    BY <1>0 DEF Latest
  <2>2. \A c \in ToSet(stack') : ~(c.op # "Free" /\ c.n = 1)
    BY DEF Pending
  <2>. QED BY <1>0, <2>1, <2>2 DEF RootRows
<1>4. Going(data, DTree, flagged, stack, maxHeight)'
  BY <1>0
<1>. QED BY <1>1, <1>2, <1>3, <1>4 DEF TreeInv, Growing

\* The next call, when it is not for the root.
LEMMA ChildNext ==
  ASSUME TreeInv, ~wild, stack # <<>>, Head(stack).op # "Free", Head(stack).n # 1
  PROVE  /\ CallNext(Ids, data, DTree, flagged, stack, maxHeight, Head(stack).n)
         /\ IsTree(DTree, Ids) /\ Head(stack).n \in Nodes /\ Head(stack).rows \in Seq(Ids)
         /\ Tail(stack) \in Seq(Calls(Ids)) /\ DTree[Head(stack).n].rows \in Seq(Ids)
<1>1. TreeShape /\ Going(data, DTree, flagged, stack, maxHeight)
  BY DEF TreeInv, Growing
<1>2. IsTree(DTree, Ids) /\ stack \in Seq(Calls(Ids)) /\ maxHeight \in 1 .. Log2[MaxRetain]
  BY <1>1 DEF TreeShape
<1>3. \A m \in Nodes : DTree[m].rows \in Seq(Ids)
  BY <1>2 DEF IsTree, NodeOK
<1>4. Head(stack) \in Calls(Ids) /\ Tail(stack) \in Seq(Calls(Ids))
  BY <1>2
<1>5. Head(stack).n \in Nodes /\ Head(stack).rows \in Seq(Ids)
  BY <1>4 DEF Calls
<1>. QED BY <1>1, <1>2, <1>3, <1>4, <1>5 DEF CallNext

\* A step that gives a node other than the root its side of its parent.
LEMMA ChildGrown ==
  ASSUME TreeInv, ~wild, NEW n \in Nodes, CallNext(Ids, data, DTree, flagged, stack, maxHeight, n),
         Grown(data, DTree, flagged, stack, maxHeight, DTree', stack', n, Ids),
         \A left \in BOOLEAN : n = Child(n \div 2, left) => DTree'[n].rows = Side(data, DTree, n \div 2, left),
         IsTree(DTree', Ids), UNCHANGED <<data, rates, memory, given>>
  PROVE  TreeInv'
<1>1. /\ stack' \in Seq(Calls(Ids)) /\ Going(data, DTree', flagged, stack', maxHeight)
      /\ 1 \notin Pending(stack') /\ 1 \notin Pending(stack)
      /\ \A c \in ToSet(stack') : c.op = "Free" => c \in ToSet(stack)
  BY Handled
<1>2. DTree'[1] = DTree[1]
  <2>1. n # 1 /\ 1 \in Nodes
    BY NodesAre DEF CallNext
  <2>. QED BY <2>1, Zenon DEF Grown
<1>. QED BY <1>1, <1>2, ChildKeeps

\* A node other than the root is rebuilt from the rows of its call, when those are all it has.
LEMMA ChildRebuilt ==
  ASSUME TreeInv, ~wild, NEW n, n = Head(stack).n, n # 1, stack # <<>>, Head(stack).op # "Free",
         UpdateNode(n, Head(stack).rows, Tail(stack)),
         \A left \in BOOLEAN : n = Child(n \div 2, left) => Head(stack).rows = Side(data, DTree, n \div 2, left),
         UNCHANGED <<data, rates, memory, given>>
  PROVE  TreeInv'
<1>1. /\ CallNext(Ids, data, DTree, flagged, stack, maxHeight, n)
      /\ IsTree(DTree, Ids) /\ n \in Nodes /\ Head(stack).rows \in Seq(Ids)
  BY ChildNext
<1>2. RebuiltNow(Ids, data, DTree, DTree', n, Head(stack).rows, maxHeight, Tail(stack), stack')
  BY <1>1, UpdateIs
<1>3. /\ Grown(data, DTree, flagged, stack, maxHeight, DTree', stack', n, Ids)
      /\ DTree'[n].rows = Head(stack).rows
  BY <1>1, <1>2, RebuiltGrown
<1>4. IsTree(DTree', Ids)
  BY <1>2, Zenon DEF RebuiltNow, Changed
<1>. QED BY <1>1, <1>3, <1>4, ChildGrown

\* IncrementalUpdate of a node other than the root.
LEMMA IncrementalChildKeeps ==
  ASSUME TreeInv, IncrementalChild PROVE TreeInv'
<1>. DEFINE n == Head(stack).n  new == Head(stack).rows  old == ToSet(DTree[n].rows)  lost == Lost(n)
            s == new \o Without(DTree[n].rows, lost)
<1>0. /\ stack # <<>> /\ Head(stack).op = "Incremental" /\ Head(stack).op # "Free" /\ n # 1 /\ ~wild
      /\ UNCHANGED <<data, rates, given>>
  BY DEF IncrementalChild
<1>1. /\ CallNext(Ids, data, DTree, flagged, stack, maxHeight, n)
      /\ IsTree(DTree, Ids) /\ n \in Nodes /\ new \in Seq(Ids) /\ DTree[n].rows \in Seq(Ids) /\ Tail(stack) \in Seq(Calls(Ids))
  BY <1>0, ChildNext
<1>2. \A left \in BOOLEAN : n = Child(n \div 2, left) =>
         new \o Without(DTree[n].rows, flagged) = Side(data, DTree, n \div 2, left)
  <2>1. HeadRight(data, DTree, flagged, stack, maxHeight, n)
    BY <1>1, HeadIs
  <2>. QED BY <1>0, <2>1, Zenon DEF HeadRight
<1>. DEFINE w == DTree[n].rows
<1>. HIDE DEF w, lost
<1>w. w \in Seq(Ids) /\ old = ToSet(w) /\ lost = old \cap flagged
  BY <1>1, Zenon DEF w, lost, Lost
<1>. HIDE DEF old, new
<1>3. lost = old => Without(w, flagged) = <<>> /\ new \o <<>> = new
  <2>1. lost = old => ToSet(w) \subseteq flagged
    BY <1>w
  <2>2. new \o <<>> = new
    BY <1>1, ConcatEmptySeq
  <2>3. ToSet(w) \subseteq flagged => Without(w, flagged) = <<>>
    BY <1>w, WithoutIs, ZenonT(60)
  <2>. QED BY <2>1, <2>2, <2>3
<1>4. /\ Without(w, lost) = Without(w, flagged)
      /\ s \in Seq(Ids) /\ s = new \o Without(w, flagged)
  <2>1. ToSet(w) \cap lost = ToSet(w) \cap flagged
    BY <1>w
  <2>2. Without(w, lost) \in Seq(Ids)
    BY <1>w, WithoutIs, ZenonT(60)
  <2>3. Without(w, lost) = Without(w, flagged)
    BY <1>w, <2>1, WithoutSame, ZenonT(60)
  <2>. QED BY <1>1, <2>2, <2>3, ConcatProperties DEF w
<1>. USE DEF w, old, new, lost
<1>5. CASE wild' = TRUE /\ UNCHANGED <<tree, flagged, freed, twice>>
  <2>1. UNCHANGED <<data, DTree, stack, isRF, maxHeight, retain, forgetRate, flagged, freed, twice, given>> /\ wild'
    BY <1>0, <1>5 DEF tree, rates
  <2>2. TreeShape /\ Unreleased
    BY DEF TreeInv
  <2>3. TreeShape'
    BY <2>1, <2>2 DEF TreeShape, IsTree, Calls, Ids
  <2>4. Unreleased'
    BY <2>1, <2>2 DEF Unreleased, Ids
  <2>. QED BY <1>5, <2>3, <2>4 DEF TreeInv, Growing
<1>6. CASE /\ UNCHANGED <<flagged, wild, freed, twice>> /\ lost = old /\ UpdateNode(n, new, Tail(stack))
  <2>1. UNCHANGED memory
    BY <1>6 DEF memory
  <2>2. \A left \in BOOLEAN : n = Child(n \div 2, left) => new = Side(data, DTree, n \div 2, left)
    BY <1>2, <1>3, <1>6
  <2>3. UNCHANGED <<data, rates, memory, given>>
    BY <1>0, <2>1
  <2>. QED BY <1>0, <1>6, <2>2, <2>3, ChildRebuilt
<1>7. CASE /\ UNCHANGED <<flagged, wild, freed, twice>> /\ lost = old /\ old # {} /\ new = <<>>
           /\ stack' = Tail(stack) /\ UNCHANGED DTree
  <2>1. Keeps(DTree, flagged, n) /\ DTree[n].created
    <3>1. DTree[n].rows # <<>>
      BY <1>1, <1>7, RowsAre
    <3>2. old \subseteq flagged
      BY <1>7 DEF Lost
    <3>3. DTree[n].created
      BY <1>1, <3>1 DEF IsTree, NodeOK
    <3>. QED BY <1>0, <3>1, <3>2, <3>3 DEF Keeps
  <2>2. /\ Tail(stack) \in Seq(Calls(Ids)) /\ Going(data, DTree, flagged, Tail(stack), maxHeight)
        /\ 1 \notin Pending(Tail(stack)) /\ 1 \notin Pending(stack) /\ ToSet(Tail(stack)) \subseteq ToSet(stack)
    BY <1>0, <1>1, <1>7, <2>1, Skipped
  <2>3. UNCHANGED <<data, rates, memory, given>>
    BY <1>0, <1>7 DEF memory
  <2>. QED BY <1>0, <1>1, <1>7, <2>2, <2>3, ChildKeeps
<1>8. CASE UNCHANGED <<flagged, wild>> /\ lost # old /\ IncrementalNode(n, new, lost, Tail(stack))
  <2>. DEFINE free == IF n = 1 THEN <<Call("Free", n, Within(DTree[n].rows, lost))>> ELSE <<>>
              rest == Tail(stack)
  <2>1. IncrementalMade(Ids, n, new, lost, rest, s, free)
    <3>1. /\ s \in Seq(Ids) /\ s = new \o Without(DTree[n].rows, lost) /\ new \in Seq(Ids) /\ IsTree(DTree, Ids) /\ n \in Nodes
          /\ IncrementalNode(n, new, lost, rest)
      BY <1>1, <1>4, <1>8
    <3>2. free = IF n = 1 THEN <<Call("Free", n, Within(DTree[n].rows, lost))>> ELSE <<>>
      OBVIOUS
    <3>. HIDE DEF s, n, new, lost, rest, free
    <3>3. IncrementalCall(Ids, n, new, lost, rest, s, free)
      BY <3>1, <3>2, Zenon DEF IncrementalCall
    <3>. QED BY <3>3, IncrementalIs, Zenon
  <2>2. free \o rest = rest
    BY <1>0, <1>1, ConcatEmptySeq
  <2>3. UNCHANGED <<freed, twice>>
    BY <1>0, <2>1, Zenon DEF IncrementalMade
  <2>4. UNCHANGED <<data, rates, memory, given>>
    BY <1>0, <1>8, <2>3 DEF memory
  <2>5. ~Keeps(DTree, flagged, n)
    BY <1>8 DEF Keeps, Lost
  <2>6. \A left \in BOOLEAN : n = Child(n \div 2, left) => s = Side(data, DTree, n \div 2, left)
    BY <1>2, <1>4
  <2>. HIDE DEF n, new, s, free, rest, lost
  <2>7. /\ Grown(data, DTree, flagged, stack, maxHeight, DTree', stack', n, Ids) /\ DTree'[n].rows = s
        /\ IsTree(DTree', Ids)
    <3>1. CASE RebuiltNow(Ids, data, DTree, DTree', n, s, maxHeight, rest, stack')
      <4>1. Grown(data, DTree, flagged, stack, maxHeight, DTree', stack', n, Ids) /\ DTree'[n].rows = s
        BY <1>4, <3>1, RebuiltGrown DEF rest
      <4>2. IsTree(DTree', Ids)
        BY <3>1, Zenon DEF RebuiltNow, Changed
      <4>. QED BY <4>1, <4>2
    <3>2. ASSUME NEW cut, InnerNow(Ids, data, DTree, DTree', n, s, new, cut, "Incremental", rest, stack'),
                 cut[1] = DTree[n].feature, cut[2] = DTree[n].dpoint, ~DTree[n].terminate, Height(n) # maxHeight
          PROVE  /\ Grown(data, DTree, flagged, stack, maxHeight, DTree', stack', n, Ids) /\ DTree'[n].rows = s
                 /\ IsTree(DTree', Ids)
      <4>1. Grown(data, DTree, flagged, stack, maxHeight, DTree', stack', n, Ids) /\ DTree'[n].rows = s
        <5>1. /\ CallNext(Ids, data, DTree, flagged, stack, maxHeight, n) /\ Head(stack).op = "Incremental"
              /\ new \in Seq(Ids) /\ s = new \o Without(DTree[n].rows, flagged)
              /\ InnerNow(Ids, data, DTree, DTree', n, s, new, cut, "Incremental", Tail(stack), stack')
          BY <1>0, <1>1, <1>4, <3>2 DEF rest, w
        <5>2. ~Keeps(DTree, flagged, n) /\ ~DTree[n].terminate /\ Height(n) # maxHeight
              /\ cut[1] = DTree[n].feature /\ cut[2] = DTree[n].dpoint
          BY <2>5, <3>2
        <5>3. HandsDown(Ids, data, DTree, flagged, stack, maxHeight, n, new, s, DTree', stack', cut)
          BY <5>1, <5>2 DEF HandsDown
        <5>. QED BY <5>3, InnerGrown, SMT
      <4>2. IsTree(DTree', Ids)
        BY <3>2, Zenon DEF InnerNow, Changed
      <4>. QED BY <4>1, <4>2
    <3>. QED BY <2>1, <2>2, <3>1, <3>2, Zenon DEF IncrementalMade
  <2>. QED BY <1>0, <1>1, <2>4, <2>6, <2>7, ChildGrown
<1>. QED BY <1>0, <1>5, <1>6, <1>7, <1>8, Zenon DEF IncrementalChild

\* Update of a node other than the root.
LEMMA UpdateChildKeeps ==
  ASSUME TreeInv, Update, Head(stack).n # 1 PROVE TreeInv'
<1>. DEFINE n == Head(stack).n  new == Head(stack).rows
<1>0. /\ stack # <<>> /\ Head(stack).op = "Update" /\ ~wild
      /\ UpdateNode(n, new, Tail(stack)) /\ UNCHANGED <<data, rates, memory, given>>
  BY DEF Update
<1>1. /\ CallNext(Ids, data, DTree, flagged, stack, maxHeight, n) /\ Head(stack).op # "Free"
  BY <1>0, ChildNext
<1>2. HeadRight(data, DTree, flagged, stack, maxHeight, n)
  BY <1>1, HeadIs
<1>3. \A left \in BOOLEAN : n = Child(n \div 2, left) => new = Side(data, DTree, n \div 2, left)
  BY <1>0, <1>2, Zenon DEF HeadRight
<1>. QED BY <1>0, <1>1, <1>3, ChildRebuilt

-----------------------------------------------------------------------------
(* What a call for the root makes of it.                                     *)

\* The rows new of the call for the root and those it has.
RootCall(new, old) ==
  /\ given # <<>> /\ given \in Seq(Seq(Ids)) /\ new = Head(given) /\ Len(new) \in 1 .. retain /\ retain \in Nat
  /\ new \in Seq(Ids) /\ old \in Seq(Ids) /\ Distinct(new) /\ Distinct(old)
  /\ ToSet(new) \cap flagged = {} /\ ToSet(new) \cap ToSet(old) = {} /\ ToSet(old) \cap flagged = {}
  /\ Head(stack).op = "Incremental" /\ ~isRF =>
       Len(old) <= Len(FlattenSeq(Tail(given))) /\ old = SubSeq(FlattenSeq(Tail(given)), 1, Len(old))

\* The state when a call for the root comes next.
LEMMA RootNext ==
  ASSUME TreeInv, ~wild, stack # <<>>, Head(stack).op # "Free", Head(stack).n = 1
  PROVE  /\ RootCall(Head(stack).rows, DTree[1].rows)
         /\ stack \in Seq(Calls(Ids)) /\ Tail(stack) = <<>> /\ IsTree(DTree, Ids) /\ 1 \in Nodes
         /\ maxHeight \in 1 .. Log2[MaxRetain] /\ Going(data, DTree, flagged, stack, maxHeight)
         /\ ToSet(stack) = {Head(stack)} /\ Pending(stack) = {1}
         /\ twice = FALSE /\ freed \subseteq flagged /\ flagged \subseteq Ids
<1>0. TreeShape /\ Unreleased /\ Going(data, DTree, flagged, stack, maxHeight) /\ RootRows
  BY DEF TreeInv, Growing
<1>1. /\ IsTree(DTree, Ids) /\ stack \in Seq(Calls(Ids)) /\ maxHeight \in 1 .. Log2[MaxRetain]
      /\ given \in Seq(Seq(Ids)) /\ retain \in 0 .. MaxRetain
  BY <1>0 DEF TreeShape
<1>2. Tail(stack) = <<>> /\ ToSet(stack) = {Head(stack)} /\ Pending(stack) = {1}
  <2>1. StackOK(stack)
    BY <1>0 DEF Going
  <2>. QED BY <1>1, <2>1, RootAlone
<1>3. 1 \in Nodes
  BY NodesAre
<1>4. DTree[1].rows \in Seq(Ids)
  BY <1>1, <1>3 DEF IsTree, NodeOK
<1>5. Head(stack).rows \in Seq(Ids)
  <2>1. Head(stack) \in Calls(Ids)
    BY <1>1
  <2>. QED BY <2>1 DEF Calls
<1>6. retain \in Nat
  BY <1>1, TreeAssumption
<1>7. twice = FALSE /\ freed \subseteq flagged /\ flagged \subseteq Ids /\ ToSet(DTree[1].rows) \cap flagged = {}
  BY <1>0 DEF Unreleased
<1>8. /\ Distinct(DTree[1].rows) /\ given # <<>> /\ Head(stack).rows = Head(given) /\ Len(Head(stack).rows) \in 1 .. retain
      /\ Distinct(Head(stack).rows) /\ ToSet(Head(stack).rows) \cap (flagged \cup ToSet(DTree[1].rows)) = {}
      /\ Head(stack).op = "Incremental" /\ ~isRF =>
            /\ Len(DTree[1].rows) <= Len(FlattenSeq(Tail(given)))
            /\ DTree[1].rows = SubSeq(FlattenSeq(Tail(given)), 1, Len(DTree[1].rows))
  <2>1. Head(stack) \in ToSet(stack)
    BY <1>2
  <2>. QED BY <1>0, <2>1, Zenon DEF RootRows
<1>9. /\ ToSet(Head(stack).rows) \cap flagged = {} /\ ToSet(Head(stack).rows) \cap ToSet(DTree[1].rows) = {}
  BY <1>8
<1>. QED BY <1>0, <1>1, <1>2, <1>3, <1>4, <1>5, <1>6, <1>7, <1>8, <1>9 DEF RootCall

\* What is to be shown of a step of the root: the calls in rest release rows.
RootStep(rest) ==
  /\ IsTree(DTree', Ids) /\ RootGrown(data, DTree, flagged, stack, DTree', flagged', stack', rest, Ids)
  /\ Distinct(DTree'[1].rows) /\ Latest(DTree'[1].rows, given)
  /\ flagged' \subseteq Ids /\ freed' \subseteq flagged' /\ twice' = FALSE
  /\ \A c \in ToSet(rest) : ToSet(c.rows) \subseteq flagged' /\ ToSet(c.rows) \cap freed' = {}

\* A step of the root.
LEMMA RootKeeps ==
  ASSUME TreeInv, ~wild, stack # <<>>, Head(stack).op # "Free", Head(stack).n = 1,
         NEW rest, RootStep(rest), UNCHANGED <<data, rates, wild, given>>
  PROVE  TreeInv'
<1>0. /\ UNCHANGED <<data, isRF, maxHeight, retain, roundNo, forgetRate, wild, given>>
      /\ TreeShape /\ Ids' = Ids
  BY DEF TreeInv, rates, Ids
<1>1. /\ stack \in Seq(Calls(Ids)) /\ maxHeight \in 1 .. Log2[MaxRetain] /\ Going(data, DTree, flagged, stack, maxHeight)
  BY RootNext
<1>2. /\ IsTree(DTree', Ids) /\ RootGrown(data, DTree, flagged, stack, DTree', flagged', stack', rest, Ids)
      /\ Distinct(DTree'[1].rows) /\ Latest(DTree'[1].rows, given)
      /\ flagged' \subseteq Ids /\ freed' \subseteq flagged' /\ twice' = FALSE
      /\ \A c \in ToSet(rest) : ToSet(c.rows) \subseteq flagged' /\ ToSet(c.rows) \cap freed' = {}
  BY Zenon DEF RootStep
<1>3. /\ stack' \in Seq(Calls(Ids)) /\ Going(data, DTree', flagged', stack', maxHeight) /\ 1 \notin Pending(stack')
      /\ \A c \in ToSet(stack') : c.op = "Free" => c \in ToSet(rest)
  BY <1>1, <1>2, RootHandled
<1>4. ToSet(DTree'[1].rows) \cap flagged' = {}
  BY <1>2, Zenon DEF RootGrown
<1>5. TreeShape'
  <2>1. Calls(Ids)' = Calls(Ids) /\ IsTree(DTree, Ids)' = IsTree(DTree', Ids)
    BY <1>0 DEF Calls, IsTree
  <2>. QED BY <1>0, <1>2, <1>3, <2>1 DEF TreeShape
<1>6. Unreleased'
  BY <1>0, <1>2, <1>3, <1>4 DEF Unreleased
<1>7. RootRows'
  <2>1. Latest(DTree[1].rows, given)' = Latest(DTree'[1].rows, given)
    BY <1>0 DEF Latest
  <2>2. \A c \in ToSet(stack') : ~(c.op # "Free" /\ c.n = 1)
    BY <1>3 DEF Pending
  <2>. QED BY <1>2, <2>1, <2>2 DEF RootRows
<1>8. Going(data, DTree, flagged, stack, maxHeight)'
  BY <1>0, <1>3
<1>. QED BY <1>5, <1>6, <1>7, <1>8 DEF TreeInv, Growing

\* The root is rebuilt.
LEMMA RootRebuilt ==
  ASSUME NEW s \in Seq(Ids), NEW rest \in Seq(Calls(Ids)), Len(rest) <= 1, \A c \in ToSet(rest) : c.op = "Free",
         RebuiltNow(Ids, data, DTree, DTree', 1, s, maxHeight, rest, stack'),
         flagged \subseteq flagged', ToSet(s) \cap flagged' = {}
  PROVE  /\ IsTree(DTree', Ids) /\ DTree'[1].rows = s
         /\ RootGrown(data, DTree, flagged, stack, DTree', flagged', stack', rest, Ids)
<1>. DEFINE u == DTree'  F2 == flagged'  Q2 == stack'
<1>. HIDE DEF u, F2, Q2
<1>0. RebuiltNow(Ids, data, DTree, u, 1, s, maxHeight, rest, Q2) /\ flagged \subseteq F2 /\ ToSet(s) \cap F2 = {}
  BY Zenon DEF u, F2, Q2
<1>1. Changed(DTree, u, 1, s, Ids)
  BY <1>0, Zenon DEF RebuiltNow
<1>2. IsTree(u, Ids) /\ (\A m \in Nodes : m # 1 => u[m] = DTree[m]) /\ u[1].rows = s /\ u[1].rows \in Seq(Ids)
  BY <1>1 DEF Changed
<1>3. ASSUME u[1].terminate, Q2 = rest PROVE RootGrown(data, DTree, flagged, stack, u, F2, Q2, rest, Ids)
  BY <1>0, <1>2, <1>3, Zenon DEF RootGrown
<1>4. ASSUME ~u[1].terminate,
             Side(data, u, 1, TRUE) \in Seq(Ids), Side(data, u, 1, FALSE) \in Seq(Ids),
             Q2 = WithCalls("Update", 1, Side(data, u, 1, TRUE), Side(data, u, 1, FALSE), rest)
      PROVE  RootGrown(data, DTree, flagged, stack, u, F2, Q2, rest, Ids)
  <2>. DEFINE a == Side(data, u, 1, TRUE)  b == Side(data, u, 1, FALSE)  op == "Update"
  <2>1. a \in Seq(Ids) /\ b \in Seq(Ids) /\ op \in {"Update", "Incremental"} /\ op # "Incremental"
    BY <1>4
  <2>2. Q2 = WithCalls(op, 1, a, b, rest) /\ a = Side(data, u, 1, TRUE) /\ b = Side(data, u, 1, FALSE)
    BY <1>4
  <2>. HIDE DEF a, b, op
  <2>. QED BY <1>0, <1>2, <1>4, <2>1, <2>2, Zenon DEF RootGrown
<1>5. \/ u[1].terminate /\ Q2 = rest
      \/ /\ ~u[1].terminate
         /\ Side(data, u, 1, TRUE) \in Seq(Ids) /\ Side(data, u, 1, FALSE) \in Seq(Ids)
         /\ Q2 = WithCalls("Update", 1, Side(data, u, 1, TRUE), Side(data, u, 1, FALSE), rest)
  BY <1>0, Zenon DEF RebuiltNow
<1>6. RootGrown(data, DTree, flagged, stack, u, F2, Q2, rest, Ids)
  BY <1>3, <1>4, <1>5, Zenon
<1>. QED BY <1>2, <1>6 DEF u, F2, Q2

\* The root with its batch alone.
LEMMA RootUpdated ==
  ASSUME TreeInv, ~wild, stack # <<>>, Head(stack).op # "Free", Head(stack).n = 1,
         UpdateNode(1, Head(stack).rows, Tail(stack)), UNCHANGED <<data, rates, memory, given>>
  PROVE  TreeInv'
<1>. DEFINE new == Head(stack).rows
<1>1. /\ RootCall(new, DTree[1].rows) /\ Tail(stack) = <<>> /\ IsTree(DTree, Ids) /\ 1 \in Nodes
      /\ twice = FALSE /\ freed \subseteq flagged /\ flagged \subseteq Ids
  BY RootNext
<1>. HIDE DEF new
<1>2. /\ given # <<>> /\ given \in Seq(Seq(Ids)) /\ new = Head(given) /\ Len(new) \in 1 .. retain /\ retain \in Nat
      /\ new \in Seq(Ids) /\ Distinct(new) /\ ToSet(new) \cap flagged = {}
  BY <1>1, Zenon DEF RootCall
<1>. DEFINE e == <<>>
<1>3. e \in Seq(Calls(Ids)) /\ Len(e) = 0 /\ ToSet(e) = {} /\ e \in Seq(Ids)
  BY DEF ToSet
<1>4. UNCHANGED <<flagged, freed, twice>>
  BY DEF memory
<1>5. Latest(new, given)
  <2>1. Len(Head(given)) + Len(e) <= retain
    BY <1>2, <1>3
  <2>2. Len(e) <= Len(FlattenSeq(Tail(given))) /\ e = SubSeq(FlattenSeq(Tail(given)), 1, Len(e))
    <3>1. FlattenSeq(Tail(given)) \in Seq(Ids)
      BY <1>2, FlattenCons
    <3>. QED BY <1>3, <3>1
  <2>. HIDE DEF e
  <2>3. Latest(Head(given) \o e, given)
    BY <1>2, <1>3, <2>1, <2>2, LatestIs
  <2>4. Head(given) \o e = new
    BY <1>2, ConcatEmptySeq DEF e
  <2>. QED BY <2>3, <2>4
<1>6. RebuiltNow(Ids, data, DTree, DTree', 1, new, maxHeight, e, stack')
  <2>1. UpdateNode(1, new, e)
    BY <1>1 DEF new
  <2>. HIDE DEF e
  <2>. QED BY <1>1, <1>2, <2>1, UpdateIs
<1>. HIDE DEF e
<1>7. /\ IsTree(DTree', Ids) /\ DTree'[1].rows = new
      /\ RootGrown(data, DTree, flagged, stack, DTree', flagged', stack', e, Ids)
  <2>1. flagged \subseteq flagged' /\ ToSet(new) \cap flagged' = {} /\ Len(e) <= 1 /\ \A c \in ToSet(e) : c.op = "Free"
    BY <1>2, <1>3, <1>4
  <2>. QED BY <1>2, <1>3, <1>6, <2>1, RootRebuilt
<1>8. RootStep(e)
  BY <1>1, <1>2, <1>3, <1>4, <1>5, <1>7 DEF RootStep
<1>9. UNCHANGED <<data, rates, wild, given>>
  BY DEF memory
<1>. QED BY <1>8, <1>9, RootKeeps

\* What the root keeps when it forgets the rows lost is the latest of its rows, as long as with the
\* new ones they are not too many.
LEMMA RootForgets ==
  ASSUME TreeInv, NEW new, NEW old, RootCall(new, old), Head(stack).op = "Incremental",
         old = DTree[1].rows, Excess(1, new) # Len(old), NEW lost, lost \in MayForget(old, Excess(1, new))
  PROVE  /\ lost \subseteq ToSet(old)
         /\ new \o Without(old, lost) \in Seq(Ids) /\ Distinct(new \o Without(old, lost))
         /\ Latest(new \o Without(old, lost), given)
         /\ ToSet(new \o Without(old, lost)) = ToSet(new) \cup (ToSet(old) \ lost)
<1>. DEFINE k == Excess(1, new)  w == Without(old, lost)
<1>0. /\ given # <<>> /\ given \in Seq(Seq(Ids)) /\ new = Head(given) /\ Len(new) \in 1 .. retain /\ retain \in Nat
      /\ new \in Seq(Ids) /\ old \in Seq(Ids) /\ Distinct(new) /\ Distinct(old)
      /\ ToSet(new) \cap ToSet(old) = {}
      /\ ~isRF => Len(old) <= Len(FlattenSeq(Tail(given))) /\ old = SubSeq(FlattenSeq(Tail(given)), 1, Len(old))
  BY DEF RootCall
<1>1. k \in 0 .. Len(old) /\ Len(old) - k + Len(new) <= retain /\ Len(old) \in Nat
  <2>. DEFINE l == Len(old)  m == Len(new)  over == l + m - retain
  <2>1. k = IF over <= 0 THEN 0 ELSE IF over < l THEN over ELSE l
    BY DEF Excess
  <2>2. l \in Nat /\ m \in Nat /\ m <= retain /\ retain \in Nat /\ k # l
    BY <1>0
  <2>. HIDE DEF l, m, k
  <2>3. k \in 0 .. l /\ l - k + m <= retain
    BY <2>1, <2>2
  <2>. QED BY <2>2, <2>3 DEF l, m
<1>. HIDE DEF k
<1>2. /\ w \in Seq(Ids) /\ ToSet(w) = ToSet(old) \ lost /\ Distinct(w)
  <2>1. w \in Seq(Ids) /\ ToSet(w) = ToSet(old) \ lost
    <3>1. w \in Seq(Ids) /\ ToSet(w) = ToSet(old) \cap (ToSet(old) \ lost)
      BY <1>0, PickedRows DEF Without
    <3>. QED BY <3>1
  <2>2. Distinct(w)
    BY <1>0, PickedDistinct DEF Without
  <2>. QED BY <2>1, <2>2
<1>. HIDE DEF w
<1>3. CASE ~isRF
  <2>1. lost = ToSet(SubSeq(old, Len(old) - k + 1, Len(old)))
    BY <1>3 DEF MayForget, k
  <2>2. w = SubSeq(old, 1, Len(old) - k)
    BY <1>0, <1>1, <2>1, DropLast DEF w
  <2>3. Len(w) = Len(old) - k /\ Len(old) - k \in 0 .. Len(old)
    <3>. DEFINE j == Len(old) - k
    <3>1. j \in Nat /\ j <= Len(old) /\ old \in Seq(Ids) /\ w = SubSeq(old, 1, j)
      BY <1>0, <1>1, <2>2
    <3>. HIDE DEF j
    <3>2. Len(w) = j /\ j \in 0 .. Len(old)
      BY <3>1
    <3>. QED BY <3>2 DEF j
  <2>. DEFINE r == FlattenSeq(Tail(given))
  <2>4. r \in Seq(Ids)
    BY <1>0, FlattenCons
  <2>5. Len(old) <= Len(r) /\ old = SubSeq(r, 1, Len(old))
    BY <1>0, <1>3
  <2>. HIDE DEF r
  <2>6. SubSeq(SubSeq(r, 1, Len(old)), 1, Len(old) - k) = SubSeq(r, 1, Len(old) - k)
    BY <1>1, <2>3, <2>4, <2>5, FrontOfFront
  <2>7. w = SubSeq(r, 1, Len(w)) /\ Len(w) <= Len(r)
    BY <1>1, <2>2, <2>3, <2>4, <2>5, <2>6
  <2>8. lost \subseteq ToSet(old)
    <3>. DEFINE b == SubSeq(old, Len(old) - k + 1, Len(old))
    <3>1. \A i \in DOMAIN b : b[i] \in ToSet(old)
      BY <1>0, <1>1 DEF ToSet
    <3>. HIDE DEF b
    <3>2. ToSet(b) \subseteq ToSet(old)
      BY <3>1 DEF ToSet
    <3>. QED BY <2>1, <3>2 DEF b
  <2>9. Len(Head(given)) + Len(w) <= retain
    <3>. DEFINE l == Len(new)
    <3>1. Len(Head(given)) = l /\ l \in Nat
      BY <1>0
    <3>2. Len(old) - k + l <= retain /\ Len(old) - k \in Nat
      BY <1>1
    <3>. HIDE DEF l
    <3>. QED BY <2>3, <3>1, <3>2
  <2>10. Latest(Head(given) \o w, given)
    BY <1>0, <1>2, <2>7, <2>9, LatestIs DEF r
  <2>11. Distinct(new \o w)
    BY <1>0, <1>2, DistinctConcat
  <2>12. new \o w \in Seq(Ids) /\ ToSet(new \o w) = ToSet(new) \cup ToSet(w)
    BY <1>0, <1>2, RowsOfConcat
  <2>. QED BY <1>0, <1>2, <2>8, <2>10, <2>11, <2>12 DEF w
<1>4. CASE isRF
  <2>1. lost \in kSubset(k, ToSet(old))
    BY <1>4 DEF MayForget, k
  <2>2. lost \subseteq ToSet(old) /\ Cardinality(lost) = k
    BY <2>1 DEF kSubset
  <2>3. IsFiniteSet(ToSet(old)) /\ Cardinality(ToSet(old)) = Len(old)
    BY <1>0, DistinctSize
  <2>4. Cardinality(ToSet(w)) = Len(w)
    BY <1>2, DistinctSize
  <2>5. Cardinality(ToSet(old) \ lost) = Cardinality(ToSet(old)) - Cardinality(ToSet(old) \cap lost)
    BY <2>3, FS_Difference
  <2>6. ToSet(old) \cap lost = lost
    BY <2>2
  <2>7. Len(w) = Len(old) - k
    BY <1>2, <2>2, <2>3, <2>4, <2>5, <2>6
  <2>9. Len(Head(given)) + Len(w) <= retain
    <3>. DEFINE l == Len(new)
    <3>1. Len(Head(given)) = l /\ l \in Nat
      BY <1>0
    <3>2. Len(old) - k + l <= retain /\ Len(old) - k \in Nat
      BY <1>1
    <3>. HIDE DEF l
    <3>. QED BY <2>7, <3>1, <3>2
  <2>10. Latest(Head(given) \o w, given)
    BY <1>0, <1>2, <1>4, <2>9, LatestIs
  <2>11. Distinct(new \o w)
    BY <1>0, <1>2, DistinctConcat
  <2>12. new \o w \in Seq(Ids) /\ ToSet(new \o w) = ToSet(new) \cup ToSet(w)
    BY <1>0, <1>2, RowsOfConcat
  <2>. QED BY <1>0, <1>2, <2>2, <2>10, <2>11, <2>12 DEF w
<1>. QED BY <1>3, <1>4

\* The root hands its new rows down.
RootHands(I, d, t, F, Q, h, F2, new, s, u, Q2, cut, rest) ==
  /\ Going(d, t, F, Q, h) /\ ToSet(Q) = {Head(Q)} /\ Pending(Q) = {1} /\ Head(Q).op = "Incremental"
  /\ ~t[1].terminate /\ (\A m \in Nodes : t[m].rows \in Seq(I)) /\ F \subseteq F2
  /\ new \in Seq(I) /\ s \in Seq(I) /\ s = new \o Without(t[1].rows, F2) /\ ToSet(s) \cap F2 = {}
  /\ cut[1] = t[1].feature /\ cut[2] = t[1].dpoint
  /\ rest \in Seq(Calls(I)) /\ Len(rest) <= 1 /\ (\A c \in ToSet(rest) : c.op = "Free")
  /\ InnerNow(I, d, t, u, 1, s, new, cut, "Incremental", rest, Q2)

\* The root that hands its new rows down has grown as the calls that follow expect.
LEMMA RootInner ==
  ASSUME NEW I, NEW d, NEW t, NEW F, NEW Q, NEW h, NEW F2, NEW new, NEW s, NEW u, NEW Q2, NEW cut, NEW rest,
         RootHands(I, d, t, F, Q, h, F2, new, s, u, Q2, cut, rest)
  PROVE  RootGrown(d, t, F, Q, u, F2, Q2, rest, I) /\ u[1].rows = s /\ IsTree(u, I)
<1>h. /\ Going(d, t, F, Q, h) /\ ToSet(Q) = {Head(Q)} /\ Pending(Q) = {1} /\ Head(Q).op = "Incremental"
      /\ ~t[1].terminate /\ (\A m \in Nodes : t[m].rows \in Seq(I)) /\ F \subseteq F2
      /\ new \in Seq(I) /\ s \in Seq(I) /\ s = new \o Without(t[1].rows, F2) /\ ToSet(s) \cap F2 = {}
      /\ cut[1] = t[1].feature /\ cut[2] = t[1].dpoint
      /\ rest \in Seq(Calls(I)) /\ Len(rest) <= 1 /\ (\A c \in ToSet(rest) : c.op = "Free")
      /\ InnerNow(I, d, t, u, 1, s, new, cut, "Incremental", rest, Q2)
  BY Zenon DEF RootHands
<1>0. 1 \in Nodes
  BY NodesAre
<1>1. /\ Changed(t, u, 1, s, I) /\ ~u[1].terminate
      /\ \A left : Side(d, u, 1, left) = Part(d, s, cut[1], cut[2], left)
      /\ Q2 = WithCalls("Incremental", 1, Part(d, new, cut[1], cut[2], TRUE), Part(d, new, cut[1], cut[2], FALSE), rest)
  BY <1>h, Zenon DEF InnerNow
<1>2. (\A m \in Nodes : m # 1 => u[m] = t[m]) /\ u[1].rows = s /\ IsTree(u, I)
  BY <1>1 DEF Changed
<1>3. 1 \in Branch(t, F, Updating(Q))
  <2>1. 1 \notin Updating(Q)
    BY <1>h DEF Updating
  <2>. QED BY <1>0, <2>1, BranchIs
<1>4. ASSUME NEW left \in BOOLEAN
      PROVE  /\ Part(d, new, cut[1], cut[2], left) \in Seq(I)
             /\ Part(d, new, cut[1], cut[2], left) \o Without(t[Child(1, left)].rows, F2) = Side(d, u, 1, left)
  <2>. DEFINE k == Child(1, left)  kid == t[k].rows  w == t[1].rows  f == cut[1]  v == cut[2]
  <2>1. k \in Nodes /\ ChildRight(t, F, Q, k, Side(d, t, 1, left))
    BY <1>h, <1>3 DEF Going, Matched
  <2>2. k # 1
    BY DEF Child
  <2>. HIDE DEF k
  <2>3. kid = Side(d, t, 1, left) \/ (ToSet(kid) \subseteq F2 /\ Side(d, t, 1, left) = <<>>)
    BY <1>h, <2>1, <2>2 DEF ChildRight, Keeps
  <2>4. Side(d, t, 1, left) = Part(d, w, f, v, left)
    BY <1>h DEF Side
  <2>5. kid \in Seq(I) /\ w \in Seq(I)
    BY <1>h, <1>0, <2>1
  <2>6. s = new \o Without(w, F2)
    BY <1>h
  <2>. HIDE DEF kid, w, f, v
  <2>7. kid = Part(d, w, f, v, left) \/ (ToSet(kid) \subseteq F2 /\ Part(d, w, f, v, left) = <<>>)
    BY <2>3, <2>4, Zenon
  <2>n. new \in Seq(I)
    BY <1>h
  <2>8. Part(d, new, f, v, left) \o Without(kid, F2) = Part(d, new \o Without(w, F2), f, v, left)
    BY <2>n, <2>5, <2>7, HandedDown, SMTT(60)
  <2>9. Part(d, new, f, v, left) \in Seq(I)
    BY <1>h, PartIs
  <2>. QED BY <1>1, <2>6, <2>8, <2>9, Zenon DEF kid, k, f, v
<1>. DEFINE a == Part(d, new, cut[1], cut[2], TRUE)  b == Part(d, new, cut[1], cut[2], FALSE)  op == "Incremental"
<1>5. /\ a \in Seq(I) /\ b \in Seq(I) /\ op \in {"Update", "Incremental"} /\ op # "Update"
      /\ a \o Without(t[Child(1, TRUE)].rows, F2) = Side(d, u, 1, TRUE)
      /\ b \o Without(t[Child(1, FALSE)].rows, F2) = Side(d, u, 1, FALSE)
      /\ Q2 = WithCalls(op, 1, a, b, rest)
  BY <1>1, <1>4
<1>. HIDE DEF a, b, op
<1>6. u[1].rows \in Seq(I) /\ ToSet(u[1].rows) \cap F2 = {}
  BY <1>h, <1>2
<1>. QED BY <1>h, <1>1, <1>2, <1>5, <1>6, Zenon DEF RootGrown

\* IncrementalUpdate of the root.
LEMMA IncrementalRootKeeps ==
  ASSUME TreeInv, IncrementalRoot PROVE TreeInv'
<1>. DEFINE new == Head(stack).rows  old == DTree[1].rows  k == Excess(1, new)
<1>0. /\ stack # <<>> /\ Head(stack).op = "Incremental" /\ Head(stack).op # "Free" /\ Head(stack).n = 1 /\ ~wild
      /\ UNCHANGED <<data, rates, given>>
  BY DEF IncrementalRoot
<1>1. /\ RootCall(new, old)
      /\ stack \in Seq(Calls(Ids)) /\ Tail(stack) = <<>> /\ IsTree(DTree, Ids) /\ 1 \in Nodes
      /\ Going(data, DTree, flagged, stack, maxHeight)
      /\ ToSet(stack) = {Head(stack)} /\ Pending(stack) = {1}
      /\ twice = FALSE /\ freed \subseteq flagged /\ flagged \subseteq Ids
  BY <1>0, RootNext
<1>2. CASE k = Len(old) /\ UpdateNode(1, new, Tail(stack)) /\ UNCHANGED memory
  BY <1>0, <1>2, RootUpdated
<1>3. ASSUME k # Len(old), NEW lost \in MayForget(old, k), flagged' = flagged \cup lost,
             IncrementalNode(1, new, lost, Tail(stack)), UNCHANGED wild
      PROVE  TreeInv'
  <2>. DEFINE s == new \o Without(old, lost)  gone == Within(old, lost)  call == Call("Free", 1, gone)
              free == IF 1 = 1 THEN <<Call("Free", 1, gone)>> ELSE <<>>
  <2>1. /\ lost \subseteq ToSet(old) /\ s \in Seq(Ids) /\ Distinct(s) /\ Latest(s, given)
        /\ ToSet(s) = ToSet(new) \cup (ToSet(old) \ lost)
    BY <1>0, <1>1, <1>3, RootForgets
  <2>2. /\ new \in Seq(Ids) /\ old \in Seq(Ids)
        /\ ToSet(new) \cap flagged = {} /\ ToSet(new) \cap ToSet(old) = {} /\ ToSet(old) \cap flagged = {}
    BY <1>1, Zenon DEF RootCall
  <2>. HIDE DEF new, old, k, s, gone
  <2>3. flagged \subseteq flagged' /\ ToSet(s) \cap flagged' = {} /\ flagged' \subseteq Ids /\ lost \subseteq flagged' /\ lost \cap freed = {}
    <3>1. ToSet(old) \subseteq Ids
      BY <2>2, RowsAre
    <3>. QED BY <1>1, <1>3, <2>1, <2>2, <3>1
  <2>4. gone \in Seq(Ids) /\ ToSet(gone) = lost
    <3>1. gone \in Seq(Ids) /\ ToSet(gone) = ToSet(old) \cap lost
      BY <2>2, PickedRows DEF gone, Within
    <3>. QED BY <2>1, <3>1
  <2>5. call \in Calls(Ids) /\ call.op = "Free" /\ call.rows = gone
    BY <1>1, <2>4 DEF Call, Calls
  <2>. HIDE DEF call
  <2>6. free = <<call>>
    BY DEF call
  <2>7. IncrementalMade(Ids, 1, new, lost, Tail(stack), s, free)
    <3>1. IncrementalCall(Ids, 1, new, lost, Tail(stack), s, free)
      BY <1>1, <1>3, <2>1, <2>2 DEF IncrementalCall, s, old, gone
    <3>. HIDE DEF free
    <3>. QED BY <3>1, IncrementalIs
  <2>8. free \in Seq(Calls(Ids)) /\ Len(free) = 1 /\ ToSet(free) = {call} /\ free \o Tail(stack) = free
    <3>1. free \in Seq(Calls(Ids)) /\ Len(free) = 1 /\ ToSet(free) = {call}
      BY <2>5, <2>6 DEF ToSet
    <3>. HIDE DEF free
    <3>. QED BY <1>1, <3>1, ConcatEmptySeq
  <2>. DEFINE e == <<>>
  <2>9. e \in Seq(Calls(Ids)) /\ Len(e) = 0 /\ ToSet(e) = {} /\ Tail(stack) = e
    BY <1>1 DEF ToSet
  <2>. HIDE DEF free, e
  <2>10. UNCHANGED <<data, rates, wild, given>>
    BY <1>0, <1>3
  <2>11. ASSUME NEW rest \in Seq(Calls(Ids)), Len(rest) <= 1,
               \A c \in ToSet(rest) : c.op = "Free" /\ ToSet(c.rows) \subseteq flagged' /\ ToSet(c.rows) \cap freed' = {},
               freed' \subseteq flagged', twice' = FALSE,
               IsTree(DTree', Ids), DTree'[1].rows = s,
               RootGrown(data, DTree, flagged, stack, DTree', flagged', stack', rest, Ids)
        PROVE  TreeInv'
    <3>1. RootStep(rest)
      BY <2>1, <2>3, <2>11 DEF RootStep
    <3>. QED BY <1>0, <2>10, <3>1, RootKeeps
  <2>12. ASSUME NEW rest \in Seq(Calls(Ids)), Len(rest) <= 1,
               \A c \in ToSet(rest) : c.op = "Free" /\ ToSet(c.rows) \subseteq flagged' /\ ToSet(c.rows) \cap freed' = {},
               freed' \subseteq flagged', twice' = FALSE,
               RebuiltNow(Ids, data, DTree, DTree', 1, s, maxHeight, rest, stack')
        PROVE  TreeInv'
    <3>1. /\ IsTree(DTree', Ids) /\ DTree'[1].rows = s
          /\ RootGrown(data, DTree, flagged, stack, DTree', flagged', stack', rest, Ids)
      BY <2>1, <2>3, <2>12, RootRebuilt
    <3>. QED BY <2>11, <2>12, <3>1
  <2>13. UNCHANGED <<freed, twice>> =>
           /\ freed' \subseteq flagged' /\ twice' = FALSE
           /\ \A c \in ToSet(free) : c.op = "Free" /\ ToSet(c.rows) \subseteq flagged' /\ ToSet(c.rows) \cap freed' = {}
    BY <1>1, <2>3, <2>4, <2>5, <2>8
  <2>14. Free(lost) => freed' \subseteq flagged' /\ twice' = FALSE
    BY <1>1, <2>3 DEF Free
  <2>15. CASE /\ RebuiltNow(Ids, data, DTree, DTree', 1, s, maxHeight, e, stack')
              /\ Free(lost) \/ UNCHANGED <<freed, twice>>
    <3>1. freed' \subseteq flagged' /\ twice' = FALSE
      <4>1. CASE Free(lost)
        BY <2>14, <4>1
      <4>2. CASE UNCHANGED <<freed, twice>>
        BY <2>13, <4>2
      <4>. QED BY <2>15, <4>1, <4>2, Zenon
    <3>2. RebuiltNow(Ids, data, DTree, DTree', 1, s, maxHeight, e, stack')
      BY <2>15, Zenon
    <3>3. /\ e \in Seq(Calls(Ids)) /\ Len(e) <= 1
          /\ \A c \in ToSet(e) : c.op = "Free" /\ ToSet(c.rows) \subseteq flagged' /\ ToSet(c.rows) \cap freed' = {}
      BY <2>9
    <3>. QED BY <2>12, <3>1, <3>2, <3>3, Zenon
  <2>16. CASE /\ RebuiltNow(Ids, data, DTree, DTree', 1, s, maxHeight, free, stack')
              /\ UNCHANGED <<freed, twice>>
    <3>1. /\ freed' \subseteq flagged' /\ twice' = FALSE
          /\ \A c \in ToSet(free) : c.op = "Free" /\ ToSet(c.rows) \subseteq flagged' /\ ToSet(c.rows) \cap freed' = {}
      BY <2>13, <2>16
    <3>2. free \in Seq(Calls(Ids)) /\ Len(free) <= 1 /\ RebuiltNow(Ids, data, DTree, DTree', 1, s, maxHeight, free, stack')
      BY <2>8, <2>16
    <3>. QED BY <2>12, <3>1, <3>2, Zenon
  <2>17. ASSUME NEW cut, InnerNow(Ids, data, DTree, DTree', 1, s, new, cut, "Incremental", free, stack'),
                cut[1] = DTree[1].feature, cut[2] = DTree[1].dpoint, ~DTree[1].terminate, UNCHANGED <<freed, twice>>
         PROVE  TreeInv'
    <3>1. s = new \o Without(DTree[1].rows, flagged')
      <4>1. ToSet(old) \cap lost = ToSet(old) \cap flagged'
        BY <1>3, <2>2
      <4>2. Without(old, lost) = Without(old, flagged')
        BY <2>2, <4>1, WithoutSame, ZenonT(60)
      <4>. QED BY <4>2 DEF s, old
    <3>2. \A m \in Nodes : DTree[m].rows \in Seq(Ids)
      BY <1>1 DEF IsTree, NodeOK
    <3>3. /\ RootGrown(data, DTree, flagged, stack, DTree', flagged', stack', free, Ids) /\ DTree'[1].rows = s /\ IsTree(DTree', Ids)
      <4>. DEFINE F2 == flagged'  u == DTree'  Q2 == stack'
      <4>. HIDE DEF F2, u, Q2
      <4>1. /\ flagged \subseteq F2 /\ s = new \o Without(DTree[1].rows, F2) /\ ToSet(s) \cap F2 = {}
            /\ InnerNow(Ids, data, DTree, u, 1, s, new, cut, "Incremental", free, Q2)
        BY <2>3, <2>17, <3>1 DEF F2, u, Q2
      <4>2. free \in Seq(Calls(Ids)) /\ Len(free) <= 1 /\ \A c \in ToSet(free) : c.op = "Free"
        BY <2>5, <2>8
      <4>3. RootGrown(data, DTree, flagged, stack, u, F2, Q2, free, Ids) /\ u[1].rows = s /\ IsTree(u, Ids)
        <5>1. RootHands(Ids, data, DTree, flagged, stack, maxHeight, F2, new, s, u, Q2, cut, free)
          BY <1>0, <1>1, <2>1, <2>2, <2>17, <3>2, <4>1, <4>2 DEF RootHands
        <5>. QED BY <5>1, RootInner, SMT
      <4>. QED BY <4>3 DEF F2, u, Q2
    <3>4. /\ freed' \subseteq flagged' /\ twice' = FALSE
          /\ \A c \in ToSet(free) : c.op = "Free" /\ ToSet(c.rows) \subseteq flagged' /\ ToSet(c.rows) \cap freed' = {}
      BY <2>13, <2>17
    <3>5. free \in Seq(Calls(Ids)) /\ Len(free) <= 1
      BY <2>8
    <3>. QED BY <2>11, <3>3, <3>4, <3>5, Zenon
  <2>. QED BY <2>7, <2>8, <2>9, <2>15, <2>16, <2>17, Zenon DEF IncrementalMade
<1>4. \/ k = Len(old) /\ UpdateNode(1, new, Tail(stack)) /\ UNCHANGED memory
      \/ /\ k # Len(old)
         /\ \E lost \in MayForget(old, k) : /\ flagged' = flagged \cup lost
                                            /\ IncrementalNode(1, new, lost, Tail(stack)) /\ UNCHANGED wild
  BY Zenon DEF IncrementalRoot
<1>. QED BY <1>2, <1>3, <1>4, Zenon

-----------------------------------------------------------------------------
(* The other steps.                                                          *)

\* A step of Update.
LEMMA UpdateKeeps ==
  ASSUME TreeInv, Update PROVE TreeInv'
<1>1. CASE Head(stack).n # 1
  BY <1>1, UpdateChildKeeps
<1>2. CASE Head(stack).n = 1
  <2>1. /\ stack # <<>> /\ Head(stack).op = "Update" /\ ~wild
        /\ UpdateNode(1, Head(stack).rows, Tail(stack)) /\ UNCHANGED <<data, rates, memory, given>>
    BY <1>2 DEF Update
  <2>. QED BY <1>2, <2>1, RootUpdated
<1>. QED BY <1>1, <1>2

\* The release of rows is the last of the calls.
LEMMA FreeForgottenKeeps ==
  ASSUME TreeInv, FreeForgotten PROVE TreeInv'
<1>. DEFINE c == Head(stack)  e == <<>>
<1>0. /\ stack # <<>> /\ c.op = "Free" /\ ~wild /\ Free(ToSet(c.rows)) /\ stack' = Tail(stack)
      /\ UNCHANGED <<data, DTree, rates, flagged, wild, given>>
  BY DEF FreeForgotten
<1>1. TreeShape /\ Unreleased /\ Going(data, DTree, flagged, stack, maxHeight) /\ RootRows
  BY <1>0 DEF TreeInv, Growing
<1>2. UNCHANGED <<data, DTree, isRF, maxHeight, retain, forgetRate, flagged, wild, given>> /\ Ids' = Ids
  BY <1>0 DEF rates, Ids
<1>3. stack \in Seq(Calls(Ids)) /\ stack' = e /\ ToSet(stack) = {c} /\ ToSet(e) = {} /\ e \in Seq(Calls(Ids))
  <2>1. stack \in Seq(Calls(Ids)) /\ StackOK(stack)
    BY <1>1 DEF TreeShape, Going
  <2>2. 1 \in DOMAIN stack /\ stack[1].op = "Free" /\ stack[1] = c
    BY <1>0, <2>1
  <2>3. Len(stack) = 1
    BY <2>1, <2>2 DEF StackOK
  <2>4. Tail(stack) \in Seq(Calls(Ids)) /\ Len(Tail(stack)) = 0
    BY <2>1, <2>3
  <2>5. Tail(stack) = <<>>
    BY <2>4, EmptySeq
  <2>6. DOMAIN stack = {1}
    BY <2>1, <2>3
  <2>7. ToSet(stack) = {c}
    BY <2>2, <2>6 DEF ToSet
  <2>8. ToSet(e) = {} /\ e \in Seq(Calls(Ids))
    BY DEF ToSet
  <2>. QED BY <1>0, <2>1, <2>5, <2>7, <2>8
<1>4. Pending(stack) = {} /\ Updating(stack) = {} /\ Pending(e) = {} /\ Updating(e) = {}
  BY <1>0, <1>3 DEF Pending, Updating
<1>. HIDE DEF e
<1>5. Going(data, DTree, flagged, e, maxHeight)
  <2>1. Matched(data, DTree, flagged, e)
    <3>. SUFFICES ASSUME NEW n \in Branch(DTree, flagged, Updating(e)), ~DTree[n].terminate, NEW left \in BOOLEAN
                  PROVE  Child(n, left) \in Nodes /\ ChildRight(DTree, flagged, e, Child(n, left), Side(data, DTree, n, left))
      BY DEF Matched
    <3>1. Child(n, left) \in Nodes /\ ChildRight(DTree, flagged, stack, Child(n, left), Side(data, DTree, n, left))
      BY <1>1, <1>4 DEF Going, Matched
    <3>. QED BY <1>3, <1>4, <3>1 DEF ChildRight
  <2>2. Visited(DTree, flagged, e, maxHeight)
    BY <1>1, <1>4 DEF Going, Visited
  <2>3. Waiting(DTree, flagged, e)
    BY <1>3 DEF Waiting
  <2>4. StackOK(e)
    BY DEF StackOK, e
  <2>. QED BY <2>1, <2>2, <2>3, <2>4 DEF Going
<1>6. Going(data, DTree, flagged, stack, maxHeight)'
  BY <1>2, <1>3, <1>5
<1>7. TreeShape'
  BY <1>1, <1>2, <1>3 DEF TreeShape, IsTree, Calls
<1>8. Unreleased'
  <2>1. ToSet(c.rows) \subseteq flagged /\ ToSet(c.rows) \cap freed = {}
    BY <1>0, <1>1, <1>3 DEF Unreleased
  <2>2. twice' = FALSE /\ freed' = freed \cup ToSet(c.rows)
    BY <1>0, <1>1, <2>1 DEF Free, Unreleased
  <2>. QED BY <1>1, <1>2, <1>3, <2>1, <2>2 DEF Unreleased
<1>9. RootRows'
  BY <1>1, <1>2, <1>3, <1>4 DEF RootRows, Latest
<1>. QED BY <1>6, <1>7, <1>8, <1>9 DEF TreeInv, Growing

\* A fit that begins with a rebuild of the root leaves nothing to be said of the nodes.
LEMMA BeginsUpdate ==
  ASSUME NEW d, NEW t, NEW F, NEW h, NEW Q, NEW c, Q = <<c>>, c.op = "Update", c.n = 1
  PROVE  Going(d, t, F, Q, h)
<1>1. ToSet(Q) = {c} /\ DOMAIN Q = {1} /\ Len(Q) = 1 /\ Q[1] = c
  BY DEF ToSet
<1>2. Pending(Q) = {1} /\ Updating(Q) = {1}
  BY <1>1 DEF Pending, Updating
<1>3. Branch(t, F, Pending(Q)) = {} /\ Branch(t, F, Updating(Q)) = {}
  BY <1>2 DEF Branch
<1>4. Matched(d, t, F, Q) /\ Visited(t, F, Q, h)
  BY <1>3 DEF Matched, Visited
<1>5. Waiting(t, F, Q) /\ StackOK(Q)
  BY <1>1 DEF Waiting, StackOK
<1>. QED BY <1>1, <1>2, <1>4, <1>5 DEF Going

\* A fit that begins with IncrementalUpdate of the root: the nodes are as before, and so are the rows
\* they have.
Resumes(d, e, t, F, h, Q, c, I) ==
  /\ Going(d, t, F, <<>>, h) /\ (\A m \in Nodes : t[m].rows \in Seq(I)) /\ (\A r \in I : e[r] = d[r])
  /\ Q = <<c>> /\ c.op = "Incremental" /\ c.n = 1

\* The invariant of the calls holds at the beginning of a fit of the tree there is.
LEMMA BeginsIncremental ==
  ASSUME NEW d, NEW e, NEW t, NEW F, NEW h, NEW h2, NEW Q, NEW c, NEW I, Resumes(d, e, t, F, h, Q, c, I)
  PROVE  Going(e, t, F, Q, h2)
<1>h. /\ Going(d, t, F, <<>>, h) /\ (\A m \in Nodes : t[m].rows \in Seq(I)) /\ (\A r \in I : e[r] = d[r])
      /\ Q = <<c>> /\ c.op = "Incremental" /\ c.n = 1
  BY Zenon DEF Resumes
<1>1. ToSet(Q) = {c} /\ DOMAIN Q = {1} /\ Len(Q) = 1 /\ Q[1] = c
  BY <1>h DEF ToSet
<1>2. Pending(Q) = {1} /\ Updating(Q) = {} /\ Pending(<<>>) = {} /\ Updating(<<>>) = {} /\ ToSet(<<>>) = {}
  BY <1>h, <1>1 DEF Pending, Updating, ToSet
<1>3. Branch(t, F, Pending(Q)) = {}
  BY <1>2 DEF Branch
<1>4. Visited(t, F, Q, h2)
  BY <1>3 DEF Visited
<1>5. Waiting(t, F, Q) /\ StackOK(Q)
  BY <1>h, <1>1 DEF Waiting, StackOK
<1>6. Matched(e, t, F, Q)
  <2>. SUFFICES ASSUME NEW n \in Branch(t, F, Updating(Q)), ~t[n].terminate, NEW left \in BOOLEAN
                PROVE  Child(n, left) \in Nodes /\ ChildRight(t, F, Q, Child(n, left), Side(e, t, n, left))
    BY DEF Matched
  <2>. DEFINE k == Child(n, left)
  <2>0. n \in Nodes /\ n >= 1 /\ n \in Nat
    BY BranchIs, NodesAre
  <2>1. k \in Nodes /\ ChildRight(t, F, <<>>, k, Side(d, t, n, left))
    BY <1>h, <1>2 DEF Going, Matched
  <2>2. Side(e, t, n, left) = Side(d, t, n, left)
    <3>1. \A r \in ToSet(t[n].rows) : e[r] = d[r]
      BY <1>h, <2>0, RowsAre
    <3>. QED BY <3>1, PartSame DEF Side
  <2>3. k # 1
    BY <2>0 DEF Child
  <2>. HIDE DEF k
  <2>4. ChildRight(t, F, Q, k, Side(e, t, n, left))
    BY <1>h, <1>1, <1>2, <2>1, <2>2, <2>3 DEF ChildRight
  <2>. QED BY <2>1, <2>4 DEF k
<1>. QED BY <1>1, <1>2, <1>4, <1>5, <1>6 DEF Going

\* The ids of a batch are new.
LEMMA NewIdsAre ==
  ASSUME data \in Seq(Points \X Classes), NEW b \in Seq(Points \X Classes), Len(b) \in 1 .. MaxRetain, data' = data \o b
  PROVE  LET new == NewIds(Len(b)) IN
         /\ data' \in Seq(Points \X Classes) /\ Ids \subseteq Ids'
         /\ new \in Seq(Ids') /\ Len(new) = Len(b) /\ Distinct(new) /\ ToSet(new) \cap Ids = {}
         /\ \A r \in Ids : data'[r] = data[r]
<1>. DEFINE l == Len(data)  k == Len(b)  new == NewIds(k)
<1>1. l \in Nat /\ k \in Nat /\ k >= 1 /\ Ids = 1 .. l
  BY DEF Ids
<1>2. /\ data' \in Seq(Points \X Classes) /\ Len(data') = l + k
      /\ \A i \in 1 .. l + k : data'[i] = IF i <= l THEN data[i] ELSE b[i - l]
  BY ConcatProperties
<1>3. Ids' = 1 .. l + k
  BY <1>2 DEF Ids
<1>. HIDE DEF l, k
<1>4. new = [i \in 1 .. k |-> l + i]
  BY DEF NewIds, l, k
<1>. HIDE DEF new
<1>5. new \in Seq(Ids') /\ Len(new) = k /\ DOMAIN new = 1 .. k /\ \A i \in 1 .. k : new[i] = l + i
  <2>1. \A i \in 1 .. k : l + i \in Ids'
    BY <1>1, <1>3
  <2>. QED BY <1>1, <1>4, <2>1
<1>6. Distinct(new) /\ ToSet(new) \cap Ids = {}
  BY <1>1, <1>5 DEF Distinct, ToSet
<1>7. Ids \subseteq Ids' /\ \A r \in Ids : data'[r] = data[r]
  BY <1>1, <1>2, <1>3
<1>. QED BY <1>2, <1>5, <1>6, <1>7 DEF new, k

\* Rows of a tree that were there are there when there are more.
LEMMA MoreIds ==
  ASSUME NEW I, NEW J, I \subseteq J
  PROVE  /\ Seq(I) \subseteq Seq(J) /\ Seq(Seq(I)) \subseteq Seq(Seq(J))
         /\ \A t : IsTree(t, I) => IsTree(t, J)
<1>1. \A S, T : S \subseteq T => Seq(S) \subseteq Seq(T)
  OBVIOUS
<1>2. Seq(I) \subseteq Seq(J) /\ Seq(Seq(I)) \subseteq Seq(Seq(J))
  <2>1. Seq(I) \subseteq Seq(J)
    BY <1>1
  <2>. QED BY <1>1, <2>1
<1>. QED BY <1>2 DEF IsTree, NodeOK

\* A new tree.
LEMMA NewTreeIs ==
  ASSUME NEW I PROVE IsTree(NewTree, I) /\ NewTree[1].rows = <<>> /\ \A n \in Nodes : NewTree[n].rows = <<>>
<1>0. 1 \in Nodes /\ 0 \in Classes /\ <<>> \in Seq(I)
  BY NodesAre, TreeAssumption DEF Classes
<1>. DEFINE x == NewNode  y == [NewNode EXCEPT !.created = TRUE, !.terminate = TRUE, !.result = 0]
<1>1. /\ DOMAIN x = NodeFields /\ x.created = FALSE /\ x.terminate = FALSE /\ x.rows = <<>> /\ x.result = NoResult
      /\ DOMAIN y = NodeFields /\ y.created = TRUE /\ y.terminate = TRUE /\ y.rows = <<>> /\ y.result = 0
  BY DEF NewNode, NodeFields
<1>2. NewTree = [n \in Nodes |-> IF n = 1 THEN y ELSE x]
  BY DEF NewTree
<1>. HIDE DEF x, y
<1>3. NodeOK(x, I) /\ NodeOK(y, I)
  BY <1>0, <1>1 DEF NodeOK
<1>4. NewTree = [n \in Nodes |-> NewTree[n]] /\ \A n \in Nodes : NewTree[n] = IF n = 1 THEN y ELSE x
  BY <1>2
<1>. QED BY <1>0, <1>1, <1>3, <1>4 DEF IsTree

\* The bounds that depend on retain.
LEMMA RetainIs ==
  ASSUME NEW r \in 1 .. MaxRetain, Retain(r)
  PROVE  retain' = r /\ retain' \in 0 .. MaxRetain /\ maxHeight' \in 1 .. Log2[MaxRetain] /\ isRF' = isRF
<1>1. MaxRetain \in Nat /\ MaxRetain >= 1
  BY TreeAssumption
<1>2. r \in 1 .. 2 * MaxRetain /\ MaxRetain \in 1 .. 2 * MaxRetain /\ r <= MaxRetain
  BY <1>1
<1>3. Log2[r] \in Nat /\ Log2[r] <= Log2[MaxRetain] /\ Log2[MaxRetain] \in Nat /\ Log2[MaxRetain] >= 1
  BY <1>2, Heights, NodesAre
<1>4. maxHeight' = (IF Log2[r] > 1 THEN Log2[r] ELSE 1) /\ retain' = r /\ isRF' = isRF
  BY DEF Retain, Larger
<1>5. maxHeight' \in 1 .. Log2[MaxRetain]
  <2>. DEFINE a == Log2[r]  b == Log2[MaxRetain]
  <2>1. a \in Nat /\ b \in Nat /\ a <= b /\ b >= 1 /\ maxHeight' = IF a > 1 THEN a ELSE 1
    BY <1>3, <1>4
  <2>. HIDE DEF a, b
  <2>2. maxHeight' \in 1 .. b
    BY <2>1
  <2>. QED BY <2>2 DEF b
<1>. QED BY <1>1, <1>4, <1>5

\* A step that gives the tree a batch: the tree and the history are as before, or new ones.
BatchGiven(b, op, u, g) ==
  /\ stack = <<>> /\ ~wild /\ b \in Seq(Points \X Classes) /\ Len(b) \in 1 .. MaxRetain
  /\ data' = data \o b /\ given' = <<NewIds(Len(b))>> \o g /\ stack' = <<Call(op, 1, NewIds(Len(b)))>> /\ DTree' = u
  /\ retain' \in Len(b) .. MaxRetain /\ maxHeight' \in 1 .. Log2[MaxRetain] /\ forgetRate' \in {-10, -5, 0}
  /\ UNCHANGED <<isRF, flagged, freed, twice, wild>>
  /\ op \in {"Update", "Incremental"} /\ (op = "Incremental" => u = DTree /\ g = given)
  /\ u \in {DTree, NewTree} /\ g \in {given, <<>>}

\* A batch given to the tree, old or new, keeps the invariant.
LEMMA BatchKeeps ==
  ASSUME TreeInv, NEW b, NEW op, NEW u, NEW g, BatchGiven(b, op, u, g)
  PROVE  TreeInv'
<1>. DEFINE new == NewIds(Len(b))  c == Call(op, 1, new)
<1>0. /\ stack = <<>> /\ ~wild /\ b \in Seq(Points \X Classes) /\ Len(b) \in 1 .. MaxRetain
      /\ data' = data \o b /\ given' = <<new>> \o g /\ stack' = <<c>> /\ DTree' = u
      /\ retain' \in Len(b) .. MaxRetain /\ maxHeight' \in 1 .. Log2[MaxRetain] /\ forgetRate' \in {-10, -5, 0}
      /\ UNCHANGED <<isRF, flagged, freed, twice, wild>>
      /\ op \in {"Update", "Incremental"} /\ (op = "Incremental" => u = DTree /\ g = given)
      /\ u \in {DTree, NewTree} /\ g \in {given, <<>>}
  BY Zenon DEF BatchGiven
<1>1. TreeShape /\ Unreleased /\ Going(data, DTree, flagged, stack, maxHeight) /\ RootRows
  BY <1>0 DEF TreeInv, Growing
<1>2. /\ data \in Seq(Points \X Classes) /\ IsTree(DTree, Ids) /\ isRF \in BOOLEAN /\ given \in Seq(Seq(Ids)) /\ 1 \in Nodes
      /\ \A m \in Nodes : DTree[m].rows \in Seq(Ids)
  BY <1>1, NodesAre DEF TreeShape, IsTree, NodeOK
<1>3. /\ data' \in Seq(Points \X Classes) /\ Ids \subseteq Ids'
      /\ new \in Seq(Ids') /\ Len(new) = Len(b) /\ Distinct(new) /\ ToSet(new) \cap Ids = {}
      /\ \A r \in Ids : data'[r] = data[r]
  BY <1>0, <1>2, NewIdsAre
<1>. HIDE DEF new
<1>4. IsTree(DTree', Ids') /\ g \in Seq(Seq(Ids'))
  <2>1. IsTree(DTree, Ids') /\ given \in Seq(Seq(Ids'))
    <3>. DEFINE J == Ids'
    <3>1. Ids \subseteq J
      BY <1>3
    <3>. HIDE DEF J
    <3>2. IsTree(DTree, J) /\ given \in Seq(Seq(J))
      BY <1>2, <3>1, MoreIds
    <3>. QED BY <3>2 DEF J
  <2>2. IsTree(NewTree, Ids')
    BY NewTreeIs
  <2>3. <<>> \in Seq(Seq(Ids'))
    OBVIOUS
  <2>. QED BY <1>0, <2>1, <2>2, <2>3
<1>5. c \in Calls(Ids') /\ c.op = op /\ c.n = 1 /\ c.rows = new
  BY <1>0, <1>2, <1>3 DEF Call, Calls
<1>. HIDE DEF c
<1>6. given' \in Seq(Seq(Ids')) /\ given' # <<>> /\ Head(given') = new /\ Tail(given') = g
  <2>1. g \in Seq(Seq(Ids')) /\ <<new>> \in Seq(Seq(Ids'))
    BY <1>3, <1>4
  <2>. DEFINE w == <<new>> \o g
  <2>2. /\ w \in Seq(Seq(Ids')) /\ Len(w) = 1 + Len(g) /\ Len(g) \in Nat
        /\ \A k \in 1 .. 1 + Len(g) : w[k] = IF k = 1 THEN new ELSE g[k - 1]
    <3>1. Len(<<new>>) = 1 /\ <<new>>[1] = new
      OBVIOUS
    <3>2. w \in Seq(Seq(Ids')) /\ Len(w) = Len(<<new>>) + Len(g) /\ Len(g) \in Nat
          /\ \A k \in 1 .. Len(<<new>>) + Len(g) : w[k] = IF k <= Len(<<new>>) THEN <<new>>[k] ELSE g[k - Len(<<new>>)]
      BY <2>1, ConcatProperties
    <3>. HIDE DEF w
    <3>. QED BY <3>1, <3>2
  <2>. HIDE DEF w
  <2>3. w # <<>> /\ Head(w) = new
    BY <2>2
  <2>4. Tail(w) = g
    <3>1. Tail(w) \in Seq(Seq(Ids')) /\ Len(Tail(w)) = Len(g) /\ \A k \in 1 .. Len(g) : Tail(w)[k] = g[k]
      BY <2>2
    <3>. QED BY <2>1, <3>1, SeqEqual
  <2>. QED BY <1>0, <2>2, <2>3, <2>4 DEF w
<1>7. Going(data', u, flagged, stack', maxHeight') /\ Pending(stack') = {1} /\ ToSet(stack') = {c}
  <2>. DEFINE e == data'  Q == stack'  h2 == maxHeight'
  <2>. HIDE DEF e, Q, h2
  <2>0. Q = <<c>> /\ (\A r \in Ids : e[r] = data[r]) /\ Going(data, DTree, flagged, <<>>, maxHeight)
    BY <1>0, <1>1, <1>3 DEF e, Q
  <2>3. Pending(Q) = {1} /\ ToSet(Q) = {c}
    <3>1. ToSet(Q) = {c}
      BY <2>0 DEF ToSet
    <3>. QED BY <1>0, <1>5, <3>1 DEF Pending
  <2>1. CASE op = "Update"
    <3>1. Going(e, u, flagged, Q, h2)
      BY <1>5, <2>0, <2>1, BeginsUpdate
    <3>. QED BY <2>3, <3>1 DEF e, Q, h2
  <2>2. CASE op = "Incremental"
    <3>1. Going(e, DTree, flagged, Q, h2)
      <4>. DEFINE I == Ids
      <4>1. Going(data, DTree, flagged, <<>>, maxHeight) /\ (\A m \in Nodes : DTree[m].rows \in Seq(I)) /\ (\A r \in I : e[r] = data[r])
        BY <1>2, <2>0
      <4>2. Q = <<c>> /\ c.op = "Incremental" /\ c.n = 1
        BY <1>5, <2>0, <2>2
      <4>. HIDE DEF I
      <4>3. Resumes(data, e, DTree, flagged, maxHeight, Q, c, I)
        BY <4>1, <4>2 DEF Resumes
      <4>. QED BY <4>3, BeginsIncremental, Zenon
    <3>. QED BY <1>0, <2>2, <2>3, <3>1 DEF e, Q, h2
  <2>. QED BY <1>0, <2>1, <2>2
<1>8. Going(data, DTree, flagged, stack, maxHeight)'
  BY <1>0, <1>7
<1>9. TreeShape'
  <2>1. stack' \in Seq(Calls(Ids'))
    BY <1>0, <1>5
  <2>2. retain' \in 0 .. MaxRetain
    BY <1>0, TreeAssumption
  <2>3. IsTree(DTree, Ids)' /\ Seq(Calls(Ids))' = Seq(Calls(Ids'))
    BY <1>4 DEF IsTree, Calls
  <2>. QED BY <1>0, <1>1, <1>3, <1>6, <2>1, <2>2, <2>3 DEF TreeShape
<1>10. DTree'[1].rows = DTree[1].rows \/ DTree'[1].rows = <<>>
  BY <1>0, NewTreeIs
<1>11. Unreleased'
  <2>1. ToSet(DTree'[1].rows) \cap flagged = {}
    <3>1. ToSet(<<>>) = {}
      BY DEF ToSet
    <3>. QED BY <1>1, <1>10, <3>1 DEF Unreleased
  <2>. QED BY <1>0, <1>1, <1>3, <1>5, <1>7, <2>1 DEF Unreleased
<1>12. RootRows'
  <2>1. Distinct(DTree'[1].rows)
    BY <1>1, <1>10 DEF RootRows, Distinct
  <2>2. ToSet(new) \cap (flagged \cup ToSet(DTree'[1].rows)) = {}
    <3>1. flagged \subseteq Ids
      BY <1>1 DEF Unreleased
    <3>2. ToSet(DTree[1].rows) \subseteq Ids /\ ToSet(<<>>) = {}
      BY <1>2, RowsAre DEF ToSet
    <3>. QED BY <1>3, <1>10, <3>1, <3>2
  <2>3. op = "Incremental" /\ ~isRF =>
          /\ DTree'[1].rows = DTree[1].rows /\ g = given
          /\ Len(DTree[1].rows) <= Len(FlattenSeq(given)) /\ DTree[1].rows = SubSeq(FlattenSeq(given), 1, Len(DTree[1].rows))
    <3>1. Pending(stack) = {}
      BY <1>0 DEF Pending, ToSet
    <3>2. Latest(DTree[1].rows, given)
      BY <1>1, <3>1 DEF RootRows
    <3>. QED BY <1>0, <3>2 DEF Latest
  <2>4. Len(new) \in 1 .. retain'
    <3>. DEFINE l == Len(b)
    <3>1. l \in 1 .. MaxRetain /\ retain' \in l .. MaxRetain /\ Len(new) = l /\ MaxRetain \in Nat
      BY <1>0, <1>3, TreeAssumption
    <3>. HIDE DEF l
    <3>. QED BY <3>1
  <2>. QED BY <1>0, <1>3, <1>5, <1>6, <1>7, <2>1, <2>2, <2>3, <2>4 DEF RootRows
<1>. QED BY <1>8, <1>9, <1>11, <1>12 DEF TreeInv, Growing

\* The number of doublings is a number.
LEMMA DoublingsAre == ASSUME NEW r \in Nat PROVE Doublings(r) \in Nat
<1>. DEFINE S == {k \in 0 .. r : roundNo * 2^k <= r}
<1>1. IsFiniteSet(0 .. r)
  BY FS_Interval
<1>2. S \subseteq 0 .. r
  OBVIOUS
<1>. HIDE DEF S
<1>3. IsFiniteSet(S)
  BY <1>1, <1>2, FS_Subset
<1>4. Cardinality(S) \in Nat
  BY <1>3, FS_CardinalityType
<1>. QED BY <1>4 DEF Doublings, S

\* A fit.
LEMMA FitKeeps ==
  ASSUME TreeInv, NEW b \in Batches, fit(b) PROVE TreeInv'
<1>. DEFINE l == Len(b)  new == NewIds(l)  s == DTree[1].rows
<1>0. /\ stack = <<>> /\ ~wild /\ data' = data \o b /\ given' = <<new>> \o given
      /\ UNCHANGED <<DTree, memory>>
  BY DEF fit
<1>1. b \in Seq(Points \X Classes) /\ l \in 1 .. MaxRetain /\ MaxRetain \in Nat
  BY TreeAssumption
<1>2. TreeShape
  BY DEF TreeInv
<1>3. forgetRate \in {-10, -5, 0} /\ s \in Seq(Ids)
  BY <1>2, NodesAre DEF TreeShape, IsTree, NodeOK
<1>4. ASSUME NEW op \in {"Update", "Incremental"}, stack' = <<Call(op, 1, new)>>,
             NEW r \in l .. MaxRetain, Retain(r), forgetRate' \in {-10, -5, 0}
      PROVE  TreeInv'
  <2>1. r \in 1 .. MaxRetain
    BY <1>1, <1>4
  <2>2. retain' = r /\ maxHeight' \in 1 .. Log2[MaxRetain] /\ isRF' = isRF
    BY <1>4, <2>1, RetainIs
  <2>3. BatchGiven(b, op, DTree, given)
    BY <1>0, <1>1, <1>4, <2>2 DEF BatchGiven, memory
  <2>. QED BY <2>3, BatchKeeps
<1>5. CASE Retain(l) /\ stack' = <<Call("Update", 1, new)>> /\ UNCHANGED <<roundNo, forgetRate>>
  <2>1. l \in l .. MaxRetain /\ forgetRate' \in {-10, -5, 0}
    BY <1>1, <1>3, <1>5
  <2>. DEFINE op == "Update"
  <2>2. op \in {"Update", "Incremental"} /\ stack' = <<Call(op, 1, new)>>
    BY <1>5
  <2>. HIDE DEF op, new, l
  <2>. QED BY <1>4, <1>5, <2>1, <2>2, Zenon
<1>6. CASE /\ \E r \in l .. MaxRetain : Retain(r)
           /\ stack' = <<Call("Incremental", 1, new)>> /\ UNCHANGED <<roundNo, forgetRate>>
  <2>1. forgetRate' \in {-10, -5, 0}
    BY <1>3, <1>6
  <2>. DEFINE op == "Incremental"
  <2>2. op \in {"Update", "Incremental"} /\ stack' = <<Call(op, 1, new)>>
    BY <1>6
  <2>. HIDE DEF op, new, l
  <2>. QED BY <1>4, <1>6, <2>1, <2>2, Zenon
<1>7. CASE /\ forgetRate < 0
           /\ LET r == Len(s) + l IN
                /\ r <= MaxRetain /\ Retain(r)
                /\ \E better \in BOOLEAN :
                     forgetRate' = IF ~better THEN -10
                                   ELSE IF forgetRate + 5 * Doublings(r) >= 0 THEN 0
                                   ELSE forgetRate + 5 * Doublings(r)
           /\ stack' = <<Call("Incremental", 1, new)>>
  <2>. DEFINE r == Len(s) + l  k == Doublings(r)
  <2>1. r \in l .. MaxRetain /\ r \in Nat
    BY <1>1, <1>3, <1>7
  <2>2. k \in Nat
    BY <2>1, DoublingsAre
  <2>3. forgetRate' \in {-10, -5, 0}
    <3>1. forgetRate' = -10 \/ forgetRate' = 0 \/ (forgetRate + 5 * k < 0 /\ forgetRate' = forgetRate + 5 * k)
      <4>1. forgetRate + 5 * k \in Int
        BY <1>3, <2>2
      <4>2. forgetRate' = -10 \/ forgetRate' = (IF forgetRate + 5 * k >= 0 THEN 0 ELSE forgetRate + 5 * k)
        BY <1>7
      <4>. HIDE DEF k
      <4>. QED BY <4>1, <4>2
    <3>. HIDE DEF k
    <3>2. forgetRate = -10 \/ forgetRate = -5
      BY <1>3, <1>7
    <3>. QED BY <2>2, <3>1, <3>2
  <2>4. Retain(r)
    BY <1>7
  <2>. DEFINE op == "Incremental"
  <2>5. op \in {"Update", "Incremental"} /\ stack' = <<Call(op, 1, new)>>
    BY <1>7
  <2>. HIDE DEF op, new, l, r, k
  <2>. QED BY <1>4, <2>1, <2>3, <2>4, <2>5, Zenon
<1>. QED BY <1>5, <1>6, <1>7, Zenon DEF fit

\* The forest replaces the tree.
LEMMA RotateKeeps ==
  ASSUME TreeInv, Rotate PROVE TreeInv'
<1>. DEFINE s == DTree[1].rows  b == [i \in DOMAIN s |-> data[s[i]]]  new == NewIds(Len(s))
<1>0. /\ stack = <<>> /\ ~wild /\ s # <<>> /\ data' = data \o b /\ given' = <<new>> /\ Retain(Len(s))
      /\ stack' = <<Call("Update", 1, new)>> /\ DTree' = NewTree /\ forgetRate' = -10 /\ UNCHANGED memory
  BY DEF Rotate
<1>1. TreeShape /\ RootRows
  BY <1>0 DEF TreeInv, Growing
<1>2. s \in Seq(Ids) /\ data \in Seq(Points \X Classes) /\ retain \in 0 .. MaxRetain /\ MaxRetain \in Nat
  BY <1>1, NodesAre, TreeAssumption DEF TreeShape, IsTree, NodeOK
<1>3. Len(s) <= retain
  <2>1. Pending(stack) = {}
    BY <1>0 DEF Pending, ToSet
  <2>2. Latest(s, given)
    BY <1>1, <2>1 DEF RootRows
  <2>. QED BY <2>2, Zenon DEF Latest
<1>4. Len(s) \in 1 .. MaxRetain /\ DOMAIN s = 1 .. Len(s)
  BY <1>0, <1>2, <1>3
<1>5. b \in Seq(Points \X Classes) /\ Len(b) = Len(s)
  <2>1. \A i \in DOMAIN s : data[s[i]] \in Points \X Classes
    BY <1>2 DEF Ids
  <2>. HIDE DEF s
  <2>. QED BY <1>4, <2>1
<1>6. retain' = Len(s) /\ maxHeight' \in 1 .. Log2[MaxRetain] /\ isRF' = isRF
  BY <1>0, <1>4, RetainIs
<1>. DEFINE op == "Update"  g == <<>>
<1>7. <<new>> \o g = <<new>>
  OBVIOUS
<1>. HIDE DEF s, b
<1>8. BatchGiven(b, op, NewTree, g)
  BY <1>0, <1>4, <1>5, <1>6, <1>7 DEF BatchGiven, memory
<1>. HIDE DEF op, g
<1>. QED BY <1>8, BatchKeeps

\* A new tree.
LEMMA TreeBegins == TreeInit => TreeInv
<1>. SUFFICES ASSUME TreeInit PROVE TreeInv
  OBVIOUS
<1>. DEFINE e == <<>>
<1>0. /\ isRF \in BOOLEAN /\ data = e /\ DTree = NewTree /\ maxHeight = 1 /\ retain = 0 /\ forgetRate = -10
      /\ stack = e /\ flagged = {} /\ freed = {} /\ twice = FALSE /\ wild = FALSE /\ given = e
  BY DEF TreeInit
<1>1. /\ \A S : e \in Seq(S)
      /\ Len(e) = 0 /\ ToSet(e) = {} /\ Pending(e) = {} /\ Updating(e) = {}
  BY DEF ToSet, Pending, Updating
<1>2. IsTree(NewTree, Ids) /\ NewTree[1].rows = e /\ (\A n \in Nodes : NewTree[n].rows = e) /\ NewTree[1].terminate
  <2>1. NewTree[1].terminate
    BY NodesAre DEF NewTree, NewNode
  <2>. QED BY <2>1, NewTreeIs
<1>3. TreeShape
  <2>1. 1 \in 1 .. Log2[MaxRetain] /\ 0 \in 0 .. MaxRetain
    BY NodesAre, TreeAssumption
  <2>. HIDE DEF e
  <2>. QED BY <1>0, <1>1, <1>2, <2>1 DEF TreeShape
<1>4. Unreleased
  <2>. HIDE DEF e
  <2>. QED BY <1>0, <1>1, <1>2 DEF Unreleased
<1>5. RootRows
  <2>1. Distinct(e)
    BY DEF Distinct
  <2>2. Latest(e, e)
    <3>1. FlattenSeq(<<>>) = <<>>
      BY DEF FlattenSeq
    <3>. QED BY <1>0, <3>1 DEF Latest
  <2>. HIDE DEF e
  <2>. QED BY <1>0, <1>1, <1>2, <2>1, <2>2 DEF RootRows
<1>6. Going(data, DTree, flagged, stack, maxHeight)
  <2>1. Branch(DTree, flagged, {}) \subseteq {1}
    <3>1. \A n : n \in Branch(DTree, flagged, {}) /\ n # 1 /\ n \div 2 \in {1} => n \in {1}
      <4>. SUFFICES ASSUME NEW n \in Branch(DTree, flagged, {}), n # 1, n \div 2 \in {1} PROVE FALSE
        OBVIOUS
      <4>1. n \in Nodes
        BY BranchIs
      <4>. QED BY <1>0, <1>2, <4>1, BranchIs
    <3>. QED BY <3>1, Descend
  <2>2. Matched(data, DTree, flagged, stack)
    <3>. HIDE DEF e
    <3>. QED BY <1>0, <1>1, <1>2, <2>1 DEF Matched
  <2>3. Visited(DTree, flagged, stack, maxHeight)
    <3>. HIDE DEF e
    <3>. QED BY <1>0, <1>1, <1>2, <2>1 DEF Visited
  <2>4. Waiting(DTree, flagged, stack)
    <3>. HIDE DEF e
    <3>. QED BY <1>0, <1>1 DEF Waiting
  <2>5. StackOK(stack)
    BY <1>0 DEF StackOK
  <2>. QED BY <2>2, <2>3, <2>4, <2>5 DEF Going
<1>. QED BY <1>3, <1>4, <1>5, <1>6 DEF TreeInv, Growing

\* Every step of a tree keeps its invariant.
LEMMA TreeSteps == TreeInv /\ [TreeNext]_treeVars => TreeInv'
<1>. SUFFICES ASSUME TreeInv, [TreeNext]_treeVars PROVE TreeInv'
  OBVIOUS
<1>1. ASSUME NEW b \in Batches, fit(b) PROVE TreeInv'
  BY <1>1, FitKeeps
<1>2. CASE Rotate
  BY <1>2, RotateKeeps
<1>3. CASE Update
  BY <1>3, UpdateKeeps
<1>4. CASE IncrementalRoot
  BY <1>4, IncrementalRootKeeps
<1>5. CASE IncrementalChild
  BY <1>5, IncrementalChildKeeps
<1>6. CASE FreeForgotten
  BY <1>6, FreeForgottenKeeps
<1>7. CASE UNCHANGED treeVars
  <2>1. UNCHANGED <<data, DTree, stack, isRF, maxHeight, retain, forgetRate, flagged, freed, twice, wild, given>>
    BY <1>7 DEF treeVars, tree, rates, memory
  <2>2. TreeShape' <=> TreeShape
    BY <2>1 DEF TreeShape, IsTree, Calls, Ids
  <2>3. Unreleased' <=> Unreleased
    BY <2>1 DEF Unreleased, Ids
  <2>4. Growing' <=> Growing
    BY <2>1 DEF Growing, RootRows, Latest
  <2>. QED BY <2>2, <2>3, <2>4 DEF TreeInv
<1>. QED BY <1>1, <1>2, <1>3, <1>4, <1>5, <1>6, <1>7 DEF TreeNext

\* The invariant of a tree: the nodes that no call will rebuild have children that are right, or that
\* a call is on its way to, and the root has the latest rows.
THEOREM TreeInvariant == TreeSpec => []TreeInv
BY TreeBegins, TreeSteps, PTL DEF TreeSpec

-----------------------------------------------------------------------------
(* What holds between two fits.                                              *)

\* A set of nodes below a set of edges is in every set that goes down along them.
LEMMA BelowWithin ==
  ASSUME NEW E, NEW B, 1 \in B, \A n \in Nodes : n \in E /\ n \div 2 \in B => n \in B
  PROVE  Below(E) \subseteq B
<1>. DEFINE Bad == {n \in Below(E) : n \notin B}
<1>0. /\ \A n \in Nodes : n \in Nat /\ (n # 1 => n \div 2 \in Nat /\ n \div 2 < n)
      /\ Below(E) \subseteq Nodes
      /\ \A n \in Nodes : n \in Below(E) <=> n = 1 \/ (n \in E /\ n \div 2 \in Below(E))
  BY NodesAre, BelowIs
<1>1. ASSUME Bad # {} PROVE FALSE
  <2>1. Bad \in SUBSET Nat
    BY <1>0
  <2>2. PICK m \in Bad : \A y \in Bad : m <= y
    BY <1>1, <2>1, LeastOf
  <2>3. m \in Nodes /\ m # 1 /\ m \in E /\ m \div 2 \in Below(E) /\ m \div 2 < m /\ m \in Nat /\ m \div 2 \in Nat
    BY <1>0, <2>2
  <2>4. m \div 2 \notin B
    BY <2>2, <2>3
  <2>5. m \div 2 \in Bad
    BY <2>3, <2>4
  <2>. QED BY <2>2, <2>3, <2>5
<1>. QED BY <1>1

\* The nodes a Test can reach are among those that the invariant is about.
LEMMA SoundNodes ==
  ASSUME TreeInv, Settled, NEW n \in Sound
  PROVE  /\ n \in Nodes /\ DTree[n].rows \in Seq(Ids) /\ NodeOK(DTree[n], Ids)
         /\ ToSet(DTree[n].rows) \cap flagged = {}
         /\ DTree[n].terminate \/ Height(n) < maxHeight
         /\ ~DTree[n].terminate => \A left \in BOOLEAN :
              LET m == Child(n, left)  s == Side(data, DTree, n, left)
              IN DTree[m].created /\ (DTree[m].rows = s \/ (Keeps(DTree, flagged, m) /\ s = <<>>))
<1>0. TreeShape /\ Going(data, DTree, flagged, stack, maxHeight) /\ stack = <<>>
  BY DEF TreeInv, Growing, Settled
<1>1. Pending(stack) = {} /\ Updating(stack) = {}
  BY <1>0 DEF Pending, Updating, ToSet
<1>2. n \in Branch(DTree, flagged, {})
  <2>. DEFINE B == Branch(DTree, flagged, {})  E == {m \in Nodes \ {1} : Inner(m \div 2) /\ ~Kept(m)}
  <2>1. 1 \in B
    BY NodesAre, BranchIs
  <2>2. \A m \in E : ~DTree[m \div 2].terminate /\ ~Keeps(DTree, flagged, m)
    BY DEF Inner, Kept, Keeps
  <2>3. \A m \in Nodes : m # 1 /\ m \div 2 \in B /\ ~DTree[m \div 2].terminate /\ ~Keeps(DTree, flagged, m) => m \in B
    BY BranchIs
  <2>4. \A m \in E : m # 1
    OBVIOUS
  <2>. HIDE DEF B, E
  <2>5. Below(E) \subseteq B
    BY <2>1, <2>2, <2>3, <2>4, BelowWithin
  <2>. QED BY <2>5 DEF Sound, B, E
<1>3. n \in Nodes
  BY <1>2, BranchIs
<1>4. NodeOK(DTree[n], Ids)
  BY <1>0, <1>3 DEF TreeShape, IsTree
<1>5. DTree[n].rows \in Seq(Ids)
  BY <1>4 DEF NodeOK
<1>6. ToSet(DTree[n].rows) \cap flagged = {} /\ (DTree[n].terminate \/ Height(n) < maxHeight)
  BY <1>0, <1>1, <1>2 DEF Going, Visited
<1>7. ASSUME ~DTree[n].terminate, NEW left \in BOOLEAN
      PROVE  LET m == Child(n, left)  s == Side(data, DTree, n, left)
             IN DTree[m].created /\ (DTree[m].rows = s \/ (Keeps(DTree, flagged, m) /\ s = <<>>))
  <2>1. ChildRight(DTree, flagged, stack, Child(n, left), Side(data, DTree, n, left))
    BY <1>0, <1>1, <1>2, <1>7 DEF Going, Matched
  <2>. QED BY <1>1, <2>1 DEF ChildRight
<1>. QED BY <1>3, <1>4, <1>5, <1>6, <1>7

\* The invariant includes the types.
LEMMA TypesFollow == ASSUME TreeInv PROVE TreeTypeOK
<1>0. TreeShape /\ Unreleased
  BY DEF TreeInv
<1>1. DOMAIN data = Ids
  BY <1>0 DEF TreeShape, Ids
<1>2. ASSUME NEW n \in Nodes PROVE DTree[n].result \in Classes \cup {NoResult} /\ ToSet(DTree[n].rows) \subseteq DOMAIN data
  <2>1. DTree[n].result \in Classes \cup {NoResult} /\ DTree[n].rows \in Seq(Ids)
    BY <1>0 DEF TreeShape, IsTree, NodeOK
  <2>. QED BY <1>1, <2>1, RowsAre
<1>3. ASSUME NEW i \in DOMAIN stack PROVE stack[i].op \in {"Update", "Incremental", "Free"} /\ stack[i].n \in Nodes
  <2>1. stack[i] \in Calls(Ids)
    BY <1>0 DEF TreeShape
  <2>. QED BY <2>1 DEF Calls
<1>4. flagged \cup freed \subseteq DOMAIN data /\ twice \in BOOLEAN
  BY <1>0, <1>1 DEF Unreleased
<1>. QED BY <1>0, <1>2, <1>3, <1>4 DEF TreeTypeOK, TreeShape

\* Between two fits the children of a node hold its rows, each on its side.
LEMMA PartitionFollows == ASSUME TreeInv PROVE ChildrenPartition
<1>. SUFFICES ASSUME Settled, NEW n \in Sound, Inner(n), NEW left \in BOOLEAN
              PROVE  LET m == IF left THEN 2 * n ELSE 2 * n + 1
                         s == Goes(DTree[n].rows, DTree[n].feature, DTree[n].dpoint, left)
                     IN IF Kept(m) THEN s = <<>> ELSE DTree[m].rows = s
  BY DEF ChildrenPartition
<1>. DEFINE m == Child(n, left)  s == Side(data, DTree, n, left)
<1>0. ~DTree[n].terminate
  BY DEF Inner
<1>1. /\ DTree[n].rows \in Seq(Ids) /\ ToSet(DTree[n].rows) \cap flagged = {}
      /\ DTree[m].rows = s \/ (Keeps(DTree, flagged, m) /\ s = <<>>)
  BY <1>0, SoundNodes
<1>2. s \in Seq(Ids) /\ ToSet(s) \cap flagged = {}
  <2>1. s \in Seq(Ids) /\ ToSet(s) \subseteq ToSet(DTree[n].rows)
    BY <1>1, PartIs DEF Side
  <2>. QED BY <1>1, <2>1
<1>3. s = Goes(DTree[n].rows, DTree[n].feature, DTree[n].dpoint, left) /\ m = IF left THEN 2 * n ELSE 2 * n + 1
  BY GoesIs DEF Side, Child
<1>. HIDE DEF s, m
<1>4. CASE Kept(m)
  <2>1. DTree[m].rows # <<>> /\ ToSet(DTree[m].rows) \subseteq flagged
    BY <1>4 DEF Kept
  <2>2. s = <<>>
    BY <1>1, <1>2, <2>1, RowsAre
  <2>. QED BY <1>3, <1>4, <2>2
<1>5. CASE ~Kept(m)
  <2>1. DTree[m].rows = s
    BY <1>1, <1>5 DEF Kept, Keeps
  <2>. QED BY <1>3, <1>5, <2>1
<1>. QED BY <1>4, <1>5

\* Between two fits a Test ends at an answer.
LEMMA DefinedFollows == ASSUME TreeInv PROVE TestDefined
<1>. SUFFICES ASSUME Settled, NEW n \in Sound
              PROVE  IF Inner(n) THEN DTree[2 * n].created /\ DTree[2 * n + 1].created
                                 ELSE DTree[n].result # NoResult
  BY DEF TestDefined
<1>1. /\ NodeOK(DTree[n], Ids)
      /\ DTree[n].terminate \/ Height(n) < maxHeight
      /\ ~DTree[n].terminate => \A left \in BOOLEAN : DTree[Child(n, left)].created
  BY SoundNodes
<1>2. CASE Inner(n)
  <2>1. DTree[Child(n, TRUE)].created /\ DTree[Child(n, FALSE)].created
    BY <1>1, <1>2 DEF Inner
  <2>. QED BY <1>2, <2>1 DEF Child
<1>3. CASE ~Inner(n)
  <2>1. DTree[n].terminate
    BY <1>1, <1>3 DEF Inner
  <2>2. DTree[n].result \in Classes
    BY <1>1, <2>1 DEF NodeOK
  <2>3. NoResult \notin Classes
    BY TreeAssumption DEF NoResult, Classes
  <2>. QED BY <1>3, <2>2, <2>3
<1>. QED BY <1>2, <1>3

\* The root keeps the latest rows, and no row that was released is in use.
LEMMA KeptFollows == ASSUME TreeInv PROVE RowsKept
<1>1. KeepsLatest
  <2>. SUFFICES ASSUME Settled, given # <<>>
                PROVE  LET s == DTree[1].rows IN
                       /\ Len(s) <= retain
                       /\ Head(given) = SubSeq(s, 1, Len(Head(given)))
                       /\ ~isRF => s = SubSeq(FlattenSeq(given), 1, Len(s))
    BY DEF KeepsLatest
  <2>1. RootRows /\ Pending(stack) = {}
    BY DEF TreeInv, Growing, Settled, Pending, ToSet
  <2>2. Latest(DTree[1].rows, given)
    BY <2>1 DEF RootRows
  <2>. QED BY <2>2 DEF Latest
<1>2. RowsAlive
  <2>1. twice = FALSE /\ freed \subseteq flagged
    BY DEF TreeInv, Unreleased
  <2>2. Settled => \A n \in Sound : ToSet(DTree[n].rows) \cap flagged = {}
    BY SoundNodes
  <2>. QED BY <2>1, <2>2 DEF RowsAlive
<1>. QED BY <1>1, <1>2 DEF RowsKept

\* What a fit leaves is the tree that a rebuild from its rows would give, after any sequence of fits
\* and rotations: in the reach of a Test, the children of an inner node hold the rows of their sides
\* of its cut (in its order, but for the shuffled roots of a forest), and the Test ends at an answer
\* that was written.
THEOREM NodesStayFresh == TreeSpec => []NodesFresh
<1>1. TreeInv => NodesFresh
  BY TypesFollow, PartitionFollows, DefinedFollows DEF NodesFresh
<1>. QED BY <1>1, TreeInvariant, PTL

\* The root keeps the latest rows, at most retain of them; a row is released once, and no node in the
\* reach of a Test holds it any more.
THEOREM LatestRowsKept == TreeSpec => []RowsKept
<1>1. TreeInv => RowsKept
  BY KeptFollows
<1>. QED BY <1>1, TreeInvariant, PTL

================================================================================
