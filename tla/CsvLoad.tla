-------------------------------- MODULE CsvLoad --------------------------------
(* LOAD DATA of a table with vector columns: the generated code (engine/ast.py)   *)
(* reads a file through csv.h row by row, fills the columns and appends them to    *)
(* the database.  csv.h reads the file in blocks: two are in use while a second    *)
(* thread reads a third ahead; the threads meet at two condition variables.        *)
(*                                                                                *)
(* A byte is a one-letter string: "n" newline, "r" carriage return, "t" tab, ","   *)
(* and ";" the separators of fields and of a vector's elements.  Columns are       *)
(* integers or vectors of integers.                                                *)
EXTENDS Integers, Sequences, SequencesExt

CONSTANTS Files,         \* the files to load, sequences of bytes
          block_len,     \* bytes of a block
          Types,         \* of the table's columns: "int" or "ints"
          TMin, TMax,    \* the least and the greatest integer of a column's type
          Undef          \* a byte of the buffer that nothing was read into

column_count == Len(Types)
\* A block is long enough for half of the byte order mark (it has 2^20 bytes in the code).
ASSUME BlockAssumption == /\ block_len \in Nat \ {0, 1}
                          /\ \A f \in Files : f \in Seq(Range(f))
                          /\ Types \in Seq({"int", "ints"}) /\ column_count > 0
                          /\ TMin \in Int /\ TMin <= 0 /\ TMax \in Nat

VARIABLES file,               \* the whole file
          source,             \* the bytes of it not read yet
          buffer,             \* three blocks
          data_begin, data_end, \* the part of the first two blocks not consumed yet
          pc,                 \* where the loading thread is
          header,             \* the next line is the header, to be skipped
          line,               \* the line next_line returned
          tmp,                \* the vectors that rows are parsed into, one per column
          columns,            \* the rows emplaced in the columns so far
          table,              \* the rows appended to the database
          refused,            \* what the database refused: nothing yet, to create or to append
          worker,             \* the reading thread: off, check, waiting, done
          desired_byte_count, read_byte_count, \* the request and its answer; -1 is none
          termination_requested

reader == <<worker, desired_byte_count, read_byte_count, termination_requested>>
window == <<data_begin, data_end>>
loaded == <<header, line, tmp, columns, table, refused>>
vars == <<file, source, buffer, window, pc, loaded, reader>>

BOM == <<"xEF", "xBB", "xBF">>

Init == /\ file \in Files /\ source = file
        /\ buffer = [p \in 0..(3 * block_len - 1) |-> Undef]
        /\ data_begin = 0 /\ data_end = 0
        /\ pc = "open" /\ header = TRUE /\ line = <<>> /\ columns = <<>> /\ table = <<>> /\ refused = "nothing"
        /\ tmp = [c \in 1..column_count |-> <<>>]
        /\ worker = "off"
        /\ desired_byte_count = -1 /\ read_byte_count = -1 /\ termination_requested = FALSE

--------------------------------------------------------------------------------
\* Reading n bytes of the source to the buffer, fewer at the end of the file.
Skip(n) == SubSeq(source, n + 1, Len(source))
Given(n) == IF n < Len(source) THEN n ELSE Len(source)
Placed(n, at) == [p \in DOMAIN buffer |-> IF p \in at..(at + n - 1) THEN source[p - at + 1]
                                                                    ELSE buffer[p]]

\* The constructor reads two blocks; only a file that fills them gets a reading thread.
Open == LET n == Given(2 * block_len)
        IN /\ pc = "open"
           /\ buffer' = Placed(n, 0) /\ source' = Skip(n)
           /\ data_end' = n
           /\ data_begin' = IF IsPrefix(BOM, source) THEN 3 ELSE 0
           /\ IF n = 2 * block_len THEN worker' = "check" /\ pc' = "start"
                                   ELSE worker' = worker /\ pc' = "next"
           /\ UNCHANGED <<file, loaded, desired_byte_count, read_byte_count, termination_requested>>

WakeNot(thread) == thread
Wake(thread) == IF thread = "waiting" THEN "check" ELSE thread

\* start_read, first by the constructor and then by each next_line that moved on to a new block.
StartRead == /\ pc \in {"start", "restart"}
             /\ desired_byte_count' = block_len /\ read_byte_count' = -1
             /\ worker' = Wake(worker)
             /\ pc' = IF pc = "start" THEN "next" ELSE "scan"
             /\ UNCHANGED <<file, source, buffer, window, loaded, termination_requested>>

\* One block copied over another.
Half(from, to) == [p \in DOMAIN buffer |-> IF p \in to..(to + block_len - 1) THEN buffer[p - to + from]
                                                                            ELSE buffer[p]]

\* The entry of next_line.  Without a line left the header call is followed by a call for a row,
\* and read_row returns false; with the first block consumed, the second takes its place.
NextLine ==
  /\ pc = "next"
  /\ IF data_begin = data_end
     THEN /\ pc' = IF header THEN "next" ELSE "append"
          /\ header' = FALSE /\ UNCHANGED <<buffer, window>>
     ELSE /\ header' = header
          /\ IF data_begin >= block_len
             THEN /\ buffer' = Half(block_len, 0)
                  /\ data_begin' = data_begin - block_len /\ data_end' = data_end - block_len
                  /\ pc' = IF worker # "off" THEN "finish" ELSE "scan"
             ELSE pc' = "scan" /\ UNCHANGED <<buffer, window>>
  /\ UNCHANGED <<file, source, line, tmp, columns, table, refused, reader>>

AnsweredAlways == TRUE
Answered == read_byte_count # -1

\* finish_read: the loading thread waits until the block it asked for is there.
FinishRead == /\ pc = "finish"
              /\ IF Answered THEN data_end' = data_end + read_byte_count /\ pc' = "copy"
                             ELSE data_end' = data_end /\ pc' = "finishing"
              /\ UNCHANGED <<file, source, buffer, data_begin, loaded, reader>>

CopyBlock == /\ pc = "copy"
             /\ buffer' = Half(2 * block_len, block_len)
             /\ pc' = "restart"
             /\ UNCHANGED <<file, source, window, loaded, reader>>

\* The end of the line at data_begin, and whether it fits a block.
LineEnd == CHOOSE e \in data_begin..data_end :
             /\ e = data_end \/ buffer[e] = "n"
             /\ \A p \in data_begin..(e - 1) : buffer[p] # "n"
TooLong == LineEnd - data_begin + 1 > block_len
Unterminated == LineEnd = data_end
CarriageReturn == LineEnd # data_begin /\ buffer[LineEnd - 1] = "r"

\* The rest of next_line: an overlong line is an exception, a missing last newline is made up.
Scan ==
  /\ pc = "scan"
  /\ IF TooLong THEN pc' = "thrown" /\ UNCHANGED <<buffer, window, header, line>>
     ELSE /\ buffer' = [buffer EXCEPT ![LineEnd] = Undef]
          /\ data_begin' = LineEnd + 1
          /\ data_end' = IF Unterminated THEN data_end + 1 ELSE data_end
          /\ line' = [k \in 1..(LineEnd - data_begin - (IF CarriageReturn THEN 1 ELSE 0)) |->
                        buffer[data_begin + k - 1]]
          /\ pc' = IF header THEN "next" ELSE "row"
          /\ header' = FALSE
  /\ UNCHANGED <<file, source, tmp, columns, table, refused, reader>>

\* The pieces of a text between separators; a field without the blanks around it.
Pieces(separator, text) ==
  LET ends == SelectSeq([k \in 1..(Len(text) + 1) |-> k],
                        LAMBDA k : k = Len(text) + 1 \/ text[k] = separator)
  IN [k \in DOMAIN ends |-> SubSeq(text, IF k = 1 THEN 1 ELSE ends[k - 1] + 1, ends[k] - 1)]
Trim(text) ==
  LET solid == {k \in DOMAIN text : text[k] \notin {" ", "t"}}
  IN IF solid = {} THEN <<>>
     ELSE SubSeq(text, CHOOSE k \in solid : \A l \in solid : k <= l,
                       CHOOSE k \in solid : \A l \in solid : k >= l)
Fields(text) == LET pieces == Pieces(",", text) IN [k \in DOMAIN pieces |-> Trim(pieces[k])]

\* empty_line_comment: a line of blanks is skipped.
is_comment(text) == \A k \in DOMAIN text : text[k] \in {" ", "t"}

\* parse_unsigned_integer and the negative half of parse_signed_integer: x so far takes one more
\* digit, unless it would leave the type; then it stays as it is (ignore_overflow).
DigitOf == [c \in {"0", "1", "2", "3", "4", "5", "6", "7", "8", "9"} |->
              CASE c = "0" -> 0 [] c = "1" -> 1 [] c = "2" -> 2 [] c = "3" -> 3 [] c = "4" -> 4
                [] c = "5" -> 5 [] c = "6" -> 6 [] c = "7" -> 7 [] c = "8" -> 8 [] c = "9" -> 9]
Quotient(a, b) == IF a < 0 THEN -((-a) \div b) ELSE a \div b
OverflowsLate(x, y, negative) == IF negative THEN x < Quotient(TMin, 10) ELSE x > Quotient(TMax, 10)
Overflows(x, y, negative) ==
  IF negative THEN x < Quotient(TMin + y, 10) ELSE x > Quotient(TMax - y, 10)
Digits(text) == SelectSeq(text, LAMBDA c : c \in DOMAIN DigitOf)
Accumulate(digits, negative) ==
  LET take(x, y) == IF Overflows(x.value, y, negative) THEN [x EXCEPT !.full = TRUE]
                    ELSE [x EXCEPT !.value = IF negative THEN 10 * @ - y ELSE 10 * @ + y]
      next(x, c) == IF x.full THEN x ELSE take(x, DigitOf[c])
  IN FoldLeft(next, [value |-> 0, full |-> FALSE], digits).value
parse_signed_integer(text) ==
  IF text = <<>> THEN 0
  ELSE Accumulate(Digits(text), text[1] = "-")

\* An element of a vector ends at e: the separators and blanks behind it belong to it.
Gap == {" ", "t", ";", "r", "n"}
ElementEnd(text, e) ==
  \/ e = Len(text)
  \/ text[e + 1] \notin Gap /\ \E k \in 1..e : text[k] = ";" /\ \A l \in k..e : text[l] \in Gap
parse_vector(text) ==
  LET ends == SelectSeq([p \in DOMAIN text |-> p], LAMBDA e : ElementEnd(text, e))
  IN [k \in DOMAIN ends |->
        parse_signed_integer(SubSeq(text, IF k = 1 THEN 1 ELSE ends[k - 1] + 1, ends[k]))]

\* parse_helper: a number is assigned, the elements of a vector are appended to its temporary.
Parsed(fields, old) ==
  [c \in 1..column_count |-> IF Types[c] = "ints" THEN old[c] \o parse_vector(fields[c])
                             ELSE parse_signed_integer(fields[c])]
\* emplace_back moves a temporary vector into the column and leaves it empty.
Moved(row) == [c \in 1..column_count |-> <<>>]

\* The rest of read_row, and the loop that emplaces its fields: an exception for a line of too few
\* or too many columns, which nobody catches.
ReadRow ==
  /\ pc = "row"
  /\ IF is_comment(line) THEN UNCHANGED <<columns, tmp>> /\ pc' = "next"
     ELSE IF Len(Fields(line)) # column_count THEN UNCHANGED <<columns, tmp>> /\ pc' = "thrown"
     ELSE \E fields \in {Fields(line)} : \E row \in {Parsed(fields, tmp)} :
            columns' = Append(columns, row) /\ tmp' = Moved(row) /\ pc' = "next"
  /\ UNCHANGED <<file, source, buffer, window, header, line, table, refused, reader>>

\* monetdb_append_table creates the table if it is not there, and appends only if the session's
\* error field is empty then: neither after a CREATE that failed nor after an error that somebody
\* else has left.  An error of the append itself is printed.
AppendTable ==
  /\ pc = "append"
  /\ \/ table' = columns /\ UNCHANGED refused
     \/ refused' \in {"create", "append"} /\ UNCHANGED table
  /\ pc' = "close"
  /\ UNCHANGED <<file, source, buffer, window, header, line, tmp, columns, reader>>

\* The reader's destructor: it stops its thread and joins it.
Close == /\ pc = "close"
         /\ IF worker = "off" THEN pc' = "closed" /\ UNCHANGED reader
            ELSE /\ termination_requested' = TRUE /\ worker' = Wake(worker)
                 /\ pc' = "join" /\ UNCHANGED <<desired_byte_count, read_byte_count>>
         /\ UNCHANGED <<file, source, buffer, window, loaded>>

Join == /\ pc = "join" /\ worker = "done"
        /\ pc' = "closed"
        /\ UNCHANGED <<file, source, buffer, window, loaded, reader>>

--------------------------------------------------------------------------------
Alive == pc # "thrown" /\ worker = "check"

WorkerWait == /\ Alive /\ desired_byte_count = -1 /\ ~termination_requested
              /\ worker' = "waiting"
              /\ UNCHANGED <<file, source, buffer, window, pc, loaded, desired_byte_count,
                             read_byte_count, termination_requested>>

WorkerStop == /\ Alive /\ termination_requested
              /\ worker' = "done"
              /\ UNCHANGED <<file, source, buffer, window, pc, loaded, desired_byte_count,
                             read_byte_count, termination_requested>>

\* The thread reads the third block, answers and wakes the loading thread; it ends with the file.
WorkerRead ==
  LET n == Given(desired_byte_count)
  IN /\ Alive /\ desired_byte_count # -1 /\ ~termination_requested
     /\ buffer' = Placed(n, 2 * block_len) /\ source' = Skip(n)
     /\ read_byte_count' = n /\ desired_byte_count' = -1
     /\ worker' = IF n = 0 THEN "done" ELSE "check"
     /\ pc' = IF pc = "finishing" THEN "finish" ELSE pc
     /\ UNCHANGED <<file, window, loaded, termination_requested>>

Loader == \/ Open \/ StartRead \/ NextLine \/ FinishRead \/ CopyBlock \/ Scan
          \/ ReadRow \/ AppendTable \/ Close \/ Join
Worker == WorkerWait \/ WorkerStop \/ WorkerRead
Next == Loader \/ Worker
Spec == Init /\ [][Next]_vars /\ WF_vars(Loader) /\ WF_vars(Worker)

--------------------------------------------------------------------------------
\* Types; the window never leaves the two blocks, but for the newline made up at the end.
TypeOK == /\ 0 <= data_begin /\ data_begin <= data_end /\ data_end <= 2 * block_len + 1
          /\ Len(source) <= Len(file)
          /\ worker \in {"off", "check", "waiting", "done"}
          /\ desired_byte_count \in {-1, block_len} /\ read_byte_count \in -1..block_len

\* What the file says, split as a whole: its lines, whether one is too long for a block, and the
\* rows of those that are not blank.
Body(f) == IF IsPrefix(BOM, f) THEN SubSeq(f, 4, Len(f)) ELSE f
Lines(f) == LET all == Pieces("n", Body(f)) IN IF Last(all) = <<>> THEN Front(all) ELSE all
Plain(text) == IF text # <<>> /\ Last(text) = "r" THEN Front(text) ELSE text
Data(f) == LET lines == Lines(f)
               plain == [k \in 1..(Len(lines) - 1) |-> Plain(lines[k + 1])]
           IN SelectSeq(plain, LAMBDA text : ~is_comment(text))
Rows == [f \in Files |-> LET data == Data(f) IN [k \in DOMAIN data |-> Fields(data[k])]]
Overlong == LET lines == Lines(file) IN \E k \in DOMAIN lines : Len(lines[k]) >= block_len
Ragged == \E k \in DOMAIN Rows[file] : Len(Rows[file][k]) # column_count

\* What a field means: an integer is an optional sign and digits, a vector is integers between
\* separators, with at most one separator behind the last.
IsInteger(text) ==
  LET digits == IF text # <<>> /\ text[1] \in {"-", "+"} THEN Tail(text) ELSE text
  IN digits # <<>> /\ \A k \in DOMAIN digits : digits[k] \in DOMAIN DigitOf
Natural(text) == FoldLeft(LAMBDA x, c : 10 * x + DigitOf[c], 0, text)
Meaning(text) == CASE text[1] = "-" -> -Natural(Tail(text))
                   [] text[1] = "+" -> Natural(Tail(text))
                   [] OTHER -> Natural(text)
Fits(text) == IsInteger(text) /\ Meaning(text) \in TMin..TMax
Elements(text) == LET pieces == Pieces(";", text)
                  IN IF Last(pieces) = <<>> THEN Front(pieces) ELSE pieces
Denotes(c, text, value) ==
  IF Types[c] = "int" THEN value = Meaning(text)
  ELSE /\ Len(value) = Len(Elements(text))
       /\ \A k \in DOMAIN value : value[k] = Meaning(Elements(text)[k])
Written(c, text) == IF Types[c] = "int" THEN Fits(text)
                    ELSE \A element \in Range(Elements(text)) : Fits(element)

\* Every field that is written as an integer, or a list of integers, of the column's type gives
\* just these, whatever the rows before it held; and no text gives a number outside the type.
ValuesAsWritten ==
  \A k \in DOMAIN columns, c \in 1..column_count :
    /\ \A text \in {Rows[file][k][c]} : Written(c, text) => Denotes(c, text, columns[k][c])
    /\ IF Types[c] = "int" THEN columns[k][c] \in TMin..TMax
       ELSE Range(columns[k][c]) \subseteq TMin..TMax

Contents ==
  LET rows == Rows[file]
  IN [k \in DOMAIN rows |-> Parsed(rows[k], [c \in 1..column_count |-> <<>>])]
\* At every moment the columns hold the first rows of the file, complete and in order: no block is
\* dropped, read twice or cut where a line crosses into the next, and no row keeps a part of the
\* one before.
InOrder == /\ Len(columns) <= Len(Rows[file])
           /\ \A k \in DOMAIN columns : columns[k] = Contents[k]

\* The database is asked only when every line of the file could be read; it gets exactly the rows
\* of the file, unless it refuses, and then none.  The load is abandoned only for a line that is
\* too long or has the wrong number of columns.
LoadsFile == /\ pc \in {"close", "join", "closed"} =>
                  /\ ~Overlong /\ ~Ragged
                  /\ table = IF refused = "nothing" THEN Contents ELSE <<>>
             /\ pc \notin {"close", "join", "closed"} => table = <<>>
             /\ pc = "thrown" => Overlong \/ Ragged

\* The assertions of next_line (csv.h:454-455), which a release build does not check: the window
\* is not empty and lies in the first two blocks whenever there is a line to look for.
Asserted == pc = "next" /\ data_begin # data_end => data_begin < data_end /\ data_end <= 2 * block_len

\* The third block belongs to one thread at a time: while the loading thread copies it, without the
\* lock, no read into it is requested or under way.
NoRace == pc = "copy" => desired_byte_count = -1

\* Where the byte at p of the window lies: the second block is renewed only by `CopyBlock`.
At(p) == IF pc = "copy" /\ p >= block_len THEN p + block_len ELSE p
\* What is still to come: the rest of the window, a third block that is read and not yet
\* copied, and what the file has left.
InWindow == [k \in 1..(data_end - data_begin) |-> buffer[At(data_begin + k - 1)]]
ThirdBlock == IF pc \in {"copy", "restart"} THEN <<>>
              ELSE [k \in 1..read_byte_count |-> buffer[2 * block_len + k - 1]]
Unread == InWindow \o ThirdBlock \o source
Consumed == Len(file) - Len(Unread)

\* Whatever the two threads have moved between the blocks, it is the tail of the file in its
\* order: no block is dropped, doubled or overtaken by the next.
TailOfFile == Consumed >= 0 /\ Unread = SubSeq(file, Consumed + 1, Len(file))

\* The line that is parsed is one of the file's, whole, the last one consumed, across however
\* many blocks it lay.
LineOfFile ==
  pc = "row" => \E b \in 2..(Consumed + 1) :
    LET e == IF file[Consumed] = "n" THEN Consumed - 1 ELSE Consumed
    IN /\ file[b - 1] = "n" /\ b <= e + 1
       /\ \A k \in b..e : file[k] # "n"
       /\ e = Consumed => Consumed = Len(file)
       /\ line = Plain(SubSeq(file, b, e))

\* Every load ends, with both threads gone or by an exception: no wake-up is lost, and the loading
\* thread never waits for a reading thread that has already met the end of the file.
Ends == <>(pc \in {"closed", "thrown"})

\* The table gets exactly the rows of the file, in order, each column with the numbers that
\* were written in its own line, or none of them if the database refuses (table_ext_monetdb.hpp:74).
LoadedAsWritten == InOrder /\ LoadsFile /\ ValuesAsWritten

\* The parser and the reading thread never use the third block at once, the parser's assertion
\* on the block boundaries holds at every line, and through all blocks the parser is given the
\* bytes of the file, each once and in order, line by line.
BlocksHandedOver == TypeOK /\ NoRace /\ Asserted /\ TailOfFile /\ LineOfFile
=============================================================================
