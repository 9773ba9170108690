-------------------------- MODULE ProceduresProofs --------------------------
(* Proofs about Procedures, for any names, batches and bounds. *)
EXTENDS Procedures, FiniteSetTheorems, TLAPS

vars == <<current, requestVars, handle, err, recordVars, replayVars, stored_proc,
          opened, diskVars, boundVars, histVars>>

-----------------------------------------------------------------------------
(* Messages, marks and records.                                              *)

\* What a recording keeps, what a stored procedure may hold, what a command of the prompt is.
Kinds == {"Q", "P", "O", "L"}
KeptKinds == Kinds \cup {"N", "X"}
Orders == {"R", "RT", "RE", "RL"}
Plain(q) == \A k \in 1 .. Len(q) : q[k].kind \in Kinds
Kept(q) == \A k \in 1 .. Len(q) : q[k].kind \in KeptKinds

\* How many library marks there are up to a message.
Marks(q, k) == Cardinality({j \in 1 .. k : q[j].kind = "N"})

LEMMA MarksZero == ASSUME NEW q PROVE Marks(q, 0) = 0
<1>1. {j \in 1 .. 0 : q[j].kind = "N"} = {}
  OBVIOUS
<1>. QED BY <1>1, FS_EmptySet DEF Marks

LEMMA MarksNat ==
  ASSUME NEW q, NEW k \in Nat
  PROVE  Marks(q, k) \in 0 .. k
<1>. DEFINE M == {j \in 1 .. k : q[j].kind = "N"}
<1>1. IsFiniteSet(1 .. k) /\ Cardinality(1 .. k) = k
  BY FS_Interval
<1>2. M \in SUBSET (1 .. k)
  OBVIOUS
<1>3. IsFiniteSet(M) /\ Cardinality(M) <= k
  BY <1>1, <1>2, FS_Subset
<1>4. Cardinality(M) \in Nat
  BY <1>3, FS_CardinalityType
<1>. QED BY <1>3, <1>4 DEF Marks

\* One message more is one mark more if it is a mark.
LEMMA MarksStep ==
  ASSUME NEW q, NEW k \in Nat
  PROVE  Marks(q, k + 1) = Marks(q, k) + (IF q[k + 1].kind = "N" THEN 1 ELSE 0)
<1>. DEFINE M == {j \in 1 .. k : q[j].kind = "N"}
            S == {j \in 1 .. k + 1 : q[j].kind = "N"}
<1>1. IsFiniteSet(M)
  <2>1. IsFiniteSet(1 .. k)
    BY FS_Interval
  <2>. QED BY <2>1, FS_Subset
<1>2. Cardinality(M) \in Nat
  BY <1>1, FS_CardinalityType
<1>3. CASE q[k + 1].kind = "N"
  <2>1. S = M \cup {k + 1}
    BY <1>3
  <2>2. k + 1 \notin M
    OBVIOUS
  <2>3. Cardinality(M \cup {k + 1}) = Cardinality(M) + 1
    BY <1>1, <2>2, FS_AddElement
  <2>. QED BY <1>3, <2>1, <2>3 DEF Marks
<1>4. CASE q[k + 1].kind # "N"
  <2>1. S = M
    BY <1>4
  <2>2. Marks(q, k + 1) = Cardinality(S) /\ Marks(q, k) = Cardinality(M)
    BY DEF Marks
  <2>. HIDE DEF S, M
  <2>. QED BY <1>2, <1>4, <2>1, <2>2
<1>. QED BY <1>3, <1>4

LEMMA MarksUpTo ==
  ASSUME NEW q, NEW j \in Nat, NEW k \in Nat, j <= k
  PROVE  Marks(q, j) <= Marks(q, k)
<1>. DEFINE M == {x \in 1 .. k : q[x].kind = "N"}
            S == {x \in 1 .. j : q[x].kind = "N"}
<1>1. IsFiniteSet(M)
  <2>1. IsFiniteSet(1 .. k)
    BY FS_Interval
  <2>. QED BY <2>1, FS_Subset
<1>2. S \in SUBSET M
  OBVIOUS
<1>3. Cardinality(S) <= Cardinality(M)
  BY <1>1, <1>2, FS_Subset
<1>. QED BY <1>3 DEF Marks

\* The same marks in the same places.
LEMMA MarksSame ==
  ASSUME NEW p, NEW q, NEW k \in Nat,
         \A j \in 1 .. k : p[j].kind = "N" <=> q[j].kind = "N"
  PROVE  Marks(p, k) = Marks(q, k)
<1>1. {j \in 1 .. k : p[j].kind = "N"} = {j \in 1 .. k : q[j].kind = "N"}
  OBVIOUS
<1>. QED BY <1>1 DEF Marks

LEMMA MarksAppend ==
  ASSUME NEW q \in Seq(Messages), NEW m \in Messages
  PROVE  /\ \A k \in 0 .. Len(q) : Marks(Append(q, m), k) = Marks(q, k)
         /\ Marks(Append(q, m), Len(q) + 1)
              = Marks(q, Len(q)) + (IF m.kind = "N" THEN 1 ELSE 0)
<1>. DEFINE p == Append(q, m)
<1>1. Len(q) \in Nat /\ p[Len(q) + 1] = m /\ \A j \in 1 .. Len(q) : p[j] = q[j]
  OBVIOUS
<1>. HIDE DEF p
<1>2. ASSUME NEW k \in 0 .. Len(q)
      PROVE  Marks(p, k) = Marks(q, k)
  <2>1. \A j \in 1 .. k : p[j].kind = "N" <=> q[j].kind = "N"
    BY <1>1
  <2>. QED BY <1>1, <2>1, MarksSame
<1>3. Marks(p, Len(q) + 1) = Marks(p, Len(q)) + (IF m.kind = "N" THEN 1 ELSE 0)
  BY <1>1, MarksStep
<1>4. Marks(p, Len(q)) = Marks(q, Len(q))
  BY <1>1, <1>2
<1>. QED BY <1>2, <1>3, <1>4 DEF p

\* The record of a procedure: a mark for each library, and for every other message the one
\* that ran; every call has a library.
Like(m, o) == m = o \/ (m.kind = "X" /\ o.kind = "L")
Faithful(q, of) ==
  /\ Len(of) = Len(q) - Marks(q, Len(q))
  /\ \A k \in 1 .. Len(q) : q[k].kind # "N" =>
       k - Marks(q, k) \in 1 .. Len(of) /\ Like(q[k], of[k - Marks(q, k)])
Called(q, n) == \A k \in 1 .. Len(q) : q[k].kind = "P" => Marks(q, k) \in 1 .. n
Bound(q, libs) == \A k \in 1 .. Len(q) : q[k].kind = "P" =>
                    Marks(q, k) \in 1 .. Len(libs) /\ libs[Marks(q, k)] # None

RecordOK(p) ==
  /\ Kept(p.queries) /\ Len(p.libs) <= MaxRequests
  /\ Marks(p.queries, Len(p.queries)) = Len(p.libs)
  /\ Faithful(p.queries, p.of) /\ Bound(p.queries, p.libs)
ImageOK(f) ==
  /\ Kept(f.queries) /\ f.modules <= MaxRequests
  /\ Marks(f.queries, Len(f.queries)) = f.modules
  /\ Faithful(f.queries, f.of) /\ Called(f.queries, f.modules)

LEMMA NothingRecorded ==
  /\ Kept(<<>>) /\ Marks(<<>>, Len(<<>>)) = 0 /\ Faithful(<<>>, <<>>) /\ Bound(<<>>, <<>>)
<1>1. Marks(<<>>, Len(<<>>)) = 0
  BY MarksZero
<1>. QED BY <1>1 DEF Kept, Faithful, Bound

\* A mark is added when a library is copied.
LEMMA RecordMark ==
  ASSUME NEW q \in Seq(Messages), NEW of \in Seq(Messages), NEW libs \in Seq(Handles),
         NEW m \in Messages, m.kind = "N",
         Kept(q), Faithful(q, of), Bound(q, libs)
  PROVE  /\ Kept(Append(q, m)) /\ Faithful(Append(q, m), of) /\ Bound(Append(q, m), libs)
         /\ Marks(Append(q, m), Len(Append(q, m))) = Marks(q, Len(q)) + 1
<1>. DEFINE p == Append(q, m)
<1>1. /\ Len(q) \in Nat /\ Len(p) = Len(q) + 1 /\ p[Len(q) + 1] = m
      /\ \A j \in 1 .. Len(q) : p[j] = q[j]
  OBVIOUS
<1>2. /\ \A k \in 0 .. Len(q) : Marks(p, k) = Marks(q, k)
      /\ Marks(p, Len(q) + 1) = Marks(q, Len(q)) + 1
  BY MarksAppend
<1>3. Marks(q, Len(q)) \in Nat
  BY <1>1, MarksNat
<1>. HIDE DEF p
<1>4. Kept(p)
  BY <1>1 DEF Kept, KeptKinds
<1>5. Len(of) = Len(p) - Marks(p, Len(p))
  BY <1>1, <1>2, <1>3 DEF Faithful
<1>6. ASSUME NEW k \in 1 .. Len(p), p[k].kind # "N"
      PROVE  k - Marks(p, k) \in 1 .. Len(of) /\ Like(p[k], of[k - Marks(p, k)])
  <2>1. k \in 1 .. Len(q)
    BY <1>1, <1>6
  <2>2. p[k] = q[k] /\ Marks(p, k) = Marks(q, k)
    BY <1>1, <1>2, <2>1
  <2>. QED BY <1>6, <2>1, <2>2 DEF Faithful
<1>7. ASSUME NEW k \in 1 .. Len(p), p[k].kind = "P"
      PROVE  Marks(p, k) \in 1 .. Len(libs) /\ libs[Marks(p, k)] # None
  <2>1. k \in 1 .. Len(q)
    BY <1>1, <1>7
  <2>2. p[k] = q[k] /\ Marks(p, k) = Marks(q, k)
    BY <1>1, <1>2, <2>1
  <2>. QED BY <1>7, <2>1, <2>2 DEF Bound
<1>. QED BY <1>1, <1>2, <1>4, <1>5, <1>6, <1>7 DEF Faithful, Bound, p

\* A library is added when it is opened.
LEMMA RecordLibrary ==
  ASSUME NEW q \in Seq(Messages), NEW libs \in Seq(Handles), NEW h \in Handles,
         Bound(q, libs)
  PROVE  Bound(q, Append(libs, h))
<1>1. ASSUME NEW k \in 1 .. Len(q), q[k].kind = "P"
      PROVE  Marks(q, k) \in 1 .. Len(Append(libs, h)) /\ Append(libs, h)[Marks(q, k)] # None
  <2>1. Marks(q, k) \in 1 .. Len(libs) /\ libs[Marks(q, k)] # None
    BY <1>1 DEF Bound
  <2>. QED BY <2>1
<1>. QED BY <1>1 DEF Bound

\* A message is recorded with what ran; a call has the last library.
LEMMA RecordMessage ==
  ASSUME NEW q \in Seq(Messages), NEW of \in Seq(Messages), NEW libs \in Seq(Handles),
         NEW m \in Messages, m.kind \in Kinds,
         Kept(q), Faithful(q, of), Bound(q, libs),
         m.kind = "P" => /\ Marks(q, Len(q)) = Len(libs)
                         /\ libs # <<>> /\ libs[Len(libs)] # None
  PROVE  /\ Kept(Append(q, m)) /\ Faithful(Append(q, m), Append(of, m)) /\ Bound(Append(q, m), libs)
         /\ Marks(Append(q, m), Len(Append(q, m))) = Marks(q, Len(q))
<1>. DEFINE p == Append(q, m)
            o == Append(of, m)
<1>1. /\ Len(q) \in Nat /\ Len(p) = Len(q) + 1 /\ p[Len(q) + 1] = m
      /\ \A j \in 1 .. Len(q) : p[j] = q[j]
  OBVIOUS
<1>2. /\ Len(of) \in Nat /\ Len(o) = Len(of) + 1 /\ o[Len(of) + 1] = m
      /\ \A j \in 1 .. Len(of) : o[j] = of[j]
  OBVIOUS
<1>3. /\ \A k \in 0 .. Len(q) : Marks(p, k) = Marks(q, k)
      /\ Marks(p, Len(q) + 1) = Marks(q, Len(q))
  <2>1. m.kind # "N"
    BY DEF Kinds
  <2>. QED BY <1>1, <2>1, MarksAppend, MarksNat
<1>4. Marks(q, Len(q)) \in Nat
  BY <1>1, MarksNat
<1>. HIDE DEF p, o
<1>5. Kept(p)
  BY <1>1 DEF Kept, KeptKinds
<1>6. Len(of) = Len(q) - Marks(q, Len(q))
  BY DEF Faithful
<1>7. Len(o) = Len(p) - Marks(p, Len(p))
  BY <1>1, <1>2, <1>3, <1>4, <1>6
<1>8. ASSUME NEW k \in 1 .. Len(p), p[k].kind # "N"
      PROVE  k - Marks(p, k) \in 1 .. Len(o) /\ Like(p[k], o[k - Marks(p, k)])
  <2>1. CASE k \in 1 .. Len(q)
    <3>1. p[k] = q[k] /\ Marks(p, k) = Marks(q, k)
      BY <1>1, <1>3, <2>1
    <3>2. k - Marks(q, k) \in 1 .. Len(of) /\ Like(q[k], of[k - Marks(q, k)])
      BY <1>8, <2>1, <3>1 DEF Faithful
    <3>3. o[k - Marks(q, k)] = of[k - Marks(q, k)] /\ k - Marks(q, k) \in 1 .. Len(o)
      <4>1. PICK x \in 1 .. Len(of) : x = k - Marks(q, k)
        BY <3>2
      <4>2. o[x] = of[x] /\ x \in 1 .. Len(o)
        BY <1>2
      <4>. QED BY <4>1, <4>2
    <3>. QED BY <3>1, <3>2, <3>3
  <2>2. CASE k = Len(q) + 1
    <3>1. k - Marks(p, k) = Len(o)
      BY <1>2, <1>3, <1>4, <1>6, <2>2
    <3>2. p[k] = m /\ o[Len(o)] = m /\ Len(o) \in 1 .. Len(o)
      BY <1>1, <1>2, <2>2
    <3>. QED BY <3>1, <3>2 DEF Like
  <2>. QED BY <1>1, <1>8, <2>1, <2>2
<1>9. ASSUME NEW k \in 1 .. Len(p), p[k].kind = "P"
      PROVE  Marks(p, k) \in 1 .. Len(libs) /\ libs[Marks(p, k)] # None
  <2>1. CASE k \in 1 .. Len(q)
    <3>1. p[k] = q[k] /\ Marks(p, k) = Marks(q, k)
      BY <1>1, <1>3, <2>1
    <3>. QED BY <1>9, <2>1, <3>1 DEF Bound
  <2>2. CASE k = Len(q) + 1
    <3>1. Marks(p, k) = Len(libs) /\ m.kind = "P"
      BY <1>1, <1>3, <1>9, <2>2
    <3>2. Len(libs) \in 1 .. Len(libs) /\ libs[Len(libs)] # None
      BY <3>1
    <3>. QED BY <3>1, <3>2
  <2>. QED BY <1>1, <1>9, <2>1, <2>2
<1>. QED BY <1>1, <1>3, <1>5, <1>7, <1>8, <1>9 DEF Faithful, Bound, p, o

\* What a file holds of a record, and what a load makes of it.
LEMMA SavedImage ==
  ASSUME NEW p \in Records, RecordOK(p)
  PROVE  Saved(p) \in Images /\ ImageOK(Saved(p)) /\ Saved(p).of = p.of
<1>. DEFINE q == p.queries
            s == Saved(p).queries
<1>1. q \in Seq(Messages) /\ p.libs \in Seq(Handles) /\ p.of \in Seq(Messages) /\ Len(p.libs) \in Nat
  BY DEF Records
<1>2. DOMAIN q = 1 .. Len(q) /\ Len(q) \in Nat
  BY <1>1
<1>3. s = [k \in 1 .. Len(q) |-> IF q[k].kind = "L" THEN Message("X", None) ELSE q[k]]
  BY <1>2 DEF Saved
<1>4. Saved(p).modules = Len(p.libs) /\ Saved(p).of = p.of
  BY DEF Saved
<1>5. \A k \in 1 .. Len(q) : q[k] \in Messages
  BY <1>1
<1>6. Message("X", None) \in Messages /\ Message("X", None).kind = "X"
  BY DEF Message, Messages, Keys
<1>7. \A k \in 1 .. Len(q) : s[k] = (IF q[k].kind = "L" THEN Message("X", None) ELSE q[k])
  BY <1>3
<1>8. s \in Seq(Messages) /\ Len(s) = Len(q)
  BY <1>2, <1>3, <1>5, <1>6
<1>9. Saved(p) \in Images
  <2>1. Saved(p) = [queries |-> s, modules |-> Len(p.libs), of |-> p.of]
    BY DEF Saved
  <2>. HIDE DEF s
  <2>. QED BY <1>1, <1>8, <2>1 DEF Images
<1>10. Kept(q) /\ Marks(q, Len(q)) = Len(p.libs) /\ Len(p.libs) <= MaxRequests
       /\ Faithful(q, p.of) /\ Bound(q, p.libs)
  BY DEF RecordOK
<1>. HIDE DEF s, q
<1>11. \A k \in 1 .. Len(q) : (s[k].kind = "N" <=> q[k].kind = "N")
                              /\ (s[k].kind = "P" <=> q[k].kind = "P")
  BY <1>6, <1>7
<1>12. ASSUME NEW k \in 0 .. Len(q)
       PROVE  Marks(s, k) = Marks(q, k)
  <2>1. \A j \in 1 .. k : s[j].kind = "N" <=> q[j].kind = "N"
    BY <1>2, <1>11
  <2>. QED BY <1>2, <2>1, MarksSame
<1>13. Kept(s)
  BY <1>6, <1>7, <1>8, <1>10 DEF Kept, KeptKinds
<1>14. Faithful(s, p.of)
  <2>1. Len(p.of) = Len(s) - Marks(s, Len(s))
    BY <1>2, <1>8, <1>10, <1>12 DEF Faithful
  <2>2. ASSUME NEW k \in 1 .. Len(s), s[k].kind # "N"
        PROVE  k - Marks(s, k) \in 1 .. Len(p.of) /\ Like(s[k], p.of[k - Marks(s, k)])
    <3>1. k \in 1 .. Len(q) /\ q[k].kind # "N" /\ Marks(s, k) = Marks(q, k)
      BY <1>2, <1>8, <1>11, <1>12, <2>2
    <3>2. k - Marks(q, k) \in 1 .. Len(p.of) /\ Like(q[k], p.of[k - Marks(q, k)])
      BY <1>10, <3>1 DEF Faithful
    <3>3. CASE q[k].kind # "L"
      BY <1>7, <3>1, <3>2, <3>3
    <3>4. CASE q[k].kind = "L"
      <4>1. s[k].kind = "X"
        BY <1>6, <1>7, <3>1, <3>4
      <4>2. p.of[k - Marks(q, k)].kind = "L"
        BY <3>2, <3>4 DEF Like
      <4>. QED BY <3>1, <3>2, <4>1, <4>2 DEF Like
    <3>. QED BY <3>3, <3>4
  <2>. QED BY <2>1, <2>2 DEF Faithful
<1>15. Called(s, Len(p.libs))
  BY <1>2, <1>8, <1>10, <1>11, <1>12 DEF Called, Bound
<1>16. Marks(s, Len(s)) = Len(p.libs)
  BY <1>2, <1>8, <1>10, <1>12
<1>17. ImageOK(Saved(p))
  BY <1>4, <1>10, <1>13, <1>14, <1>15, <1>16 DEF ImageOK, s
<1>. QED BY <1>4, <1>9, <1>17

LEMMA LoadedRecord ==
  ASSUME NEW f \in Images, NEW p \in Records, NEW n \in Names, ImageOK(f),
         p.queries = f.queries, p.of = f.of, Len(p.libs) = f.modules,
         \A j \in 1 .. Len(p.libs) : p.libs[j] = <<n, j - 1>>
  PROVE  RecordOK(p)
<1>1. Len(p.libs) \in Nat
  BY DEF Records
<1>2. \A j \in 1 .. Len(p.libs) : p.libs[j] \in Paths
  <2>1. MaxRequests \in Nat /\ Len(p.libs) <= MaxRequests
    BY ProcedureAssumption DEF ImageOK
  <2>2. ASSUME NEW j \in 1 .. Len(p.libs)
        PROVE  p.libs[j] \in Paths
    <3>1. n \in Keys /\ j - 1 \in 0 .. MaxRequests
      BY <1>1, <2>1 DEF Keys
    <3>2. <<n, j - 1>> \in Copies
      BY <3>1 DEF Copies
    <3>3. p.libs[j] = <<n, j - 1>>
      OBVIOUS
    <3>. QED BY <3>2, <3>3 DEF Paths
  <2>. QED BY <2>2
<1>3. Bound(p.queries, p.libs)
  BY <1>2, NothingAssumption DEF ImageOK, Called, Bound
<1>. QED BY <1>3 DEF RecordOK, ImageOK

-----------------------------------------------------------------------------
(* The request at hand.                                                      *)

Saving == {"truncate", "write", "insert"}
Loading == {"load", "modules"}
Starting == {"start", "open", "copy", "openCopy"}

\* One order of the prompt: record, stop, run or load.
Ordered(ks) == Len(n_recvd) = 1 /\ n_recvd[1].kind \in ks /\ n_recvd[1].arg \in Names

CountsOK == execs \in Nat /\ requests \in 0 .. MaxRequests /\ (pc # "idle" => requests >= 1)
IdleOK == pc = "idle" => n_recvd = <<>> /\ handle = None /\ replaying = None

\* A request is a batch, one order, or the messages of a procedure, which nobody records.
MessagesOK ==
  /\ i \in 1 .. Len(n_recvd) + 1
  /\ replaying = None => played = <<>> /\ (Plain(n_recvd) \/ Ordered(Orders))
  /\ replaying # None =>
       /\ ~recording /\ current = None /\ n_recvd = proc.queries /\ RecordOK(proc)
       /\ pc \in {"start", "open", "loop", "dead"}
StageOK ==
  /\ pc \in Starting => i = 1 /\ played = <<>>
  /\ pc \in {"copy", "openCopy"} => recording
  /\ pc \in Saving => replaying = None /\ i = 1 /\ Ordered({"RT"})
  /\ pc \in Loading => replaying = None /\ i = 1 /\ Ordered({"RE", "RL"})

\* The library in use is open: it was opened for this request.
HandleOK == handle # None /\ replaying = None => opened[handle].refs > 0

RequestInv == CountsOK /\ IdleOK /\ MessagesOK /\ StageOK /\ HandleOK

\* Who records, and under which name: the prompt knows before the engine performs the order.
Pending(k) == replaying = None /\ i = 1 /\ Ordered({k})
AgreeInv ==
  /\ recording => recName # None
  /\ Pending("R") => current = n_recvd[1].arg /\ ~recording /\ recName = None
  /\ Pending("RT") /\ pc \notin Saving => current = None /\ recording = (recName # None)
  /\ pc \in Saving => current = None /\ ~recording
  /\ replaying = None /\ Ordered({"RE", "RL"}) => current = None
  /\ ~Pending("R") /\ ~Pending("RT") => recName = current /\ recording = (current # None)

\* What is recorded so far: the copy of a library is marked before it is opened.
Marked == Len(recorded_libraries) + IF recording /\ pc \in {"open", "openCopy"} THEN 1 ELSE 0
RecordInv ==
  /\ ~recording => recorded_queries = <<>> /\ recorded_libraries = <<>> /\ ran = <<>>
  /\ Len(recorded_libraries) + (IF pc \in Starting THEN 1 ELSE 0) <= requests
  /\ Kept(recorded_queries)
  /\ Marks(recorded_queries, Len(recorded_queries)) = Marked
  /\ Faithful(recorded_queries, ran) /\ Bound(recorded_queries, recorded_libraries)
  /\ recording /\ pc = "loop" /\ handle # None /\ i <= Len(n_recvd) =>
       recorded_libraries # <<>> /\ recorded_libraries[Len(recorded_libraries)] = handle

\* What is known and what is on disk; a load makes a record of a file.
Whole(n) == aqp[n] # None /\ aqp[n] # Torn
LoadOK ==
  LET n == n_recvd[1].arg IN
  /\ Whole(n)
  /\ proc.queries = aqp[n].queries /\ proc.of = aqp[n].of
  /\ Len(proc.libs) <= aqp[n].modules
  /\ \A j \in 1 .. Len(proc.libs) : proc.libs[j] = <<n, j - 1>>
KnownInv ==
  /\ \A n \in Keys : stored_proc[n] # None => RecordOK(stored_proc[n])
  /\ \A n \in Keys : Whole(n) => ImageOK(aqp[n])
  /\ pc \in Saving => RecordOK(proc)
  /\ pc = "insert" => recName \in unsaved \/ aqp[recName] = Saved(proc)
  /\ pc = "modules" => LoadOK
  /\ \A n \in Keys \ unsaved : stored_proc[n] # None /\ ~(pc \in Saving /\ n = recName) =>
       Whole(n) /\ aqp[n].of = stored_proc[n].of

\* What is played so far.
PlayInv ==
  /\ pc \in Loading /\ n_recvd[1].kind = "RE" => cursor = 0
  /\ replaying # None /\ pc \in {"start", "open", "loop"} =>
       /\ cursor = Marks(n_recvd, i - 1)
       /\ Len(played) = (i - 1) - cursor
       /\ \A m \in 1 .. Len(played) : Like(played[m], proc.of[m])
       /\ pc = "loop" /\ cursor > 0 => handle = proc.libs[cursor]

IInv == TypeOK /\ RequestInv /\ AgreeInv /\ RecordInv /\ KnownInv /\ PlayInv

LEMMA NoName ==
  /\ None \notin Names /\ None \notin Nat /\ None \in Keys /\ Names \subseteq Keys
  /\ None \notin Paths /\ None \notin Records /\ None \notin Images
  /\ Torn \notin Images /\ Torn # None
  /\ MaxRequests \in Nat /\ MaxExecs \in Nat /\ MaxCrashes \in Nat
BY ProcedureAssumption, NothingAssumption DEF Keys

LEMMA Unchanged == IInv /\ UNCHANGED vars => IInv'
<1>. SUFFICES ASSUME IInv, UNCHANGED vars PROVE IInv'
  OBVIOUS
<1>1. /\ UNCHANGED <<current, pc, n_recvd, i, opens, handle, err, recording, recName>>
      /\ UNCHANGED <<recorded_queries, recorded_libraries, replaying, proc, cursor, stored_proc>>
      /\ UNCHANGED <<opened, so, aqp, execs, requests, crashes, ran, played, unsaved, faults>>
  BY DEF vars, requestVars, recordVars, replayVars, diskVars, boundVars, histVars
<1>2. TypeOK'
  BY <1>1 DEF IInv, TypeOK
<1>3. RequestInv'
  BY <1>1 DEF IInv, RequestInv, CountsOK, IdleOK, MessagesOK, StageOK, HandleOK, Ordered
<1>4. AgreeInv'
  BY <1>1 DEF IInv, AgreeInv, Ordered, Pending
<1>5. RecordInv'
  BY <1>1 DEF IInv, RecordInv, Marked
<1>6. KnownInv'
  BY <1>1 DEF IInv, KnownInv, Whole, LoadOK
<1>7. PlayInv'
  BY <1>1 DEF IInv, PlayInv
<1>. QED BY <1>2, <1>3, <1>4, <1>5, <1>6, <1>7 DEF IInv

LEMMA Started == Init => IInv
<1>. SUFFICES ASSUME Init PROVE IInv
  OBVIOUS
<1>1. Len(<<>>) = 0 /\ <<>> \in Seq(Messages) /\ <<>> \in Seq(Handles) /\ 0 \in Codes \cup Nat
  OBVIOUS
<1>2. TypeOK
  <2>1. Unopened \in [Paths -> [code : Codes, refs : Nat]] /\ Empty \in Records
    BY <1>1 DEF Unopened, Codes, Empty, Records
  <2>2. /\ [n \in Keys |-> None] \in [Keys -> Records \cup {None}]
        /\ [n \in Keys |-> None] \in [Keys -> Images \cup {None, Torn}]
        /\ [p \in Paths |-> None] \in [Paths -> Codes]
    BY DEF Codes
  <2>. QED BY <1>1, <2>1, <2>2, NoName DEF Init, TypeOK, PCs, Handles
<1>3. RequestInv
  BY NoName DEF Init, RequestInv, CountsOK, IdleOK, MessagesOK, StageOK, HandleOK, Plain, Starting,
     Saving, Loading
<1>4. AgreeInv
  <2>1. recording = FALSE /\ pc = "idle" /\ recName = None /\ current = None /\ Len(n_recvd) = 0
    BY <1>1 DEF Init
  <2>2. \A ks : ~Ordered(ks)
    BY <2>1 DEF Ordered
  <2>3. recName = current /\ recording = (current # None)
    BY <2>1
  <2>4. pc \notin Saving /\ ~recording
    BY <2>1 DEF Saving
  <2>. QED BY <2>2, <2>3, <2>4 DEF AgreeInv, Pending
<1>5. RecordInv
  BY NothingRecorded DEF Init, RecordInv, Marked, Starting
<1>6. KnownInv
  BY DEF Init, KnownInv, Whole, Saving
<1>7. PlayInv
  BY DEF Init, PlayInv, Loading
<1>. QED BY <1>2, <1>3, <1>4, <1>5, <1>6, <1>7 DEF IInv

-----------------------------------------------------------------------------
(* Every step keeps the types.                                               *)

LEMMA MessageIn ==
  ASSUME NEW k \in {"Q", "P", "O", "L", "X", "N", "R", "RT", "RE", "RL"},
         NEW x \in Keys \cup 1 .. MaxExecs
  PROVE  Message(k, x) \in Messages /\ Message(k, x).kind = k /\ Message(k, x).arg = x
BY DEF Message, Messages

LEMMA OrderIn ==
  ASSUME NEW k \in Orders, NEW n \in Names
  PROVE  /\ <<Message(k, n)>> \in Seq(Messages) /\ Len(<<Message(k, n)>>) = 1
         /\ <<Message(k, n)>>[1].kind = k /\ <<Message(k, n)>>[1].arg = n
<1>1. Message(k, n) \in Messages /\ Message(k, n).kind = k /\ Message(k, n).arg = n
  BY MessageIn DEF Orders, Keys
<1>. QED BY <1>1

\* The messages of an exec.
Sent(b, e) == [k \in DOMAIN b |-> Message(b[k], IF b[k] = "P" THEN e ELSE None)]

LEMMA BatchIn ==
  ASSUME NEW b \in Batches, NEW e \in 1 .. MaxExecs
  PROVE  /\ Sent(b, e) \in Seq(Messages) /\ Len(Sent(b, e)) = Len(b) /\ Len(b) \in Nat
         /\ \A k \in 1 .. Len(b) : /\ Sent(b, e)[k].kind = b[k] /\ b[k] \in Kinds
                                   /\ b[k] = "P" => Sent(b, e)[k].arg = e
<1>1. b \in Seq(Kinds)
  BY ProcedureAssumption DEF Kinds
<1>2. Len(b) \in Nat /\ DOMAIN b = 1 .. Len(b) /\ \A k \in 1 .. Len(b) : b[k] \in Kinds
  BY <1>1
<1>. DEFINE s == Sent(b, e)
<1>3. ASSUME NEW k \in 1 .. Len(b)
      PROVE  s[k] \in Messages /\ s[k].kind = b[k] /\ (b[k] = "P" => s[k].arg = e)
  <2>1. s[k] = Message(b[k], IF b[k] = "P" THEN e ELSE None)
    BY <1>2 DEF Sent
  <2>2. b[k] \in {"Q", "P", "O", "L"}
    BY <1>2 DEF Kinds
  <2>3. (IF b[k] = "P" THEN e ELSE None) \in Keys \cup 1 .. MaxExecs
    BY DEF Keys
  <2>. QED BY <2>1, <2>2, <2>3, MessageIn
<1>4. s \in Seq(Messages) /\ Len(s) = Len(b)
  BY <1>2, <1>3 DEF Sent
<1>. QED BY <1>2, <1>3, <1>4

LEMMA HereIn ==
  ASSUME n_recvd \in Seq(Messages), i \in Nat, i \in 1 .. Len(n_recvd) + 1, More
  PROVE  This \in Messages /\ i \in 1 .. Len(n_recvd) /\ pc = "loop" /\ i + 1 \in 1 .. Len(n_recvd) + 1
BY DEF More, This

LEMMA CopyPath ==
  ASSUME NEW n \in Keys, NEW k \in Nat, k < MaxRequests
  PROVE  <<n, k>> \in Copies /\ <<n, k>> \in Paths /\ <<n, k>> # Dll
<1>1. MaxRequests \in Nat
  BY NoName
<1>2. <<n, k>> \in Copies
  BY <1>1 DEF Copies
<1>3. <<n, k>> # Dll
  BY DEF Dll
<1>. QED BY <1>2, <1>3 DEF Paths

LEMMA OpenLibraryTypes ==
  ASSUME NEW p \in Paths, opened \in [Paths -> [code : Codes, refs : Nat]],
         so \in [Paths -> Codes], faults \subseteq {"stale", "mixed", "lost"}, Dlopen(p)
  PROVE  /\ opened' \in [Paths -> [code : Codes, refs : Nat]]
         /\ opened'[p].refs = opened[p].refs + 1 /\ opened'[p].refs > 0
         /\ opened'[p].code = IF opened[p].refs > 0 THEN opened[p].code ELSE so[p]
         /\ \A q \in Paths : q # p => opened'[q] = opened[q]
         /\ faults' \subseteq {"stale", "mixed", "lost"}
<1>. DEFINE r == [code |-> IF opened[p].refs > 0 THEN opened[p].code ELSE so[p],
                 refs |-> opened[p].refs + 1]
<1>1. opened' = [opened EXCEPT ![p] = r]
  BY DEF Dlopen
<1>2. opened[p].code \in Codes /\ opened[p].refs \in Nat /\ so[p] \in Codes
  OBVIOUS
<1>3. r \in [code : Codes, refs : Nat] /\ r.refs = opened[p].refs + 1
      /\ r.code = IF opened[p].refs > 0 THEN opened[p].code ELSE so[p]
  BY <1>2
<1>4. faults' \subseteq {"stale", "mixed", "lost"}
  BY DEF Dlopen, Fault
<1>. HIDE DEF r
<1>. QED BY <1>1, <1>2, <1>3, <1>4

LEMMA LogTypes ==
  ASSUME recorded_queries \in Seq(Messages), ran \in Seq(Messages), played \in Seq(Messages),
         recording \in BOOLEAN, recName \in Keys, recorded_libraries \in Seq(Handles),
         This \in Messages, NEW done, Log(done)
  PROVE  /\ recorded_queries' \in Seq(Messages) /\ ran' \in Seq(Messages)
         /\ played' \in Seq(Messages)
         /\ recording' \in BOOLEAN /\ recName' \in Keys /\ recorded_libraries' \in Seq(Handles)
         /\ unsaved' = unsaved
BY DEF Log

\* An order is the only message of its request.
LEMMA OrderHere ==
  ASSUME IInv, More, This.kind \in Orders
  PROVE  /\ replaying = None /\ i = 1 /\ Ordered({This.kind}) /\ Pending(This.kind)
         /\ This.arg \in Names /\ This.arg \in Keys /\ This = n_recvd[1] /\ Len(n_recvd) = 1
<1>0. TypeOK /\ MessagesOK
  BY DEF IInv, RequestInv
<1>1. This \in Messages /\ i \in 1 .. Len(n_recvd) /\ This = n_recvd[i]
  BY <1>0, HereIn DEF TypeOK, MessagesOK, This
<1>2. This.kind \notin KeptKinds /\ This.kind \notin Kinds
  BY DEF KeptKinds, Kinds, Orders
<1>3. replaying = None
  <2>1. ~Kept(n_recvd)
    BY <1>1, <1>2 DEF Kept
  <2>. QED BY <1>0, <2>1 DEF MessagesOK, RecordOK
<1>4. ~Plain(n_recvd)
  BY <1>1, <1>2 DEF Plain
<1>5. Ordered(Orders)
  BY <1>0, <1>3, <1>4 DEF MessagesOK
<1>6. i = 1
  BY <1>1, <1>5 DEF Ordered
<1>. QED BY <1>1, <1>3, <1>5, <1>6, NoName DEF Ordered, Pending

\* What is no order is kept by a recording, or comes from a stored procedure.
LEMMA MessageHere ==
  ASSUME IInv, More, This.kind \notin Orders
  PROVE  /\ replaying = None => This.kind \in Kinds /\ ~Ordered(Orders)
         /\ recording => replaying = None
         /\ \A k \in Orders : ~Pending(k)
<1>0. TypeOK /\ MessagesOK
  BY DEF IInv, RequestInv
<1>1. i \in 1 .. Len(n_recvd) /\ This = n_recvd[i]
  BY <1>0, HereIn DEF TypeOK, MessagesOK, This
<1>2. ~Ordered(Orders)
  BY <1>1 DEF Ordered
<1>3. replaying = None => This.kind \in Kinds
  BY <1>0, <1>1, <1>2 DEF MessagesOK, Plain
<1>4. \A k \in Orders : ~Pending(k)
  BY <1>2 DEF Pending, Ordered
<1>. QED BY <1>0, <1>2, <1>3, <1>4 DEF MessagesOK

\* There is a path for the library to be copied, and for the one to be loaded.
LEMMA CopyHere ==
  ASSUME IInv, pc \in Starting
  PROVE  /\ Len(recorded_libraries) \in Nat /\ Len(recorded_libraries) < MaxRequests
         /\ <<recName, Len(recorded_libraries)>> \in Copies
         /\ <<recName, Len(recorded_libraries)>> \in Paths
         /\ <<recName, Len(recorded_libraries)>> # Dll
<1>1. Len(recorded_libraries) \in Nat /\ recName \in Keys
  BY DEF IInv, TypeOK
<1>2. Len(recorded_libraries) < MaxRequests
  BY <1>1, NoName DEF IInv, RequestInv, CountsOK, RecordInv
<1>. QED BY <1>1, <1>2, CopyPath

LEMMA ModuleHere ==
  ASSUME IInv, pc \in Loading
  PROVE  /\ i = 1 /\ This = n_recvd[1] /\ This.arg \in Names /\ This.arg \in Keys
         /\ This.kind \in {"RE", "RL"} /\ Len(n_recvd) = 1 /\ replaying = None
         /\ proc \in Records /\ Len(proc.libs) \in Nat
         /\ aqp[This.arg] \in Images \cup {None, Torn}
         /\ pc = "modules" => /\ LoadOK /\ aqp[This.arg] \in Images /\ ImageOK(aqp[This.arg])
                              /\ aqp[This.arg].modules <= MaxRequests
                              /\ aqp[This.arg].modules \in Nat
<1>0. TypeOK /\ StageOK /\ KnownInv
  BY DEF IInv, RequestInv
<1>1. i = 1 /\ replaying = None /\ Ordered({"RE", "RL"})
  BY <1>0 DEF StageOK
<1>2. /\ This = n_recvd[1] /\ This.arg \in Names /\ This.arg \in Keys
      /\ This.kind \in {"RE", "RL"} /\ Len(n_recvd) = 1
  BY <1>1, NoName DEF Ordered, This
<1>3. proc \in Records /\ Len(proc.libs) \in Nat /\ aqp[This.arg] \in Images \cup {None, Torn}
  BY <1>0, <1>2 DEF TypeOK, Records
<1>4. ASSUME pc = "modules"
      PROVE  /\ LoadOK /\ aqp[This.arg] \in Images /\ ImageOK(aqp[This.arg])
             /\ aqp[This.arg].modules <= MaxRequests /\ aqp[This.arg].modules \in Nat
  <2>1. LoadOK
    BY <1>0, <1>4 DEF KnownInv
  <2>2. Whole(This.arg)
    BY <1>2, <2>1 DEF LoadOK
  <2>3. aqp[This.arg] \in Images
    BY <1>3, <2>2 DEF Whole
  <2>4. ImageOK(aqp[This.arg])
    BY <1>0, <1>2, <2>2 DEF KnownInv
  <2>. QED BY <2>1, <2>3, <2>4 DEF ImageOK, Images
<1>. QED BY <1>1, <1>2, <1>3, <1>4

LEMMA RequestTypes ==
  ASSUME IInv, NEW ms \in Seq(Messages), NEW dll \in BOOLEAN, Request(ms, dll)
  PROVE  /\ n_recvd' \in Seq(Messages) /\ i' \in Nat /\ opens' \in BOOLEAN /\ pc' \in PCs
         /\ UNCHANGED <<handle, err, recording, recName, recorded_queries, recorded_libraries>>
         /\ UNCHANGED <<replaying, proc, cursor, stored_proc, opened, aqp, crashes>>
         /\ UNCHANGED <<ran, played, unsaved, faults>>
BY DEF IInv, TypeOK, PCs, Request, recordVars, replayVars, histVars

LEMMA TypeStep == IInv /\ [Next]_vars => TypeOK'
<1>. SUFFICES ASSUME IInv, [Next]_vars PROVE TypeOK'
  OBVIOUS
<1>. USE DEF engineRest, boundVars, recordVars, replayVars, diskVars, histVars
<1>0. TypeOK
  BY DEF IInv
<1>1. ASSUME NEW b \in Batches, Exec(b) PROVE TypeOK'
  <2>1. execs + 1 \in 1 .. MaxExecs
    BY <1>1, NoName DEF IInv, RequestInv, CountsOK, Exec
  <2>2. Sent(b, execs + 1) \in Seq(Messages)
    BY <2>1, BatchIn
  <2>3. Contains(b, "P") \in BOOLEAN
    BY DEF Contains
  <2>4. Request(Sent(b, execs + 1), Contains(b, "P"))
    BY <1>1 DEF Exec, Sent
  <2>5. so' \in [Paths -> Codes]
    BY <1>0, <1>1, <2>1 DEF Exec, TypeOK, Codes
  <2>6. UNCHANGED current
    BY <1>1 DEF Exec
  <2>. QED BY <1>0, <2>2, <2>3, <2>4, <2>5, <2>6, RequestTypes DEF TypeOK
<1>2. ASSUME NEW n \in Names, Record(n) PROVE TypeOK'
  <2>1. Request(<<Message("R", n)>>, FALSE) /\ current' = n /\ UNCHANGED so
    BY <1>2 DEF Record
  <2>. DEFINE ms == <<Message("R", n)>>
  <2>2. ms \in Seq(Messages)
    BY OrderIn DEF Orders
  <2>. HIDE DEF ms
  <2>3. Request(ms, FALSE)
    BY <2>1 DEF ms
  <2>4. /\ n_recvd' \in Seq(Messages) /\ i' \in Nat /\ opens' \in BOOLEAN /\ pc' \in PCs
        /\ UNCHANGED <<handle, err, recording, recName, recorded_queries, recorded_libraries>>
        /\ UNCHANGED <<replaying, proc, cursor, stored_proc, opened, aqp, crashes>>
        /\ UNCHANGED <<ran, played, unsaved, faults>>
    BY <2>2, <2>3, RequestTypes
  <2>. QED BY <1>0, <2>1, <2>4, NoName DEF TypeOK
<1>3. ASSUME NEW n \in Names, Stop(n) PROVE TypeOK'
  <2>1. Request(<<Message("RT", n)>>, FALSE) /\ current' = None /\ UNCHANGED so
    BY <1>3 DEF Stop
  <2>. DEFINE ms == <<Message("RT", n)>>
  <2>2. ms \in Seq(Messages)
    BY OrderIn DEF Orders
  <2>. HIDE DEF ms
  <2>3. Request(ms, FALSE)
    BY <2>1 DEF ms
  <2>4. /\ n_recvd' \in Seq(Messages) /\ i' \in Nat /\ opens' \in BOOLEAN /\ pc' \in PCs
        /\ UNCHANGED <<handle, err, recording, recName, recorded_queries, recorded_libraries>>
        /\ UNCHANGED <<replaying, proc, cursor, stored_proc, opened, aqp, crashes>>
        /\ UNCHANGED <<ran, played, unsaved, faults>>
    BY <2>2, <2>3, RequestTypes
  <2>. QED BY <1>0, <2>1, <2>4, NoName DEF TypeOK
<1>4. ASSUME NEW n \in Names, Replay(n) PROVE TypeOK'
  <2>1. PICK k \in {"RE", "RL"} : Request(<<Message(k, n)>>, FALSE)
    BY <1>4 DEF Replay
  <2>2. UNCHANGED <<current, so>>
    BY <1>4 DEF Replay
  <2>3. <<Message(k, n)>> \in Seq(Messages)
    BY OrderIn DEF Orders
  <2>4. /\ n_recvd' \in Seq(Messages) /\ i' \in Nat /\ opens' \in BOOLEAN /\ pc' \in PCs
        /\ UNCHANGED <<handle, err, recording, recName, recorded_queries, recorded_libraries>>
        /\ UNCHANGED <<replaying, proc, cursor, stored_proc, opened, aqp, crashes>>
        /\ UNCHANGED <<ran, played, unsaved, faults>>
    BY <2>1, <2>3, RequestTypes
  <2>. QED BY <1>0, <2>2, <2>4 DEF TypeOK
<1>5. CASE Start
  BY <1>0, <1>5, NoName DEF Start, TypeOK, PCs, Handles
<1>6. CASE CopyLibrary
  <2>. DEFINE path == <<recName, Len(recorded_libraries)>>
  <2>1. path \in Paths
    BY <1>6, CopyHere DEF CopyLibrary, Starting
  <2>2. Mark \in Messages
    BY MessageIn DEF Mark, Keys
  <2>3. recorded_queries' = Append(recorded_queries, Mark)
    BY <1>6 DEF CopyLibrary
  <2>4. recorded_queries' \in Seq(Messages)
    BY <1>0, <2>2, <2>3 DEF TypeOK
  <2>. HIDE DEF path
  <2>5. so' \in {[so EXCEPT ![path] = so[Dll]], [so EXCEPT ![path] = None], so}
    BY <1>6 DEF CopyLibrary, path
  <2>6. so' \in [Paths -> Codes]
    BY <1>0, <2>1, <2>5 DEF TypeOK, Codes, Paths
  <2>7. pc' \in PCs /\ faults' \subseteq {"stale", "mixed", "lost"}
    BY <1>0, <1>6 DEF CopyLibrary, PCs, Fault, TypeOK
  <2>. QED BY <1>0, <1>6, <2>4, <2>6, <2>7 DEF CopyLibrary, TypeOK
<1>7. CASE OpenLibrary
  <2>. DEFINE path == IF pc = "open" THEN Dll ELSE <<recName, Len(recorded_libraries)>>
  <2>1. path \in Paths
    BY <1>7, CopyHere DEF OpenLibrary, Starting, Paths
  <2>. HIDE DEF path
  <2>2. (handle' = path /\ Dlopen(path)) \/ (handle' = None /\ UNCHANGED <<opened, faults>>)
    BY <1>7 DEF OpenLibrary, path
  <2>3. handle' \in Handles
    BY <2>1, <2>2 DEF Handles
  <2>4. opened' \in [Paths -> [code : Codes, refs : Nat]] /\ faults' \subseteq {"stale", "mixed", "lost"}
    BY <1>0, <2>1, <2>2, OpenLibraryTypes DEF TypeOK
  <2>5. recorded_libraries' = IF recording THEN Append(recorded_libraries, handle')
                                           ELSE recorded_libraries
    BY <1>7 DEF OpenLibrary
  <2>6. recorded_libraries' \in Seq(Handles)
    BY <1>0, <2>3, <2>5 DEF TypeOK
  <2>7. pc' \in PCs
    BY <1>7 DEF OpenLibrary, PCs
  <2>. QED BY <1>0, <1>7, <2>3, <2>4, <2>6, <2>7 DEF OpenLibrary, TypeOK
<1>8. CASE PerformQuery
  <2>1. This \in Messages /\ i + 1 \in Nat /\ i \in Nat
    BY <1>0, <1>8, HereIn DEF PerformQuery, TypeOK, IInv, RequestInv, MessagesOK
  <2>2. Log(TRUE)
    BY <1>8 DEF PerformQuery
  <2>3. /\ recorded_queries' \in Seq(Messages) /\ ran' \in Seq(Messages)
        /\ played' \in Seq(Messages)
        /\ recording' \in BOOLEAN /\ recName' \in Keys /\ recorded_libraries' \in Seq(Handles)
        /\ unsaved' = unsaved
    BY <1>0, <2>1, <2>2, LogTypes DEF TypeOK
  <2>. QED BY <1>0, <1>8, <2>1, <2>3 DEF PerformQuery, TypeOK, Step
<1>9. CASE PerformProcedure
  <2>1. This \in Messages /\ i + 1 \in Nat /\ i \in Nat
    BY <1>0, <1>9, HereIn DEF PerformProcedure, TypeOK, IInv, RequestInv, MessagesOK
  <2>2. CASE handle = None
    BY <1>0, <1>9, <2>1, <2>2 DEF PerformProcedure, TypeOK, Step
  <2>3. CASE handle # None
    <3>1. /\ Log(~err) /\ err' = FALSE /\ (Step \/ Stuck)
          /\ faults' \subseteq faults \cup {"lost"}
      BY <1>9, <2>3 DEF PerformProcedure, Fault
    <3>2. /\ recorded_queries' \in Seq(Messages) /\ ran' \in Seq(Messages)
          /\ played' \in Seq(Messages)
          /\ recording' \in BOOLEAN /\ recName' \in Keys /\ recorded_libraries' \in Seq(Handles)
          /\ unsaved' = unsaved
      BY <1>0, <2>1, <3>1, LogTypes DEF TypeOK
    <3>3. pc' \in PCs /\ i' \in Nat /\ n_recvd' = n_recvd
      BY <1>0, <2>1, <3>1 DEF Step, Stuck, PCs, TypeOK
    <3>4. faults' \subseteq {"stale", "mixed", "lost"}
      BY <1>0, <3>1 DEF TypeOK
    <3>. QED BY <1>0, <1>9, <3>1, <3>2, <3>3, <3>4 DEF PerformProcedure, TypeOK
  <2>. QED BY <2>2, <2>3
<1>10. CASE PerformOutput
  <2>1. This \in Messages /\ i + 1 \in Nat /\ i \in Nat
    BY <1>0, <1>10, HereIn DEF PerformOutput, TypeOK, IInv, RequestInv, MessagesOK
  <2>2. Log(~err)
    BY <1>10 DEF PerformOutput
  <2>3. /\ recorded_queries' \in Seq(Messages) /\ ran' \in Seq(Messages)
        /\ played' \in Seq(Messages)
        /\ recording' \in BOOLEAN /\ recName' \in Keys /\ recorded_libraries' \in Seq(Handles)
        /\ unsaved' = unsaved
    BY <1>0, <2>1, <2>2, LogTypes DEF TypeOK
  <2>. QED BY <1>0, <1>10, <2>1, <2>3 DEF PerformOutput, TypeOK, Step
<1>11. CASE NextLibrary
  BY <1>0, <1>11 DEF NextLibrary, TypeOK, Step, Records
<1>12. CASE BeginRecording
  <2>1. This.arg \in Keys
    BY <1>12, OrderHere DEF BeginRecording, Orders
  <2>2. Empty \in Records
    BY DEF Empty, Records
  <2>. QED BY <1>0, <1>12, <2>1, <2>2 DEF BeginRecording, TypeOK, Step
<1>13. CASE EndRecording
  <2>1. proc' \in Records
    BY <1>0, <1>13 DEF EndRecording, TypeOK, Records
  <2>2. <<>> \in Seq(Messages) /\ <<>> \in Seq(Handles)
    OBVIOUS
  <2>. QED BY <1>0, <1>13, <2>1, <2>2 DEF EndRecording, TypeOK, PCs
<1>14. CASE Truncate
  BY <1>0, <1>14 DEF Truncate, TypeOK, PCs, FileName, Fault
<1>15. CASE WriteFile
  <2>1. Saved(proc) \in Images
    BY <1>0, <1>15, SavedImage DEF WriteFile, TypeOK, IInv, KnownInv, Saving
  <2>. QED BY <1>0, <1>15, <2>1 DEF WriteFile, TypeOK, PCs, FileName, Fault
<1>16. CASE Insert
  BY <1>0, <1>16, NoName DEF Insert, TypeOK, PCs
<1>17. CASE Run
  <2>1. This.arg \in Keys
    BY <1>17, OrderHere DEF Run, Orders
  <2>2. CASE stored_proc[This.arg] # None
    <3>1. stored_proc[This.arg] \in Records
      BY <1>0, <2>1, <2>2 DEF TypeOK
    <3>2. proc' = stored_proc[This.arg] /\ PlayFrom(proc')
      BY <1>17, <2>2 DEF Run
    <3>3. proc' \in Records /\ proc'.queries \in Seq(Messages)
      BY <3>1, <3>2 DEF Records
    <3>4. n_recvd' \in Seq(Messages) /\ i' \in Nat /\ pc' \in PCs /\ replaying' \in Keys
          /\ played' \in Seq(Messages)
      BY <2>1, <3>2, <3>3 DEF PlayFrom, PCs
    <3>. QED BY <1>0, <1>17, <3>3, <3>4 DEF Run, TypeOK
  <2>3. CASE stored_proc[This.arg] = None
    BY <1>0, <1>17, <2>3 DEF Run, TypeOK, PCs
  <2>. QED BY <2>2, <2>3
<1>18. CASE Load
  BY <1>0, <1>18 DEF Load, TypeOK, PCs
<1>19. CASE ReadFile
  <2>. DEFINE f == aqp[This.arg]
  <2>1. f \in Images \cup {None, Torn} /\ i = 1
    BY <1>19, ModuleHere DEF ReadFile, Loading
  <2>2. proc' = IF f \in {None, Torn} THEN proc ELSE [queries |-> f.queries, libs |-> <<>>, of |-> f.of]
    BY <1>19 DEF ReadFile
  <2>3. pc' \in PCs /\ i' \in Nat /\ faults' \subseteq {"stale", "mixed", "lost"}
    BY <1>0, <1>19, <2>1 DEF ReadFile, PCs, Fault, TypeOK
  <2>. HIDE DEF f
  <2>4. proc' \in Records
    BY <1>0, <2>1, <2>2 DEF TypeOK, Records, Images
  <2>. QED BY <1>0, <1>19, <2>3, <2>4 DEF ReadFile, TypeOK
<1>20. CASE LoadModule
  <2>. DEFINE path == <<This.arg, Len(proc.libs)>>
  <2>1. path \in Paths
    BY <1>20, ModuleHere, CopyPath, NoName DEF LoadModule, Loading
  <2>. HIDE DEF path
  <2>2. CASE CanOpen(path)
    <3>1. Dlopen(path) /\ proc' = [proc EXCEPT !.libs = Append(@, path)] /\ UNCHANGED <<pc, i>>
      BY <1>20, <2>2 DEF LoadModule, path
    <3>2. opened' \in [Paths -> [code : Codes, refs : Nat]] /\ faults' \subseteq {"stale", "mixed", "lost"}
      BY <1>0, <2>1, <3>1, OpenLibraryTypes DEF TypeOK
    <3>3. Append(proc.libs, path) \in Seq(Handles)
      BY <1>0, <2>1 DEF TypeOK, Records, Handles
    <3>4. proc' \in Records
      BY <1>0, <3>1, <3>3 DEF TypeOK, Records
    <3>. QED BY <1>0, <1>20, <3>1, <3>2, <3>4 DEF LoadModule, TypeOK
  <2>3. CASE ~CanOpen(path)
    BY <1>0, <1>20, <2>3 DEF LoadModule, TypeOK, PCs, path
  <2>. QED BY <2>2, <2>3
<1>21. CASE Loaded
  <2>1. This.arg \in Keys /\ proc \in Records /\ i = 1
    BY <1>21, ModuleHere DEF Loaded, Loading
  <2>2. stored_proc' \in [Keys -> Records \cup {None}]
    BY <1>0, <1>21, <2>1 DEF Loaded, TypeOK
  <2>3. proc.queries \in Seq(Messages)
    BY <2>1 DEF Records
  <2>4. n_recvd' \in Seq(Messages) /\ i' \in Nat /\ pc' \in PCs /\ replaying' \in Keys
        /\ played' \in Seq(Messages)
    <3>1. CASE This.kind = "RE"
      <4>1. PlayFrom(proc)
        BY <1>21, <3>1 DEF Loaded
      <4>. QED BY <2>1, <2>3, <4>1 DEF PlayFrom, PCs
    <3>2. CASE This.kind # "RE"
      BY <1>0, <1>21, <2>1, <3>2 DEF Loaded, PCs, TypeOK
    <3>. QED BY <3>1, <3>2
  <2>. QED BY <1>0, <1>21, <2>2, <2>4 DEF Loaded, TypeOK
<1>22. CASE Finish
  <2>1. /\ pc' \in PCs /\ n_recvd' \in Seq(Messages) /\ i' \in Nat /\ opens' \in BOOLEAN
        /\ handle' \in Handles /\ err' \in BOOLEAN /\ replaying' \in Keys
        /\ played' \in Seq(Messages)
    <3>1. /\ pc' = "idle" /\ n_recvd' = <<>> /\ i' = 1 /\ opens' = FALSE
          /\ handle' = None /\ err' = FALSE /\ replaying' = None /\ played' = <<>>
      BY <1>22 DEF Finish, EndRequest
    <3>2. <<>> \in Seq(Messages) /\ "idle" \in PCs /\ 1 \in Nat
      BY DEF PCs
    <3>. QED BY <3>1, <3>2, NoName DEF Handles
  <2>2. CASE handle = None \/ recording \/ replaying # None
    <3>1. opened' = opened
      BY <1>22, <2>2 DEF Finish, EndRequest
    <3>. QED BY <1>0, <1>22, <2>1, <3>1 DEF Finish, EndRequest, TypeOK
  <2>3. CASE handle # None /\ ~recording /\ replaying = None
    <3>1. handle \in Paths /\ opened[handle].refs \in Nat /\ opened[handle].refs > 0
      BY <1>0, <2>3 DEF TypeOK, Handles, IInv, RequestInv, HandleOK
    <3>. DEFINE r == [opened[handle] EXCEPT !.refs = @ - 1]
    <3>2. opened' = [opened EXCEPT ![handle] = r]
      BY <1>22, <2>3 DEF Finish, EndRequest
    <3>3. r \in [code : Codes, refs : Nat]
      <4>1. opened[handle] \in [code : Codes, refs : Nat]
        BY <1>0, <3>1 DEF TypeOK
      <4>2. opened[handle].refs - 1 \in Nat
        BY <3>1
      <4>. QED BY <4>1, <4>2
    <3>. HIDE DEF r
    <3>4. opened' \in [Paths -> [code : Codes, refs : Nat]]
      BY <1>0, <3>1, <3>2, <3>3 DEF TypeOK
    <3>. QED BY <1>0, <1>22, <2>1, <3>4 DEF Finish, EndRequest, TypeOK
  <2>. QED BY <2>2, <2>3
<1>23. CASE Crash
  <2>1. Unopened \in [Paths -> [code : Codes, refs : Nat]] /\ Empty \in Records
    BY DEF Unopened, Codes, Empty, Records
  <2>2. [n \in Keys |-> None] \in [Keys -> Records \cup {None}]
    OBVIOUS
  <2>3. faults' \subseteq {"stale", "mixed", "lost"}
    BY <1>0, <1>23 DEF Crash, Fault, TypeOK
  <2>4. <<>> \in Seq(Messages) /\ <<>> \in Seq(Handles)
    OBVIOUS
  <2>. QED BY <1>0, <1>23, <2>1, <2>2, <2>3, <2>4, NoName DEF Crash, TypeOK, PCs, Handles
<1>24. CASE UNCHANGED vars
  BY <1>24, Unchanged DEF IInv
<1>. QED BY <1>1, <1>2, <1>3, <1>4, <1>5, <1>6, <1>7, <1>8, <1>9, <1>10, <1>11, <1>12, <1>13,
            <1>14, <1>15, <1>16, <1>17, <1>18, <1>19, <1>20, <1>21, <1>22, <1>23, <1>24
         DEF Next, Command, Engine

-----------------------------------------------------------------------------
(* Every step leaves a request in order.                                     *)

LEMMA RequestStarts ==
  ASSUME IInv, NEW ms \in Seq(Messages), NEW dll \in BOOLEAN, Request(ms, dll), execs' \in Nat,
         Plain(ms) \/ (Len(ms) = 1 /\ ms[1].kind \in Orders /\ ms[1].arg \in Names)
  PROVE  RequestInv'
<1>1. /\ pc = "idle" /\ pc' = "start" /\ n_recvd' = ms /\ i' = 1 /\ requests < MaxRequests
      /\ requests' = requests + 1 /\ handle' = handle /\ replaying' = replaying /\ played' = played
  BY DEF Request, replayVars, histVars
<1>2. replaying = None /\ handle = None /\ played = <<>>
  BY <1>1 DEF IInv, RequestInv, IdleOK, MessagesOK
<1>3. CountsOK'
  BY <1>1, NoName DEF IInv, RequestInv, CountsOK
<1>4. MessagesOK'
  BY <1>1, <1>2 DEF MessagesOK, Ordered
<1>. QED BY <1>1, <1>2, <1>3, <1>4 DEF RequestInv, IdleOK, StageOK, HandleOK, Starting, Saving, Loading

\* A message is performed, and the next one is at hand.
LEMMA RequestGoesOn ==
  ASSUME IInv, More, pc' = pc \/ pc' = "dead", n_recvd' = n_recvd, i' = i + 1 \/ i' = i,
         UNCHANGED <<handle, recording, current, replaying, proc, opened, execs, requests>>,
         replaying = None => played' = played
  PROVE  RequestInv'
<1>1. pc = "loop" /\ i \in 1 .. Len(n_recvd)
  BY DEF More, IInv, RequestInv, MessagesOK
<1>2. i' \in 1 .. Len(n_recvd) + 1
  BY <1>1 DEF IInv, TypeOK
<1>3. CountsOK' /\ IdleOK' /\ StageOK' /\ HandleOK'
  BY <1>1 DEF IInv, RequestInv, CountsOK, IdleOK, StageOK, HandleOK, Starting, Saving, Loading
<1>4. MessagesOK'
  BY <1>1, <1>2 DEF IInv, RequestInv, MessagesOK, Ordered
<1>. QED BY <1>3, <1>4 DEF RequestInv

LEMMA RequestStep == IInv /\ [Next]_vars => RequestInv'
<1>. SUFFICES ASSUME IInv, [Next]_vars PROVE RequestInv'
  OBVIOUS
<1>. USE DEF engineRest, boundVars, recordVars, replayVars, diskVars, histVars
<1>0. TypeOK /\ RequestInv /\ TypeOK'
  BY TypeStep DEF IInv
<1>1. ASSUME NEW b \in Batches, Exec(b) PROVE RequestInv'
  <2>1. execs + 1 \in 1 .. MaxExecs /\ execs' \in Nat
    BY <1>1, NoName DEF IInv, RequestInv, CountsOK, Exec
  <2>2. Sent(b, execs + 1) \in Seq(Messages) /\ Plain(Sent(b, execs + 1))
    BY <2>1, BatchIn DEF Plain
  <2>3. Contains(b, "P") \in BOOLEAN
    BY DEF Contains
  <2>4. Request(Sent(b, execs + 1), Contains(b, "P"))
    BY <1>1 DEF Exec, Sent
  <2>. QED BY <2>1, <2>2, <2>3, <2>4, RequestStarts
<1>2. ASSUME NEW n \in Names, NEW k \in Orders, Request(<<Message(k, n)>>, FALSE), UNCHANGED execs
      PROVE  RequestInv'
  <2>. DEFINE ms == <<Message(k, n)>>
  <2>1. ms \in Seq(Messages) /\ Len(ms) = 1 /\ ms[1].kind \in Orders /\ ms[1].arg \in Names
    BY OrderIn
  <2>2. execs' \in Nat
    BY <1>2 DEF IInv, RequestInv, CountsOK
  <2>3. Request(ms, FALSE)
    BY <1>2
  <2>. HIDE DEF ms
  <2>. QED BY <2>1, <2>2, <2>3, RequestStarts
<1>3. ASSUME NEW n \in Names, Record(n) \/ Stop(n) \/ Replay(n) PROVE RequestInv'
  <2>1. \E k \in Orders : Request(<<Message(k, n)>>, FALSE)
    BY <1>3 DEF Record, Stop, Replay, Orders
  <2>2. UNCHANGED execs
    BY <1>3 DEF Record, Stop, Replay
  <2>. QED BY <1>2, <2>1, <2>2
<1>5. CASE Start
  <2>1. pc = "start" /\ pc' \in {"loop", "copy", "open"} /\ (pc' = "copy" => recording) /\ handle' = None
    BY <1>5 DEF Start
  <2>. QED BY <1>0, <1>5, <2>1 DEF Start, RequestInv, CountsOK, IdleOK, MessagesOK, StageOK,
         HandleOK, Ordered, Starting, Saving, Loading
<1>6. CASE CopyLibrary
  <2>1. pc = "copy" /\ pc' \in {"open", "openCopy"}
    BY <1>6 DEF CopyLibrary
  <2>. QED BY <1>0, <1>6, <2>1 DEF CopyLibrary, RequestInv, CountsOK, IdleOK, MessagesOK, StageOK,
         HandleOK, Ordered, Starting, Saving, Loading
<1>7. CASE OpenLibrary
  <2>. DEFINE path == IF pc = "open" THEN Dll ELSE <<recName, Len(recorded_libraries)>>
  <2>1. path \in Paths
    BY <1>7, CopyHere DEF OpenLibrary, Starting, Paths
  <2>. HIDE DEF path
  <2>2. (handle' = path /\ Dlopen(path)) \/ (handle' = None /\ UNCHANGED <<opened, faults>>)
    BY <1>7 DEF OpenLibrary, path
  <2>3. handle' # None => opened'[handle'].refs > 0
    BY <1>0, <2>1, <2>2, OpenLibraryTypes DEF TypeOK
  <2>4. pc \in {"open", "openCopy"} /\ pc' = "loop"
    BY <1>7 DEF OpenLibrary
  <2>. QED BY <1>0, <1>7, <2>3, <2>4 DEF OpenLibrary, RequestInv, CountsOK, IdleOK, MessagesOK,
         StageOK, HandleOK, Ordered, Starting, Saving, Loading
<1>8. CASE PerformQuery
  BY <1>8, RequestGoesOn DEF PerformQuery, Step, Log
<1>9. CASE PerformProcedure
  BY <1>9, RequestGoesOn DEF PerformProcedure, Step, Stuck, Log
<1>10. CASE PerformOutput
  BY <1>10, RequestGoesOn DEF PerformOutput, Step, Log
<1>11. CASE NextLibrary
  <2>1. replaying # None /\ More /\ Step /\ i \in 1 .. Len(n_recvd) /\ pc = "loop"
    <3>1. More /\ Step /\ This.kind = "N"
      BY <1>11 DEF NextLibrary
    <3>2. replaying # None
      BY <3>1, MessageHere DEF Orders, Kinds
    <3>. QED BY <1>0, <3>1, <3>2, HereIn DEF TypeOK, RequestInv, MessagesOK
  <2>. QED BY <1>0, <1>11, <2>1 DEF NextLibrary, Step, RequestInv, CountsOK, IdleOK, MessagesOK,
         StageOK, HandleOK, Ordered, Starting, Saving, Loading, TypeOK
<1>12. CASE BeginRecording
  <2>1. replaying = None /\ i = 1 /\ Len(n_recvd) = 1 /\ pc = "loop" /\ Step
    BY <1>12, OrderHere DEF BeginRecording, Orders, More
  <2>. QED BY <1>0, <1>12, <2>1 DEF BeginRecording, Step, RequestInv, CountsOK, IdleOK, MessagesOK,
         StageOK, HandleOK, Ordered, Starting, Saving, Loading
<1>13. CASE EndRecording
  <2>1. replaying = None /\ i = 1 /\ Ordered({"RT"}) /\ pc = "loop" /\ pc' = "truncate"
    BY <1>13, OrderHere DEF EndRecording, Orders, More
  <2>. QED BY <1>0, <1>13, <2>1 DEF EndRecording, RequestInv, CountsOK, IdleOK, MessagesOK,
         StageOK, HandleOK, Ordered, Starting, Saving, Loading
<1>14. CASE Truncate \/ WriteFile
  <2>1. pc \in Saving /\ pc' \in Saving /\ pc # "idle"
        /\ UNCHANGED <<current, n_recvd, i, handle, recording, replaying, proc, opened>>
        /\ UNCHANGED <<execs, requests, played>>
    BY <1>14 DEF Truncate, WriteFile, Saving
  <2>. QED BY <1>0, <2>1 DEF RequestInv, CountsOK, IdleOK, MessagesOK,
         StageOK, HandleOK, Ordered, Starting, Saving, Loading
<1>16. CASE Insert
  <2>1. pc = "insert" /\ pc' = "loop" /\ i' = i + 1 /\ replaying = None /\ i = 1 /\ Ordered({"RT"})
        /\ UNCHANGED <<current, n_recvd, handle, recording, replaying, proc, opened>>
        /\ UNCHANGED <<execs, requests, played>>
    BY <1>0, <1>16 DEF Insert, RequestInv, StageOK, Saving
  <2>2. i' \in 1 .. Len(n_recvd) + 1
    BY <2>1 DEF Ordered
  <2>3. MessagesOK'
    BY <1>0, <2>1, <2>2 DEF RequestInv, MessagesOK, Ordered
  <2>. QED BY <1>0, <2>1, <2>3 DEF RequestInv, CountsOK, IdleOK, StageOK, HandleOK, Starting,
         Saving, Loading
<1>17. CASE Run
  <2>1. replaying = None /\ i = 1 /\ Ordered({"RE"}) /\ pc = "loop" /\ This.arg \in Names /\ Len(n_recvd) = 1
    BY <1>17, OrderHere DEF Run, Orders, More
  <2>2. CASE stored_proc[This.arg] # None
    <3>1. proc' = stored_proc[This.arg] /\ PlayFrom(proc') /\ RecordOK(proc')
      BY <1>17, <2>1, <2>2, NoName DEF Run, IInv, KnownInv
    <3>2. ~recording /\ current = None
      BY <1>17, <2>1, OrderHere DEF Run, Orders, IInv, AgreeInv, Pending, Ordered
    <3>3. n_recvd' = proc'.queries /\ i' = 1 /\ pc' = "start" /\ replaying' # None /\ played' = <<>>
      BY <2>1, <3>1, NoName DEF PlayFrom
    <3>4. Len(n_recvd') \in Nat
      BY <1>0 DEF TypeOK
    <3>5. MessagesOK'
      BY <1>17, <3>1, <3>2, <3>3, <3>4 DEF Run, MessagesOK
    <3>6. UNCHANGED <<execs, requests>>
      BY <1>17 DEF Run
    <3>. QED BY <1>0, <2>1, <3>2, <3>3, <3>5, <3>6 DEF RequestInv, CountsOK, IdleOK,
         StageOK, HandleOK, Starting, Saving, Loading
  <2>3. CASE stored_proc[This.arg] = None
    <3>1. pc' = "load"
        /\ UNCHANGED <<current, n_recvd, i, handle, recording, replaying, proc, opened>>
        /\ UNCHANGED <<execs, requests, played>>
      BY <1>17, <2>3 DEF Run
    <3>. QED BY <1>0, <2>1, <3>1 DEF RequestInv, CountsOK, IdleOK, MessagesOK,
         StageOK, HandleOK, Ordered, Starting, Saving, Loading
  <2>. QED BY <2>2, <2>3
<1>18. CASE Load
  <2>1. replaying = None /\ i = 1 /\ Ordered({"RL"}) /\ pc = "loop"
    BY <1>18, OrderHere DEF Load, Orders, More
  <2>2. pc' = "load"
        /\ UNCHANGED <<current, n_recvd, i, handle, recording, replaying, proc, opened>>
        /\ UNCHANGED <<execs, requests, played>>
    BY <1>18 DEF Load
  <2>. QED BY <1>0, <2>1, <2>2 DEF RequestInv, CountsOK, IdleOK, MessagesOK,
         StageOK, HandleOK, Ordered, Starting, Saving, Loading
<1>19. ASSUME ReadFile \/ LoadModule \/ (Loaded /\ This.kind # "RE") PROVE RequestInv'
  <2>1. pc \in Loading /\ pc # "idle"
    BY <1>19 DEF ReadFile, LoadModule, Loaded, Loading
  <2>2. i = 1 /\ Len(n_recvd) = 1 /\ replaying = None /\ Ordered({"RE", "RL"})
    BY <1>0, <2>1, ModuleHere DEF RequestInv, StageOK
  <2>3. \/ pc' \in {"modules", "dead"} /\ i' = i
        \/ pc' = "loop" /\ i' = i + 1
    BY <1>19, <2>1 DEF ReadFile, LoadModule, Loaded
  <2>4. UNCHANGED <<current, n_recvd, handle, recording, replaying, execs, requests, played>>
    BY <1>19 DEF ReadFile, LoadModule, Loaded
  <2>5. handle # None => opened'[handle].refs > 0
    <3>1. CASE opened' = opened
      BY <1>0, <2>2, <3>1 DEF RequestInv, HandleOK
    <3>2. CASE LoadModule /\ opened' # opened
      <4>1. PICK path \in Paths : Dlopen(path)
        <5>1. <<This.arg, Len(proc.libs)>> \in Paths
          BY <3>2, ModuleHere, CopyPath, NoName DEF LoadModule, Loading
        <5>. QED BY <3>2, <5>1 DEF LoadModule
      <4>2. /\ opened'[path].refs > 0
            /\ \A q \in Paths : q # path => opened'[q] = opened[q]
        BY <1>0, <4>1, OpenLibraryTypes DEF TypeOK
      <4>. QED BY <1>0, <2>2, <4>2 DEF RequestInv, HandleOK, TypeOK, Handles
    <3>. QED BY <1>19, <3>1, <3>2 DEF ReadFile, Loaded
  <2>6. i' \in 1 .. Len(n_recvd) + 1 /\ pc' \in {"modules", "dead", "loop"}
    BY <2>2, <2>3
  <2>7. MessagesOK'
    BY <1>0, <2>2, <2>4, <2>6 DEF RequestInv, MessagesOK, Ordered
  <2>8. StageOK'
    BY <2>2, <2>3, <2>4, <2>6 DEF StageOK, Ordered, Starting, Saving, Loading
  <2>. QED BY <1>0, <2>1, <2>4, <2>5, <2>6, <2>7, <2>8 DEF RequestInv, CountsOK, IdleOK, HandleOK
<1>21. CASE Loaded /\ This.kind = "RE"
  <2>1. /\ pc = "modules" /\ Len(proc.libs) = aqp[This.arg].modules /\ PlayFrom(proc)
        /\ UNCHANGED <<current, recording, proc, execs, requests>>
    BY <1>21 DEF Loaded
  <2>2. /\ pc \in Loading /\ This.arg \in Names /\ proc \in Records /\ LoadOK /\ replaying = None
        /\ This = n_recvd[1] /\ aqp[This.arg] \in Images /\ ImageOK(aqp[This.arg])
        /\ Ordered({"RE", "RL"}) /\ i = 1 /\ Len(n_recvd) = 1
    BY <1>0, <2>1, ModuleHere DEF Loading, RequestInv, StageOK
  <2>3. RecordOK(proc)
    BY <2>1, <2>2, LoadedRecord DEF LoadOK
  <2>4. ~recording /\ current = None
    BY <1>21, <2>2 DEF IInv, AgreeInv, Pending, Ordered
  <2>5. n_recvd' = proc.queries /\ i' = 1 /\ pc' = "start" /\ replaying' # None /\ played' = <<>>
    BY <2>1, <2>2, NoName DEF PlayFrom
  <2>6. Len(n_recvd') \in Nat
    BY <1>0 DEF TypeOK
  <2>7. MessagesOK'
    BY <2>1, <2>3, <2>4, <2>5, <2>6 DEF MessagesOK
  <2>. QED BY <1>0, <2>1, <2>4, <2>5, <2>7 DEF RequestInv, CountsOK, IdleOK,
         StageOK, HandleOK, Starting, Saving, Loading
<1>22. CASE Finish \/ Crash
  <2>1. /\ pc' = "idle" /\ n_recvd' = <<>> /\ i' = 1 /\ handle' = None /\ replaying' = None
        /\ played' = <<>> /\ UNCHANGED <<execs, requests>>
    BY <1>22 DEF Finish, EndRequest, Crash
  <2>2. Len(<<>>) = 0
    OBVIOUS
  <2>. QED BY <1>0, <2>1, <2>2 DEF RequestInv, CountsOK, IdleOK, MessagesOK, Plain,
         StageOK, HandleOK, Starting, Saving, Loading
<1>24. CASE UNCHANGED vars
  BY <1>24, Unchanged DEF IInv
<1>. QED BY <1>1, <1>3, <1>5, <1>6, <1>7, <1>8, <1>9, <1>10, <1>11, <1>12, <1>13,
            <1>14, <1>16, <1>17, <1>18, <1>19, <1>21, <1>22, <1>24
         DEF Next, Command, Engine

-----------------------------------------------------------------------------
(* Every step keeps prompt and engine agreed.                                *)

\* The order at hand, if there is one, stays at hand.
LEMMA AgreeWaits ==
  ASSUME AgreeInv, UNCHANGED <<current, recording, recName, n_recvd, i, replaying>>,
         pc \notin Saving, pc' \notin Saving
  PROVE  AgreeInv'
BY DEF AgreeInv, Pending, Ordered

\* No order to begin or to end a recording is at hand, before and after.
LEMMA AgreeBeside ==
  ASSUME AgreeInv, UNCHANGED <<current, recording, recName>>,
         ~Pending("R"), ~Pending("RT"), ~Pending("R")', ~Pending("RT")',
         replaying' = None /\ Ordered({"RE", "RL"})' => current = None, pc' \notin Saving
  PROVE  AgreeInv'
BY DEF AgreeInv

LEMMA AgreeStep == IInv /\ [Next]_vars => AgreeInv'
<1>. SUFFICES ASSUME IInv, [Next]_vars PROVE AgreeInv'
  OBVIOUS
<1>. USE DEF engineRest, boundVars, recordVars, replayVars, diskVars, histVars
<1>0. TypeOK /\ RequestInv /\ AgreeInv
  BY DEF IInv
<1>1. ASSUME pc = "idle"
      PROVE  recName = current /\ recording = (current # None) /\ replaying = None
  <2>1. n_recvd = <<>> /\ Len(<<>>) = 0 /\ replaying = None
    BY <1>0, <1>1 DEF RequestInv, IdleOK
  <2>2. ~Pending("R") /\ ~Pending("RT")
    BY <2>1 DEF Pending, Ordered
  <2>. QED BY <1>0, <2>1, <2>2 DEF AgreeInv
<1>2. ASSUME NEW b \in Batches, Exec(b) PROVE AgreeInv'
  <2>1. execs + 1 \in 1 .. MaxExecs
    BY <1>0, <1>2, NoName DEF RequestInv, CountsOK, Exec
  <2>2. Request(Sent(b, execs + 1), Contains(b, "P")) /\ UNCHANGED current
    BY <1>2 DEF Exec, Sent
  <2>3. pc = "idle" /\ pc' = "start" /\ n_recvd' = Sent(b, execs + 1) /\ UNCHANGED <<recording, recName>>
    BY <2>2 DEF Request
  <2>4. \A ks \in {{"R"}, {"RT"}, {"RE", "RL"}} : ~Ordered(ks)'
    BY <2>1, <2>3, BatchIn DEF Ordered, Kinds
  <2>5. ~Pending("R")' /\ ~Pending("RT")'
    BY <2>4 DEF Pending
  <2>. QED BY <1>0, <1>1, <2>2, <2>3, <2>4, <2>5 DEF AgreeInv, Saving
<1>3. ASSUME NEW n \in Names, NEW k \in Orders, Request(<<Message(k, n)>>, FALSE)
      PROVE  /\ pc = "idle" /\ pc' = "start" /\ i' = 1 /\ replaying' = None
             /\ UNCHANGED <<recording, recName>>
             /\ Len(n_recvd') = 1 /\ n_recvd'[1].kind = k /\ n_recvd'[1].arg = n
             /\ \A ks : Ordered(ks)' <=> k \in ks
  <2>1. /\ pc = "idle" /\ pc' = "start" /\ i' = 1 /\ n_recvd' = <<Message(k, n)>>
        /\ UNCHANGED <<recording, recName, replaying>>
    BY <1>3 DEF Request
  <2>2. Len(n_recvd') = 1 /\ n_recvd'[1].kind = k /\ n_recvd'[1].arg = n
    BY <2>1, OrderIn
  <2>. QED BY <1>1, <2>1, <2>2 DEF Ordered
<1>4. ASSUME NEW n \in Names, Record(n) PROVE AgreeInv'
  <2>1. Request(<<Message("R", n)>>, FALSE) /\ current = None /\ current' = n
    BY <1>4 DEF Record
  <2>2. /\ pc = "idle" /\ pc' = "start" /\ i' = 1 /\ replaying' = None
        /\ UNCHANGED <<recording, recName>>
        /\ n_recvd'[1].arg = n
        /\ \A ks : Ordered(ks)' <=> "R" \in ks
    BY <1>3, <2>1 DEF Orders
  <2>. QED BY <1>1, <2>1, <2>2 DEF AgreeInv, Pending, Saving
<1>5. ASSUME NEW n \in Names, Stop(n) PROVE AgreeInv'
  <2>1. Request(<<Message("RT", n)>>, FALSE) /\ current' = None
    BY <1>5 DEF Stop
  <2>2. /\ pc = "idle" /\ pc' = "start" /\ i' = 1 /\ replaying' = None
        /\ UNCHANGED <<recording, recName>>
        /\ \A ks : Ordered(ks)' <=> "RT" \in ks
    BY <1>3, <2>1 DEF Orders
  <2>. QED BY <1>1, <2>1, <2>2 DEF AgreeInv, Pending, Saving
<1>6. ASSUME NEW n \in Names, Replay(n) PROVE AgreeInv'
  <2>1. PICK k \in {"RE", "RL"} : Request(<<Message(k, n)>>, FALSE)
    BY <1>6 DEF Replay
  <2>2. current = None /\ current' = None
    BY <1>6 DEF Replay
  <2>3. /\ pc = "idle" /\ pc' = "start" /\ i' = 1 /\ replaying' = None
        /\ UNCHANGED <<recording, recName>>
        /\ \A ks : Ordered(ks)' <=> k \in ks
    BY <1>3, <2>1 DEF Orders
  <2>. QED BY <1>1, <2>1, <2>2, <2>3 DEF AgreeInv, Pending, Saving
<1>7. CASE Start \/ CopyLibrary \/ OpenLibrary
  BY <1>0, <1>7, AgreeWaits DEF Start, CopyLibrary, OpenLibrary, Saving
<1>8. CASE PerformQuery \/ PerformProcedure \/ PerformOutput \/ NextLibrary
  <2>1. More /\ This.kind \notin Orders
    BY <1>8 DEF PerformQuery, PerformProcedure, PerformOutput, NextLibrary, Orders
  <2>2. UNCHANGED <<current, recording, recName, n_recvd, replaying>> /\ pc' \in {"loop", "dead"}
    BY <1>8, <2>1 DEF PerformQuery, PerformProcedure, PerformOutput, NextLibrary, Log, Step, Stuck, More
  <2>3. ~Pending("R") /\ ~Pending("RT") /\ (replaying = None => ~Ordered(Orders))
    BY <2>1, MessageHere DEF Orders
  <2>4. ~Pending("R")' /\ ~Pending("RT")' /\ ~(replaying' = None /\ Ordered({"RE", "RL"})')
    BY <2>2, <2>3 DEF Pending, Ordered, Orders
  <2>. QED BY <1>0, <2>2, <2>3, <2>4, AgreeBeside DEF Saving
<1>9. CASE BeginRecording
  <2>1. More /\ This.kind = "R" /\ i' = i + 1 /\ pc' = pc /\ recording' = TRUE /\ recName' = This.arg
        /\ UNCHANGED <<current, n_recvd, replaying>>
    BY <1>9 DEF BeginRecording, Step
  <2>2. /\ Pending("R") /\ replaying = None /\ This.arg \in Names /\ This = n_recvd[1] /\ i = 1
        /\ Ordered({"R"}) /\ pc = "loop"
    BY <2>1, OrderHere DEF Orders, More
  <2>3. ~Pending("R")' /\ ~Pending("RT")' /\ ~Ordered({"RE", "RL"})'
    BY <2>1, <2>2 DEF Pending, Ordered
  <2>4. current = This.arg /\ This.arg # None
    BY <1>0, <2>2, NoName DEF AgreeInv
  <2>. QED BY <2>1, <2>2, <2>3, <2>4 DEF AgreeInv, Saving
<1>10. CASE EndRecording
  <2>1. /\ More /\ This.kind = "RT" /\ recording' = FALSE /\ pc' = "truncate"
        /\ UNCHANGED <<current, n_recvd, i, replaying, recName>>
    BY <1>10 DEF EndRecording
  <2>2. Pending("RT") /\ pc = "loop" /\ Ordered({"RT"}) /\ replaying = None /\ i = 1
    BY <2>1, OrderHere DEF Orders, More
  <2>3. current = None
    BY <1>0, <2>2 DEF AgreeInv, Saving
  <2>4. Pending("RT")' /\ ~Pending("R")' /\ ~Ordered({"RE", "RL"})'
    BY <2>1, <2>2 DEF Pending, Ordered
  <2>. QED BY <2>1, <2>3, <2>4 DEF AgreeInv, Saving
<1>11. CASE Truncate \/ WriteFile
  <2>1. /\ pc \in Saving /\ pc' \in Saving
        /\ UNCHANGED <<current, recording, recName, n_recvd, i, replaying>>
    BY <1>11 DEF Truncate, WriteFile, Saving
  <2>. QED BY <1>0, <2>1 DEF AgreeInv, Pending, Ordered
<1>12. CASE Insert
  <2>1. /\ pc = "insert" /\ pc' = "loop" /\ i' = i + 1 /\ recName' = None
        /\ UNCHANGED <<current, recording, n_recvd, replaying>>
    BY <1>12 DEF Insert
  <2>2. i = 1 /\ Ordered({"RT"}) /\ current = None /\ ~recording
    BY <1>0, <2>1 DEF RequestInv, StageOK, AgreeInv, Saving
  <2>3. ~Pending("R")' /\ ~Pending("RT")' /\ ~Ordered({"RE", "RL"})'
    BY <2>1, <2>2 DEF Pending, Ordered
  <2>4. recording' = FALSE
    BY <1>0, <2>1, <2>2 DEF TypeOK
  <2>. QED BY <2>1, <2>2, <2>3, <2>4 DEF AgreeInv, Saving
<1>13. CASE Run \/ Load
  <2>1. More /\ This.kind \in {"RE", "RL"} /\ UNCHANGED <<current, recording, recName>>
    BY <1>13 DEF Run, Load
  <2>2. pc = "loop" /\ Ordered({"RE", "RL"}) /\ replaying = None /\ This.arg \in Names
    BY <2>1, OrderHere DEF Orders, More, Ordered
  <2>3. CASE UNCHANGED <<n_recvd, i, replaying>> /\ pc' = "load"
    BY <1>0, <2>1, <2>2, <2>3, AgreeWaits DEF Saving
  <2>4. CASE replaying' = This.arg /\ pc' = "start"
    <3>1. ~Pending("R") /\ ~Pending("RT")
      BY <2>2 DEF Pending, Ordered
    <3>2. replaying' # None /\ ~Pending("R")' /\ ~Pending("RT")'
      BY <2>2, <2>4, NoName DEF Pending
    <3>. QED BY <1>0, <2>1, <2>4, <3>1, <3>2, AgreeBeside DEF Saving
  <2>. QED BY <1>13, <2>3, <2>4 DEF Run, Load, PlayFrom
<1>14. CASE ReadFile \/ LoadModule \/ Loaded
  <2>1. pc \in Loading /\ UNCHANGED <<current, recording, recName>>
    BY <1>14 DEF ReadFile, LoadModule, Loaded, Loading
  <2>2. i = 1 /\ Ordered({"RE", "RL"}) /\ replaying = None /\ This.arg \in Names /\ pc \notin Saving
    BY <1>0, <2>1, ModuleHere DEF RequestInv, StageOK, Loading, Saving
  <2>3. ~Pending("R") /\ ~Pending("RT") /\ current = None
    BY <1>0, <2>2 DEF Pending, Ordered, AgreeInv
  <2>4. CASE UNCHANGED <<n_recvd, i, replaying>> /\ pc' \in {"modules", "dead"}
    BY <1>0, <2>1, <2>2, <2>4, AgreeWaits DEF Saving
  <2>5. CASE i' = i + 1 /\ pc' = "loop"
    <3>1. ~Pending("R")' /\ ~Pending("RT")'
      BY <2>2, <2>5 DEF Pending
    <3>. QED BY <1>0, <2>1, <2>3, <2>5, <3>1, AgreeBeside DEF Saving
  <2>6. CASE replaying' = This.arg /\ pc' = "start"
    <3>1. replaying' # None /\ ~Pending("R")' /\ ~Pending("RT")'
      BY <2>2, <2>6, NoName DEF Pending
    <3>. QED BY <1>0, <2>1, <2>3, <2>6, <3>1, AgreeBeside DEF Saving
  <2>. QED BY <1>14, <2>4, <2>5, <2>6 DEF ReadFile, LoadModule, Loaded, PlayFrom
<1>15. CASE Finish
  <2>1. /\ pc = "loop" /\ i > Len(n_recvd) /\ pc' = "idle" /\ n_recvd' = <<>> /\ replaying' = None
        /\ UNCHANGED <<current, recording, recName>>
    BY <1>15 DEF Finish, EndRequest
  <2>2. ~Pending("R") /\ ~Pending("RT")
    BY <2>1 DEF Pending, Ordered
  <2>3. \A ks : ~Ordered(ks)'
    <3>1. Len(<<>>) = 0
      OBVIOUS
    <3>. QED BY <2>1, <3>1 DEF Ordered
  <2>. QED BY <1>0, <2>1, <2>2, <2>3, AgreeBeside DEF Saving, Pending
<1>16. CASE Crash
  <2>1. pc' = "idle" /\ n_recvd' = <<>> /\ current' = None /\ recName' = None /\ recording' = FALSE
    BY <1>16 DEF Crash
  <2>2. \A ks : ~Ordered(ks)'
    <3>1. Len(<<>>) = 0
      OBVIOUS
    <3>. QED BY <2>1, <3>1 DEF Ordered
  <2>3. ~Pending("R")' /\ ~Pending("RT")' /\ pc' \notin Saving
    BY <2>1, <2>2 DEF Pending, Saving
  <2>4. recName' = current' /\ recording' = (current' # None) /\ ~recording'
    BY <2>1
  <2>. QED BY <2>2, <2>3, <2>4 DEF AgreeInv
<1>17. CASE UNCHANGED vars
  BY <1>17, Unchanged DEF IInv
<1>. QED BY <1>2, <1>4, <1>5, <1>6, <1>7, <1>8, <1>9, <1>10, <1>11, <1>12, <1>13,
            <1>14, <1>15, <1>16, <1>17
         DEF Next, Command, Engine

-----------------------------------------------------------------------------
(* Every step keeps the recording whole.                                     *)

LEMMA RecordBeside ==
  ASSUME RecordInv, UNCHANGED <<recording, recorded_queries, recorded_libraries, ran>>,
         Marked' = Marked,
         Len(recorded_libraries) + (IF pc' \in Starting THEN 1 ELSE 0) <= requests',
         recording /\ pc' = "loop" /\ handle' # None /\ i' <= Len(n_recvd') =>
           recorded_libraries # <<>> /\ recorded_libraries[Len(recorded_libraries)] = handle'
  PROVE  RecordInv'
BY DEF RecordInv

LEMMA RecordNothing ==
  ASSUME recorded_queries' = <<>>, recorded_libraries' = <<>>, ran' = <<>>, requests' \in Nat,
         pc' \in Starting => requests' >= 1,
         recording' => pc' \notin {"open", "openCopy"} /\ i' > Len(n_recvd'),
         i' \in Nat, Len(n_recvd') \in Nat
  PROVE  RecordInv'
<1>1. Len(<<>>) = 0
  OBVIOUS
<1>2. Marked' = 0
  BY <1>1 DEF Marked
<1>3. Len(recorded_libraries') + (IF pc' \in Starting THEN 1 ELSE 0) <= requests'
  BY <1>1
<1>. QED BY <1>2, <1>3, NothingRecorded DEF RecordInv

\* While nothing is recorded nothing has been.
LEMMA RecordsNothing ==
  ASSUME IInv, ~recording
  PROVE  recorded_queries = <<>> /\ recorded_libraries = <<>> /\ ran = <<>> /\ Len(recorded_libraries) = 0
BY DEF IInv, RecordInv

\* A message that is recorded with what ran.
LEMMA RecordPerformed ==
  ASSUME IInv, TypeOK', More, This.kind \in Kinds, NEW done, Log(done),
         pc' \in {"loop", "dead"}, UNCHANGED <<n_recvd, handle, requests>>,
         This.kind = "P" => handle # None
  PROVE  RecordInv'
<1>0. TypeOK /\ RequestInv /\ RecordInv
  BY DEF IInv
<1>1. pc = "loop" /\ i \in 1 .. Len(n_recvd) /\ This \in Messages
  BY <1>0, HereIn DEF RequestInv, MessagesOK, TypeOK
<1>2. Marked = Len(recorded_libraries) /\ Len(recorded_libraries) \in Nat
  BY <1>0, <1>1 DEF Marked, TypeOK
<1>3. UNCHANGED <<recording, recorded_libraries>>
  BY DEF Log
<1>4. Marked' = Len(recorded_libraries)
  BY <1>2, <1>3 DEF Marked
<1>5. recording /\ pc' = "loop" /\ handle' # None /\ i' <= Len(n_recvd') =>
        recorded_libraries # <<>> /\ recorded_libraries[Len(recorded_libraries)] = handle'
  BY <1>0, <1>1 DEF RecordInv, TypeOK
<1>6. Len(recorded_libraries) + (IF pc' \in Starting THEN 1 ELSE 0) <= requests'
  BY <1>0, <1>1, <1>2 DEF RecordInv, Starting
<1>7. CASE recording /\ done
  <2>1. recorded_queries' = Append(recorded_queries, This) /\ ran' = Append(ran, This)
    BY <1>7 DEF Log
  <2>2. This.kind = "P" => /\ Marks(recorded_queries, Len(recorded_queries)) = Len(recorded_libraries)
                           /\ recorded_libraries # <<>>
                           /\ recorded_libraries[Len(recorded_libraries)] # None
    BY <1>0, <1>1, <1>2, <1>7 DEF RecordInv, TypeOK
  <2>3. /\ recorded_queries \in Seq(Messages) /\ ran \in Seq(Messages)
        /\ recorded_libraries \in Seq(Handles)
        /\ Kept(recorded_queries) /\ Faithful(recorded_queries, ran)
        /\ Bound(recorded_queries, recorded_libraries)
    BY <1>0 DEF RecordInv, TypeOK
  <2>4. /\ Kept(recorded_queries') /\ Faithful(recorded_queries', ran')
        /\ Bound(recorded_queries', recorded_libraries)
        /\ Marks(recorded_queries', Len(recorded_queries')) = Marks(recorded_queries, Len(recorded_queries))
    BY <1>1, <2>1, <2>2, <2>3, RecordMessage
  <2>5. Marks(recorded_queries', Len(recorded_queries')) = Marked'
    BY <1>0, <1>2, <1>4, <2>4 DEF RecordInv
  <2>. QED BY <1>3, <1>5, <1>6, <1>7, <2>4, <2>5 DEF RecordInv
<1>8. CASE ~(recording /\ done)
  <2>1. UNCHANGED <<recording, recorded_queries, recorded_libraries, ran>>
    BY <1>8 DEF Log
  <2>. QED BY <1>0, <1>2, <1>4, <1>5, <1>6, <2>1, RecordBeside
<1>. QED BY <1>7, <1>8

LEMMA RecordStep == IInv /\ [Next]_vars => RecordInv'
<1>. SUFFICES ASSUME IInv, [Next]_vars PROVE RecordInv'
  OBVIOUS
<1>. USE DEF engineRest, boundVars, replayVars, diskVars
<1>0. TypeOK /\ RequestInv /\ AgreeInv /\ RecordInv /\ TypeOK' /\ RequestInv'
  BY TypeStep, RequestStep DEF IInv
<1>1. /\ requests \in Nat /\ requests' \in Nat /\ Len(recorded_libraries) \in Nat
      /\ i \in Nat /\ i' \in Nat /\ Len(n_recvd) \in Nat /\ Len(n_recvd') \in Nat
      /\ pc # "idle" => requests >= 1
      /\ pc' # "idle" => requests' >= 1
  BY <1>0 DEF RequestInv, CountsOK, TypeOK
<1>2. ASSUME NEW ms, NEW dll, Request(ms, dll) PROVE RecordInv'
  <2>1. /\ pc = "idle" /\ pc' = "start" /\ requests' = requests + 1
        /\ UNCHANGED <<recording, recorded_queries, recorded_libraries, ran>>
    BY <1>2 DEF Request, recordVars, histVars
  <2>2. Marked' = Marked
    BY <2>1 DEF Marked
  <2>3. Len(recorded_libraries) + (IF pc' \in Starting THEN 1 ELSE 0) <= requests'
    BY <1>0, <1>1, <2>1 DEF RecordInv, Starting
  <2>. QED BY <1>0, <2>1, <2>2, <2>3, RecordBeside
<1>3. CASE Start
  <2>1. /\ pc = "start" /\ pc' \in {"loop", "copy", "open"} /\ (recording => pc' # "open")
        /\ handle' = None
        /\ UNCHANGED <<recording, recorded_queries, recorded_libraries, ran, requests>>
    BY <1>3 DEF Start, recordVars, histVars
  <2>2. Marked' = Marked
    BY <2>1 DEF Marked
  <2>3. Len(recorded_libraries) + (IF pc' \in Starting THEN 1 ELSE 0) <= requests'
    BY <1>0, <1>1, <2>1 DEF RecordInv, Starting
  <2>. QED BY <1>0, <2>1, <2>2, <2>3, RecordBeside
<1>4. CASE CopyLibrary
  <2>1. /\ pc = "copy" /\ pc' \in {"open", "openCopy"}
        /\ recorded_queries' = Append(recorded_queries, Mark)
        /\ UNCHANGED <<recording, recorded_libraries, ran, requests>>
    BY <1>4 DEF CopyLibrary
  <2>2. recording
    BY <1>0, <2>1 DEF RequestInv, StageOK
  <2>3. Mark \in Messages /\ Mark.kind = "N"
    BY MessageIn DEF Mark, Keys
  <2>4. /\ recorded_queries \in Seq(Messages) /\ ran \in Seq(Messages)
        /\ recorded_libraries \in Seq(Handles)
        /\ Kept(recorded_queries) /\ Faithful(recorded_queries, ran)
        /\ Bound(recorded_queries, recorded_libraries)
    BY <1>0 DEF RecordInv, TypeOK
  <2>5. /\ Kept(recorded_queries') /\ Faithful(recorded_queries', ran)
        /\ Bound(recorded_queries', recorded_libraries)
        /\ Marks(recorded_queries', Len(recorded_queries')) = Marks(recorded_queries, Len(recorded_queries)) + 1
    BY <2>1, <2>3, <2>4, RecordMark
  <2>6. Marked = Len(recorded_libraries) /\ Marked' = Len(recorded_libraries) + 1
    BY <1>1, <2>1, <2>2 DEF Marked
  <2>7. Marks(recorded_queries', Len(recorded_queries')) = Marked'
    BY <1>0, <2>5, <2>6 DEF RecordInv
  <2>8. Len(recorded_libraries) + (IF pc' \in Starting THEN 1 ELSE 0) <= requests'
    BY <1>0, <1>1, <2>1 DEF RecordInv, Starting
  <2>. QED BY <2>1, <2>2, <2>5, <2>7, <2>8 DEF RecordInv
<1>5. CASE OpenLibrary
  <2>1. /\ pc \in {"open", "openCopy"} /\ pc' = "loop"
        /\ recorded_libraries' = IF recording THEN Append(recorded_libraries, handle')
                                              ELSE recorded_libraries
        /\ UNCHANGED <<recording, recorded_queries, ran, requests>>
    BY <1>5 DEF OpenLibrary
  <2>2. Len(recorded_libraries) + 1 <= requests
    BY <1>0, <1>1, <2>1 DEF RecordInv, Starting
  <2>3. CASE recording
    <3>1. recorded_libraries \in Seq(Handles) /\ handle' \in Handles /\ recorded_queries \in Seq(Messages)
      BY <1>0 DEF TypeOK
    <3>2. recorded_libraries' = Append(recorded_libraries, handle')
      BY <2>1, <2>3
    <3>3. /\ Len(recorded_libraries') = Len(recorded_libraries) + 1
          /\ recorded_libraries' # <<>> /\ recorded_libraries'[Len(recorded_libraries')] = handle'
      <4>. DEFINE h == handle'
                  l == recorded_libraries
                  m == recorded_libraries'
      <4>1. l \in Seq(Handles) /\ h \in Handles /\ m = Append(l, h)
        BY <3>1, <3>2
      <4>. HIDE DEF h, l, m
      <4>2. Len(m) = Len(l) + 1 /\ m # <<>> /\ m[Len(m)] = h
        BY <4>1
      <4>. QED BY <4>2 DEF h, l, m
    <3>4. Bound(recorded_queries', recorded_libraries')
      BY <1>0, <2>1, <3>1, <3>2, RecordLibrary DEF RecordInv
    <3>5. Marked = Len(recorded_libraries) + 1 /\ Marked' = Len(recorded_libraries')
      BY <1>1, <2>1, <2>3, <3>3 DEF Marked
    <3>6. Len(recorded_libraries') + (IF pc' \in Starting THEN 1 ELSE 0) <= requests'
      BY <1>1, <2>1, <2>2, <3>3 DEF Starting
    <3>. QED BY <1>0, <2>1, <2>3, <3>3, <3>4, <3>5, <3>6 DEF RecordInv
  <2>4. CASE ~recording
    <3>1. Marked' = Marked
      BY <2>1, <2>4 DEF Marked
    <3>2. Len(recorded_libraries) + (IF pc' \in Starting THEN 1 ELSE 0) <= requests'
      BY <1>1, <2>1, <2>2 DEF Starting
    <3>. QED BY <1>0, <2>1, <2>4, <3>1, <3>2, RecordBeside
  <2>. QED BY <2>3, <2>4
<1>6. ASSUME More, This.kind \notin Orders, pc' \in {"loop", "dead"},
             UNCHANGED <<n_recvd, handle, requests, recording, recorded_queries, recorded_libraries, ran>>
      PROVE  RecordInv'
  <2>1. pc = "loop" /\ i <= Len(n_recvd)
    BY <1>6 DEF More
  <2>2. Marked' = Marked
    BY <1>6, <2>1 DEF Marked
  <2>3. Len(recorded_libraries) + (IF pc' \in Starting THEN 1 ELSE 0) <= requests'
    BY <1>0, <1>1, <1>6, <2>1 DEF RecordInv, Starting
  <2>4. recording /\ pc' = "loop" /\ handle' # None /\ i' <= Len(n_recvd') =>
          recorded_libraries # <<>> /\ recorded_libraries[Len(recorded_libraries)] = handle'
    BY <1>0, <1>6, <2>1 DEF RecordInv
  <2>. QED BY <1>0, <1>6, <2>2, <2>3, <2>4, RecordBeside
<1>7. ASSUME More, This.kind \notin Orders, NEW done, Log(done), pc' \in {"loop", "dead"},
             UNCHANGED <<n_recvd, handle, requests>>, This.kind = "P" => handle # None
      PROVE  RecordInv'
  <2>1. CASE recording
    <3>1. This.kind \in Kinds
      BY <1>7, <2>1, MessageHere
    <3>. QED BY <1>0, <1>7, <3>1, RecordPerformed
  <2>2. CASE ~recording
    <3>1. UNCHANGED <<recording, recorded_queries, recorded_libraries, ran>>
      BY <1>7, <2>2 DEF Log
    <3>. QED BY <1>6, <1>7, <3>1
  <2>. QED BY <2>1, <2>2
<1>8. CASE PerformQuery
  <2>1. /\ More /\ This.kind = "Q" /\ Log(TRUE) /\ pc' = pc /\ UNCHANGED <<n_recvd, handle, requests>>
    BY <1>8 DEF PerformQuery, Step
  <2>. QED BY <1>7, <2>1 DEF Orders, More
<1>9. CASE PerformProcedure
  <2>1. More /\ This.kind = "P" /\ UNCHANGED <<handle, requests>>
    BY <1>9 DEF PerformProcedure
  <2>2. pc' \in {"loop", "dead"} /\ n_recvd' = n_recvd
    BY <1>9 DEF PerformProcedure, Step, Stuck, More
  <2>3. CASE handle = None
    <3>1. UNCHANGED <<recording, recorded_queries, recorded_libraries, ran>>
      BY <1>9, <2>3 DEF PerformProcedure, recordVars, histVars
    <3>. QED BY <1>6, <2>1, <2>2, <3>1 DEF Orders
  <2>4. CASE handle # None
    <3>1. Log(~err)
      BY <1>9, <2>4 DEF PerformProcedure
    <3>. QED BY <1>7, <2>1, <2>2, <2>4, <3>1 DEF Orders
  <2>. QED BY <2>3, <2>4
<1>10. CASE PerformOutput
  <2>1. /\ More /\ This.kind \in {"O", "L", "X"} /\ Log(~err) /\ pc' = pc
        /\ UNCHANGED <<n_recvd, handle, requests>>
    BY <1>10 DEF PerformOutput, Step
  <2>. QED BY <1>7, <2>1 DEF Orders, More
<1>11. CASE NextLibrary
  <2>1. /\ More /\ This.kind = "N" /\ pc' = pc
        /\ UNCHANGED <<n_recvd, requests, recording, recorded_queries, recorded_libraries, ran>>
    BY <1>11 DEF NextLibrary, Step, recordVars, histVars
  <2>2. ~recording
    BY <2>1, MessageHere DEF Orders, Kinds
  <2>3. Marked' = Marked
    BY <2>1 DEF Marked
  <2>. QED BY <1>0, <2>1, <2>2, <2>3, RecordBeside DEF RecordInv
<1>12. CASE BeginRecording
  <2>1. /\ More /\ This.kind = "R" /\ i' = i + 1 /\ pc' = pc
        /\ UNCHANGED <<n_recvd, requests, recorded_queries, recorded_libraries, ran>>
    BY <1>12 DEF BeginRecording, Step, histVars
  <2>2. Pending("R") /\ i = 1 /\ pc = "loop" /\ Len(n_recvd) = 1
    BY <2>1, OrderHere DEF Orders, More
  <2>3. ~recording
    BY <1>0, <2>2 DEF AgreeInv
  <2>. QED BY <1>1, <2>1, <2>2, <2>3, RecordsNothing, RecordNothing
<1>13. CASE EndRecording \/ Crash
  <2>1. /\ recorded_queries' = <<>> /\ recorded_libraries' = <<>> /\ ran' = <<>> /\ ~recording'
    BY <1>13 DEF EndRecording, Crash
  <2>. QED BY <1>1, <2>1, RecordNothing DEF Starting
<1>14. ASSUME ~recording, UNCHANGED <<recording, recorded_queries, recorded_libraries, ran>>
       PROVE  RecordInv'
  BY <1>1, <1>14, RecordsNothing, RecordNothing DEF Starting
<1>15. CASE Truncate \/ WriteFile \/ Insert
  <2>1. pc \in Saving /\ UNCHANGED <<recording, recorded_queries, recorded_libraries, ran>>
    BY <1>15 DEF Truncate, WriteFile, Insert, Saving, recordVars, histVars
  <2>. QED BY <1>0, <1>14, <2>1 DEF AgreeInv
<1>16. CASE Run \/ Load
  <2>1. /\ More /\ This.kind \in {"RE", "RL"}
        /\ UNCHANGED <<recording, recorded_queries, recorded_libraries, ran>>
    BY <1>16 DEF Run, Load, recordVars, histVars
  <2>2. Ordered({"RE", "RL"}) /\ replaying = None
    BY <2>1, OrderHere DEF Orders, Ordered
  <2>3. ~recording
    BY <1>0, <2>2 DEF AgreeInv, Pending, Ordered
  <2>. QED BY <1>14, <2>1, <2>3
<1>17. CASE ReadFile \/ LoadModule \/ Loaded
  <2>1. pc \in Loading /\ UNCHANGED <<recording, recorded_queries, recorded_libraries, ran>>
    BY <1>17 DEF ReadFile, LoadModule, Loaded, Loading, recordVars, histVars
  <2>2. Ordered({"RE", "RL"}) /\ replaying = None
    BY <1>0, <2>1 DEF RequestInv, StageOK
  <2>3. ~recording
    BY <1>0, <2>2 DEF AgreeInv, Pending, Ordered
  <2>. QED BY <1>14, <2>1, <2>3
<1>18. CASE Finish
  <2>1. /\ pc = "loop" /\ pc' = "idle"
        /\ UNCHANGED <<recording, recorded_queries, recorded_libraries, ran, requests>>
    BY <1>18 DEF Finish, EndRequest, recordVars
  <2>2. Marked' = Marked
    BY <2>1 DEF Marked
  <2>3. Len(recorded_libraries) + (IF pc' \in Starting THEN 1 ELSE 0) <= requests'
    BY <1>0, <1>1, <2>1 DEF RecordInv, Starting
  <2>. QED BY <1>0, <2>1, <2>2, <2>3, RecordBeside
<1>19. CASE UNCHANGED vars
  BY <1>19, Unchanged DEF IInv
<1>20. ASSUME Command PROVE RecordInv'
  BY <1>2, <1>20 DEF Command, Exec, Record, Stop, Replay
<1>. QED BY <1>3, <1>4, <1>5, <1>8, <1>9, <1>10, <1>11, <1>12, <1>13, <1>15, <1>16, <1>17,
            <1>18, <1>19, <1>20
         DEF Next, Engine

-----------------------------------------------------------------------------
(* Every step keeps what is known and what is saved alike.                   *)

LEMMA KnownBeside ==
  ASSUME KnownInv, UNCHANGED <<stored_proc, aqp, unsaved>>, pc \notin Saving, pc' \notin Saving,
         pc' # "modules"
  PROVE  KnownInv'
BY DEF KnownInv, Whole, Saving

LEMMA KnownStep == IInv /\ [Next]_vars => KnownInv'
<1>. SUFFICES ASSUME IInv, [Next]_vars PROVE KnownInv'
  OBVIOUS
<1>. USE DEF engineRest, boundVars, recordVars, replayVars, diskVars, histVars
<1>0. TypeOK /\ RequestInv /\ RecordInv /\ KnownInv /\ TypeOK'
  BY TypeStep DEF IInv
<1>1. ASSUME Command PROVE KnownInv'
  <2>1. pc = "idle" /\ pc' = "start" /\ UNCHANGED <<stored_proc, aqp, unsaved>>
    BY <1>1 DEF Command, Exec, Record, Stop, Replay, Request
  <2>. QED BY <1>0, <2>1, KnownBeside DEF Saving
<1>2. CASE Start \/ CopyLibrary \/ OpenLibrary
  <2>1. /\ pc \in Starting /\ pc' \in Starting \cup {"loop"} /\ UNCHANGED <<stored_proc, aqp, unsaved>>
    BY <1>2 DEF Start, CopyLibrary, OpenLibrary, Starting
  <2>. QED BY <1>0, <2>1, KnownBeside DEF Saving, Starting
<1>3. CASE PerformQuery \/ PerformProcedure \/ PerformOutput \/ NextLibrary \/ BeginRecording
  <2>1. pc = "loop" /\ pc' \in {"loop", "dead"} /\ UNCHANGED <<stored_proc, aqp, unsaved>>
    BY <1>3 DEF PerformQuery, PerformProcedure, PerformOutput, NextLibrary, BeginRecording, Log,
         Step, Stuck, More
  <2>. QED BY <1>0, <2>1, KnownBeside DEF Saving
<1>4. CASE EndRecording
  <2>1. /\ pc = "loop" /\ pc' = "truncate" /\ UNCHANGED <<stored_proc, aqp, unsaved>>
        /\ proc' = [queries |-> recorded_queries, libs |-> recorded_libraries, of |-> ran]
    BY <1>4 DEF EndRecording, More
  <2>2. /\ proc'.queries = recorded_queries /\ proc'.libs = recorded_libraries /\ proc'.of = ran
    BY <2>1
  <2>3. Len(recorded_libraries) <= MaxRequests
    BY <1>0, NoName DEF RecordInv, RequestInv, CountsOK, TypeOK
  <2>4. Marks(recorded_queries, Len(recorded_queries)) = Len(recorded_libraries)
    BY <1>0, <2>1 DEF RecordInv, Marked, TypeOK
  <2>5. RecordOK(proc')
    BY <1>0, <2>2, <2>3, <2>4 DEF RecordOK, RecordInv
  <2>. QED BY <1>0, <2>1, <2>5 DEF KnownInv, Whole, Saving
<1>5. CASE Truncate
  <2>1. pc = "truncate" /\ UNCHANGED <<stored_proc, proc, recName>> /\ recName \in Keys
    BY <1>0, <1>5 DEF Truncate, TypeOK
  <2>2. CASE pc' = "write" /\ aqp' = [aqp EXCEPT ![recName] = Torn] /\ UNCHANGED unsaved
    <3>1. aqp'[recName] = Torn /\ \A n \in Keys : n # recName => aqp'[n] = aqp[n]
      BY <1>0, <2>1, <2>2 DEF TypeOK
    <3>2. \A n \in Keys : Whole(n)' => Whole(n) /\ aqp'[n] = aqp[n]
      BY <3>1 DEF Whole
    <3>. QED BY <1>0, <2>1, <2>2, <3>1, <3>2 DEF KnownInv, Whole, Saving
  <2>3. CASE pc' = "insert" /\ UNCHANGED aqp /\ unsaved' = unsaved \cup {recName}
    BY <1>0, <2>1, <2>3 DEF KnownInv, Whole, Saving
  <2>. QED BY <1>5, <2>2, <2>3 DEF Truncate, FileName
<1>6. CASE WriteFile
  <2>1. /\ pc = "write" /\ pc' = "insert" /\ UNCHANGED <<stored_proc, proc, recName>>
        /\ recName \in Keys
    BY <1>0, <1>6 DEF WriteFile, TypeOK
  <2>2. RecordOK(proc) /\ proc \in Records
    BY <1>0, <2>1 DEF KnownInv, Saving, TypeOK
  <2>3. CASE aqp' = [aqp EXCEPT ![recName] = Saved(proc)] /\ unsaved' = unsaved \ {recName}
    <3>1. aqp'[recName] = Saved(proc) /\ \A n \in Keys : n # recName => aqp'[n] = aqp[n]
      BY <1>0, <2>1, <2>3 DEF TypeOK
    <3>2. ImageOK(Saved(proc))
      BY <2>2, SavedImage
    <3>3. \A n \in Keys : Whole(n)' => ImageOK(aqp'[n])
      BY <1>0, <3>1, <3>2 DEF KnownInv, Whole
    <3>4. \A n \in Keys \ unsaved' : stored_proc'[n] # None /\ n # recName =>
            Whole(n)' /\ aqp'[n].of = stored_proc'[n].of
      BY <1>0, <2>1, <2>3, <3>1 DEF KnownInv, Whole
    <3>. QED BY <1>0, <2>1, <2>2, <3>1, <3>3, <3>4 DEF KnownInv, Saving
  <2>4. CASE UNCHANGED aqp /\ unsaved' = unsaved \cup {recName}
    BY <1>0, <2>1, <2>2, <2>4 DEF KnownInv, Whole, Saving
  <2>. QED BY <1>6, <2>3, <2>4 DEF WriteFile, FileName
<1>7. CASE Insert
  <2>1. pc = "insert" /\ pc' = "loop" /\ UNCHANGED <<proc, aqp, unsaved>>
    BY <1>7 DEF Insert
  <2>2. recName \in Keys /\ stored_proc'[recName] = proc
        /\ \A n \in Keys : n # recName => stored_proc'[n] = stored_proc[n]
    BY <1>0, <1>7 DEF Insert, TypeOK
  <2>3. RecordOK(proc) /\ proc \in Records /\ (recName \in unsaved \/ aqp[recName] = Saved(proc))
    BY <1>0, <2>1 DEF KnownInv, Saving, TypeOK
  <2>4. recName \notin unsaved => Whole(recName) /\ aqp[recName].of = proc.of
    BY <2>3, SavedImage, NoName DEF Whole
  <2>5. \A n \in Keys : stored_proc'[n] # None => RecordOK(stored_proc'[n])
    BY <1>0, <2>2, <2>3 DEF KnownInv
  <2>6. \A n \in Keys \ unsaved : stored_proc'[n] # None => Whole(n) /\ aqp[n].of = stored_proc'[n].of
    BY <1>0, <2>1, <2>2, <2>4 DEF KnownInv
  <2>. QED BY <1>0, <2>1, <2>5, <2>6 DEF KnownInv, Whole, Saving
<1>8. CASE Run \/ Load
  <2>1. pc = "loop" /\ pc' \in {"start", "load"} /\ UNCHANGED <<stored_proc, aqp, unsaved>>
    BY <1>8 DEF Run, Load, PlayFrom, More
  <2>. QED BY <1>0, <2>1, KnownBeside DEF Saving
<1>9. CASE ReadFile
  <2>1. /\ pc = "load" /\ pc' \in {"loop", "dead", "modules"} /\ UNCHANGED <<stored_proc, aqp, unsaved, n_recvd>>
        /\ This = n_recvd[1] /\ This.arg \in Keys
    BY <1>9, ModuleHere DEF ReadFile, Loading
  <2>2. CASE pc' # "modules"
    BY <1>0, <2>1, <2>2, KnownBeside DEF Saving
  <2>3. CASE pc' = "modules"
    <3>1. aqp[This.arg] # None /\ aqp[This.arg] # Torn
      BY <1>9, <2>3 DEF ReadFile
    <3>2. proc' = [queries |-> aqp[This.arg].queries, libs |-> <<>>, of |-> aqp[This.arg].of]
      BY <1>9, <3>1 DEF ReadFile
    <3>3. proc'.queries = aqp[This.arg].queries /\ proc'.of = aqp[This.arg].of
          /\ proc'.libs = <<>> /\ Len(<<>>) = 0
      BY <3>2
    <3>4. aqp[This.arg].modules \in Nat
      BY <1>0, <2>1, <3>1 DEF TypeOK, Images
    <3>5. LoadOK'
      BY <2>1, <3>1, <3>3, <3>4 DEF LoadOK, Whole
    <3>. QED BY <1>0, <2>1, <2>3, <3>5 DEF KnownInv, Whole, Saving
  <2>. QED BY <2>2, <2>3
<1>10. CASE LoadModule
  <2>1. /\ pc = "modules" /\ pc' \in {"modules", "loop"} /\ UNCHANGED <<stored_proc, aqp, unsaved, n_recvd>>
        /\ This = n_recvd[1] /\ LoadOK /\ proc \in Records /\ Len(proc.libs) \in Nat
        /\ aqp[This.arg].modules \in Nat
    BY <1>10, ModuleHere DEF LoadModule, Loading
  <2>2. CASE pc' # "modules"
    BY <1>0, <2>1, <2>2, KnownBeside DEF Saving
  <2>3. CASE pc' = "modules"
    <3>. DEFINE path == <<This.arg, Len(proc.libs)>>
                l == proc.libs
                m == Append(l, path)
    <3>1. proc' = [proc EXCEPT !.libs = m] /\ Len(l) < aqp[This.arg].modules
      BY <1>10, <2>3 DEF LoadModule
    <3>2. /\ Len(m) = Len(l) + 1 /\ m[Len(l) + 1] = path /\ \A j \in 1 .. Len(l) : m[j] = l[j]
      <4>1. l \in Seq(Handles)
        BY <2>1 DEF Records
      <4>. HIDE DEF l, path
      <4>. QED BY <4>1
    <3>3. proc'.queries = proc.queries /\ proc'.of = proc.of /\ proc'.libs = m
      BY <2>1, <3>1 DEF Records
    <3>4. \A j \in 1 .. Len(l) : l[j] = <<This.arg, j - 1>>
      BY <2>1 DEF LoadOK
    <3>5. path = <<This.arg, (Len(l) + 1) - 1>> /\ Len(l) \in Nat
      BY <2>1
    <3>. HIDE DEF m, path
    <3>6. \A j \in 1 .. Len(m) : m[j] = <<This.arg, j - 1>>
      BY <3>2, <3>4, <3>5
    <3>7. Len(m) <= aqp[This.arg].modules
      BY <2>1, <3>1, <3>2
    <3>8. LoadOK'
      BY <2>1, <3>3, <3>6, <3>7 DEF LoadOK, Whole
    <3>. QED BY <1>0, <2>1, <2>3, <3>8 DEF KnownInv, Whole, Saving
  <2>. QED BY <2>1, <2>2, <2>3
<1>11. CASE Loaded
  <2>1. /\ pc = "modules" /\ pc' \in {"start", "loop"} /\ UNCHANGED aqp
        /\ unsaved' = unsaved \ {This.arg}
        /\ stored_proc' = [stored_proc EXCEPT ![This.arg] = proc]
        /\ Len(proc.libs) = aqp[This.arg].modules
    BY <1>11 DEF Loaded, PlayFrom
  <2>2. /\ This = n_recvd[1] /\ LoadOK /\ proc \in Records /\ This.arg \in Names /\ This.arg \in Keys
        /\ aqp[This.arg] \in Images /\ ImageOK(aqp[This.arg])
    BY <2>1, ModuleHere DEF Loading
  <2>3. RecordOK(proc)
    BY <2>1, <2>2, LoadedRecord DEF LoadOK
  <2>4. stored_proc'[This.arg] = proc /\ \A n \in Keys : n # This.arg => stored_proc'[n] = stored_proc[n]
    BY <1>0, <2>1, <2>2 DEF TypeOK
  <2>5. Whole(This.arg) /\ aqp[This.arg].of = proc.of
    BY <2>2 DEF LoadOK
  <2>6. \A n \in Keys : stored_proc'[n] # None => RecordOK(stored_proc'[n])
    BY <1>0, <2>3, <2>4 DEF KnownInv
  <2>7. \A n \in Keys \ unsaved' : stored_proc'[n] # None => Whole(n) /\ aqp[n].of = stored_proc'[n].of
    BY <1>0, <2>1, <2>4, <2>5 DEF KnownInv, Saving
  <2>. QED BY <1>0, <2>1, <2>6, <2>7 DEF KnownInv, Whole, Saving
<1>12. CASE Finish
  <2>1. pc = "loop" /\ pc' = "idle" /\ UNCHANGED <<stored_proc, aqp, unsaved>>
    BY <1>12 DEF Finish, EndRequest
  <2>. QED BY <1>0, <2>1, KnownBeside DEF Saving
<1>13. CASE Crash
  <2>1. pc' = "idle" /\ stored_proc' = [n \in Keys |-> None] /\ UNCHANGED aqp
    BY <1>13 DEF Crash
  <2>. QED BY <1>0, <2>1 DEF KnownInv, Whole, Saving
<1>14. CASE UNCHANGED vars
  BY <1>14, Unchanged DEF IInv
<1>. QED BY <1>1, <1>2, <1>3, <1>4, <1>5, <1>6, <1>7, <1>8, <1>9, <1>10, <1>11, <1>12, <1>13,
            <1>14
         DEF Next, Engine

-----------------------------------------------------------------------------
(* Every step plays the next message.                                        *)

\* Nothing is played.
LEMMA PlaysNothing ==
  ASSUME replaying' = None \/ pc' \notin {"start", "open", "loop"},
         pc' \notin Loading
  PROVE  PlayInv'
BY DEF PlayInv

\* A procedure's playing begins.
LEMMA PlayBegins ==
  ASSUME TypeOK', pc' = "start", n_recvd' = proc'.queries, i' = 1, cursor' = 0, played' = <<>>
  PROVE  PlayInv'
<1>1. Marks(n_recvd', 0) = 0
  BY MarksZero
<1>2. Len(<<>>) = 0
  OBVIOUS
<1>. QED BY <1>1, <1>2 DEF PlayInv, Loading

\* What is played is what ran.
LEMMA PlaysOn ==
  ASSUME IInv, TypeOK', replaying # None, More, This.kind # "N", i' = i + 1,
         played' = Append(played, This), pc' = "loop",
         UNCHANGED <<n_recvd, replaying, proc, cursor, handle>>
  PROVE  PlayInv'
<1>0. TypeOK /\ MessagesOK /\ PlayInv /\ pc = "loop"
  BY DEF IInv, RequestInv, More
<1>1. /\ i \in 1 .. Len(n_recvd) /\ This = n_recvd[i] /\ This \in Messages /\ i \in Nat
      /\ Len(n_recvd) \in Nat
  BY <1>0, HereIn DEF MessagesOK, TypeOK, This
<1>2. /\ cursor = Marks(n_recvd, i - 1) /\ Len(played) = (i - 1) - cursor
      /\ \A m \in 1 .. Len(played) : Like(played[m], proc.of[m])
      /\ cursor > 0 => handle = proc.libs[cursor]
  BY <1>0 DEF PlayInv
<1>3. Marks(n_recvd, i) = cursor /\ cursor \in Nat
  <2>1. i - 1 \in Nat /\ (i - 1) + 1 = i
    BY <1>1
  <2>2. n_recvd[(i - 1) + 1].kind # "N"
    BY <1>1, <2>1
  <2>3. Marks(n_recvd, i - 1) \in 0 .. i - 1
    BY <2>1, MarksNat
  <2>4. Marks(n_recvd, (i - 1) + 1) = Marks(n_recvd, i - 1) + 0
    BY <2>1, <2>2, MarksStep
  <2>. QED BY <1>2, <2>1, <2>3, <2>4
<1>4. n_recvd = proc.queries /\ Faithful(n_recvd, proc.of)
  BY <1>0 DEF MessagesOK, RecordOK
<1>5. Like(This, proc.of[i - cursor])
  BY <1>1, <1>3, <1>4 DEF Faithful
<1>6. Len(played') = Len(played) + 1 /\ played'[Len(played) + 1] = This /\ Len(played) \in Nat
      /\ \A m \in 1 .. Len(played) : played'[m] = played[m]
  <2>. DEFINE p == played
              q == played'
              t == This
  <2>1. p \in Seq(Messages) /\ t \in Messages /\ q = Append(p, t)
    BY <1>0, <1>1 DEF TypeOK
  <2>. HIDE DEF p, q, t
  <2>2. Len(q) = Len(p) + 1 /\ q[Len(p) + 1] = t /\ Len(p) \in Nat /\ \A m \in 1 .. Len(p) : q[m] = p[m]
    BY <2>1
  <2>. QED BY <2>2 DEF p, q, t
<1>7. Len(played) + 1 = i - cursor /\ i' - 1 = i
  BY <1>1, <1>2, <1>3
<1>8. ASSUME NEW m \in 1 .. Len(played')
      PROVE  Like(played'[m], proc.of[m])
  <2>1. CASE m \in 1 .. Len(played)
    BY <1>2, <1>6, <2>1
  <2>2. CASE m = Len(played) + 1
    BY <1>5, <1>6, <1>7, <2>2
  <2>. QED BY <1>6, <2>1, <2>2
<1>9. /\ cursor' = Marks(n_recvd', i' - 1) /\ Len(played') = (i' - 1) - cursor'
      /\ \A m \in 1 .. Len(played') : Like(played'[m], proc'.of[m])
      /\ cursor' > 0 => handle' = proc'.libs[cursor']
  BY <1>2, <1>3, <1>6, <1>7, <1>8
<1>. QED BY <1>9 DEF PlayInv, Loading

\* While a procedure is played, a call finds a library in use.
LEMMA PlayHasLibrary ==
  ASSUME IInv, replaying # None, More, This.kind = "P"
  PROVE  /\ handle # None /\ handle = proc.libs[Marks(n_recvd, i)]
         /\ i \in 1 .. Len(n_recvd) /\ This = n_recvd[i] /\ n_recvd = proc.queries
<1>0. TypeOK /\ MessagesOK /\ PlayInv /\ pc = "loop"
  BY DEF IInv, RequestInv, More
<1>1. /\ i \in 1 .. Len(n_recvd) /\ This = n_recvd[i] /\ i \in Nat
  BY <1>0, HereIn DEF MessagesOK, TypeOK, This
<1>2. cursor = Marks(n_recvd, i - 1) /\ (cursor > 0 => handle = proc.libs[cursor])
  BY <1>0 DEF PlayInv
<1>3. Marks(n_recvd, i) = cursor
  <2>1. i - 1 \in Nat /\ (i - 1) + 1 = i
    BY <1>1
  <2>2. n_recvd[(i - 1) + 1].kind # "N"
    BY <1>1, <2>1
  <2>3. Marks(n_recvd, i - 1) \in 0 .. i - 1
    BY <2>1, MarksNat
  <2>4. Marks(n_recvd, (i - 1) + 1) = Marks(n_recvd, i - 1) + 0
    BY <2>1, <2>2, MarksStep
  <2>. QED BY <1>2, <2>1, <2>3, <2>4
<1>4. Marks(n_recvd, i) \in 1 .. Len(proc.libs) /\ proc.libs[Marks(n_recvd, i)] # None
  BY <1>0, <1>1 DEF MessagesOK, RecordOK, Bound
<1>5. n_recvd = proc.queries
  BY <1>0 DEF MessagesOK
<1>. QED BY <1>1, <1>2, <1>3, <1>4, <1>5

LEMMA PlayStep == IInv /\ [Next]_vars => PlayInv'
<1>. SUFFICES ASSUME IInv, [Next]_vars PROVE PlayInv'
  OBVIOUS
<1>. USE DEF engineRest, boundVars, recordVars, replayVars, diskVars
<1>0. TypeOK /\ RequestInv /\ PlayInv /\ TypeOK' /\ RequestInv'
  BY TypeStep, RequestStep DEF IInv
<1>1. ASSUME Command PROVE PlayInv'
  <2>1. pc = "idle" /\ pc' = "start" /\ UNCHANGED replaying
    BY <1>1 DEF Command, Exec, Record, Stop, Replay, Request
  <2>. QED BY <1>0, <2>1, PlaysNothing DEF RequestInv, IdleOK, Loading
<1>2. CASE Start \/ CopyLibrary \/ OpenLibrary
  <2>1. /\ pc \in Starting /\ pc' \in {"loop", "copy", "open", "openCopy"}
        /\ UNCHANGED <<replaying, proc, cursor, n_recvd, i, played>>
    BY <1>2 DEF Start, CopyLibrary, OpenLibrary, Starting, histVars
  <2>2. CASE replaying = None
    BY <2>1, <2>2, PlaysNothing DEF Loading
  <2>3. CASE replaying # None
    <3>1. pc \in {"start", "open"} /\ i = 1
      BY <1>0, <2>1, <2>3 DEF RequestInv, MessagesOK, StageOK, Starting
    <3>2. cursor = 0
      <4>1. cursor = Marks(n_recvd, 0)
        BY <1>0, <2>3, <3>1 DEF PlayInv
      <4>. QED BY <4>1, MarksZero
    <3>. QED BY <1>0, <2>1, <2>3, <3>1, <3>2 DEF PlayInv, Loading
  <2>. QED BY <2>2, <2>3
<1>3. ASSUME More, This.kind # "N", NEW done, Log(done), Step, UNCHANGED <<replaying, proc, cursor, handle>>
      PROVE  PlayInv'
  <2>1. pc' = "loop" /\ i' = i + 1 /\ n_recvd' = n_recvd
    BY <1>3 DEF Step, More
  <2>2. CASE replaying = None
    BY <1>3, <2>1, <2>2, PlaysNothing DEF Loading
  <2>3. CASE replaying # None
    <3>1. played' = Append(played, This)
      BY <1>3, <2>3 DEF Log
    <3>. QED BY <1>0, <1>3, <2>1, <2>3, <3>1, PlaysOn
  <2>. QED BY <2>2, <2>3
<1>4. CASE PerformQuery
  BY <1>3, <1>4 DEF PerformQuery
<1>5. CASE PerformProcedure
  <2>1. More /\ This.kind = "P" /\ UNCHANGED <<replaying, proc, cursor, handle>>
    BY <1>5 DEF PerformProcedure
  <2>2. CASE handle = None
    <3>1. replaying = None
      BY <2>1, <2>2, PlayHasLibrary
    <3>2. pc' = "loop"
      BY <1>5, <2>1, <2>2 DEF PerformProcedure, Step, More
    <3>. QED BY <2>1, <3>1, <3>2, PlaysNothing DEF Loading
  <2>3. CASE handle # None /\ Step
    <3>1. Log(~err)
      BY <1>5, <2>3 DEF PerformProcedure
    <3>. QED BY <1>3, <2>1, <2>3, <3>1
  <2>4. CASE handle # None /\ Stuck
    BY <2>4, PlaysNothing DEF Stuck, Loading
  <2>. QED BY <1>5, <2>2, <2>3, <2>4 DEF PerformProcedure
<1>6. CASE PerformOutput
  BY <1>3, <1>6 DEF PerformOutput
<1>7. CASE NextLibrary
  <2>1. /\ More /\ This.kind = "N" /\ i' = i + 1 /\ pc = "loop" /\ pc' = "loop"
        /\ UNCHANGED <<replaying, proc, n_recvd, played>>
    BY <1>7 DEF NextLibrary, Step, More, histVars
  <2>2. replaying # None
    BY <2>1, MessageHere DEF Orders, Kinds
  <2>3. i \in 1 .. Len(n_recvd) /\ This = n_recvd[i] /\ i \in Nat /\ Len(n_recvd) \in Nat
    BY <1>0, <2>1, HereIn DEF RequestInv, MessagesOK, TypeOK, This
  <2>4. /\ cursor = Marks(n_recvd, i - 1) /\ Len(played) = (i - 1) - cursor
        /\ \A m \in 1 .. Len(played) : Like(played[m], proc.of[m])
    BY <1>0, <2>1, <2>2 DEF PlayInv
  <2>5. Marks(n_recvd, i) = cursor + 1 /\ cursor \in Nat
    <3>1. i - 1 \in Nat /\ (i - 1) + 1 = i
      BY <2>3
    <3>2. Marks(n_recvd, (i - 1) + 1) = Marks(n_recvd, i - 1) + 1
      BY <2>1, <2>3, <3>1, MarksStep
    <3>3. Marks(n_recvd, i - 1) \in 0 .. i - 1
      BY <3>1, MarksNat
    <3>. QED BY <2>4, <3>1, <3>2, <3>3
  <2>6. cursor < Len(proc.libs)
    <3>1. Marks(n_recvd, i) <= Marks(n_recvd, Len(n_recvd))
      BY <2>3, MarksUpTo
    <3>2. Marks(n_recvd, Len(n_recvd)) = Len(proc.libs)
      BY <1>0, <2>2 DEF RequestInv, MessagesOK, RecordOK
    <3>3. Len(proc.libs) \in Nat
      BY <1>0 DEF TypeOK, Records
    <3>. QED BY <2>5, <3>1, <3>2, <3>3
  <2>7. handle' = proc.libs[cursor + 1] /\ cursor' = cursor + 1
    BY <1>7, <2>6 DEF NextLibrary
  <2>8. /\ cursor' = Marks(n_recvd', i' - 1) /\ Len(played') = (i' - 1) - cursor'
        /\ \A m \in 1 .. Len(played') : Like(played'[m], proc'.of[m])
        /\ handle' = proc'.libs[cursor']
    BY <2>1, <2>3, <2>4, <2>5, <2>7
  <2>. QED BY <2>1, <2>8 DEF PlayInv, Loading
<1>8. CASE BeginRecording \/ EndRecording
  <2>1. More /\ This.kind \in {"R", "RT"} /\ UNCHANGED replaying /\ pc' \in {"loop", "truncate"}
    BY <1>8 DEF BeginRecording, EndRecording, Step, More
  <2>2. replaying = None
    BY <2>1, OrderHere DEF Orders
  <2>. QED BY <2>1, <2>2, PlaysNothing DEF Loading
<1>9. CASE Truncate \/ WriteFile \/ Insert
  <2>1. pc \in Saving /\ pc' \in {"write", "insert", "loop"} /\ UNCHANGED replaying
    BY <1>9 DEF Truncate, WriteFile, Insert, Saving
  <2>. QED BY <1>0, <2>1, PlaysNothing DEF RequestInv, StageOK, Loading
<1>10. CASE Run
  <2>1. cursor' = 0 /\ More /\ This.kind = "RE"
    BY <1>10 DEF Run
  <2>2. CASE stored_proc[This.arg] # None
    <3>1. PlayFrom(proc')
      BY <1>10, <2>2 DEF Run
    <3>. QED BY <1>0, <2>1, <3>1, PlayBegins DEF PlayFrom
  <2>3. CASE stored_proc[This.arg] = None
    <3>1. pc' = "load" /\ UNCHANGED replaying
      BY <1>10, <2>3 DEF Run
    <3>. QED BY <2>1, <3>1 DEF PlayInv
  <2>. QED BY <2>2, <2>3
<1>11. CASE Load
  <2>1. pc' = "load" /\ UNCHANGED <<n_recvd, replaying>> /\ More /\ This.kind = "RL"
    BY <1>11 DEF Load
  <2>2. n_recvd[1].kind = "RL"
    BY <2>1, OrderHere DEF Orders
  <2>. QED BY <2>1, <2>2 DEF PlayInv
<1>12. CASE ReadFile \/ LoadModule \/ (Loaded /\ This.kind # "RE")
  <2>1. /\ pc \in Loading /\ pc' \in {"loop", "dead", "modules"}
        /\ UNCHANGED <<n_recvd, replaying, cursor>>
    BY <1>12 DEF ReadFile, LoadModule, Loaded, Loading
  <2>2. replaying = None
    BY <1>0, <2>1 DEF RequestInv, StageOK
  <2>. QED BY <1>0, <2>1, <2>2 DEF PlayInv, Loading
<1>13. CASE Loaded /\ This.kind = "RE"
  <2>1. PlayFrom(proc) /\ UNCHANGED <<proc, cursor>> /\ pc \in Loading
    BY <1>13 DEF Loaded, Loading
  <2>2. cursor = 0
    BY <1>0, <1>13, <2>1, ModuleHere DEF PlayInv
  <2>. QED BY <1>0, <2>1, <2>2, PlayBegins DEF PlayFrom
<1>14. CASE Finish \/ Crash
  <2>1. pc' = "idle"
    BY <1>14 DEF Finish, EndRequest, Crash
  <2>. QED BY <2>1, PlaysNothing DEF Loading
<1>15. CASE UNCHANGED vars
  BY <1>15, Unchanged DEF IInv
<1>. QED BY <1>1, <1>2, <1>4, <1>5, <1>6, <1>7, <1>8, <1>9, <1>10, <1>11, <1>12, <1>13,
            <1>14, <1>15
         DEF Next, Engine

LEMMA Inductive == IInv /\ [Next]_vars => IInv'
BY TypeStep, RequestStep, AgreeStep, RecordStep, KnownStep, PlayStep DEF IInv

-----------------------------------------------------------------------------
(* What the procedures promise.                                              *)

\* Between two requests the prompt and the engine agree on what is recorded, and a procedure
\* that is known is whole on disk with the same messages, except one whose last save has
\* failed: state.current_procedure (prompt.py:540-580) and procedure_recording
\* (server.cpp:435-480) never part, with any names, a crash at any step and a disk that may
\* refuse any copy and any save.
THEOREM RecordsStayInStep == Spec => []RecordsAgree
<1>1. IInv => RecordsAgree
  <2>. SUFFICES ASSUME IInv PROVE RecordsAgree
    OBVIOUS
  <2>1. ASSUME pc = "idle"
        PROVE  recName = current /\ recording = (current # None)
    <3>1. n_recvd = <<>> /\ Len(<<>>) = 0
      BY <2>1 DEF IInv, RequestInv, IdleOK
    <3>2. ~Pending("R") /\ ~Pending("RT")
      BY <3>1 DEF Pending, Ordered
    <3>. QED BY <3>2 DEF IInv, AgreeInv
  <2>2. KnownIsSaved
    BY DEF IInv, KnownInv, KnownIsSaved, Whole, Saving
  <2>3. TypeOK
    BY DEF IInv
  <2>. QED BY <2>1, <2>2, <2>3 DEF RecordsAgree, RecordingAgreed
<1>. QED BY <1>1, Started, Inductive, PTL DEF Spec, vars

\* A run performs message by message what ran while its procedure was recorded, from memory
\* and, after any crash and restart, from the files (server.cpp:435-560).
THEOREM PlaysRecorded == Spec => []PlaysWhatRan
<1>1. IInv => PlaysWhatRan
  <2>. SUFFICES ASSUME IInv, pc = "loop", i > Len(n_recvd), replaying # None
                PROVE  /\ Len(played) = Len(proc.of)
                       /\ \A k \in DOMAIN played :
                            played[k] = proc.of[k] \/ (played[k].kind = "X" /\ proc.of[k].kind = "L")
    BY DEF PlaysWhatRan
  <2>0. TypeOK /\ MessagesOK /\ PlayInv
    BY DEF IInv, RequestInv
  <2>1. i = Len(n_recvd) + 1 /\ Len(n_recvd) \in Nat
    BY <2>0 DEF MessagesOK, TypeOK
  <2>2. /\ cursor = Marks(n_recvd, i - 1) /\ Len(played) = (i - 1) - cursor
        /\ \A m \in 1 .. Len(played) : Like(played[m], proc.of[m])
    BY <2>0 DEF PlayInv
  <2>3. Len(proc.of) = Len(n_recvd) - Marks(n_recvd, Len(n_recvd))
    BY <2>0 DEF MessagesOK, RecordOK, Faithful
  <2>4. i - 1 = Len(n_recvd)
    BY <2>1
  <2>5. DOMAIN played = 1 .. Len(played)
    BY <2>0 DEF TypeOK
  <2>. QED BY <2>2, <2>3, <2>4, <2>5 DEF Like
<1>. QED BY <1>1, Started, Inductive, PTL DEF Spec, vars

-----------------------------------------------------------------------------
(* The right library.                                                        *)

\* No stale library was opened and no files of two recordings are mixed.
Fine == "stale" \notin faults /\ "mixed" \notin faults

\* Each call of a record is in the library that its mark stands for, and that library is open.
InLibrary(o, q, libs) ==
  \A k \in 1 .. Len(q) : q[k].kind = "P" =>
    o[libs[Marks(q, k)]].refs > 0 /\ o[libs[Marks(q, k)]].code = q[k].arg

\* The copy that a later load opens for the call is that library too, if there is one.
OnDisk(f, n, q) ==
  \A k \in 1 .. Len(q) : q[k].kind = "P" => f[<<n, Marks(q, k) - 1>>] \in {None, q[k].arg}

\* A library that a procedure calls.
Uses(q, libs, p) == \E k \in 1 .. Len(q) : q[k].kind = "P" /\ libs[Marks(q, k)] = p
Needed(p) ==
  \/ \E n \in Keys : stored_proc[n] # None /\ Uses(stored_proc[n].queries, stored_proc[n].libs, p)
  \/ Uses(recorded_queries, recorded_libraries, p)
  \/ pc \in Saving /\ Uses(proc.queries, proc.libs, p)

CopyOf == <<recName, Len(recorded_libraries)>>
LastCopy == <<recName, Len(recorded_libraries) - 1>>
Calling == \E k \in 1 .. Len(n_recvd) : n_recvd[k].kind = "P"

\* The files: a recording overwrites those of its name until it is saved.
FilesOK ==
  /\ \A n \in Keys : aqp[n] = Torn => pc = "write" /\ n = recName
  /\ \A n \in Keys : Whole(n) /\ ~(n = recName /\ (recording \/ pc = "truncate")) =>
       OnDisk(so, n, aqp[n].queries)
  /\ OnDisk(so, recName, recorded_queries)
  /\ pc \in Saving => OnDisk(so, recName, proc.queries)

\* The libraries: what is called is open, and closing the library of a request that keeps
\* none does not close it.
KeepOK ==
  /\ \A p \in Paths : opened[p].refs > 0 => opened[p].code # None
  /\ \A n \in Keys : stored_proc[n] # None =>
       InLibrary(opened, stored_proc[n].queries, stored_proc[n].libs)
  /\ InLibrary(opened, recorded_queries, recorded_libraries)
  /\ pc \in Saving => InLibrary(opened, proc.queries, proc.libs)
  /\ handle # None /\ replaying = None /\ (~recording \/ ~Calling) /\ Needed(handle) =>
       opened[handle].refs >= 2

\* A batch: dll.so is its own, the copy is like it, and so is the library in use.
OwnOK ==
  /\ pc = "openCopy" => so[CopyOf] = so[Dll]
  /\ pc = "open" /\ recording => so[CopyOf] \in {None, so[Dll]}
  /\ \A k \in 1 .. Len(n_recvd) : n_recvd[k].kind = "P" /\ replaying = None =>
       /\ pc \in Starting => so[Dll] = n_recvd[k].arg
       /\ pc = "loop" /\ handle # None => opened[handle].code = n_recvd[k].arg
       /\ pc = "loop" /\ handle # None /\ recording => so[LastCopy] \in {None, n_recvd[k].arg}

\* What is loaded so far is what the files hold; what is played is known.
ModulesOK ==
  pc = "modules" => \A j \in 1 .. Len(proc.libs) :
    opened[proc.libs[j]].refs > 0 /\ opened[proc.libs[j]].code = so[proc.libs[j]]
SourceOK ==
  /\ replaying # None => stored_proc[replaying] = proc
  /\ replaying = None /\ Ordered({"RE", "RL"}) => handle \in {None, Dll}

RightInv ==
  /\ SourceOK
  /\ Fine => FilesOK /\ KeepOK /\ OwnOK /\ ModulesOK /\ "lost" \notin faults

LEMMA OnDiskElsewhere ==
  ASSUME NEW f, NEW g, NEW n \in Keys, NEW q, NEW m \in Nat, m <= MaxRequests, Called(q, m),
         OnDisk(f, n, q), \A j \in 0 .. m - 1 : g[<<n, j>>] = f[<<n, j>>]
  PROVE  OnDisk(g, n, q)
<1>1. ASSUME NEW k \in 1 .. Len(q), q[k].kind = "P"
      PROVE  g[<<n, Marks(q, k) - 1>>] \in {None, q[k].arg}
  <2>1. Marks(q, k) \in 1 .. m
    BY <1>1 DEF Called
  <2>2. PICK j \in 0 .. m - 1 : j = Marks(q, k) - 1
    BY <2>1
  <2>3. f[<<n, j>>] \in {None, q[k].arg}
    BY <1>1, <2>2 DEF OnDisk
  <2>. QED BY <2>2, <2>3
<1>. QED BY <1>1 DEF OnDisk

\* A mark or a message more.
LEMMA OnDiskMore ==
  ASSUME NEW f, NEW n, NEW q \in Seq(Messages), NEW m \in Messages, OnDisk(f, n, q),
         m.kind = "P" => f[<<n, Marks(q, Len(q)) - 1>>] \in {None, m.arg}
  PROVE  OnDisk(f, n, Append(q, m))
<1>. DEFINE p == Append(q, m)
<1>1. /\ Len(q) \in Nat /\ Len(p) = Len(q) + 1 /\ p[Len(q) + 1] = m
      /\ \A j \in 1 .. Len(q) : p[j] = q[j]
  OBVIOUS
<1>2. /\ \A k \in 0 .. Len(q) : Marks(p, k) = Marks(q, k)
      /\ Marks(p, Len(q) + 1) = Marks(q, Len(q)) + (IF m.kind = "N" THEN 1 ELSE 0)
      /\ Marks(q, Len(q)) \in Nat
  BY <1>1, MarksAppend, MarksNat
<1>. HIDE DEF p
<1>3. ASSUME NEW k \in 1 .. Len(p), p[k].kind = "P"
      PROVE  f[<<n, Marks(p, k) - 1>>] \in {None, p[k].arg}
  <2>1. CASE k \in 1 .. Len(q)
    <3>1. p[k] = q[k] /\ Marks(p, k) = Marks(q, k)
      BY <1>1, <1>2, <2>1
    <3>. QED BY <1>3, <2>1, <3>1 DEF OnDisk
  <2>2. CASE k = Len(q) + 1
    <3>1. p[k] = m /\ m.kind = "P" /\ Marks(p, k) = Marks(q, Len(q))
      BY <1>1, <1>2, <1>3, <2>2
    <3>. QED BY <3>1
  <2>. QED BY <1>1, <2>1, <2>2
<1>. QED BY <1>3 DEF OnDisk, p

LEMMA OnDiskSaved ==
  ASSUME NEW f, NEW n, NEW p \in Records, OnDisk(f, n, p.queries)
  PROVE  OnDisk(f, n, Saved(p).queries)
<1>. DEFINE q == p.queries
            s == Saved(p).queries
<1>1. q \in Seq(Messages)
  BY DEF Records
<1>2. DOMAIN q = 1 .. Len(q) /\ Len(q) \in Nat
  BY <1>1
<1>3. s = [k \in 1 .. Len(q) |-> IF q[k].kind = "L" THEN Message("X", None) ELSE q[k]]
  BY <1>2 DEF Saved
<1>4. \A k \in 1 .. Len(q) : q[k] \in Messages
  BY <1>1
<1>5. Message("X", None) \in Messages /\ Message("X", None).kind = "X"
  BY DEF Message, Messages, Keys
<1>6. \A k \in 1 .. Len(q) : s[k] = (IF q[k].kind = "L" THEN Message("X", None) ELSE q[k])
  BY <1>3
<1>7. s \in Seq(Messages) /\ Len(s) = Len(q)
  BY <1>2, <1>3, <1>4, <1>5
<1>8. OnDisk(f, n, q)
  OBVIOUS
<1>. HIDE DEF s, q
<1>9. ASSUME NEW k \in 0 .. Len(q)
      PROVE  Marks(s, k) = Marks(q, k)
  <2>1. \A j \in 1 .. k : s[j].kind = "N" <=> q[j].kind = "N"
    BY <1>2, <1>5, <1>6
  <2>. QED BY <1>2, <2>1, MarksSame
<1>10. ASSUME NEW k \in 1 .. Len(s), s[k].kind = "P"
       PROVE  f[<<n, Marks(s, k) - 1>>] \in {None, s[k].arg}
  <2>1. k \in 1 .. Len(q) /\ s[k] = q[k] /\ Marks(s, k) = Marks(q, k)
    <3>1. k \in 1 .. Len(q) /\ k \in 0 .. Len(q)
      BY <1>2, <1>7
    <3>2. s[k] = q[k]
      BY <1>5, <1>6, <1>10, <3>1
    <3>. QED BY <1>9, <3>1, <3>2
  <2>. QED BY <1>8, <1>10, <2>1 DEF OnDisk
<1>. QED BY <1>10 DEF OnDisk, s

\* The libraries of a record.
LEMMA BoundPath ==
  ASSUME NEW q, NEW libs \in Seq(Handles), Bound(q, libs), NEW k \in 1 .. Len(q), q[k].kind = "P"
  PROVE  libs[Marks(q, k)] \in Paths /\ Marks(q, k) \in 1 .. Len(libs)
BY DEF Bound, Handles

LEMMA InLibraryKept ==
  ASSUME NEW o, NEW u, NEW q, NEW libs \in Seq(Handles), Bound(q, libs), InLibrary(o, q, libs),
         \A p \in Paths : Uses(q, libs, p) /\ o[p].refs > 0 => u[p].refs > 0 /\ u[p].code = o[p].code
  PROVE  InLibrary(u, q, libs)
<1>1. ASSUME NEW k \in 1 .. Len(q), q[k].kind = "P"
      PROVE  u[libs[Marks(q, k)]].refs > 0 /\ u[libs[Marks(q, k)]].code = q[k].arg
  <2>1. PICK p \in Paths : p = libs[Marks(q, k)]
    BY <1>1, BoundPath
  <2>2. Uses(q, libs, p)
    BY <1>1, <2>1 DEF Uses
  <2>3. o[p].refs > 0 /\ o[p].code = q[k].arg
    BY <1>1, <2>1 DEF InLibrary
  <2>. QED BY <2>1, <2>2, <2>3
<1>. QED BY <1>1 DEF InLibrary

LEMMA UsedIsOpen ==
  ASSUME NEW o, NEW q, NEW libs, NEW p, InLibrary(o, q, libs), Uses(q, libs, p)
  PROVE  o[p].refs > 0
BY DEF InLibrary, Uses

LEMMA MoreLibraries ==
  ASSUME NEW q, NEW libs \in Seq(Handles), NEW h \in Handles, Bound(q, libs)
  PROVE  /\ \A o : InLibrary(o, q, libs) => InLibrary(o, q, Append(libs, h))
         /\ \A p : Uses(q, Append(libs, h), p) => Uses(q, libs, p)
<1>1. ASSUME NEW k \in 1 .. Len(q), q[k].kind = "P"
      PROVE  Append(libs, h)[Marks(q, k)] = libs[Marks(q, k)]
  <2>1. Marks(q, k) \in 1 .. Len(libs)
    BY <1>1, BoundPath
  <2>. QED BY <2>1
<1>2. ASSUME NEW o, InLibrary(o, q, libs)
      PROVE  InLibrary(o, q, Append(libs, h))
  BY <1>1, <1>2 DEF InLibrary
<1>3. ASSUME NEW p, Uses(q, Append(libs, h), p)
      PROVE  Uses(q, libs, p)
  BY <1>1, <1>3 DEF Uses
<1>. QED BY <1>2, <1>3

LEMMA MoreMessages ==
  ASSUME NEW q \in Seq(Messages), NEW m \in Messages, NEW libs
  PROVE  /\ \A o : /\ InLibrary(o, q, libs)
                   /\ m.kind = "P" => /\ o[libs[Marks(q, Len(q))]].refs > 0
                                      /\ o[libs[Marks(q, Len(q))]].code = m.arg
                   => InLibrary(o, Append(q, m), libs)
         /\ \A p : Uses(Append(q, m), libs, p) /\ m.kind # "P" => Uses(q, libs, p)
<1>. DEFINE p == Append(q, m)
<1>1. /\ Len(q) \in Nat /\ Len(p) = Len(q) + 1 /\ p[Len(q) + 1] = m
      /\ \A j \in 1 .. Len(q) : p[j] = q[j]
  OBVIOUS
<1>2. /\ \A k \in 0 .. Len(q) : Marks(p, k) = Marks(q, k)
      /\ Marks(p, Len(q) + 1) = Marks(q, Len(q)) + (IF m.kind = "N" THEN 1 ELSE 0)
      /\ Marks(q, Len(q)) \in Nat
  BY <1>1, MarksAppend, MarksNat
<1>. HIDE DEF p
<1>3. ASSUME NEW k \in 1 .. Len(p), p[k].kind = "P"
      PROVE  \/ k \in 1 .. Len(q) /\ p[k] = q[k] /\ Marks(p, k) = Marks(q, k)
             \/ m.kind = "P" /\ p[k] = m /\ Marks(p, k) = Marks(q, Len(q))
  <2>1. CASE k \in 1 .. Len(q)
    BY <1>1, <1>2, <2>1
  <2>2. CASE k = Len(q) + 1
    BY <1>1, <1>2, <1>3, <2>2
  <2>. QED BY <1>1, <2>1, <2>2
<1>4. ASSUME NEW o, InLibrary(o, q, libs),
             m.kind = "P" => /\ o[libs[Marks(q, Len(q))]].refs > 0
                             /\ o[libs[Marks(q, Len(q))]].code = m.arg
      PROVE  InLibrary(o, p, libs)
  <2>1. ASSUME NEW k \in 1 .. Len(p), p[k].kind = "P"
        PROVE  o[libs[Marks(p, k)]].refs > 0 /\ o[libs[Marks(p, k)]].code = p[k].arg
    <3>1. CASE k \in 1 .. Len(q) /\ p[k] = q[k] /\ Marks(p, k) = Marks(q, k)
      BY <1>4, <2>1, <3>1 DEF InLibrary
    <3>2. CASE m.kind = "P" /\ p[k] = m /\ Marks(p, k) = Marks(q, Len(q))
      BY <1>4, <3>2
    <3>. QED BY <1>3, <2>1, <3>1, <3>2
  <2>. QED BY <2>1 DEF InLibrary
<1>5. ASSUME NEW x, Uses(p, libs, x), m.kind # "P"
      PROVE  Uses(q, libs, x)
  <2>1. PICK k \in 1 .. Len(p) : p[k].kind = "P" /\ libs[Marks(p, k)] = x
    BY <1>5 DEF Uses
  <2>2. k \in 1 .. Len(q) /\ p[k] = q[k] /\ Marks(p, k) = Marks(q, k)
    BY <1>3, <1>5, <2>1
  <2>. QED BY <2>1, <2>2 DEF Uses
<1>. QED BY <1>4, <1>5 DEF p

\* dlopen: nothing that is open is lost, and unless it is stale the library is its file.
LEMMA OpenGrows ==
  ASSUME TypeOK, NEW p \in Paths, CanOpen(p), Dlopen(p),
         \A x \in Paths : opened[x].refs > 0 => opened[x].code # None
  PROVE  /\ \A x \in Paths : opened[x].refs > 0 =>
              opened'[x].refs >= opened[x].refs /\ opened'[x].code = opened[x].code
         /\ \A x \in Paths : opened'[x].refs > 0 => opened'[x].code # None
         /\ opened'[p].refs = opened[p].refs + 1 /\ opened[p].refs \in Nat
         /\ "stale" \notin faults' => opened'[p].code = so[p]
<1>1. /\ opened'[p].refs = opened[p].refs + 1
      /\ opened'[p].code = IF opened[p].refs > 0 THEN opened[p].code ELSE so[p]
      /\ \A q \in Paths : q # p => opened'[q] = opened[q]
  BY OpenLibraryTypes DEF TypeOK
<1>2. \A x \in Paths : opened[x].refs \in Nat
  BY DEF TypeOK
<1>3. "stale" \notin faults' => ~(opened[p].refs > 0 /\ opened[p].code # so[p])
  BY DEF Dlopen, Fault
<1>4. opened'[p].code # None
  BY <1>1, <1>2 DEF CanOpen
<1>. QED BY <1>1, <1>2, <1>3, <1>4

\* What has gone wrong stays so.
LEMMA FaultsStay == [Next]_vars => faults \subseteq faults'
<1>. SUFFICES ASSUME [Next]_vars PROVE faults \subseteq faults'
  OBVIOUS
<1>. USE DEF Fault, histVars
<1>1. CASE Command
  BY <1>1 DEF Command, Exec, Record, Stop, Replay, Request
<1>2. CASE Start \/ CopyLibrary \/ OpenLibrary
  BY <1>2 DEF Start, CopyLibrary, OpenLibrary, Dlopen
<1>3. CASE PerformQuery \/ PerformProcedure \/ PerformOutput \/ NextLibrary
  BY <1>3 DEF PerformQuery, PerformProcedure, PerformOutput, NextLibrary
<1>4. CASE BeginRecording \/ EndRecording \/ Truncate \/ WriteFile \/ Insert
  BY <1>4 DEF BeginRecording, EndRecording, Truncate, WriteFile, Insert
<1>5. CASE Run \/ Load \/ ReadFile \/ LoadModule \/ Loaded
  BY <1>5 DEF Run, Load, ReadFile, LoadModule, Loaded, Dlopen
<1>6. CASE Finish \/ Crash
  BY <1>6 DEF Finish, EndRequest, Crash
<1>7. CASE UNCHANGED vars
  BY <1>7 DEF vars
<1>. QED BY <1>1, <1>2, <1>3, <1>4, <1>5, <1>6, <1>7 DEF Next, Engine

\* What is recorded is in the copies of this recording.
LEMMA RecordedCalls ==
  ASSUME IInv
  PROVE  /\ recorded_queries \in Seq(Messages) /\ recorded_libraries \in Seq(Handles)
         /\ Len(recorded_libraries) \in Nat /\ Len(recorded_libraries) <= MaxRequests
         /\ Called(recorded_queries, Len(recorded_libraries))
         /\ Bound(recorded_queries, recorded_libraries) /\ recName \in Keys
<1>1. TypeOK /\ RecordInv /\ CountsOK
  BY DEF IInv, RequestInv
<1>2. Len(recorded_libraries) \in Nat /\ Len(recorded_libraries) <= MaxRequests
  BY <1>1, NoName DEF TypeOK, RecordInv, CountsOK
<1>. QED BY <1>1, <1>2 DEF TypeOK, RecordInv, Called, Bound

\* In the loop of a recording the marks are those of its libraries.
LEMMA RecordedMarks ==
  ASSUME IInv, pc = "loop"
  PROVE  Marks(recorded_queries, Len(recorded_queries)) = Len(recorded_libraries)
BY RecordedCalls DEF IInv, RecordInv, Marked

\* A request whose only message is an order has no call.
LEMMA OrderCallsNothing ==
  ASSUME NEW ks \in SUBSET Orders, Ordered(ks)
  PROVE  ~Calling
BY DEF Ordered, Calling, Orders

LEMMA SourceStep == IInv /\ SourceOK /\ [Next]_vars => SourceOK'
<1>. SUFFICES ASSUME IInv, SourceOK, [Next]_vars PROVE SourceOK'
  OBVIOUS
<1>. USE DEF engineRest, boundVars, recordVars, replayVars, diskVars, histVars
<1>0. TypeOK /\ RequestInv /\ AgreeInv
  BY DEF IInv
<1>1. ASSUME Command PROVE SourceOK'
  <2>1. pc = "idle" /\ UNCHANGED <<replaying, handle>>
    BY <1>1 DEF Command, Exec, Record, Stop, Replay, Request
  <2>. QED BY <1>0, <2>1 DEF SourceOK, RequestInv, IdleOK
<1>2. CASE Start \/ CopyLibrary
  <2>1. UNCHANGED <<replaying, proc, stored_proc, n_recvd>> /\ handle' \in {handle, None}
    BY <1>2 DEF Start, CopyLibrary
  <2>. QED BY <2>1 DEF SourceOK, Ordered
<1>3. CASE OpenLibrary
  <2>1. /\ UNCHANGED <<replaying, proc, stored_proc, n_recvd>> /\ pc \in {"open", "openCopy"}
        /\ pc = "open" => handle' \in {Dll, None}
    BY <1>3 DEF OpenLibrary
  <2>2. ASSUME replaying = None, Ordered({"RE", "RL"}) PROVE pc = "open"
    <3>1. current = None /\ ~Pending("R") /\ ~Pending("RT")
      BY <1>0, <2>2 DEF AgreeInv, Pending, Ordered
    <3>2. ~recording
      BY <1>0, <3>1 DEF AgreeInv
    <3>. QED BY <1>0, <2>1, <3>2 DEF RequestInv, StageOK
  <2>. QED BY <2>1, <2>2 DEF SourceOK, Ordered
<1>4. CASE PerformQuery \/ PerformProcedure \/ PerformOutput
  <2>1. UNCHANGED <<replaying, proc, stored_proc, n_recvd, handle>>
    BY <1>4 DEF PerformQuery, PerformProcedure, PerformOutput, Step, Stuck
  <2>. QED BY <2>1 DEF SourceOK, Ordered
<1>5. CASE NextLibrary
  <2>1. UNCHANGED <<replaying, proc, stored_proc>> /\ More /\ This.kind = "N"
    BY <1>5 DEF NextLibrary
  <2>2. replaying # None
    BY <2>1, MessageHere DEF Orders, Kinds
  <2>. QED BY <2>1, <2>2 DEF SourceOK
<1>6. CASE BeginRecording \/ EndRecording
  <2>1. UNCHANGED <<replaying, n_recvd, handle>> /\ More /\ This.kind \in {"R", "RT"}
    BY <1>6 DEF BeginRecording, EndRecording, Step
  <2>2. replaying = None
    BY <2>1, OrderHere DEF Orders
  <2>. QED BY <2>1, <2>2 DEF SourceOK, Ordered
<1>7. CASE Truncate \/ WriteFile \/ Insert
  <2>1. pc \in Saving /\ UNCHANGED <<replaying, n_recvd, handle>>
    BY <1>7 DEF Truncate, WriteFile, Insert, Saving
  <2>2. replaying = None
    BY <1>0, <2>1 DEF RequestInv, StageOK
  <2>. QED BY <2>1, <2>2 DEF SourceOK, Ordered
<1>8. CASE Run
  <2>1. UNCHANGED <<stored_proc, handle>> /\ More /\ This.kind = "RE"
    BY <1>8 DEF Run
  <2>2. replaying = None /\ This.arg \in Names /\ This.arg # None
    BY <2>1, OrderHere, NoName DEF Orders
  <2>3. CASE stored_proc[This.arg] # None
    <3>1. proc' = stored_proc[This.arg] /\ replaying' = This.arg
      BY <1>8, <2>3 DEF Run, PlayFrom
    <3>. QED BY <2>1, <2>2, <3>1 DEF SourceOK
  <2>4. CASE stored_proc[This.arg] = None
    <3>1. UNCHANGED <<replaying, n_recvd>>
      BY <1>8, <2>4 DEF Run
    <3>. QED BY <2>1, <2>2, <3>1 DEF SourceOK, Ordered
  <2>. QED BY <2>3, <2>4
<1>9. CASE Load
  <2>1. UNCHANGED <<stored_proc, handle, replaying, n_recvd, proc>>
    BY <1>9 DEF Load
  <2>. QED BY <2>1 DEF SourceOK, Ordered
<1>10. CASE ReadFile \/ LoadModule \/ (Loaded /\ This.kind # "RE")
  <2>1. pc \in Loading /\ UNCHANGED <<replaying, n_recvd, handle>>
    BY <1>10 DEF ReadFile, LoadModule, Loaded, Loading
  <2>2. replaying = None
    BY <2>1, ModuleHere
  <2>. QED BY <2>1, <2>2 DEF SourceOK, Ordered
<1>11. CASE Loaded /\ This.kind = "RE"
  <2>1. /\ pc \in Loading /\ proc' = proc /\ replaying' = This.arg
        /\ stored_proc' = [stored_proc EXCEPT ![This.arg] = proc]
    BY <1>11 DEF Loaded, PlayFrom, Loading
  <2>2. This.arg \in Keys /\ This.arg # None
    BY <2>1, ModuleHere, NoName
  <2>3. stored_proc'[This.arg] = proc
    BY <1>0, <2>1, <2>2 DEF TypeOK
  <2>. QED BY <2>1, <2>2, <2>3 DEF SourceOK
<1>12. CASE Finish \/ Crash
  <2>1. replaying' = None /\ handle' = None
    BY <1>12 DEF Finish, EndRequest, Crash
  <2>. QED BY <2>1 DEF SourceOK
<1>13. CASE UNCHANGED vars
  <2>1. UNCHANGED <<replaying, proc, stored_proc, n_recvd, handle>>
    BY <1>13 DEF vars, requestVars
  <2>. QED BY <2>1 DEF SourceOK, Ordered
<1>. QED BY <1>1, <1>2, <1>3, <1>4, <1>5, <1>6, <1>7, <1>8, <1>9, <1>10, <1>11, <1>12, <1>13
         DEF Next, Engine

-----------------------------------------------------------------------------
(* Every step keeps the files apart.                                         *)

LEMMA FilesBeside ==
  ASSUME FilesOK, UNCHANGED <<so, aqp, recName, recording>>,
         OnDisk(so, recName, recorded_queries)', pc \notin Saving, pc' \notin Saving
  PROVE  FilesOK'
BY DEF FilesOK, Whole, Saving

LEMMA FilesStep ==
  ASSUME IInv, [Next]_vars, FilesOK, OwnOK, Fine'
  PROVE  FilesOK'
<1>. USE DEF engineRest, boundVars, recordVars, replayVars, diskVars, histVars
<1>0. TypeOK /\ RequestInv /\ AgreeInv /\ RecordInv /\ KnownInv
  BY DEF IInv
<1>1. ASSUME NEW b \in Batches, Exec(b) PROVE FilesOK'
  <2>1. /\ pc = "idle" /\ pc' = "start" /\ UNCHANGED <<aqp, recName, recording, recorded_queries>>
    BY <1>1 DEF Exec, Request
  <2>2. \A n \in Keys, j \in Int : so'[<<n, j>>] = so[<<n, j>>] \/ <<n, j>> = Dll \/ <<n, j>> \notin Paths
    BY <1>0, <1>1 DEF Exec, TypeOK
  <2>3. ASSUME NEW n \in Keys, NEW j \in Nat, j <= MaxRequests
        PROVE  so'[<<n, j>>] = so[<<n, j>>]
    <3>1. <<n, j>> \in Paths /\ <<n, j>> # Dll
      BY <2>3, NoName DEF Paths, Copies, Dll
    <3>. QED BY <2>2, <3>1
  <2>4. ASSUME NEW n \in Keys, Whole(n)', ~(n = recName' /\ (recording' \/ pc' = "truncate"))
        PROVE  OnDisk(so', n, aqp'[n].queries)
    <3>. DEFINE q == aqp[n].queries
    <3>1. Whole(n) /\ OnDisk(so, n, q)
      BY <2>1, <2>4 DEF FilesOK, Whole
    <3>2. ImageOK(aqp[n]) /\ aqp[n] \in Images
      BY <1>0, <3>1 DEF KnownInv, Whole, TypeOK
    <3>3. Called(q, aqp[n].modules) /\ aqp[n].modules \in Nat /\ aqp[n].modules <= MaxRequests
      BY <3>2 DEF ImageOK, Images
    <3>4. \A j \in 0 .. aqp[n].modules - 1 : so'[<<n, j>>] = so[<<n, j>>]
      BY <2>3, <3>3, NoName
    <3>. QED BY <2>1, <3>1, <3>3, <3>4, OnDiskElsewhere
  <2>5. OnDisk(so', recName', recorded_queries')
    <3>1. OnDisk(so, recName, recorded_queries)
      BY DEF FilesOK
    <3>2. \A j \in 0 .. Len(recorded_libraries) - 1 : so'[<<recName, j>>] = so[<<recName, j>>]
      BY <2>3, RecordedCalls, NoName
    <3>. QED BY <2>1, <3>1, <3>2, RecordedCalls, OnDiskElsewhere
  <2>. QED BY <2>1, <2>4, <2>5 DEF FilesOK, Whole, Saving
<1>2. ASSUME UNCHANGED <<so, aqp, recName, recording, recorded_queries>>, pc \notin Saving, pc' \notin Saving
      PROVE  FilesOK'
  <2>1. OnDisk(so', recName', recorded_queries')
    BY <1>2 DEF FilesOK
  <2>. QED BY <1>2, <2>1, FilesBeside
<1>3. ASSUME NEW n \in Names, Record(n) \/ Stop(n) \/ Replay(n) PROVE FilesOK'
  BY <1>2, <1>3 DEF Record, Stop, Replay, Request, Saving
<1>4. CASE Start \/ OpenLibrary
  BY <1>2, <1>4 DEF Start, OpenLibrary, Saving
<1>5. CASE CopyLibrary
  <2>. DEFINE path == <<recName, Len(recorded_libraries)>>
  <2>1. /\ pc = "copy" /\ pc' \in {"open", "openCopy"} /\ UNCHANGED <<aqp, recName, recording>>
        /\ recorded_queries' = Append(recorded_queries, Mark)
    BY <1>5 DEF CopyLibrary
  <2>2. recording
    BY <1>0, <2>1 DEF RequestInv, StageOK
  <2>3. path \in Copies /\ path \in Paths
    BY <2>1, CopyHere DEF Starting
  <2>4. \A p \in Paths : p # path => so'[p] = so[p]
    <3>. HIDE DEF path
    <3>1. so' \in {[so EXCEPT ![path] = so[Dll]], [so EXCEPT ![path] = None], so}
      BY <1>5 DEF CopyLibrary, path
    <3>. QED BY <1>0, <2>3, <3>1 DEF TypeOK
  <2>5. ASSUME NEW n \in Keys, NEW j \in Nat, j <= MaxRequests, n # recName \/ j < Len(recorded_libraries)
        PROVE  so'[<<n, j>>] = so[<<n, j>>]
    <3>1. <<n, j>> \in Paths /\ <<n, j>> # path
      BY <2>5, NoName, RecordedCalls DEF Paths, Copies
    <3>. QED BY <2>4, <3>1
  <2>6. ASSUME NEW n \in Keys, Whole(n)', ~(n = recName' /\ (recording' \/ pc' = "truncate"))
        PROVE  OnDisk(so', n, aqp'[n].queries)
    <3>. DEFINE q == aqp[n].queries
    <3>1. Whole(n) /\ OnDisk(so, n, q) /\ n # recName
      BY <2>1, <2>2, <2>6 DEF FilesOK, Whole
    <3>2. ImageOK(aqp[n]) /\ aqp[n] \in Images
      BY <1>0, <3>1 DEF KnownInv, Whole, TypeOK
    <3>3. Called(q, aqp[n].modules) /\ aqp[n].modules \in Nat /\ aqp[n].modules <= MaxRequests
      BY <3>2 DEF ImageOK, Images
    <3>4. \A j \in 0 .. aqp[n].modules - 1 : so'[<<n, j>>] = so[<<n, j>>]
      BY <2>5, <3>1, <3>3, NoName
    <3>. QED BY <2>1, <3>1, <3>3, <3>4, OnDiskElsewhere
  <2>7. OnDisk(so', recName', recorded_queries')
    <3>1. OnDisk(so, recName, recorded_queries)
      BY DEF FilesOK
    <3>2. \A j \in 0 .. Len(recorded_libraries) - 1 : so'[<<recName, j>>] = so[<<recName, j>>]
      BY <2>5, RecordedCalls, NoName
    <3>3. OnDisk(so', recName, recorded_queries)
      BY <3>1, <3>2, RecordedCalls, OnDiskElsewhere
    <3>4. Mark \in Messages /\ Mark.kind = "N"
      BY MessageIn DEF Mark, Keys
    <3>. QED BY <2>1, <3>3, <3>4, RecordedCalls, OnDiskMore
  <2>. QED BY <2>1, <2>6, <2>7 DEF FilesOK, Whole, Saving
<1>6. ASSUME More, This.kind \notin Orders, NEW done, Log(done), pc' \in {"loop", "dead"},
             UNCHANGED <<so, aqp>>, This.kind = "P" => handle # None
      PROVE  FilesOK'
  <2>1. pc = "loop" /\ i \in 1 .. Len(n_recvd) /\ This \in Messages /\ This = n_recvd[i]
    BY <1>0, <1>6, HereIn DEF RequestInv, MessagesOK, TypeOK, This
  <2>2. UNCHANGED <<recName, recording>>
    BY <1>6 DEF Log
  <2>3. CASE recording /\ done
    <3>1. recorded_queries' = Append(recorded_queries, This)
      BY <1>6, <2>3 DEF Log
    <3>2. replaying = None
      BY <1>6, <2>3, MessageHere
    <3>3. ASSUME This.kind = "P"
          PROVE  so[<<recName, Marks(recorded_queries, Len(recorded_queries)) - 1>>] \in {None, This.arg}
      BY <1>6, <2>1, <2>3, <3>2, <3>3, RecordedMarks DEF OwnOK, LastCopy
    <3>4. OnDisk(so, recName, recorded_queries)
      BY DEF FilesOK
    <3>5. OnDisk(so, recName, recorded_queries')
      BY <2>1, <3>1, <3>3, <3>4, RecordedCalls, OnDiskMore
    <3>. QED BY <1>6, <2>1, <2>2, <3>5, FilesBeside DEF Saving
  <2>4. CASE ~(recording /\ done)
    <3>1. UNCHANGED recorded_queries
      BY <1>6, <2>4 DEF Log
    <3>. QED BY <1>2, <1>6, <2>1, <2>2, <3>1 DEF Saving
  <2>. QED BY <2>3, <2>4
<1>7. CASE PerformQuery
  BY <1>6, <1>7 DEF PerformQuery, Orders, Step, More
<1>8. CASE PerformProcedure
  <2>1. More /\ This.kind = "P" /\ pc' \in {"loop", "dead"} /\ UNCHANGED <<so, aqp>>
    BY <1>8 DEF PerformProcedure, Step, Stuck, More
  <2>2. CASE handle = None
    <3>1. UNCHANGED <<recName, recording, recorded_queries>>
      BY <1>8, <2>2 DEF PerformProcedure
    <3>. QED BY <1>2, <2>1, <3>1 DEF More, Saving
  <2>3. CASE handle # None
    <3>1. Log(~err)
      BY <1>8, <2>3 DEF PerformProcedure
    <3>. QED BY <1>6, <2>1, <2>3, <3>1 DEF Orders
  <2>. QED BY <2>2, <2>3
<1>9. CASE PerformOutput
  BY <1>6, <1>9 DEF PerformOutput, Orders, Step, More
<1>10. CASE NextLibrary \/ Run \/ Load
  BY <1>2, <1>10 DEF NextLibrary, Run, Load, PlayFrom, Step, More, Saving
<1>11. CASE BeginRecording
  <2>1. /\ More /\ This.kind = "R" /\ pc' = pc /\ recording' = TRUE /\ recName' = This.arg
        /\ UNCHANGED <<so, aqp, recorded_queries>>
    BY <1>11 DEF BeginRecording, Step
  <2>2. Pending("R") /\ pc = "loop"
    BY <2>1, OrderHere DEF Orders, More
  <2>3. ~recording /\ recorded_queries = <<>> /\ Len(<<>>) = 0
    BY <1>0, <2>2, RecordsNothing DEF AgreeInv
  <2>4. OnDisk(so, recName', recorded_queries')
    BY <2>1, <2>3 DEF OnDisk
  <2>5. \A n \in Keys : Whole(n) => OnDisk(so, n, aqp[n].queries)
    BY <2>2, <2>3 DEF FilesOK
  <2>. QED BY <2>1, <2>2, <2>4, <2>5 DEF FilesOK, Whole, Saving
<1>12. CASE EndRecording
  <2>1. /\ pc = "loop" /\ pc' = "truncate" /\ recorded_queries' = <<>> /\ UNCHANGED <<so, aqp, recName>>
        /\ proc' = [queries |-> recorded_queries, libs |-> recorded_libraries, of |-> ran]
    BY <1>12 DEF EndRecording, More
  <2>2. proc'.queries = recorded_queries /\ Len(<<>>) = 0
    BY <2>1
  <2>3. OnDisk(so, recName, <<>>)
    BY <2>2 DEF OnDisk
  <2>. QED BY <2>1, <2>2, <2>3 DEF FilesOK, Whole, Saving
<1>13. CASE Truncate
  <2>1. /\ pc = "truncate" /\ UNCHANGED <<so, proc, recName, recording, recorded_queries>>
        /\ recName \in Keys
    BY <1>0, <1>13 DEF Truncate, TypeOK
  <2>2. CASE pc' = "write" /\ aqp' = [aqp EXCEPT ![recName] = Torn]
    <3>1. aqp'[recName] = Torn /\ \A n \in Keys : n # recName => aqp'[n] = aqp[n]
      BY <1>0, <2>1, <2>2 DEF TypeOK
    <3>2. \A n \in Keys : Whole(n)' => Whole(n) /\ n # recName /\ aqp'[n] = aqp[n]
      BY <3>1 DEF Whole
    <3>. QED BY <2>1, <2>2, <3>1, <3>2 DEF FilesOK, Whole, Saving
  <2>3. CASE pc' = "insert" /\ UNCHANGED aqp /\ Fault("mixed", aqp[recName] # None)
    <3>1. aqp[recName] = None
      BY <2>3 DEF Fault, Fine
    <3>. QED BY <2>1, <2>3, <3>1 DEF FilesOK, Whole, Saving
  <2>. QED BY <1>13, <2>2, <2>3 DEF Truncate, FileName
<1>14. CASE WriteFile
  <2>1. pc = "write" /\ pc' = "insert" /\ UNCHANGED <<so, proc, recName, recording, recorded_queries>>
    BY <1>14 DEF WriteFile
  <2>2. aqp' = [aqp EXCEPT ![recName] = Saved(proc)]
    BY <1>14 DEF WriteFile, FileName, Fault, Fine
  <2>3. recName \in Keys /\ aqp'[recName] = Saved(proc) /\ \A n \in Keys : n # recName => aqp'[n] = aqp[n]
    BY <1>0, <2>2 DEF TypeOK
  <2>4. RecordOK(proc) /\ proc \in Records
    BY <1>0, <2>1 DEF KnownInv, Saving, TypeOK
  <2>5. OnDisk(so, recName, Saved(proc).queries)
    BY <2>1, <2>4, OnDiskSaved DEF FilesOK, Saving
  <2>6. Saved(proc) # Torn
    BY <2>4, SavedImage, NoName
  <2>7. \A n \in Keys : aqp'[n] # Torn
    BY <2>1, <2>3, <2>6 DEF FilesOK
  <2>8. \A n \in Keys : Whole(n)' /\ n # recName => OnDisk(so, n, aqp'[n].queries)
    BY <2>3 DEF FilesOK, Whole
  <2>. QED BY <2>1, <2>3, <2>5, <2>7, <2>8 DEF FilesOK, Saving
<1>15. CASE Insert
  <2>1. pc = "insert" /\ pc' = "loop" /\ UNCHANGED <<so, aqp, recording, recorded_queries>>
    BY <1>15 DEF Insert
  <2>2. ~recording /\ recorded_queries = <<>> /\ Len(<<>>) = 0
    BY <1>0, <2>1, RecordsNothing DEF AgreeInv, Saving
  <2>3. OnDisk(so, recName', recorded_queries')
    BY <2>1, <2>2 DEF OnDisk
  <2>4. \A n \in Keys : Whole(n) => OnDisk(so, n, aqp[n].queries)
    BY <2>1, <2>2 DEF FilesOK
  <2>. QED BY <2>1, <2>2, <2>3, <2>4 DEF FilesOK, Whole, Saving
<1>16. CASE ReadFile \/ LoadModule \/ Loaded
  <2>1. pc \in Loading /\ pc' \in {"loop", "dead", "modules", "start"}
        /\ UNCHANGED <<so, aqp, recName, recording, recorded_queries>>
    BY <1>16 DEF ReadFile, LoadModule, Loaded, PlayFrom, Loading
  <2>. QED BY <1>2, <2>1 DEF Saving, Loading
<1>17. CASE Finish
  BY <1>2, <1>17 DEF Finish, EndRequest, Saving
<1>18. CASE Crash
  <2>1. /\ pc' = "idle" /\ recName' = None /\ ~recording' /\ recorded_queries' = <<>>
        /\ Fault("mixed", \/ pc = "write"
                          \/ (recording \/ pc = "truncate") /\ aqp[recName] # None)
        /\ UNCHANGED <<so, aqp>>
    BY <1>18 DEF Crash
  <2>2. pc # "write" /\ ((recording \/ pc = "truncate") => aqp[recName] = None)
    BY <2>1 DEF Fault, Fine
  <2>3. \A n \in Keys : Whole(n) => OnDisk(so, n, aqp[n].queries)
    BY <2>2 DEF FilesOK, Whole
  <2>4. OnDisk(so, None, <<>>)
    <3>1. Len(<<>>) = 0
      OBVIOUS
    <3>. QED BY <3>1 DEF OnDisk
  <2>. QED BY <2>1, <2>2, <2>3, <2>4 DEF FilesOK, Whole, Saving
<1>19. CASE UNCHANGED vars
  <2>1. UNCHANGED <<so, aqp, recName, recording, recorded_queries, proc, pc>>
    BY <1>19 DEF vars, requestVars
  <2>. QED BY <2>1 DEF FilesOK, Whole
<1>. QED BY <1>1, <1>3, <1>4, <1>5, <1>7, <1>8, <1>9, <1>10, <1>11, <1>12, <1>13, <1>14, <1>15,
            <1>16, <1>17, <1>18, <1>19
         DEF Next, Command, Engine


-----------------------------------------------------------------------------
(* Every step keeps the libraries that are called.                           *)

\* What is needed is open.
LEMMA NeededIsOpen ==
  ASSUME KeepOK, NEW p \in Paths, Needed(p)
  PROVE  opened[p].refs > 0
BY UsedIsOpen DEF KeepOK, Needed

\* The records bind their calls to libraries.
LEMMA AllBound ==
  ASSUME IInv
  PROVE  /\ \A n \in Keys : stored_proc[n] # None =>
              /\ stored_proc[n] \in Records /\ stored_proc[n].libs \in Seq(Handles)
              /\ Bound(stored_proc[n].queries, stored_proc[n].libs)
         /\ pc \in Saving => proc.libs \in Seq(Handles) /\ Bound(proc.queries, proc.libs)
BY DEF IInv, TypeOK, KnownInv, RecordOK, Records

LEMMA LibrariesStay ==
  ASSUME IInv, KeepOK, NEW u,
         \A p \in Paths : Needed(p) /\ opened[p].refs > 0 => u[p].refs > 0 /\ u[p].code = opened[p].code
  PROVE  /\ \A n \in Keys : stored_proc[n] # None =>
              InLibrary(u, stored_proc[n].queries, stored_proc[n].libs)
         /\ InLibrary(u, recorded_queries, recorded_libraries)
         /\ pc \in Saving => InLibrary(u, proc.queries, proc.libs)
<1>1. ASSUME NEW n \in Keys, stored_proc[n] # None
      PROVE  InLibrary(u, stored_proc[n].queries, stored_proc[n].libs)
  <2>. DEFINE q == stored_proc[n].queries
              libs == stored_proc[n].libs
  <2>1. libs \in Seq(Handles) /\ Bound(q, libs) /\ InLibrary(opened, q, libs)
    BY <1>1, AllBound DEF KeepOK
  <2>2. \A p \in Paths : Uses(q, libs, p) => Needed(p)
    BY <1>1 DEF Needed
  <2>. HIDE DEF q, libs
  <2>3. InLibrary(u, q, libs)
    BY <2>1, <2>2, InLibraryKept
  <2>. QED BY <2>3 DEF q, libs
<1>2. InLibrary(u, recorded_queries, recorded_libraries)
  <2>1. \A p \in Paths : Uses(recorded_queries, recorded_libraries, p) => Needed(p)
    BY DEF Needed
  <2>2. InLibrary(opened, recorded_queries, recorded_libraries)
    BY DEF KeepOK
  <2>. QED BY <2>1, <2>2, RecordedCalls, InLibraryKept
<1>3. ASSUME pc \in Saving PROVE InLibrary(u, proc.queries, proc.libs)
  <2>. DEFINE q == proc.queries
              libs == proc.libs
  <2>1. libs \in Seq(Handles) /\ Bound(q, libs) /\ InLibrary(opened, q, libs)
    BY <1>3, AllBound DEF KeepOK
  <2>2. \A p \in Paths : Uses(q, libs, p) => Needed(p)
    BY <1>3 DEF Needed
  <2>. HIDE DEF q, libs
  <2>3. InLibrary(u, q, libs)
    BY <2>1, <2>2, InLibraryKept
  <2>. QED BY <2>3 DEF q, libs
<1>. QED BY <1>1, <1>2, <1>3

\* A step beside the libraries: what is known and recorded stays, or becomes less.
LEMMA KeepBeside ==
  ASSUME KeepOK, UNCHANGED <<opened, stored_proc, recorded_queries, recorded_libraries>>,
         pc' \in Saving => pc \in Saving /\ UNCHANGED proc,
         handle' # None /\ replaying' = None /\ (~recording' \/ ~Calling') =>
           handle' = handle /\ replaying = None /\ (~recording \/ ~Calling)
  PROVE  KeepOK'
<1>1. \A p : Needed(p)' => Needed(p)
  BY DEF Needed
<1>2. /\ \A p \in Paths : opened'[p].refs > 0 => opened'[p].code # None
      /\ \A n \in Keys : stored_proc'[n] # None =>
           InLibrary(opened', stored_proc'[n].queries, stored_proc'[n].libs)
      /\ InLibrary(opened', recorded_queries', recorded_libraries')
      /\ pc' \in Saving => InLibrary(opened', proc'.queries, proc'.libs)
  BY DEF KeepOK
<1>3. ASSUME handle' # None, replaying' = None, ~recording' \/ ~Calling', Needed(handle)'
      PROVE  opened'[handle'].refs >= 2
  <2>1. handle' = handle /\ replaying = None /\ (~recording \/ ~Calling)
    BY <1>3
  <2>2. Needed(handle)
    BY <1>1, <1>3, <2>1 DEF Needed
  <2>. QED BY <1>3, <2>1, <2>2 DEF KeepOK
<1>. QED BY <1>2, <1>3 DEF KeepOK

\* A recorded message: a call is in the library that was opened for it.
LEMMA KeepMessage ==
  ASSUME IInv, KeepOK, OwnOK, More, This.kind \notin Orders, NEW done, Log(done),
         This.kind = "P" => handle # None,
         pc' \in {"loop", "dead"}, UNCHANGED <<opened, stored_proc, handle, replaying, n_recvd>>
  PROVE  KeepOK'
<1>0. TypeOK /\ RequestInv /\ RecordInv
  BY DEF IInv
<1>1. pc = "loop" /\ i \in 1 .. Len(n_recvd) /\ i <= Len(n_recvd) /\ This \in Messages /\ This = n_recvd[i]
  BY <1>0, HereIn DEF RequestInv, MessagesOK, TypeOK, This, More
<1>2. UNCHANGED <<recorded_libraries, recording>> /\ pc' \notin Saving /\ pc \notin Saving
  BY <1>1 DEF Log, Saving
<1>3. CASE recording /\ done
  <2>1. recorded_queries' = Append(recorded_queries, This)
    BY <1>3 DEF Log
  <2>2. replaying = None
    BY <1>3, MessageHere
  <2>3. ASSUME This.kind = "P"
        PROVE  /\ opened[recorded_libraries[Marks(recorded_queries, Len(recorded_queries))]].refs > 0
               /\ opened[recorded_libraries[Marks(recorded_queries, Len(recorded_queries))]].code = This.arg
    <3>1. recorded_libraries[Marks(recorded_queries, Len(recorded_queries))] = handle
      BY <1>0, <1>1, <1>3, <2>3, RecordedMarks DEF RecordInv
    <3>2. opened[handle].refs > 0
      BY <1>0, <2>2, <2>3 DEF RequestInv, HandleOK
    <3>3. opened[handle].code = This.arg
      BY <1>1, <2>2, <2>3 DEF OwnOK
    <3>. QED BY <3>1, <3>2, <3>3
  <2>4. InLibrary(opened', recorded_queries', recorded_libraries')
    <3>1. InLibrary(opened, recorded_queries, recorded_libraries)
      BY DEF KeepOK
    <3>2. InLibrary(opened, Append(recorded_queries, This), recorded_libraries)
      BY <1>1, <2>3, <3>1, RecordedCalls, MoreMessages
    <3>. QED BY <1>2, <2>1, <3>2
  <2>5. ASSUME NEW p, Needed(p)', This.kind # "P"
        PROVE  Needed(p)
    <3>1. Uses(recorded_queries', recorded_libraries', p) => Uses(recorded_queries, recorded_libraries, p)
      BY <1>1, <1>2, <2>1, <2>5, RecordedCalls, MoreMessages
    <3>. QED BY <1>2, <2>5, <3>1 DEF Needed
  <2>6. This.kind = "P" => Calling' /\ recording'
    BY <1>1, <1>2, <1>3 DEF Calling
  <2>7. Calling' = Calling
    BY DEF Calling
  <2>8. ASSUME handle' # None, replaying' = None, ~recording' \/ ~Calling', Needed(handle)'
        PROVE  opened'[handle'].refs >= 2
    <3>1. This.kind # "P"
      BY <2>6, <2>8
    <3>2. Needed(handle')
      BY <2>5, <2>8, <3>1 DEF Needed
    <3>. QED BY <1>2, <2>7, <2>8, <3>2 DEF KeepOK
  <2>. QED BY <1>2, <2>4, <2>8 DEF KeepOK
<1>4. CASE ~(recording /\ done)
  <2>1. UNCHANGED recorded_queries
    BY <1>4 DEF Log
  <2>2. Calling' = Calling
    BY DEF Calling
  <2>. QED BY <1>2, <2>1, <2>2, KeepBeside
<1>. QED BY <1>3, <1>4

\* A library is opened for the request.
LEMMA KeepOpening ==
  ASSUME IInv, KeepOK, OpenLibrary, "stale" \notin faults'
  PROVE  KeepOK'
<1>. DEFINE path == IF pc = "open" THEN Dll ELSE <<recName, Len(recorded_libraries)>>
<1>0. TypeOK /\ recorded_libraries \in Seq(Handles)
  BY DEF IInv, TypeOK
<1>1. /\ pc \in {"open", "openCopy"} /\ pc' = "loop"
      /\ UNCHANGED <<stored_proc, recorded_queries, recording, replaying, n_recvd>>
      /\ recorded_libraries' = IF recording THEN Append(recorded_libraries, handle')
                                            ELSE recorded_libraries
  BY DEF OpenLibrary, recordVars, replayVars
<1>2. path \in Paths
  BY <1>1, CopyHere DEF Starting, Paths
<1>3. pc \notin Saving /\ pc' \notin Saving
  BY <1>1 DEF Saving
<1>4. handle' \in Handles
  BY <1>2 DEF OpenLibrary, Handles
<1>5. Bound(recorded_queries, recorded_libraries)
  BY RecordedCalls
<1>6. \A p \in Paths : opened[p].refs > 0 => opened'[p].refs > 0 /\ opened'[p].code = opened[p].code
  <2>1. CASE CanOpen(path)
    <3>1. Dlopen(path)
      BY <2>1 DEF OpenLibrary
    <3>2. \A x \in Paths : opened[x].refs > 0 =>
              opened'[x].refs >= opened[x].refs /\ opened'[x].code = opened[x].code
      BY <1>0, <1>2, <2>1, <3>1, OpenGrows DEF KeepOK
    <3>3. TypeOK'
      BY TypeStep DEF Next, Engine, IInv
    <3>. QED BY <1>0, <3>2, <3>3 DEF TypeOK
  <2>2. CASE ~CanOpen(path)
    BY <2>2 DEF OpenLibrary
  <2>. QED BY <2>1, <2>2
<1>7. \A n \in Keys : stored_proc'[n] # None =>
         InLibrary(opened', stored_proc'[n].queries, stored_proc'[n].libs)
  BY <1>1, <1>6, LibrariesStay
<1>8. InLibrary(opened', recorded_queries, recorded_libraries)
  BY <1>6, LibrariesStay
<1>9. InLibrary(opened', recorded_queries', recorded_libraries')
  BY <1>0, <1>1, <1>4, <1>5, <1>8, MoreLibraries
<1>10. ASSUME NEW p, Needed(p)'
       PROVE  Needed(p)
  <2>1. Uses(recorded_queries', recorded_libraries', p) => Uses(recorded_queries, recorded_libraries, p)
    BY <1>0, <1>1, <1>4, <1>5, MoreLibraries
  <2>. QED BY <1>1, <1>3, <1>10, <2>1 DEF Needed
<1>11. CASE CanOpen(path)
  <2>1. Dlopen(path) /\ handle' = path
    BY <1>11 DEF OpenLibrary
  <2>2. /\ \A x \in Paths : opened'[x].refs > 0 => opened'[x].code # None
        /\ opened'[path].refs = opened[path].refs + 1 /\ opened[path].refs \in Nat
    BY <1>0, <1>2, <1>11, <2>1, OpenGrows DEF KeepOK
  <2>3. ASSUME Needed(handle)'
        PROVE  opened'[handle'].refs >= 2
    <3>1. Needed(handle')
      BY <1>10, <2>3 DEF Needed
    <3>2. Needed(path)
      BY <2>1, <3>1
    <3>3. opened[path].refs > 0
      BY <1>2, <3>2, NeededIsOpen
    <3>. QED BY <2>1, <2>2, <3>3
  <2>. QED BY <1>3, <1>7, <1>9, <2>2, <2>3 DEF KeepOK
<1>12. CASE ~CanOpen(path)
  <2>1. handle' = None /\ UNCHANGED opened
    BY <1>12 DEF OpenLibrary
  <2>. QED BY <1>3, <1>7, <1>9, <2>1 DEF KeepOK
<1>. QED BY <1>11, <1>12

\* A library of a file is opened.
LEMMA KeepLoading ==
  ASSUME IInv, KeepOK, LoadModule, "stale" \notin faults'
  PROVE  KeepOK'
<1>. DEFINE path == <<This.arg, Len(proc.libs)>>
<1>0. TypeOK /\ TypeOK'
  BY TypeStep DEF IInv, Next, Engine
<1>1. /\ pc = "modules" /\ pc' \in {"modules", "loop"} /\ Len(proc.libs) < aqp[This.arg].modules
      /\ UNCHANGED <<stored_proc, recorded_queries, recorded_libraries, recording>>
      /\ UNCHANGED <<replaying, n_recvd, handle>>
  BY DEF LoadModule, recordVars
<1>2. path \in Paths
  <2>1. /\ This.arg \in Keys /\ Len(proc.libs) \in Nat /\ aqp[This.arg].modules <= MaxRequests
        /\ aqp[This.arg].modules \in Nat /\ MaxRequests \in Nat
    BY <1>1, ModuleHere, NoName DEF Loading
  <2>2. Len(proc.libs) < MaxRequests
    BY <1>1, <2>1
  <2>. QED BY <2>1, <2>2, CopyPath
<1>3. pc \notin Saving /\ pc' \notin Saving /\ (Calling' <=> Calling)
  BY <1>1 DEF Saving, Calling
<1>4. CASE CanOpen(path)
  <2>1. Dlopen(path)
    BY <1>4 DEF LoadModule
  <2>2. /\ \A x \in Paths : opened[x].refs > 0 =>
              opened'[x].refs >= opened[x].refs /\ opened'[x].code = opened[x].code
        /\ \A x \in Paths : opened'[x].refs > 0 => opened'[x].code # None
    BY <1>0, <1>2, <1>4, <2>1, OpenGrows DEF KeepOK
  <2>3. \A p \in Paths : opened[p].refs > 0 => opened'[p].refs > 0 /\ opened'[p].code = opened[p].code
    BY <1>0, <2>2 DEF TypeOK
  <2>4. /\ \A n \in Keys : stored_proc'[n] # None =>
              InLibrary(opened', stored_proc'[n].queries, stored_proc'[n].libs)
        /\ InLibrary(opened', recorded_queries', recorded_libraries')
    BY <1>1, <2>3, LibrariesStay
  <2>5. ASSUME handle' # None, replaying' = None, ~recording' \/ ~Calling', Needed(handle)'
        PROVE  opened'[handle'].refs >= 2
    <3>1. Needed(handle)
      BY <1>1, <1>3, <2>5 DEF Needed
    <3>2. opened[handle].refs >= 2 /\ handle \in Paths
      BY <1>0, <1>1, <1>3, <2>5, <3>1 DEF KeepOK, TypeOK, Handles
    <3>3. opened[handle].refs \in Nat /\ opened'[handle].refs \in Nat
      BY <1>0, <3>2 DEF TypeOK
    <3>4. opened'[handle].refs >= opened[handle].refs
      BY <2>2, <3>2, <3>3
    <3>. QED BY <1>1, <3>2, <3>3, <3>4
  <2>. QED BY <1>3, <2>2, <2>4, <2>5 DEF KeepOK
<1>5. CASE ~CanOpen(path)
  <2>1. UNCHANGED opened
    BY <1>5 DEF LoadModule
  <2>. QED BY <1>1, <1>3, <2>1, KeepBeside
<1>. QED BY <1>4, <1>5

\* While a file is loaded nothing is recorded.
LEMMA LoadsAlone ==
  ASSUME IInv, pc \in Loading
  PROVE  ~recording
<1>1. Ordered({"RE", "RL"}) /\ replaying = None
  BY DEF IInv, RequestInv, StageOK
<1>2. current = None /\ ~Pending("R") /\ ~Pending("RT")
  BY <1>1 DEF IInv, AgreeInv, Ordered, Pending
<1>. QED BY <1>2 DEF IInv, AgreeInv

\* What has been loaded has its calls in the libraries of the file.
LEMMA LoadedCalls ==
  ASSUME IInv, FilesOK, KeepOK, ModulesOK, pc = "modules", Len(proc.libs) = aqp[This.arg].modules
  PROVE  /\ InLibrary(opened, proc.queries, proc.libs)
         /\ ~Uses(proc.queries, proc.libs, Dll)
<1>. DEFINE n == This.arg
<1>0. TypeOK
  BY DEF IInv
<1>1. /\ n \in Keys /\ This = n_recvd[1] /\ LoadOK /\ ImageOK(aqp[n]) /\ aqp[n] \in Images
      /\ proc \in Records /\ aqp[n].modules \in Nat /\ aqp[n].modules <= MaxRequests
  BY ModuleHere DEF Loading
<1>2. /\ Whole(n) /\ proc.queries = aqp[n].queries
      /\ \A j \in 1 .. Len(proc.libs) : proc.libs[j] = <<n, j - 1>>
  BY <1>1 DEF LoadOK
<1>3. OnDisk(so, n, proc.queries)
  <2>1. ~recording
    BY LoadsAlone DEF Loading
  <2>. QED BY <1>1, <1>2, <2>1 DEF FilesOK
<1>4. ASSUME NEW k \in 1 .. Len(proc.queries), proc.queries[k].kind = "P"
      PROVE  LET p == proc.libs[Marks(proc.queries, k)] IN
             p # Dll /\ opened[p].refs > 0 /\ opened[p].code = proc.queries[k].arg
  <2>. DEFINE m == Marks(proc.queries, k)
              p == proc.libs[m]
  <2>1. m \in 1 .. Len(proc.libs)
    BY <1>1, <1>2, <1>4 DEF ImageOK, Called
  <2>2. p = <<n, m - 1>>
    BY <1>2, <2>1
  <2>3. opened[p].refs > 0 /\ opened[p].code = so[p]
    BY <2>1 DEF ModulesOK
  <2>4. so[p] \in {None, proc.queries[k].arg}
    BY <1>3, <1>4, <2>2 DEF OnDisk
  <2>5. p \in Paths /\ p # Dll
    <3>1. m - 1 \in Nat /\ m - 1 < MaxRequests
      BY <1>1, <2>1, NoName DEF Records
    <3>. QED BY <1>1, <2>2, <3>1, CopyPath
  <2>6. opened[p].code # None
    BY <2>3, <2>5 DEF KeepOK
  <2>. QED BY <2>3, <2>4, <2>5, <2>6
<1>. QED BY <1>4 DEF InLibrary, Uses

\* What has been loaded is known.
LEMMA KeepLoaded ==
  ASSUME IInv, SourceOK, FilesOK, KeepOK, ModulesOK, Loaded
  PROVE  KeepOK'
<1>0. TypeOK
  BY DEF IInv
<1>1. /\ pc = "modules" /\ pc' \in {"loop", "start"} /\ Len(proc.libs) = aqp[This.arg].modules
      /\ stored_proc' = [stored_proc EXCEPT ![This.arg] = proc]
      /\ UNCHANGED <<recorded_queries, recorded_libraries, recording, opened, handle, proc>>
      /\ This.kind = "RE" => replaying' = This.arg
      /\ This.kind # "RE" => UNCHANGED <<n_recvd, replaying>>
  BY DEF Loaded, PlayFrom, recordVars
<1>2. /\ This.arg \in Keys /\ This.arg # None /\ This = n_recvd[1] /\ This.kind \in {"RE", "RL"}
      /\ replaying = None
  BY <1>1, ModuleHere, NoName DEF Loading
<1>3. /\ stored_proc'[This.arg] = proc
      /\ \A n \in Keys : n # This.arg => stored_proc'[n] = stored_proc[n]
  BY <1>0, <1>1, <1>2 DEF TypeOK
<1>4. pc \notin Saving /\ pc' \notin Saving
  BY <1>1 DEF Saving
<1>5. InLibrary(opened, proc.queries, proc.libs) /\ ~Uses(proc.queries, proc.libs, Dll)
  BY <1>1, LoadedCalls
<1>6. \A n \in Keys : stored_proc'[n] # None =>
         InLibrary(opened', stored_proc'[n].queries, stored_proc'[n].libs)
  BY <1>1, <1>3, <1>5 DEF KeepOK
<1>7. ASSUME handle' # None, replaying' = None, Needed(handle)'
      PROVE  opened'[handle'].refs >= 2
  <2>1. This.kind = "RL"
    BY <1>1, <1>2, <1>7
  <2>2. Ordered({"RE", "RL"})
    BY <1>0, <1>1 DEF IInv, RequestInv, StageOK, Loading
  <2>3. handle = Dll
    BY <1>1, <1>2, <1>7, <2>2 DEF SourceOK
  <2>4. Needed(handle)
    BY <1>1, <1>3, <1>4, <1>5, <1>7, <2>3 DEF Needed
  <2>. QED BY <1>1, <1>2, <1>7, <2>4, LoadsAlone DEF KeepOK, Loading
<1>. QED BY <1>1, <1>4, <1>6, <1>7 DEF KeepOK

\* The library of a request that keeps none is closed, once.
LEMMA KeepFinish ==
  ASSUME IInv, KeepOK, Finish
  PROVE  KeepOK'
<1>0. TypeOK /\ TypeOK'
  BY TypeStep DEF IInv, Next, Engine
<1>1. /\ pc = "loop" /\ pc' = "idle" /\ handle' = None
      /\ UNCHANGED <<stored_proc, recorded_queries, recorded_libraries>>
      /\ opened' = IF handle = None \/ recording \/ replaying # None THEN opened
                   ELSE [opened EXCEPT ![handle].refs = @ - 1]
  BY DEF Finish, EndRequest, recordVars
<1>2. pc \notin Saving /\ pc' \notin Saving
  BY <1>1 DEF Saving
<1>3. CASE handle = None \/ recording \/ replaying # None
  BY <1>1, <1>2, <1>3, KeepBeside
<1>4. CASE handle # None /\ ~recording /\ replaying = None
  <2>. DEFINE r == [opened[handle] EXCEPT !.refs = @ - 1]
  <2>1. handle \in Paths
    BY <1>0, <1>4 DEF TypeOK, Handles
  <2>2. opened[handle] \in [code : Codes, refs : Nat]
    BY <1>0, <2>1 DEF TypeOK
  <2>3. r.code = opened[handle].code /\ r.refs = opened[handle].refs - 1
    BY <2>2
  <2>4. opened' = [opened EXCEPT ![handle] = r]
    BY <1>1, <1>4
  <2>. HIDE DEF r
  <2>5. opened'[handle] = r /\ \A p \in Paths : p # handle => opened'[p] = opened[p]
    BY <1>0, <2>1, <2>4 DEF TypeOK
  <2>6. Needed(handle) => opened[handle].refs >= 2
    BY <1>4 DEF KeepOK
  <2>7. \A p \in Paths : Needed(p) /\ opened[p].refs > 0 =>
           opened'[p].refs > 0 /\ opened'[p].code = opened[p].code
    BY <2>2, <2>3, <2>5, <2>6
  <2>8. /\ \A n \in Keys : stored_proc'[n] # None =>
              InLibrary(opened', stored_proc'[n].queries, stored_proc'[n].libs)
        /\ InLibrary(opened', recorded_queries', recorded_libraries')
    BY <1>1, <2>7, LibrariesStay
  <2>9. \A p \in Paths : opened'[p].refs > 0 => opened'[p].code # None
    BY <2>2, <2>3, <2>5 DEF KeepOK
  <2>. QED BY <1>1, <1>2, <2>8, <2>9 DEF KeepOK
<1>. QED BY <1>3, <1>4

LEMMA KeepStep ==
  ASSUME IInv, [Next]_vars, SourceOK, FilesOK, KeepOK, OwnOK, ModulesOK, Fine'
  PROVE  KeepOK'
<1>. USE DEF engineRest, boundVars, recordVars, replayVars, diskVars, histVars
<1>0. TypeOK /\ RequestInv /\ AgreeInv
  BY DEF IInv
<1>1. ASSUME UNCHANGED <<opened, stored_proc, recorded_queries, recorded_libraries, handle>>,
             UNCHANGED <<replaying, n_recvd, recording>>,
             pc' \notin Saving \/ (pc \in Saving /\ UNCHANGED proc)
      PROVE  KeepOK'
  <2>1. Calling' = Calling
    BY <1>1 DEF Calling
  <2>. QED BY <1>1, <2>1, KeepBeside
<1>2. CASE Command
  <2>1. /\ pc = "idle" /\ pc' = "start" /\ UNCHANGED handle
        /\ UNCHANGED <<opened, stored_proc, recorded_queries, recorded_libraries>>
    BY <1>2 DEF Command, Exec, Record, Stop, Replay, Request
  <2>2. handle' = None
    BY <1>0, <2>1 DEF RequestInv, IdleOK
  <2>. QED BY <2>1, <2>2, KeepBeside DEF Saving
<1>3. CASE Start
  <2>1. /\ handle' = None /\ pc' \in {"loop", "copy", "open"}
        /\ UNCHANGED <<opened, stored_proc, recorded_queries, recorded_libraries>>
    BY <1>3 DEF Start
  <2>. QED BY <2>1, KeepBeside DEF Saving
<1>4. CASE CopyLibrary
  <2>1. /\ pc = "copy" /\ pc' \in {"open", "openCopy"}
        /\ UNCHANGED <<opened, stored_proc, recorded_libraries, handle, replaying, n_recvd, recording>>
        /\ recorded_queries' = Append(recorded_queries, Mark)
    BY <1>4 DEF CopyLibrary
  <2>2. Mark \in Messages /\ Mark.kind = "N"
    BY MessageIn DEF Mark, Keys
  <2>3. /\ InLibrary(opened, recorded_queries', recorded_libraries)
        /\ \A p : Uses(recorded_queries', recorded_libraries, p)
                    => Uses(recorded_queries, recorded_libraries, p)
    BY <2>1, <2>2, RecordedCalls, MoreMessages DEF KeepOK
  <2>4. \A p : Needed(p)' => Needed(p)
    BY <2>1, <2>3 DEF Needed, Saving
  <2>5. ASSUME handle' # None, replaying' = None, ~recording' \/ ~Calling', Needed(handle)'
        PROVE  opened'[handle'].refs >= 2
    <3>1. Needed(handle)
      BY <2>1, <2>4, <2>5 DEF Needed
    <3>. QED BY <2>1, <2>5, <3>1 DEF KeepOK, Calling
  <2>. QED BY <2>1, <2>3, <2>5 DEF KeepOK, Saving
<1>5. CASE OpenLibrary
  BY <1>5, KeepOpening DEF Fine
<1>6. CASE PerformQuery
  <2>1. /\ More /\ This.kind = "Q" /\ Log(TRUE) /\ pc' = pc
        /\ UNCHANGED <<opened, stored_proc, handle, replaying, n_recvd>>
    BY <1>6 DEF PerformQuery, Step
  <2>. QED BY <2>1, KeepMessage DEF Orders, More
<1>7. CASE PerformProcedure
  <2>1. /\ More /\ This.kind = "P" /\ pc' \in {"loop", "dead"}
        /\ UNCHANGED <<opened, stored_proc, handle, replaying, n_recvd, proc>>
    BY <1>7 DEF PerformProcedure, Step, Stuck, More
  <2>2. CASE handle = None
    <3>1. UNCHANGED <<recorded_queries, recorded_libraries, recording>>
      BY <1>7, <2>2 DEF PerformProcedure
    <3>. QED BY <1>1, <2>1, <3>1 DEF Saving
  <2>3. CASE handle # None
    <3>1. Log(~err)
      BY <1>7, <2>3 DEF PerformProcedure
    <3>. QED BY <2>1, <2>3, <3>1, KeepMessage DEF Orders
  <2>. QED BY <2>2, <2>3
<1>8. CASE PerformOutput
  <2>1. /\ More /\ This.kind \in {"O", "L", "X"} /\ Log(~err) /\ pc' = pc
        /\ UNCHANGED <<opened, stored_proc, handle, replaying, n_recvd>>
    BY <1>8 DEF PerformOutput, Step
  <2>. QED BY <2>1, KeepMessage DEF Orders, More
<1>9. CASE NextLibrary
  <2>1. /\ More /\ This.kind = "N" /\ pc' = pc /\ UNCHANGED replaying
        /\ UNCHANGED <<opened, stored_proc, recorded_queries, recorded_libraries>>
    BY <1>9 DEF NextLibrary, Step
  <2>2. replaying' # None
    BY <2>1, MessageHere DEF Orders, Kinds
  <2>. QED BY <2>1, <2>2, KeepBeside DEF More, Saving
<1>10. CASE BeginRecording
  <2>1. /\ More /\ This.kind = "R" /\ pc' = pc /\ UNCHANGED <<replaying, handle, n_recvd>>
        /\ UNCHANGED <<opened, stored_proc, recorded_queries, recorded_libraries>>
    BY <1>10 DEF BeginRecording, Step
  <2>2. Ordered({"R"})
    BY <2>1, OrderHere DEF Orders
  <2>3. ~Calling
    BY <2>2, OrderCallsNothing DEF Orders
  <2>. QED BY <2>1, <2>3, KeepBeside DEF More, Saving
<1>11. CASE EndRecording
  <2>1. /\ More /\ This.kind = "RT" /\ UNCHANGED <<replaying, handle, n_recvd, opened, stored_proc>>
        /\ proc' = [queries |-> recorded_queries, libs |-> recorded_libraries, of |-> ran]
        /\ recorded_queries' = <<>> /\ pc' = "truncate"
    BY <1>11 DEF EndRecording
  <2>2. proc'.queries = recorded_queries /\ proc'.libs = recorded_libraries /\ Len(<<>>) = 0
    BY <2>1
  <2>3. Ordered({"RT"})
    BY <2>1, OrderHere DEF Orders
  <2>4. ~Calling
    BY <2>3, OrderCallsNothing DEF Orders
  <2>5. ASSUME NEW p, Needed(p)'
        PROVE  Needed(p)
    <3>1. ~Uses(recorded_queries', recorded_libraries', p)
      BY <2>1, <2>2 DEF Uses
    <3>. QED BY <2>1, <2>2, <2>5, <3>1 DEF Needed
  <2>6. ASSUME handle' # None, replaying' = None, Needed(handle)'
        PROVE  opened'[handle'].refs >= 2
    <3>1. Needed(handle)
      BY <2>1, <2>5, <2>6 DEF Needed
    <3>. QED BY <2>1, <2>4, <2>6, <3>1 DEF KeepOK
  <2>7. InLibrary(opened', recorded_queries', recorded_libraries')
    BY <2>1, <2>2 DEF InLibrary
  <2>. QED BY <2>1, <2>2, <2>6, <2>7 DEF KeepOK
<1>12. CASE Truncate \/ WriteFile
  <2>1. /\ pc \in Saving /\ UNCHANGED <<opened, stored_proc, recorded_queries, recorded_libraries, handle>>
        /\ UNCHANGED <<replaying, n_recvd, recording, proc>>
    BY <1>12 DEF Truncate, WriteFile, Saving
  <2>. QED BY <1>1, <2>1
<1>13. CASE Insert
  <2>1. /\ pc = "insert" /\ pc' = "loop" /\ stored_proc' = [stored_proc EXCEPT ![recName] = proc]
        /\ UNCHANGED <<opened, recorded_queries, recorded_libraries, handle>>
        /\ UNCHANGED <<replaying, n_recvd, recording, proc>>
    BY <1>13 DEF Insert
  <2>2. \A n \in Keys : stored_proc'[n] = IF n = recName THEN proc ELSE stored_proc[n]
    BY <1>0, <2>1 DEF TypeOK
  <2>3. pc \in Saving /\ pc' \notin Saving
    BY <2>1 DEF Saving
  <2>4. \A n \in Keys : stored_proc'[n] # None =>
           InLibrary(opened', stored_proc'[n].queries, stored_proc'[n].libs)
    BY <2>1, <2>2, <2>3 DEF KeepOK
  <2>5. \A p : Needed(p)' => Needed(p)
    BY <2>1, <2>2, <2>3 DEF Needed
  <2>6. ASSUME handle' # None, replaying' = None, ~recording' \/ ~Calling', Needed(handle)'
        PROVE  opened'[handle'].refs >= 2
    <3>1. Needed(handle)
      BY <2>1, <2>5, <2>6 DEF Needed
    <3>. QED BY <2>1, <2>6, <3>1 DEF KeepOK, Calling
  <2>. QED BY <2>1, <2>3, <2>4, <2>6 DEF KeepOK
<1>14. CASE Run
  <2>1. /\ More /\ This.kind = "RE"
        /\ UNCHANGED <<opened, stored_proc, recorded_queries, recorded_libraries, handle, recording>>
    BY <1>14 DEF Run
  <2>2. This.arg # None
    BY <2>1, OrderHere, NoName DEF Orders
  <2>3. CASE stored_proc[This.arg] # None
    <3>1. replaying' = This.arg /\ pc' = "start"
      BY <1>14, <2>3 DEF Run, PlayFrom
    <3>. QED BY <2>1, <2>2, <3>1, KeepBeside DEF Saving
  <2>4. CASE stored_proc[This.arg] = None
    <3>1. pc' = "load" /\ UNCHANGED <<replaying, n_recvd>>
      BY <1>14, <2>4 DEF Run
    <3>. QED BY <1>1, <2>1, <3>1 DEF Saving
  <2>. QED BY <2>3, <2>4
<1>15. CASE Load
  BY <1>1, <1>15 DEF Load, Saving
<1>16. CASE ReadFile
  <2>1. /\ pc' \in {"loop", "dead", "modules"}
        /\ UNCHANGED <<opened, stored_proc, recorded_queries, recorded_libraries, handle>>
        /\ UNCHANGED <<replaying, n_recvd, recording>>
    BY <1>16 DEF ReadFile
  <2>. QED BY <1>1, <2>1 DEF Saving
<1>17. CASE LoadModule
  BY <1>17, KeepLoading DEF Fine
<1>18. CASE Loaded
  BY <1>18, KeepLoaded
<1>19. CASE Finish
  BY <1>19, KeepFinish
<1>20. CASE Crash
  <2>1. /\ handle' = None /\ recorded_queries' = <<>> /\ pc' = "idle" /\ opened' = Unopened
        /\ stored_proc' = [n \in Keys |-> None]
    BY <1>20 DEF Crash
  <2>2. \A p \in Paths : opened'[p].refs = 0
    BY <2>1 DEF Unopened
  <2>3. InLibrary(opened', recorded_queries', recorded_libraries')
    <3>1. Len(<<>>) = 0
      OBVIOUS
    <3>. QED BY <2>1, <3>1 DEF InLibrary
  <2>4. \A n \in Keys : stored_proc'[n] = None
    BY <2>1
  <2>. QED BY <2>1, <2>2, <2>3, <2>4 DEF KeepOK, Saving
<1>21. CASE UNCHANGED vars
  BY <1>1, <1>21 DEF vars, requestVars
<1>. QED BY <1>2, <1>3, <1>4, <1>5, <1>6, <1>7, <1>8, <1>9, <1>10, <1>11, <1>12, <1>13, <1>14, <1>15,
            <1>16, <1>17, <1>18, <1>19, <1>20, <1>21
         DEF Next, Engine

-----------------------------------------------------------------------------
(* Every step keeps a batch in its own library.                              *)

LEMMA OwnBeside ==
  ASSUME pc' \notin {"open", "openCopy"}, ~Calling' \/ replaying' # None
  PROVE  OwnOK'
BY DEF OwnOK, Calling

LEMMA OwnStep ==
  ASSUME IInv, [Next]_vars, KeepOK, OwnOK, Fine'
  PROVE  OwnOK'
<1>. USE DEF engineRest, boundVars, recordVars, replayVars, diskVars, histVars
<1>0. TypeOK /\ RequestInv /\ so \in [Paths -> Codes] /\ Dll \in Paths
  BY DEF IInv, TypeOK, Paths
<1>1. ASSUME NEW b \in Batches, Exec(b) PROVE OwnOK'
  <2>1. /\ pc' = "start" /\ n_recvd' = Sent(b, execs + 1) /\ execs + 1 \in 1 .. MaxExecs
        /\ so' = IF Contains(b, "P") THEN [so EXCEPT ![Dll] = execs + 1] ELSE so
    BY <1>0, <1>1, NoName DEF Exec, Request, Sent, RequestInv, CountsOK
  <2>2. ASSUME NEW k \in 1 .. Len(n_recvd'), n_recvd'[k].kind = "P"
        PROVE  so'[Dll] = n_recvd'[k].arg
    <3>1. k \in 1 .. Len(b) /\ b[k] = "P" /\ n_recvd'[k].arg = execs + 1
      BY <2>1, <2>2, BatchIn
    <3>2. Contains(b, "P")
      BY <3>1 DEF Contains
    <3>. QED BY <1>0, <2>1, <3>1, <3>2
  <2>. QED BY <2>1, <2>2 DEF OwnOK
<1>2. ASSUME NEW n \in Names, Record(n) \/ Stop(n) \/ Replay(n) PROVE OwnOK'
  <2>1. pc' = "start" /\ \E k \in Orders : n_recvd' = <<Message(k, n)>>
    BY <1>2 DEF Record, Stop, Replay, Request, Orders
  <2>2. ~Calling'
    BY <2>1, OrderIn DEF Calling, Orders
  <2>. QED BY <2>1, <2>2, OwnBeside
<1>3. CASE Start
  <2>1. /\ pc = "start" /\ handle' = None /\ pc' \in {"loop", "copy", "open"}
        /\ pc' = "open" => ~recording
        /\ UNCHANGED <<so, n_recvd, replaying, recording>>
    BY <1>3 DEF Start
  <2>. QED BY <2>1 DEF OwnOK, Starting
<1>4. CASE CopyLibrary
  <2>1. /\ pc = "copy" /\ pc' \in {"open", "openCopy"} /\ CopyOf' = CopyOf
        /\ UNCHANGED <<n_recvd, replaying, recording>>
    BY <1>4 DEF CopyLibrary, CopyOf
  <2>2. CopyOf \in Paths /\ CopyOf # Dll
    BY <2>1, CopyHere DEF Starting, CopyOf
  <2>3. \/ so' = [so EXCEPT ![CopyOf] = so[Dll]]
        \/ so' = [so EXCEPT ![CopyOf] = None] /\ pc' = "open"
        \/ so' = so /\ so[CopyOf] = None /\ pc' = "open"
    BY <1>4 DEF CopyLibrary, CopyOf, Fault, Fine
  <2>. HIDE DEF CopyOf
  <2>4. so'[Dll] = so[Dll]
    BY <1>0, <2>2, <2>3
  <2>5. so'[CopyOf] \in {None, so[Dll]} /\ (pc' = "openCopy" => so'[CopyOf] = so[Dll])
    BY <1>0, <2>2, <2>3
  <2>. QED BY <2>1, <2>4, <2>5 DEF OwnOK, Starting
<1>5. CASE OpenLibrary
  <2>. DEFINE path == IF pc = "open" THEN Dll ELSE CopyOf
  <2>1. /\ pc \in {"open", "openCopy"} /\ pc' = "loop"
        /\ UNCHANGED <<so, n_recvd, replaying, recording, recName>>
        /\ recording => recorded_libraries' = Append(recorded_libraries, handle')
    BY <1>5 DEF OpenLibrary
  <2>2. path \in Paths
    BY <1>0, <2>1, CopyHere DEF Starting, CopyOf
  <2>3. ASSUME NEW k \in 1 .. Len(n_recvd), n_recvd[k].kind = "P", replaying = None
        PROVE  /\ so[path] = n_recvd[k].arg
               /\ recording => so[CopyOf] \in {None, n_recvd[k].arg}
    BY <2>1, <2>3 DEF OwnOK, Starting
  <2>4. ASSUME handle' # None
        PROVE  opened'[handle'].code = so[path]
    <3>1. CanOpen(path) /\ Dlopen(path) /\ handle' = path
      BY <1>5, <2>4 DEF OpenLibrary, CopyOf
    <3>2. "stale" \notin faults' => opened'[path].code = so[path]
      BY <1>0, <2>2, <3>1, OpenGrows DEF KeepOK
    <3>. QED BY <3>1, <3>2 DEF Fine
  <2>5. ASSUME recording
        PROVE  LastCopy' = CopyOf
    <3>1. recorded_libraries \in Seq(Handles)
      BY <1>0 DEF TypeOK
    <3>2. Len(recorded_libraries') - 1 = Len(recorded_libraries)
      BY <2>1, <2>5, <3>1
    <3>. QED BY <2>1, <3>2 DEF LastCopy, CopyOf
  <2>. HIDE DEF path
  <2>. QED BY <2>1, <2>3, <2>4, <2>5 DEF OwnOK, Starting
<1>6. ASSUME pc' \in {pc, "dead"}, UNCHANGED <<so, opened, handle, n_recvd, replaying>>,
             UNCHANGED <<recording, recName, recorded_libraries>>
      PROVE  OwnOK'
  BY <1>6 DEF OwnOK, CopyOf, LastCopy, Starting
<1>7. CASE PerformQuery \/ PerformProcedure \/ PerformOutput
  BY <1>6, <1>7 DEF PerformQuery, PerformProcedure, PerformOutput, Log, Step, Stuck
<1>8. CASE NextLibrary
  <2>1. More /\ This.kind = "N" /\ pc' = pc /\ UNCHANGED replaying
    BY <1>8 DEF NextLibrary, Step
  <2>2. replaying # None
    BY <2>1, MessageHere DEF Orders, Kinds
  <2>. QED BY <2>1, <2>2, OwnBeside DEF More
<1>9. CASE BeginRecording \/ EndRecording \/ (Run /\ UNCHANGED n_recvd) \/ Load
  <2>1. /\ More /\ This.kind \in Orders /\ UNCHANGED n_recvd
        /\ pc' \in {"loop", "truncate", "load", "start"}
    BY <1>9 DEF BeginRecording, EndRecording, Run, PlayFrom, Load, Step, Orders, More
  <2>2. Ordered({This.kind})
    BY <2>1, OrderHere
  <2>3. ~Calling
    BY <2>1, <2>2, OrderCallsNothing
  <2>. QED BY <2>1, <2>3, OwnBeside DEF Calling
<1>10. CASE Run /\ ~UNCHANGED n_recvd
  <2>1. More /\ This.kind = "RE" /\ pc' = "start" /\ replaying' = This.arg
    BY <1>10 DEF Run, PlayFrom
  <2>2. This.arg # None
    BY <2>1, OrderHere, NoName DEF Orders
  <2>. QED BY <2>1, <2>2, OwnBeside
<1>11. CASE Truncate \/ WriteFile \/ Insert \/ ReadFile \/ LoadModule \/ (Loaded /\ This.kind # "RE")
  <2>1. /\ pc \in Saving \cup Loading /\ UNCHANGED n_recvd
        /\ pc' \in {"write", "insert", "loop", "dead", "modules"}
    BY <1>11 DEF Truncate, WriteFile, Insert, ReadFile, LoadModule, Loaded, Saving, Loading
  <2>2. Ordered({"RT"}) \/ Ordered({"RE", "RL"})
    BY <1>0, <2>1 DEF RequestInv, StageOK
  <2>3. ~Calling
    BY <2>2, OrderCallsNothing DEF Orders
  <2>. QED BY <2>1, <2>3, OwnBeside DEF Calling
<1>12. CASE Loaded /\ This.kind = "RE"
  <2>1. pc \in Loading /\ pc' = "start" /\ replaying' = This.arg
    BY <1>12 DEF Loaded, PlayFrom, Loading
  <2>2. This.arg # None
    BY <2>1, ModuleHere, NoName
  <2>. QED BY <2>1, <2>2, OwnBeside
<1>13. CASE Finish \/ Crash
  <2>1. n_recvd' = <<>> /\ pc' = "idle"
    BY <1>13 DEF Finish, EndRequest, Crash
  <2>2. ~Calling'
    <3>1. Len(<<>>) = 0
      OBVIOUS
    <3>. QED BY <2>1, <3>1 DEF Calling
  <2>. QED BY <2>1, <2>2, OwnBeside
<1>14. CASE UNCHANGED vars
  BY <1>6, <1>14 DEF vars, requestVars
<1>. QED BY <1>1, <1>2, <1>3, <1>4, <1>5, <1>7, <1>8, <1>9, <1>10, <1>11, <1>12, <1>13, <1>14
         DEF Next, Command, Engine

-----------------------------------------------------------------------------
(* Every step keeps what is loaded, and loses nothing.                       *)

LEMMA ModulesStep ==
  ASSUME IInv, [Next]_vars, KeepOK, ModulesOK, Fine'
  PROVE  ModulesOK'
<1>. USE DEF engineRest, boundVars, recordVars, replayVars, diskVars, histVars
<1>0. TypeOK
  BY DEF IInv
<1>1. CASE pc' # "modules"
  BY <1>1 DEF ModulesOK
<1>2. CASE ReadFile
  <2>1. CASE aqp[This.arg] \in {None, Torn}
    BY <1>1, <1>2, <2>1 DEF ReadFile
  <2>2. CASE aqp[This.arg] \notin {None, Torn}
    <3>1. proc'.libs = <<>> /\ Len(<<>>) = 0
      BY <1>2, <2>2 DEF ReadFile
    <3>. QED BY <3>1 DEF ModulesOK
  <2>. QED BY <2>1, <2>2
<1>3. CASE LoadModule
  <2>. DEFINE path == <<This.arg, Len(proc.libs)>>
  <2>1. pc = "modules" /\ Len(proc.libs) < aqp[This.arg].modules /\ UNCHANGED so
    BY <1>3 DEF LoadModule
  <2>2. /\ This.arg \in Keys /\ Len(proc.libs) \in Nat /\ aqp[This.arg].modules <= MaxRequests
        /\ aqp[This.arg].modules \in Nat /\ MaxRequests \in Nat /\ LoadOK /\ This = n_recvd[1]
        /\ proc \in Records /\ proc.libs \in Seq(Handles)
    BY <2>1, ModuleHere, NoName DEF Loading, Records
  <2>3. path \in Paths
    BY <2>1, <2>2, CopyPath
  <2>4. CASE ~CanOpen(path)
    BY <1>1, <1>3, <2>4 DEF LoadModule
  <2>5. CASE CanOpen(path)
    <3>1. Dlopen(path) /\ proc' = [proc EXCEPT !.libs = Append(@, path)]
      BY <1>3, <2>5 DEF LoadModule
    <3>2. /\ \A x \in Paths : opened[x].refs > 0 =>
                opened'[x].refs >= opened[x].refs /\ opened'[x].code = opened[x].code
          /\ opened'[path].refs = opened[path].refs + 1 /\ opened[path].refs \in Nat
          /\ opened'[path].code = so[path]
      BY <1>0, <2>3, <2>5, <3>1, OpenGrows DEF KeepOK, Fine
    <3>3. \A x \in Paths : opened[x].refs > 0 => opened'[x].refs > 0
      <4>1. TypeOK'
        BY <1>3, TypeStep DEF Next, Engine, IInv
      <4>. QED BY <1>0, <3>2, <4>1 DEF TypeOK
    <3>. HIDE DEF path
    <3>4. proc'.libs = Append(proc.libs, path)
      BY <2>2, <3>1 DEF Records
    <3>5. path \in Handles
      BY <2>3 DEF Handles
    <3>6. /\ Len(proc'.libs) = Len(proc.libs) + 1 /\ proc'.libs[Len(proc.libs) + 1] = path
          /\ \A j \in 1 .. Len(proc.libs) : proc'.libs[j] = proc.libs[j]
      BY <2>2, <3>4, <3>5
    <3>7. ASSUME NEW j \in 1 .. Len(proc.libs)
          PROVE  /\ opened'[proc'.libs[j]].refs > 0
                 /\ opened'[proc'.libs[j]].code = so'[proc'.libs[j]]
      <4>1. proc.libs[j] = <<This.arg, j - 1>>
        BY <2>2 DEF LoadOK
      <4>2. j - 1 \in Nat /\ j - 1 < MaxRequests
        BY <2>1, <2>2
      <4>3. proc.libs[j] \in Paths
        BY <2>2, <4>1, <4>2, CopyPath
      <4>4. opened[proc.libs[j]].refs > 0 /\ opened[proc.libs[j]].code = so[proc.libs[j]]
        BY <2>1 DEF ModulesOK
      <4>. QED BY <2>1, <3>2, <3>3, <3>6, <4>3, <4>4
    <3>8. /\ opened'[proc'.libs[Len(proc.libs) + 1]].refs > 0
          /\ opened'[proc'.libs[Len(proc.libs) + 1]].code = so'[proc'.libs[Len(proc.libs) + 1]]
      BY <2>1, <3>2, <3>6
    <3>9. \A j \in 1 .. Len(proc'.libs) : j \in 1 .. Len(proc.libs) \/ j = Len(proc.libs) + 1
      BY <2>2, <3>6
    <3>. QED BY <3>7, <3>8, <3>9 DEF ModulesOK
  <2>. QED BY <2>4, <2>5
<1>4. CASE UNCHANGED vars
  BY <1>4 DEF ModulesOK, vars, requestVars
<1>5. ASSUME Next, ~ReadFile, ~LoadModule
      PROVE  pc' # "modules"
  <2>1. CASE Command \/ Crash
    BY <2>1 DEF Command, Exec, Record, Stop, Replay, Request, Crash
  <2>2. CASE Start \/ CopyLibrary \/ OpenLibrary \/ NextLibrary \/ BeginRecording \/ EndRecording
    BY <2>2 DEF Start, CopyLibrary, OpenLibrary, NextLibrary, BeginRecording, EndRecording, Step, More
  <2>3. CASE PerformQuery \/ PerformProcedure \/ PerformOutput
    BY <2>3 DEF PerformQuery, PerformProcedure, PerformOutput, Step, Stuck, More
  <2>4. CASE Truncate \/ WriteFile \/ Insert \/ Run \/ Load \/ Loaded \/ Finish
    BY <2>4 DEF Truncate, WriteFile, Insert, Run, Load, Loaded, PlayFrom, Finish, EndRequest
  <2>. QED BY <1>5, <2>1, <2>2, <2>3, <2>4 DEF Next, Engine
<1>. QED BY <1>1, <1>2, <1>3, <1>4, <1>5

\* A call finds its procedure in the library in use.
LEMMA CallFinds ==
  ASSUME IInv, SourceOK, KeepOK, OwnOK, More, This.kind = "P", handle # None
  PROVE  opened[handle].refs > 0 /\ opened[handle].code = This.arg
<1>0. TypeOK /\ RequestInv
  BY DEF IInv
<1>1. pc = "loop" /\ i \in 1 .. Len(n_recvd) /\ This = n_recvd[i]
  BY <1>0, HereIn DEF RequestInv, MessagesOK, TypeOK, This, More
<1>2. CASE replaying = None
  BY <1>0, <1>1, <1>2 DEF RequestInv, HandleOK, OwnOK
<1>3. CASE replaying # None
  <2>1. proc \in Records /\ replaying \in Keys /\ stored_proc[replaying] = proc /\ proc # None
    BY <1>0, <1>3, NoName DEF TypeOK, SourceOK
  <2>2. InLibrary(opened, proc.queries, proc.libs)
    BY <2>1 DEF KeepOK
  <2>. QED BY <1>1, <1>3, <2>2, PlayHasLibrary DEF InLibrary
<1>. QED BY <1>2, <1>3

LEMMA LostStep ==
  ASSUME IInv, [Next]_vars, SourceOK, FilesOK, KeepOK, OwnOK, "lost" \notin faults
  PROVE  "lost" \notin faults'
<1>. USE DEF engineRest, boundVars, recordVars, replayVars, diskVars, histVars, Fault
<1>1. CASE Command
  BY <1>1 DEF Command, Exec, Record, Stop, Replay, Request
<1>2. CASE Start \/ CopyLibrary \/ OpenLibrary
  BY <1>2 DEF Start, CopyLibrary, OpenLibrary, Dlopen
<1>3. CASE PerformQuery \/ PerformOutput \/ NextLibrary
  BY <1>3 DEF PerformQuery, PerformOutput, NextLibrary
<1>4. CASE PerformProcedure
  BY <1>4, CallFinds DEF PerformProcedure
<1>5. CASE BeginRecording \/ EndRecording \/ Truncate \/ WriteFile \/ Insert
  BY <1>5 DEF BeginRecording, EndRecording, Truncate, WriteFile, Insert
<1>6. CASE ReadFile
  <2>1. This.arg \in Keys /\ pc = "load"
    BY <1>6, ModuleHere DEF ReadFile, Loading
  <2>2. aqp[This.arg] # Torn
    BY <2>1 DEF FilesOK
  <2>. QED BY <1>6, <2>2 DEF ReadFile
<1>7. CASE Run \/ Load \/ LoadModule \/ Loaded
  BY <1>7 DEF Run, Load, LoadModule, Loaded, Dlopen
<1>8. CASE Finish \/ Crash
  BY <1>8 DEF Finish, EndRequest, Crash
<1>9. CASE UNCHANGED vars
  BY <1>9 DEF vars
<1>. QED BY <1>1, <1>2, <1>3, <1>4, <1>5, <1>6, <1>7, <1>8, <1>9 DEF Next, Engine

LEMMA RightInit == Init => RightInv
<1>. SUFFICES ASSUME Init PROVE RightInv
  OBVIOUS
<1>1. Len(<<>>) = 0
  OBVIOUS
<1>2. SourceOK
  BY DEF Init, SourceOK
<1>3. FilesOK
  BY <1>1, NoName DEF Init, FilesOK, Whole, OnDisk, Saving
<1>4. KeepOK
  BY <1>1 DEF Init, KeepOK, Unopened, InLibrary, Saving
<1>5. OwnOK
  BY <1>1 DEF Init, OwnOK
<1>6. ModulesOK
  BY DEF Init, ModulesOK
<1>. QED BY <1>2, <1>3, <1>4, <1>5, <1>6 DEF RightInv, Init

LEMMA RightInductive == IInv /\ RightInv /\ [Next]_vars => RightInv'
<1>. SUFFICES ASSUME IInv, RightInv, [Next]_vars PROVE RightInv'
  OBVIOUS
<1>1. SourceOK /\ SourceOK'
  BY SourceStep DEF RightInv
<1>2. ASSUME Fine'
      PROVE  FilesOK' /\ KeepOK' /\ OwnOK' /\ ModulesOK' /\ "lost" \notin faults'
  <2>1. Fine
    BY <1>2, FaultsStay DEF Fine
  <2>2. FilesOK /\ KeepOK /\ OwnOK /\ ModulesOK /\ "lost" \notin faults
    BY <2>1 DEF RightInv
  <2>. QED BY <1>1, <1>2, <2>2, FilesStep, KeepStep, OwnStep, ModulesStep, LostStep
<1>. QED BY <1>1, <1>2 DEF RightInv

\* Every procedure that is called is in the library that is asked for it, whether it is called
\* as it is recorded or as it is run, from memory or from the files (PerformProcedure,
\* ReadFile): as long as dlopen gave no library whose file had been replaced and a crash, a
\* failed copy or a failed save left no files of two recordings side by side and no half file.
THEOREM CallsRightLibrary == Spec => []RightLibrary
<1>1. Init => IInv /\ RightInv
  BY Started, RightInit
<1>2. IInv /\ RightInv /\ [Next]_vars => (IInv /\ RightInv)'
  BY Inductive, RightInductive
<1>3. IInv /\ RightInv => RightLibrary
  BY DEF RightInv, RightLibrary, Fine
<1>. QED BY <1>1, <1>2, <1>3, PTL DEF Spec, vars
=============================================================================
