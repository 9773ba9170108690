------------------------- MODULE PromptEngineProofs -------------------------
(* Proofs about PromptEngine, for any commands, batches and bounds. *)
EXTENDS PromptEngine, TLAPS

-----------------------------------------------------------------------------
(* Type correctness. *)

\* The messages of every batch and of the stored procedure are messages.
LEMMA BatchKinds ==
  /\ Batches \subseteq Queries
  /\ StoredQueries \in Queries
  /\ <<>> \in Queries
  /\ \A m \in {"C", "E"} : <<m>> \in Queries
  /\ \A q \in Queries : Append(q, "T") \in Queries /\ Len(q) \in Nat
<1> {"Q", "I", "P", "O"} \subseteq Kinds /\ {"Q", "I", "P", "O", "N"} \subseteq Kinds
  BY DEF Kinds
<1>1. Batches \subseteq Queries /\ StoredQueries \in Queries
  BY PromptAssumption DEF Queries
<1>2. /\ <<>> \in Queries
      /\ \A m \in {"C", "E"} : <<m>> \in Queries
      /\ \A q \in Queries : Append(q, "T") \in Queries /\ Len(q) \in Nat
  BY DEF Queries, Kinds
<1> QED BY <1>1, <1>2

LEMMA ElementOf ==
  ASSUME NEW S, NEW s \in Seq(S), NEW k \in 1 .. Len(s)
  PROVE  s[k] \in S
OBVIOUS

LEMMA TypeInit == Init => TypeOK
<1> SUFFICES ASSUME Init PROVE TypeOK
  OBVIOUS
<1> USE DEF Init
<1>1. PromptOK
  BY BatchKinds DEF PromptOK, PromptPC, NoJob, None
<1>2. ArraysOK
  <2>1. sent \in Seq([queries : Queries, code : Nat]) /\ Len(sent) = 0
    OBVIOUS
  <2>2. kept = 0 /\ nRecv = 0 /\ nRecvd = 0
    BY DEF None
  <2> QED BY <2>1, <2>2 DEF ArraysOK
<1>4. CfgOK
  <2>1. newQuery \in BOOLEAN /\ hasDll \in BOOLEAN
    OBVIOUS
  <2>2. backend \in AllBackends /\ dll \in Nat
    BY DEF None, AllBackends
  <2>3. promptSem \in Nat /\ engineSem \in Nat
    OBVIOUS
  <2> QED BY <2>1, <2>2, <2>3 DEF CfgOK
<1>3. EngineOK /\ DoneOK
  BY DEF EngineOK, DoneOK, EnginePC, NoMessage, None, Ids, Kinds
<1> QED BY <1>1, <1>2, <1>3, <1>4 DEF TypeOK

\* A command only chooses a job.
LEMMA JobType ==
  ASSUME TypeOK, Command
  PROVE  TypeOK'
<1> USE BatchKinds DEF TypeOK, PromptOK, NoJob, None
<1>1. ASSUME NEW q \in Batches, NEW build \in BOOLEAN, StartExec(q, build)
      PROVE  PromptOK' /\ UNCHANGED <<outCpp, arrayVars, cfgVars, semVars, engineVars, countVars>>
  <2>1. Len(sent) + 1 \in Nat
    BY DEF ArraysOK
  <2>2. q \in Queries
    OBVIOUS
  <2> DEFINE code == Len(sent) + 1
             j == [kind |-> "exec", queries |-> q, code |-> code, build |-> build, left |-> 1]
             s == [queries |-> q, code |-> code]
  <2>3. StartJob(j, s, "keep")
    BY <1>1 DEF StartExec
  <2>4. /\ j \in [kind : {"none", "exec", "cache", "control", "r", "rr"}, queries : Queries,
                  code : Nat, build : BOOLEAN, left : Int]
        /\ s \in [queries : Queries, code : Nat]
    BY <2>1, <2>2
  <2> QED BY <2>3, <2>4 DEF StartJob, PromptPC
<1>2. ASSUME NEW n \in CacheRuns, NEW q \in BesideCache, NEW build \in BOOLEAN, StartCache(n, q, build)
      PROVE  PromptOK' /\ UNCHANGED <<outCpp, arrayVars, cfgVars, semVars, engineVars, countVars>>
  <2>1. Len(sent) + 1 \in Nat
    BY DEF ArraysOK
  <2>2. q \in Queries /\ <<"C">> \in Queries /\ n \in Int
    BY PromptAssumption
  <2> DEFINE j == [kind |-> "cache", queries |-> <<"C">>, code |-> None, build |-> build, left |-> n]
             s == [queries |-> q, code |-> Len(sent) + 1]
  <2>3. StartJob(j, s, "keep")
    BY <1>2 DEF StartCache
  <2>4. /\ j \in [kind : {"none", "exec", "cache", "control", "r", "rr"}, queries : Queries,
                  code : Nat, build : BOOLEAN, left : Int]
        /\ s \in [queries : Queries, code : Nat]
    BY <2>1, <2>2
  <2> QED BY <2>3, <2>4 DEF StartJob, PromptPC
<1>3. ASSUME NEW m \in {"C", "E"}, StartControl(m)
      PROVE  PromptOK' /\ UNCHANGED <<outCpp, arrayVars, cfgVars, semVars, engineVars, countVars>>
  BY <1>3 DEF StartControl, StartJob, PromptPC
<1>4. ASSUME StartR \/ StartRR
      PROVE  PromptOK' /\ UNCHANGED <<outCpp, arrayVars, cfgVars, semVars, engineVars, countVars>>
  <2>1. CASE StartR
    BY <2>1 DEF StartR, StartJob, PromptPC
  <2>2. CASE StartRR
    BY <2>2 DEF StartRR, StartJob, PromptPC
  <2> QED BY <1>4, <2>1, <2>2
<1>5. ASSUME NEW b \in Backends, SwitchBackend(b)
      PROVE  TypeOK'
  <2>1. b \in AllBackends
    BY PromptAssumption
  <2>2. PromptOK' /\ CfgOK'
    BY <1>5, <2>1 DEF SwitchBackend, PromptPC, CfgOK, semVars
  <2>3. ArraysOK' /\ EngineOK' /\ DoneOK'
    BY <1>5 DEF SwitchBackend, ArraysOK, EngineOK, DoneOK, arrayVars, engineVars, countVars
  <2> QED BY <2>2, <2>3
<1>6. ASSUME PromptOK', UNCHANGED <<outCpp, arrayVars, cfgVars, semVars, engineVars, countVars>>
      PROVE  TypeOK'
  BY <1>6 DEF ArraysOK, CfgOK, EngineOK, DoneOK, arrayVars, cfgVars, semVars, engineVars, countVars
<1> QED BY <1>1, <1>2, <1>3, <1>4, <1>5, <1>6 DEF Command

\* The prompt's own steps.
LEMMA PromptType ==
  ASSUME TypeOK, PromptWork
  PROVE  TypeOK'
<1> USE DEF TypeOK
<1>0. ASSUME UNCHANGED engineVars PROVE EngineOK' /\ (UNCHANGED countVars => DoneOK')
  BY <1>0 DEF EngineOK, DoneOK, engineVars, countVars
<1>1. CASE Top
  <2>1. PromptOK'
    BY <1>1 DEF Top, PromptOK, PromptPC
  <2> QED BY <1>0, <1>1, <2>1 DEF Top, ArraysOK, CfgOK, arrayVars, cfgVars, semVars
<1>2. CASE WaitEngine
  <2>1. PromptOK' /\ CfgOK'
    BY <1>2 DEF WaitEngine, PromptOK, PromptPC, CfgOK, cfgVars
  <2> QED BY <1>0, <1>2, <2>1 DEF WaitEngine, ArraysOK, arrayVars
<1>3. CASE KeepPayload
  <2>1. PromptOK'
    BY <1>3 DEF KeepPayload, PromptOK, PromptPC
  <2>2. [queries |-> job.queries, code |-> job.code] \in [queries : Queries, code : Nat]
    BY DEF PromptOK
  <2>3. /\ sent' \in Seq([queries : Queries, code : Nat])
        /\ Len(sent') = Len(sent) + 1 /\ Len(sent) \in Nat
    BY <1>3, <2>2 DEF KeepPayload, ArraysOK
  <2>4. ArraysOK'
    BY <1>3, <2>3 DEF KeepPayload, ArraysOK
  <2> QED BY <1>0, <1>3, <2>1, <2>4 DEF KeepPayload, CfgOK, cfgVars, semVars
<1>4. CASE DllOff
  <2>1. PromptOK' /\ CfgOK'
    BY <1>4 DEF DllOff, PromptOK, PromptPC, CfgOK, semVars
  <2> QED BY <1>0, <1>4, <2>1 DEF DllOff, ArraysOK, arrayVars
<1>5. CASE SendCount
  <2>1. PromptOK'
    BY <1>5 DEF SendCount, PromptOK, PromptPC
  <2>2. ArraysOK'
    BY <1>5, BatchKinds DEF SendCount, PromptOK, ArraysOK
  <2> QED BY <1>0, <1>5, <2>1, <2>2 DEF SendCount, CfgOK, cfgVars, semVars
<1>6. CASE SendPointer
  <2>1. PromptOK'
    BY <1>6 DEF SendPointer, PromptOK, PromptPC
  <2>2. ArraysOK'
    BY <1>6 DEF SendPointer, ArraysOK
  <2> QED BY <1>0, <1>6, <2>1, <2>2 DEF SendPointer, CfgOK, cfgVars, semVars
<1>7. CASE Build
  <2>1. snippet' \in [queries : Queries, code : Nat]
    BY <1>7, BatchKinds DEF Build, EndOfExec, PromptOK
  <2>2. outCpp' \in Nat /\ job' = job /\ ppc' \in PromptPC
    BY <1>7 DEF Build, EndOfExec, PromptOK, PromptPC
  <2>3. PromptOK'
    BY <2>1, <2>2 DEF PromptOK
  <2>4. dll' \in Nat /\ hasDll' \in BOOLEAN
    BY <1>7 DEF Build, EndOfExec, PromptOK, CfgOK
  <2>5. CfgOK'
    BY <1>7, <2>4 DEF Build, CfgOK, semVars
  <2> QED BY <1>0, <1>7, <2>3, <2>5 DEF Build, ArraysOK, arrayVars
<1>8. CASE Make
  <2>1. PromptOK'
    BY <1>8 DEF Make, PromptOK, PromptPC
  <2>2. CfgOK'
    BY <1>8 DEF Make, PromptOK, CfgOK, semVars
  <2> QED BY <1>0, <1>8, <2>1, <2>2 DEF Make, ArraysOK, arrayVars
<1>9. CASE Raise
  <2>1. PromptOK' /\ CfgOK'
    BY <1>9 DEF Raise, PromptOK, PromptPC, CfgOK, semVars
  <2>2. Len(sent) \in Nat
    BY DEF ArraysOK
  <2>3. raised' = raised + 1 /\ done' = done /\ released' \subseteq released \cup {Len(sent)}
    BY <1>9 DEF Raise, engineVars
  <2>4. DoneOK'
    BY <2>2, <2>3 DEF DoneOK
  <2> QED BY <1>0, <1>9, <2>1, <2>4 DEF Raise, ArraysOK, arrayVars
<1>10. CASE WakeEngine
  <2>1. CfgOK' /\ ppc' \in PromptPC
    BY <1>10 DEF WakeEngine, PromptPC, CfgOK, cfgVars
  <2>2. job' \in [kind : {"none", "exec", "cache", "control", "r", "rr"}, queries : Queries,
                  code : Nat, build : BOOLEAN, left : Int]
    BY <1>10 DEF WakeEngine, PromptOK
  <2> QED BY <1>0, <1>10, <2>1, <2>2 DEF WakeEngine, PromptOK, ArraysOK, arrayVars
<1>11. CASE Cached
  <2>1. snippet' \in [queries : Queries, code : Nat]
    BY <1>11, BatchKinds DEF Cached, EndOfExec, PromptOK
  <2>2. outCpp' \in Nat /\ job' = job /\ ppc' \in PromptPC
    BY <1>11 DEF Cached, EndOfExec, PromptOK, PromptPC
  <2>3. PromptOK'
    BY <2>1, <2>2 DEF PromptOK
  <2>4. dll' \in Nat /\ hasDll' \in BOOLEAN
    BY <1>11 DEF Cached, EndOfExec, PromptOK, CfgOK
  <2>5. CfgOK'
    BY <1>11, <2>4 DEF Cached, CfgOK, semVars
  <2> QED BY <1>0, <1>11, <2>3, <2>5 DEF Cached, ArraysOK, arrayVars
<1> QED BY <1>1, <1>2, <1>3, <1>4, <1>5, <1>6, <1>7, <1>8, <1>9, <1>10, <1>11 DEF PromptWork

\* What is recorded of a handled message has the type of a record of done.
LEMMA EntryType ==
  ASSUME TypeOK, NEW o \in {"ran", "failed", "skipped"}
  PROVE  Entry(o) \in [id : Ids, at : Nat, kind : Kinds, stored : BOOLEAN, lib : Ids,
                       out : {"ran", "failed", "skipped"}]
BY DEF TypeOK, EngineOK, Entry

\* The engine's steps.
LEMMA EngineType ==
  ASSUME TypeOK, Engine
  PROVE  TypeOK'
<1> USE DEF TypeOK
<1>0. ASSUME UNCHANGED promptVars PROVE PromptOK'
  BY <1>0 DEF PromptOK, promptVars
<1>1. CASE Sleep
  <2>1. CfgOK' /\ EngineOK'
    BY <1>1 DEF Sleep, CfgOK, EngineOK, EnginePC, cfgVars
  <2> QED BY <1>0, <1>1, <2>1 DEF Sleep, ArraysOK, DoneOK, arrayVars, countVars
<1>2. CASE CheckQuery
  <2>1. EngineOK'
    BY <1>2 DEF CheckQuery, EngineOK, EnginePC, None, Ids
  <2> QED BY <1>0, <1>2, <2>1 DEF CheckQuery, ArraysOK, CfgOK, DoneOK, arrayVars, cfgVars, semVars, countVars
<1>3. CASE StartRequest
  <2>1. EngineOK'
    BY <1>3 DEF StartRequest, EngineOK, EnginePC, None, Ids
  <2> QED BY <1>0, <1>3, <2>1 DEF StartRequest, ArraysOK, CfgOK, DoneOK, arrayVars, cfgVars, semVars, countVars
<1>4. CASE OpenLibrary
  <2>1. EngineOK'
    BY <1>4 DEF OpenLibrary, EngineOK, EnginePC, None, Ids, CfgOK
  <2> QED BY <1>0, <1>4, <2>1 DEF OpenLibrary, ArraysOK, CfgOK, DoneOK, arrayVars, cfgVars, semVars, countVars
<1>5. CASE Fetch
  <2>1. cur' \in [id : Ids, at : Nat, kind : Kinds]
    <3>1. CASE i < nRecv /\ Readable
      <4>1. ArrayOf(nRecvd) \in Queries
        <5>1. CASE nRecvd = Stored
          BY <5>1, BatchKinds DEF ArrayOf
        <5>2. CASE nRecvd # Stored
          <6>0. nRecvd = kept /\ kept # 0
            BY <3>1, <5>2 DEF Readable, None
          <6>1. nRecvd \in 1 .. Len(sent)
            BY <6>0 DEF ArraysOK
          <6>2. sent[nRecvd] \in [queries : Queries, code : Nat]
            BY <6>1, ElementOf DEF ArraysOK
          <6> QED BY <5>2, <6>2 DEF ArrayOf
        <5> QED BY <5>1, <5>2
      <4>2. ArrayOf(nRecvd)[i + 1] \in Kinds
        BY <3>1, <4>1 DEF Readable, Queries
      <4>3. nRecvd \in Ids /\ i + 1 \in Nat
        BY DEF ArraysOK, Ids, EngineOK
      <4> QED BY <1>5, <3>1, <4>2, <4>3 DEF Fetch
    <3>2. CASE ~(i < nRecv)
      BY <1>5, <3>2 DEF Fetch, EngineOK
    <3>3. CASE i < nRecv /\ ~Readable
      BY <1>5, <3>3 DEF Fetch, EngineOK, Ids, None
    <3> QED BY <3>1, <3>2, <3>3
  <2>2. EngineOK'
    BY <1>5, <2>1 DEF Fetch, EngineOK, EnginePC
  <2> QED BY <1>0, <1>5, <2>2 DEF Fetch, ArraysOK, CfgOK, DoneOK, arrayVars, cfgVars, semVars, countVars
<1>6. ASSUME NEW o \in {"ran", "failed", "skipped"}, Handled(o), UNCHANGED engineRest,
             handle' \in Ids, pinned' \in Nat, err' \in BOOLEAN
      PROVE  TypeOK'
  <2>1. DoneOK'
    BY <1>6, EntryType DEF Handled, engineRest, DoneOK, countVars
  <2>2. EngineOK'
    BY <1>6 DEF Handled, engineRest, EngineOK, EnginePC
  <2> QED BY <1>0, <1>6, <2>1, <2>2 DEF engineRest, ArraysOK, CfgOK, arrayVars, cfgVars, semVars
<1>7. CASE PerformQuery
  BY <1>6, <1>7 DEF PerformQuery, EngineOK
<1>8. CASE PerformProcedure
  BY <1>6, <1>8 DEF PerformProcedure, EngineOK
<1>9. CASE PerformOutput
  BY <1>6, <1>9 DEF PerformOutput, EngineOK
<1>10. CASE PerformNextLibrary
  BY <1>6, <1>10 DEF PerformNextLibrary, EngineOK, Ids
<1>11. CASE PerformOther
  <2>1. pinned' \in Nat
    BY <1>11 DEF PerformOther, Pin, EngineOK, Ids, Stored
  <2> QED BY <1>6, <1>11, <2>1 DEF PerformOther, EngineOK
<1>12. CASE Replay
  <2>0. pinned' \in Nat
    BY <1>12 DEF Replay, Pin, EngineOK, Ids, Stored
  <2>1. EngineOK' /\ DoneOK'
    BY <1>12, <2>0, EntryType DEF Replay, EngineOK, EnginePC, DoneOK, countVars
  <2>2. ArraysOK'
    BY <1>12, BatchKinds DEF Replay, ArraysOK
  <2> QED BY <1>0, <1>12, <2>1, <2>2 DEF Replay, CfgOK, cfgVars, semVars
<1>13. CASE Finish
  <2>1. EngineOK' /\ ArraysOK'
    BY <1>13 DEF Finish, EngineOK, EnginePC, ArraysOK
  <2> QED BY <1>0, <1>13, <2>1 DEF Finish, CfgOK, DoneOK, cfgVars, semVars, countVars
<1>14. CASE Report
  <2>1. EngineOK'
    BY <1>14 DEF Report, EngineOK, EnginePC
  <2> QED BY <1>0, <1>14, <2>1 DEF Report, ArraysOK, CfgOK, DoneOK, arrayVars, cfgVars, semVars, countVars
<1>15. CASE ClearQuery
  <2>1. EngineOK' /\ CfgOK'
    BY <1>15 DEF ClearQuery, EngineOK, EnginePC, CfgOK, None, Ids, semVars
  <2> QED BY <1>0, <1>15, <2>1 DEF ClearQuery, ArraysOK, DoneOK, arrayVars, countVars
<1>16. CASE Release
  <2>1. EngineOK' /\ CfgOK'
    BY <1>16 DEF Release, EngineOK, EnginePC, CfgOK, cfgVars
  <2> QED BY <1>0, <1>16, <2>1 DEF Release, ArraysOK, DoneOK, arrayVars, countVars
<1> QED BY <1>1, <1>2, <1>3, <1>4, <1>5, <1>7, <1>8, <1>9, <1>10, <1>11, <1>12, <1>13, <1>14,
           <1>15, <1>16 DEF Engine

LEMMA TypeStep == TypeOK /\ [Next]_vars => TypeOK'
<1> SUFFICES ASSUME TypeOK, [Next]_vars PROVE TypeOK'
  OBVIOUS
<1>1. CASE UNCHANGED vars
  BY <1>1 DEF vars, promptVars, arrayVars, cfgVars, semVars, engineVars, countVars, TypeOK,
              PromptOK, ArraysOK, CfgOK, EngineOK, DoneOK
<1> QED BY <1>1, JobType, PromptType, EngineType DEF Next

\* The type invariant holds for every choice of the constants: whatever the user types and
\* however the two threads interleave, n_recvd names an array that was made (server.cpp:78).
THEOREM TypeCorrect == Spec => []TypeOK
<1>1. Init => TypeOK
  BY TypeInit
<1>2. TypeOK /\ [Next]_vars => TypeOK'
  BY TypeStep
<1> QED BY <1>1, <1>2, PTL DEF Spec
-----------------------------------------------------------------------------
(* The two semaphores.  Nothing below depends on how often set_ready is called. *)

\* A prompt that waits after the reply finds a credit or is about to get one; a request
\* whose wake-up was posted finds the engine awake or a credit for it.
WaitInv ==
  /\ ppc = "wait" /\ ~newQuery => promptSem > 0 \/ epc = "release"
  /\ newQuery /\ ppc # "wake" => engineSem > 0 \/ epc \notin {"sleep", "release"}

LEMMA WaitStep == TypeOK /\ WaitInv /\ [Next]_vars => WaitInv'
<1> SUFFICES ASSUME TypeOK, WaitInv, [Next]_vars PROVE WaitInv'
  OBVIOUS
<1>0. promptSem \in Nat /\ engineSem \in Nat
  BY DEF TypeOK, CfgOK
<1>1. CASE Command
  <2>1. ppc = "command" /\ ppc' \in {"keep", "raise", "top"}
    BY <1>1 DEF Command, StartExec, StartCache, StartControl, StartR, StartRR, StartJob,
                SwitchBackend
  <2>2. UNCHANGED <<newQuery, promptSem, engineSem, epc>>
    BY <1>1 DEF Command, StartExec, StartCache, StartControl, StartR, StartRR, StartJob,
                SwitchBackend, cfgVars, semVars, engineVars
  <2> QED BY <2>1, <2>2 DEF WaitInv
<1>2. CASE Top
  BY <1>2 DEF Top, WaitInv, cfgVars, semVars, engineVars
<1>3. CASE WaitEngine
  BY <1>3, <1>0 DEF WaitEngine, WaitInv, cfgVars, engineVars
<1>4. CASE KeepPayload \/ DllOff \/ SendCount \/ SendPointer \/ Build \/ Make \/ Cached
  <2>1. ppc \notin {"wait", "wake"} /\ ppc' \notin {"wait"}
    BY <1>4 DEF KeepPayload, DllOff, SendCount, SendPointer, Build, Make, Cached
  <2>2. UNCHANGED <<newQuery, promptSem, engineSem, epc>>
    BY <1>4 DEF KeepPayload, DllOff, SendCount, SendPointer, Build, Make, Cached, cfgVars,
                semVars, engineVars
  <2> QED BY <2>1, <2>2 DEF WaitInv
<1>5. CASE Raise
  BY <1>5 DEF Raise, WaitInv
<1>6. CASE WakeEngine
  <2>1. ppc' # "wait" /\ engineSem' > 0
    BY <1>6, <1>0 DEF WakeEngine
  <2> QED BY <2>1 DEF WaitInv
<1>7. CASE Sleep
  BY <1>7, <1>0 DEF Sleep, WaitInv, promptVars, cfgVars
<1>8. CASE CheckQuery
  BY <1>8 DEF CheckQuery, WaitInv, promptVars, cfgVars, semVars
<1>9. CASE \/ StartRequest \/ OpenLibrary \/ Fetch \/ PerformQuery \/ PerformProcedure
           \/ PerformOutput \/ PerformNextLibrary \/ PerformOther \/ Replay \/ Finish \/ Report
  <2>1. epc \notin {"sleep", "release"} /\ epc' \notin {"sleep", "release"}
    BY <1>9 DEF StartRequest, OpenLibrary, Fetch, PerformQuery, PerformProcedure, PerformOutput,
                PerformNextLibrary, PerformOther, Replay, Finish, Report, Handled
  <2>2. UNCHANGED <<newQuery, promptSem, engineSem, ppc>>
    BY <1>9 DEF StartRequest, OpenLibrary, Fetch, PerformQuery, PerformProcedure, PerformOutput,
                PerformNextLibrary, PerformOther, Replay, Finish, Report, engineRest,
                promptVars, cfgVars, semVars
  <2> QED BY <2>1, <2>2 DEF WaitInv
<1>10. CASE ClearQuery
  BY <1>10 DEF ClearQuery, WaitInv
<1>11. CASE Release
  <2>1. promptSem' > 0 /\ epc = "release"
    BY <1>11, <1>0 DEF Release
  <2> QED BY <1>11, <2>1 DEF Release, WaitInv, promptVars, cfgVars
<1>12. CASE UNCHANGED vars
  BY <1>12 DEF vars, WaitInv, promptVars, cfgVars, semVars, engineVars
<1> QED BY <1>1, <1>2, <1>3, <1>4, <1>5, <1>6, <1>7, <1>8, <1>9, <1>10, <1>11, <1>12
        DEF Next, PromptWork, Engine

\* No request and no reply is ever lost between the two semaphores (server.cpp:53-76),
\* whatever credit they start with and however many requests are raised in a row.
THEOREM NeitherSleepsForGood == Spec => []NeverBothAsleep
<1>1. Init => WaitInv
  BY DEF Init, WaitInv
<1>2. TypeOK /\ WaitInv /\ [Next]_vars => WaitInv'
  BY WaitStep
<1>3. TypeOK /\ WaitInv => NeverBothAsleep
  BY DEF WaitInv, NeverBothAsleep
<1> QED BY <1>1, <1>2, <1>3, TypeCorrect, PTL DEF Spec
-----------------------------------------------------------------------------
(* What holds when every command raises at most one request: no exec holds two CACHE *)
(* statements.  With two the second send_to_server does not wait for the first.      *)

OneAtATime == CacheRuns \subseteq {1}

\* No procedure is built by the end of such an exec, while the engine has the request.
PlainCache == \A q \in BesideCache : ~HasCode(q)

Serving == {"start", "open", "loop", "perform", "finish", "report", "clear"}

\* While a request is outstanding the prompt is past the end of its command, and the engine
\* serves only then.
TurnInv ==
  /\ newQuery => ppc \in {"wake", "cached", "top", "wait"}
  /\ epc \in Serving => newQuery

\* The prompt is between making an array and storing its address.
Between == {"dllOff", "count", "point"}

\* A command with one CACHE statement never goes back to make another array, and has_dll is 0
\* from its send on.
CacheInv ==
  /\ job.kind = "cache" => job.left <= 1
  /\ job.kind = "cache" /\ ppc \in {"count", "point", "raise", "wake", "cached"} => ~hasDll
  /\ PlainCache /\ job.kind = "cache" /\ ppc \in Between \cup {"keep", "raise", "wake", "cached"} =>
       ~HasCode(snippet.queries)
  /\ ppc = "cached" => job.kind = "cache"
  /\ ppc = "build" => job.kind = "exec"
  /\ ppc = "make" => job.kind = "r"

HandOverInv == TurnInv /\ CacheInv

LEMMA HandOverStep ==
  ASSUME OneAtATime, TypeOK, HandOverInv, [Next]_vars
  PROVE  HandOverInv'
<1> USE DEF HandOverInv
<1>0. CacheRuns \subseteq {1} /\ job.left \in Int
  BY DEF OneAtATime, TypeOK, PromptOK
<1>1. CASE Command
  <2>1. /\ ppc = "command" /\ ppc' \in {"keep", "raise", "top"}
        /\ UNCHANGED <<newQuery, hasDll, epc>>
    BY <1>1 DEF Command, StartExec, StartCache, StartControl, StartR, StartRR, StartJob,
                SwitchBackend, cfgVars, engineVars
  <2>2. TurnInv'
    BY <2>1 DEF TurnInv
  <2>3. /\ job'.kind = "cache" => job'.left <= 1
        /\ ppc' = "raise" => job'.kind # "cache"
        /\ PlainCache /\ job'.kind = "cache" /\ ppc' # "top" => ~HasCode(snippet'.queries)
    <3>1. ASSUME NEW q \in Batches, NEW build \in BOOLEAN, StartExec(q, build)
          PROVE  job'.kind = "exec" /\ ppc' = "keep"
      BY <3>1 DEF StartExec, StartJob
    <3>2. ASSUME NEW n \in CacheRuns, NEW q \in BesideCache, NEW build \in BOOLEAN,
                 StartCache(n, q, build)
          PROVE  job'.left = 1 /\ ppc' = "keep" /\ snippet'.queries = q
      BY <3>2, <1>0 DEF StartCache, StartJob
    <3>3. ASSUME NEW m \in {"C", "E"}, StartControl(m)
          PROVE  job'.kind = "control" /\ ppc' = "keep"
      BY <3>3 DEF StartControl, StartJob
    <3>4. CASE StartR
      BY <3>4 DEF StartR, StartJob
    <3>5. CASE StartRR
      BY <3>5 DEF StartRR, StartJob
    <3>6. ASSUME NEW b \in Backends, SwitchBackend(b)
          PROVE  job' = job /\ ppc' = "top"
      BY <3>6 DEF SwitchBackend
    <3> QED BY <1>1, <3>1, <3>2, <3>3, <3>4, <3>5, <3>6 DEF Command, CacheInv, PlainCache
  <2>4. CacheInv'
    BY <2>1, <2>3 DEF CacheInv, Between
  <2> QED BY <2>2, <2>4
<1>2. CASE Top
  BY <1>2 DEF Top, TurnInv, CacheInv, Between, cfgVars, engineVars
<1>3. CASE WaitEngine
  BY <1>3 DEF WaitEngine, TurnInv, CacheInv, Between, cfgVars, engineVars
<1>4. CASE KeepPayload
  BY <1>4 DEF KeepPayload, TurnInv, CacheInv, Between, cfgVars, engineVars
<1>5. CASE DllOff
  BY <1>5 DEF DllOff, TurnInv, CacheInv, Between, engineVars
<1>6. CASE SendCount
  BY <1>6 DEF SendCount, TurnInv, CacheInv, Between, cfgVars, engineVars
<1>7. CASE SendPointer
  BY <1>7 DEF SendPointer, TurnInv, CacheInv, Between, cfgVars, engineVars
<1>8. CASE Build
  <2>1. job.kind = "exec" /\ job' = job /\ ppc' \in {"raise", "top"} /\ ppc = "build"
    BY <1>8 DEF Build, CacheInv
  <2>2. UNCHANGED <<newQuery, epc>>
    BY <1>8 DEF Build, engineVars
  <2> QED BY <2>1, <2>2 DEF TurnInv, CacheInv
<1>9. CASE Make
  BY <1>9 DEF Make, TurnInv, CacheInv, Between, engineVars
<1>10. CASE Raise
  BY <1>10 DEF Raise, TurnInv, CacheInv, Between, engineVars
<1>11. CASE WakeEngine
  <2>1. /\ job'.kind = job.kind /\ job'.left = job.left - 1
    BY <1>11 DEF WakeEngine, TypeOK, PromptOK
  <2>2. ppc = "wake" /\ ppc' \in {"top", "cached"} /\ (ppc' = "cached" => job.kind = "cache")
    BY <1>11, <1>0 DEF WakeEngine, CacheInv
  <2>3. UNCHANGED <<newQuery, hasDll, epc, snippet>>
    BY <1>11 DEF WakeEngine, cfgVars, engineVars
  <2>4. TurnInv'
    BY <2>2, <2>3 DEF TurnInv
  <2>5. CacheInv'
    BY <1>0, <2>1, <2>2, <2>3 DEF CacheInv
  <2> QED BY <2>4, <2>5
<1>12. CASE Cached
  BY <1>12 DEF Cached, TurnInv, CacheInv, Between, engineVars
<1>13. CASE CheckQuery
  BY <1>13 DEF CheckQuery, TurnInv, CacheInv, Serving, promptVars, cfgVars
<1>14. CASE Sleep
  BY <1>14 DEF Sleep, TurnInv, CacheInv, Serving, promptVars, cfgVars
<1>15. CASE \/ StartRequest \/ OpenLibrary \/ Fetch \/ PerformQuery \/ PerformProcedure
            \/ PerformOutput \/ PerformNextLibrary \/ PerformOther \/ Replay \/ Finish \/ Report
  <2>1. epc \in Serving
    BY <1>15 DEF StartRequest, OpenLibrary, Fetch, PerformQuery, PerformProcedure, PerformOutput,
                PerformNextLibrary, PerformOther, Replay, Finish, Report, Serving
  <2>2. UNCHANGED <<newQuery, hasDll, ppc, job, snippet>>
    BY <1>15 DEF StartRequest, OpenLibrary, Fetch, PerformQuery, PerformProcedure, PerformOutput,
                PerformNextLibrary, PerformOther, Replay, Finish, Report, engineRest,
                promptVars, cfgVars
  <2> QED BY <2>1, <2>2 DEF TurnInv, CacheInv
<1>16. CASE ClearQuery
  BY <1>16 DEF ClearQuery, TurnInv, CacheInv, Serving, promptVars
<1>17. CASE Release
  BY <1>17 DEF Release, TurnInv, CacheInv, Serving, promptVars, cfgVars
<1>18. CASE UNCHANGED vars
  BY <1>18 DEF vars, TurnInv, CacheInv, promptVars, cfgVars, engineVars
<1> QED BY <1>1, <1>2, <1>3, <1>4, <1>5, <1>6, <1>7, <1>8, <1>9, <1>10, <1>11, <1>12, <1>13,
           <1>14, <1>15, <1>16, <1>17, <1>18 DEF Next, PromptWork, Engine

LEMMA HandOverAlways == ASSUME OneAtATime PROVE Spec => []HandOverInv
<1>1. Init => HandOverInv
  BY DEF Init, HandOverInv, TurnInv, CacheInv, Serving, NoJob
<1>2. TypeOK /\ HandOverInv /\ [Next]_vars => HandOverInv'
  BY HandOverStep
<1> QED BY <1>1, <1>2, TypeCorrect, PTL DEF Spec

\* Every step is a step of Mailbox: one thread's, and its own memory or the owner's.
LEMMA MailboxStep ==
  ASSUME PlainCache, TypeOK, TypeOK', HandOverInv, HandOverInv', [Next]_vars
  PROVE  [Box!MailboxNext]_(Box!mailboxVars)
<1> DEFINE Who == IF newQuery THEN "engine" ELSE "prompt"
           Letter == [n |-> nRecv, p |-> nRecvd, kept |-> kept, flag |-> hasDll,
                      on |-> backend, so |-> dll]
           Letters == [n : Nat, p : Ids, kept : Nat, flag : BOOLEAN, on : AllBackends, so : Nat]
<1>0. Letter' \in Letters
  <2>1. /\ nRecv' \in Nat /\ nRecvd' \in Ids /\ kept' \in Nat
    BY DEF TypeOK, ArraysOK, Ids
  <2>2. hasDll' \in BOOLEAN /\ backend' \in AllBackends /\ dll' \in Nat
    BY DEF TypeOK, CfgOK
  <2> QED BY <2>1, <2>2
<1>1. ASSUME ~newQuery, ~newQuery', UNCHANGED engineVars PROVE Box!MailboxNext
  BY <1>0, <1>1 DEF Box!MailboxNext, Box!Compose
<1>2. ASSUME newQuery, newQuery', UNCHANGED <<promptVars, sent>> PROVE Box!MailboxNext
  BY <1>0, <1>2 DEF Box!MailboxNext, Box!Consume
<1>3. CASE Command \/ KeepPayload \/ DllOff \/ SendCount \/ SendPointer \/ Build \/ Make
  <2>1. ppc \notin {"wake", "cached", "top", "wait"}
    BY <1>3 DEF Command, StartExec, StartCache, StartControl, StartR, StartRR, StartJob,
                SwitchBackend, KeepPayload, DllOff, SendCount, SendPointer, Build, Make
  <2>2. newQuery' = newQuery /\ UNCHANGED engineVars
    BY <1>3 DEF Command, StartExec, StartCache, StartControl, StartR, StartRR, StartJob,
                SwitchBackend, KeepPayload, DllOff, SendCount, SendPointer, Build, Make, cfgVars
  <2>3. ~newQuery
    BY <2>1 DEF HandOverInv, TurnInv
  <2>4. ~newQuery'
    BY <2>2, <2>3
  <2> QED BY <1>1, <2>2, <2>3, <2>4
<1>4. CASE Raise
  <2>1. ~newQuery
    BY <1>4 DEF Raise, HandOverInv, TurnInv
  <2>2. newQuery'
    BY <1>4 DEF Raise
  <2>3. UNCHANGED <<nRecv, nRecvd, kept, hasDll, backend, dll, engineVars>>
    BY <1>4 DEF Raise, arrayVars
  <2>4. Letter' = Letter
    BY <2>3
  <2>5. Who = "prompt" /\ Who' = "engine"
    BY <2>1, <2>2
  <2> QED BY <2>3, <2>4, <2>5 DEF Box!MailboxNext, Box!Deliver
<1>5. CASE Cached
  <2>0. ~HasCode(snippet.queries)
    BY <1>5 DEF Cached, HandOverInv, CacheInv
  <2>1. ~hasDll /\ ~hasDll' /\ dll' = dll
    BY <1>5, <2>0 DEF Cached, EndOfExec, HandOverInv, CacheInv
  <2>2. hasDll' = hasDll
    BY <2>1 DEF TypeOK, CfgOK
  <2>3. UNCHANGED <<nRecv, nRecvd, kept, backend, dll, newQuery, engineVars>>
    BY <1>5, <2>1 DEF Cached, arrayVars
  <2> QED BY <2>2, <2>3 DEF Box!MailboxNext, Box!PromptAlone
<1>6. CASE Top \/ WaitEngine \/ WakeEngine
  <2>1. UNCHANGED <<nRecv, nRecvd, kept, hasDll, backend, dll, newQuery, engineVars>>
    BY <1>6 DEF Top, WaitEngine, WakeEngine, arrayVars, cfgVars
  <2> QED BY <2>1 DEF Box!MailboxNext, Box!PromptAlone
<1>10. CASE \/ Sleep \/ CheckQuery \/ StartRequest \/ OpenLibrary \/ Fetch \/ PerformQuery
            \/ PerformProcedure \/ PerformOutput \/ PerformNextLibrary \/ PerformOther
            \/ Report \/ Release
  <2>1. UNCHANGED <<nRecv, nRecvd, kept, hasDll, backend, dll, newQuery, promptVars, sent>>
    BY <1>10 DEF Sleep, CheckQuery, StartRequest, OpenLibrary, Fetch, PerformQuery,
                 PerformProcedure, PerformOutput, PerformNextLibrary, PerformOther, Report,
                 Release, engineRest, arrayVars, cfgVars
  <2> QED BY <2>1 DEF Box!MailboxNext, Box!EngineAlone
<1>7. CASE Replay \/ Finish
  <2>1. epc \in Serving
    BY <1>7 DEF Replay, Finish, Serving
  <2>2. newQuery /\ newQuery' /\ UNCHANGED <<promptVars, sent>>
    BY <1>7, <2>1 DEF Replay, Finish, HandOverInv, TurnInv, cfgVars
  <2> QED BY <1>2, <2>2
<1>8. CASE ClearQuery
  <2>1. newQuery
    BY <1>8 DEF ClearQuery, HandOverInv, TurnInv, Serving
  <2>2. ~newQuery'
    BY <1>8 DEF ClearQuery
  <2>3. UNCHANGED <<nRecv, nRecvd, kept, hasDll, backend, dll, promptVars, sent>>
    BY <1>8 DEF ClearQuery, arrayVars
  <2>4. Letter' = Letter
    BY <2>3
  <2>5. Who = "engine" /\ Who' = "prompt"
    BY <2>1, <2>2
  <2> QED BY <2>3, <2>4, <2>5 DEF Box!MailboxNext, Box!Reply
<1>9. CASE UNCHANGED vars
  <2>1. UNCHANGED <<nRecv, nRecvd, kept, hasDll, backend, dll, newQuery, promptVars, sent, engineVars>>
    BY <1>9 DEF vars, arrayVars, cfgVars
  <2> QED BY <2>1 DEF Box!mailboxVars
<1> QED BY <1>3, <1>4, <1>5, <1>6, <1>7, <1>8, <1>9, <1>10 DEF Next, PromptWork, Engine

\* With one request per command, and no procedure built once it is raised, the array of messages, its length, the payload that is kept,
\* has_dll, the backend and dll.so have one owner at a time: the engine from `new_query = 1`
\* (prompt.py:389) to `new_query = 0` (server.cpp:611), the prompt otherwise.
THEOREM OneOwner == ASSUME OneAtATime, PlainCache PROVE Spec => RefinesMailbox
<1>1. ASSUME Init PROVE Box!MailboxInit
  <2>1. TypeOK
    BY <1>1, TypeInit
  <2>2. /\ nRecv \in Nat /\ nRecvd \in Ids /\ kept \in Nat
        /\ hasDll \in BOOLEAN /\ backend \in AllBackends /\ dll \in Nat
    BY <2>1 DEF TypeOK, ArraysOK, CfgOK, Ids
  <2>3. ~newQuery
    BY <1>1 DEF Init
  <2> QED BY <2>2, <2>3 DEF Box!MailboxInit
<1>2. TypeOK /\ TypeOK' /\ HandOverInv /\ HandOverInv' /\ [Next]_vars
        => [Box!MailboxNext]_(Box!mailboxVars)
  BY MailboxStep
<1> QED BY <1>1, <1>2, TypeCorrect, HandOverAlways, PTL
        DEF Spec, RefinesMailbox, Box!MailboxSpec

-----------------------------------------------------------------------------
(* What the engine reads. *)

\* n_recv, n_recvd and the kept payload describe one array.
Synced ==
  \/ nRecv = 0
  \/ nRecvd = Stored /\ nRecv <= Len(StoredQueries)
  \/ /\ nRecvd = kept /\ kept \in 1 .. Len(sent)
     /\ nRecv <= Len(sent[kept].queries)

\* They may disagree only in between.
ArrayInv ==
  /\ ppc \in Between =>
       /\ kept = Len(sent) /\ kept \in 1 .. Len(sent)
       /\ sent[kept].queries = job.queries
  /\ ppc = "point" => nRecv = Len(job.queries)
  /\ ppc \notin Between => Synced

LEMMA ArrayStep ==
  ASSUME TypeOK, HandOverInv, ArrayInv, [Next]_vars
  PROVE  ArrayInv'
<1> USE DEF Between
<1>1. CASE Command
  <2>1. /\ ppc = "command" /\ ppc' \notin Between
        /\ UNCHANGED <<sent, kept, nRecv, nRecvd>>
    BY <1>1 DEF Command, StartExec, StartCache, StartControl, StartR, StartRR, StartJob,
                SwitchBackend, arrayVars
  <2> QED BY <2>1 DEF ArrayInv, Synced
<1>2. CASE Top \/ WaitEngine \/ Build \/ Make \/ Raise \/ WakeEngine \/ Cached
  <2>1. /\ ppc \notin Between /\ ppc' \notin Between
        /\ UNCHANGED <<sent, kept, nRecv, nRecvd>>
    BY <1>2 DEF Top, WaitEngine, Build, Make, Raise, WakeEngine, Cached, arrayVars
  <2> QED BY <2>1 DEF ArrayInv, Synced
<1>3. CASE KeepPayload
  <2> DEFINE new == [queries |-> job.queries, code |-> job.code]
  <2>1. /\ Len(sent) \in Nat
        /\ sent' = Append(sent, new) /\ kept' = Len(sent) + 1 /\ job' = job
        /\ ppc' \in {"dllOff", "count"}
    BY <1>3 DEF KeepPayload, TypeOK, ArraysOK
  <2>2. Len(sent') = Len(sent) + 1 /\ sent'[Len(sent) + 1] = new
    BY <2>1 DEF TypeOK, ArraysOK
  <2>3. sent'[kept'].queries = job'.queries
    BY <2>1, <2>2
  <2> QED BY <2>1, <2>2, <2>3 DEF ArrayInv
<1>4. CASE DllOff
  BY <1>4 DEF DllOff, ArrayInv, arrayVars
<1>5. CASE SendCount
  BY <1>5 DEF SendCount, ArrayInv
<1>6. CASE SendPointer
  <2>1. nRecvd' = kept' /\ kept' = kept /\ sent' = sent /\ nRecv' = nRecv
    BY <1>6 DEF SendPointer, ArrayInv
  <2>2. kept \in 1 .. Len(sent) /\ nRecv = Len(sent[kept].queries)
    BY <1>6 DEF SendPointer, ArrayInv
  <2>3. nRecv \in Nat /\ ppc' \notin Between
    BY <1>6 DEF SendPointer, TypeOK, ArraysOK
  <2>4. nRecv <= Len(sent[kept].queries)
    BY <2>2, <2>3
  <2>5. Synced'
    BY <2>1, <2>2, <2>4 DEF Synced
  <2> QED BY <2>3, <2>5 DEF ArrayInv
<1>7. CASE \/ Sleep \/ CheckQuery \/ StartRequest \/ OpenLibrary \/ Fetch \/ PerformQuery
           \/ PerformProcedure \/ PerformOutput \/ PerformNextLibrary \/ PerformOther
           \/ Report \/ ClearQuery \/ Release
  <2>1. UNCHANGED <<ppc, job, sent, kept, nRecv, nRecvd>>
    BY <1>7 DEF Sleep, CheckQuery, StartRequest, OpenLibrary, Fetch, PerformQuery,
                PerformProcedure, PerformOutput, PerformNextLibrary, PerformOther, Report,
                ClearQuery, Release, engineRest, promptVars, arrayVars
  <2> QED BY <2>1 DEF ArrayInv, Synced
<1>8. CASE Replay \/ Finish
  <2>1. newQuery
    BY <1>8 DEF Replay, Finish, HandOverInv, TurnInv, Serving
  <2>2. ppc \notin Between
    BY <2>1 DEF HandOverInv, TurnInv
  <2>3. ppc' = ppc
    BY <1>8 DEF Replay, Finish, promptVars
  <2>4. Synced'
    <3>1. CASE Replay
      <4>1. nRecv' = Len(StoredQueries) /\ nRecvd' = Stored /\ Len(StoredQueries) \in Nat
        BY <3>1, BatchKinds DEF Replay
      <4> QED BY <4>1 DEF Synced
    <3>2. CASE Finish
      BY <3>2 DEF Finish, Synced
    <3> QED BY <1>8, <3>1, <3>2
  <2> QED BY <2>2, <2>3, <2>4 DEF ArrayInv
<1>9. CASE UNCHANGED vars
  BY <1>9 DEF vars, promptVars, arrayVars, ArrayInv, Synced
<1> QED BY <1>1, <1>2, <1>3, <1>4, <1>5, <1>6, <1>7, <1>8, <1>9 DEF Next, PromptWork, Engine

LEMMA ArrayRead == TypeOK /\ HandOverInv /\ ArrayInv => ReadsAlive
<1> SUFFICES ASSUME TypeOK, HandOverInv, ArrayInv, epc = "loop", i < nRecv PROVE Readable
  BY DEF ReadsAlive
<1>1. ppc \notin Between
  BY DEF HandOverInv, TurnInv, Serving, Between
<1>2. Synced
  BY <1>1 DEF ArrayInv
<1>3. i \in Nat /\ nRecv \in Nat /\ nRecv # 0
  BY DEF TypeOK, EngineOK, ArraysOK
<1>4. CASE nRecvd = Stored /\ nRecv <= Len(StoredQueries)
  <2>1. Len(StoredQueries) \in Nat
    BY BatchKinds
  <2>2. i + 1 \in 1 .. Len(StoredQueries)
    BY <1>3, <1>4, <2>1
  <2> QED BY <1>4, <2>2 DEF Readable, ArrayOf
<1>5. CASE nRecvd = kept /\ kept \in 1 .. Len(sent) /\ nRecv <= Len(sent[kept].queries)
  <2>1. sent[kept] \in [queries : Queries, code : Nat]
    BY <1>5, ElementOf DEF TypeOK, ArraysOK
  <2>2. Len(sent[kept].queries) \in Nat
    BY <2>1, BatchKinds
  <2>3. i + 1 \in 1 .. Len(sent[kept].queries)
    BY <1>3, <1>5, <2>2
  <2>4. nRecvd # Stored /\ kept # None
    BY <1>5 DEF Stored, None, TypeOK, ArraysOK
  <2> QED BY <1>5, <2>3, <2>4 DEF Readable, ArrayOf
<1> QED BY <1>2, <1>3, <1>4, <1>5 DEF Synced

\* With one request per command the engine reads only messages of an array that the prompt
\* still keeps (prompt.py:495), and only inside it.
THEOREM ReadsOnlyLiveMessages == ASSUME OneAtATime PROVE Spec => []ReadsAlive
<1>1. Init => ArrayInv
  BY DEF Init, ArrayInv, Synced, Between
<1>2. TypeOK /\ HandOverInv /\ ArrayInv /\ [Next]_vars => ArrayInv'
  BY ArrayStep
<1> QED BY <1>1, <1>2, ArrayRead, TypeCorrect, HandOverAlways, PTL DEF Spec

-----------------------------------------------------------------------------
(* What has been performed.                                                  *)

\* The newest array is the only one the engine can still be given.
Newest == Len(sent)

\* A procedure is run by a message of its own: nothing follows it in its array.
RunsAlone(q) == \A k \in 1 .. Len(q) : q[k] = "E" => q = <<"E">>
Texts == {job.queries, snippet.queries} \cup {sent[a].queries : a \in 1 .. Newest}
RunsNone(q) == \A k \in 1 .. Len(q) : q[k] # "E"
AloneInv == RunsNone(snippet.queries) /\ \A q \in Texts : RunsAlone(q)

Replaying == origin # None
Inside == {"open", "loop", "perform", "finish"}
Playing == epc \in Inside \/ (epc = "start" /\ Replaying)
ThisRun(d) == d.id = Newest /\ d.stored = Replaying
Reached == IF epc = "start" THEN 0 ELSE i

\* An array that n_recv still offers has not been touched, unless the engine is in it.
Untouched == \A d \in done : d.id < Newest
OfferInv ==
  /\ \A d \in done : d.id \in 1 .. Newest
  /\ ppc \in Between => Untouched
  /\ ppc \notin Between => nRecv = 0 \/ nRecv = Len(ArrayOf(nRecvd))
  /\ ppc \notin Between /\ ~Playing /\ nRecv > 0 => nRecvd = Newest /\ Newest > 0 /\ Untouched
  /\ ppc \in {"build", "make", "raise"} /\ job.kind # "rr" =>
       nRecvd = Newest /\ Newest > 0 /\ nRecv = Len(sent[Newest].queries)

\* What the engine has performed of the messages it is in: each of the first ones, none after.
PlayInv ==
  Playing =>
    /\ Live /\ Newest > 0 /\ origin \in {None, Newest}
    /\ nRecvd = (IF Replaying THEN Stored ELSE Newest) /\ nRecv = Len(ArrayOf(nRecvd))
    /\ \A d \in done : d.id = Newest /\ d.stored => Replaying
    /\ \A d \in done : ThisRun(d) => d.at \in 1 .. Reached /\ d.kind = ArrayOf(nRecvd)[d.at]
    /\ \A k \in 1 .. Reached : \E d \in done : ThisRun(d) /\ d.at = k
    /\ Replaying => /\ sent[Newest].queries = <<"E">>
                    /\ \E d \in done : d.id = Newest /\ ~d.stored /\ d.at = 1
    /\ ~Replaying => \A k \in 1 .. Reached : sent[Newest].queries[k] # "E"
    /\ epc \in Inside => nRecv > 0 /\ i <= nRecv
    /\ epc = "open" => i = 0
    /\ epc = "perform" => i < nRecv /\ cur = [id |-> nRecvd, at |-> i + 1,
                                              kind |-> ArrayOf(nRecvd)[i + 1]]
    /\ epc = "finish" => i = nRecv

\* A released array has been performed, or it is the one on offer or in hand.
Complete(a) ==
  /\ DOMAIN sent[a].queries \subseteq {d.at : d \in {e \in done : e.id = a /\ ~e.stored}}
  /\ sent[a].queries = <<"E">> =>
       DOMAIN StoredQueries \subseteq {d.at : d \in {e \in done : e.id = a /\ e.stored}}
AnswerInv ==
  \A a \in released :
    /\ a \in 1 .. Newest
    /\ \/ Complete(a)
       \/ /\ a = Newest /\ newQuery /\ Live /\ epc \notin {"report", "clear"}
          /\ ~Playing => nRecvd = a /\ nRecv = Len(sent[a].queries)

ServeInv == AloneInv /\ OfferInv /\ PlayInv /\ AnswerInv

-----------------------------------------------------------------------------
(* What the error of a statement does.                                       *)

\* No two consumers share a query: the compiler emits one P or one O for a statement.
OneConsumerOf(q) ==
  \A j, k \in 1 .. Len(q) :
    j < k /\ {q[j], q[k]} \subseteq {"P", "O"} /\ (\E l \in 1 .. j - 1 : IsQuery(q[l]))
      => \E l \in j + 1 .. k - 1 : IsQuery(q[l])
OneConsumer == \A q \in Batches \cup {StoredQueries} : OneConsumerOf(q)
ConsumerInv == \A q \in Texts : OneConsumerOf(q)

\* last_error is set by a query of this run, and stays until a consumer asks for it.
ErrInv ==
  /\ err => epc \in {"loop", "perform", "finish", "report"}
  /\ epc \in {"loop", "perform"} =>
       /\ err => \E e \in done : ThisRun(e) /\ IsQuery(e.kind) /\ e.out = "failed"
       /\ \A e \in done :
            /\ ThisRun(e) /\ IsQuery(e.kind) /\ e.out # "ran"
            /\ \A k \in e.at + 1 .. i : ArrayOf(nRecvd)[k] \notin {"Q", "I", "P", "O"}
            => err

-----------------------------------------------------------------------------
(* Which library the engine opens.                                           *)

\* The builds succeed, and no exec leaves its library unbuilt.
AlwaysBuilds == BuildMayFail = FALSE /\ "exec_n" \notin Commands

\* A recorded procedure names the library before it calls into it.
LibraryFirst ==
  \A k \in 1 .. Len(StoredQueries) :
    StoredQueries[k] = "P" => \E j \in 1 .. k - 1 : StoredQueries[j] = "N"

InExec == job.kind = "exec" /\ ppc \in {"keep", "count", "point", "build"}
Handed == ppc \in Between \cup {"build", "make", "raise", "wake", "cached"} /\ job.kind # "rr"

\* What kind of command works at a position.
KindInv ==
  /\ job.kind = "exec" => job.build
  /\ job.kind \in {"cache", "control"} => ~HasCode(job.queries)
  /\ ppc \in {"keep", "count", "point"} => job.kind \in {"exec", "cache", "control", "r"}
  /\ ppc = "dllOff" => job.kind \in {"cache", "control"}

\* The code of the last queries is in out.cpp, from the end of their exec on.
SnippetInv ==
  /\ InExec => /\ job.code = Newest + IF ppc = "keep" THEN 1 ELSE 0
               /\ snippet.queries = job.queries /\ snippet.code = job.code
  /\ ~InExec => /\ HasCode(snippet.queries) => outCpp = snippet.code /\ outCpp # None
                /\ snippet.code <= Newest + IF ppc = "keep" /\ job.kind = "cache" THEN 1 ELSE 0
  /\ job.kind = "r" /\ ppc \in {"keep", "count", "point", "make"} =>
       job.queries = snippet.queries /\ job.code = snippet.code

\* The newest array is that of the command at work.
SentInv ==
  /\ Handed => Newest > 0 /\ sent[Newest] = [queries |-> job.queries, code |-> job.code]
  /\ job.kind = "r" /\ ppc \in {"count", "point", "make"} => job.code < Newest

\* Out of a command dll.so is the library of the newest array, if that calls procedures.
LibraryInv ==
  ppc \notin Between \cup {"build", "make"} /\ Newest > 0 /\ HasCode(sent[Newest].queries) =>
    /\ dll = sent[Newest].code /\ dll # None
    /\ sent[Newest].code = Newest => hasDll

BuildInv == KindInv /\ SnippetInv /\ SentInv /\ LibraryInv

HandleInv ==
  epc \in {"loop", "perform"} =>
    /\ ~Replaying /\ HasCode(sent[Newest].queries) =>
         /\ handle \in {None, sent[Newest].code, pinned}
         /\ sent[Newest].code = Newest => handle # None
    /\ Replaying /\ (\E k \in 1 .. i : StoredQueries[k] = "N") => handle = Stored


-----------------------------------------------------------------------------
(* The messages of a step.                                                   *)

\* What a command does besides choosing its job.
LEMMA CommandStep ==
  ASSUME Command
  PROVE  /\ ppc = "command" /\ ppc' \in {"keep", "raise", "top"}
         /\ ppc' = "raise" => job'.kind = "rr"
         /\ UNCHANGED <<sent, kept, nRecv, nRecvd, newQuery, hasDll, dll, outCpp, epc, i, cur, handle,
                       origin, err, done, released>>
         /\ job'.queries \in Batches \cup {<<>>, <<"C">>, <<"E">>, job.queries, snippet.queries}
         /\ snippet'.queries \in Batches \cup {<<>>, snippet.queries}
<1>0. /\ ppc = "command"
      /\ UNCHANGED <<sent, kept, nRecv, nRecvd, newQuery, hasDll, dll, outCpp, epc, i, cur, handle,
                    origin, err, done, released>>
  BY DEF Command, StartExec, StartCache, StartControl, StartR, StartRR, StartJob, SwitchBackend,
         arrayVars, cfgVars, engineVars, countVars
<1>1. ASSUME NEW q \in Batches, NEW build \in BOOLEAN, StartExec(q, build)
      PROVE  ppc' = "keep" /\ job'.queries = q /\ snippet'.queries = q
  BY <1>1 DEF StartExec, StartJob
<1>2. ASSUME NEW n \in CacheRuns, NEW q \in BesideCache, NEW build \in BOOLEAN, StartCache(n, q, build)
      PROVE  ppc' = "keep" /\ job'.queries = <<"C">> /\ snippet'.queries \in Batches \cup {<<>>}
  BY <1>2, PromptAssumption DEF StartCache, StartJob
<1>3. ASSUME NEW m \in {"C", "E"}, StartControl(m)
      PROVE  ppc' = "keep" /\ job'.queries \in {<<"C">>, <<"E">>} /\ snippet' = snippet
  <2>1. ppc' = "keep" /\ job'.queries = <<m>> /\ snippet' = snippet
    BY <1>3 DEF StartControl, StartJob
  <2> QED BY <2>1
<1>4. ASSUME StartR
      PROVE  ppc' = "keep" /\ job'.queries = snippet.queries /\ snippet' = snippet
  BY <1>4 DEF StartR, StartJob
<1>5. ASSUME StartRR
      PROVE  ppc' = "raise" /\ job'.kind = "rr" /\ job'.queries = <<>> /\ snippet' = snippet
  BY <1>5 DEF StartRR, StartJob
<1>6. ASSUME NEW b \in Backends, SwitchBackend(b)
      PROVE  ppc' = "top" /\ job' = job /\ snippet' = snippet
  BY <1>6 DEF SwitchBackend
<1> QED BY <1>0, <1>1, <1>2, <1>3, <1>4, <1>5, <1>6 DEF Command

\* Every new text is a batch, a control message or the last queries with a trigger's activation.
LEMMA TextsStep ==
  ASSUME TypeOK, [Next]_vars, NEW q \in Texts'
  PROVE  \/ q \in Texts \cup Batches \cup {<<>>, <<"C">>, <<"E">>}
         \/ q = Append(snippet.queries, "T")
<1>1. CASE Command
  BY <1>1, CommandStep DEF Texts, Newest
<1>2. CASE KeepPayload
  <2>1. /\ sent' = Append(sent, [queries |-> job.queries, code |-> job.code])
        /\ UNCHANGED <<job, snippet>> /\ sent \in Seq([queries : Queries, code : Nat])
    BY <1>2 DEF KeepPayload, TypeOK, ArraysOK
  <2>2. \A a \in 1 .. Len(sent') :
          sent'[a].queries = job.queries \/ (a \in 1 .. Len(sent) /\ sent'[a] = sent[a])
    BY <2>1
  <2> QED BY <2>1, <2>2 DEF Texts, Newest
<1>3. CASE Build \/ Cached
  <2>1. /\ UNCHANGED <<job, sent>>
        /\ snippet'.queries \in {snippet.queries, Append(snippet.queries, "T")}
    BY <1>3 DEF Build, Cached, EndOfExec, arrayVars, TypeOK, PromptOK
  <2> QED BY <2>1 DEF Texts, Newest
<1>4. CASE WakeEngine
  <2>1. job'.queries = job.queries /\ UNCHANGED <<snippet, sent>>
    BY <1>4 DEF WakeEngine, arrayVars, TypeOK, PromptOK
  <2> QED BY <2>1 DEF Texts, Newest
<1>5. CASE UNCHANGED <<job, snippet, sent>>
  BY <1>5 DEF Texts, Newest
<1>6. CASE Top \/ WaitEngine \/ DllOff \/ SendCount \/ SendPointer \/ Make \/ Raise
  BY <1>5, <1>6 DEF Top, WaitEngine, DllOff, SendCount, SendPointer, Make, Raise, arrayVars
<1>7. CASE Engine \/ UNCHANGED vars
  BY <1>5, <1>7 DEF Engine, Sleep, CheckQuery, StartRequest, OpenLibrary, Fetch, PerformQuery,
                PerformProcedure, PerformOutput, PerformNextLibrary, PerformOther, Replay, Finish,
                Report, ClearQuery, Release, engineRest, promptVars, arrayVars, vars
<1> QED BY <1>1, <1>2, <1>3, <1>4, <1>6, <1>7 DEF Next, PromptWork

LEMMA TextsType == TypeOK => Texts \subseteq Queries /\ Newest \in Nat
<1> SUFFICES ASSUME TypeOK PROVE Texts \subseteq Queries /\ Newest \in Nat
  OBVIOUS
<1>1. ASSUME NEW a \in 1 .. Newest PROVE sent[a].queries \in Queries
  <2>1. sent[a] \in [queries : Queries, code : Nat]
    BY <1>1, ElementOf DEF TypeOK, ArraysOK, Newest
  <2> QED BY <2>1
<1>2. job.queries \in Queries /\ snippet.queries \in Queries
  BY DEF TypeOK, PromptOK
<1> QED BY <1>1, <1>2 DEF Texts, TypeOK, ArraysOK, Newest

LEMMA Appended ==
  ASSUME NEW p \in Queries
  PROVE  /\ Len(p) \in Nat /\ Len(Append(p, "T")) = Len(p) + 1
         /\ \A k \in 1 .. Len(p) : Append(p, "T")[k] = p[k]
         /\ Append(p, "T")[Len(p) + 1] = "T"
BY DEF Queries

LEMMA SnippetStep ==
  ASSUME TypeOK, [Next]_vars
  PROVE  snippet'.queries \in {snippet.queries, Append(snippet.queries, "T"), <<>>} \cup Batches
<1>1. CASE Command
  BY <1>1, CommandStep
<1>2. CASE Build \/ Cached
  BY <1>2 DEF Build, Cached, EndOfExec, TypeOK, PromptOK
<1>3. CASE \/ KeepPayload \/ WakeEngine \/ Top \/ WaitEngine \/ DllOff \/ SendCount \/ SendPointer
           \/ Make \/ Raise
  BY <1>3 DEF KeepPayload, WakeEngine, Top, WaitEngine, DllOff, SendCount, SendPointer, Make, Raise
<1>4. CASE Engine \/ UNCHANGED vars
  BY <1>4 DEF Engine, Sleep, CheckQuery, StartRequest, OpenLibrary, Fetch, PerformQuery,
              PerformProcedure, PerformOutput, PerformNextLibrary, PerformOther, Replay, Finish,
              Report, ClearQuery, Release, engineRest, promptVars, vars
<1> QED BY <1>1, <1>2, <1>3, <1>4 DEF Next, PromptWork

LEMMA BatchRunsNone ==
  /\ \A q \in Batches : RunsNone(q)
  /\ \A k \in 1 .. Len(StoredQueries) : StoredQueries[k] # "E"
<1>1. ASSUME NEW q \in Batches PROVE RunsNone(q)
  <2>1. q \in Seq({"Q", "I", "P", "O"})
    BY PromptAssumption
  <2>2. \A k \in 1 .. Len(q) : q[k] \in {"Q", "I", "P", "O"}
    BY <2>1
  <2> QED BY <2>2 DEF RunsNone
<1>2. StoredQueries \in Seq({"Q", "I", "P", "O", "N"})
  BY PromptAssumption
<1>3. \A k \in 1 .. Len(StoredQueries) : StoredQueries[k] \in {"Q", "I", "P", "O", "N"}
  BY <1>2
<1> QED BY <1>1, <1>3

LEMMA AloneStep ==
  ASSUME TypeOK, AloneInv, [Next]_vars
  PROVE  AloneInv'
<1>1. RunsNone(Append(snippet.queries, "T"))
  <2>1. snippet.queries \in Queries /\ RunsNone(snippet.queries)
    BY DEF AloneInv, TypeOK, PromptOK
  <2> DEFINE p == snippet.queries
             r == Append(p, "T")
  <2>2. p \in Queries /\ RunsNone(p)
    BY <2>1
  <2> HIDE DEF p
  <2>3. \A k \in 1 .. Len(r) : k \in 1 .. Len(p) \/ k = Len(p) + 1
    BY <2>2, Appended
  <2>4. \A k \in 1 .. Len(r) : r[k] # "E"
    BY <2>2, <2>3, Appended DEF RunsNone
  <2> QED BY <2>4 DEF RunsNone, p
<1>2. \A q : RunsNone(q) => RunsAlone(q)
  BY DEF RunsNone, RunsAlone
<1>3. RunsNone(<<>>)
  BY DEF RunsNone
<1>4. RunsNone(snippet'.queries)
  BY <1>1, <1>3, SnippetStep, BatchRunsNone DEF AloneInv
<1>5. ASSUME NEW q \in Texts' PROVE RunsAlone(q)
  <2>1. RunsAlone(<<"C">>) /\ RunsAlone(<<"E">>)
    BY DEF RunsAlone
  <2> QED BY <1>1, <1>2, <1>3, <1>5, <2>1, TextsStep, BatchRunsNone DEF AloneInv
<1> QED BY <1>4, <1>5 DEF AloneInv

LEMMA ConsumerStep ==
  ASSUME OneConsumer, TypeOK, ConsumerInv, [Next]_vars
  PROVE  ConsumerInv'
<1> SUFFICES ASSUME NEW q \in Texts' PROVE OneConsumerOf(q)
  BY DEF ConsumerInv
<1>1. CASE q \in Texts \cup Batches
  BY <1>1 DEF ConsumerInv, OneConsumer
<1>2. CASE q \in {<<>>, <<"C">>, <<"E">>}
  BY <1>2 DEF OneConsumerOf
<1>3. CASE q = Append(snippet.queries, "T")
  <2> DEFINE p == snippet.queries
  <2>1. p \in Queries /\ OneConsumerOf(p)
    BY TextsType DEF ConsumerInv, Texts
  <2> HIDE DEF p
  <2>2. q = Append(p, "T")
    BY <1>3 DEF p
  <2> SUFFICES ASSUME NEW j \in 1 .. Len(q), NEW k \in 1 .. Len(q), j < k,
                      {q[j], q[k]} \subseteq {"P", "O"}, \E l \in 1 .. j - 1 : IsQuery(q[l])
               PROVE  \E l \in j + 1 .. k - 1 : IsQuery(q[l])
    BY DEF OneConsumerOf
  <2>3. k \in 1 .. Len(p) /\ j \in 1 .. Len(p) /\ Len(p) \in Nat
    BY <2>1, <2>2, Appended
  <2>4. \A l \in 1 .. Len(p) : q[l] = p[l]
    BY <2>1, <2>2, Appended
  <2>5. \E l \in j + 1 .. k - 1 : IsQuery(p[l])
    BY <2>1, <2>3, <2>4 DEF OneConsumerOf
  <2> QED BY <2>3, <2>4, <2>5
<1> QED BY <1>1, <1>2, <1>3, TextsStep


-----------------------------------------------------------------------------
(* The order and the completeness of what is performed.                      *)

LEMMA ServeTypes ==
  ASSUME TypeOK
  PROVE  /\ Newest \in Nat /\ i \in Nat /\ nRecv \in Nat /\ Len(StoredQueries) \in Nat
         /\ ArrayOf(Stored) = StoredQueries /\ ArrayOf(Newest) = sent[Newest].queries
         /\ Stored # Newest /\ Stored # None
         /\ \A a \in 1 .. Newest : /\ sent[a] \in [queries : Queries, code : Nat]
                                   /\ Len(sent[a].queries) \in Nat
                                   /\ DOMAIN sent[a].queries = 1 .. Len(sent[a].queries)
         /\ DOMAIN StoredQueries = 1 .. Len(StoredQueries)
<1>1. Newest \in Nat /\ i \in Nat /\ nRecv \in Nat
  BY DEF TypeOK, ArraysOK, EngineOK, Newest
<1>2. Len(StoredQueries) \in Nat /\ DOMAIN StoredQueries = 1 .. Len(StoredQueries)
  BY BatchKinds DEF Queries
<1>3. Stored # Newest /\ Stored # None
  BY <1>1 DEF Stored, None
<1>4. ASSUME NEW a \in 1 .. Newest
      PROVE  /\ sent[a] \in [queries : Queries, code : Nat]
             /\ Len(sent[a].queries) \in Nat
             /\ DOMAIN sent[a].queries = 1 .. Len(sent[a].queries)
  <2>1. sent[a] \in [queries : Queries, code : Nat]
    BY <1>4, ElementOf DEF TypeOK, ArraysOK, Newest
  <2>2. sent[a].queries \in Seq(Kinds)
    BY <2>1 DEF Queries
  <2> QED BY <2>1, <2>2
<1> QED BY <1>1, <1>2, <1>3, <1>4 DEF ArrayOf

\* Before the request is raised nothing is outstanding.
LEMMA Quiet ==
  ASSUME TurnInv, AnswerInv,
         ppc \in {"command", "keep", "dllOff", "count", "point", "build", "make", "raise"}
  PROVE  ~newQuery /\ ~Playing /\ epc \notin Serving /\ \A a \in released : a \in 1 .. Newest /\ Complete(a)
BY DEF TurnInv, AnswerInv, Playing, Inside, Serving

\* While the engine serves a request the prompt is past the end of its command.
LEMMA Busy ==
  ASSUME TurnInv, epc \in Serving
  PROVE  newQuery /\ ppc \in {"wake", "cached", "top", "wait"} /\ ppc \notin Between
BY DEF TurnInv, Between

\* What was performed stays performed.
LEMMA CompleteFrame ==
  ASSUME NEW a, Complete(a), sent'[a] = sent[a], done \subseteq done'
  PROVE  Complete(a)'
BY DEF Complete

\* A step of the prompt that hands nothing over.
LEMMA ServePrompt ==
  ASSUME TypeOK, TurnInv, OfferInv, PlayInv, AnswerInv,
         UNCHANGED <<sent, nRecv, nRecvd, done, released, epc, i, cur, origin, newQuery>>,
         backend' = backend \/ ppc = "command",
         ppc \notin Between, ppc' \notin Between,
         ppc' \in {"build", "make", "raise"} =>
           job'.kind = "rr" \/ (ppc \in {"build", "make", "raise"} /\ job.kind # "rr")
  PROVE  OfferInv' /\ PlayInv' /\ AnswerInv'
<1>1. (Playing' <=> Playing) /\ (Newest' = Newest)
  BY DEF Playing, Inside, Replaying, Newest
<1>2. OfferInv'
  BY <1>1 DEF OfferInv, Untouched, Newest, ArrayOf
<1>3. PlayInv'
  <2>1. CASE Playing
    <3>1. ppc # "command"
      BY <2>1 DEF TurnInv, Playing, Inside, Serving
    <3>2. backend' = backend
      BY <3>1
    <3> QED BY <2>1, <3>2 DEF PlayInv, Playing, Inside, Replaying, Newest, ThisRun, Reached, ArrayOf, Live
  <2>2. CASE ~Playing
    BY <1>1, <2>2 DEF PlayInv
  <2> QED BY <2>1, <2>2
<1>4. AnswerInv'
  <2>1. \A a : Complete(a) => Complete(a)'
    BY CompleteFrame
  <2>2. CASE ppc = "command"
    <3>1. \A a \in released : a \in 1 .. Newest /\ Complete(a)
      BY <2>2, Quiet
    <3> QED BY <1>1, <2>1, <3>1 DEF AnswerInv
  <2>3. CASE backend' = backend
    BY <1>1, <2>1, <2>3 DEF AnswerInv, Live
  <2> QED BY <2>2, <2>3
<1> QED BY <1>2, <1>3, <1>4

LEMMA ServeKeep ==
  ASSUME TypeOK, TurnInv, OfferInv, PlayInv, AnswerInv, KeepPayload
  PROVE  OfferInv' /\ PlayInv' /\ AnswerInv'
<1> DEFINE new == [queries |-> job.queries, code |-> job.code]
<1>1. /\ sent' = Append(sent, new) /\ UNCHANGED <<nRecv, nRecvd, done, released, epc, origin>>
      /\ ppc' \in Between /\ ppc = "keep"
  BY DEF KeepPayload, cfgVars, engineVars, countVars, Between
<1>2. /\ Newest \in Nat /\ Newest' = Newest + 1 /\ \A a \in 1 .. Newest : sent'[a] = sent[a]
  BY <1>1 DEF Newest, TypeOK, ArraysOK
<1>3. ~Playing /\ \A a \in released : a \in 1 .. Newest /\ Complete(a)
  BY <1>1, Quiet
<1>4. ~Playing'
  BY <1>1, <1>3 DEF Playing, Inside, Replaying
<1>5. OfferInv'
  BY <1>1, <1>2 DEF OfferInv, Untouched, Between
<1>6. AnswerInv'
  <2>1. ASSUME NEW a \in released PROVE a \in 1 .. Newest' /\ Complete(a)'
    <3>1. sent'[a] = sent[a] /\ Complete(a) /\ done \subseteq done'
      BY <1>1, <1>2, <1>3
    <3> QED BY <1>2, <1>3, <3>1, CompleteFrame
  <2> QED BY <1>1, <2>1 DEF AnswerInv
<1> QED BY <1>4, <1>5, <1>6 DEF PlayInv

\* The three stores of send_to_server and receive_args.
LEMMA ServeSend ==
  ASSUME TypeOK, TurnInv, ArrayInv, OfferInv, PlayInv, AnswerInv, DllOff \/ SendCount \/ SendPointer
  PROVE  OfferInv' /\ PlayInv' /\ AnswerInv'
<1>1. /\ UNCHANGED <<sent, job, done, released, epc, origin>> /\ ppc \in Between
      /\ ppc \in {"dllOff", "count", "point"}
  BY DEF DllOff, SendCount, SendPointer, engineVars, countVars, arrayVars, Between
<1>2. ~Playing /\ \A a \in released : a \in 1 .. Newest /\ Complete(a)
  BY <1>1, Quiet
<1>3. ~Playing' /\ Newest' = Newest
  BY <1>1, <1>2 DEF Playing, Inside, Replaying, Newest
<1>4. AnswerInv'
  <2>1. ASSUME NEW a \in released PROVE Complete(a)'
    BY <1>1, <1>2, <2>1, CompleteFrame
  <2> QED BY <1>1, <1>2, <1>3, <2>1 DEF AnswerInv
<1>5. OfferInv'
  <2>1. CASE DllOff \/ SendCount
    <3>1. ppc' \in Between
      BY <2>1 DEF DllOff, SendCount, Between
    <3> QED BY <1>1, <1>3, <3>1 DEF OfferInv, Untouched, Between
  <2>2. CASE SendPointer
    <3>1. nRecvd' = Newest /\ nRecv' = nRecv
      BY <2>2 DEF SendPointer, Newest
    <3>2. nRecv = Len(sent[Newest].queries) /\ Newest > 0
      BY <2>2 DEF SendPointer, ArrayInv, Between, Newest
    <3>3. ArrayOf(nRecvd)' = sent[Newest].queries
      BY <1>1, <3>1, ServeTypes DEF ArrayOf
    <3> QED BY <1>1, <1>3, <3>1, <3>2, <3>3 DEF OfferInv, Untouched, Between
  <2> QED BY <2>1, <2>2
<1> QED BY <1>3, <1>4, <1>5 DEF PlayInv

LEMMA ServeRaise ==
  ASSUME TypeOK, TurnInv, OfferInv, PlayInv, AnswerInv, Raise
  PROVE  OfferInv' /\ PlayInv' /\ AnswerInv'
<1>1. /\ UNCHANGED <<sent, nRecv, nRecvd, done, epc, origin, backend>> /\ newQuery'
      /\ ppc = "raise" /\ ppc' = "wake"
      /\ released' = IF Live /\ job.kind # "rr" THEN released \cup {Len(sent)} ELSE released
  BY DEF Raise, arrayVars, engineVars
<1>2. ~Playing /\ epc \notin Serving /\ \A a \in released : a \in 1 .. Newest /\ Complete(a)
  BY <1>1, Quiet
<1>3. ~Playing' /\ Newest' = Newest
  BY <1>1, <1>2 DEF Playing, Inside, Replaying, Newest
<1>4. OfferInv'
  BY <1>1, <1>2, <1>3 DEF OfferInv, Untouched, Between, Newest, ArrayOf
<1>5. \A a \in released : a \in 1 .. Newest' /\ Complete(a)'
  BY <1>1, <1>2, <1>3, CompleteFrame
<1>6. ASSUME NEW a \in released' \ released
      PROVE  /\ a = Newest /\ a > 0 /\ Live' /\ epc' \notin {"report", "clear"}
             /\ nRecvd' = a /\ nRecv' = Len(sent'[a].queries)
  BY <1>1, <1>2, <1>6 DEF OfferInv, Newest, Live, Serving
<1>7. AnswerInv'
  <2>1. Newest \in Nat
    BY ServeTypes
  <2> QED BY <1>1, <1>3, <1>5, <1>6, <2>1 DEF AnswerInv
<1> QED BY <1>3, <1>4, <1>7 DEF PlayInv


\* Steps of the engine outside the messages.
LEMMA ServeOutside ==
  ASSUME TypeOK, TurnInv, OfferInv, PlayInv, AnswerInv,
         Sleep \/ CheckQuery \/ Report \/ Release \/ ClearQuery
  PROVE  OfferInv' /\ PlayInv' /\ AnswerInv'
<1>1. /\ UNCHANGED <<sent, nRecv, nRecvd, done, released, ppc, job, backend>>
      /\ epc \in {"sleep", "check", "report", "release", "clear"}
      /\ epc' \in {"check", "start", "release", "clear", "sleep"}
      /\ epc' = "start" => ~Replaying'
      /\ epc' = "clear" => epc = "report"
      /\ newQuery' = newQuery \/ epc = "clear"
  BY DEF Sleep, CheckQuery, Report, Release, ClearQuery, arrayVars, cfgVars, promptVars, countVars,
         Replaying
<1>2. ~Playing /\ ~Playing' /\ Newest' = Newest
  BY <1>1 DEF Playing, Inside, Newest
<1>3. OfferInv'
  BY <1>1, <1>2 DEF OfferInv, Untouched, Newest, ArrayOf
<1>4. \A a \in released : Complete(a) => Complete(a)'
  BY <1>1, CompleteFrame
<1>5. CASE epc \in {"report", "clear"}
  BY <1>1, <1>2, <1>3, <1>4, <1>5 DEF AnswerInv, PlayInv
<1>6. CASE epc \notin {"report", "clear"}
  BY <1>1, <1>2, <1>3, <1>4, <1>6 DEF AnswerInv, PlayInv, Live
<1> QED BY <1>5, <1>6

\* Until a message is performed a run has none.
LEMMA FirstOfRun ==
  ASSUME PlayInv, Playing, Reached = 0
  PROVE  \A d \in done : ~ThisRun(d)
BY DEF PlayInv

LEMMA ServeStart ==
  ASSUME TypeOK, TurnInv, OfferInv, PlayInv, AnswerInv, StartRequest
  PROVE  OfferInv' /\ PlayInv' /\ AnswerInv'
<1>1. /\ UNCHANGED <<sent, nRecv, nRecvd, done, released, ppc, job, backend, newQuery, origin, cur>>
      /\ epc = "start" /\ i' = 0
      /\ epc' = IF ~Live THEN "clear" ELSE IF nRecv > 0 THEN "open" ELSE "report"
  BY DEF StartRequest, arrayVars, cfgVars, promptVars, countVars
<1>2. /\ newQuery /\ ppc \notin Between /\ ppc \notin {"build", "make", "raise"}
      /\ Newest' = Newest /\ (Live' <=> Live) /\ Replaying' = Replaying
  BY <1>1, Busy DEF Serving, Newest, Live, Replaying
<1>3. \A a \in released : Complete(a) => Complete(a)'
  BY <1>1, CompleteFrame
<1>4. CASE ~Live
  <2>1. ~Playing /\ ~Playing'
    BY <1>1, <1>4 DEF PlayInv, Playing, Inside
  <2>2. \A a \in released : Complete(a) /\ a \in 1 .. Newest
    BY <1>4 DEF AnswerInv
  <2>3. OfferInv'
    BY <1>1, <1>2, <2>1 DEF OfferInv, Untouched, Newest, ArrayOf
  <2> QED BY <1>1, <1>2, <1>3, <2>1, <2>2, <2>3 DEF AnswerInv, PlayInv
<1>5. CASE Live /\ nRecv > 0
  <2>1. Playing' /\ epc' = "open" /\ Reached' = 0
    BY <1>1, <1>5 DEF Playing, Inside, Reached
  <2>2. OfferInv'
    BY <1>1, <1>2, <2>1 DEF OfferInv, Untouched, Newest, ArrayOf
  <2>3. AnswerInv'
    BY <1>1, <1>2, <1>3, <1>5, <2>1 DEF AnswerInv
  <2>4. PlayInv'
    <3>1. CASE Playing
      <4>1. /\ Newest > 0 /\ origin \in {None, Newest} /\ Replaying
            /\ nRecvd = (IF Replaying THEN Stored ELSE Newest) /\ nRecv = Len(ArrayOf(nRecvd))
            /\ \A d \in done : ~ThisRun(d)
            /\ Replaying => /\ sent[Newest].queries = <<"E">>
                            /\ \E d \in done : d.id = Newest /\ ~d.stored /\ d.at = 1
        BY <1>1, <3>1, FirstOfRun DEF PlayInv, Playing, Inside, Reached
      <4>2. \A d : ThisRun(d)' <=> ThisRun(d)
        BY <1>2 DEF ThisRun
      <4>3. ArrayOf(nRecvd)' = ArrayOf(nRecvd)
        BY <1>1 DEF ArrayOf
      <4>4. \A k \in 1 .. 0 : FALSE
        OBVIOUS
      <4> QED BY <1>1, <1>2, <1>5, <2>1, <4>1, <4>2, <4>3, <4>4, ServeTypes DEF PlayInv
    <3>2. CASE ~Playing
      <4>1. origin = None /\ ~Replaying /\ nRecvd = Newest /\ Newest > 0 /\ Untouched
            /\ nRecv = Len(ArrayOf(nRecvd))
        BY <1>1, <1>2, <1>5, <3>2 DEF OfferInv, Playing, Replaying
      <4>2. \A d \in done : ~ThisRun(d)' /\ d.id # Newest
        BY <1>2, <4>1, ServeTypes DEF Untouched, ThisRun, OfferInv
      <4>3. ArrayOf(nRecvd)' = ArrayOf(nRecvd)
        BY <1>1 DEF ArrayOf
      <4>4. \A k \in 1 .. 0 : FALSE
        OBVIOUS
      <4> QED BY <1>1, <1>2, <1>5, <2>1, <4>1, <4>2, <4>3, <4>4, ServeTypes DEF PlayInv
    <3> QED BY <3>1, <3>2
  <2> QED BY <2>2, <2>3, <2>4
<1>6. CASE Live /\ ~(nRecv > 0)
  <2>1. ~Playing' /\ epc' = "report" /\ nRecv = 0
    BY <1>1, <1>6, ServeTypes DEF Playing, Inside
  <2>2. OfferInv'
    BY <1>1, <1>2, <2>1 DEF OfferInv, Untouched, Newest, ArrayOf
  <2>3. ASSUME NEW a \in released PROVE a \in 1 .. Newest /\ Complete(a)
    <3>1. CASE Complete(a)
      BY <3>1 DEF AnswerInv
    <3>2. CASE ~Complete(a) /\ ~Playing
      <4>1. a = Newest /\ a \in 1 .. Newest /\ Len(sent[a].queries) = 0
        BY <2>1, <3>2 DEF AnswerInv
      <4>2. DOMAIN sent[a].queries = {}
        BY <4>1, ServeTypes
      <4>3. sent[a].queries # <<"E">>
        <5> DEFINE q == sent[a].queries
        <5>1. Len(q) = 0
          BY <4>1
        <5> HIDE DEF q
        <5>2. q # <<"E">>
          BY <5>1
        <5> QED BY <5>2 DEF q
      <4> QED BY <4>1, <4>2, <4>3 DEF Complete
    <3>3. CASE ~Complete(a) /\ Playing
      <4>1. a = Newest /\ a \in 1 .. Newest
        BY <3>3 DEF AnswerInv
      <4>2. Replaying
        BY <1>1, <3>3 DEF Playing, Inside
      <4>3. /\ sent[Newest].queries = <<"E">> /\ nRecvd = Stored /\ nRecv = Len(ArrayOf(nRecvd))
            /\ \E d \in done : d.id = Newest /\ ~d.stored /\ d.at = 1
        BY <3>3, <4>2 DEF PlayInv
      <4>4. DOMAIN StoredQueries = {}
        BY <2>1, <4>3, ServeTypes
      <4>5. DOMAIN sent[a].queries = {1}
        BY <4>1, <4>3
      <4> QED BY <4>1, <4>3, <4>4, <4>5 DEF Complete
    <3> QED BY <3>1, <3>2, <3>3
  <2> QED BY <1>1, <1>2, <1>3, <2>1, <2>2, <2>3 DEF AnswerInv, PlayInv
<1> QED BY <1>4, <1>5, <1>6

\* The step to the first message, and from one message to the next.
LEMMA ServeFetch ==
  ASSUME TypeOK, TurnInv, OfferInv, PlayInv, AnswerInv, ReadsAlive, OpenLibrary \/ Fetch
  PROVE  OfferInv' /\ PlayInv' /\ AnswerInv'
<1>1. /\ UNCHANGED <<sent, nRecv, nRecvd, done, released, ppc, job, backend, newQuery, origin, i>>
      /\ epc \in {"open", "loop"} /\ epc' \in {"loop", "perform", "finish"}
  BY DEF OpenLibrary, Fetch, arrayVars, cfgVars, promptVars, countVars
<1>2. /\ newQuery /\ ppc \notin Between /\ ppc \notin {"build", "make", "raise"}
      /\ Newest' = Newest /\ (Live' <=> Live) /\ Replaying' = Replaying
  BY <1>1, Busy DEF Serving, Newest, Live, Replaying
<1>3. Playing /\ Playing' /\ Reached = i /\ Reached' = i
  BY <1>1 DEF Playing, Inside, Reached
<1>4. OfferInv'
  BY <1>1, <1>2, <1>3 DEF OfferInv, Untouched, Newest, ArrayOf
<1>5. AnswerInv'
  <2>1. \A a \in released : Complete(a) => Complete(a)'
    BY <1>1, CompleteFrame
  <2> QED BY <1>1, <1>2, <1>3, <2>1 DEF AnswerInv
<1>6. /\ \A d : ThisRun(d)' <=> ThisRun(d)
      /\ ArrayOf(nRecvd)' = ArrayOf(nRecvd)
  BY <1>1, <1>2 DEF ThisRun, ArrayOf
<1>7. epc \in Inside /\ epc' \in Inside /\ epc' # "open"
  BY <1>1 DEF Inside
<1>8. epc' = "perform" => i < nRecv /\ cur' = [id |-> nRecvd, at |-> i + 1,
                                               kind |-> ArrayOf(nRecvd)[i + 1]]
  <2> SUFFICES ASSUME epc' = "perform" PROVE i < nRecv /\ cur' = [id |-> nRecvd, at |-> i + 1,
                                               kind |-> ArrayOf(nRecvd)[i + 1]]
    OBVIOUS
  <2>1. Fetch /\ i < nRecv /\ epc = "loop"
    BY DEF OpenLibrary, Fetch
  <2> QED BY <2>1 DEF Fetch, ReadsAlive
<1>9. epc' = "finish" => i = nRecv
  <2> SUFFICES ASSUME epc' = "finish" PROVE i = nRecv
    OBVIOUS
  <2>1. ~(i < nRecv)
    BY DEF OpenLibrary, Fetch
  <2>2. i <= nRecv
    BY <1>3, <1>7 DEF PlayInv
  <2> QED BY <2>1, <2>2, ServeTypes
<1>10. PlayInv'
  BY <1>1, <1>2, <1>3, <1>6, <1>7, <1>8, <1>9 DEF PlayInv
<1> QED BY <1>4, <1>5, <1>10


\* What the engine has in hand, and what it will be recorded as.
LEMMA InHand ==
  ASSUME TypeOK, PlayInv, epc = "perform"
  PROVE  /\ Playing /\ Reached = i /\ Newest > 0 /\ nRecv = Len(ArrayOf(nRecvd))
         /\ i + 1 \in 1 .. nRecv /\ cur.at = i + 1 /\ cur.kind = ArrayOf(nRecvd)[i + 1]
         /\ cur.id = nRecvd /\ (cur.id = Stored <=> Replaying)
         /\ \A out : Entry(out) = [id |-> Newest, at |-> i + 1, kind |-> ArrayOf(nRecvd)[i + 1],
                                   stored |-> Replaying, lib |-> handle, out |-> out]
<1>1. Playing /\ Reached = i
  BY DEF Playing, Inside, Reached
<1>2. /\ i < nRecv /\ cur = [id |-> nRecvd, at |-> i + 1, kind |-> ArrayOf(nRecvd)[i + 1]]
      /\ Newest > 0 /\ nRecvd = (IF Replaying THEN Stored ELSE Newest)
      /\ nRecv = Len(ArrayOf(nRecvd)) /\ origin \in {None, Newest}
  BY <1>1 DEF PlayInv
<1>3. cur.id = nRecvd /\ cur.at = i + 1 /\ cur.kind = ArrayOf(nRecvd)[i + 1]
  BY <1>2
<1>4. (cur.id = Stored) = Replaying
  BY <1>2, <1>3, ServeTypes DEF Replaying
<1>5. (IF cur.id = Stored THEN origin ELSE cur.id) = Newest
  BY <1>2, <1>3, <1>4 DEF Replaying
<1>6. \A out : Entry(out) = [id |-> Newest, at |-> i + 1, kind |-> ArrayOf(nRecvd)[i + 1],
                             stored |-> Replaying, lib |-> handle, out |-> out]
  BY <1>3, <1>4, <1>5 DEF Entry
<1> QED BY <1>1, <1>2, <1>3, <1>4, <1>6, ServeTypes

\* The messages that only add to what was performed.
Handling ==
  \/ PerformQuery \/ PerformProcedure \/ PerformOutput \/ PerformNextLibrary \/ PerformOther

LEMMA HandlingStep ==
  ASSUME Handling
  PROVE  /\ epc = "perform" /\ epc' = "loop" /\ cur.kind # "E" /\ i' = i + 1
         /\ UNCHANGED <<sent, nRecv, nRecvd, released, ppc, job, snippet, backend, newQuery, hasDll,
                       dll, outCpp, origin, cur>>
         /\ \E out \in {"ran", "failed", "skipped"} : done' = done \cup {Entry(out)}
<1>1. /\ epc = "perform" /\ cur.kind # "E"
      /\ UNCHANGED engineRest
  BY DEF Handling, PerformQuery, PerformProcedure, PerformOutput, PerformNextLibrary, PerformOther,
         IsQuery
<1>2. \E out \in {"ran", "failed", "skipped"} : Handled(out)
  BY DEF Handling, PerformQuery, PerformProcedure, PerformOutput, PerformNextLibrary, PerformOther
<1> QED BY <1>1, <1>2 DEF engineRest, Handled, promptVars, arrayVars, cfgVars, countVars

LEMMA ServeHandled ==
  ASSUME TypeOK, TurnInv, OfferInv, PlayInv, AnswerInv, Handling
  PROVE  OfferInv' /\ PlayInv' /\ AnswerInv'
<1>1. /\ UNCHANGED <<sent, nRecv, nRecvd, released, ppc, job, backend, newQuery, origin>>
      /\ epc = "perform" /\ epc' = "loop" /\ cur.kind # "E" /\ i' = i + 1
  BY HandlingStep
<1>2. /\ newQuery /\ ppc \notin Between /\ ppc \notin {"build", "make", "raise"}
      /\ Newest' = Newest /\ (Live' <=> Live) /\ Replaying' = Replaying
  BY <1>1, Busy DEF Serving, Newest, Live, Replaying
<1>3. /\ Playing /\ Playing' /\ Reached = i /\ Reached' = i + 1 /\ i \in Nat /\ Newest \in Nat
      /\ Newest > 0 /\ i + 1 \in 1 .. nRecv /\ nRecv \in Nat
  BY <1>1, InHand, ServeTypes DEF Playing, Inside, Reached
<1>4. PICK out : done' = done \cup {Entry(out)}
  BY HandlingStep
<1> DEFINE n == Entry(out)
<1>5. /\ n.id = Newest /\ n.at = i + 1 /\ n.kind = ArrayOf(nRecvd)[i + 1] /\ n.stored = Replaying
  BY <1>1, InHand
<1> HIDE DEF n
<1>6. done' = done \cup {n}
  BY <1>4 DEF n
<1>7. OfferInv'
  <2>1. n.id \in 1 .. Newest
    BY <1>3, <1>5
  <2> QED BY <1>1, <1>2, <1>3, <1>6, <2>1 DEF OfferInv, Untouched, Newest, ArrayOf
<1>8. AnswerInv'
  <2>1. \A a \in released : Complete(a) => Complete(a)'
    BY <1>1, <1>6, CompleteFrame
  <2> QED BY <1>1, <1>2, <1>3, <2>1 DEF AnswerInv
<1>9. /\ \A d : ThisRun(d)' <=> ThisRun(d)
      /\ ArrayOf(nRecvd)' = ArrayOf(nRecvd)
      /\ ThisRun(n)
  BY <1>1, <1>2, <1>5 DEF ThisRun, ArrayOf
<1>10. PlayInv'
  <2>1. \A d \in done' : d.id = Newest /\ d.stored => Replaying
    BY <1>3, <1>5, <1>6 DEF PlayInv
  <2>2. ASSUME NEW d \in done', ThisRun(d) PROVE d.at \in 1 .. i + 1 /\ d.kind = ArrayOf(nRecvd)[d.at]
    <3>1. CASE d \in done
      <4>1. d.at \in 1 .. i /\ d.kind = ArrayOf(nRecvd)[d.at]
        BY <1>3, <2>2, <3>1 DEF PlayInv
      <4> QED BY <1>3, <4>1
    <3>2. CASE d = n
      BY <1>3, <1>5, <3>2
    <3> QED BY <1>6, <3>1, <3>2
  <2>3. ASSUME NEW k \in 1 .. i + 1 PROVE \E d \in done' : ThisRun(d) /\ d.at = k
    <3>1. CASE k \in 1 .. i
      BY <1>3, <1>6, <3>1 DEF PlayInv
    <3>2. CASE k = i + 1
      BY <1>5, <1>6, <1>9, <3>2
    <3> QED BY <1>3, <3>1, <3>2
  <2>4. Replaying => /\ sent[Newest].queries = <<"E">>
                     /\ \E d \in done' : d.id = Newest /\ ~d.stored /\ d.at = 1
    BY <1>3, <1>6 DEF PlayInv
  <2>5. ~Replaying => \A k \in 1 .. i + 1 : sent[Newest].queries[k] # "E"
    <3> SUFFICES ASSUME ~Replaying, NEW k \in 1 .. i + 1 PROVE sent[Newest].queries[k] # "E"
      OBVIOUS
    <3>1. CASE k \in 1 .. i
      BY <1>3, <3>1 DEF PlayInv
    <3>2. CASE k = i + 1
      <4>1. nRecvd = Newest
        BY <1>3 DEF PlayInv
      <4> QED BY <1>1, <3>2, <4>1, InHand, ServeTypes
    <3> QED BY <1>3, <3>1, <3>2
  <2>6. /\ Live /\ origin \in {None, Newest} /\ nRecvd = (IF Replaying THEN Stored ELSE Newest)
        /\ nRecv = Len(ArrayOf(nRecvd))
    BY <1>3 DEF PlayInv
  <2>7. nRecv > 0 /\ i + 1 <= nRecv
    BY <1>3
  <2> QED BY <1>1, <1>2, <1>3, <1>9, <2>1, <2>2, <2>3, <2>4, <2>5, <2>6, <2>7 DEF PlayInv
<1> QED BY <1>7, <1>8, <1>10

\* The jump to the stored procedure: only an array of its own makes it.
LEMMA ServeReplay ==
  ASSUME TypeOK, TurnInv, AloneInv, OfferInv, PlayInv, AnswerInv, Replay
  PROVE  OfferInv' /\ PlayInv' /\ AnswerInv'
<1>1. /\ UNCHANGED <<sent, released, ppc, job, backend, newQuery, i>>
      /\ epc = "perform" /\ epc' = "start" /\ cur.kind = "E" /\ origin' = cur.id
      /\ nRecv' = Len(StoredQueries) /\ nRecvd' = Stored /\ done' = done \cup {Entry("ran")}
  BY DEF Replay, promptVars, cfgVars, countVars
<1>2. /\ newQuery /\ ppc \notin Between /\ ppc \notin {"build", "make", "raise"}
      /\ Newest' = Newest /\ (Live' <=> Live) /\ Newest \in Nat /\ Newest > 0
      /\ i + 1 \in 1 .. nRecv /\ i \in Nat /\ nRecv \in Nat /\ Playing /\ Reached = i
  BY <1>1, Busy, InHand, ServeTypes DEF Serving, Newest, Live
<1>3. ~Replaying /\ nRecvd = Newest
  <2>1. nRecvd = (IF Replaying THEN Stored ELSE Newest) /\ nRecv = Len(ArrayOf(nRecvd))
    BY <1>2 DEF PlayInv
  <2>2. Replaying => i + 1 \in 1 .. Len(StoredQueries) /\ StoredQueries[i + 1] = "E"
    BY <1>1, <1>2, <2>1, InHand, ServeTypes
  <2> QED BY <2>1, <2>2, BatchRunsNone
<1>4. /\ sent[Newest].queries = <<"E">> /\ i = 0
  <2> DEFINE q == sent[Newest].queries
  <2>1. ArrayOf(nRecvd) = q /\ nRecv = Len(q) /\ q[i + 1] = "E"
    BY <1>1, <1>3, InHand, ServeTypes
  <2>2. q \in Texts
    BY <1>2 DEF Texts
  <2>3. RunsAlone(q)
    BY <2>2 DEF AloneInv
  <2>4. q = <<"E">>
    BY <1>2, <2>1, <2>3 DEF RunsAlone
  <2>5. Len(<<"E">>) = 1
    OBVIOUS
  <2> HIDE DEF q
  <2>6. nRecv = 1
    BY <2>1, <2>4, <2>5
  <2> QED BY <1>2, <2>4, <2>6 DEF q
<1>5. origin' = Newest /\ Replaying' /\ Playing' /\ Reached' = 0
  <2>1. origin' = Newest
    BY <1>1, <1>3, InHand
  <2> QED BY <1>1, <1>2, <2>1 DEF Replaying, Playing, Reached, None
<1> DEFINE n == Entry("ran")
<1>6. n.id = Newest /\ n.at = 1 /\ n.stored = FALSE
  BY <1>1, <1>3, <1>4, InHand
<1> HIDE DEF n
<1>7. done' = done \cup {n}
  BY <1>1 DEF n
<1>8. ArrayOf(nRecvd)' = StoredQueries
  BY <1>1, ServeTypes DEF ArrayOf
<1>9. OfferInv'
  <2>1. \A d \in done' : d.id \in 1 .. Newest
    BY <1>2, <1>6, <1>7 DEF OfferInv
  <2> QED BY <1>1, <1>2, <1>5, <1>8, <2>1 DEF OfferInv, Between
<1>10. AnswerInv'
  <2>1. \A a \in released : Complete(a) => Complete(a)'
    BY <1>1, <1>7, CompleteFrame
  <2> QED BY <1>1, <1>2, <1>5, <2>1 DEF AnswerInv
<1>11. PlayInv'
  <2>1. \A d \in done' : ~ThisRun(d)'
    <3>1. \A d \in done : d.id = Newest => ~d.stored
      BY <1>2, <1>3 DEF PlayInv
    <3>2. \A d \in done' : d.id = Newest => ~d.stored
      BY <1>6, <1>7, <3>1
    <3>3. Replaying' = TRUE
      BY <1>5 DEF Replaying
    <3> QED BY <1>2, <3>2, <3>3 DEF ThisRun
  <2>2. \E d \in done' : d.id = Newest /\ ~d.stored /\ d.at = 1
    BY <1>6, <1>7
  <2>3. sent'[Newest'].queries = <<"E">> /\ Live' /\ Newest' > 0
    BY <1>1, <1>2, <1>4 DEF PlayInv
  <2>4. \A k \in 1 .. 0 : FALSE
    OBVIOUS
  <2> QED BY <1>1, <1>2, <1>5, <1>8, <2>1, <2>2, <2>3, <2>4 DEF PlayInv, Inside
<1> QED BY <1>9, <1>10, <1>11

\* The end of the messages: the newest array has been performed in full.
LEMMA ServeFinish ==
  ASSUME TypeOK, TurnInv, OfferInv, PlayInv, AnswerInv, Finish
  PROVE  OfferInv' /\ PlayInv' /\ AnswerInv'
<1>1. /\ UNCHANGED <<sent, nRecvd, released, ppc, job, backend, newQuery, i, done, origin>>
      /\ epc = "finish" /\ epc' = "report" /\ nRecv' = 0
  BY DEF Finish, promptVars, cfgVars, countVars
<1>2. /\ newQuery /\ ppc \notin Between /\ ppc \notin {"build", "make", "raise"}
      /\ Newest' = Newest /\ Playing /\ ~Playing' /\ Reached = i
  BY <1>1, Busy DEF Serving, Newest, Playing, Inside, Reached
<1>3. OfferInv'
  BY <1>1, <1>2 DEF OfferInv
<1>4. Complete(Newest)
  <2>1. /\ nRecvd = (IF Replaying THEN Stored ELSE Newest) /\ nRecv = Len(ArrayOf(nRecvd))
        /\ i = nRecv /\ i > 0
        /\ \A k \in 1 .. i : \E d \in done : ThisRun(d) /\ d.at = k
    BY <1>1, <1>2 DEF PlayInv, Inside
  <2>2. CASE Replaying
    <3>1. /\ sent[Newest].queries = <<"E">>
          /\ \E d \in done : d.id = Newest /\ ~d.stored /\ d.at = 1
      BY <1>2, <2>2 DEF PlayInv
    <3>2. DOMAIN <<"E">> = {1}
      OBVIOUS
    <3>3. DOMAIN sent[Newest].queries = {1}
      BY <3>1, <3>2
    <3>4. DOMAIN StoredQueries = 1 .. i
      BY <2>1, <2>2, ServeTypes
    <3>5. \A k \in 1 .. i : \E d \in done : d.id = Newest /\ d.stored /\ d.at = k
      BY <2>1, <2>2 DEF ThisRun
    <3> QED BY <3>1, <3>3, <3>4, <3>5 DEF Complete
  <2>3. CASE ~Replaying
    <3>1. Newest \in 1 .. Newest
      BY <1>2, ServeTypes DEF PlayInv
    <3>2. DOMAIN sent[Newest].queries = 1 .. i
      BY <2>1, <2>3, <3>1, ServeTypes
    <3>3. \A k \in 1 .. i : sent[Newest].queries[k] # "E"
      BY <1>2, <2>3 DEF PlayInv
    <3>4. sent[Newest].queries # <<"E">>
      <4>1. 1 \in 1 .. i
        BY <2>1, ServeTypes
      <4>2. <<"E">>[1] = "E"
        OBVIOUS
      <4> QED BY <3>3, <4>1, <4>2, Zenon
    <3>5. \A k \in 1 .. i : \E d \in done : d.id = Newest /\ ~d.stored /\ d.at = k
      BY <2>1, <2>3 DEF ThisRun
    <3> QED BY <3>2, <3>4, <3>5 DEF Complete
  <2> QED BY <2>2, <2>3
<1>5. AnswerInv'
  <2>1. \A a \in released : a \in 1 .. Newest /\ Complete(a)
    BY <1>4 DEF AnswerInv
  <2>2. \A a \in released : Complete(a)'
    BY <1>1, <2>1, CompleteFrame
  <2> QED BY <1>1, <1>2, <2>1, <2>2 DEF AnswerInv
<1> QED BY <1>2, <1>3, <1>5 DEF PlayInv

LEMMA ServeStep ==
  ASSUME OneAtATime, TypeOK, HandOverInv, ArrayInv, ServeInv, [Next]_vars
  PROVE  ServeInv'
<1> USE DEF HandOverInv
<1>0. TurnInv /\ CacheInv /\ AloneInv /\ OfferInv /\ PlayInv /\ AnswerInv /\ ReadsAlive
  BY ArrayRead DEF ServeInv
<1>1. AloneInv'
  BY <1>0, AloneStep
<1>2. CASE Command
  <2>1. /\ UNCHANGED <<sent, nRecv, nRecvd, done, released, epc, i, cur, origin, newQuery>>
        /\ ppc = "command" /\ ppc' \in {"keep", "raise", "top"} /\ (ppc' = "raise" => job'.kind = "rr")
    BY <1>2, CommandStep
  <2> QED BY <1>0, <1>1, <2>1, ServePrompt DEF ServeInv, Between
<1>3. CASE Top \/ WaitEngine \/ WakeEngine \/ Cached
  <2>1. /\ UNCHANGED <<sent, nRecv, nRecvd, done, released, epc, i, cur, origin, newQuery, backend>>
        /\ ppc \in {"top", "wait", "wake", "cached"} /\ ppc' \in {"wait", "command", "top", "keep", "cached"}
    BY <1>3 DEF Top, WaitEngine, WakeEngine, Cached, arrayVars, cfgVars, engineVars, countVars
  <2> QED BY <1>0, <1>1, <2>1, ServePrompt DEF ServeInv, Between
<1>4. CASE Build \/ Make
  <2>1. /\ UNCHANGED <<sent, nRecv, nRecvd, done, released, epc, i, cur, origin, newQuery, backend, job>>
        /\ ppc \in {"build", "make"} /\ ppc' \in {"raise", "top"} /\ job.kind # "rr"
    BY <1>0, <1>4 DEF Build, Make, arrayVars, engineVars, countVars, CacheInv
  <2> QED BY <1>0, <1>1, <2>1, ServePrompt DEF ServeInv, Between
<1>5. CASE KeepPayload \/ DllOff \/ SendCount \/ SendPointer \/ Raise
  BY <1>0, <1>1, <1>5, ServeKeep, ServeSend, ServeRaise DEF ServeInv
<1>6. CASE Engine
  BY <1>0, <1>1, <1>6, ServeOutside, ServeStart, ServeFetch, ServeHandled, ServeReplay, ServeFinish
     DEF ServeInv, Engine, Handling
<1>7. CASE UNCHANGED vars
  <2>1. UNCHANGED <<sent, nRecv, nRecvd, done, released, epc, i, cur, origin, newQuery, backend, ppc, job>>
    BY <1>7 DEF vars, arrayVars, cfgVars, engineVars, countVars, promptVars
  <2>2. CASE ppc \notin Between
    BY <1>0, <1>1, <2>1, <2>2, ServePrompt DEF ServeInv
  <2>3. CASE ppc \in Between
    <3>1. ~Playing /\ ~Playing' /\ Newest' = Newest
      BY <1>0, <2>1, <2>3 DEF TurnInv, Between, Playing, Inside, Serving, Replaying, Newest
    <3>2. \A a \in released : Complete(a) => Complete(a)'
      BY <2>1, CompleteFrame
    <3> QED BY <1>0, <1>1, <2>1, <2>3, <3>1, <3>2
            DEF ServeInv, OfferInv, PlayInv, AnswerInv, Untouched, Newest, ArrayOf, Live
  <2> QED BY <2>2, <2>3
<1> QED BY <1>2, <1>3, <1>4, <1>5, <1>6, <1>7 DEF Next, PromptWork

LEMMA ServeInit == Init => ServeInv
<1> SUFFICES ASSUME Init PROVE ServeInv
  OBVIOUS
<1>1. sent = <<>> /\ Newest = 0 /\ done = {} /\ released = {} /\ nRecv = 0 /\ epc = "sleep"
      /\ ppc = "top" /\ job.queries = <<>> /\ snippet.queries = <<>>
  BY DEF Init, Newest, NoJob
<1>2. AloneInv
  <2>1. RunsNone(<<>>) /\ RunsAlone(<<>>)
    BY DEF RunsNone, RunsAlone
  <2>2. Texts = {<<>>}
    BY <1>1 DEF Texts
  <2> QED BY <1>1, <2>1, <2>2 DEF AloneInv
<1>3. ~Playing
  BY <1>1 DEF Playing, Inside
<1> QED BY <1>1, <1>2, <1>3 DEF ServeInv, OfferInv, PlayInv, AnswerInv, Between

LEMMA ArrayStart == Init => ArrayInv
BY DEF Init, ArrayInv, Synced, Between

\* With one request per command every message of an array handed over on a live backend, and of
\* the stored procedure it runs, is performed once, in the order of the array, before the prompt
\* takes the next command (server.cpp:255-612).
THEOREM PerformsInFull == ASSUME OneAtATime PROVE Spec => []PerformedInFull
<1>1. Init => ArrayInv /\ ServeInv
  BY ArrayStart, ServeInit
<1>2. TypeOK /\ HandOverInv /\ ArrayInv /\ ServeInv /\ [Next]_vars => (ArrayInv /\ ServeInv)'
  BY ArrayStep, ServeStep
<1>3. TypeOK /\ HandOverInv /\ ServeInv => OnceInOrder
  <2> SUFFICES ASSUME TypeOK, ServeInv, epc = "perform", NEW d \in done
               PROVE  \/ d.id < Entry("ran").id
                      \/ d.id = Entry("ran").id /\ ~d.stored /\ Entry("ran").stored
                      \/ /\ d.id = Entry("ran").id
                         /\ d.stored = Entry("ran").stored
                         /\ d.at < cur.at
    BY DEF OnceInOrder
  <2>1. /\ Entry("ran").id = Newest /\ Entry("ran").stored = Replaying /\ cur.at = i + 1
        /\ Playing /\ Reached = i
    BY InHand DEF ServeInv
  <2>2. d.id \in 1 .. Newest /\ d.stored \in BOOLEAN /\ i \in Nat /\ Newest \in Nat
    BY ServeTypes DEF ServeInv, OfferInv, TypeOK, DoneOK
  <2>3. Replaying \in BOOLEAN
    BY DEF Replaying
  <2>4. CASE d.id = Newest /\ d.stored = Replaying
    <3>1. d.at \in 1 .. i
      BY <2>1, <2>4 DEF ServeInv, PlayInv, ThisRun
    <3> QED BY <2>1, <2>2, <2>4, <3>1
  <2>5. CASE d.id = Newest /\ d.stored # Replaying
    <3>1. ~d.stored /\ Replaying
      BY <2>1, <2>2, <2>3, <2>5 DEF ServeInv, PlayInv
    <3> QED BY <2>1, <2>5, <3>1
  <2>6. CASE d.id # Newest
    BY <2>1, <2>2, <2>6
  <2> QED BY <2>4, <2>5, <2>6
<1>4. HandOverInv /\ ServeInv => AnsweredInFull
  <2> SUFFICES ASSUME HandOverInv, ServeInv, ppc = "command", NEW a \in released PROVE Complete(a)
    BY DEF AnsweredInFull, Complete
  <2> QED BY Quiet DEF HandOverInv, ServeInv
<1>5. TypeOK /\ HandOverInv /\ ServeInv => PerformedInFull
  BY <1>3, <1>4 DEF PerformedInFull
<1> QED BY <1>1, <1>2, <1>5, TypeCorrect, HandOverAlways, PTL DEF Spec


-----------------------------------------------------------------------------
(* Which statement an error belongs to.                                      *)

\* The array in hand gives no query two consumers.
LEMMA ConsumersInHand ==
  ASSUME OneConsumer, TypeOK, ConsumerInv, PlayInv, Playing
  PROVE  OneConsumerOf(ArrayOf(nRecvd))
<1>1. Newest > 0 /\ nRecvd = (IF Replaying THEN Stored ELSE Newest)
  BY DEF PlayInv
<1>2. CASE Replaying
  BY <1>1, <1>2, ServeTypes DEF OneConsumer
<1>3. CASE ~Replaying
  <2>1. sent[Newest].queries \in Texts
    BY <1>1, ServeTypes DEF Texts
  <2> QED BY <1>1, <1>3, <2>1, ServeTypes DEF ConsumerInv
<1> QED BY <1>2, <1>3

LEMMA ErrPrompt ==
  ASSUME TurnInv, ErrInv, Command \/ PromptWork \/ UNCHANGED vars
  PROVE  ErrInv' /\ done' = done
<1>1. UNCHANGED engineVars
  BY DEF Command, StartExec, StartCache, StartControl, StartR, StartRR, StartJob, SwitchBackend,
         PromptWork, Top, WaitEngine, KeepPayload, DllOff, SendCount, SendPointer, Build, Make, Raise,
         WakeEngine, Cached, vars
<1>2. UNCHANGED <<epc, i, origin, err, done>>
  BY <1>1 DEF engineVars
<1>3. CASE epc \in {"loop", "perform"}
  <2>1. ppc \in {"wake", "cached", "top", "wait"}
    BY <1>3, Busy DEF Serving
  <2>2. UNCHANGED <<sent, nRecvd>>
    BY <2>1 DEF Command, StartExec, StartCache, StartControl, StartR, StartRR, StartJob, SwitchBackend,
         PromptWork, Top, WaitEngine, KeepPayload, DllOff, SendCount, SendPointer, Build, Make, Raise,
         WakeEngine, Cached, vars, arrayVars
  <2>3. ArrayOf(nRecvd)' = ArrayOf(nRecvd) /\ \A e : ThisRun(e)' <=> ThisRun(e)
    BY <1>2, <2>2 DEF ArrayOf, ThisRun, Newest, Replaying
  <2> QED BY <1>2, <1>3, <2>3 DEF ErrInv
<1>4. CASE epc \notin {"loop", "perform"}
  BY <1>2, <1>4 DEF ErrInv
<1> QED BY <1>2, <1>3, <1>4

\* The steps of the engine outside the messages: an error is gone before the next request.
LEMMA ErrOutside ==
  ASSUME TypeOK, TurnInv, PlayInv, ErrInv,
         Sleep \/ CheckQuery \/ StartRequest \/ OpenLibrary \/ Fetch \/ Finish \/ Report \/ ClearQuery
           \/ Release
  PROVE  ErrInv' /\ done' = done
<1>1. /\ UNCHANGED <<sent, nRecvd, done>> /\ (UNCHANGED err \/ ~err')
      /\ epc' \in {"loop", "perform", "finish"} => epc \in {"open", "loop"} /\ UNCHANGED <<err, i, origin>>
      /\ epc \in {"finish", "report"} => epc' = "report" \/ ~err'
      /\ epc \in {"loop", "perform"} => epc' \in {"perform", "finish"}
  BY DEF Sleep, CheckQuery, StartRequest, OpenLibrary, Fetch, Finish, Report, ClearQuery, Release,
         promptVars, arrayVars, TypeOK, EngineOK
<1>2. err' => epc' \in {"loop", "perform", "finish", "report"}
  BY <1>1 DEF ErrInv
<1>3. CASE epc' \in {"loop", "perform"} /\ epc \in {"loop", "perform"}
  <2>1. ArrayOf(nRecvd)' = ArrayOf(nRecvd) /\ \A e : ThisRun(e)' <=> ThisRun(e)
    BY <1>1, <1>3 DEF ArrayOf, ThisRun, Newest, Replaying
  <2> QED BY <1>1, <1>2, <1>3, <2>1 DEF ErrInv
<1>4. CASE epc' \in {"loop", "perform"} /\ epc = "open"
  <2>1. Playing /\ Reached = 0
    BY <1>4 DEF Playing, Inside, Reached, PlayInv
  <2>2. \A e \in done : ~ThisRun(e)'
    BY <1>1, <1>4, <2>1, FirstOfRun DEF ThisRun, Newest, Replaying
  <2>3. ~err
    BY <1>4 DEF ErrInv
  <2> QED BY <1>1, <1>4, <2>2, <2>3 DEF ErrInv
<1>5. CASE epc' \notin {"loop", "perform"}
  BY <1>1, <1>2, <1>5 DEF ErrInv
<1> QED BY <1>1, <1>3, <1>4, <1>5

\* The jump to the stored procedure takes no error along: nothing precedes the message.
LEMMA ErrReplay ==
  ASSUME TypeOK, AloneInv, PlayInv, ErrInv, Replay
  PROVE  ErrInv'
<1>1. epc = "perform" /\ epc' = "start" /\ err' = err /\ i' = i
  BY DEF Replay
<1>2. Playing /\ Reached = 0
  <2>2. Playing /\ Reached = i /\ i + 1 \in 1 .. nRecv /\ cur.kind = ArrayOf(nRecvd)[i + 1]
        /\ nRecv = Len(ArrayOf(nRecvd)) /\ i \in Nat /\ nRecv \in Nat /\ Newest > 0
    BY <1>1, InHand, ServeTypes
  <2>3. cur.kind = "E"
    BY DEF Replay
  <2>4. ~Replaying /\ nRecvd = Newest
    <3>1. nRecvd = (IF Replaying THEN Stored ELSE Newest)
      BY <2>2 DEF PlayInv
    <3>2. Replaying => i + 1 \in 1 .. Len(StoredQueries) /\ StoredQueries[i + 1] = "E"
      BY <2>2, <2>3, <3>1, ServeTypes
    <3> QED BY <3>1, <3>2, BatchRunsNone
  <2> DEFINE q == sent[Newest].queries
  <2>5. q \in Texts /\ ArrayOf(nRecvd) = q
    BY <2>2, <2>4, ServeTypes DEF Texts
  <2>6. RunsAlone(q) /\ nRecv = Len(q) /\ q[i + 1] = "E"
    BY <2>2, <2>3, <2>5 DEF AloneInv
  <2> HIDE DEF q
  <2>7. q = <<"E">>
    BY <2>2, <2>6 DEF RunsAlone
  <2>8. nRecv = 1
    BY <2>6, <2>7
  <2> QED BY <1>1, <2>2, <2>8 DEF Reached
<1>3. ~err
  BY <1>1, <1>2, FirstOfRun DEF ErrInv
<1> QED BY <1>1, <1>3 DEF ErrInv


\* A message handled: a query may leave an error, a consumer that looks takes it away.
LEMMA ErrHandled ==
  ASSUME TypeOK, TurnInv, PlayInv, ErrInv, Handling
  PROVE  ErrInv'
<1>1. /\ UNCHANGED <<sent, nRecvd, origin>> /\ epc = "perform" /\ epc' = "loop" /\ i' = i + 1
  BY HandlingStep
<1>2. /\ Playing /\ Reached = i /\ i \in Nat /\ cur.kind = ArrayOf(nRecvd)[i + 1]
      /\ err \in BOOLEAN
  BY <1>1, InHand, ServeTypes DEF TypeOK, EngineOK
<1>3. /\ \A e \in done : ThisRun(e) => e.at \in 1 .. i
      /\ err => \E e \in done : ThisRun(e) /\ IsQuery(e.kind) /\ e.out = "failed"
      /\ \A e \in done :
           /\ ThisRun(e) /\ IsQuery(e.kind) /\ e.out # "ran"
           /\ \A k \in e.at + 1 .. i : ArrayOf(nRecvd)[k] \notin {"Q", "I", "P", "O"}
           => err
  BY <1>1, <1>2 DEF ErrInv, PlayInv
<1>4. ArrayOf(nRecvd)' = ArrayOf(nRecvd) /\ \A e : ThisRun(e)' <=> ThisRun(e)
  BY <1>1 DEF ArrayOf, ThisRun, Newest, Replaying
<1>5. PICK out : done' = done \cup {Entry(out)}
  BY HandlingStep
<1> DEFINE n == Entry(out)
<1>6. n.id = Newest /\ n.at = i + 1 /\ n.kind = cur.kind /\ n.stored = Replaying /\ n.out = out
  BY <1>1, InHand
<1> HIDE DEF n
<1>7. done' = done \cup {n} /\ ThisRun(n)
  BY <1>5, <1>6 DEF n, ThisRun
<1>8. \A e \in done : ThisRun(e) => i + 1 \in e.at + 1 .. i + 1
  BY <1>2, <1>3
<1>9. CASE cur.kind \in {"P", "O"}
  <2>1. err' = err \/ err' = FALSE
    BY <1>9 DEF Handling, PerformQuery, PerformProcedure, PerformOutput, PerformNextLibrary, PerformOther,
                IsQuery
  <2>2. ASSUME NEW e \in done', ThisRun(e), IsQuery(e.kind),
               \A k \in e.at + 1 .. i + 1 : ArrayOf(nRecvd)[k] \notin {"Q", "I", "P", "O"}
        PROVE  FALSE
    <3>1. e # n
      BY <1>6, <1>9, <2>2 DEF IsQuery
    <3>2. i + 1 \in e.at + 1 .. i + 1
      BY <1>7, <1>8, <2>2, <3>1
    <3> QED BY <1>2, <1>9, <2>2, <3>2
  <2> QED BY <1>1, <1>3, <1>4, <1>7, <2>1, <2>2 DEF ErrInv
<1>10. CASE IsQuery(cur.kind)
  <2>1. PerformQuery
    BY <1>10 DEF Handling, PerformProcedure, PerformOutput, PerformNextLibrary, PerformOther, IsQuery
  <2>2. (out = "ran" /\ err' = err) \/ (out = "failed" /\ err' = TRUE)
    <3>1. ASSUME NEW o, Handled(o) PROVE o = out \/ n \in done
      <4>1. done' = done \cup {Entry(o)}
        BY <3>1 DEF Handled
      <4>2. Entry(o).out = o
        BY DEF Entry
      <4> QED BY <1>6, <1>7, <4>1, <4>2
    <3>2. n \notin done
      BY <1>2, <1>3, <1>6, <1>7
    <3> QED BY <2>1, <3>1, <3>2 DEF PerformQuery
  <2>3. ASSUME NEW e \in done', ThisRun(e), IsQuery(e.kind), e.out # "ran",
               \A k \in e.at + 1 .. i + 1 : ArrayOf(nRecvd)[k] \notin {"Q", "I", "P", "O"}
        PROVE  err'
    <3>1. e = n
      <4> SUFFICES ASSUME e # n PROVE FALSE
        OBVIOUS
      <4>1. i + 1 \in e.at + 1 .. i + 1
        BY <1>7, <1>8, <2>3
      <4> QED BY <1>2, <1>10, <2>3, <4>1 DEF IsQuery
    <3> QED BY <1>6, <2>2, <2>3, <3>1
  <2>4. err' => \E e \in done' : ThisRun(e) /\ IsQuery(e.kind) /\ e.out = "failed"
    BY <1>3, <1>6, <1>7, <1>10, <2>2
  <2> QED BY <1>1, <1>4, <2>3, <2>4 DEF ErrInv
<1>11. CASE cur.kind \in {"N", "T", "C"}
  <2>1. err' = err
    BY <1>11 DEF Handling, PerformQuery, PerformProcedure, PerformOutput, PerformNextLibrary, PerformOther,
                 IsQuery
  <2>2. ASSUME NEW e \in done', ThisRun(e), IsQuery(e.kind), e.out # "ran",
               \A k \in e.at + 1 .. i + 1 : ArrayOf(nRecvd)[k] \notin {"Q", "I", "P", "O"}
        PROVE  err
    <3>1. e \in done
      BY <1>6, <1>7, <1>11, <2>2 DEF IsQuery
    <3>2. e.at \in 1 .. i
      BY <1>3, <2>2, <3>1
    <3>3. \A k \in e.at + 1 .. i : ArrayOf(nRecvd)[k] \notin {"Q", "I", "P", "O"}
      BY <1>2, <2>2, <3>2
    <3> QED BY <1>3, <2>2, <3>1, <3>3
  <2> QED BY <1>1, <1>3, <1>4, <1>7, <2>1, <2>2 DEF ErrInv
<1>12. cur.kind \in {"Q", "I", "P", "O", "N", "T", "C"}
  BY DEF Handling, PerformQuery, PerformProcedure, PerformOutput, PerformNextLibrary, PerformOther, IsQuery
<1> QED BY <1>9, <1>10, <1>11, <1>12 DEF IsQuery

\* A consumer that runs follows a query that went well.
LEMMA OwnHandled ==
  ASSUME OneConsumer, TypeOK, TurnInv, ConsumerInv, PlayInv, ErrInv, OwnQuery, Handling
  PROVE  OwnQuery'
<1>1. epc = "perform"
  BY HandlingStep
<1>2. /\ Playing /\ Reached = i /\ i \in Nat /\ nRecv \in Nat /\ i + 1 \in 1 .. nRecv
      /\ cur.kind = ArrayOf(nRecvd)[i + 1] /\ nRecv = Len(ArrayOf(nRecvd))
  BY <1>1, InHand, ServeTypes
<1>3. /\ \A e \in done : ThisRun(e) => e.at \in 1 .. i /\ e.kind = ArrayOf(nRecvd)[e.at]
      /\ \A k \in 1 .. i : \E e \in done : ThisRun(e) /\ e.at = k
      /\ \A e \in done :
           /\ ThisRun(e) /\ IsQuery(e.kind) /\ e.out # "ran"
           /\ \A k \in e.at + 1 .. i : ArrayOf(nRecvd)[k] \notin {"Q", "I", "P", "O"}
           => err
  BY <1>1, <1>2 DEF ErrInv, PlayInv
<1>4. PICK out : done' = done \cup {Entry(out)}
  BY HandlingStep
<1> DEFINE n == Entry(out)
<1>5. n.id = Newest /\ n.at = i + 1 /\ n.kind = cur.kind /\ n.stored = Replaying /\ n.out = out
  BY <1>1, InHand
<1> HIDE DEF n
<1>6. done' = done \cup {n}
  BY <1>4 DEF n
<1>7. \A e : SameRun(n, e) => ThisRun(e)
  BY <1>5 DEF SameRun, ThisRun
<1>8. \A d, e : SameRun(d, e) => SameRun(e, d)
  BY DEF SameRun
<1>9. SUFFICES ASSUME NEW d \in done', NEW e \in done', d.kind \in {"P", "O"}, d.out = "ran",
                      SameRun(d, e), IsQuery(e.kind), e.at < d.at, e.out # "ran",
                      ~\E x \in done' : SameRun(d, x) /\ IsQuery(x.kind) /\ e.at < x.at /\ x.at < d.at
               PROVE  FALSE
  BY DEF OwnQuery, SameRun
<1>10. CASE d \in done /\ e \in done
  BY <1>6, <1>9, <1>10 DEF OwnQuery
<1>11. CASE e = n
  <2>1. d # n
    BY <1>2, <1>5, <1>9, <1>11 DEF IsQuery
  <2>2. d.at \in 1 .. i
    BY <1>3, <1>6, <1>7, <1>8, <1>9, <1>11, <2>1
  <2> QED BY <1>2, <1>5, <1>9, <1>11, <2>2
<1>12. CASE d = n /\ e \in done
  <2>1. ~err
    <3>1. n.kind \in {"P", "O"} /\ out = "ran"
      BY <1>5, <1>9, <1>12
    <3>2. ASSUME NEW o, Handled(o) PROVE o = out
      <4>1. done' = done \cup {Entry(o)}
        BY <3>2 DEF Handled
      <4>2. Entry(o).out = o
        BY DEF Entry
      <4>3. n \notin done
        BY <1>2, <1>3, <1>5, <1>7 DEF SameRun
      <4> QED BY <1>5, <1>6, <4>1, <4>2, <4>3
    <3>3. PerformProcedure \/ PerformOutput
      BY <1>5, <3>1 DEF Handling, PerformQuery, PerformNextLibrary, PerformOther, IsQuery
    <3>4. CASE PerformProcedure
      <4>1. handle # None
        BY <3>1, <3>2, <3>4 DEF PerformProcedure
      <4>2. Handled(IF err THEN "skipped" ELSE "ran")
        BY <3>4, <4>1 DEF PerformProcedure
      <4> QED BY <3>1, <3>2, <4>2
    <3>5. CASE PerformOutput
      <4>1. Handled(IF err THEN "skipped" ELSE "ran")
        BY <3>5 DEF PerformOutput
      <4> QED BY <3>1, <3>2, <4>1
    <3> QED BY <3>3, <3>4, <3>5
  <2>2. ThisRun(e) /\ e.at \in 1 .. i /\ e.kind = ArrayOf(nRecvd)[e.at]
    BY <1>3, <1>7, <1>9, <1>12
  <2>3. PICK k \in e.at + 1 .. i : ArrayOf(nRecvd)[k] \in {"Q", "I", "P", "O"}
    BY <1>3, <1>9, <1>12, <2>1, <2>2
  <2>4. ASSUME NEW l \in e.at + 1 .. i, IsQuery(ArrayOf(nRecvd)[l]) PROVE FALSE
    <3>1. l \in 1 .. i
      BY <1>2, <2>2
    <3>2. PICK x \in done : ThisRun(x) /\ x.at = l
      BY <1>3, <3>1
    <3>3. IsQuery(x.kind) /\ SameRun(d, x)
      BY <1>3, <1>5, <1>12, <2>4, <3>2 DEF SameRun, ThisRun
    <3>4. e.at < x.at /\ x.at < d.at
      BY <1>2, <1>5, <1>12, <2>2, <3>2
    <3> QED BY <1>6, <1>9, <3>2, <3>3, <3>4
  <2>5. ArrayOf(nRecvd)[k] \in {"P", "O"} /\ ArrayOf(nRecvd)[i + 1] \in {"P", "O"}
    BY <1>2, <1>5, <1>9, <1>12, <2>3, <2>4 DEF IsQuery
  <2>6. \E l \in k + 1 .. (i + 1) - 1 : IsQuery(ArrayOf(nRecvd)[l])
    <3> DEFINE q == ArrayOf(nRecvd)
    <3>1. OneConsumerOf(q)
      BY <1>2, ConsumersInHand
    <3>2. /\ k \in 1 .. Len(q) /\ i + 1 \in 1 .. Len(q) /\ k < i + 1
          /\ {q[k], q[i + 1]} \subseteq {"P", "O"}
      BY <1>2, <2>2, <2>3, <2>5
    <3>3. e.at \in 1 .. k - 1 /\ IsQuery(q[e.at])
      BY <1>2, <1>9, <2>2, <2>3
    <3> HIDE DEF q
    <3>4. \E l \in k + 1 .. (i + 1) - 1 : IsQuery(q[l])
      BY <3>1, <3>2, <3>3 DEF OneConsumerOf
    <3> QED BY <3>4 DEF q
  <2>7. PICK l \in e.at + 1 .. i : IsQuery(ArrayOf(nRecvd)[l])
    BY <1>2, <2>2, <2>3, <2>6
  <2> QED BY <2>4, <2>7
<1> QED BY <1>6, <1>10, <1>11, <1>12

OwnQueryInv == ConsumerInv /\ ErrInv /\ OwnQuery

LEMMA OwnQueryStep ==
  ASSUME OneConsumer, TypeOK, HandOverInv, ServeInv, OwnQueryInv, [Next]_vars
  PROVE  OwnQueryInv'
<1>0. TurnInv /\ AloneInv /\ PlayInv /\ ConsumerInv /\ ErrInv /\ OwnQuery
  BY DEF HandOverInv, ServeInv, OwnQueryInv
<1>1. ConsumerInv'
  BY <1>0, ConsumerStep
<1>2. CASE Command \/ PromptWork \/ UNCHANGED vars
  <2>1. ErrInv' /\ done' = done
    BY <1>0, <1>2, ErrPrompt
  <2> QED BY <1>0, <1>1, <2>1 DEF OwnQueryInv, OwnQuery, SameRun
<1>3. CASE Sleep \/ CheckQuery \/ StartRequest \/ OpenLibrary \/ Fetch \/ Finish \/ Report
             \/ ClearQuery \/ Release
  <2>1. ErrInv' /\ done' = done
    BY <1>0, <1>3, ErrOutside
  <2> QED BY <1>0, <1>1, <2>1 DEF OwnQueryInv, OwnQuery, SameRun
<1>4. CASE Replay
  <2>1. cur.kind = "E" /\ done' = done \cup {Entry("ran")}
    BY <1>4 DEF Replay
  <2> DEFINE n == Entry("ran")
  <2>2. n.kind = "E"
    BY <2>1 DEF Entry
  <2> HIDE DEF n
  <2>3. done' = done \cup {n}
    BY <2>1 DEF n
  <2>4. OwnQuery'
    BY <1>0, <2>2, <2>3 DEF OwnQuery, SameRun, IsQuery
  <2> QED BY <1>0, <1>1, <1>4, <2>4, ErrReplay DEF OwnQueryInv
<1>5. CASE Handling
  BY <1>0, <1>1, <1>5, ErrHandled, OwnHandled DEF OwnQueryInv
<1> QED BY <1>2, <1>3, <1>4, <1>5 DEF Next, Engine, Handling

LEMMA OwnQueryInit == Init => OwnQueryInv
<1> SUFFICES ASSUME Init PROVE OwnQueryInv
  OBVIOUS
<1>1. sent = <<>> /\ Newest = 0 /\ done = {} /\ epc = "sleep" /\ err = FALSE
      /\ job.queries = <<>> /\ snippet.queries = <<>>
  BY DEF Init, Newest, NoJob
<1>2. Texts = {<<>>}
  BY <1>1 DEF Texts
<1>3. OneConsumerOf(<<>>)
  BY DEF OneConsumerOf
<1> QED BY <1>1, <1>2, <1>3 DEF OwnQueryInv, ConsumerInv, ErrInv, OwnQuery


-----------------------------------------------------------------------------
(* Which library a request opens.                                            *)

LEMMA CodeOfSmall == ~HasCode(<<>>) /\ ~HasCode(<<"C">>) /\ ~HasCode(<<"E">>)
BY DEF HasCode, Contains

\* The activation of a trigger adds no procedure.
LEMMA CodeOfAppended ==
  ASSUME NEW p \in Queries
  PROVE  HasCode(Append(p, "T")) <=> HasCode(p)
<1> DEFINE q == Append(p, "T")
<1>1. /\ Len(p) \in Nat /\ Len(q) = Len(p) + 1 /\ q[Len(p) + 1] = "T"
      /\ \A k \in 1 .. Len(p) : q[k] = p[k]
  BY Appended
<1> HIDE DEF q
<1>2. ASSUME NEW k \in 1 .. Len(q), q[k] = "P" PROVE k \in 1 .. Len(p)
  <2>1. k # Len(p) + 1
    BY <1>1, <1>2
  <2> QED BY <1>1, <2>1
<1>3. \A k \in 1 .. Len(p) : k \in 1 .. Len(q)
  BY <1>1
<1>4. (\E k \in 1 .. Len(q) : q[k] = "P") <=> (\E k \in 1 .. Len(p) : p[k] = "P")
  BY <1>1, <1>2, <1>3
<1>5. HasCode(q) <=> HasCode(p)
  BY <1>4 DEF HasCode, Contains
<1> QED BY <1>5 DEF q

LEMMA BuildCommand ==
  ASSUME AlwaysBuilds, PlainCache, TypeOK, CacheInv, BuildInv, Command
  PROVE  BuildInv'
<1>0. KindInv /\ SnippetInv /\ SentInv /\ LibraryInv /\ Newest \in Nat
  BY ServeTypes DEF BuildInv
<1>1. /\ UNCHANGED <<sent, dll, hasDll, outCpp>> /\ ppc = "command" /\ Newest' = Newest
      /\ ppc' \in {"keep", "raise", "top"}
  BY CommandStep DEF Newest
<1>2. /\ HasCode(snippet.queries) => outCpp = snippet.code /\ outCpp # None
      /\ snippet.code <= Newest
  BY <1>0, <1>1 DEF SnippetInv, InExec
<1>3. LibraryInv'
  <2>1. /\ ppc \notin Between \cup {"build", "make"}
        /\ ppc' \notin Between \cup {"build", "make"}
    BY <1>1 DEF Between
  <2> QED BY <1>0, <1>1, <2>1 DEF LibraryInv
<1>4. ASSUME NEW q \in Batches, NEW build \in BOOLEAN, StartExec(q, build)
      PROVE  KindInv' /\ SnippetInv' /\ SentInv'
  <2>1. build = TRUE
    BY <1>4 DEF StartExec, AlwaysBuilds
  <2>2. /\ ppc' = "keep" /\ job'.kind = "exec" /\ job'.build = TRUE /\ job'.queries = q
        /\ job'.code = Newest + 1 /\ snippet'.queries = q /\ snippet'.code = Newest + 1
    BY <1>4, <2>1 DEF StartExec, StartJob, Newest
  <2> QED BY <1>1, <2>2 DEF KindInv, SnippetInv, SentInv, InExec, Handed, Between
<1>5. ASSUME NEW n \in CacheRuns, NEW q \in BesideCache, NEW build \in BOOLEAN, StartCache(n, q, build)
      PROVE  KindInv' /\ SnippetInv' /\ SentInv'
  <2>1. /\ ppc' = "keep" /\ job'.kind = "cache" /\ job'.queries = <<"C">>
        /\ snippet'.queries = q /\ snippet'.code = Newest + 1
    BY <1>5 DEF StartCache, StartJob, Newest
  <2>2. ~HasCode(q)
    BY DEF PlainCache
  <2> QED BY <1>0, <1>1, <2>1, <2>2, CodeOfSmall
          DEF KindInv, SnippetInv, SentInv, InExec, Handed, Between, None
<1>6. ASSUME NEW m \in {"C", "E"}, StartControl(m)
      PROVE  KindInv' /\ SnippetInv' /\ SentInv'
  <2>1. ppc' = "keep" /\ job'.kind = "control" /\ job'.queries = <<m>> /\ snippet' = snippet
    BY <1>6 DEF StartControl, StartJob
  <2>2. ~HasCode(job'.queries)
    BY <2>1, CodeOfSmall
  <2> QED BY <1>0, <1>1, <1>2, <2>1, <2>2 DEF KindInv, SnippetInv, SentInv, InExec, Handed, Between
<1>7. CASE StartR
  <2>1. /\ ppc' = "keep" /\ job'.kind = "r" /\ job'.queries = snippet.queries
        /\ job'.code = snippet.code /\ snippet' = snippet
    BY <1>7 DEF StartR, StartJob
  <2> QED BY <1>1, <1>2, <1>3, <2>1 DEF BuildInv, KindInv, SnippetInv, SentInv, InExec, Handed, Between
<1>8. CASE StartRR
  <2>1. ppc' = "raise" /\ job'.kind = "rr" /\ snippet' = snippet
    BY <1>8 DEF StartRR, StartJob
  <2> QED BY <1>1, <1>2, <1>3, <2>1 DEF BuildInv, KindInv, SnippetInv, SentInv, InExec, Handed, Between
<1>9. ASSUME NEW b \in Backends, SwitchBackend(b)
      PROVE  KindInv' /\ SnippetInv' /\ SentInv'
  <2>1. ppc' = "top" /\ UNCHANGED <<job, snippet>>
    BY <1>9 DEF SwitchBackend
  <2> QED BY <1>0, <1>1, <1>2, <2>1 DEF KindInv, SnippetInv, SentInv, InExec, Handed, Between
<1> QED BY <1>3, <1>4, <1>5, <1>6, <1>7, <1>8, <1>9 DEF Command, BuildInv

LEMMA BuildKeep ==
  ASSUME TypeOK, CacheInv, BuildInv, KeepPayload
  PROVE  BuildInv'
<1>0. KindInv /\ SnippetInv /\ SentInv /\ LibraryInv /\ Newest \in Nat
  BY ServeTypes DEF BuildInv
<1> DEFINE new == [queries |-> job.queries, code |-> job.code]
<1>1. /\ sent' = Append(sent, new) /\ UNCHANGED <<job, snippet, dll, hasDll, outCpp>>
      /\ ppc' = (IF job.kind \in {"cache", "control"} THEN "dllOff" ELSE "count") /\ ppc = "keep"
  BY DEF KeepPayload, cfgVars
<1>2. Newest' = Newest + 1 /\ sent'[Newest'] = new /\ Newest' \in Nat
  BY <1>1 DEF Newest, TypeOK, ArraysOK
<1>3. job.kind \in {"exec", "cache", "control", "r"}
  BY <1>0, <1>1 DEF KindInv
<1>4. KindInv'
  BY <1>0, <1>1, <1>3 DEF KindInv
<1>5. job.code \in Nat /\ snippet.code \in Nat
  BY DEF TypeOK, PromptOK
<1>6. /\ job.kind = "exec" => /\ job.code = Newest' /\ snippet.queries = job.queries
                              /\ snippet.code = job.code
      /\ job.kind # "exec" => /\ HasCode(snippet.queries) => outCpp = snippet.code /\ outCpp # None
                              /\ snippet.code <= Newest'
      /\ job.kind = "r" => /\ job.queries = snippet.queries /\ job.code = snippet.code
                           /\ job.code < Newest'
  <2> HIDE DEF new
  <2> QED BY <1>0, <1>1, <1>2, <1>5 DEF SnippetInv, InExec
<1>7. SnippetInv'
  <2>1. ppc' \in {"dllOff", "count"} /\ (job.kind = "exec" => ppc' = "count")
    BY <1>1
  <2>2. UNCHANGED <<job, snippet, outCpp>>
    BY <1>1
  <2>3. Newest' = Newest' + 0
    BY <1>2
  <2> HIDE DEF new
  <2> QED BY <1>6, <2>1, <2>2, <2>3 DEF SnippetInv, InExec
<1>8. SentInv'
  <2>1. Newest' > 0 /\ sent'[Newest'] = new
    BY <1>0, <1>2
  <2> QED BY <1>1, <1>6, <2>1 DEF SentInv, Handed
<1>9. LibraryInv'
  BY <1>1 DEF LibraryInv, Between
<1> QED BY <1>4, <1>7, <1>8, <1>9 DEF BuildInv

LEMMA BuildSend ==
  ASSUME TypeOK, CacheInv, BuildInv, DllOff \/ SendCount \/ SendPointer
  PROVE  BuildInv'
<1>0. KindInv /\ SnippetInv /\ SentInv /\ LibraryInv /\ Newest \in Nat
  BY ServeTypes DEF BuildInv
<1>1. /\ UNCHANGED <<sent, job, snippet, dll, outCpp>> /\ Newest' = Newest
      /\ \/ ppc = "dllOff" /\ ppc' = "count"
         \/ ppc = "count" /\ ppc' = "point"
         \/ ppc = "point" /\ ppc' = CASE job.kind = "exec" -> "build" [] job.kind = "r" -> "make"
                                      [] OTHER -> "raise"
  BY DEF DllOff, SendCount, SendPointer, arrayVars, cfgVars, Newest
<1>2. /\ job.kind \in {"exec", "cache", "control", "r"}
      /\ ppc = "dllOff" => job.kind \in {"cache", "control"}
  BY <1>0, <1>1 DEF KindInv
<1>3. ppc' = "build" => job.kind = "exec"
  BY <1>1, <1>2
<1>4. ppc' = "make" => job.kind = "r"
  BY <1>1, <1>2
<1>5. ppc' = "raise" => job.kind \in {"cache", "control"}
  BY <1>1, <1>2
<1>6. ppc \in {"dllOff", "count", "point"} /\ ppc' \in {"count", "point", "build", "make", "raise"}
  BY <1>1, <1>2
<1>7. ppc = "point" /\ job.kind = "exec" => ppc' = "build"
  BY <1>1
<1>8. KindInv'
  BY <1>0, <1>1, <1>2, <1>6 DEF KindInv
<1>9. SnippetInv'
  <2>1. InExec' <=> InExec
    BY <1>1, <1>2, <1>6, <1>7 DEF InExec
  <2>2. /\ InExec => job.code = Newest /\ ppc # "keep" /\ ppc' # "keep"
        /\ job.kind = "r" /\ ppc' \in {"keep", "count", "point", "make"}
             => ppc \in {"keep", "count", "point", "make"}
    BY <1>0, <1>1, <1>2, <1>6 DEF SnippetInv
  <2> QED BY <1>0, <1>1, <1>6, <2>1, <2>2 DEF SnippetInv
<1>10. SentInv'
  BY <1>0, <1>1, <1>2, <1>6 DEF SentInv, Handed, Between
<1>11. LibraryInv'
  <2>1. CASE ppc' = "raise"
    <3>1. ~HasCode(job.queries) /\ sent[Newest].queries = job.queries
      BY <1>0, <1>2, <1>5, <1>6, <2>1 DEF KindInv, SentInv, Handed, Between
    <3> QED BY <1>1, <3>1 DEF LibraryInv
  <2>2. CASE ppc' # "raise"
    BY <1>6, <2>2 DEF LibraryInv, Between
  <2> QED BY <2>1, <2>2
<1> QED BY <1>8, <1>9, <1>10, <1>11 DEF BuildInv

\* The build of an exec, and the make of a repetition.
LEMMA BuildBuild ==
  ASSUME AlwaysBuilds, TypeOK, CacheInv, BuildInv, Build
  PROVE  BuildInv'
<1>0. KindInv /\ SnippetInv /\ SentInv /\ LibraryInv /\ Newest \in Nat
  BY ServeTypes DEF BuildInv
<1>1. /\ UNCHANGED <<sent, job>> /\ Newest' = Newest /\ ppc = "build" /\ job.kind = "exec" /\ job.build
      /\ ppc' = "raise" /\ ~BuildMayFail
  BY <1>0 DEF Build, EndOfExec, arrayVars, Newest, CacheInv, KindInv, AlwaysBuilds
<1>2. /\ job.code = Newest /\ snippet.queries = job.queries /\ snippet.code = job.code
      /\ Newest > 0 /\ sent[Newest].queries = job.queries /\ sent[Newest].code = job.code
  BY <1>0, <1>1 DEF SnippetInv, InExec, SentInv, Handed
<1>3. HasCode(job.queries) => outCpp' = job.code /\ dll' = job.code /\ hasDll'
  BY <1>1 DEF Build, EndOfExec
<1>4. /\ snippet'.queries \in {snippet.queries, Append(snippet.queries, "T")}
      /\ snippet'.code = snippet.code
  BY DEF Build, EndOfExec, TypeOK, PromptOK
<1>5. HasCode(snippet'.queries) <=> HasCode(job.queries)
  <2>1. snippet.queries \in Queries
    BY DEF TypeOK, PromptOK
  <2>2. HasCode(Append(snippet.queries, "T")) <=> HasCode(snippet.queries)
    BY <2>1, CodeOfAppended
  <2>3. CASE snippet'.queries = snippet.queries
    BY <1>2, <2>3
  <2>4. CASE snippet'.queries = Append(snippet.queries, "T")
    BY <1>2, <2>2, <2>4
  <2> QED BY <1>4, <2>3, <2>4
<1>6. KindInv' /\ SentInv'
  BY <1>0, <1>1 DEF KindInv, SentInv, Handed
<1>7. SnippetInv'
  BY <1>0, <1>1, <1>2, <1>3, <1>4, <1>5 DEF SnippetInv, InExec, None
<1>8. LibraryInv'
  BY <1>1, <1>2, <1>3 DEF LibraryInv, Between, None
<1> QED BY <1>6, <1>7, <1>8 DEF BuildInv

LEMMA BuildMake ==
  ASSUME AlwaysBuilds, TypeOK, CacheInv, BuildInv, Make
  PROVE  BuildInv'
<1>0. KindInv /\ SnippetInv /\ SentInv /\ LibraryInv /\ Newest \in Nat
  BY ServeTypes DEF BuildInv
<1>1. /\ UNCHANGED <<sent, job, snippet, outCpp, hasDll>> /\ Newest' = Newest /\ ppc = "make"
      /\ job.kind = "r" /\ ~BuildMayFail
      /\ \/ outCpp # None /\ dll' = outCpp /\ ppc' = "raise"
         \/ outCpp = None /\ ppc' = "top" /\ dll' = dll
  BY DEF Make, arrayVars, Newest, CacheInv, AlwaysBuilds
<1>2. /\ job.queries = snippet.queries /\ job.code = snippet.code /\ job.code < Newest
      /\ Newest > 0 /\ sent[Newest] = [queries |-> job.queries, code |-> job.code]
      /\ HasCode(snippet.queries) => outCpp = snippet.code /\ outCpp # None
      /\ snippet.code <= Newest
  BY <1>0, <1>1 DEF SnippetInv, InExec, SentInv, Handed
<1>3. sent[Newest].queries = job.queries /\ sent[Newest].code = job.code /\ job.code # Newest
  BY <1>2, <1>0 DEF TypeOK, PromptOK
<1>4. KindInv' /\ SentInv'
  BY <1>0, <1>1, <1>2 DEF KindInv, SentInv, Handed, Between
<1>5. SnippetInv'
  BY <1>0, <1>1, <1>2 DEF SnippetInv, InExec
<1>6. LibraryInv'
  BY <1>1, <1>2, <1>3 DEF LibraryInv, Between
<1> QED BY <1>4, <1>5, <1>6 DEF BuildInv

\* The rest of a command, and the waiting.
LEMMA BuildRest ==
  ASSUME OneAtATime, PlainCache, TypeOK, CacheInv, BuildInv,
         Raise \/ WakeEngine \/ Cached \/ Top \/ WaitEngine
  PROVE  BuildInv'
<1>0. KindInv /\ SnippetInv /\ SentInv /\ LibraryInv
  BY DEF BuildInv
<1>0a. Cached => ~HasCode(snippet.queries)
  BY DEF Cached, CacheInv
<1>0b. Cached => /\ snippet'.queries \in {snippet.queries, Append(snippet.queries, "T")}
                 /\ snippet'.code = snippet.code
  BY DEF Cached, EndOfExec, TypeOK, PromptOK
<1>1. /\ UNCHANGED <<sent, dll, outCpp>> /\ Newest' = Newest
      /\ snippet'.code = snippet.code /\ (HasCode(snippet'.queries) => HasCode(snippet.queries))
      /\ snippet' = snippet \/ Cached
      /\ hasDll' = hasDll \/ Cached
  <2>1. snippet.queries \in Queries
    BY DEF TypeOK, PromptOK
  <2>2. HasCode(Append(snippet.queries, "T")) <=> HasCode(snippet.queries)
    BY <2>1, CodeOfAppended
  <2>3. CASE Cached
    <3>1. ~HasCode(snippet'.queries)
      BY <1>0a, <1>0b, <2>2, <2>3
    <3> QED BY <1>0a, <1>0b, <2>3, <3>1 DEF Cached, EndOfExec, arrayVars, Newest
  <2>4. CASE Raise \/ WakeEngine \/ Top \/ WaitEngine
    BY <2>4 DEF Raise, WakeEngine, Top, WaitEngine, arrayVars, cfgVars, Newest
  <2> QED BY <2>3, <2>4
<1>2. job'.kind = job.kind /\ job'.queries = job.queries /\ job'.code = job.code /\ job'.build = job.build
  BY DEF Raise, WakeEngine, Cached, Top, WaitEngine, TypeOK, PromptOK
<1>3. /\ ppc \in {"raise", "wake", "cached", "top", "wait"}
      /\ ppc' \in {"wake", "cached", "top", "wait", "command"}
      /\ ppc' \in {"wake", "cached"} => ppc \in {"raise", "wake"}
  <2>1. WakeEngine => ppc' # "keep"
    BY DEF WakeEngine, CacheInv, TypeOK, PromptOK
  <2> QED BY <2>1 DEF Raise, WakeEngine, Cached, Top, WaitEngine
<1>4. KindInv'
  BY <1>0, <1>2, <1>3 DEF KindInv
<1>5. SnippetInv'
  BY <1>0, <1>1, <1>2, <1>3 DEF SnippetInv, InExec
<1>6. SentInv'
  BY <1>0, <1>1, <1>2, <1>3 DEF SentInv, Handed, Between
<1>7. LibraryInv'
  <2>1. CASE Cached
    <3>1. ppc = "cached" /\ job.kind = "cache"
      BY <2>1 DEF Cached, CacheInv
    <3>2. ~HasCode(job.queries) /\ sent[Newest].queries = job.queries
      BY <1>0, <3>1 DEF KindInv, SentInv, Handed
    <3> QED BY <1>1, <3>2 DEF LibraryInv
  <2>2. CASE hasDll' = hasDll
    BY <1>0, <1>1, <1>3, <2>2 DEF LibraryInv, Between
  <2> QED BY <1>1, <2>1, <2>2
<1> QED BY <1>4, <1>5, <1>6, <1>7 DEF BuildInv

LEMMA BuildStep ==
  ASSUME OneAtATime, PlainCache, AlwaysBuilds, TypeOK, HandOverInv, BuildInv, [Next]_vars
  PROVE  BuildInv'
<1>0. CacheInv
  BY DEF HandOverInv
<1>1. CASE Engine \/ UNCHANGED vars
  <2>1. UNCHANGED <<ppc, job, snippet, outCpp, sent, hasDll, dll>>
    BY <1>1 DEF Engine, Sleep, CheckQuery, StartRequest, OpenLibrary, Fetch, PerformQuery,
                PerformProcedure, PerformOutput, PerformNextLibrary, PerformOther, Replay, Finish,
                Report, ClearQuery, Release, engineRest, promptVars, arrayVars, cfgVars, vars
  <2> QED BY <2>1 DEF BuildInv, KindInv, SnippetInv, SentInv, LibraryInv, InExec, Handed, Newest
<1> QED BY <1>0, <1>1, BuildCommand, BuildKeep, BuildSend, BuildBuild, BuildMake, BuildRest
        DEF Next, PromptWork


\* The request opens its library at its start, a stored procedure's at its library marks.
LEMMA HandleStep ==
  ASSUME TypeOK, TurnInv, PlayInv, BuildInv, HandleInv, [Next]_vars
  PROVE  HandleInv'
<1>1. CASE Command \/ PromptWork \/ UNCHANGED vars
  <2>1. UNCHANGED <<epc, i, origin, handle, pinned>>
    BY <1>1 DEF Command, StartExec, StartCache, StartControl, StartR, StartRR, StartJob, SwitchBackend,
         PromptWork, Top, WaitEngine, KeepPayload, DllOff, SendCount, SendPointer, Build, Make, Raise,
         WakeEngine, Cached, vars, engineVars
  <2>2. CASE epc \in {"loop", "perform"}
    <3>1. ppc \in {"wake", "cached", "top", "wait"}
      BY <2>2, Busy DEF Serving
    <3>2. sent' = sent
      BY <1>1, <3>1 DEF Command, StartExec, StartCache, StartControl, StartR, StartRR, StartJob,
         SwitchBackend, PromptWork, Top, WaitEngine, KeepPayload, DllOff, SendCount, SendPointer, Build,
         Make, Raise, WakeEngine, Cached, vars, arrayVars
    <3> QED BY <2>1, <2>2, <3>2 DEF HandleInv, Replaying, Newest
  <2> QED BY <2>1, <2>2 DEF HandleInv
<1>2. CASE OpenLibrary
  <2>1. /\ epc = "open" /\ UNCHANGED <<sent, origin, i>>
        /\ handle' = IF backend = "AQuery" \/ hasDll THEN (IF pinned = None THEN dll ELSE pinned)
                     ELSE None
        /\ pinned # None => pinned' = pinned
    BY <1>2 DEF OpenLibrary, arrayVars
  <2>2. ppc \notin Between \cup {"build", "make"} /\ Newest > 0 /\ i = 0
    BY <2>1, Busy DEF Serving, PlayInv, Playing, Inside, Between
  <2>3. HasCode(sent[Newest].queries) =>
          /\ dll = sent[Newest].code /\ dll # None
          /\ sent[Newest].code = Newest => hasDll
    BY <2>2 DEF BuildInv, LibraryInv
  <2>4. ~\E k \in 1 .. i' : StoredQueries[k] = "N"
    BY <2>1, <2>2
  <2> QED BY <2>1, <2>3, <2>4 DEF HandleInv, Replaying, Newest
<1>3. CASE Fetch
  BY <1>3 DEF Fetch, HandleInv, Replaying, Newest, arrayVars
<1>4. CASE Handling
  <2>1. UNCHANGED <<sent, origin>> /\ epc = "perform" /\ i' = i + 1
    BY <1>4, HandlingStep
  <2>0. pinned # None => pinned' = pinned
    BY <1>4 DEF Handling, PerformQuery, PerformProcedure, PerformOutput,
       PerformNextLibrary, PerformOther, Pin
  <2>2. /\ Playing /\ i \in Nat /\ cur.kind = ArrayOf(nRecvd)[i + 1]
        /\ Replaying => cur.kind = StoredQueries[i + 1]
    BY <2>1, InHand, ServeTypes DEF PlayInv
  <2>3. CASE PerformNextLibrary
    <3>1. handle' = IF origin # None THEN Stored ELSE handle
      BY <2>3 DEF PerformNextLibrary
    <3> QED BY <2>0, <2>1, <3>1 DEF HandleInv, Replaying, Newest
  <2>4. CASE ~PerformNextLibrary
    <3>1. handle' = handle /\ cur.kind # "N"
      BY <1>4, <2>4 DEF Handling, PerformQuery, PerformProcedure, PerformOutput, PerformOther, IsQuery
    <3>2. Replaying => \A k \in 1 .. i + 1 : StoredQueries[k] = "N" => k \in 1 .. i
      BY <2>2, <3>1
    <3> QED BY <2>0, <2>1, <3>1, <3>2 DEF HandleInv, Replaying, Newest
  <2> QED BY <2>3, <2>4
<1>5. CASE Sleep \/ CheckQuery \/ StartRequest \/ Replay \/ Finish \/ Report \/ ClearQuery \/ Release
  <2>1. epc' \notin {"loop", "perform"}
    BY <1>5 DEF Sleep, CheckQuery, StartRequest, Replay, Finish, Report, ClearQuery, Release
  <2> QED BY <2>1 DEF HandleInv
<1> QED BY <1>1, <1>2, <1>3, <1>4, <1>5 DEF Next, Engine, Handling

\* An array that was made stays as it is.
LEMMA SentGrows ==
  ASSUME TypeOK, [Next]_vars
  PROVE  \A a \in 1 .. Newest : sent'[a] = sent[a]
<1>1. CASE KeepPayload
  <2>1. sent' = Append(sent, [queries |-> job.queries, code |-> job.code])
    BY <1>1 DEF KeepPayload
  <2> QED BY <2>1 DEF Newest, TypeOK, ArraysOK
<1>2. CASE ~KeepPayload
  <2>1. CASE Command
    BY <2>1, CommandStep
  <2>2. CASE Engine \/ UNCHANGED vars
    BY <2>2 DEF Engine, Sleep, CheckQuery, StartRequest, OpenLibrary, Fetch, PerformQuery,
                PerformProcedure, PerformOutput, PerformNextLibrary, PerformOther, Replay, Finish,
                Report, ClearQuery, Release, engineRest, promptVars, arrayVars, cfgVars, vars
  <2>3. CASE PromptWork
    BY <1>2, <2>3 DEF PromptWork, Top, WaitEngine, DllOff, SendCount, SendPointer, Build, Make, Raise,
                      WakeEngine, Cached, arrayVars
  <2> QED BY <2>1, <2>2, <2>3 DEF Next
<1> QED BY <1>1, <1>2

\* What a step adds to what was performed.
LEMMA DoneStep ==
  ASSUME TurnInv, ErrInv, TypeOK, PlayInv, [Next]_vars
  PROVE  \/ done' = done
         \/ Replay /\ done' = done \cup {Entry("ran")}
         \/ Handling
<1>1. CASE Command \/ PromptWork \/ UNCHANGED vars
  BY <1>1, ErrPrompt
<1>2. CASE Sleep \/ CheckQuery \/ StartRequest \/ OpenLibrary \/ Fetch \/ Finish \/ Report
             \/ ClearQuery \/ Release
  BY <1>2, ErrOutside
<1>3. CASE Replay
  BY <1>3 DEF Replay
<1> QED BY <1>1, <1>2, <1>3 DEF Next, Engine, Handling

\* How a message of its own comes to be skipped or run.
LEMMA OutcomeOf ==
  ASSUME Handling, NEW out, done' = done \cup {Entry(out)}, Entry(out) \notin done
  PROVE  /\ out = "skipped" => err \/ (cur.kind = "P" /\ handle = None)
         /\ out = "ran" /\ cur.kind = "P" => handle # None
<1>1. ASSUME NEW o, Handled(o) PROVE o = out
  <2>1. done' = done \cup {Entry(o)}
    BY <1>1 DEF Handled
  <2>2. Entry(out) = Entry(o)
    BY <2>1
  <2>3. Entry(o).out = o /\ Entry(out).out = out
    BY DEF Entry
  <2> QED BY <2>2, <2>3
<1>2. CASE PerformProcedure
  <2>1. cur.kind = "P"
    BY <1>2 DEF PerformProcedure
  <2>2. CASE handle = None
    BY <1>1, <1>2, <2>1, <2>2 DEF PerformProcedure
  <2>3. CASE handle # None
    <3>1. Handled(IF err THEN "skipped" ELSE "ran")
      BY <1>2, <2>3 DEF PerformProcedure
    <3>2. out = IF err THEN "skipped" ELSE "ran"
      BY <1>1, <3>1
    <3> QED BY <2>3, <3>2
  <2> QED BY <2>2, <2>3
<1>3. CASE PerformOutput
  <2>1. out = IF err THEN "skipped" ELSE "ran"
    BY <1>1, <1>3 DEF PerformOutput
  <2> QED BY <1>3, <2>1 DEF PerformOutput
<1>4. CASE PerformQuery \/ PerformNextLibrary \/ PerformOther
  <2>1. out \in {"ran", "failed"} /\ cur.kind # "P"
    BY <1>1, <1>4 DEF PerformQuery, PerformNextLibrary, PerformOther, IsQuery
  <2> QED BY <2>1
<1> QED BY <1>2, <1>3, <1>4 DEF Handling


\* What the message in hand is, and that it is new.
LEMMA NewMessage ==
  ASSUME TypeOK, TurnInv, OfferInv, PlayInv, Handling
  PROVE  /\ Playing /\ Newest \in Nat /\ Newest > 0 /\ i \in Nat
         /\ i + 1 \in 1 .. Len(ArrayOf(nRecvd))
         /\ ArrayOf(nRecvd) = IF Replaying THEN StoredQueries ELSE sent[Newest].queries
         /\ cur.kind = ArrayOf(nRecvd)[i + 1]
         /\ \E out : /\ done' = done \cup {Entry(out)} /\ Entry(out) \notin done
                     /\ Entry(out).out = out /\ Entry(out).kind = cur.kind
                     /\ Entry(out).id = Newest /\ Entry(out).stored = Replaying
                     /\ Entry(out).at = i + 1 /\ Entry(out).lib = handle
<1>1. epc = "perform"
  BY HandlingStep
<1>2. Playing /\ Reached = i /\ i + 1 \in 1 .. nRecv /\ nRecv = Len(ArrayOf(nRecvd)) /\ Newest > 0
      /\ cur.kind = ArrayOf(nRecvd)[i + 1]
  BY <1>1, InHand
<1>3. ArrayOf(nRecvd) = IF Replaying THEN StoredQueries ELSE sent[Newest].queries
  BY <1>2, ServeTypes DEF PlayInv
<1>4. PICK out : done' = done \cup {Entry(out)}
  BY HandlingStep
<1> DEFINE n == Entry(out)
<1>5. n = [id |-> Newest, at |-> i + 1, kind |-> ArrayOf(nRecvd)[i + 1],
           stored |-> Replaying, lib |-> handle, out |-> out]
  BY <1>1, InHand
<1>6. n.id = Newest /\ n.at = i + 1 /\ n.kind = cur.kind /\ n.stored = Replaying /\ n.lib = handle
      /\ n.out = out
  BY <1>2, <1>5
<1> HIDE DEF n
<1>7. n \notin done
  <2>1. \A d \in done : ThisRun(d) => d.at \in 1 .. i
    BY <1>2 DEF PlayInv
  <2> QED BY <1>6, <2>1, ServeTypes DEF ThisRun
<1> QED BY <1>2, <1>3, <1>4, <1>6, <1>7, ServeTypes DEF n

\* A message of an exec is skipped only for an error, and errors come from queries of the run.
LEMMA SkipsStep ==
  ASSUME TypeOK, TurnInv, OfferInv, PlayInv, ErrInv, HandleInv, ExecSkipsForCause, [Next]_vars
  PROVE  ExecSkipsForCause'
<1>1. \A d \in done : d.id \in 1 .. Newest /\ sent'[d.id] = sent[d.id]
  BY SentGrows DEF OfferInv
<1>2. ASSUME NEW d \in done, done \subseteq done', ~d.stored, sent'[d.id].code = d.id
      PROVE  SkippedForCause(d)'
  <2>1. SkippedForCause(d)
    BY <1>1, <1>2 DEF ExecSkipsForCause
  <2> QED BY <1>2, <2>1 DEF SkippedForCause
<1>3. CASE done' = done
  BY <1>2, <1>3 DEF ExecSkipsForCause
<1>4. CASE Replay /\ done' = done \cup {Entry("ran")}
  <2> PICK n : n = Entry("ran")
    OBVIOUS
  <2>1. n.out = "ran"
    BY DEF Entry
  <2>2. done' = done \cup {n}
    BY <1>4
  <2>3. SkippedForCause(n)'
    BY <2>1 DEF SkippedForCause
  <2> QED BY <1>2, <2>2, <2>3 DEF ExecSkipsForCause
<1>5. CASE Handling
  <2>1. PICK out : /\ done' = done \cup {Entry(out)} /\ Entry(out) \notin done
                   /\ Entry(out).out = out /\ Entry(out).kind = cur.kind
                   /\ Entry(out).id = Newest /\ Entry(out).stored = Replaying
                   /\ Entry(out).at = i + 1 /\ Entry(out).lib = handle
    BY <1>5, NewMessage
  <2>2. out = "skipped" => err \/ (cur.kind = "P" /\ handle = None)
    BY <1>5, <2>1, OutcomeOf
  <2> PICK n : n = Entry(out)
    OBVIOUS
  <2>3. /\ done' = done \cup {n} /\ n.out = out /\ n.id = Newest /\ n.stored = Replaying /\ n.at = i + 1
    BY <2>1
  <2>4. epc = "perform" /\ sent' = sent
    BY <1>5, HandlingStep
  <2>5. ASSUME n.out = "skipped", ~n.stored, sent'[n.id].code = n.id
        PROVE  \E e \in done' : SameRun(n, e) /\ IsQuery(e.kind) /\ e.at < n.at /\ e.out = "failed"
    <3>1. err
      <4> SUFFICES ASSUME cur.kind = "P", handle = None PROVE FALSE
        BY <2>2, <2>3, <2>5
      <4>1. ~Replaying /\ sent[Newest].code = Newest
        BY <2>3, <2>4, <2>5
      <4>2. HasCode(sent[Newest].queries)
        BY <1>5, <4>1, NewMessage DEF HasCode, Contains
      <4> QED BY <2>4, <4>1, <4>2 DEF HandleInv
    <3>2. PICK e \in done : ThisRun(e) /\ IsQuery(e.kind) /\ e.out = "failed"
      BY <2>4, <3>1 DEF ErrInv
    <3>3. e.at \in 1 .. i /\ i \in Nat
      BY <1>5, <2>4, <3>2, NewMessage DEF PlayInv, Reached
    <3>4. SameRun(n, e)
      BY <2>3, <3>2 DEF SameRun, ThisRun
    <3> QED BY <2>3, <3>2, <3>3, <3>4
  <2>6. (~n.stored /\ sent[n.id].code = n.id => SkippedForCause(n))'
    BY <2>5 DEF SkippedForCause, SameRun
  <2>7. done \subseteq done'
    BY <2>3
  <2> QED BY <1>2, <2>3, <2>6, <2>7 DEF ExecSkipsForCause
<1> QED BY <1>3, <1>4, <1>5, DoneStep

\* What has been left open stays open.
LEMMA PinnedStays ==
  ASSUME [Next]_vars
  PROVE  pinned # None => pinned' = pinned
<1>1. CASE OpenLibrary \/ Replay
  BY <1>1 DEF OpenLibrary, Replay, Pin
<1>2. CASE Command \/ PromptWork \/ UNCHANGED vars
  BY <1>2 DEF Command, StartExec, StartCache, StartControl, StartR, StartRR, StartJob, SwitchBackend,
       PromptWork, Top, WaitEngine, KeepPayload, DllOff, SendCount, SendPointer, Build, Make, Raise,
       WakeEngine, Cached, vars, engineVars
<1>3. CASE Engine /\ ~(OpenLibrary \/ Replay)
  BY <1>3 DEF Engine, Sleep, CheckQuery, StartRequest, Fetch, PerformQuery, PerformProcedure,
       PerformOutput, PerformNextLibrary, PerformOther, Pin, Finish, Report, ClearQuery, Release
<1> QED BY <1>1, <1>2, <1>3 DEF Next

\* A procedure runs from the handle that its run opened.
LEMMA CodeStep ==
  ASSUME LibraryFirst, TypeOK, TurnInv, OfferInv, PlayInv, ErrInv, HandleInv, RunsOwnCode, [Next]_vars
  PROVE  RunsOwnCode'
<1>1. \A d \in done : d.id \in 1 .. Newest /\ sent'[d.id] = sent[d.id]
  BY SentGrows DEF OfferInv
<1>0. pinned # None => pinned' = pinned
  BY PinnedStays
<1>2. ASSUME NEW d \in done, d.kind = "P", d.out = "ran"
      PROVE  \/ d.lib = IF d.stored THEN Stored ELSE sent'[d.id].code
             \/ ~d.stored /\ pinned' # None /\ d.lib = pinned'
  BY <1>0, <1>1, <1>2 DEF RunsOwnCode
<1>3. CASE done' = done
  BY <1>2, <1>3 DEF RunsOwnCode
<1>4. CASE Replay /\ done' = done \cup {Entry("ran")}
  <2> DEFINE n == Entry("ran")
  <2>1. n.kind = "E"
    BY <1>4 DEF Entry, Replay
  <2> HIDE DEF n
  <2>2. done' = done \cup {n}
    BY <1>4 DEF n
  <2> QED BY <1>2, <2>1, <2>2 DEF RunsOwnCode
<1>5. CASE Handling
  <2>1. PICK out : /\ done' = done \cup {Entry(out)} /\ Entry(out) \notin done
                   /\ Entry(out).out = out /\ Entry(out).kind = cur.kind
                   /\ Entry(out).id = Newest /\ Entry(out).stored = Replaying
                   /\ Entry(out).at = i + 1 /\ Entry(out).lib = handle
    BY <1>5, NewMessage
  <2>2. out = "ran" /\ cur.kind = "P" => handle # None
    BY <1>5, <2>1, OutcomeOf
  <2> DEFINE n == Entry(out)
  <2>3. /\ done' = done \cup {n} /\ n.out = out /\ n.id = Newest /\ n.stored = Replaying
        /\ n.kind = cur.kind /\ n.lib = handle
    BY <2>1
  <2> HIDE DEF n
  <2>4. epc = "perform" /\ sent' = sent
    BY <1>5, HandlingStep
  <2>5. ASSUME n.kind = "P", n.out = "ran"
        PROVE  \/ n.lib = IF n.stored THEN Stored ELSE sent'[n.id].code
               \/ ~n.stored /\ pinned' # None /\ n.lib = pinned'
    <3>1. handle # None /\ cur.kind = "P"
      BY <2>2, <2>3, <2>5
    <3>2. CASE Replaying
      <4>1. i + 1 \in 1 .. Len(StoredQueries) /\ StoredQueries[i + 1] = "P" /\ i \in Nat
        BY <1>5, <3>1, <3>2, NewMessage
      <4>2. \E k \in 1 .. i : StoredQueries[k] = "N"
        BY <4>1 DEF LibraryFirst
      <4>3. handle = Stored
        BY <2>4, <3>2, <4>2 DEF HandleInv
      <4> QED BY <2>3, <3>2, <4>3
    <3>3. CASE ~Replaying
      <4>1. HasCode(sent[Newest].queries)
        BY <1>5, <3>1, <3>3, NewMessage DEF HasCode, Contains
      <4>2. handle = sent[Newest].code \/ (pinned # None /\ handle = pinned)
        BY <2>4, <3>1, <3>3, <4>1 DEF HandleInv
      <4> QED BY <1>0, <2>3, <2>4, <3>3, <4>2
    <3> QED BY <3>2, <3>3
  <2> QED BY <1>2, <2>3, <2>5 DEF RunsOwnCode
<1> QED BY <1>3, <1>4, <1>5, DoneStep

LEMMA BuildInit == Init => BuildInv /\ HandleInv
<1> SUFFICES ASSUME Init PROVE BuildInv /\ HandleInv
  OBVIOUS
<1>1. /\ Newest = 0 /\ ppc = "top" /\ job.kind = "none" /\ epc = "sleep"
      /\ snippet.queries = <<>> /\ snippet.code = 0
  BY DEF Init, Newest, NoJob, None
<1> QED BY <1>1, CodeOfSmall DEF BuildInv, KindInv, SnippetInv, SentInv, LibraryInv, HandleInv,
                                 InExec, Handed, Between

ErrorInv == ArrayInv /\ ServeInv /\ ErrInv

LEMMA ErrStep ==
  ASSUME TypeOK, HandOverInv, ServeInv, ErrInv, [Next]_vars
  PROVE  ErrInv'
<1>1. TurnInv /\ AloneInv /\ PlayInv
  BY DEF HandOverInv, ServeInv
<1> QED BY <1>1, ErrPrompt, ErrOutside, ErrReplay, ErrHandled DEF Next, Engine, Handling

LEMMA ErrorAlways == ASSUME OneAtATime PROVE Spec => []ErrorInv
<1>1. Init => ErrorInv
  BY ArrayStart, ServeInit DEF ErrorInv, ErrInv, Init
<1>2. TypeOK /\ HandOverInv /\ ErrorInv /\ [Next]_vars => ErrorInv'
  BY ArrayStep, ServeStep, ErrStep DEF ErrorInv
<1> QED BY <1>1, <1>2, TypeCorrect, HandOverAlways, PTL DEF Spec

\* A procedure runs from the library built for the statements of its own array, and in a stored
\* procedure from the library recorded with it, never from the dll.so of an earlier exec other
\* than the one that a replay left open
\* (server.cpp:269-287, 376-385; prompt.py:503-521).
THEOREM RunsOwnLibrary ==
  ASSUME OneAtATime, PlainCache, AlwaysBuilds, LibraryFirst
  PROVE  Spec => []RunsOwnCode
<1> DEFINE CodeInv == BuildInv /\ HandleInv /\ RunsOwnCode
<1>1. Init => CodeInv
  BY BuildInit DEF RunsOwnCode, Init
<1>2. TypeOK /\ HandOverInv /\ ErrorInv /\ CodeInv /\ [Next]_vars => CodeInv'
  <2> SUFFICES ASSUME TypeOK, HandOverInv, ErrorInv, CodeInv, [Next]_vars PROVE CodeInv'
    OBVIOUS
  <2>1. TurnInv /\ OfferInv /\ PlayInv /\ ErrInv
    BY DEF HandOverInv, ErrorInv, ServeInv
  <2> QED BY <2>1, BuildStep, HandleStep, CodeStep
<1> QED BY <1>1, <1>2, TypeCorrect, HandOverAlways, ErrorAlways, PTL DEF Spec

\* A P or O message runs only if the query before it went well, and a message of an exec is
\* skipped only after a query of the same run failed: the one error flag of the server, set by a
\* statement and cleared by whoever asks, tells each consumer of its own statement
\* (server.cpp:300-317, 356-370).
THEOREM OutcomesHaveCauses ==
  ASSUME OneAtATime, PlainCache, OneConsumer, AlwaysBuilds
  PROVE  Spec => []OutcomesForCause
<1> DEFINE CauseInv == BuildInv /\ HandleInv /\ OwnQueryInv /\ ExecSkipsForCause
<1>1. Init => CauseInv
  BY BuildInit, OwnQueryInit DEF ExecSkipsForCause, Init
<1>2. TypeOK /\ HandOverInv /\ ErrorInv /\ CauseInv /\ [Next]_vars => CauseInv'
  <2> SUFFICES ASSUME TypeOK, HandOverInv, ErrorInv, CauseInv, [Next]_vars PROVE CauseInv'
    OBVIOUS
  <2>1. TurnInv /\ OfferInv /\ PlayInv /\ ErrInv /\ ServeInv
    BY DEF HandOverInv, ErrorInv, ServeInv
  <2> QED BY <2>1, BuildStep, HandleStep, OwnQueryStep, SkipsStep
<1>3. CauseInv => OutcomesForCause
  BY DEF OutcomesForCause, OwnQueryInv
<1> QED BY <1>1, <1>2, <1>3, TypeCorrect, HandOverAlways, ErrorAlways, PTL DEF Spec
=============================================================================
