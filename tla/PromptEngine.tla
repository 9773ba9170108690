---------------------------- MODULE PromptEngine ----------------------------
(***************************************************************************)
(* How the prompt (prompt.py, common/utils.py) passes requests to the       *)
(* engine thread (server/server.cpp, threaded_main).  The prompt stores an  *)
(* array of messages with receive_args, sets cfg.new_query and posts the    *)
(* engine semaphore; the engine interprets the messages, clears new_query   *)
(* and posts the prompt semaphore.  The two threads share n_recv, n_recvd,  *)
(* the array they point to (the prompt frees it), cfg and the file dll.so.  *)
(*                                                                         *)
(* A message is its first letter: Q a statement, I a statement that inserts *)
(* into a table with a callback trigger (sent as a Q), P a post-processing  *)
(* procedure, O an output, T an activation of a callback trigger (TA), E    *)
(* the run of a stored procedure (RE), N the library mark inside one, and C *)
(* any other message the prompt sends by itself (procedure record, stop,    *)
(* load..., caching of a table).                                            *)
(***************************************************************************)
EXTENDS Integers, Sequences, SequencesExt

CONSTANTS
  Commands,       \* what the user types: some of AllCommands
  Batches,        \* the message sequences that exec generates
  CacheRuns,      \* how many CACHE statements one exec may hold
  BesideCache,    \* the message sequences of the other statements of such an exec
  StoredQueries,  \* the messages of the stored procedure that E runs
  BuildMayFail,   \* whether compiling out.cpp can fail
  Backends,       \* the backends the user selects
  MaxRequests     \* bound on the requests of a behaviour

AllCommands == {"exec", "exec_n", "cache", "control", "r", "rr"}
AllBackends == {"MonetDB", "AQuery", "MariaDB"}
Kinds == {"Q", "I", "P", "O", "T", "E", "N", "C"}

ASSUME PromptAssumption ==
  /\ Commands \subseteq AllCommands
  /\ Batches \subseteq Seq({"Q", "I", "P", "O"})
  /\ CacheRuns \subseteq Nat \ {0} /\ BesideCache \subseteq Batches \cup {<<>>}
  /\ StoredQueries \in Seq({"Q", "I", "P", "O", "N"})
  /\ BuildMayFail \in BOOLEAN
  /\ "MonetDB" \in Backends /\ Backends \subseteq AllBackends
  /\ MaxRequests \in Nat

Stored == -1                   \* names the stored procedure's array and library
None == 0                      \* nullptr, no library, no file

VARIABLES
  ppc, job,            \* the prompt: position, and the command it works on
  snippet, outCpp,     \* cxt.queries with the exec they come from; code in out.cpp
  sent,                \* every array made, in order: its messages and their code
  kept,                \* the array that state.payload keeps alive
  nRecv, nRecvd,       \* n_recv and n_recvd; an array is its index in sent
  newQuery, hasDll, backend,   \* cfg.new_query, cfg.has_dll, cfg.backend_type
  dll,                 \* the exec whose code dll.so holds
  promptSem, engineSem,
  epc, i, cur,         \* the engine: position, loop index, message in hand
  handle,              \* library the current request opened
  pinned,              \* the code of dll.so that was left open for good
  origin,              \* array whose E message is being replayed
  err,                 \* server->last_error is set
  done,                \* history: every message handled, with its outcome
  released, raised     \* history: arrays handed over on a live backend; requests

promptVars == <<ppc, job, snippet, outCpp>>
arrayVars == <<sent, kept, nRecv, nRecvd>>
cfgVars == <<newQuery, hasDll, backend, dll>>
semVars == <<promptSem, engineSem>>
engineVars == <<epc, i, cur, handle, pinned, origin, err, done>>
countVars == <<released, raised>>
vars == <<promptVars, arrayVars, cfgVars, semVars, engineVars, countVars>>

Live == backend \in {"MonetDB", "AQuery"}       \* the backends the loop serves
IsQuery(k) == k \in {"Q", "I"}
HasCode(q) == Contains(q, "P")

NoJob == [kind |-> "none", queries |-> <<>>, code |-> None, build |-> FALSE, left |-> 0]
NoMessage == [id |-> None, at |-> 0, kind |-> "C"]

Init ==
  /\ ppc = "top" /\ job = NoJob
  /\ snippet = [queries |-> <<>>, code |-> None]
  /\ outCpp = None
  /\ sent = <<>> /\ kept = None
  /\ nRecv = 0 /\ nRecvd = None
  /\ newQuery = FALSE /\ hasDll = FALSE /\ backend = "MonetDB"
  /\ dll = None
  /\ promptSem = 1
  /\ engineSem \in {0, 1}      \* sem_init's arguments leave 1, the others 0
  /\ epc = "sleep" /\ i = 0 /\ cur = NoMessage
  /\ handle = None /\ pinned = None /\ origin = None /\ err = FALSE
  /\ done = {} /\ released = {} /\ raised = 0

MayRaise(n) == raised + n <= MaxRequests /\ Len(sent) + n <= MaxRequests
-----------------------------------------------------------------------------
(* Faulty variants of actions below, each one plausible slip in the code.    *)
(* Nothing refers to them: they show which slips the properties notice.      *)

WaitEngineNoBlock ==           \* the semaphore is decremented without waiting
  /\ ppc = "wait"
  /\ promptSem' = promptSem - 1
  /\ ppc' = "top"
  /\ UNCHANGED <<job, snippet, outCpp, arrayVars, cfgVars, engineSem, engineVars, countVars>>

TopNoWait ==                   \* the loop does not test get_ready()
  /\ ppc = "top"
  /\ ppc' = "command"
  /\ UNCHANGED <<job, snippet, outCpp, arrayVars, cfgVars, semVars, engineVars, countVars>>

CheckQueryClears ==            \* new_query is cleared when it is seen, not at the end
  /\ epc = "check"
  /\ epc' = IF newQuery THEN "start" ELSE "release"
  /\ newQuery' = FALSE
  /\ origin' = None
  /\ UNCHANGED <<promptVars, arrayVars, hasDll, backend, dll, semVars, i, cur, handle, pinned,
                 err, done, countVars>>

FinishKeepsCount ==            \* n_recv is not reset after the loop
  /\ epc = "finish"
  /\ epc' = "report"
  /\ UNCHANGED <<promptVars, arrayVars, cfgVars, semVars, i, cur, handle, pinned, origin, err, done,
                 countVars>>

ReportForgotten ==             \* a pending error survives the request
  /\ epc = "report"
  /\ epc' = "clear"
  /\ UNCHANGED <<promptVars, arrayVars, cfgVars, semVars, i, cur, handle, pinned, origin, err, done,
                 countVars>>

BuildOnlyOnce ==               \* a dll.so that is there is taken to be up to date
  /\ ppc = "build"
  /\ IF HasCode(job.queries)
     THEN /\ outCpp' = job.code
          /\ IF job.build
             THEN dll' = (IF dll = None THEN job.code ELSE dll) /\ hasDll' = TRUE
             ELSE UNCHANGED <<dll, hasDll>>
     ELSE hasDll' = FALSE /\ UNCHANGED <<outCpp, dll>>
  /\ ppc' = IF job.build THEN "raise" ELSE "top"
  /\ UNCHANGED <<job, snippet, arrayVars, newQuery, backend, semVars, engineVars, countVars>>

ReleaseForgotten ==            \* the engine does not post the prompt
  /\ epc = "release"
  /\ epc' = "sleep"
  /\ UNCHANGED <<promptVars, arrayVars, cfgVars, semVars, i, cur, handle, pinned, origin, err, done,
                 countVars>>
-----------------------------------------------------------------------------
(* The prompt's loop.                                                        *)

\* `while state.get_ready()`: the test of the waiting loop.
Top ==
  /\ ppc = "top"
  /\ ppc' = IF newQuery THEN "wait" ELSE "command"
  /\ UNCHANGED <<job, snippet, outCpp, arrayVars, cfgVars, semVars, engineVars, countVars>>

\* state.wait_engine()
WaitEngine ==
  /\ ppc = "wait"
  /\ promptSem > 0
  /\ promptSem' = promptSem - 1
  /\ ppc' = "top"
  /\ UNCHANGED <<job, snippet, outCpp, arrayVars, cfgVars, engineSem, engineVars, countVars>>

StartJob(j, s, to) ==
  /\ ppc = "command"
  /\ ppc' = to
  /\ job' = j
  /\ snippet' = s
  /\ UNCHANGED <<outCpp, arrayVars, cfgVars, semVars, engineVars, countVars>>

\* exec, xexec: cxt.new() forgets the last queries, the statements give new ones.
StartExec(q, build) ==
  /\ (IF build THEN "exec" ELSE "exec_n") \in Commands
  /\ MayRaise(1)
  /\ LET code == Len(sent) + 1 IN
       StartJob([kind |-> "exec", queries |-> q, code |-> code, build |-> build, left |-> 1],
                [queries |-> q, code |-> code], "keep")

\* exec with n CACHE statements: each calls send_to_server while the code is generated, and sets
\* has_payload to False, so that the messages q of the other statements wait for an `r`.
StartCache(n, q, build) ==
  /\ "cache" \in Commands /\ (build \/ "exec_n" \in Commands)
  /\ MayRaise(n)
  /\ StartJob([kind |-> "cache", queries |-> <<"C">>, code |-> None, build |-> build, left |-> n],
              [queries |-> q, code |-> Len(sent) + 1], "keep")

\* procedure <name> record, stop, load, ... (C) or run (E): one send_to_server.
StartControl(m) ==
  /\ "control" \in Commands
  /\ MayRaise(1)
  /\ StartJob([kind |-> "control", queries |-> <<m>>, code |-> None, build |-> FALSE, left |-> 1],
              snippet, "keep")

\* r: the last queries again.
StartR ==
  /\ "r" \in Commands
  /\ MayRaise(1)
  /\ StartJob([kind |-> "r", queries |-> snippet.queries, code |-> snippet.code,
               build |-> TRUE, left |-> 1], snippet, "keep")

\* rr: set_ready() and nothing else.
StartRR ==
  /\ "rr" \in Commands
  /\ MayRaise(1)
  /\ StartJob([kind |-> "rr", queries |-> <<>>, code |-> None, build |-> FALSE, left |-> 1],
              snippet, "raise")

\* engine <name>
SwitchBackend(b) ==
  /\ ppc = "command"
  /\ backend' = b
  /\ ppc' = "top"
  /\ UNCHANGED <<job, snippet, outCpp, arrayVars, newQuery, hasDll, dll, semVars,
                 engineVars, countVars>>

Command ==
  \/ \E q \in Batches, build \in BOOLEAN : StartExec(q, build)
  \/ \E n \in CacheRuns, q \in BesideCache, build \in BOOLEAN : StartCache(n, q, build)
  \/ \E m \in {"C", "E"} : StartControl(m)
  \/ StartR \/ StartRR
  \/ \E b \in Backends : SwitchBackend(b)

\* state.payload = payload: the new array is kept, the one before is freed.
KeepPayload ==
  /\ ppc = "keep"
  /\ sent' = Append(sent, [queries |-> job.queries, code |-> job.code])
  /\ kept' = Len(sent) + 1
  /\ ppc' = IF job.kind \in {"cache", "control"} THEN "dllOff" ELSE "count"
  /\ UNCHANGED <<job, snippet, outCpp, nRecv, nRecvd, cfgVars, semVars, engineVars, countVars>>

\* cxt.cfg.has_dll = 0 in send_to_server
DllOff ==
  /\ ppc = "dllOff"
  /\ hasDll' = FALSE
  /\ ppc' = "count"
  /\ UNCHANGED <<job, snippet, outCpp, arrayVars, newQuery, backend, dll, semVars,
                 engineVars, countVars>>

\* receive_args: n_recv = argc
SendCount ==
  /\ ppc = "count"
  /\ nRecv' = Len(job.queries)
  /\ ppc' = "point"
  /\ UNCHANGED <<job, snippet, outCpp, sent, kept, nRecvd, cfgVars, semVars, engineVars, countVars>>

\* receive_args: n_recvd = argv
SendPointer ==
  /\ ppc = "point"
  /\ nRecvd' = Len(sent)
  /\ ppc' = CASE job.kind = "exec" -> "build" [] job.kind = "r" -> "make" [] OTHER -> "raise"
  /\ UNCHANGED <<job, snippet, outCpp, sent, kept, nRecv, cfgVars, semVars, engineVars, countVars>>

\* The end of exec: out.cpp, build_dll (its result is not looked at), has_dll, and
\* post_exec_triggers, which appends to cxt.queries.
EndOfExec(queries, code) ==
  /\ IF HasCode(queries)
     THEN /\ outCpp' = code
          /\ IF job.build
             THEN /\ dll' \in {code} \cup (IF BuildMayFail THEN {dll} ELSE {})
                  /\ hasDll' = TRUE
             ELSE UNCHANGED <<dll, hasDll>>
     ELSE hasDll' = FALSE /\ UNCHANGED <<outCpp, dll>>
  /\ snippet' = IF Contains(queries, "I")
                THEN [snippet EXCEPT !.queries = Append(@, "T")] ELSE snippet

\* After the send, and before the request is raised.
Build ==
  /\ ppc = "build"
  /\ EndOfExec(job.queries, job.code)
  /\ ppc' = IF job.build THEN "raise" ELSE "top"
  /\ UNCHANGED <<job, arrayVars, newQuery, backend, semVars, engineVars, countVars>>

\* r: make snippet; only a successful build starts the request.
Make ==
  /\ ppc = "make"
  /\ \/ outCpp # None /\ dll' = outCpp /\ ppc' = "raise"
     \/ (outCpp = None \/ BuildMayFail) /\ ppc' = "top" /\ UNCHANGED dll
  /\ UNCHANGED <<job, snippet, outCpp, arrayVars, newQuery, hasDll, backend, semVars,
                 engineVars, countVars>>

\* __set_ready: new_query = 1
Raise ==
  /\ ppc = "raise"
  /\ newQuery' = TRUE
  /\ raised' = raised + 1
  /\ released' = IF Live /\ job.kind # "rr" THEN released \cup {Len(sent)} ELSE released
  /\ ppc' = "wake"
  /\ UNCHANGED <<job, snippet, outCpp, arrayVars, hasDll, backend, dll, semVars, engineVars>>

\* __set_ready: wake_engine()
WakeEngine ==
  /\ ppc = "wake"
  /\ engineSem' = engineSem + 1
  /\ job' = [job EXCEPT !.left = @ - 1]
  /\ ppc' = IF job.kind # "cache" THEN "top" ELSE IF job.left > 1 THEN "keep" ELSE "cached"
  /\ UNCHANGED <<snippet, outCpp, arrayVars, cfgVars, promptSem, engineVars, countVars>>

\* The end of an exec with CACHE statements, whose requests are raised already; no set_ready.
Cached ==
  /\ ppc = "cached"
  /\ EndOfExec(snippet.queries, snippet.code)
  /\ ppc' = "top"
  /\ UNCHANGED <<job, arrayVars, newQuery, backend, semVars, engineVars, countVars>>

PromptWork ==
  \/ Top \/ WaitEngine \/ KeepPayload \/ DllOff \/ SendCount \/ SendPointer
  \/ Build \/ Make \/ Raise \/ WakeEngine \/ Cached
-----------------------------------------------------------------------------
(* The engine's loop.                                                        *)

\* ENGINE_ACQUIRE()
Sleep ==
  /\ epc = "sleep"
  /\ engineSem > 0
  /\ engineSem' = engineSem - 1
  /\ epc' = "check"
  /\ UNCHANGED <<promptVars, arrayVars, cfgVars, promptSem, i, cur, handle, pinned, origin,
                 err, done, countVars>>

\* if (cfg->new_query)
CheckQuery ==
  /\ epc = "check"
  /\ epc' = IF newQuery THEN "start" ELSE "release"
  /\ origin' = None
  /\ UNCHANGED <<promptVars, arrayVars, cfgVars, semVars, i, cur, handle, pinned, err, done, countVars>>

\* start: handle = nullptr; a backend the loop does not serve skips everything.
StartRequest ==
  /\ epc = "start"
  /\ handle' = None
  /\ i' = 0
  /\ epc' = IF ~Live THEN "clear" ELSE IF nRecv > 0 THEN "open" ELSE "report"
  /\ UNCHANGED <<promptVars, arrayVars, cfgVars, semVars, cur, pinned, origin, err, done, countVars>>

\* dlopen("./dll.so"): the code that is open under this name already, or else that of the file.
\* The end of a request that replays closes nothing.
OpenLibrary ==
  /\ epc = "open"
  /\ handle' = IF backend = "AQuery" \/ hasDll THEN (IF pinned = None THEN dll ELSE pinned)
               ELSE None
  /\ pinned' = IF pinned = None /\ origin # None THEN handle' ELSE pinned
  /\ epc' = "loop"
  /\ UNCHANGED <<promptVars, arrayVars, cfgVars, semVars, i, cur, origin, err, done, countVars>>

ArrayOf(a) == IF a = Stored THEN StoredQueries ELSE sent[a].queries

\* n_recvd[i] is memory the prompt still keeps, or the engine's own.
Readable == /\ nRecvd = Stored \/ (nRecvd = kept /\ kept # None)
            /\ i + 1 \in 1 .. Len(ArrayOf(nRecvd))

\* for (i < n_recv) switch (n_recvd[i][0]).  Freed memory or memory past the end of
\* the array can hold anything.
Fetch ==
  /\ epc = "loop"
  /\ IF i < nRecv
     THEN /\ epc' = "perform"
          /\ IF Readable
             THEN cur' = [id |-> nRecvd, at |-> i + 1, kind |-> ArrayOf(nRecvd)[i + 1]]
             ELSE \E k \in Kinds : cur' = [id |-> None, at |-> i + 1, kind |-> k]
     ELSE epc' = "finish" /\ UNCHANGED cur
  /\ UNCHANGED <<promptVars, arrayVars, cfgVars, semVars, i, handle, pinned, origin, err, done,
                 countVars>>

Entry(outcome) ==
  [id |-> IF cur.id = Stored THEN origin ELSE cur.id, at |-> cur.at, kind |-> cur.kind,
   stored |-> cur.id = Stored, lib |-> handle, out |-> outcome]

\* The end of a case of the switch: the message is handled.
Handled(outcome) ==
  /\ done' = done \cup {Entry(outcome)}
  /\ i' = i + 1
  /\ epc' = "loop"

engineRest == <<promptVars, arrayVars, cfgVars, semVars, cur, origin, countVars>>

\* case 'Q': exec sets last_error when the statement fails and leaves it otherwise.
PerformQuery ==
  /\ epc = "perform" /\ IsQuery(cur.kind)
  /\ \/ Handled("ran") /\ UNCHANGED err
     \/ Handled("failed") /\ err' = TRUE
  /\ UNCHANGED <<engineRest, handle, pinned>>

\* case 'P': if (handle && !haserror()); haserror clears last_error.
PerformProcedure ==
  /\ epc = "perform" /\ cur.kind = "P"
  /\ IF handle = None THEN Handled("skipped") /\ UNCHANGED err
     ELSE /\ Handled(IF err THEN "skipped" ELSE "ran")
          /\ err' = FALSE
  /\ UNCHANGED <<engineRest, handle, pinned>>

\* case 'O': if (!haserror())
PerformOutput ==
  /\ epc = "perform" /\ cur.kind = "O"
  /\ Handled(IF err THEN "skipped" ELSE "ran")
  /\ err' = FALSE
  /\ UNCHANGED <<engineRest, handle, pinned>>

\* case 'N': handle = the next library of the stored procedure
PerformNextLibrary ==
  /\ epc = "perform" /\ cur.kind = "N"
  /\ handle' = IF origin # None THEN Stored ELSE handle
  /\ Handled("ran")
  /\ UNCHANGED <<engineRest, pinned, err>>

\* dll.so, when this request opened it, will not be closed.
Pin == IF pinned = None /\ handle # Stored THEN handle ELSE pinned

\* The other cases, up to RE.  The request that begins to record a procedure closes nothing.
PerformOther ==
  /\ epc = "perform" /\ cur.kind \in {"T", "C"}
  /\ Handled("ran")
  /\ pinned' \in {pinned} \cup (IF cur.kind = "C" THEN {Pin} ELSE {})
  /\ UNCHANGED <<engineRest, handle, err>>

\* A faulty variant of the next action: n_recv and n_recvd stay the caller's.
ReplaySameArray ==
  /\ epc = "perform" /\ cur.kind = "E"
  /\ origin' = cur.id
  /\ done' = done \cup {Entry("ran")}
  /\ epc' = "start"
  /\ UNCHANGED <<promptVars, arrayVars, cfgVars, semVars, i, cur, handle, pinned, err, countVars>>

\* case 'R', 'E': n_recv and n_recvd become the procedure's, goto start, where the handle in use
\* is overwritten.
Replay ==
  /\ epc = "perform" /\ cur.kind = "E"
  /\ origin' = cur.id
  /\ pinned' = Pin
  /\ nRecv' = Len(StoredQueries)
  /\ nRecvd' = Stored
  /\ done' = done \cup {Entry("ran")}
  /\ epc' = "start"
  /\ UNCHANGED <<promptVars, sent, kept, cfgVars, semVars, i, cur, handle, err, countVars>>

\* n_recv = 0
Finish ==
  /\ epc = "finish"
  /\ nRecv' = 0
  /\ epc' = "report"
  /\ UNCHANGED <<promptVars, sent, kept, nRecvd, cfgVars, semVars, i, cur, handle, pinned, origin,
                 err, done, countVars>>

\* A pending last_error is printed and cleared.
Report ==
  /\ epc = "report"
  /\ err' = FALSE
  /\ epc' = "clear"
  /\ UNCHANGED <<promptVars, arrayVars, cfgVars, semVars, i, cur, handle, pinned, origin, done, countVars>>

\* dlclose(handle); cfg->new_query = 0
ClearQuery ==
  /\ epc = "clear"
  /\ newQuery' = FALSE
  /\ handle' = None
  /\ epc' = "release"
  /\ UNCHANGED <<promptVars, arrayVars, hasDll, backend, dll, semVars, i, cur, pinned, origin,
                 err, done, countVars>>

\* PROMPT_RELEASE()
Release ==
  /\ epc = "release"
  /\ promptSem' = promptSem + 1
  /\ epc' = "sleep"
  /\ UNCHANGED <<promptVars, arrayVars, cfgVars, engineSem, i, cur, handle, pinned, origin,
                 err, done, countVars>>

Engine ==
  \/ Sleep \/ CheckQuery \/ StartRequest \/ OpenLibrary \/ Fetch \/ PerformQuery
  \/ PerformProcedure \/ PerformOutput \/ PerformNextLibrary \/ PerformOther \/ Replay
  \/ Finish \/ Report \/ ClearQuery \/ Release

Next == Command \/ PromptWork \/ Engine

Spec == Init /\ [][Next]_vars

\* The operating system schedules both threads; what the user types is not fair.
Fairness == WF_vars(PromptWork) /\ WF_vars(Engine)

FairSpec == Spec /\ Fairness
-----------------------------------------------------------------------------
(* Properties.                                                               *)

PromptPC == {"top", "wait", "command", "keep", "dllOff", "count", "point", "build",
             "make", "raise", "wake", "cached"}
EnginePC == {"sleep", "check", "start", "open", "loop", "perform", "finish", "report",
             "clear", "release"}
Ids == Nat \cup {Stored}        \* arrays, libraries
Queries == Seq(Kinds)

PromptOK ==
  /\ ppc \in PromptPC
  /\ job \in [kind : {"none", "exec", "cache", "control", "r", "rr"}, queries : Queries,
              code : Nat, build : BOOLEAN, left : Int]
  /\ snippet \in [queries : Queries, code : Nat]
  /\ outCpp \in Nat
ArraysOK ==
  /\ sent \in Seq([queries : Queries, code : Nat])
  /\ kept \in 0 .. Len(sent)
  /\ nRecv \in Nat
  /\ nRecvd \in (0 .. Len(sent)) \cup {Stored}
CfgOK ==
  /\ newQuery \in BOOLEAN /\ hasDll \in BOOLEAN
  /\ backend \in AllBackends
  /\ dll \in Nat
  /\ promptSem \in Nat /\ engineSem \in Nat
EngineOK ==
  /\ epc \in EnginePC
  /\ i \in Nat
  /\ cur \in [id : Ids, at : Nat, kind : Kinds]
  /\ handle \in Ids /\ pinned \in Nat
  /\ origin \in Ids
  /\ err \in BOOLEAN
DoneOK ==
  /\ done \subseteq [id : Ids, at : Nat, kind : Kinds, stored : BOOLEAN, lib : Ids,
                     out : {"ran", "failed", "skipped"}]
  /\ released \subseteq Nat
  /\ raised \in Nat

\* Every variable keeps its type: in particular kept and nRecvd always name an array
\* that was made, however the two threads interleave (receive_args, server.cpp:78-81).
TypeOK == PromptOK /\ ArraysOK /\ CfgOK /\ EngineOK /\ DoneOK

\* The memory both threads use has one owner at a time: from `new_query = 1` until
\* `new_query = 0` only the engine's steps write it, before and after only the prompt's.
Box == INSTANCE Mailbox WITH
         Mail <- [n : Nat, p : Ids, kept : Nat, flag : BOOLEAN, on : AllBackends, so : Nat],
         owner <- IF newQuery THEN "engine" ELSE "prompt",
         mail <- [n |-> nRecv, p |-> nRecvd, kept |-> kept, flag |-> hasDll, on |-> backend,
                  so |-> dll],
         prompt <- <<promptVars, sent>>,
         engine <- engineVars
RefinesMailbox == Box!MailboxSpec

\* The engine never reads a message from an array that the prompt has freed, nor past
\* the end of one (prompt.py:495 keeps the payload alive for it).
ReadsAlive == epc = "loop" /\ i < nRecv => Readable

\* A message is handled once, and none after a message that comes later in its array or
\* in a later array, spurious wake-ups and `rr` included.
OnceInOrder ==
  epc = "perform" =>
    \A d \in done : \/ d.id < Entry("ran").id
                    \/ d.id = Entry("ran").id /\ ~d.stored /\ Entry("ran").stored
                    \/ /\ d.id = Entry("ran").id
                       /\ d.stored = Entry("ran").stored
                       /\ d.at < cur.at

\* When the prompt reads the next command, every request handed to a backend that serves
\* requests has been handled to its last message, the stored procedure it ran included.
AnsweredInFull ==
  ppc = "command" =>
    \A a \in released :
      /\ DOMAIN sent[a].queries \subseteq {d.at : d \in {e \in done : e.id = a /\ ~e.stored}}
      /\ sent[a].queries = <<"E">> =>
           DOMAIN StoredQueries \subseteq {d.at : d \in {e \in done : e.id = a /\ e.stored}}

SameRun(d, e) == d.id = e.id /\ d.stored = e.stored

\* A procedure or an output whose own statement failed is not run: haserror() is asked
\* first, and asking clears the error only for the consumer of that statement.
OwnQuery ==
  \A d, e \in done :
    /\ d.kind \in {"P", "O"} /\ d.out = "ran"
    /\ SameRun(d, e) /\ IsQuery(e.kind) /\ e.at < d.at
    /\ ~\E x \in done : SameRun(d, x) /\ IsQuery(x.kind) /\ e.at < x.at /\ x.at < d.at
    => e.out = "ran"

SkippedForCause(d) ==
  d.out = "skipped" =>
    \E e \in done : SameRun(d, e) /\ IsQuery(e.kind) /\ e.at < d.at /\ e.out = "failed"

\* exec leaves out a message only after a statement of the same request failed: neither
\* an error of an earlier request nor an old has_dll makes it skip anything.
ExecSkipsForCause ==
  \A d \in done : ~d.stored /\ sent[d.id].code = d.id => SkippedForCause(d)

\* A procedure runs from the library built for its own statements (or for its own stored
\* procedure), never from the dll.so of an earlier exec; but once a stored procedure was run, or
\* its recording begun, with dll.so open, that code is what every later request may get.
RunsOwnCode ==
  \A d \in done : d.kind = "P" /\ d.out = "ran" =>
    \/ d.lib = IF d.stored THEN Stored ELSE sent[d.id].code
    \/ ~d.stored /\ pinned # None /\ d.lib = pinned

\* The two threads never both sleep with a request or a reply outstanding, whatever credit
\* the semaphores started with and however often set_ready is called in a row.
NeverBothAsleep ==
  ~(ppc = "wait" /\ promptSem = 0 /\ epc = "sleep" /\ engineSem = 0)

\* Waiting for the engine ends: the prompt comes back to the next command.
Answered == ppc = "wait" ~> ppc = "command"

\* What becomes of a message has its cause in the same request: a P or O message runs only
\* after a query of its own that went well, and one of an exec is skipped only for a failed
\* query, a missing library or a name it lacks, never for what an earlier command left.
OutcomesForCause == OwnQuery /\ ExecSkipsForCause

\* Over the jump back to a stored procedure and over a change of backend, every message of
\* a released array was performed, once and in the order of the array.
PerformedInFull == OnceInOrder /\ AnsweredInFull
=============================================================================
