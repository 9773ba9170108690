----------------------------- MODULE Procedures -----------------------------
(***************************************************************************)
(* Stored procedures (server/server.cpp, threaded_main; the procedure       *)
(* command of prompt.py).  While a procedure is recorded the engine keeps   *)
(* the messages it performs and a copy of every library they use; `stop`    *)
(* writes the messages to <name>.aqp.  A run performs them again, from      *)
(* memory or, after a restart, from the files.                              *)
(*                                                                         *)
(* Prompt and engine take turns (PromptEngine), so a command is a request   *)
(* that the engine performs to its end; what can come in between is a crash *)
(* of the process, which keeps the files and loses the rest.                *)
(*                                                                         *)
(* A message has a kind: Q a statement, P a post-processing procedure, O an *)
(* output without limit, L one whose 32-bit limit has a zero byte, X what a *)
(* file holds of an L, N the next library; R, RT, RE, RL record, stop, run  *)
(* and load.  Its argument is the exec whose library has the procedure (P), *)
(* or the name of the stored procedure (R..).                               *)
(***************************************************************************)
EXTENDS Integers, Sequences, SequencesExt

CONSTANTS
  Names,         \* names of procedures
  Batches,       \* the kinds of the messages that one exec sends
  DiskMayFail,   \* copying dll.so, opening or writing an .aqp file can fail
  MaxExecs, MaxRequests, MaxCrashes,  \* bounds of a behaviour
  None, Torn     \* no name, no library, no file; half a file

ASSUME ProcedureAssumption ==
  /\ Batches \subseteq Seq({"Q", "P", "O", "L"})
  /\ DiskMayFail \in BOOLEAN
  /\ MaxExecs \in Nat /\ MaxRequests \in Nat /\ MaxCrashes \in Nat
  /\ None \notin Names \cup Nat

\* Files by their paths: dll.so, and the copies <name><j>.so; a name may be empty.
Keys == Names \cup {None}
Dll == <<None, -1>>
Copies == Keys \X (0 .. MaxRequests)
Paths == Copies \cup {Dll}

Message(k, x) == [kind |-> k, arg |-> x]
Mark == Message("N", None)
Empty == [queries |-> <<>>, libs |-> <<>>, of |-> <<>>]

VARIABLES
  current,                     \* the prompt: state.current_procedure
  pc, n_recvd, i, opens,       \* the request: position, messages, the next, opens dll.so
  handle, err,                 \* library in use; server->last_error is set
  recording, recName,          \* procedure_recording, procedure_name
  recorded_queries, recorded_libraries,
  replaying, proc, cursor,     \* name being replayed, current_procedure, its next library
  stored_proc,                 \* cxt->stored_proc
  opened,                      \* libraries that dlopen has mapped: their exec, and how often
  so, aqp,                     \* the .so files (the exec whose code they hold), the .aqp files
  execs, requests, crashes,    \* what the bounds count
  ran, played,                 \* history: the messages of this recording, of this replay
  unsaved,                     \* history: the names whose last save has failed
  faults                       \* history: what has gone wrong ("stale" a library, "mixed" files,
                               \* "lost" the engine: it called or read what is not there)

requestVars == <<pc, n_recvd, i, opens>>
recordVars == <<recording, recName, recorded_queries, recorded_libraries>>
replayVars == <<replaying, proc, cursor>>
diskVars == <<so, aqp>>
boundVars == <<execs, requests, crashes>>
histVars == <<ran, played, unsaved, faults>>

Unopened == [p \in Paths |-> [code |-> None, refs |-> 0]]
Fault(f, bad) == faults' = IF bad THEN faults \cup {f} ELSE faults

Init ==
  /\ current = None
  /\ pc = "idle" /\ n_recvd = <<>> /\ i = 1 /\ opens = FALSE
  /\ handle = None /\ err = FALSE
  /\ recording = FALSE /\ recName = None
  /\ recorded_queries = <<>> /\ recorded_libraries = <<>>
  /\ replaying = None /\ proc = Empty /\ cursor = 0
  /\ stored_proc = [n \in Keys |-> None] /\ opened = Unopened
  /\ so = [p \in Paths |-> None] /\ aqp = [n \in Keys |-> None]
  /\ execs = 0 /\ requests = 0 /\ crashes = 0
  /\ ran = <<>> /\ played = <<>> /\ unsaved = {} /\ faults = {}

\* The process is gone and starts again; the files stay.  Old and new files of a procedure are
\* mixed, or half a file is left, if it was being recorded or saved.
Crash ==
  /\ crashes < MaxCrashes /\ crashes' = crashes + 1
  /\ Fault("mixed", \/ pc = "write"
                    \/ (recording \/ pc = "truncate") /\ aqp[recName] # None)
  /\ current' = None
  /\ pc' = "idle" /\ n_recvd' = <<>> /\ i' = 1 /\ opens' = FALSE
  /\ handle' = None /\ err' = FALSE
  /\ recording' = FALSE /\ recName' = None
  /\ recorded_queries' = <<>> /\ recorded_libraries' = <<>>
  /\ replaying' = None /\ proc' = Empty /\ cursor' = 0
  /\ stored_proc' = [n \in Keys |-> None] /\ opened' = Unopened
  /\ ran' = <<>> /\ played' = <<>> /\ unsaved' = {}
  /\ UNCHANGED <<diskVars, execs, requests>>
-----------------------------------------------------------------------------
(* The prompt: one request per command.                                      *)

Request(ms, dll) ==
  /\ pc = "idle" /\ requests < MaxRequests
  /\ requests' = requests + 1
  /\ n_recvd' = ms /\ i' = 1 /\ opens' \in {dll, TRUE}
  /\ pc' = "start"
  /\ UNCHANGED <<handle, err, recordVars, replayVars, stored_proc, opened, aqp, crashes, histVars>>

\* exec: a batch with procedures is compiled into dll.so.
Exec(b) ==
  /\ execs < MaxExecs
  /\ execs' = execs + 1
  /\ Request([k \in DOMAIN b |-> Message(b[k], IF b[k] = "P" THEN execs + 1 ELSE None)],
             Contains(b, "P"))
  /\ so' = IF Contains(b, "P") THEN [so EXCEPT ![Dll] = execs + 1] ELSE so
  /\ UNCHANGED current

\* procedure <n> record: another name, or the same again, is not sent.
Record(n) ==
  /\ current = None
  /\ current' = n
  /\ Request(<<Message("R", n)>>, FALSE)
  /\ UNCHANGED <<so, execs>>

\* Faulty variant: stop leaves state.current_procedure.
StopForgotten(n) == Request(<<Message("RT", n)>>, FALSE) /\ UNCHANGED <<current, so, execs>>

\* procedure <n> stop: sent with any name, recording or not.
Stop(n) ==
  /\ current' = None
  /\ Request(<<Message("RT", n)>>, FALSE)
  /\ UNCHANGED <<so, execs>>

\* procedure <n> run or load: not while one is recorded.
Replay(n) ==
  /\ current = None
  /\ \E k \in {"RE", "RL"} : Request(<<Message(k, n)>>, FALSE)
  /\ UNCHANGED <<current, so, execs>>
-----------------------------------------------------------------------------
engineRest == <<current, opens, boundVars>>

\* Faulty variant of the next: the last message is not saved.
SavedShort(p) ==
  [queries |-> IF p.queries = <<>> THEN <<>> ELSE Front(p.queries),
   modules |-> Len(p.libs), of |-> p.of]

\* What a file holds of a procedure: each message up to its first zero byte.
Saved(p) ==
  [queries |-> [k \in DOMAIN p.queries |->
                  IF p.queries[k].kind = "L" THEN Message("X", None) ELSE p.queries[k]],
   modules |-> Len(p.libs), of |-> p.of]

\* The end of a request: n_recv = 0, the error is reported, the library closed unless kept.
EndRequest(kept) ==
  /\ pc = "loop" /\ i > Len(n_recvd)
  /\ opened' = IF handle = None \/ kept THEN opened
               ELSE [opened EXCEPT ![handle].refs = @ - 1]
  /\ pc' = "idle" /\ n_recvd' = <<>> /\ i' = 1 /\ opens' = FALSE
  /\ handle' = None /\ err' = FALSE
  /\ replaying' = None /\ played' = <<>>
  /\ UNCHANGED <<current, recordVars, proc, cursor, stored_proc, diskVars, boundVars, ran, unsaved, faults>>

\* A faulty variant of Finish: the library of a procedure that is recorded is closed.
FinishClosesRecorded == EndRequest(replaying # None)
-----------------------------------------------------------------------------
(* Libraries.                                                                *)

\* dlopen: a path that is still open gives the library that was opened, whatever the file
\* holds by now; that library is stale if the file has changed.
CanOpen(p) == opened[p].refs > 0 \/ so[p] # None
Dlopen(p) ==
  /\ opened' = [opened EXCEPT ![p] =
       [code |-> IF @.refs > 0 THEN @.code ELSE so[p], refs |-> @.refs + 1]]
  /\ Fault("stale", opened[p].refs > 0 /\ opened[p].code # so[p])

\* start: handle = nullptr, and whether a library is to be opened
Start ==
  /\ pc = "start"
  /\ handle' = None
  /\ pc' = IF n_recvd = <<>> \/ ~opens THEN "loop"
           ELSE IF recording THEN "copy" ELSE "open"
  /\ UNCHANGED <<engineRest, n_recvd, i, err, recordVars, replayVars, stored_proc, opened,
                 diskVars, histVars>>

\* While recording: remove the old copy, copy dll.so; on failure dll.so itself is opened.
CopyLibrary ==
  /\ pc = "copy"
  /\ recorded_queries' = Append(recorded_queries, Mark)
  /\ LET path == <<recName, Len(recorded_libraries)>> IN
       \/ /\ so[Dll] # None
          /\ so' = [so EXCEPT ![path] = so[Dll]]
          /\ pc' = "openCopy" /\ UNCHANGED faults
       \/ /\ so[Dll] = None \/ DiskMayFail
          /\ so' = [so EXCEPT ![path] = None]
          /\ pc' = "open" /\ UNCHANGED faults
       \/ /\ DiskMayFail
          /\ Fault("mixed", so[path] # None)
          /\ pc' = "open" /\ UNCHANGED so
  /\ UNCHANGED <<engineRest, n_recvd, i, handle, err, recording, recName, recorded_libraries,
                 replayVars, stored_proc, opened, aqp, ran, played, unsaved>>

\* handle = dlopen(proc_name); a recording keeps the handle.
OpenLibrary ==
  /\ pc \in {"open", "openCopy"}
  /\ LET path == IF pc = "open" THEN Dll ELSE <<recName, Len(recorded_libraries)>> IN
       /\ IF CanOpen(path) THEN handle' = path /\ Dlopen(path)
                           ELSE handle' = None /\ UNCHANGED <<opened, faults>>
       /\ recorded_libraries' = IF recording THEN Append(recorded_libraries, handle')
                                             ELSE recorded_libraries
  /\ pc' = "loop"
  /\ UNCHANGED <<engineRest, n_recvd, i, err, recording, recName, recorded_queries, replayVars,
                 stored_proc, diskVars, ran, played, unsaved>>
-----------------------------------------------------------------------------
(* The engine's loop over the messages.                                      *)

More == pc = "loop" /\ i <= Len(n_recvd)
This == n_recvd[i]
Step == i' = i + 1 /\ UNCHANGED <<pc, n_recvd>>
Stuck == pc' = "dead" /\ UNCHANGED <<i, n_recvd>>

\* What a case of the switch leaves to the recording and to the history: `done` says whether
\* the message was performed.
Log(done) ==
  /\ recorded_queries' = IF recording /\ done THEN Append(recorded_queries, This)
                                              ELSE recorded_queries
  /\ ran' = IF recording /\ done THEN Append(ran, This) ELSE ran
  /\ played' = IF replaying # None THEN Append(played, This) ELSE played
  /\ UNCHANGED <<recording, recName, recorded_libraries, unsaved>>

\* case 'Q': recorded first; a statement that fails sets last_error.
PerformQuery ==
  /\ More /\ This.kind = "Q"
  /\ Step /\ Log(TRUE)
  /\ err' \in {err, TRUE}
  /\ UNCHANGED <<engineRest, handle, replayVars, stored_proc, opened, diskVars, faults>>

\* case 'P': if (handle && !haserror()).  What dlsym does not find is called all the same.
PerformProcedure ==
  /\ More /\ This.kind = "P"
  /\ IF handle = None
     THEN Step /\ UNCHANGED <<err, recordVars, histVars>>
     ELSE LET there == opened[handle].refs > 0 /\ opened[handle].code = This.arg IN
          /\ Log(~err) /\ err' = FALSE
          /\ Fault("lost", ~err /\ ~there)
          /\ IF err \/ there THEN Step ELSE Stuck
  /\ UNCHANGED <<engineRest, handle, replayVars, stored_proc, opened, diskVars>>

\* case 'O': if (!haserror())
PerformOutput ==
  /\ More /\ This.kind \in {"O", "L", "X"}
  /\ Step /\ Log(~err)
  /\ err' = FALSE
  /\ UNCHANGED <<engineRest, handle, replayVars, stored_proc, opened, diskVars, faults>>

\* case 'N': the next library of the current procedure
NextLibrary ==
  /\ More /\ This.kind = "N"
  /\ Step
  /\ IF cursor < Len(proc.libs)
     THEN handle' = proc.libs[cursor + 1] /\ cursor' = cursor + 1
     ELSE UNCHANGED <<handle, cursor>>
  /\ UNCHANGED <<engineRest, err, recordVars, replaying, proc, stored_proc, opened, diskVars, histVars>>
-----------------------------------------------------------------------------
(* case 'R'.                                                                 *)

\* record
BeginRecording ==
  /\ More /\ This.kind = "R"
  /\ Step
  /\ recording' = TRUE /\ recName' = This.arg
  /\ proc' = Empty
  /\ UNCHANGED <<engineRest, handle, err, recorded_queries, recorded_libraries, replaying, cursor,
                 stored_proc, opened, diskVars, histVars>>

\* stop: the record becomes current_procedure, which keeps what ran in `of`.
EndRecording ==
  /\ More /\ This.kind = "RT"
  /\ proc' = [queries |-> recorded_queries, libs |-> recorded_libraries, of |-> ran]
  /\ recorded_queries' = <<>> /\ recorded_libraries' = <<>> /\ ran' = <<>>
  /\ recording' = FALSE
  /\ pc' = "truncate"
  /\ UNCHANGED <<engineRest, n_recvd, i, handle, err, recName, replaying, cursor, stored_proc,
                 opened, diskVars, played, unsaved, faults>>

\* save_proc_tofile: the file goes by the name the procedure was recorded under.
FileName == recName

\* fopen("wb") empties the file; when it fails, the file of an earlier recording stays as it
\* is, and the caller goes on.
Truncate ==
  /\ pc = "truncate"
  /\ \/ /\ aqp' = [aqp EXCEPT ![FileName] = Torn]
        /\ pc' = "write" /\ UNCHANGED <<unsaved, faults>>
     \/ /\ DiskMayFail
        /\ unsaved' = unsaved \cup {FileName} /\ Fault("mixed", aqp[FileName] # None)
        /\ pc' = "insert" /\ UNCHANGED aqp
  /\ UNCHANGED <<engineRest, n_recvd, i, handle, err, recordVars, replayVars, stored_proc, opened,
                 so, ran, played>>

\* fwrite and fclose write it, and nobody looks whether they do.
WriteFile ==
  /\ pc = "write"
  /\ \/ /\ aqp' = [aqp EXCEPT ![FileName] = Saved(proc)]
        /\ unsaved' = unsaved \ {FileName} /\ UNCHANGED faults
     \/ /\ DiskMayFail
        /\ unsaved' = unsaved \cup {FileName} /\ Fault("mixed", TRUE)
        /\ UNCHANGED aqp
  /\ pc' = "insert"
  /\ UNCHANGED <<engineRest, n_recvd, i, handle, err, recordVars, replayVars, stored_proc, opened,
                 so, ran, played>>

\* cxt->stored_proc.insert_or_assign(procedure_name, current_procedure)
Insert ==
  /\ pc = "insert"
  /\ stored_proc' = [stored_proc EXCEPT ![recName] = proc]
  /\ recName' = None
  /\ i' = i + 1 /\ pc' = "loop"
  /\ UNCHANGED <<engineRest, n_recvd, handle, err, recording, recorded_queries, recorded_libraries,
                 replayVars, opened, diskVars, histVars>>

\* n_recvd = the procedure's messages; goto start
PlayFrom(p) ==
  /\ n_recvd' = p.queries /\ i' = 1 /\ pc' = "start"
  /\ replaying' = This.arg /\ played' = <<>>

\* run: from memory, or from disk when the name is not known
Run ==
  /\ More /\ This.kind = "RE"
  /\ cursor' = 0
  /\ IF stored_proc[This.arg] # None
     THEN proc' = stored_proc[This.arg] /\ PlayFrom(proc')
     ELSE pc' = "load" /\ UNCHANGED <<n_recvd, i, proc, replaying, played>>
  /\ UNCHANGED <<engineRest, handle, err, recordVars, stored_proc, opened, diskVars, ran, unsaved, faults>>

\* load
Load ==
  /\ More /\ This.kind = "RL"
  /\ pc' = "load"
  /\ UNCHANGED <<engineRest, n_recvd, i, handle, err, recordVars, replayVars, stored_proc, opened,
                 diskVars, histVars>>

\* load_proc_fromfile: what half a file holds is not looked at, and the model follows the
\* program no further.
ReadFile ==
  /\ pc = "load"
  /\ LET f == aqp[This.arg] IN
       /\ Fault("lost", f = Torn)
       /\ pc' = IF f = None THEN "loop" ELSE IF f = Torn THEN "dead" ELSE "modules"
       /\ i' = IF f = None THEN i + 1 ELSE i
       /\ proc' = IF f \in {None, Torn} THEN proc
                  ELSE [queries |-> f.queries, libs |-> <<>>, of |-> f.of]
  /\ UNCHANGED <<engineRest, n_recvd, handle, err, recordVars, replaying, cursor, stored_proc,
                 opened, diskVars, ran, played, unsaved>>

\* load_modules: one library after the other; the first that is missing ends the load.
LoadModule ==
  /\ pc = "modules" /\ Len(proc.libs) < aqp[This.arg].modules
  /\ LET path == <<This.arg, Len(proc.libs)>> IN
       IF CanOpen(path)
       THEN Dlopen(path) /\ proc' = [proc EXCEPT !.libs = Append(@, path)] /\ UNCHANGED <<pc, i>>
       ELSE pc' = "loop" /\ i' = i + 1 /\ UNCHANGED <<opened, proc, faults>>
  /\ UNCHANGED <<engineRest, n_recvd, handle, err, recordVars, replaying, cursor, stored_proc,
                 diskVars, ran, played, unsaved>>

\* The loaded procedure is known from now on, and is played if it is to be run.
Loaded ==
  /\ pc = "modules" /\ Len(proc.libs) = aqp[This.arg].modules
  /\ stored_proc' = [stored_proc EXCEPT ![This.arg] = proc]
  /\ unsaved' = unsaved \ {This.arg}
  /\ IF This.kind = "RE" THEN PlayFrom(proc)
     ELSE pc' = "loop" /\ i' = i + 1 /\ UNCHANGED <<n_recvd, replaying, played>>
  /\ UNCHANGED <<engineRest, handle, err, recordVars, proc, cursor, opened, diskVars, ran, faults>>

\* After the loop the library is closed, unless a recording or a procedure keeps it.
Finish == EndRequest(recording \/ replaying # None)

Command ==
  \/ \E b \in Batches : Exec(b)
  \/ \E n \in Names : Record(n) \/ Stop(n) \/ Replay(n)

Engine ==
  \/ Start \/ CopyLibrary \/ OpenLibrary
  \/ PerformQuery \/ PerformProcedure \/ PerformOutput \/ NextLibrary
  \/ BeginRecording \/ EndRecording \/ Truncate \/ WriteFile \/ Insert
  \/ Run \/ Load \/ ReadFile \/ LoadModule \/ Loaded \/ Finish

Next == Command \/ Engine \/ Crash

Spec == Init /\ [][Next]_<<current, requestVars, handle, err, recordVars, replayVars, stored_proc,
                           opened, diskVars, boundVars, histVars>>
-----------------------------------------------------------------------------
(* Properties.                                                               *)

PCs == {"idle", "start", "copy", "open", "openCopy", "loop", "truncate", "write", "insert",
        "load", "modules", "dead"}
Handles == Paths \cup {None}
Messages == [kind : {"Q", "P", "O", "L", "X", "N", "R", "RT", "RE", "RL"},
             arg : Keys \cup 1 .. MaxExecs]
Codes == 1 .. MaxExecs \cup {None}
Records == [queries : Seq(Messages), libs : Seq(Handles), of : Seq(Messages)]
Images == [queries : Seq(Messages), modules : Nat, of : Seq(Messages)]

\* None and Torn are none of the things they stand in for.
ASSUME NothingAssumption ==
  /\ None \notin Paths /\ None \notin Records
  /\ None \notin Images /\ Torn \notin Images /\ Torn # None

\* Every variable keeps its type; no library is closed more often than it was opened, and a
\* recording keeps one library for each mark.
TypeOK ==
  /\ current \in Keys /\ pc \in PCs /\ n_recvd \in Seq(Messages) /\ i \in Nat
  /\ opens \in BOOLEAN /\ handle \in Handles /\ err \in BOOLEAN
  /\ recording \in BOOLEAN /\ recName \in Keys
  /\ recorded_queries \in Seq(Messages) /\ recorded_libraries \in Seq(Handles)
  /\ replaying \in Keys /\ proc \in Records /\ cursor \in Nat
  /\ stored_proc \in [Keys -> Records \cup {None}]
  /\ opened \in [Paths -> [code : Codes, refs : Nat]]
  /\ so \in [Paths -> Codes] /\ aqp \in [Keys -> Images \cup {None, Torn}]
  /\ ran \in Seq(Messages) /\ played \in Seq(Messages)
  /\ unsaved \subseteq Keys /\ faults \subseteq {"stale", "mixed", "lost"}

\* What runs is what ran while the procedure was recorded, message by message, from memory
\* and after a crash from the files; only a limit that a file has clipped may differ.
PlaysWhatRan ==
  pc = "loop" /\ i > Len(n_recvd) /\ replaying # None =>
    /\ Len(played) = Len(proc.of)
    /\ \A k \in DOMAIN played :
         played[k] = proc.of[k] \/ (played[k].kind = "X" /\ proc.of[k].kind = "L")

\* Every procedure that is called is in the library that is asked for it, unless dlopen gave
\* a library whose file had been replaced, or a crash, a failed copy or a failed save left
\* files of two recordings side by side, or half of one.
RightLibrary == faults # {"lost"}

\* Between two requests prompt and engine agree whether, and under which name, a procedure
\* is being recorded, although `stop` takes any name.
RecordingAgreed == pc = "idle" => recName = current /\ recording = (current # None)

\* A procedure that is known is on disk, whole and with the same messages, so that what has
\* been stopped or loaded can still be had after a restart; except one whose last save has
\* failed, which the engine prints at most and then knows all the same.
KnownIsSaved ==
  pc = "idle" => \A n \in Keys \ unsaved : stored_proc[n] # None =>
    aqp[n] \notin {None, Torn} /\ aqp[n].of = stored_proc[n].of

\* Between two requests the engine and the prompt agree on what is being recorded, and
\* a procedure that is known, and was not saved in vain, is whole on disk with the same
\* messages.
RecordsAgree == TypeOK /\ RecordingAgreed /\ KnownIsSaved
=============================================================================
