--------------------------- MODULE PrecisionFiles ---------------------------
(***************************************************************************)
(* The mutating precision file tools over one workspace file: threads that *)
(* serve calls with an operation id, the table of operations, the evidence *)
(* and the file.  The content is the sequence of its lines, each the edit  *)
(* that wrote it; its hash is the content.  Every SQLite statement and     *)
(* every file access is a step of its own.                                 *)
(***************************************************************************)
EXTENDS Naturals, Sequences

CONSTANTS
    FileThread,     \* calls served at a time
    FileOperation,  \* operation ids
    FileBody,       \* texts a call may write
    MaxFileCalls,   \* calls made
    MaxFileFaults,  \* failures of the disk or of the database
    MaxUserEdits,   \* edits by the user
    MaxFileStops    \* stops of the process

UserLine == <<"user", "typed">>

\* Lines of the user belong to no operation.
ASSUME FilesAssumption ==
    /\ UserLine[1] \notin FileOperation
    /\ MaxFileCalls \in Nat /\ MaxFileFaults \in Nat /\ MaxUserEdits \in Nat
    /\ MaxFileStops \in Nat

VARIABLES
    file,         \* the file's lines
    fileRows,     \* precision_file_operations: [status, request] of an operation
    evidence,     \* captured evidence: [op, before, after]
    view,         \* the content each thread's agent read last
    fileJob,      \* the call a thread serves
    writes,       \* writes made: the content expected, read, replaced and written
    fileShared,   \* history: two calls, or a call and the editor, were at work at a time
    unmarked,     \* history: operations whose end the database did not take
    fileCalls, fileFaults, user, fileStops

fileBudgets == <<fileCalls, fileFaults, user, fileStops>>
fileVars == <<file, fileRows, evidence, view, fileJob, writes, fileShared, unmarked, fileBudgets>>
-----------------------------------------------------------------------------
EditKind == {"append", "replace"}
Line == (FileOperation \X FileBody) \cup {UserLine}
EditRequest(k, b, c) == [kind |-> k, body |-> b, expected |-> c]
AbsentRow == [status |-> "absent"]
NoFileJob == [at |-> "idle"]

\* The new content of a call: a line more, or another first line.
After(o, r, before) ==
    IF r.kind = "append" THEN Append(before, <<o, r.body>>)
    ELSE <<<<o, r.body>>>> \o Tail(before)

GoOn(t, step) == fileJob' = [fileJob EXCEPT ![t].at = step]
LeaveFile(t) == fileJob' = [fileJob EXCEPT ![t] = NoFileJob]
SetStatus(o, status) == fileRows' = [fileRows EXCEPT ![o].status = status]
AtRest == \A t \in FileThread : fileJob[t] = NoFileJob

FileInit ==
    /\ file = <<UserLine>>
    /\ fileRows = [o \in FileOperation |-> AbsentRow]
    /\ evidence = {} /\ writes = {}
    /\ view = [t \in FileThread |-> file]
    /\ fileJob = [t \in FileThread |-> NoFileJob]
    /\ fileShared = FALSE /\ unmarked = {}
    /\ fileCalls = 0 /\ fileFaults = 0 /\ user = 0 /\ fileStops = 0
-----------------------------------------------------------------------------
\* The agent reads the file and keeps its hash.
ReadRange(t) ==
    /\ fileJob[t] = NoFileJob /\ view[t] # file
    /\ view' = [view EXCEPT ![t] = file]
    /\ UNCHANGED <<file, fileRows, evidence, fileJob, writes, fileShared, unmarked, fileBudgets>>

FileCall(o, r) == [at |-> "look", op |-> o, before |-> <<>>, request |-> r]

Begin(t, o, r) ==
    /\ fileJob[t] = NoFileJob /\ fileCalls < MaxFileCalls
    /\ fileJob' = [fileJob EXCEPT ![t] = FileCall(o, r)]
    /\ fileCalls' = fileCalls + 1
    /\ fileShared' = (fileShared \/ ~AtRest)
    /\ UNCHANGED <<file, fileRows, evidence, view, writes, unmarked, fileFaults, user, fileStops>>

\* replace_range, append: an operation id with the hash the agent saw, or one it kept from before.
EditFile(t) ==
    \E o \in FileOperation, k \in EditKind, b \in FileBody : Begin(t, o, EditRequest(k, b, view[t]))

\* A retry: the request an operation was first called with.
RetryEdit(t) ==
    \E o \in FileOperation : fileRows[o] # AbsentRow /\ Begin(t, o, fileRows[o].request)

\* reserve, its SELECT: another request conflicts, a completed operation is replayed, a pending one
\* is busy; a failed one is taken up again and a new one inserted.
LookUp(t) ==
    LET j == fileJob[t]
        row == fileRows[j.op]
        again == row # AbsentRow /\ row.request = j.request /\ row.status = "failed"
    IN  /\ j.at = "look"
        /\ \/ row = AbsentRow /\ GoOn(t, "insert")
           \/ again /\ GoOn(t, "update")
           \/ row # AbsentRow /\ ~again /\ LeaveFile(t)
        /\ UNCHANGED <<file, fileRows, evidence, view, writes, fileShared, unmarked, fileBudgets>>

\* reserve, its INSERT: the primary key refuses a second row.
Insert(t) ==
    LET j == fileJob[t]
    IN  /\ j.at = "insert"
        /\ \/ /\ fileRows[j.op] = AbsentRow
              /\ fileRows' = [fileRows EXCEPT ![j.op] = [status |-> "pending", request |-> j.request]]
              /\ GoOn(t, "check")
           \/ fileRows[j.op] # AbsentRow /\ LeaveFile(t) /\ UNCHANGED fileRows
        /\ UNCHANGED <<file, evidence, view, writes, fileShared, unmarked, fileBudgets>>

\* reserve, its UPDATE of a failed row, whatever became of the row since the SELECT.
TakeUp(t) ==
    /\ fileJob[t].at = "update"
    /\ SetStatus(fileJob[t].op, "pending")
    /\ GoOn(t, "check")
    /\ UNCHANGED <<file, evidence, view, writes, fileShared, unmarked, fileBudgets>>

\* Faulty: the expected hash is not compared.
CheckNothing(t) ==
    /\ fileJob[t].at = "check"
    /\ fileJob' = [fileJob EXCEPT ![t] = [@ EXCEPT !.at = "write", !.before = file]]
    /\ UNCHANGED <<file, fileRows, evidence, view, writes, fileShared, unmarked, fileBudgets>>

\* The file is read and its hash compared with the expected one.
Check(t) ==
    /\ fileJob[t].at = "check"
    /\ \/ file = fileJob[t].request.expected
          /\ fileJob' = [fileJob EXCEPT ![t] = [@ EXCEPT !.at = "write", !.before = file]]
       \/ file # fileJob[t].request.expected /\ GoOn(t, "fail")
    /\ UNCHANGED <<file, fileRows, evidence, view, writes, fileShared, unmarked, fileBudgets>>

\* A write: the content expected, read before, replaced and written.
Written(j, replaced) ==
    [op |-> j.op, expected |-> j.request.expected, read |-> j.before, replaced |-> replaced,
     after |-> After(j.op, j.request, j.before)]

\* _atomic_write: the new content replaces whatever the file is by now.
Write(t) ==
    LET j == fileJob[t]
    IN  /\ j.at = "write"
        /\ file' = After(j.op, j.request, j.before)
        /\ writes' = writes \cup {Written(j, file)}
        /\ GoOn(t, "capture")
        /\ UNCHANGED <<fileRows, evidence, view, fileShared, unmarked, fileBudgets>>

Captured(j) ==
    [op |-> j.op, before |-> j.before, after |-> After(j.op, j.request, j.before)]

\* _mutation_response captures the evidence of the change.
Capture(t) ==
    /\ fileJob[t].at = "capture"
    /\ evidence' = evidence \cup {Captured(fileJob[t])}
    /\ GoOn(t, "complete")
    /\ UNCHANGED <<file, fileRows, view, writes, fileShared, unmarked, fileBudgets>>

\* The disk or the database refuses: within _append_once the exception leads to fail, in reserve it
\* ends the call before anything is written, and in complete and fail, which no handler guards, it
\* leaves the row as it is.
Fault(t) ==
    LET j == fileJob[t]
    IN  /\ fileFaults < MaxFileFaults
        /\ \/ j.at \in {"check", "write", "capture"} /\ GoOn(t, "fail") /\ UNCHANGED unmarked
           \/ j.at \in {"look", "insert", "update"} /\ LeaveFile(t) /\ UNCHANGED unmarked
           \/ j.at \in {"complete", "fail"} /\ LeaveFile(t) /\ unmarked' = unmarked \cup {j.op}
        /\ fileFaults' = fileFaults + 1
        /\ UNCHANGED <<file, fileRows, evidence, view, writes, fileShared, fileCalls, user, fileStops>>

Complete(t) ==
    /\ fileJob[t].at = "complete"
    /\ SetStatus(fileJob[t].op, "completed")
    /\ LeaveFile(t)
    /\ UNCHANGED <<file, evidence, view, writes, fileShared, unmarked, fileBudgets>>

\* fail: the row is marked whatever its status is by now.
Fail(t) ==
    /\ fileJob[t].at = "fail"
    /\ SetStatus(fileJob[t].op, "failed")
    /\ LeaveFile(t)
    /\ UNCHANGED <<file, evidence, view, writes, fileShared, unmarked, fileBudgets>>

\* The user adds a line of their own.
UserEdit ==
    /\ user < MaxUserEdits
    /\ file' = Append(file, UserLine)
    /\ user' = user + 1
    /\ fileShared' = (fileShared \/ ~AtRest)
    /\ UNCHANGED <<fileRows, evidence, view, fileJob, writes, unmarked, fileCalls, fileFaults, fileStops>>

\* The process stops; the table, the evidence and the file stay.
FileStop ==
    /\ fileStops < MaxFileStops /\ ~AtRest
    /\ fileJob' = [t \in FileThread |-> NoFileJob]
    /\ fileStops' = fileStops + 1
    /\ UNCHANGED <<file, fileRows, evidence, view, writes, fileShared, unmarked,
                   fileCalls, fileFaults, user>>

ServeEdit(t) ==
    \/ LookUp(t) \/ Insert(t) \/ TakeUp(t) \/ Check(t) \/ Write(t)
    \/ Capture(t) \/ Complete(t) \/ Fail(t)

FileNext ==
    \/ \E t \in FileThread :
         ReadRange(t) \/ EditFile(t) \/ RetryEdit(t) \/ ServeEdit(t) \/ Fault(t)
    \/ UserEdit \/ FileStop

FileSpec == FileInit /\ [][FileNext]_fileVars
-----------------------------------------------------------------------------
(* Properties.                                                              *)

\* A file is never empty: the user's first line is replaced, not deleted.
Content == Seq(Line) \ {<<>>}
Edit == [kind : EditKind, body : FileBody, expected : Content]
EditRow == [status : {"pending", "failed", "completed"}, request : Edit]
Steps == {"look", "insert", "update", "check", "write", "capture", "complete", "fail"}
EditJob == [at : Steps, op : FileOperation, before : Seq(Line), request : Edit]

FileTypeOK ==
    /\ file \in Content
    /\ fileRows \in [FileOperation -> EditRow \cup {AbsentRow}]
    /\ evidence \subseteq [op : FileOperation, before : Content, after : Content]
    /\ view \in [FileThread -> Content]
    /\ fileJob \in [FileThread -> EditJob \cup {NoFileJob}]
    /\ writes \subseteq [op : FileOperation, expected : Content, read : Content,
                         replaced : Content, after : Content]
    /\ unmarked \subseteq FileOperation
    /\ fileShared \in BOOLEAN /\ fileFaults \in Nat /\ fileStops \in Nat

\* No operation has two lines in a content.
Once(c) ==
    \A i, k \in DOMAIN c : c[i][1] = c[k][1] /\ c[i][1] \in FileOperation => i = k

\* "Append operations must be idempotent by operationId": whatever is retried, raced or cut off, the
\* file holds at most one line of an operation.
OneLinePerOperation == Once(file)

\* "The operation/evidence record is the source of truth for what changed": the evidence of a change
\* names a write that was made, and a completed operation has evidence of its request.
RecordIsTrue ==
    /\ \A e \in evidence : \E w \in writes : w.op = e.op /\ w.read = e.before /\ w.after = e.after
    /\ \A o \in FileOperation : fileRows[o].status = "completed" =>
         \E e \in evidence : e.op = o /\ e.after = After(o, fileRows[o].request, e.before)

\* The same source of truth for failures: what a failed operation was to write was not written
\* (_append_once captures the evidence after the write).
FailedMeansUnwritten ==
    \A o \in FileOperation : fileRows[o].status = "failed" => \A w \in writes : w.op # o

\* "They must not silently overwrite a file that changed since the Agent inspected it."
NoSilentOverwrite == \A w \in writes : w.replaced = w.expected

\* An operation reported busy ("operation is already running", reserve) is one some thread runs, or
\* one whose end the database refused.
BusyMeansRunning ==
    \A o \in FileOperation : fileRows[o].status = "pending" /\ o \notin unmarked =>
        \E t \in FileThread : fileJob[t] # NoFileJob /\ fileJob[t].op = o

\* The operation record is true in every race, failure and stop; an operation
\* is left busy for good only by a stop or by a database that refuses its end;
\* and while one call is served at a time, the editor rests during it and the
\* disk works, nothing the agent has not seen is overwritten and a failed
\* operation has written nothing.
FilesSound ==
    /\ FileTypeOK /\ OneLinePerOperation /\ RecordIsTrue
    /\ fileStops = 0 => BusyMeansRunning
    /\ ~fileShared /\ fileFaults = 0 => NoSilentOverwrite /\ FailedMeansUnwritten

-----------------------------------------------------------------------------
(* The inductive invariant.                                                 *)

Has(c, o) == \E i \in DOMAIN c : c[i][1] = o

\* The steps of a call whose operation is reserved.
Reserved == {"update", "check", "write", "capture", "complete", "fail"}
\* The steps after the read of the file.
PastCheck == {"write", "capture", "complete"}
\* The steps that keep an operation busy.
Running == {"check", "write", "capture", "complete", "fail"}

\* A call serves the request of its row, and what it read is what was expected.
JobsMatchRows ==
    \A t \in FileThread :
        /\ fileJob[t].at \in Reserved =>
             /\ fileRows[fileJob[t].op] # AbsentRow
             /\ fileRows[fileJob[t].op].request = fileJob[t].request
        /\ fileJob[t].at \in PastCheck => fileJob[t].before = fileJob[t].request.expected

\* No content anyone works with has two lines of an operation, or one of an
\* operation without a row; and an operation was asked for a content without it.
ContentsOnce ==
    /\ Once(file)
    /\ \A t \in FileThread : Once(view[t])
    /\ \A t \in FileThread : fileJob[t].at # "idle" => Once(fileJob[t].request.expected)
    /\ \A o \in FileOperation : fileRows[o] # AbsentRow =>
         Once(fileRows[o].request.expected) /\ ~Has(fileRows[o].request.expected, o)
    /\ \A o \in FileOperation : fileRows[o] = AbsentRow =>
         /\ ~Has(file, o)
         /\ \A t \in FileThread : ~Has(view[t], o)
         /\ \A t \in FileThread : fileJob[t].at # "idle" => ~Has(fileJob[t].request.expected, o)
         /\ \A p \in FileOperation : fileRows[p] # AbsentRow => ~Has(fileRows[p].request.expected, o)

\* A call that has written has its write, and its evidence when it is complete.
JobsRecorded ==
    \A t \in FileThread :
        /\ fileJob[t].at \in {"capture", "complete"} =>
             \E w \in writes : /\ w.op = fileJob[t].op /\ w.read = fileJob[t].before
                               /\ w.after = After(fileJob[t].op, fileJob[t].request, fileJob[t].before)
        /\ fileJob[t].at = "complete" => Captured(fileJob[t]) \in evidence

PendingMeansReserved ==
    \A o \in FileOperation : fileRows[o].status = "pending" /\ o \notin unmarked =>
        \E t \in FileThread : fileJob[t].at \in Running /\ fileJob[t].op = o

\* What a call that is served alone knows.
EditedAlone ==
    \A t \in FileThread : fileJob[t].at # "idle" =>
        /\ \A u \in FileThread : u # t => fileJob[u] = NoFileJob
        /\ fileJob[t].at = "write" => file = fileJob[t].before
        /\ fileJob[t].at \in Running => fileRows[fileJob[t].op].status = "pending"
        /\ fileJob[t].at \in {"insert", "update", "check", "write", "fail"} /\ fileFaults = 0 =>
             \A w \in writes : w.op # fileJob[t].op

\* An operation that is new or has failed has written nothing.
UnwrittenRows ==
    \A o \in FileOperation : fileRows[o].status \in {"absent", "failed"} => \A w \in writes : w.op # o

FilesInv ==
    /\ FileTypeOK /\ JobsMatchRows /\ ContentsOnce /\ RecordIsTrue /\ JobsRecorded
    /\ fileStops = 0 => PendingMeansReserved
    /\ ~fileShared => EditedAlone /\ NoSilentOverwrite
    /\ ~fileShared /\ fileFaults = 0 => UnwrittenRows
=============================================================================
