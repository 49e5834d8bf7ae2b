--------------------------- MODULE WorkspaceHost ---------------------------
(***************************************************************************)
(* One sidecar process for several workspaces: the registry that builds a  *)
(* workspace's runtime at its first request (server/multi_workspace.py and *)
(* server/main_page.py), the session registry of a workspace and the       *)
(* directories beside it (core/session_manager.py, core/workspace_layout), *)
(* and the worker of every runtime, which runs on while sessions are       *)
(* deleted and the sidecar closes.                                         *)
(*                                                                         *)
(* Every HTTP request has a thread of its own, the registry has no lock,   *)
(* and a step is what other threads cannot come between: one statement of  *)
(* a database, one file system call, one access to the registry.           *)
(***************************************************************************)
EXTENDS Naturals, Sequences, FiniteSets

CONSTANTS
    Thread,        \* the request threads
    Entries,       \* the registered workspaces, in the order of the registry
    Rooted,        \* those whose root directory exists
    Current,       \* the workspace of the unscoped routes
    Session,       \* session ids
    Request,       \* what clients send: [op, ws, session, token]
    Start,         \* the disk of each workspace when the sidecar starts
    MaxRuntimes, MaxCalls, MaxFaults, MaxStops   \* bounds of the exploration

None == "none"
Workspace == {Entries[i] : i \in DOMAIN Entries}
Runtime == 1..MaxRuntimes

Op == {"catalog", "list", "create", "rename", "delete", "log", "publish", "stop",
       "mismatch", "blank"}
TaskStatus == {"none", "pending", "running", "stopping", "done", "failed"}
File == {"dir", "manifest", "log", "agent", "record"}

HostAssumption ==
    /\ Entries # <<>> /\ Cardinality(Workspace) = Len(Entries)
    /\ Rooted \subseteq Workspace /\ Current \in Rooted
    /\ \A q \in Request : q.op \in Op

VARIABLES
    disk,       \* per workspace: the two metadata directories and the archive
    slot,       \* registry._runtimes: workspace -> runtime, 0 for none
    runtime,    \* the runtimes of this process
    logRoot,    \* the workspace the process's one logging configuration writes under
    host,       \* how far the sidecar is from closed
    closing,    \* the runtimes close_all still has to close
    job,        \* what every request thread does
    calls, faults, stops,
    born,       \* ghost: sessions that ever had a row
    deleted,    \* ghost: sessions whose row was deleted
    written,    \* ghost: files ever written for a session
    excuse      \* ghost: what went wrong and where, <<kind, workspace, session>>

vars == <<disk, slot, runtime, logRoot, host, closing, job, calls, faults, stops, born, deleted,
          written, excuse>>
ghosts == <<born, deleted, written>>
rest == <<logRoot, host, closing, calls, faults, stops>>

NoDir == [there |-> FALSE, rows |-> <<>>, files |-> [s \in Session |-> {}],
          tasks |-> [s \in Session |-> "none"]]
Idle == [pc |-> "idle", op |-> None, ws |-> None, session |-> None, runtime |-> 0, todo |-> <<>>]
NoRuntime == [state |-> "free", ws |-> None, queue |-> {}, run |-> None, step |-> None]
Opened(w) == [NoRuntime EXCEPT !.state = "live", !.ws = w]

Rows(w) == {disk[w].meta.rows[i] : i \in DOMAIN disk[w].meta.rows}
Building(t) == job[t].pc \in {"boot", "migrate", "configure", "recover", "install"} /\ job[t].op # "catalog"

-----------------------------------------------------------------------------
(* What the steps do to a workspace's disk.                                *)

\* bootstrap: the old directory becomes .plato unless there is one, and what
\* is still missing is made.
Migrates(d) == ~d.meta.there /\ d.legacy.there
Moved(d) == [d EXCEPT !.meta = d.legacy, !.legacy = NoDir]
Made(d) == [d EXCEPT !.meta.there = TRUE]
Bootstrapped(d) == Made(IF Migrates(d) THEN Moved(d) ELSE d)

\* The startup scan fails the running tasks of listed sessions that were
\* asked to stop.
Recovered(d) ==
    [d EXCEPT !.meta.tasks = [s \in Session |->
        IF d.meta.tasks[s] = "stopping" /\ \E i \in DOMAIN d.meta.rows : d.meta.rows[i] = s
        THEN "failed" ELSE d.meta.tasks[s]]]

Without(rows, s) == SelectSeq(rows, LAMBDA x : x # s)
Wrote(w, s, f) == written' = [written EXCEPT ![w][s] = @ \cup f]
PutFiles(w, s, f) == disk' = [disk EXCEPT ![w].meta.files[s] = @ \cup f]
SetRows(w, rows) == disk' = [disk EXCEPT ![w].meta.rows = rows]

Init ==
    /\ disk = [w \in Workspace |-> IF w = Current THEN Recovered(Bootstrapped(Start[w])) ELSE Start[w]]
    /\ slot = [w \in Workspace |-> IF w = Current THEN 1 ELSE 0]
    /\ runtime = [r \in Runtime |-> IF r = 1 THEN Opened(Current) ELSE NoRuntime]
    /\ logRoot = Current
    /\ host = "up" /\ closing = {}
    /\ job = [t \in Thread |-> Idle]
    /\ calls = 0 /\ faults = 0 /\ stops = 0
    /\ born = [w \in Workspace |->
                 {s \in Session : \E d \in {disk[w].meta, disk[w].legacy} :
                                      \E i \in DOMAIN d.rows : d.rows[i] = s}]
    /\ deleted = [w \in Workspace |-> {}]
    /\ written = [w \in Workspace |-> [s \in Session |->
                    disk[w].meta.files[s] \cup disk[w].legacy.files[s]]]
    /\ excuse = {}

-----------------------------------------------------------------------------
(* Requests: routing, and the registry's get_runtime.                      *)

Goto(t, pc) == job' = [job EXCEPT ![t].pc = pc]
Answer(t) == job' = [job EXCEPT ![t] = Idle]

Authorized(q) == q.token
RoutedTo(q) == IF q.ws = None THEN Current ELSE q.ws

\* A request without the token ends here; the catalog needs no runtime.
Receive(t, q) ==
    /\ host = "up" /\ job[t].pc = "idle" /\ calls < MaxCalls
    /\ RoutedTo(q) \in Workspace /\ q.session # None =>
          q.session \in born[RoutedTo(q)]       \* clients learn ids from lists and answers
    /\ calls' = calls + 1
    /\ job' = IF ~Authorized(q) THEN job
              ELSE [job EXCEPT ![t] =
                [Idle EXCEPT !.pc = IF q.op = "catalog" THEN "catalog" ELSE "resolve", !.op = q.op,
                             !.ws = RoutedTo(q),
                             !.session = q.session, !.todo = Entries]]
    /\ UNCHANGED <<disk, slot, runtime, logRoot, host, closing, faults, stops, ghosts, excuse>>

\* get_runtime up to the factory: nothing keeps a second thread from finding
\* the same empty slot.
Resolve(t) ==
    LET w == job[t].ws IN
    /\ job[t].pc = "resolve"
    /\ \/ /\ w \notin Rooted
          /\ Answer(t)
          /\ UNCHANGED <<runtime, excuse>>
       \/ /\ w \in Rooted /\ slot[w] # 0
          /\ job' = [job EXCEPT ![t].pc = "serve", ![t].runtime = slot[w]]
          /\ UNCHANGED <<runtime, excuse>>
       \/ /\ w \in Rooted /\ slot[w] = 0
          /\ \E r \in Runtime :
              /\ runtime[r].state = "free" /\ \A x \in 1..(r - 1) : runtime[x].state # "free"
              /\ runtime' = [runtime EXCEPT ![r] = [NoRuntime EXCEPT !.state = "building", !.ws = w]]
              /\ job' = [job EXCEPT ![t].pc = "boot", ![t].runtime = r]
          /\ excuse' = excuse
               \cup (IF \E u \in Thread : Building(u) /\ job[u].ws = w
                     THEN {<<"raced", w, None>>} ELSE {})
               \cup (IF host # "up" THEN {<<"late", w, None>>} ELSE {})
    /\ UNCHANGED <<disk, slot, ghosts, rest>>

\* catalog: one workspace after the other, each with a session manager of its
\* own, which bootstraps the workspace too.
Catalog(t) ==
    /\ job[t].pc = "catalog"
    /\ IF job[t].todo = <<>> THEN Answer(t)
       ELSE job' = [job EXCEPT ![t].pc = IF Head(job[t].todo) \in Rooted THEN "boot" ELSE "catalog",
                               ![t].ws = Head(job[t].todo), ![t].todo = Tail(@)]
    /\ UNCHANGED <<disk, slot, runtime, ghosts, excuse, rest>>

-----------------------------------------------------------------------------
(* Building a runtime.                                                     *)

AfterBoot(t) == IF job[t].op = "catalog" THEN "catalog" ELSE "configure"


\* bootstrap asks whether there is something to migrate ...
Boot(t) ==
    LET w == job[t].ws IN
    /\ job[t].pc = "boot"
    /\ IF Migrates(disk[w]) THEN Goto(t, "migrate") /\ UNCHANGED disk
       ELSE disk' = [disk EXCEPT ![w] = Made(@)] /\ Goto(t, AfterBoot(t))
    /\ UNCHANGED <<slot, runtime, ghosts, excuse, rest>>

\* The build ends with an exception: only its session manager is closed, and
\* the connection of the request drops.
Abandon(t) ==
    /\ runtime' = IF job[t].op = "catalog" THEN runtime
                  ELSE [runtime EXCEPT ![job[t].runtime].state = "failed"]
    /\ Answer(t)

\* ... and moves the old directory, if another thread has not done so.
Migrate(t) ==
    LET w == job[t].ws IN
    /\ job[t].pc = "migrate"
    /\ IF Migrates(disk[w])
       THEN /\ disk' = [disk EXCEPT ![w] = Made(Moved(@))]
            /\ Goto(t, AfterBoot(t)) /\ UNCHANGED runtime
       ELSE Abandon(t) /\ UNCHANGED disk
    /\ UNCHANGED <<slot, ghosts, excuse, rest>>

\* configure_sidecar_logging replaces the logging configuration of the whole process: every record of
\* every workspace goes under the one that was opened last.
ConfigureLogging(t) ==
    /\ job[t].pc = "configure"
    /\ logRoot' = job[t].ws
    /\ Goto(t, "recover")
    /\ UNCHANGED <<disk, slot, runtime, host, closing, calls, faults, stops, ghosts, excuse>>

\* The stores are opened and the startup scan is made.
Recover(t) ==
    /\ job[t].pc = "recover"
    /\ disk' = [disk EXCEPT ![job[t].ws] = Recovered(@)]
    /\ Goto(t, "install")
    /\ UNCHANGED <<slot, runtime, ghosts, excuse, rest>>

BuildFails(t) ==
    /\ job[t].pc = "recover" /\ faults < MaxFaults
    /\ faults' = faults + 1
    /\ Abandon(t)
    /\ UNCHANGED <<disk, slot, logRoot, host, closing, calls, stops, ghosts, excuse>>

\* The factory returns and the registry keeps what it returned.
Install(t) ==
    LET w == job[t].ws IN
    /\ job[t].pc = "install"
    /\ runtime' = [runtime EXCEPT ![job[t].runtime].state = "live"]
    /\ slot' = [slot EXCEPT ![w] = job[t].runtime]
    /\ excuse' = excuse \cup (IF host # "up" THEN {<<"late", w, None>>} ELSE {})
    /\ Goto(t, "serve")
    /\ UNCHANGED <<disk, ghosts, rest>>

-----------------------------------------------------------------------------
(* The session routes, and the commands that start and stop a task.  A     *)
(* statement on the connection of a closed runtime raises, and the answer  *)
(* is an error.                                                            *)

Connected(t) == runtime[job[t].runtime].state = "live"

Begin(t, op) == job[t].pc = "serve" /\ job[t].op = op

\* A refused body, an empty name, a list, and whatever meets a closed store.
ServeNothing(t) ==
    /\ \/ job[t].pc = "serve" /\ job[t].op \in {"mismatch", "blank", "list"}
       \/ /\ \/ job[t].pc = "serve" /\ job[t].op \in {"create", "rename", "delete", "publish", "stop"}
             \/ job[t].pc \in {"reread", "unlist", "next"}
          /\ ~Connected(t)
    /\ Answer(t)
    /\ UNCHANGED <<disk, slot, runtime, ghosts, excuse, rest>>

\* create: the row, the directory, then logging: the log directory and the
\* manifest in it.
CreateInserts(t) ==
    LET w == job[t].ws IN
    /\ Begin(t, "create") /\ Connected(t)
    /\ \E s \in Session \ born[w] :
        /\ SetRows(w, <<s>> \o disk[w].meta.rows)
        /\ born' = [born EXCEPT ![w] = @ \cup {s}]
        /\ job' = [job EXCEPT ![t].pc = "mkdir", ![t].session = s]
    /\ UNCHANGED <<slot, runtime, deleted, written, excuse, rest>>

\* bootstrap_session, and write_sidecar_session_log_manifest's mkdir: what
\* is there already stays.
MakeDir(t, pc, next) ==
    /\ job[t].pc = pc
    /\ PutFiles(job[t].ws, job[t].session, {"dir"})
    /\ Goto(t, next)
    /\ UNCHANGED <<slot, runtime, ghosts, excuse, rest>>
CreateMakesDir(t) == MakeDir(t, "mkdir", "logging")
CreateMakesLogDir(t) == MakeDir(t, "logging", "manifest")

\* The disk refuses the directory of a new session, or the move of a deleted one: the row is there, or
\* gone, already.
DirFails(t) ==
    /\ job[t].pc \in {"mkdir", "move"} /\ faults < MaxFaults
    /\ faults' = faults + 1
    /\ excuse' = excuse \cup {<<"refused", job[t].ws, job[t].session>>}
    /\ Answer(t)
    /\ UNCHANGED <<disk, slot, runtime, logRoot, host, closing, calls, stops, ghosts>>

\* Opening a file for writing fails if the directory has been moved away.
WriteInto(t, file) ==
    LET w == job[t].ws
        s == job[t].session IN
    /\ \/ /\ "dir" \in disk[w].meta.files[s]
          /\ PutFiles(w, s, {file}) /\ Wrote(w, s, {file})
       \/ /\ "dir" \notin disk[w].meta.files[s]
          /\ UNCHANGED <<disk, written>>
    /\ Answer(t)
    /\ UNCHANGED <<slot, runtime, born, deleted, excuse, rest>>
CreateWritesManifest(t) == job[t].pc = "manifest" /\ WriteInto(t, "manifest")

\* rename: an update, and a read of the row for the answer.
Rename(t) ==
    LET w == job[t].ws
        s == job[t].session IN
    /\ Begin(t, "rename") /\ Connected(t)
    /\ IF s \in Rows(w)
       THEN SetRows(w, <<s>> \o Without(disk[w].meta.rows, s)) /\ Goto(t, "reread")
       ELSE Answer(t) /\ UNCHANGED disk
    /\ UNCHANGED <<slot, runtime, ghosts, excuse, rest>>

RenameReads(t) ==
    /\ job[t].pc = "reread" /\ Connected(t)
    /\ Answer(t)
    /\ UNCHANGED <<disk, slot, runtime, ghosts, excuse, rest>>

\* delete: require, DELETE, archive the directory, list.
DeleteRequires(t) ==
    /\ Begin(t, "delete") /\ Connected(t)
    /\ IF job[t].session \in Rows(job[t].ws) THEN Goto(t, "unlist") ELSE Answer(t)
    /\ UNCHANGED <<disk, slot, runtime, ghosts, excuse, rest>>

DeleteUnlists(t) ==
    LET w == job[t].ws
        s == job[t].session IN
    /\ job[t].pc = "unlist" /\ Connected(t)
    /\ SetRows(w, Without(disk[w].meta.rows, s))
    /\ deleted' = [deleted EXCEPT ![w] = @ \cup {s}]
    /\ Goto(t, "archive")
    /\ UNCHANGED <<slot, runtime, born, written, excuse, rest>>

\* _archive_session_dir: is it there, then shutil.move.
DeleteLooks(t) ==
    /\ job[t].pc = "archive"
    /\ Goto(t, IF disk[job[t].ws].meta.files[job[t].session] = {} THEN "next" ELSE "move")
    /\ UNCHANGED <<disk, slot, runtime, ghosts, excuse, rest>>

DeleteMoves(t) ==
    LET w == job[t].ws
        s == job[t].session
        files == disk[w].meta.files[s] IN
    /\ job[t].pc = "move"
    /\ IF files = {} THEN Answer(t) /\ UNCHANGED disk
       ELSE /\ disk' = [disk EXCEPT ![w].archive[s] = @ \cup files, ![w].meta.files[s] = {}]
            /\ Goto(t, "next")
    /\ UNCHANGED <<slot, runtime, ghosts, excuse, rest>>

\* The answer names the most recently active session left, if any.
DeleteAnswers(t) ==
    /\ job[t].pc = "next" /\ Connected(t)
    /\ Answer(t)
    /\ UNCHANGED <<disk, slot, runtime, ghosts, excuse, rest>>

\* write_error asks nobody whether there is such a session.
LogMakesDir(t) ==
    LET w == job[t].ws
        s == job[t].session IN
    /\ Begin(t, "log")
    /\ PutFiles(w, s, {"dir"})
    /\ Goto(t, "append")
    /\ UNCHANGED <<slot, runtime, ghosts, excuse, rest>>
LogAppends(t) == job[t].pc = "append" /\ WriteInto(t, "log")

\* FileSink.emit: a record of a session makes the session's log directory under the logging root,
\* whether or not the session is of that workspace or still listed.
Record(s) == PutFiles(logRoot, s, {"dir", "record"}) /\ Wrote(logRoot, s, {"dir", "record"})

\* A command publishes the task, wakes the dispatcher of the runtime that served it and says so on the
\* message bus, which logs it; nothing looks at the session's row.
Publish(t) ==
    LET w == job[t].ws
        s == job[t].session IN
    /\ Begin(t, "publish") /\ Connected(t)
    /\ disk' = IF disk[w].meta.tasks[s] = "none"
               THEN [disk EXCEPT ![w].meta.tasks[s] = "pending"] ELSE disk
    /\ runtime' = [runtime EXCEPT ![job[t].runtime].queue = @ \cup {s}]
    /\ Goto(t, "record")
    /\ UNCHANGED <<slot, ghosts, excuse, rest>>

PublishRecords(t) ==
    /\ job[t].pc = "record"
    /\ Record(job[t].session)
    /\ Answer(t)
    /\ UNCHANGED <<slot, runtime, born, deleted, excuse, rest>>

StopTask(t) ==
    LET w == job[t].ws
        s == job[t].session IN
    /\ Begin(t, "stop") /\ Connected(t)
    /\ disk' = IF disk[w].meta.tasks[s] = "running"
               THEN [disk EXCEPT ![w].meta.tasks[s] = "stopping"] ELSE disk
    /\ Answer(t)
    /\ UNCHANGED <<slot, runtime, ghosts, excuse, rest>>

-----------------------------------------------------------------------------
(* The worker of a runtime (Dispatcher models its queue).                  *)

\* It takes a session and claims its task if that is still pending.
Claim(r) ==
    LET w == runtime[r].ws IN
    /\ runtime[r].state = "live" /\ runtime[r].run = None
    /\ \E s \in runtime[r].queue :
        IF disk[w].meta.tasks[s] = "pending"
        THEN /\ runtime' = [runtime EXCEPT ![r].queue = @ \ {s}, ![r].run = s, ![r].step = "prepare"]
             /\ disk' = [disk EXCEPT ![w].meta.tasks[s] = "running"]
        ELSE /\ runtime' = [runtime EXCEPT ![r].queue = @ \ {s}]
             /\ UNCHANGED disk
    /\ UNCHANGED <<slot, job, ghosts, excuse, rest>>

\* The agent makes the session's directory if need be and opens its stores in it.
Prepare(r) ==
    LET w == runtime[r].ws
        s == runtime[r].run IN
    /\ runtime[r].state \in {"live", "closed"} /\ s # None /\ runtime[r].step = "prepare"
    /\ PutFiles(w, s, {"dir", "agent"}) /\ Wrote(w, s, {"dir", "agent"})
    /\ runtime' = [runtime EXCEPT ![r].step = "work"]
    /\ UNCHANGED <<slot, job, born, deleted, excuse, rest>>

\* Whatever it does it logs.
WorkRecords(r) ==
    LET s == runtime[r].run IN
    /\ runtime[r].state \in {"live", "closed"} /\ s # None /\ runtime[r].step = "work"
    /\ "record" \notin disk[logRoot].meta.files[s]
    /\ Record(s)
    /\ UNCHANGED <<slot, runtime, job, born, deleted, excuse, rest>>

\* It reports the outcome, unless the runtime was closed under it or the task
\* is no longer its own.
Finish(r) ==
    LET w == runtime[r].ws
        s == runtime[r].run
        to == CASE disk[w].meta.tasks[s] = "running" -> "done"
                [] disk[w].meta.tasks[s] = "stopping" -> "failed"
                [] OTHER -> disk[w].meta.tasks[s] IN
    /\ runtime[r].state \in {"live", "closed"} /\ s # None /\ runtime[r].step = "work"
    /\ disk' = IF runtime[r].state = "live" THEN [disk EXCEPT ![w].meta.tasks[s] = to] ELSE disk
    /\ runtime' = [runtime EXCEPT ![r].run = None, ![r].step = None]
    /\ UNCHANGED <<slot, job, ghosts, excuse, rest>>

-----------------------------------------------------------------------------
(* Closing and dying.                                                      *)

\* The server accepts no more; it does not wait for its request threads.
Shutdown ==
    /\ host = "up" /\ host' = "shut"
    /\ UNCHANGED <<disk, slot, runtime, logRoot, closing, job, calls, faults, stops, ghosts, excuse>>

\* close_all: the runtimes of the registry, then an empty registry, then one
\* close after the other.
CloseTakes ==
    /\ host = "shut" /\ host' = "taken"
    /\ closing' = {slot[w] : w \in Workspace} \ {0}
    /\ UNCHANGED <<disk, slot, runtime, logRoot, job, calls, faults, stops, ghosts, excuse>>

CloseClears ==
    /\ host = "taken" /\ host' = "closed"
    /\ slot' = [w \in Workspace |-> 0]
    /\ UNCHANGED <<disk, runtime, logRoot, closing, job, calls, faults, stops, ghosts, excuse>>

\* The dispatcher drops its queue and is waited for, but not for ever.
CloseRuntime(r) ==
    /\ host = "closed" /\ r \in closing
    /\ closing' = closing \ {r}
    /\ runtime' = [runtime EXCEPT ![r].state = "closed", ![r].queue = {}]
    /\ UNCHANGED <<disk, slot, logRoot, host, job, calls, faults, stops, ghosts, excuse>>

\* The process ends at any moment and is started again: the current
\* workspace is opened before the server listens.
Restart ==
    /\ stops < MaxStops /\ stops' = stops + 1
    /\ runtime' = [r \in Runtime |-> IF r = 1 THEN Opened(Current) ELSE NoRuntime]
    /\ slot' = [w \in Workspace |-> IF w = Current THEN 1 ELSE 0]
    /\ logRoot' = Current
    /\ host' = "up" /\ closing' = {}
    /\ job' = [t \in Thread |-> Idle]
    /\ disk' = [disk EXCEPT ![Current] = Recovered(Bootstrapped(@))]
    /\ excuse' = {e \in excuse : e[1] \notin {"raced", "late"}} \cup
         {<<"crash", job[t].ws, job[t].session>> : t \in {u \in Thread :
              job[u].pc = "mkdir"}}
    /\ UNCHANGED <<calls, faults, ghosts>>

Next ==
    \/ \E t \in Thread :
        \/ \E q \in Request : Receive(t, q)
        \/ Resolve(t) \/ Catalog(t)
        \/ Boot(t) \/ Migrate(t) \/ ConfigureLogging(t) \/ Recover(t) \/ BuildFails(t) \/ Install(t)
        \/ ServeNothing(t)
        \/ CreateInserts(t) \/ CreateMakesDir(t) \/ CreateMakesLogDir(t) \/ DirFails(t) \/ CreateWritesManifest(t)
        \/ Rename(t) \/ RenameReads(t)
        \/ DeleteRequires(t) \/ DeleteUnlists(t) \/ DeleteLooks(t) \/ DeleteMoves(t) \/ DeleteAnswers(t)
        \/ LogMakesDir(t) \/ LogAppends(t) \/ Publish(t) \/ PublishRecords(t) \/ StopTask(t)
    \/ \E r \in Runtime : Claim(r) \/ Prepare(r) \/ WorkRecords(r) \/ Finish(r) \/ CloseRuntime(r)
    \/ Shutdown \/ CloseTakes \/ CloseClears \/ Restart

-----------------------------------------------------------------------------
Excused(kinds, w, s) == \E k \in kinds : <<k, w, s>> \in excuse
Undivided(w) == ~Excused({"raced", "late"}, w, None)

(* A workspace has one runtime, and the registry knows it (or is closing   *)
(* it), unless two first requests overlapped or one was still under way    *)
(* when the sidecar began to close.                                        *)
OneRuntime ==
    \A w \in Workspace : Undivided(w) =>
        \A r \in Runtime : runtime[r].ws = w /\ runtime[r].state = "live" =>
            (slot[w] = r /\ host \in {"up", "shut", "taken"}) \/ r \in closing

(* One agent at a time works in a workspace, and nothing ends its task     *)
(* under it: the startup scan of a runtime never meets a task that another *)
(* runtime still runs.                                                     *)
OneAgent ==
    \A w \in Workspace : Undivided(w) =>
        \A r \in Runtime : runtime[r].ws = w /\ runtime[r].run # None =>
            /\ disk[w].meta.tasks[runtime[r].run] \in {"running", "stopping"}
            /\ \A x \in Runtime \ {r} : runtime[x].ws = w => runtime[x].run = None

(* A listed session has its directory, whatever is deleted, migrated or     *)
(* opened beside it, unless a crash or the disk came between its row and    *)
(* the directory.                                                          *)
ListedHasDir ==
    \A w \in Workspace : \A s \in Rows(w) :
        \/ disk[w].meta.files[s] # {}
        \/ \E t \in Thread : job[t].pc = "mkdir" /\ job[t].ws = w /\ job[t].session = s
        \/ Excused({"crash", "refused"}, w, s)

(* Deleting keeps the user's work recoverable: every file ever written for *)
(* a session is in its directory or in the archive.                        *)
WorkIsKept ==
    \A w \in Workspace, s \in Session :
        written[w][s] \subseteq disk[w].meta.files[s] \cup disk[w].legacy.files[s] \cup disk[w].archive[s]

(* A session is listed from its creation until it is deleted and never     *)
(* after: whichever requests open the workspace first, its old metadata    *)
(* directory is taken over once, whole.                                    *)
ListedUntilDeleted ==
    \A w \in Workspace :
        LET rows == IF disk[w].meta.there THEN disk[w].meta.rows ELSE disk[w].legacy.rows
        IN {rows[i] : i \in DOMAIN rows} = born[w] \ deleted[w]


=============================================================================
