--------------------------- MODULE ExecutionPlane ---------------------------
(***************************************************************************)
(* The Execution Plane's Task API: publish, get, cancel and retry of a     *)
(* task through HTTP threads, over the TaskBus and the SQLite store of     *)
(* executions, idempotency records and events.                             *)
(*                                                                         *)
(* Every call of the bus or of the store is atomic; no lock spans two of   *)
(* them.  The ids of a task and of its execution derive from the scoped    *)
(* idempotency key, so both are named by it here.  A request is            *)
(* [op, key, body, capable]; body stands for its hash, and capable says    *)
(* whether some registered environment supports its policy.  All requests  *)
(* come from one requester, so their tasks share a session and its         *)
(* dispatcher.  The stores survive a crash; threads, dispatch requests and *)
(* the executor do not.                                                    *)
(***************************************************************************)
EXTENDS Naturals, Sequences, FiniteSets

CONSTANTS
    Thread,     \* HTTP request threads
    Request,    \* the requests clients send
    MaxSends,   \* bound: requests sent
    MaxCrash    \* bound: crashes

Key == {r.key : r \in Request}
Body == {r.body : r \in Request}

ASSUME PlaneAssumption ==
    /\ \A r \in Request :
         r \in [op : {"publish", "get", "cancel", "retry"}, key : Key, body : Body,
               capable : BOOLEAN]
    /\ MaxSends \in Nat /\ MaxCrash \in Nat

VARIABLES
    task,      \* TaskBus: {} or {[status, started, completed, body, interrupt]} per key
    exec,      \* execution_tasks: {} or {[status, created, updated, completed, body]} per key
    idem,      \* execution_idempotency: the bodies recorded per key, at most one
    events,    \* execution_events: kinds per key, in order
    asked,     \* has a dispatch of the session been requested and not settled?
    working,   \* the key the executor runs, in a set of at most one
    job,       \* what each thread is doing
    acked,     \* <<key, body>> of the publishes answered with an execution
    clock, sends, crashes

stores == <<task, exec, idem, events>>
planeVars == <<stores, asked, working, job, acked, clock, sends, crashes>>

None == 0   \* no timestamp

\* What a thread holds of an execution before it has read one.
Blank == [status |-> "none"]
Accepted == [status |-> "accepted"]

NoRequest == [op |-> "none"]
Idle == [pc |-> "idle", req |-> NoRequest, now |-> None, seen |-> Blank]

PlaneInit ==
    /\ task = [k \in Key |-> {}] /\ exec = [k \in Key |-> {}]
    /\ idem = [k \in Key |-> {}] /\ events = [k \in Key |-> <<>>]
    /\ asked = FALSE /\ working = {}
    /\ job = [t \in Thread |-> Idle]
    /\ acked = {} /\ clock = 0 /\ sends = 0 /\ crashes = 0

-----------------------------------------------------------------------------
At(t, pc) == job[t].pc = pc
Goto(t, pc) == job' = [job EXCEPT ![t].pc = pc]
Sees(t, pc, seen) == job' = [job EXCEPT ![t] = [@ EXCEPT !.pc = pc, !.seen = seen]]
End(t) == job' = [job EXCEPT ![t] = Idle]
Req(t) == job[t].req
Now == clock + 1

\* Answering a publish with an execution: the HTTP route then asks for a dispatch.
Answer(t) == IF Req(t).op = "publish" THEN Goto(t, "dispatch") ELSE End(t)

Send(t, r) ==
    /\ At(t, "idle") /\ sends < MaxSends
    /\ job' = [job EXCEPT ![t] = [pc |-> IF r.op = "publish" THEN "lookup" ELSE "load",
                                  req |-> r, now |-> None, seen |-> Blank]]
    /\ sends' = sends + 1
    /\ UNCHANGED <<stores, asked, working, acked, clock, crashes>>

(* publish_task *)

\* A known key is answered like a get, or refused for another body.
Lookup(t) ==
    /\ At(t, "lookup")
    /\ LET known == idem[Req(t).key]
       IN CASE known = {} -> IF Req(t).capable THEN Goto(t, "stamp") ELSE End(t)
            [] known = {Req(t).body} -> Goto(t, "load")
            [] OTHER -> End(t)
    /\ UNCHANGED <<stores, asked, working, acked, clock, sends, crashes>>

Stamp(t) ==
    /\ At(t, "stamp")
    /\ job' = [job EXCEPT ![t] = [@ EXCEPT !.pc = "bus", !.now = Now]]
    /\ clock' = Now
    /\ UNCHANGED <<stores, asked, working, acked, sends, crashes>>

\* TaskBus.publish; a task that is already there is taken for this request's.
BusPublish(t) ==
    /\ At(t, "bus")
    /\ task' = [task EXCEPT ![Req(t).key] =
                  IF @ # {} THEN @
                  ELSE {[status |-> "pending", started |-> None, completed |-> None,
                         body |-> Req(t).body, interrupt |-> FALSE]}]
    /\ Goto(t, "put")
    /\ UNCHANGED <<exec, idem, events, asked, working, acked, clock, sends, crashes>>

PutExecution(t) ==
    /\ At(t, "put")
    /\ exec' = [exec EXCEPT ![Req(t).key] =
                  {[status |-> "pending", created |-> job[t].now, updated |-> job[t].now,
                    completed |-> None, body |-> Req(t).body]}]
    /\ Goto(t, "idem")
    /\ UNCHANGED <<task, idem, events, asked, working, acked, clock, sends, crashes>>

\* Faulty: the record is replaced, with no second check of the hash.
PutIdempotencyOver(t) ==
    /\ At(t, "idem")
    /\ idem' = [idem EXCEPT ![Req(t).key] = {Req(t).body}]
    /\ Sees(t, "event", Accepted)
    /\ UNCHANGED <<task, exec, events, asked, working, acked, clock, sends, crashes>>

PutIdempotency(t) ==
    /\ At(t, "idem")
    /\ LET known == idem[Req(t).key]
       IN IF known \subseteq {Req(t).body}
            THEN /\ idem' = [idem EXCEPT ![Req(t).key] = {Req(t).body}]
                 /\ Sees(t, "event", Accepted)
            ELSE /\ End(t)
                 /\ UNCHANGED idem
    /\ UNCHANGED <<task, exec, events, asked, working, acked, clock, sends, crashes>>

EventKind(t) ==
    CASE Req(t).op = "publish" -> "accepted"
      [] Req(t).op = "cancel" /\ job[t].seen.status = "failed" -> "cancelled"
      [] OTHER -> "progress"

AppendEvent(t) ==
    /\ At(t, "event")
    /\ events' = [events EXCEPT ![Req(t).key] = Append(@, EventKind(t))]
    /\ Answer(t)
    /\ UNCHANGED <<task, exec, idem, asked, working, acked, clock, sends, crashes>>


\* ExecutionTriggerGateway.request_dispatch, after a first publish and a replay.
RequestDispatch(t) ==
    /\ At(t, "dispatch")
    /\ asked' = TRUE
    /\ acked' = acked \cup {<<Req(t).key, Req(t).body>>}
    /\ End(t)
    /\ UNCHANGED <<stores, working, clock, sends, crashes>>

(* get_task, cancel_task, retry_task and the replay of a publish *)

\* TaskExecution's validator, which a row read from SQLite has to pass.
Readable(e) == e.updated >= e.created /\ (e.completed = None \/ e.completed >= e.created)

LoadExecution(t) ==
    /\ At(t, "load")
    /\ LET found == {e \in exec[Req(t).key] : Readable(e)}
           next == [publish |-> "read", get |-> "read", cancel |-> "interrupt",
                    retry |-> "retry"]
       IN IF found = {} THEN End(t)
          ELSE \E e \in found : Sees(t, next[Req(t).op], e)
    /\ UNCHANGED <<stores, asked, working, acked, clock, sends, crashes>>

\* _execution_from_task: model_copy, which does not validate.
FromTask(e, x) ==
    [e EXCEPT !.status = x.status, !.completed = x.completed,
              !.updated = IF x.completed # None THEN x.completed
                          ELSE IF x.started # None THEN x.started ELSE @]

ReadTask(t) ==
    /\ At(t, "read")
    /\ \E x \in task[Req(t).key] :
         LET updated == FromTask(job[t].seen, x)
         IN IF updated = job[t].seen THEN Answer(t)
            ELSE Sees(t, "save", updated)
    /\ UNCHANGED <<stores, asked, working, acked, clock, sends, crashes>>

\* A pending task is failed at once; a running one is told to stop.
Interrupted(x) ==
    IF x.status = "pending"
      THEN [x EXCEPT !.status = "failed", !.completed = Now, !.interrupt = TRUE]
      ELSE [x EXCEPT !.interrupt = TRUE]

Retried(x) == [x EXCEPT !.status = "pending", !.started = None, !.completed = None,
                        !.interrupt = FALSE]

\* The bus operation of a command, and the execution made from its result.
Command(t, from) ==
    /\ \E x \in task[Req(t).key] :
         LET y == IF Req(t).op = "cancel" THEN Interrupted(x) ELSE Retried(x) IN
         IF x.status \in from
           THEN /\ task' = [task EXCEPT ![Req(t).key] = {y}]
                /\ Sees(t, "save", FromTask(job[t].seen, y))
           ELSE End(t) /\ UNCHANGED task
    /\ UNCHANGED <<exec, idem, events, asked, working, acked, sends, crashes>>

CancelTask(t) ==
    /\ At(t, "interrupt") /\ Command(t, {"pending", "running"})
    /\ clock' = Now

RetryTask(t) ==
    /\ At(t, "retry") /\ Command(t, {"failed"})
    /\ UNCHANGED clock

SaveExecution(t) ==
    /\ At(t, "save")
    /\ exec' = [exec EXCEPT ![Req(t).key] = {job[t].seen}]
    /\ IF Req(t).op \in {"cancel", "retry"} THEN Goto(t, "event") ELSE Answer(t)
    /\ UNCHANGED <<task, idem, events, asked, working, acked, clock, sends, crashes>>

-----------------------------------------------------------------------------
(* The session's executor, and the process. *)

Pending(k) == \E x \in task[k] : x.status = "pending"

StartTask(k) ==
    /\ asked /\ working = {} /\ Pending(k)
    /\ task' = [task EXCEPT ![k] = {[x EXCEPT !.status = "running", !.started = Now] : x \in @}]
    /\ working' = {k} /\ clock' = Now
    /\ UNCHANGED <<exec, idem, events, asked, job, acked, sends, crashes>>

\* A stopped task fails; another may end either way.
FinishTask(k, status) ==
    /\ k \in working
    /\ status = "done" => \A x \in task[k] : ~x.interrupt
    /\ task' = [task EXCEPT ![k] = {[x EXCEPT !.status = status, !.completed = Now] : x \in @}]
    /\ working' = {} /\ clock' = Now
    /\ UNCHANGED <<exec, idem, events, asked, job, acked, sends, crashes>>

\* A dispatch runs until the session has no pending task.
SettleDispatch ==
    /\ asked /\ working = {} /\ ~\E k \in Key : Pending(k)
    /\ asked' = FALSE
    /\ UNCHANGED <<stores, working, job, acked, clock, sends, crashes>>

\* The startup scan visits the sessions of the session manager; the requester's is none.
Crash ==
    /\ crashes < MaxCrash
    /\ crashes' = crashes + 1
    /\ job' = [t \in Thread |-> Idle]
    /\ asked' = FALSE /\ working' = {}
    /\ UNCHANGED <<stores, acked, clock, sends>>

Step(t) ==
    \/ Lookup(t) \/ Stamp(t) \/ BusPublish(t) \/ PutExecution(t) \/ PutIdempotency(t)
    \/ AppendEvent(t) \/ RequestDispatch(t) \/ LoadExecution(t) \/ ReadTask(t)
    \/ CancelTask(t) \/ RetryTask(t) \/ SaveExecution(t)

Execute ==
    \/ \E k \in Key : StartTask(k) \/ FinishTask(k, "done") \/ FinishTask(k, "failed")
    \/ SettleDispatch

PlaneNext ==
    \/ \E t \in Thread : Step(t) \/ \E r \in Request : Send(t, r)
    \/ Execute
    \/ Crash

PlaneSpec == PlaneInit /\ [][PlaneNext]_planeVars

\* Threads are scheduled, and the dispatcher's worker and its tasks make progress.
FairPlaneSpec == PlaneSpec /\ (\A t \in Thread : WF_planeVars(Step(t))) /\ WF_planeVars(Execute)

-----------------------------------------------------------------------------
(* Properties *)

TaskStatus == {"pending", "running", "done", "failed"}

TaskRow == [status : TaskStatus, started : Nat, completed : Nat, body : Body,
            interrupt : BOOLEAN]

ExecutionRow == [status : TaskStatus, created : Nat, updated : Nat, completed : Nat,
                 body : Body]

Job == [pc : {"idle", "lookup", "stamp", "bus", "put", "idem", "event", "dispatch", "load",
              "read", "interrupt", "retry", "save"},
        req : Request \cup {NoRequest}, now : Nat,
        seen : ExecutionRow \cup {Blank, Accepted}]

AtMostOne(rows) == \A x, y \in rows : x = y

\* The rows of the stores have their types, and a key has at most one of each.
PlaneTypeOK ==
    /\ task \in [Key -> SUBSET TaskRow] /\ \A k \in Key : AtMostOne(task[k])
    /\ exec \in [Key -> SUBSET ExecutionRow] /\ \A k \in Key : AtMostOne(exec[k])
    /\ idem \in [Key -> SUBSET Body] /\ \A k \in Key : AtMostOne(idem[k])
    /\ job \in [Thread -> Job]
    /\ working \subseteq Key /\ AtMostOne(working)
    /\ clock \in Nat

\* A recorded key always leads to an execution and to its task: whatever a crash
\* cuts short, the replay of an accepted publish finds both (publish_task's order
\* of writes: task, execution, record).
RecordBacked == \A k \in Key : idem[k] # {} => exec[k] # {} /\ task[k] # {}

\* A publish is answered with an execution only when the record of its key has its
\* body: two clients that use a key for different requests are never both accepted
\* (put_idempotency's second check).
AckedIsRecorded == \A k \in Key, b \in Body : <<k, b>> \in acked => idem[k] = {b}

HasDone(rows) == \E x \in rows : x.status = "done"

\* An execution stored as done has a done task, whatever cancel, retry or stale save
\* comes after: done is final on the bus, so a stale copy can only lag behind.
DoneIsDone == \A k \in Key : HasDone(exec[k]) => HasDone(task[k])

\* The process has crashed for the last time.
StaysUp == crashes = MaxCrash


\* The plane's three stores agree wherever a crash or an overlapping request
\* comes between their writes.
PlaneSound == PlaneTypeOK /\ RecordBacked /\ AckedIsRecorded /\ DoneIsDone

\* What the thread with the locals j knows of the stores: what a publish has
\* written so far, the record that a replay found, and that the execution it
\* has read, or is to save, does not run ahead of the task.
JobShape(j, tasks, execs, idems) ==
    /\ j.pc # "idle" => j.req \in Request
    /\ j.pc \in {"lookup", "stamp", "bus", "put", "idem", "dispatch"} => j.req.op = "publish"
    /\ j.pc \in {"put", "idem"} => tasks[j.req.key] # {}
    /\ j.pc = "idem" => execs[j.req.key] # {}
    /\ j.pc \in {"load", "read", "save", "event", "dispatch"} /\ j.req.op = "publish"
          => idems[j.req.key] = {j.req.body}
    /\ j.pc = "interrupt" => j.req.op = "cancel"
    /\ j.pc = "retry" => j.req.op = "retry"
    /\ j.pc \in {"read", "interrupt", "retry", "save"} =>
          /\ j.seen \in ExecutionRow
          /\ j.seen.status = "done" => HasDone(tasks[j.req.key])

\* The task the executor works on is running.
WorkingRuns ==
    \A k \in working : task[k] # {} /\ \A x \in task[k] : x.status = "running"

\* The inductive invariant.
PlaneInv ==
    /\ PlaneSound
    /\ WorkingRuns
    /\ \A t \in Thread : JobShape(job[t], task, exec, idem)
=============================================================================
