---------------------------- MODULE PlaneProofs ----------------------------
(***************************************************************************)
(* The stores of the Execution Plane agree, for any set of requests, any   *)
(* number of request threads, of requests sent and of crashes.             *)
(*                                                                         *)
(* What a thread has seen of the stores is not protected by any lock, so   *)
(* it must be of the kind that never becomes false again: a task or an     *)
(* execution that exists, a recorded body, a done task.                    *)
(***************************************************************************)
EXTENDS ExecutionPlane, TLAPS

-----------------------------------------------------------------------------
(* What a step has to show of the stores.                                  *)

\* Nothing that was recorded goes away.
StoresGrow ==
    \A k \in Key :
        /\ task[k] # {} => task'[k] # {}
        /\ exec[k] # {} => exec'[k] # {}
        /\ idem[k] # {} => idem'[k] = idem[k]
        /\ HasDone(task[k]) => HasDone(task'[k])

StoresTypeOK ==
    /\ task \in [Key -> SUBSET TaskRow] /\ \A k \in Key : AtMostOne(task[k])
    /\ exec \in [Key -> SUBSET ExecutionRow] /\ \A k \in Key : AtMostOne(exec[k])
    /\ idem \in [Key -> SUBSET Body] /\ \A k \in Key : AtMostOne(idem[k])
    /\ working \subseteq Key /\ AtMostOne(working)
    /\ clock \in Nat

StoresOK == StoresGrow /\ (StoresTypeOK /\ RecordBacked /\ DoneIsDone /\ WorkingRuns)'

PlaneStepOK == StoresGrow /\ PlaneInv'

\* The invariant in the pieces the steps use.
LEMMA PlaneParts ==
    ASSUME PlaneInv
    PROVE  /\ StoresTypeOK /\ RecordBacked /\ DoneIsDone /\ WorkingRuns /\ AckedIsRecorded
           /\ job \in [Thread -> Job]
           /\ \A t \in Thread : job[t] \in Job /\ JobShape(job[t], task, exec, idem)
BY DEF PlaneInv, PlaneSound, PlaneTypeOK, StoresTypeOK

\* What a request is.
LEMMA RequestParts ==
    \A r \in Request : /\ r.op \in {"publish", "get", "cancel", "retry"} /\ r.key \in Key
                       /\ r.body \in Body
BY PlaneAssumption

\* The locals of a thread that has nothing to do.
LEMMA IdleJob ==
    /\ Idle \in Job
    /\ \A tasks, execs, idems : JobShape(Idle, tasks, execs, idems)
BY DEF Idle, Job, JobShape, None

\* What a thread knows stays true.
LEMMA JobStays ==
    ASSUME PlaneInv, StoresGrow, NEW t \in Thread
    PROVE  JobShape(job[t], task', exec', idem')
<1> DEFINE j == job[t]
<1>0. j \in Job /\ JobShape(j, task, exec, idem)
  BY PlaneParts
<1> SUFFICES JobShape(j, task', exec', idem')
  OBVIOUS
<1> HIDE DEF j
<1>1. CASE j.pc = "idle"
  BY <1>0, <1>1 DEF JobShape
<1>2. CASE j.pc # "idle"
  <2>1. j.req.key \in Key
    BY <1>0, <1>2, RequestParts DEF JobShape
  <2> QED
    BY <1>0, <1>2, <2>1 DEF JobShape, StoresGrow
<1> QED
  BY <1>1, <1>2

\* Answered publishes stay recorded.
LEMMA AckedStays ==
    ASSUME PlaneInv, StoresGrow, UNCHANGED acked
    PROVE  AckedIsRecorded'
BY PlaneParts DEF AckedIsRecorded, StoresGrow

\* One thread moves.
LEMMA JobMoves ==
    ASSUME PlaneInv, StoresOK, AckedIsRecorded', NEW t \in Thread, NEW l \in Job,
           job' = [job EXCEPT ![t] = l], JobShape(l, task', exec', idem')
    PROVE  PlaneStepOK
<1>1. job \in [Thread -> Job] /\ StoresGrow
  BY PlaneParts DEF StoresOK
<1>2. \A u \in Thread : JobShape(job'[u], task', exec', idem')
  BY <1>1, JobStays
<1>3. job' \in [Thread -> Job]
  BY <1>1
<1> QED
  BY <1>2, <1>3 DEF PlaneStepOK, PlaneInv, PlaneSound, PlaneTypeOK, StoresOK,
     StoresTypeOK

\* No thread moves.
LEMMA JobsRest ==
    ASSUME PlaneInv, StoresOK, UNCHANGED <<job, acked>>
    PROVE  PlaneStepOK
<1>1. job \in [Thread -> Job] /\ StoresGrow
  BY PlaneParts DEF StoresOK
<1>2. \A u \in Thread : JobShape(job'[u], task', exec', idem')
  BY <1>1, JobStays
<1> QED
  BY <1>1, <1>2, AckedStays DEF PlaneStepOK, PlaneInv, PlaneSound, PlaneTypeOK, StoresOK,
     StoresTypeOK

\* A thread ends its request.
LEMMA EndOK ==
    ASSUME PlaneInv, StoresOK, NEW t \in Thread, End(t), AckedIsRecorded'
    PROVE  PlaneStepOK
BY IdleJob, JobMoves DEF End

\* A thread goes on with what it holds.
LEMMA GotoOK ==
    ASSUME PlaneInv, StoresOK, NEW t \in Thread, UNCHANGED acked,
           NEW pc \in {"stamp", "load", "put", "idem", "event", "dispatch"}, Goto(t, pc),
           \A l \in Job : l.pc = pc /\ l.req = job[t].req /\ l.seen = job[t].seen
                           => JobShape(l, task', exec', idem')
    PROVE  PlaneStepOK
<1> DEFINE l == [job[t] EXCEPT !.pc = pc]
<1>1. job' = [job EXCEPT ![t] = l]
  BY PlaneParts DEF Goto
<1>2. l \in Job /\ l.pc = pc /\ l.req = job[t].req /\ l.seen = job[t].seen
  BY PlaneParts DEF Job
<1>3. AckedIsRecorded'
  BY AckedStays DEF StoresOK
<1> HIDE DEF l
<1> QED
  BY <1>1, <1>2, <1>3, JobMoves

\* A thread goes on with what it has just seen.
LEMMA SeesOK ==
    ASSUME PlaneInv, StoresOK, NEW t \in Thread, UNCHANGED acked,
           NEW pc \in {"event", "read", "interrupt", "retry", "save"},
           NEW seen \in ExecutionRow \cup {Blank, Accepted},
           Sees(t, pc, seen),
           \A l \in Job : l.pc = pc /\ l.req = job[t].req /\ l.seen = seen
                           => JobShape(l, task', exec', idem')
    PROVE  PlaneStepOK
<1> DEFINE l == [job[t] EXCEPT !.pc = pc, !.seen = seen]
<1>1. job' = [job EXCEPT ![t] = l]
  BY PlaneParts DEF Sees
<1>2. l \in Job /\ l.pc = pc /\ l.req = job[t].req /\ l.seen = seen
  BY PlaneParts DEF Job
<1>3. AckedIsRecorded'
  BY AckedStays DEF StoresOK
<1> HIDE DEF l
<1> QED
  BY <1>1, <1>2, <1>3, JobMoves

-----------------------------------------------------------------------------
(* The stores.                                                             *)

\* Nothing is stored.
LEMMA StoresRest ==
    ASSUME PlaneInv, UNCHANGED <<task, exec, idem>>, working' \in {working, {}}, clock' \in Nat
    PROVE  StoresOK
<1>1. StoresGrow
  BY DEF StoresGrow
<1>2. (StoresTypeOK /\ RecordBacked /\ DoneIsDone /\ WorkingRuns)'
  BY PlaneParts DEF StoresTypeOK, RecordBacked, DoneIsDone, WorkingRuns, AtMostOne
<1> QED
  BY <1>1, <1>2 DEF StoresOK

\* The row of a task is written: a done one is not touched.
LEMMA TaskIsWritten ==
    ASSUME PlaneInv, NEW k \in Key, NEW row \in TaskRow, task' = [task EXCEPT ![k] = {row}],
           HasDone(task[k]) => row.status = "done",
           k \in working' => row.status = "running",
           working' \subseteq working \cup {k}, AtMostOne(working'),
           UNCHANGED <<exec, idem>>, clock' \in Nat
    PROVE  StoresOK
<1>0. StoresTypeOK /\ RecordBacked /\ DoneIsDone /\ WorkingRuns
  BY PlaneParts
<1>1. \A i \in Key : task'[i] = IF i = k THEN {row} ELSE task[i]
  BY <1>0 DEF StoresTypeOK
<1>2. StoresGrow
  BY <1>1 DEF StoresGrow, HasDone
<1>3. StoresTypeOK'
  BY <1>0, <1>1 DEF StoresTypeOK, AtMostOne
<1>4. RecordBacked'
  BY <1>0, <1>1 DEF RecordBacked
<1>5. DoneIsDone'
  BY <1>0, <1>2 DEF DoneIsDone, StoresGrow
<1>6. WorkingRuns'
  BY <1>0, <1>1 DEF WorkingRuns, StoresTypeOK
<1> QED
  BY <1>2, <1>3, <1>4, <1>5, <1>6 DEF StoresOK

\* An execution is written: it does not run ahead of its task.
LEMMA ExecutionIsWritten ==
    ASSUME PlaneInv, NEW k \in Key, NEW row \in ExecutionRow,
           exec' = [exec EXCEPT ![k] = {row}], row.status = "done" => HasDone(task[k]),
           UNCHANGED <<task, idem, working, clock>>
    PROVE  StoresOK
<1>0. StoresTypeOK /\ RecordBacked /\ DoneIsDone /\ WorkingRuns
  BY PlaneParts
<1>1. \A i \in Key : exec'[i] = IF i = k THEN {row} ELSE exec[i]
  BY <1>0 DEF StoresTypeOK
<1>2. StoresGrow
  BY <1>1 DEF StoresGrow
<1>3. StoresTypeOK'
  BY <1>0, <1>1 DEF StoresTypeOK, AtMostOne
<1>4. RecordBacked'
  BY <1>0, <1>1 DEF RecordBacked
<1>5. DoneIsDone'
  BY <1>0, <1>1 DEF DoneIsDone, HasDone
<1>6. WorkingRuns'
  BY <1>0 DEF WorkingRuns
<1> QED
  BY <1>2, <1>3, <1>4, <1>5, <1>6 DEF StoresOK

\* The body of a key is recorded: the first one, or the same again.
LEMMA BodyIsRecorded ==
    ASSUME PlaneInv, NEW k \in Key, NEW b \in Body, idem' = [idem EXCEPT ![k] = {b}],
           idem[k] \subseteq {b}, task[k] # {}, exec[k] # {},
           UNCHANGED <<task, exec, working, clock>>
    PROVE  StoresOK
<1>0. StoresTypeOK /\ RecordBacked /\ DoneIsDone /\ WorkingRuns
  BY PlaneParts
<1>1. \A i \in Key : idem'[i] = IF i = k THEN {b} ELSE idem[i]
  BY <1>0 DEF StoresTypeOK
<1>2. StoresGrow
  BY <1>1 DEF StoresGrow
<1>3. StoresTypeOK'
  BY <1>0, <1>1 DEF StoresTypeOK, AtMostOne
<1>4. RecordBacked'
  BY <1>0, <1>1 DEF RecordBacked
<1>5. DoneIsDone' /\ WorkingRuns'
  BY <1>0 DEF DoneIsDone, WorkingRuns
<1> QED
  BY <1>2, <1>3, <1>4, <1>5 DEF StoresOK

-----------------------------------------------------------------------------
(* publish_task.                                                           *)

\* The step that a thread is at, and its request.
LEMMA Busy ==
    ASSUME PlaneInv, NEW t \in Thread, job[t].pc # "idle"
    PROVE  /\ job[t] \in Job /\ JobShape(job[t], task, exec, idem)
           /\ Req(t) \in Request /\ Req(t).key \in Key /\ Req(t).body \in Body
           /\ Req(t).op \in {"publish", "get", "cancel", "retry"}
<1>1. job[t] \in Job /\ JobShape(job[t], task, exec, idem)
  BY PlaneParts
<1>2. job[t].req \in Request
  BY <1>1 DEF JobShape
<1> QED
  BY <1>1, <1>2, RequestParts DEF Req

\* A request comes in.
LEMMA SendOK ==
    ASSUME PlaneInv, NEW t \in Thread, NEW r \in Request, Send(t, r)
    PROVE  PlaneStepOK
<1> DEFINE l == [pc |-> IF r.op = "publish" THEN "lookup" ELSE "load",
                 req |-> r, now |-> None, seen |-> Blank]
<1>1. StoresOK
  BY StoresRest, PlaneParts DEF Send, stores, StoresTypeOK
<1>2. /\ l \in Job /\ l.pc \in {"lookup", "load"} /\ l.req = r
      /\ l.pc = "load" <=> r.op # "publish"
  BY DEF Job, None
<1>3. job' = [job EXCEPT ![t] = l]
  BY DEF Send
<1> HIDE DEF l
<1>4. JobShape(l, task', exec', idem')
  BY <1>2 DEF JobShape
<1>5. AckedIsRecorded'
  BY <1>1, AckedStays DEF Send, StoresOK
<1> QED
  BY <1>1, <1>2, <1>3, <1>4, <1>5, JobMoves

\* It looks its key up.
LEMMA LookupOK ==
    ASSUME PlaneInv, NEW t \in Thread, Lookup(t)
    PROVE  PlaneStepOK
<1>0. /\ StoresOK /\ UNCHANGED <<task, exec, idem, acked>> /\ job[t].pc = "lookup"
      /\ job[t] \in Job /\ JobShape(job[t], task, exec, idem) /\ AckedIsRecorded'
  BY StoresRest, PlaneParts, AckedStays DEF Lookup, At, stores, StoresTypeOK, StoresOK
<1>1. CASE End(t)
  BY <1>0, <1>1, EndOK
<1>2. CASE Goto(t, "stamp")
  <2>1. \A l \in Job : l.pc = "stamp" /\ l.req = job[t].req => JobShape(l, task', exec', idem')
    BY <1>0 DEF JobShape
  <2> QED
    BY <1>0, <1>2, <2>1, GotoOK
<1>3. CASE idem[Req(t).key] = {Req(t).body} /\ Goto(t, "load")
  <2>1. \A l \in Job : l.pc = "load" /\ l.req = job[t].req => JobShape(l, task', exec', idem')
    BY <1>0, <1>3 DEF JobShape, Req
  <2> QED
    BY <1>0, <1>3, <2>1, GotoOK
<1> QED
  BY <1>1, <1>2, <1>3 DEF Lookup

\* It takes the time.
LEMMA StampOK ==
    ASSUME PlaneInv, NEW t \in Thread, Stamp(t)
    PROVE  PlaneStepOK
<1> DEFINE l == [job[t] EXCEPT !.pc = "bus", !.now = Now]
<1>0. /\ clock \in Nat /\ job[t].pc = "stamp" /\ UNCHANGED <<task, exec, idem, working, acked>>
      /\ job[t] \in Job /\ JobShape(job[t], task, exec, idem)
  BY PlaneParts DEF Stamp, At, stores, StoresTypeOK
<1>1. StoresOK
  BY <1>0, StoresRest DEF Stamp, Now
<1>2. job' = [job EXCEPT ![t] = l]
  BY PlaneParts DEF Stamp
<1>a. Now \in Nat
  BY <1>0 DEF Now
<1>3. l \in Job /\ l.pc = "bus" /\ l.req = job[t].req
  BY <1>0, <1>a DEF Job
<1> HIDE DEF l
<1>4. JobShape(l, task', exec', idem')
  BY <1>0, <1>3 DEF JobShape
<1>5. AckedIsRecorded'
  BY <1>0, <1>1, AckedStays DEF StoresOK
<1> QED
  BY <1>1, <1>2, <1>3, <1>4, <1>5, JobMoves

\* It publishes the task, or finds it published.
LEMMA BusPublishOK ==
    ASSUME PlaneInv, NEW t \in Thread, BusPublish(t)
    PROVE  PlaneStepOK
<1> DEFINE k == Req(t).key
           row == [status |-> "pending", started |-> None, completed |-> None,
                   body |-> Req(t).body, interrupt |-> FALSE]
<1>0. /\ UNCHANGED <<exec, idem, working, acked, clock>> /\ job[t].pc = "bus" /\ Goto(t, "put")
      /\ job[t] \in Job /\ JobShape(job[t], task, exec, idem) /\ k \in Key
      /\ clock \in Nat /\ AtMostOne(working) /\ row \in TaskRow
  BY Busy, PlaneParts DEF BusPublish, At, StoresTypeOK, TaskRow, TaskStatus, None
<1>1. StoresOK /\ task'[k] # {}
  <2>1. CASE task[k] # {}
    <3>1. task' = task
      BY <1>0, <2>1, PlaneParts DEF BusPublish, StoresTypeOK
    <3> QED
      BY <1>0, <2>1, <3>1, StoresRest
  <2>2. CASE task[k] = {}
    <3>1. task' = [task EXCEPT ![k] = {row}]
      BY <2>2 DEF BusPublish
    <3>2. k \notin working /\ ~HasDone(task[k])
      BY <2>2, PlaneParts DEF WorkingRuns, HasDone
    <3> QED
      BY <1>0, <3>1, <3>2, TaskIsWritten, PlaneParts DEF StoresTypeOK
  <2> QED
    BY <2>1, <2>2
<1>2. \A l \in Job : l.pc = "put" /\ l.req = job[t].req => JobShape(l, task', exec', idem')
  BY <1>0, <1>1 DEF JobShape, Req
<1> QED
  BY <1>0, <1>1, <1>2, GotoOK

\* It writes the execution, as pending.
LEMMA PutExecutionOK ==
    ASSUME PlaneInv, NEW t \in Thread, PutExecution(t)
    PROVE  PlaneStepOK
<1> DEFINE k == Req(t).key
           row == [status |-> "pending", created |-> job[t].now, updated |-> job[t].now,
                   completed |-> None, body |-> Req(t).body]
<1>0. /\ UNCHANGED <<task, idem, working, acked, clock>> /\ job[t].pc = "put" /\ Goto(t, "idem")
      /\ job[t] \in Job /\ JobShape(job[t], task, exec, idem) /\ k \in Key
      /\ Req(t).body \in Body /\ exec' = [exec EXCEPT ![k] = {row}]
  BY Busy DEF PutExecution, At
<1>1. row \in ExecutionRow /\ row.status = "pending"
  BY <1>0 DEF ExecutionRow, TaskStatus, None, Job
<1>2. StoresOK
  <2> HIDE DEF row
  <2> QED
    BY <1>0, <1>1, ExecutionIsWritten
<1>3. exec'[k] # {}
  BY <1>0, PlaneParts DEF StoresTypeOK
<1>4. \A l \in Job : l.pc = "idem" /\ l.req = job[t].req => JobShape(l, task', exec', idem')
  BY <1>0, <1>3 DEF JobShape, Req
<1> QED
  BY <1>0, <1>2, <1>4, GotoOK

\* It records its body, or finds another one.
LEMMA PutIdempotencyOK ==
    ASSUME PlaneInv, NEW t \in Thread, PutIdempotency(t)
    PROVE  PlaneStepOK
<1> DEFINE k == Req(t).key
           b == Req(t).body
<1>0. /\ UNCHANGED <<task, exec, working, acked, clock>> /\ job[t].pc = "idem"
      /\ job[t] \in Job /\ JobShape(job[t], task, exec, idem) /\ k \in Key /\ b \in Body
      /\ clock \in Nat
  BY Busy, PlaneParts DEF PutIdempotency, At, StoresTypeOK
<1>1. CASE End(t) /\ UNCHANGED idem
  <2>1. StoresOK
    BY <1>0, <1>1, StoresRest
  <2> QED
    BY <1>0, <1>1, <2>1, EndOK, AckedStays DEF StoresOK
<1>2. CASE /\ idem[k] \subseteq {b} /\ idem' = [idem EXCEPT ![k] = {b}]
           /\ Sees(t, "event", Accepted)
  <2>1. task[k] # {} /\ exec[k] # {}
    BY <1>0 DEF JobShape, Req
  <2>2. StoresOK
    BY <1>0, <1>2, <2>1, BodyIsRecorded
  <2>3. idem'[k] = {b}
    BY <1>0, <1>2, PlaneParts DEF StoresTypeOK
  <2>4. \A l \in Job : l.pc = "event" /\ l.req = job[t].req => JobShape(l, task', exec', idem')
    BY <1>0, <2>3 DEF JobShape, Req
  <2> QED
    BY <1>0, <1>2, <2>2, <2>4, SeesOK
<1> QED
  BY <1>1, <1>2 DEF PutIdempotency

\* A publish goes on to its dispatch; anything else is answered.
LEMMA AnswerOK ==
    ASSUME PlaneInv, StoresOK, NEW t \in Thread, UNCHANGED acked, Answer(t), job[t].pc # "idle",
           Req(t).op = "publish" => idem'[Req(t).key] = {Req(t).body}
    PROVE  PlaneStepOK
<1>0. job[t] \in Job /\ Req(t) \in Request
  BY Busy
<1>1. CASE End(t)
  BY <1>1, EndOK, AckedStays DEF StoresOK
<1>2. CASE Req(t).op = "publish" /\ Goto(t, "dispatch")
  <2>1. \A l \in Job : l.pc = "dispatch" /\ l.req = job[t].req => JobShape(l, task', exec', idem')
    BY <1>0, <1>2 DEF JobShape, Req
  <2> QED
    BY <1>2, <2>1, GotoOK
<1> QED
  BY <1>1, <1>2 DEF Answer

\* It appends the event.
LEMMA AppendEventOK ==
    ASSUME PlaneInv, NEW t \in Thread, AppendEvent(t)
    PROVE  PlaneStepOK
<1>0. /\ UNCHANGED <<task, exec, idem, working, acked, clock>> /\ job[t].pc = "event"
      /\ JobShape(job[t], task, exec, idem) /\ clock \in Nat /\ Answer(t)
  BY PlaneParts DEF AppendEvent, At, StoresTypeOK
<1>1. StoresOK
  BY <1>0, StoresRest
<1>2. Req(t).op = "publish" => idem'[Req(t).key] = {Req(t).body}
  BY <1>0 DEF JobShape, Req
<1> QED
  BY <1>0, <1>1, <1>2, AnswerOK

\* It is answered, with its dispatch requested.
LEMMA RequestDispatchOK ==
    ASSUME PlaneInv, NEW t \in Thread, RequestDispatch(t)
    PROVE  PlaneStepOK
<1>0. /\ UNCHANGED <<task, exec, idem, working, clock>> /\ job[t].pc = "dispatch" /\ End(t)
      /\ JobShape(job[t], task, exec, idem) /\ clock \in Nat /\ AckedIsRecorded
      /\ acked' = acked \cup {<<Req(t).key, Req(t).body>>}
  BY PlaneParts DEF RequestDispatch, At, StoresTypeOK, stores
<1>1. StoresOK
  BY <1>0, StoresRest
<1>2. idem[Req(t).key] = {Req(t).body}
  BY <1>0 DEF JobShape, Req
<1>3. AckedIsRecorded'
  BY <1>0, <1>2 DEF AckedIsRecorded
<1> QED
  BY <1>0, <1>1, <1>3, EndOK

-----------------------------------------------------------------------------
(* get_task, cancel_task, retry_task and the replay of a publish.          *)

\* It reads the stored execution.
LEMMA LoadExecutionOK ==
    ASSUME PlaneInv, NEW t \in Thread, LoadExecution(t)
    PROVE  PlaneStepOK
<1> DEFINE k == Req(t).key
           next == [publish |-> "read", get |-> "read", cancel |-> "interrupt", retry |-> "retry"]
<1>0. /\ UNCHANGED <<task, exec, idem, working, acked, clock>> /\ job[t].pc = "load"
      /\ job[t] \in Job /\ JobShape(job[t], task, exec, idem) /\ clock \in Nat /\ k \in Key
      /\ Req(t).op \in {"publish", "get", "cancel", "retry"}
  BY Busy, PlaneParts DEF LoadExecution, At, StoresTypeOK, stores
<1>1. StoresOK
  BY <1>0, StoresRest
<1>2. CASE End(t)
  BY <1>0, <1>1, <1>2, EndOK, AckedStays DEF StoresOK
<1>3. ASSUME NEW e \in exec[k], NEW pc \in {"read", "interrupt", "retry"},
             pc = next[Req(t).op], Sees(t, pc, e)
      PROVE  PlaneStepOK
  <2>1. /\ e \in ExecutionRow
        /\ e.status = "done" => HasDone(task[k])
    BY <1>0, PlaneParts DEF StoresTypeOK, DoneIsDone, HasDone
  <2>2. /\ pc = "interrupt" => Req(t).op = "cancel"
        /\ pc = "retry" => Req(t).op = "retry"
    BY <1>0, <1>3
  <2>3. \A l \in Job : l.pc = pc /\ l.req = job[t].req /\ l.seen = e
                       => JobShape(l, task', exec', idem')
    BY <1>0, <2>1, <2>2 DEF JobShape, Req
  <2>4. /\ pc \in {"event", "read", "interrupt", "retry", "save"}
        /\ e \in ExecutionRow \cup {Blank, Accepted} /\ UNCHANGED acked
    BY <1>0, <2>1
  <2> QED
    BY <1>1, <1>3, <2>3, <2>4, SeesOK
<1>4. next[Req(t).op] \in {"read", "interrupt", "retry"}
  BY <1>0
<1> QED
  BY <1>2, <1>3, <1>4 DEF LoadExecution

\* The execution of a task has the status of the task.
LEMMA FromTaskOK ==
    ASSUME NEW e \in ExecutionRow, NEW x \in TaskRow
    PROVE  FromTask(e, x) \in ExecutionRow /\ FromTask(e, x).status = x.status
BY DEF FromTask, ExecutionRow, TaskRow, None

\* It reads the task, and stores what has changed.
LEMMA ReadTaskOK ==
    ASSUME PlaneInv, NEW t \in Thread, ReadTask(t)
    PROVE  PlaneStepOK
<1> DEFINE k == Req(t).key
<1>0. /\ UNCHANGED <<task, exec, idem, working, acked, clock>> /\ job[t].pc = "read"
      /\ job[t] \in Job /\ JobShape(job[t], task, exec, idem) /\ clock \in Nat /\ k \in Key
      /\ Req(t) \in Request
  BY Busy, PlaneParts DEF ReadTask, At, StoresTypeOK, stores
<1>1. StoresOK
  BY <1>0, StoresRest
<1>2. CASE Answer(t)
  <2>1. Req(t).op = "publish" => idem'[k] = {Req(t).body}
    BY <1>0 DEF JobShape, Req
  <2> QED
    BY <1>0, <1>1, <1>2, <2>1, AnswerOK
<1>3. ASSUME NEW x \in task[k], NEW updated, updated = FromTask(job[t].seen, x),
             Sees(t, "save", updated)
      PROVE  PlaneStepOK
  <2>1. x \in TaskRow /\ job[t].seen \in ExecutionRow
    BY <1>0, PlaneParts DEF StoresTypeOK, JobShape
  <2>2. updated \in ExecutionRow /\ updated.status = x.status
    BY <1>3, <2>1, FromTaskOK
  <2>3. \A l \in Job : l.pc = "save" /\ l.req = job[t].req /\ l.seen = updated
                       => JobShape(l, task', exec', idem')
    BY <1>0, <2>2 DEF JobShape, Req, HasDone
  <2>4. updated \in ExecutionRow \cup {Blank, Accepted} /\ UNCHANGED acked
    BY <1>0, <2>2
  <2> QED
    BY <1>1, <1>3, <2>3, <2>4, SeesOK
<1> QED
  BY <1>2, <1>3 DEF ReadTask

\* The rows a command leaves behind.
LEMMA CommandRows ==
    ASSUME NEW x \in TaskRow, Now \in Nat
    PROVE  /\ Interrupted(x) \in TaskRow /\ Retried(x) \in TaskRow
           /\ Interrupted(x).status \in {x.status, "failed"}
           /\ x.status = "running" => Interrupted(x).status = "running"
           /\ Retried(x).status = "pending"
BY DEF Interrupted, Retried, TaskRow, TaskStatus, None

\* A command changes a row that is not done.
LEMMA CommandOK ==
    ASSUME PlaneInv, NEW t \in Thread, clock' \in Nat,
           \/ job[t].pc = "interrupt" /\ Command(t, {"pending", "running"})
           \/ job[t].pc = "retry" /\ Command(t, {"failed"})
    PROVE  PlaneStepOK
<1> DEFINE k == Req(t).key
<1>0. /\ UNCHANGED <<exec, idem, working, acked>> /\ Now \in Nat
      /\ job[t] \in Job /\ JobShape(job[t], task, exec, idem) /\ k \in Key
      /\ Req(t) \in Request /\ job[t].seen \in ExecutionRow
      /\ job[t].pc = "interrupt" => Req(t).op = "cancel"
      /\ job[t].pc = "retry" => Req(t).op = "retry"
  <2>1. clock \in Nat /\ UNCHANGED <<exec, idem, working, acked>>
    BY PlaneParts DEF Command, StoresTypeOK
  <2>2. /\ job[t] \in Job /\ JobShape(job[t], task, exec, idem) /\ k \in Key /\ Req(t) \in Request
    BY Busy
  <2>3. Now \in Nat
    BY <2>1 DEF Now
  <2> QED
    BY <2>1, <2>2, <2>3 DEF JobShape, Req
<1>1. CASE End(t) /\ UNCHANGED task
  <2>1. StoresOK
    BY <1>0, <1>1, StoresRest
  <2> QED
    BY <1>0, <1>1, <2>1, EndOK, AckedStays DEF StoresOK
<1>2. ASSUME NEW x \in task[k], NEW y,
             y = IF Req(t).op = "cancel" THEN Interrupted(x) ELSE Retried(x),
             \/ Req(t).op = "cancel" /\ x.status \in {"pending", "running"}
             \/ Req(t).op = "retry" /\ x.status \in {"failed"},
             task' = [task EXCEPT ![k] = {y}],
             Sees(t, "save", FromTask(job[t].seen, y))
      PROVE  PlaneStepOK
  <2>1. x \in TaskRow /\ task[k] = {x} /\ AtMostOne(working)
    BY <1>0, PlaneParts DEF StoresTypeOK, AtMostOne
  <2>2. y \in TaskRow /\ y.status # "done" /\ (x.status = "running" => y.status = "running")
    BY <1>0, <1>2, <2>1, CommandRows
  <2>3. ~HasDone(task[k]) /\ (k \in working => x.status = "running")
    BY <1>2, <2>1, PlaneParts DEF HasDone, WorkingRuns
  <2>4. StoresOK
    BY <1>0, <1>2, <2>1, <2>2, <2>3, TaskIsWritten
  <2>5. PICK updated : updated = FromTask(job[t].seen, y)
    OBVIOUS
  <2>6. updated \in ExecutionRow /\ updated.status = y.status
    BY <1>0, <2>2, <2>5, FromTaskOK
  <2>7. \A l \in Job : l.pc = "save" /\ l.req = job[t].req /\ l.seen = updated
                       => JobShape(l, task', exec', idem')
    BY <1>0, <1>2, <2>2, <2>6 DEF JobShape, Req
  <2>8. /\ updated \in ExecutionRow \cup {Blank, Accepted} /\ UNCHANGED acked
        /\ Sees(t, "save", updated)
    BY <1>0, <1>2, <2>5, <2>6
  <2> QED
    BY <2>4, <2>7, <2>8, SeesOK
<1> QED
  BY <1>0, <1>1, <1>2 DEF Command

\* It stores the execution: cancel and retry append an event then.
LEMMA SaveExecutionOK ==
    ASSUME PlaneInv, NEW t \in Thread, SaveExecution(t)
    PROVE  PlaneStepOK
<1> DEFINE k == Req(t).key
<1>0. /\ UNCHANGED <<task, idem, working, acked, clock>> /\ job[t].pc = "save"
      /\ job[t] \in Job /\ JobShape(job[t], task, exec, idem) /\ k \in Key
      /\ Req(t) \in Request
  BY Busy DEF SaveExecution, At
<1>1. PICK row : row = job[t].seen
  OBVIOUS
<1>2. /\ row \in ExecutionRow /\ exec' = [exec EXCEPT ![k] = {row}]
      /\ row.status = "done" => HasDone(task[k])
  BY <1>0, <1>1 DEF JobShape, SaveExecution, Req
<1>3. StoresOK
  BY <1>0, <1>2, ExecutionIsWritten
<1>4. Req(t).op = "publish" => idem'[k] = {Req(t).body}
  BY <1>0 DEF JobShape, Req
<1>5. CASE Answer(t)
  BY <1>0, <1>3, <1>4, <1>5, AnswerOK
<1>6. CASE Goto(t, "event")
  <2>1. \A l \in Job : l.pc = "event" /\ l.req = job[t].req => JobShape(l, task', exec', idem')
    BY <1>0, <1>4 DEF JobShape, Req
  <2> QED
    BY <1>0, <1>3, <1>6, <2>1, GotoOK
<1> QED
  BY <1>5, <1>6 DEF SaveExecution

-----------------------------------------------------------------------------
(* The executor and the process.                                           *)

\* The executor starts a pending task.
LEMMA StartTaskOK ==
    ASSUME PlaneInv, NEW k \in Key, StartTask(k)
    PROVE  PlaneStepOK
<1>0. /\ UNCHANGED <<exec, idem, job, acked>> /\ working = {} /\ working' = {k}
      /\ clock \in Nat /\ clock' = Now /\ task \in [Key -> SUBSET TaskRow]
      /\ task' = [task EXCEPT ![k] =
                    {[x EXCEPT !.status = "running", !.started = Now] : x \in task[k]}]
  BY PlaneParts DEF StartTask, StoresTypeOK
<1>1. PICK x \in task[k] : x.status = "pending"
  BY DEF StartTask, Pending
<1>2. task[k] = {x} /\ x \in TaskRow
  <2>1. AtMostOne(task[k]) /\ task[k] \subseteq TaskRow
    BY PlaneParts DEF StoresTypeOK
  <2> QED
    BY <1>1, <2>1 DEF AtMostOne
<1>3. Now \in Nat
  <2>1. clock \in Nat
    BY <1>0
  <2> QED
    BY <2>1 DEF Now
<1>4. PICK row : row = [x EXCEPT !.status = "running", !.started = Now]
  OBVIOUS
<1>5. row \in TaskRow /\ row.status = "running"
  BY <1>2, <1>3, <1>4 DEF TaskRow, TaskStatus
<1>6. task' = [task EXCEPT ![k] = {row}]
  <2>1. {[y EXCEPT !.status = "running", !.started = Now] : y \in task[k]} = {row}
    BY <1>2, <1>4
  <2> QED
    BY <1>0, <1>2, <2>1
<1>7. ~HasDone(task[k]) /\ AtMostOne(working')
  BY <1>0, <1>1, <1>2 DEF HasDone, AtMostOne
<1>8. StoresOK
  BY <1>0, <1>3, <1>5, <1>6, <1>7, TaskIsWritten
<1> QED
  BY <1>0, <1>8, JobsRest

\* The task it works on ends.
LEMMA FinishTaskOK ==
    ASSUME PlaneInv, NEW k \in Key, NEW status \in {"done", "failed"}, FinishTask(k, status)
    PROVE  PlaneStepOK
<1>0. /\ UNCHANGED <<exec, idem, job, acked>> /\ k \in working /\ working' = {}
      /\ clock \in Nat /\ clock' = Now /\ task \in [Key -> SUBSET TaskRow]
      /\ task' = [task EXCEPT ![k] =
                    {[x EXCEPT !.status = status, !.completed = Now] : x \in task[k]}]
  BY PlaneParts DEF FinishTask, StoresTypeOK
<1>1. PICK x \in task[k] : x.status = "running"
  BY <1>0, PlaneParts DEF WorkingRuns
<1>2. task[k] = {x} /\ x \in TaskRow
  <2>1. AtMostOne(task[k]) /\ task[k] \subseteq TaskRow
    BY PlaneParts DEF StoresTypeOK
  <2> QED
    BY <1>1, <2>1 DEF AtMostOne
<1>3. Now \in Nat
  <2>1. clock \in Nat
    BY <1>0
  <2> QED
    BY <2>1 DEF Now
<1>4. PICK row : row = [x EXCEPT !.status = status, !.completed = Now]
  OBVIOUS
<1>5. row \in TaskRow
  BY <1>2, <1>3, <1>4 DEF TaskRow, TaskStatus
<1>6. task' = [task EXCEPT ![k] = {row}]
  BY <1>0, <1>2, <1>4
<1>7. ~HasDone(task[k]) /\ AtMostOne(working')
  BY <1>0, <1>1, <1>2 DEF HasDone, AtMostOne
<1>8. StoresOK
  BY <1>0, <1>3, <1>5, <1>6, <1>7, TaskIsWritten
<1> QED
  BY <1>0, <1>8, JobsRest

\* A crash leaves the stores as they are and forgets every request.
LEMMA CrashOK ==
    ASSUME PlaneInv, Crash
    PROVE  PlaneStepOK
<1>1. StoresOK
  BY StoresRest, PlaneParts DEF Crash, stores, StoresTypeOK
<1>2. \A t \in Thread : job'[t] \in Job /\ JobShape(job'[t], task', exec', idem')
  BY IdleJob DEF Crash
<1>3. job' \in [Thread -> Job] /\ AckedIsRecorded'
  BY <1>1, IdleJob, AckedStays DEF Crash, StoresOK
<1> QED
  BY <1>1, <1>2, <1>3 DEF PlaneStepOK, PlaneInv, PlaneSound, PlaneTypeOK, StoresOK,
     StoresTypeOK

-----------------------------------------------------------------------------
(* The theorems.                                                           *)

\* Every step keeps the invariant.
LEMMA PlaneNextOK ==
    ASSUME PlaneInv, [PlaneNext]_planeVars
    PROVE  PlaneStepOK
<1>0. clock \in Nat /\ Now \in Nat
  BY PlaneParts DEF StoresTypeOK, Now
<1>1. ASSUME NEW t \in Thread, Step(t) PROVE PlaneStepOK
  <2>1. CASE CancelTask(t) \/ RetryTask(t)
    BY <1>0, <2>1, CommandOK DEF CancelTask, RetryTask, At
  <2> QED
    BY <1>1, <2>1, LookupOK, StampOK, BusPublishOK, PutExecutionOK, PutIdempotencyOK,
       AppendEventOK, RequestDispatchOK, LoadExecutionOK, ReadTaskOK, SaveExecutionOK DEF Step
<1>2. ASSUME NEW t \in Thread, NEW r \in Request, Send(t, r) PROVE PlaneStepOK
  BY <1>2, SendOK
<1>3. ASSUME NEW k \in Key, StartTask(k) \/ FinishTask(k, "done") \/ FinishTask(k, "failed")
      PROVE  PlaneStepOK
  BY <1>3, StartTaskOK, FinishTaskOK
<1>4. CASE SettleDispatch \/ UNCHANGED planeVars
  <2>1. UNCHANGED <<task, exec, idem, working, clock, job, acked>>
    BY <1>4 DEF SettleDispatch, planeVars, stores
  <2> QED
    BY <1>0, <2>1, StoresRest, JobsRest
<1>5. CASE Crash
  BY <1>5, CrashOK
<1> QED
  BY <1>1, <1>2, <1>3, <1>4, <1>5 DEF PlaneNext, Execute

\* Empty stores satisfy it.
LEMMA PlaneInitOK == PlaneInit => PlaneInv
<1> SUFFICES ASSUME PlaneInit PROVE PlaneInv
  OBVIOUS
<1>1. /\ \A k \in Key : task[k] = {} /\ exec[k] = {} /\ idem[k] = {}
      /\ \A t \in Thread : job[t] = Idle
      /\ working = {} /\ acked = {} /\ clock = 0
  BY DEF PlaneInit
<1>2. PlaneTypeOK
  BY <1>1, IdleJob DEF PlaneTypeOK, PlaneInit, AtMostOne
<1>3. RecordBacked /\ AckedIsRecorded /\ DoneIsDone /\ WorkingRuns
  BY <1>1 DEF RecordBacked, AckedIsRecorded, DoneIsDone, WorkingRuns, HasDone
<1> QED
  BY <1>1, <1>2, <1>3, IdleJob DEF PlaneInv, PlaneSound

\* The inductive invariant: the stores agree, and what every request thread
\* holds of them is true.
THEOREM PlaneInvariant == PlaneSpec => []PlaneInv
<1>1. PlaneInv /\ [PlaneNext]_planeVars => PlaneInv'
  BY PlaneNextOK DEF PlaneStepOK
<1> QED
  BY <1>1, PlaneInitOK, PTL DEF PlaneSpec

\* A recorded key leads to its task and its execution, a publish is accepted
\* only with the recorded body, and no execution is done before its task:
\* publish_task, cancel_task and retry_task overlapping in any way, and a
\* crash between any two of their writes.
THEOREM PlaneIsSound == PlaneSpec => []PlaneSound
<1>1. PlaneInv => PlaneSound
  BY DEF PlaneInv
<1> QED
  BY <1>1, PlaneInvariant, PTL

\* The stores never forget: a task or an execution stays, the body a key was
\* accepted with stays, and a done task stays done.
THEOREM PlaneNeverForgets == PlaneSpec => [][StoresGrow]_planeVars
<1>1. PlaneInv /\ [PlaneNext]_planeVars => [StoresGrow]_planeVars
  BY PlaneNextOK DEF PlaneStepOK
<1> QED
  BY <1>1, PlaneInvariant, PTL DEF PlaneSpec
=============================================================================
