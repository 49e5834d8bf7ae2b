-------------------------- MODULE ExecutionSystem --------------------------
(***************************************************************************)
(* Fixed-route execution as the sidecar assembles it: the TaskBus, the ASK *)
(* store and the confirmation messages (durable), the dispatcher with its  *)
(* worker running agent ticks, and the HTTP handler threads that carry out *)
(* user commands and snapshot reads (volatile).                            *)
(*                                                                         *)
(* No transaction spans two stores, so a handler or tool that writes to    *)
(* two of them does it in two steps and anything may happen in between:    *)
(* another handler, the worker, or a crash of the process.                 *)
(***************************************************************************)
EXTENDS TaskBus, Sequences

CONSTANTS
    Thread, NoThread, NoSession, MaxTicks,               \* Dispatcher
    Answer, InvalidAnswer, AskKey, NoAnswer, NoKey,      \* AskStore
    Handler,      \* HTTP handler threads (ThreadingHTTPServer)
    MaxSteps,     \* bound: tool calls of a run (at most max_steps replies of finitely many)
    MaxCommands,  \* bound: commands the user issues
    MaxCrashes    \* bound: crashes of the sidecar process

ASSUME BoundsAssumption ==
    /\ MaxSteps \in Nat \ {0}
    /\ MaxCommands \in Nat /\ MaxCrashes \in Nat

\* What Dispatcher and AskStore assume of the constants they share, and that
\* there is a capability to route to and an answer to give.
ASSUME PartsAssumption ==
    /\ NoThread \notin Thread /\ NoSession \notin Session
    /\ MaxTicks \in Nat \ {0}
    /\ InvalidAnswer \subseteq Answer
    /\ NoAnswer \notin Answer /\ NoKey \notin AskKey
    /\ Capability # {} /\ Answer # {}

VARIABLES
    ask, memo,                                                        \* AskStore
    queue, pendingIds, runningIds, closed, worker, pc, current, ticks, \* Dispatcher
    conf,      \* actionable messages and the number of responses to each
    tick,      \* [Thread -> the locals of FixedRouteTaskExecutor.tick]
    handler,   \* [Handler -> the locals of the handler thread]
    graceOver, \* tasks whose stop request is older than the grace period
    startup,   \* sessions the startup scan has still to visit
    orphans,   \* tasks that were running when the process crashed
    commands, crashes

INSTANCE Dispatcher
INSTANCE AskStore

boundVars == <<commands, crashes>>

askStoreVars == <<ask, memo>>

dispatchVars == <<queue, pendingIds, runningIds, closed, worker, pc, current, ticks>>

systemVars == <<task, ask, memo, queue, pendingIds, runningIds, closed, worker, pc,
                current, ticks, conf, tick, handler, graceOver, startup,
                orphans, commands, crashes>>

TickStep == {"select", "claim", "safe_point", "act", "ask_wait", "confirm_wait",
             "complete", "fail", "wait_check"}

HandlerStep == {"idle", "dispatch", "resume", "check_waiting", "fail_waiting",
                "respond", "resume_confirmed", "recover_asks", "resume_recovered",
                "dispatch_recovered", "recover_stops"}

IdleTick == [step |-> "select", task |-> NoTask, cap |-> CHOOSE c \in Capability : TRUE,
             ask |-> NoAsk, conf |-> NoConfirmation, steps |-> 0, error |-> "none"]

IdleHandler == [step |-> "idle", session |-> NoSession, task |-> NoTask, ask |-> NoAsk,
                conf |-> NoConfirmation, asks |-> {}, stops |-> {}]

TickRecord ==
    [step : TickStep, task : Task \cup {NoTask}, cap : Capability, ask : Ask \cup {NoAsk},
     conf : Confirmation \cup {NoConfirmation}, steps : 0 .. MaxSteps, error : ErrorRef]

HandlerRecord ==
    [step : HandlerStep, session : Session \cup {NoSession}, task : Task \cup {NoTask},
     ask : Ask \cup {NoAsk}, conf : Confirmation \cup {NoConfirmation},
     asks : SUBSET Ask, stops : SUBSET Task]

SystemTypeOK ==
    /\ BusTypeOK /\ AskTypeOK /\ DispatcherTypeOK
    /\ conf \in [Confirmation -> [task : Task \cup {NoTask}, responses : Nat]]
    /\ tick \in [Thread -> TickRecord]
    /\ handler \in [Handler -> HandlerRecord]
    /\ graceOver \subseteq Task
    /\ startup \subseteq Session
    /\ orphans \subseteq Task
    /\ commands \in 0 .. MaxCommands
    /\ crashes \in 0 .. MaxCrashes

SystemInit ==
    /\ BusInit /\ AskInit /\ DispatcherInit
    /\ conf = [c \in Confirmation |-> [task |-> NoTask, responses |-> 0]]
    /\ tick = [w \in Thread |-> IdleTick]
    /\ handler = [h \in Handler |-> IdleHandler]
    /\ graceOver = {}
    /\ startup = {}
    /\ orphans = {}
    /\ commands = 0
    /\ crashes = 0

Serving == startup = {}

\* A crash orphan stops being one when its row leaves `running`.
SettleOrphans == orphans' = {t \in orphans : task'[t].status = "running"}

-----------------------------------------------------------------------------
(* FixedRouteTaskExecutor.tick on worker w, and the agent run inside it.   *)

InTick(w, step) == Serving /\ pc[w] = "draining" /\ tick[w].step = step

GoTo(w, step) == tick' = [tick EXCEPT ![w].step = step]

EndTick(w, outcome) ==
    /\ TickEnds(w, outcome)
    /\ tick' = [tick EXCEPT ![w] = IdleTick]

TickUnchanged == UNCHANGED <<conf, handler, graceOver, startup, boundVars>>

\* _select_next_eligible_pending_task: any capability.
TickSelect(w) ==
    /\ InTick(w, "select")
    /\ IF Eligible(current[w]) = {}
       THEN EndTick(w, "stopped")
       ELSE \E t \in Eligible(current[w]) :
                /\ \A u \in Eligible(current[w]) : Rank[t] <= Rank[u]
                /\ tick' = [tick EXCEPT ![w] = [@ EXCEPT !.step = "claim", !.cap = CapabilityOf[t]]]
                /\ UNCHANGED dispatchVars
    /\ UNCHANGED <<task, askStoreVars, orphans>> /\ TickUnchanged

\* The candidate may be gone, or another task of the capability may be first.
TickClaim(w) ==
    /\ InTick(w, "claim")
    /\ IF Claimable(current[w], tick[w].cap) = {}
       THEN EndTick(w, "stopped") /\ UNCHANGED task
       ELSE \E t \in Task, agent \in Agent :
                /\ IsNext(t, current[w], tick[w].cap)
                /\ ClaimTask(t, agent)
                /\ tick' = [tick EXCEPT ![w] = [@ EXCEPT !.step = "safe_point", !.task = t]]
                /\ UNCHANGED dispatchVars
    /\ SettleOrphans
    /\ UNCHANGED askStoreVars /\ TickUnchanged

\* Faulty: the run ends at the safe point without settling the row.
SafePointForgets(w) ==
    /\ InTick(w, "safe_point")
    /\ IF InterruptedRunning(tick[w].task)
       THEN EndTick(w, "stopped")
       ELSE GoTo(w, "act") /\ UNCHANGED dispatchVars
    /\ UNCHANGED <<task, askStoreVars, orphans>> /\ TickUnchanged

\* AgentLoop._check_interrupt with the TaskBus interrupt checker: the intent is
\* seen only while the row is running.
SafePoint(w) ==
    /\ InTick(w, "safe_point")
    /\ tick' = [tick EXCEPT ![w] =
                    IF InterruptedRunning(tick[w].task)
                    THEN [@ EXCEPT !.step = "fail", !.error = "cancelled"]
                    ELSE [@ EXCEPT !.step = "act"]]
    /\ UNCHANGED <<task, askStoreVars, dispatchVars, orphans>> /\ TickUnchanged

\* After a tool that does not block: the next safe point, or max_steps.
NextStep(w) ==
    LET n == tick[w].steps + 1
    IN  tick' = IF n < MaxSteps
                THEN [tick EXCEPT ![w] = [@ EXCEPT !.step = "safe_point", !.steps = n]]
                ELSE [tick EXCEPT ![w] = [@ EXCEPT !.step = "fail", !.steps = n, !.error = "failed"]]

\* One iteration of the loop that calls ordinary tools only.
RunTools(w) ==
    /\ InTick(w, "act")
    /\ NextStep(w)
    /\ UNCHANGED <<task, askStoreVars, dispatchVars, orphans>> /\ TickUnchanged

\* The run finishes, or ends in an error or an exception.
RunEnds(w) ==
    /\ InTick(w, "act")
    /\ \/ GoTo(w, "complete")
       \/ tick' = [tick EXCEPT ![w] = [@ EXCEPT !.step = "fail", !.error = "failed"]]
    /\ UNCHANGED <<task, askStoreVars, dispatchVars, orphans>> /\ TickUnchanged

\* Faulty: the row waits before the ASK is stored.
AskToolWaitsFirst(w, a) ==
    /\ InTick(w, "act")
    /\ ask[a].status = "absent"
    /\ WaitForUser(tick[w].task, a)
    /\ tick' = [tick EXCEPT ![w] = [@ EXCEPT !.step = "ask_wait", !.ask = a]]
    /\ UNCHANGED <<askStoreVars, dispatchVars, orphans>> /\ TickUnchanged

\* AskUserTool.execute: the ASK row first, the waiting row second.
AskTool(w, a) ==
    /\ InTick(w, "act")
    /\ CreateAsk(a, tick[w].task)
    /\ tick' = [tick EXCEPT ![w] = [@ EXCEPT !.step = "ask_wait", !.ask = a]]
    /\ UNCHANGED <<task, dispatchVars, orphans>> /\ TickUnchanged

\* wait_for_user raises when the row is not running any more; the runtime turns
\* that into an error observation and the loop goes on.
AskToolWait(w) ==
    /\ InTick(w, "ask_wait")
    /\ IF task[tick[w].task].status = "running"
       THEN WaitForUser(tick[w].task, tick[w].ask) /\ GoTo(w, "wait_check")
       ELSE NextStep(w) /\ UNCHANGED task
    /\ SettleOrphans
    /\ UNCHANGED <<askStoreVars, dispatchVars>> /\ TickUnchanged

\* RequestConfirmationTool.execute: the actionable message, then the row.
ConfirmTool(w, c) ==
    /\ InTick(w, "act")
    /\ conf[c].task = NoTask
    /\ conf' = [conf EXCEPT ![c].task = tick[w].task]
    /\ tick' = [tick EXCEPT ![w] = [@ EXCEPT !.step = "confirm_wait", !.conf = c]]
    /\ UNCHANGED <<task, askStoreVars, dispatchVars, orphans>>
    /\ UNCHANGED <<handler, graceOver, startup, boundVars>>

ConfirmToolWait(w) ==
    /\ InTick(w, "confirm_wait")
    /\ IF task[tick[w].task].status = "running"
       THEN WaitForConfirmation(tick[w].task, tick[w].conf) /\ GoTo(w, "wait_check")
       ELSE NextStep(w) /\ UNCHANGED task
    /\ SettleOrphans
    /\ UNCHANGED <<askStoreVars, dispatchVars>> /\ TickUnchanged

\* The run returned waiting_for_user: tick reads the row again.
WaitCheck(w) ==
    /\ InTick(w, "wait_check")
    /\ IF task[tick[w].task].status = "running"
       THEN /\ tick' = [tick EXCEPT ![w] = [@ EXCEPT !.step = "fail", !.error = "failed"]]
            /\ UNCHANGED dispatchVars
       ELSE EndTick(w, "stopped")
    /\ UNCHANGED <<task, askStoreVars, orphans>> /\ TickUnchanged

\* bus.complete at the end of a tick.  A TaskStoreError is not caught: it
\* leaves tick, _drain_session and _run and ends the worker.
TickCompletes(w) ==
    /\ InTick(w, "complete")
    /\ IF CanComplete(tick[w].task)
       THEN Complete(tick[w].task, TRUE) /\ EndTick(w, "completed")
       ELSE UNCHANGED task /\ EndTick(w, "raised")
    /\ SettleOrphans
    /\ UNCHANGED askStoreVars /\ TickUnchanged

\* bus.fail at the end of a tick, with the same consequence.
TickFails(w) ==
    /\ InTick(w, "fail")
    /\ IF CanFail(tick[w].task)
       THEN Fail(tick[w].task, tick[w].error) /\ EndTick(w, "stopped")
       ELSE UNCHANGED task /\ EndTick(w, "raised")
    /\ SettleOrphans
    /\ UNCHANGED askStoreVars /\ TickUnchanged

TickAction(w) ==
    \/ TickSelect(w) \/ TickClaim(w) \/ SafePoint(w) \/ RunTools(w) \/ RunEnds(w)
    \/ \E a \in Ask : AskTool(w, a)
    \/ AskToolWait(w)
    \/ \E c \in Confirmation : ConfirmTool(w, c)
    \/ ConfirmToolWait(w) \/ WaitCheck(w) \/ TickCompletes(w) \/ TickFails(w)

\* The dispatcher's own steps.
WorkerLoopAction(w) ==
    /\ Serving
    /\ WorkerLoop(w)
    /\ UNCHANGED <<task, askStoreVars, conf, tick, handler, graceOver, startup, orphans, boundVars>>

-----------------------------------------------------------------------------
(* User commands.  Handlers run concurrently; each starts with one command  *)
(* and goes through the steps that write to a second store.                *)

StartCommand(h) ==
    /\ Serving
    /\ handler[h].step = "idle"
    /\ commands < MaxCommands
    /\ commands' = commands + 1
    /\ UNCHANGED <<conf, tick, startup, crashes>>

At(h, step) == Serving /\ handler[h].step = step

HandlerStays(h) == handler' = handler

Finish(h) == handler' = [handler EXCEPT ![h] = IdleHandler]

Continue(h, step) == handler' = [handler EXCEPT ![h].step = step]

\* What comes after a publish or retry with start_immediately, or without.
ThenDispatch(h, t, start) ==
    IF start
    THEN handler' = [handler EXCEPT ![h] = [@ EXCEPT !.step = "dispatch", !.task = t,
                                                     !.session = SessionOf[t]]]
    ELSE HandlerStays(h)

\* One task of a published tree; start on the last one.
PublishCommand(h, t, p, r, start) ==
    /\ StartCommand(h)
    /\ Publish(t, p, r)
    /\ ThenDispatch(h, t, start)
    /\ UNCHANGED <<askStoreVars, dispatchVars, graceOver, orphans>>

RetryCommand(h, t, start) ==
    /\ StartCommand(h)
    /\ Retry(t)
    /\ ThenDispatch(h, t, start)
    /\ graceOver' = graceOver \ {t}
    /\ UNCHANGED <<askStoreVars, dispatchVars, orphans>>

\* A second stop request restarts the grace period.
StopCommand(h, t) ==
    /\ StartCommand(h)
    /\ RequestInterrupt(t)
    /\ graceOver' = graceOver \ {t}
    /\ HandlerStays(h)
    /\ UNCHANGED <<askStoreVars, dispatchVars, orphans>>

\* POST .../dispatch, and the dispatch after a publish, retry or answer.
DispatchCommand(h, s) ==
    /\ StartCommand(h)
    /\ RequestDispatch(s)
    /\ HandlerStays(h)
    /\ UNCHANGED <<task, askStoreVars, graceOver, orphans>>

HandlerDispatches(h) ==
    /\ At(h, "dispatch")
    /\ RequestDispatch(handler[h].session)
    /\ Finish(h)
    /\ UNCHANGED <<task, askStoreVars, conf, tick, graceOver, startup, orphans, boundVars>>

\* Faulty: the task is resumed before the answer is stored.
AnswerResumesFirst(h, a, k, ans) ==
    /\ StartCommand(h)
    /\ ask[a].status = "pending"
    /\ task[ask[a].task].ask = a
    /\ ResumeAfterUser(ask[a].task, a)
    /\ HandlerStays(h)
    /\ UNCHANGED <<askStoreVars, dispatchVars, graceOver, orphans>>

\* answer_ask: persist the answer; resume the task only if this command was the
\* one accepted; a replay is accepted too and still requests a dispatch.
AnswerCommand(h, a, k, ans) ==
    /\ StartCommand(h)
    /\ ask[a].status # "absent"
    /\ LET s == SessionOf[ask[a].task]
           result == AskResult("answer", s, a, k, ans)
       IN  /\ AskCommand("answer", s, a, k, ans)
           /\ IF result.status = "rejected"
              THEN HandlerStays(h)
              ELSE handler' = [handler EXCEPT
                      ![h] = [@ EXCEPT !.step = IF result.status = "accepted" THEN "resume" ELSE "dispatch",
                                       !.task = ask[a].task, !.ask = a, !.session = s]]
    /\ UNCHANGED <<task, dispatchVars, graceOver, orphans>>

WaitsOn(t, a) == task[t].status = "waiting_for_user" /\ task[t].ask = a

\* _resume_waiting_task_after_answer; the second look of resume_after_user is
\* the same condition, and its error only becomes a note in the response.
HandlerResumes(h) ==
    /\ At(h, "resume")
    /\ IF WaitsOn(handler[h].task, handler[h].ask)
       THEN ResumeAfterUser(handler[h].task, handler[h].ask)
       ELSE UNCHANGED task
    /\ Continue(h, "dispatch")
    /\ SettleOrphans
    /\ UNCHANGED <<askStoreVars, dispatchVars, conf, tick, graceOver, startup, boundVars>>

\* defer_ask and cancel_ask: settle the ASK, then fail the task waiting on it.
SettleCommand(h, kind, a, k) ==
    /\ StartCommand(h)
    /\ ask[a].status # "absent"
    /\ LET s == SessionOf[ask[a].task]
           ans == CHOOSE x \in Answer : TRUE
       IN  /\ AskCommand(kind, s, a, k, ans)
           /\ IF AskResult(kind, s, a, k, ans).status = "accepted"
              THEN handler' = [handler EXCEPT ![h] =
                       [@ EXCEPT !.step = "check_waiting", !.task = ask[a].task,
                                 !.ask = a, !.session = s]]
              ELSE HandlerStays(h)
    /\ UNCHANGED <<task, dispatchVars, graceOver, orphans>>

\* _fail_waiting_task reads the row, and calls fail() in a second step.
HandlerChecksWaiting(h) ==
    /\ At(h, "check_waiting")
    /\ IF WaitsOn(handler[h].task, handler[h].ask)
       THEN Continue(h, "fail_waiting")
       ELSE Finish(h)
    /\ UNCHANGED <<task, askStoreVars, dispatchVars, conf, tick, graceOver, startup, orphans, boundVars>>

HandlerFailsWaiting(h) ==
    /\ At(h, "fail_waiting")
    /\ IF CanFail(handler[h].task) THEN Fail(handler[h].task, "failed") ELSE UNCHANGED task
    /\ Finish(h)
    /\ SettleOrphans
    /\ UNCHANGED <<askStoreVars, dispatchVars, conf, tick, graceOver, startup, boundVars>>

\* resolve_confirmation: check for an earlier response, publish the response,
\* resume the task.  No dispatch follows.
ResolveCommand(h, c) ==
    /\ StartCommand(h)
    /\ conf[c].task # NoTask
    /\ conf[c].responses = 0
    /\ handler' = [handler EXCEPT ![h] = [@ EXCEPT !.step = "respond", !.conf = c,
                                                   !.task = conf[c].task]]
    /\ UNCHANGED <<task, askStoreVars, dispatchVars, graceOver, orphans>>

HandlerResponds(h) ==
    /\ At(h, "respond")
    /\ conf' = [conf EXCEPT ![handler[h].conf].responses = @ + 1]
    /\ Continue(h, "resume_confirmed")
    /\ UNCHANGED <<task, askStoreVars, dispatchVars, tick, graceOver, startup, orphans, boundVars>>

HandlerResumesConfirmed(h) ==
    /\ At(h, "resume_confirmed")
    /\ IF /\ task[handler[h].task].status = "waiting_for_user"
          /\ task[handler[h].task].conf = handler[h].conf
       THEN ResumeAfterConfirmation(handler[h].task, handler[h].conf)
       ELSE UNCHANGED task
    /\ Finish(h)
    /\ SettleOrphans
    /\ UNCHANGED <<askStoreVars, dispatchVars, conf, tick, graceOver, startup, boundVars>>

-----------------------------------------------------------------------------
(* Snapshot reads: _recover_before_snapshot runs the ASK recovery and then *)
(* the stop recovery of the session.                                       *)

AnsweredAsks(s) == {a \in Ask : ask[a].status = "answered" /\ SessionOf[ask[a].task] = s}

\* Snapshots are not user commands: the page reads them all the time.
SnapshotUnchanged == UNCHANGED <<askStoreVars, conf, tick, graceOver, startup, boundVars>>

SnapshotStarts(h, s) ==
    /\ At(h, "idle")
    /\ handler' = [handler EXCEPT ![h] = [@ EXCEPT !.step = "recover_asks", !.session = s,
                                                   !.asks = AnsweredAsks(s)]]
    /\ UNCHANGED <<task, dispatchVars, orphans>> /\ SnapshotUnchanged

\* Faulty: only pending tasks are looked at, waiting ones stay as they are.
RecoverAskDispatchOnly(h, a) ==
    /\ At(h, "recover_asks")
    /\ a \in handler[h].asks
    /\ handler' = [handler EXCEPT ![h] = [@ EXCEPT !.asks = handler[h].asks \ {a}, !.ask = a,
                                                   !.task = ask[a].task,
                                                   !.step = IF task[ask[a].task].status = "pending"
                                                            THEN "dispatch_recovered"
                                                            ELSE "recover_asks"]]
    /\ UNCHANGED <<task, dispatchVars, orphans>> /\ SnapshotUnchanged

\* Faulty: a task that is pending already is taken to be scheduled.
RecoverAskResumeOnly(h, a) ==
    /\ At(h, "recover_asks")
    /\ a \in handler[h].asks
    /\ handler' = [handler EXCEPT ![h] = [@ EXCEPT !.asks = handler[h].asks \ {a}, !.ask = a,
                                                   !.task = ask[a].task,
                                                   !.step = IF WaitsOn(ask[a].task, a)
                                                            THEN "resume_recovered"
                                                            ELSE "recover_asks"]]
    /\ UNCHANGED <<task, dispatchVars, orphans>> /\ SnapshotUnchanged

\* _recover_execution looks at the task of one answered ASK.
RecoverAsk(h, a) ==
    /\ At(h, "recover_asks")
    /\ a \in handler[h].asks
    /\ handler' = [handler EXCEPT ![h] = [@ EXCEPT !.asks = handler[h].asks \ {a}, !.ask = a,
                                                   !.task = ask[a].task,
                                                   !.step = IF WaitsOn(ask[a].task, a)
                                                            THEN "resume_recovered"
                                                            ELSE IF task[ask[a].task].status = "pending"
                                                                 THEN "dispatch_recovered"
                                                                 ELSE "recover_asks"]]
    /\ UNCHANGED <<task, dispatchVars, orphans>> /\ SnapshotUnchanged

\* A TaskStoreError here ends the whole recovery of this snapshot.
ResumeRecovered(h) ==
    /\ At(h, "resume_recovered")
    /\ IF WaitsOn(handler[h].task, handler[h].ask)
       THEN /\ ResumeAfterUser(handler[h].task, handler[h].ask)
            /\ Continue(h, "dispatch_recovered")
       ELSE UNCHANGED task /\ Finish(h)
    /\ SettleOrphans
    /\ UNCHANGED dispatchVars /\ SnapshotUnchanged

DispatchRecovered(h) ==
    /\ At(h, "dispatch_recovered")
    /\ RequestDispatch(handler[h].session)
    /\ Continue(h, "recover_asks")
    /\ UNCHANGED <<task, orphans>> /\ SnapshotUnchanged

\* Faulty: the age test is the wrong way round.
ListStopsYoung(h) ==
    /\ At(h, "recover_asks")
    /\ handler[h].asks = {}
    /\ handler' = [handler EXCEPT ![h] =
           [@ EXCEPT !.step = "recover_stops",
                     !.stops = {t \in Task \ graceOver :
                                  SessionOf[t] = handler[h].session /\ InterruptedRunning(t)}]]
    /\ UNCHANGED <<task, dispatchVars, orphans>> /\ SnapshotUnchanged

\* DefaultTaskStopRecoveryService lists the rows that need recovery ...
ListStops(h) ==
    /\ At(h, "recover_asks")
    /\ handler[h].asks = {}
    /\ handler' = [handler EXCEPT ![h] =
           [@ EXCEPT !.step = "recover_stops",
                     !.stops = {t \in graceOver :
                                  SessionOf[t] = handler[h].session /\ InterruptedRunning(t)}]]
    /\ UNCHANGED <<task, dispatchVars, orphans>> /\ SnapshotUnchanged

\* ... and fails them one by one; a row that cannot fail any more is skipped.
RecoverStop(h, t) ==
    /\ At(h, "recover_stops")
    /\ t \in handler[h].stops
    /\ IF CanFail(t) THEN Fail(t, "cancelled") ELSE UNCHANGED task
    /\ handler' = [handler EXCEPT ![h].stops = @ \ {t}]
    /\ SettleOrphans
    /\ UNCHANGED dispatchVars /\ SnapshotUnchanged

SnapshotEnds(h) ==
    /\ At(h, "recover_stops")
    /\ handler[h].stops = {}
    /\ Finish(h)
    /\ UNCHANGED <<task, dispatchVars, orphans>> /\ SnapshotUnchanged

\* Time: a stop request gets older than the grace period.
GraceElapses(t) ==
    /\ Serving
    /\ InterruptedRunning(t)
    /\ t \notin graceOver
    /\ graceOver' = graceOver \cup {t}
    /\ UNCHANGED <<task, askStoreVars, dispatchVars, conf, tick, handler, startup, orphans, boundVars>>

-----------------------------------------------------------------------------
(* Crash of the sidecar, and its startup scan.                             *)

\* Threads, queue, tick and handler locals are gone; the stores stay.
Crash ==
    /\ crashes < MaxCrashes
    /\ crashes' = crashes + 1
    /\ queue' = << >> /\ pendingIds' = {} /\ runningIds' = {}
    /\ closed' = FALSE /\ worker' = NoThread
    /\ pc' = [w \in Thread |-> "unstarted"]
    /\ current' = [w \in Thread |-> NoSession]
    /\ ticks' = [w \in Thread |-> 0]
    /\ tick' = [w \in Thread |-> IdleTick]
    /\ handler' = [h \in Handler |-> IdleHandler]
    /\ startup' = Session
    /\ orphans' = {t \in Task : task[t].status = "running"}
    /\ UNCHANGED <<task, askStoreVars, conf, graceOver, commands>>

\* recover_interrupted_running_tasks_on_startup, before the server serves.
StartupRecovers(s) ==
    /\ s \in startup
    /\ RecoverInterruptedRunningTasks(s)
    /\ startup' = startup \ {s}
    /\ SettleOrphans
    /\ UNCHANGED <<askStoreVars, dispatchVars, conf, tick, handler, graceOver, boundVars>>

-----------------------------------------------------------------------------
UserCommand(h) ==
    \/ \E t, r \in Task, p \in Task \cup {NoTask}, start \in BOOLEAN :
            PublishCommand(h, t, p, r, start)
    \/ \E t \in Task, start \in BOOLEAN : RetryCommand(h, t, start)
    \/ \E t \in Task : StopCommand(h, t)
    \/ \E s \in Session : DispatchCommand(h, s)
    \/ \E a \in Ask, k \in AskKey \cup {NoKey}, ans \in Answer : AnswerCommand(h, a, k, ans)
    \/ \E a \in Ask, k \in AskKey \cup {NoKey}, kind \in {"defer", "cancel"} :
            SettleCommand(h, kind, a, k)
    \/ \E c \in Confirmation : ResolveCommand(h, c)

\* The steps a handler still owes after its first one.
HandlerAction(h) ==
    \/ HandlerDispatches(h) \/ HandlerResumes(h)
    \/ HandlerChecksWaiting(h) \/ HandlerFailsWaiting(h)
    \/ HandlerResponds(h) \/ HandlerResumesConfirmed(h)
    \/ \E a \in Ask : RecoverAsk(h, a)
    \/ ResumeRecovered(h) \/ DispatchRecovered(h) \/ ListStops(h)
    \/ \E t \in Task : RecoverStop(h, t)
    \/ SnapshotEnds(h)

WorkerAction(w) == TickAction(w) \/ WorkerLoopAction(w)

SystemNext ==
    \/ \E w \in Thread : WorkerAction(w)
    \/ \E h \in Handler : UserCommand(h) \/ HandlerAction(h)
    \/ \E h \in Handler, s \in Session : SnapshotStarts(h, s)
    \/ \E t \in Task : GraceElapses(t)
    \/ Crash
    \/ \E s \in Session : StartupRecovers(s)

SystemSafety == SystemInit /\ [][SystemNext]_systemVars

\* Threads that can run do run; agent runs and handlers are finite.  Snapshots
\* keep being requested while the page is open and the server answers them;
\* time passes; a started process finishes its startup scan.  Nothing obliges
\* the user to issue a command or the process to crash.
SystemFairness ==
    /\ \A w \in Thread : WF_systemVars(WorkerAction(w))
    /\ \A h \in Handler : WF_systemVars(HandlerAction(h))
    /\ \A s \in Session : SF_systemVars(\E h \in Handler : SnapshotStarts(h, s))
    /\ \A t \in Task : WF_systemVars(GraceElapses(t))
    /\ WF_systemVars(\E s \in Session : StartupRecovers(s))

SystemSpec == SystemSafety /\ SystemFairness

-----------------------------------------------------------------------------
(* Properties.                                                             *)

Running(w, t) ==
    /\ pc[w] = "draining"
    /\ tick[w].task = t
    /\ tick[w].step \notin {"select", "claim"}

\* A running row has a thread that works on it, unless the process crashed in
\* the middle of that run: no path through tick, safe points, failed waits or
\* a recovery that cut in leaves a row running with nobody left to end it.
RunningHasRunner ==
    \A t \in Task : task[t].status = "running" /\ t \notin orphans
        => \E w \in Thread : Running(w, t)

\* Whatever a task waits for exists and was raised by that task, also after a
\* crash between the two stores (AskUserTool and RequestConfirmationTool write
\* the question before the row): a user can always see what is waited for.
WaitIsBacked ==
    \A t \in Task : task[t].status = "waiting_for_user" =>
        /\ task[t].ask # NoAsk =>
              ask[task[t].ask].status # "absent" /\ ask[task[t].ask].task = t
        /\ task[t].conf # NoConfirmation => conf[task[t].conf].task = t

\* A waiting task goes back to the queue only on a stored reply to the very
\* question it waits for: not on a deferral or cancellation, and not on the
\* reply to a question of an earlier attempt (answer_ask, resolve_confirmation
\* and the ASK recovery all resume).
ResumedOnlyByReply ==
    [][\A t \in Task :
        task[t].status = "waiting_for_user" /\ task'[t].status = "pending" =>
            IF task[t].ask # NoAsk
            THEN ask[task[t].ask].status = "answered"
            ELSE conf[task[t].conf].responses > 0]_systemVars

\* The locals r of a tick say what its later steps rely on: the task it
\* claimed, the question it stored for that task, room for another step, an
\* error that fail() takes.
TickShape(r, asks, confs) ==
    /\ r.step \notin {"select", "claim"} => r.task \in Task
    /\ r.step = "ask_wait" => r.ask \in Ask /\ asks[r.ask].task = r.task
    /\ r.step = "confirm_wait" => r.conf \in Confirmation /\ confs[r.conf].task = r.task
    /\ r.step = "fail" => r.error \in {"failed", "cancelled"}
    /\ r.step \notin {"wait_check", "complete", "fail"} => r.steps < MaxSteps

\* The locals r of a handler: whoever is about to resume a task holds the
\* stored reply, whoever goes through a list of ASKs has answered ones.
HandlerShape(r, asks, confs) ==
    /\ r.step \notin {"idle", "check_waiting", "fail_waiting", "respond", "resume_confirmed"}
          => r.session \in Session
    /\ r.step \in {"resume", "check_waiting", "fail_waiting", "resume_recovered"}
          => r.task \in Task /\ r.ask \in Ask
    /\ r.step \in {"resume", "resume_recovered"} => asks[r.ask].status = "answered"
    /\ r.step \in {"respond", "resume_confirmed"} => r.task \in Task /\ r.conf \in Confirmation
    /\ r.step = "resume_confirmed" => confs[r.conf].responses > 0
    /\ \A a \in r.asks : asks[a].status = "answered"

TickLocals == \A w \in Thread : TickShape(tick[w], ask, conf)

HandlerLocals == \A h \in Handler : HandlerShape(handler[h], ask, conf)

\* The inductive invariant of the composition.
SystemInv ==
    /\ SystemTypeOK
    /\ BusInv /\ AskInv /\ DispatcherInv
    /\ TickLocals /\ HandlerLocals
    /\ RunningHasRunner
    /\ WaitIsBacked

\* A task that waits on an answered ASK is eventually resumed, even when the
\* answer came before the task started to wait, or the process crashed between
\* the two writes (ask_recovery.py).
AnsweredAskResumes ==
    \A t \in Task, a \in Ask :
        WaitsOn(t, a) /\ ask[a].status = "answered" ~> ~WaitsOn(t, a)

WorkerDied == \E w \in Thread : pc[w] \in {"raising", "dying", "dead"}

\* A resumed task is eventually run (or settled by the user): a dispatch request
\* that was lost, dropped as already_running, or never made because of a crash
\* is made again by the ASK recovery.  A worker killed by an exception may
\* leave the session queued for good; see QueuedSessionServed.
AnsweredTaskRuns ==
    \A t \in Task, a \in Ask :
        /\ ask[a].status = "answered" /\ ask[a].task = t
        /\ t \in Eligible(SessionOf[t])
        ~> task[t].status # "pending" \/ WorkerDied

\* A stop request is eventually settled: at a safe point, by the stop recovery
\* when nobody executes the task any more, or by the startup scan.  Stopping is
\* never a lasting state (task_stop_recovery.py).
StopSettles == \A t \in Task : InterruptedRunning(t) ~> ~InterruptedRunning(t)

\* docs/plans/feature/cooperative-task-interruption.md, 6.5: the stop recovery
\* cancels a task that "has `interrupt_requested=true`".  The list it works
\* from is stale by the time it calls fail().
CancelledOnlyWhenStopped ==
    \A t \in Task : task[t].error = "cancelled" => task[t].interrupt

\* docs/engineering/ask-lifecycle-contract.md, 6: after an ASK was cancelled the
\* "task follows policy-defined next state".  A cancellation or deferral that
\* arrives between the two writes of AskUserTool leaves the task waiting.
SettledAskReleasesTask ==
    \A t \in Task, a \in Ask :
        WaitsOn(t, a) /\ ask[a].status \in {"cancelled", "deferred"} ~> ~WaitsOn(t, a)

\* docs/plans/feature/fixed-route-task-execution-bridge.md: "`startImmediately=true`
\* schedules execution for the Session after a successful publish".
StartImmediatelySchedules ==
    \A h \in Handler, t \in Task :
        /\ handler[h].step = "dispatch" /\ handler[h].task = t
        /\ t \in Eligible(SessionOf[t])
        ~> task[t].status # "pending"

\* docs/plans/feature/message-ask-confirmation-backend-technical-design.zh-CN.md,
\* 2.5: a second command that resolves a resolved confirmation is rejected.
OneResponse == \A c \in Confirmation : conf[c].responses <= 1
=============================================================================
