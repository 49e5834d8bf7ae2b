--------------------------- MODULE ExecutionProofs ---------------------------
(***************************************************************************)
(* The composed system for every set of tasks, threads and handlers and    *)
(* any number of commands and crashes.                                     *)
(*                                                                         *)
(* Every step of the system is a step of the TaskBus, of the ASK store and *)
(* of the dispatcher (or a restart of it), or leaves them alone, so their  *)
(* theorems hold of the composition.  What is added is what the locals of  *)
(* the threads know of the stores while other threads move on: SystemInv.  *)
(***************************************************************************)
EXTENDS ExecutionSystem, TaskBusProofs

Lane == INSTANCE DispatcherProofs

Store == INSTANCE AskStoreProofs

-----------------------------------------------------------------------------
(* The dispatcher inside the system.                                       *)

DispatcherStep == [Lane!DispatcherNext]_(Lane!dispatcherVars)

\* The invariant of the dispatcher means the same here and in its proofs.
LEMMA SameLane ==
    /\ DispatcherInv <=> Lane!DispatcherInv
    /\ DispatcherInv' <=> Lane!DispatcherInv'
    /\ DispatcherInit <=> Lane!DispatcherInit
    /\ DispatcherInit' <=> Lane!DispatcherInit'
BY DEF DispatcherInv, Lane!DispatcherInv, DispatcherTypeOK, Lane!DispatcherTypeOK,
       ThreadState, Lane!ThreadState, QueueCoalesced, Lane!QueueCoalesced,
       OneLiveWorker, Lane!OneLiveWorker, RunningIdsMatchDrains,
       Lane!RunningIdsMatchDrains, PendingNotRunning, Lane!PendingNotRunning,
       NoParkedWithWork, Lane!NoParkedWithWork, InQueue, Lane!InQueue, Live, Lane!Live,
       DispatcherInit, Lane!DispatcherInit

\* The dispatcher starts in its invariant.
LEMMA LaneStarts == DispatcherInit => DispatcherInv
BY SameLane, Lane!InitDispatcherInv, PartsAssumption

\* A restart puts it back there.
LEMMA LaneRestarts == DispatcherInit' => DispatcherInv'
<1>1. Lane!DispatcherInit => Lane!DispatcherInv
  BY Lane!InitDispatcherInv, PartsAssumption
<1>2. Lane!DispatcherInit' => Lane!DispatcherInv'
  BY <1>1, PTL
<1> QED
  BY <1>2, SameLane

\* Its own steps keep the invariant.
LEMMA LaneKeepsInv ==
    ASSUME DispatcherInv, DispatcherStep
    PROVE  DispatcherInv'
BY SameLane, Lane!NextDispatcherInv, PartsAssumption DEF DispatcherStep

\* A request of a handler is a step of the dispatcher.
LEMMA RequestIsLaneStep ==
    ASSUME NEW s \in Session, RequestDispatch(s)
    PROVE  DispatcherStep
<1>1. Lane!RequestDispatch(s)
  BY DEF RequestDispatch, Lane!RequestDispatch, Accepts, Lane!Accepts, EnsureWorkerLocked,
         Lane!EnsureWorkerLocked, WorkerIsAlive, Lane!WorkerIsAlive, Notified,
         Lane!Notified, Live, Lane!Live
<1> QED
  BY <1>1 DEF DispatcherStep, Lane!DispatcherNext

\* So is a step of the worker's loop, ...
LEMMA LoopIsLaneStep ==
    ASSUME NEW w \in Thread, WorkerLoop(w)
    PROVE  DispatcherStep
<1>1. Lane!WorkerLoop(w)
  BY DEF WorkerLoop, Lane!WorkerLoop, Park, Lane!Park, Exit, Lane!Exit, Pop, Lane!Pop,
         Release, Lane!Release, Die, Lane!Die, Notified, Lane!Notified
<1> QED
  BY <1>1 DEF DispatcherStep, Lane!DispatcherNext, Lane!WorkerStep

\* ... and the end of a tick.
LEMMA TickEndIsLaneStep ==
    ASSUME NEW w \in Thread, NEW outcome \in Outcome, TickEnds(w, outcome)
    PROVE  DispatcherStep
<1>1. Lane!TickEnds(w, outcome)
  BY DEF TickEnds, Lane!TickEnds
<1> QED
  BY <1>1 DEF DispatcherStep, Lane!DispatcherNext, Lane!WorkerStep, Outcome, Lane!Outcome

\* Leaving the dispatcher alone is a step of it.
LEMMA IdleIsLaneStep == UNCHANGED dispatchVars => DispatcherStep
BY DEF DispatcherStep, Lane!dispatcherVars, dispatchVars

\* A drain goes on while others request or the loop moves.
LEMMA DrainsGoOn ==
    ASSUME DispatcherTypeOK,
           \/ \E s \in Session : RequestDispatch(s)
           \/ \E w \in Thread : WorkerLoop(w)
    PROVE  \A v \in Thread : pc[v] = "draining" => pc'[v] = "draining"
<1> SUFFICES ASSUME NEW v \in Thread, pc[v] = "draining"
             PROVE  pc'[v] = "draining"
  OBVIOUS
<1>1. CASE \E s \in Session : RequestDispatch(s)
  BY <1>1 DEF RequestDispatch, EnsureWorkerLocked, Notified, DispatcherTypeOK
<1>2. CASE \E w \in Thread : WorkerLoop(w)
  BY <1>2 DEF WorkerLoop, Park, Exit, Pop, Release, Die, Notified, DispatcherTypeOK
<1> QED
  BY <1>1, <1>2

-----------------------------------------------------------------------------
(* The ASK store inside the system.                                        *)

AskStep == [Store!AskNext]_(Store!askVars)

\* The invariant of the store means the same here and in its proofs.
LEMMA SameStore ==
    /\ AskInv <=> Store!AskInv
    /\ AskInv' <=> Store!AskInv'
    /\ AskInit <=> Store!AskInit
BY DEF AskInv, Store!AskInv, AskTypeOK, Store!AskTypeOK, AskRequest, Store!AskRequest,
       AskStatus, Store!AskStatus, AskMemo, Store!AskMemo, AskCommandKind,
       Store!AskCommandKind, AskRowShape, Store!AskRowShape, MovedIsRemembered,
       Store!MovedIsRemembered, AnswerStored, Store!AnswerStored, ReplayedSuccessIsTrue,
       Store!ReplayedSuccessIsTrue, KeyMovesOneAsk, Store!KeyMovesOneAsk, AskFound,
       Store!AskFound, StatusAfter, Store!StatusAfter, AskInit, Store!AskInit, NoMemo,
       Store!NoMemo

\* What the store assumes of its constants.
LEMMA StoreAssumption ==
    /\ InvalidAnswer \subseteq Answer
    /\ NoTask \notin Task /\ NoAsk \notin Ask
    /\ NoAnswer \notin Answer /\ NoKey \notin AskKey
    /\ SessionOf \in [Task -> Session]
BY PartsAssumption, NoneAssumption, TaskAttributes

\* The store starts in its invariant.
LEMMA StoreStarts == AskInit => AskInv
BY SameStore, Store!InitAskInv, StoreAssumption

\* Its commands keep the invariant.
LEMMA StoreKeepsInv ==
    ASSUME AskInv, AskStep
    PROVE  AskInv'
BY SameStore, Store!NextAskInv, StoreAssumption DEF AskStep

\* The ask tool stores a question: a step of the store.
LEMMA CreateIsStoreStep ==
    ASSUME NEW a \in Ask, NEW t \in Task, CreateAsk(a, t)
    PROVE  AskStep
<1>1. Store!CreateAsk(a, t)
  BY DEF CreateAsk, Store!CreateAsk
<1> QED
  BY <1>1 DEF AskStep, Store!AskNext

\* A command of a handler is a step of the store.
LEMMA CommandIsStoreStep ==
    ASSUME NEW kind \in {"answer", "defer", "cancel"}, NEW s \in Session, NEW a \in Ask,
           NEW k \in AskKey \cup {NoKey}, NEW ans \in Answer,
           AskCommand(kind, s, a, k, ans)
    PROVE  AskStep
<1>1. Store!AskCommand(kind, s, a, k, ans)
  BY DEF AskCommand, Store!AskCommand, AskResult, Store!AskResult, Replayed,
         Store!Replayed, Transitions, Store!Transitions, AskFound, Store!AskFound,
         Settled, Store!Settled, StatusAfter, Store!StatusAfter
<1>2. kind \in Store!AskCommandKind
  BY DEF Store!AskCommandKind
<1> QED
  BY <1>1, <1>2 DEF AskStep, Store!AskNext

\* Leaving the store alone is a step of it.
LEMMA IdleIsStoreStep == UNCHANGED askStoreVars => AskStep
BY DEF AskStep, Store!askVars, askStoreVars

\* What a stored question and its reply keep from then on.
AsksGrow(old, new) ==
    \A a \in Ask :
        /\ old[a].status # "absent" => new[a].status # "absent" /\ new[a].task = old[a].task
        /\ old[a].status = "answered" => new[a].status = "answered"

\* No step of the store takes a question or an answer back.
LEMMA StoreGrows ==
    ASSUME AskInv,
           \/ UNCHANGED askStoreVars
           \/ \E a \in Ask, t \in Task : CreateAsk(a, t)
           \/ \E kind \in {"answer", "defer", "cancel"}, s \in Session, a \in Ask,
                 k \in AskKey \cup {NoKey}, ans \in Answer : AskCommand(kind, s, a, k, ans)
    PROVE  AsksGrow(ask, ask')
<1>0. ask \in [Ask -> AskRequest]
  BY DEF AskInv, AskTypeOK
<1>1. CASE UNCHANGED askStoreVars
  BY <1>1 DEF askStoreVars, AsksGrow
<1>2. CASE \E a \in Ask, t \in Task : CreateAsk(a, t)
  BY <1>0, <1>2 DEF CreateAsk, AsksGrow
<1>3. ASSUME NEW kind \in {"answer", "defer", "cancel"}, NEW s \in Session, NEW a \in Ask,
             NEW k \in AskKey \cup {NoKey}, NEW ans \in Answer,
             AskCommand(kind, s, a, k, ans)
      PROVE  AsksGrow(ask, ask')
  <2>1. CASE ask' = ask
    BY <2>1 DEF AsksGrow
  <2>2. CASE ask' # ask
    <3>1. ask' = [ask EXCEPT ![a] = Settled(@, kind, k, ans)]
      BY <1>3, <2>2 DEF AskCommand
    <3>2. AskResult(kind, s, a, k, ans).status = "accepted"
      BY <1>3, <2>2 DEF AskCommand
    <3>3. ask[a].status = "pending"
      BY <3>2 DEF AskResult, Transitions
    <3>4. StatusAfter(kind) # "absent"
      BY DEF StatusAfter
    <3>5. Settled(ask[a], kind, k, ans).status # "absent"
          /\ Settled(ask[a], kind, k, ans).task = ask[a].task
      BY <1>0, <3>4 DEF Settled, AskRequest
    <3> QED
      BY <1>0, <3>1, <3>3, <3>5 DEF AsksGrow
  <2> QED
    BY <2>1, <2>2
<1> QED
  BY <1>1, <1>2, <1>3

-----------------------------------------------------------------------------
(* What a step has to show.                                                *)

RestTypeOK ==
    /\ conf \in [Confirmation -> [task : Task \cup {NoTask}, responses : Nat]]
    /\ tick \in [Thread -> TickRecord]
    /\ handler \in [Handler -> HandlerRecord]
    /\ graceOver \subseteq Task
    /\ startup \subseteq Session
    /\ orphans \subseteq Task
    /\ commands \in 0 .. MaxCommands
    /\ crashes \in 0 .. MaxCrashes

\* A step of the parts that keeps what the locals know of the stores.
StepOK ==
    /\ [BusNext]_busVars
    /\ AskStep
    /\ DispatcherStep \/ DispatcherInit'
    /\ RestTypeOK'
    /\ TickLocals' /\ HandlerLocals'
    /\ RunningHasRunner' /\ WaitIsBacked'

\* Such a step keeps the invariant.
LEMMA StepKeepsInv ==
    ASSUME SystemInv, StepOK
    PROVE  SystemInv'
<1>1. BusInv'
  BY NextInv DEF SystemInv, StepOK
<1>2. AskInv'
  BY StoreKeepsInv DEF SystemInv, StepOK
<1>3. DispatcherInv'
  BY LaneKeepsInv, LaneRestarts DEF SystemInv, StepOK
<1>4. SystemTypeOK'
  BY <1>1, <1>2, <1>3 DEF StepOK, RestTypeOK, SystemTypeOK, BusInv, AskInv, DispatcherInv
<1> QED
  BY <1>1, <1>2, <1>3, <1>4 DEF SystemInv, StepOK

\* The invariant in the pieces that the steps use.
LEMMA InvParts ==
    ASSUME SystemInv
    PROVE  /\ task \in [Task -> TaskDomain]
           /\ ask \in [Ask -> AskRequest]
           /\ BusTypeOK /\ DispatcherTypeOK
           /\ pc \in [Thread -> ThreadState]
           /\ RestTypeOK
           /\ \A a \in Ask : ask[a].status # "absent" => ask[a].task \in Task
BY DEF SystemInv, SystemTypeOK, RestTypeOK, BusTypeOK, AskTypeOK, DispatcherTypeOK, AskInv,
       AskRowShape, AskRequest

\* Confirmations keep their task and their responses.
ConfsGrow(old, new) ==
    \A c \in Confirmation :
        /\ old[c].task # NoTask => new[c].task = old[c].task
        /\ new[c].responses \in Nat /\ new[c].responses >= old[c].responses

\* Confirmations that are left alone do.
LEMMA ConfsRest ==
    ASSUME SystemInv, UNCHANGED conf
    PROVE  ConfsGrow(conf, conf')
BY InvParts DEF ConfsGrow, RestTypeOK

StoresGrow == AsksGrow(ask, ask') /\ ConfsGrow(conf, conf')

\* Both stores at rest.
LEMMA StoresRest ==
    ASSUME SystemInv, UNCHANGED <<askStoreVars, conf>>
    PROVE  StoresGrow
BY ConfsRest DEF StoresGrow, AsksGrow, askStoreVars

\* What the locals of a tick know stays true when the stores grow.
LEMMA TickShapeStays ==
    ASSUME SystemInv, StoresGrow, NEW w \in Thread
    PROVE  TickShape(tick[w], ask', conf')
<1>1. TickShape(tick[w], ask, conf) /\ tick[w] \in TickRecord
  BY InvParts DEF SystemInv, TickLocals, RestTypeOK
<1>2. tick[w].step = "ask_wait" => ask'[tick[w].ask].task = tick[w].task
  BY <1>1, InvParts, NoneAssumption
  DEF TickShape, StoresGrow, AsksGrow, SystemInv, AskInv, AskRowShape
<1>3. tick[w].step = "confirm_wait" => conf'[tick[w].conf].task = tick[w].task
  BY <1>1, NoneAssumption DEF TickShape, StoresGrow, ConfsGrow
<1> QED
  BY <1>1, <1>2, <1>3 DEF TickShape

\* So does what the locals of a handler know.
LEMMA HandlerShapeStays ==
    ASSUME SystemInv, StoresGrow, NEW h \in Handler
    PROVE  HandlerShape(handler[h], ask', conf')
<1>1. HandlerShape(handler[h], ask, conf) /\ handler[h] \in HandlerRecord
  BY InvParts DEF SystemInv, HandlerLocals, RestTypeOK
<1>2. \A a \in handler[h].asks : a \in Ask
  BY <1>1 DEF HandlerRecord
<1>3. handler[h].step = "resume_confirmed" => conf'[handler[h].conf].responses > 0
  BY <1>1, InvParts DEF HandlerShape, StoresGrow, ConfsGrow, RestTypeOK
<1> QED
  BY <1>1, <1>2, <1>3 DEF HandlerShape, StoresGrow, AsksGrow

\* One tick moves on to locals that fit the stores.
LEMMA TickMoves ==
    ASSUME SystemInv, StoresGrow, NEW w \in Thread, NEW r \in TickRecord,
           tick' = [tick EXCEPT ![w] = r], TickShape(r, ask', conf')
    PROVE  tick' \in [Thread -> TickRecord] /\ TickLocals'
<1>1. tick \in [Thread -> TickRecord]
  BY InvParts DEF RestTypeOK
<1>2. \A v \in Thread : TickShape(tick'[v], ask', conf')
  BY <1>1, TickShapeStays
<1> QED
  BY <1>1, <1>2 DEF TickLocals

\* No tick moves.
LEMMA TicksRest ==
    ASSUME SystemInv, StoresGrow, UNCHANGED tick
    PROVE  tick' \in [Thread -> TickRecord] /\ TickLocals'
BY InvParts, TickShapeStays DEF RestTypeOK, TickLocals

\* One handler moves on to locals that fit the stores.
LEMMA HandlerMoves ==
    ASSUME SystemInv, StoresGrow, NEW h \in Handler, NEW r \in HandlerRecord,
           handler' = [handler EXCEPT ![h] = r], HandlerShape(r, ask', conf')
    PROVE  handler' \in [Handler -> HandlerRecord] /\ HandlerLocals'
<1>1. handler \in [Handler -> HandlerRecord]
  BY InvParts DEF RestTypeOK
<1>2. \A g \in Handler : HandlerShape(handler'[g], ask', conf')
  BY <1>1, HandlerShapeStays
<1> QED
  BY <1>1, <1>2 DEF HandlerLocals

\* No handler moves.
LEMMA HandlersRest ==
    ASSUME SystemInv, StoresGrow, UNCHANGED handler
    PROVE  handler' \in [Handler -> HandlerRecord] /\ HandlerLocals'
BY InvParts, HandlerShapeStays DEF RestTypeOK, HandlerLocals

\* The locals a thread starts with.
LEMMA IdleRecords ==
    /\ IdleTick \in TickRecord /\ IdleHandler \in HandlerRecord
    /\ \A asks, confs : TickShape(IdleTick, asks, confs) /\ HandlerShape(IdleHandler, asks, confs)
<1>1. (CHOOSE c \in Capability : TRUE) \in Capability
  BY PartsAssumption
<1> QED
  BY <1>1, BoundsAssumption DEF IdleTick, TickRecord, TickStep, IdleHandler, HandlerRecord,
     HandlerStep, TickShape, HandlerShape, ErrorRef

-----------------------------------------------------------------------------
(* Rows that start to run or to wait.                                      *)

NoNewRun == \A t \in Task : task'[t].status = "running" => task[t].status = "running"

NoNewWait == \A t \in Task : task'[t].status = "waiting_for_user" => task'[t] = task[t]

\* Operations that start no run and no wait.
QuietOperation ==
    \/ UNCHANGED task
    \/ \E t, r \in Task, p \in Task \cup {NoTask} : Publish(t, p, r)
    \/ \E t \in Task : Complete(t, TRUE)
    \/ \E t \in Task, e \in {"failed", "cancelled"} : Fail(t, e)
    \/ \E t \in Task, a \in Ask : ResumeAfterUser(t, a)
    \/ \E t \in Task, c \in Confirmation : ResumeAfterConfirmation(t, c)
    \/ \E t \in Task : Retry(t)
    \/ \E t \in Task : RequestInterrupt(t)
    \/ \E s \in Session : RecoverInterruptedRunningTasks(s)

\* The rows that end a run or a wait.
LEMMA UpdatedRows ==
    ASSUME NEW row \in TaskDomain, NEW e \in {"failed", "cancelled"}
    PROVE  /\ [row EXCEPT !.status = "done", !.result = TRUE, !.error = "none"] \in TaskDomain
           /\ [row EXCEPT !.status = "done", !.result = TRUE, !.error = "none"].status = "done"
           /\ FailUpdates(row, e) \in TaskDomain /\ FailUpdates(row, e).status = "failed"
           /\ ResumeAfterUserUpdates(row) \in TaskDomain
           /\ ResumeAfterUserUpdates(row).status = "pending"
           /\ RetryUpdates(row) \in TaskDomain /\ RetryUpdates(row).status = "pending"
BY DEF FailUpdates, ResumeAfterUserUpdates, RetryUpdates, TaskDomain, Status, ErrorRef

\* They are operations of the bus and keep rows from running and waiting.
LEMMA QuietRows ==
    ASSUME SystemInv, QuietOperation
    PROVE  [BusNext]_busVars /\ NoNewRun /\ NoNewWait
<1>0. task \in [Task -> TaskDomain]
  BY InvParts
<1>1. CASE UNCHANGED task
  BY <1>1 DEF busVars, NoNewRun, NoNewWait
<1>2. ASSUME NEW t \in Task, NEW row \in TaskDomain, task' = [task EXCEPT ![t] = row],
             row.status \notin {"running", "waiting_for_user"}
      PROVE  NoNewRun /\ NoNewWait
  BY <1>0, <1>2 DEF NoNewRun, NoNewWait
<1>3. ASSUME NEW t \in Task, NEW r \in Task, NEW p \in Task \cup {NoTask}, Publish(t, p, r)
      PROVE  [BusNext]_busVars /\ NoNewRun /\ NoNewWait
  <2>1. BusNext
    BY <1>3 DEF BusNext
  <2>2. PublishedTask(t, p, r) \in TaskDomain /\ PublishedTask(t, p, r).status = "pending"
    BY DEF PublishedTask, UnpublishedTask, TaskDomain, Status, ErrorRef
  <2> QED
    BY <1>2, <1>3, <2>1, <2>2 DEF Publish
<1>4. ASSUME NEW t \in Task, Complete(t, TRUE)
      PROVE  [BusNext]_busVars /\ NoNewRun /\ NoNewWait
  <2>1. BusNext
    BY <1>4 DEF BusNext
  <2> DEFINE row == [task[t] EXCEPT !.status = "done", !.result = TRUE, !.error = "none"]
  <2>2. row \in TaskDomain /\ row.status = "done"
    BY <1>0, UpdatedRows
  <2>3. task' = [task EXCEPT ![t] = row]
    BY <1>0, <1>4 DEF Complete
  <2> QED
    BY <1>2, <2>1, <2>2, <2>3
<1>5. ASSUME NEW t \in Task, NEW e \in {"failed", "cancelled"}, Fail(t, e)
      PROVE  [BusNext]_busVars /\ NoNewRun /\ NoNewWait
  <2>1. BusNext
    BY <1>5 DEF BusNext
  <2>2. FailUpdates(task[t], e) \in TaskDomain /\ FailUpdates(task[t], e).status = "failed"
    BY <1>0, UpdatedRows
  <2> QED
    BY <1>0, <1>2, <1>5, <2>1, <2>2 DEF Fail
<1>6. ASSUME NEW t \in Task,
             \/ \E a \in Ask : ResumeAfterUser(t, a)
             \/ \E c \in Confirmation : ResumeAfterConfirmation(t, c)
      PROVE  [BusNext]_busVars /\ NoNewRun /\ NoNewWait
  <2>1. BusNext
    BY <1>6 DEF BusNext
  <2> DEFINE row == ResumeAfterUserUpdates(task[t])
  <2>2. row \in TaskDomain /\ row.status = "pending"
    BY <1>0, UpdatedRows
  <2>3. task' = [task EXCEPT ![t] = row]
    BY <1>0, <1>6 DEF ResumeAfterUser, ResumeAfterConfirmation
  <2> QED
    BY <1>2, <2>1, <2>2, <2>3
<1>7. ASSUME NEW t \in Task, Retry(t)
      PROVE  [BusNext]_busVars /\ NoNewRun /\ NoNewWait
  <2>1. BusNext
    BY <1>7 DEF BusNext
  <2>2. RetryUpdates(task[t]) \in TaskDomain /\ RetryUpdates(task[t]).status = "pending"
    BY <1>0, UpdatedRows
  <2> QED
    BY <1>0, <1>2, <1>7, <2>1, <2>2 DEF Retry
<1>8. ASSUME NEW t \in Task, RequestInterrupt(t)
      PROVE  [BusNext]_busVars /\ NoNewRun /\ NoNewWait
  <2>1. BusNext
    BY <1>8 DEF BusNext
  <2>2. \A u \in Task : u # t => task'[u] = task[u]
    BY <1>0, <1>8 DEF RequestInterrupt
  <2>3. task'[t].status = "failed" \/ (task[t].status = "running" /\ task'[t].status = "running")
    BY <1>0, <1>8 DEF RequestInterrupt, InterruptUpdates, TaskDomain
  <2> QED
    BY <2>1, <2>2, <2>3 DEF NoNewRun, NoNewWait
<1>9. ASSUME NEW s \in Session, RecoverInterruptedRunningTasks(s)
      PROVE  [BusNext]_busVars /\ NoNewRun /\ NoNewWait
  <2>1. BusNext
    BY <1>9 DEF BusNext
  <2>2. \A t \in Task : task'[t] = task[t] \/ task'[t].status = "failed"
    BY <1>0, <1>9, UpdatedRows
    DEF RecoverInterruptedRunningTasks, RecoverInterruptedRunningUpdates
  <2> QED
    BY <2>1, <2>2 DEF NoNewRun, NoNewWait
<1> QED
  BY <1>1, <1>3, <1>4, <1>5, <1>6, <1>7, <1>8, <1>9 DEF QuietOperation

\* What is waited for stays when nobody starts to wait.
LEMMA WaitsStayBacked ==
    ASSUME SystemInv, StoresGrow, NoNewWait
    PROVE  WaitIsBacked'
<1>1. \A t \in Task : task[t].ask \in Ask \cup {NoAsk}
                      /\ task[t].conf \in Confirmation \cup {NoConfirmation}
  BY InvParts DEF TaskDomain
<1> QED
  BY <1>1, NoneAssumption
  DEF NoNewWait, StoresGrow, AsksGrow, ConfsGrow, WaitIsBacked, SystemInv

RunnersStay ==
    \A v \in Thread :
        pc[v] = "draining" /\ tick[v].step \notin {"select", "claim"} =>
            \/ /\ pc'[v] = "draining"
               /\ tick'[v].task = tick[v].task
               /\ tick'[v].step \notin {"select", "claim"}
            \/ task'[tick[v].task].status # "running"

OrphansStay == \A t \in orphans : task'[t].status = "running" => t \in orphans'

\* Who runs a row goes on with it until it has left `running`.
LEMMA RunningStaysServed ==
    ASSUME SystemInv, NoNewRun, RunnersStay, OrphansStay
    PROVE  RunningHasRunner'
<1> SUFFICES ASSUME NEW t \in Task, task'[t].status = "running", t \notin orphans'
             PROVE  \E w \in Thread : /\ pc'[w] = "draining" /\ tick'[w].task = t
                                      /\ tick'[w].step \notin {"select", "claim"}
  BY DEF RunningHasRunner, Running
<1>1. task[t].status = "running" /\ t \notin orphans
  BY DEF NoNewRun, OrphansStay
<1>2. PICK w \in Thread : Running(w, t)
  BY <1>1 DEF SystemInv, RunningHasRunner
<1> QED
  BY <1>2 DEF Running, RunnersStay

\* Orphans that left `running` are no orphans any more.
LEMMA OrphansSettle ==
    ASSUME SystemInv, SettleOrphans \/ UNCHANGED orphans
    PROVE  OrphansStay /\ orphans' \subseteq Task
BY InvParts DEF SettleOrphans, OrphansStay, RestTypeOK

-----------------------------------------------------------------------------
(* Steps of a tick.                                                        *)

\* A tick moves on and the rest of the process stays.
LEMMA TickStepOK ==
    ASSUME SystemInv, [BusNext]_busVars, AskStep, DispatcherStep, StoresGrow,
           NEW w \in Thread, NEW r \in TickRecord, tick' = [tick EXCEPT ![w] = r],
           TickShape(r, ask', conf'),
           conf' \in [Confirmation -> [task : Task \cup {NoTask}, responses : Nat]],
           SettleOrphans \/ UNCHANGED orphans,
           UNCHANGED <<handler, graceOver, startup, boundVars>>,
           RunningHasRunner', WaitIsBacked'
    PROVE  StepOK
<1>1. tick' \in [Thread -> TickRecord] /\ TickLocals'
  BY TickMoves
<1>2. handler' \in [Handler -> HandlerRecord] /\ HandlerLocals'
  BY HandlersRest
<1>3. RestTypeOK'
  BY <1>1, <1>2, InvParts, OrphansSettle DEF RestTypeOK, boundVars
<1> QED
  BY <1>1, <1>2, <1>3 DEF StepOK

\* A tick that only changes its locals.
LEMMA LocalTick ==
    ASSUME SystemInv, NEW w \in Thread, NEW r \in TickRecord,
           tick' = [tick EXCEPT ![w] = r], TickShape(r, ask, conf),
           \/ tick[w].step \in {"select", "claim"}
           \/ r.step \notin {"select", "claim"} /\ r.task = tick[w].task,
           UNCHANGED <<task, askStoreVars, dispatchVars, orphans>>, TickUnchanged
    PROVE  StepOK
<1>1. StoresGrow
  BY StoresRest DEF TickUnchanged
<1>2. [BusNext]_busVars /\ NoNewRun /\ NoNewWait
  BY QuietRows DEF QuietOperation
<1>3. WaitIsBacked'
  BY <1>1, <1>2, WaitsStayBacked
<1>4. RunnersStay
  BY InvParts DEF RunnersStay, RestTypeOK, dispatchVars
<1>5. RunningHasRunner'
  BY <1>2, <1>4, OrphansSettle, RunningStaysServed
<1>6. AskStep /\ DispatcherStep
  BY IdleIsStoreStep, IdleIsLaneStep
<1>7. TickShape(r, ask', conf')
  BY DEF TickUnchanged, askStoreVars
<1>8. conf' \in [Confirmation -> [task : Task \cup {NoTask}, responses : Nat]]
  BY InvParts DEF RestTypeOK, TickUnchanged
<1> QED
  BY <1>1, <1>2, <1>3, <1>5, <1>6, <1>7, <1>8, TickStepOK DEF TickUnchanged

\* A tick that ends leaves no running row behind.
LEMMA EndedTick ==
    ASSUME SystemInv, NEW w \in Thread, NEW outcome \in Outcome, EndTick(w, outcome),
           QuietOperation,
           \/ tick[w].step \in {"select", "claim"}
           \/ task'[tick[w].task].status # "running",
           SettleOrphans \/ UNCHANGED orphans,
           UNCHANGED askStoreVars, TickUnchanged
    PROVE  StepOK
<1>1. StoresGrow
  BY StoresRest DEF TickUnchanged
<1>2. [BusNext]_busVars /\ NoNewRun /\ NoNewWait
  BY QuietRows
<1>3. WaitIsBacked'
  BY <1>1, <1>2, WaitsStayBacked
<1>4. tick' = [tick EXCEPT ![w] = IdleTick] /\ TickEnds(w, outcome)
  BY DEF EndTick
<1>5. RunnersStay
  <2>1. \A v \in Thread : v # w => tick'[v] = tick[v] /\ pc'[v] = pc[v]
    BY <1>4, InvParts DEF RestTypeOK, TickEnds
  <2> QED
    BY <2>1 DEF RunnersStay
<1>6. RunningHasRunner'
  BY <1>2, <1>5, OrphansSettle, RunningStaysServed
<1>7. AskStep /\ DispatcherStep
  BY <1>4, IdleIsStoreStep, TickEndIsLaneStep
<1>8. conf' \in [Confirmation -> [task : Task \cup {NoTask}, responses : Nat]]
  BY InvParts DEF RestTypeOK, TickUnchanged
<1> QED
  BY <1>1, <1>2, <1>3, <1>4, <1>6, <1>7, <1>8, IdleRecords, TickStepOK DEF TickUnchanged

\* Looking for a candidate.
LEMMA TickSelectOK ==
    ASSUME SystemInv, NEW w \in Thread, TickSelect(w)
    PROVE  StepOK
<1>0. tick[w] \in TickRecord /\ TickShape(tick[w], ask, conf) /\ tick[w].step = "select"
  BY InvParts DEF TickSelect, InTick, RestTypeOK, SystemInv, TickLocals
<1>1. CASE EndTick(w, "stopped")
  BY <1>0, <1>1, EndedTick DEF TickSelect, QuietOperation, Outcome
<1>2. ASSUME NEW t \in Task,
             tick' = [tick EXCEPT ![w] = [@ EXCEPT !.step = "claim", !.cap = CapabilityOf[t]]],
             UNCHANGED dispatchVars
      PROVE  StepOK
  <2> DEFINE r == [tick[w] EXCEPT !.step = "claim", !.cap = CapabilityOf[t]]
  <2>1. r \in TickRecord /\ r.step = "claim" /\ r.steps = tick[w].steps
    BY <1>0, TaskAttributes DEF TickRecord, TickStep
  <2>2. tick' = [tick EXCEPT ![w] = r]
    BY <1>2, InvParts DEF RestTypeOK
  <2>3. TickShape(r, ask, conf)
    BY <1>0, <2>1 DEF TickShape
  <2> QED
    BY <1>0, <1>2, <2>1, <2>2, <2>3, LocalTick DEF TickSelect
<1> QED
  BY <1>1, <1>2 DEF TickSelect, Eligible

\* A safe point.
LEMMA SafePointOK ==
    ASSUME SystemInv, NEW w \in Thread, SafePoint(w)
    PROVE  StepOK
<1>0. tick[w] \in TickRecord /\ TickShape(tick[w], ask, conf) /\ tick[w].step = "safe_point"
  BY InvParts DEF SafePoint, InTick, RestTypeOK, SystemInv, TickLocals
<1> DEFINE r == IF InterruptedRunning(tick[w].task)
                THEN [tick[w] EXCEPT !.step = "fail", !.error = "cancelled"]
                ELSE [tick[w] EXCEPT !.step = "act"]
<1>1. /\ r \in TickRecord /\ r.step \in {"fail", "act"} /\ r.steps = tick[w].steps
      /\ r.task = tick[w].task /\ (r.step = "fail" => r.error = "cancelled")
  BY <1>0 DEF TickRecord, TickStep, ErrorRef
<1>2. tick' = [tick EXCEPT ![w] = r]
  BY InvParts DEF SafePoint, RestTypeOK
<1>3. TickShape(r, ask, conf)
  BY <1>0, <1>1 DEF TickShape
<1> QED
  BY <1>1, <1>2, <1>3, LocalTick DEF SafePoint

\* The locals after a tool that did not block.
LEMMA NextStepRecord ==
    ASSUME SystemInv, NEW w \in Thread, NextStep(w),
           tick[w].step \in {"act", "ask_wait", "confirm_wait"}
    PROVE  \E r \in TickRecord :
              /\ tick' = [tick EXCEPT ![w] = r]
              /\ r.step \notin {"select", "claim"} /\ r.task = tick[w].task
              /\ \A asks, confs : TickShape(r, asks, confs)
<1>0. /\ tick \in [Thread -> TickRecord]
      /\ tick[w] \in TickRecord
      /\ tick[w].steps < MaxSteps /\ tick[w].task \in Task
  BY InvParts DEF RestTypeOK, SystemInv, TickLocals, TickShape
<1> DEFINE n == tick[w].steps + 1
           more == [tick[w] EXCEPT !.step = "safe_point", !.steps = n]
           last == [tick[w] EXCEPT !.step = "fail", !.steps = n, !.error = "failed"]
<1>1. tick[w].steps \in Nat /\ n \in 0 .. MaxSteps
  BY <1>0, BoundsAssumption DEF TickRecord
<1>2. /\ more \in TickRecord /\ more.step = "safe_point" /\ more.task = tick[w].task
      /\ more.steps = n
  BY <1>0, <1>1 DEF TickRecord, TickStep
<1>3. /\ last \in TickRecord /\ last.step = "fail" /\ last.task = tick[w].task
      /\ last.error = "failed"
  BY <1>0, <1>1 DEF TickRecord, TickStep, ErrorRef
<1>4. CASE n < MaxSteps
  <2>1. tick' = [tick EXCEPT ![w] = more]
    BY <1>0, <1>4 DEF NextStep
  <2>2. \A asks, confs : TickShape(more, asks, confs)
    BY <1>0, <1>2, <1>4 DEF TickShape
  <2> QED
    BY <1>2, <2>1, <2>2
<1>5. CASE ~(n < MaxSteps)
  <2>1. tick' = [tick EXCEPT ![w] = last]
    BY <1>0, <1>5 DEF NextStep
  <2>2. \A asks, confs : TickShape(last, asks, confs)
    BY <1>0, <1>3 DEF TickShape
  <2> QED
    BY <1>3, <2>1, <2>2
<1> QED
  BY <1>4, <1>5

\* The claimed row has its runner at once.
LEMMA TickClaimOK ==
    ASSUME SystemInv, NEW w \in Thread, TickClaim(w)
    PROVE  StepOK
<1>0. /\ tick \in [Thread -> TickRecord] /\ task \in [Task -> TaskDomain]
      /\ tick[w] \in TickRecord /\ tick[w].step = "claim" /\ tick[w].steps < MaxSteps
      /\ pc[w] = "draining"
  BY InvParts DEF TickClaim, InTick, RestTypeOK, SystemInv, TickLocals, TickShape
<1>1. CASE EndTick(w, "stopped") /\ UNCHANGED task
  BY <1>0, <1>1, EndedTick DEF TickClaim, QuietOperation, Outcome
<1>2. ASSUME NEW t \in Task, NEW agent \in Agent,
             IsNext(t, current[w], tick[w].cap), ClaimTask(t, agent),
             tick' = [tick EXCEPT ![w] = [@ EXCEPT !.step = "safe_point", !.task = t]],
             UNCHANGED dispatchVars
      PROVE  StepOK
  <2> DEFINE r == [tick[w] EXCEPT !.step = "safe_point", !.task = t]
  <2>1. r \in TickRecord /\ r.step = "safe_point" /\ r.steps = tick[w].steps /\ r.task = t
    BY <1>0 DEF TickRecord, TickStep
  <2>2. tick' = [tick EXCEPT ![w] = r]
    BY <1>0, <1>2
  <2>3. TickShape(r, ask', conf')
    BY <1>0, <2>1 DEF TickShape
  <2>4. StoresGrow
    BY StoresRest DEF TickClaim, TickUnchanged
  <2>5. BusNext
    <3>1. current[w] \in Session /\ tick[w].cap \in Capability
      BY <1>0, <1>2, TaskAttributes DEF IsNext, Claimable, Eligible, TickRecord
    <3>2. ClaimNext(current[w], tick[w].cap, agent)
      BY <1>2 DEF ClaimNext
    <3> QED
      BY <3>1, <3>2 DEF BusNext
  <2>6. \A u \in Task : u # t => task'[u] = task[u]
    BY <1>0, <1>2 DEF ClaimTask
  <2>7. task'[t].status = "running"
    BY <1>0, <1>2 DEF ClaimTask, TaskDomain
  <2>8. WaitIsBacked'
    BY <2>4, <2>6, <2>7, WaitsStayBacked DEF NoNewWait
  <2>9. RunningHasRunner'
    <3> SUFFICES ASSUME NEW u \in Task, task'[u].status = "running", u \notin orphans'
                 PROVE  \E v \in Thread : /\ pc'[v] = "draining" /\ tick'[v].task = u
                                          /\ tick'[v].step \notin {"select", "claim"}
      BY DEF RunningHasRunner, Running
    <3>1. CASE u = t
      BY <1>0, <1>2, <2>1, <2>2, <3>1 DEF dispatchVars
    <3>2. CASE u # t
      <4>1. task[u].status = "running" /\ u \notin orphans
        BY <2>6, <3>2 DEF TickClaim, SettleOrphans
      <4>2. PICK v \in Thread : Running(v, u)
        BY <4>1 DEF SystemInv, RunningHasRunner
      <4>3. v # w
        BY <1>0, <4>2 DEF Running
      <4> QED
        BY <1>0, <1>2, <2>2, <4>2, <4>3 DEF Running, dispatchVars
    <3> QED
      BY <3>1, <3>2
  <2>10. AskStep /\ DispatcherStep
    BY <1>2, IdleIsStoreStep, IdleIsLaneStep DEF TickClaim
  <2>11. conf' \in [Confirmation -> [task : Task \cup {NoTask}, responses : Nat]]
    BY InvParts DEF RestTypeOK, TickClaim, TickUnchanged
  <2> QED
    BY <2>1, <2>2, <2>3, <2>4, <2>5, <2>8, <2>9, <2>10, <2>11, TickStepOK
    DEF TickClaim, TickUnchanged
<1> QED
  BY <1>1, <1>2 DEF TickClaim

\* An iteration of the loop with ordinary tools.
LEMMA RunToolsOK ==
    ASSUME SystemInv, NEW w \in Thread, RunTools(w)
    PROVE  StepOK
<1>1. PICK r \in TickRecord :
         /\ tick' = [tick EXCEPT ![w] = r]
         /\ r.step \notin {"select", "claim"} /\ r.task = tick[w].task
         /\ \A asks, confs : TickShape(r, asks, confs)
  BY NextStepRecord DEF RunTools, InTick
<1>2. TickShape(r, ask, conf)
  BY <1>1
<1> QED
  BY <1>1, <1>2, LocalTick DEF RunTools

\* The end of a run.
LEMMA RunEndsOK ==
    ASSUME SystemInv, NEW w \in Thread, RunEnds(w)
    PROVE  StepOK
<1>0. /\ tick \in [Thread -> TickRecord] /\ tick[w] \in TickRecord
      /\ TickShape(tick[w], ask, conf) /\ tick[w].step = "act"
  BY InvParts DEF RunEnds, InTick, RestTypeOK, SystemInv, TickLocals
<1> DEFINE good == [tick[w] EXCEPT !.step = "complete"]
           bad == [tick[w] EXCEPT !.step = "fail", !.error = "failed"]
<1>1. /\ good \in TickRecord /\ good.step = "complete" /\ good.task = tick[w].task
      /\ bad \in TickRecord /\ bad.step = "fail" /\ bad.task = tick[w].task
      /\ bad.error = "failed"
  BY <1>0 DEF TickRecord, TickStep, ErrorRef
<1>2. TickShape(good, ask, conf) /\ TickShape(bad, ask, conf)
  BY <1>0, <1>1 DEF TickShape
<1>3. tick' = [tick EXCEPT ![w] = good] \/ tick' = [tick EXCEPT ![w] = bad]
  BY <1>0 DEF RunEnds, GoTo
<1>4. CASE tick' = [tick EXCEPT ![w] = good]
  BY <1>1, <1>2, <1>4, LocalTick DEF RunEnds
<1>5. CASE tick' = [tick EXCEPT ![w] = bad]
  BY <1>1, <1>2, <1>5, LocalTick DEF RunEnds
<1> QED
  BY <1>3, <1>4, <1>5

\* A tick that moves on with its row, beside a change of the stores that
\* starts no run.
LEMMA RunGoesOn ==
    ASSUME SystemInv, [BusNext]_busVars, AskStep, StoresGrow, NEW w \in Thread,
           NEW r \in TickRecord, tick' = [tick EXCEPT ![w] = r], TickShape(r, ask', conf'),
           r.step \notin {"select", "claim"}, r.task = tick[w].task,
           conf' \in [Confirmation -> [task : Task \cup {NoTask}, responses : Nat]],
           SettleOrphans \/ UNCHANGED orphans,
           UNCHANGED <<dispatchVars, handler, graceOver, startup, boundVars>>,
           NoNewRun, WaitIsBacked'
    PROVE  StepOK
<1>1. RunnersStay
  BY InvParts DEF RunnersStay, RestTypeOK, dispatchVars
<1>2. RunningHasRunner'
  BY <1>1, OrphansSettle, RunningStaysServed
<1>3. DispatcherStep
  BY IdleIsLaneStep
<1> QED
  BY <1>2, <1>3, TickStepOK

\* The ask tool stores the question for the task of the run.
LEMMA AskToolOK ==
    ASSUME SystemInv, NEW w \in Thread, NEW a \in Ask, AskTool(w, a)
    PROVE  StepOK
<1>0. /\ tick \in [Thread -> TickRecord] /\ ask \in [Ask -> AskRequest]
      /\ tick[w] \in TickRecord /\ tick[w].step = "act"
      /\ tick[w].task \in Task /\ tick[w].steps < MaxSteps
  BY InvParts DEF AskTool, InTick, RestTypeOK, SystemInv, TickLocals, TickShape
<1> DEFINE r == [tick[w] EXCEPT !.step = "ask_wait", !.ask = a]
<1>1. /\ r \in TickRecord /\ r.step = "ask_wait" /\ r.steps = tick[w].steps
      /\ r.task = tick[w].task /\ r.ask = a
  BY <1>0 DEF TickRecord, TickStep
<1>2. tick' = [tick EXCEPT ![w] = r]
  BY <1>0 DEF AskTool
<1>3. CreateAsk(a, tick[w].task) /\ UNCHANGED <<task, conf>>
  BY DEF AskTool, TickUnchanged
<1>4. ask'[a].task = tick[w].task
  BY <1>0, <1>3 DEF CreateAsk, AskRequest
<1>5. TickShape(r, ask', conf')
  BY <1>0, <1>1, <1>4 DEF TickShape
<1>6. StoresGrow
  BY <1>0, <1>3, StoreGrows, ConfsRest DEF StoresGrow, SystemInv
<1>7. AskStep
  BY <1>0, <1>3, CreateIsStoreStep
<1>8. [BusNext]_busVars /\ NoNewRun /\ NoNewWait
  BY <1>3, QuietRows DEF QuietOperation
<1>9. WaitIsBacked'
  BY <1>6, <1>8, WaitsStayBacked
<1>10. conf' \in [Confirmation -> [task : Task \cup {NoTask}, responses : Nat]]
  BY <1>3, InvParts DEF RestTypeOK
<1> QED
  BY <1>1, <1>2, <1>5, <1>6, <1>7, <1>8, <1>9, <1>10, RunGoesOn DEF AskTool, TickUnchanged

\* A wait that failed is a step without a change of the row.
LEMMA FailedWait ==
    ASSUME SystemInv, NEW w \in Thread, NextStep(w),
           tick[w].step \in {"ask_wait", "confirm_wait"}, UNCHANGED task,
           UNCHANGED <<askStoreVars, dispatchVars>>, TickUnchanged, SettleOrphans
    PROVE  StepOK
<1>1. PICK r \in TickRecord :
         /\ tick' = [tick EXCEPT ![w] = r]
         /\ r.step \notin {"select", "claim"} /\ r.task = tick[w].task
         /\ \A asks, confs : TickShape(r, asks, confs)
  BY NextStepRecord
<1>2. StoresGrow
  BY StoresRest DEF TickUnchanged
<1>3. [BusNext]_busVars /\ NoNewRun /\ NoNewWait
  BY QuietRows DEF QuietOperation
<1>4. WaitIsBacked'
  BY <1>2, <1>3, WaitsStayBacked
<1>5. AskStep
  BY IdleIsStoreStep
<1>6. conf' \in [Confirmation -> [task : Task \cup {NoTask}, responses : Nat]]
  BY InvParts DEF RestTypeOK, TickUnchanged
<1> QED
  BY <1>1, <1>2, <1>3, <1>4, <1>5, <1>6, RunGoesOn DEF TickUnchanged

\* A row that starts to wait for what the stores hold for it.
LEMMA NewWait ==
    ASSUME SystemInv, NEW w \in Thread, NEW t \in Task, NEW row \in TaskDomain,
           tick[w].task = t, tick[w].step \notin {"select", "claim"},
           task' = [task EXCEPT ![t] = row], BusNext,
           row.status = "waiting_for_user",
           row.ask # NoAsk => ask[row.ask].status # "absent" /\ ask[row.ask].task = t,
           row.conf # NoConfirmation => conf[row.conf].task = t,
           GoTo(w, "wait_check"),
           UNCHANGED <<askStoreVars, dispatchVars>>, TickUnchanged, SettleOrphans
    PROVE  StepOK
<1>0. /\ tick \in [Thread -> TickRecord] /\ tick[w] \in TickRecord
      /\ task \in [Task -> TaskDomain]
  BY InvParts DEF RestTypeOK
<1> DEFINE r == [tick[w] EXCEPT !.step = "wait_check"]
<1>1. r \in TickRecord /\ r.step = "wait_check" /\ r.task = t
  BY <1>0 DEF TickRecord, TickStep
<1>2. tick' = [tick EXCEPT ![w] = r]
  BY <1>0 DEF GoTo
<1>3. TickShape(r, ask', conf')
  BY <1>1 DEF TickShape
<1>4. StoresGrow
  BY StoresRest DEF TickUnchanged
<1>5. task'[t] = row /\ \A u \in Task : u # t => task'[u] = task[u]
  BY <1>0
<1>6. NoNewRun
  BY <1>5 DEF NoNewRun
<1>7. WaitIsBacked'
  <2> SUFFICES ASSUME NEW u \in Task, task'[u].status = "waiting_for_user"
               PROVE  /\ task'[u].ask # NoAsk =>
                            ask'[task'[u].ask].status # "absent" /\ ask'[task'[u].ask].task = u
                      /\ task'[u].conf # NoConfirmation => conf'[task'[u].conf].task = u
    BY DEF WaitIsBacked
  <2>1. ask' = ask /\ conf' = conf
    BY DEF askStoreVars, TickUnchanged
  <2>2. CASE u = t
    BY <1>5, <2>1, <2>2
  <2>3. CASE u # t
    BY <1>5, <2>1, <2>3 DEF SystemInv, WaitIsBacked
  <2> QED
    BY <2>2, <2>3
<1>8. AskStep
  BY IdleIsStoreStep
<1>9. conf' \in [Confirmation -> [task : Task \cup {NoTask}, responses : Nat]]
  BY InvParts DEF RestTypeOK, TickUnchanged
<1> QED
  BY <1>1, <1>2, <1>3, <1>4, <1>6, <1>7, <1>8, <1>9, RunGoesOn DEF TickUnchanged

\* The ask tool makes the row wait for the question it stored.
LEMMA AskToolWaitOK ==
    ASSUME SystemInv, NEW w \in Thread, AskToolWait(w)
    PROVE  StepOK
<1> DEFINE t == tick[w].task  a == tick[w].ask
<1>0. /\ tick[w].step = "ask_wait" /\ t \in Task /\ a \in Ask /\ ask[a].task = t
      /\ task[t] \in TaskDomain /\ task \in [Task -> TaskDomain]
  BY InvParts DEF AskToolWait, InTick, SystemInv, TickLocals, TickShape
<1>1. ask[a].status # "absent"
  BY <1>0, NoneAssumption DEF SystemInv, AskInv, AskRowShape
<1>2. CASE WaitForUser(t, a) /\ GoTo(w, "wait_check")
  <2> DEFINE row == WaitForUserUpdates(task[t], a)
  <2>1. /\ row \in TaskDomain /\ row.status = "waiting_for_user"
        /\ row.ask = a /\ row.conf = NoConfirmation
    BY <1>0 DEF WaitForUserUpdates, TaskDomain, Status, ErrorRef
  <2>2. BusNext /\ task' = [task EXCEPT ![t] = row]
    BY <1>0, <1>2 DEF BusNext, WaitForUser
  <2> QED
    BY <1>0, <1>1, <1>2, <2>1, <2>2, NewWait DEF AskToolWait
<1>3. CASE NextStep(w) /\ UNCHANGED task
  BY <1>0, <1>3, FailedWait DEF AskToolWait
<1> QED
  BY <1>2, <1>3 DEF AskToolWait

\* The confirmation tool stores the message for the task of the run.
LEMMA ConfirmToolOK ==
    ASSUME SystemInv, NEW w \in Thread, NEW c \in Confirmation, ConfirmTool(w, c)
    PROVE  StepOK
<1> DEFINE Conf == [task : Task \cup {NoTask}, responses : Nat]
<1>0. /\ tick \in [Thread -> TickRecord] /\ conf \in [Confirmation -> Conf]
      /\ tick[w] \in TickRecord /\ tick[w].step = "act"
      /\ tick[w].task \in Task /\ tick[w].steps < MaxSteps
  BY InvParts DEF ConfirmTool, InTick, RestTypeOK, SystemInv, TickLocals, TickShape
<1> DEFINE r == [tick[w] EXCEPT !.step = "confirm_wait", !.conf = c]
<1>1. /\ r \in TickRecord /\ r.step = "confirm_wait" /\ r.steps = tick[w].steps
      /\ r.task = tick[w].task /\ r.conf = c
  BY <1>0 DEF TickRecord, TickStep
<1>2. tick' = [tick EXCEPT ![w] = r]
  BY <1>0 DEF ConfirmTool
<1>3. /\ conf[c].task = NoTask /\ conf' = [conf EXCEPT ![c].task = tick[w].task]
      /\ UNCHANGED <<task, askStoreVars>>
  BY DEF ConfirmTool
<1>4. conf' \in [Confirmation -> Conf] /\ conf'[c].task = tick[w].task
      /\ ConfsGrow(conf, conf')
  BY <1>0, <1>3 DEF ConfsGrow
<1>5. TickShape(r, ask', conf')
  BY <1>0, <1>1, <1>4 DEF TickShape
<1>6. StoresGrow
  BY <1>3, <1>4, StoreGrows DEF StoresGrow, SystemInv
<1>7. AskStep
  BY <1>3, IdleIsStoreStep
<1>8. [BusNext]_busVars /\ NoNewRun /\ NoNewWait
  BY <1>3, QuietRows DEF QuietOperation
<1>9. WaitIsBacked'
  BY <1>6, <1>8, WaitsStayBacked
<1> QED
  BY <1>1, <1>2, <1>4, <1>5, <1>6, <1>7, <1>8, <1>9, RunGoesOn DEF ConfirmTool

\* The confirmation tool makes the row wait for the message it stored.
LEMMA ConfirmToolWaitOK ==
    ASSUME SystemInv, NEW w \in Thread, ConfirmToolWait(w)
    PROVE  StepOK
<1> DEFINE t == tick[w].task  c == tick[w].conf
<1>0. /\ tick[w].step = "confirm_wait" /\ t \in Task /\ c \in Confirmation
      /\ conf[c].task = t /\ task[t] \in TaskDomain /\ task \in [Task -> TaskDomain]
  BY InvParts DEF ConfirmToolWait, InTick, SystemInv, TickLocals, TickShape
<1>1. CASE WaitForConfirmation(t, c) /\ GoTo(w, "wait_check")
  <2> DEFINE row == WaitForUserConfirmationUpdates(task[t], c)
  <2>1. /\ row \in TaskDomain /\ row.status = "waiting_for_user"
        /\ row.ask = NoAsk /\ row.conf = c
    BY <1>0 DEF WaitForUserConfirmationUpdates, TaskDomain, Status, ErrorRef
  <2>2. BusNext /\ task' = [task EXCEPT ![t] = row]
    BY <1>0, <1>1 DEF BusNext, WaitForConfirmation
  <2> QED
    BY <1>0, <1>1, <2>1, <2>2, NewWait DEF ConfirmToolWait
<1>2. CASE NextStep(w) /\ UNCHANGED task
  BY <1>0, <1>2, FailedWait DEF ConfirmToolWait
<1> QED
  BY <1>1, <1>2 DEF ConfirmToolWait

\* A run that said it waits, and a row that runs again, is failed.
LEMMA WaitCheckOK ==
    ASSUME SystemInv, NEW w \in Thread, WaitCheck(w)
    PROVE  StepOK
<1>0. /\ tick \in [Thread -> TickRecord] /\ tick[w] \in TickRecord
      /\ tick[w].step = "wait_check" /\ tick[w].task \in Task
  BY InvParts DEF WaitCheck, InTick, RestTypeOK, SystemInv, TickLocals, TickShape
<1>1. CASE task[tick[w].task].status = "running"
  <2> DEFINE r == [tick[w] EXCEPT !.step = "fail", !.error = "failed"]
  <2>1. /\ r \in TickRecord /\ r.step = "fail" /\ r.error = "failed"
        /\ r.task = tick[w].task
    BY <1>0 DEF TickRecord, TickStep, ErrorRef
  <2>2. tick' = [tick EXCEPT ![w] = r]
    BY <1>0, <1>1 DEF WaitCheck
  <2>3. TickShape(r, ask, conf)
    BY <1>0, <2>1 DEF TickShape
  <2> QED
    BY <1>1, <2>1, <2>2, <2>3, LocalTick DEF WaitCheck
<1>2. CASE task[tick[w].task].status # "running"
  BY <1>2, EndedTick DEF WaitCheck, QuietOperation, Outcome
<1> QED
  BY <1>1, <1>2

\* complete() at the end of a tick, or the exception it raises.
LEMMA TickCompletesOK ==
    ASSUME SystemInv, NEW w \in Thread, TickCompletes(w)
    PROVE  StepOK
<1> DEFINE t == tick[w].task
<1>0. t \in Task /\ task \in [Task -> TaskDomain]
  BY InvParts DEF TickCompletes, InTick, SystemInv, TickLocals, TickShape
<1>1. CASE CanComplete(t)
  <2>1. Complete(t, TRUE) /\ EndTick(w, "completed")
    BY <1>1 DEF TickCompletes
  <2>2. task'[t].status = "done"
    BY <1>0, <2>1 DEF Complete, TaskDomain
  <2> QED
    BY <1>0, <2>1, <2>2, EndedTick DEF TickCompletes, QuietOperation, Outcome
<1>2. CASE ~CanComplete(t)
  <2>1. UNCHANGED task /\ EndTick(w, "raised") /\ task[t].status # "running"
    BY <1>2 DEF TickCompletes, CanComplete
  <2> QED
    BY <2>1, EndedTick DEF TickCompletes, QuietOperation, Outcome
<1> QED
  BY <1>1, <1>2

\* fail() at the end of a tick, or the exception it raises.
LEMMA TickFailsOK ==
    ASSUME SystemInv, NEW w \in Thread, TickFails(w)
    PROVE  StepOK
<1> DEFINE t == tick[w].task
<1>0. /\ t \in Task /\ task[t] \in TaskDomain /\ task \in [Task -> TaskDomain]
      /\ tick[w].error \in {"failed", "cancelled"}
  BY InvParts DEF TickFails, InTick, SystemInv, TickLocals, TickShape
<1>1. CASE CanFail(t)
  <2>1. Fail(t, tick[w].error) /\ EndTick(w, "stopped")
    BY <1>1 DEF TickFails
  <2>2. task'[t].status = "failed"
    BY <1>0, <2>1, UpdatedRows DEF Fail
  <2> QED
    BY <1>0, <2>1, <2>2, EndedTick DEF TickFails, QuietOperation, Outcome
<1>2. CASE ~CanFail(t)
  <2>1. UNCHANGED task /\ EndTick(w, "raised") /\ task[t].status # "running"
    BY <1>2 DEF TickFails, CanFail
  <2> QED
    BY <2>1, EndedTick DEF TickFails, QuietOperation, Outcome
<1> QED
  BY <1>1, <1>2

\* The dispatcher's own steps leave the ticks and the stores alone.
LEMMA WorkerLoopOK ==
    ASSUME SystemInv, NEW w \in Thread, WorkerLoopAction(w)
    PROVE  StepOK
<1>1. StoresGrow
  BY StoresRest DEF WorkerLoopAction
<1>2. [BusNext]_busVars /\ NoNewRun /\ NoNewWait
  BY QuietRows DEF QuietOperation, WorkerLoopAction
<1>3. WaitIsBacked'
  BY <1>1, <1>2, WaitsStayBacked
<1>4. RunnersStay
  BY InvParts, DrainsGoOn DEF WorkerLoopAction, RunnersStay
<1>5. RunningHasRunner'
  BY <1>2, <1>4, OrphansSettle, RunningStaysServed DEF WorkerLoopAction
<1>6. AskStep /\ DispatcherStep
  BY IdleIsStoreStep, LoopIsLaneStep DEF WorkerLoopAction
<1>7. RestTypeOK' /\ TickLocals' /\ HandlerLocals'
  BY <1>1, InvParts, TicksRest, HandlersRest DEF WorkerLoopAction, RestTypeOK, boundVars
<1> QED
  BY <1>2, <1>3, <1>5, <1>6, <1>7 DEF StepOK

-----------------------------------------------------------------------------
(* Steps of a handler.                                                     *)

\* A handler moves on, the ticks stay, and the rows start nothing.
LEMMA HandlerStepOK ==
    ASSUME SystemInv, QuietOperation, AskStep, DispatcherStep, StoresGrow,
           \A v \in Thread : pc[v] = "draining" => pc'[v] = "draining",
           NEW h \in Handler, NEW r \in HandlerRecord,
           handler' = [handler EXCEPT ![h] = r], HandlerShape(r, ask', conf'),
           conf' \in [Confirmation -> [task : Task \cup {NoTask}, responses : Nat]],
           UNCHANGED <<tick, startup, crashes>>, graceOver' \subseteq Task,
           commands' \in 0 .. MaxCommands, SettleOrphans \/ UNCHANGED orphans
    PROVE  StepOK
<1>1. [BusNext]_busVars /\ NoNewRun /\ NoNewWait
  BY QuietRows
<1>2. WaitIsBacked'
  BY <1>1, WaitsStayBacked
<1>3. RunnersStay
  BY DEF RunnersStay
<1>4. RunningHasRunner'
  BY <1>1, <1>3, OrphansSettle, RunningStaysServed
<1>5. handler' \in [Handler -> HandlerRecord] /\ HandlerLocals'
  BY HandlerMoves
<1>6. tick' \in [Thread -> TickRecord] /\ TickLocals'
  BY TicksRest
<1>7. RestTypeOK'
  BY <1>5, <1>6, InvParts, OrphansSettle DEF RestTypeOK
<1> QED
  BY <1>1, <1>2, <1>4, <1>5, <1>6, <1>7 DEF StepOK

\* What a handler that changes nothing but its locals and rows has to show.
LEMMA BusHandlerOK ==
    ASSUME SystemInv, QuietOperation, UNCHANGED <<askStoreVars, dispatchVars, conf>>,
           NEW h \in Handler, NEW r \in HandlerRecord,
           handler' = [handler EXCEPT ![h] = r], HandlerShape(r, ask, conf),
           UNCHANGED <<tick, startup, crashes>>, graceOver' \subseteq Task,
           commands' \in 0 .. MaxCommands, SettleOrphans \/ UNCHANGED orphans
    PROVE  StepOK
<1>1. StoresGrow
  BY StoresRest
<1>2. AskStep /\ DispatcherStep
  BY IdleIsStoreStep, IdleIsLaneStep
<1>3. HandlerShape(r, ask', conf')
  BY DEF askStoreVars
<1>4. conf' \in [Confirmation -> [task : Task \cup {NoTask}, responses : Nat]]
  BY InvParts DEF RestTypeOK
<1>5. pc' = pc
  BY DEF dispatchVars
<1> QED
  BY <1>1, <1>2, <1>3, <1>4, <1>5, HandlerStepOK

\* A handler that requests a dispatch.
LEMMA DispatchingHandlerOK ==
    ASSUME SystemInv, NEW s \in Session, RequestDispatch(s),
           UNCHANGED <<task, askStoreVars, conf>>,
           NEW h \in Handler, NEW r \in HandlerRecord,
           handler' = [handler EXCEPT ![h] = r], HandlerShape(r, ask, conf),
           UNCHANGED <<tick, startup, crashes, graceOver, orphans>>,
           commands' \in 0 .. MaxCommands
    PROVE  StepOK
<1>1. StoresGrow
  BY StoresRest
<1>2. AskStep /\ DispatcherStep
  BY IdleIsStoreStep, RequestIsLaneStep
<1>3. HandlerShape(r, ask', conf')
  BY DEF askStoreVars
<1>4. /\ conf' \in [Confirmation -> [task : Task \cup {NoTask}, responses : Nat]]
      /\ graceOver' \subseteq Task
  BY InvParts DEF RestTypeOK
<1>5. \A v \in Thread : pc[v] = "draining" => pc'[v] = "draining"
  BY InvParts, DrainsGoOn
<1>6. QuietOperation
  BY DEF QuietOperation
<1> QED
  BY <1>1, <1>2, <1>3, <1>4, <1>5, <1>6, HandlerStepOK

\* The locals of a handler, and what a command starts from.
LEMMA HandlerParts ==
    ASSUME SystemInv, NEW h \in Handler
    PROVE  /\ handler \in [Handler -> HandlerRecord]
           /\ handler[h] \in HandlerRecord /\ HandlerShape(handler[h], ask, conf)
           /\ handler = [handler EXCEPT ![h] = handler[h]]
           /\ graceOver \subseteq Task
           /\ commands \in 0 .. MaxCommands
           /\ StartCommand(h) => commands' \in 0 .. MaxCommands /\ handler[h].step = "idle"
<1>1. /\ handler \in [Handler -> HandlerRecord] /\ handler[h] \in HandlerRecord
      /\ HandlerShape(handler[h], ask, conf) /\ graceOver \subseteq Task
      /\ commands \in 0 .. MaxCommands
  BY InvParts DEF RestTypeOK, SystemInv, HandlerLocals
<1>2. StartCommand(h) => commands' \in 0 .. MaxCommands /\ handler[h].step = "idle"
  BY <1>1, BoundsAssumption DEF StartCommand
<1> QED
  BY <1>1, <1>2

\* The locals of a handler that is to dispatch the session of a task.
LEMMA ThenDispatchRecord ==
    ASSUME SystemInv, NEW h \in Handler, NEW t \in Task, NEW start \in BOOLEAN,
           handler[h].step = "idle", ThenDispatch(h, t, start)
    PROVE  \E r \in HandlerRecord : /\ handler' = [handler EXCEPT ![h] = r]
                                    /\ HandlerShape(r, ask, conf)
<1>0. /\ handler \in [Handler -> HandlerRecord] /\ handler[h] \in HandlerRecord
      /\ HandlerShape(handler[h], ask, conf) /\ SessionOf[t] \in Session
  BY HandlerParts, TaskAttributes
<1>1. CASE start
  <2> DEFINE r == [handler[h] EXCEPT !.step = "dispatch", !.task = t, !.session = SessionOf[t]]
  <2>1. /\ r \in HandlerRecord /\ r.step = "dispatch" /\ r.session = SessionOf[t]
        /\ r.asks = handler[h].asks
    BY <1>0 DEF HandlerRecord, HandlerStep
  <2>2. handler' = [handler EXCEPT ![h] = r]
    BY <1>0, <1>1 DEF ThenDispatch
  <2>3. HandlerShape(r, ask, conf)
    BY <1>0, <2>1 DEF HandlerShape
  <2> QED
    BY <2>1, <2>2, <2>3
<1>2. CASE ~start
  BY <1>0, <1>2, HandlerParts DEF ThenDispatch, HandlerStays
<1> QED
  BY <1>1, <1>2

\* Publishing a task.
LEMMA PublishCommandOK ==
    ASSUME SystemInv, NEW h \in Handler, NEW t \in Task, NEW r \in Task,
           NEW p \in Task \cup {NoTask}, NEW start \in BOOLEAN,
           PublishCommand(h, t, p, r, start)
    PROVE  StepOK
<1>1. PICK q \in HandlerRecord : /\ handler' = [handler EXCEPT ![h] = q]
                                 /\ HandlerShape(q, ask, conf)
  BY ThenDispatchRecord DEF PublishCommand, StartCommand
<1>2. QuietOperation
  BY DEF PublishCommand, QuietOperation
<1> QED
  BY <1>1, <1>2, HandlerParts, BusHandlerOK DEF PublishCommand, StartCommand

\* Retrying a failed task.
LEMMA RetryCommandOK ==
    ASSUME SystemInv, NEW h \in Handler, NEW t \in Task, NEW start \in BOOLEAN,
           RetryCommand(h, t, start)
    PROVE  StepOK
<1>1. PICK q \in HandlerRecord : /\ handler' = [handler EXCEPT ![h] = q]
                                 /\ HandlerShape(q, ask, conf)
  BY ThenDispatchRecord DEF RetryCommand, StartCommand
<1>2. QuietOperation
  BY DEF RetryCommand, QuietOperation
<1>3. graceOver' \subseteq Task
  BY HandlerParts DEF RetryCommand
<1> QED
  BY <1>1, <1>2, <1>3, HandlerParts, BusHandlerOK DEF RetryCommand, StartCommand

\* Stopping a task.
LEMMA StopCommandOK ==
    ASSUME SystemInv, NEW h \in Handler, NEW t \in Task, StopCommand(h, t)
    PROVE  StepOK
<1>1. QuietOperation
  BY DEF StopCommand, QuietOperation
<1>2. graceOver' \subseteq Task
  BY HandlerParts DEF StopCommand
<1> QED
  BY <1>1, <1>2, HandlerParts, BusHandlerOK DEF StopCommand, StartCommand, HandlerStays

\* Asking for a dispatch, at once or as the second step of a command.
LEMMA DispatchCommandOK ==
    ASSUME SystemInv, NEW h \in Handler, NEW s \in Session, DispatchCommand(h, s)
    PROVE  StepOK
BY HandlerParts, DispatchingHandlerOK DEF DispatchCommand, StartCommand, HandlerStays

\* The second step.
LEMMA HandlerDispatchesOK ==
    ASSUME SystemInv, NEW h \in Handler, HandlerDispatches(h)
    PROVE  StepOK
<1>1. handler[h].session \in Session
  BY HandlerParts DEF HandlerDispatches, At, HandlerShape
<1> QED
  BY <1>1, HandlerParts, IdleRecords, DispatchingHandlerOK
  DEF HandlerDispatches, Finish, boundVars

\* A command on an ASK that exists.
LEMMA AskCommandOK ==
    ASSUME SystemInv, NEW h \in Handler, StartCommand(h), NEW a \in Ask,
           ask[a].status # "absent",
           NEW kind \in {"answer", "defer", "cancel"}, NEW k \in AskKey \cup {NoKey},
           NEW ans \in Answer, AskCommand(kind, SessionOf[ask[a].task], a, k, ans),
           UNCHANGED <<task, dispatchVars, graceOver, orphans>>,
           NEW r \in HandlerRecord, handler' = [handler EXCEPT ![h] = r],
           StoresGrow => HandlerShape(r, ask', conf')
    PROVE  StepOK
<1>1. SessionOf[ask[a].task] \in Session
  BY InvParts, TaskAttributes
<1>2. AskStep
  BY <1>1, CommandIsStoreStep
<1>3. StoresGrow
  BY <1>1, StoreGrows, ConfsRest DEF StoresGrow, SystemInv, StartCommand
<1>4. DispatcherStep /\ pc' = pc
  BY IdleIsLaneStep DEF dispatchVars
<1>5. QuietOperation
  BY DEF QuietOperation
<1>6. conf' \in [Confirmation -> [task : Task \cup {NoTask}, responses : Nat]]
  BY InvParts DEF RestTypeOK, StartCommand
<1> QED
  BY <1>2, <1>3, <1>4, <1>5, <1>6, HandlerParts, HandlerStepOK DEF StartCommand

\* Answering an ASK: an accepted answer is stored when the handler goes on to
\* resume the task.
LEMMA AnswerCommandOK ==
    ASSUME SystemInv, NEW h \in Handler, NEW a \in Ask, NEW k \in AskKey \cup {NoKey},
           NEW ans \in Answer, AnswerCommand(h, a, k, ans)
    PROVE  StepOK
<1> DEFINE s == SessionOf[ask[a].task]
           status == AskResult("answer", s, a, k, ans).status
           step == IF status = "accepted" THEN "resume" ELSE "dispatch"
           r == [handler[h] EXCEPT !.step = step, !.task = ask[a].task, !.ask = a, !.session = s]
<1>0. /\ handler \in [Handler -> HandlerRecord] /\ handler[h] \in HandlerRecord
      /\ ask \in [Ask -> AskRequest] /\ ask[a] \in AskRequest
      /\ ask[a].task \in Task /\ s \in Session /\ ask[a].status # "absent"
      /\ StartCommand(h) /\ AskCommand("answer", s, a, k, ans)
      /\ UNCHANGED <<task, dispatchVars, graceOver, orphans>>
  BY HandlerParts, InvParts, TaskAttributes DEF AnswerCommand
<1>1. CASE status = "rejected"
  <2>1. handler' = [handler EXCEPT ![h] = handler[h]]
    BY <1>1, HandlerParts DEF AnswerCommand, HandlerStays
  <2> QED
    BY <1>0, <2>1, HandlerShapeStays, AskCommandOK
<1>2. CASE status # "rejected"
  <2>1. handler' = [handler EXCEPT ![h] = r]
    BY <1>0, <1>2 DEF AnswerCommand
  <2>2. /\ r \in HandlerRecord /\ r.step = step /\ r.task = ask[a].task /\ r.ask = a
        /\ r.session = s /\ r.asks = handler[h].asks
    BY <1>0 DEF HandlerRecord, HandlerStep
  <2>3. status = "accepted" => ask'[a].status = "answered"
    <3>1. StatusAfter("answer") = "answered"
      BY DEF StatusAfter
    <3>2. Settled(ask[a], "answer", k, ans).status = "answered"
      BY <1>0, <3>1 DEF Settled, AskRequest
    <3> QED
      BY <1>0, <3>2 DEF AskCommand
  <2>4. StoresGrow => HandlerShape(r, ask', conf')
    BY <1>0, <2>2, <2>3, HandlerShapeStays DEF HandlerShape
  <2> QED
    BY <1>0, <2>1, <2>2, <2>4, AskCommandOK
<1> QED
  BY <1>1, <1>2

\* Deferring or cancelling an ASK.
LEMMA SettleCommandOK ==
    ASSUME SystemInv, NEW h \in Handler, NEW a \in Ask, NEW k \in AskKey \cup {NoKey},
           NEW kind \in {"defer", "cancel"}, SettleCommand(h, kind, a, k)
    PROVE  StepOK
<1> DEFINE s == SessionOf[ask[a].task]
           ans == CHOOSE x \in Answer : TRUE
           r == [handler[h] EXCEPT !.step = "check_waiting", !.task = ask[a].task, !.ask = a,
                                   !.session = s]
<1>0. /\ handler \in [Handler -> HandlerRecord] /\ handler[h] \in HandlerRecord
      /\ ask[a].task \in Task /\ s \in Session /\ ask[a].status # "absent"
      /\ ans \in Answer
      /\ StartCommand(h) /\ AskCommand(kind, s, a, k, ans)
      /\ UNCHANGED <<task, dispatchVars, graceOver, orphans>>
  BY HandlerParts, InvParts, TaskAttributes, PartsAssumption DEF SettleCommand
<1>1. CASE handler' = handler
  <2>1. handler' = [handler EXCEPT ![h] = handler[h]]
    BY <1>1, HandlerParts
  <2> QED
    BY <1>0, <2>1, HandlerShapeStays, AskCommandOK
<1>2. CASE handler' # handler
  <2>1. handler' = [handler EXCEPT ![h] = r]
    BY <1>0, <1>2 DEF SettleCommand, HandlerStays
  <2>2. /\ r \in HandlerRecord /\ r.step = "check_waiting" /\ r.task = ask[a].task
        /\ r.ask = a /\ r.asks = handler[h].asks
    BY <1>0 DEF HandlerRecord, HandlerStep
  <2>3. StoresGrow => HandlerShape(r, ask', conf')
    BY <1>0, <2>2, HandlerShapeStays DEF HandlerShape
  <2>4. kind \in {"answer", "defer", "cancel"} /\ AskCommand(kind, SessionOf[ask[a].task], a, k, ans)
    BY <1>0
  <2> HIDE DEF r, ans, s
  <2> QED
    BY <1>0, <2>1, <2>2, <2>3, <2>4, AskCommandOK
<1> QED
  BY <1>1, <1>2

\* A handler that only goes to another of its steps.
LEMMA ContinueRecord ==
    ASSUME SystemInv, NEW h \in Handler, NEW step \in HandlerStep, Continue(h, step)
    PROVE  \E r \in HandlerRecord :
              /\ handler' = [handler EXCEPT ![h] = r] /\ r.step = step
              /\ r.session = handler[h].session /\ r.task = handler[h].task
              /\ r.ask = handler[h].ask /\ r.conf = handler[h].conf
              /\ r.asks = handler[h].asks
<1>0. handler \in [Handler -> HandlerRecord] /\ handler[h] \in HandlerRecord
  BY HandlerParts
<1> DEFINE r == [handler[h] EXCEPT !.step = step]
<1>1. /\ r \in HandlerRecord /\ r.step = step
      /\ r.session = handler[h].session /\ r.task = handler[h].task
      /\ r.ask = handler[h].ask /\ r.conf = handler[h].conf /\ r.asks = handler[h].asks
  BY <1>0 DEF HandlerRecord
<1>2. handler' = [handler EXCEPT ![h] = r]
  BY <1>0 DEF Continue
<1> QED
  BY <1>1, <1>2

\* Resuming the task after an answer.
LEMMA HandlerResumesOK ==
    ASSUME SystemInv, NEW h \in Handler, HandlerResumes(h)
    PROVE  StepOK
<1>0. /\ handler[h].step = "resume" /\ HandlerShape(handler[h], ask, conf)
      /\ handler[h].task \in Task /\ handler[h].ask \in Ask
  BY HandlerParts DEF HandlerResumes, At, HandlerShape
<1>1. PICK r \in HandlerRecord :
         /\ handler' = [handler EXCEPT ![h] = r] /\ r.step = "dispatch"
         /\ r.session = handler[h].session /\ r.asks = handler[h].asks
  BY ContinueRecord DEF HandlerResumes, HandlerStep
<1>2. HandlerShape(r, ask, conf)
  BY <1>0, <1>1 DEF HandlerShape
<1>3. QuietOperation
  BY <1>0 DEF HandlerResumes, QuietOperation
<1> QED
  BY <1>1, <1>2, <1>3, HandlerParts, BusHandlerOK DEF HandlerResumes, boundVars

\* Looking at the row of a settled ASK, and failing it.
LEMMA HandlerChecksWaitingOK ==
    ASSUME SystemInv, NEW h \in Handler, HandlerChecksWaiting(h)
    PROVE  StepOK
<1>0. handler[h].step = "check_waiting" /\ HandlerShape(handler[h], ask, conf)
  BY HandlerParts DEF HandlerChecksWaiting, At
<1>1. QuietOperation
  BY DEF HandlerChecksWaiting, QuietOperation
<1>2. CASE Continue(h, "fail_waiting")
  <2>1. PICK r \in HandlerRecord :
           /\ handler' = [handler EXCEPT ![h] = r] /\ r.step = "fail_waiting"
           /\ r.task = handler[h].task /\ r.ask = handler[h].ask
           /\ r.asks = handler[h].asks
    BY <1>2, ContinueRecord DEF HandlerStep
  <2>2. HandlerShape(r, ask, conf)
    BY <1>0, <2>1 DEF HandlerShape
  <2> QED
    BY <1>1, <2>1, <2>2, HandlerParts, BusHandlerOK DEF HandlerChecksWaiting, boundVars
<1>3. CASE Finish(h)
  BY <1>1, <1>3, HandlerParts, IdleRecords, BusHandlerOK
  DEF HandlerChecksWaiting, Finish, boundVars
<1> QED
  BY <1>2, <1>3 DEF HandlerChecksWaiting

\* The second of the two.
LEMMA HandlerFailsWaitingOK ==
    ASSUME SystemInv, NEW h \in Handler, HandlerFailsWaiting(h)
    PROVE  StepOK
<1>0. handler[h].task \in Task
  BY HandlerParts DEF HandlerFailsWaiting, At, HandlerShape
<1>1. QuietOperation
  BY <1>0 DEF HandlerFailsWaiting, QuietOperation
<1> QED
  BY <1>1, HandlerParts, IdleRecords, BusHandlerOK DEF HandlerFailsWaiting, Finish, boundVars

\* Resolving a confirmation: the message exists.
LEMMA ResolveCommandOK ==
    ASSUME SystemInv, NEW h \in Handler, NEW c \in Confirmation, ResolveCommand(h, c)
    PROVE  StepOK
<1> DEFINE r == [handler[h] EXCEPT !.step = "respond", !.conf = c, !.task = conf[c].task]
<1>0. /\ handler \in [Handler -> HandlerRecord] /\ handler[h] \in HandlerRecord
      /\ HandlerShape(handler[h], ask, conf) /\ conf[c].task \in Task
  BY HandlerParts, InvParts DEF ResolveCommand, RestTypeOK
<1>1. /\ r \in HandlerRecord /\ r.step = "respond" /\ r.conf = c
      /\ r.task = conf[c].task /\ r.asks = handler[h].asks
  BY <1>0 DEF HandlerRecord, HandlerStep
<1>2. handler' = [handler EXCEPT ![h] = r]
  BY <1>0 DEF ResolveCommand
<1>3. HandlerShape(r, ask, conf)
  BY <1>0, <1>1 DEF HandlerShape
<1>4. QuietOperation
  BY DEF ResolveCommand, QuietOperation
<1> QED
  BY <1>1, <1>2, <1>3, <1>4, HandlerParts, BusHandlerOK DEF ResolveCommand, StartCommand

\* Publishing the response.
LEMMA HandlerRespondsOK ==
    ASSUME SystemInv, NEW h \in Handler, HandlerResponds(h)
    PROVE  StepOK
<1> DEFINE Conf == [task : Task \cup {NoTask}, responses : Nat]
           c == handler[h].conf
<1>0. /\ HandlerShape(handler[h], ask, conf) /\ handler[h].step = "respond"
      /\ c \in Confirmation /\ handler[h].task \in Task /\ conf \in [Confirmation -> Conf]
  BY HandlerParts, InvParts DEF HandlerResponds, At, HandlerShape, RestTypeOK
<1>1. PICK r \in HandlerRecord :
         /\ handler' = [handler EXCEPT ![h] = r] /\ r.step = "resume_confirmed"
         /\ r.task = handler[h].task /\ r.conf = c /\ r.asks = handler[h].asks
  BY ContinueRecord DEF HandlerResponds, HandlerStep
<1>2. /\ conf' \in [Confirmation -> Conf] /\ conf'[c].responses > 0
      /\ ConfsGrow(conf, conf')
  BY <1>0 DEF HandlerResponds, ConfsGrow
<1>3. StoresGrow
  BY <1>2, StoreGrows DEF HandlerResponds, StoresGrow, SystemInv
<1>4. HandlerShape(r, ask', conf')
  BY <1>0, <1>1, <1>2, <1>3, HandlerShapeStays DEF HandlerShape
<1>5. QuietOperation /\ AskStep /\ DispatcherStep /\ pc' = pc
  BY IdleIsStoreStep, IdleIsLaneStep DEF HandlerResponds, QuietOperation, dispatchVars
<1> QED
  BY <1>1, <1>2, <1>3, <1>4, <1>5, HandlerParts, HandlerStepOK DEF HandlerResponds, boundVars

\* Resuming the task after a response.
LEMMA HandlerResumesConfirmedOK ==
    ASSUME SystemInv, NEW h \in Handler, HandlerResumesConfirmed(h)
    PROVE  StepOK
<1>0. handler[h].task \in Task /\ handler[h].conf \in Confirmation
  BY HandlerParts DEF HandlerResumesConfirmed, At, HandlerShape
<1>1. QuietOperation
  BY <1>0 DEF HandlerResumesConfirmed, QuietOperation
<1> QED
  BY <1>1, HandlerParts, IdleRecords, BusHandlerOK
  DEF HandlerResumesConfirmed, Finish, boundVars

-----------------------------------------------------------------------------
(* Snapshots and the recoveries they run.                                  *)

\* A snapshot starts with the answered ASKs of the session.
LEMMA SnapshotStartsOK ==
    ASSUME SystemInv, NEW h \in Handler, NEW s \in Session, SnapshotStarts(h, s)
    PROVE  StepOK
<1> DEFINE r == [handler[h] EXCEPT !.step = "recover_asks", !.session = s,
                                   !.asks = AnsweredAsks(s)]
<1>0. /\ handler \in [Handler -> HandlerRecord] /\ handler[h] \in HandlerRecord
      /\ AnsweredAsks(s) \subseteq Ask
      /\ \A a \in AnsweredAsks(s) : ask[a].status = "answered"
  BY HandlerParts DEF AnsweredAsks
<1>1. /\ r \in HandlerRecord /\ r.step = "recover_asks" /\ r.session = s
      /\ r.asks = AnsweredAsks(s)
  BY <1>0 DEF HandlerRecord, HandlerStep
<1>2. handler' = [handler EXCEPT ![h] = r]
  BY <1>0 DEF SnapshotStarts
<1>3. HandlerShape(r, ask, conf)
  BY <1>0, <1>1 DEF HandlerShape
<1>4. QuietOperation
  BY DEF SnapshotStarts, QuietOperation
<1> HIDE DEF r
<1> QED
  BY <1>1, <1>2, <1>3, <1>4, HandlerParts, BusHandlerOK
  DEF SnapshotStarts, SnapshotUnchanged, boundVars

\* The recovery looks at the task of one of them.
LEMMA RecoverAskOK ==
    ASSUME SystemInv, NEW h \in Handler, NEW a \in Ask, RecoverAsk(h, a)
    PROVE  StepOK
<1> DEFINE step == IF WaitsOn(ask[a].task, a) THEN "resume_recovered"
                   ELSE IF task[ask[a].task].status = "pending"
                        THEN "dispatch_recovered" ELSE "recover_asks"
           r == [handler[h] EXCEPT !.asks = @ \ {a}, !.ask = a, !.task = ask[a].task,
                                   !.step = step]
<1>0. /\ handler \in [Handler -> HandlerRecord] /\ handler[h] \in HandlerRecord
      /\ HandlerShape(handler[h], ask, conf) /\ handler[h].step = "recover_asks"
      /\ a \in handler[h].asks
  BY HandlerParts DEF RecoverAsk, At
<1>1. handler[h].session \in Session /\ ask[a].status = "answered" /\ ask[a].task \in Task
  BY <1>0, InvParts DEF HandlerShape
<1>2. step \in {"resume_recovered", "dispatch_recovered", "recover_asks"}
  OBVIOUS
<1>3. handler' = [handler EXCEPT ![h] = r]
  BY <1>0 DEF RecoverAsk
<1> HIDE DEF step
<1>4. /\ r \in HandlerRecord /\ r.step = step /\ r.session = handler[h].session
      /\ r.task = ask[a].task /\ r.ask = a /\ r.asks = handler[h].asks \ {a}
  BY <1>0, <1>1, <1>2 DEF HandlerRecord, HandlerStep
<1>5. HandlerShape(r, ask, conf)
  BY <1>0, <1>1, <1>2, <1>4 DEF HandlerShape
<1>6. QuietOperation
  BY DEF RecoverAsk, QuietOperation
<1> HIDE DEF r
<1> QED
  BY <1>3, <1>4, <1>5, <1>6, HandlerParts, BusHandlerOK
  DEF RecoverAsk, SnapshotUnchanged, boundVars

\* It resumes the task ...
LEMMA ResumeRecoveredOK ==
    ASSUME SystemInv, NEW h \in Handler, ResumeRecovered(h)
    PROVE  StepOK
<1>0. /\ handler[h].step = "resume_recovered" /\ HandlerShape(handler[h], ask, conf)
      /\ handler[h].task \in Task /\ handler[h].ask \in Ask
  BY HandlerParts DEF ResumeRecovered, At, HandlerShape
<1>1. QuietOperation
  BY <1>0 DEF ResumeRecovered, QuietOperation
<1>2. CASE Continue(h, "dispatch_recovered")
  <2>1. PICK r \in HandlerRecord :
           /\ handler' = [handler EXCEPT ![h] = r] /\ r.step = "dispatch_recovered"
           /\ r.session = handler[h].session /\ r.asks = handler[h].asks
    BY <1>2, ContinueRecord DEF HandlerStep
  <2>2. HandlerShape(r, ask, conf)
    BY <1>0, <2>1 DEF HandlerShape
  <2> QED
    BY <1>1, <2>1, <2>2, HandlerParts, BusHandlerOK
    DEF ResumeRecovered, SnapshotUnchanged, boundVars
<1>3. CASE Finish(h)
  BY <1>1, <1>3, HandlerParts, IdleRecords, BusHandlerOK
  DEF ResumeRecovered, SnapshotUnchanged, Finish, boundVars
<1> QED
  BY <1>2, <1>3 DEF ResumeRecovered

\* ... and requests a dispatch.
LEMMA DispatchRecoveredOK ==
    ASSUME SystemInv, NEW h \in Handler, DispatchRecovered(h)
    PROVE  StepOK
<1>0. /\ handler[h].step = "dispatch_recovered" /\ HandlerShape(handler[h], ask, conf)
      /\ handler[h].session \in Session
  BY HandlerParts DEF DispatchRecovered, At, HandlerShape
<1>1. PICK r \in HandlerRecord :
         /\ handler' = [handler EXCEPT ![h] = r] /\ r.step = "recover_asks"
         /\ r.session = handler[h].session /\ r.asks = handler[h].asks
  BY ContinueRecord DEF DispatchRecovered, HandlerStep
<1>2. HandlerShape(r, ask, conf)
  BY <1>0, <1>1 DEF HandlerShape
<1> QED
  BY <1>0, <1>1, <1>2, HandlerParts, DispatchingHandlerOK
  DEF DispatchRecovered, SnapshotUnchanged, boundVars

\* The stop recovery lists the rows to recover, ...
LEMMA ListStopsOK ==
    ASSUME SystemInv, NEW h \in Handler, ListStops(h)
    PROVE  StepOK
<1> DEFINE stops == {t \in graceOver : /\ SessionOf[t] = handler[h].session
                                       /\ InterruptedRunning(t)}
           r == [handler[h] EXCEPT !.step = "recover_stops", !.stops = stops]
<1>0. /\ handler \in [Handler -> HandlerRecord] /\ handler[h] \in HandlerRecord
      /\ HandlerShape(handler[h], ask, conf) /\ handler[h].step = "recover_asks"
      /\ stops \subseteq Task
  BY HandlerParts DEF ListStops, At
<1>1. handler' = [handler EXCEPT ![h] = r]
  BY <1>0 DEF ListStops
<1> HIDE DEF stops
<1>2. /\ r \in HandlerRecord /\ r.step = "recover_stops"
      /\ r.session = handler[h].session /\ r.asks = handler[h].asks
  BY <1>0 DEF HandlerRecord, HandlerStep
<1>3. HandlerShape(r, ask, conf)
  BY <1>0, <1>2 DEF HandlerShape
<1>4. QuietOperation
  BY DEF ListStops, QuietOperation
<1> HIDE DEF r
<1> QED
  BY <1>1, <1>2, <1>3, <1>4, HandlerParts, BusHandlerOK
  DEF ListStops, SnapshotUnchanged, boundVars

\* ... fails one of them, ...
LEMMA RecoverStopOK ==
    ASSUME SystemInv, NEW h \in Handler, NEW t \in Task, RecoverStop(h, t)
    PROVE  StepOK
<1> DEFINE r == [handler[h] EXCEPT !.stops = @ \ {t}]
<1>0. /\ handler \in [Handler -> HandlerRecord] /\ handler[h] \in HandlerRecord
      /\ HandlerShape(handler[h], ask, conf) /\ handler[h].step = "recover_stops"
  BY HandlerParts DEF RecoverStop, At
<1>1. handler' = [handler EXCEPT ![h] = r]
  BY <1>0 DEF RecoverStop
<1>2. /\ r \in HandlerRecord /\ r.step = "recover_stops"
      /\ r.session = handler[h].session /\ r.asks = handler[h].asks
  BY <1>0 DEF HandlerRecord
<1>3. HandlerShape(r, ask, conf)
  BY <1>0, <1>2 DEF HandlerShape
<1>4. QuietOperation
  BY DEF RecoverStop, QuietOperation
<1> HIDE DEF r
<1> QED
  BY <1>1, <1>2, <1>3, <1>4, HandlerParts, BusHandlerOK
  DEF RecoverStop, SnapshotUnchanged, boundVars

\* ... and ends the snapshot.
LEMMA SnapshotEndsOK ==
    ASSUME SystemInv, NEW h \in Handler, SnapshotEnds(h)
    PROVE  StepOK
<1>1. QuietOperation
  BY DEF SnapshotEnds, QuietOperation
<1> QED
  BY <1>1, HandlerParts, IdleRecords, BusHandlerOK
  DEF SnapshotEnds, SnapshotUnchanged, Finish, boundVars

-----------------------------------------------------------------------------
(* Time, crashes and the startup scan.                                     *)

\* No thread moves and the rows start nothing.
LEMMA ThreadsRestOK ==
    ASSUME SystemInv, QuietOperation,
           UNCHANGED <<askStoreVars, dispatchVars, conf, tick, handler, boundVars>>,
           graceOver' \subseteq Task, startup' \subseteq Session,
           SettleOrphans \/ UNCHANGED orphans
    PROVE  StepOK
<1>1. StoresGrow
  BY StoresRest
<1>2. [BusNext]_busVars /\ NoNewRun /\ NoNewWait
  BY QuietRows
<1>3. WaitIsBacked'
  BY <1>1, <1>2, WaitsStayBacked
<1>4. RunnersStay
  BY DEF RunnersStay, dispatchVars
<1>5. RunningHasRunner'
  BY <1>2, <1>4, OrphansSettle, RunningStaysServed
<1>6. AskStep /\ DispatcherStep
  BY IdleIsStoreStep, IdleIsLaneStep
<1>7. RestTypeOK' /\ TickLocals' /\ HandlerLocals'
  BY <1>1, InvParts, TicksRest, HandlersRest, OrphansSettle DEF RestTypeOK, boundVars
<1> QED
  BY <1>2, <1>3, <1>5, <1>6, <1>7 DEF StepOK

\* A stop request gets old.
LEMMA GraceElapsesOK ==
    ASSUME SystemInv, NEW t \in Task, GraceElapses(t)
    PROVE  StepOK
<1>1. graceOver' \subseteq Task /\ startup' \subseteq Session
  BY InvParts DEF GraceElapses, RestTypeOK
<1>2. QuietOperation
  BY DEF GraceElapses, QuietOperation
<1> QED
  BY <1>1, <1>2, ThreadsRestOK DEF GraceElapses

\* The startup scan of one session.
LEMMA StartupRecoversOK ==
    ASSUME SystemInv, NEW s \in Session, StartupRecovers(s)
    PROVE  StepOK
<1>1. graceOver' \subseteq Task /\ startup' \subseteq Session
  BY InvParts DEF StartupRecovers, RestTypeOK
<1>2. QuietOperation
  BY DEF StartupRecovers, QuietOperation
<1> QED
  BY <1>1, <1>2, ThreadsRestOK DEF StartupRecovers

\* A crash: the threads are gone, and what ran is an orphan.
LEMMA CrashOK ==
    ASSUME SystemInv, Crash
    PROVE  StepOK
<1>1. StoresGrow
  BY StoresRest DEF Crash
<1>2. [BusNext]_busVars /\ NoNewRun /\ NoNewWait
  BY QuietRows DEF QuietOperation, Crash
<1>3. WaitIsBacked'
  BY <1>1, <1>2, WaitsStayBacked
<1>4. RunningHasRunner'
  BY DEF Crash, RunningHasRunner
<1>5. AskStep
  BY IdleIsStoreStep DEF Crash
<1>6. DispatcherInit'
  BY DEF Crash, DispatcherInit
<1>7. \A asks, confs : TickShape(IdleTick, asks, confs) /\ HandlerShape(IdleHandler, asks, confs)
  BY IdleRecords
<1>8. TickLocals' /\ HandlerLocals'
  BY <1>7 DEF Crash, TickLocals, HandlerLocals
<1>9. RestTypeOK'
  BY InvParts, IdleRecords, BoundsAssumption DEF Crash, RestTypeOK
<1> QED
  BY <1>2, <1>3, <1>4, <1>5, <1>6, <1>8, <1>9 DEF StepOK

-----------------------------------------------------------------------------
(* The invariant of the system.                                            *)

\* A worker thread's step.
LEMMA WorkerActionOK ==
    ASSUME SystemInv, NEW w \in Thread, WorkerAction(w)
    PROVE  StepOK
BY TickSelectOK, TickClaimOK, SafePointOK, RunToolsOK, RunEndsOK, AskToolOK, AskToolWaitOK,
   ConfirmToolOK, ConfirmToolWaitOK, WaitCheckOK, TickCompletesOK, TickFailsOK, WorkerLoopOK
DEF WorkerAction, TickAction

\* A user command.
LEMMA UserCommandOK ==
    ASSUME SystemInv, NEW h \in Handler, UserCommand(h)
    PROVE  StepOK
BY PublishCommandOK, RetryCommandOK, StopCommandOK, DispatchCommandOK, AnswerCommandOK,
   SettleCommandOK, ResolveCommandOK
DEF UserCommand

\* A later step of a handler.
LEMMA HandlerActionOK ==
    ASSUME SystemInv, NEW h \in Handler, HandlerAction(h)
    PROVE  StepOK
BY HandlerDispatchesOK, HandlerResumesOK, HandlerChecksWaitingOK, HandlerFailsWaitingOK,
   HandlerRespondsOK, HandlerResumesConfirmedOK, RecoverAskOK, ResumeRecoveredOK,
   DispatchRecoveredOK, ListStopsOK, RecoverStopOK, SnapshotEndsOK
DEF HandlerAction

\* Every step of the system, and every stutter.
LEMMA NextOK ==
    ASSUME SystemInv, [SystemNext]_systemVars
    PROVE  StepOK
<1>1. CASE UNCHANGED systemVars
  <2>1. /\ QuietOperation
        /\ UNCHANGED <<askStoreVars, dispatchVars, conf, tick, handler, boundVars>>
        /\ UNCHANGED <<graceOver, startup, orphans>>
    BY <1>1 DEF systemVars, askStoreVars, dispatchVars, boundVars, QuietOperation
  <2> QED
    BY <2>1, InvParts, ThreadsRestOK DEF RestTypeOK
<1>2. CASE SystemNext
  BY <1>2, WorkerActionOK, UserCommandOK, HandlerActionOK, SnapshotStartsOK, GraceElapsesOK,
     CrashOK, StartupRecoversOK
  DEF SystemNext
<1> QED
  BY <1>1, <1>2

\* Every step keeps the invariant.
LEMMA NextSystemInv == SystemInv /\ [SystemNext]_systemVars => SystemInv'
BY NextOK, StepKeepsInv

\* The system starts in the invariant.
LEMMA InitSystemInv == SystemInit => SystemInv
<1> SUFFICES ASSUME SystemInit PROVE SystemInv
  OBVIOUS
<1>1. BusInv /\ AskInv /\ DispatcherInv
  BY InitInv, StoreStarts, LaneStarts DEF SystemInit
<1>2. SystemTypeOK
  BY <1>1, IdleRecords, BoundsAssumption
  DEF SystemInit, SystemTypeOK, BusInv, AskInv, DispatcherInv
<1>3. TickLocals /\ HandlerLocals
  BY IdleRecords DEF SystemInit, TickLocals, HandlerLocals
<1>4. \A t \in Task : task[t].status = "unpublished"
  BY DEF SystemInit, BusInit, UnpublishedTask
<1>5. RunningHasRunner /\ WaitIsBacked
  BY <1>4 DEF RunningHasRunner, WaitIsBacked
<1> QED
  BY <1>1, <1>2, <1>3, <1>5 DEF SystemInv

\* The inductive invariant holds in every reachable state, for every number of
\* tasks, sessions, handlers, commands and crashes.
THEOREM SystemInvariant == SystemSafety => []SystemInv
BY InitSystemInv, NextSystemInv, PTL DEF SystemSafety

\* Types of the stores, the dispatcher and the locals of all threads.
THEOREM SystemTypes == SystemSafety => []SystemTypeOK
<1>1. SystemInv => SystemTypeOK
  BY DEF SystemInv
<1> QED
  BY SystemInvariant, <1>1, PTL

\* A running row has a thread that works on it, or its process has crashed.
THEOREM RunningIsServed == SystemSafety => []RunningHasRunner
<1>1. SystemInv => RunningHasRunner
  BY DEF SystemInv
<1> QED
  BY SystemInvariant, <1>1, PTL

\* Whatever a task waits for is stored, also after a crash between two stores.
THEOREM WaitsAreBacked == SystemSafety => []WaitIsBacked
<1>1. SystemInv => WaitIsBacked
  BY DEF SystemInv
<1> QED
  BY SystemInvariant, <1>1, PTL

-----------------------------------------------------------------------------
(* The system implements its parts.                                        *)

\* All that the system does to the tasks table is a sequence of TaskBus
\* operations, so what is proved of the bus holds in the system.
THEOREM SystemImplementsBus == SystemSafety => BusSpec
<1>1. SystemInit => BusInit
  BY DEF SystemInit
<1>2. SystemInv /\ [SystemNext]_systemVars => [BusNext]_busVars
  BY NextOK DEF StepOK
<1> QED
  BY SystemInvariant, <1>1, <1>2, PTL DEF SystemSafety, BusSpec

\* Tool calls and commands together use the ASK store only as it may be used.
THEOREM SystemImplementsAskStore == SystemSafety => Store!AskSpec
<1>1. SystemInit => Store!AskInit
  BY SameStore DEF SystemInit
<1>2. SystemInv /\ [SystemNext]_systemVars => [Store!AskNext]_(Store!askVars)
  BY NextOK DEF StepOK, AskStep
<1> QED
  BY SystemInvariant, <1>1, <1>2, PTL DEF SystemSafety, Store!AskSpec

\* A child task starts only after its parent is done, a done task is never
\* touched again and a stop request sticks, whatever workers, handlers,
\* recoveries and crashes do.
THEOREM SystemKeepsBusPromises ==
    SystemSafety => []ParentDoneFirst /\ DoneIsFinal /\ StopRequestSticks
BY SystemImplementsBus, ParentFirst, DoneForever, StopStays, PTL

\* The phases of the tasks in the composed system follow TaskLifecycle.
THEOREM SystemRefinesLifecycle == SystemSafety => BusImplementsLifecycle
BY SystemImplementsBus, BusRefinesLifecycle, PTL

\* One key settles one ASK and a replayed success is true; a settled ASK stays
\* as it is, also when the sidecar crashes and starts again.
THEOREM SystemKeepsAskPromises ==
    SystemSafety => [](KeyMovesOneAsk /\ ReplayedSuccessIsTrue /\ AnswerStored) /\ SettledAskIsFinal
<1>1. SystemInv => KeyMovesOneAsk /\ ReplayedSuccessIsTrue /\ AnswerStored
  BY DEF SystemInv, AskInv
<1>2. Store!AskSpec => Store!SettledAskIsFinal
  BY StoreAssumption, Store!SettledForever
<1>3. [\A a \in Ask : ask[a].status \notin {"absent", "pending"} => ask'[a] = ask[a]]_(Store!askVars)
      => [\A a \in Ask : ask[a].status \notin {"absent", "pending"} => ask'[a] = ask[a]]_askVars
  BY DEF askVars, Store!askVars
<1> QED
  BY SystemInvariant, SystemImplementsAskStore, <1>1, <1>2, <1>3, PTL
     DEF SettledAskIsFinal, Store!SettledAskIsFinal

\* At most one live worker and no lost wakeup, in every run of the process: a
\* crash forgets the queue, the ids and the workers together.
THEOREM SystemKeepsSerialLane ==
    SystemSafety => [](OneLiveWorker /\ QueueCoalesced /\ RunningIdsMatchDrains /\ NoParkedWithWork)
<1>1. SystemInv => OneLiveWorker /\ QueueCoalesced /\ RunningIdsMatchDrains /\ NoParkedWithWork
  BY DEF SystemInv, DispatcherInv
<1> QED
  BY SystemInvariant, <1>1, PTL

-----------------------------------------------------------------------------
(* Who resumes a waiting task.                                             *)

\* No row goes from waiting back to the queue.
NoResume == \A t \in Task : ~(task[t].status = "waiting_for_user" /\ task'[t].status = "pending")

\* All operations of the bus but the two resumes.
NoResumeOperation ==
    \/ UNCHANGED task
    \/ \E t, r \in Task, p \in Task \cup {NoTask} : Publish(t, p, r)
    \/ \E t \in Task, agent \in Agent : task[t].status = "pending" /\ ClaimTask(t, agent)
    \/ \E t \in Task : Complete(t, TRUE)
    \/ \E t \in Task, e \in {"failed", "cancelled"} : Fail(t, e)
    \/ \E t \in Task, a \in Ask : WaitForUser(t, a)
    \/ \E t \in Task, c \in Confirmation : WaitForConfirmation(t, c)
    \/ \E t \in Task : Retry(t)
    \/ \E t \in Task : RequestInterrupt(t)
    \/ \E s \in Session : RecoverInterruptedRunningTasks(s)

\* They resume nothing: they change rows that do not wait, or fail one.
LEMMA OthersResumeNothing ==
    ASSUME SystemInv, NoResumeOperation
    PROVE  NoResume
<1> SUFFICES ASSUME NEW u \in Task, task[u].status = "waiting_for_user"
             PROVE  task'[u].status # "pending"
  BY DEF NoResume
<1>0. task \in [Task -> TaskDomain] /\ task[u] \in TaskDomain
  BY InvParts
<1>1. CASE task' = task
  BY <1>1
<1>2. CASE task'[u] = task[u]
  BY <1>2
<1>3. CASE \E e \in {"failed", "cancelled"} : Fail(u, e)
  <2>1. PICK e \in {"failed", "cancelled"} : Fail(u, e)
    BY <1>3
  <2>2. task'[u] = FailUpdates(task[u], e)
    BY <1>0, <2>1 DEF Fail
  <2> QED
    BY <1>0, <2>2, UpdatedRows
<1>4. CASE task'[u] # task[u] /\ ~\E e \in {"failed", "cancelled"} : Fail(u, e)
  BY <1>0, <1>4
  DEF NoResumeOperation, Publish, Published, ClaimTask, Complete, CanComplete, Fail,
      WaitForUser, WaitForConfirmation, Retry, RequestInterrupt,
      RecoverInterruptedRunningTasks, InterruptedRunning
<1> QED
  BY <1>1, <1>2, <1>3, <1>4

\* A worker resumes nothing.
LEMMA WorkerResumesNothing ==
    ASSUME SystemInv, NEW w \in Thread, WorkerAction(w)
    PROVE  NoResumeOperation
<1>0. TickShape(tick[w], ask, conf)
  BY DEF SystemInv, TickLocals
<1>1. CASE UNCHANGED task
  BY <1>1 DEF NoResumeOperation
<1>2. CASE TickClaim(w)
  BY <1>2 DEF TickClaim, IsNext, Claimable, Eligible, NoResumeOperation
<1>3. CASE AskToolWait(w)
  BY <1>0, <1>3 DEF AskToolWait, InTick, TickShape, NoResumeOperation
<1>4. CASE ConfirmToolWait(w)
  BY <1>0, <1>4 DEF ConfirmToolWait, InTick, TickShape, NoResumeOperation
<1>5. CASE TickCompletes(w)
  BY <1>0, <1>5 DEF TickCompletes, InTick, TickShape, NoResumeOperation
<1>6. CASE TickFails(w)
  BY <1>0, <1>6 DEF TickFails, InTick, TickShape, NoResumeOperation
<1> QED
  BY <1>1, <1>2, <1>3, <1>4, <1>5, <1>6
  DEF WorkerAction, TickAction, WorkerLoopAction, TickSelect, SafePoint, RunTools, RunEnds,
      AskTool, ConfirmTool, WaitCheck

\* The first step of a command resumes nothing.
LEMMA CommandResumesNothing ==
    ASSUME NEW h \in Handler, UserCommand(h)
    PROVE  NoResumeOperation
<1>1. CASE \E t, r \in Task, p \in Task \cup {NoTask}, start \in BOOLEAN :
              PublishCommand(h, t, p, r, start)
  BY <1>1 DEF PublishCommand, NoResumeOperation
<1>2. CASE \E t \in Task, start \in BOOLEAN : RetryCommand(h, t, start)
  BY <1>2 DEF RetryCommand, NoResumeOperation
<1>3. CASE \E t \in Task : StopCommand(h, t)
  BY <1>3 DEF StopCommand, NoResumeOperation
<1>4. CASE UNCHANGED task
  BY <1>4 DEF NoResumeOperation
<1>5. ASSUME NEW a \in Ask, NEW k \in AskKey \cup {NoKey}, NEW ans \in Answer,
             AnswerCommand(h, a, k, ans)
      PROVE  UNCHANGED task
  BY <1>5 DEF AnswerCommand
<1>6. ASSUME NEW a \in Ask, NEW k \in AskKey \cup {NoKey}, NEW kind \in {"defer", "cancel"},
             SettleCommand(h, kind, a, k)
      PROVE  UNCHANGED task
  BY <1>6 DEF SettleCommand
<1>7. ASSUME \/ \E s \in Session : DispatchCommand(h, s)
             \/ \E c \in Confirmation : ResolveCommand(h, c)
      PROVE  UNCHANGED task
  BY <1>7 DEF DispatchCommand, ResolveCommand
<1> QED
  BY <1>1, <1>2, <1>3, <1>4, <1>5, <1>6, <1>7 DEF UserCommand

\* The steps of a handler that resume.
Resumes(h) == HandlerResumes(h) \/ HandlerResumesConfirmed(h) \/ ResumeRecovered(h)

\* Its other steps do not.
LEMMA OtherStepsResumeNothing ==
    ASSUME SystemInv, NEW h \in Handler, HandlerAction(h), ~Resumes(h)
    PROVE  NoResumeOperation
<1>1. CASE HandlerFailsWaiting(h)
  <2>1. handler[h].task \in Task
    BY <1>1, HandlerParts DEF HandlerFailsWaiting, At, HandlerShape
  <2> QED
    BY <1>1, <2>1 DEF HandlerFailsWaiting, NoResumeOperation
<1>2. CASE \E t \in Task : RecoverStop(h, t)
  BY <1>2 DEF RecoverStop, NoResumeOperation
<1> QED
  BY <1>1, <1>2
  DEF Resumes, HandlerAction, HandlerDispatches, HandlerChecksWaiting, HandlerResponds,
      RecoverAsk, DispatchRecovered, ListStops, SnapshotEnds, NoResumeOperation

\* A row that goes back to the queue waited for a question with a stored reply.
RepliedTo(t) ==
    IF task[t].ask # NoAsk THEN ask[task[t].ask].status = "answered"
    ELSE conf[task[t].conf].responses > 0

\* Whoever resumes a row holds the reply to the question the row waits for.
LEMMA ResumesWithReply ==
    ASSUME SystemInv, NEW h \in Handler, Resumes(h), NEW t \in Task,
           task[t].status = "waiting_for_user", task'[t].status = "pending"
    PROVE  RepliedTo(t)
<1>0. /\ task \in [Task -> TaskDomain] /\ HandlerShape(handler[h], ask, conf)
      /\ (task[t].ask # NoAsk) # (task[t].conf # NoConfirmation)
  BY InvParts, HandlerParts DEF SystemInv, BusInv, WaitingLinkage
<1>1. CASE HandlerResumes(h) \/ ResumeRecovered(h)
  <2>1. /\ handler[h].ask \in Ask /\ ask[handler[h].ask].status = "answered"
    BY <1>0, <1>1 DEF HandlerResumes, ResumeRecovered, At, HandlerShape
  <2>2. t = handler[h].task /\ task[t].ask = handler[h].ask
    BY <1>0, <1>1 DEF HandlerResumes, ResumeRecovered, ResumeAfterUser
  <2> QED
    BY <2>1, <2>2, NoneAssumption DEF RepliedTo
<1>2. CASE HandlerResumesConfirmed(h)
  <2>1. handler[h].conf \in Confirmation /\ conf[handler[h].conf].responses > 0
    BY <1>0, <1>2 DEF HandlerResumesConfirmed, At, HandlerShape
  <2>2. t = handler[h].task /\ task[t].conf = handler[h].conf
    BY <1>0, <1>2 DEF HandlerResumesConfirmed, ResumeAfterConfirmation
  <2>3. task[t].ask = NoAsk
    BY <1>0, <2>1, <2>2, NoneAssumption
  <2> QED
    BY <2>1, <2>2, <2>3 DEF RepliedTo
<1> QED
  BY <1>1, <1>2 DEF Resumes

\* A waiting task goes back to the queue only on a stored reply to the very
\* question it waits for (answer_ask, resolve_confirmation, ASK recovery).
THEOREM ResumeNeedsReply == SystemSafety => ResumedOnlyByReply
<1>1. SystemInv /\ [SystemNext]_systemVars =>
        [\A t \in Task :
            task[t].status = "waiting_for_user" /\ task'[t].status = "pending" =>
                IF task[t].ask # NoAsk
                THEN ask[task[t].ask].status = "answered"
                ELSE conf[task[t].conf].responses > 0]_systemVars
  <2> SUFFICES ASSUME SystemInv, SystemNext, NEW t \in Task,
                      task[t].status = "waiting_for_user", task'[t].status = "pending"
               PROVE  RepliedTo(t)
    BY DEF RepliedTo
  <2>1. CASE \E h \in Handler : Resumes(h)
    BY <2>1, ResumesWithReply
  <2>2. CASE NoResumeOperation
    BY <2>2, OthersResumeNothing DEF NoResume
  <2>3. CASE UNCHANGED task \/ \E s \in Session : RecoverInterruptedRunningTasks(s)
    BY <2>2, <2>3 DEF NoResumeOperation
  <2> QED
    BY <2>1, <2>2, <2>3, WorkerResumesNothing, CommandResumesNothing, OtherStepsResumeNothing
    DEF SystemNext, SnapshotStarts, GraceElapses, Crash, StartupRecovers
<1> QED
  BY SystemInvariant, <1>1, PTL DEF SystemSafety, ResumedOnlyByReply
=============================================================================
