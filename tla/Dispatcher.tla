----------------------------- MODULE Dispatcher -----------------------------
(***************************************************************************)
(* FixedRouteExecutionDispatcher of src/taskweavn/task/execution.py: the   *)
(* background worker that drains Sessions which were asked to dispatch.    *)
(*                                                                         *)
(* One threading.Condition guards the queue, the two id sets, the closed   *)
(* flag and the worker handle, so each locked section is one action.  The  *)
(* worker is created on demand, parks on the condition while the queue is  *)
(* empty, and dies if a tick raises; Thread.is_alive() stays true from the *)
(* end of the finally block of _run until the thread has really ended, so  *)
(* "dying" is a state of its own.  What a tick does is left open here: it  *)
(* ends with one of Outcome.  ExecutionSystem says which.                  *)
(***************************************************************************)
EXTENDS Integers, Sequences

CONSTANTS
    Session,
    Thread,       \* worker threads the process may create, one after another
    NoThread, NoSession,
    MaxTicks      \* max_ticks_per_trigger

ASSUME DispatcherAssumption ==
    /\ NoThread \notin Thread
    /\ NoSession \notin Session
    /\ MaxTicks \in Nat \ {0}

VARIABLES
    queue,       \* _pending_sessions
    pendingIds,  \* _pending_session_ids
    runningIds,  \* _running_session_ids
    closed,      \* _closed
    worker,      \* _worker
    pc,          \* [Thread -> where the thread is in _run]
    current,     \* [Thread -> the session_id local of _run]
    ticks        \* [Thread -> ticks of this drain that have ended]

dispatcherVars == <<queue, pendingIds, runningIds, closed, worker, pc, current, ticks>>

\* "loop" is the head of the while loop with the lock to be taken, "parked" is
\* inside Condition.wait(), "release" and "raising" are before the finally
\* block (after a normal return and with an exception in flight).
ThreadState == {"unstarted", "loop", "parked", "draining", "release", "raising",
                "dying", "dead"}

Outcome == {"completed", "stopped", "raised"}

Live(w) == pc[w] \notin {"unstarted", "dead"}

DispatcherTypeOK ==
    /\ queue \in Seq(Session)
    /\ pendingIds \in SUBSET Session
    /\ runningIds \in SUBSET Session
    /\ closed \in BOOLEAN
    /\ worker \in Thread \cup {NoThread}
    /\ pc \in [Thread -> ThreadState]
    /\ current \in [Thread -> Session \cup {NoSession}]
    /\ ticks \in [Thread -> 0 .. MaxTicks]

DispatcherInit ==
    /\ queue = << >>
    /\ pendingIds = {}
    /\ runningIds = {}
    /\ closed = FALSE
    /\ worker = NoThread
    /\ pc = [w \in Thread |-> "unstarted"]
    /\ current = [w \in Thread |-> NoSession]
    /\ ticks = [w \in Thread |-> 0]

-----------------------------------------------------------------------------
\* notify() and notify_all(): with one live worker both wake the same thread.
Notified == [w \in Thread |-> IF pc[w] = "parked" THEN "loop" ELSE pc[w]]

WorkerIsAlive == worker # NoThread /\ Live(worker)

\* Faulty: a worker that does not drain counts as gone.
EnsureWorkerDrainingOnly ==
    IF worker # NoThread /\ pc[worker] = "draining"
    THEN pc' = Notified /\ UNCHANGED worker
    ELSE \E w \in Thread :
            /\ pc[w] = "unstarted"
            /\ worker' = w
            /\ pc' = [Notified EXCEPT ![w] = "loop"]

\* Faulty: the parked worker is not woken.
EnsureWorkerWithoutNotify ==
    IF WorkerIsAlive
    THEN UNCHANGED <<pc, worker>>
    ELSE \E w \in Thread :
            /\ pc[w] = "unstarted"
            /\ worker' = w
            /\ pc' = [pc EXCEPT ![w] = "loop"]

\* _ensure_worker_locked() and the notify() after it.
EnsureWorkerLocked ==
    IF WorkerIsAlive
    THEN pc' = Notified /\ UNCHANGED worker
    ELSE \E w \in Thread :
            /\ pc[w] = "unstarted"
            /\ worker' = w
            /\ pc' = [Notified EXCEPT ![w] = "loop"]

\* The early returns of request_dispatch: closed, already_pending and
\* already_running leave everything as it is.  (enabled and default_agent are
\* fixed when the dispatcher is built; the model is of one that has both.)
Accepts(s) == ~closed /\ s \notin pendingIds /\ s \notin runningIds

RequestDispatch(s) ==
    IF Accepts(s)
    THEN /\ queue' = Append(queue, s)
         /\ pendingIds' = pendingIds \cup {s}
         /\ EnsureWorkerLocked
         /\ UNCHANGED <<runningIds, closed, current, ticks>>
    ELSE UNCHANGED <<queue, pendingIds, runningIds, closed, worker, pc, current, ticks>>

\* stop(): the worker is woken and joined for at most five seconds, so a
\* long tick may outlive it.
Stop ==
    /\ closed' = TRUE
    /\ queue' = << >>
    /\ pendingIds' = {}
    /\ pc' = Notified
    /\ UNCHANGED <<runningIds, worker, current, ticks>>

-----------------------------------------------------------------------------
(* The worker, _run() and _drain_session().                                *)

Park(w) ==
    /\ pc[w] = "loop"
    /\ ~closed
    /\ queue = << >>
    /\ pc' = [pc EXCEPT ![w] = "parked"]
    /\ UNCHANGED <<queue, pendingIds, runningIds, closed, worker, current, ticks>>

Exit(w) ==
    /\ pc[w] = "loop"
    /\ closed
    /\ pc' = [pc EXCEPT ![w] = "dying"]
    /\ UNCHANGED <<queue, pendingIds, runningIds, closed, worker, current, ticks>>

Pop(w) ==
    /\ pc[w] = "loop"
    /\ ~closed
    /\ queue # << >>
    /\ queue' = Tail(queue)
    /\ pendingIds' = pendingIds \ {Head(queue)}
    /\ runningIds' = runningIds \cup {Head(queue)}
    /\ current' = [current EXCEPT ![w] = Head(queue)]
    /\ ticks' = [ticks EXCEPT ![w] = 0]
    /\ pc' = [pc EXCEPT ![w] = "draining"]
    /\ UNCHANGED <<closed, worker>>

\* One tick of the drain ends; only a completed task is followed by another.
TickEnds(w, outcome) ==
    /\ pc[w] = "draining"
    /\ ticks[w] < MaxTicks
    /\ ticks' = [ticks EXCEPT ![w] = @ + 1]
    /\ pc' = [pc EXCEPT ![w] =
                  CASE outcome = "raised" -> "raising"
                    [] outcome = "completed" /\ ticks'[w] < MaxTicks -> "draining"
                    [] OTHER -> "release"]
    /\ UNCHANGED <<queue, pendingIds, runningIds, closed, worker, current>>

\* The finally block of _run, and what follows it.
Release(w) ==
    /\ pc[w] \in {"release", "raising"}
    /\ runningIds' = runningIds \ {current[w]}
    /\ current' = [current EXCEPT ![w] = NoSession]
    /\ pc' = [Notified EXCEPT ![w] = IF pc[w] = "raising" THEN "dying" ELSE "loop"]
    /\ UNCHANGED <<queue, pendingIds, closed, worker, ticks>>

\* The thread ends: is_alive() turns false.
Die(w) ==
    /\ pc[w] = "dying"
    /\ pc' = [pc EXCEPT ![w] = "dead"]
    /\ UNCHANGED <<queue, pendingIds, runningIds, closed, worker, current, ticks>>

WorkerLoop(w) == Park(w) \/ Exit(w) \/ Pop(w) \/ Release(w) \/ Die(w)

WorkerStep(w) == WorkerLoop(w) \/ \E outcome \in Outcome : TickEnds(w, outcome)

DispatcherNext ==
    \/ \E s \in Session : RequestDispatch(s)
    \/ Stop
    \/ \E w \in Thread : WorkerStep(w)

\* A thread that can run eventually runs (the interpreter switches between
\* threads) and an agent run eventually ends (max_steps bounds the loop).
\* Nothing obliges a client to request or to stop.
DispatcherFairness == \A w \in Thread : WF_dispatcherVars(WorkerStep(w))

DispatcherSpec ==
    DispatcherInit /\ [][DispatcherNext]_dispatcherVars /\ DispatcherFairness

-----------------------------------------------------------------------------
(* Properties.                                                             *)

InQueue(s) == \E i \in 1 .. Len(queue) : queue[i] = s

\* The id set and the deque agree, and no session is queued twice: otherwise a
\* session would be reported already_pending for ever, or drained twice for
\* one trigger.
QueueCoalesced ==
    /\ \A s \in Session : InQueue(s) <=> s \in pendingIds
    /\ \A i, j \in 1 .. Len(queue) : queue[i] = queue[j] => i = j

\* The serial lane of docs/architecture/bus-v2.md: at most one thread is past
\* _ensure_worker at a time, so two sessions are never drained concurrently
\* and no session has two drains.
OneLiveWorker ==
    \A v, w \in Thread : Live(v) /\ Live(w) => v = w /\ worker = v

\* A session is reported already_running exactly while a worker drains it: no
\* exit path of a drain, exceptions included, leaves the id behind.
RunningIdsMatchDrains ==
    runningIds = {current[w] : w \in {v \in Thread : pc[v] \in {"draining", "release", "raising"}}}

\* A session is never pending and running at once; together with the previous
\* properties every trigger is in one of the three states the dispatcher
\* reports.
PendingNotRunning == pendingIds \cap runningIds = {}

\* Parking and notifying lose no wakeup: a parked worker with work in the queue
\* cannot happen.
NoParkedWithWork == \A w \in Thread : pc[w] = "parked" => queue = << >> /\ ~closed

DispatcherInv ==
    /\ DispatcherTypeOK
    /\ QueueCoalesced
    /\ OneLiveWorker
    /\ RunningIdsMatchDrains
    /\ PendingNotRunning
    /\ NoParkedWithWork

NoHealthyWorker == \A w \in Thread : pc[w] \in {"unstarted", "raising", "dying", "dead"}

\* A queued session is eventually popped, unless a tick raises and takes the
\* worker with it (see QueuedSessionServed): a notification is never lost, and
\* a worker started after an earlier one died serves what that one left.
QueuedSessionDrained ==
    \A s \in Session : InQueue(s) ~> (~InQueue(s) \/ NoHealthyWorker)

\* A drained session is eventually released, even by a tick that raises.
DrainEnds == \A s \in Session : s \in runningIds ~> s \notin runningIds

\* docs/architecture/session.md: after a drain the worker goes on to "process
\* next queued Session".  A tick that raises ends the worker with sessions
\* still queued, and request_dispatch answers already_pending for them without
\* starting a worker.
QueuedSessionServed == \A s \in Session : InQueue(s) ~> ~InQueue(s)
=============================================================================
