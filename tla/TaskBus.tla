------------------------------ MODULE TaskBus ------------------------------
(***************************************************************************)
(* The TaskBus of src/taskweavn/task: the authoritative lifecycle of       *)
(* published Tasks.  SqliteTaskBus (sqlite_bus.py) and InMemoryTaskBus     *)
(* (bus.py) run every operation under one reentrant lock and write one row *)
(* per operation, so an operation is one atomic action here.  An operation *)
(* whose precondition fails raises TaskStoreError and writes nothing; it   *)
(* is modelled by the action being disabled, and the modules that call the *)
(* bus model what the caller does with the exception.                      *)
(*                                                                         *)
(* Timestamps follow the fields they are written with and are left out     *)
(* (started_at moves with claimed_by, completed_at with the error and      *)
(* result references, waiting_for_user_since with the waiting links);      *)
(* intent text, summaries and wording of errors are left out.              *)
(***************************************************************************)
EXTENDS Integers, FiniteSets

CONSTANTS
    Task,          \* task ids
    Session,       \* session ids
    Capability,    \* values of required_capability
    Agent,         \* agent ids that claim tasks
    Ask,           \* ASK ids a task may wait on
    Confirmation,  \* ids of actionable messages a task may wait on
    NoTask, NoAgent, NoAsk, NoConfirmation,   \* None, per field
    SessionOf,     \* [Task -> Session]
    CapabilityOf,  \* [Task -> Capability]
    Rank           \* the ORDER BY created_at, order_index, task_id

ASSUME NoneAssumption ==
    /\ NoTask \notin Task
    /\ NoAgent \notin Agent
    /\ NoAsk \notin Ask
    /\ NoConfirmation \notin Confirmation

ASSUME TaskAttributes ==
    /\ SessionOf \in [Task -> Session]
    /\ CapabilityOf \in [Task -> Capability]
    /\ Rank \in [Task -> Nat]
    /\ \A t, u \in Task : Rank[t] = Rank[u] => t = u

VARIABLE task   \* the tasks table: one TaskDomain record per task id

busVars == <<task>>

Status == {"unpublished", "pending", "running", "waiting_for_user", "done", "failed"}

ErrorRef == {"none", "failed", "skipped", "cancelled"}

TaskDomain ==
    [status    : Status,
     parent    : Task \cup {NoTask},
     root      : Task,
     claimedBy : Agent \cup {NoAgent},
     ask       : Ask \cup {NoAsk},
     conf      : Confirmation \cup {NoConfirmation},
     interrupt : BOOLEAN,
     result    : BOOLEAN,
     error     : ErrorRef]

BusTypeOK == task \in [Task -> TaskDomain]

(***************************************************************************)
(* A row that has not been inserted yet, and the row publish() inserts.    *)
(***************************************************************************)
UnpublishedTask(t) ==
    [status |-> "unpublished", parent |-> NoTask, root |-> t,
     claimedBy |-> NoAgent, ask |-> NoAsk, conf |-> NoConfirmation,
     interrupt |-> FALSE, result |-> FALSE, error |-> "none"]

PublishedTask(t, p, r) ==
    [UnpublishedTask(t) EXCEPT !.status = "pending", !.parent = p, !.root = r]

Published(t) == task[t].status # "unpublished"

BusInit == task = [t \in Task |-> UnpublishedTask(t)]

-----------------------------------------------------------------------------
(* Row updates, under the names of the helper functions of task/bus.py.    *)

RetryUpdates(row) ==
    [row EXCEPT !.status = "pending", !.result = FALSE, !.error = "none",
                !.claimedBy = NoAgent, !.ask = NoAsk, !.conf = NoConfirmation,
                !.interrupt = FALSE]

WaitForUserUpdates(row, a) ==
    [row EXCEPT !.status = "waiting_for_user", !.ask = a, !.conf = NoConfirmation,
                !.result = FALSE, !.error = "none"]

WaitForUserConfirmationUpdates(row, c) ==
    [row EXCEPT !.status = "waiting_for_user", !.ask = NoAsk, !.conf = c,
                !.result = FALSE, !.error = "none"]

\* Faulty: the answered link stays.
ResumeKeepsLink(row) ==
    [row EXCEPT !.status = "pending", !.result = FALSE, !.error = "none",
                !.claimedBy = NoAgent, !.conf = NoConfirmation]

\* Faulty: resets as much as a retry does.
ResumeClearsInterrupt(row) == RetryUpdates(row)

\* The interrupt fields survive a resume.
ResumeAfterUserUpdates(row) ==
    [row EXCEPT !.status = "pending", !.result = FALSE, !.error = "none",
                !.claimedBy = NoAgent, !.ask = NoAsk, !.conf = NoConfirmation]

InterruptUpdates(row) == [row EXCEPT !.interrupt = TRUE]

FailUpdates(row, e) ==
    [row EXCEPT !.status = "failed", !.result = FALSE, !.error = e,
                !.ask = NoAsk, !.conf = NoConfirmation]

RecoverInterruptedRunningUpdates(row) == FailUpdates(row, "cancelled")

-----------------------------------------------------------------------------
(* Selection of the next task.                                             *)

\* Faulty: a parent that has not finished yet will do.
ParentNotFailed(t) ==
    \/ task[t].parent = NoTask
    \/ task[task[t].parent].status # "failed"

ParentIsDone(t) ==
    \/ task[t].parent = NoTask
    \/ task[task[t].parent].status = "done"

\* Rows claim_next looks at: pending rows of the session whose parent is done.
Eligible(s) == {t \in Task : /\ SessionOf[t] = s
                             /\ task[t].status = "pending"
                             /\ ParentIsDone(t)}

Claimable(s, cap) == {t \in Eligible(s) : CapabilityOf[t] = cap}

-----------------------------------------------------------------------------
(* The operations.                                                         *)

\* A root task is its own root (TaskDomain._validate_root); a child is looked
\* up in its own session and shares its parent's root.
Publish(t, p, r) ==
    /\ ~Published(t)
    /\ p = NoTask => r = t
    /\ p # NoTask => /\ Published(p)
                     /\ SessionOf[p] = SessionOf[t]
                     /\ task[p].root = r
    /\ task' = [task EXCEPT ![t] = PublishedTask(t, p, r)]

\* The row of the session that claim_next takes for this capability.
IsNext(t, s, cap) ==
    /\ t \in Claimable(s, cap)
    /\ \A u \in Claimable(s, cap) : Rank[t] <= Rank[u]

ClaimTask(t, agent) ==
    task' = [task EXCEPT ![t] = [@ EXCEPT !.status = "running", !.claimedBy = agent]]

ClaimNext(s, cap, agent) == \E t \in Task : IsNext(t, s, cap) /\ ClaimTask(t, agent)

\* Faulty: no status check.
Unguarded(t) == Published(t)

\* The preconditions of complete() and fail(); both raise TaskStoreError when
\* they do not hold.
CanComplete(t) == task[t].status = "running"

CanFail(t) == task[t].status \in {"running", "waiting_for_user"}

Complete(t, hasResult) ==
    /\ CanComplete(t)
    /\ task' = [task EXCEPT ![t] = [@ EXCEPT !.status = "done", !.result = hasResult,
                                             !.error = "none"]]

Fail(t, e) ==
    /\ CanFail(t)
    /\ task' = [task EXCEPT ![t] = FailUpdates(@, e)]

WaitForUser(t, a) ==
    /\ task[t].status = "running"
    /\ task' = [task EXCEPT ![t] = WaitForUserUpdates(@, a)]

WaitForConfirmation(t, c) ==
    /\ task[t].status = "running"
    /\ task' = [task EXCEPT ![t] = WaitForUserConfirmationUpdates(@, c)]

ResumeAfterUser(t, a) ==
    /\ task[t].status = "waiting_for_user"
    /\ task[t].ask = a
    /\ task' = [task EXCEPT ![t] = ResumeAfterUserUpdates(@)]

ResumeAfterConfirmation(t, c) ==
    /\ task[t].status = "waiting_for_user"
    /\ task[t].conf = c
    /\ task' = [task EXCEPT ![t] = ResumeAfterUserUpdates(@)]

Skip(t) ==
    /\ task[t].status \in {"pending", "running"}
    /\ task' = [task EXCEPT ![t] = [@ EXCEPT !.status = "failed", !.error = "skipped"]]

Retry(t) ==
    /\ task[t].status = "failed"
    /\ task' = [task EXCEPT ![t] = RetryUpdates(@)]

\* A pending task is cancelled at once; a running one only carries the intent.
RequestInterrupt(t) ==
    /\ task[t].status \in {"pending", "running"}
    /\ task' = [task EXCEPT ![t] =
                    IF @.status = "pending"
                    THEN [InterruptUpdates(@) EXCEPT !.status = "failed", !.error = "cancelled"]
                    ELSE InterruptUpdates(@)]

InterruptedRunning(t) == task[t].status = "running" /\ task[t].interrupt

\* One scan of a session under the lock, at sidecar startup.
RecoverInterruptedRunningTasks(s) ==
    task' = [t \in Task |->
                IF SessionOf[t] = s /\ InterruptedRunning(t)
                THEN RecoverInterruptedRunningUpdates(task[t])
                ELSE task[t]]

-----------------------------------------------------------------------------
\* Any client may call any operation at any time.
BusNext ==
    \/ \E t, r \in Task, p \in Task \cup {NoTask} : Publish(t, p, r)
    \/ \E s \in Session, cap \in Capability, agent \in Agent : ClaimNext(s, cap, agent)
    \/ \E t \in Task, hasResult \in BOOLEAN : Complete(t, hasResult)
    \/ \E t \in Task, e \in {"failed", "cancelled"} : Fail(t, e)
    \/ \E t \in Task, a \in Ask : WaitForUser(t, a)
    \/ \E t \in Task, c \in Confirmation : WaitForConfirmation(t, c)
    \/ \E t \in Task, a \in Ask : ResumeAfterUser(t, a)
    \/ \E t \in Task, c \in Confirmation : ResumeAfterConfirmation(t, c)
    \/ \E t \in Task : Skip(t)
    \/ \E t \in Task : Retry(t)
    \/ \E t \in Task : RequestInterrupt(t)
    \/ \E s \in Session : RecoverInterruptedRunningTasks(s)

BusSpec == BusInit /\ [][BusNext]_busVars

-----------------------------------------------------------------------------
(* Properties.                                                             *)

\* A row waits exactly when it carries exactly one active link: the rule
\* TaskDomain._validate_waiting_for_user_linkage enforces when the row is read
\* back.  model_copy() skips that validator on the write, so an operation that
\* left a stale link behind would store a row no later call could read.
WaitingLinkage ==
    \A t \in Task :
        IF task[t].status = "waiting_for_user"
        THEN (task[t].ask # NoAsk) # (task[t].conf # NoConfirmation)
        ELSE task[t].ask = NoAsk /\ task[t].conf = NoConfirmation

\* A row that is running, waiting or done names the agent that claimed it, and
\* a pending row names none: no resume or retry leaves the claim of an earlier
\* run on a row that is free to be claimed again.
ClaimRecorded ==
    \A t \in Task :
        /\ task[t].status \in {"running", "waiting_for_user", "done"}
              => task[t].claimedBy # NoAgent
        /\ task[t].status = "pending" => task[t].claimedBy = NoAgent

\* A child is never started before its parent is done, whatever retries,
\* interrupts and waits the parent went through before (_parent_is_done).
ParentDoneFirst ==
    \A t \in Task :
        /\ task[t].claimedBy # NoAgent
        /\ task[t].parent # NoTask
        => task[task[t].parent].status = "done"

\* Every published task hangs below a published root of its own session: the
\* root is parentless, and parent and child agree on it.
RootConsistent ==
    \A t \in Task : Published(t) =>
        /\ Published(task[t].root)
        /\ task[task[t].root].parent = NoTask
        /\ SessionOf[task[t].root] = SessionOf[t]
        /\ task[t].parent # NoTask =>
              /\ Published(task[t].parent)
              /\ task[task[t].parent].root = task[t].root
              /\ SessionOf[task[t].parent] = SessionOf[t]

\* The outcome references agree with the status: an error exactly on failed
\* rows, a result only on done rows, so no reader sees the outcome of an
\* earlier attempt on a row that was resumed or retried.
OutcomeMatchesStatus ==
    \A t \in Task :
        /\ task[t].status = "failed" <=> task[t].error # "none"
        /\ task[t].result => task[t].status = "done"

\* An id that has not been published has no row.
UnpublishedBlank == \A t \in Task : ~Published(t) => task[t] = UnpublishedTask(t)

BusInv ==
    /\ BusTypeOK
    /\ UnpublishedBlank
    /\ WaitingLinkage
    /\ ClaimRecorded
    /\ ParentDoneFirst
    /\ RootConsistent
    /\ OutcomeMatchesStatus

\* A done task is never touched again: no late failure, stop, retry or recovery
\* rewrites it.  ParentDoneFirst rests on this.
DoneIsFinal ==
    [][\A t \in Task : task[t].status = "done" => task'[t] = task[t]]_busVars

\* A stop request is only ever withdrawn by an explicit retry of the failed
\* task: waiting for the user and resuming in between do not lose it.
StopRequestSticks ==
    [][\A t \in Task : task[t].interrupt /\ ~task'[t].interrupt
            => task[t].status = "failed" /\ task'[t].status = "pending"]_busVars

=============================================================================
