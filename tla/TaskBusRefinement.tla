------------------------- MODULE TaskBusRefinement -------------------------
(***************************************************************************)
(* The refinement mapping from the TaskBus rows to TaskLifecycle.          *)
(***************************************************************************)
EXTENDS TaskBus

\* The phase a reader of the task list sees for each row status.
PhaseOf(status) ==
    CASE status = "unpublished"      -> "absent"
      [] status = "pending"          -> "queued"
      [] status = "running"          -> "active"
      [] status = "waiting_for_user" -> "paused"
      [] status = "done"             -> "succeeded"
      [] status = "failed"           -> "failed"

Lifecycle == INSTANCE TaskLifecycle
                WITH phase    <- [t \in Task |-> PhaseOf(task[t].status)],
                     parentOf <- [t \in Task |-> task[t].parent]

\* Every operation of the bus is a lifecycle step or invisible to a reader of
\* the phases: in particular a task only becomes active from the queue, under
\* a succeeded parent, and success is final.
BusImplementsLifecycle == Lifecycle!LifecycleSpec
=============================================================================
