--------------------------- MODULE TaskLifecycle ---------------------------
(***************************************************************************)
(* What the TaskBus promises to a reader that only follows the phase of    *)
(* each task: a task is absent, queued, active, paused or settled; success *)
(* is final; only a failed task may be queued again after it settled; and  *)
(* a task is started only under a parent that has succeeded.               *)
(***************************************************************************)
CONSTANTS Task, NoTask

VARIABLES phase,    \* [Task -> Phase]
          parentOf  \* [Task -> Task \cup {NoTask}]

lifecycleVars == <<phase, parentOf>>

Phase == {"absent", "queued", "active", "paused", "succeeded", "failed"}

LifecycleInit ==
    /\ phase = [t \in Task |-> "absent"]
    /\ parentOf = [t \in Task |-> NoTask]

Enter(t, p) ==
    /\ phase[t] = "absent"
    /\ p # NoTask => phase[p] # "absent"
    /\ phase' = [phase EXCEPT ![t] = "queued"]
    /\ parentOf' = [parentOf EXCEPT ![t] = p]

Start(t) ==
    /\ phase[t] = "queued"
    /\ parentOf[t] # NoTask => phase[parentOf[t]] = "succeeded"
    /\ phase' = [phase EXCEPT ![t] = "active"]
    /\ UNCHANGED parentOf

Pause(t) ==
    /\ phase[t] = "active"
    /\ phase' = [phase EXCEPT ![t] = "paused"]
    /\ UNCHANGED parentOf

Requeue(t) ==
    /\ phase[t] \in {"paused", "failed"}
    /\ phase' = [phase EXCEPT ![t] = "queued"]
    /\ UNCHANGED parentOf

Succeed(t) ==
    /\ phase[t] = "active"
    /\ phase' = [phase EXCEPT ![t] = "succeeded"]
    /\ UNCHANGED parentOf

\* Tasks fail alone, or several at once when a startup scan settles the runs
\* that were being stopped.
FailTasks(T) ==
    /\ \A t \in T : phase[t] \in {"queued", "active", "paused"}
    /\ phase' = [t \in Task |-> IF t \in T THEN "failed" ELSE phase[t]]
    /\ UNCHANGED parentOf

LifecycleNext ==
    \/ \E t \in Task, p \in Task \cup {NoTask} : Enter(t, p)
    \/ \E t \in Task : Start(t) \/ Pause(t) \/ Requeue(t) \/ Succeed(t)
    \/ \E T \in SUBSET Task : FailTasks(T)

LifecycleSpec == LifecycleInit /\ [][LifecycleNext]_lifecycleVars
=============================================================================
