--------------------------- MODULE PlanExecution ---------------------------
(***************************************************************************)
(* A durable Plan, its TaskNodes and the bus rows they are published as    *)
(* (task/plan_publisher.py, publisher.py, plan_lifecycle.py,               *)
(* plan_commands.py, sqlite_plan_store.py), composed with TaskBus.         *)
(*                                                                         *)
(* The plan store and the bus are two databases with a lock each.  Every   *)
(* call of a store is one step; the locals of a thread between two calls   *)
(* are kept in `pub` (the publish handlers), `arch` (the archive handlers) *)
(* and `sync` (the threads that report lifecycle changes back: the worker  *)
(* and the recoveries of a snapshot).  A save carries the version the      *)
(* thread read and raises on another one.  task_lifecycle_event_callback   *)
(* suppresses what sync_task raises, so a conflict ends the report.        *)
(***************************************************************************)
EXTENDS TaskBus, Sequences

CONSTANTS
    PlanNode,      \* TaskNodes of the plan, in order: a sequence of ids
    PlanKey,       \* idempotency keys of publish commands
    PlanTaskId,    \* [node, key] -> the task id _task_ids_for_request derives
    Publisher,     \* threads that handle publish commands
    Archiver,      \* threads that handle archive commands
    Worker,        \* the dispatcher's worker
    Recoverer,     \* a thread that runs the recoveries of a snapshot
    NoPlanKey, NoNode,
    MaxPublishes, MaxUserCommands, MaxCrashes   \* bounds

Nodes == {PlanNode[i] : i \in DOMAIN PlanNode}
Reporter == {Worker, Recoverer}

ASSUME PlanAssumption ==
    /\ PlanNode \in Seq(Nodes) /\ Len(PlanNode) > 0
    /\ NoPlanKey \notin PlanKey /\ NoNode \notin Nodes
    /\ PlanTaskId \in [Nodes \X PlanKey -> Task]
    /\ \A x, y \in Nodes \X PlanKey : PlanTaskId[x] = PlanTaskId[y] => x = y
    /\ MaxPublishes \in Nat /\ MaxUserCommands \in Nat /\ MaxCrashes \in Nat

VARIABLES
    plan,      \* the plans row: [status, version]
    node,      \* plan_task_nodes rows: [Nodes -> [ref, exec, version]]
    payload,   \* the plan_version in the metadata a task was published with
    pub,       \* locals of the publish handlers
    arch,      \* locals of the archive handlers
    sync,      \* locals of the reporting threads
    publishes, commands, crashes   \* counters for the bounds

planVars == <<plan, node, payload, pub, arch, sync, publishes, commands, crashes>>
planExecutionVars == <<busVars, planVars>>

PlanStatus == {"draft", "published", "running", "awaiting_acceptance", "failed", "archived"}

Execution == {"not_started", "pending", "running", "waiting_for_user", "done", "failed"}

Archiveable == {"awaiting_acceptance", "failed"}

PlanRow == [status : PlanStatus, version : Nat]

NodeRow == [ref : Task \cup {NoTask}, exec : Execution, version : Nat]

NoRow == [status |-> "draft", version |-> 0]

IdlePub == [pc |-> "idle", key |-> NoPlanKey, plan |-> NoRow, version |-> [n \in Nodes |-> 0],
            next |-> 1]

IdleArch == [pc |-> "idle", version |-> 0]

IdleSync == [pc |-> "idle", task |-> NoTask, status |-> "unpublished",
             node |-> NoNode, version |-> 0, plan |-> NoRow]

PlanInit ==
    /\ BusInit
    /\ plan = [status |-> "draft", version |-> 1]
    /\ node = [n \in Nodes |-> [ref |-> NoTask, exec |-> "not_started", version |-> 1]]
    /\ payload = [t \in Task |-> 0]
    /\ pub = [p \in Publisher |-> IdlePub]
    /\ arch = [a \in Archiver |-> IdleArch]
    /\ sync = [r \in Reporter |-> IdleSync]
    /\ publishes = 0 /\ commands = 0 /\ crashes = 0

-----------------------------------------------------------------------------
(* The versioned saves of the plan store.  A save that fails raises.       *)

CheckVersion(current, expected) == current = expected

SavePlan(status) ==
    plan' = [status |-> status, version |-> plan.version + 1]

SaveTaskNode(n, ref, exec) ==
    node' = [node EXCEPT ![n] = [ref |-> ref, exec |-> exec, version |-> @.version + 1]]

-----------------------------------------------------------------------------
(* DefaultPlanPublisher.publish_plan and DefaultTaskPublisher.publish.     *)

PubGoes(p, pc) == pub' = [pub EXCEPT ![p].pc = pc]
PubEnds(p) == pub' = [pub EXCEPT ![p] = IdlePub]
TaskOf(p, n) == PlanTaskId[<<n, pub[p].key>>]

PublishReadsPlan(p, k) ==
    /\ pub[p].pc = "idle"
    /\ publishes < MaxPublishes
    /\ publishes' = publishes + 1
    /\ pub' = [pub EXCEPT ![p] = [@ EXCEPT !.pc = "nodes", !.key = k, !.plan = plan]]
    /\ UNCHANGED <<task, plan, node, payload, arch, sync, commands, crashes>>

\* A complete lineage is replayed, a partial one skipped; a plan that has none
\* is published.
PublishReadsNodes(p) ==
    /\ pub[p].pc = "nodes"
    /\ LET linked == {n \in Nodes : node[n].ref # NoTask} IN
       \/ /\ pub[p].plan.status = "archived"
          /\ PubEnds(p)
       \/ /\ pub[p].plan.status # "archived"
          /\ linked = Nodes
          /\ IF pub[p].plan.status = "published" THEN PubEnds(p) ELSE PubGoes(p, "save_plan")
       \/ /\ pub[p].plan.status # "archived"
          /\ linked \notin {{}, Nodes}
          /\ PubEnds(p)
       \/ /\ pub[p].plan.status # "archived"
          /\ linked = {}
          /\ pub' = [pub EXCEPT ![p] = [@ EXCEPT !.pc = "check",
                                                 !.version = [n \in Nodes |-> node[n].version]]]
    /\ UNCHANGED <<task, plan, node, payload, arch, sync, publishes, commands, crashes>>

\* _result_from_existing_idempotent_tasks: all rows of this key exist and match
\* (the publish is taken as done), some exist (incomplete) or none.
PublishChecksBus(p) ==
    /\ pub[p].pc = "check"
    /\ LET existing == {n \in Nodes : Published(TaskOf(p, n))} IN
       \/ existing = {} /\ PubGoes(p, "insert")
       \/ existing \notin {{}, Nodes} /\ PubEnds(p)
       \/ /\ existing = Nodes
          /\ IF \A n \in Nodes : payload[TaskOf(p, n)] = pub[p].plan.version
             THEN PubGoes(p, "save_nodes")
             ELSE PubEnds(p)
    /\ UNCHANGED <<task, plan, node, payload, arch, sync, publishes, commands, crashes>>

\* Moves on to the next node, and after the last one to the given step.
NextNode(p, then) ==
    LET l == pub[p]
    IN  pub' = [pub EXCEPT ![p] = IF l.next = Len(PlanNode)
                                  THEN [l EXCEPT !.pc = then, !.next = 1]
                                  ELSE [l EXCEPT !.next = l.next + 1]]

\* One TaskBus.publish per node, every node a root; an id that exists raises.
PublishInserts(p) ==
    /\ pub[p].pc = "insert"
    /\ LET t == TaskOf(p, PlanNode[pub[p].next]) IN
       \/ /\ Publish(t, NoTask, t)
          /\ payload' = [payload EXCEPT ![t] = pub[p].plan.version]
          /\ NextNode(p, "save_nodes")
       \/ /\ Published(t)
          /\ PubEnds(p)
          /\ UNCHANGED <<task, payload>>
    /\ UNCHANGED <<plan, node, arch, sync, publishes, commands, crashes>>

PublishSavesNode(p) ==
    /\ pub[p].pc = "save_nodes"
    /\ LET n == PlanNode[pub[p].next] IN
       IF CheckVersion(node[n].version, pub[p].version[n])
       THEN SaveTaskNode(n, TaskOf(p, n), "pending") /\ NextNode(p, "save_plan")
       ELSE PubEnds(p) /\ UNCHANGED node
    /\ UNCHANGED <<task, plan, payload, arch, sync, publishes, commands, crashes>>

\* Faulty: the plan is saved whatever its version has become.
PublishSavesPlanBlind(p) ==
    /\ pub[p].pc = "save_plan"
    /\ SavePlan("published")
    /\ PubEnds(p)
    /\ UNCHANGED <<task, node, payload, arch, sync, publishes, commands, crashes>>

PublishSavesPlan(p) ==
    /\ pub[p].pc = "save_plan"
    /\ IF CheckVersion(plan.version, pub[p].plan.version)
       THEN SavePlan("published")
       ELSE UNCHANGED plan
    /\ PubEnds(p)
    /\ UNCHANGED <<task, node, payload, arch, sync, publishes, commands, crashes>>

-----------------------------------------------------------------------------
(* DefaultPlanLifecycleCommandService.archive_plan: the status is checked  *)
(* on a copy, then the store archives.  The version of the request is      *)
(* optional; 0 stands for a request without one.                           *)

ArchiveChecks(a) ==
    /\ arch[a].pc = "idle"
    /\ commands < MaxUserCommands
    /\ commands' = commands + 1
    /\ plan.status \in Archiveable
    /\ \E v \in {0, plan.version} : arch' = [arch EXCEPT ![a] = [pc |-> "archive", version |-> v]]
    /\ UNCHANGED <<task, plan, node, payload, pub, sync, publishes, crashes>>

ArchiveWrites(a) ==
    /\ arch[a].pc = "archive"
    /\ IF /\ arch[a].version # 0 => CheckVersion(plan.version, arch[a].version)
          /\ plan.status # "archived"
       THEN SavePlan("archived")
       ELSE UNCHANGED plan
    /\ arch' = [arch EXCEPT ![a] = IdleArch]
    /\ UNCHANGED <<task, node, payload, pub, sync, publishes, commands, crashes>>

-----------------------------------------------------------------------------
(* PlanTaskNodeLifecycleSync.sync_task, run by the thread that changed the *)
(* row, with the copy of the row it got back.                              *)

SyncGoes(r, pc) == sync' = [sync EXCEPT ![r].pc = pc]
SyncEnds(r) == sync' = [sync EXCEPT ![r] = IdleSync]

\* The callback is entered with the committed copy of the task.
Report(r, t, status) ==
    sync' = [sync EXCEPT ![r] = [IdleSync EXCEPT !.pc = "find", !.task = t, !.status = status]]

\* A failed node may be saved again with another error reference.
SyncFindsNode(r) ==
    /\ sync[r].pc = "find"
    /\ \/ /\ \A n \in Nodes : node[n].ref # sync[r].task
          /\ SyncEnds(r)
       \/ \E n \in Nodes :
            /\ node[n].ref = sync[r].task
            /\ \E pc \in {"save_node", "read_plan"} :
                /\ pc = "save_node" => node[n].exec # sync[r].status \/ sync[r].status = "failed"
                /\ pc = "read_plan" => node[n].exec = sync[r].status
                /\ sync' = [sync EXCEPT ![r] = [@ EXCEPT !.pc = pc, !.node = n,
                                                         !.version = node[n].version]]
    /\ UNCHANGED <<task, plan, node, payload, pub, arch, publishes, commands, crashes>>

SyncSavesNode(r) ==
    /\ sync[r].pc = "save_node"
    /\ LET n == sync[r].node IN
       IF CheckVersion(node[n].version, sync[r].version)
       THEN SaveTaskNode(n, sync[r].task, sync[r].status) /\ SyncGoes(r, "read_plan")
       ELSE SyncEnds(r) /\ UNCHANGED node
    /\ UNCHANGED <<task, plan, payload, pub, arch, publishes, commands, crashes>>

SyncReadsPlan(r) ==
    /\ sync[r].pc = "read_plan"
    /\ sync' = [sync EXCEPT ![r] = [@ EXCEPT !.pc = "roll_up", !.plan = plan]]
    /\ UNCHANGED <<task, plan, node, payload, pub, arch, publishes, commands, crashes>>

\* Faulty: one finished node is enough.
PlanStatusFromAnyDone(status) ==
    LET executions == {node[n].exec : n \in Nodes} IN
    IF status = "archived" THEN status
    ELSE IF "failed" \in executions THEN "failed"
    ELSE IF "done" \in executions THEN "awaiting_acceptance"
    ELSE IF executions \cap {"pending", "running", "waiting_for_user"} # {} THEN "running"
    ELSE status

PlanStatusFromNodes(status) ==
    LET executions == {node[n].exec : n \in Nodes} IN
    IF status = "archived" THEN status
    ELSE IF "failed" \in executions THEN "failed"
    ELSE IF executions \subseteq {"done"} THEN "awaiting_acceptance"
    ELSE IF executions \cap {"pending", "running", "waiting_for_user"} # {} THEN "running"
    ELSE status

SyncRollsUp(r) ==
    /\ sync[r].pc = "roll_up"
    /\ LET status == PlanStatusFromNodes(sync[r].plan.status) IN
       IF status = sync[r].plan.status
       THEN SyncEnds(r)
       ELSE sync' = [sync EXCEPT ![r] = [@ EXCEPT !.pc = "save_plan", !.plan.status = status]]
    /\ UNCHANGED <<task, plan, node, payload, pub, arch, publishes, commands, crashes>>

SyncSavesPlan(r) ==
    /\ sync[r].pc = "save_plan"
    /\ IF CheckVersion(plan.version, sync[r].plan.version)
       THEN SavePlan(sync[r].plan.status)
       ELSE UNCHANGED plan
    /\ SyncEnds(r)
    /\ UNCHANGED <<task, node, payload, pub, arch, publishes, commands, crashes>>

-----------------------------------------------------------------------------
(* The worker's tick, as far as the bus and the report are concerned.      *)

TickVars == <<plan, node, payload, pub, arch, publishes, commands, crashes>>

TickClaims ==
    /\ sync[Worker].pc = "idle"
    /\ \E s \in Session, cap \in Capability, agent \in Agent, t \in Task :
        /\ IsNext(t, s, cap)
        /\ ClaimTask(t, agent)
        /\ sync' = [sync EXCEPT ![Worker] = [@ EXCEPT !.pc = "run", !.task = t]]
    /\ UNCHANGED TickVars

\* complete() and fail() raise when a recovery has settled the row before.
TickSettles ==
    /\ sync[Worker].pc = "run"
    /\ LET t == sync[Worker].task IN
       \/ Complete(t, TRUE) /\ Report(Worker, t, "done")
       \/ Fail(t, "failed") /\ Report(Worker, t, "failed")
       \/ ~CanFail(t) /\ SyncEnds(Worker) /\ UNCHANGED task
    /\ UNCHANGED TickVars

TickAsks ==
    /\ sync[Worker].pc = "run"
    /\ \E a \in Ask : WaitForUser(sync[Worker].task, a)
    /\ SyncGoes(Worker, "waits")
    /\ UNCHANGED TickVars

\* The row is read again; a row that was resumed in between is not reported.
TickReportsWaiting ==
    /\ sync[Worker].pc = "waits"
    /\ IF task[sync[Worker].task].status = "waiting_for_user"
       THEN Report(Worker, sync[Worker].task, "waiting_for_user")
       ELSE SyncEnds(Worker)
    /\ UNCHANGED <<task, TickVars>>

-----------------------------------------------------------------------------
(* The recoveries of a snapshot report what they did; commands do not.     *)

RecoveryVars == <<plan, node, payload, pub, arch, publishes, crashes>>

RecoverResumes(t) ==
    /\ sync[Recoverer].pc = "idle"
    /\ commands < MaxUserCommands
    /\ commands' = commands + 1
    /\ \E a \in Ask : ResumeAfterUser(t, a)
    /\ Report(Recoverer, t, "pending")
    /\ UNCHANGED RecoveryVars

RecoverStops(t) ==
    /\ sync[Recoverer].pc = "idle"
    /\ InterruptedRunning(t)
    /\ Fail(t, "cancelled")
    /\ Report(Recoverer, t, "failed")
    /\ UNCHANGED <<RecoveryVars, commands>>

UserCommand(t) ==
    /\ commands < MaxUserCommands
    /\ commands' = commands + 1
    /\ UNCHANGED sync
    /\ \/ \E a \in Ask : ResumeAfterUser(t, a) /\ UNCHANGED payload
       \/ task[t].status = "waiting_for_user" /\ Fail(t, "cancelled") /\ UNCHANGED payload
       \/ RequestInterrupt(t) /\ UNCHANGED payload
       \* a retry may bring an instruction, which is stored with the task
       \/ /\ Retry(t)
          /\ payload' \in {payload, [payload EXCEPT ![t] = 0]}
    /\ UNCHANGED <<plan, node, pub, arch, publishes, crashes>>

Crash ==
    /\ crashes < MaxCrashes
    /\ crashes' = crashes + 1
    /\ pub' = [p \in Publisher |-> IdlePub]
    /\ arch' = [a \in Archiver |-> IdleArch]
    /\ sync' = [r \in Reporter |-> IdleSync]
    /\ UNCHANGED <<task, plan, node, payload, publishes, commands>>

-----------------------------------------------------------------------------
PublisherStep(p) ==
    \/ PublishReadsNodes(p) \/ PublishChecksBus(p) \/ PublishInserts(p)
    \/ PublishSavesNode(p) \/ PublishSavesPlan(p)

SyncStep(r) ==
    \/ SyncFindsNode(r) \/ SyncSavesNode(r) \/ SyncReadsPlan(r)
    \/ SyncRollsUp(r) \/ SyncSavesPlan(r)

TickStep == TickClaims \/ TickSettles \/ TickAsks \/ TickReportsWaiting

PlanNext ==
    \/ \E p \in Publisher, k \in PlanKey : PublishReadsPlan(p, k)
    \/ \E p \in Publisher : PublisherStep(p)
    \/ \E a \in Archiver : ArchiveChecks(a) \/ ArchiveWrites(a)
    \/ \E r \in Reporter : SyncStep(r)
    \/ TickStep
    \/ \E t \in Task : RecoverResumes(t) \/ RecoverStops(t) \/ UserCommand(t)
    \/ Crash

PlanSpec == PlanInit /\ [][PlanNext]_planExecutionVars

-----------------------------------------------------------------------------
(* Properties.                                                             *)

PubRecord ==
    [pc : {"idle", "nodes", "check", "insert", "save_nodes", "save_plan"},
     key : PlanKey \cup {NoPlanKey}, plan : PlanRow, version : [Nodes -> Nat], next : 1 .. Len(PlanNode)]

ArchRecord == [pc : {"idle", "archive"}, version : Nat]

SyncRecord ==
    [pc : {"idle", "run", "waits", "find", "save_node", "read_plan", "roll_up", "save_plan"},
     task : Task \cup {NoTask}, status : Status, node : Nodes \cup {NoNode}, version : Nat,
     plan : PlanRow]

PlanTypeOK ==
    /\ plan \in PlanRow
    /\ node \in [Nodes -> NodeRow]
    /\ payload \in [Task -> Nat]
    /\ pub \in [Publisher -> PubRecord]
    /\ arch \in [Archiver -> ArchRecord]
    /\ sync \in [Reporter -> SyncRecord]

IsDone(row, rows) == row.ref # NoTask /\ rows[row.ref].status = "done"

AllDone(nodes, rows) == \A n \in Nodes : IsDone(nodes[n], rows)

\* A plan is offered for acceptance only when the tasks of all its nodes are
\* done on the bus, although it is computed from copies of nodes that were
\* themselves written from copies of rows (_plan_status_from_nodes).
AcceptanceIsEarned == plan.status = "awaiting_acceptance" => AllDone(node, task)

\* The lineage of a node points to a row of the bus, also when the handler was
\* interrupted by a crash between the two stores (publish before save).
RefIsBacked == \A n \in Nodes : node[n].ref # NoTask => Published(node[n].ref)

\* The plan tells the truth about the bus, in every interleaving of publishes,
\* reports, recoveries and user commands and across a crash: acceptance is
\* earned and a node's lineage is backed.
PlanSound == PlanTypeOK /\ AcceptanceIsEarned /\ RefIsBacked

\* A node that was reported done has its task done on the bus.
DoneIsReported == \A n \in Nodes : node[n].exec = "done" => IsDone(node[n], task)

\* What the locals l of a publish handler know of the stores: a plan or a node
\* of the version it read is as it was read, and the rows it has inserted, or
\* found, are there.
PubShape(l, plans, nodes, rows) ==
    /\ l.pc # "idle" => l.key \in PlanKey
    /\ l.plan.version <= plans.version
    /\ l.plan.version = plans.version => plans.status = l.plan.status
    /\ l.pc \notin {"idle", "nodes"} => l.plan.status # "archived"
    /\ l.pc \notin {"insert", "save_nodes"} => l.next = 1
    /\ l.pc \in {"check", "insert", "save_nodes"} =>
          \A n \in Nodes : /\ l.version[n] <= nodes[n].version
                           /\ l.version[n] = nodes[n].version => nodes[n].ref = NoTask
    /\ l.pc = "insert" =>
          \A i \in 1 .. l.next - 1 : rows[PlanTaskId[<<PlanNode[i], l.key>>]].status # "unpublished"
    /\ l.pc = "save_nodes" =>
          \A n \in Nodes : rows[PlanTaskId[<<n, l.key>>]].status # "unpublished"

\* What the locals l of a reporting thread know: the status it carries is final
\* if it is `done`, the node it found is still that of the task unless its
\* version moved, and a plan it offers for acceptance has earned it.
SyncShape(l, plans, nodes, rows) ==
    /\ l.pc \in {"run", "waits", "find", "save_node"} => l.task \in Task
    /\ l.pc \in {"find", "save_node"} =>
          /\ l.status \in Execution
          /\ l.status = "done" => rows[l.task].status = "done"
    /\ l.pc = "save_node" =>
          /\ l.node \in Nodes /\ l.version <= nodes[l.node].version
          /\ l.version = nodes[l.node].version => nodes[l.node].ref = l.task
    /\ l.pc \in {"roll_up", "save_plan"} =>
          /\ l.plan.version <= plans.version
          /\ l.plan.status = "awaiting_acceptance" => AllDone(nodes, rows)
    /\ l.pc = "roll_up" /\ l.plan.version = plans.version => plans.status = l.plan.status
    /\ l.pc = "save_plan" /\ l.plan.version = plans.version => plans.status # "archived"

\* The inductive invariant.
PlanInv ==
    /\ BusInv
    /\ PlanSound
    /\ DoneIsReported
    /\ plan.version > 0
    /\ \A p \in Publisher : PubShape(pub[p], plan, node, task)
    /\ \A r \in Reporter : SyncShape(sync[r], plan, node, task)

\* A step keeps what the plan store has once recorded: of two publish commands
\* at most one links its tasks, and neither a publish that read the plan
\* earlier nor a late report of a task reopens an archived plan.
KeepsHistory ==
    /\ \A n \in Nodes : node[n].ref # NoTask => node'[n].ref = node[n].ref
    /\ plan.status = "archived" => plan' = plan

\* No publish, report or archive command that read the plan earlier undoes a
\* lineage or an archiving (the versioned saves of sqlite_plan_store.py).
PlanHistoryKept == [][KeepsHistory]_planExecutionVars
=============================================================================
