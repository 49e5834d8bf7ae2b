----------------------------- MODULE PlanProofs -----------------------------
(***************************************************************************)
(* What the plan store says of the bus, for every plan, any number of      *)
(* publish, archive and reporting threads, of commands and of crashes; and *)
(* what publishing answers, for every tree, key, schedule and clock; and   *)
(* what a contract command was told it changed, for every set of commands  *)
(* and any number of threads that serve them while the plan is published.  *)
(*                                                                         *)
(* For plans the argument is optimistic locking: every save raises the     *)
(* version of its row, so a thread whose version still matches may trust   *)
(* what it has read; and what it carries from the bus without a version    *)
(* (published rows, done tasks) never becomes false again.                 *)
(*                                                                         *)
(* For contract commands what a request relies on between its steps is     *)
(* either never taken back (a plan, a node, a fact, an answer), or checked *)
(* again by the store in the step that writes (a node's version, a free    *)
(* index), so an accepted command keeps its trace (ContractGrows).         *)
(***************************************************************************)
EXTENDS PlanExecution, Publishing, ContractRevision, TaskBusProofs,
        FiniteSetTheorems, WellFoundedInduction, SequenceTheorems

-----------------------------------------------------------------------------
(* What a step has to show.                                                *)

\* Rows stay published and done rows stay done.
RowsGrow ==
    \A t \in Task :
        /\ task[t].status # "unpublished" => task'[t].status # "unpublished"
        /\ task[t].status = "done" => task'[t].status = "done"

\* A row of the plan store that has changed has a higher version.
VersionsGrow ==
    /\ plan.version <= plan'.version
    /\ plan.version = plan'.version => plan' = plan
    /\ \A n \in Nodes : /\ node[n].version <= node'[n].version
                        /\ node[n].version = node'[n].version => node'[n] = node[n]

StoresOK ==
    /\ [BusNext]_busVars /\ RowsGrow /\ VersionsGrow /\ KeepsHistory
    /\ plan' \in PlanRow /\ node' \in [Nodes -> NodeRow] /\ payload' \in [Task -> Nat]
    /\ plan'.version > 0
    /\ AcceptanceIsEarned' /\ RefIsBacked' /\ DoneIsReported'

PlanStepOK ==
    /\ StoresOK
    /\ PlanTypeOK'
    /\ \A p \in Publisher : PubShape(pub'[p], plan', node', task')
    /\ \A r \in Reporter : SyncShape(sync'[r], plan', node', task')

\* Such a step keeps the invariant.
LEMMA PlanStepKeepsInv ==
    ASSUME PlanInv, PlanStepOK
    PROVE  PlanInv'
<1>1. BusInv'
  BY NextInv DEF PlanInv, PlanStepOK, StoresOK
<1> QED
  BY <1>1 DEF PlanInv, PlanStepOK, StoresOK, PlanSound

\* The invariant in the pieces the steps use.
LEMMA PlanParts ==
    ASSUME PlanInv
    PROVE  /\ task \in [Task -> TaskDomain] /\ plan \in PlanRow
           /\ node \in [Nodes -> NodeRow] /\ payload \in [Task -> Nat]
           /\ pub \in [Publisher -> PubRecord] /\ arch \in [Archiver -> ArchRecord]
           /\ sync \in [Reporter -> SyncRecord]
           /\ plan.version \in Nat /\ plan.version > 0
           /\ \A n \in Nodes : node[n] \in NodeRow /\ node[n].version \in Nat
BY DEF PlanInv, PlanSound, PlanTypeOK, BusInv, BusTypeOK, PlanRow, NodeRow

\* An operation of the bus leaves no published or done row behind.
LEMMA BusRowsGrow ==
    ASSUME BusInv, [BusNext]_busVars
    PROVE  RowsGrow
<1> SUFFICES ASSUME NEW t \in Task
             PROVE  /\ task[t].status # "unpublished" => task'[t].status # "unpublished"
                    /\ task[t].status = "done" => task'[t].status = "done"
  BY DEF RowsGrow
<1>1. CASE UNCHANGED busVars
  BY <1>1 DEF busVars
<1>2. CASE PublishStep
  <2>1. PICK u, r \in Task, p \in Task \cup {NoTask} : Publish(u, p, r)
    BY <1>2 DEF PublishStep
  <2>2. u # t => task'[t] = task[t]
    BY <2>1 DEF Publish, BusInv, BusTypeOK
  <2> QED
    BY <2>1, <2>2 DEF Publish, Published
<1>3. CASE SoundStep
  BY <1>3 DEF SoundStep, SoundUpdate
<1> QED
  BY <1>1, <1>2, <1>3, StepIsSound

\* The status of tasks that are all done stays so.
LEMMA AllDoneStays ==
    ASSUME PlanInv, RowsGrow, KeepsHistory, AllDone(node, task)
    PROVE  AllDone(node', task')
<1> SUFFICES ASSUME NEW n \in Nodes PROVE IsDone(node'[n], task')
  BY DEF AllDone
<1>1. IsDone(node[n], task) /\ node[n] \in NodeRow
  BY PlanParts DEF AllDone
<1> QED
  BY <1>1 DEF IsDone, NodeRow, RowsGrow, KeepsHistory

\* What a publish handler knows stays true.
LEMMA PubShapeStays ==
    ASSUME PlanInv, StoresOK, NEW p \in Publisher
    PROVE  PubShape(pub[p], plan', node', task')
<1> DEFINE l == pub[p]
<1>0. /\ l \in PubRecord /\ PubShape(l, plan, node, task)
      /\ plan.version \in Nat /\ plan'.version \in Nat /\ l.plan.version \in Nat
      /\ l.version \in [Nodes -> Nat]
      /\ \A n \in Nodes : node[n].version \in Nat /\ node'[n].version \in Nat
  BY PlanParts DEF PlanInv, StoresOK, PubRecord, PlanRow, NodeRow
<1> HIDE DEF l
<1>a. VersionsGrow
  BY DEF StoresOK
<1>1. /\ l.plan.version <= plan'.version
      /\ l.plan.version = plan'.version => plan'.status = l.plan.status
  <2>1. /\ l.plan.version <= plan.version
        /\ l.plan.version = plan.version => plan.status = l.plan.status
    BY <1>0 DEF PubShape
  <2> QED
    BY <1>0, <1>a, <2>1 DEF VersionsGrow
<1>2. l.pc \in {"check", "insert", "save_nodes"} =>
          \A n \in Nodes : /\ l.version[n] <= node'[n].version
                           /\ l.version[n] = node'[n].version => node'[n].ref = NoTask
  <2>1. l.pc \in {"check", "insert", "save_nodes"} =>
          \A n \in Nodes : /\ l.version[n] <= node[n].version
                           /\ l.version[n] = node[n].version => node[n].ref = NoTask
    BY <1>0 DEF PubShape
  <2> QED
    BY <1>0, <1>a, <2>1 DEF VersionsGrow
<1>3. l.key \in PlanKey => \A n \in Nodes : PlanTaskId[<<n, l.key>>] \in Task
  BY PlanAssumption
<1>4. l.pc = "insert" =>
          \A i \in 1 .. l.next - 1 : task'[PlanTaskId[<<PlanNode[i], l.key>>]].status # "unpublished"
  <2> SUFFICES ASSUME l.pc = "insert", NEW i \in 1 .. l.next - 1
               PROVE  task'[PlanTaskId[<<PlanNode[i], l.key>>]].status # "unpublished"
    OBVIOUS
  <2>1. PlanNode[i] \in Nodes
    BY <1>0, PlanAssumption DEF Nodes, PubRecord
  <2> QED
    BY <1>0, <1>3, <2>1 DEF PubShape, StoresOK, RowsGrow
<1>5. l.pc = "save_nodes" =>
          \A n \in Nodes : task'[PlanTaskId[<<n, l.key>>]].status # "unpublished"
  BY <1>0, <1>3 DEF PubShape, StoresOK, RowsGrow
<1> QED
  BY <1>0, <1>1, <1>2, <1>4, <1>5 DEF PubShape, l

\* What a reporting thread knows stays true.
LEMMA SyncShapeStays ==
    ASSUME PlanInv, StoresOK, NEW r \in Reporter
    PROVE  SyncShape(sync[r], plan', node', task')
<1> DEFINE l == sync[r]
<1>0. /\ l \in SyncRecord /\ SyncShape(l, plan, node, task)
      /\ plan.version \in Nat /\ plan'.version \in Nat
      /\ l.plan.version \in Nat /\ l.version \in Nat
      /\ \A n \in Nodes : node[n].version \in Nat /\ node'[n].version \in Nat
  BY PlanParts DEF PlanInv, StoresOK, SyncRecord, PlanRow, NodeRow
<1> HIDE DEF l
<1>1. l.pc \in {"find", "save_node"} /\ l.status = "done" => task'[l.task].status = "done"
  BY <1>0 DEF SyncShape, StoresOK, RowsGrow
<1>2. l.pc = "save_node" =>
          /\ l.version <= node'[l.node].version
          /\ l.version = node'[l.node].version => node'[l.node].ref = l.task
  BY <1>0 DEF SyncShape, StoresOK, VersionsGrow
<1>3. l.pc \in {"roll_up", "save_plan"} /\ l.plan.status = "awaiting_acceptance"
          => AllDone(node', task')
  BY <1>0, AllDoneStays DEF SyncShape, StoresOK
<1>4. /\ l.pc \in {"roll_up", "save_plan"} => l.plan.version <= plan'.version
      /\ l.pc \in {"roll_up", "save_plan"} /\ l.plan.version = plan'.version => plan' = plan
  BY <1>0 DEF SyncShape, StoresOK, VersionsGrow
<1> QED
  BY <1>0, <1>1, <1>2, <1>3, <1>4 DEF SyncShape, l

-----------------------------------------------------------------------------
(* The stores.                                                             *)

\* The plan store rests while the bus moves, or does not.
LEMMA PlanStoreRests ==
    ASSUME PlanInv, [BusNext]_busVars, UNCHANGED <<plan, node>>, payload' \in [Task -> Nat]
    PROVE  StoresOK
<1>0. RowsGrow
  BY BusRowsGrow DEF PlanInv
<1>1. VersionsGrow /\ KeepsHistory
  BY PlanParts DEF VersionsGrow, KeepsHistory
<1>2. AcceptanceIsEarned'
  BY <1>0, <1>1, AllDoneStays DEF AcceptanceIsEarned, PlanInv, PlanSound
<1>3. \A n \in Nodes : node[n].ref \in Task \cup {NoTask}
  BY PlanParts DEF NodeRow
<1>4. RefIsBacked' /\ DoneIsReported'
  BY <1>0, <1>3 DEF RefIsBacked, DoneIsReported, IsDone, Published, RowsGrow, PlanInv, PlanSound
<1> QED
  BY <1>0, <1>1, <1>2, <1>4, PlanParts DEF StoresOK

\* Nothing is stored.
LEMMA StoresRest ==
    ASSUME PlanInv, UNCHANGED <<task, plan, node, payload>>
    PROVE  StoresOK
<1>1. [BusNext]_busVars
  BY DEF busVars
<1> QED
  BY <1>1, PlanStoreRests, PlanParts

\* A node is saved: the same lineage or the first one, and `done` only when the
\* task is.
LEMMA NodeIsSaved ==
    ASSUME PlanInv, NEW n \in Nodes, NEW t \in Task, NEW exec \in Execution,
           SaveTaskNode(n, t, exec), UNCHANGED <<task, plan, payload>>,
           node[n].ref \in {NoTask, t}, task[t].status # "unpublished",
           exec = "done" => task[t].status = "done"
    PROVE  StoresOK
<1> DEFINE linked == [ref |-> t, exec |-> exec, version |-> node[n].version + 1]
<1>0. /\ node \in [Nodes -> NodeRow] /\ node[n].version \in Nat
      /\ node' = [node EXCEPT ![n] = linked] /\ linked \in NodeRow
  BY PlanParts DEF SaveTaskNode, NodeRow
<1>1. RowsGrow /\ [BusNext]_busVars
  BY DEF RowsGrow, busVars
<1>2. \A m \in Nodes : node'[m] = IF m = n THEN linked ELSE node[m]
  BY <1>0
<1>3. VersionsGrow
  BY <1>0, <1>2, PlanParts DEF VersionsGrow
<1>4. KeepsHistory
  BY <1>0, <1>2 DEF KeepsHistory
<1>5. AcceptanceIsEarned'
  BY <1>1, <1>4, AllDoneStays DEF AcceptanceIsEarned, PlanInv, PlanSound
<1>6. RefIsBacked'
  BY <1>2 DEF RefIsBacked, Published, PlanInv, PlanSound
<1>7. DoneIsReported'
  BY <1>2, NoneAssumption DEF DoneIsReported, IsDone, PlanInv
<1> QED
  BY <1>0, <1>1, <1>3, <1>4, <1>5, <1>6, <1>7, PlanParts DEF StoresOK

\* The plan is saved: not an archived one, and not for acceptance too early.
LEMMA PlanIsSaved ==
    ASSUME PlanInv, NEW status \in PlanStatus, SavePlan(status),
           UNCHANGED <<task, node, payload>>, plan.status # "archived",
           status = "awaiting_acceptance" => AllDone(node, task)
    PROVE  StoresOK
<1>0. /\ plan.version \in Nat /\ plan' \in PlanRow
      /\ plan'.version = plan.version + 1 /\ plan'.status = status
  BY PlanParts DEF SavePlan, PlanRow
<1>1. RowsGrow /\ [BusNext]_busVars
  BY DEF RowsGrow, busVars
<1>2. VersionsGrow /\ KeepsHistory
  BY <1>0, PlanParts DEF VersionsGrow, KeepsHistory
<1>3. AcceptanceIsEarned'
  BY <1>0, <1>1, <1>2, AllDoneStays DEF AcceptanceIsEarned
<1>4. RefIsBacked' /\ DoneIsReported'
  BY DEF RefIsBacked, DoneIsReported, IsDone, Published, PlanInv, PlanSound
<1> QED
  BY <1>0, <1>1, <1>2, <1>3, <1>4, PlanParts DEF StoresOK

-----------------------------------------------------------------------------
(* The threads.                                                            *)

\* One publish handler moves.
LEMMA PubMoves ==
    ASSUME PlanInv, StoresOK, NEW p \in Publisher, NEW l \in PubRecord,
           pub' = [pub EXCEPT ![p] = l], PubShape(l, plan', node', task'),
           UNCHANGED <<arch, sync>>
    PROVE  PlanStepOK
<1>0. pub \in [Publisher -> PubRecord]
  BY PlanParts
<1>1. \A q \in Publisher : PubShape(pub'[q], plan', node', task')
  BY <1>0, PubShapeStays
<1>2. \A r \in Reporter : SyncShape(sync'[r], plan', node', task')
  BY SyncShapeStays
<1>3. PlanTypeOK'
  BY <1>0, PlanParts DEF PlanTypeOK, StoresOK
<1> QED
  BY <1>1, <1>2, <1>3 DEF PlanStepOK

\* One reporting thread moves.
LEMMA SyncMoves ==
    ASSUME PlanInv, StoresOK, NEW r \in Reporter, NEW l \in SyncRecord,
           sync' = [sync EXCEPT ![r] = l], SyncShape(l, plan', node', task'),
           UNCHANGED <<arch, pub>>
    PROVE  PlanStepOK
<1>0. sync \in [Reporter -> SyncRecord]
  BY PlanParts
<1>1. \A q \in Reporter : SyncShape(sync'[q], plan', node', task')
  BY <1>0, SyncShapeStays
<1>2. \A p \in Publisher : PubShape(pub'[p], plan', node', task')
  BY PubShapeStays
<1>3. PlanTypeOK'
  BY <1>0, PlanParts DEF PlanTypeOK, StoresOK
<1> QED
  BY <1>1, <1>2, <1>3 DEF PlanStepOK

\* Only archive handlers move.
LEMMA OthersRest ==
    ASSUME PlanInv, StoresOK, UNCHANGED <<pub, sync>>, arch' \in [Archiver -> ArchRecord]
    PROVE  PlanStepOK
<1>1. \A q \in Reporter : SyncShape(sync'[q], plan', node', task')
  BY SyncShapeStays
<1>2. \A p \in Publisher : PubShape(pub'[p], plan', node', task')
  BY PubShapeStays
<1>3. PlanTypeOK'
  BY PlanParts DEF PlanTypeOK, StoresOK
<1> QED
  BY <1>1, <1>2, <1>3 DEF PlanStepOK

\* The locals of threads that have nothing to do.
LEMMA IdleLocals ==
    /\ IdlePub \in PubRecord /\ IdlePub.pc = "idle" /\ IdlePub.plan.version = 0
    /\ IdlePub.next = 1
    /\ IdleArch \in ArchRecord
    /\ IdleSync \in SyncRecord /\ IdleSync.pc = "idle"
BY PlanAssumption DEF IdlePub, PubRecord, IdleArch, ArchRecord, IdleSync, SyncRecord, NoRow,
   PlanRow, PlanStatus, Status

\* They fit every store.
LEMMA IdleFits ==
    ASSUME NEW plans, plans.version \in Nat, plans.version > 0, NEW nodes, NEW rows
    PROVE  PubShape(IdlePub, plans, nodes, rows) /\ SyncShape(IdleSync, plans, nodes, rows)
BY IdleLocals DEF PubShape, SyncShape

\* A publish handler that ends.
LEMMA PubEndsOK ==
    ASSUME PlanInv, StoresOK, NEW p \in Publisher, PubEnds(p), UNCHANGED <<arch, sync>>
    PROVE  PlanStepOK
<1>1. PubShape(IdlePub, plan', node', task')
  BY IdleFits DEF StoresOK, PlanRow
<1> QED
  BY <1>1, IdleLocals, PubMoves DEF PubEnds

\* A report that ends.
LEMMA SyncEndsOK ==
    ASSUME PlanInv, StoresOK, NEW r \in Reporter, SyncEnds(r), UNCHANGED <<arch, pub>>
    PROVE  PlanStepOK
<1>1. SyncShape(IdleSync, plan', node', task')
  BY IdleFits DEF StoresOK, PlanRow
<1> QED
  BY <1>1, IdleLocals, SyncMoves DEF SyncEnds

\* The locals of one thread, and what they know.
LEMMA Locals ==
    ASSUME PlanInv
    PROVE  /\ \A p \in Publisher : pub[p] \in PubRecord /\ PubShape(pub[p], plan, node, task)
           /\ \A r \in Reporter : sync[r] \in SyncRecord /\ SyncShape(sync[r], plan, node, task)
BY PlanParts DEF PlanInv

-----------------------------------------------------------------------------
(* The publish handler.                                                    *)

\* It reads the plan.
LEMMA PublishReadsPlanOK ==
    ASSUME PlanInv, NEW p \in Publisher, NEW k \in PlanKey, PublishReadsPlan(p, k)
    PROVE  PlanStepOK
<1> DEFINE l == [pub[p] EXCEPT !.pc = "nodes", !.key = k, !.plan = plan]
<1>0. StoresOK
  BY StoresRest DEF PublishReadsPlan
<1>1. pub' = [pub EXCEPT ![p] = l]
  BY PlanParts DEF PublishReadsPlan
<1>2. l \in PubRecord /\ l.pc = "nodes" /\ l.key = k /\ l.plan = plan
      /\ l.next = 1
  BY Locals, PlanParts DEF PubRecord, PublishReadsPlan, PubShape
<1> HIDE DEF l
<1>3. PubShape(l, plan', node', task')
  BY <1>2, PlanParts DEF PublishReadsPlan, PubShape
<1> QED
  BY <1>0, <1>1, <1>2, <1>3, PubMoves DEF PublishReadsPlan

\* A handler that goes to another step and keeps what it has read.
LEMMA PubGoesOK ==
    ASSUME PlanInv, StoresOK, NEW p \in Publisher, UNCHANGED <<arch, sync>>,
           NEW pc \in {"check", "insert", "save_nodes", "save_plan"}, PubGoes(p, pc),
           PubShape([pub[p] EXCEPT !.pc = pc], plan', node', task')
    PROVE  PlanStepOK
<1> DEFINE l == [pub[p] EXCEPT !.pc = pc]
<1>1. pub' = [pub EXCEPT ![p] = l]
  BY PlanParts DEF PubGoes
<1>2. l \in PubRecord
  BY Locals DEF PubRecord
<1> HIDE DEF l
<1>3. PubShape(l, plan', node', task')
  BY DEF l
<1> QED
  BY <1>1, <1>2, <1>3, PubMoves

\* It reads the nodes: the versions it notes are those of unlinked nodes.
LEMMA PublishReadsNodesOK ==
    ASSUME PlanInv, NEW p \in Publisher, PublishReadsNodes(p)
    PROVE  PlanStepOK
<1>0. /\ StoresOK /\ UNCHANGED <<arch, sync, task, plan, node>> /\ pub[p].pc = "nodes"
      /\ pub[p] \in PubRecord /\ PubShape(pub[p], plan, node, task)
  BY StoresRest, Locals DEF PublishReadsNodes
<1>1. CASE PubEnds(p)
  BY <1>0, <1>1, PubEndsOK
<1>2. CASE pub[p].plan.status # "archived" /\ PubGoes(p, "save_plan")
  <2> DEFINE l == [pub[p] EXCEPT !.pc = "save_plan"]
  <2>1. l.pc = "save_plan" /\ l.key = pub[p].key /\ l.plan = pub[p].plan /\ l.next = pub[p].next
    BY <1>0 DEF PubRecord
  <2> HIDE DEF l
  <2>2. PubShape(l, plan', node', task')
    BY <1>0, <1>2, <2>1 DEF PubShape
  <2> QED
    BY <1>0, <1>2, <2>2, PubGoesOK DEF l
<1>3. CASE /\ pub[p].plan.status # "archived"
           /\ {n \in Nodes : node[n].ref # NoTask} = {}
           /\ pub' = [pub EXCEPT ![p] = [@ EXCEPT !.pc = "check",
                                                  !.version = [n \in Nodes |-> node[n].version]]]
  <2> DEFINE seen == [n \in Nodes |-> node[n].version]
             l == [pub[p] EXCEPT !.pc = "check", !.version = seen]
  <2>1. pub' = [pub EXCEPT ![p] = l]
    BY <1>3, PlanParts
  <2>2. /\ seen \in [Nodes -> Nat] /\ \A n \in Nodes : seen[n] = node[n].version
        /\ \A n \in Nodes : node[n].ref = NoTask /\ node[n].version \in Nat
    BY <1>3, PlanParts
  <2> HIDE DEF seen
  <2>3. /\ l \in PubRecord /\ l.pc = "check" /\ l.key = pub[p].key /\ l.plan = pub[p].plan
        /\ l.version = seen /\ l.next = pub[p].next
    BY <1>0, <2>2 DEF PubRecord
  <2> HIDE DEF l
  <2>4. PubShape(l, plan', node', task')
    BY <1>0, <1>3, <2>2, <2>3 DEF PubShape
  <2> QED
    BY <1>0, <2>1, <2>3, <2>4, PubMoves
<1> QED
  BY <1>1, <1>2, <1>3 DEF PublishReadsNodes

\* It looks for rows of its key on the bus.
LEMMA PublishChecksBusOK ==
    ASSUME PlanInv, NEW p \in Publisher, PublishChecksBus(p)
    PROVE  PlanStepOK
<1>0. /\ StoresOK /\ UNCHANGED <<arch, sync, task, plan, node>> /\ pub[p].pc = "check"
      /\ pub[p] \in PubRecord /\ PubShape(pub[p], plan, node, task)
  BY StoresRest, Locals DEF PublishChecksBus
<1>1. CASE PubEnds(p)
  BY <1>0, <1>1, PubEndsOK
<1>2. ASSUME NEW pc \in {"insert", "save_nodes"}, PubGoes(p, pc),
             pc = "insert" => pub[p].next = 1,
             pc = "save_nodes" => \A n \in Nodes : Published(TaskOf(p, n))
      PROVE  PlanStepOK
  <2> DEFINE l == [pub[p] EXCEPT !.pc = pc]
  <2>1. /\ l.pc = pc /\ l.key = pub[p].key /\ l.plan = pub[p].plan
        /\ l.version = pub[p].version /\ l.next = pub[p].next
    BY <1>0 DEF PubRecord
  <2> HIDE DEF l
  <2>2. PubShape(l, plan', node', task')
    BY <1>0, <1>2, <2>1 DEF PubShape, TaskOf, Published
  <2> QED
    BY <1>0, <1>2, <2>2, PubGoesOK DEF l
<1>3. pub[p].next = 1
  BY <1>0 DEF PubShape
<1>4. {n \in Nodes : Published(TaskOf(p, n))} = Nodes =>
         \A n \in Nodes : Published(TaskOf(p, n))
  OBVIOUS
<1> QED
  BY <1>1, <1>2, <1>3, <1>4 DEF PublishChecksBus

\* Moving on to the next node, or after the last one to another step.
LEMMA NextNodeRecord ==
    ASSUME PlanInv, NEW p \in Publisher, NEW then \in {"save_nodes", "save_plan"},
           NextNode(p, then)
    PROVE  \E l \in PubRecord :
              /\ pub' = [pub EXCEPT ![p] = l]
              /\ l.key = pub[p].key /\ l.plan = pub[p].plan /\ l.version = pub[p].version
              /\ \/ l.pc = then /\ l.next = 1 /\ pub[p].next = Len(PlanNode)
                 \/ l.pc = pub[p].pc /\ l.next = pub[p].next + 1
<1> DEFINE last == [pub[p] EXCEPT !.pc = then, !.next = 1]
           next == [pub[p] EXCEPT !.next = pub[p].next + 1]
<1>0. pub[p] \in PubRecord /\ Len(PlanNode) \in Nat \ {0} /\ 1 \in 1 .. Len(PlanNode)
  BY Locals, PlanAssumption
<1>1. CASE pub[p].next = Len(PlanNode)
  <2>1. pub' = [pub EXCEPT ![p] = last]
    BY <1>1 DEF NextNode
  <2>2. /\ last \in PubRecord /\ last.pc = then /\ last.next = 1 /\ last.key = pub[p].key
        /\ last.plan = pub[p].plan /\ last.version = pub[p].version
    BY <1>0 DEF PubRecord
  <2> HIDE DEF last
  <2> QED
    BY <1>1, <2>1, <2>2
<1>2. CASE pub[p].next # Len(PlanNode)
  <2>1. pub' = [pub EXCEPT ![p] = next]
    BY <1>2 DEF NextNode
  <2>2. /\ next \in PubRecord /\ next.pc = pub[p].pc /\ next.next = pub[p].next + 1
        /\ next.key = pub[p].key /\ next.plan = pub[p].plan /\ next.version = pub[p].version
    BY <1>0, <1>2 DEF PubRecord
  <2> HIDE DEF next
  <2> QED
    BY <2>1, <2>2
<1> QED
  BY <1>1, <1>2

\* The node a handler is at.
LEMMA NodeAt ==
    ASSUME PlanInv, NEW p \in Publisher, pub[p].pc \in {"insert", "save_nodes"}
    PROVE  /\ PlanNode[pub[p].next] \in Nodes /\ pub[p].key \in PlanKey
           /\ \A n \in Nodes : TaskOf(p, n) \in Task
           /\ pub[p].next \in 1 .. Len(PlanNode) /\ Len(PlanNode) \in Nat
<1>1. pub[p] \in PubRecord /\ PubShape(pub[p], plan, node, task)
  BY Locals
<1>2. pub[p].next \in 1 .. Len(PlanNode) /\ pub[p].key \in PlanKey /\ Len(PlanNode) \in Nat
  BY <1>1, PlanAssumption DEF PubRecord, PubShape
<1>3. PlanNode[pub[p].next] \in Nodes
  BY <1>2, PlanAssumption DEF Nodes
<1>4. \A n \in Nodes : TaskOf(p, n) \in Task
  BY <1>2, PlanAssumption DEF TaskOf
<1> QED
  BY <1>2, <1>3, <1>4

\* It inserts a row.  After the last one the rows of all nodes are there.
LEMMA PublishInsertsOK ==
    ASSUME PlanInv, NEW p \in Publisher, PublishInserts(p)
    PROVE  PlanStepOK
<1> DEFINE t == TaskOf(p, PlanNode[pub[p].next])
<1>0. /\ UNCHANGED <<arch, sync, plan, node>> /\ pub[p].pc = "insert"
      /\ pub[p] \in PubRecord /\ PubShape(pub[p], plan, node, task)
      /\ pub[p].plan.version \in Nat /\ t \in Task
  BY Locals, NodeAt DEF PublishInserts, PubRecord, PlanRow
<1>1. CASE PubEnds(p) /\ UNCHANGED <<task, payload>>
  BY <1>0, <1>1, StoresRest, PubEndsOK
<1>2. CASE /\ Publish(t, NoTask, t)
           /\ payload' = [payload EXCEPT ![t] = pub[p].plan.version]
           /\ NextNode(p, "save_nodes")
  <2>1. BusNext
    BY <1>0, <1>2 DEF BusNext
  <2>2. payload' \in [Task -> Nat]
    BY <1>0, <1>2, PlanParts
  <2>3. StoresOK
    BY <1>0, <2>1, <2>2, PlanStoreRests
  <2>4. PICK l \in PubRecord :
           /\ pub' = [pub EXCEPT ![p] = l]
           /\ l.key = pub[p].key /\ l.plan = pub[p].plan /\ l.version = pub[p].version
           /\ \/ l.pc = "save_nodes" /\ l.next = 1 /\ pub[p].next = Len(PlanNode)
              \/ l.pc = "insert" /\ l.next = pub[p].next + 1
    BY <1>0, <1>2, NextNodeRecord
  <2>5. PubShape(pub[p], plan', node', task')
    BY <2>3, PubShapeStays
  <2>6. task'[t].status # "unpublished"
    <3>1. PublishedTask(t, NoTask, t).status = "pending"
      BY DEF PublishedTask, UnpublishedTask
    <3> QED
      BY <1>0, <1>2, <3>1, PlanParts DEF Publish
  <2>7. \A i \in 1 .. pub[p].next : task'[PlanTaskId[<<PlanNode[i], pub[p].key>>]].status # "unpublished"
    <3>1. \A i \in 1 .. pub[p].next - 1 :
             task'[PlanTaskId[<<PlanNode[i], pub[p].key>>]].status # "unpublished"
      BY <1>0, <2>5 DEF PubShape
    <3>2. task'[PlanTaskId[<<PlanNode[pub[p].next], pub[p].key>>]].status # "unpublished"
      BY <2>6 DEF TaskOf
    <3>3. \A i \in 1 .. pub[p].next : i = pub[p].next \/ i \in 1 .. pub[p].next - 1
      BY <1>0, NodeAt
    <3> HIDE DEF t
    <3> QED
      BY <3>1, <3>2, <3>3
  <2>8. l.pc = "save_nodes" =>
           \A n \in Nodes : task'[PlanTaskId[<<n, l.key>>]].status # "unpublished"
    <3> SUFFICES ASSUME l.pc = "save_nodes", NEW n \in Nodes
                 PROVE  task'[PlanTaskId[<<n, l.key>>]].status # "unpublished"
      OBVIOUS
    <3>1. PICK i \in 1 .. Len(PlanNode) : n = PlanNode[i]
      BY PlanAssumption DEF Nodes
    <3> QED
      BY <2>4, <2>7, <3>1
  <2>9. PubShape(l, plan', node', task')
    BY <1>0, <2>4, <2>5, <2>7, <2>8, NodeAt DEF PubShape
  <2> QED
    BY <1>0, <2>3, <2>4, <2>9, PubMoves
<1> QED
  BY <1>1, <1>2 DEF PublishInserts

\* It links a node to its row: the version says nobody has linked it before.
LEMMA PublishSavesNodeOK ==
    ASSUME PlanInv, NEW p \in Publisher, PublishSavesNode(p)
    PROVE  PlanStepOK
<1> DEFINE n == PlanNode[pub[p].next]
<1>0. /\ UNCHANGED <<arch, sync, task, plan, payload>> /\ pub[p].pc = "save_nodes"
      /\ pub[p] \in PubRecord /\ PubShape(pub[p], plan, node, task)
      /\ n \in Nodes /\ TaskOf(p, n) \in Task
  BY Locals, NodeAt DEF PublishSavesNode
<1>1. CASE PubEnds(p) /\ UNCHANGED node
  BY <1>0, <1>1, StoresRest, PubEndsOK
<1>2. CASE /\ CheckVersion(node[n].version, pub[p].version[n])
           /\ SaveTaskNode(n, TaskOf(p, n), "pending") /\ NextNode(p, "save_plan")
  <2>1. node[n].ref = NoTask /\ task[TaskOf(p, n)].status # "unpublished"
    BY <1>0, <1>2 DEF CheckVersion, PubShape, TaskOf
  <2>2. StoresOK
    BY <1>0, <1>2, <2>1, NodeIsSaved DEF Execution
  <2>3. PICK l \in PubRecord :
           /\ pub' = [pub EXCEPT ![p] = l]
           /\ l.key = pub[p].key /\ l.plan = pub[p].plan /\ l.version = pub[p].version
           /\ \/ l.pc = "save_plan" /\ l.next = 1
              \/ l.pc = "save_nodes"
    BY <1>0, <1>2, NextNodeRecord
  <2>4. PubShape(pub[p], plan', node', task')
    BY <2>2, PubShapeStays
  <2>5. PubShape(l, plan', node', task')
    BY <1>0, <2>3, <2>4 DEF PubShape
  <2> QED
    BY <1>0, <2>2, <2>3, <2>5, PubMoves
<1> QED
  BY <1>1, <1>2 DEF PublishSavesNode

\* It saves the plan, if that is still the one it has read.
LEMMA PublishSavesPlanOK ==
    ASSUME PlanInv, NEW p \in Publisher, PublishSavesPlan(p)
    PROVE  PlanStepOK
<1>0. /\ UNCHANGED <<arch, sync, task, node, payload>> /\ pub[p].pc = "save_plan"
      /\ PubShape(pub[p], plan, node, task) /\ PubEnds(p)
  BY Locals DEF PublishSavesPlan
<1>1. CASE UNCHANGED plan
  BY <1>0, <1>1, StoresRest, PubEndsOK
<1>2. CASE CheckVersion(plan.version, pub[p].plan.version) /\ SavePlan("published")
  <2>1. plan.status # "archived"
    BY <1>0, <1>2 DEF CheckVersion, PubShape
  <2>2. StoresOK
    BY <1>0, <1>2, <2>1, PlanIsSaved DEF PlanStatus
  <2> QED
    BY <1>0, <2>2, PubEndsOK
<1> QED
  BY <1>1, <1>2 DEF PublishSavesPlan

-----------------------------------------------------------------------------
(* The archive handler.                                                    *)

\* It looks at the status of the plan.
LEMMA ArchiveChecksOK ==
    ASSUME PlanInv, NEW a \in Archiver, ArchiveChecks(a)
    PROVE  PlanStepOK
<1>1. arch' \in [Archiver -> ArchRecord]
  <2>1. PICK v \in {0, plan.version} :
           arch' = [arch EXCEPT ![a] = [pc |-> "archive", version |-> v]]
    BY DEF ArchiveChecks
  <2>2. [pc |-> "archive", version |-> v] \in ArchRecord
    BY <2>1, PlanParts DEF ArchRecord
  <2> QED
    BY <2>1, <2>2, PlanParts
<1> QED
  BY <1>1, StoresRest, OthersRest DEF ArchiveChecks

\* It archives a plan that is not archived yet.
LEMMA ArchiveWritesOK ==
    ASSUME PlanInv, NEW a \in Archiver, ArchiveWrites(a)
    PROVE  PlanStepOK
<1>1. arch' \in [Archiver -> ArchRecord]
  BY IdleLocals, PlanParts DEF ArchiveWrites
<1>2. StoresOK
  <2>1. CASE UNCHANGED plan
    BY <2>1, StoresRest DEF ArchiveWrites
  <2>2. CASE plan.status # "archived" /\ SavePlan("archived")
    BY <2>2, PlanIsSaved DEF ArchiveWrites, PlanStatus
  <2> QED
    BY <2>1, <2>2 DEF ArchiveWrites
<1> QED
  BY <1>1, <1>2, OthersRest DEF ArchiveWrites

-----------------------------------------------------------------------------
(* The reports.                                                            *)

\* A report begins with the status the row was just given.
LEMMA ReportOK ==
    ASSUME PlanInv, StoresOK, NEW r \in Reporter, NEW t \in Task,
           NEW status \in Execution \ {"not_started"}, Report(r, t, status),
           status = "done" => task'[t].status = "done", UNCHANGED <<arch, pub>>
    PROVE  PlanStepOK
<1> DEFINE l == [IdleSync EXCEPT !.pc = "find", !.task = t, !.status = status]
<1>1. sync' = [sync EXCEPT ![r] = l]
  BY DEF Report
<1>2. l \in SyncRecord /\ l.pc = "find" /\ l.task = t /\ l.status = status
  BY IdleLocals DEF SyncRecord, Execution, Status
<1> HIDE DEF l
<1>3. SyncShape(l, plan', node', task')
  BY <1>2 DEF SyncShape
<1> QED
  BY <1>1, <1>2, <1>3, SyncMoves

\* It finds the node of the task.
LEMMA SyncFindsNodeOK ==
    ASSUME PlanInv, NEW r \in Reporter, SyncFindsNode(r)
    PROVE  PlanStepOK
<1>0. /\ StoresOK /\ UNCHANGED <<arch, pub, task, plan, node>> /\ sync[r].pc = "find"
      /\ sync[r] \in SyncRecord /\ SyncShape(sync[r], plan, node, task)
  BY StoresRest, Locals DEF SyncFindsNode
<1>1. CASE SyncEnds(r)
  BY <1>0, <1>1, SyncEndsOK
<1>2. ASSUME NEW n \in Nodes, NEW pc \in {"save_node", "read_plan"},
             node[n].ref = sync[r].task,
             sync' = [sync EXCEPT ![r] = [@ EXCEPT !.pc = pc, !.node = n, !.version = node[n].version]]
      PROVE  PlanStepOK
  <2> DEFINE l == [sync[r] EXCEPT !.pc = pc, !.node = n, !.version = node[n].version]
  <2>1. sync' = [sync EXCEPT ![r] = l]
    BY <1>2, PlanParts
  <2>2. node[n].version \in Nat
    BY PlanParts
  <2>3. /\ l \in SyncRecord /\ l.pc = pc /\ l.node = n /\ l.version = node[n].version
        /\ l.task = sync[r].task /\ l.status = sync[r].status
    BY <1>0, <2>2 DEF SyncRecord
  <2> HIDE DEF l
  <2>4. SyncShape(l, plan', node', task')
    BY <1>0, <1>2, <2>2, <2>3 DEF SyncShape
  <2> QED
    BY <1>0, <2>1, <2>3, <2>4, SyncMoves
<1> QED
  BY <1>1, <1>2 DEF SyncFindsNode

\* It saves the node, if that is still the one it has found.
LEMMA SyncSavesNodeOK ==
    ASSUME PlanInv, NEW r \in Reporter, SyncSavesNode(r)
    PROVE  PlanStepOK
<1> DEFINE n == sync[r].node
           t == sync[r].task
<1>0. /\ UNCHANGED <<arch, pub, task, plan, payload>> /\ sync[r].pc = "save_node"
      /\ sync[r] \in SyncRecord /\ SyncShape(sync[r], plan, node, task)
  BY Locals DEF SyncSavesNode
<1>1. CASE SyncEnds(r) /\ UNCHANGED node
  BY <1>0, <1>1, StoresRest, SyncEndsOK
<1>2. CASE /\ CheckVersion(node[n].version, sync[r].version)
           /\ SaveTaskNode(n, t, sync[r].status) /\ SyncGoes(r, "read_plan")
  <2>1. /\ n \in Nodes /\ t \in Task /\ sync[r].status \in Execution /\ node[n].ref = t
        /\ sync[r].status = "done" => task[t].status = "done"
    BY <1>0, <1>2 DEF CheckVersion, SyncShape
  <2>2. task[t].status # "unpublished"
    BY <2>1, NoneAssumption DEF PlanInv, PlanSound, RefIsBacked, Published
  <2>3. StoresOK
    BY <1>0, <1>2, <2>1, <2>2, NodeIsSaved
  <2> DEFINE l == [sync[r] EXCEPT !.pc = "read_plan"]
  <2>4. sync' = [sync EXCEPT ![r] = l]
    BY <1>2, PlanParts DEF SyncGoes
  <2>5. l \in SyncRecord /\ l.pc = "read_plan"
    BY <1>0 DEF SyncRecord
  <2> HIDE DEF l
  <2>6. SyncShape(l, plan', node', task')
    BY <2>5 DEF SyncShape
  <2> QED
    BY <1>0, <2>3, <2>4, <2>5, <2>6, SyncMoves
<1> QED
  BY <1>1, <1>2 DEF SyncSavesNode

\* It reads the plan.
LEMMA SyncReadsPlanOK ==
    ASSUME PlanInv, NEW r \in Reporter, SyncReadsPlan(r)
    PROVE  PlanStepOK
<1> DEFINE l == [sync[r] EXCEPT !.pc = "roll_up", !.plan = plan]
<1>0. /\ StoresOK /\ UNCHANGED <<arch, pub, task, plan, node>> /\ sync[r] \in SyncRecord
  BY StoresRest, Locals DEF SyncReadsPlan
<1>1. sync' = [sync EXCEPT ![r] = l]
  BY PlanParts DEF SyncReadsPlan
<1>2. l \in SyncRecord /\ l.pc = "roll_up" /\ l.plan = plan
  BY <1>0, PlanParts DEF SyncRecord
<1> HIDE DEF l
<1>3. SyncShape(l, plan', node', task')
  BY <1>0, <1>2, PlanParts DEF SyncShape, PlanInv, PlanSound, AcceptanceIsEarned
<1> QED
  BY <1>0, <1>1, <1>2, <1>3, SyncMoves

\* What the nodes make of the status of a plan: acceptance only when the tasks
\* of all of them are done, and nothing of an archived plan.
LEMMA RollUp ==
    ASSUME PlanInv, NEW status \in PlanStatus
    PROVE  /\ PlanStatusFromNodes(status) \in PlanStatus
           /\ PlanStatusFromNodes(status) # status => status # "archived"
           /\ PlanStatusFromNodes(status) = "awaiting_acceptance" /\ status # "awaiting_acceptance"
                => AllDone(node, task)
<1> DEFINE executions == {node[n].exec : n \in Nodes}
<1>1. executions \subseteq {"done"} => AllDone(node, task)
  <2> SUFFICES ASSUME executions \subseteq {"done"}, NEW n \in Nodes
               PROVE  IsDone(node[n], task)
    BY DEF AllDone
  <2>1. node[n].exec = "done"
    OBVIOUS
  <2> QED
    BY <2>1 DEF PlanInv, DoneIsReported
<1> DEFINE computed == PlanStatusFromNodes(status)
<1>3. /\ status = "archived" => computed = status
      /\ computed \in {status, "failed", "awaiting_acceptance", "running"}
      /\ computed = "awaiting_acceptance" => status = computed \/ executions \subseteq {"done"}
  BY DEF PlanStatusFromNodes
<1> HIDE DEF computed, executions
<1>4. /\ computed \in PlanStatus
      /\ computed # status => status # "archived"
      /\ computed = "awaiting_acceptance" /\ status # "awaiting_acceptance" => AllDone(node, task)
  BY <1>1, <1>3 DEF PlanStatus
<1> QED
  BY <1>4 DEF computed

\* It computes the status of the plan from the nodes.
LEMMA SyncRollsUpOK ==
    ASSUME PlanInv, NEW r \in Reporter, SyncRollsUp(r)
    PROVE  PlanStepOK
<1> DEFINE old == sync[r].plan
           status == PlanStatusFromNodes(old.status)
           new == [old EXCEPT !.status = status]
           l == [sync[r] EXCEPT !.pc = "save_plan", !.plan = new]
<1>0. /\ StoresOK /\ UNCHANGED <<arch, pub, task, plan, node>> /\ sync[r].pc = "roll_up"
      /\ sync[r] \in SyncRecord /\ SyncShape(sync[r], plan, node, task)
      /\ old \in PlanRow /\ old.status \in PlanStatus
  BY StoresRest, Locals DEF SyncRollsUp, SyncRecord, PlanRow
<1>1. CASE SyncEnds(r)
  BY <1>0, <1>1, SyncEndsOK
<1>2. CASE status # old.status /\ ~SyncEnds(r)
  <2>1. sync' = [sync EXCEPT ![r] = [@ EXCEPT !.pc = "save_plan", !.plan.status = status]]
    BY <1>2 DEF SyncRollsUp
  <2>2. /\ status \in PlanStatus /\ old.status # "archived"
        /\ status = "awaiting_acceptance" => AllDone(node, task)
    BY <1>0, <1>2, RollUp
  <2> HIDE DEF status
  <2>3. sync' = [sync EXCEPT ![r] = l]
    BY <1>0, <2>1, PlanParts
  <2>4. new \in PlanRow /\ new.status = status /\ new.version = old.version
    BY <1>0, <2>2 DEF PlanRow
  <2> HIDE DEF new
  <2>5. l \in SyncRecord /\ l.pc = "save_plan" /\ l.plan = new
    BY <1>0, <2>4 DEF SyncRecord
  <2> HIDE DEF l
  <2>6. SyncShape(l, plan', node', task')
    BY <1>0, <2>2, <2>4, <2>5 DEF SyncShape
  <2> QED
    BY <1>0, <2>3, <2>5, <2>6, SyncMoves
<1> QED
  BY <1>1, <1>2 DEF SyncRollsUp

\* It saves the plan, if that is still the one it has read.
LEMMA SyncSavesPlanOK ==
    ASSUME PlanInv, NEW r \in Reporter, SyncSavesPlan(r)
    PROVE  PlanStepOK
<1>0. /\ UNCHANGED <<arch, pub, task, node, payload>> /\ sync[r].pc = "save_plan"
      /\ sync[r] \in SyncRecord /\ SyncShape(sync[r], plan, node, task) /\ SyncEnds(r)
  BY Locals DEF SyncSavesPlan
<1>1. CASE UNCHANGED plan
  BY <1>0, <1>1, StoresRest, SyncEndsOK
<1>2. CASE CheckVersion(plan.version, sync[r].plan.version) /\ SavePlan(sync[r].plan.status)
  <2>1. /\ plan.status # "archived"
        /\ sync[r].plan.status = "awaiting_acceptance" => AllDone(node, task)
    BY <1>0, <1>2 DEF CheckVersion, SyncShape
  <2>2. sync[r].plan.status \in PlanStatus
    BY <1>0 DEF SyncRecord, PlanRow
  <2>3. StoresOK
    BY <1>0, <1>2, <2>1, <2>2, PlanIsSaved
  <2> QED
    BY <1>0, <2>3, SyncEndsOK
<1> QED
  BY <1>1, <1>2 DEF SyncSavesPlan

-----------------------------------------------------------------------------
(* The worker, the recoveries, the commands and the crash.                 *)

\* The threads that report.
LEMMA Reporters == Worker \in Reporter /\ Recoverer \in Reporter
BY DEF Reporter

\* The worker claims a task.
LEMMA TickClaimsOK ==
    ASSUME PlanInv, TickClaims
    PROVE  PlanStepOK
<1>0. UNCHANGED <<plan, node, payload, pub, arch>>
  BY DEF TickClaims, TickVars
<1>1. PICK s \in Session, cap \in Capability, agent \in Agent, t \in Task :
        /\ IsNext(t, s, cap) /\ ClaimTask(t, agent)
        /\ sync' = [sync EXCEPT ![Worker] = [@ EXCEPT !.pc = "run", !.task = t]]
  BY DEF TickClaims
<1>2. BusNext
  BY <1>1 DEF BusNext, ClaimNext
<1>3. StoresOK
  BY <1>0, <1>2, PlanStoreRests, PlanParts
<1> DEFINE l == [sync[Worker] EXCEPT !.pc = "run", !.task = t]
<1>4. sync' = [sync EXCEPT ![Worker] = l]
  BY <1>1, PlanParts
<1>5. l \in SyncRecord /\ l.pc = "run" /\ l.task = t
  BY Reporters, Locals DEF SyncRecord
<1> HIDE DEF l
<1>6. SyncShape(l, plan', node', task')
  BY <1>5 DEF SyncShape
<1> QED
  BY <1>0, <1>3, <1>4, <1>5, <1>6, Reporters, SyncMoves

\* It settles the task it ran, unless a recovery has.
LEMMA TickSettlesOK ==
    ASSUME PlanInv, TickSettles
    PROVE  PlanStepOK
<1> DEFINE t == sync[Worker].task
<1>0. /\ UNCHANGED <<plan, node, payload, pub, arch>> /\ t \in Task
      /\ task \in [Task -> TaskDomain] /\ Worker \in Reporter /\ payload' \in [Task -> Nat]
  BY Reporters, Locals, PlanParts DEF TickSettles, TickVars, SyncShape
<1>1. CASE Complete(t, TRUE) /\ Report(Worker, t, "done")
  <2>1. BusNext
    BY <1>0, <1>1 DEF BusNext
  <2>2. StoresOK
    BY <1>0, <2>1, PlanStoreRests
  <2>3. task'[t].status = "done"
    BY <1>0, <1>1 DEF Complete, TaskDomain
  <2> QED
    BY <1>0, <1>1, <2>2, <2>3, ReportOK DEF Execution
<1>2. CASE Fail(t, "failed") /\ Report(Worker, t, "failed")
  <2>1. BusNext
    BY <1>0, <1>2 DEF BusNext
  <2>2. StoresOK
    BY <1>0, <2>1, PlanStoreRests
  <2> QED
    BY <1>0, <1>2, <2>2, ReportOK DEF Execution
<1>3. CASE SyncEnds(Worker) /\ UNCHANGED task
  BY <1>0, <1>3, StoresRest, SyncEndsOK
<1> QED
  BY <1>1, <1>2, <1>3 DEF TickSettles

\* The task it runs asks the user.
LEMMA TickAsksOK ==
    ASSUME PlanInv, TickAsks
    PROVE  PlanStepOK
<1> DEFINE l == [sync[Worker] EXCEPT !.pc = "waits"]
<1>0. /\ UNCHANGED <<plan, node, payload, pub, arch>> /\ sync[Worker].task \in Task
      /\ sync[Worker] \in SyncRecord /\ Worker \in Reporter /\ payload' \in [Task -> Nat]
  BY Reporters, Locals, PlanParts DEF TickAsks, TickVars, SyncShape
<1>1. BusNext
  BY <1>0 DEF TickAsks, BusNext
<1>2. StoresOK
  BY <1>0, <1>1, PlanStoreRests
<1>3. sync' = [sync EXCEPT ![Worker] = l]
  BY PlanParts DEF TickAsks, SyncGoes
<1>4. l \in SyncRecord /\ l.pc = "waits" /\ l.task \in Task
  BY <1>0 DEF SyncRecord
<1> HIDE DEF l
<1>5. SyncShape(l, plan', node', task')
  BY <1>4 DEF SyncShape
<1> QED
  BY <1>0, <1>2, <1>3, <1>4, <1>5, SyncMoves

\* It reports a row that waits.
LEMMA TickReportsWaitingOK ==
    ASSUME PlanInv, TickReportsWaiting
    PROVE  PlanStepOK
<1>0. /\ UNCHANGED <<task, plan, node, payload, pub, arch>> /\ sync[Worker].task \in Task
      /\ Worker \in Reporter
  BY Reporters, Locals DEF TickReportsWaiting, TickVars, SyncShape
<1>1. StoresOK
  BY <1>0, StoresRest
<1>2. CASE Report(Worker, sync[Worker].task, "waiting_for_user")
  BY <1>0, <1>1, <1>2, ReportOK DEF Execution
<1>3. CASE SyncEnds(Worker)
  BY <1>0, <1>1, <1>3, SyncEndsOK
<1> QED
  BY <1>2, <1>3 DEF TickReportsWaiting

\* A recovery of a snapshot.
LEMMA RecoversOK ==
    ASSUME PlanInv, NEW t \in Task, RecoverResumes(t) \/ RecoverStops(t)
    PROVE  PlanStepOK
<1>0. /\ UNCHANGED <<plan, node, payload, pub, arch>> /\ Recoverer \in Reporter
      /\ payload' \in [Task -> Nat]
  BY Reporters, PlanParts DEF RecoverResumes, RecoverStops, RecoveryVars
<1>1. BusNext
  BY DEF RecoverResumes, RecoverStops, BusNext
<1>2. StoresOK
  BY <1>0, <1>1, PlanStoreRests
<1>3. Report(Recoverer, t, "pending") \/ Report(Recoverer, t, "failed")
  BY DEF RecoverResumes, RecoverStops
<1> QED
  BY <1>0, <1>2, <1>3, ReportOK DEF Execution

\* A command of the user.
LEMMA UserCommandOK ==
    ASSUME PlanInv, NEW t \in Task, UserCommand(t)
    PROVE  PlanStepOK
<1>0. UNCHANGED <<plan, node, pub, arch, sync>>
  BY DEF UserCommand
<1>1. BusNext
  BY DEF UserCommand, BusNext
<1>2. payload' \in [Task -> Nat]
  BY PlanParts DEF UserCommand
<1>3. StoresOK
  BY <1>0, <1>1, <1>2, PlanStoreRests
<1> QED
  BY <1>0, <1>3, PlanParts, OthersRest

\* A crash leaves the stores as they are and forgets every thread.
LEMMA CrashOK ==
    ASSUME PlanInv, Crash
    PROVE  PlanStepOK
<1>0. StoresOK
  BY StoresRest DEF Crash
<1>1. PubShape(IdlePub, plan', node', task') /\ SyncShape(IdleSync, plan', node', task')
  BY <1>0, IdleFits DEF StoresOK, PlanRow
<1>2. /\ \A p \in Publisher : pub'[p] = IdlePub
      /\ \A r \in Reporter : sync'[r] = IdleSync
  BY DEF Crash
<1>3. PlanTypeOK'
  BY <1>0, IdleLocals DEF PlanTypeOK, StoresOK, Crash
<1> QED
  BY <1>0, <1>1, <1>2, <1>3 DEF PlanStepOK

-----------------------------------------------------------------------------
(* The theorems.                                                           *)

\* Every step of the specification keeps versions, rows and history, and what
\* each thread knows.
LEMMA PlanNextOK ==
    ASSUME PlanInv, [PlanNext]_planExecutionVars
    PROVE  PlanStepOK
<1>1. ASSUME NEW p \in Publisher, NEW k \in PlanKey, PublishReadsPlan(p, k)
      PROVE  PlanStepOK
  BY <1>1, PublishReadsPlanOK
<1>2. ASSUME NEW p \in Publisher, PublisherStep(p) PROVE PlanStepOK
  BY <1>2, PublishReadsNodesOK, PublishChecksBusOK, PublishInsertsOK, PublishSavesNodeOK,
     PublishSavesPlanOK DEF PublisherStep
<1>3. ASSUME NEW a \in Archiver, ArchiveChecks(a) \/ ArchiveWrites(a) PROVE PlanStepOK
  BY <1>3, ArchiveChecksOK, ArchiveWritesOK
<1>4. ASSUME NEW r \in Reporter, SyncStep(r) PROVE PlanStepOK
  BY <1>4, SyncFindsNodeOK, SyncSavesNodeOK, SyncReadsPlanOK, SyncRollsUpOK, SyncSavesPlanOK
     DEF SyncStep
<1>5. CASE TickStep
  BY <1>5, TickClaimsOK, TickSettlesOK, TickAsksOK, TickReportsWaitingOK DEF TickStep
<1>6. ASSUME NEW t \in Task, RecoverResumes(t) \/ RecoverStops(t) \/ UserCommand(t)
      PROVE  PlanStepOK
  BY <1>6, RecoversOK, UserCommandOK
<1>7. CASE Crash
  BY <1>7, CrashOK
<1>8. CASE UNCHANGED planExecutionVars
  <2>1. UNCHANGED <<task, plan, node, payload, pub, arch, sync>>
    BY <1>8 DEF planExecutionVars, planVars, busVars
  <2> QED
    BY <2>1, StoresRest, OthersRest, PlanParts
<1> QED
  BY <1>1, <1>2, <1>3, <1>4, <1>5, <1>6, <1>7, <1>8 DEF PlanNext

\* A new draft satisfies the invariant.
LEMMA PlanInitInv == PlanInit => PlanInv
<1> SUFFICES ASSUME PlanInit PROVE PlanInv
  OBVIOUS
<1>1. BusInv
  BY InitInv DEF PlanInit
<1>2. /\ plan \in PlanRow /\ plan.version = 1 /\ plan.status = "draft"
      /\ payload \in [Task -> Nat]
  BY DEF PlanInit, PlanRow, PlanStatus
<1>3. /\ node \in [Nodes -> NodeRow]
      /\ \A n \in Nodes : node[n].ref = NoTask /\ node[n].exec = "not_started"
  BY DEF PlanInit, NodeRow, Execution
<1>4. /\ \A p \in Publisher : pub[p] = IdlePub
      /\ \A r \in Reporter : sync[r] = IdleSync
  BY DEF PlanInit
<1>5. PlanTypeOK
  BY <1>2, <1>3, IdleLocals DEF PlanTypeOK, PlanInit
<1>6. AcceptanceIsEarned /\ RefIsBacked /\ DoneIsReported
  BY <1>2, <1>3 DEF AcceptanceIsEarned, RefIsBacked, DoneIsReported
<1>7. PubShape(IdlePub, plan, node, task) /\ SyncShape(IdleSync, plan, node, task)
  BY <1>2, IdleFits
<1> QED
  BY <1>1, <1>2, <1>4, <1>5, <1>6, <1>7 DEF PlanInv, PlanSound

\* The inductive invariant: what the plan store says of the bus and what every
\* publish handler and reporting thread still knows of both.
THEOREM PlanInvariant == PlanSpec => []PlanInv
<1>1. PlanInv /\ [PlanNext]_planExecutionVars => PlanInv'
  BY PlanNextOK, PlanStepKeepsInv
<1> QED
  BY PlanInitInv, <1>1, PTL DEF PlanSpec

\* A plan is offered for acceptance only when every task of it is done on the
\* bus, and a lineage is backed by a row: sync_task and publish_plan in any
\* interleaving, with conflicts and crashes.
THEOREM PlanIsSound == PlanSpec => []PlanSound
<1>1. PlanInv => PlanSound
  BY DEF PlanInv
<1> QED
  BY <1>1, PlanInvariant, PTL

\* No publish, report or archive command that read the plan earlier undoes a
\* lineage or an archiving (the versioned saves of sqlite_plan_store.py).
THEOREM HistoryIsKept == PlanSpec => PlanHistoryKept
<1>1. PlanInv /\ [PlanNext]_planExecutionVars => [KeepsHistory]_planExecutionVars
  BY PlanNextOK DEF PlanStepOK, StoresOK
<1> QED
  BY <1>1, PlanInvariant, PTL DEF PlanSpec, PlanHistoryKept

\* Plans use the bus as any other client: the bus keeps all it promises.
THEOREM PlanImplementsBus == PlanSpec => BusSpec
<1>1. PlanInv /\ [PlanNext]_planExecutionVars => [BusNext]_busVars
  BY PlanNextOK DEF PlanStepOK, StoresOK
<1>2. PlanInit => BusInit
  BY DEF PlanInit
<1> QED
  BY <1>1, <1>2, PlanInvariant, PTL DEF PlanSpec, BusSpec


-----------------------------------------------------------------------------
(* Operators of the publisher.                                             *)

\* The expanded tree is a sequence of nodes and has one (expand_for_publish).
LEMMA ExpandType ==
    ASSUME NEW content \in Content
    PROVE  /\ Expand(content) \in Seq(BusNode)
           /\ Expand(content) # <<>>
           /\ Len(Expand(content)) \in Nat /\ Len(Expand(content)) > 0
           /\ DOMAIN Expand(content) = 1 .. Len(Expand(content))
<1>1. TreeNodes(content) \in Seq(TreeNode) /\ TreeNodes(content) # <<>>
  BY PublishingAssumption DEF TreeNodes, Content
<1>2. PICK s \in Seq(TreeNode) : s = TreeNodes(content) /\ s # <<>>
  BY <1>1
<1>3. s \in Seq(BusNode) /\ <<PipelineNode>> \in Seq(BusNode)
  BY DEF BusNode
<1>4. <<PipelineNode>> \o s \in Seq(BusNode) /\ <<PipelineNode>> \o s # <<>>
  BY <1>3
<1>5. Expand(content) \in Seq(BusNode) /\ Expand(content) # <<>>
  BY <1>2, <1>3, <1>4 DEF Expand
<1> QED
  BY <1>5

\* The nodes of a request are nodes of the bus.
LEMMA ExpandNodes ==
    ASSUME NEW content \in Content
    PROVE  /\ Range(Expand(content)) \subseteq BusNode
           /\ \A i \in DOMAIN Expand(content) :
                Expand(content)[i] \in BusNode /\ Expand(content)[i] \in Range(Expand(content))
<1>1. PICK s \in Seq(BusNode) : s = Expand(content)
  BY ExpandType
<1>2. \A i \in DOMAIN s : s[i] \in BusNode
  OBVIOUS
<1> QED
  BY <1>1, <1>2 DEF Range

\* A payload and a hash are records, not an absent value.
LEMMA RequestFacts ==
    ASSUME NEW req \in Request
    PROVE  /\ req.key \in Keys /\ req.content \in Content /\ req.id \in Nat /\ req.dry \in BOOLEAN
           /\ \A n : Payload(req, n) \in TaskPayload /\ Payload(req, n) # Nobody
           /\ RequestHash(req) \in Hash /\ RequestHash(req).content = req.content
<1>1. req.key \in Keys /\ req.content \in Content /\ req.id \in RequestId /\ req.dry \in BOOLEAN
  BY DEF Request
<1>2. req.id \in Nat
  BY <1>1, PublishingAssumption DEF RequestId
<1>3. \A n : Payload(req, n) \in TaskPayload
  BY <1>1, <1>2 DEF Payload, TaskPayload
<1>4. RequestHash(req) \in Hash /\ RequestHash(req).content = req.content
  BY <1>1, <1>2 DEF RequestHash, Hash
<1> QED
  BY <1>1, <1>2, <1>3, <1>4, PublishingAssumption
-----------------------------------------------------------------------------
(* What a step leaves alone.                                               *)

\* A task on the bus keeps its payload, and the first record of a key stays.
RowsKept ==
    \A k \in Keys, n \in BusNode : row[k][n] # Nobody => row'[k][n] = row[k][n]

RecordsKept == \A k \in Keys : record[k] # Nobody => record'[k] = record[k]

\* A whole tree stays whole.
LEMMA WholeStays ==
    ASSUME NEW req \in Request, Whole(req, row), RowsKept
    PROVE  Whole(req, row')
<1> SUFFICES ASSUME NEW n \in Range(Expand(req.content))
             PROVE  row'[req.key][n] = Payload(req, n)
  BY DEF Whole
<1>1. n \in BusNode /\ req.key \in Keys /\ Payload(req, n) # Nobody
  BY RequestFacts, ExpandNodes
<1>2. row[req.key][n] = Payload(req, n)
  BY DEF Whole
<1> QED
  BY <1>1, <1>2 DEF RowsKept

\* A whole tree is on the bus.
LEMMA WholeIsOnBus ==
    ASSUME NEW req \in Request, Whole(req, row)
    PROVE  OnBus(req.key, req.content)
BY RequestFacts DEF Whole, OnBus

\* What is on the bus stays there.
LEMMA OnBusStays ==
    ASSUME NEW k \in Keys, NEW content \in Content, OnBus(k, content), RowsKept
    PROVE  OnBus(k, content)'
<1>1. \A n \in Range(Expand(content)) : row'[k][n] # Nobody
  <2> TAKE n \in Range(Expand(content))
  <2>1. n \in BusNode
    BY ExpandNodes
  <2>2. row[k][n] # Nobody
    BY DEF OnBus
  <2> QED
    BY <2>1, <2>2 DEF RowsKept
<1> QED
  BY <1>1 DEF OnBus

\* What a caller knows stays so while it does nothing.
LEMMA KnowsStays ==
    ASSUME NEW l \in Call, Knows(l, row, record), RowsKept, RecordsKept,
           l.pc \notin {"idle", "tick"} => l.req \in Request,
           l.pc = "insert" => l.next \in DOMAIN Expand(l.req.content),
           l.pc \in {"idle", "tick"} => l.outcome = Nobody
    PROVE  Knows(l, row', record')
<1>1. ASSUME l.pc = "insert", NEW i \in 1 .. l.next - 1
      PROVE  row'[l.req.key][Expand(l.req.content)[i]] = Payload(l.req, Expand(l.req.content)[i])
  <2>1. l.req \in Request
    BY <1>1
  <2>2. l.req.key \in Keys /\ l.req.content \in Content
    BY <2>1, RequestFacts
  <2>3. PICK n : n = Expand(l.req.content)[i]
    OBVIOUS
  <2>4. i \in DOMAIN Expand(l.req.content)
    <3>1. PICK len \in Nat : DOMAIN Expand(l.req.content) = 1 .. len
      BY <2>2, ExpandType
    <3>2. l.next \in 1 .. len
      BY <1>1, <3>1
    <3> QED
      BY <1>1, <3>1, <3>2
  <2>5. n \in BusNode
    BY <2>2, <2>3, <2>4, ExpandNodes
  <2>6. row[l.req.key][n] = Payload(l.req, n)
    BY <1>1, <2>3 DEF Knows
  <2>7. Payload(l.req, n) # Nobody
    BY <2>1, RequestFacts
  <2> QED
    BY <2>2, <2>3, <2>5, <2>6, <2>7 DEF RowsKept
<1>2. ASSUME l.outcome \in Accepted
      PROVE  Whole(l.req, row')
  <2>1. l.req \in Request
    BY <1>2, PublishingAssumption DEF Accepted, Outcome
  <2> QED
    BY <1>2, <2>1, WholeStays DEF Knows
<1>3. ASSUME l.outcome = "replayed"
      PROVE  record'[l.req.key] # Nobody /\ record'[l.req.key].hash = RequestHash(l.req)
  <2>1. l.req \in Request
    BY <1>3, PublishingAssumption DEF Outcome
  <2>2. l.req.key \in Keys
    BY <2>1, RequestFacts
  <2> QED
    BY <1>3, <2>2 DEF Knows, RecordsKept
<1> QED
  BY <1>1, <1>2, <1>3 DEF Knows
-----------------------------------------------------------------------------
(* Times of a daily schedule.                                              *)

\* Multiples of a period that differ are a period apart.
LEMMA PeriodsApart ==
    ASSUME NEW e \in Nat \ {0}, NEW i \in Nat, NEW j \in Nat, i < j
    PROVE  j * e - i * e >= e
<1>1. PICK d \in Nat : j = i + 1 + d
  <2>1. j - i - 1 \in Nat /\ j = i + 1 + (j - i - 1)
    OBVIOUS
  <2> QED
    BY <2>1
<1>2. (i + 1 + d) * e = i * e + e + d * e
  OBVIOUS
<1>3. d * e \in Nat /\ i * e \in Nat
  OBVIOUS
<1> QED
  BY <1>1, <1>2, <1>3

\* Two run times that differ are a period apart (_first_run_at, _next_after).
LEMMA SlotsApart ==
    ASSUME NEW r \in Nat, NEW s \in Nat, Slot(r), Slot(s), r < s
    PROVE  s - r >= Every
<1>1. PICK i \in Nat : r = i * Every + TimeOfDay
  BY DEF Slot
<1>2. PICK j \in Nat : s = j * Every + TimeOfDay
  BY DEF Slot
<1>3. Every \in Nat \ {0} /\ TimeOfDay \in Nat
  BY PublishingAssumption
<1>4. PICK e \in Nat \ {0}, d \in Nat : e = Every /\ d = TimeOfDay
  BY <1>3
<1>5. PICK x \in Nat, y \in Nat : x = i * e /\ y = j * e
  OBVIOUS
<1>6. x < y
  BY <1>1, <1>2, <1>4, <1>5
<1>7. i < j
  <2>1. SUFFICES ASSUME ~(i < j) PROVE FALSE
    OBVIOUS
  <2>2. CASE i = j
    BY <2>2, <1>5, <1>6
  <2>3. CASE j < i
    <3>1. i * e - j * e >= e
      BY <2>3, PeriodsApart
    <3> QED
      BY <3>1, <1>5, <1>6
  <2> QED
    BY <2>1, <2>2, <2>3
<1>8. y - x >= e
  BY <1>7, <1>5, PeriodsApart
<1> QED
  BY <1>1, <1>2, <1>4, <1>5, <1>8

\* The run time of the day of a time, and the one a day later, are run times.
LEMMA SlotOfDay ==
    ASSUME NEW t \in Nat
    PROVE  /\ (t \div Every) * Every + TimeOfDay \in Nat
           /\ Slot((t \div Every) * Every + TimeOfDay)
           /\ Slot(((t \div Every) * Every + TimeOfDay) + Every)
<1>1. PICK e \in Nat \ {0}, d \in Nat : e = Every /\ d = TimeOfDay
  BY PublishingAssumption
<1>2. t \div e \in Nat
  OBVIOUS
<1>3. PICK day \in Nat : day = t \div e
  BY <1>2
<1>4. day * e + d \in Nat /\ day + 1 \in Nat /\ (day + 1) * e + d = (day * e + d) + e
  OBVIOUS
<1> QED
  BY <1>1, <1>3, <1>4 DEF Slot

\* The next run after a run time is a time, and a run time of a daily schedule.
LEMMA NextAfterType ==
    ASSUME NEW t \in Nat
    PROVE  /\ NextAfter(t) \in Nat \cup {Nobody}
           /\ ScheduleKind = "daily" => NextAfter(t) \in Nat /\ Slot(NextAfter(t))
<1>1. PICK u \in Nat : u = (t \div Every) * Every + TimeOfDay
  BY SlotOfDay
<1>2. Slot(u) /\ Slot(u + Every)
  BY <1>1, SlotOfDay
<1>3. Every \in Nat
  BY PublishingAssumption
<1>4. u + Every \in Nat /\ t + Every \in Nat
  BY <1>3
<1>5. CASE ScheduleKind = "interval"
  BY <1>5, <1>4 DEF NextAfter
<1>6. CASE ScheduleKind = "cron"
  BY <1>6 DEF NextAfter
<1>7. CASE ScheduleKind = "daily"
  <2>1. NextAfter(t) = IF u <= t THEN u + Every ELSE u
    BY <1>1, <1>7 DEF NextAfter
  <2> QED
    BY <2>1, <1>2, <1>4
<1> QED
  BY <1>5, <1>6, <1>7, PublishingAssumption

\* So is the time of a first run.
LEMMA FirstRunType ==
    ASSUME now \in Time
    PROVE  /\ FirstRunAt \in Nat \cup {Nobody}
           /\ ScheduleKind = "daily" => FirstRunAt \in Nat /\ Slot(FirstRunAt)
<1>1. now \in Nat
  BY PublishingAssumption DEF Time
<1>2. PICK t \in Nat : t = now
  BY <1>1
<1>3. (t \div Every) * Every + TimeOfDay \in Nat /\ Slot((t \div Every) * Every + TimeOfDay)
  BY SlotOfDay
<1>4. CASE ScheduleKind = "interval"
  BY <1>1, <1>4 DEF FirstRunAt
<1>5. CASE ScheduleKind = "cron"
  BY <1>5 DEF FirstRunAt
<1>6. CASE ScheduleKind = "daily"
  <2>1. FirstRunAt = (t \div Every) * Every + TimeOfDay
    BY <1>2, <1>6 DEF FirstRunAt
  <2> QED
    BY <2>1, <1>3
<1> QED
  BY <1>4, <1>5, <1>6, PublishingAssumption

-----------------------------------------------------------------------------
(* The parts of the invariant.                                             *)

TablesOK ==
    /\ row \in [Keys -> [BusNode -> TaskPayload \cup {Nobody}]]
    /\ record \in [Keys -> IdempotencyRecord \cup {Nobody}]
    /\ audit \subseteq [kind : AuditKind, key : Keys]
    /\ schedule \in ScheduleState
    /\ now \in Time /\ requests \in 0 .. MaxRequests

\* The locals of one caller.
CallerOK(l, rows, records) ==
    /\ l \in Call
    /\ l.pc \notin {"idle", "tick"} => l.req \in Request
    /\ l.pc = "insert" => l.next \in DOMAIN Expand(l.req.content)
    /\ Knows(l, rows, records)
    /\ ScheduleKind = "daily" /\ l.req # Nobody /\ l.req.key \in Time => Slot(l.req.key)

CallersOK ==
    call \in [Caller -> Call] /\ \A c \in Caller : CallerOK(call[c], row, record)

TruthOK ==
    /\ \A k \in Keys : record[k] # Nobody /\ record[k].accepted => OnBus(k, record[k].hash.content)
    /\ \A e \in audit : e.kind = "published" => \E t \in Content : OnBus(e.key, t)

SlotsOK ==
    ScheduleKind = "daily" =>
        /\ schedule.next # Nobody => Slot(schedule.next)
        /\ \A t \in Time : record[t] # Nobody => Slot(t)

\* The invariant is these parts together.
LEMMA InvParts == PublishingInv <=> TablesOK /\ CallersOK /\ TruthOK /\ SlotsOK
BY DEF PublishingInv, PublishingTypeOK, TablesOK, CallersOK, CallerOK, TruthOK, SlotsOK, SlotsKept

\* The same of the next state.
LEMMA InvPartsNext == PublishingInv' <=> TablesOK' /\ CallersOK' /\ TruthOK' /\ SlotsOK'
BY InvParts, PTL

\* The invariant implies what the runs check.
LEMMA InvIsSound ==
    ASSUME PublishingInv
    PROVE  PublishSound
<1>1. TablesOK /\ CallersOK /\ TruthOK /\ SlotsOK
  BY InvParts
<1>2. ASSUME NEW c \in Caller, call[c].outcome \in Accepted \cup {"replayed"}
      PROVE  call[c].req \in Request
  <2>1. CallerOK(call[c], row, record)
    BY <1>1 DEF CallersOK
  <2>2. call[c].pc \notin {"idle", "tick"}
    BY <2>1, <1>2, PublishingAssumption DEF CallerOK, Knows, Accepted, Outcome
  <2> QED
    BY <2>1, <2>2 DEF CallerOK
<1>3. AcceptedIsComplete
  <2>1. ASSUME NEW c \in Caller, call[c].outcome \in Accepted,
               NEW n \in Range(Expand(call[c].req.content))
        PROVE  row[call[c].req.key][n] # Nobody
               /\ row[call[c].req.key][n] = Payload(call[c].req, n)
    <3>1. call[c].req \in Request
      BY <1>2, <2>1
    <3>2. Payload(call[c].req, n) # Nobody
      BY <3>1, RequestFacts
    <3>3. Whole(call[c].req, row)
      BY <1>1, <2>1 DEF CallersOK, CallerOK, Knows
    <3> QED
      BY <3>2, <3>3 DEF Whole
  <2> QED
    BY <2>1, <1>1 DEF AcceptedIsComplete, TruthOK
<1>4. ReplayIsTheSameRequest
  <2> SUFFICES ASSUME NEW c \in Caller, call[c].outcome = "replayed",
                      record[call[c].req.key].accepted
               PROVE  OnBus(call[c].req.key, call[c].req.content)
    BY DEF ReplayIsTheSameRequest
  <2>1. call[c].req \in Request
    BY <1>2
  <2>2. call[c].req.key \in Keys /\ RequestHash(call[c].req).content = call[c].req.content
    BY <2>1, RequestFacts
  <2>3. record[call[c].req.key] # Nobody
        /\ record[call[c].req.key].hash = RequestHash(call[c].req)
    BY <1>1 DEF CallersOK, CallerOK, Knows
  <2> QED
    BY <1>1, <2>2, <2>3 DEF TruthOK
<1>5. ScheduleKind = "daily" => RunsSpaced
  <2> SUFFICES ASSUME ScheduleKind = "daily", NEW r \in Time, NEW s \in Time, r < s,
                      record[r] # Nobody, record[s] # Nobody
               PROVE  s - r >= Every
    BY DEF RunsSpaced
  <2>1. Slot(r) /\ Slot(s)
    BY <1>1 DEF SlotsOK
  <2>2. r \in Nat /\ s \in Nat
    BY PublishingAssumption DEF Time
  <2> QED
    BY <2>1, <2>2, SlotsApart
<1>6. PublishingTypeOK
  BY DEF PublishingInv
<1> QED
  BY <1>3, <1>4, <1>5, <1>6 DEF PublishSound
-----------------------------------------------------------------------------
(* The steps.                                                              *)

\* A step of one caller that keeps rows and records keeps what all know.
LEMMA OneCaller ==
    ASSUME CallersOK, RowsKept, RecordsKept, NEW c \in Caller, NEW l,
           call' = [call EXCEPT ![c] = l], CallerOK(l, row', record')
    PROVE  CallersOK'
<1>1. l \in Call
  BY DEF CallerOK
<1>2. call' \in [Caller -> Call]
  BY <1>1 DEF CallersOK
<1>3. ASSUME NEW d \in Caller
      PROVE  CallerOK(call'[d], row', record')
  <2>1. CASE d = c
    BY <2>1 DEF CallersOK
  <2>2. CASE d # c
    <3>1. call'[d] = call[d] /\ CallerOK(call[d], row, record)
      BY <2>2 DEF CallersOK
    <3>2. Knows(call[d], row', record')
      <4>1. PICK k \in Call : k = call[d]
        BY <3>1 DEF CallerOK
      <4>2. CallerOK(k, row, record)
        BY <3>1, <4>1
      <4>3. Knows(k, row', record')
        BY <4>2, KnowsStays DEF CallerOK, Knows
      <4> QED
        BY <4>1, <4>3
    <3> QED
      BY <3>1, <3>2 DEF CallerOK
  <2> QED
    BY <2>1, <2>2
<1> QED
  BY <1>2, <1>3 DEF CallersOK

\* Nobody steps: what all know stays.
LEMMA NoCaller ==
    ASSUME CallersOK, RowsKept, RecordsKept, call' = call
    PROVE  CallersOK'
<1>1. ASSUME NEW d \in Caller
      PROVE  CallerOK(call'[d], row', record')
  <2>1. call'[d] = call[d] /\ CallerOK(call[d], row, record)
    BY DEF CallersOK
  <2>2. PICK k \in Call : k = call[d]
    BY <2>1 DEF CallerOK
  <2>3. CallerOK(k, row, record)
    BY <2>1, <2>2
  <2>4. Knows(k, row', record')
    BY <2>3, KnowsStays DEF CallerOK, Knows
  <2> QED
    BY <2>1, <2>2, <2>3, <2>4 DEF CallerOK
<1> QED
  BY <1>1 DEF CallersOK

\* Events that do not report a publish, and rows that stay, keep the records
\* and the reports true.
LEMMA TruthStays ==
    ASSUME TablesOK, TruthOK, RowsKept, TablesOK',
           \A k \in Keys : \/ record'[k] = record[k]
                           \/ (record[k] # Nobody /\ record[k].accepted =>
                                OnBus(k, record[k].hash.content))',
           \A e \in audit' : e \in audit \/ e.kind # "published" \/ \E t \in Content : OnBus(e.key, t)'
    PROVE  TruthOK'
<1>1. ASSUME NEW k \in Keys, record'[k] # Nobody, record'[k].accepted
      PROVE  OnBus(k, record[k].hash.content)'
  <2>1. CASE record'[k] = record[k]
    <3>1. record[k] \in IdempotencyRecord
      BY <1>1, <2>1 DEF TablesOK
    <3>2. PICK content \in Content : content = record[k].hash.content
      BY <3>1 DEF IdempotencyRecord, Hash
    <3>3. OnBus(k, content)
      BY <1>1, <2>1, <3>2 DEF TruthOK
    <3>4. OnBus(k, content)'
      BY <3>3, OnBusStays
    <3>5. \A n \in Range(Expand(content)) : row'[k][n] # Nobody
      BY <3>4 DEF OnBus
    <3> QED
      BY <2>1, <3>2, <3>5 DEF OnBus
  <2> QED
    BY <1>1, <2>1
<1>2. ASSUME NEW e \in audit', e.kind = "published"
      PROVE  \E t \in Content : OnBus(e.key, t)'
  <2>1. CASE e \in audit
    <3>1. e.key \in Keys
      BY <2>1 DEF TablesOK
    <3>2. PICK k \in Keys : k = e.key
      BY <3>1
    <3>3. PICK t \in Content : OnBus(k, t)
      BY <1>2, <2>1, <3>2 DEF TruthOK
    <3>4. OnBus(k, t)'
      BY <3>3, OnBusStays
    <3>5. \A n \in Range(Expand(t)) : row'[e.key][n] # Nobody
      BY <3>2, <3>4 DEF OnBus
    <3> QED
      BY <3>5 DEF OnBus
  <2> QED
    BY <1>2, <2>1
<1>3. \A k \in Keys : (record[k] # Nobody /\ record[k].accepted
                        => OnBus(k, record[k].hash.content))'
  BY <1>1
<1>4. \A e \in audit' : e.kind = "published" => \E t \in Content : OnBus(e.key, t)'
  BY <1>2
<1> QED
  BY <1>3, <1>4 DEF TruthOK, OnBus

\* A step that leaves the rows and the records alone.
Reading == UNCHANGED <<row, record>>

\* It keeps both.
LEMMA ReadingKeeps ==
    ASSUME Reading
    PROVE  RowsKept /\ RecordsKept
BY DEF Reading, RowsKept, RecordsKept

\* A caller's locals and the row of its key.
LEMMA CallerFacts ==
    ASSUME PublishingInv, NEW c \in Caller
    PROVE  /\ call[c] \in Call /\ CallerOK(call[c], row, record)
           /\ call \in [Caller -> Call]
           /\ call[c].pc \notin {"idle", "tick"} => call[c].req \in Request
BY InvParts DEF CallersOK, CallerOK

\* A step of a caller that reads and reports no publish keeps the invariant.
LEMMA ReadingStep ==
    ASSUME PublishingInv, Reading, NEW c \in Caller, NEW l,
           call' = [call EXCEPT ![c] = l], CallerOK(l, row, record),
           audit' \subseteq [kind : AuditKind, key : Keys],
           \A e \in audit' : e \in audit \/ e.kind # "published" \/ \E t \in Content : OnBus(e.key, t),
           UNCHANGED <<schedule, now>>, requests' \in 0 .. MaxRequests
    PROVE  PublishingInv'
<1>1. TablesOK /\ CallersOK /\ TruthOK /\ SlotsOK
  BY InvParts
<1>2. RowsKept /\ RecordsKept
  BY ReadingKeeps
<1>3. TablesOK'
  BY <1>1 DEF TablesOK, Reading
<1>4. CallersOK'
  <2>1. CallerOK(l, row', record')
    BY DEF Reading
  <2> QED
    BY <1>1, <1>2, <2>1, OneCaller
<1>5. TruthOK'
  <2>1. \A k \in Keys : record'[k] = record[k]
    BY DEF Reading
  <2>2. \A e \in audit' : e \in audit \/ e.kind # "published" \/ \E t \in Content : OnBus(e.key, t)'
    BY DEF Reading, OnBus
  <2> QED
    BY <1>1, <1>2, <1>3, <2>1, <2>2, TruthStays
<1>6. SlotsOK'
  BY <1>1 DEF SlotsOK, Reading, Slot
<1> QED
  BY <1>3, <1>4, <1>5, <1>6, InvPartsNext

\* The locals of a request that goes on to the lookup or to the check.
LEMMA GoesOn ==
    ASSUME NEW k \in Call, NEW rows, NEW records, CallerOK(k, rows, records),
           k.pc \in {"admit", "lookup"}, NEW p \in {"lookup", "check"}
    PROVE  CallerOK([k EXCEPT !.pc = p], rows, records)
<1>1. PICK l : l = [k EXCEPT !.pc = p]
  OBVIOUS
<1>2. /\ l \in Call /\ l.pc = p /\ l.req = k.req /\ l.next = k.next /\ l.outcome = k.outcome
  BY <1>1 DEF Call
<1>3. k.req \in Request /\ k.next = 1 /\ k.outcome = Nobody
  BY DEF CallerOK, Knows
<1>4. k.outcome \notin Accepted /\ k.outcome # "replayed"
  BY <1>3, PublishingAssumption DEF Accepted, Outcome
<1>5. Knows(l, rows, records)
  BY <1>2, <1>3, <1>4 DEF Knows
<1> QED
  BY <1>1, <1>2, <1>3, <1>5 DEF CallerOK

\* The locals of a request that ends in an outcome that claims nothing.
LEMMA EndsWithout ==
    ASSUME NEW k \in Call, NEW rows, NEW records, CallerOK(k, rows, records),
           k.pc \notin {"idle", "tick"}, NEW p \in {"store", "replied"},
           NEW o \in Outcome, o \notin Accepted, o # "replayed"
    PROVE  CallerOK([k EXCEPT !.pc = p, !.outcome = o], rows, records)
<1>1. PICK l : l = [k EXCEPT !.pc = p, !.outcome = o]
  OBVIOUS
<1>2. /\ l \in Call /\ l.pc = p /\ l.req = k.req /\ l.next = k.next /\ l.outcome = o
  BY <1>1 DEF Call
<1>3. Knows(l, rows, records)
  BY <1>2 DEF Knows
<1> QED
  BY <1>1, <1>2, <1>3 DEF CallerOK

\* An idle caller.
LEMMA IdleOK ==
    ASSUME NEW rows, NEW records
    PROVE  CallerOK(IdleCall, rows, records)
<1>1. PICK l : l = IdleCall
  OBVIOUS
<1>2. /\ l \in Call /\ l.pc = "idle" /\ l.req = Nobody /\ l.next = 1 /\ l.outcome = Nobody
  BY <1>1 DEF IdleCall, Call
<1>3. l.outcome \notin Accepted /\ l.outcome # "replayed"
  BY <1>2, PublishingAssumption DEF Accepted, Outcome
<1>4. Knows(l, rows, records)
  BY <1>2, <1>3 DEF Knows
<1> QED
  BY <1>1, <1>2, <1>4 DEF CallerOK

\* A new request of a caller that was idle.
LEMMA RequestOK ==
    ASSUME NEW k \in Call, NEW rows, NEW records, CallerOK(k, rows, records),
           k.pc \in {"idle", "tick"}, NEW p \in {"admit", "lookup"}, NEW req \in Request,
           ScheduleKind = "daily" /\ req.key \in Time => Slot(req.key)
    PROVE  CallerOK([k EXCEPT !.pc = p, !.req = req], rows, records)
<1>1. PICK l : l = [k EXCEPT !.pc = p, !.req = req]
  OBVIOUS
<1>2. /\ l \in Call /\ l.pc = p /\ l.req = req /\ l.next = k.next /\ l.outcome = k.outcome
  BY <1>1 DEF Call
<1>3. k.next = 1 /\ k.outcome = Nobody
  BY DEF CallerOK, Knows
<1>4. l.outcome \notin Accepted /\ l.outcome # "replayed"
  BY <1>2, <1>3, PublishingAssumption DEF Accepted, Outcome
<1>5. Knows(l, rows, records)
  BY <1>2, <1>3, <1>4 DEF Knows
<1> QED
  BY <1>1, <1>2, <1>5 DEF CallerOK

-----------------------------------------------------------------------------
(* The API endpoint and the lookup.                                        *)

\* A handler takes a request, admits it or answers.
LEMMA ApiInv ==
    ASSUME PublishingInv, NEW h \in Handler,
           \/ \E k \in Key, tree \in Tree, dry \in BOOLEAN : ApiReceives(h, k, tree, dry)
           \/ ApiAdmits(h) \/ ApiReplies(h)
    PROVE  PublishingInv'
<1>1. h \in Caller
  BY DEF Caller
<1>2. call[h] \in Call /\ CallerOK(call[h], row, record) /\ call \in [Caller -> Call]
  BY <1>1, CallerFacts
<1>3. PICK k \in Call : k = call[h] /\ CallerOK(k, row, record)
  BY <1>2
<1>4. audit \subseteq [kind : AuditKind, key : Keys] /\ requests \in 0 .. MaxRequests
  BY InvParts DEF TablesOK
<1>5. CASE \E key \in Key, tree \in Tree, dry \in BOOLEAN : ApiReceives(h, key, tree, dry)
  <2>1. PICK key \in Key, tree \in Tree, dry \in BOOLEAN : ApiReceives(h, key, tree, dry)
    BY <1>5
  <2>2. requests + 1 \in RequestId /\ requests' \in 0 .. MaxRequests
    <3>1. requests < MaxRequests /\ requests' = requests + 1
      BY <2>1, Zenon DEF ApiReceives
    <3> QED
      BY <3>1, <1>4, PublishingAssumption DEF RequestId
  <2>3. PICK req \in Request : req = [key |-> key, content |-> tree, dry |-> dry, id |-> requests + 1]
    BY <2>2 DEF Request, Keys, Content
  <2>4. req.key \notin Time
    BY <2>3, PublishingAssumption
  <2>5. call' = [call EXCEPT ![h] = [k EXCEPT !.pc = "admit", !.req = req]]
    BY <2>1, <2>3, <1>2, <1>3 DEF ApiReceives
  <2>6. CallerOK([k EXCEPT !.pc = "admit", !.req = req], row, record)
    BY <2>1, <2>4, <1>3, RequestOK DEF ApiReceives
  <2> QED
    BY <1>1, <1>4, <2>1, <2>2, <2>5, <2>6, ReadingStep DEF ApiReceives, Reading
<1>6. CASE ApiAdmits(h)
  <2>1. CASE Goes(h, "lookup")
    <3>1. call' = [call EXCEPT ![h] = [k EXCEPT !.pc = "lookup"]]
      BY <2>1, <1>2, <1>3 DEF Goes
    <3>2. CallerOK([k EXCEPT !.pc = "lookup"], row, record)
      BY <1>3, <1>6, GoesOn DEF ApiAdmits
    <3> QED
      BY <1>1, <1>4, <1>6, <3>1, <3>2, ReadingStep DEF ApiAdmits, Reading
  <2>2. CASE Replies(h, "rejected")
    <3>1. call' = [call EXCEPT ![h] = [k EXCEPT !.pc = "replied", !.outcome = "rejected"]]
      BY <2>2, <1>2, <1>3 DEF Replies
    <3>2. CallerOK([k EXCEPT !.pc = "replied", !.outcome = "rejected"], row, record)
      BY <1>3, <1>6, EndsWithout DEF ApiAdmits, Outcome, Accepted
    <3> QED
      BY <1>1, <1>4, <1>6, <3>1, <3>2, ReadingStep DEF ApiAdmits, Reading
  <2> QED
    BY <1>6, <2>1, <2>2 DEF ApiAdmits
<1>7. CASE ApiReplies(h)
  BY <1>1, <1>4, <1>7, IdleOK, ReadingStep DEF ApiReplies, Reading
<1> QED
  BY <1>5, <1>6, <1>7

\* An event that reports no publish.
LEMMA EmitFacts ==
    ASSUME NEW req \in Request, NEW kind \in AuditKind, kind # "published",
           audit \subseteq [kind : AuditKind, key : Keys], Emit(kind, req)
    PROVE  /\ audit' \subseteq [kind : AuditKind, key : Keys]
           /\ \A e \in audit' : e \in audit \/ e.kind # "published"
<1>1. req.key \in Keys
  BY RequestFacts
<1>2. [kind |-> kind, key |-> req.key] \in [kind : AuditKind, key : Keys]
  BY <1>1
<1>3. \A e \in audit' : e \in audit \/ e = [kind |-> kind, key |-> req.key]
  BY DEF Emit
<1> QED
  BY <1>2, <1>3

\* The lookup: a replay is of the record of the same request.
LEMMA LooksUpInv ==
    ASSUME PublishingInv, NEW c \in Caller, LooksUp(c)
    PROVE  PublishingInv'
<1>1. PICK k \in Call : k = call[c] /\ CallerOK(k, row, record)
  BY CallerFacts
<1>2. k.pc = "lookup" /\ call \in [Caller -> Call]
  BY <1>1, CallerFacts DEF LooksUp
<1>3. k.req \in Request
  BY <1>1, <1>2, CallerFacts
<1>4. audit \subseteq [kind : AuditKind, key : Keys] /\ requests \in 0 .. MaxRequests
  BY InvParts DEF TablesOK
<1>5. CASE Goes(c, "check") /\ Emit("validated", k.req)
  <2>1. call' = [call EXCEPT ![c] = [k EXCEPT !.pc = "check"]]
    BY <1>1, <1>2, <1>5 DEF Goes
  <2>2. CallerOK([k EXCEPT !.pc = "check"], row, record)
    BY <1>1, <1>2, GoesOn
  <2>3. /\ audit' \subseteq [kind : AuditKind, key : Keys]
        /\ \A e \in audit' : e \in audit \/ e.kind # "published"
    BY <1>3, <1>4, <1>5, EmitFacts DEF AuditKind
  <2> QED
    BY <1>4, <2>1, <2>2, <2>3, ReadingStep DEF LooksUp, Reading
<1>6. CASE Replies(c, "conflict") /\ Emit("idempotency_conflict", k.req)
  <2>1. call' = [call EXCEPT ![c] = [k EXCEPT !.pc = "replied", !.outcome = "conflict"]]
    BY <1>1, <1>2, <1>6 DEF Replies
  <2>2. CallerOK([k EXCEPT !.pc = "replied", !.outcome = "conflict"], row, record)
    BY <1>1, <1>2, EndsWithout DEF Outcome, Accepted
  <2>3. /\ audit' \subseteq [kind : AuditKind, key : Keys]
        /\ \A e \in audit' : e \in audit \/ e.kind # "published"
    BY <1>3, <1>4, <1>6, EmitFacts DEF AuditKind
  <2> QED
    BY <1>4, <2>1, <2>2, <2>3, ReadingStep DEF LooksUp, Reading
<1>7. CASE /\ Replies(c, "replayed") /\ Emit("idempotent_replayed", k.req)
           /\ record[k.req.key] # Nobody /\ record[k.req.key].hash = RequestHash(k.req)
  <2>1. PICK l : l = [k EXCEPT !.pc = "replied", !.outcome = "replayed"]
    OBVIOUS
  <2>2. /\ l \in Call /\ l.pc = "replied" /\ l.req = k.req /\ l.next = k.next
        /\ l.outcome = "replayed"
    BY <2>1 DEF Call, Outcome
  <2>3. Knows(l, row, record)
    BY <2>2, <1>7 DEF Knows, Accepted
  <2>4. CallerOK(l, row, record)
    BY <1>1, <1>3, <2>2, <2>3 DEF CallerOK
  <2>5. call' = [call EXCEPT ![c] = l]
    BY <1>1, <1>2, <1>7, <2>1 DEF Replies
  <2>6. /\ audit' \subseteq [kind : AuditKind, key : Keys]
        /\ \A e \in audit' : e \in audit \/ e.kind # "published"
    BY <1>3, <1>4, <1>7, EmitFacts DEF AuditKind
  <2> QED
    BY <1>4, <2>4, <2>5, <2>6, ReadingStep DEF LooksUp, Reading
<1>8. CASE Replies(c, "rejected") /\ Emit("rejected", k.req)
  <2>1. call' = [call EXCEPT ![c] = [k EXCEPT !.pc = "replied", !.outcome = "rejected"]]
    BY <1>1, <1>2, <1>8 DEF Replies
  <2>2. CallerOK([k EXCEPT !.pc = "replied", !.outcome = "rejected"], row, record)
    BY <1>1, <1>2, EndsWithout DEF Outcome, Accepted
  <2>3. /\ audit' \subseteq [kind : AuditKind, key : Keys]
        /\ \A e \in audit' : e \in audit \/ e.kind # "published"
    BY <1>3, <1>4, <1>8, EmitFacts DEF AuditKind
  <2> QED
    BY <1>4, <2>1, <2>2, <2>3, ReadingStep DEF LooksUp, Reading
<1>9. CASE Decides(c, "rejected") /\ Emit("rejected", k.req)
  <2>1. call' = [call EXCEPT ![c] = [k EXCEPT !.pc = "store", !.outcome = "rejected"]]
    BY <1>1, <1>2, <1>9 DEF Decides
  <2>2. CallerOK([k EXCEPT !.pc = "store", !.outcome = "rejected"], row, record)
    BY <1>1, <1>2, EndsWithout DEF Outcome, Accepted
  <2>3. /\ audit' \subseteq [kind : AuditKind, key : Keys]
        /\ \A e \in audit' : e \in audit \/ e.kind # "published"
    BY <1>3, <1>4, <1>9, EmitFacts DEF AuditKind
  <2> QED
    BY <1>4, <2>1, <2>2, <2>3, ReadingStep DEF LooksUp, Reading
<1> QED
  BY <1>1, <1>5, <1>6, <1>7, <1>8, <1>9 DEF LooksUp
-----------------------------------------------------------------------------
(* The publisher.                                                          *)

\* The check of the bus: "existing" is said of a whole tree only.
LEMMA ChecksBusInv ==
    ASSUME PublishingInv, NEW c \in Caller, ChecksBus(c)
    PROVE  PublishingInv'
<1>1. PICK k \in Call : k = call[c] /\ CallerOK(k, row, record)
  BY CallerFacts
<1>2. k.pc = "check" /\ call \in [Caller -> Call]
  BY <1>1, CallerFacts DEF ChecksBus
<1>3. k.req \in Request /\ k.next = 1 /\ k.outcome = Nobody
  BY <1>1, <1>2, CallerFacts DEF CallerOK, Knows
<1>4. audit \subseteq [kind : AuditKind, key : Keys] /\ requests \in 0 .. MaxRequests
  BY InvParts DEF TablesOK
<1>5. CASE Decides(c, "dry_run") /\ UNCHANGED audit
  <2>1. call' = [call EXCEPT ![c] = [k EXCEPT !.pc = "store", !.outcome = "dry_run"]]
    BY <1>1, <1>2, <1>5 DEF Decides
  <2>2. CallerOK([k EXCEPT !.pc = "store", !.outcome = "dry_run"], row, record)
    BY <1>1, <1>2, EndsWithout DEF Outcome, Accepted
  <2> QED
    BY <1>4, <1>5, <2>1, <2>2, ReadingStep DEF ChecksBus, Reading
<1>6. CASE Goes(c, "insert") /\ UNCHANGED audit
  <2>1. PICK l : l = [k EXCEPT !.pc = "insert"]
    OBVIOUS
  <2>2. /\ l \in Call /\ l.pc = "insert" /\ l.req = k.req /\ l.next = 1 /\ l.outcome = Nobody
    BY <1>3, <2>1 DEF Call
  <2>3. l.outcome \notin Accepted /\ l.outcome # "replayed"
    BY <2>2, PublishingAssumption DEF Accepted, Outcome
  <2>4. l.next \in DOMAIN Expand(l.req.content)
    <3>1. l.req.content \in Content
      BY <1>3, <2>2, RequestFacts
    <3>2. PICK len \in Nat : len > 0 /\ DOMAIN Expand(l.req.content) = 1 .. len
      BY <3>1, ExpandType
    <3> QED
      BY <2>2, <3>2
  <2>5. 1 .. l.next - 1 = {}
    BY <2>2
  <2>6. Knows(l, row, record)
    BY <2>2, <2>3, <2>5 DEF Knows
  <2>7. CallerOK(l, row, record)
    BY <1>1, <1>3, <2>2, <2>4, <2>6 DEF CallerOK
  <2>8. call' = [call EXCEPT ![c] = l]
    BY <1>1, <1>2, <1>6, <2>1 DEF Goes
  <2> QED
    BY <1>4, <1>6, <2>7, <2>8, ReadingStep DEF ChecksBus, Reading
<1>7. ASSUME NEW o \in {"incomplete", "mismatch"}, Replies(c, o), Emit("rejected", k.req)
      PROVE  PublishingInv'
  <2>1. call' = [call EXCEPT ![c] = [k EXCEPT !.pc = "replied", !.outcome = o]]
    BY <1>1, <1>2, <1>7 DEF Replies
  <2>2. CallerOK([k EXCEPT !.pc = "replied", !.outcome = o], row, record)
    BY <1>1, <1>2, EndsWithout DEF Outcome, Accepted
  <2>3. /\ audit' \subseteq [kind : AuditKind, key : Keys]
        /\ \A e \in audit' : e \in audit \/ e.kind # "published"
    BY <1>3, <1>4, <1>7, EmitFacts DEF AuditKind
  <2> QED
    BY <1>4, <2>1, <2>2, <2>3, ReadingStep DEF ChecksBus, Reading
<1>8. CASE Whole(k.req, row) /\ Decides(c, "existing") /\ UNCHANGED audit
  <2>1. PICK l : l = [k EXCEPT !.pc = "store", !.outcome = "existing"]
    OBVIOUS
  <2>2. /\ l \in Call /\ l.pc = "store" /\ l.req = k.req /\ l.next = k.next
        /\ l.outcome = "existing"
    BY <2>1 DEF Call, Outcome
  <2>3. Knows(l, row, record)
    BY <2>2, <1>8 DEF Knows
  <2>4. CallerOK(l, row, record)
    BY <1>1, <1>3, <2>2, <2>3 DEF CallerOK
  <2>5. call' = [call EXCEPT ![c] = l]
    BY <1>1, <1>2, <1>8, <2>1 DEF Decides
  <2> QED
    BY <1>4, <1>8, <2>4, <2>5, ReadingStep DEF ChecksBus, Reading
<1>9. \/ Decides(c, "dry_run") /\ UNCHANGED audit
      \/ Goes(c, "insert") /\ UNCHANGED audit
      \/ Replies(c, "incomplete") /\ Emit("rejected", k.req)
      \/ Replies(c, "mismatch") /\ Emit("rejected", k.req)
      \/ Whole(k.req, row) /\ Decides(c, "existing") /\ UNCHANGED audit
  BY <1>1 DEF ChecksBus, Whole
<1> QED
  BY <1>5, <1>6, <1>7, <1>8, <1>9

\* The rows after an insert: the others stay, and the new one has its payload.
LEMMA InsertedRow ==
    ASSUME row \in [Keys -> [BusNode -> TaskPayload \cup {Nobody}]],
           NEW key \in Keys, NEW n \in BusNode, NEW p \in TaskPayload,
           row[key][n] = Nobody, row' = [row EXCEPT ![key][n] = p]
    PROVE  /\ row' \in [Keys -> [BusNode -> TaskPayload \cup {Nobody}]]
           /\ RowsKept /\ row'[key][n] = p
<1>1. PICK f \in [BusNode -> TaskPayload \cup {Nobody}] : f = [row[key] EXCEPT ![n] = p]
  OBVIOUS
<1>2. row' = [row EXCEPT ![key] = f] /\ f[n] = p /\ \A m \in BusNode : m # n => f[m] = row[key][m]
  BY <1>1
<1>3. row' \in [Keys -> [BusNode -> TaskPayload \cup {Nobody}]] /\ row'[key] = f
  BY <1>1, <1>2
<1>4. ASSUME NEW k \in Keys, NEW m \in BusNode, row[k][m] # Nobody
      PROVE  row'[k][m] = row[k][m]
  <2>1. CASE k # key
    BY <1>2, <2>1
  <2>2. CASE k = key
    <3>1. m # n
      BY <1>4, <2>2
    <3> QED
      BY <1>2, <1>3, <2>2, <3>1
  <2> QED
    BY <2>1, <2>2
<1> QED
  BY <1>2, <1>3, <1>4 DEF RowsKept

\* The insert of a node: the caller's own rows are as it wrote them.
LEMMA InsertsInv ==
    ASSUME PublishingInv, NEW c \in Caller, Inserts(c)
    PROVE  PublishingInv'
<1>1. PICK k \in Call : k = call[c] /\ CallerOK(k, row, record)
  BY CallerFacts
<1>2. k.pc = "insert" /\ call \in [Caller -> Call]
  BY <1>1, CallerFacts DEF Inserts
<1>3. k.req \in Request /\ k.outcome = Nobody
  BY <1>1, <1>2 DEF CallerOK, Knows
<1>4. TablesOK /\ CallersOK /\ TruthOK /\ SlotsOK
  BY InvParts
<1>5. PICK s \in Seq(BusNode) : s = Expand(k.req.content)
  BY <1>3, RequestFacts, ExpandType
<1>6. PICK len \in Nat : len = Len(s) /\ DOMAIN s = 1 .. len
  OBVIOUS
<1>7. PICK i \in Nat : i = k.next /\ i \in 1 .. len
  BY <1>1, <1>2, <1>5, <1>6 DEF CallerOK
<1>8. PICK n \in BusNode : n = s[i]
  BY <1>6, <1>7
<1>9. PICK p \in TaskPayload : p = Payload(k.req, n)
  BY <1>3, RequestFacts
<1>10. k.req.key \in Keys /\ k.req.content \in Content
  BY <1>3, RequestFacts
<1>11. CASE row[k.req.key][n] # Nobody /\ Replies(c, "error") /\ UNCHANGED row
  <2>1. call' = [call EXCEPT ![c] = [k EXCEPT !.pc = "replied", !.outcome = "error"]]
    BY <1>1, <1>2, <1>11 DEF Replies
  <2>2. CallerOK([k EXCEPT !.pc = "replied", !.outcome = "error"], row, record)
    BY <1>1, <1>2, EndsWithout DEF Outcome, Accepted
  <2>3. audit \subseteq [kind : AuditKind, key : Keys] /\ requests \in 0 .. MaxRequests
    BY <1>4 DEF TablesOK
  <2> QED
    BY <1>11, <2>1, <2>2, <2>3, ReadingStep DEF Inserts, Reading
<1>12. CASE /\ row[k.req.key][n] = Nobody
            /\ row' = [row EXCEPT ![k.req.key][n] = p]
            /\ IF i = len THEN Decides(c, "published")
                          ELSE call' = [call EXCEPT ![c].next = @ + 1]
            /\ UNCHANGED <<record, audit, schedule, now, requests, publisherCrashes>>
  <2>1. /\ row' \in [Keys -> [BusNode -> TaskPayload \cup {Nobody}]]
        /\ RowsKept /\ row'[k.req.key][n] = p
    BY <1>4, <1>10, <1>12, InsertedRow DEF TablesOK
  <2>2. RecordsKept
    BY <1>12 DEF RecordsKept
  <2>3. \A j \in 1 .. i : row'[k.req.key][s[j]] = Payload(k.req, s[j])
    <3> TAKE j \in 1 .. i
    <3>1. CASE j = i
      BY <2>1, <3>1, <1>8, <1>9
    <3>2. CASE j # i
      <4>1. j \in 1 .. k.next - 1 /\ j \in DOMAIN s
        BY <1>6, <1>7, <3>2
      <4>2. row[k.req.key][s[j]] = Payload(k.req, s[j])
        BY <1>1, <1>2, <1>5, <4>1 DEF CallerOK, Knows
      <4>3. s[j] \in BusNode /\ Payload(k.req, s[j]) # Nobody
        BY <1>3, <4>1, RequestFacts
      <4> QED
        BY <1>10, <2>1, <4>2, <4>3 DEF RowsKept
    <3> QED
      BY <3>1, <3>2
  <2>4. TablesOK'
    BY <1>4, <1>12, <2>1 DEF TablesOK
  <2>5. CallersOK'
    <3>1. CASE i = len
      <4>1. PICK l : l = [k EXCEPT !.pc = "store", !.outcome = "published"]
        OBVIOUS
      <4>2. /\ l \in Call /\ l.pc = "store" /\ l.req = k.req /\ l.next = k.next
            /\ l.outcome = "published"
        BY <4>1 DEF Call, Outcome
      <4>3. Whole(k.req, row')
        BY <1>5, <1>6, <2>3, <3>1 DEF Whole, Range
      <4>4. Knows(l, row', record')
        BY <4>2, <4>3 DEF Knows
      <4>5. CallerOK(l, row', record')
        BY <1>1, <1>3, <4>2, <4>4 DEF CallerOK
      <4>6. call' = [call EXCEPT ![c] = l]
        BY <1>1, <1>2, <1>12, <3>1, <4>1 DEF Decides
      <4> QED
        BY <1>4, <2>1, <2>2, <4>5, <4>6, OneCaller
    <3>2. CASE i # len
      <4>1. PICK l : l = [k EXCEPT !.next = i + 1]
        OBVIOUS
      <4>2. /\ l \in Call /\ l.pc = "insert" /\ l.req = k.req /\ l.next = i + 1
            /\ l.outcome = Nobody
        BY <4>1, <1>2, <1>3 DEF Call
      <4>3. l.outcome \notin Accepted /\ l.outcome # "replayed"
        BY <4>2, PublishingAssumption DEF Accepted, Outcome
      <4>4. i + 1 \in DOMAIN s
        BY <1>6, <1>7, <3>2
      <4>5. 1 .. l.next - 1 = 1 .. i
        BY <4>2
      <4>6. Knows(l, row', record')
        BY <1>5, <2>3, <4>2, <4>3, <4>5 DEF Knows
      <4>7. CallerOK(l, row', record')
        BY <1>1, <1>3, <1>5, <4>2, <4>4, <4>6 DEF CallerOK
      <4>8. call' = [call EXCEPT ![c] = l]
        BY <1>1, <1>2, <1>7, <1>12, <3>2, <4>1
      <4> QED
        BY <1>4, <2>1, <2>2, <4>7, <4>8, OneCaller
    <3> QED
      BY <3>1, <3>2
  <2>6. TruthOK'
    <3>1. \A key \in Keys : record'[key] = record[key]
      BY <1>12
    <3>2. \A e \in audit' : e \in audit
      BY <1>12
    <3> QED
      BY <1>4, <2>1, <2>4, <3>1, <3>2, TruthStays
  <2>7. SlotsOK'
    BY <1>4, <1>12 DEF SlotsOK, Slot
  <2> QED
    BY <2>4, <2>5, <2>6, <2>7, InvPartsNext
<1>13. \/ /\ row[k.req.key][n] = Nobody
          /\ row' = [row EXCEPT ![k.req.key][n] = p]
          /\ IF i = len THEN Decides(c, "published")
                        ELSE call' = [call EXCEPT ![c].next = @ + 1]
       \/ row[k.req.key][n] # Nobody /\ Replies(c, "error") /\ UNCHANGED row
  BY <1>1, <1>5, <1>6, <1>7, <1>8, <1>9 DEF Inserts
<1> QED
  BY <1>11, <1>12, <1>13 DEF Inserts

\* The record of the result: the first of its key, and true of the bus.
LEMMA StoresResultInv ==
    ASSUME PublishingInv, NEW c \in Caller, StoresResult(c)
    PROVE  PublishingInv'
<1>1. PICK k \in Call : k = call[c] /\ CallerOK(k, row, record)
  BY CallerFacts
<1>2. k.pc = "store" /\ call \in [Caller -> Call]
  BY <1>1, CallerFacts DEF StoresResult
<1>3. k.req \in Request
  BY <1>1, <1>2 DEF CallerOK
<1>4. TablesOK /\ CallersOK /\ TruthOK /\ SlotsOK
  BY InvParts
<1>5. PICK key \in Keys : key = k.req.key
  BY <1>3, RequestFacts
<1>6. PICK hash \in Hash : hash = RequestHash(k.req) /\ hash.content = k.req.content
  BY <1>3, RequestFacts
<1>7. PICK accepted \in BOOLEAN : accepted <=> k.outcome \in Accepted
  OBVIOUS
<1>8. PICK r \in IdempotencyRecord : r = [hash |-> hash, accepted |-> accepted]
  BY DEF IdempotencyRecord
<1>9. r.hash.content = k.req.content /\ r.accepted = accepted
  BY <1>6, <1>8
<1>10. record \in [Keys -> IdempotencyRecord \cup {Nobody}]
  BY <1>4 DEF TablesOK
<1>11. \/ record[key] # Nobody /\ record' = record
       \/ record[key] = Nobody /\ record' = [record EXCEPT ![key] = r]
  <2>1. Put(k.req, k.outcome \in Accepted)
    BY <1>1 DEF StoresResult
  <2>2. record' = [record EXCEPT ![key] = IF record[key] = Nobody THEN r ELSE record[key]]
    BY <2>1, <1>5, <1>6, <1>7, <1>8 DEF Put
  <2> QED
    BY <2>2, <1>10
<1>12. /\ record' \in [Keys -> IdempotencyRecord \cup {Nobody}]
       /\ \A d \in Keys : record'[d] = record[d] \/ (d = key /\ record'[d] = r /\ record[d] = Nobody)
  BY <1>10, <1>11
<1>13. RowsKept /\ RecordsKept
  BY <1>12 DEF RowsKept, RecordsKept, StoresResult
<1>14. TablesOK'
  BY <1>4, <1>12 DEF TablesOK, StoresResult
<1>15. CallersOK'
  <2>1. PICK l : l = [k EXCEPT !.pc = "emit"]
    OBVIOUS
  <2>2. /\ l \in Call /\ l.pc = "emit" /\ l.req = k.req /\ l.next = k.next
        /\ l.outcome = k.outcome
    BY <2>1 DEF Call
  <2>3. Knows(k, row', record')
    BY <1>1, <1>2, <1>3, <1>13, KnowsStays DEF CallerOK
  <2>4. Knows(l, row', record')
    BY <1>2, <2>2, <2>3 DEF Knows
  <2>5. CallerOK(l, row', record')
    BY <1>1, <1>3, <2>2, <2>4 DEF CallerOK
  <2>6. call' = [call EXCEPT ![c] = l]
    BY <1>1, <1>2, <2>1 DEF StoresResult, Goes
  <2> QED
    BY <1>4, <1>13, <2>5, <2>6, OneCaller
<1>16. TruthOK'
  <2>1. ASSUME NEW d \in Keys, record'[d] # record[d]
        PROVE  (record[d] # Nobody /\ record[d].accepted => OnBus(d, record[d].hash.content))'
    <3>1. d = key /\ record'[d] = r
      BY <1>12, <2>1
    <3>2. ASSUME accepted
          PROVE  OnBus(k.req.key, k.req.content)
      BY <1>1, <1>3, <1>7, <3>2, WholeIsOnBus DEF CallerOK, Knows
    <3>3. accepted => \A n \in Range(Expand(k.req.content)) : row'[key][n] # Nobody
      BY <3>2, <1>5 DEF OnBus, StoresResult
    <3> QED
      BY <3>1, <3>3, <1>9 DEF OnBus
  <2>2. \A e \in audit' : e \in audit
    BY DEF StoresResult
  <2> QED
    BY <1>4, <1>13, <1>14, <2>1, <2>2, TruthStays
<1>17. SlotsOK'
  <2> SUFFICES ASSUME ScheduleKind = "daily", NEW t \in Time, record'[t] # Nobody
               PROVE  Slot(t)
    BY <1>4 DEF SlotsOK, StoresResult, Slot
  <2>1. t \in Keys
    BY DEF Keys
  <2>2. CASE record'[t] = record[t]
    BY <1>4, <2>2 DEF SlotsOK
  <2>3. CASE t = key
    <3>1. k.req # Nobody
      BY <1>3, PublishingAssumption
    <3> QED
      BY <1>1, <1>5, <2>3, <3>1 DEF CallerOK
  <2> QED
    BY <1>12, <2>1, <2>2, <2>3
<1> QED
  BY <1>14, <1>15, <1>16, <1>17, InvPartsNext

\* The event of the result: a publish is reported of what is on the bus.
LEMMA EmitsResultInv ==
    ASSUME PublishingInv, NEW c \in Caller, EmitsResult(c)
    PROVE  PublishingInv'
<1>1. PICK k \in Call : k = call[c] /\ CallerOK(k, row, record)
  BY CallerFacts
<1>2. k.pc = "emit" /\ call \in [Caller -> Call]
  BY <1>1, CallerFacts DEF EmitsResult
<1>3. k.req \in Request
  BY <1>1, <1>2 DEF CallerOK
<1>4. audit \subseteq [kind : AuditKind, key : Keys] /\ requests \in 0 .. MaxRequests
  BY InvParts DEF TablesOK
<1>5. PICK key \in Keys, content \in Content : key = k.req.key /\ content = k.req.content
  BY <1>3, RequestFacts
<1>6. ASSUME k.outcome \in Accepted, Emit("published", k.req)
      PROVE  /\ audit' \subseteq [kind : AuditKind, key : Keys]
             /\ \A e \in audit' : \/ e \in audit \/ e.kind # "published"
                                 \/ \E t \in Content : OnBus(e.key, t)
  <2>1. OnBus(key, content)
    BY <1>1, <1>3, <1>5, <1>6, WholeIsOnBus DEF CallerOK, Knows
  <2>2. PICK ev : ev = [kind |-> "published", key |-> key]
    OBVIOUS
  <2>3. ev \in [kind : AuditKind, key : Keys] /\ ev.key = key
    BY <2>2 DEF AuditKind
  <2>4. \A e \in audit' : e \in audit \/ e = ev
    BY <1>5, <1>6, <2>2 DEF Emit
  <2>5. audit' \subseteq [kind : AuditKind, key : Keys]
    BY <1>4, <2>3, <2>4
  <2>6. \A e \in audit' : e \in audit \/ e.kind # "published" \/ \E t \in Content : OnBus(e.key, t)
    BY <2>1, <2>3, <2>4
  <2> QED
    BY <2>5, <2>6
<1>7. ASSUME Emit("rejected", k.req)
      PROVE  /\ audit' \subseteq [kind : AuditKind, key : Keys]
             /\ \A e \in audit' : \/ e \in audit \/ e.kind # "published"
                                 \/ \E t \in Content : OnBus(e.key, t)
  BY <1>3, <1>4, <1>7, EmitFacts DEF AuditKind
<1>8. /\ audit' \subseteq [kind : AuditKind, key : Keys]
      /\ \A e \in audit' : e \in audit \/ e.kind # "published" \/ \E t \in Content : OnBus(e.key, t)
  <2>1. CASE UNCHANGED audit
    BY <1>4, <2>1
  <2>2. CASE k.outcome \in Accepted /\ Emit("published", k.req)
    BY <1>6, <2>2
  <2>3. CASE Emit("rejected", k.req)
    BY <1>7, <2>3
  <2> QED
    BY <1>1, <2>1, <2>2, <2>3 DEF EmitsResult
<1>9. PICK l : l = [k EXCEPT !.pc = "replied"]
  OBVIOUS
<1>10. /\ l \in Call /\ l.pc = "replied" /\ l.req = k.req /\ l.next = k.next
       /\ l.outcome = k.outcome
  BY <1>9 DEF Call
<1>11. Knows(l, row, record)
  BY <1>1, <1>2, <1>10 DEF CallerOK, Knows
<1>12. CallerOK(l, row, record)
  BY <1>1, <1>3, <1>10, <1>11 DEF CallerOK
<1>13. call' = [call EXCEPT ![c] = l]
  BY <1>1, <1>2, <1>9 DEF EmitsResult, Goes
<1> QED
  BY <1>4, <1>8, <1>12, <1>13, ReadingStep DEF EmitsResult, Reading
-----------------------------------------------------------------------------
(* The scheduler, the clock and the crash.                                 *)

\* The scheduler is a caller, and a run time is a number.
LEMMA SchedulerFacts == Scheduler \in Caller /\ Time \subseteq Nat /\ Time \subseteq Content
                        /\ Time \subseteq Keys
BY PublishingAssumption DEF Caller, Time, Content, Keys

\* A tick up to the publish: what is due is a run time, not after the clock.
LEMMA TickInv ==
    ASSUME PublishingInv, TickLists \/ TickEvaluates
    PROVE  PublishingInv'
<1>1. PICK k \in Call : k = call[Scheduler] /\ CallerOK(k, row, record)
  BY SchedulerFacts, CallerFacts
<1>2. TablesOK /\ SlotsOK /\ call \in [Caller -> Call] /\ Scheduler \in Caller
  BY InvParts, SchedulerFacts, CallerFacts
<1>3. /\ audit \subseteq [kind : AuditKind, key : Keys] /\ requests \in 0 .. MaxRequests
      /\ schedule \in ScheduleState /\ now \in Time
  BY <1>2 DEF TablesOK
<1>4. CASE TickLists
  <2>1. k.pc = "idle"
    BY <1>1, <1>4 DEF TickLists
  <2>2. PICK l : l = [k EXCEPT !.pc = "tick"]
    OBVIOUS
  <2>3. /\ l \in Call /\ l.pc = "tick" /\ l.req = k.req /\ l.next = k.next
        /\ l.outcome = k.outcome
    BY <2>2 DEF Call
  <2>4. Knows(l, row, record)
    BY <1>1, <2>1, <2>3 DEF CallerOK, Knows
  <2>5. CallerOK(l, row, record)
    BY <1>1, <2>1, <2>3, <2>4 DEF CallerOK
  <2>6. call' = [call EXCEPT ![Scheduler] = l]
    BY <1>1, <1>2, <1>4, <2>2 DEF TickLists, Goes
  <2> QED
    BY <1>2, <1>3, <1>4, <2>5, <2>6, ReadingStep DEF TickLists, Reading
<1>5. CASE TickEvaluates /\ call' = [call EXCEPT ![Scheduler] = IdleCall] /\ UNCHANGED requests
  BY <1>2, <1>3, <1>5, IdleOK, ReadingStep DEF TickEvaluates, Reading
<1>6. ASSUME TickEvaluates, NEW runAt, runAt \in Nat, runAt <= now, requests < MaxRequests,
             runAt = IF schedule.next # Nobody THEN schedule.next ELSE FirstRunAt,
             requests' = requests + 1,
             call' = [call EXCEPT ![Scheduler] = [@ EXCEPT !.pc = "lookup",
                                                           !.req = BuildRequest(runAt, requests + 1)]]
      PROVE  PublishingInv'
  <2>1. runAt \in Time
    BY <1>3, <1>6, PublishingAssumption DEF Time
  <2>2. requests + 1 \in RequestId /\ requests' \in 0 .. MaxRequests
    BY <1>3, <1>6, PublishingAssumption DEF RequestId
  <2>3. PICK req \in Request : req = BuildRequest(runAt, requests + 1) /\ req.key = runAt
    <3>1. runAt \in Keys /\ runAt \in Content
      BY <2>1, SchedulerFacts
    <3>2. PICK n \in RequestId : n = requests + 1
      BY <2>2
    <3>3. [key |-> runAt, content |-> runAt, dry |-> FALSE, id |-> n] \in Request
      BY <3>1 DEF Request
    <3> QED
      BY <3>2, <3>3 DEF BuildRequest
  <2>4. ScheduleKind = "daily" => Slot(runAt)
    BY <1>2, <1>3, <1>6, FirstRunType DEF SlotsOK
  <2>5. k.pc = "tick"
    BY <1>1, <1>6 DEF TickEvaluates
  <2>6. CallerOK([k EXCEPT !.pc = "lookup", !.req = req], row, record)
    BY <1>1, <2>3, <2>4, <2>5, RequestOK
  <2>7. call' = [call EXCEPT ![Scheduler] = [k EXCEPT !.pc = "lookup", !.req = req]]
    BY <1>1, <1>2, <1>6, <2>3
  <2> QED
    BY <1>2, <1>3, <1>6, <2>2, <2>6, <2>7, ReadingStep DEF TickEvaluates, Reading
<1>7. ASSUME TickEvaluates
      PROVE  PublishingInv'
  <2>1. PICK runAt : runAt = IF schedule.next # Nobody THEN schedule.next ELSE FirstRunAt
    OBVIOUS
  <2>2. runAt \in Nat \cup {Nobody}
    BY <1>3, <2>1, FirstRunType DEF ScheduleState
  <2>3. CASE /\ runAt # Nobody /\ runAt <= now /\ requests < MaxRequests
             /\ requests' = requests + 1
             /\ call' = [call EXCEPT ![Scheduler] = [@ EXCEPT !.pc = "lookup",
                                                              !.req = BuildRequest(runAt, requests + 1)]]
    BY <1>6, <1>7, <2>1, <2>2, <2>3
  <2> QED
    BY <1>5, <1>7, <2>1, <2>3 DEF TickEvaluates
<1> QED
  BY <1>4, <1>7

\* A step that leaves everything but the schedule and the callers alone.
LEMMA ScheduleStep ==
    ASSUME PublishingInv, UNCHANGED <<row, record, audit, now, requests>>,
           schedule' \in ScheduleState,
           ScheduleKind = "daily" /\ schedule'.next # Nobody => Slot(schedule'.next),
           CallersOK'
    PROVE  PublishingInv'
<1>1. TablesOK /\ CallersOK /\ TruthOK /\ SlotsOK
  BY InvParts
<1>2. TablesOK'
  BY <1>1 DEF TablesOK
<1>3. TruthOK'
  BY <1>1 DEF TruthOK, OnBus
<1>4. SlotsOK'
  BY <1>1 DEF SlotsOK, Slot
<1> QED
  BY <1>2, <1>3, <1>4, InvPartsNext

\* The save of the schedule's state: the next run is a run time.
LEMMA TickSavesInv ==
    ASSUME PublishingInv, ScheduledKey, TickSaves
    PROVE  PublishingInv'
<1>1. PICK k \in Call : k = call[Scheduler] /\ CallerOK(k, row, record)
  BY SchedulerFacts, CallerFacts
<1>2. TablesOK /\ CallersOK /\ SlotsOK /\ call \in [Caller -> Call] /\ Scheduler \in Caller
  BY InvParts, SchedulerFacts, CallerFacts
<1>3. schedule \in ScheduleState
  BY <1>2 DEF TablesOK
<1>4. k.pc = "replied" /\ k.req \in Request /\ k.req # Nobody
  BY <1>1, PublishingAssumption DEF TickSaves, CallerOK
<1>5. PICK runAt \in Time : runAt = k.req.key
  BY <1>1, <1>4 DEF ScheduledKey
<1>6. PICK then \in Nat \cup {Nobody} : /\ then = NextAfter(runAt)
                                        /\ ScheduleKind = "daily" => Slot(then)
  BY SchedulerFacts, NextAfterType
<1>7. /\ schedule' \in ScheduleState
      /\ ScheduleKind = "daily" /\ schedule'.next # Nobody => Slot(schedule'.next)
  <2>1. CASE schedule' = schedule
    BY <1>2, <1>3, <2>1 DEF SlotsOK
  <2>2. CASE schedule' = [schedule EXCEPT !.state = TRUE, !.last = runAt, !.next = then]
    <3>1. schedule' \in ScheduleState /\ schedule'.next = then
      BY <1>3, <2>2 DEF ScheduleState
    <3> QED
      BY <1>6, <3>1
  <2> QED
    BY <1>1, <1>5, <1>6, <2>1, <2>2 DEF TickSaves
<1>8. CallersOK'
  <2>1. RowsKept /\ RecordsKept
    BY DEF TickSaves, RowsKept, RecordsKept
  <2> QED
    BY <1>2, <2>1, IdleOK, OneCaller DEF TickSaves
<1> QED
  BY <1>7, <1>8, ScheduleStep DEF TickSaves

\* A switch of the schedule, the clock and a crash.
LEMMA RestInv ==
    ASSUME PublishingInv, SetEnabled \/ Clock \/ PublisherCrash \/ UNCHANGED publishingVars
    PROVE  PublishingInv'
<1>1. TablesOK /\ CallersOK /\ TruthOK /\ SlotsOK
  BY InvParts
<1>2. Reading /\ RowsKept /\ RecordsKept /\ UNCHANGED <<audit, requests>>
  BY ReadingKeeps DEF SetEnabled, Clock, PublisherCrash, publishingVars, Reading
<1>3. schedule \in ScheduleState /\ now \in Time /\ requests \in 0 .. MaxRequests
  BY <1>1 DEF TablesOK
<1>4. CASE SetEnabled
  <2>1. schedule' \in ScheduleState /\ schedule'.next = schedule.next
    BY <1>3, <1>4 DEF SetEnabled, ScheduleState
  <2>2. CallersOK'
    BY <1>1, <1>2, <1>4, NoCaller DEF SetEnabled
  <2>3. ScheduleKind = "daily" /\ schedule'.next # Nobody => Slot(schedule'.next)
    BY <1>1, <2>1 DEF SlotsOK
  <2> QED
    BY <1>4, <2>1, <2>2, <2>3, ScheduleStep DEF SetEnabled
<1>5. CASE Clock
  <2>1. now' \in Time
    BY <1>3, <1>5, PublishingAssumption DEF Clock, Time
  <2>2. TablesOK' /\ TruthOK' /\ SlotsOK'
    BY <1>1, <1>5, <2>1 DEF Clock, TablesOK, TruthOK, SlotsOK, OnBus, Slot
  <2>3. CallersOK'
    BY <1>1, <1>2, <1>5, NoCaller DEF Clock
  <2> QED
    BY <2>2, <2>3, InvPartsNext
<1>6. CASE PublisherCrash
  <2>1. CallersOK'
    <3>1. \A c \in Caller : call'[c] = IdleCall
      BY <1>6 DEF PublisherCrash
    <3>2. CallerOK(IdleCall, row', record') /\ IdleCall \in Call
      BY IdleOK DEF CallerOK
    <3>3. call' \in [Caller -> Call]
      BY <1>6, <3>2 DEF PublisherCrash
    <3> QED
      BY <3>1, <3>2, <3>3 DEF CallersOK
  <2> QED
    BY <1>1, <1>3, <1>6, <2>1, ScheduleStep DEF PublisherCrash, SlotsOK
<1>7. CASE UNCHANGED publishingVars
  <2>1. CallersOK'
    BY <1>1, <1>2, <1>7, NoCaller DEF publishingVars
  <2> QED
    BY <1>1, <1>3, <1>7, <2>1, ScheduleStep DEF publishingVars, SlotsOK
<1> QED
  BY <1>4, <1>5, <1>6, <1>7

\* Only TickEvaluates gives the scheduler a request.
LEMMA ScheduledKeyStays ==
    ASSUME PublishingInv, ScheduledKey, [PublishingNext]_publishingVars
    PROVE  ScheduledKey'
<1>1. PICK k \in Call : k = call[Scheduler]
  BY SchedulerFacts, CallerFacts
<1>2. call \in [Caller -> Call] /\ Scheduler \in Caller /\ Scheduler \notin Handler
  BY SchedulerFacts, CallerFacts, PublishingAssumption
<1>3. CASE call'[Scheduler].req = k.req
  BY <1>1, <1>3 DEF ScheduledKey
<1>4. CASE call'[Scheduler] = IdleCall
  BY <1>4 DEF ScheduledKey, IdleCall
<1>5. CASE UNCHANGED call
  BY <1>5 DEF ScheduledKey
<1>6. CASE \E h \in Handler :
             \/ \E key \in Key, tree \in Tree, dry \in BOOLEAN : ApiReceives(h, key, tree, dry)
             \/ ApiAdmits(h) \/ ApiReplies(h)
  <2>1. call'[Scheduler] = call[Scheduler]
    BY <1>2, <1>6 DEF ApiReceives, ApiAdmits, ApiReplies, Goes, Replies
  <2> QED
    BY <1>1, <1>3, <2>1
<1>7. CASE \E c \in Caller :
             LooksUp(c) \/ ChecksBus(c) \/ Inserts(c) \/ StoresResult(c) \/ EmitsResult(c)
  <2>1. PICK c \in Caller :
             LooksUp(c) \/ ChecksBus(c) \/ Inserts(c) \/ StoresResult(c) \/ EmitsResult(c)
    BY <1>7
  <2>2. \/ \E p : Goes(c, p)
        \/ \E o : Replies(c, o) \/ Decides(c, o)
        \/ call' = [call EXCEPT ![c].next = @ + 1]
    BY <2>1 DEF LooksUp, ChecksBus, Inserts, StoresResult, EmitsResult
  <2>3. PICK k2 \in Call : k2 = call[c]
    BY CallerFacts
  <2>4. PICK l : call' = [call EXCEPT ![c] = l] /\ l.req = k2.req
    <3>1. CASE \E p : Goes(c, p)
      BY <3>1, <2>3 DEF Goes, Call
    <3>2. CASE \E o : Replies(c, o)
      <4>1. PICK o : Replies(c, o)
        BY <3>2
      <4>2. PICK l : l = [k2 EXCEPT !.pc = "replied", !.outcome = o]
        OBVIOUS
      <4>3. l.req = k2.req
        BY <4>2 DEF Call
      <4>4. call' = [call EXCEPT ![c] = l]
        BY <1>2, <2>3, <4>1, <4>2 DEF Replies
      <4> QED
        BY <4>3, <4>4
    <3>3. CASE \E o : Decides(c, o)
      <4>1. PICK o : Decides(c, o)
        BY <3>3
      <4>2. PICK l : l = [k2 EXCEPT !.pc = "store", !.outcome = o]
        OBVIOUS
      <4>3. l.req = k2.req
        BY <4>2 DEF Call
      <4>4. call' = [call EXCEPT ![c] = l]
        BY <1>2, <2>3, <4>1, <4>2 DEF Decides
      <4> QED
        BY <4>3, <4>4
    <3>4. CASE call' = [call EXCEPT ![c].next = @ + 1]
      <4>1. PICK l : l = [k2 EXCEPT !.next = @ + 1]
        OBVIOUS
      <4>2. l.req = k2.req
        BY <4>1 DEF Call
      <4>3. call' = [call EXCEPT ![c] = l]
        BY <1>2, <2>3, <3>4, <4>1
      <4> QED
        BY <4>2, <4>3
    <3> QED
      BY <2>2, <3>1, <3>2, <3>3, <3>4
  <2>5. call'[Scheduler].req = k.req
    BY <1>1, <1>2, <2>3, <2>4
  <2> QED
    BY <1>3, <2>5
<1>8. CASE TickLists
  <2>1. call'[Scheduler].req = k.req
    BY <1>1, <1>2, <1>8 DEF TickLists, Goes, Call
  <2> QED
    BY <1>3, <2>1
<1>9. CASE TickSaves \/ PublisherCrash
  <2>1. call'[Scheduler] = IdleCall
    BY <1>2, <1>9 DEF TickSaves, PublisherCrash
  <2> QED
    BY <1>4, <2>1
<1>10. CASE TickEvaluates
  <2>1. CASE call' = [call EXCEPT ![Scheduler] = IdleCall]
    BY <1>2, <1>4, <2>1
  <2>2. TablesOK
    BY InvParts
  <2>3. PICK runAt : runAt = IF schedule.next # Nobody THEN schedule.next ELSE FirstRunAt
    OBVIOUS
  <2>4. runAt \in Nat \cup {Nobody} /\ now \in Time
    BY <2>2, <2>3, FirstRunType DEF ScheduleState, TablesOK
  <2>5. CASE /\ runAt # Nobody /\ runAt <= now
             /\ call' = [call EXCEPT ![Scheduler] = [@ EXCEPT !.pc = "lookup",
                                                              !.req = BuildRequest(runAt, requests + 1)]]
    <3>1. runAt \in Time
      BY <2>4, <2>5, PublishingAssumption DEF Time
    <3>2. call'[Scheduler].req = BuildRequest(runAt, requests + 1)
      BY <1>1, <1>2, <2>5 DEF Call
    <3> QED
      BY <3>1, <3>2 DEF BuildRequest, ScheduledKey
  <2> QED
    BY <1>10, <2>1, <2>3, <2>5 DEF TickEvaluates
<1>11. CASE SetEnabled \/ Clock \/ UNCHANGED publishingVars
  BY <1>5, <1>11 DEF SetEnabled, Clock, publishingVars
<1> QED
  BY <1>6, <1>7, <1>8, <1>9, <1>10, <1>11 DEF PublishingNext

\* The invariant holds at the start.
LEMMA PublishingInitInv ==
    ASSUME PublishingInit
    PROVE  PublishingInv /\ ScheduledKey
<1>1. TablesOK
  <2>1. 0 \in Time /\ 0 \in 0 .. MaxRequests
    BY PublishingAssumption DEF Time
  <2>2. schedule \in ScheduleState
    BY DEF PublishingInit, ScheduleState
  <2>3. row \in [Keys -> [BusNode -> TaskPayload \cup {Nobody}]]
    BY DEF PublishingInit
  <2> QED
    BY <2>1, <2>2, <2>3 DEF PublishingInit, TablesOK
<1>2. CallersOK
  <2>1. \A c \in Caller : call[c] = IdleCall
    BY DEF PublishingInit
  <2>2. CallerOK(IdleCall, row, record) /\ IdleCall \in Call
    BY IdleOK DEF CallerOK
  <2>3. call \in [Caller -> Call]
    BY <2>2 DEF PublishingInit
  <2> QED
    BY <2>1, <2>2, <2>3 DEF CallersOK
<1>3. TruthOK
  BY DEF PublishingInit, TruthOK
<1>4. SlotsOK
  BY DEF PublishingInit, SlotsOK, Keys
<1>5. ScheduledKey
  BY SchedulerFacts DEF PublishingInit, ScheduledKey, IdleCall
<1> QED
  BY <1>1, <1>2, <1>3, <1>4, <1>5, InvParts

\* Every step keeps the invariant.
LEMMA PublishingNextInv ==
    ASSUME PublishingInv, ScheduledKey, [PublishingNext]_publishingVars
    PROVE  PublishingInv' /\ ScheduledKey'
<1>1. ScheduledKey'
  BY ScheduledKeyStays
<1>2. CASE \E h \in Handler :
             \/ \E k \in Key, tree \in Tree, dry \in BOOLEAN : ApiReceives(h, k, tree, dry)
             \/ ApiAdmits(h) \/ ApiReplies(h)
  BY <1>1, <1>2, ApiInv
<1>3. CASE \E c \in Caller :
             LooksUp(c) \/ ChecksBus(c) \/ Inserts(c) \/ StoresResult(c) \/ EmitsResult(c)
  BY <1>1, <1>3, LooksUpInv, ChecksBusInv, InsertsInv, StoresResultInv, EmitsResultInv
<1>4. CASE TickLists \/ TickEvaluates
  BY <1>1, <1>4, TickInv
<1>5. CASE TickSaves
  BY <1>1, <1>5, TickSavesInv
<1>6. CASE SetEnabled \/ Clock \/ PublisherCrash \/ UNCHANGED publishingVars
  BY <1>1, <1>6, RestInv
<1> QED
  BY <1>2, <1>3, <1>4, <1>5, <1>6 DEF PublishingNext

\* Publishing answers truthfully whatever races, retries and crashes occur.
THEOREM PublishingIsSound == PublishingSpec => []PublishSound
<1>1. PublishingInit => PublishingInv /\ ScheduledKey
  BY PublishingInitInv
<1>2. PublishingInv /\ ScheduledKey /\ [PublishingNext]_publishingVars
        => (PublishingInv /\ ScheduledKey)'
  BY PublishingNextInv
<1>3. PublishingInv => PublishSound
  BY InvIsSound
<1> QED
  BY <1>1, <1>2, <1>3, PTL DEF PublishingSpec

\* Only an insert changes the rows, and only the store of a result the records.
LEMMA PublishingKeeps ==
    ASSUME PublishingInv, [PublishingNext]_publishingVars
    PROVE  RowsKept /\ RecordsKept
<1>1. TablesOK
  BY InvParts
<1>2. CASE \E c \in Caller : Inserts(c)
  <2>1. PICK c \in Caller : Inserts(c)
    BY <1>2
  <2>2. PICK key, n, p : \/ row' = row
                         \/ row[key][n] = Nobody /\ row' = [row EXCEPT ![key][n] = p]
    <3>1. PICK req, n : req = call[c].req /\ n = Expand(req.content)[call[c].next]
      OBVIOUS
    <3>2. \/ row' = row
          \/ row[req.key][n] = Nobody /\ row' = [row EXCEPT ![req.key][n] = Payload(req, n)]
      BY <2>1, <3>1 DEF Inserts
    <3>3. PICK key, p : key = req.key /\ p = Payload(req, n)
      OBVIOUS
    <3>4. \/ row' = row
          \/ row[key][n] = Nobody /\ row' = [row EXCEPT ![key][n] = p]
      BY <3>2, <3>3
    <3> QED
      BY <3>4
  <2>3. RowsKept
    <3> SUFFICES ASSUME NEW k \in Keys, NEW m \in BusNode, row[k][m] # Nobody, row' # row
                 PROVE  row'[k][m] = row[k][m]
      BY DEF RowsKept
    <3>1. row' = [row EXCEPT ![key] = [row[key] EXCEPT ![n] = p]]
      BY <2>2
    <3>2. CASE k # key
      BY <1>1, <3>1, <3>2 DEF TablesOK
    <3>3. CASE k = key
      <4>1. row'[k] = [row[k] EXCEPT ![n] = p] /\ row[k] \in [BusNode -> TaskPayload \cup {Nobody}]
        BY <1>1, <3>1, <3>3 DEF TablesOK
      <4>2. m # n
        BY <2>2, <3>3
      <4> QED
        BY <4>1, <4>2
    <3> QED
      BY <3>2, <3>3
  <2> QED
    BY <2>1, <2>3 DEF Inserts, RecordsKept
<1>3. CASE \E c \in Caller : StoresResult(c)
  <2>1. PICK c \in Caller : StoresResult(c)
    BY <1>3
  <2>2. PICK key, r : record' = [record EXCEPT ![key] = IF record[key] = Nobody THEN r ELSE record[key]]
    BY <2>1 DEF StoresResult, Put
  <2>3. RecordsKept
    BY <1>1, <2>2 DEF RecordsKept, TablesOK
  <2> QED
    BY <2>1, <2>3 DEF StoresResult, RowsKept
<1>4. CASE UNCHANGED <<row, record>>
  BY <1>4 DEF RowsKept, RecordsKept
<1>5. \/ \E c \in Caller : Inserts(c)
      \/ \E c \in Caller : StoresResult(c)
      \/ UNCHANGED <<row, record>>
  BY DEF PublishingNext, ApiReceives, ApiAdmits, ApiReplies, LooksUp, ChecksBus, EmitsResult,
         TickLists, TickEvaluates, TickSaves, SetEnabled, Clock, PublisherCrash, publishingVars
<1> QED
  BY <1>2, <1>3, <1>4, <1>5

\* A published task keeps its payload, and the first record of a key stays
\* (TaskBus.publish, SqlitePublishIdempotencyStore.put).
THEOREM PublishedStays == PublishingSpec => [][RowsKept /\ RecordsKept]_publishingVars
<1>1. PublishingInit => PublishingInv /\ ScheduledKey
  BY PublishingInitInv
<1>2. PublishingInv /\ ScheduledKey /\ [PublishingNext]_publishingVars
        => (PublishingInv /\ ScheduledKey)'
  BY PublishingNextInv
<1>3. PublishingInv /\ [PublishingNext]_publishingVars => [RowsKept /\ RecordsKept]_publishingVars
  BY PublishingKeeps
<1> QED
  BY <1>1, <1>2, <1>3, PTL DEF PublishingSpec

-----------------------------------------------------------------------------
(* Contract revision: the free task index.                                  *)

\* A set of naturals that is not empty has a least element.
LEMMA LeastOf ==
    ASSUME NEW S \in SUBSET Nat, S # {}
    PROVE  \E x \in S : \A y \in S : x <= y
  <1>1. PICK R : R = OpToRel(<, Nat)
    OBVIOUS
  <1>2. \A x, y \in Nat : x < y => <<x, y>> \in R
    BY <1>1 DEF OpToRel
  <1>3. IsWellFoundedOn(R, Nat)
    BY <1>1, NatLessThanWellFounded
  <1>4. PICK x \in S : \A y \in S : ~(<<y, x>> \in R)
    BY <1>3, WFMin
  <1>5. ASSUME NEW y \in S PROVE x <= y
    <2>1. x \in Nat /\ y \in Nat
      OBVIOUS
    <2>2. ~(y < x)
      BY <1>2, <1>4, <2>1
    <2>. QED
      BY <2>1, <2>2
  <1>. QED
    BY <1>5

\* The index a creation lists is a number no node of its plan has
\* (_next_task_index): one more number is tried than the plan has nodes.
LEMMA NextIndexIsFree ==
    ASSUME RevTypeOK, NEW p
    PROVE  /\ NextTaskIndex(p) \in Nat
           /\ \A n \in NodesIn(p) : revNode[n].index # NextTaskIndex(p)
  <1>1. PICK N : N = NodesIn(p)
    OBVIOUS
  <1>2. PICK m \in Nat : m = Len(revNode)
    BY DEF RevTypeOK
  <1>3. DOMAIN revNode = 1..m /\ N \subseteq 1..m
    BY <1>1, <1>2 DEF RevTypeOK, NodesIn
  <1>4. IsFiniteSet(1..m)
    BY <1>2, FS_Interval
  <1>5. IsFiniteSet(N)
    BY <1>3, <1>4, FS_Subset
  <1>6. PICK c \in Nat : c = Cardinality(N)
    BY <1>5, FS_CardinalityType
  <1>7. PICK free : free = FreeIndices(p)
    OBVIOUS
  <1>8. free = {i \in 1..(c + 1) : \A n \in N : revNode[n].index # i}
    BY <1>1, <1>6, <1>7 DEF FreeIndices
  <1>9. free # {}
    <2>1. SUFFICES ASSUME free = {} PROVE FALSE
      OBVIOUS
    <2>2. \A i \in 1..(c + 1) : \E n \in N : revNode[n].index = i
      BY <1>8, <2>1
    <2>3. PICK f : f = [i \in 1..(c + 1) |-> CHOOSE n \in N : revNode[n].index = i]
      OBVIOUS
    <2>4. \A i \in 1..(c + 1) : f[i] \in N /\ revNode[f[i]].index = i
      BY <2>2, <2>3
    <2>5. f \in [1..(c + 1) -> N]
      BY <2>3, <2>4
    <2>6. IsFiniteSet(1..(c + 1)) /\ Cardinality(1..(c + 1)) = c + 1
      <3>1. 1 \in Int /\ c + 1 \in Int /\ ~(1 > c + 1) /\ (c + 1) - 1 + 1 = c + 1
        BY <1>6
      <3>. QED
        BY <3>1, FS_Interval
    <2>7. Cardinality(N) < Cardinality(1..(c + 1))
      BY <1>6, <2>6
    <2>8. \E x, y \in 1..(c + 1) : x # y /\ f[x] = f[y]
      BY <1>5, <2>5, <2>6, <2>7, FS_PigeonHole
    <2>. QED
      BY <2>4, <2>8
  <1>10. free \in SUBSET Nat
    BY <1>6, <1>8
  <1>11. \E x \in free : \A y \in free : x <= y
    BY <1>9, <1>10, LeastOf
  <1>12. NextTaskIndex(p) \in free
    BY <1>7, <1>11 DEF NextTaskIndex
  <1>. QED
    BY <1>1, <1>8, <1>10, <1>12

-----------------------------------------------------------------------------
(* Requests between their steps.                                            *)

\* What a request relies on stays while the contract only grows.
LEMMA RequestStays ==
    ASSUME NEW j, j.version \in Nat,
           NEW plans, NEW nodes, NEW facts, NEW answers,
           NEW plans2, NEW nodes2, NEW facts2, NEW answers2,
           RequestFits(j, plans, nodes, facts, answers),
           \A n \in DOMAIN nodes : nodes[n].version \in Nat,
           \A n \in DOMAIN nodes2 : nodes2[n].version \in Nat,
           \A i \in DOMAIN facts : i \in DOMAIN facts2 /\ facts2[i] = facts[i],
           answers \subseteq answers2, DOMAIN plans \subseteq DOMAIN plans2,
           \A n \in DOMAIN nodes :
             /\ n \in DOMAIN nodes2
             /\ nodes2[n].plan = nodes[n].plan /\ nodes2[n].key = nodes[n].key
             /\ nodes2[n].version >= nodes[n].version
             /\ nodes2[n].version = nodes[n].version => nodes2[n] = nodes[n]
    PROVE  /\ RequestFits(j, plans2, nodes2, facts2, answers2)
           /\ \A k : Backed(k, nodes, facts, answers) => Backed(k, nodes2, facts2, answers2)
  <1>1. \A q : ScopeExists(q, plans, nodes) => ScopeExists(q, plans2, nodes2)
    BY DEF ScopeExists
  <1>2. \A k : Backed(k, nodes, facts, answers) => Backed(k, nodes2, facts2, answers2)
    <2>1. \A n \in DOMAIN nodes : nodes[n].version > 1 => nodes2[n].version > 1
      OBVIOUS
    <2>. QED
      BY <2>1 DEF Backed
  <1>3. ASSUME j.pc = "delete_save"
        PROVE  /\ j.q.node \in DOMAIN nodes2
               /\ nodes2[j.q.node].version >= j.version
               /\ nodes2[j.q.node].version = j.version =>
                    nodes2[j.q.node].readiness \notin {"cancelled", "published"}
    <2>1. PICK n \in DOMAIN nodes : n = j.q.node
      BY <1>3 DEF RequestFits
    <2>2. PICK v, w, x \in Nat : v = j.version /\ w = nodes[n].version /\ x = nodes2[n].version
      OBVIOUS
    <2>3. w >= v /\ (w = v => nodes[n].readiness \notin {"cancelled", "published"})
      BY <1>3, <2>1, <2>2 DEF RequestFits
    <2>4. x >= w /\ (x = w => nodes2[n] = nodes[n])
      BY <2>2
    <2>5. x >= v /\ (x = v => x = w /\ w = v)
      BY <2>3, <2>4
    <2>. QED
      BY <2>1, <2>2, <2>3, <2>4, <2>5
  <1>4. ASSUME j.pc \in {"lookup", "delete_read"}, j.q.kind = "delete", j.version # 0
        PROVE  j.q.node \in DOMAIN nodes2 /\ nodes2[j.q.node].version >= j.version
    <2>1. PICK n \in DOMAIN nodes : n = j.q.node
      BY <1>4 DEF RequestFits
    <2>2. PICK v, w, x \in Nat : v = j.version /\ w = nodes[n].version /\ x = nodes2[n].version
      OBVIOUS
    <2>3. w >= v
      BY <1>4, <2>1, <2>2 DEF RequestFits
    <2>4. x >= w
      BY <2>2
    <2>5. x >= v
      BY <2>3, <2>4
    <2>. QED
      BY <2>1, <2>2, <2>5
  <1>. QED
    BY <1>1, <1>2, <1>3, <1>4 DEF RequestFits

\* What a publish relies on stays too: a node that joins its plan raises the
\* version of the plan, and the plan becomes published with all its nodes.
LEMMA PublishStays ==
    ASSUME NEW j, j.version \in Nat,
           NEW plans, NEW nodes, NEW bus, NEW plans2, NEW nodes2, NEW bus2,
           PublishFits(j, plans, nodes, bus), bus \subseteq bus2,
           \A p \in DOMAIN plans : /\ p \in DOMAIN plans2
                                    /\ plans[p].version \in Nat /\ plans2[p].version \in Nat
                                    /\ plans2[p].version >= plans[p].version,
           \A p \in DOMAIN plans : plans2[p].version = plans[p].version =>
             \A n \in DOMAIN nodes2 : nodes2[n].plan = p => n \in DOMAIN nodes,
           \A p \in DOMAIN plans : plans2[p].status = "published" /\ plans[p].status # "published" =>
             \A n \in DOMAIN nodes : nodes[n].plan = p => nodes[n].readiness = "published",
           \A n \in DOMAIN nodes : n \in DOMAIN nodes2 /\ nodes2[n].plan = nodes[n].plan,
           \A n \in DOMAIN nodes :
             nodes[n].readiness = "published" => nodes2[n].readiness = "published"
    PROVE  PublishFits(j, plans2, nodes2, bus2)
  <1>1. CASE j.pc = "idle"
    BY <1>1 DEF PublishFits
  <1>2. CASE j.pc # "idle"
    <2>1. PICK p \in DOMAIN plans : p = j.plan
      BY <1>2 DEF PublishFits
    <2>2. PICK v, w, x \in Nat : v = j.version /\ w = plans[p].version /\ x = plans2[p].version
      BY <2>1
    <2>3. w >= v /\ x >= w
      BY <1>2, <2>1, <2>2 DEF PublishFits
    <2>4. x >= v /\ (x = v => x = w /\ w = v)
      BY <2>3
    <2>5. p \in DOMAIN plans2 /\ plans2[p].version >= j.version
      BY <2>1, <2>2, <2>4
    <2>6. plans2[p].version = j.version =>
            plans2[p].version = plans[p].version /\ plans[p].version = j.version
      BY <2>2, <2>4
    <2>7. ASSUME j.pc \in {"bus", "save", "plan"}
          PROVE  /\ \A y \in j.left : y.node \in DOMAIN nodes2 /\ nodes2[y.node].plan = p
                 /\ plans2[p].version = j.version =>
                      \A n \in DOMAIN nodes2 : nodes2[n].plan = p =>
                        nodes2[n].readiness = "published" \/ \E y \in j.left : y.node = n
                 /\ plans2[p].status = "published" =>
                      \A y \in j.left : nodes2[y.node].readiness = "published"
      <3>1. \A y \in j.left : y.node \in DOMAIN nodes /\ nodes[y.node].plan = p
        BY <2>1, <2>7 DEF PublishFits
      <3>2. plans[p].version = j.version =>
              \A n \in DOMAIN nodes : nodes[n].plan = p =>
                nodes[n].readiness = "published" \/ \E y \in j.left : y.node = n
        BY <2>1, <2>7 DEF PublishFits
      <3>3. plans[p].status = "published" =>
              \A y \in j.left : nodes[y.node].readiness = "published"
        BY <2>1, <2>7 DEF PublishFits
      <3>. QED
        BY <2>6, <3>1, <3>2, <3>3
    <2>8. j.pc = "save" => \A y \in j.left : y.node \in bus2
      BY DEF PublishFits
    <2>9. j.pc = "plan" =>
            /\ j.left = {}
            /\ \E n \in DOMAIN nodes2 : nodes2[n].plan = p /\ nodes2[n].readiness = "published"
      BY <2>1 DEF PublishFits
    <2>. QED
      BY <2>1, <2>5, <2>7, <2>8, <2>9 DEF PublishFits
  <1>. QED
    BY <1>1, <1>2

\* The fields of a request.
LEMMA RequestShape ==
    ASSUME RevTypeOK, NEW t \in RevThread
    PROVE  /\ revJob[t].pc \in RevSteps /\ revJob[t].q \in RevCommand \cup {NoCommand}
           /\ revJob[t].hash \in Nat /\ revJob[t].plan \in Nat /\ revJob[t].index \in Nat
           /\ revJob[t].version \in Nat /\ revJob[t].status \in Result
           /\ revJob[t] = [pc |-> revJob[t].pc, q |-> revJob[t].q, hash |-> revJob[t].hash,
                           plan |-> revJob[t].plan, index |-> revJob[t].index,
                           version |-> revJob[t].version, status |-> revJob[t].status]
  <1>1. revJob[t] \in RevJobRow
    BY DEF RevTypeOK
  <1>. QED
    BY <1>1 DEF RevJobRow

\* A step of one thread leaves the requests of the others.
LEMMA OneRequest ==
    ASSUME RevTypeOK, NEW t \in RevThread, NEW k \in RevJobRow,
           revJob' = [revJob EXCEPT ![t] = k]
    PROVE  /\ revJob' \in [RevThread -> RevJobRow] /\ revJob'[t] = k
           /\ \A u \in RevThread : u # t => revJob'[u] = revJob[u]
  <1>1. revJob \in [RevThread -> RevJobRow]
    BY DEF RevTypeOK
  <1>. QED
    BY <1>1

\* Does moves a request to its next step.
LEMMA DoesMoves ==
    ASSUME RevTypeOK, NEW t \in RevThread, NEW pc \in RevSteps, Does(t, pc)
    PROVE  /\ revJob' \in [RevThread -> RevJobRow]
           /\ revJob'[t].pc = pc /\ revJob'[t].q = revJob[t].q
           /\ revJob'[t].status = revJob[t].status /\ revJob'[t].version = revJob[t].version
           /\ \A u \in RevThread : u # t => revJob'[u] = revJob[u]
  <1>1. PICK k : k = [revJob[t] EXCEPT !.pc = pc]
    OBVIOUS
  <1>2. k = [pc |-> pc, q |-> revJob[t].q, hash |-> revJob[t].hash, plan |-> revJob[t].plan,
             index |-> revJob[t].index, version |-> revJob[t].version, status |-> revJob[t].status]
    <2>1. PICK a, b, c, d, e, f, g : revJob[t] = [pc |-> a, q |-> b, hash |-> c, plan |-> d,
                                                  index |-> e, version |-> f, status |-> g]
      BY RequestShape
    <2>. QED
      BY <1>1, <2>1
  <1>3. k \in RevJobRow
    BY <1>2, RequestShape DEF RevJobRow
  <1>4. revJob' = [revJob EXCEPT ![t] = k]
    BY <1>1 DEF Does
  <1>5. k.pc = pc /\ k.q = revJob[t].q /\ k.status = revJob[t].status /\ k.version = revJob[t].version
    BY <1>2
  <1>. QED
    BY <1>3, <1>4, <1>5, OneRequest

\* Concludes sends a request to its record with a result.
LEMMA ConcludesMoves ==
    ASSUME RevTypeOK, NEW t \in RevThread, NEW status \in Result, Concludes(t, status)
    PROVE  /\ revJob' \in [RevThread -> RevJobRow]
           /\ revJob'[t].pc = "record" /\ revJob'[t].q = revJob[t].q /\ revJob'[t].status = status
           /\ \A u \in RevThread : u # t => revJob'[u] = revJob[u]
  <1>1. PICK k : k = [revJob[t] EXCEPT !.pc = "record", !.status = status]
    OBVIOUS
  <1>2. k = [pc |-> "record", q |-> revJob[t].q, hash |-> revJob[t].hash, plan |-> revJob[t].plan,
             index |-> revJob[t].index, version |-> revJob[t].version, status |-> status]
    <2>1. PICK a, b, c, d, e, f, g : revJob[t] = [pc |-> a, q |-> b, hash |-> c, plan |-> d,
                                                  index |-> e, version |-> f, status |-> g]
      BY RequestShape
    <2>. QED
      BY <1>1, <2>1
  <1>3. k \in RevJobRow
    BY <1>2, RequestShape DEF RevJobRow, RevSteps
  <1>4. revJob' = [revJob EXCEPT ![t] = k]
    BY <1>1 DEF Concludes
  <1>5. k.pc = "record" /\ k.q = revJob[t].q /\ k.status = status
    BY <1>2
  <1>. QED
    BY <1>3, <1>4, <1>5, OneRequest

-----------------------------------------------------------------------------
(* What a step has to show.                                                 *)

\* The invariant in the pieces the steps use.
LEMMA ContractParts ==
    ASSUME ContractInv
    PROVE  /\ RevTypeOK /\ tick \in Nat /\ revSends \in Nat
           /\ revPlan \in Seq(RevPlanRow) /\ revNode \in Seq(RevNodeRow) /\ fact \in Seq(FactRow)
           /\ \A n \in DOMAIN revNode :
                /\ revNode[n] \in RevNodeRow /\ revNode[n].version \in Nat \ {0}
                /\ revNode[n].plan \in DOMAIN revPlan
           /\ \A p \in DOMAIN revPlan : revPlan[p] \in RevPlanRow /\ revPlan[p].version \in Nat
           /\ \A b \in RevPublisher :
                /\ revPub[b] \in RevPubRow /\ revPub[b].version \in Nat
                /\ PublishFits(revPub[b], revPlan, revNode, onBus)
           /\ \A t \in RevThread : /\ revJob[t].version \in Nat
                                   /\ RequestFits(revJob[t], revPlan, revNode, fact, ask)
           /\ \A t \in RevThread : revJob[t].pc # "idle" =>
                /\ revJob[t].q \in RevCommand /\ revJob[t].q.key \in RevKey
                /\ revJob[t].q.plan \in Nat /\ revJob[t].q.node \in Nat
  <1>1. RevTypeOK /\ revNode \in Seq(RevNodeRow)
    BY DEF ContractInv, RevTypeOK
  <1>2. \A n \in DOMAIN revNode : revNode[n] \in RevNodeRow
    BY <1>1
  <1>3. \A n \in DOMAIN revNode : revNode[n].version \in Nat \ {0}
    BY <1>2 DEF RevNodeRow
  <1>4. \A t \in RevThread : revJob[t].version \in Nat
    BY <1>1, RequestShape
  <1>5. \A t \in RevThread : revJob[t].pc # "idle" => revJob[t].q \in RevCommand
    BY DEF ContractInv, RequestFits
  <1>6. \A q \in RevCommand : q.key \in RevKey /\ q.plan \in Nat /\ q.node \in Nat
    BY CommandAssumption DEF RevKey, ValidCommand
  <1>7. \A p \in DOMAIN revPlan : revPlan[p] \in RevPlanRow /\ revPlan[p].version \in Nat
    <2>1. revPlan \in Seq(RevPlanRow)
      BY <1>1 DEF RevTypeOK
    <2>2. \A p \in DOMAIN revPlan : revPlan[p] \in RevPlanRow
      BY <2>1
    <2>. QED
      BY <2>2 DEF RevPlanRow
  <1>8. \A b \in RevPublisher : /\ revPub[b] \in RevPubRow /\ revPub[b].version \in Nat
                                /\ PublishFits(revPub[b], revPlan, revNode, onBus)
    <2>1. \A b \in RevPublisher : revPub[b] \in RevPubRow
      BY <1>1 DEF RevTypeOK
    <2>2. \A b \in RevPublisher : revPub[b].version \in Nat
      BY <2>1 DEF RevPubRow
    <2>. QED
      BY <2>1, <2>2 DEF ContractInv
  <1>. QED
    BY <1>1, <1>2, <1>3, <1>4, <1>5, <1>6, <1>7, <1>8 DEF ContractInv, RevTypeOK

\* A step keeps the invariant, if the stores it leaves are consistent, have
\* lost nothing and fit the requests it moves.
LEMMA ContractStep ==
    ASSUME ContractInv, RevTypeOK', ContractGrows,
           TaskIndexUnique', AcceptedIsBacked', PublishInv', GuidanceScoped',
           \A b \in RevPublisher : \/ revPub'[b] = revPub[b]
                                   \/ PublishFits(revPub'[b], revPlan', revNode', onBus'),
           \A u \in RevThread : \/ revJob'[u] = revJob[u]
                                \/ RequestFits(revJob'[u], revPlan', revNode', fact', ask')
    PROVE  ContractInv'
  <1>1. ASSUME NEW u \in RevThread
        PROVE  RequestFits(revJob'[u], revPlan', revNode', fact', ask')
    <2>1. CASE RequestFits(revJob'[u], revPlan', revNode', fact', ask')
      BY <2>1
    <2>2. CASE revJob'[u] = revJob[u]
      <3>1. PICK j, plans, nodes, facts, answers, plans2, nodes2, facts2, answers2 :
              /\ j = revJob[u]
              /\ plans = revPlan /\ nodes = revNode /\ facts = fact /\ answers = ask
              /\ plans2 = revPlan' /\ nodes2 = revNode' /\ facts2 = fact' /\ answers2 = ask'
        OBVIOUS
      <3>2. j.version \in Nat /\ RequestFits(j, plans, nodes, facts, answers)
        BY <3>1, ContractParts
      <3>3. \A n \in DOMAIN nodes : nodes[n].version \in Nat
        BY <3>1, ContractParts
      <3>4. \A n \in DOMAIN nodes2 : nodes2[n].version \in Nat
        <4>1. nodes2 \in Seq(RevNodeRow)
          BY <3>1 DEF RevTypeOK
        <4>2. \A n \in DOMAIN nodes2 : nodes2[n] \in RevNodeRow
          BY <4>1
        <4>. QED
          BY <4>2 DEF RevNodeRow
      <3>5. /\ \A i \in DOMAIN facts : i \in DOMAIN facts2 /\ facts2[i] = facts[i]
            /\ answers \subseteq answers2 /\ DOMAIN plans \subseteq DOMAIN plans2
            /\ \A n \in DOMAIN nodes :
                 /\ n \in DOMAIN nodes2
                 /\ nodes2[n].plan = nodes[n].plan /\ nodes2[n].key = nodes[n].key
                 /\ nodes2[n].version >= nodes[n].version
                 /\ nodes2[n].version = nodes[n].version => nodes2[n] = nodes[n]
        BY <3>1 DEF ContractGrows
      <3>6. RequestFits(j, plans2, nodes2, facts2, answers2)
        BY <3>2, <3>3, <3>4, <3>5, RequestStays
      <3>7. revJob'[u] = j
        BY <2>2, <3>1
      <3>. QED
        BY <3>1, <3>6, <3>7
    <2>. QED
      BY <2>1, <2>2
  <1>2. ASSUME NEW b \in RevPublisher
        PROVE  PublishFits(revPub'[b], revPlan', revNode', onBus')
    <2>1. CASE PublishFits(revPub'[b], revPlan', revNode', onBus')
      BY <2>1
    <2>2. CASE revPub'[b] = revPub[b]
      <3>1. PICK j, plans, nodes, bus, plans2, nodes2, bus2 :
              /\ j = revPub[b] /\ plans = revPlan /\ nodes = revNode /\ bus = onBus
              /\ plans2 = revPlan' /\ nodes2 = revNode' /\ bus2 = onBus'
        OBVIOUS
      <3>2. j.version \in Nat /\ PublishFits(j, plans, nodes, bus)
        BY <3>1, ContractParts
      <3>3. \A p \in DOMAIN plans2 : plans2[p].version \in Nat
        <4>1. plans2 \in Seq(RevPlanRow)
          BY <3>1 DEF RevTypeOK
        <4>2. \A p \in DOMAIN plans2 : plans2[p] \in RevPlanRow
          BY <4>1
        <4>. QED
          BY <4>2 DEF RevPlanRow
      <3>4. \A p \in DOMAIN plans : /\ p \in DOMAIN plans2
                                    /\ plans[p].version \in Nat /\ plans2[p].version \in Nat
                                    /\ plans2[p].version >= plans[p].version
        BY <3>1, <3>3, ContractParts DEF ContractGrows
      <3>5. bus \subseteq bus2
        BY <3>1 DEF ContractGrows
      <3>6. \A p \in DOMAIN plans : plans2[p].version = plans[p].version =>
              \A n \in DOMAIN nodes2 : nodes2[n].plan = p => n \in DOMAIN nodes
        BY <3>1 DEF ContractGrows
      <3>7. \A p \in DOMAIN plans : plans2[p].status = "published" /\ plans[p].status # "published" =>
              \A n \in DOMAIN nodes : nodes[n].plan = p => nodes[n].readiness = "published"
        BY <3>1 DEF ContractGrows, NodesIn
      <3>8. \A n \in DOMAIN nodes : n \in DOMAIN nodes2 /\ nodes2[n].plan = nodes[n].plan
        BY <3>1 DEF ContractGrows
      <3>9. \A n \in DOMAIN nodes :
              nodes[n].readiness = "published" => nodes2[n].readiness = "published"
        BY <3>1 DEF ContractGrows
      <3>10. PublishFits(j, plans2, nodes2, bus2)
        BY <3>2, <3>4, <3>5, <3>6, <3>7, <3>8, <3>9, PublishStays
      <3>11. revPub'[b] = j
        BY <2>2, <3>1
      <3>. QED
        BY <3>1, <3>10, <3>11
    <2>. QED
      BY <2>1, <2>2
  <1>. QED
    BY <1>1, <1>2 DEF ContractInv

\* What a step shows that leaves the plans and the nodes as they are.
LEMMA NodesRest ==
    ASSUME ContractInv, UNCHANGED <<revPlan, revNode>>
    PROVE  /\ \A n \in DOMAIN revNode :
                /\ n \in DOMAIN revNode'
                /\ revNode'[n].plan = revNode[n].plan /\ revNode'[n].key = revNode[n].key
                /\ revNode'[n].version >= revNode[n].version
                /\ revNode'[n].version = revNode[n].version => revNode'[n] = revNode[n]
                /\ revNode[n].readiness = "published" => revNode'[n].readiness = "published"
           /\ \A p \in DOMAIN revPlan :
                /\ p \in DOMAIN revPlan' /\ revPlan'[p].version >= revPlan[p].version
                /\ revPlan'[p].version = revPlan[p].version =>
                     \A n \in DOMAIN revNode' : revNode'[n].plan = p => n \in DOMAIN revNode
                /\ revPlan'[p].status = "published" /\ revPlan[p].status # "published" =>
                     \A n \in NodesIn(p) : revNode[n].readiness = "published"
  <1>1. \A n \in DOMAIN revNode : revNode[n].version >= revNode[n].version
    BY ContractParts
  <1>2. \A p \in DOMAIN revPlan : revPlan[p].version >= revPlan[p].version
    BY ContractParts
  <1>. QED
    BY <1>1, <1>2

\* What a publish shows is untouched by a step that leaves plans, nodes and bus.
LEMMA PublishRests ==
    ASSUME PublishInv, UNCHANGED <<revPlan, revNode, onBus>>
    PROVE  PublishInv'
  BY DEF PublishInv, PublishedOnBus, PublishedPlanShown, PublishedHasNode, NodesIn

\* A step that writes no store of the contract.
LEMMA QuietStep ==
    ASSUME ContractInv, UNCHANGED <<contract, revRecord>>,
           activity' \subseteq RevKey, revSends' \in Nat,
           revJob' \in [RevThread -> RevJobRow], revPub' \in [RevPublisher -> RevPubRow],
           \A b \in RevPublisher : \/ revPub'[b] = revPub[b]
                                   \/ PublishFits(revPub'[b], revPlan, revNode, onBus),
           \A u \in RevThread : \/ revJob'[u] = revJob[u]
                                \/ RequestFits(revJob'[u], revPlan, revNode, fact, ask)
    PROVE  ContractInv' /\ ContractGrows
  <1>0. UNCHANGED <<revPlan, revNode, fact, ask, onBus, tick, revRecord>>
    BY DEF contract
  <1>1. RevTypeOK'
    BY <1>0 DEF ContractInv, RevTypeOK
  <1>2. ContractGrows
    BY <1>0, NodesRest DEF ContractGrows
  <1>3. TaskIndexUnique' /\ PublishInv' /\ GuidanceScoped'
    <2>1. PublishInv'
      BY <1>0, PublishRests DEF ContractInv
    <2>. QED
      BY <1>0, <2>1 DEF ContractInv, TaskIndexUnique, GuidanceScoped
  <1>4. AcceptedIsBacked'
    BY <1>0 DEF ContractInv, AcceptedIsBacked, StatusesOf
  <1>5. \A u \in RevThread : \/ revJob'[u] = revJob[u]
                              \/ RequestFits(revJob'[u], revPlan', revNode', fact', ask')
    BY <1>0
  <1>6. \A b \in RevPublisher : \/ revPub'[b] = revPub[b]
                                 \/ PublishFits(revPub'[b], revPlan', revNode', onBus')
    BY <1>0
  <1>. QED
    BY <1>1, <1>2, <1>3, <1>4, <1>5, <1>6, ContractStep

\* The publishes rest while a request moves.
LEMMA PubRests ==
    ASSUME ContractInv, UNCHANGED revPub
    PROVE  /\ revPub' \in [RevPublisher -> RevPubRow]
           /\ \A b \in RevPublisher : \/ revPub'[b] = revPub[b]
                                      \/ PublishFits(revPub'[b], revPlan, revNode, onBus)
  BY DEF ContractInv, RevTypeOK

\* A thread without a request fits everything.
LEMMA IdleRequestFits ==
    \A plans, nodes, facts, answers : RequestFits(RevIdle, plans, nodes, facts, answers)
  <1>1. RevIdle.pc = "idle"
    BY DEF RevIdle
  <1>. QED
    BY <1>1 DEF RequestFits

\* Nor does a publisher without a publish.
LEMMA PubIdleFits ==
    /\ PubIdle \in RevPubRow
    /\ \A plans, nodes, bus : PublishFits(PubIdle, plans, nodes, bus)
  <1>1. PubIdle.pc = "idle"
    BY DEF PubIdle
  <1>2. PubIdle \in RevPubRow
    BY DEF PubIdle, RevPubRow
  <1>. QED
    BY <1>1, <1>2 DEF PublishFits

\* A thread without a request is one.
LEMMA IdleRow == RevIdle \in RevJobRow
  BY DEF RevIdle, RevJobRow, RevSteps, Result

-----------------------------------------------------------------------------
(* Steps that only read.                                                    *)

\* A client sends a request.
LEMMA SendKeeps ==
    ASSUME ContractInv, NEW t \in RevThread, NEW q \in RevCommand, NEW expected,
           Send(t, q, expected)
    PROVE  ContractInv' /\ ContractGrows
  <1>0. /\ RevTypeOK /\ revSends \in Nat /\ activity \subseteq RevKey
        /\ UNCHANGED <<contract, revRecord, activity, revPub>> /\ revSends' = revSends + 1
    BY ContractParts DEF Send, RevTypeOK
  <1>a. /\ expected \in Nat
        /\ q.kind = "delete" /\ expected # 0 =>
             q.node \in DOMAIN revNode /\ revNode[q.node].version >= expected
    <2>1. expected \in Expected(q)
      BY DEF Send
    <2>2. CASE expected = 0
      BY <2>2
    <2>3. CASE /\ q.kind = "delete" /\ q.node \in DOMAIN revNode
               /\ expected = revNode[q.node].version
      <3>1. expected \in Nat
        BY <2>3, ContractParts
      <3>2. expected >= expected
        BY <3>1
      <3>. QED
        BY <2>3, <3>1, <3>2
    <2>4. CASE /\ q.kind \in {"create", "execute"} /\ q.plan \in DOMAIN revPlan
               /\ expected = revPlan[q.plan].version
      <3>1. expected \in Nat
        BY <2>4, ContractParts
      <3>2. q.kind # "delete"
        BY <2>4
      <3>. QED
        BY <3>1, <3>2
    <2>. QED
      BY <2>1, <2>2, <2>3, <2>4 DEF Expected
  <1>1. PICK h \in Nat : h = IF Routed THEN revSends + 1 ELSE 0
    BY <1>0
  <1>2. PICK k : k = [RevIdle EXCEPT !.pc = "lookup", !.q = q, !.hash = h, !.version = expected]
    OBVIOUS
  <1>3. k = [pc |-> "lookup", q |-> q, hash |-> h, plan |-> 0, index |-> 0, version |-> expected,
             status |-> "none"]
    BY <1>2 DEF RevIdle
  <1>4. k \in RevJobRow /\ k.pc = "lookup" /\ k.q = q /\ k.version = expected
    BY <1>a, <1>3 DEF RevJobRow, RevSteps, Result
  <1>5. revJob' = [revJob EXCEPT ![t] = k]
    BY <1>1, <1>2 DEF Send
  <1>6. /\ revJob' \in [RevThread -> RevJobRow] /\ revJob'[t] = k
        /\ \A u \in RevThread : u # t => revJob'[u] = revJob[u]
    BY <1>0, <1>4, <1>5, OneRequest
  <1>7. RequestFits(k, revPlan, revNode, fact, ask)
    BY <1>a, <1>4 DEF RequestFits
  <1>8. revSends' \in Nat
    BY <1>0
  <1>. QED
    BY <1>0, <1>6, <1>7, <1>8, PubRests, QuietStep

\* The record of the key is read: the request goes on, or is answered from it.
LEMMA LookupKeeps ==
    ASSUME ContractInv, NEW t \in RevThread, Lookup(t)
    PROVE  ContractInv' /\ ContractGrows
  <1>0. /\ RevTypeOK /\ revSends \in Nat /\ activity \subseteq RevKey
        /\ UNCHANGED <<contract, revRecord, activity, revSends, revPub>> /\ revJob[t].pc = "lookup"
    BY ContractParts DEF Lookup, RevTypeOK, RevAt
  <1>1. PICK q \in RevCommand : q = revJob[t].q
    BY <1>0, ContractParts
  <1>2. ValidCommand(q)
    BY CommandAssumption
  <1>3. CASE Does(t, Entry(revJob[t].q))
    <2>1. /\ Entry(q) \in {"scope", "target", "delete_read", "answer"}
          /\ Entry(q) = "delete_read" => q.kind = "delete"
      BY <1>2 DEF ValidCommand, Entry
    <2>2. PICK pc \in RevSteps : pc = Entry(q)
      BY <2>1 DEF RevSteps
    <2>3. Does(t, pc)
      BY <1>1, <1>3, <2>2
    <2>4. /\ revJob' \in [RevThread -> RevJobRow] /\ revJob'[t].pc = pc /\ revJob'[t].q = q
          /\ revJob'[t].version = revJob[t].version
          /\ \A u \in RevThread : u # t => revJob'[u] = revJob[u]
      BY <1>0, <1>1, <2>3, DoesMoves
    <2>5. q.kind = "delete" /\ revJob[t].version # 0 =>
            q.node \in DOMAIN revNode /\ revNode[q.node].version >= revJob[t].version
      BY <1>0, <1>1 DEF ContractInv, RequestFits
    <2>6. RequestFits(revJob'[t], revPlan, revNode, fact, ask)
      BY <2>1, <2>2, <2>4, <2>5 DEF RequestFits
    <2>. QED
      BY <1>0, <2>4, <2>6, PubRests, QuietStep
  <1>4. CASE revJob' = [revJob EXCEPT ![t] = RevIdle]
    <2>1. /\ revJob' \in [RevThread -> RevJobRow] /\ revJob'[t] = RevIdle
          /\ \A u \in RevThread : u # t => revJob'[u] = revJob[u]
      BY <1>0, <1>4, IdleRow, OneRequest
    <2>. QED
      BY <1>0, <2>1, IdleRequestFits, PubRests, QuietStep
  <1>. QED
    BY <1>3, <1>4 DEF Lookup, RevQ

\* A result other than an acceptance needs no backing.
LEMMA RefusalKeeps ==
    ASSUME ContractInv, NEW t \in RevThread, revJob[t].pc # "idle", Reads,
           NEW status \in Result \ {"accepted"}, Concludes(t, status)
    PROVE  ContractInv' /\ ContractGrows
  <1>0. /\ RevTypeOK /\ revSends \in Nat /\ activity \subseteq RevKey
        /\ UNCHANGED <<contract, revRecord, activity, revSends, revPub>>
    BY ContractParts DEF Reads, RevTypeOK
  <1>1. /\ revJob' \in [RevThread -> RevJobRow]
        /\ revJob'[t].pc = "record" /\ revJob'[t].q = revJob[t].q /\ revJob'[t].status = status
        /\ \A u \in RevThread : u # t => revJob'[u] = revJob[u]
    BY <1>0, ConcludesMoves
  <1>2. revJob[t].q \in RevCommand
    BY ContractParts
  <1>3. RequestFits(revJob'[t], revPlan, revNode, fact, ask)
    BY <1>1, <1>2 DEF RequestFits
  <1>. QED
    BY <1>0, <1>1, <1>3, PubRests, QuietStep

\* The scope of a guidance is checked.
LEMMA ScopeKeeps ==
    ASSUME ContractInv, NEW t \in RevThread, GuidanceScope(t)
    PROVE  ContractInv' /\ ContractGrows
  <1>0. /\ RevTypeOK /\ revSends \in Nat /\ activity \subseteq RevKey /\ Reads
        /\ UNCHANGED <<contract, revRecord, activity, revSends, revPub>> /\ revJob[t].pc = "scope"
        /\ revJob[t].q \in RevCommand
    BY ContractParts DEF GuidanceScope, Reads, RevTypeOK, RevAt
  <1>1. CASE ScopeExists(revJob[t].q, revPlan, revNode) /\ Does(t, "guidance")
    <2>1. /\ revJob' \in [RevThread -> RevJobRow]
          /\ revJob'[t].pc = "guidance" /\ revJob'[t].q = revJob[t].q
          /\ \A u \in RevThread : u # t => revJob'[u] = revJob[u]
      BY <1>0, <1>1, DoesMoves DEF RevSteps
    <2>2. RequestFits(revJob'[t], revPlan, revNode, fact, ask)
      BY <1>0, <1>1, <2>1 DEF RequestFits
    <2>. QED
      BY <1>0, <2>1, <2>2, PubRests, QuietStep
  <1>2. CASE Concludes(t, "rejected")
    BY <1>0, <1>2, RefusalKeeps DEF Result
  <1>. QED
    BY <1>1, <1>2 DEF GuidanceScope, RevQ

\* The plan of a creation is found.
LEMMA TargetKeeps ==
    ASSUME ContractInv, NEW t \in RevThread, Target(t)
    PROVE  ContractInv' /\ ContractGrows
  <1>0. /\ RevTypeOK /\ revSends \in Nat /\ activity \subseteq RevKey /\ Reads
        /\ UNCHANGED <<contract, revRecord, activity, revSends, revPub>> /\ revJob[t].pc = "target"
        /\ revJob[t].q \in RevCommand
    BY ContractParts DEF Target, Reads, RevTypeOK, RevAt
  <1>1. ASSUME NEW p \in DOMAIN revPlan,
               revJob' = [revJob EXCEPT ![t] = [@ EXCEPT !.pc = "list", !.plan = p]]
        PROVE  ContractInv' /\ ContractGrows
    <2>1. p \in Nat
      BY <1>0 DEF RevTypeOK
    <2>2. PICK k : k = [revJob[t] EXCEPT !.pc = "list", !.plan = p]
      OBVIOUS
    <2>3. k = [pc |-> "list", q |-> revJob[t].q, hash |-> revJob[t].hash, plan |-> p,
               index |-> revJob[t].index, version |-> revJob[t].version, status |-> revJob[t].status]
      <3>1. PICK a, b, c, d, e, f, g : revJob[t] = [pc |-> a, q |-> b, hash |-> c, plan |-> d,
                                                    index |-> e, version |-> f, status |-> g]
        BY <1>0, RequestShape
      <3>. QED
        BY <2>2, <3>1
    <2>4. k \in RevJobRow
      BY <1>0, <2>1, <2>3, RequestShape DEF RevJobRow, RevSteps
    <2>5. revJob' = [revJob EXCEPT ![t] = k]
      BY <1>1, <2>2
    <2>6. k.pc = "list" /\ k.q = revJob[t].q /\ k.plan = p
      BY <2>3
    <2>7. /\ revJob' \in [RevThread -> RevJobRow] /\ revJob'[t] = k
          /\ \A u \in RevThread : u # t => revJob'[u] = revJob[u]
      BY <1>0, <2>4, <2>5, OneRequest
    <2>8. RequestFits(k, revPlan, revNode, fact, ask)
      BY <1>0, <2>6 DEF RequestFits
    <2>. QED
      BY <1>0, <2>7, <2>8, PubRests, QuietStep
  <1>2. CASE Does(t, "new_plan")
    <2>1. /\ revJob' \in [RevThread -> RevJobRow]
          /\ revJob'[t].pc = "new_plan" /\ revJob'[t].q = revJob[t].q
          /\ \A u \in RevThread : u # t => revJob'[u] = revJob[u]
      BY <1>0, <1>2, DoesMoves DEF RevSteps
    <2>2. RequestFits(revJob'[t], revPlan, revNode, fact, ask)
      BY <1>0, <2>1 DEF RequestFits
    <2>. QED
      BY <1>0, <2>1, <2>2, PubRests, QuietStep
  <1>3. CASE Concludes(t, "rejected")
    BY <1>0, <1>3, RefusalKeeps DEF Result
  <1>. QED
    BY <1>1, <1>2, <1>3 DEF Target

\* The nodes of the plan are listed.
LEMMA ListKeeps ==
    ASSUME ContractInv, NEW t \in RevThread, ListNodes(t)
    PROVE  ContractInv' /\ ContractGrows
  <1>0. /\ RevTypeOK /\ revSends \in Nat /\ activity \subseteq RevKey
        /\ UNCHANGED <<contract, revRecord, activity, revSends, revPub>> /\ revJob[t].pc = "list"
        /\ revJob[t].q \in RevCommand
    BY ContractParts DEF ListNodes, Reads, RevTypeOK, RevAt
  <1>1. revJob[t].plan \in DOMAIN revPlan
    BY <1>0 DEF ContractInv, RequestFits
  <1>2. PICK i \in Nat : i = NextTaskIndex(revJob[t].plan)
    BY <1>0, NextIndexIsFree
  <1>3. PICK k : k = [revJob[t] EXCEPT !.pc = "add", !.index = i]
    OBVIOUS
  <1>4. k = [pc |-> "add", q |-> revJob[t].q, hash |-> revJob[t].hash, plan |-> revJob[t].plan,
             index |-> i, version |-> revJob[t].version, status |-> revJob[t].status]
    <2>1. PICK a, b, c, d, e, f, g : revJob[t] = [pc |-> a, q |-> b, hash |-> c, plan |-> d,
                                                  index |-> e, version |-> f, status |-> g]
      BY <1>0, RequestShape
    <2>. QED
      BY <1>3, <2>1
  <1>5. k \in RevJobRow
    BY <1>0, <1>4, RequestShape DEF RevJobRow, RevSteps
  <1>6. revJob' = [revJob EXCEPT ![t] = k]
    BY <1>2, <1>3 DEF ListNodes
  <1>7. k.pc = "add" /\ k.q = revJob[t].q /\ k.plan = revJob[t].plan
    BY <1>4
  <1>8. /\ revJob' \in [RevThread -> RevJobRow] /\ revJob'[t] = k
        /\ \A u \in RevThread : u # t => revJob'[u] = revJob[u]
    BY <1>0, <1>5, <1>6, OneRequest
  <1>9. RequestFits(k, revPlan, revNode, fact, ask)
    BY <1>0, <1>1, <1>7 DEF RequestFits
  <1>. QED
    BY <1>0, <1>8, <1>9, PubRests, QuietStep

\* A deletion reads the node and its version.
LEMMA DeleteReadKeeps ==
    ASSUME ContractInv, NEW t \in RevThread, DeleteRead(t)
    PROVE  ContractInv' /\ ContractGrows
  <1>0. /\ RevTypeOK /\ revSends \in Nat /\ activity \subseteq RevKey /\ Reads
        /\ UNCHANGED <<contract, revRecord, activity, revSends, revPub>> /\ revJob[t].pc = "delete_read"
        /\ revJob[t].q \in RevCommand
    BY ContractParts DEF DeleteRead, Reads, RevTypeOK, RevAt
  <1>1. revJob[t].q.kind = "delete"
    BY <1>0 DEF ContractInv, RequestFits
  <1>2. ASSUME NEW n \in DOMAIN revNode, n = revJob[t].q.node,
               revNode[n].readiness \notin {"cancelled", "published"},
               revJob' = [revJob EXCEPT ![t] =
                 [@ EXCEPT !.pc = "delete_save",
                           !.version = IF revJob[t].version = 0 THEN revNode[n].version
                                                                ELSE revJob[t].version]]
        PROVE  ContractInv' /\ ContractGrows
    <2>1. PICK v \in Nat : v = IF revJob[t].version = 0 THEN revNode[n].version ELSE revJob[t].version
      BY ContractParts
    <2>2. PICK k : k = [revJob[t] EXCEPT !.pc = "delete_save", !.version = v]
      OBVIOUS
    <2>3. k = [pc |-> "delete_save", q |-> revJob[t].q, hash |-> revJob[t].hash,
               plan |-> revJob[t].plan, index |-> revJob[t].index, version |-> v,
               status |-> revJob[t].status]
      <3>1. PICK a, b, c, d, e, f, g : revJob[t] = [pc |-> a, q |-> b, hash |-> c, plan |-> d,
                                                    index |-> e, version |-> f, status |-> g]
        BY <1>0, RequestShape
      <3>. QED
        BY <2>2, <3>1
    <2>4. k \in RevJobRow
      BY <1>0, <2>3, RequestShape DEF RevJobRow, RevSteps
    <2>5. revJob' = [revJob EXCEPT ![t] = k]
      BY <1>2, <2>1, <2>2
    <2>6. k.pc = "delete_save" /\ k.q = revJob[t].q /\ k.version = v
      BY <2>3
    <2>7. /\ revJob' \in [RevThread -> RevJobRow] /\ revJob'[t] = k
          /\ \A u \in RevThread : u # t => revJob'[u] = revJob[u]
      BY <1>0, <2>4, <2>5, OneRequest
    <2>8. revNode[n].version >= v
      <3>1. PICK w \in Nat : w = revNode[n].version
        BY ContractParts
      <3>2. w >= w
        BY <3>1
      <3>3. revJob[t].version # 0 => w >= revJob[t].version
        BY <1>0, <1>1, <1>2, <3>1 DEF ContractInv, RequestFits
      <3>. QED
        BY <2>1, <3>1, <3>2, <3>3
    <2>9. RequestFits(k, revPlan, revNode, fact, ask)
      BY <1>0, <1>1, <1>2, <2>1, <2>6, <2>8 DEF RequestFits
    <2>. QED
      BY <1>0, <2>7, <2>9, PubRests, QuietStep
  <1>3. CASE Concludes(t, "rejected")
    BY <1>0, <1>3, RefusalKeeps DEF Result
  <1>4. CASE Concludes(t, "noop")
    BY <1>0, <1>4, RefusalKeeps DEF Result
  <1>. QED
    BY <1>2, <1>3, <1>4 DEF DeleteRead, RevQ

\* The Activity is published and the client answered.
LEMMA ActivityKeeps ==
    ASSUME ContractInv, NEW t \in RevThread, PublishActivity(t)
    PROVE  ContractInv' /\ ContractGrows
  <1>0. /\ RevTypeOK /\ revSends' \in Nat /\ activity \subseteq RevKey
        /\ UNCHANGED <<contract, revRecord, revPub>> /\ revJob[t].pc = "activity"
        /\ revJob' = [revJob EXCEPT ![t] = RevIdle]
    BY ContractParts DEF PublishActivity, RevTypeOK, RevAt
  <1>1. revJob[t].q.key \in RevKey
    BY <1>0, ContractParts
  <1>2. activity' \subseteq RevKey
    BY <1>0, <1>1 DEF PublishActivity, RevQ
  <1>3. /\ revJob' \in [RevThread -> RevJobRow] /\ revJob'[t] = RevIdle
        /\ \A u \in RevThread : u # t => revJob'[u] = revJob[u]
    BY <1>0, IdleRow, OneRequest
  <1>. QED
    BY <1>0, <1>2, <1>3, IdleRequestFits, PubRests, QuietStep

\* A crash ends the requests and nothing else.
LEMMA RevCrashKeeps ==
    ASSUME ContractInv, RevCrash
    PROVE  ContractInv' /\ ContractGrows
  <1>0. /\ revSends' \in Nat /\ activity' \subseteq RevKey /\ UNCHANGED <<contract, revRecord>>
        /\ revJob' = [t \in RevThread |-> RevIdle] /\ revPub' = [b \in RevPublisher |-> PubIdle]
    BY ContractParts DEF RevCrash, RevTypeOK
  <1>1. revJob' \in [RevThread -> RevJobRow] /\ \A u \in RevThread : revJob'[u] = RevIdle
    BY <1>0, IdleRow
  <1>2. revPub' \in [RevPublisher -> RevPubRow] /\ \A b \in RevPublisher : revPub'[b] = PubIdle
    BY <1>0, PubIdleFits
  <1>. QED
    BY <1>0, <1>1, <1>2, IdleRequestFits, PubIdleFits, QuietStep

-----------------------------------------------------------------------------
(* Steps that write a store.                                                *)

\* The first record of a key stays.
LEMMA PutKeeps ==
    ASSUME ContractInv, NEW t \in RevThread, PutCompleted(t)
    PROVE  ContractInv' /\ ContractGrows
  <1>0. /\ RevTypeOK /\ UNCHANGED <<revPlan, revNode, fact, ask, onBus, tick, activity, revSends, revPub>>
        /\ revJob[t].pc = "record" /\ Does(t, "activity")
    BY ContractParts DEF PutCompleted, RevAt, contract
  <1>1. PICK k \in RevKey : k = revJob[t].q.key
    BY <1>0, ContractParts
  <1>2. PICK status \in Result : status = revJob[t].status
    BY <1>0, RequestShape
  <1>3. /\ revJob' \in [RevThread -> RevJobRow]
        /\ revJob'[t].pc = "activity" /\ revJob'[t].q = revJob[t].q /\ revJob'[t].status = status
        /\ \A u \in RevThread : u # t => revJob'[u] = revJob[u]
    BY <1>0, <1>2, DoesMoves DEF RevSteps
  <1>4. PICK r : r = [hash |-> HashOf(t), status |-> status]
    OBVIOUS
  <1>5. HashOf(t) \in RevCommand \X Nat
    BY <1>0, ContractParts, RequestShape DEF HashOf, RevQ
  <1>6. r \in [hash : RevCommand \X Nat, status : Result] /\ r.status = status
    BY <1>4, <1>5
  <1>7. revRecord' = IF revRecord[k] # {} THEN revRecord ELSE [revRecord EXCEPT ![k] = {r}]
    BY <1>1, <1>2, <1>4 DEF PutCompleted, RevQ
  <1>8. revRecord \in [RevKey -> SUBSET [hash : RevCommand \X Nat, status : Result]]
    BY <1>0 DEF RevTypeOK
  <1>9. /\ revRecord' \in [RevKey -> SUBSET [hash : RevCommand \X Nat, status : Result]]
        /\ \A m \in RevKey : \/ revRecord'[m] = revRecord[m]
                             \/ m = k /\ revRecord[m] = {} /\ revRecord'[m] = {r}
    BY <1>6, <1>7, <1>8
  <1>10. RevTypeOK'
    BY <1>0, <1>3, <1>9 DEF RevTypeOK
  <1>11. ContractGrows
    BY <1>0, <1>9, NodesRest DEF ContractGrows
  <1>12. status = "accepted" => Backed(k, revNode, fact, ask)
    BY <1>0, <1>1, <1>2 DEF ContractInv, RequestFits
  <1>13. AcceptedIsBacked'
    <2>1. SUFFICES ASSUME NEW m \in RevKey, "accepted" \in {x.status : x \in revRecord'[m]}
                   PROVE  Backed(m, revNode, fact, ask)
      BY <1>0 DEF AcceptedIsBacked, StatusesOf
    <2>2. CASE revRecord'[m] = revRecord[m]
      BY <2>1, <2>2 DEF ContractInv, AcceptedIsBacked, StatusesOf
    <2>3. CASE m = k /\ revRecord'[m] = {r}
      BY <1>6, <1>12, <2>1, <2>3
    <2>. QED
      BY <1>9, <2>2, <2>3
  <1>14. TaskIndexUnique' /\ PublishInv' /\ GuidanceScoped'
    BY <1>0, PublishRests DEF ContractInv, TaskIndexUnique, GuidanceScoped
  <1>15. RequestFits(revJob'[t], revPlan', revNode', fact', ask')
    <2>1. revJob[t].q \in RevCommand
      BY <1>0, ContractParts
    <2>. QED
      BY <1>0, <1>1, <1>3, <1>12, <2>1 DEF RequestFits
  <1>. QED
    BY <1>0, <1>3, <1>10, <1>11, <1>13, <1>14, <1>15, ContractStep

\* A sequence with one element more.
LEMMA AppendRow ==
    ASSUME NEW S, NEW s \in Seq(S), NEW x \in S
    PROVE  /\ Append(s, x) \in Seq(S)
           /\ Append(s, x)[Len(s) + 1] = x /\ Len(s) + 1 \in DOMAIN Append(s, x)
           /\ Len(s) + 1 \notin DOMAIN s /\ Len(s) + 1 \in Nat
           /\ \A i \in DOMAIN s : i \in DOMAIN Append(s, x) /\ Append(s, x)[i] = s[i]
           /\ \A i \in DOMAIN Append(s, x) : i \in DOMAIN s \/ i = Len(s) + 1
  <1>1. PICK n \in Nat : n = Len(s)
    OBVIOUS
  <1>2. /\ DOMAIN s = 1..n /\ Append(s, x) \in Seq(S) /\ Len(Append(s, x)) = n + 1
        /\ DOMAIN Append(s, x) = 1..(n + 1) /\ Append(s, x)[n + 1] = x
        /\ \A i \in 1..n : Append(s, x)[i] = s[i]
    BY <1>1
  <1>. QED
    BY <1>1, <1>2

\* What is recorded stays backed while the contract only grows.
LEMMA AcceptedStays ==
    ASSUME ContractInv, RevTypeOK', ContractGrows, UNCHANGED revRecord
    PROVE  AcceptedIsBacked'
  <1>1. \A n \in DOMAIN revNode : revNode[n].version \in Nat
    BY ContractParts
  <1>2. \A n \in DOMAIN revNode' : revNode'[n].version \in Nat
    <2>1. revNode' \in Seq(RevNodeRow)
      BY DEF RevTypeOK
    <2>2. \A n \in DOMAIN revNode' : revNode'[n] \in RevNodeRow
      BY <2>1
    <2>. QED
      BY <2>2 DEF RevNodeRow
  <1>3. \A n \in DOMAIN revNode : /\ n \in DOMAIN revNode' /\ revNode'[n].key = revNode[n].key
                                  /\ revNode[n].version > 1 => revNode'[n].version > 1
    BY <1>1, <1>2 DEF ContractGrows
  <1>4. ASSUME NEW k, Backed(k, revNode, fact, ask) PROVE Backed(k, revNode', fact', ask')
    BY <1>3, <1>4 DEF Backed, ContractGrows
  <1>5. \A k \in RevKey : "accepted" \in StatusesOf(k) => Backed(k, revNode, fact, ask)
    BY DEF ContractInv, AcceptedIsBacked
  <1>. QED
    BY <1>4, <1>5 DEF AcceptedIsBacked, StatusesOf

\* A guidance fact is added.
LEMMA GuidanceKeeps ==
    ASSUME ContractInv, NEW t \in RevThread, GuidanceCreate(t)
    PROVE  ContractInv' /\ ContractGrows
  <1>0. /\ RevTypeOK /\ revJob[t].pc = "guidance" /\ Concludes(t, "accepted")
        /\ UNCHANGED <<revPlan, revNode, ask, onBus, tick, revRecord, activity, revSends, revPub>>
    BY ContractParts DEF GuidanceCreate, RevAt, Writes
  <1>1. PICK q \in RevCommand : q = revJob[t].q
    BY <1>0, ContractParts
  <1>2. ScopeExists(q, revPlan, revNode) /\ ValidCommand(q) /\ q.key \in RevKey
    BY <1>0, <1>1, ContractParts, CommandAssumption DEF ContractInv, RequestFits
  <1>3. q.scope \in Scope
    BY <1>2 DEF ScopeExists, ValidCommand, Scope
  <1>4. PICK f : f = [scope |-> q.scope, plan |-> q.plan, node |-> q.node, key |-> q.key]
    OBVIOUS
  <1>5. f \in FactRow /\ f.scope = q.scope /\ f.plan = q.plan /\ f.node = q.node /\ f.key = q.key
    BY <1>2, <1>3, <1>4 DEF FactRow, ValidCommand
  <1>6. fact' = Append(fact, f) /\ fact \in Seq(FactRow)
    BY <1>0, <1>1, <1>4 DEF GuidanceCreate, RevQ, RevTypeOK
  <1>7. /\ fact' \in Seq(FactRow)
        /\ \A i \in DOMAIN fact : i \in DOMAIN fact' /\ fact'[i] = fact[i]
        /\ \A i \in DOMAIN fact' : i \in DOMAIN fact \/ fact'[i] = f
        /\ \E i \in DOMAIN fact' : fact'[i] = f
    BY <1>5, <1>6, AppendRow
  <1>8. /\ revJob' \in [RevThread -> RevJobRow]
        /\ revJob'[t].pc = "record" /\ revJob'[t].q = q
        /\ \A u \in RevThread : u # t => revJob'[u] = revJob[u]
    BY <1>0, <1>1, ConcludesMoves DEF Result
  <1>9. RevTypeOK'
    BY <1>0, <1>7, <1>8 DEF RevTypeOK
  <1>10. ContractGrows
    BY <1>0, <1>7, NodesRest DEF ContractGrows
  <1>11. TaskIndexUnique' /\ PublishInv'
    BY <1>0, PublishRests DEF ContractInv, TaskIndexUnique
  <1>12. GuidanceScoped'
    <2>1. /\ q.scope = "plan" => q.plan \in DOMAIN revPlan
          /\ q.scope = "task" => q.node \in DOMAIN revNode
      BY <1>2 DEF ScopeExists
    <2>. QED
      BY <1>0, <1>5, <1>7, <2>1 DEF ContractInv, GuidanceScoped
  <1>13. AcceptedIsBacked'
    BY <1>0, <1>9, <1>10, AcceptedStays
  <1>14. Backed(q.key, revNode', fact', ask')
    BY <1>5, <1>7 DEF Backed
  <1>15. RequestFits(revJob'[t], revPlan', revNode', fact', ask')
    BY <1>8, <1>14 DEF RequestFits
  <1>. QED
    BY <1>0, <1>8, <1>9, <1>10, <1>11, <1>12, <1>13, <1>15, ContractStep

\* The first answer of the ASK, or the same again.
LEMMA AnswerKeeps ==
    ASSUME ContractInv, NEW t \in RevThread, ResolveAsk(t)
    PROVE  ContractInv' /\ ContractGrows
  <1>0. /\ RevTypeOK /\ revJob[t].pc = "answer" /\ revJob[t].pc # "idle"
        /\ UNCHANGED <<revPlan, revNode, fact, onBus, tick, revRecord, activity, revSends, revPub>>
    BY ContractParts DEF ResolveAsk, RevAt, Writes
  <1>1. PICK q \in RevCommand : q = revJob[t].q
    BY <1>0, ContractParts
  <1>2. q.key \in RevKey
    BY <1>0, <1>1, ContractParts
  <1>3. PICK status \in Result : /\ Concludes(t, status)
                                 /\ \/ ask \subseteq {q.key} /\ ask' = {q.key}
                                    \/ status = "rejected" /\ UNCHANGED ask
    BY <1>1 DEF ResolveAsk, RevQ, Result
  <1>4. /\ revJob' \in [RevThread -> RevJobRow]
        /\ revJob'[t].pc = "record" /\ revJob'[t].q = q /\ revJob'[t].status = status
        /\ \A u \in RevThread : u # t => revJob'[u] = revJob[u]
    BY <1>0, <1>1, <1>3, ConcludesMoves
  <1>5. ask \subseteq ask' /\ ask' \subseteq RevKey /\ (status = "accepted" => q.key \in ask')
    BY <1>0, <1>2, <1>3 DEF RevTypeOK
  <1>6. RevTypeOK'
    BY <1>0, <1>4, <1>5 DEF RevTypeOK
  <1>7. ContractGrows
    BY <1>0, <1>5, NodesRest DEF ContractGrows
  <1>8. TaskIndexUnique' /\ PublishInv' /\ GuidanceScoped'
    BY <1>0, PublishRests DEF ContractInv, TaskIndexUnique, GuidanceScoped
  <1>9. AcceptedIsBacked'
    BY <1>0, <1>6, <1>7, AcceptedStays
  <1>10. status = "accepted" => Backed(q.key, revNode', fact', ask')
    BY <1>5 DEF Backed
  <1>11. RequestFits(revJob'[t], revPlan', revNode', fact', ask')
    BY <1>4, <1>10 DEF RequestFits
  <1>. QED
    BY <1>0, <1>4, <1>6, <1>7, <1>8, <1>9, <1>11, ContractStep

\* A node is added to a plan that exists, with an index no node of it has.
LEMMA AddedNode ==
    ASSUME ContractInv, NEW t \in RevThread, NEW x \in RevNodeRow,
           revJob[t].pc # "idle", x.key = revJob[t].q.key,
           Concludes(t, "accepted"), revNode' = Append(revNode, x),
           x.plan \in DOMAIN revPlan', revPlan' \in Seq(RevPlanRow),
           \A p \in DOMAIN revPlan : /\ p \in DOMAIN revPlan' /\ revPlan'[p].version >= revPlan[p].version
                                     /\ revPlan'[p].status = revPlan[p].status
                                     /\ p = x.plan => revPlan'[p].version # revPlan[p].version,
           \A p \in DOMAIN revPlan' : p \notin DOMAIN revPlan => revPlan'[p].status # "published",
           x.readiness # "published",
           \A p \in DOMAIN revPlan' : revPlan'[p].touched <= tick', tick' \in Nat,
           \A n \in DOMAIN revNode : revNode[n].plan = x.plan => revNode[n].index # x.index,
           UNCHANGED <<fact, ask, onBus, revRecord, activity, revSends, revPub>>
    PROVE  ContractInv' /\ ContractGrows
  <1>0. RevTypeOK /\ revNode \in Seq(RevNodeRow) /\ onBus \subseteq DOMAIN revNode
    BY ContractParts DEF RevTypeOK
  <1>1. PICK q \in RevCommand : q = revJob[t].q
    BY ContractParts
  <1>2. PICK new : new = Len(revNode) + 1
    OBVIOUS
  <1>3. /\ revNode' \in Seq(RevNodeRow) /\ revNode'[new] = x /\ new \in DOMAIN revNode'
        /\ \A n \in DOMAIN revNode : n \in DOMAIN revNode' /\ revNode'[n] = revNode[n]
        /\ \A n \in DOMAIN revNode' : n \in DOMAIN revNode \/ n = new
        /\ new \notin DOMAIN revNode
    BY <1>0, <1>2, AppendRow
  <1>4. /\ revJob' \in [RevThread -> RevJobRow]
        /\ revJob'[t].pc = "record" /\ revJob'[t].q = q
        /\ \A u \in RevThread : u # t => revJob'[u] = revJob[u]
    BY <1>0, <1>1, ConcludesMoves DEF Result
  <1>5. RevTypeOK'
    <2>1. \A n \in DOMAIN revNode' : revNode'[n].plan \in DOMAIN revPlan'
      BY <1>0, <1>3 DEF RevTypeOK
    <2>. QED
      BY <1>0, <1>3, <1>4, <2>1 DEF RevTypeOK
  <1>6. ContractGrows
    <2>1. \A n \in DOMAIN revNode : revNode[n].version >= revNode[n].version
      BY ContractParts
    <2>2. \A p \in DOMAIN revPlan : revPlan'[p].version = revPlan[p].version =>
            \A n \in DOMAIN revNode' : revNode'[n].plan = p => n \in DOMAIN revNode
      BY <1>3
    <2>. QED
      BY <1>3, <2>1, <2>2 DEF ContractGrows
  <1>7. TaskIndexUnique'
    <2>1. \A n, m \in DOMAIN revNode :
            revNode[n].plan = revNode[m].plan /\ revNode[n].index = revNode[m].index => n = m
      BY DEF ContractInv, TaskIndexUnique
    <2>2. \A n, m \in DOMAIN revNode' :
            revNode'[n].plan = revNode'[m].plan /\ revNode'[n].index = revNode'[m].index => n = m
      BY <1>3, <2>1
    <2>. QED
      BY <2>2 DEF TaskIndexUnique
  <1>8. PublishInv' /\ GuidanceScoped'
    <2>1. GuidanceScoped'
      BY <1>0, <1>3 DEF ContractInv, GuidanceScoped
    <2>2. PublishedOnBus'
      BY <1>3 DEF ContractInv, PublishInv, PublishedOnBus
    <2>3. PublishedPlanShown'
      <3>1. \A n \in onBus : n \in DOMAIN revNode /\ revNode[n].plan \in DOMAIN revPlan
        BY <1>0, ContractParts
      <3>. QED
        BY <1>3, <3>1 DEF ContractInv, PublishInv, PublishedPlanShown
    <2>4. PublishedHasNode'
      <3>1. \A p \in DOMAIN revPlan : revPlan[p].status = "published" =>
              \E n \in DOMAIN revNode : revNode[n].plan = p /\ revNode[n].readiness = "published"
        BY DEF ContractInv, PublishInv, PublishedHasNode, NodesIn
      <3>2. \A p \in DOMAIN revPlan' : revPlan'[p].status = "published" =>
              \E n \in DOMAIN revNode' : revNode'[n].plan = p /\ revNode'[n].readiness = "published"
        <4>1. SUFFICES ASSUME NEW p \in DOMAIN revPlan', revPlan'[p].status = "published"
                       PROVE  \E n \in DOMAIN revNode' : /\ revNode'[n].plan = p
                                                         /\ revNode'[n].readiness = "published"
          OBVIOUS
        <4>2. p \in DOMAIN revPlan
          BY <4>1
        <4>3. revPlan[p].status = "published"
          BY <4>1, <4>2
        <4>4. PICK n \in DOMAIN revNode : revNode[n].plan = p /\ revNode[n].readiness = "published"
          BY <3>1, <4>2, <4>3
        <4>5. n \in DOMAIN revNode' /\ revNode'[n] = revNode[n]
          BY <1>3, <4>4
        <4>. QED
          BY <4>4, <4>5
      <3>. QED
        BY <3>2 DEF PublishedHasNode, NodesIn
    <2>. QED
      BY <2>1, <2>2, <2>3, <2>4 DEF PublishInv
  <1>9. AcceptedIsBacked'
    BY <1>5, <1>6, AcceptedStays
  <1>10. Backed(q.key, revNode', fact', ask')
    BY <1>1, <1>3 DEF Backed
  <1>11. RequestFits(revJob'[t], revPlan', revNode', fact', ask')
    BY <1>4, <1>10 DEF RequestFits
  <1>. QED
    BY <1>4, <1>5, <1>6, <1>7, <1>8, <1>9, <1>11, ContractStep

\* A sequence with one element replaced.
LEMMA ReplaceRow ==
    ASSUME NEW S, NEW s \in Seq(S), NEW i \in DOMAIN s, NEW x \in S
    PROVE  /\ [s EXCEPT ![i] = x] \in Seq(S) /\ DOMAIN [s EXCEPT ![i] = x] = DOMAIN s
           /\ \A k \in DOMAIN s : [s EXCEPT ![i] = x][k] = IF k = i THEN x ELSE s[k]
  <1>1. DOMAIN s = 1..Len(s)
    BY LenProperties
  <1>2. [s EXCEPT ![i] = x] \in Seq(S)
    BY <1>1, ExceptSeq
  <1>. QED
    BY <1>2

\* Touch raises the version of a plan and dates it.
LEMMA TouchShape ==
    ASSUME RevTypeOK, NEW p \in DOMAIN revPlan
    PROVE  /\ Touch(p) \in Seq(RevPlanRow) /\ DOMAIN Touch(p) = DOMAIN revPlan
           /\ \A o \in DOMAIN revPlan : Touch(p)[o].touched <= tick + 1
           /\ Touch(p)[p].status = revPlan[p].status
           /\ Touch(p)[p].version = revPlan[p].version + 1 /\ revPlan[p].version \in Nat
           /\ \A o \in DOMAIN revPlan : o # p => Touch(p)[o] = revPlan[o]
  <1>0. /\ revPlan \in Seq(RevPlanRow) /\ tick \in Nat /\ revPlan[p] \in RevPlanRow
        /\ \A o \in DOMAIN revPlan : revPlan[o].touched \in Nat /\ revPlan[o].touched <= tick
    <2>1. revPlan \in Seq(RevPlanRow) /\ tick \in Nat
      BY DEF RevTypeOK
    <2>2. \A o \in DOMAIN revPlan : revPlan[o] \in RevPlanRow
      BY <2>1
    <2>. QED
      BY <2>1, <2>2 DEF RevTypeOK, RevPlanRow
  <1>2. PICK x : x = [revPlan[p] EXCEPT !.version = @ + 1, !.touched = tick + 1]
    OBVIOUS
  <1>3. x = [status |-> revPlan[p].status, version |-> revPlan[p].version + 1,
             touched |-> tick + 1]
    <2>1. PICK a, b, c : revPlan[p] = [status |-> a, version |-> b, touched |-> c]
      BY <1>0 DEF RevPlanRow
    <2>. QED
      BY <1>2, <2>1
  <1>4. x \in RevPlanRow /\ x.touched = tick + 1
    <2>1. revPlan[p].version + 1 \in Nat /\ tick + 1 \in Nat
          /\ revPlan[p].status \in Editable \cup {"published", "archived"}
      BY <1>0 DEF RevPlanRow
    <2>. QED
      BY <1>3, <2>1 DEF RevPlanRow
  <1>5. Touch(p) = [revPlan EXCEPT ![p] = x]
    BY <1>2, Zenon DEF Touch
  <1>6. Touch(p) \in Seq(RevPlanRow) /\ DOMAIN Touch(p) = DOMAIN revPlan
    BY <1>0, <1>4, <1>5, ReplaceRow
  <1>7. \A o \in DOMAIN revPlan : Touch(p)[o] = IF o = p THEN x ELSE revPlan[o]
    BY <1>0, <1>5
  <1>8. \A o \in DOMAIN revPlan : revPlan[o].touched <= tick + 1
    BY <1>0
  <1>9. tick + 1 <= tick + 1
    BY <1>0
  <1>10. /\ x.status = revPlan[p].status /\ x.version = revPlan[p].version + 1
         /\ revPlan[p].version \in Nat
    BY <1>0, <1>3 DEF RevPlanRow
  <1>. QED
    BY <1>4, <1>6, <1>7, <1>8, <1>9, <1>10

\* add_task_node: the index is still free, or the store refuses.
LEMMA AddKeeps ==
    ASSUME ContractInv, NEW t \in RevThread, AddTaskNode(t)
    PROVE  ContractInv' /\ ContractGrows
  <1>0. /\ RevTypeOK /\ revJob[t].pc = "add" /\ revJob[t].pc # "idle" /\ tick \in Nat
        /\ UNCHANGED <<fact, ask, onBus, revRecord, activity, revSends, revPub>>
    BY ContractParts DEF AddTaskNode, RevAt, Writes
  <1>1. PICK p \in DOMAIN revPlan : p = revJob[t].plan
    BY <1>0 DEF ContractInv, RequestFits
  <1>2. PICK i \in Nat : i = revJob[t].index
    BY <1>0, RequestShape
  <1>3. CASE /\ ~\E n \in NodesIn(p) : revNode[n].index = i
             /\ revNode' = Append(revNode, NewNode(t, p, i)) /\ revPlan' = Touch(p)
             /\ tick' = tick + 1 /\ Concludes(t, "accepted")
    <2>1. PICK k \in RevKey : k = revJob[t].q.key
      BY <1>0, ContractParts
    <2>2. PICK r \in {"draft", "approved"} :
            r = IF revJob[t].q.kind = "execute" THEN "approved" ELSE "draft"
      OBVIOUS
    <2>3. PICK x : x = [plan |-> p, index |-> i, version |-> 1, key |-> k, readiness |-> r]
      OBVIOUS
    <2>4. p \in Nat
      BY <1>0 DEF RevTypeOK
    <2>5. x \in RevNodeRow /\ x.plan = p /\ x.index = i /\ x.key = k /\ x.readiness # "published"
      BY <2>3, <2>4 DEF RevNodeRow
    <2>6. revNode' = Append(revNode, x)
      BY <1>3, <2>1, <2>2, <2>3 DEF NewNode, RevQ
    <2>7. /\ revPlan' \in Seq(RevPlanRow) /\ DOMAIN revPlan' = DOMAIN revPlan
          /\ \A o \in DOMAIN revPlan' : revPlan'[o].touched <= tick'
      BY <1>0, <1>3, TouchShape
    <2>8. \A n \in DOMAIN revNode : revNode[n].plan = x.plan => revNode[n].index # x.index
      BY <1>3, <2>5 DEF NodesIn
    <2>9. tick' \in Nat
      BY <1>0, <1>3
    <2>10. \A o \in DOMAIN revPlan : /\ revPlan'[o].version >= revPlan[o].version
                                     /\ revPlan'[o].status = revPlan[o].status
                                     /\ o = p => revPlan'[o].version # revPlan[o].version
      <3>1. \A o \in DOMAIN revPlan : revPlan[o].version \in Nat
        BY ContractParts
      <3>2. \A v \in Nat : v >= v /\ v + 1 >= v /\ v + 1 # v
        OBVIOUS
      <3>3. /\ revPlan'[p].status = revPlan[p].status /\ revPlan'[p].version = revPlan[p].version + 1
            /\ \A o \in DOMAIN revPlan : o # p => revPlan'[o] = revPlan[o]
        BY <1>0, <1>3, TouchShape
      <3>. QED
        BY <3>1, <3>2, <3>3
    <2>11. x.key = revJob[t].q.key /\ x.plan \in DOMAIN revPlan'
      BY <2>1, <2>5, <2>7
    <2>12. \A o \in DOMAIN revPlan : /\ o \in DOMAIN revPlan' /\ revPlan'[o].version >= revPlan[o].version
                                     /\ revPlan'[o].status = revPlan[o].status
                                     /\ o = x.plan => revPlan'[o].version # revPlan[o].version
      BY <2>5, <2>7, <2>10
    <2>13. \A o \in DOMAIN revPlan' : o \notin DOMAIN revPlan => revPlan'[o].status # "published"
      BY <2>7
    <2>14. Concludes(t, "accepted")
      BY <1>3
    <2>. QED
      BY <1>0, <2>5, <2>6, <2>7, <2>8, <2>9, <2>11, <2>12, <2>13, <2>14, AddedNode
  <1>4. CASE Concludes(t, "rejected") /\ UNCHANGED <<revNode, revPlan, tick>>
    <2>1. Reads
      BY <1>4 DEF AddTaskNode, Reads, Writes, contract
    <2>. QED
      BY <1>0, <1>4, <2>1, RefusalKeeps DEF Result
  <1>5. CASE Concludes(t, "conflict") /\ UNCHANGED <<revNode, revPlan, tick>>
    <2>1. Reads
      BY <1>5 DEF AddTaskNode, Reads, Writes, contract
    <2>. QED
      BY <1>0, <1>5, <2>1, RefusalKeeps DEF Result
  <1>. QED
    BY <1>1, <1>2, <1>3, <1>4, <1>5 DEF AddTaskNode

\* create_plan: a plan of its own for the node.
LEMMA CreateKeeps ==
    ASSUME ContractInv, NEW t \in RevThread, CreatePlan(t)
    PROVE  ContractInv' /\ ContractGrows
  <1>0. /\ RevTypeOK /\ revJob[t].pc = "new_plan" /\ revJob[t].pc # "idle" /\ tick \in Nat
        /\ UNCHANGED <<fact, ask, onBus, revRecord, activity, revSends, revPub>>
        /\ Concludes(t, "accepted") /\ tick' = tick + 1 /\ revPlan \in Seq(RevPlanRow)
    BY ContractParts DEF CreatePlan, RevAt, Writes
  <1>1. PICK k \in RevKey : k = revJob[t].q.key
    BY <1>0, ContractParts
  <1>2. PICK r \in {"draft", "approved"} :
          r = IF revJob[t].q.kind = "execute" THEN "approved" ELSE "draft"
    OBVIOUS
  <1>3. PICK made : made = [status |-> "approved", version |-> 1, touched |-> tick + 1]
    OBVIOUS
  <1>4. made \in RevPlanRow /\ made.touched = tick + 1 /\ made.status # "published"
    BY <1>0, <1>3 DEF RevPlanRow, Editable
  <1>5. revPlan' = Append(revPlan, made)
    BY <1>3 DEF CreatePlan, NewPlan
  <1>6. PICK p : p = Len(revPlan) + 1
    OBVIOUS
  <1>7. /\ revPlan' \in Seq(RevPlanRow) /\ revPlan'[p] = made /\ p \in DOMAIN revPlan'
        /\ p \notin DOMAIN revPlan /\ p \in Nat
        /\ \A o \in DOMAIN revPlan : o \in DOMAIN revPlan' /\ revPlan'[o] = revPlan[o]
        /\ \A o \in DOMAIN revPlan' : o \in DOMAIN revPlan \/ o = p
    BY <1>0, <1>4, <1>5, <1>6, AppendRow
  <1>8. \A o \in DOMAIN revPlan' : revPlan'[o].touched <= tick'
    <2>1. \A o \in DOMAIN revPlan : revPlan[o] \in RevPlanRow
      BY <1>0
    <2>2. \A o \in DOMAIN revPlan : revPlan[o].touched \in Nat /\ revPlan[o].touched <= tick
      BY <1>0, <2>1 DEF RevTypeOK, RevPlanRow
    <2>3. \A o \in DOMAIN revPlan : revPlan[o].touched <= tick + 1
      BY <1>0, <2>2
    <2>4. made.touched <= tick + 1
      BY <1>0, <1>4
    <2>. QED
      BY <1>0, <1>7, <2>3, <2>4
  <1>9. PICK x : x = [plan |-> p, index |-> 1, version |-> 1, key |-> k, readiness |-> r]
    OBVIOUS
  <1>10. x \in RevNodeRow /\ x.plan = p /\ x.key = k /\ x.readiness # "published"
    BY <1>7, <1>9 DEF RevNodeRow
  <1>11. revNode' = Append(revNode, x)
    BY <1>1, <1>2, <1>6, <1>9 DEF CreatePlan, NewNode, RevQ
  <1>12. \A n \in DOMAIN revNode : revNode[n].plan = x.plan => revNode[n].index # x.index
    BY <1>7, <1>10, ContractParts
  <1>13. tick' \in Nat
    BY <1>0
  <1>14. \A o \in DOMAIN revPlan : /\ revPlan'[o].version >= revPlan[o].version
                                    /\ revPlan'[o].status = revPlan[o].status /\ o # p
    <2>1. \A o \in DOMAIN revPlan : revPlan[o].version >= revPlan[o].version
      BY ContractParts
    <2>. QED
      BY <1>7, <2>1
  <1>. QED
    BY <1>0, <1>1, <1>4, <1>7, <1>8, <1>10, <1>11, <1>12, <1>13, <1>14, AddedNode

\* A row of the nodes that is saved with a new readiness and the next version.
LEMMA SavedRow ==
    ASSUME RevTypeOK, NEW n \in DOMAIN revNode,
           NEW r \in {"draft", "approved", "published", "cancelled"}
    PROVE  LET x == Saved(revNode[n], r)
           IN  /\ x \in RevNodeRow /\ x.readiness = r /\ x.version = revNode[n].version + 1
               /\ x.plan = revNode[n].plan /\ x.index = revNode[n].index /\ x.key = revNode[n].key
               /\ x.version > 1 /\ x.version >= revNode[n].version /\ x.version # revNode[n].version
  <1>1. revNode \in Seq(RevNodeRow)
    BY DEF RevTypeOK
  <1>2. revNode[n] \in RevNodeRow
    BY <1>1
  <1>3. PICK a, b, c, d, e : revNode[n] = [plan |-> a, index |-> b, readiness |-> c, version |-> d, key |-> e]
    BY <1>2 DEF RevNodeRow
  <1>4. a \in Nat /\ b \in Nat /\ d \in Nat \ {0} /\ e \in RevKey \cup {"none"}
    BY <1>2, <1>3 DEF RevNodeRow
  <1>5. PICK x : x = Saved(revNode[n], r)
    OBVIOUS
  <1>6. x = [plan |-> a, index |-> b, readiness |-> r, version |-> d + 1, key |-> e]
    <2>1. revNode[n].version = d
      BY <1>3
    <2>2. PICK v : v = d + 1
      OBVIOUS
    <2>3. PICK y : y = [plan |-> a, index |-> b, readiness |-> c, version |-> d, key |-> e]
      OBVIOUS
    <2>4. x = [[y EXCEPT !.readiness = r] EXCEPT !.version = v]
      <3>1. x = [y EXCEPT !.readiness = r, !.version = @ + 1]
        BY <1>3, <1>5, <2>3 DEF Saved
      <3>2. y.version = d
        BY <2>3
      <3>. QED
        BY <2>2, <2>3, <3>1, <3>2
    <2>5. [y EXCEPT !.readiness = r]
            = [plan |-> a, index |-> b, readiness |-> r, version |-> d, key |-> e]
      BY <2>3
    <2>. QED
      BY <2>2, <2>4, <2>5
  <1>7. d + 1 \in Nat \ {0} /\ d + 1 > 1 /\ d + 1 >= d /\ d + 1 # d
    BY <1>4
  <1>8. x \in RevNodeRow
    BY <1>4, <1>6, <1>7 DEF RevNodeRow
  <1>9. /\ revNode[n].plan = a /\ revNode[n].index = b /\ revNode[n].version = d /\ revNode[n].key = e
        /\ x.plan = a /\ x.index = b /\ x.version = d + 1 /\ x.key = e /\ x.readiness = r
    BY <1>3, <1>6
  <1>. QED
    BY <1>5, <1>7, <1>8, <1>9

\* A step that saves one row of the nodes with the next version, and no plan.
LEMMA NodeSaved ==
    ASSUME ContractInv, NEW n \in DOMAIN revNode, NEW r \in {"published", "cancelled"},
           revNode[n].readiness = "published" => r = "published",
           revNode' = [revNode EXCEPT ![n] = Saved(revNode[n], r)],
           UNCHANGED <<revPlan, fact, ask, revRecord, onBus>>
    PROVE  /\ revNode' \in Seq(RevNodeRow) /\ DOMAIN revNode' = DOMAIN revNode
           /\ \A m \in DOMAIN revNode : /\ revNode'[m].plan = revNode[m].plan
                                        /\ m # n => revNode'[m] = revNode[m]
           /\ revNode'[n].readiness = r /\ revNode'[n].version > 1
           /\ ContractGrows /\ TaskIndexUnique' /\ GuidanceScoped'
  <1>0. RevTypeOK /\ revNode \in Seq(RevNodeRow)
    BY ContractParts
  <1>1. PICK x : x = Saved(revNode[n], r)
    OBVIOUS
  <1>2. /\ x \in RevNodeRow /\ x.readiness = r
        /\ x.plan = revNode[n].plan /\ x.index = revNode[n].index /\ x.key = revNode[n].key
        /\ x.version > 1 /\ x.version >= revNode[n].version /\ x.version # revNode[n].version
    BY <1>0, <1>1, SavedRow
  <1>3. /\ revNode' \in Seq(RevNodeRow) /\ DOMAIN revNode' = DOMAIN revNode
        /\ \A m \in DOMAIN revNode : revNode'[m] = IF m = n THEN x ELSE revNode[m]
    BY <1>0, <1>1, <1>2, ReplaceRow
  <1>4. \A m \in DOMAIN revNode : revNode[m].version >= revNode[m].version
    BY ContractParts
  <1>5. ASSUME NEW m \in DOMAIN revNode
        PROVE  /\ revNode'[m].plan = revNode[m].plan /\ revNode'[m].index = revNode[m].index
               /\ revNode'[m].key = revNode[m].key /\ revNode'[m].version >= revNode[m].version
               /\ revNode'[m].version = revNode[m].version => revNode'[m] = revNode[m]
               /\ revNode[m].readiness = "published" => revNode'[m].readiness = "published"
    BY <1>2, <1>3, <1>4
  <1>6. ContractGrows
    <2>1. \A p \in DOMAIN revPlan : revPlan[p].version >= revPlan[p].version
      BY ContractParts
    <2>. QED
      BY <1>3, <1>5, <2>1 DEF ContractGrows
  <1>7. TaskIndexUnique'
    <2>1. \A m, k \in DOMAIN revNode :
            revNode[m].plan = revNode[k].plan /\ revNode[m].index = revNode[k].index => m = k
      BY DEF ContractInv, TaskIndexUnique
    <2>2. \A m, k \in DOMAIN revNode' :
            revNode'[m].plan = revNode'[k].plan /\ revNode'[m].index = revNode'[k].index => m = k
      BY <1>3, <1>5, <2>1
    <2>. QED
      BY <2>2 DEF TaskIndexUnique
  <1>8. GuidanceScoped'
    BY <1>3 DEF ContractInv, GuidanceScoped
  <1>. QED
    BY <1>2, <1>3, <1>5, <1>6, <1>7, <1>8

\* The deletion is saved if the version it read is still the node's.
LEMMA DeleteSaveKeeps ==
    ASSUME ContractInv, NEW t \in RevThread, DeleteSave(t)
    PROVE  ContractInv' /\ ContractGrows
  <1>0. /\ RevTypeOK /\ revJob[t].pc = "delete_save" /\ revJob[t].pc # "idle"
        /\ UNCHANGED <<revPlan, fact, ask, onBus, tick, revRecord, activity, revSends, revPub>>
    BY ContractParts DEF DeleteSave, RevAt, Writes
  <1>1. PICK q \in RevCommand : q = revJob[t].q
    BY <1>0, ContractParts
  <1>2. PICK n \in DOMAIN revNode : n = q.node
    BY <1>0, <1>1 DEF ContractInv, RequestFits
  <1>3. CASE revNode[n].version = revJob[t].version
    <2>1. revNode[n].readiness \notin {"cancelled", "published"} /\ q.kind = "delete"
      BY <1>0, <1>1, <1>2, <1>3 DEF ContractInv, RequestFits
    <2>3. revNode' = [revNode EXCEPT ![n] = Saved(revNode[n], "cancelled")]
      BY <1>1, <1>2, <1>3 DEF DeleteSave, RevQ
    <2>4. /\ revNode' \in Seq(RevNodeRow) /\ DOMAIN revNode' = DOMAIN revNode
          /\ \A m \in DOMAIN revNode : /\ revNode'[m].plan = revNode[m].plan
                                       /\ m # n => revNode'[m] = revNode[m]
          /\ revNode'[n].version > 1 /\ revNode'[n].readiness = "cancelled"
          /\ ContractGrows /\ TaskIndexUnique' /\ GuidanceScoped'
      <3>1. revNode[n].readiness # "published"
        BY <2>1
      <3>. QED
        BY <1>0, <2>3, <3>1, NodeSaved
    <2>5. Concludes(t, "accepted")
      BY <1>1, <1>2, <1>3 DEF DeleteSave, RevQ
    <2>6. /\ revJob' \in [RevThread -> RevJobRow]
          /\ revJob'[t].pc = "record" /\ revJob'[t].q = q
          /\ \A u \in RevThread : u # t => revJob'[u] = revJob[u]
      BY <1>0, <1>1, <2>5, ConcludesMoves DEF Result
    <2>7. RevTypeOK'
      BY <1>0, <2>4, <2>6 DEF RevTypeOK
    <2>8. AcceptedIsBacked'
      BY <1>0, <2>4, <2>7, AcceptedStays
    <2>9. PublishInv'
      <3>1. onBus \subseteq DOMAIN revNode /\ revNode[n].readiness # "published"
        BY <1>0, <2>1 DEF RevTypeOK
      <3>2. PublishedOnBus'
        BY <1>0, <2>4 DEF ContractInv, PublishInv, PublishedOnBus
      <3>3. PublishedPlanShown'
        BY <1>0, <2>4, <3>1 DEF ContractInv, PublishInv, PublishedPlanShown
      <3>4. PublishedHasNode'
        <4>1. \A p \in DOMAIN revPlan : revPlan[p].status = "published" =>
                \E m \in DOMAIN revNode : revNode[m].plan = p /\ revNode[m].readiness = "published"
          BY DEF ContractInv, PublishInv, PublishedHasNode, NodesIn
        <4>2. \A p \in DOMAIN revPlan : revPlan[p].status = "published" =>
                \E m \in DOMAIN revNode' : revNode'[m].plan = p /\ revNode'[m].readiness = "published"
          BY <2>4, <3>1, <4>1
        <4>. QED
          BY <1>0, <4>2 DEF PublishedHasNode, NodesIn
      <3>. QED
        BY <3>2, <3>3, <3>4 DEF PublishInv
    <2>10. Backed(q.key, revNode', fact', ask')
      BY <1>2, <2>1, <2>4 DEF Backed
    <2>11. RequestFits(revJob'[t], revPlan', revNode', fact', ask')
      BY <2>6, <2>10 DEF RequestFits
    <2>. QED
      BY <1>0, <2>4, <2>6, <2>7, <2>8, <2>9, <2>11, ContractStep
  <1>4. CASE revNode[n].version # revJob[t].version
    <2>1. Concludes(t, "conflict") /\ Reads
      BY <1>1, <1>2, <1>4 DEF DeleteSave, RevQ, Reads, Writes, contract
    <2>. QED
      BY <1>0, <2>1, RefusalKeeps DEF Result
  <1>. QED
    BY <1>3, <1>4

\* A plan that is touched and gets a status.
LEMMA MovedPlan ==
    ASSUME RevTypeOK, NEW p \in DOMAIN revPlan, NEW status \in {"published", "archived"},
           revPlan' = [Touch(p) EXCEPT ![p] = [@ EXCEPT !.status = status]], tick' = tick + 1
    PROVE  /\ revPlan' \in Seq(RevPlanRow) /\ DOMAIN revPlan' = DOMAIN revPlan
           /\ \A o \in DOMAIN revPlan' : revPlan'[o].touched <= tick' /\ tick' \in Nat
           /\ revPlan'[p].status = status
           /\ \A o \in DOMAIN revPlan : /\ revPlan'[o].version >= revPlan[o].version
                                        /\ o # p => revPlan'[o] = revPlan[o]
  <1>1. PICK s \in Seq(RevPlanRow) : s = Touch(p)
    BY TouchShape
  <1>2. /\ DOMAIN s = DOMAIN revPlan /\ \A o \in DOMAIN revPlan : s[o].touched <= tick + 1
        /\ s[p].version = revPlan[p].version + 1 /\ revPlan[p].version \in Nat
        /\ \A o \in DOMAIN revPlan : o # p => s[o] = revPlan[o]
    BY <1>1, TouchShape
  <1>3. s[p] \in RevPlanRow
    BY <1>1, <1>2
  <1>4. PICK a, b, c : s[p] = [status |-> a, version |-> b, touched |-> c]
    BY <1>3 DEF RevPlanRow
  <1>5. PICK x : x = [s[p] EXCEPT !.status = status]
    OBVIOUS
  <1>6. x = [status |-> status, version |-> b, touched |-> c]
    BY <1>4, <1>5
  <1>7. x \in RevPlanRow /\ x.touched = s[p].touched /\ x.status = status /\ x.version = s[p].version
    BY <1>3, <1>4, <1>6 DEF RevPlanRow
  <1>8. revPlan' = [s EXCEPT ![p] = x]
    BY <1>1, <1>5
  <1>9. /\ revPlan' \in Seq(RevPlanRow) /\ DOMAIN revPlan' = DOMAIN revPlan
        /\ \A o \in DOMAIN revPlan : revPlan'[o] = IF o = p THEN x ELSE s[o]
    <2>1. p \in DOMAIN s
      BY <1>2
    <2>2. /\ [s EXCEPT ![p] = x] \in Seq(RevPlanRow) /\ DOMAIN [s EXCEPT ![p] = x] = DOMAIN s
          /\ \A o \in DOMAIN s : [s EXCEPT ![p] = x][o] = IF o = p THEN x ELSE s[o]
      BY <1>1, <1>7, <2>1, ReplaceRow, Zenon
    <2>. QED
      BY <1>2, <1>8, <2>2
  <1>10. tick' \in Nat
    BY DEF RevTypeOK
  <1>11. \A o \in DOMAIN revPlan : revPlan'[o].version >= revPlan[o].version
    <2>1. revPlan \in Seq(RevPlanRow)
      BY DEF RevTypeOK
    <2>2. \A o \in DOMAIN revPlan : revPlan[o] \in RevPlanRow
      BY <2>1
    <2>3. \A o \in DOMAIN revPlan : revPlan[o].version \in Nat
      BY <2>2 DEF RevPlanRow
    <2>4. \A v \in Nat : v >= v /\ v + 1 >= v
      OBVIOUS
    <2>. QED
      BY <1>2, <1>7, <1>9, <2>3, <2>4
  <1>12. revPlan'[p] = x /\ \A o \in DOMAIN revPlan : o # p => revPlan'[o] = revPlan[o]
    BY <1>2, <1>9
  <1>13. \A o \in DOMAIN revPlan' : revPlan'[o].touched <= tick'
    <2>1. SUFFICES ASSUME NEW o \in DOMAIN revPlan PROVE revPlan'[o].touched <= tick'
      BY <1>9
    <2>2. s[o].touched <= tick'
      BY <1>2
    <2>3. revPlan'[o].touched = s[o].touched
      BY <1>7, <1>9
    <2>. QED
      BY <2>2, <2>3
  <1>. QED
    BY <1>7, <1>9, <1>10, <1>11, <1>12, <1>13

-----------------------------------------------------------------------------
(* The steps of a publish.                                                  *)

\* A step of one publisher leaves the publishes of the others and the requests.
LEMMA OnePublish ==
    ASSUME RevTypeOK, NEW b \in RevPublisher, NEW k \in RevPubRow,
           revPub' = [revPub EXCEPT ![b] = k]
    PROVE  /\ revPub' \in [RevPublisher -> RevPubRow] /\ revPub'[b] = k
           /\ \A c \in RevPublisher : c # b => revPub'[c] = revPub[c]
  <1>1. revPub \in [RevPublisher -> RevPubRow]
    BY DEF RevTypeOK
  <1>. QED
    BY <1>1

\* A publish that only reads, or ends.
LEMMA QuietPublish ==
    ASSUME ContractInv, NEW b \in RevPublisher, NEW k \in RevPubRow,
           revPub' = [revPub EXCEPT ![b] = k], PublishFits(k, revPlan, revNode, onBus),
           UNCHANGED <<contract, revRecord, activity, revJob, revSends>>
    PROVE  ContractInv' /\ ContractGrows
  <1>1. /\ revPub' \in [RevPublisher -> RevPubRow] /\ revPub'[b] = k
        /\ \A c \in RevPublisher : c # b => revPub'[c] = revPub[c]
    BY ContractParts, OnePublish
  <1>2. activity' \subseteq RevKey /\ revSends' \in Nat /\ revJob' \in [RevThread -> RevJobRow]
    BY DEF ContractInv, RevTypeOK
  <1>. QED
    BY <1>1, <1>2, QuietStep

\* The fields of a publish.
LEMMA PublishShape ==
    ASSUME ContractInv, NEW b \in RevPublisher
    PROVE  /\ revPub[b].plan \in Nat /\ revPub[b].version \in Nat
           /\ revPub[b].status \in Editable \cup {"published", "none"}
           /\ revPub[b].left \in SUBSET NodeVersion
           /\ revPub[b] = [pc |-> revPub[b].pc, plan |-> revPub[b].plan, status |-> revPub[b].status,
                           version |-> revPub[b].version, left |-> revPub[b].left]
  <1>1. revPub[b] \in RevPubRow
    BY ContractParts
  <1>. QED
    BY <1>1 DEF RevPubRow

\* The plan is read.
LEMMA PubReadsKeeps ==
    ASSUME ContractInv, NEW b \in RevPublisher, NEW p \in DOMAIN revPlan, RevReadsPlan(b, p)
    PROVE  ContractInv' /\ ContractGrows
  <1>1. PICK k : k = [pc |-> "nodes", plan |-> p, status |-> revPlan[p].status,
                      version |-> revPlan[p].version, left |-> {}]
    OBVIOUS
  <1>2. PICK v \in Nat : v = revPlan[p].version
    BY ContractParts
  <1>3. p \in Nat /\ revPlan[p].status \in Editable \cup {"published"}
    <2>1. revPlan[p] \in RevPlanRow /\ revPlan \in Seq(RevPlanRow)
      BY ContractParts
    <2>2. revPlan[p].status \in Editable \cup {"published", "archived"}
      BY <2>1 DEF RevPlanRow
    <2>. QED
      BY <2>1, <2>2 DEF RevReadsPlan
  <1>4. k \in RevPubRow /\ k.pc = "nodes" /\ k.plan = p /\ k.version = v /\ k.left = {}
    BY <1>1, <1>2, <1>3 DEF RevPubRow
  <1>5. v >= v
    BY <1>2
  <1>6. PublishFits(k, revPlan, revNode, onBus)
    BY <1>2, <1>4, <1>5 DEF PublishFits
  <1>. QED
    BY <1>1, <1>4, <1>6, QuietPublish DEF RevReadsPlan

\* The nodes are listed: a published plan has a published node, and so is not
\* published again.
LEMMA PubListsKeeps ==
    ASSUME ContractInv, NEW b \in RevPublisher, RevListsNodes(b)
    PROVE  ContractInv' /\ ContractGrows
  <1>1. PICK j : j = revPub[b]
    OBVIOUS
  <1>2. /\ j.pc = "nodes" /\ j.plan \in DOMAIN revPlan /\ revPlan[j.plan].version >= j.version
    BY <1>1 DEF ContractInv, PublishFits, RevListsNodes
  <1>3. PICK a, c, d, e, g : j = [pc |-> a, plan |-> c, status |-> d, version |-> e, left |-> g]
    BY <1>1, PublishShape
  <1>4. /\ j.plan \in Nat /\ j.version \in Nat /\ j.status \in Editable \cup {"published", "none"}
        /\ j.left \in SUBSET NodeVersion
    BY <1>1, PublishShape
  <1>5. PICK nodes : nodes = NodesIn(j.plan)
    OBVIOUS
  <1>6. PICK done : done = {n \in nodes : revNode[n].readiness = "published"}
    OBVIOUS
  <1>7. PICK k : k = Listed(j, nodes, done)
    OBVIOUS
  <1>8. revPub' = [revPub EXCEPT ![b] = k] /\ UNCHANGED <<contract, revRecord, activity, revJob, revSends>>
    BY <1>1, <1>5, <1>6, <1>7 DEF RevListsNodes
  <1>9. CASE nodes # {} /\ done = {}
    <2>1. PICK left : left = {[node |-> n, version |-> revNode[n].version] : n \in nodes}
      OBVIOUS
    <2>2. k = [pc |-> "bus", plan |-> j.plan, status |-> j.status, version |-> j.version, left |-> left]
      <3>1. k = [j EXCEPT !.pc = "bus", !.left = left]
        BY <1>7, <1>9, <2>1 DEF Listed
      <3>. QED
        BY <1>3, <3>1
    <2>3. \A n \in nodes : n \in DOMAIN revNode /\ revNode[n].plan = j.plan /\ n \in Nat
      BY <1>5, ContractParts DEF NodesIn
    <2>4. left \in SUBSET NodeVersion
      <3>1. \A n \in nodes : revNode[n].version \in Nat
        BY <2>3, ContractParts
      <3>. QED
        BY <2>1, <2>3, <3>1 DEF NodeVersion
    <2>5. \A x \in left : x.node \in nodes
      BY <2>1
    <2>6. \A n \in nodes : \E x \in left : x.node = n
      <3>1. SUFFICES ASSUME NEW n \in nodes PROVE \E x \in left : x.node = n
        OBVIOUS
      <3>2. PICK x : x = [node |-> n, version |-> revNode[n].version]
        OBVIOUS
      <3>3. x \in left /\ x.node = n
        BY <2>1, <3>2
      <3>. QED
        BY <3>3
    <2>7. k \in RevPubRow
      BY <1>4, <2>2, <2>4 DEF RevPubRow
    <2>8. k.pc = "bus" /\ k.plan = j.plan /\ k.version = j.version /\ k.left = left
      BY <2>2
    <2>9. revPlan[j.plan].status # "published"
      BY <1>2, <1>5, <1>6, <1>9 DEF ContractInv, PublishInv, PublishedHasNode
    <2>10. \A n \in DOMAIN revNode : revNode[n].plan = j.plan => n \in nodes
      BY <1>5 DEF NodesIn
    <2>11. PublishFits(k, revPlan, revNode, onBus)
      BY <1>2, <2>3, <2>5, <2>6, <2>8, <2>9, <2>10 DEF PublishFits
    <2>. QED
      BY <1>8, <2>7, <2>11, QuietPublish
  <1>10. CASE nodes # {} /\ done # {} /\ done = nodes /\ j.status # "published"
    <2>1. k = [pc |-> "plan", plan |-> j.plan, status |-> j.status, version |-> j.version, left |-> j.left]
      <3>1. k = [j EXCEPT !.pc = "plan"]
        BY <1>7, <1>10 DEF Listed
      <3>. QED
        BY <1>3, <3>1
    <2>2. k \in RevPubRow
      BY <1>4, <2>1 DEF RevPubRow
    <2>3. j.left = {}
      BY <1>1, <1>2 DEF ContractInv, PublishFits
    <2>4. k.pc = "plan" /\ k.plan = j.plan /\ k.version = j.version /\ k.left = {}
      BY <2>1, <2>3
    <2>5. \A n \in DOMAIN revNode : revNode[n].plan = j.plan => revNode[n].readiness = "published"
      BY <1>5, <1>6, <1>10 DEF NodesIn
    <2>6. \E n \in DOMAIN revNode : revNode[n].plan = j.plan /\ revNode[n].readiness = "published"
      BY <1>5, <1>10, <2>5 DEF NodesIn
    <2>7. PublishFits(k, revPlan, revNode, onBus)
      BY <1>2, <2>4, <2>5, <2>6 DEF PublishFits
    <2>. QED
      BY <1>8, <2>2, <2>7, QuietPublish
  <1>11. CASE /\ ~(nodes # {} /\ done = {})
              /\ ~(nodes # {} /\ done # {} /\ done = nodes /\ j.status # "published")
    <2>1. k = PubIdle
      BY <1>7, <1>11 DEF Listed
    <2>. QED
      BY <1>8, <2>1, PubIdleFits, QuietPublish
  <1>. QED
    BY <1>9, <1>10, <1>11

\* Tasks come on the bus, and the rest of the contract stays.
LEMMA PubBusKeeps ==
    ASSUME ContractInv, NEW b \in RevPublisher, RevPublishes(b)
    PROVE  ContractInv' /\ ContractGrows
  <1>0. /\ RevTypeOK /\ revPub[b].pc = "bus"
        /\ UNCHANGED <<revPlan, revNode, fact, ask, tick, revRecord, activity, revJob, revSends>>
    BY ContractParts DEF RevPublishes
  <1>1. PICK j : j = revPub[b]
    OBVIOUS
  <1>2. PICK all : all = {x.node : x \in j.left}
    OBVIOUS
  <1>3. PICK some \in SUBSET all :
          /\ onBus' = onBus \cup some
          /\ revPub' = [revPub EXCEPT ![b] = IF some = all THEN [j EXCEPT !.pc = "save"] ELSE PubIdle]
    BY <1>1, <1>2 DEF RevPublishes
  <1>4. PublishFits(j, revPlan, revNode, onBus) /\ j.pc = "bus"
    BY <1>0, <1>1, ContractParts
  <1>5. PICK k : k = IF some = all THEN [j EXCEPT !.pc = "save"] ELSE PubIdle
    OBVIOUS
  <1>6. revPub' = [revPub EXCEPT ![b] = k]
    BY <1>3, <1>5
  <1>7. k \in RevPubRow /\ PublishFits(k, revPlan, revNode, onBus')
    <2>1. CASE some = all
      <3>1. PICK a, c, d, e, g : j = [pc |-> a, plan |-> c, status |-> d, version |-> e, left |-> g]
        BY <1>1, PublishShape
      <3>2. /\ j.plan \in Nat /\ j.version \in Nat /\ j.status \in Editable \cup {"published", "none"}
            /\ j.left \in SUBSET NodeVersion
        BY <1>1, PublishShape
      <3>3. k = [pc |-> "save", plan |-> j.plan, status |-> j.status, version |-> j.version, left |-> j.left]
        BY <1>5, <2>1, <3>1
      <3>4. k \in RevPubRow
        BY <3>2, <3>3 DEF RevPubRow
      <3>5. k.pc = "save" /\ k.plan = j.plan /\ k.version = j.version /\ k.left = j.left
        BY <3>3
      <3>6. \A x \in j.left : x.node \in onBus'
        BY <1>2, <1>3, <2>1
      <3>7. PublishFits(k, revPlan, revNode, onBus')
        BY <1>4, <3>5, <3>6 DEF PublishFits
      <3>. QED
        BY <3>4, <3>7
    <2>2. CASE some # all
      BY <1>5, <2>2, PubIdleFits
    <2>. QED
      BY <2>1, <2>2
  <1>8. /\ revPub' \in [RevPublisher -> RevPubRow] /\ revPub'[b] = k
        /\ \A c \in RevPublisher : c # b => revPub'[c] = revPub[c]
    BY <1>0, <1>6, <1>7, OnePublish
  <1>9. \A n \in some : /\ n \in DOMAIN revNode /\ revNode[n].plan = j.plan
                        /\ revPlan[j.plan].status = "published" => revNode[n].readiness = "published"
    BY <1>2, <1>4 DEF PublishFits
  <1>10. RevTypeOK'
    <2>1. onBus' \subseteq DOMAIN revNode
      BY <1>0, <1>3, <1>9 DEF RevTypeOK
    <2>. QED
      BY <1>0, <1>8, <2>1 DEF RevTypeOK
  <1>11. ContractGrows
    BY <1>0, <1>3, NodesRest DEF ContractGrows
  <1>12. TaskIndexUnique' /\ GuidanceScoped'
    BY <1>0 DEF ContractInv, TaskIndexUnique, GuidanceScoped
  <1>13. PublishInv'
    <2>1. PublishedOnBus' /\ PublishedHasNode'
      BY <1>0, <1>3 DEF ContractInv, PublishInv, PublishedOnBus, PublishedHasNode, NodesIn
    <2>2. PublishedPlanShown'
      <3>1. \A n \in onBus : revPlan[revNode[n].plan].status = "published" => revNode[n].readiness = "published"
        BY DEF ContractInv, PublishInv, PublishedPlanShown
      <3>2. \A n \in onBus' : revPlan[revNode[n].plan].status = "published" => revNode[n].readiness = "published"
        BY <1>3, <1>9, <3>1
      <3>. QED
        BY <1>0, <3>2 DEF PublishedPlanShown
    <2>. QED
      BY <2>1, <2>2 DEF PublishInv
  <1>14. AcceptedIsBacked'
    BY <1>0, <1>10, <1>11, AcceptedStays
  <1>15. \A c \in RevPublisher : \/ revPub'[c] = revPub[c]
                                 \/ PublishFits(revPub'[c], revPlan', revNode', onBus')
    BY <1>0, <1>7, <1>8
  <1>. QED
    BY <1>0, <1>10, <1>11, <1>12, <1>13, <1>14, <1>15, ContractStep

\* A node is saved as published, or the publish has lost it and ends.
LEMMA PubNodeKeeps ==
    ASSUME ContractInv, NEW b \in RevPublisher, RevSavesNode(b)
    PROVE  ContractInv' /\ ContractGrows
  <1>0. /\ RevTypeOK /\ revPub[b].pc = "save"
        /\ UNCHANGED <<revPlan, fact, ask, onBus, tick, revRecord, activity, revJob, revSends>>
    BY ContractParts DEF RevSavesNode
  <1>1. PICK j : j = revPub[b]
    OBVIOUS
  <1>2. PublishFits(j, revPlan, revNode, onBus) /\ j.pc = "save"
    BY <1>0, <1>1, ContractParts
  <1>3. ASSUME NEW x \in j.left,
               revNode' = [revNode EXCEPT ![x.node] = Saved(revNode[x.node], "published")],
               revPub' = [revPub EXCEPT ![b] =
                            [j EXCEPT !.pc = IF j.left = {x} THEN "plan" ELSE "save",
                                      !.left = j.left \ {x}]]
        PROVE  ContractInv' /\ ContractGrows
    <2>1. PICK n \in DOMAIN revNode : n = x.node /\ revNode[n].plan = j.plan /\ n \in onBus
      BY <1>2 DEF PublishFits
    <2>2. /\ revNode' \in Seq(RevNodeRow) /\ DOMAIN revNode' = DOMAIN revNode
          /\ \A m \in DOMAIN revNode : /\ revNode'[m].plan = revNode[m].plan
                                       /\ m # n => revNode'[m] = revNode[m]
          /\ revNode'[n].readiness = "published" /\ revNode'[n].version > 1
          /\ ContractGrows /\ TaskIndexUnique' /\ GuidanceScoped'
      BY <1>0, <1>3, <2>1, NodeSaved
    <2>3. PICK pc \in {"plan", "save"} : pc = IF j.left = {x} THEN "plan" ELSE "save"
      OBVIOUS
    <2>4. PICK left : left = j.left \ {x}
      OBVIOUS
    <2>5. PICK k : k = [j EXCEPT !.pc = pc, !.left = left]
      OBVIOUS
    <2>6. PICK a, c, d, e, g : j = [pc |-> a, plan |-> c, status |-> d, version |-> e, left |-> g]
      BY <1>1, PublishShape
    <2>7. /\ j.plan \in Nat /\ j.version \in Nat /\ j.status \in Editable \cup {"published", "none"}
          /\ j.left \in SUBSET NodeVersion
      BY <1>1, PublishShape
    <2>8. k = [pc |-> pc, plan |-> j.plan, status |-> j.status, version |-> j.version, left |-> left]
      BY <2>5, <2>6
    <2>9. k \in RevPubRow
      BY <2>3, <2>4, <2>7, <2>8 DEF RevPubRow
    <2>10. k.pc = pc /\ k.plan = j.plan /\ k.version = j.version /\ k.left = left
      BY <2>8
    <2>11. revPub' = [revPub EXCEPT ![b] = k]
      BY <1>3, <2>3, <2>4, <2>5
    <2>12. /\ revPub' \in [RevPublisher -> RevPubRow] /\ revPub'[b] = k
           /\ \A c2 \in RevPublisher : c2 # b => revPub'[c2] = revPub[c2]
      BY <1>0, <2>9, <2>11, OnePublish
    <2>13. PublishFits(k, revPlan, revNode', onBus)
      <3>1. j.plan \in DOMAIN revPlan /\ revPlan[j.plan].version >= j.version
        BY <1>2 DEF PublishFits
      <3>2. \A y \in left : /\ y.node \in DOMAIN revNode' /\ revNode'[y.node].plan = j.plan
                            /\ y.node \in onBus
        BY <1>2, <2>2, <2>4 DEF PublishFits
      <3>3. ASSUME revPlan[j.plan].version = j.version, NEW m \in DOMAIN revNode',
                   revNode'[m].plan = j.plan, revNode'[m].readiness # "published"
            PROVE  \E y \in left : y.node = m
        <4>1. m # n /\ m \in DOMAIN revNode /\ revNode'[m] = revNode[m]
          BY <2>2, <3>3
        <4>2. PICK y \in j.left : y.node = m
          BY <1>2, <3>3, <4>1 DEF PublishFits
        <4>3. y # x
          BY <2>1, <4>1, <4>2
        <4>. QED
          BY <2>4, <4>2, <4>3
      <3>4. revPlan[j.plan].status = "published" =>
              \A y \in left : revNode'[y.node].readiness = "published"
        BY <1>2, <2>2, <2>4 DEF PublishFits
      <3>5. pc = "plan" => /\ left = {}
                           /\ \E m \in DOMAIN revNode' : /\ revNode'[m].plan = j.plan
                                                         /\ revNode'[m].readiness = "published"
        BY <2>1, <2>2, <2>3, <2>4
      <3>. QED
        BY <2>3, <2>10, <3>1, <3>2, <3>3, <3>4, <3>5 DEF PublishFits
    <2>14. RevTypeOK'
      <3>1. \A m \in DOMAIN revNode' : revNode'[m].plan \in DOMAIN revPlan
        BY <2>2, ContractParts
      <3>. QED
        BY <1>0, <2>2, <2>12, <3>1 DEF RevTypeOK
    <2>15. AcceptedIsBacked'
      BY <1>0, <2>2, <2>14, AcceptedStays
    <2>16. PublishInv'
      <3>1. PublishedOnBus'
        BY <1>0, <2>1, <2>2 DEF ContractInv, PublishInv, PublishedOnBus
      <3>2. PublishedPlanShown'
        <4>1. onBus \subseteq DOMAIN revNode
          BY <1>0 DEF RevTypeOK
        <4>. QED
          BY <1>0, <2>2, <4>1 DEF ContractInv, PublishInv, PublishedPlanShown
      <3>3. PublishedHasNode'
        <4>1. \A p \in DOMAIN revPlan : revPlan[p].status = "published" =>
                \E m \in DOMAIN revNode : revNode[m].plan = p /\ revNode[m].readiness = "published"
          BY DEF ContractInv, PublishInv, PublishedHasNode, NodesIn
        <4>2. \A p \in DOMAIN revPlan : revPlan[p].status = "published" =>
                \E m \in DOMAIN revNode' : revNode'[m].plan = p /\ revNode'[m].readiness = "published"
          BY <2>2, <4>1
        <4>. QED
          BY <1>0, <4>2 DEF PublishedHasNode, NodesIn
      <3>. QED
        BY <3>1, <3>2, <3>3 DEF PublishInv
    <2>17. \A c2 \in RevPublisher : \/ revPub'[c2] = revPub[c2]
                                    \/ PublishFits(revPub'[c2], revPlan', revNode', onBus')
      BY <1>0, <2>12, <2>13
    <2>. QED
      BY <1>0, <2>2, <2>14, <2>15, <2>16, <2>17, ContractStep
  <1>4. CASE revPub' = [revPub EXCEPT ![b] = PubIdle] /\ UNCHANGED revNode
    <2>1. UNCHANGED <<contract, revRecord, activity, revJob, revSends>>
      BY <1>0, <1>4 DEF contract
    <2>. QED
      BY <1>4, <2>1, PubIdleFits, QuietPublish
  <1>. QED
    BY <1>1, <1>3, <1>4 DEF RevSavesNode

\* The plan is saved as published while it has the version that was read: every
\* node of it is then published.
LEMMA PubPlanKeeps ==
    ASSUME ContractInv, NEW b \in RevPublisher, RevSavesPlan(b)
    PROVE  ContractInv' /\ ContractGrows
  <1>0. /\ RevTypeOK /\ revPub[b].pc = "plan" /\ revPub' = [revPub EXCEPT ![b] = PubIdle]
        /\ UNCHANGED <<revNode, fact, ask, onBus, revRecord, activity, revJob, revSends>>
    BY ContractParts DEF RevSavesPlan
  <1>1. PICK p \in DOMAIN revPlan : p = revPub[b].plan
    BY <1>0 DEF ContractInv, PublishFits
  <1>2. CASE /\ revPlan[p].version = revPub[b].version
             /\ revPlan' = MarkedPublished(p) /\ tick' = tick + 1
    <2>1. /\ \A n \in DOMAIN revNode : revNode[n].plan = p => revNode[n].readiness = "published"
          /\ \E n \in DOMAIN revNode : revNode[n].plan = p /\ revNode[n].readiness = "published"
      BY <1>0, <1>1, <1>2 DEF ContractInv, PublishFits
    <2>2. revPlan' = [Touch(p) EXCEPT ![p] = [@ EXCEPT !.status = "published"]]
      BY <1>2 DEF MarkedPublished
    <2>3. /\ revPlan' \in Seq(RevPlanRow) /\ DOMAIN revPlan' = DOMAIN revPlan
          /\ \A o \in DOMAIN revPlan' : revPlan'[o].touched <= tick'
          /\ \A o \in DOMAIN revPlan : /\ revPlan'[o].version >= revPlan[o].version
                                       /\ o # p => revPlan'[o] = revPlan[o]
      BY <1>0, <1>2, <2>2, MovedPlan
    <2>4. /\ revPub' \in [RevPublisher -> RevPubRow] /\ revPub'[b] = PubIdle
          /\ \A c \in RevPublisher : c # b => revPub'[c] = revPub[c]
      BY <1>0, PubIdleFits, OnePublish
    <2>5. RevTypeOK'
      <3>1. tick' \in Nat
        BY <1>0, <1>2 DEF RevTypeOK
      <3>. QED
        BY <1>0, <2>3, <2>4, <3>1 DEF RevTypeOK
    <2>6. ContractGrows
      <3>1. \A n \in DOMAIN revNode : revNode[n].version >= revNode[n].version
        BY ContractParts
      <3>2. \A n \in NodesIn(p) : revNode[n].readiness = "published"
        BY <2>1 DEF NodesIn
      <3>3. \A o \in DOMAIN revPlan :
              revPlan'[o].status = "published" /\ revPlan[o].status # "published" => o = p
        BY <2>3
      <3>. QED
        BY <1>0, <2>3, <3>1, <3>2, <3>3 DEF ContractGrows
    <2>7. TaskIndexUnique' /\ GuidanceScoped'
      BY <1>0, <2>3 DEF ContractInv, TaskIndexUnique, GuidanceScoped
    <2>8. PublishInv'
      <3>1. PublishedOnBus'
        BY <1>0 DEF ContractInv, PublishInv, PublishedOnBus
      <3>2. PublishedPlanShown'
        <4>1. \A n \in onBus : n \in DOMAIN revNode /\ revNode[n].plan \in DOMAIN revPlan
          BY <1>0, ContractParts DEF RevTypeOK
        <4>2. \A n \in onBus : revPlan[revNode[n].plan].status = "published" => revNode[n].readiness = "published"
          BY DEF ContractInv, PublishInv, PublishedPlanShown
        <4>3. \A n \in onBus : revPlan'[revNode[n].plan].status = "published" => revNode[n].readiness = "published"
          BY <2>1, <2>3, <4>1, <4>2
        <4>. QED
          BY <1>0, <4>3 DEF PublishedPlanShown
      <3>3. PublishedHasNode'
        <4>1. \A o \in DOMAIN revPlan : revPlan[o].status = "published" =>
                \E m \in DOMAIN revNode : revNode[m].plan = o /\ revNode[m].readiness = "published"
          BY DEF ContractInv, PublishInv, PublishedHasNode, NodesIn
        <4>2. \A o \in DOMAIN revPlan' : revPlan'[o].status = "published" =>
                \E m \in DOMAIN revNode : revNode[m].plan = o /\ revNode[m].readiness = "published"
          BY <2>1, <2>3, <4>1
        <4>. QED
          BY <1>0, <4>2 DEF PublishedHasNode, NodesIn
      <3>. QED
        BY <3>1, <3>2, <3>3 DEF PublishInv
    <2>9. AcceptedIsBacked'
      BY <1>0, <2>5, <2>6, AcceptedStays
    <2>10. \A c \in RevPublisher : \/ revPub'[c] = revPub[c]
                                   \/ PublishFits(revPub'[c], revPlan', revNode', onBus')
      BY <2>4, PubIdleFits
    <2>. QED
      BY <1>0, <2>5, <2>6, <2>7, <2>8, <2>9, <2>10, ContractStep
  <1>3. CASE UNCHANGED <<revPlan, tick>>
    <2>1. UNCHANGED <<contract, revRecord, activity, revJob, revSends>>
      BY <1>0, <1>3 DEF contract
    <2>. QED
      BY <1>0, <2>1, PubIdleFits, QuietPublish
  <1>. QED
    BY <1>1, <1>2, <1>3 DEF RevSavesPlan

\* A plan is archived.
LEMMA ArchiveKeeps ==
    ASSUME ContractInv, NEW p \in DOMAIN revPlan, ArchivePlan(p)
    PROVE  ContractInv' /\ ContractGrows
  <1>0. /\ RevTypeOK
        /\ UNCHANGED <<revNode, fact, ask, onBus, revRecord, activity, revJob, revPub, revSends>>
        /\ tick' = tick + 1
        /\ revPlan' = [Touch(p) EXCEPT ![p] = [@ EXCEPT !.status = "archived"]]
    BY ContractParts DEF ArchivePlan
  <1>1. /\ revPlan' \in Seq(RevPlanRow) /\ DOMAIN revPlan' = DOMAIN revPlan
        /\ \A o \in DOMAIN revPlan' : revPlan'[o].touched <= tick'
        /\ revPlan'[p].status = "archived"
        /\ \A o \in DOMAIN revPlan : /\ revPlan'[o].version >= revPlan[o].version
                                     /\ o # p => revPlan'[o] = revPlan[o]
    BY <1>0, MovedPlan
  <1>2. tick' \in Nat
    BY <1>0 DEF RevTypeOK
  <1>3. RevTypeOK'
    BY <1>0, <1>1, <1>2 DEF RevTypeOK
  <1>a. \A o \in DOMAIN revPlan : revPlan'[o].status = "published" => revPlan[o].status = "published"
    BY <1>1
  <1>4. ContractGrows
    <2>1. \A n \in DOMAIN revNode : revNode[n].version >= revNode[n].version
      BY ContractParts
    <2>. QED
      BY <1>0, <1>1, <1>a, <2>1 DEF ContractGrows
  <1>5. TaskIndexUnique' /\ PublishInv' /\ GuidanceScoped'
    <2>1. TaskIndexUnique' /\ GuidanceScoped' /\ PublishedOnBus'
      BY <1>0, <1>1 DEF ContractInv, TaskIndexUnique, GuidanceScoped, PublishInv, PublishedOnBus
    <2>2. PublishedPlanShown'
      <3>1. \A n \in onBus : n \in DOMAIN revNode /\ revNode[n].plan \in DOMAIN revPlan
        BY <1>0, ContractParts DEF RevTypeOK
      <3>. QED
        BY <1>0, <1>a, <3>1 DEF ContractInv, PublishInv, PublishedPlanShown
    <2>3. PublishedHasNode'
      BY <1>0, <1>1, <1>a DEF ContractInv, PublishInv, PublishedHasNode, NodesIn
    <2>. QED
      BY <2>1, <2>2, <2>3 DEF PublishInv
  <1>6. AcceptedIsBacked'
    BY <1>0, <1>3, <1>4, AcceptedStays
  <1>. QED
    BY <1>0, <1>3, <1>4, <1>5, <1>6, ContractStep

-----------------------------------------------------------------------------
(* The contract is consistent and loses nothing.                            *)

\* The session starts with one plan of one node.
LEMMA RevInitKeeps ==
    ASSUME RevInit
    PROVE  ContractInv
  <1>1. PICK x : x = [status |-> "approved", version |-> 1, touched |-> 0]
    OBVIOUS
  <1>2. PICK y : y = [plan |-> 1, index |-> 1, readiness |-> "approved", version |-> 1, key |-> "none"]
    OBVIOUS
  <1>3. x \in RevPlanRow /\ x.touched = 0
    BY <1>1 DEF RevPlanRow, Editable
  <1>4. y \in RevNodeRow /\ y.plan = 1
    BY <1>2 DEF RevNodeRow
  <1>5. revPlan = <<x>> /\ revNode = <<y>> /\ fact = <<>>
    BY <1>1, <1>2 DEF RevInit
  <1>6. revPlan \in Seq(RevPlanRow) /\ DOMAIN revPlan = {1} /\ revPlan[1] = x
    BY <1>3, <1>5
  <1>7. revNode \in Seq(RevNodeRow) /\ DOMAIN revNode = {1} /\ revNode[1] = y
    BY <1>4, <1>5
  <1>8. fact \in Seq(FactRow) /\ DOMAIN fact = {}
    BY <1>5, EmptySeq
  <1>9. revJob \in [RevThread -> RevJobRow] /\ \A t \in RevThread : revJob[t] = RevIdle
    BY IdleRow DEF RevInit
  <1>13. revPub \in [RevPublisher -> RevPubRow] /\ \A b \in RevPublisher : revPub[b] = PubIdle
    BY PubIdleFits DEF RevInit
  <1>10. RevTypeOK
    BY <1>3, <1>4, <1>6, <1>7, <1>8, <1>9, <1>13 DEF RevInit, RevTypeOK
  <1>11. TaskIndexUnique /\ PublishInv /\ GuidanceScoped
    <2>1. x.status # "published" /\ y.readiness # "published"
      BY <1>1, <1>2
    <2>. QED
      BY <1>6, <1>7, <1>8, <2>1 DEF RevInit, TaskIndexUnique, PublishInv, PublishedOnBus,
         PublishedPlanShown, PublishedHasNode, GuidanceScoped
  <1>12. AcceptedIsBacked
    BY DEF RevInit, AcceptedIsBacked, StatusesOf
  <1>. QED
    BY <1>9, <1>10, <1>11, <1>12, <1>13, IdleRequestFits, PubIdleFits DEF ContractInv

\* Every step keeps the invariant and takes nothing back.
LEMMA ContractNext ==
    ASSUME ContractInv, RevNext
    PROVE  ContractInv' /\ ContractGrows
  <1>1. ASSUME NEW t \in RevThread, RevStep(t) PROVE ContractInv' /\ ContractGrows
    <2>1. CASE Lookup(t)
      BY <2>1, LookupKeeps
    <2>2. CASE PutCompleted(t)
      BY <2>2, PutKeeps
    <2>3. CASE PublishActivity(t)
      BY <2>3, ActivityKeeps
    <2>4. CASE GuidanceScope(t)
      BY <2>4, ScopeKeeps
    <2>5. CASE GuidanceCreate(t)
      BY <2>5, GuidanceKeeps
    <2>6. CASE Target(t)
      BY <2>6, TargetKeeps
    <2>7. CASE ListNodes(t)
      BY <2>7, ListKeeps
    <2>8. CASE AddTaskNode(t)
      BY <2>8, AddKeeps
    <2>9. CASE CreatePlan(t)
      BY <2>9, CreateKeeps
    <2>10. CASE DeleteRead(t)
      BY <2>10, DeleteReadKeeps
    <2>11. CASE DeleteSave(t)
      BY <2>11, DeleteSaveKeeps
    <2>12. CASE ResolveAsk(t)
      BY <2>12, AnswerKeeps
    <2>. QED
      BY <1>1, <2>1, <2>2, <2>3, <2>4, <2>5, <2>6, <2>7, <2>8, <2>9, <2>10, <2>11, <2>12
         DEF RevStep
  <1>2. ASSUME NEW t \in RevThread, NEW q \in RevCommand, NEW expected \in Expected(q),
               Send(t, q, expected)
        PROVE  ContractInv' /\ ContractGrows
    BY <1>2, SendKeeps
  <1>3. ASSUME NEW p \in DOMAIN revPlan, ArchivePlan(p)
        PROVE  ContractInv' /\ ContractGrows
    BY <1>3, ArchiveKeeps
  <1>5. ASSUME NEW b \in RevPublisher, NEW p \in DOMAIN revPlan, RevReadsPlan(b, p)
        PROVE  ContractInv' /\ ContractGrows
    BY <1>5, PubReadsKeeps
  <1>6. ASSUME NEW b \in RevPublisher, RevPublishStep(b)
        PROVE  ContractInv' /\ ContractGrows
    BY <1>6, PubListsKeeps, PubBusKeeps, PubNodeKeeps, PubPlanKeeps DEF RevPublishStep
  <1>4. CASE RevCrash
    BY <1>4, RevCrashKeeps
  <1>. QED
    BY <1>1, <1>2, <1>3, <1>4, <1>5, <1>6 DEF RevNext

\* A step that changes nothing.
LEMMA ContractStutter ==
    ASSUME ContractInv, UNCHANGED revVars
    PROVE  ContractInv'
  <1>1. /\ UNCHANGED <<contract, revRecord>> /\ activity' \subseteq RevKey /\ revSends' \in Nat
        /\ revJob' \in [RevThread -> RevJobRow] /\ revJob' = revJob /\ revPub' = revPub
    BY ContractParts DEF revVars, RevTypeOK
  <1>. QED
    BY <1>1, PubRests, QuietStep

\* Whatever commands, publishes and crashes overlap: what a command was accepted
\* for is stored, no two nodes of a plan share an index, guidance names what
\* exists, a node shown as published has its task on the bus, and a plan shown as
\* published has no task on the bus under a node that is shown as anything else
\* (contract_revision/, plan_publisher.py).
THEOREM ContractIsSound == RevSpec => []ContractSound
  <1>1. RevInit => ContractInv
    BY RevInitKeeps
  <1>2. ContractInv /\ [RevNext]_revVars => ContractInv'
    BY ContractNext, ContractStutter
  <1>3. ContractInv => ContractSound
    BY DEF ContractInv, ContractSound, PublishInv
  <1>. QED
    BY <1>1, <1>2, <1>3, PTL DEF RevSpec

\* Nothing that was recorded, stored or put on the bus is taken back, a TaskNode
\* changes with a new version only and stays published, a node joins a plan with
\* a new version of the plan and a plan becomes published with all its nodes
\* (put_completed, add_task_node, save_task_node, publish_plan, answer_ask).
THEOREM ContractTakesNothingBack == RevSpec => [][ContractGrows]_revVars
  <1>1. RevInit => ContractInv
    BY RevInitKeeps
  <1>2. ContractInv /\ [RevNext]_revVars => ContractInv'
    BY ContractNext, ContractStutter
  <1>3. ContractInv /\ [RevNext]_revVars => [ContractGrows]_revVars
    BY ContractNext
  <1>. QED
    BY <1>1, <1>2, <1>3, PTL DEF RevSpec

=============================================================================
