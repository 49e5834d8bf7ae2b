-------------------------- MODULE ContractRevision --------------------------
(***************************************************************************)
(* Contract Revision: commands that record guidance, add, cancel or hand   *)
(* off TaskNodes and answer an ASK, behind one idempotency record per key. *)
(*                                                                         *)
(* A command reads the record of its key, does its work and inserts the    *)
(* record; nothing is reserved and no lock spans the steps.  The Activity  *)
(* is published last.  The stores survive a crash, the threads do not.     *)
(*                                                                         *)
(* Plans, TaskNodes and guidance facts are numbered in the order of        *)
(* creation.  Each plan keeps the tick of its last update, by which        *)
(* get_active_plan chooses.                                                *)
(***************************************************************************)
EXTENDS Naturals, Sequences, FiniteSets

CONSTANTS
    RevThread,      \* request threads
    RevCommand,     \* [key, kind, scope, plan, node] of the requests sent
    RevPublisher,   \* threads that publish a plan
    Routed,      \* does the router send them, with a decision id of its own?
    MaxRevSends,    \* bound: requests sent
    MaxRevPublish,  \* bound: publishes and archivings of a plan
    MaxRevCrash     \* bound: crashes

\* A command names the target its scope calls for; 0 names none.
ValidCommand(q) ==
    /\ q.plan \in Nat /\ q.node \in Nat
    /\ q.kind \in {"guidance", "create", "execute", "delete", "ask"}
    /\ q.scope \in {"session", "plan", "task", "ask"}
    /\ q.scope = "plan" => q.plan # 0
    /\ q.scope = "task" => q.node # 0

ASSUME CommandAssumption ==
    /\ \A q \in RevCommand : ValidCommand(q)
    /\ MaxRevSends \in Nat /\ MaxRevPublish \in Nat /\ MaxRevCrash \in Nat

RevKey == {q.key : q \in RevCommand}

VARIABLES
    revPlan,      \* plans: [status, version, touched]
    revNode,      \* TaskNodes: [plan, index, readiness, version, key]
    fact,      \* guidance facts: [scope, plan, node, key]
    ask,       \* the keys whose answer the ASK accepted
    onBus,     \* TaskNodes with a task on the bus
    revRecord,    \* command records: {} or {[hash, status]} per key
    activity,  \* keys with an Activity message
    revJob,       \* what each thread is doing
    revPub,       \* what each publish has read and has left to save
    revGiven,     \* statuses returned to the clients, per key
    tick, revSends, revPublishes, revCrashes

contract == <<revPlan, revNode, fact, ask, onBus, tick>>
revVars == <<contract, revRecord, activity, revJob, revPub, revGiven, revSends, revPublishes,
             revCrashes>>

Editable == {"draft", "reviewing", "approved"}

NewPlan(status) == [status |-> status, version |-> 1, touched |-> tick + 1]

NodesIn(p) == {n \in DOMAIN revNode : revNode[n].plan = p}

NoCommand == [key |-> "none"]
RevIdle == [pc |-> "idle", q |-> NoCommand, hash |-> 0, plan |-> 0, index |-> 0,
         version |-> 0, status |-> "none"]
PubIdle == [pc |-> "idle", plan |-> 0, status |-> "none", version |-> 0, left |-> {}]

\* The session has one plan with one node, waiting for its publish.
RevInit ==
    /\ revPlan = <<[status |-> "approved", version |-> 1, touched |-> 0]>>
    /\ revNode = <<[plan |-> 1, index |-> 1, readiness |-> "approved", version |-> 1,
                 key |-> "none"]>>
    /\ fact = <<>> /\ onBus = {} /\ ask = {}
    /\ revRecord = [k \in RevKey |-> {}] /\ activity = {}
    /\ revJob = [t \in RevThread |-> RevIdle]
    /\ revPub = [b \in RevPublisher |-> PubIdle]
    /\ revGiven = [k \in RevKey |-> {}]
    /\ tick = 0 /\ revSends = 0 /\ revPublishes = 0 /\ revCrashes = 0

-----------------------------------------------------------------------------
(* ContractRevisionCommandService.execute.                                 *)

RevAt(t, pc) == revJob[t].pc = pc
Does(t, pc) == revJob' = [revJob EXCEPT ![t].pc = pc]
Concludes(t, status) == revJob' = [revJob EXCEPT ![t] = [@ EXCEPT !.pc = "record", !.status = status]]
RevQ(t) == revJob[t].q

\* What a step that only reads leaves alone.
Reads == UNCHANGED <<contract, revRecord, activity, revPub, revGiven, revSends, revPublishes, revCrashes>>
\* What a step that writes one store leaves alone, with the rest of the stores.
Writes(rest) == UNCHANGED <<rest, revRecord, activity, revPub, revGiven, revSends, revPublishes, revCrashes>>

\* The versions a client may expect: none (0), or that of the node it deletes or
\* of the plan it adds to, as it is now.
Expected(q) ==
    {0} \cup (IF q.kind = "delete" /\ q.node \in DOMAIN revNode
             THEN {revNode[q.node].version} ELSE {})
        \cup (IF q.kind \in {"create", "execute"} /\ q.plan \in DOMAIN revPlan
             THEN {revPlan[q.plan].version} ELSE {})

Send(t, q, expected) ==
    /\ RevAt(t, "idle") /\ revSends < MaxRevSends
    /\ expected \in Expected(q)
    /\ revSends' = revSends + 1
    /\ revJob' = [revJob EXCEPT ![t] = [RevIdle EXCEPT !.pc = "lookup", !.q = q,
                                              !.hash = IF Routed THEN revSends + 1 ELSE 0,
                                              !.version = expected]]
    /\ UNCHANGED <<contract, revRecord, activity, revPub, revGiven, revPublishes, revCrashes>>

\* The hash of a request covers its router decision and not its command id.
HashOf(t) == <<RevQ(t), revJob[t].hash>>

Entry(q) ==
    CASE q.kind = "guidance" -> "scope"
      [] q.kind \in {"create", "execute"} -> "target"
      [] q.kind = "delete" -> "delete_read"
      [] q.kind = "ask" -> "answer"

Lookup(t) ==
    /\ RevAt(t, "lookup")
    /\ LET k == RevQ(t).key IN
       \/ /\ revRecord[k] = {}
          /\ Does(t, Entry(RevQ(t))) /\ UNCHANGED revGiven
       \/ \E r \in revRecord[k] :
          /\ revGiven' = [revGiven EXCEPT ![k] = @ \cup {IF r.hash = HashOf(t) THEN r.status
                                                                      ELSE "conflict"}]
          /\ revJob' = [revJob EXCEPT ![t] = RevIdle]
    /\ UNCHANGED <<contract, revRecord, activity, revPub, revSends, revPublishes, revCrashes>>

\* INSERT OR IGNORE: the first record of a key stays.
PutCompleted(t) ==
    /\ RevAt(t, "record")
    /\ LET k == RevQ(t).key IN
       revRecord' = IF revRecord[k] # {} THEN revRecord
                 ELSE [revRecord EXCEPT ![k] = {[hash |-> HashOf(t), status |-> revJob[t].status]}]
    /\ Does(t, "activity")
    /\ UNCHANGED <<contract, activity, revPub, revGiven, revSends, revPublishes, revCrashes>>

\* The message id is the command id, so a second message is dropped.  Only an
\* accepted result carries an Activity.
PublishActivity(t) ==
    /\ RevAt(t, "activity")
    /\ LET k == RevQ(t).key IN
       /\ activity' = IF revJob[t].status = "accepted" THEN activity \cup {k} ELSE activity
       /\ revGiven' = [revGiven EXCEPT ![k] = @ \cup {revJob[t].status}]
    /\ revJob' = [revJob EXCEPT ![t] = RevIdle]
    /\ UNCHANGED <<contract, revRecord, revPub, revSends, revPublishes, revCrashes>>

-----------------------------------------------------------------------------
(* record_guidance.                                                        *)

\* _invalid_scope_reason.
ScopeExists(q, plans, nodes) ==
    CASE q.scope = "session" -> TRUE
      [] q.scope = "plan"    -> q.plan \in DOMAIN plans
      [] q.scope = "task"    -> /\ q.node \in DOMAIN nodes
                                /\ q.plan # 0 => nodes[q.node].plan = q.plan
      [] OTHER -> FALSE

GuidanceScope(t) ==
    /\ RevAt(t, "scope")
    /\ IF ScopeExists(RevQ(t), revPlan, revNode) THEN Does(t, "guidance") ELSE Concludes(t, "rejected")
    /\ Reads

\* A new fact has a new id.
GuidanceCreate(t) ==
    /\ RevAt(t, "guidance")
    /\ fact' = Append(fact, [scope |-> RevQ(t).scope, plan |-> RevQ(t).plan,
                             node |-> RevQ(t).node, key |-> RevQ(t).key])
    /\ Concludes(t, "accepted")
    /\ Writes(<<revPlan, revNode, ask, onBus, tick>>)

-----------------------------------------------------------------------------
(* create_task_node and create_execution_task.                             *)

\* The last plan updated of those not archived.
ActivePlan ==
    LET live == {p \in DOMAIN revPlan : revPlan[p].status # "archived"} IN
    IF live = {} THEN 0
    ELSE CHOOSE p \in live : \A o \in live : revPlan[o].touched <= revPlan[p].touched

\* _target_editable_plan: the plan named, or the active one, or a new one.
Target(t) ==
    /\ RevAt(t, "target")
    /\ LET q == RevQ(t)
           p == IF q.plan # 0 THEN q.plan ELSE ActivePlan
           fits == p \in DOMAIN revPlan /\ revPlan[p].status \in Editable IN
       \/ /\ fits
          /\ revJob' = [revJob EXCEPT ![t] = [@ EXCEPT !.pc = "list", !.plan = p]]
       \/ /\ ~fits /\ q.plan = 0 /\ q.kind = "execute"
          /\ Does(t, "new_plan")
       \/ /\ ~fits /\ ~(q.plan = 0 /\ q.kind = "execute")
          /\ Concludes(t, "rejected")
    /\ Reads

FreeIndices(p) ==
    {i \in 1 .. Cardinality(NodesIn(p)) + 1 : \A n \in NodesIn(p) : revNode[n].index # i}

NextTaskIndex(p) == CHOOSE i \in FreeIndices(p) : \A k \in FreeIndices(p) : i <= k

ListNodes(t) ==
    /\ RevAt(t, "list")
    /\ revJob' = [revJob EXCEPT ![t] = [@ EXCEPT !.pc = "add", !.index = NextTaskIndex(revJob[t].plan)]]
    /\ Reads

NewNode(t, p, index) ==
    [plan |-> p, index |-> index, version |-> 1, key |-> RevQ(t).key,
     readiness |-> IF RevQ(t).kind = "execute" THEN "approved" ELSE "draft"]

Touch(p) == [revPlan EXCEPT ![p] = [@ EXCEPT !.version = revPlan[p].version + 1, !.touched = tick + 1]]

\* add_task_node: one transaction; the plan has the version the client expects,
\* if it expects one, and (plan, task_index) is unique.
AddTaskNode(t) ==
    /\ RevAt(t, "add")
    /\ LET p == revJob[t].plan
           stale == revJob[t].version \notin {0, revPlan[p].version}
           taken == \E n \in NodesIn(p) : revNode[n].index = revJob[t].index IN
       \/ /\ stale
          /\ Concludes(t, "conflict")
          /\ UNCHANGED <<revNode, revPlan, tick>>
       \/ /\ ~stale /\ ~taken
          /\ revNode' = Append(revNode, NewNode(t, p, revJob[t].index))
          /\ revPlan' = Touch(p)
          /\ tick' = tick + 1
          /\ Concludes(t, "accepted")
       \/ /\ ~stale /\ taken
          /\ Concludes(t, "rejected")
          /\ UNCHANGED <<revNode, revPlan, tick>>
    /\ Writes(<<fact, ask, onBus>>)

\* create_plan: the plan and its only node, in one transaction.
CreatePlan(t) ==
    /\ RevAt(t, "new_plan")
    /\ revPlan' = Append(revPlan, NewPlan("approved"))
    /\ revNode' = Append(revNode, NewNode(t, Len(revPlan) + 1, 1))
    /\ tick' = tick + 1
    /\ Concludes(t, "accepted")
    /\ Writes(<<fact, ask, onBus>>)

-----------------------------------------------------------------------------
(* delete_task_node and resolve_ask.                                       *)

\* save_task_node: the row with its new readiness, and the version one higher.
Saved(row, readiness) == [row EXCEPT !.readiness = readiness, !.version = @ + 1]

DeleteRead(t) ==
    /\ RevAt(t, "delete_read")
    /\ LET n == RevQ(t).node IN
       \/ /\ n \notin DOMAIN revNode
          /\ Concludes(t, "rejected")
       \/ /\ n \in DOMAIN revNode /\ revNode[n].readiness = "cancelled"
          /\ Concludes(t, "noop")
       \/ /\ n \in DOMAIN revNode /\ revNode[n].readiness = "published"
          /\ Concludes(t, "rejected")
       \/ /\ n \in DOMAIN revNode /\ revNode[n].readiness \notin {"cancelled", "published"}
          /\ revJob' = [revJob EXCEPT ![t] =
               [@ EXCEPT !.pc = "delete_save",
                         !.version = IF revJob[t].version = 0 THEN revNode[n].version ELSE revJob[t].version]]
    /\ Reads

\* Faulty: the node is saved whatever its version is now.
DeleteSaveBlind(t) ==
    /\ RevAt(t, "delete_save")
    /\ revNode' = [revNode EXCEPT ![RevQ(t).node] = Saved(@, "cancelled")]
    /\ Concludes(t, "accepted")
    /\ Writes(<<revPlan, fact, ask, onBus, tick>>)

DeleteSave(t) ==
    /\ RevAt(t, "delete_save")
    /\ LET n == RevQ(t).node
           fits == revNode[n].version = revJob[t].version IN
       /\ revNode' = IF fits THEN [revNode EXCEPT ![n] = Saved(@, "cancelled")] ELSE revNode
       /\ Concludes(t, IF fits THEN "accepted" ELSE "conflict")
    /\ Writes(<<revPlan, fact, ask, onBus, tick>>)

\* answer_ask accepts the first answer, and again the key that gave it.
ResolveAsk(t) ==
    /\ RevAt(t, "answer")
    /\ IF ask \subseteq {RevQ(t).key}
       THEN ask' = {RevQ(t).key} /\ Concludes(t, "accepted")
       ELSE UNCHANGED ask /\ Concludes(t, "rejected")
    /\ Writes(<<revPlan, revNode, fact, onBus, tick>>)

-----------------------------------------------------------------------------
(* What happens to the plan beside the commands.                           *)

MarkedPublished(p) == [Touch(p) EXCEPT ![p] = [@ EXCEPT !.status = "published"]]

\* publish_plan reads the plan; an archived one is skipped.
RevReadsPlan(b, p) ==
    /\ revPub[b].pc = "idle" /\ revPublishes < MaxRevPublish
    /\ revPlan[p].status # "archived"
    /\ revPublishes' = revPublishes + 1
    /\ revPub' = [revPub EXCEPT ![b] = [pc |-> "nodes", plan |-> p, status |-> revPlan[p].status,
                                        version |-> revPlan[p].version, left |-> {}]]
    /\ UNCHANGED <<contract, revRecord, activity, revJob, revGiven, revSends, revCrashes>>

\* What is left when the nodes are all published, none is, or some are.
Listed(j, nodes, done) ==
    CASE nodes # {} /\ done = {} ->
           [j EXCEPT !.pc = "bus",
                     !.left = {[node |-> n, version |-> revNode[n].version] : n \in nodes}]
      [] nodes # {} /\ done = nodes /\ j.status # "published" -> [j EXCEPT !.pc = "plan"]
      [] OTHER -> PubIdle

\* Then its nodes, each with its version, whatever its readiness.
RevListsNodes(b) ==
    /\ revPub[b].pc = "nodes"
    /\ LET nodes == NodesIn(revPub[b].plan) IN
       revPub' = [revPub EXCEPT ![b] = Listed(revPub[b], nodes,
                                              {n \in nodes : revNode[n].readiness = "published"})]
    /\ UNCHANGED <<contract, revRecord, activity, revJob, revGiven, revSends, revPublishes, revCrashes>>

\* The TaskPublisher's work, module Publishing: all tasks are on the bus, or it
\* skips or fails with those it has inserted.
RevPublishes(b) ==
    /\ revPub[b].pc = "bus"
    /\ LET all == {x.node : x \in revPub[b].left} IN
       \E some \in SUBSET all :
       /\ onBus' = onBus \cup some
       /\ revPub' = [revPub EXCEPT ![b] = IF some = all THEN [@ EXCEPT !.pc = "save"] ELSE PubIdle]
    /\ UNCHANGED <<revPlan, revNode, fact, ask, tick, revRecord, activity, revJob, revGiven, revSends,
                   revPublishes, revCrashes>>

\* _save_published_node: one of the nodes left (their order_index is free), if
\* it still has the version that was listed; else the publish ends there.
RevSavesNode(b) ==
    /\ revPub[b].pc = "save"
    /\ \E x \in revPub[b].left :
       \/ /\ revNode[x.node].version = x.version
          /\ revNode' = [revNode EXCEPT ![x.node] = Saved(@, "published")]
          /\ revPub' = [revPub EXCEPT ![b] =
               [@ EXCEPT !.pc = IF revPub[b].left = {x} THEN "plan" ELSE "save",
                         !.left = revPub[b].left \ {x}]]
       \/ /\ revNode[x.node].version # x.version
          /\ revPub' = [revPub EXCEPT ![b] = PubIdle]
          /\ UNCHANGED revNode
    /\ UNCHANGED <<revPlan, fact, ask, onBus, tick, revRecord, activity, revJob, revGiven, revSends,
                   revPublishes, revCrashes>>

\* save_plan, if nothing has touched the plan since it was read.
RevSavesPlan(b) ==
    /\ revPub[b].pc = "plan"
    /\ LET p == revPub[b].plan IN
       \/ /\ revPlan[p].version = revPub[b].version
          /\ revPlan' = MarkedPublished(p) /\ tick' = tick + 1
       \/ /\ revPlan[p].version # revPub[b].version
          /\ UNCHANGED <<revPlan, tick>>
    /\ revPub' = [revPub EXCEPT ![b] = PubIdle]
    /\ UNCHANGED <<revNode, fact, ask, onBus, revRecord, activity, revJob, revGiven, revSends,
                   revPublishes, revCrashes>>

ArchivePlan(p) ==
    /\ revPublishes < MaxRevPublish
    /\ revPlan[p].status # "archived"
    /\ revPublishes' = revPublishes + 1
    /\ revPlan' = [Touch(p) EXCEPT ![p] = [@ EXCEPT !.status = "archived"]]
    /\ tick' = tick + 1
    /\ UNCHANGED <<revNode, fact, ask, onBus, revRecord, activity, revJob, revPub, revGiven, revSends,
                   revCrashes>>

RevCrash ==
    /\ revCrashes < MaxRevCrash
    /\ (\E t \in RevThread : ~RevAt(t, "idle")) \/ (\E b \in RevPublisher : revPub[b].pc # "idle")
    /\ revCrashes' = revCrashes + 1
    /\ revJob' = [t \in RevThread |-> RevIdle]
    /\ revPub' = [b \in RevPublisher |-> PubIdle]
    /\ UNCHANGED <<contract, revRecord, activity, revGiven, revSends, revPublishes>>

RevStep(t) ==
    \/ Lookup(t) \/ PutCompleted(t) \/ PublishActivity(t)
    \/ GuidanceScope(t) \/ GuidanceCreate(t)
    \/ Target(t) \/ ListNodes(t) \/ AddTaskNode(t) \/ CreatePlan(t)
    \/ DeleteRead(t) \/ DeleteSave(t) \/ ResolveAsk(t)

RevPublishStep(b) ==
    RevListsNodes(b) \/ RevPublishes(b) \/ RevSavesNode(b) \/ RevSavesPlan(b)

RevNext ==
    \/ \E t \in RevThread :
         RevStep(t) \/ \E q \in RevCommand : \E expected \in Expected(q) : Send(t, q, expected)
    \/ \E b \in RevPublisher : RevPublishStep(b) \/ \E p \in DOMAIN revPlan : RevReadsPlan(b, p)
    \/ \E p \in DOMAIN revPlan : ArchivePlan(p)
    \/ RevCrash

RevSpec == RevInit /\ [][RevNext]_revVars

-----------------------------------------------------------------------------
(* Properties.                                                             *)

Scope == {"session", "plan", "task"}
Result == {"none", "accepted", "rejected", "noop", "conflict"}
RevPlanRow ==
    [status : Editable \cup {"published", "archived"}, version : Nat, touched : Nat]
RevNodeRow ==
    [plan : Nat, index : Nat, readiness : {"draft", "approved", "published", "cancelled"},
     version : Nat \ {0}, key : RevKey \cup {"none"}]
FactRow == [scope : Scope, plan : Nat, node : Nat, key : RevKey]
RevSteps ==
    {"idle", "lookup", "scope", "guidance", "target", "list", "add", "new_plan", "delete_read",
     "delete_save", "answer", "record", "activity"}
RevJobRow ==
    [pc : RevSteps, q : RevCommand \cup {NoCommand}, hash : Nat, plan : Nat, index : Nat,
     version : Nat, status : Result]

NodeVersion == [node : Nat, version : Nat]
RevPubRow ==
    [pc : {"idle", "nodes", "bus", "save", "plan"}, plan : Nat,
     status : Editable \cup {"published", "none"}, version : Nat, left : SUBSET NodeVersion]

RevTypeOK ==
    /\ revPub \in [RevPublisher -> RevPubRow]
    /\ tick \in Nat /\ revSends \in Nat
    /\ revPlan \in Seq(RevPlanRow) /\ \A p \in DOMAIN revPlan : revPlan[p].touched <= tick
    /\ revNode \in Seq(RevNodeRow) /\ \A n \in DOMAIN revNode : revNode[n].plan \in DOMAIN revPlan
    /\ fact \in Seq(FactRow)
    /\ onBus \subseteq DOMAIN revNode
    /\ ask \subseteq RevKey /\ activity \subseteq RevKey
    /\ revJob \in [RevThread -> RevJobRow]
    /\ revRecord \in [RevKey -> SUBSET [hash : RevCommand \X Nat, status : Result]]

StatusesOf(k) == {r.status : r \in revRecord[k]}

\* Two creations that listed the nodes of a plan at the same time do not end
\* with the same task index: the store refuses the second.
TaskIndexUnique ==
    \A n, m \in DOMAIN revNode :
        revNode[n].plan = revNode[m].plan /\ revNode[n].index = revNode[m].index => n = m

\* What a command with key k was accepted for is stored.
Backed(k, nodes, facts, answers) ==
    \/ \E i \in DOMAIN facts : facts[i].key = k
    \/ \E n \in DOMAIN nodes : nodes[n].key = k
    \/ k \in answers
    \/ \E n \in DOMAIN nodes, q \in RevCommand :
          q.kind = "delete" /\ q.key = k /\ q.node = n /\ nodes[n].version > 1

\* A recorded acceptance is backed by what the command was to store.
AcceptedIsBacked ==
    \A k \in RevKey : "accepted" \in StatusesOf(k) => Backed(k, revNode, fact, ask)

\* A TaskNode that is shown as published has a task on the bus: the bus comes
\* first, also when the publish fails half-way or loses to a deletion.
PublishedOnBus ==
    \A n \in DOMAIN revNode : revNode[n].readiness = "published" => n \in onBus

\* In a plan that is shown as published every node with a task on the bus is
\* shown as published too.  A deletion between the two leaves a cancelled node
\* with a task; the version it raises keeps that plan from being published.
PublishedPlanShown ==
    \A n \in onBus :
        revPlan[revNode[n].plan].status = "published" => revNode[n].readiness = "published"

\* A guidance fact names a plan or a node that exists.
GuidanceScoped ==
    \A i \in DOMAIN fact :
        /\ fact[i].scope = "plan" => fact[i].plan \in DOMAIN revPlan
        /\ fact[i].scope = "task" => fact[i].node \in DOMAIN revNode

\* What a contract command was accepted for is stored, and the contract stays
\* consistent, whatever other commands and publishes overlap with it.
ContractSound ==
    /\ RevTypeOK /\ TaskIndexUnique /\ AcceptedIsBacked /\ PublishedOnBus
    /\ PublishedPlanShown /\ GuidanceScoped

\* Nothing a command has stored is taken back: a record stays as it was first
\* put, a fact and an answer stay, a TaskNode keeps its plan and its command,
\* changes with a new version only and stays published, and no task leaves the
\* bus.  A node joins a plan with a new version of the plan, and a plan becomes
\* published when all its nodes are.
ContractGrows ==
    /\ \A k \in RevKey : revRecord[k] # {} => revRecord'[k] = revRecord[k]
    /\ \A i \in DOMAIN fact : i \in DOMAIN fact' /\ fact'[i] = fact[i]
    /\ ask \subseteq ask' /\ onBus \subseteq onBus'
    /\ \A n \in DOMAIN revNode :
         /\ n \in DOMAIN revNode'
         /\ revNode'[n].plan = revNode[n].plan /\ revNode'[n].key = revNode[n].key
         /\ revNode'[n].version >= revNode[n].version
         /\ revNode'[n].version = revNode[n].version => revNode'[n] = revNode[n]
         /\ revNode[n].readiness = "published" => revNode'[n].readiness = "published"
    /\ \A p \in DOMAIN revPlan :
         /\ p \in DOMAIN revPlan' /\ revPlan'[p].version >= revPlan[p].version
         /\ revPlan'[p].version = revPlan[p].version =>
              \A n \in DOMAIN revNode' : revNode'[n].plan = p => n \in DOMAIN revNode
         /\ revPlan'[p].status = "published" /\ revPlan[p].status # "published" =>
              \A n \in NodesIn(p) : revNode[n].readiness = "published"

-----------------------------------------------------------------------------
(* The inductive invariant.                                                *)

\* What a request relies on between its steps: what it has read and nobody
\* takes back, or what the version it holds vouches for.
RequestFits(j, plans, nodes, facts, answers) ==
    /\ j.pc # "idle" => j.q \in RevCommand
    /\ j.pc \in {"lookup", "delete_read"} /\ j.q.kind = "delete" /\ j.version # 0 =>
         j.q.node \in DOMAIN nodes /\ nodes[j.q.node].version >= j.version
    /\ j.pc = "guidance" => ScopeExists(j.q, plans, nodes)
    /\ j.pc \in {"list", "add"} => j.plan \in DOMAIN plans
    /\ j.pc \in {"delete_read", "delete_save"} => j.q.kind = "delete"
    /\ j.pc = "delete_save" =>
         /\ j.q.node \in DOMAIN nodes
         /\ nodes[j.q.node].version >= j.version
         /\ nodes[j.q.node].version = j.version =>
              nodes[j.q.node].readiness \notin {"cancelled", "published"}
    /\ j.pc \in {"record", "activity"} /\ j.status = "accepted" =>
         Backed(j.q.key, nodes, facts, answers)

\* What a publish relies on: while the plan has the version that was read, every
\* node of it is published or left to do.
PublishFits(j, plans, nodes, bus) ==
    /\ j.pc # "idle" => j.plan \in DOMAIN plans /\ plans[j.plan].version >= j.version
    /\ j.pc \in {"bus", "save", "plan"} =>
         /\ \A x \in j.left : x.node \in DOMAIN nodes /\ nodes[x.node].plan = j.plan
         /\ plans[j.plan].version = j.version =>
              \A n \in DOMAIN nodes : nodes[n].plan = j.plan =>
                nodes[n].readiness = "published" \/ \E x \in j.left : x.node = n
         /\ plans[j.plan].status = "published" =>
              \A x \in j.left : nodes[x.node].readiness = "published"
    /\ j.pc = "nodes" => j.left = {}
    /\ j.pc = "save" => \A x \in j.left : x.node \in bus
    /\ j.pc = "plan" =>
         /\ j.left = {}
         /\ \E n \in DOMAIN nodes : nodes[n].plan = j.plan /\ nodes[n].readiness = "published"

\* A published plan has a published node.
PublishedHasNode ==
    \A p \in DOMAIN revPlan : revPlan[p].status = "published" =>
        \E n \in NodesIn(p) : revNode[n].readiness = "published"

PublishInv == PublishedOnBus /\ PublishedPlanShown /\ PublishedHasNode

ContractInv ==
    /\ RevTypeOK /\ TaskIndexUnique /\ AcceptedIsBacked /\ PublishInv /\ GuidanceScoped
    /\ \A t \in RevThread : RequestFits(revJob[t], revPlan, revNode, fact, ask)
    /\ \A b \in RevPublisher : PublishFits(revPub[b], revPlan, revNode, onBus)
=============================================================================
