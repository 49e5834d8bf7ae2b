------------------------------ MODULE MainPage ------------------------------
(***************************************************************************)
(* What the main page shows of a session, and how it learns of changes.    *)
(*                                                                         *)
(* A snapshot (get_session_snapshot_query) is put together from one read   *)
(* after another of the task bus, the authoring, plan and ASK stores, with *)
(* no transaction around them; the cursor of the event stream is read      *)
(* last.  Meanwhile the worker runs tasks, and reports each outcome by a   *)
(* callback that first synchronises the plan node and then appends an      *)
(* event; the page refetches when a poll returns an event it has not seen. *)
(*                                                                         *)
(* Data is abstracted to statuses.  "stopped" is the status failed with an *)
(* error that starts with cancelled: or skipped:.  The commands of the     *)
(* user are those of this page, which refetches when the reply to one      *)
(* arrives.  Their work in the stores is the subject of Authoring,         *)
(* PlanExecution and ExecutionSystem; here it is one step, before the      *)
(* event and the reply, but for a publication, whose rows the snapshot can *)
(* see come into being.                                                    *)
(***************************************************************************)
EXTENDS Naturals, FiniteSets

CONSTANTS
    N,             \* tasks of the session's plan
    Plans,         \* authoring stores a durable plan
    MaxRuns,       \* bound: runs of a task by the worker
    MaxCommands,   \* bound: commands after the publication
    Start,         \* the session starts "new", with a "draft" tree or "published"
    MaxReads,      \* bound: snapshots started
    MaxFaults      \* bound: failed syncs, appends and snapshots

PageAssumption ==
    /\ N \in Nat \ {0} /\ Plans \in BOOLEAN /\ Start \in {"new", "draft", "published"}
    /\ MaxRuns \in Nat /\ MaxCommands \in Nat /\ MaxReads \in Nat /\ MaxFaults \in Nat

VARIABLES
    facts,      \* what the stores hold
    pub,        \* the next step of the publication, 0 when there is none
    worker,     \* the task the worker runs, and how far it is
    stream,     \* number of UI events; a cursor is the number of its event
    due,        \* commands whose event is still to be appended, and whose reply is to come
    read,       \* the snapshot being put together
    page,       \* what the page holds: view, cursor, last event seen, and the frame it shows
    missed,     \* history: changes that page and snapshot may have missed
                \* although no event is left to see
    runs, commands, reads, faults

vars == <<facts, pub, worker, stream, due, read, page, missed, runs, commands, reads, faults>>

Task == 1 .. N
None == 0
Max(S) == CHOOSE x \in S : \A y \in S : y <= x
Min(S) == CHOOSE x \in S : \A y \in S : x <= y

BusStatus == {"absent", "pending", "running", "waiting_for_user", "done", "failed", "stopped"}
Execution == (BusStatus \ {"absent"}) \cup {"not_started"}
NoFacts ==
    [raw |-> "none", active |-> "none", plan |-> "none",
     node |-> [t \in Task |-> "not_started"], bus |-> [t \in Task |-> "absent"],
     archived |-> FALSE,
     ask |-> [t \in Task |-> "none"], confirm |-> [t \in Task |-> "none"]]
Idle == [task |-> None, step |-> "idle", seen |-> "pending"]
NotReading == [at |-> "idle", sec |-> NoFacts, cards |-> {}, from |-> 0]

-----------------------------------------------------------------------------
(* Cards of the tree: drafts of the active draft tree, then bus tasks.     *)

ProjectedStatus(s) == IF s = "stopped" THEN "cancelled" ELSE s

TaskNodeStatus(s, confirmation) ==
    CASE confirmation = "pending" -> "waiting_user"
      [] confirmation # "pending" /\ s = "waiting_for_user" -> "waiting_user"
      [] confirmation # "pending" /\ s = "pending" -> "queued"
      [] OTHER -> s

Card(t, kind, status, execution) ==
    [task |-> t, kind |-> kind, status |-> status, execution |-> execution]

DraftCard(t) == Card(t, "draft", "draft", "not_started")

DraftCards(f) == IF f.active = "draft_tree" THEN {DraftCard(t) : t \in Task} ELSE {}

PublishedCard(f, t) ==
    LET status == ProjectedStatus(f.bus[t])
    IN  Card(t, "published", TaskNodeStatus(status, f.confirm[t]), status)

PublishedCards(f) == {PublishedCard(f, t) : t \in {u \in Task : f.bus[u] # "absent"}}

LegacyTreeStatus(cards) ==
    LET statuses == {c.status : c \in cards} IN
    CASE statuses \cap {"running", "waiting_user"} # {} -> "running"
      [] statuses = {"done"} -> "completed"
      [] statuses \cap {"running", "waiting_user"} = {} /\ "failed" \in statuses -> "failed"
      [] OTHER -> IF statuses \cap {"queued", "done"} # {} THEN "published" ELSE "draft"

(* Cards of a stored plan, from its nodes alone.                           *)

PlanNodeStatus(execution) ==
    CASE execution = "waiting_for_user" -> "waiting_user"
      [] execution = "stopped" -> "cancelled"
      [] execution = "pending" -> "queued"
      [] execution = "not_started" -> "draft"
      [] OTHER -> execution

PlanCard(f, t) ==
    Card(t, IF f.node[t] = "not_started" THEN "draft" ELSE "published",
         PlanNodeStatus(f.node[t]), ProjectedStatus(f.node[t]))

PlanCards(f) == {PlanCard(f, t) : t \in Task}

PlanTreeStatus(cards) ==
    LET statuses == {c.status : c \in cards} IN
    CASE statuses \subseteq {"done"} -> "completed"
      [] "failed" \in statuses -> "failed"
      [] "failed" \notin statuses /\ statuses \cap {"running", "waiting_user", "queued"} # {} -> "running"
      [] OTHER -> IF statuses \subseteq {"cancelled"} THEN "failed" ELSE "draft"

PlanUiStatus(status) ==
    CASE status = "awaiting_acceptance" -> "ready_for_review"
      [] status = "archived" -> "cancelled"
      [] OTHER -> status

(* The tree a snapshot shows: none for an archived plan, a stored plan's   *)
(* own, and otherwise the one projected from drafts and bus.               *)

Tree(f, cards) ==
    CASE f.plan = "archived" -> {}
      [] f.plan = "none" -> cards
      [] OTHER -> PlanCards(f)

TreeStatus(f, cards) ==
    IF f.plan = "none" THEN LegacyTreeStatus(cards) ELSE PlanTreeStatus(PlanCards(f))

-----------------------------------------------------------------------------
(* The other sections.                                                     *)

PendingAsks(f) == {t \in Task : f.ask[t] = "pending"}

ActiveAsk(f, cards) ==
    LET pending == PendingAsks(f)
        tree == Tree(f, cards)
        shown == IF tree = {} THEN pending
                 ELSE {t \in pending : \E c \in tree : c.task = t /\ c.execution = "waiting_for_user"}
    IN  IF shown = {} THEN None ELSE Min(shown)

Confirmations(f, cards) == {c.task : c \in {d \in cards : f.confirm[d.task] = "pending"}}

Planning(f, cards) ==
    [ask |-> CASE f.raw = "none" -> "none"
               [] f.raw = "planned" -> "answered"
               [] OTHER -> IF Tree(f, cards) = {} THEN "pending" ELSE "superseded",
     dirty |-> f.raw # "none" /\ Tree(f, cards) # {} /\ f.active = "raw_task"]

PlanResults(f) ==
    IF f.plan \in {"none", "archived"} THEN {}
    ELSE {t \in Task : f.node[t] \in {"done", "failed", "stopped"}}

TreeResults(f, cards) ==
    IF f.plan = "archived" THEN {}
    ELSE {c.task : c \in {d \in cards : d.kind = "published"
                                        /\ d.execution \in {"done", "failed", "cancelled"}}}

ResultOf(f, cards) ==
    IF PlanResults(f) # {} THEN Max(PlanResults(f))
    ELSE IF TreeResults(f, cards) # {} THEN Max(TreeResults(f, cards)) ELSE None

SessionStatus(f, cards) ==
    LET tree == Tree(f, cards) IN
    IF \/ ActiveAsk(f, cards) # None
       \/ Planning(f, cards).ask = "pending"
       \/ Confirmations(f, cards) # {}
       \/ \E c \in tree : c.execution = "waiting_for_user"
    THEN "waiting_user"
    ELSE IF tree # {}
    THEN CASE TreeStatus(f, cards) = "draft" -> "draft_ready"
           [] TreeStatus(f, cards) \in {"published", "running"} -> "running"
           [] OTHER -> TreeStatus(f, cards)
    ELSE IF f.raw # "none" THEN "understanding" ELSE "new"

View(f, cards) ==
    [session |-> SessionStatus(f, cards), tree |-> Tree(f, cards),
     plan |-> IF f.plan = "archived" THEN "none" ELSE PlanUiStatus(f.plan),
     archived |-> f.archived,
     ask |-> ActiveAsk(f, cards), confirmations |-> Confirmations(f, cards),
     planning |-> Planning(f, cards), result |-> ResultOf(f, cards)]

\* What a snapshot would show if every store were read now.
Projection == View(facts, DraftCards(facts) \cup PublishedCards(facts))

\* The stores after the task tree was generated from the answered raw task.
Generated(f) ==
    [f EXCEPT !.raw = "planned", !.active = "draft_tree", !.plan = IF Plans THEN "draft" ELSE "none"]

PublishedFacts(f) ==
    [f EXCEPT !.active = "published", !.bus = [t \in Task |-> "pending"],
              !.node = [t \in Task |-> IF Plans THEN "pending" ELSE @[t]],
              !.plan = IF Plans THEN "published" ELSE @]

-----------------------------------------------------------------------------
Init ==
    /\ facts = CASE Start = "new" -> NoFacts
                 [] Start = "draft" -> Generated(NoFacts)
                 [] OTHER -> PublishedFacts(Generated(NoFacts))
    /\ pub = 0
    /\ worker = Idle
    /\ stream = 0
    /\ due = [event |-> 0, reply |-> 0]
    /\ read = NotReading
    /\ page = [view |-> Projection, cursor |-> 0, last |-> 0, frame |-> "session"]
    /\ missed = [page |-> {}, read |-> {}]
    /\ runs = 0 /\ commands = 0 /\ reads = 0 /\ faults = 0

Misses(cause) ==
    missed' = [page |-> missed.page \cup {cause},
               read |-> IF read.at \in {"idle", "recover", "drafts"} THEN {} ELSE missed.read \cup {cause}]

\* SqliteUiEventSource.append, and the append that fails and is suppressed.
Append ==
    \/ stream' = stream + 1 /\ UNCHANGED <<missed, faults>>
    \/ /\ faults < MaxFaults
       /\ faults' = faults + 1
       /\ Misses("unsaid")
       /\ UNCHANGED stream

\* PlanTaskNodeLifecycleSync.sync_task with the caller's copy of the task.
PlanStatusFromNodes(status, node) ==
    LET executions == {node[t] : t \in Task} IN
    CASE status = "archived" -> status
      [] status # "archived" /\ executions \cap {"failed", "stopped"} # {} -> "failed"
      [] status # "archived" /\ executions = {"done"} -> "awaiting_acceptance"
      [] OTHER -> IF executions \cap {"pending", "running", "waiting_for_user"} # {}
                  THEN "running" ELSE status

Synced(f, t, seen) ==
    IF f.plan = "none" \/ f.node[t] = "not_started" THEN f
    ELSE LET node == [f.node EXCEPT ![t] = seen]
         IN  [f EXCEPT !.node = node, !.plan = PlanStatusFromNodes(f.plan, node)]

\* The callback's sync raises nothing: a failed one is suppressed.
Sync(t, seen) ==
    \/ facts' = Synced(facts, t, seen) /\ UNCHANGED faults
    \/ /\ faults < MaxFaults
       /\ faults' = faults + 1
       /\ UNCHANGED facts

-----------------------------------------------------------------------------
(* The worker: claim, run the agent, commit, sync, append.                 *)

Claim(t) ==
    /\ worker = Idle /\ runs < MaxRuns
    /\ facts.bus[t] = "pending"
    /\ \A u \in 1 .. t - 1 : facts.bus[u] # "pending"
    /\ facts' = [facts EXCEPT !.bus[t] = "running"]
    /\ worker' = [task |-> t, step |-> "run", seen |-> "running"]
    /\ runs' = runs + 1
    /\ IF Plans THEN UNCHANGED missed ELSE Misses("claim")
    /\ UNCHANGED <<pub, stream, due, read, page, commands, reads, faults>>

\* The agent asks for an answer or a confirmation and suspends the task ...
AgentAsks ==
    /\ worker.step = "run"
    /\ \E what \in {"ask", "confirm"} :
          facts' = [facts EXCEPT !.bus[worker.task] = "waiting_for_user",
                                 ![what][worker.task] = "pending"]
    /\ worker' = [worker EXCEPT !.step = "loop", !.seen = "waiting_for_user"]
    /\ UNCHANGED <<pub, stream, due, read, page, missed, runs, commands, reads, faults>>

\* ... or ends with an outcome the executor has still to commit.
AgentEnds ==
    /\ worker.step = "run"
    /\ \E outcome \in {"done", "failed", "stopped"} :
          worker' = [worker EXCEPT !.step = "loop", !.seen = outcome]
    /\ UNCHANGED <<facts, pub, stream, due, read, page, missed, runs, commands, reads, faults>>

\* The runner appends audit.records_changed when the loop has returned.
LoopEvent ==
    /\ worker.step = "loop"
    /\ Append
    /\ worker' = [worker EXCEPT !.step = "commit"]
    /\ UNCHANGED <<facts, pub, due, read, page, runs, commands, reads>>

\* A waiting task is read back; answered in between, it is reported by nobody.
Commit ==
    /\ worker.step = "commit"
    /\ IF worker.seen = "waiting_for_user"
       THEN /\ worker' = IF facts.bus[worker.task] = "waiting_for_user"
                         THEN [worker EXCEPT !.step = "sync"] ELSE Idle
            /\ UNCHANGED facts
       ELSE /\ facts' = [facts EXCEPT !.bus[worker.task] = worker.seen]
            /\ worker' = [worker EXCEPT !.step = "sync"]
    /\ UNCHANGED <<pub, stream, due, read, page, missed, runs, commands, reads, faults>>

CallbackSync ==
    /\ worker.step = "sync"
    /\ Sync(worker.task, worker.seen)
    /\ worker' = [worker EXCEPT !.step = "emit"]
    /\ UNCHANGED <<pub, stream, due, read, page, missed, runs, commands, reads>>

CallbackEmit ==
    /\ worker.step = "emit"
    /\ Append
    /\ worker' = Idle
    /\ UNCHANGED <<facts, pub, due, read, page, runs, commands, reads>>

-----------------------------------------------------------------------------
(* Commands of the page, from the frame that shows the session.  The       *)
(* server commits, appends the event the command has, and answers; the     *)
(* page refetches at the answer (RefreshHint), and a snapshot that was     *)
(* under way is dropped then and not before.                               *)

Refetch ==
    /\ reads < MaxReads
    /\ reads' = reads + 1
    /\ read' = [NotReading EXCEPT !.at = "recover"]

Answers == due' = [due EXCEPT !.reply = @ + 1]

Does(f) ==
    /\ page.frame = "session"
    /\ facts' = f
    /\ Answers
    /\ UNCHANGED <<pub, worker, stream, read, page, missed, runs, commands, reads, faults>>

AppendSessionInput ==
    /\ facts.raw = "none"
    /\ Does([facts EXCEPT !.raw = "awaiting_user", !.active = "raw_task"])

\* The answer to the authoring ASK, and the task tree generated from it.
AnswerAuthoringAsk ==
    /\ facts.raw = "awaiting_user"
    /\ Does(Generated(facts))

PublishTaskTree ==
    /\ page.frame = "session" /\ facts.active = "draft_tree" /\ pub = 0
    /\ pub' = 1
    /\ UNCHANGED <<facts, worker, stream, due, read, page, missed, runs, commands, reads, faults>>

\* Rows on the bus, then the nodes and the plan, then the authoring state.
Publication ==
    /\ pub # 0
    /\ LET rows == pub \in Task
           nodes == Plans /\ pub \in N + 1 .. 2 * N
           plan == Plans /\ pub = 2 * N + 1
       IN  IF rows \/ nodes \/ plan
           THEN /\ facts' = CASE rows -> [facts EXCEPT !.bus[pub] = "pending"]
                              [] nodes -> [facts EXCEPT !.node[pub - N] = "pending"]
                              [] OTHER -> [facts EXCEPT !.plan = "published"]
                /\ pub' = pub + 1
                /\ UNCHANGED due
           ELSE /\ facts' = [facts EXCEPT !.active = "published"]
                /\ pub' = 0
                /\ Answers
    /\ UNCHANGED <<worker, stream, read, page, missed, runs, commands, reads, faults>>

Command(f) ==
    /\ page.frame = "session" /\ commands < MaxCommands
    /\ commands' = commands + 1
    /\ facts' = f
    /\ UNCHANGED <<pub, worker, stream, read, page, missed, runs, reads, faults>>

\* A command with an event of its own appends it before it answers.
Emits == due' = [due EXCEPT !.event = @ + 1]

\* The answer is stored and the task resumed, unless the bus refuses.
AnswerAsk(t) ==
    /\ facts.ask[t] = "pending"
    /\ \/ Command([facts EXCEPT !.ask[t] = "answered", !.bus[t] = "pending"])
       \/ Command([facts EXCEPT !.ask[t] = "answered"])
    /\ Answers

\* A deferred or cancelled ASK fails its task, and nothing tells the plan.
SettleAsk(t) ==
    /\ facts.ask[t] = "pending"
    /\ Command([facts EXCEPT !.ask[t] = "none", !.bus[t] = "failed"])
    /\ Answers

\* audit.records_changed follows the resolution.
ResolveConfirmation(t) ==
    /\ facts.confirm[t] = "pending"
    /\ Command([facts EXCEPT !.confirm[t] = "none", !.bus[t] = "pending"])
    /\ Emits

RetryTask(t) ==
    /\ facts.bus[t] = "failed"
    /\ Command([facts EXCEPT !.bus[t] = "pending"])
    /\ Answers

ArchivePlan ==
    /\ facts.plan \in {"awaiting_acceptance", "failed"}
    /\ Command([facts EXCEPT !.plan = "archived", !.archived = TRUE])
    /\ Emits

CommandEvent ==
    /\ due.event > 0
    /\ Append
    /\ due' = [event |-> due.event - 1, reply |-> due.reply + 1]
    /\ UNCHANGED <<facts, pub, worker, read, page, runs, commands, reads>>

\* Faulty: the answer asks for no refetch.
ReplyWithoutHint ==
    /\ due.reply > 0
    /\ due' = [due EXCEPT !.reply = @ - 1]
    /\ UNCHANGED <<facts, pub, worker, stream, read, page, missed, runs, commands, reads, faults>>

Reply ==
    /\ due.reply > 0
    /\ due' = [due EXCEPT !.reply = @ - 1]
    /\ Refetch
    /\ UNCHANGED <<facts, pub, worker, stream, page, missed, runs, commands, faults>>

-----------------------------------------------------------------------------
(* The snapshot.                                                           *)

Reads(step, fields, next) ==
    /\ read.at = step
    /\ read' = [read EXCEPT !.at = next,
                            !.sec = [x \in DOMAIN facts |-> IF x \in fields THEN facts[x] ELSE read.sec[x]]]

\* _recover_before_snapshot: answered tasks that still wait are resumed, with
\* the callback's sync and event.
RecoverBeforeSnapshot ==
    /\ read.at = "recover"
    /\ LET waiting == {t \in Task : facts.ask[t] = "answered" /\ facts.bus[t] = "waiting_for_user"
                                    /\ facts.confirm[t] # "pending"}
       IN  IF waiting = {}
           THEN /\ read' = [read EXCEPT !.at = "drafts"]
                /\ UNCHANGED <<facts, stream, missed, faults>>
           ELSE LET t == Min(waiting)
                    f == [facts EXCEPT !.bus[t] = "pending"]
                IN  /\ facts' = Synced(f, t, "pending")
                    /\ Append
                    /\ UNCHANGED read
    /\ UNCHANGED <<pub, worker, due, page, runs, commands, reads>>

ReadDrafts ==
    /\ read.at = "drafts"
    /\ read' = [read EXCEPT !.at = "published", !.cards = DraftCards(facts), !.from = stream]
    /\ missed' = [missed EXCEPT !.read = {}]
    /\ UNCHANGED <<facts, pub, worker, stream, due, page, runs, commands, reads, faults>>

ReadPublished ==
    /\ read.at = "published"
    /\ read' = [read EXCEPT !.at = "plan", !.cards = @ \cup PublishedCards(facts),
                            !.sec.confirm = facts.confirm]
    /\ UNCHANGED <<facts, pub, worker, stream, due, page, missed, runs, commands, reads, faults>>

ReadPlan ==
    /\ Reads("plan", {"plan"}, "nodes")
    /\ UNCHANGED <<facts, pub, worker, stream, due, page, missed, runs, commands, reads, faults>>

ReadNodes ==
    /\ Reads("nodes", {"node"}, "archived")
    /\ UNCHANGED <<facts, pub, worker, stream, due, page, missed, runs, commands, reads, faults>>

ReadArchivedPlans ==
    /\ Reads("archived", {"archived"}, "asks")
    /\ UNCHANGED <<facts, pub, worker, stream, due, page, missed, runs, commands, reads, faults>>

ReadAsks ==
    /\ Reads("asks", {"ask"}, "planning")
    /\ UNCHANGED <<facts, pub, worker, stream, due, page, missed, runs, commands, reads, faults>>

ReadPlanning ==
    /\ Reads("planning", {"active", "raw"}, "cursor")
    /\ UNCHANGED <<facts, pub, worker, stream, due, page, missed, runs, commands, reads, faults>>

\* The cursor is read after everything it stands for; the page takes both.
ReadCursor ==
    /\ read.at = "cursor"
    /\ page' = [page EXCEPT !.view = View(read.sec, read.cards), !.cursor = stream, !.frame = "session"]
    /\ missed' = [page |-> missed.read \cup IF stream = read.from THEN {} ELSE {"raced"}, read |-> {}]
    /\ read' = NotReading
    /\ UNCHANGED <<facts, pub, worker, stream, due, runs, commands, reads, faults>>

\* An exception in a read: the query is in error, and the page shows an error frame in place of the
\* session until a snapshot succeeds; it keeps what it had, and its subscription.
SnapshotFails ==
    /\ read.at # "idle" /\ faults < MaxFaults
    /\ faults' = faults + 1
    /\ read' = NotReading
    /\ page' = [page EXCEPT !.frame = "error"]
    /\ UNCHANGED <<facts, pub, worker, stream, due, missed, runs, commands, reads>>

\* A poll returns the events after the cursor; the one seen last is ignored.
Subscribe(cursor) == cursor + 1 .. stream

Poll ==
    /\ Subscribe(page.cursor) \ {page.last} # {}
    /\ page' = [page EXCEPT !.last = stream]
    /\ Refetch
    /\ UNCHANGED <<facts, pub, worker, stream, due, missed, runs, commands, faults>>

-----------------------------------------------------------------------------
WorkerStep ==
    \/ \E t \in Task : Claim(t)
    \/ AgentAsks \/ AgentEnds \/ LoopEvent \/ Commit \/ CallbackSync \/ CallbackEmit

UserStep ==
    \/ AppendSessionInput \/ AnswerAuthoringAsk \/ PublishTaskTree \/ Publication
    \/ \E t \in Task : AnswerAsk(t) \/ SettleAsk(t) \/ ResolveConfirmation(t) \/ RetryTask(t)
    \/ ArchivePlan \/ CommandEvent \/ Reply

SnapshotStep ==
    \/ RecoverBeforeSnapshot \/ ReadDrafts \/ ReadPublished \/ ReadPlan \/ ReadNodes
    \/ ReadArchivedPlans \/ ReadAsks \/ ReadPlanning \/ ReadCursor \/ SnapshotFails \/ Poll

Next == WorkerStep \/ UserStep \/ SnapshotStep

Spec == Init /\ [][Next]_vars

-----------------------------------------------------------------------------
PageTypeOK ==
    /\ facts.bus \in [Task -> BusStatus] /\ facts.node \in [Task -> Execution]
    /\ pub \in 0 .. 2 * N + 2
    /\ worker.task \in 0 .. N /\ stream \in Nat
    /\ due.event \in Nat /\ due.reply \in Nat
    /\ page.cursor \in 0 .. stream /\ page.last \in 0 .. stream
    /\ page.frame \in {"session", "error"}

\* Nothing is under way that would still reach the page by itself.
Quiet ==
    /\ pub = 0 /\ due = [event |-> 0, reply |-> 0] /\ read.at = "idle" /\ worker.step \in {"idle", "run"}
    /\ Subscribe(page.cursor) \ {page.last} = {}

\* The session the page shows, when it shows one and not an error.
Shows == page.frame = "session"

\* A page with no event left to see shows what the stores hold, or an error, unless an event was
\* appended while the snapshot was read (the cursor, read last, covers it), an append failed, or a
\* claim, which appends no event, changed a card read from the bus.
StaleExplained == Quiet /\ Shows /\ page.view # Projection => missed.page # {}

\* A session is shown completed only when every task of it is done, however
\* many steps ran between the reads.
CompletedIsDone ==
    Shows /\ page.view.session = "completed" => \A t \in Task : facts.bus[t] = "done"

\* A question a task waits for is not hidden: the page that is up to date
\* says so, provided the node of a stored plan was synchronised.
QuestionShown ==
    Quiet /\ Shows /\ page.view = Projection =>
    \A t \in Task :
        /\ facts.bus[t] = "waiting_for_user"
        /\ facts.ask[t] = "pending" \/ facts.confirm[t] = "pending"
        /\ Plans => facts.node[t] = "waiting_for_user" \/ facts.plan = "archived"
        => page.view.session = "waiting_user"

\* Once the publication is over no task is shown both as draft and as task, and
\* a plan offered for review is shown as a completed session.
ViewCoherent ==
    Quiet /\ Shows /\ missed.page = {} =>
    /\ Cardinality({c.task : c \in page.view.tree}) = Cardinality(page.view.tree)
    /\ page.view.plan = "ready_for_review" => page.view.session = "completed"

\* A stored plan is on the page as the active or as an archived one, also when it is archived in the
\* middle of a snapshot: the active plan is read before the archived ones.
PlanNeverVanishes ==
    Plans /\ Start = "published" => page.view.plan # "none" \/ page.view.archived

PageSound ==
    /\ PageTypeOK /\ StaleExplained /\ CompletedIsDone /\ QuestionShown /\ ViewCoherent
    /\ PlanNeverVanishes
=============================================================================
