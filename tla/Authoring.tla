----------------------------- MODULE Authoring -----------------------------
(***************************************************************************)
(* The authoring flow of one session: UI commands that turn a prompt into  *)
(* a RawTask, its answers into a draft tree, and the tree into tasks.      *)
(*                                                                         *)
(* A request passes three layers.  The HTTP boundary replays the response  *)
(* stored under the request's idempotency key.  The command gateway checks *)
(* the authoring state and calls the collaborator one or two times.  The   *)
(* authoring command service runs a command under its lock, one SQLite     *)
(* transaction per store it writes, and then remembers the result under    *)
(* the key of the command.  The stores survive a crash; locks and requests *)
(* do not.                                                                 *)
(*                                                                         *)
(* RawTasks and draft trees are numbered in the order of creation.  A tree *)
(* has a root (1) and one child (2).  The text of a node is all that is    *)
(* kept of its content.                                                    *)
(***************************************************************************)
EXTENDS Naturals, Sequences, FiniteSets

CONSTANTS
    Thread,     \* request threads of the sidecar
    Request,    \* the requests clients send: [kind, key, on]
    Plans,      \* is a PlanStore configured?
    MaxSends,   \* bound: requests sent
    MaxCrash    \* bound: crashes

NoKey == "no key"
NoHolder == "nobody"
Nothing == "nothing"

Kind == {"prompt", "generate", "answer", "publish", "edit", "refine", "repair"}
SentKey == {q.key : q \in Request} \ {NoKey}

RequestAssumption ==
    \A q \in Request :
        /\ q.kind \in Kind
        /\ q.kind \in {"edit", "refine"} => q.key = NoKey
        /\ q.kind = "publish" => ~Plans   \* the plan path is in PlanExecution

\* The commands of a request, each with a key of its own.
Part == {"raw", "tree", "answer", "accept", "publish"}

VARIABLES
    raw,        \* RawTaskStore
    tree,       \* DraftTaskStore, with the plan made from each tree
    active,     \* AuthoringStateStore of the session
    record,     \* AuthoringCommandIdempotencyStore: {} or {ok} per command
    response,   \* UiCommandResponseIdempotencyStore: {} or {response} per key
    tasks,      \* tasks put on the bus, in order
    lock,       \* the command service's RLock
    job,        \* what each thread is doing
    given,      \* results sent to clients, per key
    sends, crashes

stores == <<raw, tree, active, tasks>>
vars == <<raw, tree, active, record, response, tasks, lock, job, given, sends, crashes>>

RawTask(feas, ask, key) ==
    [feas |-> feas, ask |-> ask, answered |-> FALSE, key |-> key, version |-> 1,
     status |-> IF ask # Nothing THEN "awaiting_user"
                ELSE CASE feas = "ready" -> "ready_to_plan"
                       [] feas = "unsafe" -> "rejected"
                       [] OTHER -> "created"]

\* _validate_raw_task: awaiting_user needs an unanswered required ask.
ValidRawTask(r) == r.status = "awaiting_user" => r.ask = "required" /\ ~r.answered

ReadyForPlanning(i) == i \in DOMAIN raw /\ raw[i].status = "ready_to_plan"

AllAsksAnswered(i) == i \in DOMAIN raw /\ raw[i].ask # Nothing /\ raw[i].answered

DraftNode == [status |-> "draft", text |-> "draft", version |-> 1]

Idle == [pc |-> "idle", req |-> [kind |-> Nothing, key |-> NoKey, on |-> 0], raw |-> 0, tree |-> 0, version |-> 0,
         feas |-> Nothing, ask |-> Nothing, ok |-> FALSE]

Init ==
    /\ raw = <<>> /\ tree = <<>> /\ tasks = <<>>
    /\ active = [state |-> "none", raw |-> 0, tree |-> 0]
    /\ record = [c \in SentKey \X Part |-> {}]
    /\ response = [k \in SentKey |-> {}]
    /\ lock = NoHolder
    /\ job = [t \in Thread |-> Idle]
    /\ given = [k \in SentKey |-> {}]
    /\ sends = 0 /\ crashes = 0

-----------------------------------------------------------------------------
(* The HTTP boundary.                                                      *)

At(t, pc) == job[t].pc = pc
Goes(t, pc) == job' = [job EXCEPT ![t].pc = pc]
Ends(t, ok) == job' = [job EXCEPT ![t].pc = "respond", ![t].ok = ok]
Req(t) == job[t].req

Send(t, q) ==
    /\ At(t, "idle") /\ sends < MaxSends
    /\ sends' = sends + 1
    /\ job' = [job EXCEPT ![t] = [Idle EXCEPT !.pc = "lookup", !.req = q]]
    /\ UNCHANGED <<stores, record, response, lock, given, crashes>>

\* Where the gateway's handler of a request begins.
Entry(kind) ==
    CASE kind = "prompt"   -> "raw_llm"
      [] kind = "generate" -> "generate_check"
      [] kind = "answer"   -> "answer_check"
      [] kind = "publish"  -> "publish_resolve"
      [] kind = "edit"     -> "edit_read"
      [] kind = "refine"   -> "refine_llm"
      [] kind = "repair"   -> "repair_check"

HttpLookup(t) ==
    /\ At(t, "lookup")
    /\ LET q == Req(t)
           cached == IF q.key = NoKey THEN {} ELSE response[q.key] IN
       \/ /\ cached = {}
          /\ Goes(t, Entry(q.kind)) /\ UNCHANGED given
       \/ \E c \in cached :
          /\ c.req = q
          /\ given' = [given EXCEPT ![q.key] = @ \cup {c.ok}]
          /\ job' = [job EXCEPT ![t] = Idle]
       \/ \E c \in cached :
          /\ c.req # q          \* idempotency_conflict
          /\ job' = [job EXCEPT ![t] = Idle] /\ UNCHANGED given
    /\ UNCHANGED <<stores, record, response, lock, sends, crashes>>

\* The client gets the thread's own result, stored or not.
HttpRespond(t) ==
    /\ At(t, "respond")
    /\ LET q == Req(t) IN
       IF q.key = NoKey THEN UNCHANGED <<response, given>>
       ELSE /\ given' = [given EXCEPT ![q.key] = @ \cup {job[t].ok}]
            /\ response' = IF response[q.key] # {} THEN response
                           ELSE [response EXCEPT ![q.key] = {[req |-> q, ok |-> job[t].ok]}]
    /\ job' = [job EXCEPT ![t] = Idle]
    /\ UNCHANGED <<stores, record, lock, sends, crashes>>

-----------------------------------------------------------------------------
(* The frame of a command in the service: lookup and work under the lock,  *)
(* then the record.                                                        *)

Submits(t, at, part, first, after) ==
    /\ At(t, at)
    /\ lock = NoHolder
    /\ LET known == IF Req(t).key = NoKey THEN {} ELSE record[Req(t).key, part] IN
       \/ /\ known # {}
          /\ job' = [job EXCEPT ![t].pc = after, ![t].ok = TRUE \in known]
          /\ UNCHANGED lock
       \/ /\ known = {}
          /\ Goes(t, first)
          /\ lock' = t
    /\ UNCHANGED <<stores, record, response, given, sends, crashes>>

Remembers(t, at, part, after) ==
    /\ At(t, at)
    /\ record' = IF Req(t).key = NoKey THEN record
                 ELSE [record EXCEPT ![Req(t).key, part] = {job[t].ok}]
    /\ Goes(t, after)
    /\ lock' = NoHolder
    /\ UNCHANGED <<stores, response, given, sends, crashes>>

\* A step of the gateway or of the LLM that writes no store.
Reads == UNCHANGED <<stores, record, response, lock, given, sends, crashes>>

\* A write of one store, by a thread that keeps what else it holds.
Writes(rest) == UNCHANGED <<rest, record, response, lock, given, sends, crashes>>

-----------------------------------------------------------------------------
(* A prompt: a RawTask, and a tree when the RawTask is ready.              *)

\* The collaborator's assessment, or a loop that does not finish.
RawLlm(t) ==
    /\ At(t, "raw_llm")
    /\ \/ \E feas \in {"ready", "needs_clarification", "unsafe"},
             ask \in {Nothing, "required", "optional"} :
             job' = [job EXCEPT ![t].pc = "raw_submit", ![t].feas = feas, ![t].ask = ask]
       \/ Ends(t, FALSE)
    /\ Reads

RawSubmit(t) == Submits(t, "raw_submit", "raw", "raw_create", "raw_done")

RawCreate(t) ==
    /\ At(t, "raw_create")
    /\ LET r == RawTask(job[t].feas, job[t].ask, Req(t).key) IN
       \/ /\ ValidRawTask(r)
          /\ raw' = Append(raw, r)
          /\ job' = [job EXCEPT ![t].pc = "raw_active", ![t].raw = Len(raw) + 1,
                                ![t].ok = TRUE]
       \/ /\ ~ValidRawTask(r)
          /\ job' = [job EXCEPT ![t].pc = "raw_record", ![t].ok = FALSE]
          /\ UNCHANGED raw
    /\ Writes(<<tree, active, tasks>>)

RawActive(t) ==
    /\ At(t, "raw_active")
    /\ active' = [state |-> "raw_task", raw |-> job[t].raw, tree |-> 0]
    /\ Goes(t, "raw_record")
    /\ Writes(<<raw, tree, tasks>>)

RawRecord(t) == Remembers(t, "raw_record", "raw", "raw_done")

\* The gateway looks at the latest RawTask of the session.
RawDone(t) ==
    /\ At(t, "raw_done")
    /\ \/ ~job[t].ok /\ Ends(t, FALSE)
       \/ job[t].ok /\ raw # <<>> /\ ~ReadyForPlanning(Len(raw)) /\ Ends(t, TRUE)
       \/ job[t].ok /\ ReadyForPlanning(Len(raw)) /\ Goes(t, "tree_context")
    /\ Reads

GenerateCheck(t) ==
    /\ At(t, "generate_check")
    /\ IF ReadyForPlanning(Req(t).on) THEN Goes(t, "tree_context") ELSE Ends(t, FALSE)
    /\ Reads

-----------------------------------------------------------------------------
(* Tree generation.                                                        *)

\* build_session_context: the RawTask named, or the latest one.
TreeContext(t) ==
    /\ At(t, "tree_context")
    /\ job' = [job EXCEPT ![t].pc = "tree_llm",
                          ![t].raw = IF Req(t).kind = "prompt" THEN Len(raw) ELSE Req(t).on]
    /\ Reads

TreeLlm(t) ==
    /\ At(t, "tree_llm")
    /\ Goes(t, "tree_submit") \/ Ends(t, FALSE)
    /\ Reads

TreeSubmit(t) == Submits(t, "tree_submit", "tree", "tree_create", "respond")

TreeCreate(t) ==
    /\ At(t, "tree_create")
    /\ tree' = Append(tree, [raw |-> job[t].raw, key |-> Req(t).key, plan |-> FALSE,
                             version |-> 1, node |-> <<DraftNode>>])
    /\ job' = [job EXCEPT ![t].pc = "tree_child", ![t].tree = Len(tree) + 1]
    /\ Writes(<<raw, active, tasks>>)

TreeChild(t) ==
    /\ At(t, "tree_child")
    /\ tree' = [tree EXCEPT ![job[t].tree].node = Append(@, DraftNode),
                            ![job[t].tree].version = @ + 1]
    /\ Goes(t, "tree_plan")
    /\ Writes(<<raw, active, tasks>>)

TreePlan(t) ==
    /\ At(t, "tree_plan")
    /\ tree' = [tree EXCEPT ![job[t].tree].plan = Plans]
    /\ Goes(t, "tree_active")
    /\ Writes(<<raw, active, tasks>>)

TreeActive(t) ==
    /\ At(t, "tree_active")
    /\ active' = [state |-> "draft_tree", raw |-> job[t].raw, tree |-> job[t].tree]
    /\ job' = [job EXCEPT ![t].pc = "tree_record", ![t].ok = TRUE]
    /\ Writes(<<raw, tree, tasks>>)

TreeRecord(t) == Remembers(t, "tree_record", "tree", "respond")

-----------------------------------------------------------------------------
(* Answering the asks of a RawTask.                                        *)

Superseded ==
    \/ active.state \in {"draft_tree", "published", "cancelled"}
    \/ active.state = "raw_task" /\ tasks # <<>>

AnswerCheck(t) ==
    /\ At(t, "answer_check")
    /\ IF Superseded THEN Ends(t, FALSE) ELSE Goes(t, "answer_submit")
    /\ Reads

AnswerSubmit(t) == Submits(t, "answer_submit", "answer", "answer_save", "answer_done")

\* The ask must exist and be unanswered.
AnswerSave(t) ==
    /\ At(t, "answer_save")
    /\ LET i == Req(t).on
           fits == i \in DOMAIN raw /\ raw[i].ask # Nothing /\ ~raw[i].answered IN
       /\ raw' = IF fits
                 THEN [raw EXCEPT ![i].answered = TRUE, ![i].status = "assessing",
                                  ![i].version = @ + 1]
                 ELSE raw
       /\ job' = [job EXCEPT ![t].pc = "answer_record", ![t].ok = fits]
    /\ Writes(<<tree, active, tasks>>)

AnswerRecord(t) == Remembers(t, "answer_record", "answer", "answer_done")

AnswerDone(t) ==
    /\ At(t, "answer_done")
    /\ IF job[t].ok /\ AllAsksAnswered(Req(t).on)
       THEN Goes(t, "tree_context") ELSE Ends(t, job[t].ok)
    /\ Reads

-----------------------------------------------------------------------------
(* Publishing the active draft tree: accept it, then publish it.           *)

Statuses(i) == {tree[i].node[n].status : n \in DOMAIN tree[i].node}

WithStatus(i, status) ==
    [tree EXCEPT ![i].version = @ + 1,
                 ![i].node = [n \in DOMAIN @ |-> [@[n] EXCEPT !.status = status,
                                                             !.version = @ + 1]]]

\* _resolve_publish_draft_tree_id: the active tree, also once published.
PublishResolve(t) ==
    /\ At(t, "publish_resolve")
    /\ IF \/ active.state = "draft_tree"
          \/ active.state = "published" /\ Req(t).key # NoKey
       THEN job' = [job EXCEPT ![t].pc = "accept_submit", ![t].tree = active.tree]
       ELSE Ends(t, FALSE)
    /\ Reads

AcceptSubmit(t) == Submits(t, "accept_submit", "accept", "accept", "accept_done")

Accept(t) ==
    /\ At(t, "accept")
    /\ LET i == job[t].tree
           fits == Statuses(i) \subseteq {"draft", "accepted"} IN
       /\ tree' = IF fits THEN WithStatus(i, "accepted") ELSE tree
       /\ job' = [job EXCEPT ![t].pc = "accept_record", ![t].ok = fits]
    /\ Writes(<<raw, active, tasks>>)

AcceptRecord(t) == Remembers(t, "accept_record", "accept", "accept_done")

AcceptDone(t) ==
    /\ At(t, "accept_done")
    /\ IF job[t].ok THEN Goes(t, "publish_submit") ELSE Ends(t, FALSE)
    /\ Reads

PublishSubmit(t) == Submits(t, "publish_submit", "publish", "publish_check", "publish_done")

\* Every node must be accepted; the version read here guards the mark.
PublishCheck(t) ==
    /\ At(t, "publish_check")
    /\ job' = IF Statuses(job[t].tree) = {"accepted"}
              THEN [job EXCEPT ![t].pc = "publish_tasks",
                               ![t].version = tree[job[t].tree].version]
              ELSE [job EXCEPT ![t].pc = "publish_record", ![t].ok = FALSE]
    /\ Reads

\* publish_draft_tree sends no idempotency key: the task ids are new.
PublishTasks(t) ==
    /\ At(t, "publish_tasks")
    /\ LET i == job[t].tree IN
       tasks' = tasks \o [n \in DOMAIN tree[i].node |->
                            [tree |-> i, node |-> n, text |-> tree[i].node[n].text]]
    /\ Goes(t, "publish_mark")
    /\ Writes(<<raw, tree, active>>)

PublishMark(t) ==
    /\ At(t, "publish_mark")
    /\ LET i == job[t].tree
           fits == tree[i].version = job[t].version /\ "cancelled" \notin Statuses(i) IN
       /\ tree' = IF fits THEN WithStatus(i, "published") ELSE tree
       /\ job' = [job EXCEPT ![t].pc = IF fits THEN "publish_active" ELSE "publish_record",
                             ![t].ok = fits]
    /\ Writes(<<raw, active, tasks>>)

\* SqliteAuthoringStateStore.mark_published raises unless the tree is active.
PublishActive(t) ==
    /\ At(t, "publish_active")
    /\ LET fits == active.tree = job[t].tree IN
       /\ active' = IF fits THEN [active EXCEPT !.state = "published"] ELSE active
       /\ job' = [job EXCEPT ![t].pc = "publish_record", ![t].ok = fits]
    /\ Writes(<<raw, tree, tasks>>)

PublishRecord(t) == Remembers(t, "publish_record", "publish", "publish_done")

\* The gateway marks the state once more after an accepted publish.
PublishDone(t) ==
    /\ At(t, "publish_done")
    /\ LET fits == active.tree = job[t].tree IN
       /\ active' = IF job[t].ok /\ fits THEN [active EXCEPT !.state = "published"] ELSE active
       /\ Ends(t, job[t].ok /\ fits)
    /\ Writes(<<raw, tree, tasks>>)

-----------------------------------------------------------------------------
(* Edits of a draft node, by the user and by the collaborator.             *)

Node(t) == tree[Req(t).on].node[1]

\* _update_draft_task: read, then a save that expects the version read.
EditRead(t) ==
    /\ At(t, "edit_read")
    /\ IF Req(t).on \in DOMAIN tree /\ Node(t).status = "draft"
       THEN job' = [job EXCEPT ![t].pc = "edit_write", ![t].version = Node(t).version]
       ELSE Ends(t, FALSE)
    /\ Reads

\* Faulty: the store looks at the version of the node and not at its status.
UpdateAnyStatus(t, text, status) ==
    IF Node(t).version = job[t].version
    THEN [tree EXCEPT ![Req(t).on].version = @ + 1,
                      ![Req(t).on].node[1] = [status |-> status, text |-> text,
                                              version |-> @.version + 1]]
    ELSE tree

\* DraftTaskStore.update_node: only a draft node, only the version expected.
UpdateNode(t, text, status) ==
    IF Node(t).status = "draft" /\ Node(t).version = job[t].version
    THEN [tree EXCEPT ![Req(t).on].version = @ + 1,
                      ![Req(t).on].node[1] = [status |-> status, text |-> text,
                                              version |-> @.version + 1]]
    ELSE tree

EditWrite(t) ==
    /\ At(t, "edit_write")
    /\ tree' = UpdateNode(t, "user", "draft")
    /\ Ends(t, tree' # tree)
    /\ Writes(<<raw, active, tasks>>)

\* The proposal of the collaborator may also cancel the node.
RefineLlm(t) ==
    /\ At(t, "refine_llm")
    /\ \/ Req(t).on \in DOMAIN tree /\ Goes(t, "refine_submit")
       \/ Ends(t, FALSE)
    /\ Reads

RefineSubmit(t) == Submits(t, "refine_submit", "tree", "refine_read", "respond")

RefineRead(t) ==
    /\ At(t, "refine_read")
    /\ job' = [job EXCEPT ![t].pc = "refine_write", ![t].version = Node(t).version]
    /\ Reads

RefineWrite(t) ==
    /\ At(t, "refine_write")
    /\ \E status \in {"draft", "cancelled"} : tree' = UpdateNode(t, "llm", status)
    /\ job' = [job EXCEPT ![t].pc = "refine_record", ![t].ok = tree' # tree]
    /\ Writes(<<raw, active, tasks>>)

RefineRecord(t) == Remembers(t, "refine_record", "tree", "respond")

-----------------------------------------------------------------------------
(* Repair, crash, and the whole.                                           *)

\* repair_authoring_state: a raw task is active though work is published.
RepairCheck(t) ==
    /\ At(t, "repair_check")
    /\ IF active.state = "raw_task" /\ tasks # <<>>
       THEN Goes(t, "repair_cancel") ELSE Ends(t, FALSE)
    /\ Reads

\* cancel_active reads the state again.
RepairCancel(t) ==
    /\ At(t, "repair_cancel")
    /\ active' = IF active.state = "none" THEN active
                 ELSE [active EXCEPT !.state = "cancelled"]
    /\ Ends(t, TRUE)
    /\ Writes(<<raw, tree, tasks>>)

Crash ==
    /\ crashes < MaxCrash
    /\ \E t \in Thread : ~At(t, "idle")
    /\ crashes' = crashes + 1
    /\ lock' = NoHolder
    /\ job' = [t \in Thread |-> Idle]
    /\ UNCHANGED <<stores, record, response, given, sends>>

Step(t) ==
    \/ HttpLookup(t) \/ HttpRespond(t)
    \/ RawLlm(t) \/ RawSubmit(t) \/ RawCreate(t) \/ RawActive(t) \/ RawRecord(t) \/ RawDone(t)
    \/ GenerateCheck(t) \/ TreeContext(t) \/ TreeLlm(t) \/ TreeSubmit(t) \/ TreeCreate(t)
    \/ TreeChild(t) \/ TreePlan(t) \/ TreeActive(t) \/ TreeRecord(t)
    \/ AnswerCheck(t) \/ AnswerSubmit(t) \/ AnswerSave(t) \/ AnswerRecord(t) \/ AnswerDone(t)
    \/ PublishResolve(t) \/ AcceptSubmit(t) \/ Accept(t) \/ AcceptRecord(t) \/ AcceptDone(t)
    \/ PublishSubmit(t) \/ PublishCheck(t) \/ PublishTasks(t) \/ PublishMark(t)
    \/ PublishActive(t) \/ PublishRecord(t) \/ PublishDone(t)
    \/ EditRead(t) \/ EditWrite(t) \/ RefineLlm(t) \/ RefineSubmit(t) \/ RefineRead(t)
    \/ RefineWrite(t) \/ RefineRecord(t) \/ RepairCheck(t) \/ RepairCancel(t)

Next ==
    \/ \E t \in Thread : Step(t) \/ \E q \in Request : Send(t, q)
    \/ Crash

Spec == Init /\ [][Next]_vars

-----------------------------------------------------------------------------
(* Properties.                                                             *)

TypeOK ==
    /\ \A i \in DOMAIN raw :
        /\ ValidRawTask(raw[i])
        /\ raw[i].status \in {"created", "awaiting_user", "ready_to_plan", "rejected",
                              "assessing"}
    /\ \A i \in DOMAIN tree :
        /\ tree[i].raw \in DOMAIN raw
        /\ Statuses(i) \subseteq {"draft", "accepted", "published", "cancelled"}
    /\ active.state \in {"none", "raw_task", "draft_tree", "published", "cancelled"}
    /\ active.raw \in 0..Len(raw) /\ active.tree \in 0..Len(tree)
    /\ record \in [SentKey \X Part -> SUBSET BOOLEAN]
    /\ lock \in Thread \cup {NoHolder}
    /\ \A k \in SentKey : given[k] \subseteq BOOLEAN

\* A key makes at most one RawTask and one draft tree, and a draft node
\* becomes at most one task: what the idempotency records are for.
OncePerKey ==
    /\ \A k \in SentKey : /\ Cardinality({i \in DOMAIN raw : raw[i].key = k}) <= 1
                      /\ Cardinality({i \in DOMAIN tree : tree[i].key = k}) <= 1
    /\ \A i, j \in DOMAIN tasks :
        <<tasks[i].tree, tasks[i].node>> = <<tasks[j].tree, tasks[j].node>> => i = j

\* Retries, repeated and concurrent requests alone never do the work of a
\* key twice.
OnceWithoutCrash == crashes = 0 => OncePerKey

\* The tree a session points at is whole, whatever crash came between the
\* transactions of create_tree: its descendants are stored and so is its plan.
ActiveTreeComplete ==
    active.tree # 0 => /\ Len(tree[active.tree].node) = 2
                       /\ tree[active.tree].plan = Plans

\* The executor runs what the user sees in the draft: no edit reaches a node
\* whose task is on the bus.
PublishedMatchesDraft ==
    \A i \in DOMAIN tasks : tasks[i].text = tree[tasks[i].tree].node[tasks[i].node].text

\* A draft node that says it is published has its task on the bus.
PublishedHasTasks ==
    \A i \in DOMAIN tree : \A n \in DOMAIN tree[i].node :
        tree[i].node[n].status = "published" =>
            \E j \in DOMAIN tasks : tasks[j].tree = i /\ tasks[j].node = n

\* A remembered success is backed by what the command was to store, so a
\* replay never reports work that a crash has undone.
RecordTellsTruth ==
    \A k \in SentKey :
        /\ TRUE \in record[k, "raw"] => \E i \in DOMAIN raw : raw[i].key = k
        /\ TRUE \in record[k, "tree"] =>
             \E i \in DOMAIN tree : tree[i].key = k /\ Len(tree[i].node) = 2

\* Authoring does its work once per key, and what it says it did is there:
\* records, the active tree and published nodes, in every interleaving of the
\* request threads and across a crash between two stores.
AuthoringSound ==
    /\ TypeOK /\ OnceWithoutCrash /\ ActiveTreeComplete /\ RecordTellsTruth
    /\ PublishedMatchesDraft /\ PublishedHasTasks
=============================================================================
