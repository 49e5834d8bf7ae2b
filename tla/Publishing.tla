----------------------------- MODULE Publishing -----------------------------
(***************************************************************************)
(* Publishing task trees with an idempotency key: TaskPublishService       *)
(* (task/publisher_service.py) over the SQLite control plane               *)
(* (task/sqlite_publish.py) and the bus, called by the API endpoint        *)
(* (server/api_publish.py, task/api_publisher.py) and by the scheduler     *)
(* (task/scheduler.py), with the pipeline expansion of task/pipeline.py.   *)
(*                                                                         *)
(* The idempotency records, the audit events and the scheduler state are   *)
(* in publish.sqlite, the tasks on the bus: each call of one of them is a  *)
(* step, and a crash may fall between any two.  Task ids are derived from  *)
(* the key and the node, so a row is identified by that pair; its payload  *)
(* is the request content it was built from.  Requests without a key get   *)
(* fresh ids, touch none of this state and are left out.                   *)
(***************************************************************************)
EXTENDS Integers, Sequences, FiniteSets, Functions

CONSTANTS
    Handler,       \* threads that serve the API
    Scheduler,     \* the thread that runs SchedulerPublisher.tick
    Key,           \* idempotency keys of API requests
    Tree,          \* API requests but for key and id: a task tree and its options
    TreeNode,      \* nodes of task trees
    NodesOf,       \* Tree -> its nodes, parents first: a sequence
    ScheduledNodes,\* the nodes of the scheduled tree
    Pipeline,      \* requests that an enabled pipeline expands: trees and run times
    PipelineNode,  \* the root the pipeline adds
    ScheduleKind,  \* "interval" | "daily" | "cron"
    Every,         \* seconds of the interval, or of a day
    TimeOfDay,     \* of a daily schedule
    Nobody,        \* stands for an absent value
    MaxTime, MaxRequests, MaxPublisherCrashes   \* bounds

Time == 0 .. MaxTime
Content == Tree \cup Time
Caller == Handler \cup {Scheduler}
Keys == Key \cup Time
RequestId == 1 .. MaxRequests
BusNode == TreeNode \cup {PipelineNode}

VARIABLES
    row,       \* tasks on the bus: [Keys -> [BusNode -> payload or Nobody]]
    record,    \* publish_idempotency_records: [Keys -> [hash, accepted] or Nobody]
    audit,     \* publish_audit_events: a set of [kind, key]
    schedule,  \* config and state of the schedule
    now,       \* the clock
    call,      \* locals of the callers
    requests, publisherCrashes   \* counters for the bounds

publishingVars == <<row, record, audit, schedule, now, call, requests, publisherCrashes>>

Outcome == {"published", "existing", "replayed", "conflict", "incomplete", "mismatch",
            "dry_run", "rejected", "error"}

Accepted == {"published", "existing"}

\* The nodes of a request in publish order: the pipeline's root comes first.
TreeNodes(content) == IF content \in Time THEN ScheduledNodes ELSE NodesOf[content]

Expand(content) ==
    IF content \in Pipeline THEN <<PipelineNode>> \o TreeNodes(content) ELSE TreeNodes(content)

\* A request: its key, content, dry_run option and request id.
Request == [key : Keys, content : Content, dry : BOOLEAN, id : RequestId]

\* _request_hash covers everything but the request id; the pipeline's root
\* carries the request id in its metadata, so an expanded request has it.
RequestHash(req) ==
    [content |-> req.content, dry |-> req.dry,
     id |-> IF req.content \in Pipeline THEN req.id ELSE 0]

\* What _task_matches_expected compares, for one node of a request.
Payload(req, n) ==
    [content |-> req.content, id |-> IF n = PipelineNode THEN req.id ELSE 0]

IdleCall == [pc |-> "idle", req |-> Nobody, next |-> 1, outcome |-> Nobody]

PublishingInit ==
    /\ row = [k \in Keys |-> [n \in BusNode |-> Nobody]]
    /\ record = [k \in Keys |-> Nobody]
    /\ audit = {}
    /\ schedule = [config |-> TRUE, state |-> TRUE, last |-> Nobody, next |-> Nobody]
    /\ now = 0
    /\ call = [c \in Caller |-> IdleCall]
    /\ requests = 0 /\ publisherCrashes = 0

Goes(c, pc) == call' = [call EXCEPT ![c].pc = pc]
Replies(c, outcome) == call' = [call EXCEPT ![c] = [@ EXCEPT !.pc = "replied", !.outcome = outcome]]
Emit(kind, req) == audit' = audit \cup {[kind |-> kind, key |-> req.key]}

-----------------------------------------------------------------------------
(* The API endpoint: route, method, actor, body, key, session allowlist,   *)
(* rate limit, tree validation and capability policy are checked before    *)
(* the service is called; any failure is answered at once.                 *)

ApiReceives(h, k, tree, dry) ==
    /\ call[h].pc = "idle"
    /\ requests < MaxRequests
    /\ requests' = requests + 1
    /\ call' = [call EXCEPT ![h] = [@ EXCEPT !.pc = "admit",
                                             !.req = [key |-> k, content |-> tree, dry |-> dry,
                                                      id |-> requests + 1]]]
    /\ UNCHANGED <<row, record, audit, schedule, now, publisherCrashes>>

ApiAdmits(h) ==
    /\ call[h].pc = "admit"
    /\ Goes(h, "lookup") \/ Replies(h, "rejected")
    /\ UNCHANGED <<row, record, audit, schedule, now, requests, publisherCrashes>>

ApiReplies(h) ==
    /\ call[h].pc = "replied"
    /\ call' = [call EXCEPT ![h] = IdleCall]
    /\ UNCHANGED <<row, record, audit, schedule, now, requests, publisherCrashes>>

-----------------------------------------------------------------------------
(* TaskPublishService.publish over DefaultTaskPublisher.publish.           *)

Decides(c, outcome) == call' = [call EXCEPT ![c] = [@ EXCEPT !.pc = "store", !.outcome = outcome]]

\* _check_idempotency, and the preview of a request that has no record.  A
\* pipeline that does not expand is reported before that and not recorded; a
\* request that the preview rejects is recorded as rejected.
LooksUp(c) ==
    /\ call[c].pc = "lookup"
    /\ LET req == call[c].req
           found == record[req.key] IN
       \/ Replies(c, "rejected") /\ Emit("rejected", req)
       \/ found = Nobody /\ Goes(c, "check") /\ Emit("validated", req)
       \/ found = Nobody /\ Decides(c, "rejected") /\ Emit("rejected", req)
       \/ /\ found # Nobody
          /\ found.hash # RequestHash(req)
          /\ Replies(c, "conflict") /\ Emit("idempotency_conflict", req)
       \/ /\ found # Nobody
          /\ found.hash = RequestHash(req)
          /\ Replies(c, "replayed") /\ Emit("idempotent_replayed", req)
    /\ UNCHANGED <<row, record, schedule, now, requests, publisherCrashes>>

\* Faulty: tasks of an interrupted publish are taken for a finished one.
ChecksBusLoosely(c) ==
    /\ call[c].pc = "check"
    /\ LET req == call[c].req
           existing == {n \in Range(Expand(req.content)) : row[req.key][n] # Nobody} IN
       \/ existing = {} /\ Goes(c, "insert")
       \/ existing # {} /\ Decides(c, "existing")
    /\ UNCHANGED <<row, record, audit, schedule, now, requests, publisherCrashes>>

\* _result_from_existing_idempotent_tasks.  What it rejects is reported and
\* not recorded, so that goes straight to the reply.
ChecksBus(c) ==
    /\ call[c].pc = "check"
    /\ LET req == call[c].req
           nodes == Range(Expand(req.content))
           existing == {n \in nodes : row[req.key][n] # Nobody}
           matching == {n \in existing : row[req.key][n] = Payload(req, n)} IN
       \/ req.dry /\ Decides(c, "dry_run") /\ UNCHANGED audit
       \/ ~req.dry /\ existing = {} /\ Goes(c, "insert") /\ UNCHANGED audit
       \/ /\ ~req.dry /\ existing \notin {{}, nodes}
          /\ Replies(c, "incomplete") /\ Emit("rejected", req)
       \/ /\ ~req.dry /\ existing = nodes /\ matching # nodes
          /\ Replies(c, "mismatch") /\ Emit("rejected", req)
       \/ ~req.dry /\ matching = nodes /\ Decides(c, "existing") /\ UNCHANGED audit
    /\ UNCHANGED <<row, record, schedule, now, requests, publisherCrashes>>

\* One TaskBus.publish per node; an id that exists raises out of the service.
Inserts(c) ==
    /\ call[c].pc = "insert"
    /\ LET req == call[c].req
           nodes == Expand(req.content)
           n == nodes[call[c].next] IN
       \/ /\ row[req.key][n] = Nobody
          /\ row' = [row EXCEPT ![req.key][n] = Payload(req, n)]
          /\ IF call[c].next = Len(nodes)
             THEN Decides(c, "published")
             ELSE call' = [call EXCEPT ![c].next = @ + 1]
       \/ /\ row[req.key][n] # Nobody
          /\ Replies(c, "error")
          /\ UNCHANGED row
    /\ UNCHANGED <<record, audit, schedule, now, requests, publisherCrashes>>

\* SqlitePublishIdempotencyStore.put: the first record of a key stays; the
\* conflict a second one raises is suppressed.
Put(req, accepted) ==
    record' = [record EXCEPT ![req.key] =
                 IF @ = Nobody THEN [hash |-> RequestHash(req), accepted |-> accepted] ELSE @]

StoresResult(c) ==
    /\ call[c].pc = "store"
    /\ Put(call[c].req, call[c].outcome \in Accepted)
    /\ Goes(c, "emit")
    /\ UNCHANGED <<row, audit, schedule, now, requests, publisherCrashes>>

\* The audit sink may fail; the result is returned all the same.
EmitsResult(c) ==
    /\ call[c].pc = "emit"
    /\ LET kind == IF call[c].outcome \in Accepted THEN "published" ELSE "rejected" IN
       Emit(kind, call[c].req) \/ UNCHANGED audit
    /\ Goes(c, "replied")
    /\ UNCHANGED <<row, record, schedule, now, requests, publisherCrashes>>

-----------------------------------------------------------------------------
(* SchedulerPublisher.tick for one schedule with the schedule_tick policy. *)

FirstRunAt ==
    CASE ScheduleKind = "cron" -> Nobody
      [] ScheduleKind = "interval" -> now
      [] ScheduleKind = "daily" -> (now \div Every) * Every + TimeOfDay

NextAfter(runAt) ==
    CASE ScheduleKind = "interval" -> runAt + Every
      [] ScheduleKind = "daily" ->
            LET candidate == (runAt \div Every) * Every + TimeOfDay IN
            IF candidate <= runAt THEN candidate + Every ELSE candidate
      [] ScheduleKind = "cron" -> Nobody

\* list_configs: the tick works on this copy of the config.
TickLists ==
    /\ call[Scheduler].pc = "idle"
    /\ schedule.config
    /\ Goes(Scheduler, "tick")
    /\ UNCHANGED <<row, record, audit, schedule, now, requests, publisherCrashes>>

BuildRequest(runAt, id) == [key |-> runAt, content |-> runAt, dry |-> FALSE, id |-> id]

\* _tick_one up to the publish.
TickEvaluates ==
    /\ call[Scheduler].pc = "tick"
    /\ LET runAt == IF schedule.next # Nobody THEN schedule.next ELSE FirstRunAt IN
       \/ /\ ~schedule.state \/ runAt = Nobody \/ (runAt # Nobody /\ runAt > now)
          /\ call' = [call EXCEPT ![Scheduler] = IdleCall]
          /\ UNCHANGED requests
       \/ /\ schedule.state /\ runAt # Nobody /\ runAt <= now
          /\ requests < MaxRequests
          /\ requests' = requests + 1
          /\ call' = [call EXCEPT ![Scheduler] = [@ EXCEPT !.pc = "lookup",
                                                           !.req = BuildRequest(runAt, requests + 1)]]
    /\ UNCHANGED <<row, record, audit, schedule, now, publisherCrashes>>

\* save_state writes the enabled flag it read; an exception of the publish
\* ends the tick before it.
TickSaves ==
    /\ call[Scheduler].pc = "replied"
    /\ schedule' =
         IF call[Scheduler].outcome = "error" THEN schedule
         ELSE LET runAt == call[Scheduler].req.key IN
              [schedule EXCEPT !.state = TRUE, !.last = runAt, !.next = NextAfter(runAt)]
    /\ call' = [call EXCEPT ![Scheduler] = IdleCall]
    /\ UNCHANGED <<row, record, audit, now, requests, publisherCrashes>>

SetEnabled ==
    /\ schedule' = [schedule EXCEPT !.config = ~@, !.state = ~schedule.config]
    /\ UNCHANGED <<row, record, audit, now, call, requests, publisherCrashes>>

Clock ==
    /\ now < MaxTime
    /\ now' = now + 1
    /\ UNCHANGED <<row, record, audit, schedule, call, requests, publisherCrashes>>

PublisherCrash ==
    /\ publisherCrashes < MaxPublisherCrashes
    /\ publisherCrashes' = publisherCrashes + 1
    /\ call' = [c \in Caller |-> IdleCall]
    /\ UNCHANGED <<row, record, audit, schedule, now, requests>>

PublishingNext ==
    \/ \E h \in Handler :
        \/ \E k \in Key, tree \in Tree, dry \in BOOLEAN : ApiReceives(h, k, tree, dry)
        \/ ApiAdmits(h) \/ ApiReplies(h)
    \/ \E c \in Caller :
        LooksUp(c) \/ ChecksBus(c) \/ Inserts(c) \/ StoresResult(c) \/ EmitsResult(c)
    \/ TickLists \/ TickEvaluates \/ TickSaves \/ SetEnabled
    \/ Clock \/ PublisherCrash

PublishingSpec == PublishingInit /\ [][PublishingNext]_publishingVars

-----------------------------------------------------------------------------
(* Properties.                                                             *)

TaskPayload == [content : Content, id : Nat]
Hash == [content : Content, dry : BOOLEAN, id : Nat]
IdempotencyRecord == [hash : Hash, accepted : BOOLEAN]
AuditKind == {"validated", "idempotency_conflict", "idempotent_replayed", "published", "rejected"}
ScheduleState == [config : BOOLEAN, state : BOOLEAN, last : Time \cup {Nobody},
                  next : Nat \cup {Nobody}]
Call == [pc : {"idle", "admit", "tick", "lookup", "check", "insert", "store", "emit", "replied"},
         req : Request \cup {Nobody}, next : Nat, outcome : Outcome \cup {Nobody}]

\* A tree has a node (NormalizedTaskTree.root_nodes); an absent value is like
\* no other.
ASSUME PublishingAssumption ==
    /\ Scheduler \notin Handler
    /\ Key \cap Time = {} /\ Tree \cap Time = {}
    /\ NodesOf \in [Tree -> Seq(TreeNode) \ {<<>>}]
    /\ ScheduledNodes \in Seq(TreeNode) \ {<<>>}
    /\ ScheduleKind \in {"interval", "daily", "cron"}
    /\ Every \in Nat \ {0} /\ TimeOfDay \in 0 .. Every - 1
    /\ MaxTime \in Nat /\ MaxRequests \in Nat /\ MaxPublisherCrashes \in Nat
    /\ Nobody \notin TaskPayload /\ Nobody \notin IdempotencyRecord
    /\ Nobody \notin Nat /\ Nobody \notin Request /\ Nobody \notin Outcome

OnBus(k, content) == \A n \in Range(Expand(content)) : row[k][n] # Nobody

\* The tables, the clock and the locals have their types, and an inserter
\* has a node to insert.
PublishingTypeOK ==
    /\ row \in [Keys -> [BusNode -> TaskPayload \cup {Nobody}]]
    /\ record \in [Keys -> IdempotencyRecord \cup {Nobody}]
    /\ audit \subseteq [kind : AuditKind, key : Keys]
    /\ schedule \in ScheduleState
    /\ now \in Time /\ requests \in 0 .. MaxRequests
    /\ call \in [Caller -> Call]
    /\ \A c \in Caller :
        /\ call[c].pc \notin {"idle", "tick"} => call[c].req \in Request
        /\ call[c].pc = "insert" => call[c].next \in DOMAIN Expand(call[c].req.content)

\* An accepted answer, a record of an accepted publish and a replay of it all
\* stand for a complete task tree with the payload of that request, whatever
\* the other callers did and wherever a crash cut an earlier attempt
\* (_result_from_existing_idempotent_tasks, _store_idempotency).
AcceptedIsComplete ==
    /\ \A c \in Caller : call[c].outcome \in Accepted =>
        \A n \in Range(Expand(call[c].req.content)) :
            row[call[c].req.key][n] # Nobody /\ row[call[c].req.key][n] = Payload(call[c].req, n)
    /\ \A k \in Keys : record[k] # Nobody /\ record[k].accepted => OnBus(k, record[k].hash.content)
    /\ \A e \in audit : e.kind = "published" => \E t \in Content : OnBus(e.key, t)

\* A replay answers the request that was asked: the record it comes from was
\* stored for the same content (_check_idempotency compares the hashes).
ReplayIsTheSameRequest ==
    \A c \in Caller : call[c].outcome = "replayed" /\ record[call[c].req.key].accepted
        => OnBus(call[c].req.key, call[c].req.content)

\* Two runs of a schedule are at least one period apart, although the state is
\* saved after the publish and a crash may come before ("idempotency prevents
\* duplicate task publish on retry when final record exists",
\* docs/plans/feature/publish-persistence-foundation.md).
RunsSpaced ==
    \A r, s \in Time : r < s /\ record[r] # Nobody /\ record[s] # Nobody
        => s - r >= Every

\* Publishing answers truthfully in every race, retry and crash, and a daily
\* schedule keeps its period.  (The first run of an interval schedule is
\* excepted: its time is the tick's, so a crash before save_state moves it.)
PublishSound ==
    /\ PublishingTypeOK /\ AcceptedIsComplete /\ ReplayIsTheSameRequest
    /\ ScheduleKind = "daily" => RunsSpaced

-----------------------------------------------------------------------------
(* The inductive invariant.  A row and a record are written once, so what  *)
(* a caller has seen or written stays so.                                  *)

\* Every node of a request is in the rows with the payload of the request.
Whole(req, rows) ==
    \A n \in Range(Expand(req.content)) : rows[req.key][n] = Payload(req, n)

\* What a caller with locals l knows of the rows and the records.
Knows(l, rows, records) ==
    /\ l.pc \in {"idle", "tick", "admit", "lookup", "check"} => l.next = 1 /\ l.outcome = Nobody
    /\ l.pc = "insert" =>
        /\ l.outcome = Nobody
        /\ \A i \in 1 .. l.next - 1 :
              LET n == Expand(l.req.content)[i] IN rows[l.req.key][n] = Payload(l.req, n)
    /\ l.outcome \in Accepted => Whole(l.req, rows)
    /\ l.outcome = "replayed" =>
        records[l.req.key] # Nobody /\ records[l.req.key].hash = RequestHash(l.req)

\* A run time of a daily schedule.
Slot(t) == \E day \in Nat : t = day * Every + TimeOfDay

\* Only run times are scheduled, published and recorded.
SlotsKept ==
    /\ schedule.next # Nobody => Slot(schedule.next)
    /\ \A t \in Time : record[t] # Nobody => Slot(t)
    /\ \A c \in Caller : call[c].req # Nobody /\ call[c].req.key \in Time => Slot(call[c].req.key)

\* The scheduler's requests have run times for keys (build_request).
ScheduledKey == call[Scheduler].req # Nobody => call[Scheduler].req.key \in Time

PublishingInv ==
    /\ PublishingTypeOK
    /\ \A c \in Caller : Knows(call[c], row, record)
    /\ \A k \in Keys : record[k] # Nobody /\ record[k].accepted => OnBus(k, record[k].hash.content)
    /\ \A e \in audit : e.kind = "published" => \E t \in Content : OnBus(e.key, t)
    /\ ScheduleKind = "daily" => SlotsKept
=============================================================================
