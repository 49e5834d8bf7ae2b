----------------------------- MODULE WeChatSend -----------------------------
(***************************************************************************)
(* The send boundary of the WeChat desktop tool: agents that run a send    *)
(* task, the table of effects keyed by task, the packaged tool that drives *)
(* the application, and the operator who resolves an unknown outcome.      *)
(***************************************************************************)
EXTENDS Naturals, FiniteSets

CONSTANTS
    Agents,       \* agent loops running at a time
    Tasks,        \* send tasks of one session; the key of an effect is its task
    Messages,     \* contact and text of a message
    MaxCalls,     \* tool calls made
    MaxFaults,    \* failures of the effect store
    MaxStops      \* stops of the process

ASSUME SendAssumption == MaxCalls \in Nat /\ MaxFaults \in Nat /\ MaxStops \in Nat

VARIABLES
    rows,         \* wechat_send_boundary_records of each task
    reconciled,   \* tasks with a row in wechat_send_boundary_reconciliations
    sent,         \* messages that left the application: [n, task, message, via]
    input,        \* the chat input: a drafted message or none
    job,          \* the call each agent is in
    answers,      \* observations returned: [task, message, success, status, attempted]
    calls, faults, stops

budgets == <<calls, faults, stops>>
sendVars == <<rows, reconciled, sent, input, job, answers, budgets>>
-----------------------------------------------------------------------------
Empty == "empty"

\* What the tool reads of an observation: sendAttempted is true, false or absent.
Observation(success, status, attempted, submitted) ==
    [success |-> success, status |-> status, attempted |-> attempted, submitted |-> submitted]

Unavailable == Observation(FALSE, "not_available", "no", FALSE)  \* the package did not load
Raised == Observation(FALSE, "failed", "absent", FALSE)           \* the package raised
Sent == Observation(TRUE, "ok", "yes", TRUE)                      \* sent and verified
Unverified == Observation(FALSE, "unknown", "yes", TRUE)          \* submitted, not verified
Refused == Observation(FALSE, "failed", "no", FALSE)              \* no such contact, not ready
TimedOut == Observation(FALSE, "failed", "absent", FALSE)         \* timeout, which maps to failed

TerminalState(o) == IF o.success \/ o.attempted = "no" THEN "completed" ELSE "unknown"

NoRow == [state |-> "none", message |-> Empty, seen |-> Raised]
Claimed(m) == [NoRow EXCEPT !.state = "in_progress", !.message = m]

Idle == [at |-> "idle", task |-> "none", message |-> Empty, seen |-> Raised]
Asking(k, m) == [at |-> "claim", task |-> k, message |-> m, seen |-> Raised]
Goto(j, at) == [j EXCEPT !.at = at]
Returned(j, o) == [j EXCEPT !.at = "record", !.seen = o]
Settled(row, o) == [row EXCEPT !.state = TerminalState(o), !.seen = o]

\* The next message that leaves, by the tool's send or by a submitted draft.
Outgoing(k, m, via) == [n |-> Cardinality(sent), task |-> k, message |-> m, via |-> via]

\* The observations of a package that submitted the message, and of one that did not.
Outcomes(submitted) ==
    IF submitted THEN {Sent, Unverified, Raised, TimedOut}
    ELSE {Unavailable, Refused, Raised, TimedOut, Unverified}

Answer(j, o) ==
    answers' = answers \cup {[task |-> j.task, message |-> j.message, success |-> o.success,
                              status |-> o.status, attempted |-> o.attempted]}
Leave(a) == job' = [job EXCEPT ![a] = Idle]

SendInit ==
    /\ rows = [k \in Tasks |-> NoRow]
    /\ reconciled = {} /\ sent = {} /\ answers = {}
    /\ input = Empty
    /\ job = [a \in Agents |-> Idle]
    /\ calls = 0 /\ faults = 0 /\ stops = 0
-----------------------------------------------------------------------------
(* send_message.                                                            *)

\* An agent, of a first run or of a retry of the task, calls send_message.
Call(a) ==
    /\ job[a] = Idle /\ calls < MaxCalls
    /\ \E k \in Tasks, m \in Messages :
         job' = [job EXCEPT ![a] = Asking(k, m)]
    /\ calls' = calls + 1
    /\ UNCHANGED <<rows, reconciled, sent, input, answers, faults, stops>>

\* The answer to a claim that another call made before.
ClaimAnswer(j, row) ==
    IF row.message # j.message THEN Refused
    ELSE IF row.state = "completed"
         THEN IF j.task \in reconciled THEN [row.seen EXCEPT !.success = TRUE, !.status = "ok"]
              ELSE row.seen
    ELSE IF row.state = "unknown" THEN [row.seen EXCEPT !.success = FALSE, !.status = "unknown"]
    ELSE Observation(FALSE, "unknown", "absent", FALSE)

\* Faulty: a claim that was interrupted may be taken again.
ClaimInterrupted(a) ==
    LET j == job[a]
    IN  /\ j.at = "claim"
        /\ IF rows[j.task].state \in {"none", "in_progress"}
           THEN /\ rows' = [rows EXCEPT ![j.task] = Claimed(j.message)]
                /\ job' = [job EXCEPT ![a] = Goto(j, "package")]
                /\ UNCHANGED answers
           ELSE Answer(j, ClaimAnswer(j, rows[j.task])) /\ Leave(a) /\ UNCHANGED rows
        /\ UNCHANGED <<reconciled, sent, input, budgets>>

\* claim, in one transaction: the first call of a task acquires its effect, every other one is
\* answered from the row.
Claim(a) ==
    LET j == job[a]
    IN  /\ j.at = "claim"
        /\ IF rows[j.task].state = "none"
           THEN /\ rows' = [rows EXCEPT ![j.task] = Claimed(j.message)]
                /\ job' = [job EXCEPT ![a] = Goto(j, "package")]
                /\ UNCHANGED answers
           ELSE Answer(j, ClaimAnswer(j, rows[j.task])) /\ Leave(a) /\ UNCHANGED rows
        /\ UNCHANGED <<reconciled, sent, input, budgets>>

\* The store raises: nothing is attempted.
ClaimFails(a) ==
    /\ job[a].at = "claim" /\ faults < MaxFaults
    /\ Answer(job[a], Refused) /\ Leave(a)
    /\ faults' = faults + 1
    /\ UNCHANGED <<rows, reconciled, sent, input, calls, stops>>

\* run_command: the packaged tool types and submits the message, or stops before that.
RunPackage(a) ==
    LET j == job[a]
    IN  /\ j.at = "package"
        /\ \E submits \in BOOLEAN :
             /\ sent' = IF submits THEN sent \cup {Outgoing(j.task, j.message, "send")} ELSE sent
             /\ input' = IF submits THEN Empty ELSE input
             /\ \E o \in Outcomes(submits) : job' = [job EXCEPT ![a] = Returned(j, o)]
        /\ UNCHANGED <<rows, reconciled, answers, budgets>>

\* complete: the outcome replaces the row in progress.
Record(a) ==
    LET j == job[a]
    IN  /\ j.at = "record"
        /\ rows' = IF rows[j.task].state = "in_progress"
                   THEN [rows EXCEPT ![j.task] = Settled(rows[j.task], j.seen)]
                   ELSE rows
        /\ Answer(j, j.seen) /\ Leave(a)
        /\ UNCHANGED <<reconciled, sent, input, budgets>>

\* The store raises: the outcome is unknown to the agent, the row stays in progress.
RecordFails(a) ==
    /\ job[a].at = "record" /\ faults < MaxFaults
    /\ Answer(job[a], Observation(FALSE, "unknown", job[a].seen.attempted, FALSE)) /\ Leave(a)
    /\ faults' = faults + 1
    /\ UNCHANGED <<rows, reconciled, sent, input, calls, stops>>
-----------------------------------------------------------------------------
(* The other operations, the operator and stops.                            *)

\* draft_message runs without the boundary.
Draft(a) ==
    /\ job[a] = Idle /\ calls < MaxCalls
    /\ \E m \in Messages : input' = m
    /\ calls' = calls + 1
    /\ UNCHANGED <<rows, reconciled, sent, job, answers, faults, stops>>

\* submit_draft runs without the boundary too.
SubmitDraft(a) ==
    /\ job[a] = Idle /\ calls < MaxCalls /\ input # Empty
    /\ \E k \in Tasks : sent' = sent \cup {Outgoing(k, input, "submit")}
    /\ input' = Empty
    /\ calls' = calls + 1
    /\ UNCHANGED <<rows, reconciled, job, answers, faults, stops>>

\* reconcile_unknown_to_completed: the operator has seen exactly one matching outgoing message and
\* an empty input, and the observation of the row says the message was submitted.
Reconcile(k) ==
    /\ rows[k].state = "unknown"
    /\ rows[k].seen.status = "unknown" /\ ~rows[k].seen.success /\ rows[k].seen.submitted
    /\ Cardinality({s \in sent : s.message = rows[k].message}) = 1
    /\ input = Empty
    /\ rows' = [rows EXCEPT ![k] = [@ EXCEPT !.state = "completed"]]
    /\ reconciled' = reconciled \cup {k}
    /\ UNCHANGED <<sent, input, job, answers, budgets>>

\* The process stops; the table stays.
Stop ==
    /\ stops < MaxStops
    /\ \E a \in Agents : job[a] # Idle
    /\ job' = [a \in Agents |-> Idle]
    /\ stops' = stops + 1
    /\ UNCHANGED <<rows, reconciled, sent, input, answers, calls, faults>>

SendNext ==
    \/ \E a \in Agents : \/ Call(a) \/ Claim(a) \/ ClaimFails(a) \/ RunPackage(a)
                         \/ Record(a) \/ RecordFails(a) \/ Draft(a) \/ SubmitDraft(a)
    \/ \E k \in Tasks : Reconcile(k)
    \/ Stop

SendSpec == SendInit /\ [][SendNext]_sendVars
-----------------------------------------------------------------------------
(* Properties.                                                              *)

SentFor(k) == {s \in sent : s.task = k /\ s.via = "send"}
WasSeen(m) == \E s \in sent : s.message = m

\* "After sent, same idempotency key does not send again; after unknown, automatic retry is blocked":
\* over every retry, race and restart send_message sends at most one message of a task (claim).
SendOnce == \A k \in Tasks : Cardinality(SentFor(k)) <= 1

\* An effect that is settled is settled truthfully: a success was sent, what the tool says was not
\* attempted did not leave (_terminal_send_boundary_state), and what the operator reconciled is a
\* message that left, though another task or a draft may have sent the one that was seen.
SettledIsTrue ==
    \A k \in Tasks : rows[k].state = "completed" =>
        IF k \in reconciled THEN WasSeen(rows[k].message)
        ELSE IF rows[k].seen.success THEN \E s \in SentFor(k) : s.message = rows[k].message
        ELSE SentFor(k) = {}

\* No agent is told that its message was sent unless its task sent that text or the operator of the
\* task has seen it (_observation_from_send_claim).
SuccessIsTrue ==
    \A r \in answers : r.success =>
        IF r.task \in reconciled THEN WasSeen(r.message)
        ELSE \E s \in SentFor(r.task) : s.message = r.message

\* One task sends at most once and is told the truth about it.
SendSound == SendOnce /\ SettledIsTrue /\ SuccessIsTrue

\* A settled effect is settled for good, and an unknown one is settled by the operator only.
SettledStays ==
    [][\A k \in Tasks :
         /\ rows[k].state = "completed" => rows'[k] = rows[k]
         /\ (rows[k].state = "unknown" /\ rows'[k] # rows[k]) => k \in reconciled']_sendVars
-----------------------------------------------------------------------------
(* The inductive invariant.                                                 *)

Seen == [success : BOOLEAN, status : {"ok", "failed", "unknown", "not_available"},
         attempted : {"yes", "no", "absent"}, submitted : BOOLEAN]
Row == [state : {"none", "in_progress", "unknown", "completed"},
        message : Messages \cup {Empty}, seen : Seen]
Job == [at : {"idle", "claim", "package", "record"}, task : Tasks \cup {"none"},
        message : Messages \cup {Empty}, seen : Seen]
Message == [n : Nat, task : Tasks, message : Messages \cup {Empty}, via : {"send", "submit"}]
Reply == [task : Tasks, message : Messages \cup {Empty}, success : BOOLEAN,
          status : {"ok", "failed", "unknown", "not_available"}, attempted : {"yes", "no", "absent"}]

SendTypeOK ==
    /\ rows \in [Tasks -> Row] /\ reconciled \in SUBSET Tasks
    /\ sent \in SUBSET Message /\ IsFiniteSet(sent)
    /\ input \in Messages \cup {Empty}
    /\ job \in [Agents -> Job] /\ answers \in SUBSET Reply
    /\ calls \in Nat /\ faults \in Nat /\ stops \in Nat

Working(a) == job[a].at \in {"package", "record"}
SentText(k, m) == \E s \in SentFor(k) : s.message = m

\* A call that is past its claim holds the row of its task, and alone.
ClaimIsExclusive ==
    /\ \A a \in Agents : job[a].at # "idle" => job[a].task \in Tasks
    /\ \A a \in Agents : Working(a) =>
         rows[job[a].task].state = "in_progress" /\ rows[job[a].task].message = job[a].message
    /\ \A a, b \in Agents : Working(a) /\ Working(b) /\ job[a].task = job[b].task => a = b

\* Nothing leaves before the row is claimed, nor while the package has yet to run.
NothingEarly ==
    /\ \A k \in Tasks : rows[k].state = "none" => SentFor(k) = {}
    /\ \A a \in Agents : job[a].at = "package" => SentFor(job[a].task) = {}

\* A task has one outgoing message, which has the text of its row.
OneOutgoing ==
    /\ \A s, u \in sent : s.task = u.task /\ s.via = "send" /\ u.via = "send" => s = u
    /\ \A s \in sent : s.via = "send" => s.message = rows[s.task].message

\* What a package returned, and what a row keeps of it, says what left.
Truthful(o, k) == /\ o.success => SentFor(k) # {}
                  /\ o.attempted = "no" => ~o.success /\ SentFor(k) = {}
SeenIsTrue ==
    /\ \A a \in Agents : job[a].at = "record" => Truthful(job[a].seen, job[a].task)
    /\ \A k \in Tasks : rows[k].state \in {"unknown", "completed"} => Truthful(rows[k].seen, k)
    /\ \A k \in Tasks : rows[k].state = "unknown" => ~rows[k].seen.success
    /\ \A k \in Tasks : rows[k].state = "completed" /\ k \notin reconciled =>
         rows[k].seen.success \/ rows[k].seen.attempted = "no"
    /\ \A k \in reconciled : rows[k].state = "completed" /\ WasSeen(rows[k].message)

SendInv ==
    /\ SendTypeOK /\ ClaimIsExclusive /\ NothingEarly /\ OneOutgoing /\ SeenIsTrue /\ SuccessIsTrue
=============================================================================
