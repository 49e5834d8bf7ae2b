--------------------------- MODULE WorkspaceProofs --------------------------
(***************************************************************************)
(* Proofs about what agents and the user change in a workspace.            *)
(*                                                                         *)
(* The send boundary: for every set of agents, tasks and messages and any  *)
(* number of calls, store failures and stops, a task sends at most one     *)
(* message and nobody is told otherwise.  A call that is past its claim    *)
(* holds the in_progress row of its task alone, since only the first claim *)
(* of a task makes that row and no step takes it back.  Nothing of the     *)
(* task has left before the package of that call runs, and nobody runs it  *)
(* again.                                                                  *)
(*                                                                         *)
(* Runtime configuration: for every registry, set of patches and threads   *)
(* and any number of requests and crashes, the ledger takes a patch once   *)
(* and whole.  A job that has inserted a change holds it alone until it    *)
(* answers.  A request that is served alone holds the last change and has  *)
(* read the overrides in force, so that setting its level loses none.      *)
(*                                                                         *)
(* Precision files: for every set of threads, operations and texts and any *)
(* number of calls, retries, faults, edits by the user and stops, the file *)
(* holds an operation at most once and the record is true.  A row is       *)
(* inserted with a request whose content has no line of its operation, for *)
(* until then no content anyone holds has one; every later call of the     *)
(* operation writes over that same content.                                *)
(*                                                                         *)
(* Settings: for every set of threads, requests and providers, every       *)
(* environment and files that complete updates left, and any number of     *)
(* requests, crashes and failing writes, the two files stay readable and   *)
(* lose nothing unless two writes of one file overlapped.  Without a clash *)
(* a writer holds its temporary alone, the two files never share an inode, *)
(* and a document that is not stale is the file's with one update applied; *)
(* what config.json names has its key or has it pending, because a key     *)
(* once stored is only ever replaced.                                      *)
(***************************************************************************)
EXTENDS WeChatSend, RuntimeConfig, PrecisionFiles, Settings, FiniteSetTheorems, SequenceTheorems, TLAPS

-----------------------------------------------------------------------------
(* Observations, rows, jobs and messages.                                   *)

\* Every observation of the tool is one.
LEMMA SeenShape ==
    /\ Unavailable \in Seen /\ Raised \in Seen /\ Sent \in Seen
    /\ Unverified \in Seen /\ Refused \in Seen /\ TimedOut \in Seen
  BY DEF Unavailable, Raised, Sent, Unverified, Refused, TimedOut, Observation, Seen

\* What the package returns (_execute_package) tells whether the message left.
LEMMA OutcomeShape ==
    ASSUME NEW submits \in BOOLEAN, NEW o \in Outcomes(submits)
    PROVE  /\ o \in Seen
           /\ o.success => submits
           /\ o.attempted = "no" => ~o.success /\ ~submits
  <1>0. /\ ~Unavailable.success /\ ~Refused.success
        /\ ~Raised.success /\ Raised.attempted = "absent"
        /\ ~TimedOut.success /\ TimedOut.attempted = "absent"
        /\ ~Unverified.success /\ Unverified.attempted = "yes"
        /\ Sent.attempted = "yes"
    BY DEF Unavailable, Refused, Raised, TimedOut, Unverified, Sent, Observation
  <1>1. CASE submits
    <2>1. o = Sent \/ o = Unverified \/ o = Raised \/ o = TimedOut
      BY <1>1 DEF Outcomes
    <2>. QED
      BY <1>0, <1>1, <2>1, SeenShape
  <1>2. CASE ~submits
    <2>1. o = Unavailable \/ o = Refused \/ o = Raised \/ o = TimedOut \/ o = Unverified
      BY <1>2 DEF Outcomes
    <2>. QED
      BY <1>0, <1>2, <2>1, SeenShape
  <1>. QED
    BY <1>1, <1>2

\* A terminal state says what the observation says (_terminal_send_boundary_state).
LEMMA TerminalShape ==
    ASSUME NEW o \in Seen
    PROVE  /\ TerminalState(o) \in {"completed", "unknown"}
           /\ TerminalState(o) = "completed" => o.success \/ o.attempted = "no"
           /\ TerminalState(o) = "unknown" => ~o.success
  BY DEF TerminalState, Seen

\* The row of a first claim.
LEMMA ClaimedShape ==
    ASSUME NEW m \in Messages \cup {Empty}
    PROVE  /\ Claimed(m) \in Row
           /\ Claimed(m).state = "in_progress" /\ Claimed(m).message = m
  BY SeenShape DEF Claimed, NoRow, Row

\* A row with its outcome (complete).
LEMMA SettledShape ==
    ASSUME NEW row \in Row, NEW o \in Seen
    PROVE  /\ Settled(row, o) \in Row
           /\ Settled(row, o).state = TerminalState(o)
           /\ Settled(row, o).message = row.message /\ Settled(row, o).seen = o
  BY TerminalShape DEF Settled, Row

\* An agent that is in no call.
LEMMA IdleShape == Idle \in Job /\ Idle.at = "idle"
  BY SeenShape DEF Idle, Job

\* A call that begins.
LEMMA AskingShape ==
    ASSUME NEW k \in Tasks, NEW m \in Messages
    PROVE  /\ Asking(k, m) \in Job
           /\ Asking(k, m).at = "claim" /\ Asking(k, m).task = k
  BY SeenShape DEF Asking, Job

\* A call whose claim was acquired.
LEMMA GotoShape ==
    ASSUME NEW j \in Job
    PROVE  /\ Goto(j, "package") \in Job
           /\ Goto(j, "package").at = "package" /\ Goto(j, "package").task = j.task
           /\ Goto(j, "package").message = j.message
  BY DEF Goto, Job

\* A call whose package has returned.
LEMMA ReturnedShape ==
    ASSUME NEW j \in Job, NEW o \in Seen
    PROVE  /\ Returned(j, o) \in Job
           /\ Returned(j, o).at = "record" /\ Returned(j, o).task = j.task
           /\ Returned(j, o).message = j.message /\ Returned(j, o).seen = o
  BY DEF Returned, Job

\* A message that leaves is a message.
LEMMA OutgoingShape ==
    ASSUME SendTypeOK, NEW k \in Tasks, NEW m \in Messages \cup {Empty}, NEW via \in {"send", "submit"}
    PROVE  /\ Outgoing(k, m, via) \in Message
           /\ Outgoing(k, m, via).task = k /\ Outgoing(k, m, via).message = m
           /\ Outgoing(k, m, via).via = via
  <1>1. Cardinality(sent) \in Nat
    BY FS_CardinalityType DEF SendTypeOK
  <1>. QED
    BY <1>1 DEF Outgoing, Message

\* The answer to a claim made before is an observation, and a success only if
\* the row is completed (_observation_from_send_claim).
LEMMA ClaimAnswerShape ==
    ASSUME NEW j \in Job, NEW row \in Row
    PROVE  /\ ClaimAnswer(j, row) \in Seen
           /\ ClaimAnswer(j, row).success =>
                /\ row.message = j.message /\ row.state = "completed"
                /\ j.task \in reconciled \/ row.seen.success
  <1>1. row.seen \in Seen
    BY DEF Row
  <1>2. /\ [row.seen EXCEPT !.success = TRUE, !.status = "ok"] \in Seen
        /\ [row.seen EXCEPT !.success = FALSE, !.status = "unknown"] \in Seen
        /\ ~[row.seen EXCEPT !.success = FALSE, !.status = "unknown"].success
    BY <1>1 DEF Seen
  <1>3. /\ Observation(FALSE, "unknown", "absent", FALSE) \in Seen
        /\ ~Observation(FALSE, "unknown", "absent", FALSE).success
    BY DEF Observation, Seen
  <1>4. ~Refused.success
    BY DEF Refused, Observation
  <1>. QED
    BY <1>1, <1>2, <1>3, <1>4, SeenShape DEF ClaimAnswer
-----------------------------------------------------------------------------
(* What the steps share.                                                    *)

\* Only the rows, the messages that left and the calls past their claim
\* matter to what has been claimed and sent: steps that leave these alone, or
\* only end or begin calls, keep it.
LEMMA CallsEnd ==
    ASSUME SendInv, job' \in [Agents -> Job],
           \A a \in Agents : \/ job'[a] = job[a]
                             \/ job'[a].at = "idle"
                             \/ job'[a].at = "claim" /\ job'[a].task \in Tasks,
           UNCHANGED <<rows, reconciled, sent>>
    PROVE  (ClaimIsExclusive /\ NothingEarly /\ OneOutgoing /\ SeenIsTrue)'
  <1>1. \A a \in Agents : job'[a].at \in {"package", "record"} => job'[a] = job[a]
    OBVIOUS
  <1>2. ClaimIsExclusive'
    BY <1>1 DEF SendInv, ClaimIsExclusive, Working
  <1>3. NothingEarly'
    BY <1>1 DEF SendInv, NothingEarly, SentFor
  <1>4. OneOutgoing'
    BY DEF SendInv, OneOutgoing
  <1>5. SeenIsTrue'
    BY <1>1 DEF SendInv, SeenIsTrue, Truthful, SentFor, WasSeen
  <1>. QED
    BY <1>2, <1>3, <1>4, <1>5

\* An answer that is a success only when the message left, or was seen.
LEMMA AnswerKeeps ==
    ASSUME SendInv, NEW a \in Agents, NEW o \in Seen, job[a].task \in Tasks,
           Answer(job[a], o), UNCHANGED <<reconciled, sent>>,
           o.success => IF job[a].task \in reconciled THEN WasSeen(job[a].message)
                        ELSE SentText(job[a].task, job[a].message)
    PROVE  answers' \in SUBSET Reply /\ SuccessIsTrue'
  <1>1. job[a] \in Job
    BY DEF SendInv, SendTypeOK
  <1>2. PICK r : /\ r = [task |-> job[a].task, message |-> job[a].message, success |-> o.success,
                         status |-> o.status, attempted |-> o.attempted]
                 /\ answers' = answers \cup {r}
    BY DEF Answer
  <1>3. /\ r \in Reply
        /\ r.task = job[a].task /\ r.message = job[a].message /\ r.success = o.success
    BY <1>1, <1>2 DEF Reply, Job, Seen
  <1>4. answers' \in SUBSET Reply
    BY <1>2, <1>3 DEF SendInv, SendTypeOK
  <1>5. ASSUME NEW u \in answers', u.success
        PROVE  IF u.task \in reconciled THEN WasSeen(u.message) ELSE SentText(u.task, u.message)
    <2>1. CASE u \in answers
      BY <1>5, <2>1 DEF SendInv, SuccessIsTrue, SentText
    <2>2. CASE u = r
      BY <1>3, <1>5, <2>2
    <2>. QED
      BY <1>2, <2>1, <2>2
  <1>6. SuccessIsTrue'
    BY <1>5 DEF SuccessIsTrue, WasSeen, SentFor, SentText
  <1>. QED
    BY <1>4, <1>6

\* Answers stay true while messages only leave.
LEMMA AnswersStay ==
    ASSUME SendInv, answers' = answers, sent \subseteq sent', reconciled' = reconciled
    PROVE  SuccessIsTrue'
  BY DEF SendInv, SuccessIsTrue, WasSeen, SentFor
-----------------------------------------------------------------------------
(* The steps.                                                               *)

\* Nothing is claimed or sent at the start.
LEMMA SendStarts == SendInit => SendInv
  <1>. SUFFICES ASSUME SendInit PROVE SendInv
    OBVIOUS
  <1>1. NoRow \in Row /\ NoRow.state = "none"
    BY SeenShape DEF NoRow, Row
  <1>2. \A k \in Tasks : rows[k] = NoRow
    BY DEF SendInit
  <1>3. \A a \in Agents : job[a] = Idle
    BY DEF SendInit
  <1>4. SendTypeOK
    BY <1>1, IdleShape, FS_EmptySet DEF SendInit, SendTypeOK
  <1>5. ClaimIsExclusive
    BY <1>3, IdleShape DEF ClaimIsExclusive, Working
  <1>6. NothingEarly /\ OneOutgoing
    BY <1>3, IdleShape DEF NothingEarly, OneOutgoing, SentFor, SendInit
  <1>7. SeenIsTrue
    BY <1>1, <1>2, <1>3, IdleShape DEF SeenIsTrue, SendInit
  <1>8. SuccessIsTrue
    BY DEF SuccessIsTrue, SendInit
  <1>. QED
    BY <1>4, <1>5, <1>6, <1>7, <1>8 DEF SendInv

\* A call begins.
LEMMA CallKeeps ==
    ASSUME SendInv, NEW a \in Agents, Call(a)
    PROVE  SendInv'
  <1>1. PICK k \in Tasks, m \in Messages : job' = [job EXCEPT ![a] = Asking(k, m)]
    BY DEF Call
  <1>2. job' \in [Agents -> Job]
    BY <1>1, AskingShape DEF SendInv, SendTypeOK
  <1>3. (ClaimIsExclusive /\ NothingEarly /\ OneOutgoing /\ SeenIsTrue)'
    <2>1. \A b \in Agents : \/ job'[b] = job[b]
                            \/ job'[b].at = "claim" /\ job'[b].task \in Tasks
      BY <1>1, AskingShape DEF SendInv, SendTypeOK
    <2>. QED
      BY <1>2, <2>1, CallsEnd DEF Call
  <1>4. SendTypeOK'
    BY <1>2 DEF SendInv, SendTypeOK, Call
  <1>5. SuccessIsTrue'
    BY AnswersStay DEF Call
  <1>. QED
    BY <1>3, <1>4, <1>5 DEF SendInv

\* A call ends with an answer and changes nothing else: a claim that is not
\* the first, and a store that raises.
LEMMA LeaveKeeps ==
    ASSUME SendInv, NEW a \in Agents, NEW o \in Seen, job[a].at # "idle",
           Answer(job[a], o), Leave(a), UNCHANGED <<rows, reconciled, sent, input>>,
           calls' \in Nat, faults' \in Nat, stops' \in Nat,
           o.success => IF job[a].task \in reconciled THEN WasSeen(job[a].message)
                        ELSE SentText(job[a].task, job[a].message)
    PROVE  SendInv'
  <1>1. job[a].task \in Tasks
    BY DEF SendInv, ClaimIsExclusive
  <1>2. answers' \in SUBSET Reply /\ SuccessIsTrue'
    BY <1>1, AnswerKeeps
  <1>3. job' \in [Agents -> Job] /\ \A b \in Agents : job'[b] = job[b] \/ job'[b].at = "idle"
    BY IdleShape DEF Leave, SendInv, SendTypeOK
  <1>4. (ClaimIsExclusive /\ NothingEarly /\ OneOutgoing /\ SeenIsTrue)'
    BY <1>3, CallsEnd
  <1>5. SendTypeOK'
    BY <1>2, <1>3 DEF SendInv, SendTypeOK
  <1>. QED
    BY <1>2, <1>4, <1>5 DEF SendInv

\* A completed row answers with a success only for a message that left.
LEMMA CompletedIsTrue ==
    ASSUME SendInv, NEW k \in Tasks, rows[k].state = "completed",
           k \in reconciled \/ rows[k].seen.success
    PROVE  IF k \in reconciled THEN WasSeen(rows[k].message) ELSE SentText(k, rows[k].message)
  <1>1. CASE k \in reconciled
    BY <1>1 DEF SendInv, SeenIsTrue
  <1>2. CASE k \notin reconciled
    <2>1. SentFor(k) # {}
      BY <1>2 DEF SendInv, SeenIsTrue, Truthful
    <2>. QED
      BY <1>2, <2>1 DEF SendInv, OneOutgoing, SentText, SentFor
  <1>. QED
    BY <1>1, <1>2

\* The first claim of a task takes its row; every other one is answered.
LEMMA ClaimKeeps ==
    ASSUME SendInv, NEW a \in Agents, Claim(a)
    PROVE  SendInv'
  <1>1. /\ job[a] \in Job /\ job[a].at = "claim" /\ job[a].task \in Tasks
        /\ job[a].message \in Messages \cup {Empty}
    BY DEF SendInv, SendTypeOK, ClaimIsExclusive, Claim, Job
  <1>2. PICK k \in Tasks : k = job[a].task
    BY <1>1
  <1>3. rows[k] \in Row
    BY DEF SendInv, SendTypeOK
  <1>4. UNCHANGED <<reconciled, sent, input, calls, faults, stops>>
    BY DEF Claim, budgets
  <1>5. CASE rows[k].state = "none"
    <2>1. PICK j \in Job : j = job[a]
      BY <1>1
    <2>2. PICK l \in Job : l = Goto(j, "package")
      BY GotoShape
    <2>3. l.at = "package" /\ l.task = k /\ l.message = job[a].message
      BY <1>2, <2>1, <2>2, GotoShape
    <2>4. PICK row \in Row : row = Claimed(job[a].message)
      BY <1>1, ClaimedShape
    <2>5. row.state = "in_progress" /\ row.message = job[a].message
      BY <1>1, <2>4, ClaimedShape
    <2>6. /\ rows' = [rows EXCEPT ![k] = row] /\ job' = [job EXCEPT ![a] = l]
          /\ answers' = answers
      BY <1>2, <1>5, <2>1, <2>2, <2>4 DEF Claim
    <2>7. /\ rows' \in [Tasks -> Row] /\ rows'[k] = row
          /\ \A t \in Tasks : t # k => rows'[t] = rows[t]
      BY <2>6 DEF SendInv, SendTypeOK
    <2>8. /\ job' \in [Agents -> Job] /\ job'[a] = l
          /\ \A b \in Agents : b # a => job'[b] = job[b]
      BY <2>6 DEF SendInv, SendTypeOK
    <2>9. SentFor(k) = {} /\ k \notin reconciled
      BY <1>5 DEF SendInv, NothingEarly, SeenIsTrue
    <2>10. \A b \in Agents : Working(b) => job[b].task \in Tasks /\ job[b].task # k
      BY <1>5 DEF SendInv, ClaimIsExclusive, Working
    <2>11. SendTypeOK'
      BY <1>4, <2>6, <2>7, <2>8 DEF SendInv, SendTypeOK
    <2>12. ClaimIsExclusive'
      <3>1. \A b \in Agents : job'[b].at # "idle" => job'[b].task \in Tasks
        BY <2>3, <2>8 DEF SendInv, ClaimIsExclusive
      <3>2. \A b \in Agents : Working(b)' =>
              /\ rows'[job'[b].task].state = "in_progress"
              /\ rows'[job'[b].task].message = job'[b].message
        BY <2>3, <2>5, <2>7, <2>8, <2>10 DEF SendInv, ClaimIsExclusive, Working
      <3>3. \A b, c \in Agents : Working(b)' /\ Working(c)' /\ job'[b].task = job'[c].task => b = c
        BY <2>3, <2>8, <2>10 DEF SendInv, ClaimIsExclusive, Working
      <3>. QED
        BY <3>1, <3>2, <3>3 DEF ClaimIsExclusive
    <2>13. NothingEarly'
      BY <1>4, <2>3, <2>5, <2>7, <2>8, <2>9 DEF SendInv, NothingEarly, SentFor
    <2>14. OneOutgoing'
      BY <1>4, <2>7, <2>9 DEF SendInv, OneOutgoing, SentFor, SendTypeOK, Message
    <2>15. SeenIsTrue'
      BY <1>4, <2>3, <2>5, <2>7, <2>8, <2>9
         DEF SendInv, SeenIsTrue, Truthful, SentFor, WasSeen, SendTypeOK
    <2>16. SuccessIsTrue'
      BY <1>4, <2>6, AnswersStay
    <2>. QED
      BY <2>11, <2>12, <2>13, <2>14, <2>15, <2>16 DEF SendInv
  <1>6. CASE rows[k].state # "none"
    <2>1. /\ Answer(job[a], ClaimAnswer(job[a], rows[k])) /\ Leave(a) /\ UNCHANGED rows
      BY <1>2, <1>6 DEF Claim
    <2>2. PICK o \in Seen : o = ClaimAnswer(job[a], rows[k])
      BY <1>1, <1>3, ClaimAnswerShape
    <2>3. o.success => IF job[a].task \in reconciled THEN WasSeen(job[a].message)
                       ELSE SentText(job[a].task, job[a].message)
      BY <1>1, <1>2, <1>3, <2>2, ClaimAnswerShape, CompletedIsTrue
    <2>4. calls' \in Nat /\ faults' \in Nat /\ stops' \in Nat
      BY <1>4 DEF SendInv, SendTypeOK
    <2>. QED
      BY <1>1, <1>4, <2>1, <2>2, <2>3, <2>4, LeaveKeeps
  <1>. QED
    BY <1>5, <1>6

\* The store raises before the claim or after the package: the call is
\* answered without a success.
LEMMA FailsKeep ==
    ASSUME SendInv, NEW a \in Agents, ClaimFails(a) \/ RecordFails(a)
    PROVE  SendInv'
  <1>1. job[a] \in Job /\ job[a].seen \in Seen
    BY DEF SendInv, SendTypeOK, Job
  <1>2. PICK u \in {"yes", "no", "absent"} : u = job[a].seen.attempted
    BY <1>1 DEF Seen
  <1>3. /\ Observation(FALSE, "unknown", u, FALSE) \in Seen
        /\ ~Observation(FALSE, "unknown", u, FALSE).success
    BY DEF Observation, Seen
  <1>4. ~Refused.success
    BY DEF Refused, Observation
  <1>5. PICK o \in Seen : ~o.success /\ Answer(job[a], o)
    BY <1>2, <1>3, <1>4, SeenShape DEF ClaimFails, RecordFails
  <1>6. calls' \in Nat /\ faults' \in Nat /\ stops' \in Nat
    <2>1. calls \in Nat /\ faults \in Nat /\ stops \in Nat
      BY DEF SendInv, SendTypeOK
    <2>2. calls' = calls /\ faults' = faults + 1 /\ stops' = stops
      BY DEF ClaimFails, RecordFails
    <2>. QED
      BY <2>1, <2>2
  <1>7. /\ job[a].at # "idle" /\ Leave(a)
        /\ UNCHANGED <<rows, reconciled, sent, input>>
    BY DEF ClaimFails, RecordFails
  <1>. QED
    BY <1>5, <1>6, <1>7, LeaveKeeps

\* The process stops: every call ends, the table stays.
LEMMA StopKeeps ==
    ASSUME SendInv, Stop
    PROVE  SendInv'
  <1>1. job' \in [Agents -> Job] /\ \A a \in Agents : job'[a].at = "idle"
    BY IdleShape DEF Stop
  <1>2. (ClaimIsExclusive /\ NothingEarly /\ OneOutgoing /\ SeenIsTrue)'
    BY <1>1, CallsEnd DEF Stop
  <1>3. SendTypeOK'
    BY <1>1 DEF SendInv, SendTypeOK, Stop
  <1>4. SuccessIsTrue'
    BY AnswersStay DEF Stop
  <1>. QED
    BY <1>2, <1>3, <1>4 DEF SendInv

\* A draft is typed.
LEMMA DraftKeeps ==
    ASSUME SendInv, NEW a \in Agents, Draft(a)
    PROVE  SendInv'
  <1>1. (ClaimIsExclusive /\ NothingEarly /\ OneOutgoing /\ SeenIsTrue)'
    BY CallsEnd DEF Draft, SendInv, SendTypeOK
  <1>2. SendTypeOK'
    BY DEF SendInv, SendTypeOK, Draft
  <1>3. SuccessIsTrue'
    BY AnswersStay DEF Draft
  <1>. QED
    BY <1>1, <1>2, <1>3 DEF SendInv

\* A submitted draft leaves the application and is no message of the boundary.
LEMMA SubmitKeeps ==
    ASSUME SendInv, NEW a \in Agents, SubmitDraft(a)
    PROVE  SendInv'
  <1>1. input \in Messages \cup {Empty}
    BY DEF SendInv, SendTypeOK
  <1>2. PICK k \in Tasks : sent' = sent \cup {Outgoing(k, input, "submit")}
    BY DEF SubmitDraft
  <1>3. PICK s \in Message : s = Outgoing(k, input, "submit")
    BY <1>1, OutgoingShape DEF SendInv
  <1>4. s.via = "submit"
    BY <1>1, <1>3, OutgoingShape DEF SendInv
  <1>5. /\ sent' = sent \cup {s}
        /\ UNCHANGED <<rows, reconciled, job, answers, faults, stops>>
    BY <1>2, <1>3 DEF SubmitDraft
  <1>6. \A t \in Tasks : SentFor(t)' = SentFor(t)
    BY <1>4, <1>5 DEF SentFor
  <1>7. \A m : WasSeen(m) => WasSeen(m)'
    BY <1>5 DEF WasSeen
  <1>8. SendTypeOK'
    <2>1. sent' \in SUBSET Message /\ IsFiniteSet(sent')
      BY <1>5, FS_AddElement DEF SendInv, SendTypeOK
    <2>. QED
      BY <1>5, <2>1 DEF SendInv, SendTypeOK, SubmitDraft
  <1>9. ClaimIsExclusive'
    BY <1>5 DEF SendInv, ClaimIsExclusive, Working
  <1>10. NothingEarly'
    BY <1>5, <1>6 DEF SendInv, NothingEarly, ClaimIsExclusive
  <1>11. OneOutgoing'
    BY <1>4, <1>5 DEF SendInv, OneOutgoing
  <1>12. SeenIsTrue'
    BY <1>5, <1>6, <1>7 DEF SendInv, SeenIsTrue, ClaimIsExclusive, Truthful, SendTypeOK
  <1>13. SuccessIsTrue'
    BY <1>5, AnswersStay
  <1>. QED
    BY <1>8, <1>9, <1>10, <1>11, <1>12, <1>13 DEF SendInv

\* The package runs for the call that holds the row: the first and only
\* message of the task leaves, or none does.
LEMMA PackageKeeps ==
    ASSUME SendInv, NEW a \in Agents, RunPackage(a)
    PROVE  SendInv'
  <1>. DEFINE Later(t) == {u \in sent' : u.task = t /\ u.via = "send"}
  <1>1. /\ job[a] \in Job /\ job[a].at = "package" /\ job[a].task \in Tasks
        /\ job[a].message \in Messages \cup {Empty}
    BY DEF SendInv, SendTypeOK, ClaimIsExclusive, RunPackage, Job
  <1>2. PICK j \in Job : j = job[a]
    BY <1>1
  <1>3. PICK k \in Tasks, m \in Messages \cup {Empty} : k = job[a].task /\ m = job[a].message
    BY <1>1
  <1>4. PICK submits \in BOOLEAN :
          /\ sent' = IF submits THEN sent \cup {Outgoing(k, m, "send")} ELSE sent
          /\ input' = IF submits THEN Empty ELSE input
          /\ \E o \in Outcomes(submits) : job' = [job EXCEPT ![a] = Returned(j, o)]
    BY <1>2, <1>3 DEF RunPackage
  <1>5a. PICK o \in Outcomes(submits) : job' = [job EXCEPT ![a] = Returned(j, o)]
    BY <1>4
  <1>5. /\ o \in Seen /\ (o.success => submits)
        /\ o.attempted = "no" => ~o.success /\ ~submits
    BY OutcomeShape
  <1>6. PICK l \in Job : l = Returned(j, o)
    BY <1>5, ReturnedShape
  <1>7. l.at = "record" /\ l.task = k /\ l.message = m /\ l.seen = o
    BY <1>2, <1>3, <1>5, <1>6, ReturnedShape
  <1>8. /\ job' \in [Agents -> Job] /\ job'[a] = l
        /\ \A b \in Agents : b # a => job'[b] = job[b]
    BY <1>5a, <1>6 DEF SendInv, SendTypeOK
  <1>9. UNCHANGED <<rows, reconciled, answers, calls, faults, stops>>
    BY DEF RunPackage, budgets
  <1>10. PICK s \in Message : s = Outgoing(k, m, "send")
    BY OutgoingShape DEF SendInv
  <1>11. s.task = k /\ s.message = m /\ s.via = "send"
    BY <1>10, OutgoingShape DEF SendInv
  <1>12. sent' = IF submits THEN sent \cup {s} ELSE sent
    BY <1>4, <1>10
  <1>13. /\ SentFor(k) = {} /\ rows[k].state = "in_progress" /\ rows[k].message = m
         /\ k \notin reconciled
         /\ \A b \in Agents : b # a /\ Working(b) => job[b].task # k
    BY <1>1, <1>3 DEF SendInv, NothingEarly, ClaimIsExclusive, Working, SeenIsTrue
  <1>14. /\ \A t \in Tasks : t # k => Later(t) = SentFor(t)
         /\ Later(k) = IF submits THEN {s} ELSE {}
    BY <1>11, <1>12, <1>13 DEF SentFor
  <1>15. \A t : SentFor(t)' = Later(t)
    BY DEF SentFor
  <1>. HIDE DEF Later
  <1>16. SendTypeOK'
    <2>1. sent' \in SUBSET Message /\ IsFiniteSet(sent')
      BY <1>12, FS_AddElement DEF SendInv, SendTypeOK
    <2>2. input' \in Messages \cup {Empty}
      BY <1>4 DEF SendInv, SendTypeOK
    <2>. QED
      BY <1>8, <1>9, <2>1, <2>2 DEF SendInv, SendTypeOK
  <1>17. ClaimIsExclusive'
    <2>1. \A b \in Agents : job'[b].at # "idle" => job'[b].task \in Tasks
      BY <1>7, <1>8 DEF SendInv, ClaimIsExclusive
    <2>2. \A b \in Agents : Working(b)' =>
            rows[job'[b].task].state = "in_progress" /\ rows[job'[b].task].message = job'[b].message
      BY <1>7, <1>8, <1>13 DEF SendInv, ClaimIsExclusive, Working
    <2>3. \A b, c \in Agents : Working(b)' /\ Working(c)' /\ job'[b].task = job'[c].task => b = c
      BY <1>7, <1>8, <1>13 DEF SendInv, ClaimIsExclusive, Working
    <2>. QED
      BY <1>9, <2>1, <2>2, <2>3 DEF ClaimIsExclusive
  <1>18. NothingEarly'
    <2>1. \A t \in Tasks : rows[t].state = "none" => Later(t) = {}
      BY <1>13, <1>14 DEF SendInv, NothingEarly
    <2>2. \A b \in Agents : job'[b].at = "package" => Later(job'[b].task) = {}
      BY <1>7, <1>8, <1>13, <1>14 DEF SendInv, NothingEarly, ClaimIsExclusive, Working
    <2>. QED
      BY <1>9, <1>15, <2>1, <2>2 DEF NothingEarly
  <1>19. OneOutgoing'
    BY <1>9, <1>11, <1>12, <1>13 DEF SendInv, OneOutgoing, SentFor
  <1>20. SeenIsTrue'
    <2>1. \A b \in Agents : job'[b].at = "record" =>
            /\ job'[b].seen.success => Later(job'[b].task) # {}
            /\ job'[b].seen.attempted = "no" => ~job'[b].seen.success /\ Later(job'[b].task) = {}
      <3>1. Later(k) # {} <=> submits
        BY <1>14
      <3>2. /\ l.seen.success => Later(k) # {}
            /\ l.seen.attempted = "no" => ~l.seen.success /\ Later(k) = {}
        BY <1>5, <1>7, <3>1
      <3>3. \A b \in Agents : b # a /\ job[b].at = "record" =>
              /\ job[b].seen.success => Later(job[b].task) # {}
              /\ job[b].seen.attempted = "no" => ~job[b].seen.success /\ Later(job[b].task) = {}
        BY <1>13, <1>14 DEF SendInv, SeenIsTrue, Truthful, ClaimIsExclusive, Working
      <3>. QED
        BY <1>7, <1>8, <3>2, <3>3
    <2>2. \A t \in Tasks : rows[t].state \in {"unknown", "completed"} =>
            /\ rows[t].seen.success => Later(t) # {}
            /\ rows[t].seen.attempted = "no" => ~rows[t].seen.success /\ Later(t) = {}
      BY <1>13, <1>14 DEF SendInv, SeenIsTrue, Truthful
    <2>3. \A t \in reconciled' : rows'[t].state = "completed" /\ WasSeen(rows[t].message)'
      BY <1>9, <1>12 DEF SendInv, SeenIsTrue, WasSeen
    <2>. QED
      BY <1>9, <1>15, <2>1, <2>2, <2>3 DEF SendInv, SeenIsTrue, Truthful
  <1>21. SuccessIsTrue'
    BY <1>9, <1>12, AnswersStay
  <1>. QED
    BY <1>16, <1>17, <1>18, <1>19, <1>20, <1>21 DEF SendInv

\* The call that holds the row records what it saw and is answered.
LEMMA RecordKeeps ==
    ASSUME SendInv, NEW a \in Agents, Record(a)
    PROVE  SendInv'
  <1>1. /\ job[a] \in Job /\ job[a].at = "record" /\ job[a].task \in Tasks
        /\ job[a].seen \in Seen
    BY DEF SendInv, SendTypeOK, ClaimIsExclusive, Record, Job
  <1>2. PICK k \in Tasks, o \in Seen : k = job[a].task /\ o = job[a].seen
    BY <1>1
  <1>3. /\ rows[k] \in Row /\ rows[k].state = "in_progress" /\ rows[k].message = job[a].message
        /\ \A b \in Agents : b # a /\ Working(b) => job[b].task # k
        /\ k \notin reconciled
    BY <1>1, <1>2 DEF SendInv, SendTypeOK, ClaimIsExclusive, Working, SeenIsTrue
  <1>4. /\ o.success => SentFor(k) # {}
        /\ o.attempted = "no" => ~o.success /\ SentFor(k) = {}
    BY <1>1, <1>2 DEF SendInv, SeenIsTrue, Truthful
  <1>5. PICK row \in Row : row = Settled(rows[k], o)
    BY <1>3, SettledShape
  <1>6. /\ row.state \in {"completed", "unknown"} /\ row.message = rows[k].message
        /\ row.seen = o
        /\ row.state = "completed" => o.success \/ o.attempted = "no"
        /\ row.state = "unknown" => ~o.success
    BY <1>3, <1>5, SettledShape, TerminalShape
  <1>7. /\ rows' = [rows EXCEPT ![k] = row] /\ Answer(job[a], o) /\ Leave(a)
        /\ UNCHANGED <<reconciled, sent, input, calls, faults, stops>>
    BY <1>2, <1>3, <1>5 DEF Record, budgets
  <1>8. /\ rows' \in [Tasks -> Row] /\ rows'[k] = row
        /\ \A t \in Tasks : t # k => rows'[t] = rows[t]
    BY <1>7 DEF SendInv, SendTypeOK
  <1>9. /\ job' \in [Agents -> Job] /\ job'[a].at = "idle"
        /\ \A b \in Agents : b # a => job'[b] = job[b]
    BY <1>7, IdleShape DEF Leave, SendInv, SendTypeOK
  <1>10. answers' \in SUBSET Reply /\ SuccessIsTrue'
    <2>1. o.success => SentText(k, job[a].message)
      BY <1>3, <1>4 DEF SendInv, OneOutgoing, SentText, SentFor
    <2>. QED
      BY <1>1, <1>2, <1>3, <1>7, <2>1, AnswerKeeps
  <1>11. SendTypeOK'
    BY <1>7, <1>8, <1>9, <1>10 DEF SendInv, SendTypeOK
  <1>12. ClaimIsExclusive'
    <2>1. \A b \in Agents : job'[b].at # "idle" => job'[b] = job[b] /\ b # a
      BY <1>9
    <2>2. \A b \in Agents : Working(b)' => Working(b) /\ job[b].task \in Tasks \ {k}
      BY <1>3, <2>1 DEF Working, SendInv, ClaimIsExclusive
    <2>. QED
      BY <1>8, <2>1, <2>2 DEF SendInv, ClaimIsExclusive, Working
  <1>13. NothingEarly'
    BY <1>6, <1>7, <1>8, <1>9 DEF SendInv, NothingEarly, SentFor
  <1>14. OneOutgoing'
    BY <1>6, <1>7, <1>8 DEF SendInv, OneOutgoing, SendTypeOK, Message
  <1>15. SeenIsTrue'
    <2>1. \A t : SentFor(t)' = SentFor(t) /\ WasSeen(t)' = WasSeen(t)
      BY <1>7 DEF SentFor, WasSeen
    <2>2. \A b \in Agents : job'[b].at = "record" => Truthful(job[b].seen, job[b].task) /\ job'[b] = job[b]
      BY <1>9 DEF SendInv, SeenIsTrue
    <2>3. \A t \in Tasks : rows'[t].state \in {"unknown", "completed"} =>
            /\ rows'[t].seen.success => SentFor(t) # {}
            /\ rows'[t].seen.attempted = "no" => ~rows'[t].seen.success /\ SentFor(t) = {}
      BY <1>4, <1>6, <1>8 DEF SendInv, SeenIsTrue, Truthful
    <2>4. /\ \A t \in Tasks : rows'[t].state = "unknown" => ~rows'[t].seen.success
          /\ \A t \in Tasks : rows'[t].state = "completed" /\ t \notin reconciled =>
               rows'[t].seen.success \/ rows'[t].seen.attempted = "no"
      BY <1>6, <1>8 DEF SendInv, SeenIsTrue
    <2>5. \A t \in reconciled : /\ rows'[t] = rows[t] /\ rows[t].state = "completed"
                                /\ WasSeen(rows[t].message)
      BY <1>3, <1>8 DEF SendInv, SeenIsTrue, SendTypeOK
    <2>. QED
      BY <1>7, <2>1, <2>2, <2>3, <2>4, <2>5 DEF SeenIsTrue, Truthful
  <1>. QED
    BY <1>10, <1>11, <1>12, <1>13, <1>14, <1>15 DEF SendInv

\* The operator settles an unknown row whose text was seen.
LEMMA ReconcileKeeps ==
    ASSUME SendInv, NEW k \in Tasks, Reconcile(k)
    PROVE  SendInv'
  <1>1. rows[k] \in Row /\ rows[k].state = "unknown"
    BY DEF SendInv, SendTypeOK, Reconcile
  <1>2. PICK row \in Row : row = [rows[k] EXCEPT !.state = "completed"]
    BY <1>1 DEF Row
  <1>3. row.state = "completed" /\ row.message = rows[k].message /\ row.seen = rows[k].seen
    BY <1>1, <1>2 DEF Row
  <1>4. /\ rows' = [rows EXCEPT ![k] = row] /\ reconciled' = reconciled \cup {k}
        /\ UNCHANGED <<sent, input, job, answers, calls, faults, stops>>
    BY <1>2 DEF Reconcile, budgets
  <1>5. /\ rows' \in [Tasks -> Row] /\ rows'[k] = row
        /\ \A t \in Tasks : t # k => rows'[t] = rows[t]
    BY <1>4 DEF SendInv, SendTypeOK
  <1>6. \A t : SentFor(t)' = SentFor(t) /\ WasSeen(t)' = WasSeen(t)
    BY <1>4 DEF SentFor, WasSeen
  <1>7. WasSeen(rows[k].message)
    <2>1. Cardinality({s \in sent : s.message = rows[k].message}) = 1
      BY DEF Reconcile
    <2>2. {s \in sent : s.message = rows[k].message} # {}
      BY <2>1, FS_EmptySet
    <2>. QED
      BY <2>2 DEF WasSeen
  <1>8. SendTypeOK'
    BY <1>4, <1>5 DEF SendInv, SendTypeOK
  <1>9. ClaimIsExclusive'
    <2>1. \A b \in Agents : Working(b) => job[b].task \in Tasks \ {k}
      BY <1>1 DEF SendInv, ClaimIsExclusive, Working
    <2>. QED
      BY <1>4, <1>5, <2>1 DEF SendInv, ClaimIsExclusive, Working
  <1>10. NothingEarly'
    BY <1>3, <1>4, <1>5, <1>6 DEF SendInv, NothingEarly
  <1>11. OneOutgoing'
    BY <1>3, <1>4, <1>5 DEF SendInv, OneOutgoing, SendTypeOK, Message
  <1>12. SeenIsTrue'
    BY <1>1, <1>3, <1>4, <1>5, <1>6, <1>7 DEF SendInv, SeenIsTrue, Truthful, SendTypeOK
  <1>13. SuccessIsTrue'
    BY <1>4, <1>6 DEF SendInv, SuccessIsTrue, SentFor, WasSeen
  <1>. QED
    BY <1>8, <1>9, <1>10, <1>11, <1>12, <1>13 DEF SendInv
-----------------------------------------------------------------------------
(* The theorems.                                                            *)

\* Every step of every actor keeps the invariant.
LEMMA SendStep == SendInv /\ [SendNext]_sendVars => SendInv'
  <1>. SUFFICES ASSUME SendInv, [SendNext]_sendVars PROVE SendInv'
    OBVIOUS
  <1>1. CASE \E a \in Agents : Call(a)
    BY <1>1, CallKeeps
  <1>2. CASE \E a \in Agents : Claim(a)
    BY <1>2, ClaimKeeps
  <1>3. CASE \E a \in Agents : ClaimFails(a) \/ RecordFails(a)
    BY <1>3, FailsKeep
  <1>4. CASE \E a \in Agents : RunPackage(a)
    BY <1>4, PackageKeeps
  <1>5. CASE \E a \in Agents : Record(a)
    BY <1>5, RecordKeeps
  <1>6. CASE \E a \in Agents : Draft(a)
    BY <1>6, DraftKeeps
  <1>7. CASE \E a \in Agents : SubmitDraft(a)
    BY <1>7, SubmitKeeps
  <1>8. CASE \E k \in Tasks : Reconcile(k)
    BY <1>8, ReconcileKeeps
  <1>9. CASE Stop
    BY <1>9, StopKeeps
  <1>10. CASE UNCHANGED sendVars
    <2>1. UNCHANGED <<rows, reconciled, sent, input, job, answers, calls, faults, stops>>
      BY <1>10 DEF sendVars, budgets
    <2>2. (ClaimIsExclusive /\ NothingEarly /\ OneOutgoing /\ SeenIsTrue)'
      BY <2>1, CallsEnd DEF SendInv, SendTypeOK
    <2>3. SuccessIsTrue'
      BY <2>1, AnswersStay
    <2>4. SendTypeOK'
      BY <2>1 DEF SendInv, SendTypeOK
    <2>. QED
      BY <2>2, <2>3, <2>4 DEF SendInv
  <1>. QED
    BY <1>1, <1>2, <1>3, <1>4, <1>5, <1>6, <1>7, <1>8, <1>9, <1>10 DEF SendNext

\* The rows, the calls and the messages that left agree in every reachable
\* state: a call past its claim holds its task's row alone, nothing leaves
\* before, and rows and answers say what left.
THEOREM SendInvariant == SendSpec => []SendInv
  BY SendStarts, SendStep, PTL DEF SendSpec

\* The invariant gives what the boundary promises.
LEMMA SendInvIsSound == SendInv => SendSound
  <1>. SUFFICES ASSUME SendInv PROVE SendSound
    OBVIOUS
  <1>1. SendOnce
    <2>. SUFFICES ASSUME NEW k \in Tasks PROVE Cardinality(SentFor(k)) <= 1
      BY DEF SendOnce
    <2>1. CASE SentFor(k) = {}
      BY <2>1, FS_EmptySet
    <2>2. CASE SentFor(k) # {}
      <3>1. PICK s \in SentFor(k) : TRUE
        BY <2>2
      <3>2. SentFor(k) = {s}
        BY <3>1 DEF SendInv, OneOutgoing, SentFor
      <3>. QED
        BY <3>2, FS_Singleton
    <2>. QED
      BY <2>1, <2>2
  <1>2. SettledIsTrue
    <2>. SUFFICES ASSUME NEW k \in Tasks, rows[k].state = "completed"
                  PROVE  IF k \in reconciled THEN WasSeen(rows[k].message)
                         ELSE IF rows[k].seen.success THEN SentText(k, rows[k].message)
                         ELSE SentFor(k) = {}
      BY DEF SettledIsTrue, SentText
    <2>1. CASE k \in reconciled \/ rows[k].seen.success
      BY <2>1, CompletedIsTrue
    <2>2. CASE k \notin reconciled /\ ~rows[k].seen.success
      BY <2>2 DEF SendInv, SeenIsTrue, Truthful
    <2>. QED
      BY <2>1, <2>2
  <1>. QED
    BY <1>1, <1>2 DEF SendInv, SendSound

\* Over every retry, race, failure and restart send_message sends at most one
\* message of a task, a completed effect says what left, and a success is
\* reported only for a message that left or that the operator saw.
THEOREM SendIsSound == SendSpec => []SendSound
  BY SendInvariant, SendInvIsSound, PTL

\* A completed effect never changes, and an unknown one is settled by
\* reconcile_unknown_to_completed only: no retry and no late outcome of an
\* interrupted call rewrites it.
THEOREM SettledForGood == SendSpec => SettledStays
  <1>1. SendInv /\ [SendNext]_sendVars =>
          [\A k \in Tasks :
             /\ rows[k].state = "completed" => rows'[k] = rows[k]
             /\ (rows[k].state = "unknown" /\ rows'[k] # rows[k]) => k \in reconciled']_sendVars
    <2>. SUFFICES ASSUME SendInv, SendNext, NEW k \in Tasks, rows'[k] # rows[k]
                  PROVE  /\ rows[k].state # "completed"
                         /\ rows[k].state = "unknown" => k \in reconciled'
      BY DEF sendVars
    <2>0. rows \in [Tasks -> Row]
      BY DEF SendInv, SendTypeOK
    <2>1. CASE \E a \in Agents : Claim(a)
      <3>1. PICK a \in Agents : Claim(a)
        BY <2>1
      <3>2. rows[job[a].task].state = "none" /\ k = job[a].task
        BY <2>0, <3>1 DEF Claim
      <3>. QED
        BY <3>2
    <2>2. CASE \E a \in Agents : Record(a)
      <3>1. PICK a \in Agents : Record(a)
        BY <2>2
      <3>2. rows[job[a].task].state = "in_progress" /\ k = job[a].task
        BY <2>0, <3>1 DEF Record
      <3>. QED
        BY <3>2
    <2>3. CASE \E t \in Tasks : Reconcile(t)
      <3>1. PICK t \in Tasks : Reconcile(t)
        BY <2>3
      <3>2. t = k /\ rows[t].state = "unknown" /\ k \in reconciled'
        BY <2>0, <3>1 DEF Reconcile
      <3>. QED
        BY <3>2
    <2>4. (\E a \in Agents : \/ Call(a) \/ ClaimFails(a) \/ RunPackage(a)
                             \/ RecordFails(a) \/ Draft(a) \/ SubmitDraft(a))
          \/ Stop => rows' = rows
      BY DEF Call, ClaimFails, RunPackage, RecordFails, Draft, SubmitDraft, Stop
    <2>. QED
      BY <2>1, <2>2, <2>3, <2>4 DEF SendNext
  <1>. QED
    BY <1>1, SendInvariant, PTL DEF SendSpec, SettledStays

-----------------------------------------------------------------------------
(* Runtime configuration: rows of the ledger and jobs.                      *)

\* What a row says of the patch it is made of (validate_patch): values are
\* accepted of an accepted patch only, none of them is a secret, without partial
\* acceptance all of them or none, and an accepted level may be used at once.
LEMMA ChangeShape ==
    ASSUME NEW row \in ChangeRow
    PROVE  /\ row.req \in ConfigRequest
           /\ \A n \in DOMAIN row.accepted : row.status = "accepted" /\ ~Registry[n].secret
           /\ ~row.req.partial /\ row.status = "accepted"
                => DOMAIN row.accepted = DOMAIN row.req.values
           /\ LevelKey \in DOMAIN row.accepted =>
                /\ LevelKey \in ActiveKeys(row)
                /\ row.accepted[LevelKey] \in KnownLevels =>
                     [scope |-> OverrideScope(row.req.scope), level |-> row.accepted[LevelKey]]
                        \in Override
  <1>1. PICK r \in ConfigRequest : row = Change(r)
    BY DEF ChangeRow
  <1>2. /\ row.req = r /\ row.status = PatchStatus(r) /\ row.accepted = Accepted(r)
        /\ row.result = CASE PatchStatus(r) = "rejected" -> <<>>
                          [] PatchStatus(r) = "no_op" -> Base
                          [] OTHER -> ResolveLayers({BaseLayer, PatchLayer(r, Accepted(r))})
    BY <1>1 DEF Change
  <1>3. \A n \in DOMAIN row.accepted :
          /\ PatchStatus(r) = "accepted" /\ n \in Acceptable(r) /\ row.accepted[n] = r.values[n]
    BY <1>2 DEF Accepted
  <1>4. \A n \in DOMAIN row.accepted :
          ~Registry[n].secret /\ row.accepted[n] \in Registry[n].valid /\ n \in DOMAIN r.values
    BY <1>3 DEF Acceptable
  <1>5. ASSUME ~r.partial, row.status = "accepted" PROVE DOMAIN row.accepted = DOMAIN r.values
    <2>1. Acceptable(r) = DOMAIN r.values
      BY <1>2, <1>5 DEF PatchStatus
    <2>. QED
      BY <1>2, <1>5, <2>1 DEF Accepted
  <1>6. ASSUME LevelKey \in DOMAIN row.accepted
        PROVE  /\ LevelKey \in ActiveKeys(row)
               /\ row.accepted[LevelKey] \in KnownLevels =>
                    [scope |-> OverrideScope(row.req.scope), level |-> row.accepted[LevelKey]]
                       \in Override
    <2>1. row.result = ResolveLayers({BaseLayer, PatchLayer(r, Accepted(r))})
      BY <1>2, <1>3, <1>6
    <2>2. \A l : EffectiveStatus(LevelKey, l) = "active"
      BY ConfigAssumption DEF EffectiveStatus
    <2>3. row.result[LevelKey].status = "active"
      BY <2>1, <2>2, ConfigAssumption DEF ResolveLayers, Name
    <2>4. OverrideScope(row.req.scope) \in {OverrideScope(q.scope) : q \in ConfigRequest}
      BY <1>2
    <2>. QED
      BY <1>6, <2>3, <2>4 DEF ActiveKeys, Override
  <1>. QED
    BY <1>2, <1>3, <1>4, <1>5, <1>6

\* The states of a job are told apart by their pc.
LEMMA PatchJobShape ==
    ASSUME ConfigTypeOK, NEW t \in ConfigThread, configJob[t].pc # "idle"
    PROVE  /\ configJob[t] \in BusyJob
           /\ configJob[t].req \in ConfigRequest /\ configJob[t].change \in Nat
           /\ configJob[t].seen \in Seq(Override)
           /\ configJob[t] = [pc |-> configJob[t].pc, req |-> configJob[t].req,
                              change |-> configJob[t].change, seen |-> configJob[t].seen]
  <1>1. configJob[t] \in BusyJob \cup {NoPatchJob}
    BY DEF ConfigTypeOK
  <1>2. configJob[t] # NoPatchJob
    BY DEF NoPatchJob
  <1>. QED
    BY <1>1, <1>2 DEF BusyJob

\* A step of one thread gives it a job and leaves the others theirs.
LEMMA OneJobMoves ==
    ASSUME ConfigTypeOK, NEW t \in ConfigThread, NEW k \in BusyJob \cup {NoPatchJob},
           configJob' = [configJob EXCEPT ![t] = k]
    PROVE  /\ configJob' \in [ConfigThread -> BusyJob \cup {NoPatchJob}]
           /\ configJob'[t] = k
           /\ \A u \in ConfigThread : u # t => configJob'[u] = configJob[u]
  <1>1. configJob \in [ConfigThread -> BusyJob \cup {NoPatchJob}]
    BY DEF ConfigTypeOK
  <1>. QED
    BY <1>1

\* GotoPc moves a busy job on.
LEMMA GotoMoves ==
    ASSUME ConfigTypeOK, NEW t \in ConfigThread, configJob[t].pc # "idle",
           NEW pc \in {"route", "service", "apply", "snapshot", "publish", "level"},
           GotoPc(t, pc)
    PROVE  /\ configJob' \in [ConfigThread -> BusyJob \cup {NoPatchJob}]
           /\ configJob'[t].pc = pc /\ configJob'[t].req = configJob[t].req
           /\ configJob'[t].change = configJob[t].change
           /\ \A u \in ConfigThread : u # t => configJob'[u] = configJob[u]
  <1>1. PICK k : k = [configJob[t] EXCEPT !.pc = pc]
    OBVIOUS
  <1>2. k = [pc |-> pc, req |-> configJob[t].req, change |-> configJob[t].change,
             seen |-> configJob[t].seen]
    <2>1. configJob[t] = [pc |-> configJob[t].pc, req |-> configJob[t].req,
                          change |-> configJob[t].change, seen |-> configJob[t].seen]
      BY PatchJobShape
    <2>2. PICK p, q, c, s : configJob[t] = [pc |-> p, req |-> q, change |-> c, seen |-> s]
      BY <2>1
    <2>. QED
      BY <1>1, <2>2
  <1>3. k \in BusyJob
    BY <1>2, PatchJobShape DEF BusyJob
  <1>4. configJob' = [configJob EXCEPT ![t] = k]
    BY <1>1 DEF GotoPc
  <1>5. k.pc = pc /\ k.req = configJob[t].req /\ k.change = configJob[t].change
    BY <1>2
  <1>. QED
    BY <1>3, <1>4, <1>5, OneJobMoves

\* ReplyTo frees the thread.
LEMMA ReplyMoves ==
    ASSUME ConfigTypeOK, NEW t \in ConfigThread, configJob[t].pc # "idle",
           NEW code \in ReplyCode, NEW c \in Nat, ReplyTo(t, code, c)
    PROVE  /\ configJob' \in [ConfigThread -> BusyJob \cup {NoPatchJob}]
           /\ configJob'[t] = NoPatchJob /\ configJob'[t].pc = "idle"
           /\ \A u \in ConfigThread : u # t => configJob'[u] = configJob[u]
           /\ configAnswers' \subseteq [req : ConfigRequest, code : ReplyCode, change : Nat]
           /\ configAnswers' = configAnswers \cup {[req |-> configJob[t].req, code |-> code, change |-> c]}
  <1>1. configJob' = [configJob EXCEPT ![t] = NoPatchJob]
    BY DEF ReplyTo
  <1>2. configAnswers' = configAnswers \cup {[req |-> configJob[t].req, code |-> code, change |-> c]}
    BY DEF ReplyTo, Req
  <1>3. configJob[t].req \in ConfigRequest
    BY PatchJobShape
  <1>4. configAnswers \subseteq [req : ConfigRequest, code : ReplyCode, change : Nat]
    BY DEF ConfigTypeOK
  <1>5. configAnswers' \subseteq [req : ConfigRequest, code : ReplyCode, change : Nat]
    BY <1>2, <1>3, <1>4
  <1>6. NoPatchJob.pc = "idle"
    BY DEF NoPatchJob
  <1>. QED
    BY <1>1, <1>2, <1>5, <1>6, OneJobMoves

\* The ledger and the events are sequences of what they hold.
LEMMA LedgerShape ==
    ASSUME ConfigTypeOK
    PROVE  /\ Len(changes) \in Nat /\ DOMAIN changes = 1..Len(changes)
           /\ \A c \in DOMAIN changes : changes[c] \in ChangeRow
           /\ Len(published) \in Nat /\ DOMAIN published = 1..Len(published)
           /\ Len(overrides) \in Nat /\ DOMAIN overrides = 1..Len(overrides)
  BY DEF ConfigTypeOK

-----------------------------------------------------------------------------
(* Steps of a job that holds no change.                                     *)

\* A step that writes nothing but answers keeps the invariant, if what it
\* answers is in the ledger and, of requests served one at a time, has its
\* snapshot and is the client's own.
LEMMA QuietStep ==
    ASSUME ConfigInv, NEW t \in ConfigThread, NEW new,
           UNCHANGED <<changes, snapshots, published, overrides, configCrashes>>,
           configJob' \in [ConfigThread -> BusyJob \cup {NoPatchJob}],
           configJob[t].pc \notin Holding, configJob'[t].pc \notin Holding,
           \A u \in ConfigThread : u # t => configJob'[u] = configJob[u],
           configAnswers' = configAnswers \cup new,
           configAnswers' \subseteq [req : ConfigRequest, code : ReplyCode, change : Nat],
           \A a \in new : a.change \in DOMAIN changes \cup {0},
           ~configShared /\ configCrashes = 0 =>
             \A a \in new : a.change # 0 =>
               /\ changes[a.change].status # "rejected" => \E s \in snapshots : s.change = a.change
               /\ changes[a.change].req = a.req \/ changes[a.change].requested = a.req.values,
           configShared' \in BOOLEAN, ~configShared' => ~configShared,
           ~configShared' => ServedAlone'
    PROVE  ConfigInv'
  <1>1. ConfigTypeOK'
    BY DEF ConfigInv, ConfigTypeOK
  <1>3. \A u \in ConfigThread : /\ configJob[u].pc \in Holding <=> configJob'[u].pc \in Holding
                                /\ configJob[u].pc \in Holding => configJob'[u] = configJob[u]
    OBVIOUS
  <1>4. NamesAChange'
    BY DEF ConfigInv, NamesAChange
  <1>5. KeyOnce' /\ PublishedOnce'
    BY DEF ConfigInv, KeyOnce, PublishedOnce
  <1>6. JobsHold'
    <2>1. JobsHold
      BY DEF ConfigInv
    <2>2. SUFFICES ASSUME NEW u \in ConfigThread, configJob'[u].pc \in Holding
                   PROVE  /\ configJob'[u].change \in DOMAIN changes
                          /\ changes[configJob'[u].change].req = configJob'[u].req
                          /\ \A w \in ConfigThread : w # u /\ configJob'[w].pc \in Holding
                               => configJob'[w].change # configJob'[u].change
                          /\ configJob'[u].pc # "level" =>
                               \A i \in DOMAIN published : published[i] # configJob'[u].change
                          /\ configJob'[u].pc = "level" => SetsLevel(configJob'[u].change)
      BY DEF JobsHold, SetsLevel
    <2>3. configJob[u].pc \in Holding /\ configJob'[u] = configJob[u]
      BY <1>3, <2>2
    <2>. QED
      BY <1>3, <2>1, <2>3 DEF JobsHold
  <1>7. ASSUME ~configShared', configCrashes' = 0
        PROVE  ChangesSettled' /\ AnsweredHasSnapshot' /\ AnswerIsOwn'
    <2>1. ChangesSettled /\ AnsweredHasSnapshot /\ AnswerIsOwn /\ ~configShared /\ configCrashes = 0
      BY <1>7 DEF ConfigInv
    <2>2. \A c : /\ (\A u \in ConfigThread : configJob'[u].pc \in Holding => configJob'[u].change # c)
                      <=> Free(c, Holding)
                 /\ (\A u \in ConfigThread : configJob'[u].pc \in {"snapshot"} => configJob'[u].change # c)
                      <=> Free(c, {"snapshot"})
      <3>1. "snapshot" \in Holding
        BY DEF Holding
      <3>. QED
        BY <1>3, <3>1 DEF Free
    <2>3. ChangesSettled'
      BY <2>1, <2>2 DEF ChangesSettled, LevelsSettled, SnapshotsTaken, SetsIn, SetsLevel, InForce, Free
    <2>4. AnsweredHasSnapshot' /\ AnswerIsOwn'
      BY <2>1 DEF AnsweredHasSnapshot, AnswerIsOwn
    <2>. QED
      BY <2>3, <2>4
  <1>. QED
    BY <1>1, <1>4, <1>5, <1>6, <1>7 DEF ConfigInv

\* Of requests served one at a time, when one is answered none is left.
LEMMA LastOneLeaves ==
    ASSUME ConfigInv, ~configShared, NEW t \in ConfigThread, configJob[t].pc # "idle",
           configJob'[t].pc = "idle",
           \A u \in ConfigThread : u # t => configJob'[u] = configJob[u]
    PROVE  ServedAlone' /\ \A u \in ConfigThread : configJob'[u].pc = "idle"
  <1>1. ServedAlone
    BY DEF ConfigInv
  <1>2. \A u \in ConfigThread : u # t => configJob[u].pc = "idle"
    BY <1>1 DEF ServedAlone, AtPc
  <1>3. \A u \in ConfigThread : configJob'[u].pc = "idle"
    BY <1>2
  <1>. QED
    BY <1>3 DEF ServedAlone, AtPc

\* Of requests served one at a time, one that moves is the only one.
LEMMA StaysAlone ==
    ASSUME ConfigInv, ~configShared, NEW t \in ConfigThread, configJob[t].pc # "idle",
           \A u \in ConfigThread : u # t => configJob'[u] = configJob[u],
           configJob'[t].pc # "idle",
           configJob'[t].pc = "service" => Existing(Req(t))' = {},
           configJob'[t].pc \in Holding => configJob'[t].change = Len(changes'),
           configJob'[t].pc = "level" => configJob'[t].seen = overrides'
    PROVE  ServedAlone'
  <1>1. ServedAlone
    BY DEF ConfigInv
  <1>2. \A u \in ConfigThread : u # t => configJob[u].pc = "idle"
    BY <1>1 DEF ServedAlone, AtPc
  <1>3. \A u \in ConfigThread : u # t => configJob'[u].pc = "idle"
    BY <1>2
  <1>. QED
    BY <1>3 DEF ServedAlone, AtPc, Req

\* A thread takes a request (the PATCH route).
LEMMA SendKeeps ==
    ASSUME ConfigInv, NEW t \in ConfigThread, NEW r \in ConfigRequest, SendPatch(t, r)
    PROVE  ConfigInv'
  <1>0. ConfigTypeOK /\ configJob[t].pc = "idle"
    BY DEF ConfigInv, SendPatch, AtPc
  <1>1. PICK k : k = PatchJob(r)
    OBVIOUS
  <1>2. k \in BusyJob /\ k.pc \in {"apply", "route"}
    BY <1>1, EmptySeq DEF PatchJob, BusyJob
  <1>3. configJob' = [configJob EXCEPT ![t] = k]
    BY <1>1 DEF SendPatch
  <1>4. /\ configJob' \in [ConfigThread -> BusyJob \cup {NoPatchJob}]
        /\ configJob'[t] = k
        /\ \A u \in ConfigThread : u # t => configJob'[u] = configJob[u]
    BY <1>0, <1>2, <1>3, OneJobMoves
  <1>5. configJob[t].pc \notin Holding /\ configJob'[t].pc \notin Holding /\ configJob'[t].pc # "service"
        /\ configJob'[t].pc # "level"
    BY <1>0, <1>2, <1>4 DEF Holding
  <1>6. configShared' = (configShared \/ \E u \in ConfigThread : ~AtPc(u, "idle"))
    BY DEF SendPatch
  <1>7. ASSUME ~configShared' PROVE ServedAlone' /\ ~configShared
    <2>1. \A u \in ConfigThread : u # t => configJob'[u].pc = "idle"
      BY <1>4, <1>6, <1>7 DEF AtPc
    <2>. QED
      BY <1>5, <1>6, <1>7, <2>1 DEF ServedAlone, AtPc
  <1>8. configShared' \in BOOLEAN
    BY <1>0, <1>6 DEF ConfigTypeOK
  <1>9. PICK new : new = {}
    OBVIOUS
  <1>10. /\ UNCHANGED <<changes, snapshots, published, overrides, configCrashes>>
         /\ configAnswers' = configAnswers \cup new
         /\ configAnswers' \subseteq [req : ConfigRequest, code : ReplyCode, change : Nat]
    BY <1>0, <1>9 DEF SendPatch, ConfigTypeOK
  <1>11. \A a : a \notin new
    BY <1>9
  <1>. QED
    BY <1>4, <1>5, <1>7, <1>8, <1>10, <1>11, QuietStep

\* An answer that names no change, of a job that holds none.
LEMMA RefusalKeeps ==
    ASSUME ConfigInv, NEW t \in ConfigThread, configJob[t].pc # "idle",
           configJob[t].pc \notin Holding, NEW code \in ReplyCode, ReplyTo(t, code, 0),
           UNCHANGED <<changes, snapshots, published, overrides, configShared, configCrashes>>
    PROVE  ConfigInv'
  <1>0. ConfigTypeOK
    BY DEF ConfigInv
  <1>1. PICK c \in Nat : c = 0
    OBVIOUS
  <1>2. /\ configJob' \in [ConfigThread -> BusyJob \cup {NoPatchJob}]
        /\ configJob'[t].pc = "idle"
        /\ \A u \in ConfigThread : u # t => configJob'[u] = configJob[u]
        /\ configAnswers' \subseteq [req : ConfigRequest, code : ReplyCode, change : Nat]
        /\ configAnswers' = configAnswers \cup {[req |-> configJob[t].req, code |-> code, change |-> c]}
    BY <1>0, <1>1, ReplyMoves
  <1>3. configJob'[t].pc \notin Holding
    BY <1>2 DEF Holding
  <1>4. ~configShared' => ServedAlone'
    BY <1>2, LastOneLeaves
  <1>5. configShared' \in BOOLEAN
    BY <1>0 DEF ConfigTypeOK
  <1>6. PICK new : new = {[req |-> configJob[t].req, code |-> code, change |-> c]}
    OBVIOUS
  <1>7. configAnswers' = configAnswers \cup new /\ \A a \in new : a.change = 0
    BY <1>1, <1>2, <1>6
  <1>. QED
    BY <1>2, <1>3, <1>4, <1>5, <1>7, QuietStep

\* The existing change of a key is in the ledger.
LEMMA ExistingInLedger ==
    ASSUME ConfigInv, NEW r, NEW c \in Existing(r)
    PROVE  c \in DOMAIN changes /\ c \in Nat
  <1>1. DOMAIN changes = 1..Len(changes) /\ Len(changes) \in Nat
    BY LedgerShape DEF ConfigInv
  <1>. QED
    BY <1>1 DEF Existing

\* The first lookup, of the route.
LEMMA RouteKeeps ==
    ASSUME ConfigInv, NEW t \in ConfigThread, RouteLookup(t)
    PROVE  ConfigInv'
  <1>0. /\ ConfigTypeOK /\ configJob[t].pc = "route" /\ configJob[t].pc # "idle"
        /\ configJob[t].pc \notin Holding
        /\ UNCHANGED <<changes, snapshots, published, overrides, configShared, configCrashes>>
    BY DEF ConfigInv, RouteLookup, AtPc, Holding
  <1>1. CASE Existing(Req(t)) = {} /\ GotoPc(t, "service") /\ UNCHANGED configAnswers
    <2>1. /\ configJob' \in [ConfigThread -> BusyJob \cup {NoPatchJob}]
          /\ configJob'[t].pc = "service" /\ configJob'[t].req = configJob[t].req
          /\ \A u \in ConfigThread : u # t => configJob'[u] = configJob[u]
      BY <1>0, <1>1, GotoMoves
    <2>2. configJob'[t].pc \notin Holding /\ configJob'[t].pc # "level" /\ configJob'[t].pc # "idle"
      BY <2>1 DEF Holding
    <2>3. Existing(Req(t))' = {}
      BY <1>0, <1>1, <2>1 DEF Existing, Req
    <2>4. ~configShared' => ServedAlone'
      BY <1>0, <2>1, <2>2, <2>3, StaysAlone
    <2>5. PICK new : new = {}
      OBVIOUS
    <2>6. /\ configShared' \in BOOLEAN
          /\ configAnswers' = configAnswers \cup new
          /\ configAnswers' \subseteq [req : ConfigRequest, code : ReplyCode, change : Nat]
      BY <1>0, <1>1, <2>5 DEF ConfigTypeOK
    <2>7. \A a : a \notin new
      BY <2>5
    <2>. QED
      BY <1>0, <2>1, <2>2, <2>4, <2>6, <2>7, QuietStep
  <1>2. ASSUME NEW c \in Existing(Req(t)), Matches(Req(t), c), ReplyTo(t, "replayed", c)
        PROVE  ConfigInv'
    <2>0. c \in DOMAIN changes /\ c \in Nat
      BY <1>2, ExistingInLedger
    <2>1. PICK code \in ReplyCode : code = "replayed"
      BY DEF ReplyCode
    <2>2. /\ configJob' \in [ConfigThread -> BusyJob \cup {NoPatchJob}]
          /\ configJob'[t].pc = "idle"
          /\ \A u \in ConfigThread : u # t => configJob'[u] = configJob[u]
          /\ configAnswers' \subseteq [req : ConfigRequest, code : ReplyCode, change : Nat]
          /\ configAnswers' = configAnswers \cup {[req |-> configJob[t].req, code |-> code, change |-> c]}
      BY <1>0, <1>2, <2>0, <2>1, ReplyMoves
    <2>3. configJob'[t].pc \notin Holding
      BY <2>2 DEF Holding
    <2>4. ~configShared' => ServedAlone'
      BY <1>0, <2>2, LastOneLeaves
    <2>5. configShared' \in BOOLEAN
      BY <1>0 DEF ConfigTypeOK
    <2>6. changes[c].requested = configJob[t].req.values
      BY <1>2 DEF Matches, Req
    <2>7. ASSUME ~configShared, configCrashes = 0, changes[c].status # "rejected"
          PROVE  \E s \in snapshots : s.change = c
      <3>1. \A u \in ConfigThread : configJob[u].pc # "snapshot"
        BY <1>0, <2>7 DEF ConfigInv, ServedAlone, AtPc
      <3>. QED
        BY <2>0, <2>7, <3>1 DEF ConfigInv, ChangesSettled, LevelsSettled, SnapshotsTaken, Free
    <2>8. PICK a : a = [req |-> configJob[t].req, code |-> code, change |-> c]
      OBVIOUS
    <2>9. a.change = c /\ a.req = configJob[t].req
      BY <2>8
    <2>10. PICK new : new = {a}
      OBVIOUS
    <2>11. /\ configAnswers' = configAnswers \cup new
           /\ \A b \in new : b.change \in DOMAIN changes \cup {0}
           /\ ~configShared /\ configCrashes = 0 =>
                \A b \in new : b.change # 0 =>
                  /\ changes[b.change].status # "rejected" => \E s \in snapshots : s.change = b.change
                  /\ changes[b.change].req = b.req \/ changes[b.change].requested = b.req.values
      BY <2>0, <2>2, <2>6, <2>7, <2>8, <2>9, <2>10
    <2>. QED
      BY <1>0, <2>2, <2>3, <2>4, <2>5, <2>11, QuietStep
  <1>3. ASSUME ReplyTo(t, "conflict", 0) PROVE ConfigInv'
    BY <1>0, <1>3, RefusalKeeps DEF ReplyCode
  <1>. QED
    BY <1>1, <1>2, <1>3 DEF RouteLookup

\* The second lookup, of apply_patch.
LEMMA ServiceKeeps ==
    ASSUME ConfigInv, NEW t \in ConfigThread, ServiceLookup(t)
    PROVE  ConfigInv'
  <1>0. /\ ConfigTypeOK /\ configJob[t].pc = "service" /\ configJob[t].pc # "idle"
        /\ configJob[t].pc \notin Holding
        /\ UNCHANGED <<changes, snapshots, published, overrides, configShared, configCrashes>>
    BY DEF ConfigInv, ServiceLookup, AtPc, Holding
  <1>1. CASE Existing(Req(t)) = {} /\ GotoPc(t, "apply") /\ UNCHANGED configAnswers
    <2>1. /\ configJob' \in [ConfigThread -> BusyJob \cup {NoPatchJob}]
          /\ configJob'[t].pc = "apply"
          /\ \A u \in ConfigThread : u # t => configJob'[u] = configJob[u]
      BY <1>0, <1>1, GotoMoves
    <2>2. /\ configJob'[t].pc \notin Holding /\ configJob'[t].pc # "level"
          /\ configJob'[t].pc # "idle" /\ configJob'[t].pc # "service"
      BY <2>1 DEF Holding
    <2>4. ~configShared' => ServedAlone'
      BY <1>0, <2>1, <2>2, StaysAlone
    <2>5. PICK new : new = {}
      OBVIOUS
    <2>6. /\ configShared' \in BOOLEAN
          /\ configAnswers' = configAnswers \cup new
          /\ configAnswers' \subseteq [req : ConfigRequest, code : ReplyCode, change : Nat]
      BY <1>0, <1>1, <2>5 DEF ConfigTypeOK
    <2>7. \A a : a \notin new
      BY <2>5
    <2>. QED
      BY <1>0, <2>1, <2>2, <2>4, <2>6, <2>7, QuietStep
  <1>2. ASSUME NEW c \in Existing(Req(t)), ReplyTo(t, "ok", c)
        PROVE  ConfigInv'
    <2>0. c \in DOMAIN changes /\ c \in Nat
      BY <1>2, ExistingInLedger
    <2>1. PICK code \in ReplyCode : code = "ok"
      BY DEF ReplyCode
    <2>2. /\ configJob' \in [ConfigThread -> BusyJob \cup {NoPatchJob}]
          /\ configJob'[t].pc = "idle"
          /\ \A u \in ConfigThread : u # t => configJob'[u] = configJob[u]
          /\ configAnswers' \subseteq [req : ConfigRequest, code : ReplyCode, change : Nat]
          /\ configAnswers' = configAnswers \cup {[req |-> configJob[t].req, code |-> code, change |-> c]}
      BY <1>0, <1>2, <2>0, <2>1, ReplyMoves
    <2>3. configJob'[t].pc \notin Holding
      BY <2>2 DEF Holding
    <2>4. ~configShared' => ServedAlone'
      BY <1>0, <2>2, LastOneLeaves
    <2>5. configShared' \in BOOLEAN
      BY <1>0 DEF ConfigTypeOK
    <2>6. ~(~configShared)
      BY <1>0, <1>2 DEF ConfigInv, ServedAlone, AtPc
    <2>7. PICK new : new = {[req |-> configJob[t].req, code |-> code, change |-> c]}
      OBVIOUS
    <2>8. /\ configAnswers' = configAnswers \cup new
          /\ \A b \in new : b.change \in DOMAIN changes \cup {0}
      BY <2>0, <2>2, <2>7
    <2>. QED
      BY <1>0, <2>2, <2>3, <2>4, <2>5, <2>6, <2>8, QuietStep
  <1>. QED
    BY <1>1, <1>2 DEF ServiceLookup

-----------------------------------------------------------------------------
(* The insertion of a change.                                               *)

\* append_change adds a row after the others.
LEMMA AppendedRow ==
    ASSUME ConfigInv, NEW t \in ConfigThread, configJob[t].pc # "idle",
           changes' = Append(changes, Change(Req(t)))
    PROVE  /\ Len(changes) \in Nat /\ DOMAIN changes = 1..Len(changes)
           /\ DOMAIN changes' = 1..(Len(changes) + 1)
           /\ Len(changes') = Len(changes) + 1
           /\ changes' \in Seq(ChangeRow)
           /\ changes'[Len(changes) + 1].req = configJob[t].req
           /\ \A c \in DOMAIN changes : c \in DOMAIN changes' /\ changes'[c] = changes[c]
  <1>0. ConfigTypeOK
    BY DEF ConfigInv
  <1>1. Len(changes) \in Nat /\ DOMAIN changes = 1..Len(changes) /\ changes \in Seq(ChangeRow)
    BY <1>0, LedgerShape DEF ConfigTypeOK
  <1>2. PICK row : row = Change(Req(t))
    OBVIOUS
  <1>3. configJob[t].req \in ConfigRequest
    BY <1>0, PatchJobShape
  <1>4. row \in ChangeRow /\ row.req = configJob[t].req
    BY <1>2, <1>3 DEF ChangeRow, Change, Req
  <1>5. changes' = Append(changes, row)
    BY <1>2
  <1>. QED
    BY <1>1, <1>4, <1>5

\* An inserted change is fresh: no event, snapshot, answer or job names it yet.
LEMMA InsertKeeps ==
    ASSUME ConfigInv, NEW t \in ConfigThread, configJob[t].pc = "apply",
           Existing(Req(t)) = {}, Inserted(t),
           UNCHANGED <<snapshots, published, overrides, configShared, configCrashes>>
    PROVE  ConfigInv'
  <1>0. ConfigTypeOK /\ NamesAChange /\ KeyOnce /\ PublishedOnce /\ JobsHold
    BY DEF ConfigInv
  <1>1. PICK n \in Nat : n = Len(changes)
    BY <1>0, LedgerShape
  <1>2. PICK m \in Nat : m = n + 1
    OBVIOUS
  <1>3. /\ DOMAIN changes = 1..n /\ DOMAIN changes' = 1..m /\ Len(changes') = m
        /\ changes' \in Seq(ChangeRow)
        /\ changes'[m].req = configJob[t].req
        /\ \A c \in DOMAIN changes : c \in DOMAIN changes' /\ changes'[c] = changes[c]
    BY <1>1, <1>2, AppendedRow DEF Inserted
  <1>4. m \in DOMAIN changes' /\ m # 0 /\ \A c \in DOMAIN changes : c # m
    BY <1>2, <1>3
  <1>5. \A c \in DOMAIN changes' : c \in DOMAIN changes \/ c = m
    BY <1>2, <1>3
  <1>6. PICK k : k = [configJob[t] EXCEPT !.pc = "snapshot", !.change = m]
    OBVIOUS
  <1>7. k = [pc |-> "snapshot", req |-> configJob[t].req, change |-> m, seen |-> configJob[t].seen]
    <2>1. configJob[t] = [pc |-> configJob[t].pc, req |-> configJob[t].req,
                          change |-> configJob[t].change, seen |-> configJob[t].seen]
      BY <1>0, PatchJobShape
    <2>2. PICK p, q, c, s : configJob[t] = [pc |-> p, req |-> q, change |-> c, seen |-> s]
      BY <2>1
    <2>. QED
      BY <1>6, <2>2
  <1>8. k \in BusyJob
    BY <1>0, <1>7, PatchJobShape DEF BusyJob
  <1>9. configJob' = [configJob EXCEPT ![t] = k]
    BY <1>1, <1>2, <1>6 DEF Inserted
  <1>10. /\ configJob' \in [ConfigThread -> BusyJob \cup {NoPatchJob}]
         /\ configJob'[t] = k
         /\ \A u \in ConfigThread : u # t => configJob'[u] = configJob[u]
    BY <1>0, <1>8, <1>9, OneJobMoves
  <1>11. k.pc = "snapshot" /\ k.req = configJob[t].req /\ k.change = m
    BY <1>7
  <1>12. UNCHANGED configAnswers
    BY DEF Inserted
  <1>13. ConfigTypeOK'
    BY <1>0, <1>3, <1>10, <1>12 DEF ConfigTypeOK
  <1>14. NamesAChange'
    BY <1>0, <1>3, <1>12 DEF NamesAChange
  <1>15. KeyOnce'
    <2>1. \A c \in DOMAIN changes : ~(/\ changes[c].req.idem = configJob[t].req.idem
                                      /\ changes[c].req.scope = configJob[t].req.scope)
      BY DEF Existing, Req
    <2>. QED
      BY <1>0, <1>3, <1>5, <2>1 DEF KeyOnce
  <1>16. PublishedOnce'
    BY <1>0, <1>3 DEF PublishedOnce, NamesAChange
  <1>17. configJob[t].pc \notin Holding /\ k.pc \in Holding /\ "level" # k.pc
    BY <1>11 DEF Holding
  <1>18. JobsHold'
    <2>1. SUFFICES ASSUME NEW u \in ConfigThread, configJob'[u].pc \in Holding
                   PROVE  /\ configJob'[u].change \in DOMAIN changes'
                          /\ changes'[configJob'[u].change].req = configJob'[u].req
                          /\ \A w \in ConfigThread : w # u /\ configJob'[w].pc \in Holding
                               => configJob'[w].change # configJob'[u].change
                          /\ configJob'[u].pc # "level" =>
                               \A i \in DOMAIN published : published[i] # configJob'[u].change
                          /\ configJob'[u].pc = "level" => SetsLevel(configJob[u].change)'
      BY DEF JobsHold
    <2>2. \A w \in ConfigThread : w # t /\ configJob'[w].pc \in Holding
            => configJob'[w].change \in DOMAIN changes /\ configJob'[w].change # m
      BY <1>0, <1>4, <1>10 DEF JobsHold
    <2>3. CASE u = t
      BY <1>0, <1>3, <1>4, <1>10, <1>11, <1>17, <2>2, <2>3 DEF NamesAChange
    <2>4. CASE u # t
      BY <1>0, <1>3, <1>10, <1>11, <2>1, <2>2, <2>4 DEF JobsHold, SetsLevel
    <2>. QED
      BY <2>3, <2>4
  <1>19. ~configShared' => ServedAlone'
    BY <1>3, <1>10, <1>11, StaysAlone
  <1>20. ASSUME ~configShared', configCrashes' = 0
         PROVE  ChangesSettled' /\ AnsweredHasSnapshot' /\ AnswerIsOwn'
    <2>1. ChangesSettled /\ AnsweredHasSnapshot /\ AnswerIsOwn
      BY <1>20 DEF ConfigInv
    <2>2. \A c \in DOMAIN changes : /\ Free(c, Holding)' => Free(c, Holding)
                                    /\ Free(c, Holding) => Free(c, Holding)'
      BY <1>4, <1>10, <1>11, <1>17 DEF Free
    <2>3. \A c \in DOMAIN changes : Free(c, {"snapshot"})' => Free(c, {"snapshot"})
      BY <1>10, <1>17 DEF Free, Holding
    <2>4. ~Free(m, Holding)' /\ ~Free(m, {"snapshot"})'
      BY <1>10, <1>11, <1>17 DEF Free
    <2>5. ChangesSettled'
      BY <1>3, <1>5, <2>1, <2>2, <2>3, <2>4 DEF ChangesSettled, LevelsSettled, SnapshotsTaken, SetsIn, SetsLevel, InForce
    <2>6. AnsweredHasSnapshot' /\ AnswerIsOwn'
      BY <1>0, <1>3, <1>12, <2>1 DEF AnsweredHasSnapshot, AnswerIsOwn, NamesAChange
    <2>. QED
      BY <2>5, <2>6
  <1>. QED
    BY <1>13, <1>14, <1>15, <1>16, <1>18, <1>19, <1>20 DEF ConfigInv

\* validate_patch and append_change.
LEMMA AppendKeeps ==
    ASSUME ConfigInv, NEW t \in ConfigThread, AppendChange(t)
    PROVE  ConfigInv'
  <1>0. /\ configJob[t].pc = "apply" /\ configJob[t].pc # "idle" /\ configJob[t].pc \notin Holding
        /\ UNCHANGED <<snapshots, published, overrides, configShared, configCrashes>>
    BY DEF AppendChange, AtPc, Holding
  <1>1. ASSUME NEW code \in ReplyCode, ReplyTo(t, code, 0), UNCHANGED changes PROVE ConfigInv'
    BY <1>0, <1>1, RefusalKeeps
  <1>2. ASSUME Existing(Req(t)) = {}, Inserted(t) PROVE ConfigInv'
    BY <1>0, <1>2, InsertKeeps
  <1>. QED
    BY <1>1, <1>2 DEF AppendChange, ReplyCode

-----------------------------------------------------------------------------
(* Snapshot, event and level of a change.                                   *)

\* The change a job holds is a row of the ledger.
LEMMA HeldRow ==
    ASSUME ConfigInv, NEW t \in ConfigThread, configJob[t].pc \in Holding
    PROVE  /\ configJob[t].pc # "idle"
           /\ configJob[t].change \in DOMAIN changes /\ configJob[t].change \in Nat
           /\ configJob[t].change # 0
           /\ changes[configJob[t].change] \in ChangeRow
           /\ changes[configJob[t].change].req = configJob[t].req
           /\ \A u \in ConfigThread : u # t /\ configJob[u].pc \in Holding
                => configJob[u].change # configJob[t].change
  <1>1. configJob[t].change \in DOMAIN changes /\ changes[configJob[t].change].req = configJob[t].req
        /\ \A u \in ConfigThread : u # t /\ configJob[u].pc \in Holding
                => configJob[u].change # configJob[t].change
    BY DEF ConfigInv, JobsHold
  <1>2. ConfigTypeOK /\ configJob[t].pc # "idle"
    BY DEF ConfigInv, Holding
  <1>3. Len(changes) \in Nat /\ DOMAIN changes = 1..Len(changes)
        /\ \A c \in DOMAIN changes : changes[c] \in ChangeRow
    BY <1>2, LedgerShape
  <1>. QED
    BY <1>1, <1>2, <1>3

\* save_snapshot, of a change that was not rejected.
LEMMA SnapshotKeeps ==
    ASSUME ConfigInv, NEW t \in ConfigThread, SaveSnapshot(t)
    PROVE  ConfigInv'
  <1>0. /\ ConfigTypeOK /\ NamesAChange /\ KeyOnce /\ PublishedOnce /\ JobsHold
        /\ configJob[t].pc = "snapshot" /\ configJob[t].pc # "idle" /\ configJob[t].pc \in Holding
        /\ UNCHANGED <<changes, published, overrides, configAnswers, configShared, configCrashes>>
    BY DEF ConfigInv, SaveSnapshot, AtPc, Holding
  <1>1. PICK n \in Nat : n = configJob[t].change
    BY <1>0, HeldRow
  <1>2. n \in DOMAIN changes /\ changes[n] \in ChangeRow
    BY <1>0, <1>1, HeldRow
  <1>3. PICK s : s = [hash |-> changes[n].result, change |-> n]
    OBVIOUS
  <1>4. /\ s.hash = changes[n].result /\ s.change = n
        /\ s \in [hash : {c.result : c \in ChangeRow}, change : Nat]
    BY <1>2, <1>3
  <1>5. /\ changes[n].status = "rejected" => snapshots' = snapshots
        /\ changes[n].status # "rejected" => snapshots' = snapshots \cup {s}
    BY <1>1, <1>3 DEF SaveSnapshot
  <1>6. /\ configJob' \in [ConfigThread -> BusyJob \cup {NoPatchJob}]
        /\ configJob'[t].pc = "publish" /\ configJob'[t].req = configJob[t].req
        /\ configJob'[t].change = n
        /\ \A u \in ConfigThread : u # t => configJob'[u] = configJob[u]
    BY <1>0, <1>1, GotoMoves DEF SaveSnapshot
  <1>7. "publish" \in Holding /\ "snapshot" \in Holding /\ configJob'[t].pc # "level"
        /\ configJob'[t].pc # "service" /\ configJob'[t].pc # "idle" /\ configJob'[t].pc # "snapshot"
    BY <1>6 DEF Holding
  <1>8. snapshots' \subseteq [hash : {c.result : c \in ChangeRow}, change : Nat]
    BY <1>0, <1>4, <1>5 DEF ConfigTypeOK
  <1>9. ConfigTypeOK'
    BY <1>0, <1>6, <1>8 DEF ConfigTypeOK
  <1>10. NamesAChange'
    BY <1>0, <1>2, <1>4, <1>5 DEF NamesAChange
  <1>11. KeyOnce' /\ PublishedOnce'
    BY <1>0 DEF KeyOnce, PublishedOnce
  <1>12. JobsHold'
    <2>1. SUFFICES ASSUME NEW u \in ConfigThread, configJob'[u].pc \in Holding
                   PROVE  /\ configJob'[u].change \in DOMAIN changes
                          /\ changes[configJob'[u].change].req = configJob'[u].req
                          /\ \A w \in ConfigThread : w # u /\ configJob'[w].pc \in Holding
                               => configJob'[w].change # configJob'[u].change
                          /\ configJob'[u].pc # "level" =>
                               \A i \in DOMAIN published : published[i] # configJob'[u].change
                          /\ configJob'[u].pc = "level" => SetsLevel(configJob[u].change)'
      BY <1>0 DEF JobsHold
    <2>2. \A w \in ConfigThread : /\ configJob'[w].pc \in Holding <=> configJob[w].pc \in Holding
                                  /\ configJob'[w].change = configJob[w].change
                                  /\ configJob'[w].req = configJob[w].req
                                  /\ configJob'[w].pc = "level" <=> configJob[w].pc = "level"
      BY <1>0, <1>1, <1>6, <1>7
    <2>. QED
      BY <1>0, <2>1, <2>2 DEF JobsHold, SetsLevel
  <1>13. ~configShared' => ServedAlone'
    <2>1. ~configShared => configJob'[t].change = Len(changes')
      BY <1>0, <1>1, <1>6 DEF ConfigInv, ServedAlone, AtPc
    <2>. QED
      BY <1>0, <1>6, <1>7, <2>1, StaysAlone
  <1>14. ASSUME ~configShared', configCrashes' = 0
         PROVE  ChangesSettled' /\ AnsweredHasSnapshot' /\ AnswerIsOwn'
    <2>1. ChangesSettled /\ AnsweredHasSnapshot /\ AnswerIsOwn
      BY <1>0, <1>14 DEF ConfigInv
    <2>2. \A c \in DOMAIN changes : /\ Free(c, Holding)' => Free(c, Holding)
                                    /\ Free(c, Holding) => Free(c, Holding)'
      BY <1>0, <1>1, <1>6, <1>7 DEF Free
    <2>3. \A c \in DOMAIN changes : c # n /\ Free(c, {"snapshot"})' => Free(c, {"snapshot"})
      BY <1>0, <1>1, <1>6 DEF Free
    <2>4. changes[n].status # "rejected" => \E q \in snapshots' : q.change = n
      BY <1>4, <1>5
    <2>5. snapshots \subseteq snapshots'
      BY <1>5
    <2>6. ChangesSettled'
      BY <1>0, <2>1, <2>2, <2>3, <2>4, <2>5 DEF ChangesSettled, LevelsSettled, SnapshotsTaken, SetsIn, SetsLevel, InForce
    <2>7. AnsweredHasSnapshot' /\ AnswerIsOwn'
      BY <1>0, <2>1, <2>5 DEF AnsweredHasSnapshot, AnswerIsOwn
    <2>. QED
      BY <2>6, <2>7
  <1>. QED
    BY <1>9, <1>10, <1>11, <1>12, <1>13, <1>14 DEF ConfigInv

\* An event of a change whose turn it is.
LEMMA EventKeeps ==
    ASSUME ConfigInv, NEW t \in ConfigThread, PublishChange(t)
    PROVE  /\ published' \in Seq(Nat) /\ DOMAIN published' = 1..Len(published')
           /\ PublishedOnce'
           /\ \A i \in DOMAIN published' :
                published'[i] \in DOMAIN changes
                /\ \A u \in ConfigThread : u # t /\ configJob[u].pc \in Holding /\ configJob[u].pc # "level"
                     => published'[i] # configJob[u].change
  <1>0. /\ ConfigTypeOK /\ NamesAChange /\ PublishedOnce /\ JobsHold
        /\ configJob[t].pc = "publish" /\ configJob[t].pc \in Holding /\ configJob[t].pc # "level"
        /\ UNCHANGED changes
    BY DEF ConfigInv, PublishChange, AtPc, Holding
  <1>1. PICK n \in Nat : n = configJob[t].change
    BY <1>0, HeldRow
  <1>2. /\ n \in DOMAIN changes /\ \A i \in DOMAIN published : published[i] # n
        /\ \A u \in ConfigThread : u # t /\ configJob[u].pc \in Holding => configJob[u].change # n
    BY <1>0, <1>1 DEF JobsHold
  <1>3. /\ changes[n].status # "accepted" => published' = published
        /\ changes[n].status = "accepted" => published' = Append(published, n)
    BY <1>1 DEF PublishChange
  <1>4. published \in Seq(Nat)
    BY <1>0 DEF ConfigTypeOK
  <1>5. /\ \A i \in DOMAIN published : published[i] \in DOMAIN changes
                                      /\ changes[published[i]].status = "accepted"
        /\ \A i, j \in DOMAIN published : published[i] = published[j] => i = j
        /\ \A i \in DOMAIN published : \A u \in ConfigThread :
             configJob[u].pc \in Holding /\ configJob[u].pc # "level"
               => published[i] # configJob[u].change
    BY <1>0 DEF NamesAChange, PublishedOnce, JobsHold
  <1>6. CASE changes[n].status # "accepted"
    BY <1>0, <1>3, <1>4, <1>5, <1>6 DEF PublishedOnce
  <1>7. CASE changes[n].status = "accepted"
    <2>1. published' = Append(published, n)
      BY <1>3, <1>7
    <2>2. PICK m \in Nat : m = Len(published)
      BY <1>4
    <2>3. /\ published' \in Seq(Nat) /\ DOMAIN published = 1..m /\ DOMAIN published' = 1..(m + 1)
          /\ Len(published') = m + 1 /\ published'[m + 1] = n
          /\ \A i \in 1..m : published'[i] = published[i]
      BY <1>4, <2>1, <2>2
    <2>4. \A i \in 1..(m + 1) : i \in 1..m \/ i = m + 1
      BY <2>2
    <2>. QED
      BY <1>0, <1>2, <1>5, <1>7, <2>3, <2>4 DEF PublishedOnce
  <1>. QED
    BY <1>6, <1>7

\* The answer to a request whose change is complete, and whose level, if it has
\* one, is in force.
LEMMA HeldReply ==
    ASSUME ConfigInv, NEW t \in ConfigThread, configJob[t].pc \in {"publish", "level"},
           ReplyTo(t, "ok", configJob[t].change),
           UNCHANGED <<changes, snapshots, configShared, configCrashes>>,
           overrides' \in Seq(Override), published' \in Seq(Nat), PublishedOnce',
           \A i \in DOMAIN published' :
                published'[i] \in DOMAIN changes
                /\ \A u \in ConfigThread : u # t /\ configJob[u].pc \in Holding /\ configJob[u].pc # "level"
                     => published'[i] # configJob[u].change,
           ~configShared /\ configCrashes = 0 => LevelsSettled'
    PROVE  ConfigInv'
  <1>0. /\ ConfigTypeOK /\ NamesAChange /\ KeyOnce /\ PublishedOnce /\ JobsHold
        /\ configJob[t].pc # "idle" /\ configJob[t].pc \in Holding
        /\ configJob[t].pc # "snapshot"
    BY DEF ConfigInv, Holding
  <1>1. PICK n \in Nat : n = configJob[t].change
    BY <1>0, HeldRow
  <1>2. /\ n \in DOMAIN changes /\ n # 0 /\ changes[n].req = configJob[t].req
        /\ \A u \in ConfigThread : u # t /\ configJob[u].pc \in Holding => configJob[u].change # n
    BY <1>0, <1>1, HeldRow
  <1>3. PICK code \in ReplyCode : code = "ok"
    BY DEF ReplyCode
  <1>4. /\ configJob' \in [ConfigThread -> BusyJob \cup {NoPatchJob}]
        /\ configJob'[t].pc = "idle"
        /\ \A u \in ConfigThread : u # t => configJob'[u] = configJob[u]
        /\ configAnswers' \subseteq [req : ConfigRequest, code : ReplyCode, change : Nat]
        /\ configAnswers' = configAnswers \cup {[req |-> configJob[t].req, code |-> code, change |-> n]}
    BY <1>0, <1>1, <1>3, ReplyMoves
  <1>5. PICK a : a = [req |-> configJob[t].req, code |-> code, change |-> n]
    OBVIOUS
  <1>6. configAnswers' = configAnswers \cup {a} /\ a.change = n /\ a.req = configJob[t].req
    BY <1>4, <1>5
  <1>7. configJob'[t].pc \notin Holding /\ "snapshot" \in Holding
    BY <1>4 DEF Holding
  <1>8. ConfigTypeOK'
    BY <1>0, <1>4 DEF ConfigTypeOK
  <1>9. NamesAChange'
    BY <1>0, <1>2, <1>6 DEF NamesAChange
  <1>10. KeyOnce'
    BY <1>0 DEF KeyOnce
  <1>11. JobsHold'
    <2>1. SUFFICES ASSUME NEW u \in ConfigThread, configJob'[u].pc \in Holding
                   PROVE  /\ configJob'[u].change \in DOMAIN changes
                          /\ changes[configJob'[u].change].req = configJob'[u].req
                          /\ \A w \in ConfigThread : w # u /\ configJob'[w].pc \in Holding
                               => configJob'[w].change # configJob'[u].change
                          /\ configJob'[u].pc # "level" =>
                               \A i \in DOMAIN published' : published'[i] # configJob'[u].change
                          /\ configJob'[u].pc = "level" => SetsLevel(configJob[u].change)'
      BY DEF JobsHold
    <2>2. \A w \in ConfigThread : configJob'[w].pc \in Holding => w # t /\ configJob'[w] = configJob[w]
      BY <1>4, <1>7
    <2>3. configJob'[u].pc = "level" => SetsLevel(configJob[u].change)'
      BY <1>0, <2>1, <2>2 DEF JobsHold, SetsLevel
    <2>. QED
      BY <1>0, <2>1, <2>2, <2>3 DEF JobsHold
  <1>12. ~configShared' => ServedAlone'
    BY <1>0, <1>4, LastOneLeaves
  <1>13. ASSUME ~configShared', configCrashes' = 0
         PROVE  ChangesSettled' /\ AnsweredHasSnapshot' /\ AnswerIsOwn'
    <2>1. SnapshotsTaken /\ AnsweredHasSnapshot /\ AnswerIsOwn /\ LevelsSettled'
      BY <1>13 DEF ConfigInv, ChangesSettled
    <2>2. \A c : Free(c, {"snapshot"})' => Free(c, {"snapshot"})
      BY <1>0, <1>4 DEF Free
    <2>3. SnapshotsTaken'
      BY <2>1, <2>2 DEF SnapshotsTaken
    <2>4. Free(n, {"snapshot"})
      BY <1>0, <1>2, <1>7 DEF Free
    <2>5. changes[n].status # "rejected" => \E s \in snapshots : s.change = n
      BY <1>2, <2>1, <2>4 DEF SnapshotsTaken
    <2>6. AnsweredHasSnapshot' /\ AnswerIsOwn'
      BY <1>2, <1>6, <2>1, <2>5 DEF AnsweredHasSnapshot, AnswerIsOwn
    <2>. QED
      BY <2>1, <2>3, <2>6 DEF ChangesSettled
  <1>. QED
    BY <1>8, <1>9, <1>10, <1>11, <1>12, <1>13 DEF ConfigInv

\* publish_change, with a level for the logging consumer or without.
LEMMA PublishKeeps ==
    ASSUME ConfigInv, NEW t \in ConfigThread, PublishChange(t)
    PROVE  ConfigInv'
  <1>0. /\ ConfigTypeOK /\ NamesAChange /\ KeyOnce /\ JobsHold
        /\ configJob[t].pc = "publish" /\ configJob[t].pc # "idle" /\ configJob[t].pc \in Holding
        /\ configJob[t].pc \in {"publish", "level"}
        /\ UNCHANGED <<changes, snapshots, overrides, configShared, configCrashes>>
    BY DEF ConfigInv, PublishChange, AtPc, Holding
  <1>1. PICK n \in Nat : n = configJob[t].change
    BY <1>0, HeldRow
  <1>2. /\ n \in DOMAIN changes /\ changes[n] \in ChangeRow
        /\ changes[n].req = configJob[t].req
        /\ \A u \in ConfigThread : u # t /\ configJob[u].pc \in Holding => configJob[u].change # n
    BY <1>0, <1>1, HeldRow
  <1>3. /\ published' \in Seq(Nat) /\ PublishedOnce'
        /\ \A i \in DOMAIN published' :
             published'[i] \in DOMAIN changes
             /\ \A u \in ConfigThread : u # t /\ configJob[u].pc \in Holding /\ configJob[u].pc # "level"
                  => published'[i] # configJob[u].change
    BY EventKeeps
  <1>4. overrides \in Seq(Override)
    BY <1>0 DEF ConfigTypeOK
  <1>5. CASE ~Applies(changes[n]) /\ ReplyTo(t, "ok", configJob[t].change)
    <2>1. ~SetsLevel(n)
      BY <1>2, <1>5, ChangeShape DEF SetsLevel, Applies
    <2>2. PICK code \in ReplyCode : code = "ok"
      BY DEF ReplyCode
    <2>3. configJob'[t].pc = "idle" /\ \A u \in ConfigThread : u # t => configJob'[u] = configJob[u]
      BY <1>0, <1>1, <1>5, <2>2, ReplyMoves
    <2>4. ASSUME ~configShared, configCrashes = 0 PROVE LevelsSettled'
      <3>1. LevelsSettled
        BY <2>4 DEF ConfigInv, ChangesSettled
      <3>2. \A c : /\ Free(c, Holding) => Free(c, Holding)'
                   /\ c # n /\ Free(c, Holding)' => Free(c, Holding)
        BY <1>1, <2>3 DEF Free, Holding
      <3>. QED
        BY <1>0, <2>1, <3>1, <3>2 DEF LevelsSettled, SetsIn, SetsLevel, InForce
    <2>5. overrides' \in Seq(Override)
      BY <1>0, <1>4
    <2>. QED
      BY <1>0, <1>3, <1>5, <2>4, <2>5, HeldReply
  <1>6. CASE /\ Applies(changes[n]) /\ UNCHANGED configAnswers
             /\ configJob' = [configJob EXCEPT ![t] = [@ EXCEPT !.pc = "level", !.seen = overrides]]
    <2>1. SetsLevel(n)
      <3>1. LevelKey \in DOMAIN changes[n].accepted /\ changes[n].accepted[LevelKey] \in KnownLevels
        BY <1>6 DEF ActiveKeys, Applies
      <3>. QED
        BY <1>2, <3>1, ChangeShape DEF SetsLevel
    <2>2. PICK k : k = [configJob[t] EXCEPT !.pc = "level", !.seen = overrides]
      OBVIOUS
    <2>3. k = [pc |-> "level", req |-> configJob[t].req, change |-> n, seen |-> overrides]
      <3>1. configJob[t] = [pc |-> configJob[t].pc, req |-> configJob[t].req,
                            change |-> configJob[t].change, seen |-> configJob[t].seen]
        BY <1>0, PatchJobShape
      <3>2. PICK p, q, c, s : configJob[t] = [pc |-> p, req |-> q, change |-> c, seen |-> s]
        BY <3>1
      <3>3. q = configJob[t].req /\ c = n
        BY <1>1, <3>2
      <3>4. PICK v : v = overrides
        OBVIOUS
      <3>5. k = [configJob[t] EXCEPT !.pc = "level", !.seen = v]
        BY <2>2, <3>4
      <3>6. k = [pc |-> "level", req |-> q, change |-> c, seen |-> v]
        <4>1. PICK b : b = [configJob[t] EXCEPT !.pc = "level"]
          OBVIOUS
        <4>2. b = [pc |-> "level", req |-> q, change |-> c, seen |-> s]
          BY <3>2, <4>1
        <4>3. k = [b EXCEPT !.seen = v]
          BY <3>5, <4>1
        <4>. QED
          BY <4>2, <4>3
      <3>. QED
        BY <3>3, <3>4, <3>6
    <2>4. k \in BusyJob /\ k.pc = "level" /\ k.req = configJob[t].req /\ k.change = n /\ k.seen = overrides
      BY <1>0, <1>4, <2>3, PatchJobShape DEF BusyJob
    <2>5. configJob' = [configJob EXCEPT ![t] = k]
      BY <1>6, <2>2
    <2>6. /\ configJob' \in [ConfigThread -> BusyJob \cup {NoPatchJob}]
          /\ configJob'[t] = k
          /\ \A u \in ConfigThread : u # t => configJob'[u] = configJob[u]
      BY <1>0, <2>4, <2>5, OneJobMoves
    <2>7. "level" \in Holding
      BY DEF Holding
    <2>8. ConfigTypeOK'
      BY <1>0, <1>3, <1>6, <2>6 DEF ConfigTypeOK
    <2>9. NamesAChange' /\ KeyOnce'
      BY <1>0, <1>3, <1>6 DEF NamesAChange, KeyOnce
    <2>10. JobsHold'
      <3>1. SUFFICES ASSUME NEW u \in ConfigThread, configJob'[u].pc \in Holding
                     PROVE  /\ configJob'[u].change \in DOMAIN changes
                            /\ changes[configJob'[u].change].req = configJob'[u].req
                            /\ \A w \in ConfigThread : w # u /\ configJob'[w].pc \in Holding
                                 => configJob'[w].change # configJob'[u].change
                            /\ configJob'[u].pc # "level" =>
                                 \A i \in DOMAIN published' : published'[i] # configJob'[u].change
                            /\ configJob'[u].pc = "level" => SetsLevel(configJob[u].change)'
        BY <1>0 DEF JobsHold
      <3>2. \A w \in ConfigThread : w # t /\ configJob'[w].pc \in Holding
              => configJob[w].pc \in Holding /\ configJob'[w] = configJob[w] /\ configJob[w].change # n
        BY <1>2, <2>6
      <3>3. CASE u = t
        BY <1>0, <1>2, <2>1, <2>4, <2>6, <3>2, <3>3 DEF SetsLevel
      <3>4. CASE u # t
        BY <1>0, <1>3, <2>4, <2>6, <3>1, <3>2, <3>4 DEF JobsHold, SetsLevel
      <3>. QED
        BY <3>3, <3>4
    <2>11. ~configShared' => ServedAlone'
      <3>1. ~configShared => configJob'[t].change = Len(changes')
        BY <1>0, <1>1, <2>4, <2>6 DEF ConfigInv, ServedAlone, AtPc
      <3>. QED
        BY <1>0, <2>4, <2>6, <3>1, StaysAlone
    <2>12. ASSUME ~configShared', configCrashes' = 0
           PROVE  ChangesSettled' /\ AnsweredHasSnapshot' /\ AnswerIsOwn'
      <3>1. LevelsSettled /\ SnapshotsTaken /\ AnsweredHasSnapshot /\ AnswerIsOwn
        BY <1>0, <2>12 DEF ConfigInv, ChangesSettled
      <3>2. \A c : /\ Free(c, Holding) => Free(c, Holding)'
                   /\ Free(c, Holding)' => Free(c, Holding)
                   /\ Free(c, {"snapshot"})' => Free(c, {"snapshot"})
        BY <1>0, <1>1, <2>4, <2>6, <2>7 DEF Free
      <3>3. LevelsSettled'
        BY <1>0, <3>1, <3>2 DEF LevelsSettled, SetsIn, SetsLevel, InForce
      <3>4. SnapshotsTaken'
        BY <1>0, <3>1, <3>2 DEF SnapshotsTaken
      <3>5. AnsweredHasSnapshot' /\ AnswerIsOwn'
        BY <1>0, <1>6, <3>1 DEF AnsweredHasSnapshot, AnswerIsOwn
      <3>. QED
        BY <3>3, <3>4, <3>5 DEF ChangesSettled
    <2>. QED
      BY <1>3, <2>8, <2>9, <2>10, <2>11, <2>12 DEF ConfigInv
  <1>. QED
    BY <1>1, <1>5, <1>6 DEF PublishChange

\* set_level: the overrides read before, and the level of this change.
LEMMA LevelKeeps ==
    ASSUME ConfigInv, NEW t \in ConfigThread, SetLevel(t)
    PROVE  ConfigInv'
  <1>0. /\ ConfigTypeOK /\ NamesAChange /\ KeyOnce /\ PublishedOnce /\ JobsHold
        /\ configJob[t].pc = "level" /\ configJob[t].pc # "idle" /\ configJob[t].pc \in Holding
        /\ configJob[t].pc \in {"publish", "level"}
        /\ UNCHANGED <<changes, snapshots, published, configShared, configCrashes>>
        /\ ReplyTo(t, "ok", configJob[t].change)
    BY DEF ConfigInv, SetLevel, AtPc, Holding
  <1>1. PICK n \in Nat : n = configJob[t].change
    BY <1>0, HeldRow
  <1>2. /\ n \in DOMAIN changes /\ changes[n] \in ChangeRow
        /\ \A u \in ConfigThread : u # t /\ configJob[u].pc \in Holding => configJob[u].change # n
    BY <1>0, <1>1, HeldRow
  <1>3. SetsLevel(n)
    BY <1>0, <1>1 DEF JobsHold
  <1>4. PICK o : o = [scope |-> OverrideScope(changes[n].req.scope),
                      level |-> changes[n].accepted[LevelKey]]
    OBVIOUS
  <1>5. /\ o \in Override /\ o.scope = OverrideScope(changes[n].req.scope)
        /\ o.level = changes[n].accepted[LevelKey]
    BY <1>2, <1>3, <1>4, ChangeShape DEF SetsLevel
  <1>6. PICK s \in Seq(Override) : s = configJob[t].seen
    BY <1>0, PatchJobShape
  <1>7. overrides' = Append(s, o)
    BY <1>1, <1>4, <1>6 DEF SetLevel
  <1>8. PICK m \in Nat : m = Len(s)
    BY <1>6
  <1>9. /\ overrides' \in Seq(Override) /\ DOMAIN s = 1..m /\ DOMAIN overrides' = 1..(m + 1)
        /\ overrides'[m + 1] = o /\ \A i \in 1..m : overrides'[i] = s[i]
    BY <1>5, <1>6, <1>7, <1>8
  <1>10. PICK code \in ReplyCode : code = "ok"
    BY DEF ReplyCode
  <1>11. configJob'[t].pc = "idle" /\ \A u \in ConfigThread : u # t => configJob'[u] = configJob[u]
    BY <1>0, <1>1, <1>10, ReplyMoves
  <1>12. ASSUME ~configShared, configCrashes = 0 PROVE LevelsSettled'
    <2>1. LevelsSettled
      BY <1>12 DEF ConfigInv, ChangesSettled
    <2>2. s = overrides /\ n = Len(changes)
      BY <1>0, <1>1, <1>6, <1>12 DEF ConfigInv, ServedAlone, AtPc
    <2>3. \A c : /\ Free(c, Holding) => Free(c, Holding)'
                 /\ c # n /\ Free(c, Holding)' => Free(c, Holding)
      BY <1>1, <1>11 DEF Free, Holding
    <2>4. Free(n, Holding)'
      BY <1>2, <1>11 DEF Free, Holding
    <2>5. DOMAIN changes = 1..n
      BY <1>0, <2>2, LedgerShape
    <2>6. \A c, x : SetsIn(c, x)' <=> SetsIn(c, x)
      BY <1>0 DEF SetsIn, SetsLevel
    <2>7. ASSUME NEW x, Reaches(o.scope, x) PROVE InForce(x, o.level)'
      <3>1. \A j \in DOMAIN overrides' : ~(j > m + 1)
        BY <1>9
      <3>2. m + 1 \in DOMAIN overrides'
        BY <1>9
      <3>. QED
        BY <1>9, <2>7, <3>1, <3>2 DEF InForce
    <2>8. ASSUME NEW x, NEW level, InForce(x, level), ~Reaches(o.scope, x)
          PROVE  InForce(x, level)'
      <3>1. PICK i \in 1..m : /\ Reaches(s[i].scope, x) /\ s[i].level = level
                              /\ \A j \in 1..m : j > i => ~Reaches(s[j].scope, x)
        BY <1>9, <2>2, <2>8 DEF InForce
      <3>2. i \in 1..(m + 1) /\ \A j \in 1..(m + 1) : j \in 1..m \/ j = m + 1
        BY <3>1
      <3>3. \A j \in 1..(m + 1) : j > i => ~Reaches(overrides'[j].scope, x)
        BY <1>9, <2>8, <3>1, <3>2
      <3>. QED
        BY <1>9, <3>1, <3>2, <3>3 DEF InForce
    <2>9. SUFFICES ASSUME NEW x \in Contexts, NEW c \in DOMAIN changes, Free(c, Holding)',
                          SetsIn(c, x),
                          \A d \in DOMAIN changes : d > c /\ Free(d, Holding)' => ~SetsIn(d, x)
                   PROVE  InForce(x, changes[c].accepted[LevelKey])'
      BY <1>0, <2>6 DEF LevelsSettled
    <2>10. CASE c = n
      <3>1. Reaches(o.scope, x)
        BY <1>5, <2>9, <2>10 DEF SetsIn
      <3>2. InForce(x, o.level)'
        BY <2>7, <3>1
      <3>. QED
        BY <1>0, <1>5, <2>10, <3>2 DEF InForce
    <2>11. CASE c # n
      <3>1. n > c
        BY <2>5, <2>9, <2>11
      <3>2. ~Reaches(o.scope, x)
        BY <1>2, <1>3, <1>5, <2>4, <2>9, <3>1 DEF SetsIn
      <3>3. Free(c, Holding)
        BY <2>3, <2>9, <2>11
      <3>4. InForce(x, changes[c].accepted[LevelKey])
        BY <2>1, <2>3, <2>9, <3>3 DEF LevelsSettled
      <3>5. PICK level : level = changes[c].accepted[LevelKey]
        OBVIOUS
      <3>6. InForce(x, level)'
        BY <2>8, <3>2, <3>4, <3>5
      <3>. QED
        BY <1>0, <3>5, <3>6 DEF InForce
    <2>. QED
      BY <2>10, <2>11
  <1>13. /\ published' \in Seq(Nat) /\ PublishedOnce'
         /\ \A i \in DOMAIN published' :
              published'[i] \in DOMAIN changes
              /\ \A u \in ConfigThread : u # t /\ configJob[u].pc \in Holding /\ configJob[u].pc # "level"
                   => published'[i] # configJob[u].change
    BY <1>0 DEF ConfigTypeOK, NamesAChange, PublishedOnce, JobsHold
  <1>. QED
    BY <1>0, <1>9, <1>12, <1>13, HeldReply

\* A crash forgets the events, the overrides and the requests.
LEMMA ConfigCrashKeeps ==
    ASSUME ConfigInv, ConfigCrash
    PROVE  ConfigInv'
  <1>0. /\ ConfigTypeOK /\ NamesAChange /\ KeyOnce
        /\ UNCHANGED <<changes, snapshots, configAnswers, configShared>>
        /\ published' = <<>> /\ overrides' = <<>>
        /\ configJob' = [t \in ConfigThread |-> NoPatchJob] /\ configCrashes' = configCrashes + 1
    BY DEF ConfigInv, ConfigCrash
  <1>1. \A t \in ConfigThread : configJob'[t].pc = "idle" /\ configJob'[t].pc \notin Holding
    BY <1>0 DEF NoPatchJob, Holding
  <1>2. DOMAIN published' = {} /\ published' \in Seq(Nat) /\ overrides' \in Seq(Override)
    BY <1>0
  <1>3. configJob' \in [ConfigThread -> BusyJob \cup {NoPatchJob}]
    BY <1>0
  <1>4. ConfigTypeOK'
    BY <1>0, <1>2, <1>3 DEF ConfigTypeOK
  <1>5. NamesAChange' /\ KeyOnce' /\ PublishedOnce'
    BY <1>0, <1>2 DEF NamesAChange, KeyOnce, PublishedOnce
  <1>6. JobsHold' /\ ServedAlone'
    BY <1>1 DEF JobsHold, ServedAlone, AtPc
  <1>7. configCrashes' # 0
    BY <1>0 DEF ConfigTypeOK
  <1>. QED
    BY <1>4, <1>5, <1>6, <1>7 DEF ConfigInv

-----------------------------------------------------------------------------
(* The theorem.                                                             *)

\* What the invariant says of the ledger and of its answers.
LEMMA ConfigInvSound == ConfigInv => ConfigSound
  <1>. SUFFICES ASSUME ConfigInv PROVE ConfigSound
    OBVIOUS
  <1>1. ConfigTypeOK /\ NamesAChange /\ KeyOnce /\ PublishedOnce
    BY DEF ConfigInv
  <1>2. \A c \in DOMAIN changes : changes[c] \in ChangeRow
    BY <1>1, LedgerShape
  <1>3. AllOrNothing
    BY <1>2, ChangeShape DEF AllOrNothing
  <1>4. SecretsStayOut
    BY <1>2, ChangeShape DEF SecretsStayOut
  <1>5. ASSUME ~configShared, configCrashes = 0
        PROVE  AcceptedInForce /\ AnsweredHasSnapshot /\ AnswerIsOwn
    <2>1. LevelsSettled /\ AnsweredHasSnapshot /\ AnswerIsOwn
      BY <1>5 DEF ConfigInv, ChangesSettled
    <2>2. ASSUME \A t \in ConfigThread : AtPc(t, "idle") PROVE \A c : Free(c, Holding)
      BY <2>2 DEF Free, Holding, AtPc
    <2>3. AcceptedInForce
      BY <2>1, <2>2 DEF AcceptedInForce, LevelsSettled
    <2>. QED
      BY <2>1, <2>3
  <1>. QED
    BY <1>1, <1>3, <1>4, <1>5 DEF ConfigSound

\* For every registry, every set of patches and threads and any number of
\* crashes, the ledger takes a patch once and whole and no secret, no change is
\* published twice; and while requests are served one at a time and nothing
\* crashes, an accepted level is in force and every answer is the client's own
\* and has its snapshot (DefaultRuntimeConfigMutationService, LoggingManager).
THEOREM ConfigIsSound == ConfigSpec => []ConfigSound
  <1>1. ConfigInit => ConfigInv
    <2>. SUFFICES ASSUME ConfigInit PROVE ConfigInv
      OBVIOUS
    <2>1. /\ changes = <<>> /\ snapshots = {} /\ published = <<>> /\ overrides = <<>>
          /\ configJob = [t \in ConfigThread |-> NoPatchJob]
          /\ configAnswers = {} /\ configShared = FALSE /\ configCrashes = 0
      BY DEF ConfigInit
    <2>2. \A t \in ConfigThread : configJob[t].pc = "idle" /\ configJob[t].pc \notin Holding
      BY <2>1 DEF NoPatchJob, Holding
    <2>3. DOMAIN changes = {} /\ DOMAIN published = {}
      BY <2>1
    <2>4. ConfigTypeOK
      <3>1. changes \in Seq(ChangeRow) /\ published \in Seq(Nat) /\ overrides \in Seq(Override)
        BY <2>1
      <3>2. configJob \in [ConfigThread -> BusyJob \cup {NoPatchJob}]
        BY <2>1
      <3>. QED
        BY <2>1, <3>1, <3>2 DEF ConfigTypeOK
    <2>5. NamesAChange /\ KeyOnce /\ PublishedOnce /\ JobsHold /\ ServedAlone
      BY <2>1, <2>2, <2>3 DEF NamesAChange, KeyOnce, PublishedOnce, JobsHold, ServedAlone, AtPc
    <2>6. ChangesSettled /\ AnsweredHasSnapshot /\ AnswerIsOwn
      BY <2>1, <2>3 DEF ChangesSettled, LevelsSettled, SnapshotsTaken, AnsweredHasSnapshot, AnswerIsOwn
    <2>. QED
      BY <2>1, <2>4, <2>5, <2>6 DEF ConfigInv
  <1>2. ConfigInv /\ [ConfigNext]_configVars => ConfigInv'
    <2>0. SUFFICES ASSUME ConfigInv, [ConfigNext]_configVars PROVE ConfigInv'
      OBVIOUS
    <2>2. CASE UNCHANGED configVars
      <3>1. UNCHANGED <<changes, snapshots, published, overrides, configJob, configAnswers,
                        configShared, configCrashes>>
        BY <2>2 DEF configVars
      <3>. QED
        BY <2>0, <3>1 DEF ConfigInv, ConfigTypeOK, NamesAChange, KeyOnce, PublishedOnce, JobsHold,
                          ServedAlone, ChangesSettled, LevelsSettled, SnapshotsTaken,
                          AnsweredHasSnapshot, AnswerIsOwn, SetsIn, SetsLevel, InForce, Free, AtPc, Req,
                          Existing
    <2>3. CASE ConfigNext
      <3>1. ASSUME NEW t \in ConfigThread, NEW r \in ConfigRequest, SendPatch(t, r) PROVE ConfigInv'
        BY <2>0, <3>1, SendKeeps
      <3>2. ASSUME NEW t \in ConfigThread,
                   \/ RouteLookup(t) \/ ServiceLookup(t) \/ AppendChange(t) \/ SaveSnapshot(t)
                   \/ PublishChange(t) \/ SetLevel(t)
            PROVE  ConfigInv'
        BY <2>0, <3>2, RouteKeeps, ServiceKeeps, AppendKeeps, SnapshotKeeps, PublishKeeps, LevelKeeps
      <3>3. ASSUME ConfigCrash PROVE ConfigInv'
        BY <2>0, <3>3, ConfigCrashKeeps
      <3>. QED
        BY <2>3, <3>1, <3>2, <3>3 DEF ConfigNext
    <2>. QED
      BY <2>0, <2>2, <2>3
  <1>. QED
    BY <1>1, <1>2, ConfigInvSound, PTL DEF ConfigSpec

-----------------------------------------------------------------------------
(* Precision files: contents.                                               *)

\* An edit puts one line of its operation in and keeps the others where they
\* are (append, _replace_range_once).
LEMMA AfterShape ==
    ASSUME NEW o \in FileOperation, NEW r \in Edit, NEW before \in Content
    PROVE  /\ After(o, r, before) \in Content
           /\ \E p \in DOMAIN After(o, r, before) :
                /\ After(o, r, before)[p] = <<o, r.body>>
                /\ \A i \in DOMAIN After(o, r, before) : i # p =>
                     i \in DOMAIN before /\ After(o, r, before)[i] = before[i]
  <1>1. r.body \in FileBody /\ before \in Seq(Line) /\ before # <<>>
    BY DEF Edit, Content
  <1>2. PICK line \in Line : line = <<o, r.body>>
    BY <1>1 DEF Line
  <1>3. PICK n \in Nat : n = Len(before)
    BY <1>1
  <1>4. n # 0 /\ DOMAIN before = 1..n
    BY <1>1, <1>3
  <1>5. CASE r.kind = "append"
    <2>1. After(o, r, before) = Append(before, line)
      BY <1>2, <1>5 DEF After
    <2>2. /\ Append(before, line) \in Seq(Line) /\ Append(before, line) # <<>>
          /\ DOMAIN Append(before, line) = 1..(n + 1)
          /\ Append(before, line)[n + 1] = line
          /\ \A i \in 1..n : Append(before, line)[i] = before[i]
      BY <1>1, <1>3
    <2>3. n + 1 \in 1..(n + 1) /\ \A i \in 1..(n + 1) : i # n + 1 => i \in 1..n
      BY <1>3
    <2>. QED
      BY <1>2, <1>4, <2>1, <2>2, <2>3 DEF Content
  <1>6. CASE r.kind # "append"
    <2>1. After(o, r, before) = <<line>> \o Tail(before)
      BY <1>2, <1>6 DEF After
    <2>2. PICK tail \in Seq(Line) : tail = Tail(before)
      BY <1>1, HeadTailProperties
    <2>3. Len(tail) = n - 1 /\ \A i \in 1..(n - 1) : tail[i] = before[i + 1]
      BY <1>1, <1>3, <1>4, <2>2
    <2>4. PICK all : all = <<line>> \o tail
      OBVIOUS
    <2>5. /\ all \in Seq(Line) /\ Len(all) = 1 + Len(tail)
          /\ all[1] = line /\ \A i \in 1..Len(all) : i > 1 => all[i] = tail[i - 1]
      BY <2>2, <2>4
    <2>6. Len(all) = n /\ DOMAIN all = 1..n /\ all # <<>>
      BY <1>3, <1>4, <2>3, <2>5
    <2>7. \A i \in 1..n : i # 1 => all[i] = before[i]
      <3>1. SUFFICES ASSUME NEW i \in 1..n, i # 1 PROVE all[i] = before[i]
        OBVIOUS
      <3>2. i - 1 \in 1..(n - 1) /\ i > 1 /\ (i - 1) + 1 = i
        BY <1>3, <3>1
      <3>3. all[i] = tail[i - 1]
        BY <2>5, <2>6, <3>1, <3>2
      <3>. QED
        BY <2>3, <3>2, <3>3
    <2>8. 1 \in 1..n
      BY <1>3, <1>4
    <2>9. After(o, r, before) = all
      BY <2>1, <2>2, <2>4
    <2>10. all \in Content
      BY <2>5, <2>6 DEF Content
    <2>11. \E p \in DOMAIN all : /\ all[p] = line
                               /\ \A i \in DOMAIN all : i # p => i \in DOMAIN before /\ all[i] = before[i]
      BY <1>4, <2>5, <2>6, <2>7, <2>8
    <2>. QED
      BY <1>2, <2>9, <2>10, <2>11
  <1>. QED
    BY <1>5, <1>6

\* So an edit of a content without lines of its operation has one of it and no
\* operation twice, and it brings no other operation in.
LEMMA AfterOnce ==
    ASSUME NEW o \in FileOperation, NEW r \in Edit, NEW before \in Content,
           Once(before), ~Has(before, o)
    PROVE  /\ Once(After(o, r, before))
           /\ \A p : p # o /\ ~Has(before, p) => ~Has(After(o, r, before), p)
  <1>1. PICK all : all = After(o, r, before)
    OBVIOUS
  <1>2. PICK q \in DOMAIN all :
          /\ all[q] = <<o, r.body>>
          /\ \A i \in DOMAIN all : i # q => i \in DOMAIN before /\ all[i] = before[i]
    BY <1>1, AfterShape
  <1>3. all[q][1] = o
    BY <1>2
  <1>4. Once(all)
    BY <1>2, <1>3 DEF Once, Has
  <1>5. \A p : p # o /\ ~Has(before, p) => ~Has(all, p)
    BY <1>2, <1>3 DEF Has
  <1>. QED
    BY <1>1, <1>4, <1>5

\* A line of the user belongs to no operation.
LEMMA UserLineOnce ==
    ASSUME NEW c \in Content, Once(c)
    PROVE  /\ Append(c, UserLine) \in Content /\ Once(Append(c, UserLine))
           /\ \A o \in FileOperation : ~Has(c, o) => ~Has(Append(c, UserLine), o)
  <1>1. UserLine \in Line /\ UserLine[1] \notin FileOperation
    BY FilesAssumption DEF Line
  <1>2. PICK line \in Line : line = UserLine
    BY <1>1
  <1>3. c \in Seq(Line)
    BY DEF Content
  <1>4. PICK n \in Nat : n = Len(c)
    BY <1>3
  <1>5. PICK all : all = Append(c, line)
    OBVIOUS
  <1>6. /\ all \in Seq(Line) /\ all # <<>> /\ DOMAIN c = 1..n /\ DOMAIN all = 1..(n + 1)
        /\ all[n + 1] = line /\ \A i \in 1..n : all[i] = c[i]
    BY <1>3, <1>4, <1>5
  <1>7. \A i \in 1..(n + 1) : i \in 1..n \/ i = n + 1
    BY <1>4
  <1>8. line[1] \notin FileOperation
    BY <1>1, <1>2
  <1>9. all \in Content
    BY <1>6 DEF Content
  <1>10. Once(all)
    BY <1>6, <1>7, <1>8 DEF Once
  <1>11. \A o \in FileOperation : ~Has(c, o) => ~Has(all, o)
    BY <1>6, <1>7, <1>8 DEF Has
  <1>. QED
    BY <1>2, <1>5, <1>9, <1>10, <1>11

-----------------------------------------------------------------------------
(* Jobs and rows.                                                           *)

\* The states of a call are told apart by their step.
LEMMA FileJobShape ==
    ASSUME FileTypeOK, NEW t \in FileThread, fileJob[t].at # "idle"
    PROVE  /\ fileJob[t] \in EditJob /\ fileJob[t].at \in Steps
           /\ fileJob[t].op \in FileOperation
           /\ fileJob[t].before \in Seq(Line) /\ fileJob[t].request \in Edit
           /\ fileJob[t].request.expected \in Content
           /\ fileJob[t] = [at |-> fileJob[t].at, op |-> fileJob[t].op,
                            before |-> fileJob[t].before, request |-> fileJob[t].request]
  <1>1. fileJob[t] \in EditJob \cup {NoFileJob}
    BY DEF FileTypeOK
  <1>2. fileJob[t] # NoFileJob
    BY DEF NoFileJob
  <1>3. fileJob[t].request \in Edit
    BY <1>1, <1>2 DEF EditJob
  <1>4. fileJob[t].request.expected \in Content
    BY <1>3 DEF Edit
  <1>. QED
    BY <1>1, <1>2, <1>3, <1>4 DEF EditJob

\* A thread without a call is idle.
LEMMA FreeThreadShape ==
    ASSUME FileTypeOK, NEW t \in FileThread
    PROVE  fileJob[t].at = "idle" <=> fileJob[t] = NoFileJob
  <1>1. fileJob[t] \in EditJob \cup {NoFileJob}
    BY DEF FileTypeOK
  <1>2. NoFileJob.at = "idle"
    BY DEF NoFileJob
  <1>3. fileJob[t] \in EditJob => fileJob[t].at # "idle"
    BY DEF EditJob, Steps
  <1>. QED
    BY <1>1, <1>2, <1>3

\* A step of one thread gives it a job and leaves the others theirs.
LEMMA OneFileJob ==
    ASSUME FileTypeOK, NEW t \in FileThread, NEW k \in EditJob \cup {NoFileJob},
           fileJob' = [fileJob EXCEPT ![t] = k]
    PROVE  /\ fileJob' \in [FileThread -> EditJob \cup {NoFileJob}]
           /\ fileJob'[t] = k
           /\ \A u \in FileThread : u # t => fileJob'[u] = fileJob[u]
  <1>1. fileJob \in [FileThread -> EditJob \cup {NoFileJob}]
    BY DEF FileTypeOK
  <1>. QED
    BY <1>1

\* GoOn moves a call to its next step.
LEMMA GoMoves ==
    ASSUME FileTypeOK, NEW t \in FileThread, fileJob[t].at # "idle", NEW step \in Steps,
           GoOn(t, step)
    PROVE  /\ fileJob' \in [FileThread -> EditJob \cup {NoFileJob}]
           /\ fileJob'[t].at = step /\ fileJob'[t].op = fileJob[t].op
           /\ fileJob'[t].before = fileJob[t].before /\ fileJob'[t].request = fileJob[t].request
           /\ \A u \in FileThread : u # t => fileJob'[u] = fileJob[u]
  <1>1. PICK k : k = [fileJob[t] EXCEPT !.at = step]
    OBVIOUS
  <1>2. k = [at |-> step, op |-> fileJob[t].op, before |-> fileJob[t].before,
             request |-> fileJob[t].request]
    <2>1. PICK p, q, c, s : fileJob[t] = [at |-> p, op |-> q, before |-> c, request |-> s]
      BY FileJobShape
    <2>. QED
      BY <1>1, <2>1
  <1>3. k \in EditJob
    BY <1>2, FileJobShape DEF EditJob
  <1>4. fileJob' = [fileJob EXCEPT ![t] = k]
    BY <1>1 DEF GoOn
  <1>5. /\ k.at = step /\ k.op = fileJob[t].op /\ k.before = fileJob[t].before
        /\ k.request = fileJob[t].request
    BY <1>2
  <1>. QED
    BY <1>3, <1>4, <1>5, OneFileJob

\* LeaveFile frees the thread.
LEMMA LeaveMoves ==
    ASSUME FileTypeOK, NEW t \in FileThread, LeaveFile(t)
    PROVE  /\ fileJob' \in [FileThread -> EditJob \cup {NoFileJob}]
           /\ fileJob'[t] = NoFileJob /\ fileJob'[t].at = "idle"
           /\ \A u \in FileThread : u # t => fileJob'[u] = fileJob[u]
  <1>1. fileJob' = [fileJob EXCEPT ![t] = NoFileJob] /\ NoFileJob.at = "idle"
    BY DEF LeaveFile, NoFileJob
  <1>. QED
    BY <1>1, OneFileJob

\* The rows of operations.
LEMMA FileRowShape ==
    ASSUME FileTypeOK, NEW o \in FileOperation
    PROVE  /\ fileRows[o] = AbsentRow => fileRows[o].status = "absent"
           /\ fileRows[o] # AbsentRow =>
                /\ fileRows[o].status \in {"pending", "failed", "completed"}
                /\ fileRows[o].request \in Edit /\ fileRows[o].request.expected \in Content
                /\ fileRows[o] = [status |-> fileRows[o].status, request |-> fileRows[o].request]
  <1>1. fileRows[o] \in EditRow \cup {AbsentRow}
    BY DEF FileTypeOK
  <1>2. fileRows[o] = AbsentRow => fileRows[o].status = "absent"
    BY DEF AbsentRow
  <1>3. fileRows[o] # AbsentRow => /\ fileRows[o].status \in {"pending", "failed", "completed"}
                                   /\ fileRows[o].request \in Edit
                                   /\ fileRows[o] = [status |-> fileRows[o].status, request |-> fileRows[o].request]
    BY <1>1 DEF EditRow
  <1>4. fileRows[o] # AbsentRow => fileRows[o].request.expected \in Content
    BY <1>3 DEF Edit
  <1>. QED
    BY <1>2, <1>3, <1>4

\* SetStatus keeps the request of a row and the other rows.
LEMMA StatusMoves ==
    ASSUME FileTypeOK, NEW o \in FileOperation, fileRows[o] # AbsentRow,
           NEW status \in {"pending", "failed", "completed"}, SetStatus(o, status)
    PROVE  /\ fileRows' \in [FileOperation -> EditRow \cup {AbsentRow}]
           /\ fileRows'[o].status = status /\ fileRows'[o].request = fileRows[o].request
           /\ fileRows'[o] # AbsentRow
           /\ \A p \in FileOperation : p # o => fileRows'[p] = fileRows[p]
           /\ \A p \in FileOperation : /\ fileRows'[p] = AbsentRow <=> fileRows[p] = AbsentRow
                                       /\ fileRows[p] # AbsentRow => fileRows'[p].request = fileRows[p].request
  <1>1. PICK k : k = [fileRows[o] EXCEPT !.status = status]
    OBVIOUS
  <1>2. k = [status |-> status, request |-> fileRows[o].request]
    <2>1. PICK p, q : fileRows[o] = [status |-> p, request |-> q]
      BY FileRowShape
    <2>. QED
      BY <1>1, <2>1
  <1>3. k \in EditRow
    BY <1>2, FileRowShape DEF EditRow
  <1>4. k.status = status /\ k.request = fileRows[o].request
    BY <1>2
  <1>5. AbsentRow.status = "absent" /\ k # AbsentRow
    BY <1>4 DEF AbsentRow
  <1>6. fileRows' = [fileRows EXCEPT ![o] = k] /\ fileRows \in [FileOperation -> EditRow \cup {AbsentRow}]
    BY <1>1 DEF SetStatus, FileTypeOK
  <1>7. /\ fileRows' \in [FileOperation -> EditRow \cup {AbsentRow}] /\ fileRows'[o] = k
        /\ \A p \in FileOperation : p # o => fileRows'[p] = fileRows[p]
    BY <1>3, <1>6
  <1>. QED
    BY <1>4, <1>5, <1>7

-----------------------------------------------------------------------------
(* Steps that change a call only.                                           *)

\* A step of a call that writes neither the file, nor the table, nor the
\* evidence keeps the invariant, if its new job fits them.
LEMMA CallStep ==
    ASSUME FilesInv, NEW t \in FileThread,
           UNCHANGED <<file, fileRows, evidence, view, writes, fileStops>>,
           fileJob' \in [FileThread -> EditJob \cup {NoFileJob}],
           \A u \in FileThread : u # t => fileJob'[u] = fileJob[u],
           fileJob'[t].at \notin {"capture", "complete"},
           fileJob'[t].at \in Reserved =>
             /\ fileRows[fileJob'[t].op] # AbsentRow
             /\ fileRows[fileJob'[t].op].request = fileJob'[t].request,
           fileJob'[t].at = "write" => fileJob'[t].before = fileJob'[t].request.expected,
           fileJob'[t].at # "idle" =>
             /\ Once(fileJob'[t].request.expected)
             /\ \A o \in FileOperation : fileRows[o] = AbsentRow => ~Has(fileJob'[t].request.expected, o),
           fileJob[t].at \in Running =>
             \/ fileJob'[t].at \in Running /\ fileJob'[t].op = fileJob[t].op
             \/ fileJob[t].op \in unmarked',
           unmarked \subseteq unmarked', unmarked' \subseteq FileOperation,
           fileShared' \in BOOLEAN, fileFaults' \in Nat,
           fileFaults' = 0 => fileFaults = 0,
           ~fileShared' => ~fileShared /\ EditedAlone'
    PROVE  FilesInv'
  <1>0. FileTypeOK /\ JobsMatchRows /\ ContentsOnce /\ RecordIsTrue /\ JobsRecorded
    BY DEF FilesInv
  <1>1. FileTypeOK'
    BY <1>0 DEF FileTypeOK
  <1>2. JobsMatchRows'
    <2>1. SUFFICES ASSUME NEW u \in FileThread
                   PROVE  /\ fileJob'[u].at \in Reserved =>
                               /\ fileRows[fileJob'[u].op] # AbsentRow
                               /\ fileRows[fileJob'[u].op].request = fileJob'[u].request
                          /\ fileJob'[u].at \in PastCheck => fileJob'[u].before = fileJob'[u].request.expected
      BY DEF JobsMatchRows
    <2>2. CASE u = t
      BY <2>2 DEF PastCheck
    <2>3. CASE u # t
      BY <1>0, <2>3 DEF JobsMatchRows
    <2>. QED
      BY <2>2, <2>3
  <1>3. ContentsOnce'
    <2>1. \A u \in FileThread : fileJob'[u].at # "idle" =>
            /\ Once(fileJob'[u].request.expected)
            /\ \A o \in FileOperation : fileRows[o] = AbsentRow => ~Has(fileJob'[u].request.expected, o)
      BY <1>0 DEF ContentsOnce
    <2>. QED
      BY <1>0, <2>1 DEF ContentsOnce, Once, Has
  <1>4. RecordIsTrue'
    BY <1>0 DEF RecordIsTrue
  <1>5. JobsRecorded'
    <2>1. \A u \in FileThread : fileJob'[u].at \in {"capture", "complete"} => u # t /\ fileJob'[u] = fileJob[u]
      OBVIOUS
    <2>. QED
      BY <1>0, <2>1 DEF JobsRecorded, Captured
  <1>6. fileStops' = 0 => PendingMeansReserved'
    <2>1. \A u \in FileThread : fileJob[u].at \in Running =>
            \/ fileJob'[u].at \in Running /\ fileJob'[u].op = fileJob[u].op
            \/ fileJob[u].op \in unmarked'
      OBVIOUS
    <2>. QED
      BY <2>1 DEF FilesInv, PendingMeansReserved
  <1>7. ~fileShared' => NoSilentOverwrite'
    BY DEF FilesInv, NoSilentOverwrite
  <1>8. ~fileShared' /\ fileFaults' = 0 => UnwrittenRows'
    BY DEF FilesInv, UnwrittenRows
  <1>. QED
    BY <1>1, <1>2, <1>3, <1>4, <1>5, <1>6, <1>7, <1>8 DEF FilesInv

\* Of calls served one at a time, when one ends none is left.
LEMMA LastCallEnds ==
    ASSUME FilesInv, ~fileShared, NEW t \in FileThread, fileJob[t].at # "idle",
           fileJob'[t].at = "idle",
           \A u \in FileThread : u # t => fileJob'[u] = fileJob[u]
    PROVE  EditedAlone'
  <1>1. EditedAlone /\ FileTypeOK
    BY DEF FilesInv
  <1>2. \A u \in FileThread : u # t => fileJob[u].at = "idle"
    BY <1>1, FreeThreadShape DEF EditedAlone
  <1>3. \A u \in FileThread : fileJob'[u].at = "idle"
    BY <1>2
  <1>. QED
    BY <1>3 DEF EditedAlone

\* Of calls served one at a time, one that goes on is the only one.
LEMMA CallStaysAlone ==
    ASSUME FilesInv, ~fileShared, NEW t \in FileThread, fileJob[t].at # "idle",
           \A u \in FileThread : u # t => fileJob'[u] = fileJob[u],
           fileJob'[t].at = "write" => file' = fileJob'[t].before,
           fileJob'[t].at \in Running => fileRows'[fileJob'[t].op].status = "pending",
           fileJob'[t].at \in {"insert", "update", "check", "write", "fail"} /\ fileFaults' = 0 =>
             \A w \in writes' : w.op # fileJob'[t].op
    PROVE  EditedAlone'
  <1>1. EditedAlone /\ FileTypeOK
    BY DEF FilesInv
  <1>2. \A u \in FileThread : u # t => fileJob[u] = NoFileJob /\ fileJob[u].at = "idle"
    BY <1>1, FreeThreadShape DEF EditedAlone
  <1>3. \A u \in FileThread : u # t => fileJob'[u] = NoFileJob /\ fileJob'[u].at = "idle"
    BY <1>2
  <1>. QED
    BY <1>3 DEF EditedAlone

\* A call begins.
LEMMA BeginKeeps ==
    ASSUME FilesInv, NEW t \in FileThread, NEW o \in FileOperation, NEW r \in Edit,
           Begin(t, o, r), Once(r.expected),
           \A p \in FileOperation : fileRows[p] = AbsentRow => ~Has(r.expected, p)
    PROVE  FilesInv'
  <1>0. /\ FileTypeOK /\ fileJob[t] = NoFileJob /\ fileJob[t].at = "idle"
        /\ UNCHANGED <<file, fileRows, evidence, view, writes, fileStops, fileFaults, unmarked>>
        /\ fileShared' = (fileShared \/ ~AtRest)
    BY DEF FilesInv, Begin, NoFileJob
  <1>1. PICK k : k = FileCall(o, r)
    OBVIOUS
  <1>2. k \in EditJob /\ k.at = "look" /\ k.request = r
    BY <1>1, EmptySeq DEF FileCall, EditJob, Steps
  <1>3. fileJob' = [fileJob EXCEPT ![t] = k]
    BY <1>1 DEF Begin
  <1>4. /\ fileJob' \in [FileThread -> EditJob \cup {NoFileJob}]
        /\ fileJob'[t] = k
        /\ \A u \in FileThread : u # t => fileJob'[u] = fileJob[u]
    BY <1>0, <1>2, <1>3, OneFileJob
  <1>5. /\ fileJob'[t].at \notin Reserved /\ fileJob'[t].at \notin Running
        /\ fileJob'[t].at \notin {"insert", "update", "check", "write", "fail", "capture", "complete"}
        /\ fileJob[t].at \notin Running
    BY <1>0, <1>2, <1>4 DEF Reserved, Running
  <1>6. ASSUME ~fileShared' PROVE ~fileShared /\ EditedAlone'
    <2>1. \A u \in FileThread : u # t => fileJob'[u] = NoFileJob /\ fileJob'[u].at = "idle"
      BY <1>0, <1>4, <1>6, FreeThreadShape DEF AtRest
    <2>. QED
      BY <1>0, <1>5, <1>6, <2>1 DEF EditedAlone
  <1>7. fileShared' \in BOOLEAN /\ fileFaults' \in Nat /\ unmarked' \subseteq FileOperation
    BY <1>0 DEF FileTypeOK
  <1>. QED
    BY <1>0, <1>2, <1>4, <1>5, <1>6, <1>7, CallStep

\* A call of the agent, with the content it read.
LEMMA EditKeeps ==
    ASSUME FilesInv, NEW t \in FileThread, EditFile(t)
    PROVE  FilesInv'
  <1>1. PICK o \in FileOperation, k \in EditKind, b \in FileBody : Begin(t, o, EditRequest(k, b, view[t]))
    BY DEF EditFile
  <1>2. PICK r : r = EditRequest(k, b, view[t])
    OBVIOUS
  <1>3. view[t] \in Content
    BY DEF FilesInv, FileTypeOK
  <1>4. r \in Edit /\ r.expected = view[t]
    BY <1>2, <1>3 DEF EditRequest, Edit
  <1>5. Once(r.expected) /\ \A p \in FileOperation : fileRows[p] = AbsentRow => ~Has(r.expected, p)
    BY <1>4 DEF FilesInv, ContentsOnce
  <1>. QED
    BY <1>1, <1>2, <1>4, <1>5, BeginKeeps

\* A call again with the request its operation had.
LEMMA RetryKeeps ==
    ASSUME FilesInv, NEW t \in FileThread, RetryEdit(t)
    PROVE  FilesInv'
  <1>1. PICK o \in FileOperation : fileRows[o] # AbsentRow /\ Begin(t, o, fileRows[o].request)
    BY DEF RetryEdit
  <1>2. fileRows[o].request \in Edit
    BY <1>1, FileRowShape DEF FilesInv
  <1>3. /\ Once(fileRows[o].request.expected)
        /\ \A p \in FileOperation : fileRows[p] = AbsentRow => ~Has(fileRows[o].request.expected, p)
    BY <1>1 DEF FilesInv, ContentsOnce
  <1>4. PICK r \in Edit : r = fileRows[o].request
    BY <1>2
  <1>. QED
    BY <1>1, <1>3, <1>4, BeginKeeps

\* What holds of a call that goes on with its request.
LEMMA RequestFits ==
    ASSUME FilesInv, NEW t \in FileThread, fileJob[t].at # "idle"
    PROVE  /\ Once(fileJob[t].request.expected)
           /\ \A o \in FileOperation : fileRows[o] = AbsentRow => ~Has(fileJob[t].request.expected, o)
  BY DEF FilesInv, ContentsOnce

\* The SELECT of reserve.
LEMMA LookUpKeeps ==
    ASSUME FilesInv, NEW t \in FileThread, LookUp(t)
    PROVE  FilesInv'
  <1>0. /\ FileTypeOK /\ fileJob[t].at = "look" /\ fileJob[t].at # "idle"
        /\ UNCHANGED <<file, fileRows, evidence, view, writes, fileShared, fileStops, fileFaults, unmarked>>
        /\ fileJob[t].at \notin Running
    BY DEF FilesInv, LookUp, Running, fileBudgets
  <1>1. PICK o \in FileOperation : o = fileJob[t].op
    BY <1>0, FileJobShape
  <1>2. fileShared' \in BOOLEAN /\ fileFaults' \in Nat /\ unmarked' \subseteq FileOperation
    BY <1>0 DEF FileTypeOK
  <1>3. /\ Once(fileJob[t].request.expected)
        /\ \A p \in FileOperation : fileRows[p] = AbsentRow => ~Has(fileJob[t].request.expected, p)
    BY <1>0, RequestFits
  <1>4. CASE fileRows[o] = AbsentRow /\ GoOn(t, "insert")
    <2>1. /\ fileJob' \in [FileThread -> EditJob \cup {NoFileJob}]
          /\ fileJob'[t].at = "insert" /\ fileJob'[t].op = fileJob[t].op
          /\ fileJob'[t].request = fileJob[t].request
          /\ \A u \in FileThread : u # t => fileJob'[u] = fileJob[u]
      BY <1>0, <1>4, GoMoves DEF Steps
    <2>2. fileJob'[t].at \notin Reserved /\ fileJob'[t].at \notin Running /\ fileJob'[t].at # "write"
          /\ fileJob'[t].at \notin {"capture", "complete"}
      BY <2>1 DEF Reserved, Running
    <2>3. ASSUME ~fileShared, fileFaults = 0 PROVE \A w \in writes : w.op # o
      <3>1. fileRows[o].status \in {"absent", "failed"}
        BY <1>0, <1>4, FileRowShape
      <3>. QED
        BY <2>3, <3>1 DEF FilesInv, UnwrittenRows
    <2>4. ~fileShared => EditedAlone'
      BY <1>0, <1>1, <2>1, <2>2, <2>3, CallStaysAlone
    <2>. QED
      BY <1>0, <1>2, <1>3, <2>1, <2>2, <2>4, CallStep
  <1>5. CASE /\ fileRows[o] # AbsentRow /\ fileRows[o].request = fileJob[t].request
             /\ fileRows[o].status = "failed" /\ GoOn(t, "update")
    <2>1. /\ fileJob' \in [FileThread -> EditJob \cup {NoFileJob}]
          /\ fileJob'[t].at = "update" /\ fileJob'[t].op = fileJob[t].op
          /\ fileJob'[t].request = fileJob[t].request
          /\ \A u \in FileThread : u # t => fileJob'[u] = fileJob[u]
      BY <1>0, <1>5, GoMoves DEF Steps
    <2>2. fileJob'[t].at \notin Running /\ fileJob'[t].at # "write"
          /\ fileJob'[t].at \notin {"capture", "complete"}
      BY <2>1 DEF Running
    <2>3. ASSUME ~fileShared, fileFaults = 0 PROVE \A w \in writes : w.op # o
      BY <1>5, <2>3 DEF FilesInv, UnwrittenRows
    <2>4. ~fileShared => EditedAlone'
      BY <1>0, <1>1, <2>1, <2>2, <2>3, CallStaysAlone
    <2>. QED
      BY <1>0, <1>1, <1>2, <1>3, <1>5, <2>1, <2>2, <2>4, CallStep
  <1>6. CASE LeaveFile(t)
    <2>1. /\ fileJob' \in [FileThread -> EditJob \cup {NoFileJob}]
          /\ fileJob'[t].at = "idle"
          /\ \A u \in FileThread : u # t => fileJob'[u] = fileJob[u]
      BY <1>0, <1>6, LeaveMoves
    <2>2. fileJob'[t].at \notin Reserved /\ fileJob'[t].at \notin {"capture", "complete"}
          /\ fileJob'[t].at # "write"
      BY <2>1 DEF Reserved
    <2>3. ~fileShared => EditedAlone'
      BY <1>0, <2>1, LastCallEnds
    <2>. QED
      BY <1>0, <1>2, <2>1, <2>2, <2>3, CallStep
  <1>. QED
    BY <1>1, <1>4, <1>5, <1>6 DEF LookUp

\* The comparison of the hashes (_verify_expected_hash).
LEMMA CheckKeeps ==
    ASSUME FilesInv, NEW t \in FileThread, Check(t)
    PROVE  FilesInv'
  <1>0. /\ FileTypeOK /\ fileJob[t].at = "check" /\ fileJob[t].at # "idle"
        /\ UNCHANGED <<file, fileRows, evidence, view, writes, fileShared, fileStops, fileFaults, unmarked>>
        /\ fileJob[t].at \in Running /\ fileJob[t].at \in Reserved
    BY DEF FilesInv, Check, Running, Reserved, fileBudgets
  <1>1. fileShared' \in BOOLEAN /\ fileFaults' \in Nat /\ unmarked' \subseteq FileOperation
    BY <1>0 DEF FileTypeOK
  <1>2. /\ Once(fileJob[t].request.expected)
        /\ \A p \in FileOperation : fileRows[p] = AbsentRow => ~Has(fileJob[t].request.expected, p)
    BY <1>0, RequestFits
  <1>3. /\ fileRows[fileJob[t].op] # AbsentRow
        /\ fileRows[fileJob[t].op].request = fileJob[t].request
    BY <1>0 DEF FilesInv, JobsMatchRows
  <1>4. ASSUME ~fileShared
        PROVE  /\ fileRows[fileJob[t].op].status = "pending"
               /\ fileFaults = 0 => \A w \in writes : w.op # fileJob[t].op
    BY <1>0, <1>4 DEF FilesInv, EditedAlone
  <1>5. CASE /\ file = fileJob[t].request.expected
             /\ fileJob' = [fileJob EXCEPT ![t] = [@ EXCEPT !.at = "write", !.before = file]]
    <2>1. PICK b \in Seq(Line) : b = file
      BY <1>0 DEF FileTypeOK, Content
    <2>2. PICK k : k = [fileJob[t] EXCEPT !.at = "write", !.before = b]
      OBVIOUS
    <2>3. k = [at |-> "write", op |-> fileJob[t].op, before |-> b, request |-> fileJob[t].request]
      <3>1. PICK p, q, c, s : fileJob[t] = [at |-> p, op |-> q, before |-> c, request |-> s]
        BY <1>0, FileJobShape
      <3>. QED
        BY <2>2, <3>1
    <2>4. k \in EditJob
      BY <1>0, <2>1, <2>3, FileJobShape DEF EditJob, Steps
    <2>5. k.at = "write" /\ k.op = fileJob[t].op /\ k.before = b /\ k.request = fileJob[t].request
      BY <2>3
    <2>6. fileJob' = [fileJob EXCEPT ![t] = k]
      BY <1>5, <2>1, <2>2
    <2>7. /\ fileJob' \in [FileThread -> EditJob \cup {NoFileJob}]
          /\ fileJob'[t] = k
          /\ \A u \in FileThread : u # t => fileJob'[u] = fileJob[u]
      BY <1>0, <2>4, <2>6, OneFileJob
    <2>8. fileJob'[t].at \in Running /\ fileJob'[t].at \notin {"capture", "complete"}
      BY <2>5, <2>7 DEF Running
    <2>9. ~fileShared => EditedAlone'
      BY <1>0, <1>4, <2>1, <2>5, <2>7, CallStaysAlone
    <2>. QED
      BY <1>0, <1>1, <1>2, <1>3, <1>5, <2>1, <2>5, <2>7, <2>8, <2>9, CallStep
  <1>6. CASE GoOn(t, "fail")
    <2>1. /\ fileJob' \in [FileThread -> EditJob \cup {NoFileJob}]
          /\ fileJob'[t].at = "fail" /\ fileJob'[t].op = fileJob[t].op
          /\ fileJob'[t].request = fileJob[t].request
          /\ \A u \in FileThread : u # t => fileJob'[u] = fileJob[u]
      BY <1>0, <1>6, GoMoves DEF Steps
    <2>2. fileJob'[t].at \in Running /\ fileJob'[t].at # "write"
          /\ fileJob'[t].at \notin {"capture", "complete"}
      BY <2>1 DEF Running
    <2>3. ~fileShared => EditedAlone'
      BY <1>0, <1>4, <2>1, <2>2, CallStaysAlone
    <2>. QED
      BY <1>0, <1>1, <1>2, <1>3, <2>1, <2>2, <2>3, CallStep
  <1>. QED
    BY <1>5, <1>6 DEF Check

\* A failure within _append_once.
LEMMA FaultInside ==
    ASSUME FilesInv, NEW t \in FileThread, fileJob[t].at \in {"check", "write", "capture"},
           UNCHANGED <<file, fileRows, evidence, view, writes, fileShared, fileStops, unmarked>>,
           fileFaults' = fileFaults + 1, GoOn(t, "fail")
    PROVE  FilesInv'
  <1>0. /\ FileTypeOK /\ fileJob[t].at # "idle"
        /\ fileJob[t].at \in Running /\ fileJob[t].at \in Reserved
    BY DEF FilesInv, Running, Reserved
  <1>1. /\ fileShared' \in BOOLEAN /\ fileFaults' \in Nat /\ fileFaults' # 0
        /\ unmarked \subseteq unmarked' /\ unmarked' \subseteq FileOperation
    BY <1>0 DEF FileTypeOK
  <1>2. /\ Once(fileJob[t].request.expected)
        /\ \A p \in FileOperation : fileRows[p] = AbsentRow => ~Has(fileJob[t].request.expected, p)
    BY <1>0, RequestFits
  <1>3. /\ fileRows[fileJob[t].op] # AbsentRow
        /\ fileRows[fileJob[t].op].request = fileJob[t].request
    BY <1>0 DEF FilesInv, JobsMatchRows
  <1>4. ~fileShared => fileRows[fileJob[t].op].status = "pending"
    BY <1>0 DEF FilesInv, EditedAlone
  <1>5. /\ fileJob' \in [FileThread -> EditJob \cup {NoFileJob}]
        /\ fileJob'[t].at = "fail" /\ fileJob'[t].op = fileJob[t].op
        /\ fileJob'[t].request = fileJob[t].request
        /\ \A u \in FileThread : u # t => fileJob'[u] = fileJob[u]
    BY <1>0, GoMoves DEF Steps
  <1>6. fileJob'[t].at \in Running /\ fileJob'[t].at # "write"
        /\ fileJob'[t].at \notin {"capture", "complete"}
    BY <1>5 DEF Running
  <1>7. ~fileShared => EditedAlone'
    BY <1>0, <1>1, <1>4, <1>5, <1>6, CallStaysAlone
  <1>. QED
    BY <1>0, <1>1, <1>2, <1>3, <1>5, <1>6, <1>7, CallStep

\* A failure that ends the call: before the row is reserved, or where its end is to be marked.
LEMMA FaultEnds ==
    ASSUME FilesInv, NEW t \in FileThread, fileJob[t].at # "idle",
           UNCHANGED <<file, fileRows, evidence, view, writes, fileShared, fileStops>>,
           fileFaults' = fileFaults + 1, LeaveFile(t),
           fileJob[t].at \in Running => fileJob[t].op \in unmarked',
           unmarked \subseteq unmarked', unmarked' \subseteq FileOperation
    PROVE  FilesInv'
  <1>0. FileTypeOK
    BY DEF FilesInv
  <1>1. fileShared' \in BOOLEAN /\ fileFaults' \in Nat /\ fileFaults' # 0
    BY <1>0 DEF FileTypeOK
  <1>2. /\ fileJob' \in [FileThread -> EditJob \cup {NoFileJob}]
        /\ fileJob'[t].at = "idle"
        /\ \A u \in FileThread : u # t => fileJob'[u] = fileJob[u]
    BY <1>0, LeaveMoves
  <1>3. fileJob'[t].at \notin Reserved /\ fileJob'[t].at \notin {"capture", "complete"}
        /\ fileJob'[t].at # "write"
    BY <1>2 DEF Reserved
  <1>4. ~fileShared => EditedAlone'
    BY <1>2, LastCallEnds
  <1>. QED
    BY <1>1, <1>2, <1>3, <1>4, CallStep

\* A failure of the disk or the database.
LEMMA FaultKeeps ==
    ASSUME FilesInv, NEW t \in FileThread, Fault(t)
    PROVE  FilesInv'
  <1>0. /\ FileTypeOK /\ unmarked \subseteq FileOperation /\ fileFaults' = fileFaults + 1
        /\ UNCHANGED <<file, fileRows, evidence, view, writes, fileShared, fileStops>>
    BY DEF FilesInv, FileTypeOK, Fault
  <1>1. CASE /\ fileJob[t].at \in {"check", "write", "capture"}
             /\ GoOn(t, "fail") /\ UNCHANGED unmarked
    BY <1>0, <1>1, FaultInside
  <1>2. CASE /\ fileJob[t].at \in {"look", "insert", "update"}
             /\ LeaveFile(t) /\ UNCHANGED unmarked
    <2>1. fileJob[t].at # "idle" /\ fileJob[t].at \notin Running
      BY <1>2 DEF Running
    <2>. QED
      BY <1>0, <1>2, <2>1, FaultEnds
  <1>3. CASE /\ fileJob[t].at \in {"complete", "fail"}
             /\ LeaveFile(t) /\ unmarked' = unmarked \cup {fileJob[t].op}
    <2>1. fileJob[t].at # "idle"
      BY <1>3
    <2>2. fileJob[t].op \in FileOperation
      BY <1>0, <2>1, FileJobShape
    <2>. QED
      BY <1>0, <1>3, <2>1, <2>2, FaultEnds
  <1>. QED
    BY <1>1, <1>2, <1>3 DEF Fault

-----------------------------------------------------------------------------
(* Steps that change the row of an operation.                               *)

\* A step that gives the row of its operation a status keeps the invariant, if
\* the status is true: pending as long as the call runs, completed with
\* evidence, and failed without a write unless calls met or the disk failed.
LEMMA RowStep ==
    ASSUME FilesInv, NEW t \in FileThread, NEW o \in FileOperation,
           fileJob[t].at # "idle", fileJob[t].op = o,
           UNCHANGED <<file, evidence, view, writes, fileShared, fileFaults, fileStops, unmarked>>,
           fileRows' \in [FileOperation -> EditRow \cup {AbsentRow}],
           \A p \in FileOperation : p # o => fileRows'[p] = fileRows[p],
           fileRows'[o] # AbsentRow, fileRows'[o].request = fileJob[t].request,
           fileRows[o] # AbsentRow => fileRows[o].request = fileJob[t].request,
           fileJob' \in [FileThread -> EditJob \cup {NoFileJob}],
           \A u \in FileThread : u # t => fileJob'[u] = fileJob[u],
           \/ /\ fileJob'[t].at = "check" /\ fileJob'[t].op = o
              /\ fileJob'[t].request = fileJob[t].request /\ fileRows'[o].status = "pending"
           \/ fileJob'[t].at = "idle" /\ fileRows'[o].status \in {"failed", "completed"},
           fileRows'[o].status = "completed" =>
             \E e \in evidence : e.op = o /\ e.after = After(o, fileJob[t].request, e.before),
           ~fileShared /\ fileFaults = 0 /\ fileRows'[o].status = "failed" =>
             \A w \in writes : w.op # o,
           ~fileShared => EditedAlone'
    PROVE  FilesInv'
  <1>0. FileTypeOK /\ JobsMatchRows /\ ContentsOnce /\ RecordIsTrue /\ JobsRecorded
    BY DEF FilesInv
  <1>1. FileTypeOK'
    BY <1>0 DEF FileTypeOK
  <1>2. JobsMatchRows'
    <2>1. SUFFICES ASSUME NEW u \in FileThread
                   PROVE  /\ fileJob'[u].at \in Reserved =>
                               /\ fileRows'[fileJob'[u].op] # AbsentRow
                               /\ fileRows'[fileJob'[u].op].request = fileJob'[u].request
                          /\ fileJob'[u].at \in PastCheck => fileJob'[u].before = fileJob'[u].request.expected
      BY DEF JobsMatchRows
    <2>2. CASE u = t
      BY <2>2 DEF PastCheck, Reserved
    <2>3. CASE u # t
      <3>1. fileJob'[u] = fileJob[u]
        BY <2>3
      <3>2. ASSUME fileJob[u].at \in Reserved
            PROVE  /\ fileRows'[fileJob[u].op] # AbsentRow
                   /\ fileRows'[fileJob[u].op].request = fileJob[u].request
        <4>1. fileJob[u].at # "idle"
          BY <3>2 DEF Reserved
        <4>2. fileJob[u].op \in FileOperation
          BY <1>0, <4>1, FileJobShape
        <4>3. fileRows[fileJob[u].op] # AbsentRow /\ fileRows[fileJob[u].op].request = fileJob[u].request
          BY <1>0, <3>2 DEF JobsMatchRows
        <4>. QED
          BY <4>2, <4>3
      <3>. QED
        BY <1>0, <3>1, <3>2 DEF JobsMatchRows
    <2>. QED
      BY <2>2, <2>3
  <1>3. ContentsOnce'
    <2>1. /\ Once(fileJob[t].request.expected)
          /\ \A p \in FileOperation : fileRows[p] = AbsentRow => ~Has(fileJob[t].request.expected, p)
      BY RequestFits
    <2>2. Once(fileRows'[o].request.expected) /\ ~Has(fileRows'[o].request.expected, o)
      BY <1>0, <2>1 DEF ContentsOnce
    <2>3. \A u \in FileThread : fileJob'[u].at # "idle" =>
            fileJob[u].at # "idle" /\ fileJob'[u].request = fileJob[u].request
      OBVIOUS
    <2>4. \A p \in FileOperation : fileRows'[p] = AbsentRow => p # o /\ fileRows[p] = AbsentRow
      OBVIOUS
    <2>5. \A p \in FileOperation : fileRows'[p] # AbsentRow =>
            Once(fileRows'[p].request.expected) /\ ~Has(fileRows'[p].request.expected, p)
      BY <1>0, <2>2 DEF ContentsOnce
    <2>6. \A p, q \in FileOperation : fileRows'[p] = AbsentRow /\ fileRows'[q] # AbsentRow
            => ~Has(fileRows'[q].request.expected, p)
      BY <1>0, <2>1, <2>4 DEF ContentsOnce
    <2>7. Once(file') /\ \A u \in FileThread : Once(view'[u])
      BY <1>0 DEF ContentsOnce
    <2>8. \A u \in FileThread : fileJob'[u].at # "idle" => Once(fileJob'[u].request.expected)
      BY <1>0, <2>3 DEF ContentsOnce
    <2>9. \A p \in FileOperation : fileRows'[p] = AbsentRow =>
            /\ ~Has(file', p) /\ \A u \in FileThread : ~Has(view'[u], p)
            /\ \A u \in FileThread : fileJob'[u].at # "idle" => ~Has(fileJob'[u].request.expected, p)
      BY <1>0, <2>3, <2>4 DEF ContentsOnce
    <2>. QED
      BY <2>5, <2>6, <2>7, <2>8, <2>9 DEF ContentsOnce, Once, Has
  <1>4. RecordIsTrue'
    BY <1>0 DEF RecordIsTrue, After
  <1>5. JobsRecorded'
    <2>1. \A u \in FileThread : fileJob'[u].at \in {"capture", "complete"} => u # t /\ fileJob'[u] = fileJob[u]
      OBVIOUS
    <2>. QED
      BY <1>0, <2>1 DEF JobsRecorded, Captured
  <1>6. fileStops' = 0 => PendingMeansReserved'
    <2>1. SUFFICES ASSUME fileStops = 0, NEW p \in FileOperation, fileRows'[p].status = "pending",
                          p \notin unmarked
                   PROVE  \E u \in FileThread : fileJob'[u].at \in Running /\ fileJob'[u].op = p
      BY DEF PendingMeansReserved
    <2>2. CASE p = o
      BY <2>1, <2>2 DEF Running
    <2>3. CASE p # o
      <3>1. PICK u \in FileThread : fileJob[u].at \in Running /\ fileJob[u].op = p
        BY <2>1, <2>3 DEF FilesInv, PendingMeansReserved
      <3>. QED
        BY <2>3, <3>1
    <2>. QED
      BY <2>2, <2>3
  <1>7. ~fileShared' => NoSilentOverwrite'
    BY DEF FilesInv, NoSilentOverwrite
  <1>8. ~fileShared' /\ fileFaults' = 0 => UnwrittenRows'
    <2>1. SUFFICES ASSUME ~fileShared, fileFaults = 0, NEW p \in FileOperation,
                          fileRows'[p].status \in {"absent", "failed"}
                   PROVE  \A w \in writes : w.op # p
      BY DEF UnwrittenRows
    <2>2. CASE p = o
      BY <2>1, <2>2
    <2>3. CASE p # o
      BY <2>1, <2>3 DEF FilesInv, UnwrittenRows
    <2>. QED
      BY <2>2, <2>3
  <1>. QED
    BY <1>1, <1>2, <1>3, <1>4, <1>5, <1>6, <1>7, <1>8 DEF FilesInv

\* The INSERT of reserve, or its refusal by the primary key.
LEMMA FileInsertKeeps ==
    ASSUME FilesInv, NEW t \in FileThread, Insert(t)
    PROVE  FilesInv'
  <1>0. /\ FileTypeOK /\ fileJob[t].at = "insert" /\ fileJob[t].at # "idle"
        /\ UNCHANGED <<file, evidence, view, writes, fileShared, fileStops, fileFaults, unmarked>>
        /\ fileJob[t].at \notin Running
    BY DEF FilesInv, Insert, Running, fileBudgets
  <1>1. PICK o \in FileOperation : o = fileJob[t].op
    BY <1>0, FileJobShape
  <1>2. fileShared' \in BOOLEAN /\ fileFaults' \in Nat /\ unmarked' \subseteq FileOperation
    BY <1>0 DEF FileTypeOK
  <1>3. CASE /\ fileRows[o] = AbsentRow /\ GoOn(t, "check")
             /\ fileRows' = [fileRows EXCEPT ![o] = [status |-> "pending", request |-> fileJob[t].request]]
    <2>1. /\ fileJob' \in [FileThread -> EditJob \cup {NoFileJob}]
          /\ fileJob'[t].at = "check" /\ fileJob'[t].op = o
          /\ fileJob'[t].request = fileJob[t].request
          /\ \A u \in FileThread : u # t => fileJob'[u] = fileJob[u]
      BY <1>0, <1>1, <1>3, GoMoves DEF Steps
    <2>2. PICK k : k = [status |-> "pending", request |-> fileJob[t].request]
      OBVIOUS
    <2>3. k \in EditRow /\ k.status = "pending" /\ k.request = fileJob[t].request
      BY <1>0, <2>2, FileJobShape DEF EditRow
    <2>4. k # AbsentRow
      BY <2>3 DEF AbsentRow
    <2>5. fileRows \in [FileOperation -> EditRow \cup {AbsentRow}] /\ fileRows' = [fileRows EXCEPT ![o] = k]
      BY <1>0, <1>3, <2>2 DEF FileTypeOK
    <2>6. /\ fileRows' \in [FileOperation -> EditRow \cup {AbsentRow}] /\ fileRows'[o] = k
          /\ \A p \in FileOperation : p # o => fileRows'[p] = fileRows[p]
      BY <2>3, <2>5
    <2>7. ~fileShared /\ fileFaults = 0 => \A w \in writes : w.op # o
      BY <1>0, <1>1 DEF FilesInv, EditedAlone
    <2>8. ~fileShared => EditedAlone'
      BY <1>0, <2>1, <2>3, <2>6, <2>7, CallStaysAlone
    <2>. QED
      BY <1>0, <1>1, <1>3, <2>1, <2>3, <2>4, <2>6, <2>8, RowStep
  <1>4. CASE LeaveFile(t) /\ UNCHANGED fileRows
    <2>1. /\ fileJob' \in [FileThread -> EditJob \cup {NoFileJob}]
          /\ fileJob'[t].at = "idle"
          /\ \A u \in FileThread : u # t => fileJob'[u] = fileJob[u]
      BY <1>0, <1>4, LeaveMoves
    <2>2. fileJob'[t].at \notin Reserved /\ fileJob'[t].at \notin {"capture", "complete"}
          /\ fileJob'[t].at # "write"
      BY <2>1 DEF Reserved
    <2>3. ~fileShared => EditedAlone'
      BY <1>0, <2>1, LastCallEnds
    <2>. QED
      BY <1>0, <1>2, <1>4, <2>1, <2>2, <2>3, CallStep
  <1>. QED
    BY <1>1, <1>3, <1>4 DEF Insert

\* The UPDATE of reserve.
LEMMA TakeUpKeeps ==
    ASSUME FilesInv, NEW t \in FileThread, TakeUp(t)
    PROVE  FilesInv'
  <1>0. /\ FileTypeOK /\ fileJob[t].at = "update" /\ fileJob[t].at # "idle"
        /\ fileJob[t].at \in Reserved
        /\ UNCHANGED <<file, evidence, view, writes, fileShared, fileStops, fileFaults, unmarked>>
    BY DEF FilesInv, TakeUp, Reserved, fileBudgets
  <1>1. PICK o \in FileOperation : o = fileJob[t].op
    BY <1>0, FileJobShape
  <1>2. fileRows[o] # AbsentRow /\ fileRows[o].request = fileJob[t].request
    BY <1>0, <1>1 DEF FilesInv, JobsMatchRows
  <1>3. /\ fileRows' \in [FileOperation -> EditRow \cup {AbsentRow}]
        /\ fileRows'[o].status = "pending" /\ fileRows'[o].request = fileRows[o].request
        /\ fileRows'[o] # AbsentRow
        /\ \A p \in FileOperation : p # o => fileRows'[p] = fileRows[p]
    BY <1>0, <1>1, <1>2, StatusMoves DEF TakeUp
  <1>4. /\ fileJob' \in [FileThread -> EditJob \cup {NoFileJob}]
        /\ fileJob'[t].at = "check" /\ fileJob'[t].op = o
        /\ fileJob'[t].request = fileJob[t].request
        /\ \A u \in FileThread : u # t => fileJob'[u] = fileJob[u]
    BY <1>0, <1>1, GoMoves DEF Steps, TakeUp
  <1>5. ~fileShared /\ fileFaults = 0 => \A w \in writes : w.op # o
    BY <1>0, <1>1 DEF FilesInv, EditedAlone
  <1>6. ~fileShared => EditedAlone'
    BY <1>0, <1>3, <1>4, <1>5, CallStaysAlone
  <1>. QED
    BY <1>0, <1>1, <1>2, <1>3, <1>4, <1>6, RowStep

\* complete: the evidence was captured.
LEMMA CompleteKeeps ==
    ASSUME FilesInv, NEW t \in FileThread, Complete(t)
    PROVE  FilesInv'
  <1>0. /\ FileTypeOK /\ fileJob[t].at = "complete" /\ fileJob[t].at # "idle"
        /\ fileJob[t].at \in Reserved
        /\ UNCHANGED <<file, evidence, view, writes, fileShared, fileStops, fileFaults, unmarked>>
    BY DEF FilesInv, Complete, Reserved, fileBudgets
  <1>1. PICK o \in FileOperation : o = fileJob[t].op
    BY <1>0, FileJobShape
  <1>2. fileRows[o] # AbsentRow /\ fileRows[o].request = fileJob[t].request
    BY <1>0, <1>1 DEF FilesInv, JobsMatchRows
  <1>3. /\ fileRows' \in [FileOperation -> EditRow \cup {AbsentRow}]
        /\ fileRows'[o].status = "completed" /\ fileRows'[o].request = fileRows[o].request
        /\ fileRows'[o] # AbsentRow
        /\ \A p \in FileOperation : p # o => fileRows'[p] = fileRows[p]
    BY <1>0, <1>1, <1>2, StatusMoves DEF Complete
  <1>4. /\ fileJob' \in [FileThread -> EditJob \cup {NoFileJob}]
        /\ fileJob'[t].at = "idle"
        /\ \A u \in FileThread : u # t => fileJob'[u] = fileJob[u]
    BY <1>0, LeaveMoves DEF Complete
  <1>5. \E e \in evidence : e.op = o /\ e.after = After(o, fileJob[t].request, e.before)
    <2>1. Captured(fileJob[t]) \in evidence
      BY <1>0 DEF FilesInv, JobsRecorded
    <2>. QED
      BY <1>1, <2>1 DEF Captured
  <1>6. ~fileShared => EditedAlone'
    BY <1>0, <1>4, LastCallEnds
  <1>. QED
    BY <1>0, <1>1, <1>2, <1>3, <1>4, <1>5, <1>6, RowStep

\* fail: nothing was written, if the call was alone and no fault sent it here.
LEMMA FailKeeps ==
    ASSUME FilesInv, NEW t \in FileThread, Fail(t)
    PROVE  FilesInv'
  <1>0. /\ FileTypeOK /\ fileJob[t].at = "fail" /\ fileJob[t].at # "idle"
        /\ fileJob[t].at \in Reserved
        /\ UNCHANGED <<file, evidence, view, writes, fileShared, fileStops, fileFaults, unmarked>>
    BY DEF FilesInv, Fail, Reserved, fileBudgets
  <1>1. PICK o \in FileOperation : o = fileJob[t].op
    BY <1>0, FileJobShape
  <1>2. fileRows[o] # AbsentRow /\ fileRows[o].request = fileJob[t].request
    BY <1>0, <1>1 DEF FilesInv, JobsMatchRows
  <1>3. /\ fileRows' \in [FileOperation -> EditRow \cup {AbsentRow}]
        /\ fileRows'[o].status = "failed" /\ fileRows'[o].request = fileRows[o].request
        /\ fileRows'[o] # AbsentRow
        /\ \A p \in FileOperation : p # o => fileRows'[p] = fileRows[p]
    BY <1>0, <1>1, <1>2, StatusMoves DEF Fail
  <1>4. /\ fileJob' \in [FileThread -> EditJob \cup {NoFileJob}]
        /\ fileJob'[t].at = "idle"
        /\ \A u \in FileThread : u # t => fileJob'[u] = fileJob[u]
    BY <1>0, LeaveMoves DEF Fail
  <1>5. ~fileShared /\ fileFaults = 0 => \A w \in writes : w.op # o
    BY <1>0, <1>1 DEF FilesInv, EditedAlone
  <1>6. ~fileShared => EditedAlone'
    BY <1>0, <1>4, LastCallEnds
  <1>. QED
    BY <1>0, <1>1, <1>2, <1>3, <1>4, <1>5, <1>6, RowStep

-----------------------------------------------------------------------------
(* Steps that change the file or the evidence.                              *)

\* The write of a call: the content it read is the one its operation was asked
\* for, so it holds no line of the operation (_atomic_write).
LEMMA WriteKeeps ==
    ASSUME FilesInv, NEW t \in FileThread, Write(t)
    PROVE  FilesInv'
  <1>0. /\ FileTypeOK /\ JobsMatchRows /\ ContentsOnce /\ RecordIsTrue /\ JobsRecorded
        /\ fileJob[t].at = "write" /\ fileJob[t].at # "idle"
        /\ UNCHANGED <<fileRows, evidence, view, fileShared, fileStops, fileFaults, unmarked>>
        /\ fileJob[t].at \in Running /\ fileJob[t].at \in Reserved /\ fileJob[t].at \in PastCheck
    BY DEF FilesInv, Write, Running, Reserved, PastCheck, fileBudgets
  <1>1. PICK o \in FileOperation : o = fileJob[t].op
    BY <1>0, FileJobShape
  <1>2. PICK r \in Edit : r = fileJob[t].request
    BY <1>0, FileJobShape
  <1>3. fileRows[o] # AbsentRow /\ fileRows[o].request = r /\ fileJob[t].before = r.expected
    BY <1>0, <1>1, <1>2 DEF JobsMatchRows
  <1>4. PICK c \in Content : c = r.expected
    BY <1>2 DEF Edit
  <1>5. Once(c) /\ ~Has(c, o)
    BY <1>0, <1>3, <1>4 DEF ContentsOnce
  <1>6. PICK new : new = After(o, r, c)
    OBVIOUS
  <1>7. /\ new \in Content /\ Once(new)
        /\ \A p : p # o /\ ~Has(c, p) => ~Has(new, p)
    BY <1>5, <1>6, AfterShape, AfterOnce
  <1>8. file' = new
    BY <1>1, <1>2, <1>3, <1>4, <1>6 DEF Write
  <1>9. PICK w : w = [op |-> o, expected |-> c, read |-> c, replaced |-> file, after |-> new]
    OBVIOUS
  <1>10. writes' = writes \cup {w}
    BY <1>1, <1>2, <1>3, <1>4, <1>6, <1>9 DEF Write, Written
  <1>11. w.op = o /\ w.expected = c /\ w.read = c /\ w.replaced = file /\ w.after = new
    BY <1>9
  <1>12. /\ fileJob' \in [FileThread -> EditJob \cup {NoFileJob}]
         /\ fileJob'[t].at = "capture" /\ fileJob'[t].op = o
         /\ fileJob'[t].before = c /\ fileJob'[t].request = r
         /\ \A u \in FileThread : u # t => fileJob'[u] = fileJob[u]
    BY <1>0, <1>1, <1>2, <1>3, <1>4, GoMoves DEF Steps, Write
  <1>13. FileTypeOK'
    <2>1. writes' \subseteq [op : FileOperation, expected : Content, read : Content,
                             replaced : Content, after : Content]
      <3>1. file \in Content
        BY <1>0 DEF FileTypeOK
      <3>2. w \in [op : FileOperation, expected : Content, read : Content,
                   replaced : Content, after : Content]
        BY <1>7, <1>9, <3>1
      <3>. QED
        BY <1>0, <1>10, <3>2 DEF FileTypeOK
    <2>. QED
      BY <1>0, <1>7, <1>8, <1>12, <2>1 DEF FileTypeOK
  <1>14. JobsMatchRows'
    <2>1. SUFFICES ASSUME NEW u \in FileThread
                   PROVE  /\ fileJob'[u].at \in Reserved =>
                               /\ fileRows[fileJob'[u].op] # AbsentRow
                               /\ fileRows[fileJob'[u].op].request = fileJob'[u].request
                          /\ fileJob'[u].at \in PastCheck => fileJob'[u].before = fileJob'[u].request.expected
      BY <1>0 DEF JobsMatchRows
    <2>2. CASE u = t
      BY <1>3, <1>4, <1>12, <2>2
    <2>3. CASE u # t
      BY <1>0, <1>12, <2>3 DEF JobsMatchRows
    <2>. QED
      BY <2>2, <2>3
  <1>15. ContentsOnce'
    <2>1. \A p \in FileOperation : fileRows[p] = AbsentRow => ~Has(new, p)
      <3>1. \A p \in FileOperation : fileRows[p] = AbsentRow => p # o /\ ~Has(c, p)
        BY <1>0, <1>3, <1>4 DEF ContentsOnce
      <3>. QED
        BY <1>7, <3>1
    <2>2. \A u \in FileThread : fileJob'[u].at # "idle" =>
            /\ Once(fileJob'[u].request.expected)
            /\ \A p \in FileOperation : fileRows[p] = AbsentRow => ~Has(fileJob'[u].request.expected, p)
      <3>1. \A u \in FileThread : fileJob'[u].at # "idle" =>
              fileJob[u].at # "idle" /\ fileJob'[u].request = fileJob[u].request
        BY <1>0, <1>2, <1>12
      <3>. QED
        BY <1>0, <3>1 DEF ContentsOnce
    <2>3. Once(file') /\ \A p \in FileOperation : fileRows[p] = AbsentRow => ~Has(file', p)
      BY <1>7, <1>8, <2>1
    <2>. QED
      BY <1>0, <2>2, <2>3 DEF ContentsOnce, Once, Has
  <1>16. RecordIsTrue'
    BY <1>0, <1>10 DEF RecordIsTrue
  <1>17. JobsRecorded'
    <2>1. SUFFICES ASSUME NEW u \in FileThread
                   PROVE  /\ fileJob'[u].at \in {"capture", "complete"} =>
                               \E x \in writes' : /\ x.op = fileJob'[u].op /\ x.read = fileJob'[u].before
                                                  /\ x.after = After(fileJob'[u].op, fileJob'[u].request, fileJob'[u].before)
                          /\ fileJob'[u].at = "complete" => Captured(fileJob'[u]) \in evidence'
      BY DEF JobsRecorded, Captured, After
    <2>2. CASE u = t
      BY <1>6, <1>10, <1>11, <1>12, <2>2
    <2>3. CASE u # t
      <3>1. fileJob'[u] = fileJob[u]
        BY <1>12, <2>3
      <3>. QED
        BY <1>0, <1>10, <3>1 DEF JobsRecorded
    <2>. QED
      BY <2>2, <2>3
  <1>18. fileStops' = 0 => PendingMeansReserved'
    <2>1. \A u \in FileThread : fileJob[u].at \in Running => fileJob'[u].at \in Running /\ fileJob'[u].op = fileJob[u].op
      BY <1>1, <1>12 DEF Running
    <2>. QED
      BY <1>0, <2>1 DEF FilesInv, PendingMeansReserved
  <1>19. ASSUME ~fileShared
         PROVE  fileRows[o].status = "pending" /\ file = c
    BY <1>0, <1>1, <1>3, <1>4, <1>19 DEF FilesInv, EditedAlone
  <1>20. ~fileShared' => EditedAlone' /\ NoSilentOverwrite'
    <2>1. fileJob'[t].at # "write" /\ fileJob'[t].at \notin {"insert", "update", "check", "write", "fail"}
      BY <1>12
    <2>2. ~fileShared => EditedAlone'
      BY <1>0, <1>12, <1>19, <2>1, CallStaysAlone
    <2>3. ~fileShared => NoSilentOverwrite'
      BY <1>10, <1>11, <1>19 DEF FilesInv, NoSilentOverwrite
    <2>. QED
      BY <1>0, <2>2, <2>3
  <1>21. ~fileShared' /\ fileFaults' = 0 => UnwrittenRows'
    <2>1. SUFFICES ASSUME ~fileShared, fileFaults = 0, NEW p \in FileOperation,
                          fileRows[p].status \in {"absent", "failed"}
                   PROVE  \A x \in writes' : x.op # p
      BY <1>0 DEF UnwrittenRows
    <2>2. p # o
      BY <1>19, <2>1
    <2>3. \A x \in writes : x.op # p
      BY <2>1 DEF FilesInv, UnwrittenRows
    <2>. QED
      BY <1>10, <1>11, <2>2, <2>3
  <1>. QED
    BY <1>13, <1>14, <1>15, <1>16, <1>17, <1>18, <1>20, <1>21 DEF FilesInv

\* The evidence of a change is captured after its write.
LEMMA CaptureKeeps ==
    ASSUME FilesInv, NEW t \in FileThread, Capture(t)
    PROVE  FilesInv'
  <1>0. /\ FileTypeOK /\ JobsMatchRows /\ ContentsOnce /\ RecordIsTrue /\ JobsRecorded
        /\ fileJob[t].at = "capture" /\ fileJob[t].at # "idle"
        /\ UNCHANGED <<file, fileRows, view, writes, fileShared, fileStops, fileFaults, unmarked>>
        /\ fileJob[t].at \in Running /\ fileJob[t].at \in Reserved /\ fileJob[t].at \in PastCheck
    BY DEF FilesInv, Capture, Running, Reserved, PastCheck, fileBudgets
  <1>1. PICK o \in FileOperation : o = fileJob[t].op
    BY <1>0, FileJobShape
  <1>2. PICK r \in Edit : r = fileJob[t].request
    BY <1>0, FileJobShape
  <1>3. fileRows[o] # AbsentRow /\ fileRows[o].request = r /\ fileJob[t].before = r.expected
    BY <1>0, <1>1, <1>2 DEF JobsMatchRows
  <1>4. PICK c \in Content : c = r.expected
    BY <1>2 DEF Edit
  <1>5. PICK new \in Content : new = After(o, r, c)
    BY AfterShape
  <1>6. PICK e : e = [op |-> o, before |-> c, after |-> new]
    OBVIOUS
  <1>7. evidence' = evidence \cup {e} /\ e.op = o /\ e.before = c /\ e.after = new
    BY <1>1, <1>2, <1>3, <1>4, <1>5, <1>6 DEF Capture, Captured
  <1>8. /\ fileJob' \in [FileThread -> EditJob \cup {NoFileJob}]
        /\ fileJob'[t].at = "complete" /\ fileJob'[t].op = o
        /\ fileJob'[t].before = c /\ fileJob'[t].request = r
        /\ \A u \in FileThread : u # t => fileJob'[u] = fileJob[u]
    BY <1>0, <1>1, <1>2, <1>3, <1>4, GoMoves DEF Steps, Capture
  <1>9. \E x \in writes : x.op = o /\ x.read = c /\ x.after = new
    BY <1>0, <1>1, <1>2, <1>3, <1>4, <1>5 DEF JobsRecorded
  <1>10. FileTypeOK'
    <2>1. e \in [op : FileOperation, before : Content, after : Content]
      BY <1>6
    <2>2. evidence' \subseteq [op : FileOperation, before : Content, after : Content]
      BY <1>0, <1>7, <2>1 DEF FileTypeOK
    <2>. QED
      BY <1>0, <1>8, <2>2 DEF FileTypeOK
  <1>11. JobsMatchRows'
    <2>1. SUFFICES ASSUME NEW u \in FileThread
                   PROVE  /\ fileJob'[u].at \in Reserved =>
                               /\ fileRows[fileJob'[u].op] # AbsentRow
                               /\ fileRows[fileJob'[u].op].request = fileJob'[u].request
                          /\ fileJob'[u].at \in PastCheck => fileJob'[u].before = fileJob'[u].request.expected
      BY <1>0 DEF JobsMatchRows
    <2>2. CASE u = t
      BY <1>3, <1>4, <1>8, <2>2
    <2>3. CASE u # t
      BY <1>0, <1>8, <2>3 DEF JobsMatchRows
    <2>. QED
      BY <2>2, <2>3
  <1>12. ContentsOnce'
    <2>1. \A u \in FileThread : fileJob'[u].at # "idle" =>
            fileJob[u].at # "idle" /\ fileJob'[u].request = fileJob[u].request
      BY <1>0, <1>2, <1>8
    <2>. QED
      BY <1>0, <2>1 DEF ContentsOnce, Once, Has
  <1>13. RecordIsTrue'
    <2>1. \A x \in evidence' : \E w \in writes : w.op = x.op /\ w.read = x.before /\ w.after = x.after
      BY <1>0, <1>7, <1>9 DEF RecordIsTrue
    <2>2. \A p \in FileOperation : fileRows[p].status = "completed" =>
            \E x \in evidence' : x.op = p /\ x.after = After(p, fileRows[p].request, x.before)
      BY <1>0, <1>7 DEF RecordIsTrue
    <2>. QED
      BY <1>0, <2>1, <2>2 DEF RecordIsTrue, After
  <1>14. JobsRecorded'
    <2>1. SUFFICES ASSUME NEW u \in FileThread
                   PROVE  /\ fileJob'[u].at \in {"capture", "complete"} =>
                               \E x \in writes : /\ x.op = fileJob'[u].op /\ x.read = fileJob'[u].before
                                                 /\ x.after = After(fileJob'[u].op, fileJob'[u].request, fileJob'[u].before)
                          /\ fileJob'[u].at = "complete" => Captured(fileJob'[u]) \in evidence'
      BY <1>0 DEF JobsRecorded, Captured, After
    <2>2. CASE u = t
      BY <1>5, <1>6, <1>7, <1>8, <1>9, <2>2 DEF Captured
    <2>3. CASE u # t
      <3>1. fileJob'[u] = fileJob[u]
        BY <1>8, <2>3
      <3>. QED
        BY <1>0, <1>7, <3>1 DEF JobsRecorded
    <2>. QED
      BY <2>2, <2>3
  <1>15. fileStops' = 0 => PendingMeansReserved'
    <2>1. \A u \in FileThread : fileJob[u].at \in Running => fileJob'[u].at \in Running /\ fileJob'[u].op = fileJob[u].op
      BY <1>1, <1>8 DEF Running
    <2>. QED
      BY <1>0, <2>1 DEF FilesInv, PendingMeansReserved
  <1>16. ~fileShared' => EditedAlone' /\ NoSilentOverwrite'
    <2>1. fileJob'[t].at # "write" /\ fileJob'[t].at \notin {"insert", "update", "check", "write", "fail"}
      BY <1>8
    <2>2. ~fileShared => fileRows[o].status = "pending"
      BY <1>0, <1>1 DEF FilesInv, EditedAlone
    <2>3. ~fileShared => EditedAlone'
      BY <1>0, <1>8, <2>1, <2>2, CallStaysAlone
    <2>. QED
      BY <1>0, <2>3 DEF FilesInv, NoSilentOverwrite
  <1>17. ~fileShared' /\ fileFaults' = 0 => UnwrittenRows'
    BY <1>0 DEF FilesInv, UnwrittenRows
  <1>. QED
    BY <1>10, <1>11, <1>12, <1>13, <1>14, <1>15, <1>16, <1>17 DEF FilesInv

\* The agent reads the file.
LEMMA ReadKeeps ==
    ASSUME FilesInv, NEW t \in FileThread, ReadRange(t)
    PROVE  FilesInv'
  <1>0. /\ FileTypeOK /\ JobsMatchRows /\ ContentsOnce /\ RecordIsTrue /\ JobsRecorded
        /\ UNCHANGED <<file, fileRows, evidence, fileJob, writes, fileShared, fileStops, fileFaults, unmarked>>
    BY DEF FilesInv, ReadRange, fileBudgets
  <1>1. /\ view' \in [FileThread -> Content]
        /\ \A u \in FileThread : view'[u] = IF u = t THEN file ELSE view[u]
    BY <1>0 DEF FileTypeOK, ReadRange
  <1>2. FileTypeOK'
    BY <1>0, <1>1 DEF FileTypeOK
  <1>3. JobsMatchRows' /\ RecordIsTrue'
    BY <1>0 DEF JobsMatchRows, RecordIsTrue, After
  <1>4. JobsRecorded'
    BY <1>0 DEF JobsRecorded, Captured, After
  <1>5. ContentsOnce'
    <2>1. \A u \in FileThread : /\ Once(view'[u])
                                /\ \A p \in FileOperation : fileRows[p] = AbsentRow => ~Has(view'[u], p)
      BY <1>0, <1>1 DEF ContentsOnce
    <2>. QED
      BY <1>0, <2>1 DEF ContentsOnce, Once, Has
  <1>6. fileStops' = 0 => PendingMeansReserved'
    BY <1>0 DEF FilesInv, PendingMeansReserved
  <1>7. ~fileShared' => EditedAlone' /\ NoSilentOverwrite'
    BY <1>0 DEF FilesInv, EditedAlone, NoSilentOverwrite
  <1>8. ~fileShared' /\ fileFaults' = 0 => UnwrittenRows'
    BY <1>0 DEF FilesInv, UnwrittenRows
  <1>. QED
    BY <1>2, <1>3, <1>4, <1>5, <1>6, <1>7, <1>8 DEF FilesInv

\* The user's line belongs to no operation.
LEMMA UserEditKeeps ==
    ASSUME FilesInv, UserEdit
    PROVE  FilesInv'
  <1>0. /\ FileTypeOK /\ JobsMatchRows /\ ContentsOnce /\ RecordIsTrue /\ JobsRecorded
        /\ UNCHANGED <<fileRows, evidence, view, fileJob, writes, fileStops, fileFaults, unmarked>>
        /\ file' = Append(file, UserLine) /\ fileShared' = (fileShared \/ ~AtRest)
    BY DEF FilesInv, UserEdit
  <1>1. file \in Content /\ Once(file)
    BY <1>0 DEF FileTypeOK, ContentsOnce
  <1>2. PICK new : new = Append(file, UserLine)
    OBVIOUS
  <1>3. /\ new \in Content /\ Once(new)
        /\ \A p \in FileOperation : ~Has(file, p) => ~Has(new, p)
    BY <1>1, <1>2, UserLineOnce
  <1>4. file' = new
    BY <1>0, <1>2
  <1>5. FileTypeOK'
    BY <1>0, <1>3, <1>4 DEF FileTypeOK
  <1>6. JobsMatchRows' /\ RecordIsTrue'
    BY <1>0 DEF JobsMatchRows, RecordIsTrue, After
  <1>7. JobsRecorded'
    BY <1>0 DEF JobsRecorded, Captured, After
  <1>8. ContentsOnce'
    <2>1. Once(file') /\ \A p \in FileOperation : fileRows[p] = AbsentRow => ~Has(file', p)
      BY <1>0, <1>3, <1>4 DEF ContentsOnce
    <2>. QED
      BY <1>0, <2>1 DEF ContentsOnce, Once, Has
  <1>9. fileStops' = 0 => PendingMeansReserved'
    BY <1>0 DEF FilesInv, PendingMeansReserved
  <1>10. ASSUME ~fileShared' PROVE EditedAlone' /\ NoSilentOverwrite'
    <2>1. ~fileShared /\ AtRest
      BY <1>0, <1>10
    <2>2. \A t \in FileThread : fileJob'[t].at = "idle"
      BY <1>0, <2>1 DEF AtRest, NoFileJob
    <2>. QED
      BY <1>0, <2>1, <2>2 DEF FilesInv, EditedAlone, NoSilentOverwrite
  <1>11. ~fileShared' /\ fileFaults' = 0 => UnwrittenRows'
    BY <1>0 DEF FilesInv, UnwrittenRows
  <1>. QED
    BY <1>5, <1>6, <1>7, <1>8, <1>9, <1>10, <1>11 DEF FilesInv

\* A stop ends the calls and nothing else.
LEMMA FileStopKeeps ==
    ASSUME FilesInv, FileStop
    PROVE  FilesInv'
  <1>0. /\ FileTypeOK /\ JobsMatchRows /\ ContentsOnce /\ RecordIsTrue /\ JobsRecorded
        /\ UNCHANGED <<file, fileRows, evidence, view, writes, fileShared, fileFaults, unmarked>>
        /\ fileJob' = [t \in FileThread |-> NoFileJob] /\ fileStops' = fileStops + 1
    BY DEF FilesInv, FileStop
  <1>1. \A t \in FileThread : fileJob'[t] = NoFileJob
    BY <1>0
  <1>2. \A t \in FileThread : fileJob'[t].at = "idle"
    BY <1>1 DEF NoFileJob
  <1>3. fileJob' \in [FileThread -> EditJob \cup {NoFileJob}]
    BY <1>0
  <1>4. fileStops' \in Nat /\ fileStops' # 0
    BY <1>0 DEF FileTypeOK
  <1>5. FileTypeOK'
    BY <1>0, <1>3, <1>4 DEF FileTypeOK
  <1>6. JobsMatchRows'
    BY <1>2 DEF JobsMatchRows, Reserved, PastCheck
  <1>7. RecordIsTrue' /\ JobsRecorded'
    BY <1>0, <1>2 DEF RecordIsTrue, JobsRecorded, After
  <1>8. ContentsOnce'
    BY <1>0, <1>2 DEF ContentsOnce, Once, Has
  <1>9. ~fileShared' => EditedAlone' /\ NoSilentOverwrite'
    BY <1>0, <1>2 DEF FilesInv, EditedAlone, NoSilentOverwrite
  <1>10. ~fileShared' /\ fileFaults' = 0 => UnwrittenRows'
    BY <1>0 DEF FilesInv, UnwrittenRows
  <1>. QED
    BY <1>4, <1>5, <1>6, <1>7, <1>8, <1>9, <1>10 DEF FilesInv

-----------------------------------------------------------------------------
(* The operation record is true.                                            *)

\* At the start only the user has a line.
LEMMA FileInitKeeps ==
    ASSUME FileInit
    PROVE  FilesInv
  <1>1. UserLine \in Line /\ UserLine[1] \notin FileOperation
    BY FilesAssumption DEF Line
  <1>2. PICK line \in Line : line = UserLine
    BY <1>1
  <1>3. PICK c : c = <<line>>
    OBVIOUS
  <1>4. c \in Seq(Line) /\ c # <<>> /\ DOMAIN c = {1} /\ c[1] = line
    BY <1>3
  <1>5. c \in Content
    BY <1>4 DEF Content
  <1>6. Once(c) /\ \A o \in FileOperation : ~Has(c, o)
    BY <1>1, <1>2, <1>4 DEF Once, Has
  <1>7. file = c /\ \A t \in FileThread : view[t] = c
    BY <1>2, <1>3 DEF FileInit
  <1>8. \A t \in FileThread : fileJob[t] = NoFileJob /\ fileJob[t].at = "idle"
    BY DEF FileInit, NoFileJob
  <1>9. \A o \in FileOperation : fileRows[o] = AbsentRow /\ fileRows[o].status = "absent"
    BY DEF FileInit, AbsentRow
  <1>10. evidence = {} /\ writes = {}
    BY DEF FileInit
  <1>11. FileTypeOK
    BY <1>5, <1>7, <1>10 DEF FileInit, FileTypeOK
  <1>12. JobsMatchRows
    BY <1>8 DEF JobsMatchRows, Reserved, PastCheck
  <1>13. ContentsOnce
    BY <1>6, <1>7, <1>8, <1>9 DEF ContentsOnce
  <1>14. RecordIsTrue /\ JobsRecorded
    BY <1>8, <1>9, <1>10 DEF RecordIsTrue, JobsRecorded
  <1>15. PendingMeansReserved /\ EditedAlone /\ NoSilentOverwrite /\ UnwrittenRows
    BY <1>8, <1>9, <1>10 DEF PendingMeansReserved, EditedAlone, NoSilentOverwrite, UnwrittenRows
  <1>. QED
    BY <1>11, <1>12, <1>13, <1>14, <1>15 DEF FilesInv

\* The invariant has all that is claimed.
LEMMA FilesInvSound ==
    ASSUME FilesInv
    PROVE  FilesSound
  <1>1. FileTypeOK /\ OneLinePerOperation /\ RecordIsTrue
    BY DEF FilesInv, ContentsOnce, OneLinePerOperation
  <1>2. fileStops = 0 => BusyMeansRunning
    <2>1. \A t \in FileThread : fileJob[t].at \in Running => fileJob[t] # NoFileJob
      BY DEF Running, NoFileJob
    <2>. QED
      BY <2>1 DEF FilesInv, PendingMeansReserved, BusyMeansRunning
  <1>3. ~fileShared /\ fileFaults = 0 => NoSilentOverwrite /\ FailedMeansUnwritten
    BY DEF FilesInv, UnwrittenRows, FailedMeansUnwritten
  <1>. QED
    BY <1>1, <1>2, <1>3 DEF FilesSound

\* A step that changes nothing.
LEMMA FilesStutter ==
    ASSUME FilesInv, UNCHANGED fileVars
    PROVE  FilesInv'
  <1>0. /\ FileTypeOK /\ JobsMatchRows /\ ContentsOnce /\ RecordIsTrue /\ JobsRecorded
        /\ UNCHANGED <<file, fileRows, evidence, view, fileJob, writes, fileShared, fileStops, fileFaults, unmarked>>
    BY DEF FilesInv, fileVars, fileBudgets
  <1>1. FileTypeOK'
    BY <1>0 DEF FileTypeOK
  <1>2. JobsMatchRows' /\ RecordIsTrue' /\ ContentsOnce'
    BY <1>0 DEF JobsMatchRows, RecordIsTrue, After, ContentsOnce, Once, Has
  <1>3. JobsRecorded'
    BY <1>0 DEF JobsRecorded, Captured, After
  <1>4. fileStops' = 0 => PendingMeansReserved'
    BY <1>0 DEF FilesInv, PendingMeansReserved
  <1>5. ~fileShared' => EditedAlone' /\ NoSilentOverwrite'
    BY <1>0 DEF FilesInv, EditedAlone, NoSilentOverwrite
  <1>6. ~fileShared' /\ fileFaults' = 0 => UnwrittenRows'
    BY <1>0 DEF FilesInv, UnwrittenRows
  <1>. QED
    BY <1>1, <1>2, <1>3, <1>4, <1>5, <1>6 DEF FilesInv

\* Whatever calls meet, fail, are retried or cut off: the file holds an operation
\* at most once and the record tells what was written; an operation is left busy
\* only by a stop or a database that refuses its end; and while calls and the editor take turns and the disk works,
\* nothing the agent has not seen is overwritten and a failed operation has
\* written nothing (PrecisionFileService, SqlitePrecisionFileOperationStore).
THEOREM FilesAreSound == FileSpec => []FilesSound
  <1>1. FileInit => FilesInv
    BY FileInitKeeps
  <1>2. FilesInv /\ [FileNext]_fileVars => FilesInv'
    <2>1. SUFFICES ASSUME FilesInv, [FileNext]_fileVars PROVE FilesInv'
      OBVIOUS
    <2>2. CASE UNCHANGED fileVars
      BY <2>1, <2>2, FilesStutter
    <2>3. ASSUME NEW t \in FileThread,
                 ReadRange(t) \/ EditFile(t) \/ RetryEdit(t) \/ ServeEdit(t) \/ Fault(t)
          PROVE  FilesInv'
      <3>1. CASE ReadRange(t)
        BY <2>1, <3>1, ReadKeeps
      <3>2. CASE EditFile(t)
        BY <2>1, <3>2, EditKeeps
      <3>3. CASE RetryEdit(t)
        BY <2>1, <3>3, RetryKeeps
      <3>4. CASE LookUp(t)
        BY <2>1, <3>4, LookUpKeeps
      <3>5. CASE Insert(t)
        BY <2>1, <3>5, FileInsertKeeps
      <3>6. CASE TakeUp(t)
        BY <2>1, <3>6, TakeUpKeeps
      <3>7. CASE Check(t)
        BY <2>1, <3>7, CheckKeeps
      <3>8. CASE Write(t)
        BY <2>1, <3>8, WriteKeeps
      <3>9. CASE Capture(t)
        BY <2>1, <3>9, CaptureKeeps
      <3>10. CASE Complete(t)
        BY <2>1, <3>10, CompleteKeeps
      <3>11. CASE Fail(t)
        BY <2>1, <3>11, FailKeeps
      <3>12. CASE Fault(t)
        BY <2>1, <3>12, FaultKeeps
      <3>. QED
        BY <2>3, <3>1, <3>2, <3>3, <3>4, <3>5, <3>6, <3>7, <3>8, <3>9, <3>10, <3>11, <3>12
           DEF ServeEdit
    <2>4. CASE UserEdit
      BY <2>1, <2>4, UserEditKeeps
    <2>5. CASE FileStop
      BY <2>1, <2>5, FileStopKeeps
    <2>. QED
      BY <2>1, <2>2, <2>3, <2>4, <2>5 DEF FileNext
  <1>3. FilesInv => FilesSound
    BY FilesInvSound
  <1>. QED
    BY <1>1, <1>2, <1>3, PTL DEF FileSpec

-----------------------------------------------------------------------------
(* Settings.                                                               *)

\* Writing the key of a provider changes what is read of that provider alone,
\* an old-format key included (llm_provider_secret_payload).
LEMMA PayloadReads ==
    ASSUME NEW s, NEW p, NEW k, k # None, NEW q \in Provider
    PROVE  ReadLlmProviderSecret(LlmProviderSecretPayload(s, p, k), q) =
               IF q = p THEN k ELSE ReadLlmProviderSecret(s, q)
  BY SettingsAssumption DEF ReadLlmProviderSecret, LlmProviderSecretPayload, None

\* Writing the key of the web search changes no provider's
\* (write_web_search_secret).
LEMMA WebPayloadReads ==
    ASSUME NEW s, NEW k, NEW q
    PROVE  /\ ReadLlmProviderSecret(WebSearchSecretPayload(s, k), q) = ReadLlmProviderSecret(s, q)
           /\ WebSearchSecretPayload(s, k).web = k
  BY DEF ReadLlmProviderSecret, WebSearchSecretPayload

\* The request of one thread changes, the others' stay.
LEMMA JobChanges ==
    ASSUME NEW h \in SettingsHandler, NEW j, SettingsInv, JobBecomes(h, j)
    PROVE  /\ DOMAIN settingsJob' = SettingsHandler /\ settingsJob'[h] = j
           /\ \A g \in SettingsHandler \ {h} : settingsJob'[g] = settingsJob[g]
  BY DEF JobBecomes, SettingsInv, SettingsTypeOK

\* A step of thread h after which a file that is not torn reads as before.
Calm(h) ==
    /\ saved' = saved /\ overlap' = overlap /\ clash \subseteq clash'
    /\ settingsStops' = 0 => settingsStops = 0
    /\ \A f \in SettingsFile \ clash' : ReadJsonObject(f)' = ReadJsonObject(f)
    /\ \A g \in SettingsHandler \ {h} : settingsJob'[g] = settingsJob[g]

\* What it leaves of the conditions under which the files are as written.
LEMMA CalmReads ==
    ASSUME NEW h \in SettingsHandler, Calm(h)
    PROVE  /\ SecretsKept' => /\ SecretsKept /\ "secrets" \notin clash'
                              /\ ReadJsonObject("secrets")' = ReadJsonObject("secrets")
                              /\ \A p : KeyStored(p)' <=> KeyStored(p)
           /\ StoreKept' => /\ StoreKept /\ SecretsKept'
                            /\ ReadJsonObject("config")' = ReadJsonObject("config")
  <1>1. ASSUME SecretsKept'
        PROVE  SecretsKept /\ "secrets" \notin clash' /\ ReadJsonObject("secrets")' = ReadJsonObject("secrets")
    BY <1>1 DEF Calm, SecretsKept, SettingsFile
  <1>2. ASSUME SecretsKept', NEW p PROVE KeyStored(p)' <=> KeyStored(p)
    BY <1>1, <1>2 DEF KeyStored
  <1>3. ASSUME StoreKept'
        PROVE  StoreKept /\ SecretsKept' /\ ReadJsonObject("config")' = ReadJsonObject("config")
    BY <1>1, <1>3 DEF Calm, StoreKept, SettingsFile
  <1>. QED
    BY <1>1, <1>2, <1>3

\* It changes what is known of the other threads by its own key alone.
LEMMA CalmKeepsOthers ==
    ASSUME NEW h \in SettingsHandler, SettingsInv, Calm(h), NEW g \in SettingsHandler \ {h}
    PROVE  /\ (BaseFresh(g) /\ KeyGiven(g) /\ ProviderKnown(g))'
           /\ SecretsKept' => KeyTold(g)'
  <1>0. settingsJob'[g] = settingsJob[g] /\ BaseFresh(g) /\ KeyGiven(g) /\ ProviderKnown(g)
        /\ (SecretsKept => KeyTold(g))
    BY DEF SettingsInv, Calm
  <1>1. BaseFresh(g)'
    BY <1>0 DEF BaseFresh, Based, JobAt, Calm, SettingsFile
  <1>2. KeyGiven(g)'
    BY <1>0 DEF KeyGiven, Based, JobAt
  <1>3. ProviderKnown(g)'
    BY <1>0 DEF ProviderKnown, Based, Answered, JobAt
  <1>4. ASSUME SecretsKept' PROVE KeyTold(g)'
    <2>1. KeyTold(g) /\ \A p : KeyStored(p)' <=> KeyStored(p)
      BY <1>0, <1>4, CalmReads
    <2>2. /\ UpdateAccepted(g)' = UpdateAccepted(g) /\ KeyPending(g)' = KeyPending(g)
          /\ Answered(g)' = Answered(g) /\ JobAt(g, "profile")' = JobAt(g, "profile")
      BY <1>0 DEF UpdateAccepted, KeyPending, Answered, JobAt
    <2>. QED
      BY <1>0, <2>1, <2>2 DEF KeyTold
  <1>. QED
    BY <1>1, <1>2, <1>3, <1>4

\* What backs a provider or the web search stays when the key of a thread
\* is still to be written or has been.
LEMMA BackedStays ==
    ASSUME NEW p,
           KeyStored(p) => KeyStored(p)',
           \A g \in SettingsHandler : KeyPending(g) /\ settingsJob[g].req.llm.provider = p =>
               \/ KeyPending(g)' /\ settingsJob'[g].req = settingsJob[g].req
               \/ KeyStored(p)'
    PROVE  LlmBacked(p) => LlmBacked(p)'
  BY DEF LlmBacked

LEMMA WebBackedStays ==
    ASSUME ReadJsonObject("secrets").web # None => (ReadJsonObject("secrets").web # None)',
           \A g \in SettingsHandler : UnderWay(g) /\ WebKey(settingsJob[g].req) # None =>
               \/ UnderWay(g)' /\ settingsJob'[g].req = settingsJob[g].req
               \/ (ReadJsonObject("secrets").web # None)'
    PROVE  WebBacked => WebBacked'
  BY DEF WebBacked

\* What thread h has to show for the invariant after such a step.
LEMMA CalmKeeps ==
    ASSUME NEW h \in SettingsHandler, SettingsInv, Calm(h),
           (SettingsTypeOK /\ InodesApart /\ WriterAlone /\ ConfigInodesKnown)',
           (BaseFresh(h) /\ KeyGiven(h) /\ ProviderKnown(h))',
           SecretsKept' => KeyTold(h)',
           StoreKept' => /\ KeyPending(h) => KeyPending(h)' /\ settingsJob'[h].req = settingsJob[h].req
                         /\ UnderWay(h) => UnderWay(h)' /\ settingsJob'[h].req = settingsJob[h].req,
           StoreKept' /\ (\A p : LlmBacked(p) => LlmBacked(p)') /\ (WebBacked => WebBacked') =>
               DocumentBacked(h)'
    PROVE  SettingsInv'
  <1>1. NothingLost'
    <2>1. NothingLost /\ saved' = saved /\ overlap' = overlap /\ clash \subseteq clash'
      BY DEF SettingsInv, Calm
    <2>2. \A f \in {"config", "secrets"} : f \notin clash' => ReadJsonObject(f)' = ReadJsonObject(f)
      BY DEF Calm, SettingsFile
    <2>. QED
      BY <2>1, <2>2 DEF NothingLost
  <1>2. \A g \in SettingsHandler : (BaseFresh(g) /\ KeyGiven(g) /\ ProviderKnown(g))'
    BY CalmKeepsOthers
  <1>4. \A g \in SettingsHandler : (SecretsKept => KeyTold(g))'
    BY CalmKeepsOthers
  <1>6. \A g \in SettingsHandler \ {h} : /\ settingsJob'[g] = settingsJob[g]
                                         /\ KeyPending(g)' = KeyPending(g) /\ UnderWay(g)' = UnderWay(g)
    BY DEF Calm, KeyPending, UnderWay, JobAt
  <1>7. ASSUME StoreKept' PROVE \A p : LlmBacked(p) => LlmBacked(p)'
    <2>1. \A p : KeyStored(p)' <=> KeyStored(p)
      BY <1>7, CalmReads
    <2>. QED
      BY <1>6, <1>7, <2>1, BackedStays
  <1>8. ASSUME StoreKept' PROVE WebBacked => WebBacked'
    <2>1. ReadJsonObject("secrets")' = ReadJsonObject("secrets")
      BY <1>8, CalmReads
    <2>. QED
      BY <1>6, <1>8, <2>1, WebBackedStays
  <1>9. ASSUME StoreKept', NEW g \in SettingsHandler PROVE DocumentBacked(g)'
    <2>1. CASE g = h
      BY <1>7, <1>8, <1>9, <2>1
    <2>2. CASE g # h
      <3>1. DocumentBacked(g) /\ settingsJob'[g] = settingsJob[g]
        BY <1>6, <1>9, <2>2, CalmReads DEF SettingsInv
      <3>. QED
        BY <1>7, <1>8, <1>9, <3>1 DEF DocumentBacked, Based, JobAt
    <2>. QED
      BY <2>1, <2>2
  <1>10. ASSUME StoreKept' PROVE StoredBacked'
    BY <1>7, <1>8, <1>10, CalmReads DEF StoredBacked, SettingsInv
  <1>. QED
    BY <1>1, <1>2, <1>4, <1>9, <1>10 DEF SettingsInv

\* A step of thread h that touches no file and has none open.
Quiet(h) ==
    /\ FilesStay
    /\ DOMAIN settingsJob' = SettingsHandler
    /\ \A g \in SettingsHandler \ {h} : settingsJob'[g] = settingsJob[g]
    /\ settingsJob[h].pc \notin {"fill", "move"} /\ settingsJob'[h].pc \notin {"fill", "move"}
    /\ JobTypeOK(h)'

\* Such a step leaves the files and their writers as they are.
LEMMA QuietKeepsFiles ==
    ASSUME NEW h \in SettingsHandler, SettingsInv, Quiet(h)
    PROVE  /\ Calm(h) /\ SecretsKept' = SecretsKept /\ StoreKept' = StoreKept
           /\ (SettingsTypeOK /\ InodesApart /\ WriterAlone /\ ConfigInodesKnown)'
  <1>. USE DEF SettingsInv, Quiet, FilesStay, JobAt
  <1>0. Calm(h)
    BY DEF Calm, ReadJsonObject, Readable
  <1>1. SettingsTypeOK'
    <2>1. \A g \in SettingsHandler : JobTypeOK(g)'
      BY DEF SettingsTypeOK, JobTypeOK
    <2>. QED
      BY <2>1 DEF SettingsTypeOK
  <1>2. InodesApart'
    BY DEF InodesApart, SettingsTypeOK
  <1>3. WriterAlone'
    BY DEF WriterAlone, HasOpen
  <1>4. SecretsKept' = SecretsKept /\ StoreKept' = StoreKept
    BY DEF SecretsKept, StoreKept
  <1>5. ConfigInodesKnown'
    BY DEF ConfigInodesKnown
  <1>. QED
    BY <1>0, <1>1, <1>2, <1>3, <1>4, <1>5

\* What a thread that touches no file has to show for the invariant.
LEMMA QuietKeeps ==
    ASSUME NEW h \in SettingsHandler, SettingsInv, Quiet(h),
           (BaseFresh(h) /\ KeyGiven(h) /\ ProviderKnown(h))',
           SecretsKept => KeyTold(h)',
           StoreKept => /\ KeyPending(h) => KeyPending(h)' /\ settingsJob'[h].req = settingsJob[h].req
                        /\ UnderWay(h) => UnderWay(h)' /\ settingsJob'[h].req = settingsJob[h].req,
           StoreKept /\ (\A p : LlmBacked(p) => LlmBacked(p)') /\ (WebBacked => WebBacked') =>
               DocumentBacked(h)'
    PROVE  SettingsInv'
  BY QuietKeepsFiles, CalmKeeps

\* KeyPending and UnderWay are about the steps that write.
LEMMA PendingIsUnderWay ==
    ASSUME NEW h \in SettingsHandler, KeyPending(h)
    PROVE  UnderWay(h)
  BY DEF KeyPending, UnderWay, JobAt, Saving

\* The fields of a thread's record (SettingsJob) and what the steps keep.
LEMMA JobFields ==
    ASSUME SettingsInv, NEW h \in SettingsHandler
    PROVE  /\ DOMAIN settingsJob[h] = {"pc", "req", "file", "doc", "report", "fd", "stale", "seen", "step",
                                       "key", "status"}
           /\ DOMAIN NoSettingsJob = {"pc", "req", "file", "doc", "report", "fd", "stale", "seen", "step",
                                      "key", "status"}
           /\ settingsJob[h].pc \in SettingsStep /\ settingsJob[h].file \in SettingsFile
           /\ settingsJob[h].fd \in Inodes \cup {NoInode}
           /\ settingsJob[h].fd # NoInode <=> settingsJob[h].pc = "fill"
  BY DEF SettingsInv, SettingsTypeOK, JobTypeOK, NoSettingsJob, JobAt

\* A thread whose request ends without a report has nothing left to show.
LEMMA KeepsRefusal ==
    ASSUME NEW h \in SettingsHandler, SettingsInv, NEW status, status # 200,
           SettingsAnswers(h, status), FilesStay,
           settingsJob[h].pc \notin {"fill", "move"},
           StoreKept => ~UnderWay(h)
    PROVE  SettingsInv'
  <1>. DEFINE j == [settingsJob[h] EXCEPT !.pc = "idle", !.status = status]
  <1>0. /\ DOMAIN j = DOMAIN NoSettingsJob /\ j.pc = "idle" /\ j.status = status
        /\ j.fd = settingsJob[h].fd /\ j.file = settingsJob[h].file
    BY JobFields
  <1>1. /\ DOMAIN settingsJob' = SettingsHandler /\ settingsJob'[h] = j
        /\ \A g \in SettingsHandler \ {h} : settingsJob'[g] = settingsJob[g]
    BY JobChanges DEF SettingsAnswers
  <1>. HIDE DEF j
  <1>2. Quiet(h)
    BY <1>0, <1>1, JobFields DEF Quiet, JobTypeOK, JobAt, SettingsStep
  <1>3. (BaseFresh(h) /\ KeyGiven(h) /\ ProviderKnown(h))' /\ KeyTold(h)' /\ DocumentBacked(h)'
    BY <1>0, <1>1 DEF BaseFresh, KeyGiven, ProviderKnown, KeyTold, DocumentBacked, Based,
                UpdateAccepted, Answered, JobAt, Saving
  <1>. QED
    BY <1>2, <1>3, QuietKeeps, PendingIsUnderWay

\* A thread takes a request (ui_http_settings.py).
LEMMA KeepsRequest ==
    ASSUME NEW h \in SettingsHandler, SettingsInv, NEW u \in SettingsUpdate, SettingsRequest(h, u)
    PROVE  SettingsInv'
  <1>. DEFINE j == [NoSettingsJob EXCEPT !.req = u,
                                         !.pc = IF u.kind = "patch" THEN "read"
                                                ELSE IF u.kind = "get" THEN "summary" ELSE "env"]
  <1>0. /\ DOMAIN j = DOMAIN NoSettingsJob /\ j.req = u
        /\ j.pc = (IF u.kind = "patch" THEN "read" ELSE IF u.kind = "get" THEN "summary" ELSE "env")
        /\ j.fd = NoInode /\ j.file = "config" /\ j.status = 0
    BY DEF NoSettingsJob
  <1>1. /\ DOMAIN settingsJob' = SettingsHandler /\ settingsJob'[h] = j
        /\ \A g \in SettingsHandler \ {h} : settingsJob'[g] = settingsJob[g]
    BY JobChanges DEF SettingsRequest
  <1>. HIDE DEF j
  <1>2. Quiet(h)
    BY <1>0, <1>1 DEF Quiet, FilesStay, SettingsRequest, JobTypeOK, JobAt, SettingsStep, SettingsFile
  <1>3. (BaseFresh(h) /\ KeyGiven(h) /\ ProviderKnown(h))' /\ KeyTold(h)' /\ DocumentBacked(h)'
    BY <1>0, <1>1 DEF BaseFresh, KeyGiven, ProviderKnown, KeyTold, DocumentBacked, Based,
                UpdateAccepted, Answered, JobAt, Saving
  <1>4. ~UnderWay(h)
    BY DEF SettingsRequest, UnderWay, JobAt
  <1>. QED
    BY <1>2, <1>3, <1>4, QuietKeeps, PendingIsUnderWay

\* The document an update is built from is the file's or empty.
LEMMA ConfigRead ==
    ASSUME SettingsInv
    PROVE  /\ KnownIn(ReadJsonObject("config"))
           /\ "config" \notin clash => Readable("config")
           /\ "secrets" \notin clash => Readable("secrets")
  BY DEF SettingsInv, ConfigInodesKnown, KnownIn, ReadJsonObject, NoDocument, WriterAlone, Readable, SettingsFile

\* What the update replaces and what it keeps.
LEMMA UpdatedReads ==
    ASSUME NEW c, NEW u
    PROVE  /\ HasLlm(u) => UpdatedConfigData(c, u).llm = u.llm.provider
           /\ ~HasLlm(u) => UpdatedConfigData(c, u).llm = c.llm
           /\ u.web.given => UpdatedConfigData(c, u).web.enabled = u.web.enabled
           /\ ~u.web.given => UpdatedConfigData(c, u).web.enabled = c.web.enabled
  BY DEF UpdatedConfigData

\* update_config reads config.json.
LEMMA KeepsReadConfig ==
    ASSUME NEW h \in SettingsHandler, SettingsInv, ReadConfig(h)
    PROVE  SettingsInv'
  <1>. USE DEF JobAt
  <1>1. CASE ~Readable("config")
    BY <1>1, KeepsRefusal DEF ReadConfig, UnderWay
  <1>2. CASE Readable("config")
    <2>. PICK c : c = ReadJsonObject("config")
      OBVIOUS
    <2>. PICK u : u = settingsJob[h].req
      OBVIOUS
    <2>. PICK d : d = UpdatedConfigData(c, u)
      OBVIOUS
    <2>. PICK j : j = [settingsJob[h] EXCEPT !.pc = "check", !.stale = FALSE, !.doc = d]
      OBVIOUS
    <2>0. /\ DOMAIN j = DOMAIN NoSettingsJob /\ j.pc = "check" /\ j.doc = d
          /\ j.req = u /\ j.status = settingsJob[h].status
          /\ j.fd = settingsJob[h].fd /\ j.file = settingsJob[h].file
      BY JobFields
    <2>1. /\ DOMAIN settingsJob' = SettingsHandler /\ settingsJob'[h] = j
          /\ \A g \in SettingsHandler \ {h} : settingsJob'[g] = settingsJob[g]
      <3>1. JobBecomes(h, j)
        BY <1>2 DEF ReadConfig
      <3>. QED
        BY <3>1, JobChanges
    <2>2. Quiet(h)
      BY <2>0, <2>1, JobFields DEF Quiet, ReadConfig, JobTypeOK, SettingsStep
    <2>3. ReadJsonObject("config")' = c
      BY DEF ReadConfig, FilesStay, ReadJsonObject, Readable
    <2>4. BaseFresh(h)' /\ KeyGiven(h)'
      BY <2>0, <2>1, <2>3 DEF BaseFresh, KeyGiven, Based
    <2>5. ProviderKnown(h)'
      <3>1. settingsJob[h].status # 200
        BY DEF ReadConfig, SettingsInv, ProviderKnown
      <3>. QED
        BY <2>0, <2>1, <3>1, ConfigRead, UpdatedReads DEF ProviderKnown, KnownIn, Answered
    <2>6. KeyTold(h)'
      BY <2>0, <2>1 DEF KeyTold, UpdateAccepted, Answered
    <2>7. ASSUME StoreKept, \A p : LlmBacked(p) => LlmBacked(p)', WebBacked => WebBacked'
          PROVE  DocumentBacked(h)'
      <3>1. StoredBacked
        BY <2>7 DEF SettingsInv
      <3>2. ~HasLlm(u) => LlmBacked(d.llm)'
        BY <2>7, <3>1, UpdatedReads DEF StoredBacked
      <3>3. ~u.web.given /\ d.web.enabled => WebBacked'
        BY <2>7, <3>1, UpdatedReads DEF StoredBacked
      <3>4. u.web.given => d.web.enabled = u.web.enabled
        BY UpdatedReads
      <3>. QED
        BY <2>0, <2>1, <3>2, <3>3, <3>4 DEF DocumentBacked
    <2>8. ~UnderWay(h)
      BY DEF ReadConfig, UnderWay
    <2>. QED
      BY <2>2, <2>4, <2>5, <2>6, <2>7, <2>8, QuietKeeps, PendingIsUnderWay
  <1>. QED
    BY <1>1, <1>2

\* _validate_update.
LEMMA KeepsValidate ==
    ASSUME NEW h \in SettingsHandler, SettingsInv, Validate(h)
    PROVE  SettingsInv'
  <1>. USE DEF JobAt
  <1>. PICK s : s = ReadJsonObject("secrets")
    OBVIOUS
  <1>. PICK u : u = settingsJob[h].req
    OBVIOUS
  <1>. PICK d : d = settingsJob[h].doc
    OBVIOUS
  <1>. PICK j : j = [settingsJob[h] EXCEPT !.pc = "open", !.file = "config"]
    OBVIOUS
  <1>1. CASE SettingsAnswers(h, 500) \/ SettingsAnswers(h, 400)
    BY <1>1, KeepsRefusal DEF Validate, UnderWay
  <1>2. CASE ~(SettingsAnswers(h, 500) \/ SettingsAnswers(h, 400))
    <2>0. ValidUpdate(u, d, s) /\ JobBecomes(h, j)
      BY <1>2 DEF Validate
    <2>a. /\ DOMAIN j = DOMAIN NoSettingsJob /\ j.pc = "open" /\ j.doc = d
          /\ j.req = u /\ j.status = settingsJob[h].status
          /\ j.stale = settingsJob[h].stale /\ j.fd = settingsJob[h].fd /\ j.file = "config"
      BY JobFields
    <2>1. /\ DOMAIN settingsJob' = SettingsHandler /\ settingsJob'[h] = j
          /\ \A g \in SettingsHandler \ {h} : settingsJob'[g] = settingsJob[g]
      BY <2>0, JobChanges
    <2>2. Quiet(h)
      BY <2>a, <2>1, JobFields DEF Quiet, Validate, JobTypeOK, SettingsStep, SettingsFile
    <2>3. /\ ReadJsonObject("config")' = ReadJsonObject("config") /\ clash' = clash
          /\ ReadJsonObject("secrets")' = s
      BY DEF Validate, FilesStay, ReadJsonObject, Readable
    <2>4. BaseFresh(h)' /\ KeyGiven(h)'
      BY <2>a, <2>1, <2>3 DEF BaseFresh, KeyGiven, Based, Validate, SettingsInv
    <2>5. ProviderKnown(h)'
      <3>1. settingsJob[h].status # 200
        BY DEF Validate, SettingsInv, ProviderKnown
      <3>2. KnownIn(d)
        BY <2>0 DEF Validate, SettingsInv, ProviderKnown, KnownIn, ValidUpdate
      <3>. QED
        BY <2>a, <2>1, <3>1, <3>2 DEF ProviderKnown, Answered
    <2>6. HasLlm(u) => u.llm.provider \in Provider /\ (KeyPending(h)' \/ KeyStored(u.llm.provider)')
      BY <2>0, <2>a, <2>1, <2>3 DEF ValidUpdate, HasEffectiveLlmApiKey, KeyPending, KeyStored, Saving
    <2>7. KeyTold(h)'
      BY <2>a, <2>1, <2>6 DEF KeyTold, Answered
    <2>8. ASSUME StoreKept, \A p : LlmBacked(p) => LlmBacked(p)', WebBacked => WebBacked'
          PROVE  DocumentBacked(h)'
      <3>1. DocumentBacked(h) /\ ProviderKnown(h) /\ settingsJob[h].pc = "check"
        BY <2>8 DEF SettingsInv, Validate
      <3>2. LlmBacked(d.llm)'
        <4>1. CASE HasLlm(u)
          <5>1. d.llm = u.llm.provider
            BY <3>1, <4>1 DEF ProviderKnown
          <5>2. settingsJob'[h].req.llm.provider = d.llm /\ (KeyPending(h)' \/ KeyStored(d.llm)')
            BY <2>a, <2>1, <2>6, <4>1, <5>1
          <5>. QED
            BY <5>2 DEF LlmBacked
        <4>2. CASE ~HasLlm(u)
          BY <2>8, <3>1, <4>2 DEF DocumentBacked, Based
        <4>. QED
          BY <4>1, <4>2
      <3>3. d.web.enabled => WebBacked'
        <4>1. CASE u.web.given
          <5>1. SUFFICES ASSUME d.web.enabled, ~Env.otherWebProvider, Env.web = "unset"
                         PROVE  s.web # None \/ Env.webKey \/ (UnderWay(h)' /\ WebKey(u) # None)
            <6>1. settingsJob'[h].req = u /\ ReadJsonObject("secrets")' = s
              BY <2>a, <2>1, <2>3
            <6>. QED
              BY <6>1 DEF WebBacked
          <5>2. WebStatus(d, s, WebKey(u)) # "missing_key" /\ WebEnabled(d)
            <6>1. u.web.enabled
              BY <3>1, <4>1, <5>1 DEF DocumentBacked
            <6>2. WebStatus(d, s, WebKey(u)) # "missing_key"
              BY <2>0, <4>1, <6>1 DEF ValidUpdate
            <6>3. WebEnabled(d)
              BY <5>1 DEF WebEnabled
            <6>. QED
              BY <6>2, <6>3
          <5>. QED
            BY <2>a, <2>1, <5>2 DEF WebStatus, UnderWay
        <4>2. CASE ~u.web.given
          BY <2>8, <3>1, <4>2 DEF DocumentBacked, Based
        <4>. QED
          BY <4>1, <4>2
      <3>. QED
        BY <2>a, <2>1, <3>2, <3>3 DEF DocumentBacked
    <2>9. ~UnderWay(h)
      BY DEF Validate, UnderWay
    <2>. QED
      BY <2>2, <2>4, <2>5, <2>7, <2>8, <2>9, QuietKeeps, PendingIsUnderWay
  <1>. QED
    BY <1>1, <1>2

\* write_llm_provider_secret and write_web_search_secret read secrets.json.
LEMMA KeepsReadSecrets ==
    ASSUME NEW h \in SettingsHandler, SettingsInv, ReadSecrets(h)
    PROVE  SettingsInv'
  <1>. USE DEF JobAt
  <1>1. CASE ~Readable("secrets")
    <2>1. ~StoreKept
      BY <1>1, ConfigRead DEF StoreKept, SecretsKept
    <2>. QED
      BY <1>1, <2>1, KeepsRefusal DEF ReadSecrets
  <1>2. CASE Readable("secrets")
    <2>. PICK s : s = ReadJsonObject("secrets")
      OBVIOUS
    <2>. PICK u : u = settingsJob[h].req
      OBVIOUS
    <2>. PICK k : k = settingsJob[h].pc
      OBVIOUS
    <2>. PICK d : d = SecretsPayload(s, u, k)
      OBVIOUS
    <2>. PICK j : j = [settingsJob[h] EXCEPT !.pc = "open", !.file = "secrets", !.stale = FALSE,
                                             !.step = k, !.doc = d]
      OBVIOUS
    <2>0. k \in {"llm_key", "web_key"} /\ FilesStay /\ JobBecomes(h, j)
      BY <1>2 DEF ReadSecrets
    <2>a. /\ DOMAIN j = DOMAIN NoSettingsJob /\ j.pc = "open" /\ j.doc = d /\ j.step = k
          /\ j.req = u /\ j.status = settingsJob[h].status
          /\ j.fd = settingsJob[h].fd /\ j.file = "secrets"
      BY JobFields
    <2>1. /\ DOMAIN settingsJob' = SettingsHandler /\ settingsJob'[h] = j
          /\ \A g \in SettingsHandler \ {h} : settingsJob'[g] = settingsJob[g]
      BY <2>0, JobChanges
    <2>2. Quiet(h)
      BY <2>0, <2>a, <2>1, JobFields DEF Quiet, JobTypeOK, SettingsStep, SettingsFile
    <2>3. ReadJsonObject("secrets")' = s
      BY <2>0 DEF FilesStay, ReadJsonObject, Readable
    <2>4. BaseFresh(h)'
      BY <2>a, <2>1, <2>3 DEF BaseFresh, Based
    <2>5. KeyGiven(h)'
      BY <2>0, <2>a, <2>1 DEF SettingsInv, KeyGiven, Based
    <2>6. ProviderKnown(h)'
      BY <2>0, <2>a, <2>1 DEF SettingsInv, ProviderKnown, Based, Answered
    <2>7. KeyPending(h) => KeyPending(h)'
      BY <2>0, <2>a, <2>1 DEF KeyPending, Saving
    <2>8. SecretsKept => KeyTold(h)'
      <3>1. \A p : KeyStored(p)' <=> KeyStored(p)
        BY <2>3 DEF KeyStored
      <3>. QED
        BY <2>0, <2>a, <2>1, <2>7, <3>1 DEF SettingsInv, KeyTold, UpdateAccepted, Answered
    <2>9. DocumentBacked(h)' /\ UnderWay(h)'
      BY <2>a, <2>1 DEF DocumentBacked, Based, UnderWay
    <2>. QED
      BY <2>a, <2>1, <2>2, <2>4, <2>5, <2>6, <2>7, <2>8, <2>9, QuietKeeps
  <1>. QED
    BY <1>1, <1>2

\* The steps of a report keep the invariant when what they conclude is true.
Reporting == {"env", "keys", "profile", "summary", "provider", "sources"}

LEMMA KeepsReport ==
    ASSUME NEW h \in SettingsHandler, SettingsInv, FilesStay, settingsJob[h].pc \in Reporting,
           NEW j, JobBecomes(h, j), DOMAIN j = DOMAIN NoSettingsJob,
           j.pc \in Reporting \cup {"idle"}, j.req = settingsJob[h].req,
           j.fd = settingsJob[h].fd, j.file = settingsJob[h].file,
           j.status = 200 => j.pc = "idle",
           j.pc \in {"keys", "profile", "sources", "idle"} => j.seen \in Provider,
           j.pc \in {"summary", "provider", "sources"} => j.req.kind # "readiness",
           SecretsKept /\ j.pc \in {"profile", "idle"} /\ j.key => KeyStored(j.seen),
           SecretsKept /\ j.pc = "idle" =>
               /\ j.req.kind = "readiness" /\ j.report = "ready" => j.key
               /\ j.req.kind = "patch" /\ j.seen = j.req.llm.provider => j.key
    PROVE  SettingsInv'
  <1>. USE DEF JobAt, Reporting
  <1>0. /\ DOMAIN settingsJob' = SettingsHandler /\ settingsJob'[h] = j
        /\ \A g \in SettingsHandler \ {h} : settingsJob'[g] = settingsJob[g]
    BY JobChanges
  <1>1. Quiet(h)
    BY <1>0, JobFields DEF Quiet, JobTypeOK, SettingsStep
  <1>2. (BaseFresh(h) /\ KeyGiven(h) /\ DocumentBacked(h))'
    BY <1>0 DEF BaseFresh, KeyGiven, DocumentBacked, Based
  <1>3. ProviderKnown(h)'
    BY <1>0 DEF ProviderKnown, Based, Answered
  <1>4. \A p : KeyStored(p)' <=> KeyStored(p)
    BY DEF KeyStored, FilesStay, ReadJsonObject, Readable
  <1>5. ~UnderWay(h) /\ ~KeyPending(h)
    BY DEF UnderWay, KeyPending, Saving
  <1>6. ASSUME SecretsKept PROVE KeyTold(h)'
    <2>1. KeyTold(h)
      BY <1>6 DEF SettingsInv
    <2>2. UpdateAccepted(h)' => UpdateAccepted(h)
      BY <1>0 DEF UpdateAccepted
    <2>. QED
      BY <1>0, <1>4, <1>5, <1>6, <2>1, <2>2 DEF KeyTold, Answered
  <1>. QED
    BY <1>1, <1>2, <1>3, <1>5, <1>6, QuietKeeps

\* An effective provider is a provider (project_llm_effective_env).
LEMMA EffectiveKnown ==
    ASSUME NEW c, KnownIn(c)
    PROVE  EffectiveProvider(c) \in Provider
  BY SettingsAssumption DEF EffectiveProvider, KnownIn

\* _readiness: the stored provider, its key, the profile; and the summary.
LEMMA KeepsReading ==
    ASSUME NEW h \in SettingsHandler, SettingsInv,
           ReadEnv(h) \/ ReadKeys(h) \/ ReadProfile(h) \/ ReadSummary(h) \/ SummaryProvider(h) \/ SummaryKeys(h)
    PROVE  SettingsInv'
  <1>. USE DEF JobAt
  <1>0. /\ settingsJob[h].pc \in Reporting /\ FilesStay /\ ~UnderWay(h) /\ ~KeyPending(h)
        /\ settingsJob[h].status # 200
        /\ settingsJob[h].pc \in {"keys", "profile", "sources"} => settingsJob[h].seen \in Provider
        /\ settingsJob[h].pc \in {"summary", "provider", "sources"} => settingsJob[h].req.kind # "readiness"
    <2>1. settingsJob[h].pc \in Reporting /\ FilesStay /\ ProviderKnown(h)
      BY DEF ReadEnv, ReadKeys, ReadProfile, ReadSummary, SummaryProvider, SummaryKeys, Reporting, SettingsInv
    <2>. QED
      BY <2>1 DEF Reporting, ProviderKnown, UnderWay, KeyPending, Saving
  <1>1. CASE SettingsAnswers(h, 500)
    BY <1>0, <1>1, KeepsRefusal DEF Reporting
  <1>. PICK c : c = EffectiveProvider(ReadJsonObject("config"))
    OBVIOUS
  <1>2. c \in Provider
    BY ConfigRead, EffectiveKnown
  <1>3. CASE ReadEnv(h) /\ ~SettingsAnswers(h, 500)
    <2>. PICK j : j = [settingsJob[h] EXCEPT !.pc = "keys", !.seen = c]
      OBVIOUS
    <2>1. JobBecomes(h, j)
      BY <1>3 DEF ReadEnv
    <2>2. /\ DOMAIN j = DOMAIN NoSettingsJob /\ j.pc = "keys" /\ j.seen = c /\ j.req = settingsJob[h].req
          /\ j.fd = settingsJob[h].fd /\ j.file = settingsJob[h].file /\ j.status = settingsJob[h].status
      BY JobFields
    <2>. QED
      BY <1>0, <1>2, <2>1, <2>2, KeepsReport DEF Reporting
  <1>. PICK k : k = KeyStored(settingsJob[h].seen)
    OBVIOUS
  <1>4. CASE ReadKeys(h) /\ ~SettingsAnswers(h, 500)
    <2>. PICK j : j = [settingsJob[h] EXCEPT !.pc = "profile", !.key = k]
      OBVIOUS
    <2>1. JobBecomes(h, j) /\ settingsJob[h].pc = "keys"
      BY <1>4 DEF ReadKeys, KeyStored
    <2>2. /\ DOMAIN j = DOMAIN NoSettingsJob /\ j.pc = "profile" /\ j.seen = settingsJob[h].seen
          /\ j.key = k /\ j.req = settingsJob[h].req
          /\ j.fd = settingsJob[h].fd /\ j.file = settingsJob[h].file /\ j.status = settingsJob[h].status
      BY JobFields
    <2>. QED
      BY <1>0, <2>1, <2>2, KeepsReport DEF Reporting
  <1>5. CASE ReadProfile(h) /\ ~SettingsAnswers(h, 500)
    <2>. PICK status : status = ReadinessStatus(settingsJob[h].key, EffectiveLoggingProfile(ReadJsonObject("config")))
      OBVIOUS
    <2>0. settingsJob[h].pc = "profile"
      BY <1>5 DEF ReadProfile
    <2>1. CASE settingsJob[h].req.kind = "patch"
      <3>. PICK j : j = [settingsJob[h] EXCEPT !.pc = "summary", !.report = status]
        OBVIOUS
      <3>1. JobBecomes(h, j)
        BY <1>5, <2>1 DEF ReadProfile
      <3>2. /\ DOMAIN j = DOMAIN NoSettingsJob /\ j.pc = "summary" /\ j.req = settingsJob[h].req
            /\ j.fd = settingsJob[h].fd /\ j.file = settingsJob[h].file /\ j.status = settingsJob[h].status
        BY JobFields
      <3>. QED
        BY <1>0, <2>1, <3>1, <3>2, KeepsReport DEF Reporting
    <2>2. CASE settingsJob[h].req.kind # "patch"
      <3>. PICK helperReady \in BOOLEAN :
               JobBecomes(h, [settingsJob[h] EXCEPT !.pc = "idle", !.status = 200,
                                                    !.report = Decorated(status, helperReady)])
        BY <1>5, <2>2 DEF ReadProfile
      <3>. PICK r : r = Decorated(status, helperReady)
        OBVIOUS
      <3>. PICK j : j = [settingsJob[h] EXCEPT !.pc = "idle", !.status = 200, !.report = r]
        OBVIOUS
      <3>0. JobBecomes(h, j)
        OBVIOUS
      <3>1. r = "ready" => settingsJob[h].key
        BY DEF Decorated, ReadinessStatus
      <3>2. SecretsKept /\ settingsJob[h].key => KeyStored(settingsJob[h].seen)
        BY <2>0 DEF KeyTold, SettingsInv
      <3>3. /\ DOMAIN j = DOMAIN NoSettingsJob /\ j.pc = "idle" /\ j.req = settingsJob[h].req
            /\ j.fd = settingsJob[h].fd /\ j.file = settingsJob[h].file
            /\ j.seen = settingsJob[h].seen /\ j.key = settingsJob[h].key /\ j.report = r
        BY JobFields
      <3>4. j.seen \in Provider /\ j.pc \in Reporting \cup {"idle"}
        BY <1>0, <2>0, <3>3
      <3>5. SecretsKept /\ j.key => KeyStored(j.seen)
        BY <3>2, <3>3
      <3>6. j.req.kind # "patch" /\ (j.report = "ready" => j.key)
        BY <2>2, <3>1, <3>3
      <3>. QED
        BY <1>0, <3>0, <3>3, <3>4, <3>5, <3>6, KeepsReport
    <2>. QED
      BY <2>1, <2>2
  <1>6. CASE ReadSummary(h) /\ ~SettingsAnswers(h, 500)
    <2>. PICK j : j = [settingsJob[h] EXCEPT !.pc = "provider"]
      OBVIOUS
    <2>1. JobBecomes(h, j) /\ settingsJob[h].pc = "summary"
      BY <1>6 DEF ReadSummary, JobGoes
    <2>2. /\ DOMAIN j = DOMAIN NoSettingsJob /\ j.pc = "provider" /\ j.req = settingsJob[h].req
          /\ j.fd = settingsJob[h].fd /\ j.file = settingsJob[h].file /\ j.status = settingsJob[h].status
      BY JobFields
    <2>. QED
      BY <1>0, <2>1, <2>2, KeepsReport DEF Reporting
  <1>7. CASE SummaryProvider(h) /\ ~SettingsAnswers(h, 500)
    <2>. PICK j : j = [settingsJob[h] EXCEPT !.pc = "sources", !.seen = c]
      OBVIOUS
    <2>1. JobBecomes(h, j) /\ settingsJob[h].pc = "provider"
      BY <1>7 DEF SummaryProvider
    <2>2. /\ DOMAIN j = DOMAIN NoSettingsJob /\ j.pc = "sources" /\ j.seen = c /\ j.req = settingsJob[h].req
          /\ j.fd = settingsJob[h].fd /\ j.file = settingsJob[h].file /\ j.status = settingsJob[h].status
      BY JobFields
    <2>. QED
      BY <1>0, <1>2, <2>1, <2>2, KeepsReport DEF Reporting
  <1>8. CASE SummaryKeys(h) /\ ~SettingsAnswers(h, 500)
    <2>. PICK j : j = [settingsJob[h] EXCEPT !.pc = "idle", !.status = 200, !.key = k]
      OBVIOUS
    <2>1. JobBecomes(h, j) /\ settingsJob[h].pc = "sources"
      BY <1>8 DEF SummaryKeys, KeyStored
    <2>2. /\ DOMAIN j = DOMAIN NoSettingsJob /\ j.pc = "idle" /\ j.req = settingsJob[h].req
          /\ j.seen = settingsJob[h].seen /\ j.key = k
          /\ j.fd = settingsJob[h].fd /\ j.file = settingsJob[h].file
      BY JobFields
    <2>3. ASSUME SecretsKept, j.req.kind = "patch", j.seen = j.req.llm.provider
          PROVE  k
      <3>1. KeyTold(h) /\ UpdateAccepted(h)
        BY <2>1, <2>2, <2>3 DEF SettingsInv, UpdateAccepted
      <3>2. HasLlm(settingsJob[h].req)
        BY <1>0, <2>1, <2>2, <2>3, SettingsAssumption DEF HasLlm
      <3>. QED
        BY <1>0, <2>2, <2>3, <3>1, <3>2 DEF KeyTold
    <2>4. j.seen \in Provider /\ j.pc \in Reporting \cup {"idle"} /\ j.req.kind # "readiness"
      BY <1>0, <2>1, <2>2
    <2>5. j.key => KeyStored(j.seen)
      BY <2>2
    <2>6. SecretsKept /\ j.req.kind = "patch" /\ j.seen = j.req.llm.provider => j.key
      BY <2>2, <2>3
    <2>7. /\ settingsJob[h].pc \in Reporting /\ FilesStay /\ JobBecomes(h, j)
          /\ j.pc = "idle" /\ DOMAIN j = DOMAIN NoSettingsJob /\ j.req = settingsJob[h].req
          /\ j.fd = settingsJob[h].fd /\ j.file = settingsJob[h].file
      BY <1>0, <2>1, <2>2
    <2>. QED
      BY <2>4, <2>5, <2>6, <2>7, KeepsReport, Zenon
  <1>. QED
    BY <1>1, <1>3, <1>4, <1>5, <1>6, <1>7, <1>8

-----------------------------------------------------------------------------
(* Steps on the files.                                                     *)

\* The inodes are numbered from one, and there is one that no path and no
\* writer holds while a temporary path is empty.
LEMMA InodesNumbered ==
    /\ Cardinality(SettingsHandler) \in Nat
    /\ Inodes \subseteq Nat /\ NoInode \notin Inodes /\ 1 \in Inodes /\ 2 \in Inodes
    /\ IsFiniteSet(Inodes) /\ Cardinality(Inodes) = Cardinality(SettingsHandler) + 4
  <1>1. Cardinality(SettingsHandler) \in Nat
    BY SettingsAssumption, FS_CardinalityType
  <1>2. IsFiniteSet(Inodes) /\ Cardinality(Inodes) = Cardinality(SettingsHandler) + 4
    BY <1>1, FS_Interval DEF Inodes
  <1>. QED
    BY <1>1, <1>2 DEF Inodes, NoInode

\* One more element makes a set larger by one at most; three make three.
LEMMA OneMore ==
    ASSUME NEW S, NEW x, NEW n \in Nat, IsFiniteSet(S), Cardinality(S) <= n
    PROVE  IsFiniteSet(S \cup {x}) /\ Cardinality(S \cup {x}) <= n + 1
  <1>1. /\ IsFiniteSet(S \cup {x})
        /\ Cardinality(S \cup {x}) = IF x \in S THEN Cardinality(S) ELSE Cardinality(S) + 1
    BY FS_AddElement
  <1>2. Cardinality(S) \in Nat
    BY FS_CardinalityType
  <1>. QED
    BY <1>1, <1>2

LEMMA AtMostThree ==
    ASSUME NEW a, NEW b, NEW c
    PROVE  IsFiniteSet({a, b, c}) /\ Cardinality({a, b, c}) <= 3
  <1>1. PICK s, t : s = {a} /\ t = s \cup {b}
    OBVIOUS
  <1>2. IsFiniteSet(s) /\ Cardinality(s) <= 1
    <2>1. IsFiniteSet(s) /\ Cardinality(s) = 1
      BY <1>1, FS_Singleton, Zenon
    <2>. QED
      BY <2>1
  <1>3. IsFiniteSet(s \cup {b}) /\ Cardinality(s \cup {b}) <= 1 + 1
    BY <1>2, OneMore
  <1>4. IsFiniteSet(t \cup {c}) /\ Cardinality(t \cup {c}) <= 2 + 1
    <2>1. IsFiniteSet(t) /\ Cardinality(t) <= 2
      BY <1>1, <1>3
    <2>. QED
      BY <2>1, OneMore
  <1>5. t \cup {c} = {a, b, c}
    BY <1>1
  <1>. QED
    BY <1>4, <1>5

LEMMA InodeFree ==
    ASSUME SettingsInv, NEW f \in SettingsFile, tempPath[f] = NoInode
    PROVE  FreeInodes # {}
  <1>. DEFINE fds == {settingsJob[g].fd : g \in SettingsHandler}
              o == IF f = "config" THEN "secrets" ELSE "config"
              held == {path["config"], path["secrets"], tempPath[o]}
  <1>1. IsFiniteSet(fds) /\ Cardinality(fds) <= Cardinality(SettingsHandler)
    <2>1. [g \in SettingsHandler |-> settingsJob[g].fd] \in Surjection(SettingsHandler, fds)
      BY DEF Surjection
    <2>. QED
      BY <2>1, SettingsAssumption, FS_Surjection
  <1>2. IsFiniteSet(held) /\ Cardinality(held) \in Nat /\ Cardinality(held) <= 3
    BY AtMostThree, FS_CardinalityType
  <1>3. Cardinality(fds) \in Nat
    BY <1>1, FS_CardinalityType
  <1>4. IsFiniteSet(held \cup fds) /\ Cardinality(held \cup fds) \in Nat
        /\ Cardinality(held \cup fds) <= Cardinality(SettingsHandler) + 3
    <2>1. /\ IsFiniteSet(held \cup fds) /\ IsFiniteSet(held \cap fds)
          /\ Cardinality(held \cup fds) = Cardinality(held) + Cardinality(fds) - Cardinality(held \cap fds)
      BY <1>1, <1>2, FS_Union, FS_Intersection
    <2>2. Cardinality(held \cap fds) \in Nat /\ Cardinality(held \cup fds) \in Nat
      BY <2>1, FS_CardinalityType
    <2>. HIDE DEF held, fds
    <2>. QED
      BY <1>1, <1>2, <1>3, <2>1, <2>2, InodesNumbered
  <1>5. ~(Inodes \subseteq held \cup fds)
    <2>. HIDE DEF held, fds
    <2>1. Inodes \subseteq held \cup fds => Cardinality(Inodes) <= Cardinality(held \cup fds)
      BY <1>4, FS_Subset
    <2>. QED
      BY <1>4, <2>1, InodesNumbered
  <1>6. PICK i \in Inodes : i \notin held \cup fds
    BY <1>5
  <1>7. i # NoInode
    BY <1>6, InodesNumbered
  <1>8. \A g \in SettingsFile : i \notin {path[g], tempPath[g]}
    BY <1>6, <1>7 DEF SettingsFile
  <1>9. \A g \in SettingsHandler : settingsJob[g].fd # i
    BY <1>6
  <1>. QED
    BY <1>6, <1>8, <1>9 DEF FreeInodes

\* A step of a write that only goes on with it.
Writing(h, j) ==
    /\ settingsJob[h].pc \in Saving /\ j.pc \in Saving
    /\ j.doc = settingsJob[h].doc /\ j.req = settingsJob[h].req /\ j.status = settingsJob[h].status
    /\ j.stale = settingsJob[h].stale /\ j.file = settingsJob[h].file /\ j.step = settingsJob[h].step

LEMMA WritingKeeps ==
    ASSUME NEW h \in SettingsHandler, SettingsInv, Calm(h),
           (SettingsTypeOK /\ InodesApart /\ WriterAlone /\ ConfigInodesKnown)',
           NEW j, settingsJob'[h] = j, Writing(h, j)
    PROVE  SettingsInv'
  <1>. USE DEF JobAt, Writing, Saving
  <1>1. BaseFresh(h) /\ KeyGiven(h) /\ ProviderKnown(h) /\ (SecretsKept => KeyTold(h))
        /\ (StoreKept => DocumentBacked(h))
    BY DEF SettingsInv
  <1>2. /\ Based(h, "config")' = Based(h, "config") /\ Based(h, "secrets")' = Based(h, "secrets")
        /\ KeyPending(h)' = KeyPending(h) /\ UnderWay(h)' = UnderWay(h)
        /\ UpdateAccepted(h)' = UpdateAccepted(h)
    BY DEF Based, KeyPending, UnderWay, UpdateAccepted
  <1>3. BaseFresh(h)'
    BY <1>1, <1>2 DEF BaseFresh, Calm, SettingsFile
  <1>4. KeyGiven(h)' /\ ProviderKnown(h)'
    BY <1>1, <1>2 DEF KeyGiven, ProviderKnown, Answered
  <1>5. ASSUME SecretsKept' PROVE KeyTold(h)'
    <2>1. KeyTold(h) /\ \A p : KeyStored(p)' <=> KeyStored(p)
      BY <1>1, <1>5, CalmReads
    <2>. QED
      BY <1>2, <2>1 DEF KeyTold, Answered
  <1>6. ASSUME StoreKept', \A p : LlmBacked(p) => LlmBacked(p)', WebBacked => WebBacked'
        PROVE  DocumentBacked(h)'
    BY <1>1, <1>2, <1>6, CalmReads DEF DocumentBacked
  <1>. QED
    BY <1>2, <1>3, <1>4, <1>5, <1>6, CalmKeeps

\* The inode a write opens is its file's temporary or a free one: no path holds
\* it, the other file's writers do not have it open.
LEMMA InodeOpened ==
    ASSUME SettingsInv, NEW f \in SettingsFile, NEW i,
           i = IF tempPath[f] # NoInode THEN tempPath[f] ELSE CHOOSE j \in FreeInodes : TRUE
    PROVE  /\ i \in Inodes /\ i # NoInode
           /\ \A g \in SettingsFile : i # path[g]
           /\ \A g \in SettingsFile \ {f} : i # tempPath[g]
           /\ \A g \in SettingsHandler : settingsJob[g].pc = "fill" /\ settingsJob[g].file # f =>
                  settingsJob[g].fd # i
  <1>. USE DEF SettingsInv
  <1>1. CASE tempPath[f] # NoInode
    <2>1. i = tempPath[f]
      BY <1>1
    <2>2. i \in Inodes /\ i # NoInode
      BY <1>1, <2>1 DEF SettingsTypeOK
    <2>3. \A g \in SettingsFile : i # path[g]
      BY <2>1 DEF InodesApart
    <2>4. \A g \in SettingsFile \ {f} : i # tempPath[g]
      BY <1>1, <2>1 DEF InodesApart, SettingsFile
    <2>5. \A g \in SettingsHandler : settingsJob[g].pc = "fill" /\ settingsJob[g].file # f =>
              settingsJob[g].fd # i
      BY <2>1 DEF InodesApart, JobAt
    <2>. QED
      BY <2>2, <2>3, <2>4, <2>5
  <1>2. CASE tempPath[f] = NoInode
    <2>1. i \in FreeInodes
      BY <1>2, InodeFree
    <2>2. i \in Inodes /\ i # NoInode
      BY <2>1, InodesNumbered DEF FreeInodes
    <2>. QED
      BY <2>1, <2>2 DEF FreeInodes
  <1>. QED
    BY <1>1, <1>2

\* _write_private_json opens the temporary.
LEMMA KeepsOpens ==
    ASSUME NEW h \in SettingsHandler, SettingsInv, WriteOpens(h)
    PROVE  SettingsInv'
  <1>. USE DEF JobAt
  <1>1. PICK f \in SettingsFile : f = settingsJob[h].file
    BY JobFields
  <1>2. PICK i : i = IF tempPath[f] # NoInode THEN tempPath[f] ELSE CHOOSE j \in FreeInodes : TRUE
    OBVIOUS
  <1>3. PICK j : j = [settingsJob[h] EXCEPT !.pc = "fill", !.fd = i]
    OBVIOUS
  <1>4. /\ settingsJob[h].pc = "open" /\ JobBecomes(h, j)
        /\ inode' = [inode EXCEPT ![i] = Broken("empty")] /\ tempPath' = [tempPath EXCEPT ![f] = i]
        /\ path' = path /\ saved' = saved /\ overlap' = overlap /\ settingsStops' = settingsStops
        /\ clash' = IF \E g \in SettingsHandler \ {h} : HasOpen(g, f) THEN clash \cup {f} ELSE clash
    BY <1>1, <1>2, <1>3 DEF WriteOpens
  <1>5. /\ DOMAIN j = DOMAIN NoSettingsJob /\ j.pc = "fill" /\ j.fd = i /\ j.doc = settingsJob[h].doc
        /\ j.req = settingsJob[h].req /\ j.status = settingsJob[h].status /\ j.stale = settingsJob[h].stale
        /\ j.file = f /\ j.step = settingsJob[h].step
    BY <1>1, <1>3, JobFields
  <1>6. /\ DOMAIN settingsJob' = SettingsHandler /\ settingsJob'[h] = j
        /\ \A g \in SettingsHandler \ {h} : settingsJob'[g] = settingsJob[g]
    BY <1>4, JobChanges
  <1>7. /\ i \in Inodes /\ i # NoInode
        /\ \A g \in SettingsFile : i # path[g]
        /\ \A g \in SettingsFile \ {f} : i # tempPath[g]
        /\ \A g \in SettingsHandler : settingsJob[g].pc = "fill" /\ settingsJob[g].file # f =>
               settingsJob[g].fd # i
    BY <1>2, InodeOpened
  <1>8. /\ DOMAIN inode = Inodes /\ path \in [SettingsFile -> Inodes]
        /\ tempPath \in [SettingsFile -> Inodes \cup {NoInode}]
        /\ overlap \subseteq SettingsFile /\ clash \subseteq SettingsFile /\ settingsStops \in Nat
    BY DEF SettingsInv, SettingsTypeOK
  <1>9. /\ \A k \in Inodes : inode'[k] = IF k = i THEN Broken("empty") ELSE inode[k]
        /\ tempPath'[f] = i /\ \A g \in SettingsFile \ {f} : tempPath'[g] = tempPath[g]
        /\ clash' \subseteq clash \cup {f}
        /\ f \notin clash' => f \notin clash /\ \A g \in SettingsHandler \ {h} : ~HasOpen(g, f)
    BY <1>4, <1>8
  <1>10. \A g \in SettingsFile : inode'[path'[g]] = inode[path[g]]
    BY <1>4, <1>7, <1>8, <1>9
  <1>11. Calm(h)
    BY <1>4, <1>6, <1>10 DEF Calm, ReadJsonObject, Readable
  <1>12. SettingsTypeOK'
    <2>1. JobTypeOK(h)'
      BY <1>1, <1>5, <1>6, <1>7 DEF JobTypeOK, SettingsStep
    <2>2. \A g \in SettingsHandler \ {h} : JobTypeOK(g)'
      BY <1>6 DEF JobTypeOK, SettingsInv, SettingsTypeOK
    <2>3. DOMAIN inode' = Inodes /\ tempPath' \in [SettingsFile -> Inodes \cup {NoInode}]
      BY <1>4, <1>7, <1>8
    <2>. QED
      BY <1>4, <1>6, <1>8, <1>9, <2>1, <2>2, <2>3 DEF SettingsTypeOK
  <1>13. InodesApart'
    <2>1. path'["config"] # path'["secrets"] /\ \A k, g \in SettingsFile : tempPath'[k] # path'[g]
      BY <1>4, <1>7, <1>9 DEF SettingsInv, InodesApart
    <2>2. tempPath'["config"] # tempPath'["secrets"]
      BY <1>7, <1>9 DEF SettingsFile
    <2>3. ASSUME NEW g \in SettingsHandler, settingsJob'[g].pc = "fill",
                 NEW k \in SettingsFile \ {settingsJob'[g].file}
          PROVE  settingsJob'[g].fd \notin {path'[k], tempPath'[k]}
      <3>1. CASE g = h
        BY <1>4, <1>5, <1>6, <1>7, <1>9, <2>3, <3>1
      <3>2. CASE g # h
        <4>1. settingsJob'[g] = settingsJob[g] /\ settingsJob[g].fd \notin {path[k], tempPath[k]}
          BY <1>6, <2>3, <3>2 DEF SettingsInv, InodesApart
        <4>2. k = f => settingsJob[g].fd # i
          BY <1>7, <2>3, <4>1
        <4>. QED
          BY <1>4, <1>9, <4>1, <4>2
      <3>. QED
        BY <3>1, <3>2
    <2>4. ASSUME NEW g \in SettingsHandler, NEW k \in SettingsHandler,
                 settingsJob'[g].pc = "fill", settingsJob'[k].pc = "fill",
                 settingsJob'[g].file # settingsJob'[k].file
          PROVE  settingsJob'[g].fd # settingsJob'[k].fd
      <3>1. CASE g = h /\ k # h
        BY <1>5, <1>6, <1>7, <2>4, <3>1
      <3>2. CASE g # h /\ k = h
        BY <1>5, <1>6, <1>7, <2>4, <3>2
      <3>3. CASE g # h /\ k # h
        BY <1>6, <2>4, <3>3 DEF SettingsInv, InodesApart
      <3>. QED
        BY <2>4, <3>1, <3>2, <3>3
    <2>. QED
      BY <2>1, <2>2, <2>3, <2>4 DEF InodesApart
  <1>14. WriterAlone'
    <2>1. ASSUME NEW k \in SettingsFile \ clash'
          PROVE  /\ inode'[path'[k]].state = "whole"
                 /\ \A g, n \in SettingsHandler : HasOpen(g, k)' /\ HasOpen(n, k)' => g = n
                 /\ \A g \in SettingsHandler : HasOpen(g, k)' =>
                      /\ tempPath'[k] # NoInode
                      /\ settingsJob'[g].pc = "fill" => /\ settingsJob'[g].fd = tempPath'[k]
                                                        /\ inode'[tempPath'[k]].state = "empty"
                      /\ settingsJob'[g].pc = "move" => inode'[tempPath'[k]] = Whole(settingsJob'[g].doc)
      <3>0. k \notin clash /\ inode'[path'[k]].state = "whole"
        BY <1>4, <1>10, <2>1 DEF SettingsInv, WriterAlone
      <3>1. CASE k = f
        <4>1. \A g \in SettingsHandler \ {h} : ~HasOpen(g, k)'
          BY <1>6, <1>9, <2>1, <3>1 DEF HasOpen
        <4>2. inode'[i].state = "empty"
          BY <1>7, <1>9 DEF Broken
        <4>. QED
          BY <1>5, <1>6, <1>7, <1>9, <3>0, <3>1, <4>1, <4>2
      <3>2. CASE k # f
        <4>1. \A g \in SettingsHandler : HasOpen(g, k)' => g # h /\ HasOpen(g, k) /\ settingsJob'[g] = settingsJob[g]
          BY <1>5, <1>6, <3>2 DEF HasOpen
        <4>2. tempPath'[k] = tempPath[k] /\ tempPath[k] # i
          BY <1>7, <1>9, <3>2
        <4>3. tempPath[k] # NoInode => inode'[tempPath'[k]] = inode[tempPath[k]]
          BY <1>8, <1>9, <4>2
        <4>4. /\ \A g, n \in SettingsHandler : HasOpen(g, k) /\ HasOpen(n, k) => g = n
              /\ \A g \in SettingsHandler : HasOpen(g, k) =>
                   /\ tempPath[k] # NoInode
                   /\ settingsJob[g].pc = "fill" => /\ settingsJob[g].fd = tempPath[k]
                                                    /\ inode[tempPath[k]].state = "empty"
                   /\ settingsJob[g].pc = "move" => inode[tempPath[k]] = Whole(settingsJob[g].doc)
          BY <3>0 DEF SettingsInv, WriterAlone
        <4>. QED
          BY <3>0, <4>1, <4>2, <4>3, <4>4
      <3>. QED
        BY <3>1, <3>2
    <2>. QED
      BY <2>1 DEF WriterAlone
  <1>15. ConfigInodesKnown'
    <2>1. ASSUME NEW k \in Inodes, KnownIn(inode[k].doc) PROVE KnownIn(inode'[k].doc)
      BY <1>9, <2>1 DEF KnownIn, Broken, NoDocument
    <2>2. KnownIn(inode'[i].doc)
      BY <1>7, <1>9 DEF KnownIn, Broken, NoDocument
    <2>3. KnownIn(inode'[path'["config"]].doc)
      BY <1>4, <1>8, <2>1 DEF SettingsInv, ConfigInodesKnown, SettingsFile
    <2>4. ASSUME tempPath'["config"] # NoInode PROVE KnownIn(inode'[tempPath'["config"]].doc)
      <3>1. CASE f = "config"
        BY <1>9, <2>2, <3>1
      <3>2. CASE f # "config"
        <4>1. tempPath'["config"] = tempPath["config"] /\ tempPath["config"] \in Inodes
          BY <1>8, <1>9, <2>4, <3>2 DEF SettingsFile
        <4>. QED
          BY <2>1, <2>4, <4>1 DEF SettingsInv, ConfigInodesKnown
      <3>. QED
        BY <3>1, <3>2
    <2>5. ASSUME NEW g \in SettingsHandler, settingsJob'[g].pc = "fill", settingsJob'[g].file = "config"
          PROVE  KnownIn(inode'[settingsJob'[g].fd].doc)
      <3>1. CASE g = h
        BY <1>5, <1>6, <2>2, <3>1
      <3>2. CASE g # h
        <4>1. settingsJob'[g] = settingsJob[g] /\ settingsJob[g].fd \in Inodes
              /\ KnownIn(inode[settingsJob[g].fd].doc)
          BY <1>6, <2>5, <3>2, JobFields DEF SettingsInv, ConfigInodesKnown
        <4>. QED
          BY <2>1, <4>1
      <3>. QED
        BY <3>1, <3>2
    <2>. QED
      BY <2>3, <2>4, <2>5 DEF ConfigInodesKnown
  <1>16. Writing(h, j)
    BY <1>1, <1>4, <1>5 DEF Writing, Saving
  <1>17. clash \subseteq clash'
    BY <1>4
  <1>. QED
    BY <1>6, <1>11, <1>12, <1>13, <1>14, <1>15, <1>16, WritingKeeps

\* A write that fails, or finds its temporary moved away, leaves the files and
\* ends its request; the key it had to write may be lost from then on.
LEMMA KeepsAbort ==
    ASSUME NEW h \in SettingsHandler, SettingsInv, NEW j, JobBecomes(h, j),
           UNCHANGED <<inode, path, tempPath, saved, overlap, clash>>,
           settingsStops' \in Nat, settingsStops' = 0 => settingsStops = 0, ~StoreKept',
           DOMAIN j = DOMAIN NoSettingsJob, j.pc = "idle", j.status # 200, j.fd = NoInode,
           j.file = settingsJob[h].file
    PROVE  SettingsInv'
  <1>. USE DEF JobAt
  <1>1. /\ DOMAIN settingsJob' = SettingsHandler /\ settingsJob'[h] = j
        /\ \A g \in SettingsHandler \ {h} : settingsJob'[g] = settingsJob[g]
    BY JobChanges
  <1>2. Calm(h)
    BY <1>1 DEF Calm, ReadJsonObject, Readable
  <1>3. SettingsTypeOK'
    <2>1. JobTypeOK(h)'
      BY <1>1, JobFields DEF JobTypeOK, SettingsStep
    <2>2. \A g \in SettingsHandler \ {h} : JobTypeOK(g)'
      BY <1>1 DEF JobTypeOK, SettingsInv, SettingsTypeOK
    <2>. QED
      BY <1>1, <2>1, <2>2 DEF SettingsInv, SettingsTypeOK
  <1>4. \A g \in SettingsHandler : settingsJob'[g].pc \in {"fill", "move"} => settingsJob'[g] = settingsJob[g]
    BY <1>1
  <1>5. InodesApart'
    BY <1>4 DEF SettingsInv, InodesApart
  <1>6. WriterAlone'
    BY <1>4 DEF SettingsInv, WriterAlone, HasOpen
  <1>7. ConfigInodesKnown'
    BY <1>4 DEF SettingsInv, ConfigInodesKnown
  <1>8. (BaseFresh(h) /\ KeyGiven(h) /\ ProviderKnown(h))' /\ KeyTold(h)'
    BY <1>1 DEF BaseFresh, KeyGiven, ProviderKnown, KeyTold, Based, UpdateAccepted, Answered, Saving
  <1>. QED
    BY <1>2, <1>3, <1>5, <1>6, <1>7, <1>8, CalmKeeps

\* A full disk or an unwritable directory.
LEMMA KeepsFails ==
    ASSUME NEW h \in SettingsHandler, SettingsInv, WriteFails(h)
    PROVE  SettingsInv'
  <1>1. PICK j : j = [settingsJob[h] EXCEPT !.pc = "idle", !.status = 500, !.fd = NoInode]
    OBVIOUS
  <1>2. /\ JobBecomes(h, j) /\ UNCHANGED <<inode, path, tempPath, saved, overlap, clash>>
        /\ settingsStops' = settingsStops + 1
    BY <1>1 DEF WriteFails
  <1>3. /\ DOMAIN j = DOMAIN NoSettingsJob /\ j.pc = "idle" /\ j.status = 500 /\ j.fd = NoInode
        /\ j.file = settingsJob[h].file
    BY <1>1, JobFields
  <1>4. settingsStops' \in Nat /\ settingsStops' # 0
    BY <1>2 DEF SettingsInv, SettingsTypeOK
  <1>5. ~StoreKept'
    BY <1>4 DEF StoreKept
  <1>. QED
    BY <1>2, <1>3, <1>4, <1>5, KeepsAbort

\* _write_private_json writes the text into what it opened.
LEMMA KeepsFills ==
    ASSUME NEW h \in SettingsHandler, SettingsInv, WriteFills(h)
    PROVE  SettingsInv'
  <1>. USE DEF JobAt
  <1>1. PICK f \in SettingsFile : f = settingsJob[h].file
    BY JobFields
  <1>2. PICK d : d = settingsJob[h].fd
    OBVIOUS
  <1>3. PICK j : j = [settingsJob[h] EXCEPT !.pc = "move", !.fd = NoInode]
    OBVIOUS
  <1>0. PICK content \in {Whole(settingsJob[h].doc)} \cup
                             (IF inode[d].state = "empty" THEN {} ELSE {Broken("torn")}) :
            inode' = [inode EXCEPT ![d] = content]
    BY <1>2 DEF WriteFills
  <1>4. /\ settingsJob[h].pc = "fill" /\ JobBecomes(h, j)
        /\ path' = path /\ tempPath' = tempPath /\ saved' = saved /\ overlap' = overlap
        /\ settingsStops' = settingsStops /\ clash' = clash
    BY <1>3 DEF WriteFills
  <1>5. /\ DOMAIN j = DOMAIN NoSettingsJob /\ j.pc = "move" /\ j.fd = NoInode /\ j.doc = settingsJob[h].doc
        /\ j.req = settingsJob[h].req /\ j.status = settingsJob[h].status /\ j.stale = settingsJob[h].stale
        /\ j.file = f /\ j.step = settingsJob[h].step
    BY <1>1, <1>3, JobFields
  <1>6. /\ DOMAIN settingsJob' = SettingsHandler /\ settingsJob'[h] = j
        /\ \A g \in SettingsHandler \ {h} : settingsJob'[g] = settingsJob[g]
    BY <1>4, JobChanges
  <1>8. /\ DOMAIN inode = Inodes /\ path \in [SettingsFile -> Inodes]
        /\ tempPath \in [SettingsFile -> Inodes \cup {NoInode}]
        /\ overlap \subseteq SettingsFile /\ clash \subseteq SettingsFile /\ settingsStops \in Nat
    BY DEF SettingsInv, SettingsTypeOK
  <1>7. /\ d \in Inodes /\ d # NoInode
        /\ \A g \in SettingsFile \ {f} : d # path[g] /\ d # tempPath[g]
        /\ f \notin clash => d = tempPath[f] /\ inode[d].state = "empty" /\ d # path[f]
        /\ \A g \in SettingsHandler : settingsJob[g].pc = "fill" /\ settingsJob[g].file # f =>
               settingsJob[g].fd # d
    <2>1. d \in Inodes /\ d # NoInode
      BY <1>2, <1>4, JobFields
    <2>2. \A g \in SettingsFile \ {f} : d # path[g] /\ d # tempPath[g]
      BY <1>1, <1>2, <1>4 DEF SettingsInv, InodesApart
    <2>3. f \notin clash => d = tempPath[f] /\ inode[d].state = "empty" /\ d # path[f]
      BY <1>1, <1>2, <1>4 DEF SettingsInv, WriterAlone, InodesApart, HasOpen
    <2>4. \A g \in SettingsHandler : settingsJob[g].pc = "fill" /\ settingsJob[g].file # f =>
              settingsJob[g].fd # d
      BY <1>1, <1>2, <1>4 DEF SettingsInv, InodesApart
    <2>. QED
      BY <2>1, <2>2, <2>3, <2>4
  <1>9. \A k \in Inodes : inode'[k] = IF k = d THEN content ELSE inode[k]
    BY <1>0, <1>8
  <1>10. \A g \in SettingsFile \ clash : inode'[path'[g]] = inode[path[g]]
    BY <1>4, <1>7, <1>8, <1>9
  <1>11. Calm(h)
    BY <1>4, <1>6, <1>10 DEF Calm, ReadJsonObject, Readable
  <1>12. SettingsTypeOK'
    <2>1. JobTypeOK(h)'
      BY <1>1, <1>5, <1>6 DEF JobTypeOK, SettingsStep
    <2>2. \A g \in SettingsHandler \ {h} : JobTypeOK(g)'
      BY <1>6 DEF JobTypeOK, SettingsInv, SettingsTypeOK
    <2>3. DOMAIN inode' = Inodes
      BY <1>0, <1>8
    <2>. QED
      BY <1>4, <1>6, <1>8, <2>1, <2>2, <2>3 DEF SettingsTypeOK
  <1>13. InodesApart'
    <2>1. \A g \in SettingsHandler : settingsJob'[g].pc = "fill" => settingsJob'[g] = settingsJob[g]
      BY <1>5, <1>6
    <2>. QED
      BY <1>4, <2>1 DEF SettingsInv, InodesApart
  <1>14. WriterAlone'
    <2>1. ASSUME NEW k \in SettingsFile \ clash
          PROVE  /\ inode'[path'[k]].state = "whole"
                 /\ \A g, n \in SettingsHandler : HasOpen(g, k)' /\ HasOpen(n, k)' => g = n
                 /\ \A g \in SettingsHandler : HasOpen(g, k)' =>
                      /\ tempPath'[k] # NoInode
                      /\ settingsJob'[g].pc = "fill" => /\ settingsJob'[g].fd = tempPath'[k]
                                                        /\ inode'[tempPath'[k]].state = "empty"
                      /\ settingsJob'[g].pc = "move" => inode'[tempPath'[k]] = Whole(settingsJob'[g].doc)
      <3>0. /\ inode'[path'[k]].state = "whole"
            /\ \A g, n \in SettingsHandler : HasOpen(g, k) /\ HasOpen(n, k) => g = n
            /\ \A g \in SettingsHandler : HasOpen(g, k) =>
                 /\ tempPath[k] # NoInode
                 /\ settingsJob[g].pc = "fill" => /\ settingsJob[g].fd = tempPath[k]
                                                  /\ inode[tempPath[k]].state = "empty"
                 /\ settingsJob[g].pc = "move" => inode[tempPath[k]] = Whole(settingsJob[g].doc)
        BY <1>4, <1>10, <2>1 DEF SettingsInv, WriterAlone
      <3>1. \A g \in SettingsHandler : HasOpen(g, k)' <=> HasOpen(g, k)
        BY <1>1, <1>4, <1>5, <1>6 DEF HasOpen
      <3>2. CASE k = f
        <4>1. HasOpen(h, k)
          BY <1>1, <1>4, <3>2 DEF HasOpen
        <4>2. \A g \in SettingsHandler : HasOpen(g, k)' => g = h
          BY <3>0, <3>1, <4>1
        <4>3. inode'[tempPath'[k]] = Whole(settingsJob'[h].doc)
          BY <1>0, <1>4, <1>5, <1>6, <1>7, <1>9, <2>1, <3>2
        <4>. QED
          BY <1>4, <1>5, <1>6, <3>0, <3>1, <4>1, <4>2, <4>3
      <3>3. CASE k # f
        <4>1. \A g \in SettingsHandler : HasOpen(g, k) => settingsJob'[g] = settingsJob[g]
          BY <1>1, <1>6, <3>3 DEF HasOpen
        <4>2. tempPath[k] # NoInode => inode'[tempPath'[k]] = inode[tempPath[k]]
          BY <1>4, <1>7, <1>8, <1>9, <3>3
        <4>. QED
          BY <1>4, <3>0, <3>1, <4>1, <4>2
      <3>. QED
        BY <3>2, <3>3
    <2>. QED
      BY <1>4, <2>1 DEF WriterAlone
  <1>15. ConfigInodesKnown'
    <2>1. f = "config" => KnownIn(content.doc)
      <3>1. f = "config" => KnownIn(settingsJob[h].doc)
        BY <1>1, <1>4 DEF SettingsInv, ProviderKnown, Based
      <3>. QED
        BY <1>0, <3>1 DEF KnownIn, Broken, NoDocument, Whole
    <2>2. \A k \in Inodes : KnownIn(inode[k].doc) /\ (f = "config" \/ k # d) => KnownIn(inode'[k].doc)
      BY <1>9, <2>1
    <2>3. KnownIn(inode'[path'["config"]].doc)
      BY <1>4, <1>7, <1>8, <2>2 DEF SettingsInv, ConfigInodesKnown, SettingsFile
    <2>4. ASSUME tempPath'["config"] # NoInode PROVE KnownIn(inode'[tempPath'["config"]].doc)
      BY <1>4, <1>7, <1>8, <2>2, <2>4 DEF SettingsInv, ConfigInodesKnown, SettingsFile
    <2>5. ASSUME NEW g \in SettingsHandler, settingsJob'[g].pc = "fill", settingsJob'[g].file = "config"
          PROVE  KnownIn(inode'[settingsJob'[g].fd].doc)
      <3>1. settingsJob'[g] = settingsJob[g]
        BY <1>5, <1>6, <2>5
      <3>2. settingsJob[g].fd \in Inodes /\ KnownIn(inode[settingsJob[g].fd].doc)
        BY <2>5, <3>1, JobFields DEF SettingsInv, ConfigInodesKnown
      <3>3. f = "config" \/ settingsJob[g].fd # d
        BY <1>1, <1>7, <2>5, <3>1
      <3>. QED
        BY <2>2, <3>1, <3>2, <3>3
    <2>. QED
      BY <2>3, <2>4, <2>5 DEF ConfigInodesKnown
  <1>16. Writing(h, j)
    BY <1>1, <1>4, <1>5 DEF Writing, Saving
  <1>. QED
    BY <1>6, <1>11, <1>12, <1>13, <1>14, <1>15, <1>16, WritingKeeps

\* What the move of thread h makes of the files, and of what is known of them.
Moved(h, f) ==
    /\ settingsJob[h].pc = "move" /\ settingsJob[h].file = f /\ tempPath[f] # NoInode
    /\ path' = [path EXCEPT ![f] = tempPath[f]] /\ tempPath' = [tempPath EXCEPT ![f] = NoInode]
    /\ settingsJob' = [g \in SettingsHandler |->
           IF g = h THEN [settingsJob[h] EXCEPT !.pc = AfterWrite(h)]
           ELSE IF Based(g, f) THEN [settingsJob[g] EXCEPT !.stale = TRUE] ELSE settingsJob[g]]
    /\ saved' = Saves(h)
    /\ overlap' = (IF settingsJob[h].stale THEN overlap \cup {f} ELSE overlap)
    /\ UNCHANGED <<inode, clash, settingsStops>>

\* The other file reads as before; the moved one reads as the document that was
\* written, when no other writer had it open.
LEMMA MoveReads ==
    ASSUME NEW h \in SettingsHandler, SettingsInv, NEW f \in SettingsFile, Moved(h, f)
    PROVE  /\ \A g \in SettingsFile \ {f} : ReadJsonObject(g)' = ReadJsonObject(g)
           /\ f \notin clash => /\ inode[tempPath[f]] = Whole(settingsJob[h].doc)
                                /\ ReadJsonObject(f)' = settingsJob[h].doc
           /\ tempPath[f] \in Inodes
           /\ path'[f] = tempPath[f] /\ tempPath'[f] = NoInode
           /\ \A g \in SettingsFile \ {f} : path'[g] = path[g] /\ tempPath'[g] = tempPath[g]
  <1>1. path \in [SettingsFile -> Inodes] /\ tempPath \in [SettingsFile -> Inodes \cup {NoInode}]
    BY DEF SettingsInv, SettingsTypeOK
  <1>2. /\ path'[f] = tempPath[f] /\ tempPath'[f] = NoInode /\ tempPath[f] \in Inodes
        /\ \A g \in SettingsFile \ {f} : path'[g] = path[g] /\ tempPath'[g] = tempPath[g]
    BY <1>1 DEF Moved
  <1>3. \A g \in SettingsFile \ {f} : ReadJsonObject(g)' = ReadJsonObject(g)
    BY <1>2 DEF Moved, ReadJsonObject, Readable
  <1>4. ASSUME f \notin clash
        PROVE  inode[tempPath[f]] = Whole(settingsJob[h].doc) /\ ReadJsonObject(f)' = settingsJob[h].doc
    <2>1. inode[tempPath[f]] = Whole(settingsJob[h].doc)
      BY <1>4 DEF Moved, SettingsInv, WriterAlone, HasOpen, JobAt
    <2>2. inode'[path'[f]] = Whole(settingsJob[h].doc)
      BY <1>2, <2>1 DEF Moved
    <2>. QED
      BY <2>1, <2>2 DEF ReadJsonObject, Readable, Whole
  <1>. QED
    BY <1>2, <1>3, <1>4

\* What the move does to the threads' records.
LEMMA MoveJobs ==
    ASSUME NEW h \in SettingsHandler, SettingsInv, NEW f \in SettingsFile, Moved(h, f)
    PROVE  /\ DOMAIN settingsJob' = SettingsHandler
           /\ DOMAIN settingsJob'[h] = DOMAIN NoSettingsJob
           /\ settingsJob'[h].pc = AfterWrite(h) /\ settingsJob'[h].req = settingsJob[h].req
           /\ settingsJob'[h].status = settingsJob[h].status /\ settingsJob'[h].status # 200
           /\ settingsJob'[h].fd = settingsJob[h].fd /\ settingsJob'[h].file = f
           /\ \A g \in SettingsHandler \ {h} :
                /\ DOMAIN settingsJob'[g] = DOMAIN NoSettingsJob
                /\ settingsJob'[g].pc = settingsJob[g].pc /\ settingsJob'[g].req = settingsJob[g].req
                /\ settingsJob'[g].status = settingsJob[g].status /\ settingsJob'[g].fd = settingsJob[g].fd
                /\ settingsJob'[g].file = settingsJob[g].file /\ settingsJob'[g].doc = settingsJob[g].doc
                /\ settingsJob'[g].step = settingsJob[g].step /\ settingsJob'[g].seen = settingsJob[g].seen
                /\ settingsJob'[g].key = settingsJob[g].key /\ settingsJob'[g].report = settingsJob[g].report
                /\ ~settingsJob'[g].stale => ~settingsJob[g].stale /\ ~Based(g, f)
           /\ AfterWrite(h) \in {"llm_key", "web_key", "env"}
  <1>1. AfterWrite(h) \in {"llm_key", "web_key", "env"}
    BY DEF AfterWrite
  <1>2. PICK a : a = AfterWrite(h)
    OBVIOUS
  <1>3. DOMAIN settingsJob' = SettingsHandler /\ settingsJob'[h] = [settingsJob[h] EXCEPT !.pc = a]
    BY <1>2 DEF Moved
  <1>4. settingsJob[h].status # 200
    BY DEF Moved, SettingsInv, ProviderKnown, JobAt
  <1>5. /\ DOMAIN settingsJob'[h] = DOMAIN NoSettingsJob
        /\ settingsJob'[h].pc = a /\ settingsJob'[h].req = settingsJob[h].req
        /\ settingsJob'[h].status = settingsJob[h].status
        /\ settingsJob'[h].fd = settingsJob[h].fd /\ settingsJob'[h].file = f
    BY <1>3, JobFields DEF Moved
  <1>6. ASSUME NEW g \in SettingsHandler \ {h}
        PROVE  /\ DOMAIN settingsJob'[g] = DOMAIN NoSettingsJob
               /\ settingsJob'[g].pc = settingsJob[g].pc /\ settingsJob'[g].req = settingsJob[g].req
               /\ settingsJob'[g].status = settingsJob[g].status /\ settingsJob'[g].fd = settingsJob[g].fd
               /\ settingsJob'[g].file = settingsJob[g].file /\ settingsJob'[g].doc = settingsJob[g].doc
               /\ settingsJob'[g].step = settingsJob[g].step /\ settingsJob'[g].seen = settingsJob[g].seen
               /\ settingsJob'[g].key = settingsJob[g].key /\ settingsJob'[g].report = settingsJob[g].report
               /\ ~settingsJob'[g].stale => ~settingsJob[g].stale /\ ~Based(g, f)
    <2>1. CASE Based(g, f)
      <3>1. settingsJob'[g] = [settingsJob[g] EXCEPT !.stale = TRUE]
        BY <2>1 DEF Moved
      <3>. QED
        BY <3>1, JobFields
    <2>2. CASE ~Based(g, f)
      <3>1. settingsJob'[g] = settingsJob[g]
        BY <2>2 DEF Moved
      <3>. QED
        BY <2>2, <3>1, JobFields
    <2>. QED
      BY <2>1, <2>2
  <1>. QED
    BY <1>1, <1>2, <1>3, <1>4, <1>5, <1>6

\* The files and their writers after a move.
LEMMA MoveKeepsFiles ==
    ASSUME NEW h \in SettingsHandler, SettingsInv, NEW f \in SettingsFile, Moved(h, f)
    PROVE  (SettingsTypeOK /\ InodesApart /\ WriterAlone /\ ConfigInodesKnown)'
  <1>. USE DEF JobAt
  <1>0. /\ settingsJob[h].pc = "move" /\ tempPath[f] # NoInode /\ inode' = inode /\ clash' = clash
        /\ settingsStops' = settingsStops /\ settingsJob[h].file = f
    BY DEF Moved
  <1>1. SettingsTypeOK'
    <2>1. JobTypeOK(h)'
      BY <1>0, MoveJobs, JobFields DEF JobTypeOK, SettingsStep
    <2>2. ASSUME NEW g \in SettingsHandler \ {h} PROVE JobTypeOK(g)'
      BY MoveJobs, JobFields DEF JobTypeOK
    <2>3. path' \in [SettingsFile -> Inodes] /\ tempPath' \in [SettingsFile -> Inodes \cup {NoInode}]
      <3>1. path \in [SettingsFile -> Inodes] /\ tempPath \in [SettingsFile -> Inodes \cup {NoInode}]
        BY DEF SettingsInv, SettingsTypeOK
      <3>2. tempPath[f] \in Inodes
        BY MoveReads
      <3>. QED
        BY <3>1, <3>2 DEF Moved
    <2>4. overlap' \subseteq SettingsFile
      BY DEF Moved, SettingsInv, SettingsTypeOK
    <2>. QED
      BY <1>0, <2>1, <2>2, <2>3, <2>4, MoveJobs DEF SettingsInv, SettingsTypeOK
  <1>2. \A g \in SettingsHandler : settingsJob'[g].pc \in {"fill", "move"} =>
            /\ g # h /\ settingsJob'[g].pc = settingsJob[g].pc /\ settingsJob'[g].file = settingsJob[g].file
            /\ settingsJob'[g].fd = settingsJob[g].fd /\ settingsJob'[g].doc = settingsJob[g].doc
    BY MoveJobs
  <1>3. InodesApart'
    <2>1. path'["config"] # path'["secrets"]
      BY MoveReads DEF SettingsInv, InodesApart, SettingsFile
    <2>2. ASSUME NEW k \in SettingsFile, NEW g \in SettingsFile PROVE tempPath'[k] # path'[g]
      <3>1. path[g] # NoInode /\ tempPath[k] # path[g]
        BY InodesNumbered DEF SettingsInv, SettingsTypeOK, InodesApart
      <3>2. k # f /\ g = f => tempPath[k] # tempPath[f]
        BY <1>0 DEF SettingsInv, InodesApart, SettingsFile
      <3>. QED
        BY <1>0, <3>1, <3>2, MoveReads
    <2>3. tempPath'["config"] = tempPath'["secrets"] => tempPath'["config"] = NoInode
      BY MoveReads DEF SettingsFile
    <2>4. ASSUME NEW g \in SettingsHandler, settingsJob'[g].pc = "fill",
                 NEW k \in SettingsFile \ {settingsJob'[g].file}
          PROVE  settingsJob'[g].fd \notin {path'[k], tempPath'[k]}
      <3>1. settingsJob[g].fd \notin {path[k], tempPath[k]} /\ settingsJob[g].fd # NoInode
        BY <1>2, <2>4, JobFields DEF SettingsInv, InodesApart
      <3>. QED
        BY <1>2, <2>4, <3>1, MoveReads
    <2>5. ASSUME NEW g \in SettingsHandler, NEW k \in SettingsHandler,
                 settingsJob'[g].pc = "fill", settingsJob'[k].pc = "fill",
                 settingsJob'[g].file # settingsJob'[k].file
          PROVE  settingsJob'[g].fd # settingsJob'[k].fd
      BY <1>2, <2>5 DEF SettingsInv, InodesApart
    <2>. QED
      BY <2>1, <2>2, <2>3, <2>4, <2>5 DEF InodesApart
  <1>4. WriterAlone'
    <2>1. ASSUME NEW k \in SettingsFile \ clash
          PROVE  /\ inode'[path'[k]].state = "whole"
                 /\ \A g, n \in SettingsHandler : HasOpen(g, k)' /\ HasOpen(n, k)' => g = n
                 /\ \A g \in SettingsHandler : HasOpen(g, k)' =>
                      /\ tempPath'[k] # NoInode
                      /\ settingsJob'[g].pc = "fill" => /\ settingsJob'[g].fd = tempPath'[k]
                                                        /\ inode'[tempPath'[k]].state = "empty"
                      /\ settingsJob'[g].pc = "move" => inode'[tempPath'[k]] = Whole(settingsJob'[g].doc)
      <3>0. /\ inode[path[k]].state = "whole"
            /\ \A g, n \in SettingsHandler : HasOpen(g, k) /\ HasOpen(n, k) => g = n
            /\ \A g \in SettingsHandler : HasOpen(g, k) =>
                 /\ tempPath[k] # NoInode
                 /\ settingsJob[g].pc = "fill" => /\ settingsJob[g].fd = tempPath[k]
                                                  /\ inode[tempPath[k]].state = "empty"
                 /\ settingsJob[g].pc = "move" => inode[tempPath[k]] = Whole(settingsJob[g].doc)
        BY <2>1 DEF SettingsInv, WriterAlone
      <3>1. \A g \in SettingsHandler : HasOpen(g, k)' => HasOpen(g, k) /\ g # h
        BY <1>2 DEF HasOpen
      <3>2. CASE k = f
        <4>1. HasOpen(h, k)
          BY <1>0, <3>2 DEF HasOpen
        <4>2. \A g \in SettingsHandler : ~HasOpen(g, k)'
          BY <3>0, <3>1, <4>1
        <4>3. inode'[path'[k]].state = "whole"
          <5>1. inode[tempPath[f]] = Whole(settingsJob[h].doc) /\ path'[f] = tempPath[f]
            BY <2>1, <3>2, MoveReads
          <5>. QED
            BY <1>0, <3>2, <5>1 DEF Whole
        <4>. QED
          BY <4>2, <4>3
      <3>3. CASE k # f
        <4>1. path'[k] = path[k] /\ tempPath'[k] = tempPath[k]
          BY <3>3, MoveReads
        <4>2. \A g \in SettingsHandler : HasOpen(g, k)' =>
                /\ settingsJob'[g].pc = settingsJob[g].pc
                /\ settingsJob'[g].fd = settingsJob[g].fd /\ settingsJob'[g].doc = settingsJob[g].doc
          BY <1>2 DEF HasOpen
        <4>. QED
          BY <1>0, <3>0, <3>1, <4>1, <4>2
      <3>. QED
        BY <3>2, <3>3
    <2>. QED
      BY <1>0, <2>1 DEF WriterAlone
  <1>5. ConfigInodesKnown'
    <2>1. KnownIn(inode'[path'["config"]].doc)
      BY <1>0, MoveReads DEF SettingsInv, ConfigInodesKnown, SettingsFile
    <2>2. tempPath'["config"] # NoInode => KnownIn(inode'[tempPath'["config"]].doc)
      BY <1>0, MoveReads DEF SettingsInv, ConfigInodesKnown, SettingsFile
    <2>3. \A g \in SettingsHandler : settingsJob'[g].pc = "fill" /\ settingsJob'[g].file = "config" =>
              KnownIn(inode'[settingsJob'[g].fd].doc)
      BY <1>0, <1>2 DEF SettingsInv, ConfigInodesKnown
    <2>. QED
      BY <2>1, <2>2, <2>3 DEF ConfigInodesKnown
  <1>. QED
    BY <1>1, <1>3, <1>4, <1>5

\* What secrets.json reads as after a move that overlapped no other: the key
\* the move was for is there, and no other went away.
LEMMA MoveSecrets ==
    ASSUME NEW h \in SettingsHandler, SettingsInv, NEW f \in SettingsFile, Moved(h, f), SecretsKept',
           NEW u, u = settingsJob[h].req, NEW s, s = ReadJsonObject("secrets"),
           NEW t, t = ReadJsonObject("secrets")'
    PROVE  /\ SecretsKept
           /\ f = "config" => t = s
           /\ f = "secrets" /\ settingsJob[h].step = "llm_key" =>
                /\ LlmKey(u) # None /\ t.web = s.web
                /\ \A q \in Provider : ReadLlmProviderSecret(t, q) =
                       IF q = u.llm.provider THEN u.llm.key ELSE ReadLlmProviderSecret(s, q)
           /\ f = "secrets" /\ settingsJob[h].step # "llm_key" =>
                /\ settingsJob[h].step = "web_key" /\ WebKey(u) # None /\ t.web = u.web.key
                /\ \A q \in Provider : ReadLlmProviderSecret(t, q) = ReadLlmProviderSecret(s, q)
  <1>0. /\ settingsJob[h].pc = "move" /\ settingsJob[h].file = f /\ clash' = clash
        /\ overlap' = (IF settingsJob[h].stale THEN overlap \cup {f} ELSE overlap)
    BY DEF Moved
  <1>1. SecretsKept /\ "secrets" \notin clash /\ (f = "secrets" => ~settingsJob[h].stale)
    BY <1>0 DEF SecretsKept
  <1>2. f = "config" => t = s
    BY MoveReads DEF SettingsFile
  <1>3. ASSUME f = "secrets"
        PROVE  /\ t = SecretsPayload(s, u, settingsJob[h].step)
               /\ \/ settingsJob[h].step = "llm_key" /\ LlmKey(u) # None
                  \/ settingsJob[h].step = "web_key" /\ WebKey(u) # None
    <2>1. Based(h, "secrets") /\ BaseFresh(h) /\ KeyGiven(h)
      BY <1>0, <1>3 DEF Based, SettingsInv
    <2>2. t = settingsJob[h].doc
      BY <1>1, <1>3, MoveReads
    <2>3. settingsJob[h].doc = SecretsPayload(s, u, settingsJob[h].step)
      BY <1>1, <1>3, <2>1 DEF BaseFresh
    <2>. QED
      BY <2>1, <2>2, <2>3 DEF KeyGiven
  <1>4. ASSUME f = "secrets", settingsJob[h].step = "llm_key"
        PROVE  /\ LlmKey(u) # None /\ t.web = s.web
               /\ \A q \in Provider : ReadLlmProviderSecret(t, q) =
                      IF q = u.llm.provider THEN u.llm.key ELSE ReadLlmProviderSecret(s, q)
    <2>1. LlmKey(u) # None /\ t = LlmProviderSecretPayload(s, u.llm.provider, u.llm.key)
      BY <1>3, <1>4 DEF SecretsPayload
    <2>2. PICK p, k : p = u.llm.provider /\ k = u.llm.key
      OBVIOUS
    <2>3. k # None /\ t = LlmProviderSecretPayload(s, p, k)
      BY <2>1, <2>2 DEF LlmKey
    <2>4. \A q \in Provider : ReadLlmProviderSecret(t, q) = IF q = p THEN k ELSE ReadLlmProviderSecret(s, q)
      BY <2>3, PayloadReads
    <2>5. t.web = s.web
      BY <2>3 DEF LlmProviderSecretPayload
    <2>. QED
      BY <2>1, <2>2, <2>4, <2>5
  <1>5. ASSUME f = "secrets", settingsJob[h].step # "llm_key"
        PROVE  /\ settingsJob[h].step = "web_key" /\ WebKey(u) # None /\ t.web = u.web.key
               /\ \A q \in Provider : ReadLlmProviderSecret(t, q) = ReadLlmProviderSecret(s, q)
    <2>1. WebKey(u) # None /\ settingsJob[h].step = "web_key" /\ t = WebSearchSecretPayload(s, u.web.key)
      BY <1>3, <1>5 DEF SecretsPayload
    <2>. QED
      BY <2>1, WebPayloadReads
  <1>. QED
    BY <1>1, <1>2, <1>4, <1>5

\* A key that is stored stays stored, and a pending one stays pending or is
\* stored from now on.
LEMMA MoveKeys ==
    ASSUME NEW h \in SettingsHandler, SettingsInv, NEW f \in SettingsFile, Moved(h, f), SecretsKept'
    PROVE  /\ \A p \in Provider : KeyStored(p) => KeyStored(p)'
           /\ ReadJsonObject("secrets").web # None => (ReadJsonObject("secrets").web # None)'
           /\ \A g \in SettingsHandler : KeyPending(g) /\ settingsJob[g].req.llm.provider \in Provider =>
                  KeyPending(g)' \/ KeyStored(settingsJob[g].req.llm.provider)'
           /\ \A g \in SettingsHandler : UnderWay(g) /\ WebKey(settingsJob[g].req) # None =>
                  UnderWay(g)' \/ (ReadJsonObject("secrets").web # None)'
  <1>. PICK u : u = settingsJob[h].req
    OBVIOUS
  <1>. PICK s : s = ReadJsonObject("secrets")
    OBVIOUS
  <1>. PICK t : t = ReadJsonObject("secrets")'
    OBVIOUS
  <1>0. /\ settingsJob[h].pc = "move" /\ settingsJob[h].file = f
        /\ f \in {"config", "secrets"}
    BY DEF Moved, SettingsFile
  <1>1. /\ f = "config" => t = s
        /\ f = "secrets" /\ settingsJob[h].step = "llm_key" =>
                /\ LlmKey(u) # None /\ t.web = s.web
                /\ \A q \in Provider : ReadLlmProviderSecret(t, q) =
                       IF q = u.llm.provider THEN u.llm.key ELSE ReadLlmProviderSecret(s, q)
        /\ f = "secrets" /\ settingsJob[h].step # "llm_key" =>
                /\ settingsJob[h].step = "web_key" /\ WebKey(u) # None /\ t.web = u.web.key
                /\ \A q \in Provider : ReadLlmProviderSecret(t, q) = ReadLlmProviderSecret(s, q)
    BY MoveSecrets
  <1>2. \A p \in Provider : ReadLlmProviderSecret(s, p) # None => ReadLlmProviderSecret(t, p) # None
    BY <1>0, <1>1 DEF LlmKey
  <1>3. \A p : /\ KeyStored(p) <=> ReadLlmProviderSecret(s, p) # None \/ p \in Env.keys
               /\ KeyStored(p)' <=> ReadLlmProviderSecret(t, p) # None \/ p \in Env.keys
    BY DEF KeyStored, HasEffectiveLlmApiKey
  <1>4. \A p \in Provider : KeyStored(p) => KeyStored(p)'
    BY <1>2, <1>3
  <1>5. s.web # None => t.web # None
    BY <1>0, <1>1 DEF WebKey
  <1>6. ASSUME NEW g \in SettingsHandler, KeyPending(g), settingsJob[g].req.llm.provider \in Provider
        PROVE  KeyPending(g)' \/ KeyStored(settingsJob[g].req.llm.provider)'
    <2>1. CASE g # h
      BY <1>6, <2>1, MoveJobs DEF KeyPending, JobAt
    <2>2. CASE g = h /\ f = "config"
      <3>1. LlmKey(u) # None
        BY <1>6, <2>2 DEF KeyPending
      <3>2. settingsJob'[h].pc = "llm_key" /\ settingsJob'[h].req = u
        BY <1>0, <2>2, <3>1, MoveJobs DEF AfterWrite
      <3>. QED
        BY <2>2, <3>1, <3>2 DEF KeyPending, JobAt
    <2>3. CASE g = h /\ f = "secrets"
      <3>1. settingsJob[h].step = "llm_key"
        BY <1>0, <1>6, <2>3 DEF KeyPending, JobAt
      <3>2. ReadLlmProviderSecret(t, u.llm.provider) # None
        BY <1>1, <1>6, <2>3, <3>1 DEF LlmKey
      <3>3. settingsJob'[h].req = u
        BY MoveJobs
      <3>. QED
        BY <1>3, <2>3, <3>2, <3>3
    <2>. QED
      BY <1>0, <2>1, <2>2, <2>3
  <1>7. ASSUME NEW g \in SettingsHandler, UnderWay(g), WebKey(settingsJob[g].req) # None
        PROVE  UnderWay(g)' \/ t.web # None
    <2>1. CASE g # h
      BY <1>7, <2>1, MoveJobs DEF UnderWay
    <2>2. CASE g = h /\ (f = "config" \/ settingsJob[h].step = "llm_key")
      BY <1>0, <1>7, <2>2, MoveJobs DEF UnderWay, AfterWrite
    <2>3. CASE g = h /\ f = "secrets" /\ settingsJob[h].step # "llm_key"
      BY <1>1, <1>7, <2>3 DEF WebKey
    <2>. QED
      BY <1>0, <2>1, <2>2, <2>3
  <1>. QED
    BY <1>4, <1>5, <1>6, <1>7

\* No write is lost by a move, and what the threads have read stays good.
LEMMA MoveLosesNothing ==
    ASSUME NEW h \in SettingsHandler, SettingsInv, NEW f \in SettingsFile, Moved(h, f)
    PROVE  NothingLost'
  <1>. PICK u : u = settingsJob[h].req
    OBVIOUS
  <1>. PICK s : s = ReadJsonObject("secrets")
    OBVIOUS
  <1>. PICK t : t = ReadJsonObject("secrets")'
    OBVIOUS
  <1>0. /\ settingsJob[h].pc = "move" /\ settingsJob[h].file = f /\ clash' = clash /\ saved' = Saves(h)
        /\ overlap' = (IF settingsJob[h].stale THEN overlap \cup {f} ELSE overlap)
        /\ f \in {"config", "secrets"}
    BY DEF Moved, SettingsFile
  <1>1. ASSUME "config" \notin (overlap \cup clash)'
        PROVE  ReadJsonObject("config")' = saved'.config
    <2>1. ReadJsonObject("config") = saved.config /\ "config" \notin clash
      BY <1>0, <1>1 DEF SettingsInv, NothingLost
    <2>2. CASE f = "config"
      <3>1. ReadJsonObject("config")' = settingsJob[h].doc
        BY <2>1, <2>2, MoveReads
      <3>2. settingsJob[h].doc = UpdatedConfigData(ReadJsonObject("config"), u)
        BY <1>0, <1>1, <2>1, <2>2 DEF SettingsInv, BaseFresh, Based
      <3>3. saved'.config = UpdatedConfigData(saved.config, u)
        BY <1>0, <2>2 DEF Saves
      <3>. QED
        BY <2>1, <3>1, <3>2, <3>3
    <2>3. CASE f # "config"
      <3>1. saved'.config = saved.config
        BY <1>0, <2>3 DEF Saves
      <3>2. ReadJsonObject("config")' = ReadJsonObject("config")
        BY <2>3, MoveReads DEF SettingsFile
      <3>. QED
        BY <2>1, <3>1, <3>2
    <2>. QED
      BY <2>2, <2>3
  <1>2. ASSUME "secrets" \notin (overlap \cup clash)'
        PROVE  t.web = saved'.web /\ \A p \in Provider : ReadLlmProviderSecret(t, p) = saved'.keys[p]
    <2>0. SecretsKept'
      BY <1>2 DEF SecretsKept
    <2>1. s.web = saved.web /\ \A p \in Provider : ReadLlmProviderSecret(s, p) = saved.keys[p]
      BY <1>0, <1>2 DEF SettingsInv, NothingLost
    <2>2. CASE f = "config"
      <3>1. saved'.web = saved.web /\ saved'.keys = saved.keys
        BY <1>0, <2>2 DEF Saves
      <3>2. t = s
        BY <2>0, <2>2, MoveSecrets
      <3>. QED
        BY <2>1, <3>1, <3>2
    <2>3. CASE f = "secrets" /\ settingsJob[h].step = "llm_key"
      <3>1. saved'.web = saved.web
        BY <1>0, <2>3 DEF Saves
      <3>2. \A p \in Provider : saved'.keys[p] = IF p = u.llm.provider THEN u.llm.key ELSE saved.keys[p]
        BY <1>0, <2>3 DEF Saves
      <3>3. /\ t.web = s.web
            /\ \A q \in Provider : ReadLlmProviderSecret(t, q) =
                   IF q = u.llm.provider THEN u.llm.key ELSE ReadLlmProviderSecret(s, q)
        BY <2>0, <2>3, MoveSecrets
      <3>. QED
        BY <2>1, <3>1, <3>2, <3>3
    <2>4. CASE f = "secrets" /\ settingsJob[h].step # "llm_key"
      <3>1. saved'.web = u.web.key /\ saved'.keys = saved.keys
        BY <1>0, <2>4 DEF Saves
      <3>2. t.web = u.web.key /\ \A q \in Provider : ReadLlmProviderSecret(t, q) = ReadLlmProviderSecret(s, q)
        BY <2>0, <2>4, MoveSecrets
      <3>. QED
        BY <2>1, <3>1, <3>2
    <2>. QED
      BY <1>0, <2>2, <2>3, <2>4
  <1>. QED
    BY <1>1, <1>2 DEF NothingLost

\* A provider or web search that is backed stays backed.
LEMMA MoveKeepsBacked ==
    ASSUME NEW h \in SettingsHandler, SettingsInv, NEW f \in SettingsFile, Moved(h, f), SecretsKept'
    PROVE  /\ \A p \in Provider \cup {None} : LlmBacked(p) => LlmBacked(p)'
           /\ WebBacked => WebBacked'
  <1>0. \A g \in SettingsHandler : settingsJob'[g].req = settingsJob[g].req
    BY MoveJobs
  <1>1. ASSUME NEW p \in Provider PROVE LlmBacked(p) => LlmBacked(p)'
    <2>1. KeyStored(p) => KeyStored(p)'
      BY MoveKeys
    <2>2. \A g \in SettingsHandler : KeyPending(g) /\ settingsJob[g].req.llm.provider = p =>
              KeyPending(g)' \/ KeyStored(p)'
      BY <1>0, MoveKeys
    <2>. QED
      BY <1>0, <2>1, <2>2, BackedStays
  <1>2. LlmBacked(None)'
    BY DEF LlmBacked
  <1>3. WebBacked => WebBacked'
    BY <1>0, MoveKeys, WebBackedStays
  <1>. QED
    BY <1>1, <1>2, <1>3

\* What is known of each thread after a move.
LEMMA MoveKeepsThreads ==
    ASSUME NEW h \in SettingsHandler, SettingsInv, NEW f \in SettingsFile, Moved(h, f),
           NEW g \in SettingsHandler
    PROVE  (BaseFresh(g) /\ KeyGiven(g) /\ ProviderKnown(g))'
  <1>. USE DEF JobAt
  <1>0. /\ settingsJob[h].pc = "move" /\ settingsJob[h].file = f /\ clash' = clash
        /\ f \in {"config", "secrets"}
        /\ BaseFresh(g) /\ KeyGiven(g) /\ ProviderKnown(g)
    BY DEF Moved, SettingsFile, SettingsInv
  <1>1. CASE g = h
    <2>1. /\ settingsJob'[h].pc = AfterWrite(h) /\ settingsJob'[h].pc \in {"llm_key", "web_key", "env"}
          /\ settingsJob'[h].req = settingsJob[h].req /\ settingsJob'[h].status # 200
      BY MoveJobs
    <2>2. BaseFresh(h)' /\ ProviderKnown(h)'
      BY <2>1 DEF BaseFresh, ProviderKnown, Based, Answered
    <2>3. KeyGiven(h)'
      BY <2>1 DEF KeyGiven, Based, AfterWrite
    <2>. QED
      BY <1>1, <2>2, <2>3
  <1>2. CASE g # h
    <2>1. /\ settingsJob'[g].pc = settingsJob[g].pc /\ settingsJob'[g].req = settingsJob[g].req
          /\ settingsJob'[g].status = settingsJob[g].status
          /\ settingsJob'[g].file = settingsJob[g].file /\ settingsJob'[g].doc = settingsJob[g].doc
          /\ settingsJob'[g].step = settingsJob[g].step /\ settingsJob'[g].seen = settingsJob[g].seen
          /\ ~settingsJob'[g].stale => ~settingsJob[g].stale /\ ~Based(g, f)
      BY <1>2, MoveJobs
    <2>2. \A k : Based(g, k)' <=> Based(g, k)
      BY <2>1 DEF Based
    <2>3. KeyGiven(g)'
      BY <1>0, <2>1, <2>2 DEF KeyGiven
    <2>4. ProviderKnown(g)'
      BY <1>0, <2>1, <2>2 DEF ProviderKnown, Answered
    <2>5. ASSUME ~settingsJob'[g].stale, "config" \notin clash, Based(g, "config")
          PROVE  settingsJob[g].doc = UpdatedConfigData(ReadJsonObject("config")', settingsJob[g].req)
      <3>1. f = "secrets" /\ ~settingsJob[g].stale
        BY <1>0, <2>1, <2>5
      <3>2. ReadJsonObject("config")' = ReadJsonObject("config")
        BY <3>1, MoveReads DEF SettingsFile
      <3>. QED
        BY <1>0, <2>5, <3>1, <3>2 DEF BaseFresh
    <2>6. ASSUME ~settingsJob'[g].stale, "secrets" \notin clash, Based(g, "secrets")
          PROVE  settingsJob[g].doc =
                   SecretsPayload(ReadJsonObject("secrets")', settingsJob[g].req, settingsJob[g].step)
      <3>1. f = "config" /\ ~settingsJob[g].stale
        BY <1>0, <2>1, <2>6
      <3>2. ReadJsonObject("secrets")' = ReadJsonObject("secrets")
        BY <3>1, MoveReads DEF SettingsFile
      <3>. QED
        BY <1>0, <2>6, <3>1, <3>2 DEF BaseFresh
    <2>7. BaseFresh(g)'
      BY <1>0, <2>1, <2>2, <2>5, <2>6 DEF BaseFresh
    <2>. QED
      BY <2>3, <2>4, <2>7
  <1>. QED
    BY <1>1, <1>2

\* What the threads conclude about keys is still true after a move.
LEMMA MoveKeepsTold ==
    ASSUME NEW h \in SettingsHandler, SettingsInv, NEW f \in SettingsFile, Moved(h, f), SecretsKept',
           NEW g \in SettingsHandler
    PROVE  KeyTold(g)'
  <1>. USE DEF JobAt
  <1>. PICK p : p = settingsJob[g].req.llm.provider
    OBVIOUS
  <1>. PICK q : q = settingsJob[g].seen
    OBVIOUS
  <1>0. SecretsKept
    BY MoveSecrets
  <1>1. KeyTold(g) /\ ProviderKnown(g)
    BY <1>0 DEF SettingsInv
  <1>2. settingsJob'[g].req = settingsJob[g].req
    BY MoveJobs
  <1>3. UpdateAccepted(g)' => UpdateAccepted(g)
    BY MoveJobs DEF UpdateAccepted, Moved
  <1>4. UpdateAccepted(g)' /\ HasLlm(settingsJob[g].req) => p \in Provider /\ (KeyPending(g)' \/ KeyStored(p)')
    <2>1. UpdateAccepted(g) /\ HasLlm(settingsJob[g].req) => p \in Provider /\ (KeyPending(g) \/ KeyStored(p))
      BY <1>1 DEF KeyTold
    <2>2. p \in Provider /\ KeyPending(g) => KeyPending(g)' \/ KeyStored(p)'
      BY <1>2, MoveKeys
    <2>3. p \in Provider /\ KeyStored(p) => KeyStored(p)'
      BY MoveKeys
    <2>. QED
      BY <1>3, <2>1, <2>2, <2>3
  <1>5. CASE g = h
    <2>1. ~Answered(h)' /\ settingsJob'[h].pc # "profile"
      BY MoveJobs DEF Answered
    <2>. QED
      BY <1>2, <1>4, <1>5, <2>1 DEF KeyTold
  <1>6. CASE g # h
    <2>1. /\ settingsJob'[g].pc = settingsJob[g].pc /\ settingsJob'[g].status = settingsJob[g].status
          /\ settingsJob'[g].seen = q
          /\ settingsJob'[g].key = settingsJob[g].key /\ settingsJob'[g].report = settingsJob[g].report
      BY <1>6, MoveJobs
    <2>2. Answered(g)' <=> Answered(g)
      BY <2>1 DEF Answered
    <2>3. (settingsJob[g].pc = "profile" \/ Answered(g)) /\ settingsJob[g].key => KeyStored(q)'
      BY <1>1, MoveKeys DEF KeyTold, ProviderKnown
    <2>4. Answered(g) =>
            /\ settingsJob[g].req.kind = "readiness" /\ settingsJob[g].report = "ready" => settingsJob[g].key
            /\ settingsJob[g].req.kind = "patch" /\ q = p => settingsJob[g].key
      BY <1>1 DEF KeyTold
    <2>. QED
      BY <1>2, <1>4, <2>1, <2>2, <2>3, <2>4 DEF KeyTold
  <1>. QED
    BY <1>5, <1>6

\* The invariant after a move (os.replace in _write_private_json).
LEMMA MoveKeeps ==
    ASSUME NEW h \in SettingsHandler, SettingsInv, NEW f \in SettingsFile, Moved(h, f)
    PROVE  SettingsInv'
  <1>. USE DEF JobAt
  <1>1. (SettingsTypeOK /\ InodesApart /\ WriterAlone /\ NothingLost /\ ConfigInodesKnown)'
    BY MoveKeepsFiles, MoveLosesNothing
  <1>2. \A g \in SettingsHandler : (BaseFresh(g) /\ KeyGiven(g) /\ ProviderKnown(g))'
    BY MoveKeepsThreads
  <1>3. \A g \in SettingsHandler : (SecretsKept => KeyTold(g))'
    BY MoveKeepsTold
  <1>4. ASSUME StoreKept'
        PROVE  /\ StoreKept /\ "config" \notin clash
               /\ \A p \in Provider \cup {None} : LlmBacked(p) => LlmBacked(p)'
               /\ WebBacked => WebBacked'
    <2>1. SecretsKept'
      BY <1>4 DEF StoreKept
    <2>2. SecretsKept
      BY <2>1, MoveSecrets
    <2>. QED
      BY <1>4, <2>1, <2>2, MoveKeepsBacked DEF StoreKept, Moved
  <1>5. ASSUME StoreKept', NEW g \in SettingsHandler PROVE DocumentBacked(g)'
    <2>1. CASE g = h
      BY <2>1, MoveJobs DEF DocumentBacked, Based
    <2>2. CASE g # h
      <3>. PICK d : d = settingsJob[g].doc
        OBVIOUS
      <3>. PICK u : u = settingsJob[g].req
        OBVIOUS
      <3>1. /\ settingsJob'[g].pc = settingsJob[g].pc /\ settingsJob'[g].req = u
            /\ settingsJob'[g].file = settingsJob[g].file /\ settingsJob'[g].doc = d
        BY <2>2, MoveJobs
      <3>2. DocumentBacked(g) /\ ProviderKnown(g)
        BY <1>4, <1>5 DEF SettingsInv
      <3>3. Based(g, "config")' <=> Based(g, "config")
        BY <3>1 DEF Based
      <3>4. ASSUME Based(g, "config"), settingsJob[g].pc = "check" => ~HasLlm(u)
            PROVE  LlmBacked(d.llm)'
        <4>1. d.llm \in Provider \cup {None}
          BY <3>2, <3>4 DEF ProviderKnown, KnownIn
        <4>2. LlmBacked(d.llm)
          BY <3>2, <3>4 DEF DocumentBacked
        <4>. QED
          BY <1>4, <1>5, <4>1, <4>2
      <3>5. ASSUME Based(g, "config"), d.web.enabled, settingsJob[g].pc = "check" => ~u.web.given
            PROVE  WebBacked'
        BY <1>4, <1>5, <3>2, <3>5 DEF DocumentBacked
      <3>6. settingsJob[g].pc = "check" /\ u.web.given => d.web.enabled = u.web.enabled
        BY <3>2 DEF DocumentBacked
      <3>. QED
        BY <3>1, <3>3, <3>4, <3>5, <3>6 DEF DocumentBacked
    <2>. QED
      BY <2>1, <2>2
  <1>6. ASSUME StoreKept' PROVE StoredBacked'
    <2>. PICK c : c = ReadJsonObject("config")'
      OBVIOUS
    <2>1. CASE f = "config"
      <3>0. c = settingsJob[h].doc
        BY <1>4, <1>6, <2>1, MoveReads
      <3>1. DocumentBacked(h) /\ ProviderKnown(h) /\ Based(h, "config") /\ settingsJob[h].pc = "move"
        BY <1>4, <1>6, <2>1 DEF SettingsInv, Moved, Based
      <3>2. c.llm \in Provider \cup {None} /\ LlmBacked(c.llm) /\ (c.web.enabled => WebBacked)
        BY <3>0, <3>1 DEF DocumentBacked, ProviderKnown, KnownIn
      <3>. QED
        BY <1>4, <1>6, <3>2 DEF StoredBacked
    <2>2. CASE f # "config"
      <3>0. c = ReadJsonObject("config")
        BY <2>2, MoveReads DEF SettingsFile
      <3>1. StoredBacked /\ KnownIn(c)
        BY <1>4, <1>6, <3>0, ConfigRead DEF SettingsInv
      <3>2. c.llm \in Provider \cup {None} /\ LlmBacked(c.llm) /\ (c.web.enabled => WebBacked)
        BY <3>0, <3>1 DEF StoredBacked, KnownIn
      <3>. QED
        BY <1>4, <1>6, <3>2 DEF StoredBacked
    <2>. QED
      BY <2>1, <2>2
  <1>. QED
    BY <1>1, <1>2, <1>3, <1>5, <1>6 DEF SettingsInv

\* The move of a temporary that another writer has moved away fails
\* (SettingsConfigStorageError); otherwise it replaces the file.
LEMMA KeepsMoves ==
    ASSUME NEW h \in SettingsHandler, SettingsInv, WriteMoves(h)
    PROVE  SettingsInv'
  <1>. PICK f : f = settingsJob[h].file
    OBVIOUS
  <1>0. f \in SettingsFile /\ settingsJob[h].pc = "move" /\ f \in {"config", "secrets"}
    BY JobFields DEF WriteMoves, JobAt, SettingsFile
  <1>1. CASE tempPath[f] = NoInode
    <2>1. PICK j : j = [settingsJob[h] EXCEPT !.pc = "idle", !.status = 500]
      OBVIOUS
    <2>2. /\ JobBecomes(h, j) /\ UNCHANGED <<inode, path, tempPath, saved, overlap, clash>>
          /\ settingsStops' = settingsStops
      BY <1>1, <2>1 DEF WriteMoves, SettingsAnswers
    <2>3. /\ DOMAIN j = DOMAIN NoSettingsJob /\ j.pc = "idle" /\ j.status = 500 /\ j.fd = NoInode
          /\ j.file = settingsJob[h].file
      BY <1>0, <2>1, JobFields
    <2>4. f \in clash
      BY <1>0, <1>1 DEF SettingsInv, WriterAlone, HasOpen
    <2>5. ~StoreKept' /\ settingsStops' \in Nat
      BY <1>0, <2>2, <2>4 DEF StoreKept, SecretsKept, SettingsInv, SettingsTypeOK
    <2>. QED
      BY <2>2, <2>3, <2>5, KeepsAbort
  <1>2. CASE tempPath[f] # NoInode
    <2>1. Moved(h, f)
      BY <1>0, <1>2 DEF WriteMoves, Moved
    <2>. QED
      BY <1>0, <2>1, MoveKeeps
  <1>. QED
    BY <1>1, <1>2

\* The sidecar dies and leaves the files as they are.
LEMMA KeepsDeath ==
    ASSUME SettingsInv, SidecarDies
    PROVE  SettingsInv'
  <1>. USE DEF JobAt
  <1>0. /\ UNCHANGED <<inode, path, tempPath, saved, overlap, clash>>
        /\ settingsStops' = settingsStops + 1 /\ settingsStops \in Nat
        /\ DOMAIN settingsJob' = SettingsHandler
        /\ \A h \in SettingsHandler : settingsJob'[h] = NoSettingsJob
    BY DEF SidecarDies, SettingsInv, SettingsTypeOK
  <1>1. /\ NoSettingsJob.pc = "idle" /\ NoSettingsJob.status = 0 /\ NoSettingsJob.fd = NoInode
        /\ NoSettingsJob.file \in SettingsFile
    BY DEF NoSettingsJob, SettingsFile
  <1>2. SettingsTypeOK'
    <2>1. \A h \in SettingsHandler : JobTypeOK(h)'
      BY <1>0, <1>1 DEF JobTypeOK, SettingsStep
    <2>. QED
      BY <1>0, <2>1 DEF SettingsInv, SettingsTypeOK
  <1>3. (InodesApart /\ WriterAlone /\ ConfigInodesKnown)'
    BY <1>0, <1>1 DEF SettingsInv, InodesApart, WriterAlone, ConfigInodesKnown, HasOpen
  <1>4. NothingLost'
    BY <1>0 DEF SettingsInv, NothingLost, ReadJsonObject, Readable
  <1>5. \A h \in SettingsHandler : (BaseFresh(h) /\ KeyGiven(h) /\ ProviderKnown(h) /\ KeyTold(h))'
    BY <1>0, <1>1 DEF BaseFresh, KeyGiven, ProviderKnown, KeyTold, Based, UpdateAccepted, Answered
  <1>6. ~StoreKept'
    BY <1>0 DEF StoreKept
  <1>. QED
    BY <1>2, <1>3, <1>4, <1>5, <1>6 DEF SettingsInv

\* The files the first sidecar finds satisfy the invariant.
LEMMA SettingsStart == SettingsInit => SettingsInv
  <1>. SUFFICES ASSUME SettingsInit PROVE SettingsInv
    OBVIOUS
  <1>. USE DEF JobAt
  <1>0. /\ DOMAIN inode = Inodes /\ inode[1] = Whole(StartConfig) /\ inode[2] = Whole(StartSecrets)
        /\ path = [f \in SettingsFile |-> IF f = "config" THEN 1 ELSE 2]
        /\ tempPath = [f \in SettingsFile |-> NoInode]
        /\ DOMAIN settingsJob = SettingsHandler
        /\ \A h \in SettingsHandler : settingsJob[h] = NoSettingsJob
        /\ overlap = {} /\ clash = {} /\ settingsStops = 0
    BY InodesNumbered DEF SettingsInit
  <1>1. /\ NoSettingsJob.pc = "idle" /\ NoSettingsJob.status = 0 /\ NoSettingsJob.fd = NoInode
        /\ NoSettingsJob.file \in SettingsFile
    BY DEF NoSettingsJob, SettingsFile
  <1>2. /\ path["config"] = 1 /\ path["secrets"] = 2 /\ 1 \in Inodes /\ 2 \in Inodes
        /\ \A f \in SettingsFile : tempPath[f] = NoInode /\ path[f] \in Inodes /\ path[f] # NoInode
    BY <1>0, InodesNumbered DEF SettingsFile
  <1>3. ReadJsonObject("config") = StartConfig /\ ReadJsonObject("secrets") = StartSecrets
    <2>1. inode[path["config"]] = Whole(StartConfig) /\ inode[path["secrets"]] = Whole(StartSecrets)
      BY <1>0, <1>2
    <2>. QED
      BY <2>1 DEF ReadJsonObject, Readable, Whole
  <1>4. SettingsTypeOK
    <2>1. \A h \in SettingsHandler : JobTypeOK(h)
      BY <1>0, <1>1 DEF JobTypeOK, SettingsStep
    <2>2. path \in [SettingsFile -> Inodes] /\ tempPath \in [SettingsFile -> Inodes \cup {NoInode}]
      BY <1>0, <1>2
    <2>. QED
      BY <1>0, <2>1, <2>2 DEF SettingsTypeOK
  <1>5. InodesApart
    <2>1. tempPath["config"] = NoInode /\ \A f, g \in SettingsFile : tempPath[f] # path[g]
      BY <1>2 DEF SettingsFile
    <2>. QED
      BY <1>0, <1>1, <1>2, <2>1 DEF InodesApart
  <1>6. WriterAlone
    <2>1. \A f \in SettingsFile : inode[path[f]].state = "whole"
      BY <1>0, <1>2 DEF SettingsFile, Whole
    <2>2. \A h \in SettingsHandler, f \in SettingsFile : ~HasOpen(h, f)
      BY <1>0, <1>1 DEF HasOpen
    <2>. QED
      BY <2>1, <2>2 DEF WriterAlone
  <1>7. ConfigInodesKnown
    <2>1. KnownIn(inode[path["config"]].doc)
      BY <1>0, <1>2, SettingsAssumption DEF KnownIn, Whole
    <2>2. tempPath["config"] = NoInode
      BY <1>2 DEF SettingsFile
    <2>. QED
      BY <1>0, <1>1, <2>1, <2>2 DEF ConfigInodesKnown
  <1>8. NothingLost
    <2>1. /\ saved.config = StartConfig /\ saved.web = StartSecrets.web
          /\ \A p \in Provider : saved.keys[p] = ReadLlmProviderSecret(StartSecrets, p)
      BY DEF SettingsInit
    <2>. QED
      BY <1>3, <2>1 DEF NothingLost
  <1>9. \A h \in SettingsHandler : BaseFresh(h) /\ KeyGiven(h) /\ ProviderKnown(h) /\ KeyTold(h) /\ DocumentBacked(h)
    BY <1>0, <1>1 DEF BaseFresh, KeyGiven, ProviderKnown, KeyTold, DocumentBacked, Based, UpdateAccepted, Answered
  <1>10. StoredBacked
    <2>1. LlmBacked(StartConfig.llm)
      BY <1>3, SettingsAssumption DEF LlmBacked, KeyStored
    <2>2. StartConfig.web.enabled => WebBacked
      <3>1. StartConfig.web.enabled /\ ~Env.otherWebProvider /\ Env.web = "unset" =>
                StartSecrets.web # None \/ Env.webKey
        BY SettingsAssumption DEF WebStatus, WebEnabled
      <3>. QED
        BY <1>3, <3>1 DEF WebBacked
    <2>. QED
      BY <1>3, <2>1, <2>2 DEF StoredBacked
  <1>. QED
    BY <1>4, <1>5, <1>6, <1>7, <1>8, <1>9, <1>10 DEF SettingsInv

\* The invariant says what the run checks.
LEMMA SettingsInvSound == SettingsInv => SettingsSound
  <1>. SUFFICES ASSUME SettingsInv PROVE SettingsSound
    OBVIOUS
  <1>1. FilesReadable
    BY DEF SettingsInv, WriterAlone, FilesReadable, Readable
  <1>2. NothingLost
    BY DEF SettingsInv
  <1>3. StoredHasKey
    <2>. SUFFICES ASSUME StoreKept
                  PROVE  LET c == ReadJsonObject("config")
                             s == ReadJsonObject("secrets") IN
                         /\ c.llm # None =>
                             \/ HasEffectiveLlmApiKey(s, c.llm, None)
                             \/ \E h \in SettingsHandler : UnderWay(h) /\ LlmKey(settingsJob[h].req) # None
                                                   /\ settingsJob[h].req.llm.provider = c.llm
                         /\ c.web.enabled /\ ~Env.otherWebProvider /\ Env.web = "unset" =>
                             \/ WebStatus(c, s, None) = "ready"
                             \/ \E h \in SettingsHandler : UnderWay(h) /\ WebKey(settingsJob[h].req) # None
      BY DEF StoredHasKey, StoreKept, SecretsKept
    <2>. PICK c : c = ReadJsonObject("config")
      OBVIOUS
    <2>. PICK s : s = ReadJsonObject("secrets")
      OBVIOUS
    <2>1. LlmBacked(c.llm) /\ (c.web.enabled => WebBacked)
      BY DEF SettingsInv, StoredBacked
    <2>2. ASSUME c.llm # None
          PROVE  \/ HasEffectiveLlmApiKey(s, c.llm, None)
                 \/ \E h \in SettingsHandler : UnderWay(h) /\ LlmKey(settingsJob[h].req) # None
                                       /\ settingsJob[h].req.llm.provider = c.llm
      <3>1. CASE KeyStored(c.llm)
        BY <3>1 DEF KeyStored
      <3>2. CASE \E h \in SettingsHandler : KeyPending(h) /\ settingsJob[h].req.llm.provider = c.llm
        BY <3>2, PendingIsUnderWay DEF KeyPending
      <3>. QED
        BY <2>1, <2>2, <3>1, <3>2 DEF LlmBacked
    <2>3. ASSUME c.web.enabled, ~Env.otherWebProvider, Env.web = "unset"
          PROVE  \/ WebStatus(c, s, None) = "ready"
                 \/ \E h \in SettingsHandler : UnderWay(h) /\ WebKey(settingsJob[h].req) # None
      <3>1. \/ s.web # None \/ Env.webKey
            \/ \E h \in SettingsHandler : UnderWay(h) /\ WebKey(settingsJob[h].req) # None
        BY <2>1, <2>3 DEF WebBacked
      <3>2. WebEnabled(c)
        BY <2>3 DEF WebEnabled
      <3>. QED
        BY <2>3, <3>1, <3>2 DEF WebStatus
    <2>. QED
      BY <2>2, <2>3
  <1>4. ReportsTell
    <2>. SUFFICES ASSUME SecretsKept, NEW h \in SettingsHandler, settingsJob[h].status = 200
                  PROVE  /\ \/ settingsJob[h].key
                            \/ settingsJob[h].req.kind = "readiness" /\ settingsJob[h].report = "ready"
                            => HasEffectiveLlmApiKey(ReadJsonObject("secrets"), settingsJob[h].seen, None)
                         /\ settingsJob[h].req.kind = "patch" /\ settingsJob[h].seen = settingsJob[h].req.llm.provider
                            => settingsJob[h].key
      BY DEF ReportsTell, SecretsKept
    <2>1. Answered(h) /\ KeyTold(h)
      BY DEF SettingsInv, ProviderKnown, Answered
    <2>. QED
      BY <2>1 DEF KeyTold, KeyStored
  <1>. QED
    BY <1>1, <1>2, <1>3, <1>4 DEF SettingsSound

\* Whatever requests and sidecars interleave, crash or fail over config.json
\* and secrets.json: a file is partial only after two writers had its temporary
\* open, no write is lost that did not overlap another, the stored provider and
\* web search have their keys or have them coming, and a report that calls a
\* provider configured is right.
THEOREM SettingsIsSound == SettingsSpec => []SettingsSound
  <1>1. SettingsInit => SettingsInv
    BY SettingsStart
  <1>2. SettingsInv /\ [SettingsNext]_settingsVars => SettingsInv'
    <2>. SUFFICES ASSUME SettingsInv, [SettingsNext]_settingsVars PROVE SettingsInv'
      OBVIOUS
    <2>1. ASSUME NEW h \in SettingsHandler, NEW u \in SettingsUpdate, SettingsRequest(h, u) PROVE SettingsInv'
      BY <2>1, KeepsRequest
    <2>2. ASSUME NEW h \in SettingsHandler, ReadConfig(h) PROVE SettingsInv'
      BY <2>2, KeepsReadConfig
    <2>3. ASSUME NEW h \in SettingsHandler, Validate(h) PROVE SettingsInv'
      BY <2>3, KeepsValidate
    <2>4. ASSUME NEW h \in SettingsHandler, ReadSecrets(h) PROVE SettingsInv'
      BY <2>4, KeepsReadSecrets
    <2>5. ASSUME NEW h \in SettingsHandler, WriteOpens(h) PROVE SettingsInv'
      BY <2>5, KeepsOpens
    <2>6. ASSUME NEW h \in SettingsHandler, WriteFills(h) PROVE SettingsInv'
      BY <2>6, KeepsFills
    <2>7. ASSUME NEW h \in SettingsHandler, WriteMoves(h) PROVE SettingsInv'
      BY <2>7, KeepsMoves
    <2>8. ASSUME NEW h \in SettingsHandler, WriteFails(h) PROVE SettingsInv'
      BY <2>8, KeepsFails
    <2>9. ASSUME NEW h \in SettingsHandler,
                 ReadEnv(h) \/ ReadKeys(h) \/ ReadProfile(h) \/ ReadSummary(h) \/ SummaryProvider(h) \/ SummaryKeys(h)
          PROVE  SettingsInv'
      BY <2>9, KeepsReading
    <2>10. CASE SidecarDies
      BY <2>10, KeepsDeath
    <2>11. CASE UNCHANGED settingsVars
      <3>. USE <2>11 DEF settingsVars
      <3>1. /\ SettingsTypeOK' /\ InodesApart' /\ WriterAlone' /\ NothingLost' /\ ConfigInodesKnown'
        BY DEF SettingsInv, SettingsTypeOK, JobTypeOK, JobAt, InodesApart, WriterAlone, HasOpen, NothingLost,
               ReadJsonObject, Readable, ConfigInodesKnown
      <3>2. \A h \in SettingsHandler : (BaseFresh(h) /\ KeyGiven(h) /\ ProviderKnown(h))'
        BY DEF SettingsInv, BaseFresh, KeyGiven, ProviderKnown, Based, JobAt, ReadJsonObject, Readable, Answered
      <3>3. SecretsKept' = SecretsKept /\ StoreKept' = StoreKept /\ (\A p : KeyStored(p)' = KeyStored(p))
        BY DEF SecretsKept, StoreKept, KeyStored, ReadJsonObject, Readable
      <3>4. \A h \in SettingsHandler : KeyPending(h)' = KeyPending(h) /\ UnderWay(h)' = UnderWay(h)
        BY DEF KeyPending, UnderWay, JobAt
      <3>5. \A h \in SettingsHandler : KeyTold(h) => KeyTold(h)'
        BY <3>3, <3>4 DEF KeyTold, UpdateAccepted, Answered, JobAt
      <3>6. (\A p : LlmBacked(p) => LlmBacked(p)') /\ (WebBacked => WebBacked')
        BY <3>3, <3>4 DEF LlmBacked, WebBacked, ReadJsonObject, Readable
      <3>7. \A h \in SettingsHandler : DocumentBacked(h) => DocumentBacked(h)'
        BY <3>6 DEF DocumentBacked, Based, JobAt
      <3>8. StoredBacked => StoredBacked'
        BY <3>6 DEF StoredBacked, ReadJsonObject, Readable
      <3>. QED
        BY <3>1, <3>2, <3>3, <3>5, <3>7, <3>8 DEF SettingsInv
    <2>. QED
      BY <2>1, <2>2, <2>3, <2>4, <2>5, <2>6, <2>7, <2>8, <2>9, <2>10, <2>11 DEF SettingsNext
  <1>3. SettingsInv => SettingsSound
    BY SettingsInvSound
  <1>. QED
    BY <1>1, <1>2, <1>3, PTL DEF SettingsSpec

=============================================================================
