--------------------------- MODULE TaskBusProofs ---------------------------
(***************************************************************************)
(* The TaskBus properties for every set of tasks, sessions, agents, ASKs   *)
(* and confirmations.                                                      *)
(*                                                                         *)
(* BusInv is inductive as it stands.  The proof goes through one fact      *)
(* about the operations: apart from publish, which inserts a row, every    *)
(* operation only makes sound updates of rows that are neither done nor    *)
(* unpublished (StepIsSound).  The invariant, the two action properties    *)
(* and the refinement all rest on it.                                      *)
(***************************************************************************)
EXTENDS TaskBusRefinement, TLAPS

\* The conjuncts of the invariant that look at one row only.
RowOK(row) ==
    /\ IF row.status = "waiting_for_user"
       THEN (row.ask # NoAsk) # (row.conf # NoConfirmation)
       ELSE row.ask = NoAsk /\ row.conf = NoConfirmation
    /\ row.status \in {"running", "waiting_for_user", "done"} => row.claimedBy # NoAgent
    /\ row.status = "pending" => row.claimedBy = NoAgent
    /\ row.status = "failed" <=> row.error # "none"
    /\ row.result => row.status = "done"

\* What an operation may do to a row old of the table.
SoundUpdate(old, new) ==
    /\ new \in TaskDomain
    /\ RowOK(new)
    /\ old.status \notin {"unpublished", "done"}
    /\ new.status # "unpublished"
    /\ new.parent = old.parent
    /\ new.root = old.root
    /\ \/ new.claimedBy = old.claimedBy
       \/ new.claimedBy = NoAgent
       \/ old.parent = NoTask
       \/ task[old.parent].status = "done"
    /\ old.interrupt /\ ~new.interrupt => old.status = "failed" /\ new.status = "pending"

SoundStep ==
    /\ task' \in [Task -> TaskDomain]
    /\ \A t \in Task : task'[t] = task[t] \/ SoundUpdate(task[t], task'[t])

PublishStep == \E t, r \in Task, p \in Task \cup {NoTask} : Publish(t, p, r)

-----------------------------------------------------------------------------
(* Facts about single rows.                                                *)

\* Rows of a good table are good rows.
LEMMA RowsOK ==
    ASSUME BusInv
    PROVE  \A t \in Task : task[t] \in TaskDomain /\ RowOK(task[t])
BY DEF BusInv, BusTypeOK, WaitingLinkage, ClaimRecorded, OutcomeMatchesStatus, RowOK

\* A step that writes one row soundly is a sound step.
LEMMA OneRow ==
    ASSUME BusTypeOK, NEW t \in Task, NEW row \in TaskDomain,
           SoundUpdate(task[t], row) \/ row = task[t],
           task' = [task EXCEPT ![t] = row]
    PROVE  SoundStep
<1>1. task' \in [Task -> TaskDomain]
  BY DEF BusTypeOK
<1>2. task'[t] = row /\ \A u \in Task : u # t => task'[u] = task[u]
  BY DEF BusTypeOK
<1> QED
  BY <1>1, <1>2 DEF SoundStep

(* The operations that write one row.                                      *)

\* complete() updates its row soundly.
LEMMA CompleteSound ==
    ASSUME BusInv, NEW t \in Task, NEW hasResult \in BOOLEAN, Complete(t, hasResult)
    PROVE  SoundStep
<1> DEFINE row == [task[t] EXCEPT !.status = "done", !.result = hasResult, !.error = "none"]
<1>1. task[t] \in TaskDomain /\ RowOK(task[t])
  BY RowsOK
<1>2. task' = [task EXCEPT ![t] = row]
  BY DEF Complete
<1>3. row \in TaskDomain
  BY <1>1 DEF TaskDomain, Status, ErrorRef
<1>4. SoundUpdate(task[t], row)
  BY <1>1, <1>3 DEF Complete, CanComplete, SoundUpdate, RowOK, TaskDomain
<1> QED
  BY <1>2, <1>3, <1>4, OneRow DEF BusInv

\* fail() updates its row soundly.
LEMMA FailSound ==
    ASSUME BusInv, NEW t \in Task, NEW e \in {"failed", "cancelled"}, Fail(t, e)
    PROVE  SoundStep
<1> DEFINE row == FailUpdates(task[t], e)
<1>1. task[t] \in TaskDomain /\ RowOK(task[t])
  BY RowsOK
<1>2. task' = [task EXCEPT ![t] = row]
  BY DEF Fail
<1>3. row \in TaskDomain
  BY <1>1 DEF FailUpdates, TaskDomain, Status, ErrorRef
<1>4. SoundUpdate(task[t], row)
  BY <1>1, <1>3 DEF Fail, CanFail, FailUpdates, SoundUpdate, RowOK, TaskDomain
<1> QED
  BY <1>2, <1>3, <1>4, OneRow DEF BusInv

\* wait_for_user() sets exactly one link and keeps the claim.
LEMMA WaitForUserSound ==
    ASSUME BusInv, NEW t \in Task, NEW a \in Ask, WaitForUser(t, a)
    PROVE  SoundStep
<1> DEFINE row == WaitForUserUpdates(task[t], a)
<1>1. task[t] \in TaskDomain /\ RowOK(task[t])
  BY RowsOK
<1>2. task' = [task EXCEPT ![t] = row]
  BY DEF WaitForUser
<1>3. row \in TaskDomain
  BY <1>1 DEF WaitForUserUpdates, TaskDomain, Status, ErrorRef
<1>4. SoundUpdate(task[t], row)
  BY <1>1, <1>3, NoneAssumption DEF WaitForUser, WaitForUserUpdates, SoundUpdate, RowOK, TaskDomain
<1> QED
  BY <1>2, <1>3, <1>4, OneRow DEF BusInv

\* wait_for_confirmation() does the same with the other link.
LEMMA WaitForConfirmationSound ==
    ASSUME BusInv, NEW t \in Task, NEW c \in Confirmation, WaitForConfirmation(t, c)
    PROVE  SoundStep
<1> DEFINE row == WaitForUserConfirmationUpdates(task[t], c)
<1>1. task[t] \in TaskDomain /\ RowOK(task[t])
  BY RowsOK
<1>2. task' = [task EXCEPT ![t] = row]
  BY DEF WaitForConfirmation
<1>3. row \in TaskDomain
  BY <1>1 DEF WaitForUserConfirmationUpdates, TaskDomain, Status, ErrorRef
<1>4. SoundUpdate(task[t], row)
  BY <1>1, <1>3, NoneAssumption DEF WaitForConfirmation, WaitForUserConfirmationUpdates, SoundUpdate, RowOK, TaskDomain
<1> QED
  BY <1>2, <1>3, <1>4, OneRow DEF BusInv

\* resume_after_user() drops the links and the claim, not the stop request.
LEMMA ResumeAfterUserSound ==
    ASSUME BusInv, NEW t \in Task, NEW a \in Ask, ResumeAfterUser(t, a)
    PROVE  SoundStep
<1> DEFINE row == ResumeAfterUserUpdates(task[t])
<1>1. task[t] \in TaskDomain /\ RowOK(task[t])
  BY RowsOK
<1>2. task' = [task EXCEPT ![t] = row]
  BY DEF ResumeAfterUser
<1>3. row \in TaskDomain
  BY <1>1 DEF ResumeAfterUserUpdates, TaskDomain, Status, ErrorRef
<1>4. SoundUpdate(task[t], row)
  BY <1>1, <1>3 DEF ResumeAfterUser, ResumeAfterUserUpdates, SoundUpdate, RowOK, TaskDomain
<1> QED
  BY <1>2, <1>3, <1>4, OneRow DEF BusInv

\* resume_after_confirmation() applies the same update.
LEMMA ResumeAfterConfirmationSound ==
    ASSUME BusInv, NEW t \in Task, NEW c \in Confirmation, ResumeAfterConfirmation(t, c)
    PROVE  SoundStep
<1> DEFINE row == ResumeAfterUserUpdates(task[t])
<1>1. task[t] \in TaskDomain /\ RowOK(task[t])
  BY RowsOK
<1>2. task' = [task EXCEPT ![t] = row]
  BY DEF ResumeAfterConfirmation
<1>3. row \in TaskDomain
  BY <1>1 DEF ResumeAfterUserUpdates, TaskDomain, Status, ErrorRef
<1>4. SoundUpdate(task[t], row)
  BY <1>1, <1>3 DEF ResumeAfterConfirmation, ResumeAfterUserUpdates, SoundUpdate, RowOK, TaskDomain
<1> QED
  BY <1>2, <1>3, <1>4, OneRow DEF BusInv

\* skip() leaves claim and links alone, which pending and running rows allow.
LEMMA SkipSound ==
    ASSUME BusInv, NEW t \in Task, Skip(t)
    PROVE  SoundStep
<1> DEFINE row == [task[t] EXCEPT !.status = "failed", !.error = "skipped"]
<1>1. task[t] \in TaskDomain /\ RowOK(task[t])
  BY RowsOK
<1>2. task' = [task EXCEPT ![t] = row]
  BY DEF Skip
<1>3. row \in TaskDomain
  BY <1>1 DEF TaskDomain, Status, ErrorRef
<1>4. SoundUpdate(task[t], row)
  BY <1>1, <1>3 DEF Skip, SoundUpdate, RowOK, TaskDomain
<1> QED
  BY <1>2, <1>3, <1>4, OneRow DEF BusInv

\* retry() is the one update that withdraws a stop request.
LEMMA RetrySound ==
    ASSUME BusInv, NEW t \in Task, Retry(t)
    PROVE  SoundStep
<1> DEFINE row == RetryUpdates(task[t])
<1>1. task[t] \in TaskDomain /\ RowOK(task[t])
  BY RowsOK
<1>2. task' = [task EXCEPT ![t] = row]
  BY DEF Retry
<1>3. row \in TaskDomain
  BY <1>1 DEF RetryUpdates, TaskDomain, Status, ErrorRef
<1>4. SoundUpdate(task[t], row)
  BY <1>1, <1>3 DEF Retry, RetryUpdates, SoundUpdate, RowOK, TaskDomain
<1> QED
  BY <1>2, <1>3, <1>4, OneRow DEF BusInv

\* request_interrupt() cancels a pending row and marks a running one.
LEMMA RequestInterruptSound ==
    ASSUME BusInv, NEW t \in Task, RequestInterrupt(t)
    PROVE  SoundStep
<1> DEFINE cancelled == [InterruptUpdates(task[t]) EXCEPT !.status = "failed", !.error = "cancelled"]
<1> DEFINE row == IF task[t].status = "pending" THEN cancelled ELSE InterruptUpdates(task[t])
<1>1. task[t] \in TaskDomain /\ RowOK(task[t])
  BY RowsOK
<1>2. task' = [task EXCEPT ![t] = row]
  BY DEF RequestInterrupt
<1>3. cancelled \in TaskDomain /\ InterruptUpdates(task[t]) \in TaskDomain
  BY <1>1 DEF InterruptUpdates, TaskDomain, Status, ErrorRef
<1>4. task[t].status = "pending" => SoundUpdate(task[t], cancelled)
  BY <1>1, <1>3 DEF InterruptUpdates, SoundUpdate, RowOK, TaskDomain
<1>5. task[t].status = "running" => SoundUpdate(task[t], InterruptUpdates(task[t]))
  BY <1>1, <1>3 DEF InterruptUpdates, SoundUpdate, RowOK, TaskDomain
<1>6. row \in TaskDomain /\ SoundUpdate(task[t], row)
  BY <1>3, <1>4, <1>5 DEF RequestInterrupt
<1> QED
  BY <1>2, <1>6, OneRow DEF BusInv

\* claim_next() claims a row whose parent is done.
LEMMA ClaimNextSound ==
    ASSUME BusInv, NEW s \in Session, NEW cap \in Capability, NEW agent \in Agent,
           ClaimNext(s, cap, agent)
    PROVE  SoundStep
<1>1. PICK t \in Task : IsNext(t, s, cap) /\ ClaimTask(t, agent)
  BY DEF ClaimNext
<1> DEFINE row == [task[t] EXCEPT !.status = "running", !.claimedBy = agent]
<1>2. task[t] \in TaskDomain /\ RowOK(task[t])
  BY RowsOK
<1>3. task[t].status = "pending" /\ ParentIsDone(t)
  BY <1>1 DEF IsNext, Claimable, Eligible
<1>4. task' = [task EXCEPT ![t] = row]
  BY <1>1 DEF ClaimTask
<1>5. row \in TaskDomain
  BY <1>2 DEF TaskDomain, Status
<1>6. SoundUpdate(task[t], row)
  BY <1>2, <1>3, <1>5, NoneAssumption DEF ParentIsDone, SoundUpdate, RowOK, TaskDomain
<1> QED
  BY <1>4, <1>5, <1>6, OneRow DEF BusInv

\* The startup scan updates every row it touches soundly.
LEMMA RecoverSound ==
    ASSUME BusInv, NEW s \in Session, RecoverInterruptedRunningTasks(s)
    PROVE  SoundStep
<1>1. ASSUME NEW t \in Task, InterruptedRunning(t)
      PROVE  SoundUpdate(task[t], RecoverInterruptedRunningUpdates(task[t]))
  <2>1. task[t] \in TaskDomain /\ RowOK(task[t])
    BY RowsOK
  <2>2. RecoverInterruptedRunningUpdates(task[t]) \in TaskDomain
    BY <2>1 DEF RecoverInterruptedRunningUpdates, FailUpdates, TaskDomain, Status, ErrorRef
  <2> QED
    BY <1>1, <2>1, <2>2
    DEF InterruptedRunning, RecoverInterruptedRunningUpdates, FailUpdates, SoundUpdate,
        RowOK, TaskDomain
<1>2. ASSUME NEW t \in Task
      PROVE  task'[t] = task[t] \/ SoundUpdate(task[t], task'[t])
  BY <1>1, <1>2 DEF RecoverInterruptedRunningTasks
<1>3. ASSUME NEW t \in Task
      PROVE  task'[t] \in TaskDomain
  BY <1>2, <1>3, RowsOK DEF SoundUpdate
<1>4. task' \in [Task -> TaskDomain]
  BY <1>3 DEF RecoverInterruptedRunningTasks
<1> QED
  BY <1>2, <1>4 DEF SoundStep

\* Every operation but publish only makes sound updates.
LEMMA StepIsSound ==
    ASSUME BusInv, BusNext
    PROVE  PublishStep \/ SoundStep
BY CompleteSound, FailSound, WaitForUserSound, WaitForConfirmationSound,
   ResumeAfterUserSound, ResumeAfterConfirmationSound, SkipSound, RetrySound,
   RequestInterruptSound, ClaimNextSound, RecoverSound
DEF BusNext, PublishStep

-----------------------------------------------------------------------------
(* The invariant.                                                          *)

\* The blank row of an unpublished id is a well-typed row.
LEMMA UnpublishedInDomain == \A t \in Task : UnpublishedTask(t) \in TaskDomain
BY DEF UnpublishedTask, TaskDomain, Status, ErrorRef

\* The fields of the blank row.
LEMMA UnpublishedFields ==
    ASSUME NEW t \in Task
    PROVE  LET row == UnpublishedTask(t)
           IN  /\ row.status = "unpublished" /\ row.claimedBy = NoAgent
               /\ row.ask = NoAsk /\ row.conf = NoConfirmation
               /\ ~row.interrupt /\ ~row.result /\ row.error = "none"
BY DEF UnpublishedTask

\* publish() keeps the invariant: a new row is a good row, nothing hangs below
\* it yet, and it hangs below a published parent with the same root.
LEMMA PublishKeepsInv ==
    ASSUME BusInv, NEW t \in Task, NEW r \in Task, NEW p \in Task \cup {NoTask},
           Publish(t, p, r)
    PROVE  BusInv'
<1> DEFINE row == PublishedTask(t, p, r)
<1>1. /\ row.status = "pending" /\ row.parent = p /\ row.root = r
      /\ row.claimedBy = NoAgent /\ row.ask = NoAsk /\ row.conf = NoConfirmation
      /\ ~row.result /\ row.error = "none"
  BY DEF PublishedTask, UnpublishedTask
<1>2. row \in TaskDomain
  <2>1. UnpublishedTask(t) \in TaskDomain
    BY UnpublishedInDomain
  <2> QED
    BY <2>1 DEF PublishedTask, TaskDomain, Status
<1>3. /\ task' \in [Task -> TaskDomain]
      /\ task'[t] = row
      /\ \A u \in Task : u # t => task'[u] = task[u]
  BY <1>2 DEF Publish, BusInv, BusTypeOK
<1>4. task[t].status = "unpublished"
  BY DEF Publish, Published
<1>5. BusTypeOK'
  BY <1>3 DEF BusTypeOK
<1>6. \A u \in Task : RowOK(task'[u])
  BY <1>1, <1>3, RowsOK DEF RowOK
<1>7. WaitingLinkage' /\ ClaimRecorded' /\ OutcomeMatchesStatus'
  BY <1>6 DEF RowOK, WaitingLinkage, ClaimRecorded, OutcomeMatchesStatus
<1>8. ParentDoneFirst'
  BY <1>1, <1>3, <1>4, RowsOK DEF BusInv, ParentDoneFirst, TaskDomain
<1>9. RootConsistent'
  <2>1. ASSUME NEW u \in Task, u # t, Published(u)
        PROVE  task[u].root # t /\ task[u].parent # t
    BY <1>4, <2>1, NoneAssumption DEF BusInv, RootConsistent, Published
  <2>2. ASSUME NEW u \in Task, u # t, task'[u].status # "unpublished"
        PROVE  /\ task'[task'[u].root].status # "unpublished"
               /\ task'[task'[u].root].parent = NoTask
               /\ SessionOf[task'[u].root] = SessionOf[u]
               /\ task'[u].parent # NoTask =>
                     /\ task'[task'[u].parent].status # "unpublished"
                     /\ task'[task'[u].parent].root = task'[u].root
                     /\ SessionOf[task'[u].parent] = SessionOf[u]
    <3>1. Published(u) /\ task'[u] = task[u] /\ task[u] \in TaskDomain
      BY <1>3, <2>2, RowsOK DEF Published
    <3>2. task'[task[u].root] = task[task[u].root]
      BY <1>3, <2>1, <2>2, <3>1 DEF TaskDomain
    <3>3. task[u].parent # NoTask => task'[task[u].parent] = task[task[u].parent]
      BY <1>3, <2>1, <2>2, <3>1 DEF TaskDomain
    <3> QED
      BY <3>1, <3>2, <3>3 DEF BusInv, RootConsistent, Published
  <2>3. p = NoTask => r = t
    BY DEF Publish
  <2>4. p # NoTask => /\ p \in Task /\ p # t
                      /\ Published(p) /\ task[p].root = r /\ SessionOf[p] = SessionOf[t]
                      /\ r # t
    BY <1>4, <2>1 DEF Publish, Published
  <2>5. p # NoTask => Published(r) /\ task[r].parent = NoTask /\ SessionOf[r] = SessionOf[p]
    BY <2>4 DEF BusInv, RootConsistent
  <2> QED
    BY <1>1, <1>3, <2>2, <2>3, <2>4, <2>5 DEF RootConsistent, Published
<1>10. UnpublishedBlank'
  BY <1>1, <1>3 DEF BusInv, UnpublishedBlank, Published
<1> QED
  BY <1>5, <1>7, <1>8, <1>9, <1>10 DEF BusInv

\* Sound updates keep the invariant: they leave the tree alone, they touch no
\* done row, and they claim a row only under a parent that is done.
LEMMA SoundStepKeepsInv ==
    ASSUME BusInv, SoundStep
    PROVE  BusInv'
<1>1. BusTypeOK'
  BY DEF SoundStep, BusTypeOK
<1>2. \A t \in Task : RowOK(task'[t])
  BY RowsOK DEF SoundStep, SoundUpdate
<1>3. WaitingLinkage' /\ ClaimRecorded' /\ OutcomeMatchesStatus'
  BY <1>2 DEF RowOK, WaitingLinkage, ClaimRecorded, OutcomeMatchesStatus
<1>4. \A t \in Task : /\ task'[t].parent = task[t].parent
                      /\ task'[t].root = task[t].root
                      /\ task'[t].status = "unpublished" <=> task[t].status = "unpublished"
                      /\ task[t].status = "done" => task'[t].status = "done"
  BY DEF SoundStep, SoundUpdate
<1>5. \A t \in Task : task[t].root \in Task /\ task[t].parent \in Task \cup {NoTask}
  BY RowsOK DEF TaskDomain
<1>6. ParentDoneFirst'
  <2> SUFFICES ASSUME NEW t \in Task, task'[t].claimedBy # NoAgent, task'[t].parent # NoTask
               PROVE  task'[task'[t].parent].status = "done"
    BY DEF ParentDoneFirst
  <2>1. task[task[t].parent].status = "done"
    BY <1>4 DEF SoundStep, SoundUpdate, BusInv, ParentDoneFirst
  <2> QED
    BY <1>4, <1>5, <2>1
<1>7. RootConsistent'
  BY <1>4, <1>5 DEF BusInv, RootConsistent, Published
<1>8. UnpublishedBlank'
  BY <1>4 DEF SoundStep, SoundUpdate, BusInv, UnpublishedBlank, Published
<1> QED
  BY <1>1, <1>3, <1>6, <1>7, <1>8 DEF BusInv

\* The empty table satisfies the invariant.
LEMMA InitInv == BusInit => BusInv
<1> SUFFICES ASSUME BusInit PROVE BusInv
  OBVIOUS
<1>1. \A t \in Task : task[t] = UnpublishedTask(t)
  BY DEF BusInit
<1>2. ASSUME NEW t \in Task
      PROVE  /\ task[t].status = "unpublished" /\ task[t].claimedBy = NoAgent
             /\ task[t].ask = NoAsk /\ task[t].conf = NoConfirmation
             /\ ~task[t].result /\ task[t].error = "none"
  BY <1>1, UnpublishedFields
<1>3. BusTypeOK /\ UnpublishedBlank
  BY <1>1, UnpublishedInDomain DEF BusInit, BusTypeOK, UnpublishedBlank
<1>4. WaitingLinkage /\ ClaimRecorded /\ OutcomeMatchesStatus
  BY <1>2 DEF WaitingLinkage, ClaimRecorded, OutcomeMatchesStatus
<1>5. ParentDoneFirst /\ RootConsistent
  BY <1>2 DEF ParentDoneFirst, RootConsistent, Published
<1> QED
  BY <1>3, <1>4, <1>5 DEF BusInv

\* Every operation keeps the invariant.
LEMMA NextInv == BusInv /\ [BusNext]_busVars => BusInv'
<1> SUFFICES ASSUME BusInv, [BusNext]_busVars PROVE BusInv'
  OBVIOUS
<1>1. CASE BusNext
  BY <1>1, StepIsSound, PublishKeepsInv, SoundStepKeepsInv DEF PublishStep
<1>2. CASE UNCHANGED busVars
  BY <1>2 DEF busVars, BusInv, BusTypeOK, UnpublishedBlank, WaitingLinkage, ClaimRecorded,
              ParentDoneFirst, RootConsistent, OutcomeMatchesStatus, Published
<1> QED
  BY <1>1, <1>2

\* Every reachable table satisfies BusInv.
THEOREM BusInvariant == BusSpec => []BusInv
BY InitInv, NextInv, PTL DEF BusSpec

\* Every row of the table is a TaskDomain record, whatever the clients call.
THEOREM TypeCorrect == BusSpec => []BusTypeOK
<1>1. BusInv => BusTypeOK
  BY DEF BusInv
<1> QED
  BY BusInvariant, <1>1, PTL

\* No child is ever started before its parent is done.
THEOREM ParentFirst == BusSpec => []ParentDoneFirst
<1>1. BusInv => ParentDoneFirst
  BY DEF BusInv
<1> QED
  BY BusInvariant, <1>1, PTL

\* Waiting links, claims and outcomes agree with the status of the row.
THEOREM RowsConsistent == BusSpec => [](WaitingLinkage /\ ClaimRecorded /\ OutcomeMatchesStatus)
<1>1. BusInv => WaitingLinkage /\ ClaimRecorded /\ OutcomeMatchesStatus
  BY DEF BusInv
<1> QED
  BY BusInvariant, <1>1, PTL

\* Published tasks form trees of one session with an agreed root.
THEOREM TreesConsistent == BusSpec => []RootConsistent
<1>1. BusInv => RootConsistent
  BY DEF BusInv
<1> QED
  BY BusInvariant, <1>1, PTL

-----------------------------------------------------------------------------
(* The action properties.                                                  *)

\* A done row never changes again.
THEOREM DoneForever == BusSpec => DoneIsFinal
<1>1. BusInv /\ [BusNext]_busVars =>
        [\A t \in Task : task[t].status = "done" => task'[t] = task[t]]_busVars
  <2> SUFFICES ASSUME BusInv, BusNext, NEW t \in Task, task[t].status = "done"
               PROVE  task'[t] = task[t]
    BY DEF busVars
  <2>1. CASE PublishStep
    BY <2>1 DEF PublishStep, Publish, Published, BusInv, BusTypeOK
  <2>2. CASE SoundStep
    BY <2>2 DEF SoundStep, SoundUpdate
  <2> QED
    BY <2>1, <2>2, StepIsSound
<1> QED
  BY BusInvariant, <1>1, PTL DEF BusSpec, DoneIsFinal

\* A stop request is only withdrawn by the retry of the failed task.
THEOREM StopStays == BusSpec => StopRequestSticks
<1>1. BusInv /\ [BusNext]_busVars =>
        [\A t \in Task : task[t].interrupt /\ ~task'[t].interrupt
            => task[t].status = "failed" /\ task'[t].status = "pending"]_busVars
  <2> SUFFICES ASSUME BusInv, BusNext, NEW t \in Task, task[t].interrupt, ~task'[t].interrupt
               PROVE  task[t].status = "failed" /\ task'[t].status = "pending"
    BY DEF busVars
  <2>1. CASE PublishStep
    <3>1. PICK u, r \in Task, p \in Task \cup {NoTask} : Publish(u, p, r)
      BY <2>1 DEF PublishStep
    <3>2. u # t => task'[t] = task[t]
      BY <3>1 DEF Publish, BusInv, BusTypeOK
    <3>3. ~task[u].interrupt
      BY <3>1, UnpublishedFields DEF Publish, BusInv, UnpublishedBlank
    <3> QED
      BY <3>2, <3>3
  <2>2. CASE SoundStep
    BY <2>2 DEF SoundStep, SoundUpdate
  <2> QED
    BY <2>1, <2>2, StepIsSound
<1> QED
  BY BusInvariant, <1>1, PTL DEF BusSpec, StopRequestSticks

-----------------------------------------------------------------------------
(* The refinement of TaskLifecycle.                                        *)

phaseBar == [t \in Task |-> PhaseOf(task[t].status)]

parentBar == [t \in Task |-> task[t].parent]

\* A step that changes one row and not its parent changes one phase.
LEMMA OnePhase ==
    ASSUME BusTypeOK, NEW t \in Task, NEW row \in TaskDomain,
           task' = [task EXCEPT ![t] = row], row.parent = task[t].parent
    PROVE  /\ phaseBar' = [phaseBar EXCEPT ![t] = PhaseOf(row.status)]
           /\ parentBar' = parentBar
<1>1. task'[t] = row /\ \A u \in Task : u # t => task'[u] = task[u]
  BY DEF BusTypeOK
<1>2. phaseBar' = [phaseBar EXCEPT ![t] = PhaseOf(row.status)]
  <2>1. phaseBar' = [u \in Task |-> PhaseOf(task'[u].status)]
    BY DEF phaseBar
  <2>2. [phaseBar EXCEPT ![t] = PhaseOf(row.status)] =
          [u \in Task |-> IF u = t THEN PhaseOf(row.status) ELSE PhaseOf(task[u].status)]
    BY DEF phaseBar
  <2>3. \A u \in Task : PhaseOf(task'[u].status) =
                        IF u = t THEN PhaseOf(row.status) ELSE PhaseOf(task[u].status)
    BY <1>1
  <2> QED
    BY <2>1, <2>2, <2>3
<1>3. parentBar' = parentBar
  BY <1>1 DEF parentBar
<1> QED
  BY <1>2, <1>3

\* PhaseOf, value by value.
LEMMA PhaseValues ==
    /\ PhaseOf("unpublished") = "absent"
    /\ PhaseOf("pending") = "queued"
    /\ PhaseOf("running") = "active"
    /\ PhaseOf("waiting_for_user") = "paused"
    /\ PhaseOf("done") = "succeeded"
    /\ PhaseOf("failed") = "failed"
BY DEF PhaseOf

\* Each kind of one-row update, seen as a step of the lifecycle.
LEMMA UpdateIsLifecycleStep ==
    ASSUME BusTypeOK, NEW t \in Task, NEW row \in TaskDomain,
           task' = [task EXCEPT ![t] = row], row.parent = task[t].parent,
           \/ row.status = task[t].status
           \/ task[t].status = "running" /\ row.status \in {"done", "waiting_for_user"}
           \/ /\ task[t].status \in {"pending", "running", "waiting_for_user"}
              /\ row.status = "failed"
           \/ task[t].status \in {"waiting_for_user", "failed"} /\ row.status = "pending"
           \/ /\ task[t].status = "pending" /\ row.status = "running" /\ ParentIsDone(t)
              /\ task[t].parent \in Task \cup {NoTask}
    PROVE  [Lifecycle!LifecycleNext]_(<<phaseBar, parentBar>>)
<1>1. /\ phaseBar' = [phaseBar EXCEPT ![t] = PhaseOf(row.status)]
      /\ parentBar' = parentBar
      /\ phaseBar[t] = PhaseOf(task[t].status)
      /\ parentBar[t] = task[t].parent
  BY OnePhase DEF phaseBar, parentBar
<1>2. CASE row.status = task[t].status
  <2>1. phaseBar' = phaseBar
    BY <1>1, <1>2 DEF phaseBar
  <2> QED
    BY <1>1, <2>1
<1>3. CASE task[t].status = "running" /\ row.status = "done"
  <2>1. Lifecycle!Succeed(t)
    BY <1>1, <1>3, PhaseValues DEF Lifecycle!Succeed, phaseBar, parentBar
  <2> QED
    BY <2>1 DEF Lifecycle!LifecycleNext
<1>4. CASE task[t].status = "running" /\ row.status = "waiting_for_user"
  <2>1. Lifecycle!Pause(t)
    BY <1>1, <1>4, PhaseValues DEF Lifecycle!Pause, phaseBar, parentBar
  <2> QED
    BY <2>1 DEF Lifecycle!LifecycleNext
<1>5. CASE /\ task[t].status \in {"pending", "running", "waiting_for_user"}
           /\ row.status = "failed"
  <2>1. phaseBar[t] \in {"queued", "active", "paused"}
    BY <1>1, <1>5, PhaseValues
  <2>2. phaseBar' = [u \in Task |-> IF u \in {t} THEN "failed" ELSE phaseBar[u]]
    BY <1>1, <1>5, PhaseValues DEF phaseBar
  <2>3. Lifecycle!FailTasks({t})
    BY <1>1, <2>1, <2>2 DEF Lifecycle!FailTasks, phaseBar, parentBar
  <2> QED
    BY <2>3 DEF Lifecycle!LifecycleNext
<1>6. CASE task[t].status \in {"waiting_for_user", "failed"} /\ row.status = "pending"
  <2>1. Lifecycle!Requeue(t)
    BY <1>1, <1>6, PhaseValues DEF Lifecycle!Requeue, phaseBar, parentBar
  <2> QED
    BY <2>1 DEF Lifecycle!LifecycleNext
<1>7. CASE /\ task[t].status = "pending" /\ row.status = "running" /\ ParentIsDone(t)
           /\ task[t].parent \in Task \cup {NoTask}
  <2>1. task[t].parent # NoTask => phaseBar[task[t].parent] = "succeeded"
    BY <1>7, PhaseValues DEF ParentIsDone, phaseBar
  <2>2. Lifecycle!Start(t)
    BY <1>1, <1>7, <2>1, PhaseValues DEF Lifecycle!Start, phaseBar, parentBar
  <2> QED
    BY <2>2 DEF Lifecycle!LifecycleNext
<1> QED
  BY <1>2, <1>3, <1>4, <1>5, <1>6, <1>7

\* publish() is the entry of a task.
LEMMA PublishIsEnter ==
    ASSUME BusInv, NEW t \in Task, NEW r \in Task, NEW p \in Task \cup {NoTask},
           Publish(t, p, r)
    PROVE  Lifecycle!Enter(t, p)
<1>1. PublishedTask(t, p, r).status = "pending" /\ PublishedTask(t, p, r).parent = p
  BY DEF PublishedTask, UnpublishedTask
<1>2. /\ task'[t] = PublishedTask(t, p, r)
      /\ \A u \in Task : u # t => task'[u] = task[u]
  BY DEF Publish, BusInv, BusTypeOK
<1>3. task[t].status = "unpublished"
  BY DEF Publish, Published
<1>4. phaseBar' = [phaseBar EXCEPT ![t] = "queued"]
  <2>1. \A u \in Task : PhaseOf(task'[u].status) =
                        IF u = t THEN "queued" ELSE PhaseOf(task[u].status)
    BY <1>1, <1>2, PhaseValues
  <2>2. phaseBar' = [u \in Task |-> PhaseOf(task'[u].status)]
    BY DEF phaseBar
  <2>3. [phaseBar EXCEPT ![t] = "queued"] =
          [u \in Task |-> IF u = t THEN "queued" ELSE PhaseOf(task[u].status)]
    BY DEF phaseBar
  <2> QED
    BY <2>1, <2>2, <2>3
<1>5. parentBar' = [parentBar EXCEPT ![t] = p]
  BY <1>1, <1>2 DEF parentBar
<1>6. p # NoTask => phaseBar[p] # "absent"
  <2> SUFFICES ASSUME p # NoTask PROVE phaseBar[p] # "absent"
    OBVIOUS
  <2>1. p \in Task /\ task[p].status \in Status \ {"unpublished"}
    BY RowsOK DEF Publish, Published, TaskDomain
  <2> QED
    BY <2>1, PhaseValues DEF Status, phaseBar
<1>7. phaseBar[t] = "absent"
  BY <1>3, PhaseValues DEF phaseBar
<1> QED
  BY <1>4, <1>5, <1>6, <1>7 DEF Lifecycle!Enter, phaseBar, parentBar

\* The startup scan fails the interrupted runs of the session at once.
LEMMA RecoverIsFailTasks ==
    ASSUME BusInv, NEW s \in Session, RecoverInterruptedRunningTasks(s)
    PROVE  \E T \in SUBSET Task : Lifecycle!FailTasks(T)
<1> DEFINE T == {t \in Task : SessionOf[t] = s /\ InterruptedRunning(t)}
<1>1. ASSUME NEW t \in Task
      PROVE  /\ RecoverInterruptedRunningUpdates(task[t]).status = "failed"
             /\ RecoverInterruptedRunningUpdates(task[t]).parent = task[t].parent
  <2>1. task[t] \in TaskDomain
    BY RowsOK
  <2> QED
    BY <2>1 DEF RecoverInterruptedRunningUpdates, FailUpdates, TaskDomain
<1>2. ASSUME NEW t \in Task
      PROVE  task'[t] = IF t \in T THEN RecoverInterruptedRunningUpdates(task[t]) ELSE task[t]
  BY DEF RecoverInterruptedRunningTasks
<1>3. ASSUME NEW t \in Task
      PROVE  /\ PhaseOf(task'[t].status) = IF t \in T THEN "failed" ELSE PhaseOf(task[t].status)
             /\ task'[t].parent = task[t].parent
  BY <1>1, <1>2, PhaseValues
<1>4. phaseBar' = [t \in Task |-> IF t \in T THEN "failed" ELSE phaseBar[t]]
  <2>1. phaseBar' = [t \in Task |-> PhaseOf(task'[t].status)]
    BY DEF phaseBar
  <2>2. \A t \in Task : phaseBar[t] = PhaseOf(task[t].status)
    BY DEF phaseBar
  <2> QED
    BY <1>3, <2>1, <2>2
<1>5. parentBar' = parentBar
  BY <1>3 DEF parentBar
<1>6. \A t \in T : phaseBar[t] \in {"queued", "active", "paused"}
  BY PhaseValues DEF InterruptedRunning, phaseBar
<1>7. Lifecycle!FailTasks(T)
  BY <1>4, <1>5, <1>6 DEF Lifecycle!FailTasks, phaseBar, parentBar
<1> QED
  BY <1>7

(* The operations that write one row, seen through the mapping.            *)

LifecycleStep == [Lifecycle!LifecycleNext]_(<<phaseBar, parentBar>>)

\* complete() is Succeed.
LEMMA CompleteMaps ==
    ASSUME BusInv, NEW t \in Task, NEW hasResult \in BOOLEAN, Complete(t, hasResult)
    PROVE  LifecycleStep
<1> DEFINE row == [task[t] EXCEPT !.status = "done", !.result = hasResult, !.error = "none"]
<1>1. task[t] \in TaskDomain
  BY RowsOK
<1>2. task' = [task EXCEPT ![t] = row]
  BY DEF Complete
<1>3. row \in TaskDomain /\ row.parent = task[t].parent
  BY <1>1 DEF TaskDomain, Status, ErrorRef
<1>4. row.status = "done"
  BY <1>1 DEF TaskDomain
<1> HIDE DEF row
<1> QED
  BY <1>2, <1>3, <1>4, UpdateIsLifecycleStep DEF BusInv, LifecycleStep, Complete, CanComplete

\* fail() is FailTasks of one task.
LEMMA FailMaps ==
    ASSUME BusInv, NEW t \in Task, NEW e \in {"failed", "cancelled"}, Fail(t, e)
    PROVE  LifecycleStep
<1> DEFINE row == FailUpdates(task[t], e)
<1>1. task[t] \in TaskDomain
  BY RowsOK
<1>2. task' = [task EXCEPT ![t] = row]
  BY DEF Fail
<1>3. row \in TaskDomain /\ row.parent = task[t].parent
  BY <1>1 DEF FailUpdates, TaskDomain, Status, ErrorRef
<1>4. row.status = "failed"
  BY <1>1 DEF FailUpdates, TaskDomain
<1> HIDE DEF row
<1> QED
  BY <1>2, <1>3, <1>4, UpdateIsLifecycleStep DEF BusInv, LifecycleStep, Fail, CanFail

\* wait_for_user() is Pause.
LEMMA WaitForUserMaps ==
    ASSUME BusInv, NEW t \in Task, NEW a \in Ask, WaitForUser(t, a)
    PROVE  LifecycleStep
<1> DEFINE row == WaitForUserUpdates(task[t], a)
<1>1. task[t] \in TaskDomain
  BY RowsOK
<1>2. task' = [task EXCEPT ![t] = row]
  BY DEF WaitForUser
<1>3. row \in TaskDomain /\ row.parent = task[t].parent
  BY <1>1 DEF WaitForUserUpdates, TaskDomain, Status, ErrorRef
<1>4. row.status = "waiting_for_user"
  BY <1>1 DEF WaitForUserUpdates, TaskDomain
<1> HIDE DEF row
<1> QED
  BY <1>2, <1>3, <1>4, UpdateIsLifecycleStep DEF BusInv, LifecycleStep, WaitForUser

\* wait_for_confirmation() is Pause.
LEMMA WaitForConfirmationMaps ==
    ASSUME BusInv, NEW t \in Task, NEW c \in Confirmation, WaitForConfirmation(t, c)
    PROVE  LifecycleStep
<1> DEFINE row == WaitForUserConfirmationUpdates(task[t], c)
<1>1. task[t] \in TaskDomain
  BY RowsOK
<1>2. task' = [task EXCEPT ![t] = row]
  BY DEF WaitForConfirmation
<1>3. row \in TaskDomain /\ row.parent = task[t].parent
  BY <1>1 DEF WaitForUserConfirmationUpdates, TaskDomain, Status, ErrorRef
<1>4. row.status = "waiting_for_user"
  BY <1>1 DEF WaitForUserConfirmationUpdates, TaskDomain
<1> HIDE DEF row
<1> QED
  BY <1>2, <1>3, <1>4, UpdateIsLifecycleStep DEF BusInv, LifecycleStep, WaitForConfirmation

\* resume_after_user() is Requeue.
LEMMA ResumeAfterUserMaps ==
    ASSUME BusInv, NEW t \in Task, NEW a \in Ask, ResumeAfterUser(t, a)
    PROVE  LifecycleStep
<1> DEFINE row == ResumeAfterUserUpdates(task[t])
<1>1. task[t] \in TaskDomain
  BY RowsOK
<1>2. task' = [task EXCEPT ![t] = row]
  BY DEF ResumeAfterUser
<1>3. row \in TaskDomain /\ row.parent = task[t].parent
  BY <1>1 DEF ResumeAfterUserUpdates, TaskDomain, Status, ErrorRef
<1>4. row.status = "pending"
  BY <1>1 DEF ResumeAfterUserUpdates, TaskDomain
<1> HIDE DEF row
<1> QED
  BY <1>2, <1>3, <1>4, UpdateIsLifecycleStep DEF BusInv, LifecycleStep, ResumeAfterUser

\* resume_after_confirmation() is Requeue.
LEMMA ResumeAfterConfirmationMaps ==
    ASSUME BusInv, NEW t \in Task, NEW c \in Confirmation, ResumeAfterConfirmation(t, c)
    PROVE  LifecycleStep
<1> DEFINE row == ResumeAfterUserUpdates(task[t])
<1>1. task[t] \in TaskDomain
  BY RowsOK
<1>2. task' = [task EXCEPT ![t] = row]
  BY DEF ResumeAfterConfirmation
<1>3. row \in TaskDomain /\ row.parent = task[t].parent
  BY <1>1 DEF ResumeAfterUserUpdates, TaskDomain, Status, ErrorRef
<1>4. row.status = "pending"
  BY <1>1 DEF ResumeAfterUserUpdates, TaskDomain
<1> HIDE DEF row
<1> QED
  BY <1>2, <1>3, <1>4, UpdateIsLifecycleStep DEF BusInv, LifecycleStep, ResumeAfterConfirmation

\* skip() is FailTasks of one task.
LEMMA SkipMaps ==
    ASSUME BusInv, NEW t \in Task, Skip(t)
    PROVE  LifecycleStep
<1> DEFINE row == [task[t] EXCEPT !.status = "failed", !.error = "skipped"]
<1>1. task[t] \in TaskDomain
  BY RowsOK
<1>2. task' = [task EXCEPT ![t] = row]
  BY DEF Skip
<1>3. row \in TaskDomain /\ row.parent = task[t].parent
  BY <1>1 DEF TaskDomain, Status, ErrorRef
<1>4. row.status = "failed"
  BY <1>1 DEF TaskDomain
<1> HIDE DEF row
<1> QED
  BY <1>2, <1>3, <1>4, UpdateIsLifecycleStep DEF BusInv, LifecycleStep, Skip

\* retry() is Requeue of a failed task.
LEMMA RetryMaps ==
    ASSUME BusInv, NEW t \in Task, Retry(t)
    PROVE  LifecycleStep
<1> DEFINE row == RetryUpdates(task[t])
<1>1. task[t] \in TaskDomain
  BY RowsOK
<1>2. task' = [task EXCEPT ![t] = row]
  BY DEF Retry
<1>3. row \in TaskDomain /\ row.parent = task[t].parent
  BY <1>1 DEF RetryUpdates, TaskDomain, Status, ErrorRef
<1>4. row.status = "pending"
  BY <1>1 DEF RetryUpdates, TaskDomain
<1> HIDE DEF row
<1> QED
  BY <1>2, <1>3, <1>4, UpdateIsLifecycleStep DEF BusInv, LifecycleStep, Retry

\* request_interrupt() is FailTasks of a queued task, or invisible.
LEMMA RequestInterruptMaps ==
    ASSUME BusInv, NEW t \in Task, RequestInterrupt(t)
    PROVE  LifecycleStep
<1> DEFINE row == IF task[t].status = "pending"
                   THEN [InterruptUpdates(task[t]) EXCEPT !.status = "failed", !.error = "cancelled"]
                   ELSE InterruptUpdates(task[t])
<1>1. task[t] \in TaskDomain
  BY RowsOK
<1>2. task' = [task EXCEPT ![t] = row]
  BY DEF RequestInterrupt
<1>3. row \in TaskDomain /\ row.parent = task[t].parent
  BY <1>1 DEF InterruptUpdates, TaskDomain, Status, ErrorRef
<1>4. row.status = IF task[t].status = "pending" THEN "failed" ELSE task[t].status
  BY <1>1 DEF InterruptUpdates, TaskDomain
<1> HIDE DEF row
<1> QED
  BY <1>2, <1>3, <1>4, UpdateIsLifecycleStep DEF BusInv, LifecycleStep, RequestInterrupt

\* claim_next() is Start.
LEMMA ClaimNextMaps ==
    ASSUME BusInv, NEW s \in Session, NEW cap \in Capability, NEW agent \in Agent,
           ClaimNext(s, cap, agent)
    PROVE  LifecycleStep
<1>1. PICK t \in Task : IsNext(t, s, cap) /\ ClaimTask(t, agent)
  BY DEF ClaimNext
<1> DEFINE row == [task[t] EXCEPT !.status = "running", !.claimedBy = agent]
<1>2. task[t] \in TaskDomain
  BY RowsOK
<1>3. task[t].status = "pending" /\ ParentIsDone(t)
  BY <1>1 DEF IsNext, Claimable, Eligible
<1>4. task' = [task EXCEPT ![t] = row]
  BY <1>1 DEF ClaimTask
<1>5. row \in TaskDomain /\ row.parent = task[t].parent /\ row.status = "running"
  BY <1>2 DEF TaskDomain, Status
<1>6. task[t].parent \in Task \cup {NoTask}
  BY <1>2 DEF TaskDomain
<1> HIDE DEF row
<1> QED
  BY <1>3, <1>4, <1>5, <1>6, UpdateIsLifecycleStep DEF BusInv, LifecycleStep

\* Every operation of the bus is a lifecycle step or a stutter.
LEMMA NextMaps == BusInv /\ [BusNext]_busVars => LifecycleStep
<1> SUFFICES ASSUME BusInv, [BusNext]_busVars PROVE LifecycleStep
  OBVIOUS
<1>1. CASE PublishStep
  <2>1. \E t \in Task, p \in Task \cup {NoTask} : Lifecycle!Enter(t, p)
    BY <1>1, PublishIsEnter DEF PublishStep
  <2> QED
    BY <2>1 DEF LifecycleStep, Lifecycle!LifecycleNext
<1>2. CASE \E s \in Session : RecoverInterruptedRunningTasks(s)
  <2>1. \E T \in SUBSET Task : Lifecycle!FailTasks(T)
    BY <1>2, RecoverIsFailTasks
  <2> QED
    BY <2>1 DEF LifecycleStep, Lifecycle!LifecycleNext
<1>3. CASE UNCHANGED busVars
  BY <1>3 DEF busVars, LifecycleStep, phaseBar, parentBar
<1> QED
  BY <1>1, <1>2, <1>3, CompleteMaps, FailMaps, WaitForUserMaps, WaitForConfirmationMaps,
     ResumeAfterUserMaps, ResumeAfterConfirmationMaps, SkipMaps, RetryMaps,
     RequestInterruptMaps, ClaimNextMaps
  DEF BusNext, PublishStep

\* The empty table maps to the initial lifecycle.
LEMMA InitMaps == BusInit => Lifecycle!LifecycleInit
<1> SUFFICES ASSUME BusInit PROVE Lifecycle!LifecycleInit
  OBVIOUS
<1>1. ASSUME NEW t \in Task
      PROVE  task[t].status = "unpublished" /\ task[t].parent = NoTask
  BY DEF BusInit, UnpublishedTask
<1>2. phaseBar = [t \in Task |-> "absent"]
  BY <1>1, PhaseValues DEF phaseBar
<1>3. parentBar = [t \in Task |-> NoTask]
  BY <1>1 DEF parentBar
<1> QED
  BY <1>2, <1>3 DEF Lifecycle!LifecycleInit, phaseBar, parentBar

\* Every behaviour of the bus is, phase by phase, a behaviour of TaskLifecycle.
THEOREM BusRefinesLifecycle == BusSpec => BusImplementsLifecycle
<1>1. LifecycleStep => [Lifecycle!LifecycleNext]_(Lifecycle!lifecycleVars)
  BY DEF LifecycleStep, Lifecycle!lifecycleVars, phaseBar, parentBar
<1> QED
  BY BusInvariant, InitMaps, NextMaps, <1>1, PTL
  DEF BusSpec, BusImplementsLifecycle, Lifecycle!LifecycleSpec
=============================================================================
