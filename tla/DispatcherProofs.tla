-------------------------- MODULE DispatcherProofs --------------------------
(***************************************************************************)
(* Proofs about the dispatcher for any number of sessions and of worker    *)
(* threads created one after another, and any max_ticks_per_trigger.       *)
(*                                                                         *)
(* The parts of DispatcherInv need each other: that at most one thread     *)
(* lives makes the running ids the one session being drained, and the      *)
(* coalescing of the queue makes the popped session the only one that      *)
(* leaves the pending ids.                                                 *)
(***************************************************************************)
EXTENDS Dispatcher, SequenceTheorems, TLAPS

\* The states in which a thread holds a session.
Drains(state) == state \in {"draining", "release", "raising"}

\* notify() moves parked threads to the head of the loop and no others.
LEMMA NotifiedFacts ==
    ASSUME pc \in [Thread -> ThreadState]
    PROVE  /\ Notified \in [Thread -> ThreadState]
           /\ \A w \in Thread :
                /\ Notified[w] # "parked"
                /\ Notified[w] \in {"unstarted", "dead"} <=> pc[w] \in {"unstarted", "dead"}
                /\ Drains(Notified[w]) <=> Drains(pc[w])
BY DEF Notified, ThreadState, Drains

\* Appending a session that is not in the queue keeps it free of duplicates.
LEMMA AppendCoalesced ==
    ASSUME queue \in Seq(Session), NEW s \in Session, QueueCoalesced, s \notin pendingIds,
           queue' = Append(queue, s), pendingIds' = pendingIds \cup {s}
    PROVE  QueueCoalesced'
<1>1. /\ Len(queue') = Len(queue) + 1
      /\ \A i \in 1 .. Len(queue) : queue'[i] = queue[i]
      /\ queue'[Len(queue) + 1] = s
      /\ Len(queue) \in Nat
  OBVIOUS
<1>2. \A i \in 1 .. Len(queue) : queue[i] # s
  BY DEF QueueCoalesced, InQueue
<1>3. \A r \in Session : InQueue(r)' <=> r \in pendingIds'
  BY <1>1 DEF QueueCoalesced, InQueue
<1>4. \A i, j \in 1 .. Len(queue') : queue'[i] = queue'[j] => i = j
  BY <1>1, <1>2 DEF QueueCoalesced
<1> QED
  BY <1>3, <1>4 DEF QueueCoalesced

\* Popping the head removes exactly that session from the queue.
LEMMA TailCoalesced ==
    ASSUME queue \in Seq(Session), queue # << >>, QueueCoalesced,
           queue' = Tail(queue), pendingIds' = pendingIds \ {Head(queue)}
    PROVE  QueueCoalesced'
<1>1. /\ Len(queue) \in Nat \ {0}
      /\ Len(queue') = Len(queue) - 1
      /\ \A i \in 1 .. Len(queue') : queue'[i] = queue[i + 1]
      /\ Head(queue) = queue[1]
  BY HeadTailProperties
<1>2. ASSUME NEW r \in Session PROVE InQueue(r)' <=> r \in pendingIds'
  <2>1. ASSUME InQueue(r)' PROVE r \in pendingIds'
    <3>1. PICK i \in 1 .. Len(queue') : queue'[i] = r
      BY <2>1 DEF InQueue
    <3>2. i + 1 \in 1 .. Len(queue) /\ queue[i + 1] = r
      BY <3>1, <1>1
    <3>3. r # queue[1]
      BY <3>2, <1>1 DEF QueueCoalesced
    <3> QED
      BY <3>2, <3>3, <1>1 DEF QueueCoalesced, InQueue
  <2>2. ASSUME r \in pendingIds' PROVE InQueue(r)'
    <3>1. PICK i \in 1 .. Len(queue) : queue[i] = r
      BY <2>2 DEF QueueCoalesced, InQueue
    <3>2. i # 1
      BY <2>2, <3>1, <1>1
    <3>3. i - 1 \in 1 .. Len(queue') /\ queue'[i - 1] = r
      BY <3>1, <3>2, <1>1
    <3> QED
      BY <3>3 DEF InQueue
  <2> QED
    BY <2>1, <2>2
<1>3. \A i, j \in 1 .. Len(queue') : queue'[i] = queue'[j] => i = j
  <2> SUFFICES ASSUME NEW i \in 1 .. Len(queue'), NEW j \in 1 .. Len(queue'),
                      queue'[i] = queue'[j]
               PROVE  i = j
    OBVIOUS
  <2>1. i + 1 \in 1 .. Len(queue) /\ j + 1 \in 1 .. Len(queue) /\ queue[i + 1] = queue[j + 1]
    BY <1>1
  <2>2. i + 1 = j + 1
    BY <2>1 DEF QueueCoalesced
  <2> QED
    BY <2>2, <1>1
<1> QED
  BY <1>2, <1>3 DEF QueueCoalesced

\* A new dispatcher, with an empty queue and no thread, satisfies the invariant.
LEMMA InitDispatcherInv == DispatcherInit => DispatcherInv
<1> SUFFICES ASSUME DispatcherInit PROVE DispatcherInv
  OBVIOUS
<1>1. DispatcherTypeOK
  <2>1. closed \in BOOLEAN
    BY DEF DispatcherInit
  <2>2. /\ queue \in Seq(Session)
        /\ pendingIds \in SUBSET Session /\ runningIds \in SUBSET Session
        /\ worker \in Thread \cup {NoThread}
        /\ pc \in [Thread -> ThreadState]
        /\ current \in [Thread -> Session \cup {NoSession}]
        /\ ticks \in [Thread -> 0 .. MaxTicks]
    BY DispatcherAssumption DEF DispatcherInit, ThreadState
  <2> QED
    BY <2>1, <2>2 DEF DispatcherTypeOK
<1>2. QueueCoalesced
  BY DEF DispatcherInit, QueueCoalesced, InQueue
<1>3. OneLiveWorker /\ RunningIdsMatchDrains /\ PendingNotRunning /\ NoParkedWithWork
  BY DEF DispatcherInit, OneLiveWorker, Live, RunningIdsMatchDrains, PendingNotRunning,
         NoParkedWithWork
<1> QED
  BY <1>1, <1>2, <1>3 DEF DispatcherInv

\* A step that only moves threads between states keeps the running ids right
\* when no thread starts or stops to hold a session.
LEMMA SameDrains ==
    ASSUME RunningIdsMatchDrains, runningIds' = runningIds, current' = current,
           \A w \in Thread : Drains(pc'[w]) <=> Drains(pc[w])
    PROVE  RunningIdsMatchDrains'
<1>1. {v \in Thread : pc'[v] \in {"draining", "release", "raising"}}
        = {v \in Thread : pc[v] \in {"draining", "release", "raising"}}
  BY DEF Drains
<1> QED
  BY <1>1 DEF RunningIdsMatchDrains

\* While the only live thread is not draining, no session is running.
LEMMA NoDrain ==
    ASSUME DispatcherInv, NEW w \in Thread, Live(w), ~Drains(pc[w])
    PROVE  runningIds = {}
<1>1. ASSUME NEW v \in Thread, Drains(pc[v]) PROVE FALSE
  <2>1. Live(v)
    BY <1>1 DEF Drains, Live
  <2> QED
    BY <1>1, <2>1 DEF DispatcherInv, OneLiveWorker
<1>2. {v \in Thread : pc[v] \in {"draining", "release", "raising"}} = {}
  BY <1>1 DEF Drains
<1> QED
  BY <1>2 DEF DispatcherInv, RunningIdsMatchDrains

\* request_dispatch: the early returns, the queue, and the worker that is woken
\* or created.
LEMMA RequestKeepsInv ==
    ASSUME DispatcherInv, NEW s \in Session, RequestDispatch(s)
    PROVE  DispatcherInv'
<1>1. CASE ~Accepts(s)
  BY <1>1 DEF RequestDispatch, DispatcherInv, DispatcherTypeOK, QueueCoalesced, InQueue,
              OneLiveWorker, Live, RunningIdsMatchDrains, PendingNotRunning, NoParkedWithWork
<1>2. CASE Accepts(s)
  <2>1. /\ queue' = Append(queue, s)
        /\ pendingIds' = pendingIds \cup {s}
        /\ EnsureWorkerLocked
        /\ runningIds' = runningIds /\ closed' = closed
        /\ current' = current /\ ticks' = ticks
        /\ s \notin pendingIds /\ s \notin runningIds
    BY <1>2 DEF RequestDispatch, Accepts
  <2>2. /\ queue \in Seq(Session)
        /\ pendingIds \in SUBSET Session
        /\ pc \in [Thread -> ThreadState]
        /\ worker \in Thread \cup {NoThread}
    BY DEF DispatcherInv, DispatcherTypeOK
  <2>3. /\ pc' \in [Thread -> ThreadState]
        /\ worker' \in Thread \cup {NoThread}
        /\ \A w \in Thread : pc'[w] # "parked" /\ (Drains(pc'[w]) <=> Drains(pc[w]))
        /\ OneLiveWorker'
    <3>1. CASE WorkerIsAlive
      <4>1. pc' = Notified /\ worker' = worker
        BY <2>1, <3>1 DEF EnsureWorkerLocked
      <4>2. /\ pc' \in [Thread -> ThreadState]
            /\ \A v \in Thread :
                /\ pc'[v] # "parked"
                /\ pc'[v] \in {"unstarted", "dead"} <=> pc[v] \in {"unstarted", "dead"}
                /\ Drains(pc'[v]) <=> Drains(pc[v])
        BY <2>2, <4>1, NotifiedFacts
      <4>3. OneLiveWorker'
        BY <4>1, <4>2 DEF DispatcherInv, OneLiveWorker, Live
      <4> QED
        BY <2>2, <4>1, <4>2, <4>3
    <3>2. CASE ~WorkerIsAlive
      <4>1. PICK w \in Thread : /\ pc[w] = "unstarted"
                                /\ worker' = w
                                /\ pc' = [Notified EXCEPT ![w] = "loop"]
        BY <2>1, <3>2 DEF EnsureWorkerLocked
      <4>2. \A v \in Thread : ~Live(v)
        BY <3>2, DispatcherAssumption DEF WorkerIsAlive, DispatcherInv, OneLiveWorker, Live
      <4>3. /\ Notified \in [Thread -> ThreadState]
            /\ \A v \in Thread :
                /\ Notified[v] # "parked"
                /\ Notified[v] \in {"unstarted", "dead"} <=> pc[v] \in {"unstarted", "dead"}
                /\ Drains(Notified[v]) <=> Drains(pc[v])
        BY <2>2, NotifiedFacts
      <4>4. pc' \in [Thread -> ThreadState] /\ worker' \in Thread \cup {NoThread}
        BY <4>1, <4>3 DEF ThreadState
      <4>5. \A v \in Thread : pc'[v] = IF v = w THEN "loop" ELSE Notified[v]
        BY <4>1, <4>3
      <4>6. \A v \in Thread : pc'[v] # "parked" /\ (Drains(pc'[v]) <=> Drains(pc[v]))
        BY <4>1, <4>3, <4>5 DEF Drains
      <4>7. OneLiveWorker'
        BY <4>1, <4>2, <4>3, <4>5 DEF OneLiveWorker, Live
      <4> QED
        BY <4>4, <4>6, <4>7
    <3> QED
      BY <3>1, <3>2
  <2>4. DispatcherTypeOK'
    BY <2>1, <2>2, <2>3 DEF DispatcherInv, DispatcherTypeOK
  <2>5. QueueCoalesced'
    BY <2>1, <2>2, AppendCoalesced DEF DispatcherInv
  <2>6. RunningIdsMatchDrains'
    BY <2>1, <2>3, SameDrains DEF DispatcherInv
  <2>7. PendingNotRunning'
    BY <2>1 DEF DispatcherInv, PendingNotRunning
  <2>8. NoParkedWithWork'
    BY <2>3 DEF NoParkedWithWork
  <2> QED
    BY <2>3, <2>4, <2>5, <2>6, <2>7, <2>8 DEF DispatcherInv
<1> QED
  BY <1>1, <1>2

\* stop() only raises the flag and wakes the parked worker.
LEMMA StopKeepsInv ==
    ASSUME DispatcherInv, Stop
    PROVE  DispatcherInv'
<1>1. /\ queue' = << >> /\ pendingIds' = {} /\ closed' = TRUE
      /\ pc' = Notified
      /\ runningIds' = runningIds /\ worker' = worker
      /\ current' = current /\ ticks' = ticks
  BY DEF Stop
<1>2. pc \in [Thread -> ThreadState]
  BY DEF DispatcherInv, DispatcherTypeOK
<1>3. /\ pc' \in [Thread -> ThreadState]
      /\ \A w \in Thread :
            /\ pc'[w] # "parked"
            /\ pc'[w] \in {"unstarted", "dead"} <=> pc[w] \in {"unstarted", "dead"}
            /\ Drains(pc'[w]) <=> Drains(pc[w])
  BY <1>1, <1>2, NotifiedFacts
<1>4. DispatcherTypeOK'
  <2>1. closed' \in BOOLEAN /\ queue' \in Seq(Session)
    BY <1>1
  <2> QED
    BY <1>1, <1>3, <2>1 DEF DispatcherInv, DispatcherTypeOK
<1>5. QueueCoalesced'
  BY <1>1 DEF QueueCoalesced, InQueue
<1>6. OneLiveWorker'
  BY <1>1, <1>3 DEF DispatcherInv, OneLiveWorker, Live
<1>7. RunningIdsMatchDrains'
  BY <1>1, <1>3, SameDrains DEF DispatcherInv
<1>8. PendingNotRunning' /\ NoParkedWithWork'
  BY <1>1, <1>3 DEF PendingNotRunning, NoParkedWithWork
<1> QED
  BY <1>4, <1>5, <1>6, <1>7, <1>8 DEF DispatcherInv

\* Parking, leaving, dying and ending a tick move one live thread and touch
\* neither the queue nor the id sets.
LEMMA MoveKeepsInv ==
    ASSUME DispatcherInv, NEW w \in Thread, Live(w), NEW state \in ThreadState,
           pc' = [pc EXCEPT ![w] = state],
           state # "unstarted",
           Drains(state) <=> Drains(pc[w]),
           state = "parked" => queue = << >> /\ ~closed,
           ticks' \in [Thread -> 0 .. MaxTicks],
           UNCHANGED <<queue, pendingIds, runningIds, closed, worker, current>>
    PROVE  DispatcherInv'
<1>1. pc \in [Thread -> ThreadState]
  BY DEF DispatcherInv, DispatcherTypeOK
<1>2. \A v \in Thread : pc'[v] = IF v = w THEN state ELSE pc[v]
  BY <1>1
<1>3. DispatcherTypeOK'
  BY <1>1 DEF DispatcherInv, DispatcherTypeOK
<1>4. QueueCoalesced' /\ PendingNotRunning'
  BY DEF DispatcherInv, QueueCoalesced, InQueue, PendingNotRunning
<1>5. OneLiveWorker'
  BY <1>2 DEF DispatcherInv, OneLiveWorker, Live
<1>6. RunningIdsMatchDrains'
  <2>1. \A v \in Thread : Drains(pc'[v]) <=> Drains(pc[v])
    BY <1>2
  <2> QED
    BY <2>1, SameDrains DEF DispatcherInv
<1>7. NoParkedWithWork'
  BY <1>2 DEF DispatcherInv, NoParkedWithWork
<1> QED
  BY <1>3, <1>4, <1>5, <1>6, <1>7 DEF DispatcherInv

\* _worker_loop waits on an empty queue, so parking loses no work.
LEMMA ParkKeepsInv ==
    ASSUME DispatcherInv, NEW w \in Thread, Park(w)
    PROVE  DispatcherInv'
<1>1. Live(w) /\ ~Drains(pc[w])
  BY DEF Park, Live, Drains
<1>2. ticks' \in [Thread -> 0 .. MaxTicks]
  BY DEF Park, DispatcherInv, DispatcherTypeOK
<1>3. "parked" \in ThreadState /\ ~Drains("parked")
  BY DEF ThreadState, Drains
<1> QED
  BY <1>1, <1>2, <1>3, MoveKeepsInv DEF Park

\* _worker_loop returns when it sees the stop flag.
LEMMA ExitKeepsInv ==
    ASSUME DispatcherInv, NEW w \in Thread, Exit(w)
    PROVE  DispatcherInv'
<1>1. Live(w) /\ ~Drains(pc[w])
  BY DEF Exit, Live, Drains
<1>2. ticks' \in [Thread -> 0 .. MaxTicks]
  BY DEF Exit, DispatcherInv, DispatcherTypeOK
<1>3. "dying" \in ThreadState /\ ~Drains("dying")
  BY DEF ThreadState, Drains
<1> QED
  BY <1>1, <1>2, <1>3, MoveKeepsInv DEF Exit

\* The thread ends; it held no session any more.
LEMMA DieKeepsInv ==
    ASSUME DispatcherInv, NEW w \in Thread, Die(w)
    PROVE  DispatcherInv'
<1>1. Live(w) /\ ~Drains(pc[w])
  BY DEF Die, Live, Drains
<1>2. ticks' \in [Thread -> 0 .. MaxTicks]
  BY DEF Die, DispatcherInv, DispatcherTypeOK
<1>3. "dead" \in ThreadState /\ ~Drains("dead")
  BY DEF ThreadState, Drains
<1> QED
  BY <1>1, <1>2, <1>3, MoveKeepsInv DEF Die

\* A tick ends: the thread keeps the session, also with an exception in flight.
LEMMA TickKeepsInv ==
    ASSUME DispatcherInv, NEW w \in Thread, NEW outcome \in Outcome, TickEnds(w, outcome)
    PROVE  DispatcherInv'
<1> DEFINE next == CASE outcome = "raised" -> "raising"
                     [] outcome = "completed" /\ ticks'[w] < MaxTicks -> "draining"
                     [] OTHER -> "release"
<1>1. Live(w) /\ Drains(pc[w])
  BY DEF TickEnds, Live, Drains
<1>2. next \in {"raising", "draining", "release"}
  OBVIOUS
<1>3. pc' = [pc EXCEPT ![w] = next]
  BY DEF TickEnds
<1>4. ticks' \in [Thread -> 0 .. MaxTicks]
  <2>1. /\ ticks \in [Thread -> 0 .. MaxTicks]
        /\ ticks[w] < MaxTicks
        /\ ticks' = [ticks EXCEPT ![w] = ticks[w] + 1]
    BY DEF TickEnds, DispatcherInv, DispatcherTypeOK
  <2> QED
    BY <2>1, DispatcherAssumption
<1> HIDE DEF next
<1>5. next \in ThreadState /\ Drains(next) /\ next # "unstarted" /\ next # "parked"
  BY <1>2 DEF ThreadState, Drains
<1>6. UNCHANGED <<queue, pendingIds, runningIds, closed, worker, current>>
  BY DEF TickEnds
<1> QED
  BY <1>1, <1>3, <1>4, <1>5, <1>6, MoveKeepsInv

\* The head of the queue becomes the one running session.
LEMMA PopKeepsInv ==
    ASSUME DispatcherInv, NEW w \in Thread, Pop(w)
    PROVE  DispatcherInv'
<1>1. /\ pc[w] = "loop" /\ ~closed /\ queue # << >>
      /\ queue' = Tail(queue)
      /\ pendingIds' = pendingIds \ {Head(queue)}
      /\ runningIds' = runningIds \cup {Head(queue)}
      /\ current' = [current EXCEPT ![w] = Head(queue)]
      /\ ticks' = [ticks EXCEPT ![w] = 0]
      /\ pc' = [pc EXCEPT ![w] = "draining"]
      /\ closed' = closed /\ worker' = worker
  BY DEF Pop
<1>2. /\ queue \in Seq(Session)
      /\ pendingIds \in SUBSET Session
      /\ pc \in [Thread -> ThreadState]
      /\ current \in [Thread -> Session \cup {NoSession}]
      /\ ticks \in [Thread -> 0 .. MaxTicks]
  BY DEF DispatcherInv, DispatcherTypeOK
<1>3. Live(w) /\ ~Drains(pc[w])
  BY <1>1 DEF Live, Drains
<1>4. runningIds = {}
  BY <1>3, NoDrain
<1>5. Head(queue) \in Session /\ queue' \in Seq(Session)
  BY <1>1, <1>2
<1>6. \A v \in Thread : v # w => ~Live(v)
  BY <1>3 DEF DispatcherInv, OneLiveWorker
<1>7. \A v \in Thread : /\ pc'[v] = IF v = w THEN "draining" ELSE pc[v]
                        /\ current'[v] = IF v = w THEN Head(queue) ELSE current[v]
  BY <1>1, <1>2
<1>8. DispatcherTypeOK'
  <2>1. /\ pendingIds' \in SUBSET Session /\ runningIds' \in SUBSET Session
        /\ current' \in [Thread -> Session \cup {NoSession}]
        /\ ticks' \in [Thread -> 0 .. MaxTicks]
        /\ pc' \in [Thread -> ThreadState]
    BY <1>1, <1>2, <1>4, <1>5, DispatcherAssumption DEF ThreadState
  <2> QED
    BY <1>1, <1>5, <2>1 DEF DispatcherInv, DispatcherTypeOK
<1>9. QueueCoalesced'
  BY <1>1, <1>2, TailCoalesced DEF DispatcherInv
<1>10. OneLiveWorker'
  BY <1>1, <1>3, <1>6, <1>7 DEF DispatcherInv, OneLiveWorker, Live
<1>11. RunningIdsMatchDrains'
  <2>1. {v \in Thread : pc'[v] \in {"draining", "release", "raising"}} = {w}
    BY <1>6, <1>7 DEF Live
  <2>2. {current'[v] : v \in {w}} = {Head(queue)}
    BY <1>7
  <2> QED
    BY <1>1, <1>4, <2>1, <2>2 DEF RunningIdsMatchDrains
<1>12. PendingNotRunning'
  BY <1>1, <1>4 DEF PendingNotRunning
<1>13. NoParkedWithWork'
  BY <1>6, <1>7 DEF NoParkedWithWork, Live
<1> QED
  BY <1>8, <1>9, <1>10, <1>11, <1>12, <1>13 DEF DispatcherInv

\* The finally block gives the session back, after an exception too.
LEMMA ReleaseKeepsInv ==
    ASSUME DispatcherInv, NEW w \in Thread, Release(w)
    PROVE  DispatcherInv'
<1> DEFINE next == IF pc[w] = "raising" THEN "dying" ELSE "loop"
<1>1. /\ pc[w] \in {"release", "raising"}
      /\ runningIds' = runningIds \ {current[w]}
      /\ current' = [current EXCEPT ![w] = NoSession]
      /\ pc' = [Notified EXCEPT ![w] = next]
      /\ queue' = queue /\ pendingIds' = pendingIds /\ closed' = closed
      /\ worker' = worker /\ ticks' = ticks
  BY DEF Release
<1>2. next \in {"dying", "loop"}
  OBVIOUS
<1> HIDE DEF next
<1>3. /\ pc \in [Thread -> ThreadState]
      /\ current \in [Thread -> Session \cup {NoSession}]
  BY DEF DispatcherInv, DispatcherTypeOK
<1>4. /\ Notified \in [Thread -> ThreadState]
      /\ \A v \in Thread :
            /\ Notified[v] # "parked"
            /\ Notified[v] \in {"unstarted", "dead"} <=> pc[v] \in {"unstarted", "dead"}
            /\ Drains(Notified[v]) <=> Drains(pc[v])
  BY <1>3, NotifiedFacts
<1>5. \A v \in Thread : pc'[v] = IF v = w THEN next ELSE Notified[v]
  BY <1>1, <1>4
<1>6. Live(w)
  BY <1>1 DEF Live
<1>7. \A v \in Thread : v # w => ~Live(v)
  BY <1>6 DEF DispatcherInv, OneLiveWorker
<1>8. runningIds' = {}
  <2>1. {v \in Thread : pc[v] \in {"draining", "release", "raising"}} = {w}
    BY <1>1, <1>7 DEF Live
  <2>2. {current[v] : v \in {w}} = {current[w]}
    OBVIOUS
  <2> QED
    BY <1>1, <2>1, <2>2 DEF DispatcherInv, RunningIdsMatchDrains
<1>9. \A v \in Thread : ~Drains(pc'[v])
  BY <1>2, <1>4, <1>5, <1>7 DEF Live, Drains
<1>10. DispatcherTypeOK'
  <2>1. pc' \in [Thread -> ThreadState]
    BY <1>1, <1>2, <1>4 DEF ThreadState
  <2>2. current' \in [Thread -> Session \cup {NoSession}]
    BY <1>1, <1>3
  <2> QED
    BY <1>1, <1>8, <2>1, <2>2 DEF DispatcherInv, DispatcherTypeOK
<1>11. QueueCoalesced' /\ PendingNotRunning'
  BY <1>1, <1>8 DEF DispatcherInv, QueueCoalesced, InQueue, PendingNotRunning
<1>12. OneLiveWorker'
  BY <1>1, <1>4, <1>5, <1>6, <1>7 DEF DispatcherInv, OneLiveWorker, Live
<1>13. RunningIdsMatchDrains'
  <2>1. {v \in Thread : pc'[v] \in {"draining", "release", "raising"}} = {}
    BY <1>9 DEF Drains
  <2> QED
    BY <1>8, <2>1 DEF RunningIdsMatchDrains
<1>14. NoParkedWithWork'
  BY <1>2, <1>4, <1>5 DEF NoParkedWithWork
<1> QED
  BY <1>10, <1>11, <1>12, <1>13, <1>14 DEF DispatcherInv

\* Every step of requests, stop() and worker threads keeps the invariant.
LEMMA NextDispatcherInv == DispatcherInv /\ [DispatcherNext]_dispatcherVars => DispatcherInv'
<1> SUFFICES ASSUME DispatcherInv, [DispatcherNext]_dispatcherVars PROVE DispatcherInv'
  OBVIOUS
<1>1. CASE UNCHANGED dispatcherVars
  BY <1>1 DEF dispatcherVars, DispatcherInv, DispatcherTypeOK, QueueCoalesced, InQueue,
              OneLiveWorker, Live, RunningIdsMatchDrains, PendingNotRunning, NoParkedWithWork
<1>2. CASE \E s \in Session : RequestDispatch(s)
  BY <1>2, RequestKeepsInv
<1>3. CASE Stop
  BY <1>3, StopKeepsInv
<1>4. ASSUME NEW w \in Thread, WorkerStep(w) PROVE DispatcherInv'
  BY <1>4, ParkKeepsInv, ExitKeepsInv, PopKeepsInv, ReleaseKeepsInv, DieKeepsInv, TickKeepsInv
     DEF WorkerStep, WorkerLoop
<1> QED
  BY <1>1, <1>2, <1>3, <1>4 DEF DispatcherNext

\* The dispatcher's invariant, for any number of sessions and threads.
THEOREM DispatcherInvariant == DispatcherSpec => []DispatcherInv
BY InitDispatcherInv, NextDispatcherInv, PTL DEF DispatcherSpec

\* The serial lane: _ensure_worker_locked never leaves two live workers, whatever
\* workers died before.
THEOREM SerialLane == DispatcherSpec => []OneLiveWorker
<1>1. DispatcherInv => OneLiveWorker
  BY DEF DispatcherInv
<1> QED
  BY DispatcherInvariant, <1>1, PTL

\* The deque and its id set agree and hold each session once.
THEOREM TriggersCoalesce == DispatcherSpec => []QueueCoalesced
<1>1. DispatcherInv => QueueCoalesced
  BY DEF DispatcherInv
<1> QED
  BY DispatcherInvariant, <1>1, PTL

\* already_running is answered exactly while a worker holds the session, on every
\* exit path of a drain.
THEOREM RunningIdsAreDrains == DispatcherSpec => []RunningIdsMatchDrains
<1>1. DispatcherInv => RunningIdsMatchDrains
  BY DEF DispatcherInv
<1> QED
  BY DispatcherInvariant, <1>1, PTL

\* Condition.wait() and notify() lose no wakeup.
THEOREM NoLostNotify == DispatcherSpec => []NoParkedWithWork
<1>1. DispatcherInv => NoParkedWithWork
  BY DEF DispatcherInv
<1> QED
  BY DispatcherInvariant, <1>1, PTL
=============================================================================
