---------------------------- MODULE AutonomyLoop ----------------------------
(***************************************************************************)
(* The autonomy gate of the agent loop and the message bus it asks over:   *)
(* core/loop.py (_run_inner, _consult_gate, drain_pending_responses),      *)
(* interaction/gate.py, wait.py, bus.py and sqlite_message_stream.py.      *)
(*                                                                         *)
(* One loop thread, the users that answer, one subscriber and a thread     *)
(* that closes the bus.  Everything the bus does under its condition is    *)
(* one step: publish inserts, fans out and notifies; a waiter that finds   *)
(* no answer parks.  A user writes a response (which stamps created_at)    *)
(* and publishes it later, so stamps and insertions may disagree.          *)
(***************************************************************************)
EXTENDS Integers, Sequences, FiniteSets

CONSTANTS
    Actions,       \* the actions of the tool calls, in order: a sequence
    Risk,          \* [action -> final risk]
    Confidence,    \* [action -> confidence]
    Behaviors,     \* AutonomyBehavior values to run with
    User,          \* threads that answer actionables
    Nothing,       \* stands for an absent value
    MaxResponses, MaxFailures   \* bounds

Action == {Actions[i] : i \in DOMAIN Actions}

Behavior == [trigger : {"never", "always", "on_risk", "on_uncertainty"},
             risk : Nat, confidence : Nat,
             strategy : {"sync", "async"}, timed : BOOLEAN,
             onTimeout : {"wait", "proceed", "skip"}, notify : BOOLEAN]

Message == [kind : {"actionable", "informational", "response"}, action : Action,
            value : {"yes", "no", Nothing}, created : Nat]

ASSUME AutonomyAssumption ==
    /\ Actions \in Seq(Action)
    /\ \A i, j \in DOMAIN Actions : Actions[i] = Actions[j] => i = j
    /\ Nothing \notin {"yes", "no"} /\ Nothing \notin Message
    /\ Risk \in [Action -> Nat] /\ Confidence \in [Action -> Nat]
    /\ Behaviors \subseteq Behavior
    /\ MaxResponses \in Nat /\ MaxFailures \in Nat

VARIABLES
    behavior,  \* the AutonomyBehavior of this run
    log,       \* the messages table in insertion order
    closed,    \* the bus is closed
    sub,       \* the subscription: [state, since, queue, got, parked]
    loop,      \* the loop thread: [pc, next, expired, interrupted, final]
    pending,   \* _pending_decisions
    todo, keep,\* locals of drain_pending_responses
    ran,       \* [Action -> how often the runtime executed it]
    timedOut,  \* actions whose wait ran into its timeout
    stop,      \* an interrupt was requested
    user,      \* the response a user has written and not yet published
    written,   \* responses written so far: the clock of created_at
    failures   \* appends that failed so far

busVars == <<log, closed, sub>>
loopVars == <<loop, pending, todo, keep, ran, timedOut, failures>>
gateVars == <<behavior, busVars, loopVars, stop, user, written>>

GateInit ==
    /\ behavior \in Behaviors
    /\ log = <<>> /\ closed = FALSE
    /\ sub = [state |-> "none", since |-> 0, queue |-> <<>>, got |-> <<>>, parked |-> FALSE]
    /\ loop = [pc |-> "step", next |-> 1, expired |-> FALSE, interrupted |-> FALSE,
               final |-> FALSE]
    /\ pending = <<>> /\ todo = <<>> /\ keep = <<>>
    /\ ran = [a \in Action |-> 0] /\ timedOut = {}
    /\ stop = FALSE
    /\ user = [u \in User |-> Nothing] /\ written = 0 /\ failures = 0

-----------------------------------------------------------------------------
(* The message bus.                                                        *)

Said(kind, a) == [kind |-> kind, action |-> a, value |-> Nothing, created |-> 0]

ResponsesTo(a) == {i \in DOMAIN log : log[i].kind = "response" /\ log[i].action = a}

\* response_for: the earliest by created_at, then by insertion.
ResponseFor(a) ==
    IF ResponsesTo(a) = {} THEN Nothing
    ELSE log[CHOOSE i \in ResponsesTo(a) :
               \A j \in ResponsesTo(a) :
                   \/ log[i].created < log[j].created
                   \/ log[i].created = log[j].created /\ i <= j].value

\* Every registered subscription gets the message; notify_all wakes it.
FanOut(m) ==
    sub' = [sub EXCEPT !.queue = IF sub.state \in {"open", "closing"} THEN Append(@, m) ELSE @,
                       !.parked = FALSE]

\* Faulty: only subscribers are woken.
NotWoken(l) == l

\* notify_all: a parked waiter evaluates its predicate again.
Woken(l) == IF l.pc = "parked" THEN [l EXCEPT !.pc = "wait"] ELSE l

\* publish raises when the bus is closed; callers handle that themselves.
Insert(m) == ~closed /\ log' = Append(log, m) /\ FanOut(m) /\ UNCHANGED closed

Subscribe ==
    /\ sub.state = "none" /\ ~closed
    /\ sub' = [sub EXCEPT !.state = "open", !.since = Len(log)]
    /\ UNCHANGED <<behavior, log, closed, loopVars, stop, user, written>>

\* __next__: the head of the queue, the end of a closed subscription, or park.
SubscriberTakes ==
    /\ sub.state # "none" /\ ~sub.parked
    /\ \/ /\ sub.queue # <<>>
          /\ sub' = [sub EXCEPT !.queue = Tail(@), !.got = Append(@, Head(sub.queue))]
       \/ /\ sub.queue = <<>> /\ sub.state = "open"
          /\ sub' = [sub EXCEPT !.parked = TRUE]
    /\ UNCHANGED <<behavior, log, closed, loopVars, stop, user, written>>

\* Subscription.close marks and notifies, then unregisters under the lock again.
SubscriptionCloses ==
    /\ \/ sub.state = "open" /\ sub' = [sub EXCEPT !.state = "closing", !.parked = FALSE]
       \/ sub.state = "closing" /\ sub' = [sub EXCEPT !.state = "closed", !.parked = FALSE]
    /\ loop' = Woken(loop)
    /\ UNCHANGED <<behavior, log, closed, pending, todo, keep, ran, timedOut, failures,
                   stop, user, written>>

BusCloses ==
    /\ ~closed
    /\ closed' = TRUE
    /\ sub' = [sub EXCEPT !.parked = FALSE, !.state = IF @ = "none" THEN @ ELSE "closed"]
    /\ loop' = Woken(loop)
    /\ UNCHANGED <<behavior, log, pending, todo, keep, ran, timedOut, failures,
                   stop, user, written>>

-----------------------------------------------------------------------------
(* Users.                                                                  *)

UserWrites(u, a, value) ==
    /\ user[u] = Nothing
    /\ written < MaxResponses
    /\ \E i \in DOMAIN log : log[i].kind = "actionable" /\ log[i].action = a
    /\ user' = [user EXCEPT ![u] = [kind |-> "response", action |-> a, value |-> value,
                                    created |-> written]]
    /\ written' = written + 1
    /\ UNCHANGED <<behavior, busVars, loopVars, stop>>

\* Publishing to a closed bus raises to the user.
UserPublishes(u) ==
    /\ user[u] # Nothing
    /\ user' = [user EXCEPT ![u] = Nothing]
    /\ \/ Insert(user[u]) /\ loop' = Woken(loop)
       \/ closed /\ UNCHANGED <<busVars, loop>>
    /\ UNCHANGED <<behavior, pending, todo, keep, ran, timedOut, failures, stop, written>>

RequestStop ==
    /\ ~stop
    /\ stop' = TRUE
    /\ UNCHANGED <<behavior, busVars, loopVars, user, written>>

-----------------------------------------------------------------------------
(* The loop.  An exception of a step unwinds to "finally".                 *)

Goes(pc) == loop' = [loop EXCEPT !.pc = pc]
Current == Actions[loop.next]
\* After a tool call: the next one of the same response, or a new step.
NextTool == \E pc \in {"step", "tool"} :
                loop' = [loop EXCEPT !.pc = pc, !.next = @ + 1, !.expired = FALSE]
Others == <<behavior, stop, user, written>>

\* _check_interrupt at the safe points of a step
StepStarts ==
    /\ loop.pc = "step"
    /\ \/ stop /\ loop' = [loop EXCEPT !.pc = "finally", !.interrupted = TRUE]
       \/ ~stop /\ Goes("drain")
    /\ todo' = pending /\ keep' = <<>>
    /\ UNCHANGED <<Others, busVars, pending, ran, timedOut, failures>>

\* _is_rejection
Rejects(value) == value = "no"

\* Faulty: an entry that was answered stays in the queue.
DrainKeepsAll ==
    /\ loop.pc = "drain"
    /\ todo # <<>>
    /\ keep' = Append(keep, Head(todo))
    /\ IF ResponseFor(Head(todo)) = Nothing
       THEN todo' = Tail(todo) /\ UNCHANGED <<loop, ran>>
       ELSE /\ ran' = IF Rejects(ResponseFor(Head(todo))) THEN ran
                      ELSE [ran EXCEPT ![Head(todo)] = @ + 1]
            /\ Goes("drain_append")
            /\ UNCHANGED todo
    /\ UNCHANGED <<Others, busVars, pending, timedOut, failures>>

\* wait_for_response with timeout 0, and the runtime for an accepted action.
DrainPolls ==
    /\ loop.pc = "drain"
    /\ todo # <<>>
    /\ LET a == Head(todo)
           value == ResponseFor(a) IN
       \/ /\ value = Nothing
          /\ keep' = Append(keep, a) /\ todo' = Tail(todo)
          /\ UNCHANGED <<loop, ran>>
       \/ /\ value # Nothing /\ Rejects(value)
          /\ Goes("drain_append")
          /\ UNCHANGED <<todo, keep, ran>>
       \/ /\ value # Nothing /\ ~Rejects(value)
          /\ ran' = [ran EXCEPT ![a] = @ + 1]
          /\ Goes("drain_append")
          /\ UNCHANGED <<todo, keep>>
    /\ UNCHANGED <<Others, busVars, pending, timedOut, failures>>

\* The observation is appended.  A failure leaves _pending_decisions as it was;
\* the final drain suppresses it.
DrainAppends ==
    /\ loop.pc = "drain_append"
    /\ \/ todo' = Tail(todo) /\ Goes("drain") /\ UNCHANGED failures
       \/ /\ failures < MaxFailures
          /\ failures' = failures + 1
          /\ Goes(IF loop.final THEN "done" ELSE "finally")
          /\ UNCHANGED todo
    /\ UNCHANGED <<Others, busVars, pending, keep, ran, timedOut>>

DrainEnds ==
    /\ loop.pc = "drain"
    /\ todo = <<>>
    /\ pending' = keep
    /\ loop' = CASE loop.final -> [loop EXCEPT !.pc = "done"]
                 [] ~loop.final /\ stop -> [loop EXCEPT !.pc = "finally", !.interrupted = TRUE]
                 [] OTHER -> [loop EXCEPT !.pc = "llm"]
    /\ UNCHANGED <<Others, busVars, todo, keep, ran, timedOut, failures>>

\* The model finishes or fails, or calls tools.
LlmAnswers ==
    /\ loop.pc = "llm"
    /\ Goes("finally") \/ Goes("tool")
    /\ UNCHANGED <<Others, busVars, pending, todo, keep, ran, timedOut, failures>>

\* A safe point before each tool call; max_steps ends the run.
ToolCall ==
    /\ loop.pc = "tool"
    /\ \/ loop.next > Len(Actions) /\ Goes("finally")
       \/ /\ loop.next <= Len(Actions) /\ stop
          /\ loop' = [loop EXCEPT !.pc = "finally", !.interrupted = TRUE]
       \/ loop.next <= Len(Actions) /\ ~stop /\ Goes("gate")
    /\ UNCHANGED <<Others, busVars, pending, todo, keep, ran, timedOut, failures>>

\* AutonomyGate.check
Verdict(a) ==
    CASE behavior.trigger = "never" -> "proceed"
      [] behavior.trigger = "always" -> "emit"
      [] behavior.trigger = "on_risk" -> IF Risk[a] >= behavior.risk THEN "emit" ELSE "proceed"
      [] OTHER -> IF Confidence[a] < behavior.confidence THEN "emit" ELSE "proceed"

\* Publishes a message of the loop, or unwinds when the bus is closed.
LoopPublishes(m, then) ==
    \/ Insert(m) /\ Goes(then)
    \/ closed /\ Goes("finally") /\ UNCHANGED busVars

\* _consult_gate up to the wait; async behaviour never blocks.
GateDecides ==
    /\ loop.pc = "gate"
    /\ \/ /\ Verdict(Current) = "proceed"
          /\ IF behavior.notify /\ Risk[Current] > 0
             THEN LoopPublishes(Said("informational", Current), "execute")
             ELSE Goes("execute") /\ UNCHANGED busVars
       \/ /\ Verdict(Current) = "emit"
          /\ LoopPublishes(Said("actionable", Current),
                           IF behavior.strategy = "async" THEN "defer" ELSE "wait")
    /\ UNCHANGED <<Others, pending, todo, keep, ran, timedOut, failures>>

Defers ==
    /\ loop.pc = "defer"
    /\ pending' = Append(pending, Current)
    /\ NextTool
    /\ UNCHANGED <<Others, busVars, todo, keep, ran, timedOut, failures>>

\* The predicate of wait_for_response: answer, closed bus, deadline, park.
WaitChecks ==
    /\ loop.pc = "wait"
    /\ LET value == ResponseFor(Current) IN
       \/ value # Nothing /\ Goes(IF Rejects(value) THEN "skip" ELSE "execute")
       \/ value = Nothing /\ closed /\ Goes("on_timeout")
       \/ value = Nothing /\ ~closed /\ loop.expired /\ Goes("on_timeout")
       \/ value = Nothing /\ ~closed /\ ~loop.expired /\ Goes("parked")
    /\ UNCHANGED <<Others, busVars, pending, todo, keep, ran, timedOut, failures>>

\* The deadline passes, while the waiter is parked or on its way back.
WaitExpires ==
    /\ loop.pc \in {"parked", "wait"}
    /\ behavior.timed /\ ~loop.expired
    /\ loop' = [loop EXCEPT !.pc = "wait", !.expired = TRUE]
    /\ timedOut' = timedOut \cup {Current}
    /\ UNCHANGED <<Others, busVars, pending, todo, keep, ran, failures>>

\* _on_timeout.  With "wait" it waits again without a deadline; when that
\* returns nothing the bus is closing and the action is skipped.
OnTimeout ==
    /\ loop.pc = "on_timeout"
    /\ \/ /\ behavior.onTimeout = "wait"
          /\ LET value == ResponseFor(Current) IN
             \/ value # Nothing /\ Goes(IF Rejects(value) THEN "skip" ELSE "execute")
             \/ value = Nothing /\ closed /\ Goes("skip")
          /\ UNCHANGED busVars
       \/ /\ behavior.onTimeout # "wait"
          /\ LET then == IF behavior.onTimeout = "skip" THEN "skip" ELSE "execute" IN
             IF behavior.notify
             THEN LoopPublishes(Said("informational", Current), then)
             ELSE Goes(then) /\ UNCHANGED busVars
    /\ UNCHANGED <<Others, pending, todo, keep, ran, timedOut, failures>>

\* The runtime executes the action; appending its observation may fail.
Executes ==
    /\ loop.pc = "execute"
    /\ ran' = [ran EXCEPT ![Current] = @ + 1]
    /\ \/ NextTool /\ UNCHANGED failures
       \/ failures < MaxFailures /\ failures' = failures + 1 /\ Goes("finally")
    /\ UNCHANGED <<Others, busVars, pending, todo, keep, timedOut>>

Skips ==
    /\ loop.pc = "skip"
    /\ NextTool
    /\ UNCHANGED <<Others, busVars, pending, todo, keep, ran, timedOut, failures>>

\* The finally clause of run: a last drain, unless the run was interrupted.
Finally ==
    /\ loop.pc = "finally"
    /\ loop' = IF loop.interrupted THEN [loop EXCEPT !.pc = "done"]
               ELSE [loop EXCEPT !.pc = "drain", !.final = TRUE]
    /\ todo' = pending /\ keep' = <<>>
    /\ UNCHANGED <<Others, busVars, pending, ran, timedOut, failures>>

LoopStep ==
    \/ StepStarts \/ DrainPolls \/ DrainAppends \/ DrainEnds \/ LlmAnswers \/ ToolCall
    \/ GateDecides \/ Defers \/ WaitChecks \/ OnTimeout \/ Executes \/ Skips \/ Finally

GateNext ==
    \/ LoopStep \/ WaitExpires
    \/ Subscribe \/ SubscriberTakes \/ SubscriptionCloses \/ BusCloses \/ RequestStop
    \/ \E u \in User : \/ \E a \in Action, v \in {"yes", "no"} : UserWrites(u, a, v)
                       \/ UserPublishes(u)

\* The loop and the subscriber are running threads.
GateFairness == WF_gateVars(LoopStep) /\ WF_gateVars(SubscriberTakes)

GateSpec == GateInit /\ [][GateNext]_gateVars
GateFairSpec == GateSpec /\ GateFairness

-----------------------------------------------------------------------------
(* Properties.                                                             *)

Pc == {"step", "drain", "drain_append", "llm", "tool", "gate", "defer", "wait", "parked",
       "on_timeout", "execute", "skip", "finally", "done"}

\* Where the loop is in the middle of one tool call.
InCall == {"gate", "defer", "wait", "parked", "on_timeout", "execute", "skip"}

Loop == [pc : Pc, next : Nat, expired : BOOLEAN, interrupted : BOOLEAN, final : BOOLEAN]

Subscription == [state : {"none", "open", "closing", "closed"}, since : Nat,
                 queue : Seq(Message), got : Seq(Message), parked : BOOLEAN]

BusTypeOK ==
    /\ log \in Seq(Message) /\ closed \in BOOLEAN /\ sub \in Subscription
    /\ \A i \in DOMAIN log : log[i].kind = "response" => log[i].value # Nothing

LoopTypeOK ==
    /\ loop \in Loop
    /\ loop.next >= 1 /\ loop.next <= Len(Actions) + 1
    /\ loop.pc \in InCall => loop.next <= Len(Actions)
    /\ loop.pc = "drain_append" => todo # <<>>
    /\ pending \in Seq(Action) /\ todo \in Seq(Action) /\ keep \in Seq(Action)
    /\ ran \in [Action -> Nat] /\ timedOut \in SUBSET Action /\ failures \in Nat

OthersTypeOK ==
    /\ behavior \in Behaviors /\ stop \in BOOLEAN /\ written \in Nat
    /\ user \in [User -> Message \cup {Nothing}]
    /\ \A u \in User : user[u] # Nothing => user[u].kind = "response" /\ user[u].value # Nothing

GateTypeOK == BusTypeOK /\ LoopTypeOK /\ OthersTypeOK

Risky(a) ==
    \/ behavior.trigger = "always"
    \/ behavior.trigger = "on_risk" /\ Risk[a] >= behavior.risk
    \/ behavior.trigger = "on_uncertainty" /\ Confidence[a] < behavior.confidence

\* Somebody agreed to the action; or the behaviour is to wait and then proceed,
\* and the wait is over: its timeout elapsed, or the bus closed under it and no
\* notice had to be published first.
Allowed(a) ==
    \/ \E i \in ResponsesTo(a) : log[i].value = "yes"
    \/ /\ behavior.strategy = "sync" /\ behavior.onTimeout = "proceed"
       /\ a \in timedOut \/ (closed /\ ~behavior.notify)

\* An action the gate holds back runs only after somebody agreed to it, or
\* after a wait that the behaviour lets it survive (_consult_gate,
\* WaitCoordinator, drain_pending_responses).
RunsOnlyWhenAllowed == \A a \in Action : ran[a] > 0 /\ Risky(a) => Allowed(a)

\* An action is executed a second time only when appending an observation
\* failed in the middle of a drain.
RunsOnce == \A a \in Action : ran[a] > 1 => failures > 0

\* A subscriber gets every message published while it was subscribed, once and
\* in order (publish fans out under the condition it inserts under).
SubscriberSeesAll ==
    LET seen == sub.got \o sub.queue
        since == SubSeq(log, sub.since + 1, Len(log)) IN
    /\ sub.state = "open" => seen = since
    /\ sub.state \in {"closing", "closed"} =>
        Len(seen) <= Len(since) /\ seen = SubSeq(since, 1, Len(seen))

\* Nobody sleeps through a wake-up: an answer or the closing of the bus ends
\* the wait of the loop, and a subscriber gets what is in its queue.
NoLostWakeup ==
    /\ \A a \in Action :
        (loop.pc = "parked" /\ Current = a /\ (ResponsesTo(a) # {} \/ closed))
            ~> (loop.pc # "parked")
    /\ (sub.queue # <<>>) ~> (sub.queue = <<>>)

\* The gate holds: nothing risky runs unasked, nothing runs twice without a
\* failure, and a subscriber misses nothing.
AutonomySound == GateTypeOK /\ RunsOnlyWhenAllowed /\ RunsOnce /\ SubscriberSeesAll
=============================================================================
