---------------------------- MODULE AgentProofs -----------------------------
(***************************************************************************)
(* Proofs about the autonomy gate and its message bus: for every sequence  *)
(* of tool calls, every behaviour and any number of users, answers and     *)
(* failed appends, nothing the gate holds back runs unasked, nothing runs  *)
(* twice without a failure, and a subscriber misses nothing; about the     *)
(* chat requests, for every retry policy, model, fault and usage; about    *)
(* the runtime input router, for any number of threads, commands and ASKs, *)
(* whatever the model proposes; about the Collaborator's loop, for any     *)
(* tool calls, limits and file length; and about read-only questions, for  *)
(* any deployment, session, replies and search results.                    *)
(*                                                                         *)
(* The argument for the gate: the loop reaches the runtime only from the   *)
(* gate, from an answer or from the end of a wait, and a deferred action   *)
(* is in one queue, once, and behind the tool call the loop is at.  A      *)
(* drain moves the queue entry by entry, so an action that ran is in       *)
(* neither half.                                                           *)
(*                                                                         *)
(* The argument for the router: a request carries a plan that the          *)
(* validator let through, an ASK that was found before planning is taken   *)
(* only while nobody has settled it, and a command that was sent once,     *)
(* with no stop of the server, has one request: nothing was done before    *)
(* its handler, and what the handler did is what the reply tells.          *)
(*                                                                         *)
(* The argument for the Collaborator's loop: the calls of a response that  *)
(* have no tool message yet are the last ones of the last response, in     *)
(* order, and no terminal call is heard before the end, so a loop that is  *)
(* still running has asked nothing and hands on nothing.                   *)
(*                                                                         *)
(* The argument for questions: a ref is accounted for or still to be read, *)
(* a baseline of web results has them in its evidence, and the model is    *)
(* asked again only with such evidence, which rules out another search.    *)
(***************************************************************************)
EXTENDS AutonomyLoop, LLMChat, InputRouter, CollaboratorLoop, ReadOnlyInquiry,
        SequenceTheorems, FiniteSetTheorems, WellFoundedInduction, TLAPS

-----------------------------------------------------------------------------
(* The inductive invariant.                                                *)

\* A queue of deferred actions: each is there once, has not run, and is a tool
\* call the loop has passed (_pending_decisions).
Deferred(q) ==
    /\ \A i, j \in DOMAIN q : q[i] = q[j] => i = j
    /\ \A i \in DOMAIN q : ran[q[i]] = 0
    /\ \A i \in DOMAIN q, k \in DOMAIN Actions : q[i] = Actions[k] => k < loop.next

\* While a drain sorts the queue: what it keeps and what it has not polled.
Draining(q) ==
    /\ Deferred(keep) /\ Deferred(q)
    /\ \A i \in DOMAIN keep, j \in DOMAIN q : keep[i] # q[j]

\* As long as no append failed, what is still to run has not run.
OnceInv ==
    failures = 0 =>
        /\ \A a \in Action : ran[a] <= 1
        /\ \A k \in DOMAIN Actions : k >= loop.next => ran[Actions[k]] = 0
        /\ loop.pc \notin {"drain", "drain_append", "done"} => Deferred(pending)
        /\ loop.pc = "drain" => Draining(todo)
        /\ loop.pc = "drain_append" => Draining(Tail(todo))

\* The loop stands before the runtime, or behind a wait, for a reason.
AllowedInv ==
    /\ loop.pc = "execute" /\ Risky(Current) => Allowed(Current)
    /\ loop.pc \in {"wait", "parked", "on_timeout"} => behavior.strategy = "sync"
    /\ loop.expired => loop.next <= Len(Actions) /\ Current \in timedOut
    /\ loop.pc = "on_timeout" => closed \/ Current \in timedOut

\* Position by position, what a subscriber got (g) and is due (q) is the log (l)
\* since it subscribed (after s messages), without a gap.
Follows(s, g, q, l) ==
    /\ s + Len(g) + Len(q) <= Len(l)
    /\ \A i \in 1 .. Len(g) : g[i] = l[s + i]
    /\ \A i \in 1 .. Len(q) : q[i] = l[s + Len(g) + i]

\* The subscriber follows the log, to its end while it is registered.
SeenInv ==
    /\ sub.state = "none" => sub.got = <<>> /\ sub.queue = <<>>
    /\ sub.state # "none" => Follows(sub.since, sub.got, sub.queue, log)
    /\ sub.state \in {"open", "closing"} =>
        sub.since + Len(sub.got) + Len(sub.queue) = Len(log)

GateInv == GateTypeOK /\ RunsOnlyWhenAllowed /\ OnceInv /\ AllowedInv /\ SeenInv

-----------------------------------------------------------------------------
(* Numbers, sequences and records.                                          *)

\* A set of natural numbers that is not empty has a least element.
LEMMA LeastNat ==
    ASSUME NEW T, T \subseteq Nat, T # {}
    PROVE  \E x \in T : \A y \in T : x <= y
  <1>. DEFINE R == OpToRel(<, Nat)
  <1>1. \E x \in T : \A y \in T : <<y, x>> \notin R
    BY WFMin, NatLessThanWellFounded
  <1>2. \A x, y \in Nat : y < x => <<y, x>> \in R
    BY DEF OpToRel
  <1>. HIDE DEF R
  <1>3. \E x \in T : \A y \in T : ~(y < x)
    BY <1>1, <1>2, Zenon
  <1>. QED
    BY <1>3

\* The positions of a queue and of its tail.
LEMMA TailShape ==
    ASSUME NEW S, NEW q \in Seq(S), q # <<>>
    PROVE  /\ Head(q) \in S /\ Tail(q) \in Seq(S)
           /\ 1 \in DOMAIN q /\ Head(q) = q[1]
           /\ Len(Tail(q)) = Len(q) - 1 /\ Len(q) \in Nat /\ Len(q) >= 1
           /\ \A i \in DOMAIN Tail(q) : i + 1 \in DOMAIN q /\ Tail(q)[i] = q[i + 1]
  BY HeadTailProperties

\* The positions of a sequence and of it with one more element.
LEMMA AppendShape ==
    ASSUME NEW S, NEW q \in Seq(S), NEW e \in S
    PROVE  /\ Append(q, e) \in Seq(S) /\ Len(Append(q, e)) = Len(q) + 1
           /\ Len(q) \in Nat
           /\ \A i \in 1 .. Len(q) : Append(q, e)[i] = q[i]
           /\ Append(q, e)[Len(q) + 1] = e
  BY AppendProperties

\* The current tool call is one of the actions.
LEMMA CurrentShape ==
    ASSUME GateTypeOK, loop.next <= Len(Actions)
    PROVE  loop.next \in DOMAIN Actions /\ Current \in Action
  BY AutonomyAssumption DEF GateTypeOK, LoopTypeOK, Current, Action, Loop

\* The behaviour of the run.
LEMMA BehaviorShape ==
    ASSUME GateTypeOK
    PROVE  behavior \in Behavior
  BY AutonomyAssumption DEF GateTypeOK, OthersTypeOK

\* Moving the loop changes its place only.
LEMMA GoesShape ==
    ASSUME GateTypeOK, NEW p \in Pc, Goes(p)
    PROVE  /\ loop' \in Loop /\ loop'.pc = p /\ loop'.next = loop.next
           /\ loop'.expired = loop.expired /\ loop'.final = loop.final
  BY DEF GateTypeOK, LoopTypeOK, Loop, Goes

\* After a tool call the loop is before the next one.
LEMMA NextToolShape ==
    ASSUME GateTypeOK, NextTool
    PROVE  /\ loop' \in Loop /\ loop'.pc \in {"step", "tool"}
           /\ loop'.next = loop.next + 1 /\ loop'.expired = FALSE
           /\ loop'.final = loop.final
  <1>1. PICK p \in {"step", "tool"} :
          loop' = [loop EXCEPT !.pc = p, !.next = @ + 1, !.expired = FALSE]
    BY DEF NextTool
  <1>2. loop.next + 1 \in Nat /\ p \in Pc
    BY DEF GateTypeOK, LoopTypeOK, Loop, Pc
  <1>. QED
    BY <1>1, <1>2 DEF GateTypeOK, LoopTypeOK, Loop

\* Waking a waiter moves it back to its predicate, and nobody else.
LEMMA WokenShape ==
    ASSUME GateTypeOK
    PROVE  /\ Woken(loop) \in Loop /\ Woken(loop).next = loop.next
           /\ Woken(loop).expired = loop.expired /\ Woken(loop).final = loop.final
           /\ \/ Woken(loop).pc = loop.pc
              \/ loop.pc = "parked" /\ Woken(loop).pc = "wait"
  BY DEF GateTypeOK, LoopTypeOK, Loop, Woken, Pc

\* What the loop says is a message, and no response.
LEMMA SaidShape ==
    ASSUME NEW kind \in {"actionable", "informational"}, NEW a \in Action
    PROVE  Said(kind, a) \in Message /\ Said(kind, a).kind # "response"
  BY DEF Said, Message

-----------------------------------------------------------------------------
(* Answers.                                                                *)

\* Among the answers to an action one is the earliest by its stamp, then by
\* its place: the one response_for returns.
LEMMA EarliestResponse ==
    ASSUME GateTypeOK, NEW a, ResponsesTo(a) # {}
    PROVE  \E i \in ResponsesTo(a) : \A j \in ResponsesTo(a) :
                \/ log[i].created < log[j].created
                \/ log[i].created = log[j].created /\ i <= j
  <1>. DEFINE Stamps == {log[i].created : i \in ResponsesTo(a)}
  <1>1. \A i \in ResponsesTo(a) : i \in Nat /\ log[i].created \in Nat
    <2>. TAKE i \in ResponsesTo(a)
    <2>1. i \in 1 .. Len(log) /\ log[i] \in Message
      BY DEF GateTypeOK, BusTypeOK, ResponsesTo
    <2>. QED
      BY <2>1 DEF Message
  <1>2. Stamps \subseteq Nat /\ Stamps # {}
    BY <1>1
  <1>3. PICK s \in Stamps : \A y \in Stamps : s <= y
    BY <1>2, LeastNat
  <1>. DEFINE First == {i \in ResponsesTo(a) : log[i].created = s}
  <1>4. First \subseteq Nat /\ First # {}
    BY <1>1, <1>3
  <1>5. PICK i \in First : \A j \in First : i <= j
    BY <1>4, LeastNat
  <1>6. ASSUME NEW j \in ResponsesTo(a)
        PROVE  \/ log[i].created < log[j].created
               \/ log[i].created = log[j].created /\ i <= j
    <2>1. log[i].created = s /\ s <= log[j].created /\ s \in Nat /\ log[j].created \in Nat
      BY <1>1, <1>3, <1>5
    <2>2. log[j].created = s => i <= j
      BY <1>5
    <2>. QED
      BY <2>1, <2>2
  <1>7. i \in ResponsesTo(a)
    BY <1>5
  <1>. QED
    BY <1>6, <1>7

\* An answer that response_for returns was published, and is a yes or a no.
LEMMA ResponseIsPublished ==
    ASSUME GateTypeOK, NEW a, ResponseFor(a) # Nothing
    PROVE  /\ ResponseFor(a) \in {"yes", "no"}
           /\ \E i \in ResponsesTo(a) : log[i].value = ResponseFor(a)
  <1>1. ResponsesTo(a) # {}
    BY DEF ResponseFor
  <1>. DEFINE i == CHOOSE i \in ResponsesTo(a) : \A j \in ResponsesTo(a) :
                       \/ log[i].created < log[j].created
                       \/ log[i].created = log[j].created /\ i <= j
  <1>2. i \in ResponsesTo(a)
    BY <1>1, EarliestResponse
  <1>3. ResponseFor(a) = log[i].value
    BY <1>1 DEF ResponseFor
  <1>. HIDE DEF i
  <1>4. log[i].value \in {"yes", "no"}
    <2>1. i \in DOMAIN log /\ log[i] \in Message /\ log[i].value # Nothing
      BY <1>2 DEF ResponsesTo, GateTypeOK, BusTypeOK
    <2>. QED
      BY <2>1 DEF Message
  <1>. QED
    BY <1>2, <1>3, <1>4

\* An answer that is no rejection is somebody's yes.
LEMMA AnswerAllows ==
    ASSUME GateTypeOK, NEW a, ResponseFor(a) # Nothing, ~Rejects(ResponseFor(a))
    PROVE  Allowed(a)
  BY ResponseIsPublished DEF Rejects, Allowed

-----------------------------------------------------------------------------
(* The bus: what a publish, a subscriber and a close do to the log and the *)
(* queue.                                                                  *)

\* A message that is written to the log, with an answer in a response.
Writable(m) == m \in Message /\ (m.kind = "response" => m.value # Nothing)

\* A publish grows the log by its message and keeps every type.
LEMMA InsertShape ==
    ASSUME GateTypeOK, NEW m, Writable(m), Insert(m)
    PROVE  /\ log' \in Seq(Message) /\ Len(log') = Len(log) + 1 /\ Len(log) \in Nat
           /\ \A i \in 1 .. Len(log) : log'[i] = log[i]
           /\ log'[Len(log) + 1] = m
           /\ \A i \in DOMAIN log' : log'[i].kind = "response" => log'[i].value # Nothing
           /\ closed' = closed /\ ~closed
  <1>1. m \in Message /\ log \in Seq(Message) /\ log' = Append(log, m)
    BY DEF Writable, Insert, GateTypeOK, BusTypeOK
  <1>2. /\ log' \in Seq(Message) /\ Len(log') = Len(log) + 1 /\ Len(log) \in Nat
        /\ \A i \in 1 .. Len(log) : log'[i] = log[i]
        /\ log'[Len(log) + 1] = m
    BY <1>1, AppendShape
  <1>3. ASSUME NEW i \in DOMAIN log', log'[i].kind = "response"
        PROVE  log'[i].value # Nothing
    <2>1. i \in 1 .. Len(log) \/ i = Len(log) + 1
      BY <1>2
    <2>2. DOMAIN log = 1 .. Len(log)
      BY <1>1
    <2>. QED
      BY <1>2, <1>3, <2>1, <2>2 DEF Writable, GateTypeOK, BusTypeOK
  <1>. QED
    BY <1>2, <1>3 DEF Insert

\* A publish reaches the queue of a registered subscriber (publish fans out).
LEMMA FanOutShape ==
    ASSUME GateTypeOK, NEW m \in Message, FanOut(m)
    PROVE  /\ sub' \in Subscription
           /\ sub'.state = sub.state /\ sub'.since = sub.since /\ sub'.got = sub.got
           /\ sub.state \in {"open", "closing"} => sub'.queue = Append(sub.queue, m)
           /\ sub.state \notin {"open", "closing"} => sub'.queue = sub.queue
  <1>1. PICK q \in Seq(Message) :
          q = IF sub.state \in {"open", "closing"} THEN Append(sub.queue, m) ELSE sub.queue
    <2>1. sub.queue \in Seq(Message)
      BY DEF GateTypeOK, BusTypeOK, Subscription
    <2>. QED
      BY <2>1, AppendShape
  <1>2. sub' = [sub EXCEPT !.queue = q, !.parked = FALSE]
    BY <1>1 DEF FanOut
  <1>3. /\ sub' \in Subscription
        /\ sub'.state = sub.state /\ sub'.since = sub.since /\ sub'.got = sub.got
        /\ sub'.queue = q
    BY <1>2 DEF GateTypeOK, BusTypeOK, Subscription
  <1>. QED
    BY <1>1, <1>3

\* A subscription is its fields.
LEMMA SubShape ==
    ASSUME GateTypeOK
    PROVE  /\ sub.state \in {"none", "open", "closing", "closed"} /\ sub.since \in Nat
           /\ sub.queue \in Seq(Message) /\ sub.got \in Seq(Message)
           /\ Len(sub.queue) \in Nat /\ Len(sub.got) \in Nat /\ Len(log) \in Nat
  BY DEF GateTypeOK, BusTypeOK, Subscription

\* A message that goes to the log and to the end of the queue keeps it.
LEMMA FollowsPublish ==
    ASSUME NEW s \in Nat, NEW g \in Seq(Message), NEW q \in Seq(Message),
           NEW l \in Seq(Message), NEW m \in Message, Follows(s, g, q, l),
           s + Len(g) + Len(q) = Len(l)
    PROVE  /\ Follows(s, g, Append(q, m), Append(l, m))
           /\ s + Len(g) + Len(Append(q, m)) = Len(Append(l, m))
  <1>1. PICK q2 \in Seq(Message), l2 \in Seq(Message) :
          q2 = Append(q, m) /\ l2 = Append(l, m)
    BY AppendShape
  <1>2. /\ Len(q2) = Len(q) + 1 /\ Len(l2) = Len(l) + 1
        /\ \A i \in 1 .. Len(q) : q2[i] = q[i]
        /\ \A i \in 1 .. Len(l) : l2[i] = l[i]
        /\ q2[Len(q) + 1] = m /\ l2[Len(l) + 1] = m
    BY <1>1, AppendShape
  <1>0. Len(g) \in Nat /\ Len(q) \in Nat /\ Len(l) \in Nat
    OBVIOUS
  <1>n. Len(q2) = Len(q) + 1 /\ Len(l2) = Len(l) + 1
    BY <1>2
  <1>3. s + Len(g) + Len(q2) = Len(l2)
    BY <1>0, <1>n
  <1>4. ASSUME NEW i \in 1 .. Len(g)
        PROVE  g[i] = l2[s + i]
    <2>1. s + i \in 1 .. Len(l)
      BY <1>0
    <2>. QED
      BY <1>2, <2>1 DEF Follows
  <1>5. ASSUME NEW i \in 1 .. Len(q2)
        PROVE  q2[i] = l2[s + Len(g) + i]
    <2>1. CASE i = Len(q) + 1
      <3>1. i = Len(q2) /\ s + Len(g) + i = Len(l) + 1
        BY <1>3, <1>n, <2>1
      <3>. QED
        BY <1>2, <2>1, <3>1
    <2>2. CASE i \in 1 .. Len(q)
      BY <1>2, <2>2 DEF Follows
    <2>. QED
      BY <1>2, <2>1, <2>2
  <1>. QED
    BY <1>1, <1>3, <1>4, <1>5 DEF Follows

\* A message that only goes to the log keeps it.
LEMMA FollowsLog ==
    ASSUME NEW s \in Nat, NEW g \in Seq(Message), NEW q \in Seq(Message),
           NEW l \in Seq(Message), NEW m \in Message, Follows(s, g, q, l)
    PROVE  Follows(s, g, q, Append(l, m))
  <1>1. PICK l2 \in Seq(Message) : l2 = Append(l, m)
    BY AppendShape
  <1>2. Len(l2) = Len(l) + 1 /\ \A i \in 1 .. Len(l) : l2[i] = l[i]
    BY <1>1, AppendShape
  <1>. QED
    BY <1>1, <1>2 DEF Follows

\* Taking the head of the queue keeps it.
LEMMA FollowsTake ==
    ASSUME NEW s \in Nat, NEW g \in Seq(Message), NEW q \in Seq(Message), q # <<>>,
           NEW l \in Seq(Message), Follows(s, g, q, l)
    PROVE  /\ Append(g, Head(q)) \in Seq(Message) /\ Tail(q) \in Seq(Message)
           /\ Follows(s, Append(g, Head(q)), Tail(q), l)
           /\ s + Len(Append(g, Head(q))) + Len(Tail(q)) = s + Len(g) + Len(q)
  <1>1. PICK g2 \in Seq(Message), q2 \in Seq(Message) :
          g2 = Append(g, Head(q)) /\ q2 = Tail(q)
    BY AppendShape, TailShape
  <1>2. /\ Len(g2) = Len(g) + 1 /\ Len(q2) = Len(q) - 1 /\ Len(q) >= 1
        /\ \A i \in 1 .. Len(g) : g2[i] = g[i]
        /\ g2[Len(g) + 1] = q[1]
        /\ \A i \in 1 .. Len(q2) : q2[i] = q[i + 1]
    BY <1>1, AppendShape, TailShape
  <1>3. s + Len(g2) + Len(q2) = s + Len(g) + Len(q)
    BY <1>2
  <1>4. ASSUME NEW i \in 1 .. Len(g2)
        PROVE  g2[i] = l[s + i]
    <2>1. CASE i = Len(g) + 1
      BY <1>2, <2>1 DEF Follows
    <2>2. CASE i \in 1 .. Len(g)
      BY <1>2, <2>2 DEF Follows
    <2>. QED
      BY <1>2, <2>1, <2>2
  <1>5. ASSUME NEW i \in 1 .. Len(q2)
        PROVE  q2[i] = l[s + Len(g2) + i]
    <2>0. Len(q2) = Len(q) - 1 /\ Len(q) \in Nat /\ q2[i] = q[i + 1]
      BY <1>2
    <2>3. i + 1 \in 1 .. Len(q)
      BY <2>0
    <2>1. q[i + 1] = l[s + Len(g) + (i + 1)] /\ q2[i] = q[i + 1]
      BY <2>0, <2>3 DEF Follows
    <2>2. s + Len(g) + (i + 1) = s + Len(g2) + i
      BY <1>2
    <2>. QED
      BY <2>1, <2>2
  <1>. QED
    BY <1>1, <1>3, <1>4, <1>5 DEF Follows

\* What follows the log is, joined, a prefix of the log since it subscribed.
LEMMA FollowsIsPrefix ==
    ASSUME NEW s \in Nat, NEW g \in Seq(Message), NEW q \in Seq(Message),
           NEW l \in Seq(Message), Follows(s, g, q, l)
    PROVE  /\ Len(g \o q) <= Len(SubSeq(l, s + 1, Len(l)))
           /\ g \o q = SubSeq(SubSeq(l, s + 1, Len(l)), 1, Len(g \o q))
           /\ s + Len(g) + Len(q) = Len(l) => g \o q = SubSeq(l, s + 1, Len(l))
  <1>1. PICK seen \in Seq(Message) : seen = g \o q
    BY ConcatProperties
  <1>2. /\ Len(seen) = Len(g) + Len(q)
        /\ \A i \in 1 .. Len(g) + Len(q) :
              seen[i] = IF i <= Len(g) THEN g[i] ELSE q[i - Len(g)]
    BY <1>1, ConcatProperties
  <1>3. \A i \in s + 1 .. Len(l) : l[i] \in Message
    OBVIOUS
  <1>4. PICK since \in Seq(Message) : since = SubSeq(l, s + 1, Len(l))
    <2>1. SubSeq(l, s + 1, Len(l)) \in Seq(Message)
      BY <1>3, SubSeqProperties
    <2>. QED
      BY <2>1
  <1>5. /\ Len(since) = IF s + 1 <= Len(l) THEN Len(l) - (s + 1) + 1 ELSE 0
        /\ \A i \in 1 .. Len(l) - (s + 1) + 1 : since[i] = l[(s + 1) + i - 1]
    BY <1>3, <1>4, SubSeqProperties
  <1>6. Len(since) = Len(l) - s /\ \A i \in 1 .. Len(since) : since[i] = l[s + i]
    <2>1. Len(g) \in Nat /\ Len(q) \in Nat /\ Len(l) \in Nat /\ s + Len(g) + Len(q) <= Len(l)
      BY DEF Follows
    <2>2. Len(since) = Len(l) - s
      BY <1>5, <2>1
    <2>3. \A i \in 1 .. Len(since) : (s + 1) + i - 1 = s + i
      BY <2>1, <2>2
    <2>. QED
      BY <1>5, <2>1, <2>2, <2>3
  <1>7. ASSUME NEW i \in 1 .. Len(seen)
        PROVE  seen[i] = l[s + i]
    <2>1. CASE i <= Len(g)
      <3>1. i \in 1 .. Len(g) /\ i \in 1 .. Len(g) + Len(q)
        BY <1>2, <2>1
      <3>. QED
        BY <1>2, <2>1, <3>1 DEF Follows
    <2>2. CASE ~(i <= Len(g))
      <3>1. i - Len(g) \in 1 .. Len(q) /\ s + Len(g) + (i - Len(g)) = s + i
        BY <1>2, <2>2
      <3>. QED
        BY <1>2, <2>2, <3>1 DEF Follows
    <2>. QED
      BY <2>1, <2>2
  <1>8. Len(seen) <= Len(since)
    BY <1>2, <1>6 DEF Follows
  <1>9. \A i \in 1 .. Len(seen) : seen[i] = since[i]
    BY <1>6, <1>7, <1>8
  <1>10. seen = SubSeq(since, 1, Len(seen))
    <2>1. \A i \in 1 .. Len(seen) : since[i] \in Message
      BY <1>8
    <2>2. PICK p \in Seq(Message) : p = SubSeq(since, 1, Len(seen))
      <3>1. SubSeq(since, 1, Len(seen)) \in Seq(Message)
        BY <2>1, SubSeqProperties
      <3>. QED
        BY <3>1
    <2>3. /\ Len(p) = IF 1 <= Len(seen) THEN Len(seen) - 1 + 1 ELSE 0
          /\ \A i \in 1 .. Len(seen) - 1 + 1 : p[i] = since[1 + i - 1]
      BY <2>1, <2>2, SubSeqProperties
    <2>4. Len(p) = Len(seen) /\ \A i \in 1 .. Len(seen) : p[i] = since[i]
      BY <2>3
    <2>. QED
      BY <1>9, <2>2, <2>4, SeqEqual
  <1>11. s + Len(g) + Len(q) = Len(l) => seen = since
    <2>1. s + Len(g) + Len(q) = Len(l) => Len(seen) = Len(since)
      <3>1. Len(seen) = Len(g) + Len(q) /\ Len(since) = Len(l) - s
        BY <1>2, <1>6
      <3>2. PICK m \in Nat, n \in Nat, k \in Nat : m = Len(g) /\ n = Len(q) /\ k = Len(l)
        OBVIOUS
      <3>3. s + m + n = k => m + n = k - s
        OBVIOUS
      <3>. QED
        BY <3>1, <3>2, <3>3
    <2>2. seen \in Seq(Message) /\ since \in Seq(Message)
      BY <1>2, <1>4
    <2>. QED
      BY <1>9, <2>1, <2>2, SeqEqual
  <1>. QED
    BY <1>1, <1>4, <1>8, <1>10, <1>11

\* A publish keeps the subscriber's view.
LEMMA InsertSeen ==
    ASSUME GateTypeOK, SeenInv, NEW m, Writable(m), Insert(m)
    PROVE  sub' \in Subscription /\ SeenInv'
  <1>1. FanOut(m) /\ m \in Message /\ log' = Append(log, m) /\ log \in Seq(Message)
    BY DEF Insert, Writable, GateTypeOK, BusTypeOK
  <1>2. /\ sub' \in Subscription
        /\ sub'.state = sub.state /\ sub'.since = sub.since /\ sub'.got = sub.got
        /\ sub.state \in {"open", "closing"} => sub'.queue = Append(sub.queue, m)
        /\ sub.state \notin {"open", "closing"} => sub'.queue = sub.queue
    BY <1>1, FanOutShape
  <1>3. CASE sub.state \in {"open", "closing"}
    <2>1. /\ Follows(sub.since, sub.got, sub.queue, log)
          /\ sub.since + Len(sub.got) + Len(sub.queue) = Len(log)
      BY <1>3 DEF SeenInv
    <2>2. /\ Follows(sub.since, sub.got, Append(sub.queue, m), Append(log, m))
          /\ sub.since + Len(sub.got) + Len(Append(sub.queue, m)) = Len(Append(log, m))
      <3>1. PICK s \in Nat, g \in Seq(Message), q \in Seq(Message), l \in Seq(Message) :
              s = sub.since /\ g = sub.got /\ q = sub.queue /\ l = log
        BY <1>1, SubShape
      <3>2. Follows(s, g, q, l) /\ s + Len(g) + Len(q) = Len(l)
        BY <2>1, <3>1, Zenon
      <3>3. /\ Follows(s, g, Append(q, m), Append(l, m))
            /\ s + Len(g) + Len(Append(q, m)) = Len(Append(l, m))
        BY <1>1, <3>2, FollowsPublish
      <3>. QED
        BY <3>1, <3>3, Zenon
    <2>. QED
      BY <1>1, <1>2, <1>3, <2>2, Zenon DEF SeenInv
  <1>4. CASE sub.state = "closed"
    <2>1. Follows(sub.since, sub.got, sub.queue, Append(log, m))
      BY <1>1, <1>4, SubShape, FollowsLog DEF SeenInv
    <2>. QED
      BY <1>1, <1>2, <1>4, <2>1 DEF SeenInv
  <1>5. CASE sub.state = "none"
    BY <1>2, <1>5 DEF SeenInv
  <1>. QED
    BY <1>2, <1>3, <1>4, <1>5, SubShape

\* A new subscriber is due nothing of what was published before it.
LEMMA SubscribeSeen ==
    ASSUME GateTypeOK, SeenInv, Subscribe
    PROVE  sub' \in Subscription /\ SeenInv'
  <1>1. /\ log \in Seq(Message) /\ sub.got = <<>> /\ sub.queue = <<>>
        /\ sub' = [sub EXCEPT !.state = "open", !.since = Len(log)] /\ log' = log
    BY DEF Subscribe, SeenInv, GateTypeOK, BusTypeOK
  <1>2. /\ sub' \in Subscription /\ sub'.state = "open" /\ sub'.since = Len(log)
        /\ sub'.got = <<>> /\ sub'.queue = <<>>
    BY <1>1, SubShape DEF GateTypeOK, BusTypeOK, Subscription
  <1>3. ASSUME NEW l \in Seq(Message)
        PROVE  Follows(Len(l), <<>>, <<>>, l) /\ Len(l) + Len(<<>>) + Len(<<>>) = Len(l)
    BY DEF Follows
  <1>. QED
    BY <1>1, <1>2, <1>3 DEF SeenInv

\* A subscriber that takes the head of its queue has one more and is due one less.
LEMMA TakesSeen ==
    ASSUME GateTypeOK, SeenInv, SubscriberTakes
    PROVE  sub' \in Subscription /\ SeenInv'
  <1>1. log' = log /\ log \in Seq(Message) /\ sub.state # "none"
    BY DEF SubscriberTakes, GateTypeOK, BusTypeOK
  <1>2. CASE /\ sub.queue # <<>>
             /\ sub' = [sub EXCEPT !.queue = Tail(@), !.got = Append(@, Head(sub.queue))]
    <2>1. PICK q \in Seq(Message), g \in Seq(Message) :
            /\ q = Tail(sub.queue) /\ g = Append(sub.got, Head(sub.queue))
            /\ Follows(sub.since, g, q, log)
            /\ sub.since + Len(g) + Len(q) = sub.since + Len(sub.got) + Len(sub.queue)
      <3>1. Follows(sub.since, sub.got, sub.queue, log)
        BY <1>1 DEF SeenInv
      <3>. QED
        <4>1. sub.since \in Nat /\ sub.got \in Seq(Message) /\ sub.queue \in Seq(Message)
          BY SubShape
        <4>2. /\ Append(sub.got, Head(sub.queue)) \in Seq(Message)
              /\ Tail(sub.queue) \in Seq(Message)
              /\ Follows(sub.since, Append(sub.got, Head(sub.queue)), Tail(sub.queue), log)
              /\ sub.since + Len(Append(sub.got, Head(sub.queue))) + Len(Tail(sub.queue))
                  = sub.since + Len(sub.got) + Len(sub.queue)
          BY <1>1, <1>2, <3>1, <4>1, FollowsTake
        <4>. QED
          BY <4>2, Zenon
    <2>2. sub' = [sub EXCEPT !.queue = q, !.got = g]
      BY <1>2, <2>1
    <2>3. /\ sub' \in Subscription /\ sub'.state = sub.state /\ sub'.since = sub.since
          /\ sub'.got = g /\ sub'.queue = q
      BY <2>2 DEF GateTypeOK, BusTypeOK, Subscription
    <2>. QED
      BY <1>1, <2>1, <2>3, Zenon DEF SeenInv
  <1>3. CASE sub' = [sub EXCEPT !.parked = TRUE]
    <2>1. /\ sub' \in Subscription /\ sub'.state = sub.state /\ sub'.since = sub.since
          /\ sub'.got = sub.got /\ sub'.queue = sub.queue
      BY <1>3 DEF GateTypeOK, BusTypeOK, Subscription
    <2>. QED
      BY <1>1, <2>1 DEF SeenInv
  <1>. QED
    BY <1>2, <1>3 DEF SubscriberTakes

\* A subscription only closes.
LEMMA ClosesSeen ==
    ASSUME GateTypeOK, SeenInv, log' = log,
           NEW s \in {"none", "open", "closing", "closed"},
           sub.state = "none" <=> s = "none",
           s = "open" => sub.state = "open",
           s = "closing" => sub.state \in {"open", "closing"},
           sub' = [sub EXCEPT !.parked = FALSE, !.state = s]
    PROVE  sub' \in Subscription /\ SeenInv'
  <1>1. /\ sub' \in Subscription /\ sub'.state = s /\ sub'.since = sub.since
        /\ sub'.got = sub.got /\ sub'.queue = sub.queue
    BY DEF GateTypeOK, BusTypeOK, Subscription
  <1>. QED
    BY <1>1 DEF SeenInv

\* What the subscriber has and is due, joined, is the log since it subscribed.
LEMMA SeenIsTheLog ==
    ASSUME GateTypeOK, SeenInv
    PROVE  SubscriberSeesAll
  <1>1. CASE sub.state # "none"
    <2>1. Follows(sub.since, sub.got, sub.queue, log) /\ log \in Seq(Message)
      BY <1>1 DEF SeenInv, GateTypeOK, BusTypeOK
    <2>2. /\ Len(sub.got \o sub.queue) <= Len(SubSeq(log, sub.since + 1, Len(log)))
          /\ sub.got \o sub.queue = SubSeq(SubSeq(log, sub.since + 1, Len(log)), 1,
                                           Len(sub.got \o sub.queue))
          /\ sub.since + Len(sub.got) + Len(sub.queue) = Len(log)
                => sub.got \o sub.queue = SubSeq(log, sub.since + 1, Len(log))
      <3>1. PICK s \in Nat, g \in Seq(Message), q \in Seq(Message), l \in Seq(Message) :
              s = sub.since /\ g = sub.got /\ q = sub.queue /\ l = log
        BY <2>1, SubShape
      <3>2. Follows(s, g, q, l)
        BY <2>1, <3>1, Zenon
      <3>3. /\ Len(g \o q) <= Len(SubSeq(l, s + 1, Len(l)))
            /\ g \o q = SubSeq(SubSeq(l, s + 1, Len(l)), 1, Len(g \o q))
            /\ s + Len(g) + Len(q) = Len(l) => g \o q = SubSeq(l, s + 1, Len(l))
        BY <3>2, FollowsIsPrefix, SMTT(60)
      <3>. QED
        BY <3>1, <3>3, Zenon
    <2>3. sub.state = "open" => sub.since + Len(sub.got) + Len(sub.queue) = Len(log)
      BY DEF SeenInv
    <2>. QED
      BY <2>2, <2>3, Zenon DEF SubscriberSeesAll
  <1>2. CASE sub.state = "none"
    BY <1>2 DEF SubscriberSeesAll
  <1>. QED
    BY <1>1, <1>2

-----------------------------------------------------------------------------
(* What a step may do to the bus.                                          *)

\* The log only grows.
LogGrows == \A i \in DOMAIN log : i \in DOMAIN log' /\ log'[i] = log[i]

\* A message of the loop is published, or the loop unwinds.
LEMMA PublishesShape ==
    ASSUME GateTypeOK, loop.pc \in InCall, NEW kind \in {"actionable", "informational"},
           NEW p, LoopPublishes(Said(kind, Current), p)
    PROVE  \/ Writable(Said(kind, Current)) /\ Insert(Said(kind, Current)) /\ Goes(p)
           \/ UNCHANGED busVars /\ closed /\ Goes("finally")
  <1>1. Writable(Said(kind, Current))
    BY CurrentShape, SaidShape DEF Writable, GateTypeOK, LoopTypeOK
  <1>. QED
    BY <1>1 DEF LoopPublishes

\* A step of the gate changes the bus by a publish or not at all.
LEMMA GateDecidesBus ==
    ASSUME GateTypeOK, GateDecides
    PROVE  UNCHANGED busVars \/ \E m : Writable(m) /\ Insert(m)
  BY PublishesShape DEF GateDecides, InCall

\* The end of a wait changes the bus by a publish or not at all.
LEMMA OnTimeoutBus ==
    ASSUME GateTypeOK, OnTimeout
    PROVE  UNCHANGED busVars \/ \E m : Writable(m) /\ Insert(m)
  BY PublishesShape DEF OnTimeout, InCall

\* Every step leaves the bus alone, publishes one message, or is a step of the
\* subscriber or of the thread that closes.
LEMMA BusMoves ==
    ASSUME GateTypeOK, GateNext
    PROVE  \/ UNCHANGED busVars \/ Subscribe \/ SubscriberTakes \/ SubscriptionCloses
           \/ BusCloses \/ \E m : Writable(m) /\ Insert(m)
  <1>1. CASE LoopStep
    <2>1. CASE GateDecides
      BY <2>1, GateDecidesBus
    <2>2. CASE OnTimeout
      BY <2>2, OnTimeoutBus
    <2>3. CASE StepStarts \/ DrainPolls \/ DrainAppends \/ DrainEnds \/ LlmAnswers \/ ToolCall
      BY <2>3 DEF StepStarts, DrainPolls, DrainAppends, DrainEnds, LlmAnswers, ToolCall
    <2>4. CASE Defers \/ WaitChecks \/ Executes \/ Skips \/ Finally
      BY <2>4 DEF Defers, WaitChecks, Executes, Skips, Finally
    <2>. QED
      BY <1>1, <2>1, <2>2, <2>3, <2>4 DEF LoopStep
  <1>2. CASE WaitExpires \/ RequestStop
    BY <1>2 DEF WaitExpires, RequestStop
  <1>3. ASSUME NEW u \in User, NEW a \in Action, NEW v \in {"yes", "no"}, UserWrites(u, a, v)
        PROVE  UNCHANGED busVars
    BY <1>3 DEF UserWrites
  <1>4. ASSUME NEW u \in User, UserPublishes(u)
        PROVE  UNCHANGED busVars \/ \E m : Writable(m) /\ Insert(m)
    <2>1. CASE Insert(user[u])
      <3>1. user[u] # Nothing /\ user[u] \in Message /\ user[u].value # Nothing
        BY <1>4 DEF UserPublishes, GateTypeOK, OthersTypeOK
      <3>. QED
        BY <2>1, <3>1 DEF Writable
    <2>2. CASE UNCHANGED busVars
      BY <2>2
    <2>. QED
      BY <1>4, <2>1, <2>2 DEF UserPublishes
  <1>. QED
    BY <1>1, <1>2, <1>3, <1>4 DEF GateNext

\* The bus keeps its types and its promise to the subscriber; nothing
\* published is lost and a closed bus stays closed.
LEMMA BusStep ==
    ASSUME GateTypeOK, SeenInv, [GateNext]_gateVars
    PROVE  BusTypeOK' /\ SeenInv' /\ LogGrows /\ (closed => closed')
  <1>. USE DEF GateTypeOK
  <1>1. CASE UNCHANGED busVars
    BY <1>1 DEF busVars, BusTypeOK, SeenInv, LogGrows
  <1>2. CASE Subscribe
    BY <1>2, SubscribeSeen DEF Subscribe, BusTypeOK, LogGrows
  <1>3. CASE SubscriberTakes
    BY <1>3, TakesSeen DEF SubscriberTakes, BusTypeOK, LogGrows
  <1>4. CASE SubscriptionCloses
    <2>1. \E s \in {"closing", "closed"} :
            /\ s = "closing" => sub.state = "open"
            /\ sub.state # "none"
            /\ sub' = [sub EXCEPT !.parked = FALSE, !.state = s]
      BY <1>4 DEF SubscriptionCloses, BusTypeOK, Subscription
    <2>2. log' = log /\ closed' = closed
      BY <1>4 DEF SubscriptionCloses
    <2>3. sub' \in Subscription /\ SeenInv'
      BY <2>1, <2>2, ClosesSeen
    <2>. QED
      BY <2>2, <2>3 DEF BusTypeOK, LogGrows
  <1>5. CASE BusCloses
    <2>1. \E s \in {"none", "closed"} :
            /\ sub.state = "none" <=> s = "none"
            /\ sub' = [sub EXCEPT !.parked = FALSE, !.state = s]
      BY <1>5 DEF BusCloses, BusTypeOK, Subscription
    <2>2. log' = log /\ closed' = TRUE
      BY <1>5 DEF BusCloses
    <2>3. sub' \in Subscription /\ SeenInv'
      BY <2>1, <2>2, ClosesSeen
    <2>. QED
      BY <2>2, <2>3 DEF BusTypeOK, LogGrows
  <1>6. ASSUME NEW m, Writable(m), Insert(m)
        PROVE  BusTypeOK' /\ SeenInv' /\ LogGrows /\ (closed => closed')
    <2>1. sub' \in Subscription /\ SeenInv'
      BY <1>6, InsertSeen
    <2>2. /\ log' \in Seq(Message) /\ Len(log') = Len(log) + 1 /\ Len(log) \in Nat
          /\ \A i \in 1 .. Len(log) : log'[i] = log[i]
          /\ \A i \in DOMAIN log' : log'[i].kind = "response" => log'[i].value # Nothing
          /\ closed' = closed /\ ~closed
      BY <1>6, InsertShape
    <2>3. LogGrows
      BY <2>2 DEF LogGrows, BusTypeOK
    <2>. QED
      BY <2>1, <2>2, <2>3 DEF BusTypeOK
  <1>7. CASE UNCHANGED gateVars
    BY <1>1, <1>7 DEF gateVars
  <1>. QED
    BY <1>1, <1>2, <1>3, <1>4, <1>5, <1>6, <1>7, BusMoves

-----------------------------------------------------------------------------
(* The loop and the users keep their types.                                *)

\* The places of the loop.
LEMMA LoopFacts ==
    ASSUME GateTypeOK
    PROVE  /\ loop.pc \in Pc /\ loop.next \in Nat /\ Len(Actions) \in Nat
           /\ loop.next >= 1 /\ loop.next <= Len(Actions) + 1
           /\ loop.pc \in InCall => loop.next <= Len(Actions)
           /\ loop.pc = "drain_append" => todo # <<>>
           /\ pending \in Seq(Action) /\ todo \in Seq(Action) /\ keep \in Seq(Action)
           /\ ran \in [Action -> Nat] /\ timedOut \in SUBSET Action /\ failures \in Nat
  BY AutonomyAssumption DEF GateTypeOK, LoopTypeOK, Loop

\* A loop that stays at its tool call, or leaves it, is well placed.
LEMMA MoveTypes ==
    ASSUME GateTypeOK, loop' \in Loop, loop'.next = loop.next,
           loop'.pc \in InCall => loop.next <= Len(Actions),
           loop'.pc = "drain_append" => todo' # <<>>,
           pending' \in Seq(Action), todo' \in Seq(Action), keep' \in Seq(Action),
           ran' \in [Action -> Nat], timedOut' \in SUBSET Action, failures' \in Nat
    PROVE  LoopTypeOK'
  BY LoopFacts DEF LoopTypeOK

\* A loop that passes a tool call is well placed.
LEMMA NextTypes ==
    ASSUME GateTypeOK, NextTool, loop.pc \in InCall, pending' \in Seq(Action),
           UNCHANGED <<todo, keep, timedOut>>, ran' \in [Action -> Nat], failures' \in Nat
    PROVE  LoopTypeOK'
  <1>1. /\ loop' \in Loop /\ loop'.pc \in {"step", "tool"} /\ loop'.next = loop.next + 1
    BY NextToolShape
  <1>2. loop.next \in Nat /\ Len(Actions) \in Nat /\ loop.next >= 1 /\ loop.next <= Len(Actions)
    BY LoopFacts
  <1>3. loop'.next >= 1 /\ loop'.next <= Len(Actions) + 1 /\ loop'.pc \notin InCall
    BY <1>1, <1>2 DEF InCall
  <1>. QED
    BY <1>1, <1>3, LoopFacts DEF LoopTypeOK

\* Running an action counts it.
LEMMA RunShape ==
    ASSUME GateTypeOK, NEW a \in Action
    PROVE  /\ [ran EXCEPT ![a] = @ + 1] \in [Action -> Nat]
           /\ [ran EXCEPT ![a] = @ + 1][a] = ran[a] + 1 /\ ran[a] \in Nat
           /\ \A b \in Action : b # a => [ran EXCEPT ![a] = @ + 1][b] = ran[b]
  BY LoopFacts

\* The loop at a place that is no tool call's.
LEMMA OutsideTypes ==
    ASSUME GateTypeOK, NEW p \in Pc \ InCall, Goes(p), p = "drain_append" => todo' # <<>>,
           pending' \in Seq(Action), todo' \in Seq(Action), keep' \in Seq(Action),
           ran' \in [Action -> Nat], timedOut' = timedOut, failures' \in Nat
    PROVE  LoopTypeOK'
  BY GoesShape, MoveTypes, LoopFacts

\* The loop at a place inside a tool call.
LEMMA InsideTypes ==
    ASSUME GateTypeOK, NEW p \in Pc, Goes(p), loop.next <= Len(Actions), p # "drain_append",
           UNCHANGED <<pending, todo, keep, ran, timedOut, failures>>
    PROVE  LoopTypeOK'
  BY GoesShape, MoveTypes, LoopFacts

\* The interrupt of a run.
LEMMA InterruptShape ==
    ASSUME GateTypeOK, loop' = [loop EXCEPT !.pc = "finally", !.interrupted = TRUE]
    PROVE  /\ loop' \in Loop /\ loop'.pc = "finally" /\ loop'.next = loop.next
           /\ loop'.expired = loop.expired /\ loop'.final = loop.final
  BY DEF GateTypeOK, LoopTypeOK, Loop, Pc

\* The last step of a run, and the drain before it.
LEMMA FinallyShape ==
    ASSUME GateTypeOK, Finally
    PROVE  /\ loop' \in Loop /\ loop'.next = loop.next
           /\ loop'.pc = "done" \/ loop'.pc = "drain"
  BY DEF GateTypeOK, LoopTypeOK, Loop, Pc, Finally

\* The deadline of a wait.
LEMMA ExpiresShape ==
    ASSUME GateTypeOK, WaitExpires
    PROVE  /\ loop' \in Loop /\ loop'.pc = "wait" /\ loop'.next = loop.next
           /\ loop.pc \in {"parked", "wait"}
  BY DEF GateTypeOK, LoopTypeOK, Loop, Pc, WaitExpires

\* Where a drain that is over leaves the loop.
LEMMA DrainEndsShape ==
    ASSUME GateTypeOK, DrainEnds
    PROVE  /\ loop' \in Loop /\ loop'.next = loop.next
           /\ loop'.pc = "done" \/ loop'.pc = "finally" \/ loop'.pc = "llm"
  <1>1. \/ loop' = [loop EXCEPT !.pc = "done"]
        \/ loop' = [loop EXCEPT !.pc = "finally", !.interrupted = TRUE]
        \/ loop' = [loop EXCEPT !.pc = "llm"]
    BY DEF DrainEnds
  <1>. QED
    BY <1>1 DEF GateTypeOK, LoopTypeOK, Loop, Pc

\* The loop keeps its types.
LEMMA LoopTypes ==
    ASSUME GateTypeOK, [GateNext]_gateVars
    PROVE  LoopTypeOK'
  <1>0. LoopTypeOK
    BY DEF GateTypeOK
  <1>1. CASE StepStarts
    <2>1. /\ todo' \in Seq(Action) /\ keep' \in Seq(Action) /\ pending' \in Seq(Action)
          /\ ran' \in [Action -> Nat] /\ timedOut' \in SUBSET Action /\ failures' \in Nat
      BY <1>1, LoopFacts DEF StepStarts
    <2>2. CASE loop' = [loop EXCEPT !.pc = "finally", !.interrupted = TRUE]
      BY <2>1, <2>2, InterruptShape, MoveTypes DEF InCall
    <2>3. CASE Goes("drain")
      BY <2>1, <2>3, GoesShape, MoveTypes DEF InCall, Pc
    <2>. QED
      BY <1>1, <2>2, <2>3 DEF StepStarts
  <1>2. CASE DrainPolls
    <2>1. Head(todo) \in Action /\ Tail(todo) \in Seq(Action) /\ keep \in Seq(Action)
      BY <1>2, LoopFacts, TailShape DEF DrainPolls
    <2>2. CASE keep' = Append(keep, Head(todo)) /\ todo' = Tail(todo) /\ UNCHANGED <<loop, ran>>
      <3>1. keep' \in Seq(Action)
        BY <2>1, <2>2, AppendShape
      <3>. QED
        BY <1>0, <1>2, <2>1, <2>2, <3>1 DEF DrainPolls, LoopTypeOK
    <2>3. CASE Goes("drain_append") /\ UNCHANGED <<todo, keep, ran>>
      BY <1>2, <2>3, LoopFacts, OutsideTypes DEF DrainPolls, InCall, Pc
    <2>4. CASE /\ ran' = [ran EXCEPT ![Head(todo)] = @ + 1]
               /\ Goes("drain_append") /\ UNCHANGED <<todo, keep>>
      <3>1. ran' \in [Action -> Nat]
        BY <2>1, <2>4, RunShape
      <3>. QED
        BY <1>2, <2>4, <3>1, LoopFacts, OutsideTypes DEF DrainPolls, InCall, Pc
    <2>. QED
      BY <1>2, <2>2, <2>3, <2>4 DEF DrainPolls
  <1>3. CASE DrainAppends
    <2>1. CASE todo' = Tail(todo) /\ Goes("drain") /\ UNCHANGED failures
      <3>1. Tail(todo) \in Seq(Action)
        BY <1>3, LoopFacts, TailShape DEF DrainAppends
      <3>. QED
        BY <1>3, <2>1, <3>1, LoopFacts, OutsideTypes DEF DrainAppends, InCall, Pc
    <2>2. CASE /\ failures' = failures + 1 /\ UNCHANGED todo
               /\ Goes(IF loop.final THEN "done" ELSE "finally")
      <3>1. failures' \in Nat
        BY <2>2, LoopFacts
      <3>2. Goes("done") \/ Goes("finally")
        BY <2>2
      <3>. QED
        BY <1>3, <2>2, <3>1, <3>2, LoopFacts, OutsideTypes DEF DrainAppends, InCall, Pc
    <2>. QED
      BY <1>3, <2>1, <2>2 DEF DrainAppends
  <1>4. CASE DrainEnds
    BY <1>4, DrainEndsShape, LoopFacts, MoveTypes DEF DrainEnds, InCall
  <1>5. CASE LlmAnswers
    BY <1>5, OutsideTypes, LoopFacts DEF LlmAnswers, InCall, Pc
  <1>6. CASE ToolCall
    <2>1. CASE Goes("finally")
      BY <1>6, <2>1, OutsideTypes, LoopFacts DEF ToolCall, InCall, Pc
    <2>2. CASE loop' = [loop EXCEPT !.pc = "finally", !.interrupted = TRUE]
      BY <1>6, <2>2, InterruptShape, MoveTypes, LoopFacts DEF ToolCall, InCall
    <2>3. CASE loop.next <= Len(Actions) /\ Goes("gate")
      BY <1>6, <2>3, InsideTypes DEF ToolCall, Pc
    <2>. QED
      BY <1>6, <2>1, <2>2, <2>3 DEF ToolCall
  <1>7. CASE GateDecides
    <2>1. loop.pc \in InCall /\ loop.next <= Len(Actions)
      BY <1>7, LoopFacts DEF GateDecides, InCall
    <2>2. \E p \in Pc : p # "drain_append" /\ Goes(p)
      BY <1>7, <2>1, PublishesShape DEF GateDecides, Pc
    <2>. QED
      BY <1>7, <2>1, <2>2, InsideTypes DEF GateDecides
  <1>8. CASE Defers
    <2>1. pending' \in Seq(Action) /\ loop.pc \in InCall
      BY <1>8, LoopFacts, CurrentShape, AppendShape DEF Defers, InCall
    <2>. QED
      BY <1>8, <2>1, NextTypes, LoopFacts DEF Defers
  <1>9. CASE WaitChecks
    <2>1. loop.next <= Len(Actions)
      BY <1>9, LoopFacts DEF WaitChecks, InCall
    <2>2. \E p \in Pc : p # "drain_append" /\ Goes(p)
      BY <1>9 DEF WaitChecks, Pc
    <2>. QED
      BY <1>9, <2>1, <2>2, InsideTypes DEF WaitChecks
  <1>10. CASE OnTimeout
    <2>1. loop.pc \in InCall /\ loop.next <= Len(Actions)
      BY <1>10, LoopFacts DEF OnTimeout, InCall
    <2>2. \E p \in Pc : p # "drain_append" /\ Goes(p)
      BY <1>10, <2>1, PublishesShape DEF OnTimeout, Pc
    <2>. QED
      BY <1>10, <2>1, <2>2, InsideTypes DEF OnTimeout
  <1>11. CASE Executes
    <2>1. loop.pc \in InCall /\ ran' \in [Action -> Nat]
      BY <1>11, LoopFacts, CurrentShape, RunShape DEF Executes, InCall
    <2>2. CASE NextTool /\ UNCHANGED failures
      BY <1>11, <2>1, <2>2, LoopFacts, NextTypes DEF Executes
    <2>3. CASE failures' = failures + 1 /\ Goes("finally")
      <3>1. failures' \in Nat
        BY <2>3, LoopFacts
      <3>. QED
        BY <1>11, <2>1, <2>3, <3>1, LoopFacts, OutsideTypes DEF Executes, InCall, Pc
    <2>. QED
      BY <1>11, <2>2, <2>3 DEF Executes
  <1>12. CASE Skips
    BY <1>12, LoopFacts, NextTypes DEF Skips, InCall
  <1>13. CASE Finally
    <2>1. keep' \in Seq(Action) /\ todo' \in Seq(Action)
      BY <1>13, LoopFacts DEF Finally
    <2>. QED
      BY <1>13, <2>1, FinallyShape, LoopFacts, MoveTypes DEF Finally, InCall
  <1>14. CASE WaitExpires
    <2>1. loop.next <= Len(Actions)
      BY <1>14, LoopFacts DEF WaitExpires, InCall
    <2>2. timedOut' \in SUBSET Action
      BY <1>14, <2>1, CurrentShape, LoopFacts DEF WaitExpires
    <2>. QED
      BY <1>14, <2>1, <2>2, ExpiresShape, LoopFacts, MoveTypes DEF WaitExpires
  <1>15. ASSUME loop' = Woken(loop),
               UNCHANGED <<pending, todo, keep, ran, timedOut, failures>>
         PROVE LoopTypeOK'
    <2>1. loop.pc = "parked" => loop.next <= Len(Actions)
      BY LoopFacts DEF InCall
    <2>. QED
      BY <1>15, <2>1, WokenShape, LoopFacts, MoveTypes
  <1>16. CASE SubscriptionCloses \/ BusCloses
    BY <1>15, <1>16 DEF SubscriptionCloses, BusCloses
  <1>17. CASE Subscribe \/ SubscriberTakes \/ RequestStop
    BY <1>0, <1>17 DEF Subscribe, SubscriberTakes, RequestStop, loopVars, LoopTypeOK
  <1>18. ASSUME NEW u \in User, NEW a \in Action, NEW v \in {"yes", "no"}, UserWrites(u, a, v)
         PROVE  LoopTypeOK'
    BY <1>0, <1>18 DEF UserWrites, loopVars, LoopTypeOK
  <1>19. ASSUME NEW u \in User, UserPublishes(u)
         PROVE  LoopTypeOK'
    <2>1. CASE loop' = Woken(loop)
      BY <1>15, <1>19, <2>1 DEF UserPublishes
    <2>2. CASE UNCHANGED loop
      BY <1>0, <1>19, <2>2 DEF UserPublishes, LoopTypeOK
    <2>. QED
      BY <1>19, <2>1, <2>2 DEF UserPublishes
  <1>20. CASE UNCHANGED gateVars
    BY <1>0, <1>20 DEF gateVars, loopVars, LoopTypeOK
  <1>. QED
    BY <1>1, <1>2, <1>3, <1>4, <1>5, <1>6, <1>7, <1>8, <1>9, <1>10, <1>11, <1>12, <1>13,
       <1>14, <1>16, <1>17, <1>18, <1>19, <1>20 DEF GateNext, LoopStep

\* The users keep their types: what they write is a response with an answer.
LEMMA OthersTypes ==
    ASSUME GateTypeOK, [GateNext]_gateVars
    PROVE  OthersTypeOK' /\ behavior' = behavior
  <1>0. OthersTypeOK
    BY DEF GateTypeOK
  <1>1. CASE UNCHANGED <<behavior, stop, user, written>>
    BY <1>0, <1>1 DEF OthersTypeOK
  <1>2. CASE LoopStep
    BY <1>1, <1>2 DEF LoopStep, Others, StepStarts, DrainPolls, DrainAppends, DrainEnds,
       LlmAnswers, ToolCall, GateDecides, Defers, WaitChecks, OnTimeout, Executes, Skips, Finally
  <1>3. CASE WaitExpires \/ Subscribe \/ SubscriberTakes \/ SubscriptionCloses \/ BusCloses
    BY <1>1, <1>3 DEF Others, WaitExpires, Subscribe, SubscriberTakes, SubscriptionCloses,
       BusCloses
  <1>4. CASE RequestStop
    BY <1>0, <1>4 DEF RequestStop, OthersTypeOK
  <1>5. ASSUME NEW u \in User, NEW a \in Action, NEW v \in {"yes", "no"}, UserWrites(u, a, v)
        PROVE  OthersTypeOK' /\ behavior' = behavior
    <2>1. PICK m \in Message :
            /\ m = [kind |-> "response", action |-> a, value |-> v, created |-> written]
            /\ m.kind = "response" /\ m.value = v
      <3>1. written \in Nat
        BY <1>0 DEF OthersTypeOK
      <3>2. [kind |-> "response", action |-> a, value |-> v, created |-> written] \in Message
        BY <3>1 DEF Message
      <3>. QED
        BY <3>2
    <2>2. v # Nothing
      BY AutonomyAssumption
    <2>3. user' = [user EXCEPT ![u] = m] /\ written' \in Nat /\ UNCHANGED <<behavior, stop>>
      BY <1>0, <1>5, <2>1 DEF UserWrites, OthersTypeOK
    <2>. QED
      BY <1>0, <2>1, <2>2, <2>3 DEF OthersTypeOK
  <1>6. ASSUME NEW u \in User, UserPublishes(u)
        PROVE  OthersTypeOK' /\ behavior' = behavior
    <2>1. user' = [user EXCEPT ![u] = Nothing] /\ UNCHANGED <<behavior, stop, written>>
      BY <1>6 DEF UserPublishes
    <2>. QED
      BY <1>0, <2>1 DEF OthersTypeOK
  <1>7. CASE UNCHANGED gateVars
    BY <1>1, <1>7 DEF gateVars
  <1>. QED
    BY <1>2, <1>3, <1>4, <1>5, <1>6, <1>7 DEF GateNext

\* Timeouts and failures are not forgotten.
LEMMA TimesGrow ==
    ASSUME GateTypeOK, [GateNext]_gateVars
    PROVE  timedOut \subseteq timedOut' /\ (failures' = failures \/ failures' = failures + 1)
  <1>1. CASE LoopStep
    BY <1>1 DEF LoopStep, StepStarts, DrainPolls, DrainAppends, DrainEnds, LlmAnswers,
       ToolCall, GateDecides, Defers, WaitChecks, OnTimeout, Executes, Skips, Finally
  <1>2. CASE WaitExpires
    BY <1>2 DEF WaitExpires
  <1>3. CASE Subscribe \/ SubscriberTakes \/ SubscriptionCloses \/ BusCloses \/ RequestStop
    BY <1>3 DEF Subscribe, SubscriberTakes, SubscriptionCloses, BusCloses, RequestStop, loopVars
  <1>4. ASSUME NEW u \in User, NEW a \in Action, NEW v \in {"yes", "no"}, UserWrites(u, a, v)
        PROVE  UNCHANGED <<timedOut, failures>>
    BY <1>4 DEF UserWrites, loopVars
  <1>5. ASSUME NEW u \in User, UserPublishes(u)
        PROVE  UNCHANGED <<timedOut, failures>>
    BY <1>5 DEF UserPublishes
  <1>6. CASE UNCHANGED gateVars
    BY <1>6 DEF gateVars, loopVars
  <1>. QED
    BY <1>1, <1>2, <1>3, <1>4, <1>5, <1>6 DEF GateNext

\* What was allowed stays allowed.
LEMMA AllowedStays ==
    ASSUME GateTypeOK, SeenInv, [GateNext]_gateVars, NEW a, Allowed(a)
    PROVE  Allowed(a)'
  <1>1. LogGrows /\ (closed => closed') /\ behavior' = behavior /\ timedOut \subseteq timedOut'
    BY BusStep, OthersTypes, TimesGrow
  <1>2. CASE \E i \in ResponsesTo(a) : log[i].value = "yes"
    <2>1. PICK i \in ResponsesTo(a) : log[i].value = "yes"
      BY <1>2
    <2>2. i \in DOMAIN log' /\ log'[i] = log[i]
      BY <1>1, <2>1 DEF LogGrows, ResponsesTo
    <2>. QED
      BY <2>1, <2>2 DEF Allowed, ResponsesTo
  <1>3. CASE ~\E i \in ResponsesTo(a) : log[i].value = "yes"
    BY <1>1, <1>3 DEF Allowed
  <1>. QED
    BY <1>2, <1>3

\* Whether the gate holds an action back does not change in a run.
LEMMA RiskyStays ==
    ASSUME GateTypeOK, [GateNext]_gateVars, NEW a
    PROVE  Risky(a)' = Risky(a)
  BY OthersTypes DEF Risky

\* What the gate lets pass is not risky (AutonomyGate.check).
LEMMA ProceedIsHarmless ==
    ASSUME GateTypeOK, NEW a, Verdict(a) = "proceed"
    PROVE  ~Risky(a)
  BY BehaviorShape DEF Behavior, Verdict, Risky

-----------------------------------------------------------------------------
(* Nothing the gate holds back runs unasked.                               *)

\* What the loop needs to know where it is.
Reason(p) ==
    /\ p = "execute" /\ Risky(Current) => Allowed(Current)
    /\ p \in {"wait", "parked", "on_timeout"} => behavior.strategy = "sync"
    /\ p = "on_timeout" => closed \/ Current \in timedOut

\* A loop that stays at its tool call and has a reason to be where it goes keeps
\* the invariant.
LEMMA ReasonStays ==
    ASSUME GateTypeOK, SeenInv, AllowedInv, [GateNext]_gateVars, loop' \in Loop,
           loop'.next = loop.next, loop'.expired = loop.expired, Reason(loop'.pc)
    PROVE  AllowedInv'
  <1>1. Current' = Current
    BY DEF Current
  <1>2. /\ behavior' = behavior /\ timedOut \subseteq timedOut' /\ (closed => closed')
        /\ Risky(Current)' = Risky(Current)
    BY <1>1, OthersTypes, TimesGrow, BusStep DEF Risky
  <1>3. Allowed(Current) => Allowed(Current)'
    <2>1. PICK a : a = Current
      OBVIOUS
    <2>2. Allowed(a) => Allowed(a)'
      BY AllowedStays
    <2>. QED
      BY <1>1, <2>1, <2>2 DEF Allowed, ResponsesTo
  <1>. QED
    BY <1>1, <1>2, <1>3 DEF AllowedInv, Reason

\* A loop that goes to another place of the same tool call.
LEMMA GoesReason ==
    ASSUME GateTypeOK, SeenInv, AllowedInv, [GateNext]_gateVars, NEW p \in Pc, Goes(p),
           Reason(p)
    PROVE  AllowedInv'
  BY GoesShape, ReasonStays

\* A place outside a wait and before no runtime needs no reason.
LEMMA FreePlace ==
    ASSUME NEW p, p \notin {"execute", "wait", "parked", "on_timeout"}
    PROVE  Reason(p)
  BY DEF Reason

\* A loop that passes a tool call keeps the invariant.
LEMMA NextReason ==
    ASSUME GateTypeOK, NextTool
    PROVE  AllowedInv'
  <1>1. loop'.pc \in {"step", "tool"} /\ loop'.expired = FALSE
    BY NextToolShape
  <1>. QED
    BY <1>1 DEF AllowedInv

\* The verdict of the gate gives the loop its reason.
LEMMA GateReason ==
    ASSUME GateTypeOK, SeenInv, AllowedInv, GateDecides
    PROVE  AllowedInv'
  <1>0. loop.pc \in InCall /\ [GateNext]_gateVars
    BY DEF GateDecides, InCall, GateNext, LoopStep
  <1>1. \/ Goes("finally")
        \/ Verdict(Current) = "proceed" /\ Goes("execute")
        \/ /\ Verdict(Current) = "emit"
           /\ Goes(IF behavior.strategy = "async" THEN "defer" ELSE "wait")
    BY <1>0, PublishesShape DEF GateDecides
  <1>2. CASE Goes("finally")
    BY <1>0, <1>2, FreePlace, GoesReason DEF Pc
  <1>3. CASE Verdict(Current) = "proceed" /\ Goes("execute")
    <2>1. Reason("execute")
      BY <1>3, ProceedIsHarmless DEF Reason
    <2>. QED
      BY <1>0, <1>3, <2>1, GoesReason DEF Pc
  <1>4. CASE behavior.strategy = "async" /\ Goes("defer")
    BY <1>0, <1>4, FreePlace, GoesReason DEF Pc
  <1>5. CASE behavior.strategy # "async" /\ Goes("wait")
    <2>1. Reason("wait")
      BY <1>5, BehaviorShape DEF Reason, Behavior
    <2>. QED
      BY <1>0, <1>5, <2>1, GoesReason DEF Pc
  <1>. QED
    BY <1>1, <1>2, <1>3, <1>4, <1>5

\* The predicate of a wait gives the loop its reason.
LEMMA WaitReason ==
    ASSUME GateTypeOK, SeenInv, AllowedInv, WaitChecks
    PROVE  AllowedInv'
  <1>0. [GateNext]_gateVars /\ behavior.strategy = "sync"
    BY DEF WaitChecks, GateNext, LoopStep, AllowedInv
  <1>1. CASE ResponseFor(Current) # Nothing /\ Rejects(ResponseFor(Current)) /\ Goes("skip")
    BY <1>0, <1>1, FreePlace, GoesReason DEF Pc
  <1>2. CASE ResponseFor(Current) # Nothing /\ ~Rejects(ResponseFor(Current)) /\ Goes("execute")
    <2>1. Reason("execute")
      BY <1>2, AnswerAllows DEF Reason
    <2>. QED
      BY <1>0, <1>2, <2>1, GoesReason DEF Pc
  <1>3. CASE (closed \/ loop.expired) /\ Goes("on_timeout")
    <2>1. Reason("on_timeout")
      BY <1>0, <1>3 DEF Reason, AllowedInv
    <2>. QED
      BY <1>0, <1>3, <2>1, GoesReason DEF Pc
  <1>4. CASE Goes("parked")
    <2>1. Reason("parked")
      BY <1>0 DEF Reason
    <2>. QED
      BY <1>0, <1>4, <2>1, GoesReason DEF Pc
  <1>. QED
    BY <1>1, <1>2, <1>3, <1>4 DEF WaitChecks

\* The end of a wait gives the loop its reason: an answer that came after all,
\* or a behaviour that proceeds.
LEMMA TimeoutReason ==
    ASSUME GateTypeOK, SeenInv, AllowedInv, OnTimeout
    PROVE  AllowedInv'
  <1>0. /\ [GateNext]_gateVars /\ behavior.strategy = "sync" /\ loop.pc \in InCall
        /\ closed \/ Current \in timedOut
    BY DEF OnTimeout, GateNext, LoopStep, AllowedInv, InCall
  <1>1. CASE Goes("skip") \/ Goes("finally")
    BY <1>0, <1>1, FreePlace, GoesReason DEF Pc
  <1>2. CASE ResponseFor(Current) # Nothing /\ ~Rejects(ResponseFor(Current)) /\ Goes("execute")
    <2>1. Reason("execute")
      BY <1>2, AnswerAllows DEF Reason
    <2>. QED
      BY <1>0, <1>2, <2>1, GoesReason DEF Pc
  <1>3. CASE /\ behavior.onTimeout \notin {"wait", "skip"} /\ Goes("execute")
             /\ behavior.notify => ~closed
    <2>1. behavior.onTimeout = "proceed"
      BY <1>3, BehaviorShape DEF Behavior
    <2>2. Reason("execute")
      BY <1>0, <1>3, <2>1 DEF Reason, Allowed
    <2>. QED
      BY <1>0, <1>3, <2>2, GoesReason DEF Pc
  <1>4. CASE behavior.onTimeout = "wait"
    BY <1>1, <1>2, <1>4 DEF OnTimeout
  <1>5. CASE behavior.onTimeout # "wait"
    <2>. DEFINE then == IF behavior.onTimeout = "skip" THEN "skip" ELSE "execute"
    <2>1. \/ Goes("finally")
          \/ Goes(then) /\ (behavior.notify => ~closed)
      BY <1>0, <1>5, PublishesShape DEF OnTimeout, Insert
    <2>. QED
      BY <1>1, <1>3, <1>5, <2>1
  <1>. QED
    BY <1>4, <1>5

\* Every step keeps the reasons.
LEMMA AllowedStep ==
    ASSUME GateTypeOK, SeenInv, AllowedInv, [GateNext]_gateVars
    PROVE  AllowedInv'
  <1>1. CASE StepStarts \/ ToolCall
    <2>1. CASE \E p \in {"drain", "finally", "gate"} : Goes(p)
      BY <2>1, FreePlace, GoesReason DEF Pc
    <2>2. CASE loop' = [loop EXCEPT !.pc = "finally", !.interrupted = TRUE]
      BY <2>2, InterruptShape, FreePlace, ReasonStays
    <2>. QED
      BY <1>1, <2>1, <2>2 DEF StepStarts, ToolCall
  <1>2. CASE \E p \in {"drain_append", "drain", "done", "finally", "tool"} : Goes(p)
    BY <1>2, FreePlace, GoesReason DEF Pc
  <1>3. CASE loop' = Woken(loop)
    <2>1. Reason(loop.pc) /\ (loop.pc = "parked" => Reason("wait"))
      BY DEF AllowedInv, Reason
    <2>. QED
      BY <1>3, <2>1, WokenShape, ReasonStays
  <1>4. CASE UNCHANGED loop
    <2>1. Reason(loop.pc) /\ loop \in Loop
      BY DEF AllowedInv, Reason, GateTypeOK, LoopTypeOK
    <2>. QED
      BY <1>4, <2>1, ReasonStays
  <1>5. CASE DrainEnds \/ Finally
    <2>1. /\ loop' \in Loop /\ loop'.next = loop.next
          /\ loop'.pc \notin {"execute", "wait", "parked", "on_timeout"}
      BY <1>5, DrainEndsShape, FinallyShape
    <2>2. loop'.expired = loop.expired
      BY <1>5 DEF DrainEnds, Finally, GateTypeOK, LoopTypeOK, Loop
    <2>. QED
      BY <2>1, <2>2, FreePlace, ReasonStays
  <1>6. CASE NextTool
    BY <1>6, NextReason
  <1>7. CASE GateDecides
    BY <1>7, GateReason
  <1>8. CASE WaitChecks
    BY <1>8, WaitReason
  <1>9. CASE OnTimeout
    BY <1>9, TimeoutReason
  <1>10. CASE WaitExpires
    <2>1. /\ loop'.pc = "wait" /\ loop'.next = loop.next /\ loop.pc \in {"parked", "wait"}
      BY <1>10, ExpiresShape
    <2>2. Current' = Current /\ Current \in timedOut' /\ behavior' = behavior
      BY <1>10, <2>1 DEF WaitExpires, Current, Others
    <2>3. loop.next <= Len(Actions) /\ behavior.strategy = "sync"
      BY <2>1, LoopFacts DEF InCall, AllowedInv
    <2>. QED
      BY <2>1, <2>2, <2>3 DEF AllowedInv
  <1>11. CASE DrainPolls \/ DrainAppends \/ LlmAnswers \/ Defers \/ Executes \/ Skips
    BY <1>2, <1>4, <1>6, <1>11 DEF DrainPolls, DrainAppends, LlmAnswers, Defers, Executes, Skips
  <1>12. CASE Subscribe \/ SubscriberTakes \/ SubscriptionCloses \/ BusCloses \/ RequestStop
    BY <1>3, <1>4, <1>12 DEF Subscribe, SubscriberTakes, SubscriptionCloses, BusCloses,
       RequestStop, loopVars
  <1>13. ASSUME NEW u \in User, NEW a \in Action, NEW v \in {"yes", "no"}, UserWrites(u, a, v)
         PROVE  AllowedInv'
    BY <1>4, <1>13 DEF UserWrites, loopVars
  <1>14. ASSUME NEW u \in User, UserPublishes(u)
         PROVE  AllowedInv'
    BY <1>3, <1>4, <1>14 DEF UserPublishes
  <1>15. CASE UNCHANGED gateVars
    BY <1>4, <1>15 DEF gateVars, loopVars
  <1>. QED
    BY <1>1, <1>5, <1>7, <1>8, <1>9, <1>10, <1>11, <1>12, <1>13, <1>14, <1>15
       DEF GateNext, LoopStep

\* A run of an action needs a reason, and reasons last.
LEMMA RunStep ==
    ASSUME GateTypeOK, SeenInv, AllowedInv, RunsOnlyWhenAllowed, [GateNext]_gateVars
    PROVE  RunsOnlyWhenAllowed'
  <1>1. ASSUME NEW a \in Action, ran'[a] > 0 => ran[a] > 0 \/ (Risky(a) => Allowed(a)),
               ran'[a] > 0, Risky(a)'
        PROVE  Allowed(a)'
    <2>1. Allowed(a)
      BY <1>1, RiskyStays DEF RunsOnlyWhenAllowed
    <2>. QED
      BY <2>1, AllowedStays
  <1>2. CASE UNCHANGED ran
    BY <1>1, <1>2 DEF RunsOnlyWhenAllowed
  <1>3. ASSUME NEW b \in Action, ran' = [ran EXCEPT ![b] = @ + 1], Risky(b) => Allowed(b)
        PROVE  RunsOnlyWhenAllowed'
    <2>1. ASSUME NEW a \in Action, ran'[a] > 0, Risky(a)'
          PROVE  Allowed(a)'
      <3>1. a # b => ran'[a] = ran[a]
        BY <1>3, RunShape
      <3>. QED
        BY <1>1, <1>3, <2>1, <3>1
    <2>. QED
      BY <2>1 DEF RunsOnlyWhenAllowed
  <1>4. CASE DrainPolls
    <2>1. Head(todo) \in Action
      BY <1>4, LoopFacts, TailShape DEF DrainPolls
    <2>2. CASE UNCHANGED ran
      BY <1>2, <2>2
    <2>3. CASE /\ ResponseFor(Head(todo)) # Nothing /\ ~Rejects(ResponseFor(Head(todo)))
               /\ ran' = [ran EXCEPT ![Head(todo)] = @ + 1]
      <3>1. PICK b \in Action : b = Head(todo)
        BY <2>1
      <3>2. Allowed(b)
        BY <2>3, <3>1, AnswerAllows
      <3>. QED
        BY <1>3, <2>3, <3>1, <3>2
    <2>. QED
      BY <1>4, <2>2, <2>3 DEF DrainPolls
  <1>5. CASE Executes
    <2>1. PICK b \in Action : b = Current
      BY <1>5, LoopFacts, CurrentShape DEF Executes, InCall
    <2>2. ran' = [ran EXCEPT ![b] = @ + 1] /\ (Risky(b) => Allowed(b))
      BY <1>5, <2>1 DEF Executes, AllowedInv
    <2>. QED
      BY <1>3, <2>2
  <1>6. CASE StepStarts \/ DrainAppends \/ DrainEnds \/ LlmAnswers \/ ToolCall \/ GateDecides
    BY <1>2, <1>6 DEF StepStarts, DrainAppends, DrainEnds, LlmAnswers, ToolCall, GateDecides
  <1>7. CASE Defers \/ WaitChecks \/ OnTimeout \/ Skips \/ Finally \/ WaitExpires
    BY <1>2, <1>7 DEF Defers, WaitChecks, OnTimeout, Skips, Finally, WaitExpires
  <1>8. CASE Subscribe \/ SubscriberTakes \/ SubscriptionCloses \/ BusCloses \/ RequestStop
    BY <1>2, <1>8 DEF Subscribe, SubscriberTakes, SubscriptionCloses, BusCloses, RequestStop,
       loopVars
  <1>9. ASSUME NEW u \in User, NEW a \in Action, NEW v \in {"yes", "no"}, UserWrites(u, a, v)
        PROVE  UNCHANGED ran
    BY <1>9 DEF UserWrites, loopVars
  <1>10. ASSUME NEW u \in User, UserPublishes(u)
         PROVE  UNCHANGED ran
    BY <1>10 DEF UserPublishes
  <1>11. CASE UNCHANGED gateVars
    BY <1>2, <1>11 DEF gateVars, loopVars
  <1>. QED
    BY <1>2, <1>4, <1>5, <1>6, <1>7, <1>8, <1>9, <1>10, <1>11 DEF GateNext, LoopStep

-----------------------------------------------------------------------------
(* Nothing runs twice without a failure.                                   *)

\* A queue of deferred actions depends on the runs and the place of the loop.
LEMMA DeferredStays ==
    ASSUME GateTypeOK, NEW q \in Seq(Action), Deferred(q), loop'.next \in Nat,
           loop.next <= loop'.next, \A i \in DOMAIN q : ran'[q[i]] = ran[q[i]]
    PROVE  Deferred(q)'
  <1>1. loop.next \in Nat /\ \A k \in DOMAIN Actions : k \in Nat
    <2>1. Actions \in Seq(Action)
      BY AutonomyAssumption
    <2>. QED
      BY <2>1, LoopFacts
  <1>. QED
    BY <1>1 DEF Deferred

\* The tail of a queue of deferred actions is one, without its head.
LEMMA DeferredTail ==
    ASSUME GateTypeOK, NEW q \in Seq(Action), q # <<>>, Deferred(q)
    PROVE  /\ Deferred(Tail(q)) /\ ran[Head(q)] = 0 /\ Head(q) \in Action
           /\ \A i \in DOMAIN Tail(q) : Tail(q)[i] # Head(q)
           /\ \A k \in DOMAIN Actions : Head(q) = Actions[k] => k < loop.next
  <1>1. PICK r \in Seq(Action) : r = Tail(q)
    BY TailShape
  <1>2. /\ 1 \in DOMAIN q /\ Head(q) = q[1] /\ Head(q) \in Action
        /\ \A i \in DOMAIN r : i + 1 \in DOMAIN q /\ r[i] = q[i + 1]
    BY <1>1, TailShape
  <1>3. \A i \in DOMAIN r : i \in Nat /\ i >= 1
    OBVIOUS
  <1>4. ASSUME NEW i \in DOMAIN r, NEW j \in DOMAIN r, r[i] = r[j]
        PROVE  i = j
    <2>1. q[i + 1] = q[j + 1] /\ i + 1 \in DOMAIN q /\ j + 1 \in DOMAIN q
      BY <1>2, <1>4
    <2>2. i + 1 = j + 1
      BY <2>1 DEF Deferred
    <2>. QED
      BY <1>3, <2>2
  <1>5. ASSUME NEW i \in DOMAIN r
        PROVE  r[i] # Head(q)
    <2>1. i + 1 # 1 /\ i + 1 \in DOMAIN q
      BY <1>2, <1>3
    <2>. QED
      BY <1>2, <2>1 DEF Deferred
  <1>6. Deferred(r)
    BY <1>2, <1>4 DEF Deferred
  <1>. QED
    BY <1>1, <1>2, <1>5, <1>6 DEF Deferred

\* An action that has not run and is in no queue can be deferred.
LEMMA DeferredAppend ==
    ASSUME GateTypeOK, NEW q \in Seq(Action), Deferred(q), NEW a \in Action, ran[a] = 0,
           \A i \in DOMAIN q : q[i] # a,
           \A k \in DOMAIN Actions : a = Actions[k] => k < loop.next
    PROVE  Deferred(Append(q, a))
  <1>1. PICK r \in Seq(Action) : r = Append(q, a)
    BY AppendShape
  <1>2. /\ Len(r) = Len(q) + 1 /\ Len(q) \in Nat /\ r[Len(q) + 1] = a
        /\ \A i \in 1 .. Len(q) : r[i] = q[i]
    BY <1>1, AppendShape
  <1>3. \A i \in DOMAIN r : i = Len(q) + 1 \/ i \in 1 .. Len(q)
    BY <1>2
  <1>4. DOMAIN q = 1 .. Len(q)
    OBVIOUS
  <1>5. \A i, j \in DOMAIN r : r[i] = r[j] => i = j
    BY <1>2, <1>3, <1>4 DEF Deferred
  <1>6. \A i \in DOMAIN r : ran[r[i]] = 0
    BY <1>2, <1>3, <1>4 DEF Deferred
  <1>7. \A i \in DOMAIN r, k \in DOMAIN Actions : r[i] = Actions[k] => k < loop.next
    BY <1>2, <1>3, <1>4 DEF Deferred
  <1>. QED
    BY <1>1, <1>5, <1>6, <1>7 DEF Deferred

\* The empty queue.
LEMMA DeferredEmpty == Deferred(<<>>)
  BY DEF Deferred

\* The places of a drain, and the end of a run.
DrainOrDone == {"drain", "drain_append", "done"}

\* The promise to the runs alone: what is to come has not run.
RunsInv ==
    /\ \A a \in Action : ran[a] <= 1
    /\ \A k \in DOMAIN Actions : k >= loop.next => ran[Actions[k]] = 0

\* The promise of the queues at a place.
QueueInv(p) ==
    /\ p \notin DrainOrDone => Deferred(pending)
    /\ p = "drain" => Draining(todo)
    /\ p = "drain_append" => Draining(Tail(todo))

\* The invariant in these terms.
LEMMA OnceParts == OnceInv <=> (failures = 0 => RunsInv /\ QueueInv(loop.pc))
  BY DEF OnceInv, RunsInv, QueueInv, DrainOrDone

\* The tool calls are numbered, and Actions tells them apart.
LEMMA ActionsShape ==
    /\ Actions \in Seq(Action) /\ Len(Actions) \in Nat /\ DOMAIN Actions = 1 .. Len(Actions)
    /\ \A i, j \in DOMAIN Actions : Actions[i] = Actions[j] => i = j
  BY AutonomyAssumption

\* Queues stay as they are while nothing runs.
LEMMA QueuesStay ==
    ASSUME GateTypeOK, loop'.next = loop.next, UNCHANGED ran, NEW q \in Seq(Action), Deferred(q)
    PROVE  Deferred(q)'
  BY LoopFacts, DeferredStays

\* Runs stay as they are while nothing runs.
LEMMA RunsStay ==
    ASSUME GateTypeOK, RunsInv, loop'.next = loop.next, UNCHANGED ran
    PROVE  RunsInv'
  BY DEF RunsInv

\* The three queues stay what they are.
LEMMA QueueStays ==
    ASSUME GateTypeOK, loop'.next = loop.next, UNCHANGED <<ran, pending, todo, keep>>
    PROVE  /\ Deferred(pending) => Deferred(pending)'
           /\ Draining(todo) => Draining(todo)'
           /\ Draining(Tail(todo)) => Draining(Tail(todo))'
  BY DEF Draining, Deferred

\* A step that neither runs nor queues keeps the invariant, unless it leaves a
\* drain for anything but the end.
LEMMA QuietOnce ==
    ASSUME GateTypeOK, OnceInv, failures' = failures, loop'.next = loop.next,
           UNCHANGED <<ran, pending, todo, keep>>,
           \/ loop'.pc = loop.pc
           \/ loop'.pc = "done"
           \/ loop.pc \notin DrainOrDone /\ loop'.pc \notin DrainOrDone
    PROVE  OnceInv'
  <1>1. ASSUME failures' = 0 PROVE RunsInv' /\ QueueInv(loop.pc)'
    <2>1. RunsInv /\ QueueInv(loop.pc)
      BY <1>1, OnceParts
    <2>2. RunsInv'
      BY <2>1, RunsStay
    <2>3. QueueInv(loop.pc)'
      BY <2>1, QueueStays DEF QueueInv, DrainOrDone
    <2>. QED
      BY <2>2, <2>3
  <1>. QED
    BY <1>1 DEF OnceInv, RunsInv, QueueInv, DrainOrDone

\* A drain begins with the whole queue.
LEMMA BeginOnce ==
    ASSUME GateTypeOK, OnceInv, loop.pc \notin DrainOrDone, UNCHANGED <<ran, pending, failures>>,
           todo' = pending, keep' = <<>>, loop'.next = loop.next,
           loop'.pc # "drain_append"
    PROVE  OnceInv'
  <1>1. ASSUME failures' = 0 PROVE RunsInv' /\ QueueInv(loop.pc)'
    <2>1. RunsInv /\ Deferred(pending)
      BY <1>1, OnceParts DEF QueueInv
    <2>2. RunsInv'
      BY <2>1, RunsStay
    <2>3. Deferred(pending)' /\ Draining(todo)'
      BY <2>1 DEF Draining, Deferred
    <2>. QED
      BY <2>2, <2>3 DEF QueueInv
  <1>. QED
    BY <1>1 DEF OnceInv, RunsInv, QueueInv, DrainOrDone

\* A drain that finds no answer keeps the entry.
LEMMA KeepOnce ==
    ASSUME GateTypeOK, OnceInv, loop.pc = "drain", todo # <<>>, failures' = failures,
           UNCHANGED <<loop, ran>>, keep' = Append(keep, Head(todo)), todo' = Tail(todo)
    PROVE  OnceInv'
  <1>1. ASSUME failures' = 0 PROVE RunsInv' /\ QueueInv(loop.pc)'
    <2>1. RunsInv /\ Draining(todo)
      BY <1>1, OnceParts DEF QueueInv
    <2>2. RunsInv'
      BY <2>1, RunsStay
    <2>3. PICK q \in Seq(Action), r \in Seq(Action) : q = todo /\ r = keep
      BY LoopFacts
    <2>4. /\ Deferred(q) /\ Deferred(r) /\ q # <<>>
          /\ \A i \in DOMAIN r, j \in DOMAIN q : r[i] # q[j]
      BY <2>1, <2>3 DEF Draining
    <2>5. PICK q2 \in Seq(Action), a \in Action : q2 = Tail(q) /\ a = Head(q)
      BY <2>4, TailShape
    <2>6. /\ Deferred(q2) /\ ran[a] = 0 /\ \A i \in DOMAIN q2 : q2[i] # a
          /\ \A k \in DOMAIN Actions : a = Actions[k] => k < loop.next
      BY <2>4, <2>5, DeferredTail
    <2>7. /\ 1 \in DOMAIN q /\ a = q[1]
          /\ \A i \in DOMAIN q2 : i + 1 \in DOMAIN q /\ q2[i] = q[i + 1]
      BY <2>4, <2>5, TailShape
    <2>8. \A i \in DOMAIN r : r[i] # a
      BY <2>4, <2>7
    <2>9. PICK r2 \in Seq(Action) : r2 = Append(r, a)
      BY AppendShape
    <2>10. Deferred(r2)
      BY <2>4, <2>6, <2>8, <2>9, DeferredAppend
    <2>11. \A i \in DOMAIN r2 : r2[i] = a \/ \E k \in DOMAIN r : r2[i] = r[k]
      <3>1. /\ Len(r2) = Len(r) + 1 /\ Len(r) \in Nat /\ r2[Len(r) + 1] = a
            /\ \A i \in 1 .. Len(r) : r2[i] = r[i]
        BY <2>9, AppendShape
      <3>2. \A i \in DOMAIN r2 : i = Len(r) + 1 \/ i \in DOMAIN r
        BY <3>1
      <3>. QED
        BY <3>1, <3>2
    <2>12. \A i \in DOMAIN r2, j \in DOMAIN q2 : r2[i] # q2[j]
      BY <2>4, <2>6, <2>7, <2>11
    <2>13. keep' = r2 /\ todo' = q2
      BY <2>3, <2>5, <2>9
    <2>14. Draining(todo)'
      BY <2>6, <2>10, <2>12, <2>13 DEF Draining, Deferred
    <2>. QED
      BY <2>2, <2>14 DEF QueueInv, DrainOrDone
  <1>. QED
    BY <1>1 DEF OnceInv, RunsInv, QueueInv, DrainOrDone

\* A drain that finds an answer runs the entry or not, and it is in no queue
\* any more when its observation is appended.
LEMMA AnswerOnce ==
    ASSUME GateTypeOK, OnceInv, loop.pc = "drain", todo # <<>>, failures' = failures,
           UNCHANGED <<todo, keep>>, loop'.pc = "drain_append", loop'.next = loop.next,
           ran' = ran \/ ran' = [ran EXCEPT ![Head(todo)] = @ + 1]
    PROVE  OnceInv'
  <1>1. ASSUME failures' = 0 PROVE RunsInv' /\ QueueInv(loop.pc)'
    <2>1. RunsInv /\ Draining(todo)
      BY <1>1, OnceParts DEF QueueInv
    <2>2. PICK q \in Seq(Action), r \in Seq(Action) : q = todo /\ r = keep
      BY LoopFacts
    <2>3. /\ Deferred(q) /\ Deferred(r) /\ q # <<>>
          /\ \A i \in DOMAIN r, j \in DOMAIN q : r[i] # q[j]
      BY <2>1, <2>2 DEF Draining
    <2>4. PICK q2 \in Seq(Action), a \in Action : q2 = Tail(q) /\ a = Head(q)
      BY <2>3, TailShape
    <2>5. /\ Deferred(q2) /\ ran[a] = 0 /\ \A i \in DOMAIN q2 : q2[i] # a
          /\ \A k \in DOMAIN Actions : a = Actions[k] => k < loop.next
      BY <2>3, <2>4, DeferredTail
    <2>6. /\ 1 \in DOMAIN q /\ a = q[1]
          /\ \A i \in DOMAIN q2 : i + 1 \in DOMAIN q /\ q2[i] = q[i + 1]
      BY <2>3, <2>4, TailShape
    <2>7. (\A b \in Action : b # a => ran'[b] = ran[b]) /\ (ran'[a] = 0 \/ ran'[a] = 1)
      <3>1. ran' = ran \/ ran' = [ran EXCEPT ![a] = @ + 1]
        BY <2>2, <2>4
      <3>2. ran[a] + 1 = 1
        BY <2>5
      <3>. QED
        BY <2>5, <3>1, <3>2, RunShape
    <2>8. \A i \in DOMAIN r : ran'[r[i]] = ran[r[i]]
      BY <2>3, <2>6, <2>7
    <2>9. \A i \in DOMAIN q2 : ran'[q2[i]] = ran[q2[i]]
      BY <2>5, <2>7
    <2>10. Deferred(r)' /\ Deferred(q2)'
      BY <2>3, <2>5, <2>8, <2>9, LoopFacts, DeferredStays
    <2>11. \A i \in DOMAIN r, j \in DOMAIN q2 : r[i] # q2[j]
      BY <2>3, <2>6
    <2>12. keep' = r /\ Tail(todo)' = q2
      BY <2>2, <2>4
    <2>13. Draining(Tail(todo))'
      BY <2>10, <2>11, <2>12 DEF Draining, Deferred
    <2>14. RunsInv'
      <3>1. ASSUME NEW b \in Action PROVE ran'[b] <= 1
        BY <2>1, <2>7 DEF RunsInv
      <3>2. ASSUME NEW k \in DOMAIN Actions, k >= loop'.next PROVE ran'[Actions[k]] = 0
        <4>1. Actions[k] \in Action /\ k \in Nat /\ loop.next \in Nat
          BY ActionsShape, LoopFacts
        <4>2. Actions[k] # a
          BY <2>5, <3>2, <4>1
        <4>. QED
          BY <2>1, <2>7, <3>2, <4>1, <4>2 DEF RunsInv
      <3>. QED
        BY <3>1, <3>2 DEF RunsInv
    <2>. QED
      BY <2>13, <2>14 DEF QueueInv, DrainOrDone
  <1>. QED
    BY <1>1 DEF OnceInv, RunsInv, QueueInv, DrainOrDone

\* A drain goes on without the entry it has answered.
LEMMA AppendOnce ==
    ASSUME GateTypeOK, OnceInv, loop.pc = "drain_append", failures' = failures,
           UNCHANGED <<ran, keep>>, todo' = Tail(todo), loop'.pc = "drain",
           loop'.next = loop.next
    PROVE  OnceInv'
  <1>1. ASSUME failures' = 0 PROVE RunsInv' /\ QueueInv(loop.pc)'
    <2>1. RunsInv /\ Draining(Tail(todo))
      BY <1>1, OnceParts DEF QueueInv
    <2>2. RunsInv'
      BY <2>1, RunsStay
    <2>3. Draining(todo)'
      BY <2>1 DEF Draining, Deferred
    <2>. QED
      BY <2>2, <2>3 DEF QueueInv, DrainOrDone
  <1>. QED
    BY <1>1 DEF OnceInv, RunsInv, QueueInv, DrainOrDone

\* A drain ends with the entries it kept.
LEMMA EndOnce ==
    ASSUME GateTypeOK, OnceInv, loop.pc = "drain", failures' = failures, UNCHANGED ran,
           pending' = keep, loop'.next = loop.next,
           loop'.pc # "drain", loop'.pc # "drain_append"
    PROVE  OnceInv'
  <1>1. ASSUME failures' = 0 PROVE RunsInv' /\ QueueInv(loop.pc)'
    <2>1. RunsInv /\ Deferred(keep)
      BY <1>1, OnceParts DEF QueueInv, Draining
    <2>2. RunsInv'
      BY <2>1, RunsStay
    <2>3. Deferred(pending)'
      BY <2>1 DEF Deferred
    <2>. QED
      BY <2>2, <2>3 DEF QueueInv
  <1>. QED
    BY <1>1 DEF OnceInv, RunsInv, QueueInv, DrainOrDone

\* The loop passes a tool call: it is run, deferred or skipped.
LEMMA PassOnce ==
    ASSUME GateTypeOK, OnceInv, loop.pc \in InCall, failures' = failures, NextTool,
           \/ UNCHANGED <<ran, pending>>
           \/ ran' = ran /\ pending' = Append(pending, Current)
           \/ ran' = [ran EXCEPT ![Current] = @ + 1] /\ pending' = pending
    PROVE  OnceInv'
  <1>0. /\ loop'.next = loop.next + 1 /\ loop'.pc \notin DrainOrDone /\ loop.pc \notin DrainOrDone
        /\ loop.next \in Nat /\ loop'.next \in Nat
    BY NextToolShape, LoopFacts DEF DrainOrDone, InCall
  <1>1. ASSUME failures' = 0 PROVE RunsInv' /\ QueueInv(loop.pc)'
    <2>1. RunsInv /\ Deferred(pending)
      BY <1>0, <1>1, OnceParts DEF QueueInv
    <2>2. PICK q \in Seq(Action) : q = pending
      BY LoopFacts
    <2>3. PICK a \in Action : a = Current
      BY LoopFacts, CurrentShape
    <2>4. loop.next \in DOMAIN Actions /\ a = Actions[loop.next]
      BY <2>3, LoopFacts, CurrentShape DEF Current
    <2>5. ran[a] = 0
      BY <1>0, <2>1, <2>4 DEF RunsInv
    <2>6. \A i \in DOMAIN q : q[i] # a
      BY <1>0, <2>1, <2>2, <2>4 DEF Deferred
    <2>7. (\A b \in Action : b # a => ran'[b] = ran[b]) /\ (ran'[a] = 0 \/ ran'[a] = 1)
      <3>1. ran' = ran \/ ran' = [ran EXCEPT ![a] = @ + 1]
        BY <2>3
      <3>2. ran[a] + 1 = 1
        BY <2>5
      <3>. QED
        BY <2>5, <3>1, <3>2, RunShape
    <2>8. RunsInv'
      <3>1. ASSUME NEW b \in Action PROVE ran'[b] <= 1
        BY <2>1, <2>7 DEF RunsInv
      <3>2. ASSUME NEW k \in DOMAIN Actions, k >= loop'.next PROVE ran'[Actions[k]] = 0
        <4>1. Actions[k] \in Action /\ k \in Nat
          BY ActionsShape
        <4>2. k >= loop.next /\ k # loop.next
          BY <1>0, <3>2, <4>1
        <4>3. Actions[k] # a
          BY <2>4, <4>2, ActionsShape
        <4>. QED
          BY <2>1, <2>7, <4>1, <4>2, <4>3 DEF RunsInv
      <3>. QED
        BY <3>1, <3>2 DEF RunsInv
    <2>9. Deferred(q)'
      <3>1. \A i \in DOMAIN q : ran'[q[i]] = ran[q[i]]
        BY <2>6, <2>7
      <3>2. loop.next <= loop'.next
        BY <1>0
      <3>. QED
        BY <1>0, <2>1, <2>2, <3>1, <3>2, DeferredStays
    <2>10. CASE pending' = pending
      BY <1>0, <2>2, <2>8, <2>9, <2>10 DEF QueueInv, DrainOrDone, Deferred
    <2>11. CASE ran' = ran /\ pending' = Append(pending, Current)
      <3>1. PICK r \in Seq(Action) : r = Append(q, a)
        BY AppendShape
      <3>2. /\ Len(r) = Len(q) + 1 /\ Len(q) \in Nat /\ r[Len(q) + 1] = a
            /\ \A i \in 1 .. Len(q) : r[i] = q[i]
        BY <3>1, AppendShape
      <3>3. \A i \in DOMAIN r : i = Len(q) + 1 \/ i \in DOMAIN q
        BY <3>2
      <3>4. \A i, j \in DOMAIN r : r[i] = r[j] => i = j
        BY <2>6, <2>9, <3>2, <3>3 DEF Deferred
      <3>5. \A i \in DOMAIN r : ran'[r[i]] = 0
        BY <2>5, <2>9, <2>11, <3>2, <3>3 DEF Deferred
      <3>6. ASSUME NEW i \in DOMAIN r, NEW k \in DOMAIN Actions, r[i] = Actions[k]
            PROVE  k < loop'.next
        <4>1. CASE i \in DOMAIN q
          BY <2>9, <3>2, <3>6, <4>1 DEF Deferred
        <4>2. CASE i = Len(q) + 1
          <5>1. k = loop.next
            BY <2>4, <3>2, <3>6, <4>2, ActionsShape
          <5>. QED
            BY <1>0, <5>1
        <4>. QED
          BY <3>3, <4>1, <4>2
      <3>7. pending' = r
        BY <2>2, <2>3, <2>11, <3>1
      <3>8. Deferred(pending)'
        BY <3>4, <3>5, <3>6, <3>7 DEF Deferred
      <3>. QED
        BY <1>0, <2>8, <3>8 DEF QueueInv, DrainOrDone
    <2>. QED
      BY <2>10, <2>11
  <1>. QED
    BY <1>1 DEF OnceInv, RunsInv, QueueInv, DrainOrDone

\* A failed append ends the promise.
LEMMA FailOnce ==
    ASSUME GateTypeOK, failures' = failures + 1
    PROVE  OnceInv'
  <1>1. failures' # 0
    BY LoopFacts
  <1>. QED
    BY <1>1 DEF OnceInv

\* A loop that moves between places of one tool call, or to the end of the run.
LEMMA GoesOnce ==
    ASSUME GateTypeOK, OnceInv, NEW p \in Pc, Goes(p), p \notin DrainOrDone, loop.pc \notin DrainOrDone,
           UNCHANGED <<ran, pending, todo, keep, failures>>
    PROVE  OnceInv'
  BY GoesShape, QuietOnce

\* Every step keeps the promise.
LEMMA OnceStep ==
    ASSUME GateTypeOK, OnceInv, [GateNext]_gateVars
    PROVE  OnceInv'
  <1>1. CASE StepStarts
    <2>1. loop'.next = loop.next /\ loop'.pc # "drain_append"
      BY <1>1, GoesShape, InterruptShape DEF StepStarts, Pc
    <2>. QED
      BY <1>1, <2>1, BeginOnce DEF StepStarts, DrainOrDone
  <1>2. CASE Finally
    <2>1. loop'.next = loop.next /\ loop'.pc # "drain_append"
      BY <1>2, FinallyShape
    <2>. QED
      BY <1>2, <2>1, BeginOnce DEF Finally, DrainOrDone
  <1>3. CASE DrainPolls
    <2>1. CASE /\ keep' = Append(keep, Head(todo)) /\ todo' = Tail(todo)
               /\ UNCHANGED <<loop, ran>>
      BY <1>3, <2>1, KeepOnce DEF DrainPolls
    <2>2. CASE /\ ran' = ran \/ ran' = [ran EXCEPT ![Head(todo)] = @ + 1]
               /\ Goes("drain_append") /\ UNCHANGED <<todo, keep>>
      <3>1. loop'.pc = "drain_append" /\ loop'.next = loop.next
        BY <2>2, GoesShape DEF Pc
      <3>. QED
        BY <1>3, <2>2, <3>1, AnswerOnce DEF DrainPolls
    <2>. QED
      BY <1>3, <2>1, <2>2 DEF DrainPolls
  <1>4. CASE DrainAppends
    <2>1. CASE todo' = Tail(todo) /\ Goes("drain") /\ UNCHANGED failures
      <3>1. loop'.pc = "drain" /\ loop'.next = loop.next
        BY <2>1, GoesShape DEF Pc
      <3>. QED
        BY <1>4, <2>1, <3>1, AppendOnce DEF DrainAppends
    <2>2. CASE failures' = failures + 1
      BY <2>2, FailOnce
    <2>. QED
      BY <1>4, <2>1, <2>2 DEF DrainAppends
  <1>5. CASE DrainEnds
    BY <1>5, DrainEndsShape, EndOnce DEF DrainEnds
  <1>6. CASE LlmAnswers
    BY <1>6, GoesOnce DEF LlmAnswers, DrainOrDone, Pc
  <1>7. CASE ToolCall
    <2>1. CASE \E p \in {"finally", "gate"} : Goes(p)
      BY <1>7, <2>1, GoesOnce DEF ToolCall, DrainOrDone, Pc
    <2>2. CASE loop' = [loop EXCEPT !.pc = "finally", !.interrupted = TRUE]
      <3>1. loop'.pc = "finally" /\ loop'.next = loop.next
        BY <2>2, InterruptShape
      <3>. QED
        BY <1>7, <3>1, QuietOnce DEF ToolCall, DrainOrDone
    <2>. QED
      BY <1>7, <2>1, <2>2 DEF ToolCall
  <1>8. CASE GateDecides
    <2>1. loop.pc \in InCall /\ loop.pc \notin DrainOrDone
      BY <1>8 DEF GateDecides, InCall, DrainOrDone
    <2>2. \E p \in Pc : p \notin DrainOrDone /\ Goes(p)
      BY <1>8, <2>1, PublishesShape DEF GateDecides, Pc, DrainOrDone
    <2>. QED
      BY <1>8, <2>1, <2>2, GoesOnce DEF GateDecides
  <1>9. CASE WaitChecks
    <2>1. loop.pc \notin DrainOrDone /\ \E p \in Pc : p \notin DrainOrDone /\ Goes(p)
      BY <1>9 DEF WaitChecks, Pc, DrainOrDone
    <2>. QED
      BY <1>9, <2>1, GoesOnce DEF WaitChecks
  <1>10. CASE OnTimeout
    <2>1. loop.pc \in InCall /\ loop.pc \notin DrainOrDone
      BY <1>10 DEF OnTimeout, InCall, DrainOrDone
    <2>2. \E p \in Pc : p \notin DrainOrDone /\ Goes(p)
      BY <1>10, <2>1, PublishesShape DEF OnTimeout, Pc, DrainOrDone
    <2>. QED
      BY <1>10, <2>1, <2>2, GoesOnce DEF OnTimeout
  <1>11. CASE Defers \/ Skips
    BY <1>11, PassOnce DEF Defers, Skips, InCall
  <1>12. CASE Executes
    <2>1. CASE NextTool /\ UNCHANGED failures
      BY <1>12, <2>1, PassOnce DEF Executes, InCall
    <2>2. CASE failures' = failures + 1
      BY <2>2, FailOnce
    <2>. QED
      BY <1>12, <2>1, <2>2 DEF Executes
  <1>13. CASE WaitExpires
    <2>1. loop'.pc = "wait" /\ loop'.next = loop.next /\ loop.pc \in {"parked", "wait"}
      BY <1>13, ExpiresShape
    <2>. QED
      BY <1>13, <2>1, QuietOnce DEF WaitExpires, DrainOrDone
  <1>14. ASSUME loop' = Woken(loop) \/ loop' = loop,
               UNCHANGED <<pending, todo, keep, ran, failures>>
         PROVE OnceInv'
    <2>1. /\ loop'.next = loop.next
          /\ loop'.pc = loop.pc \/ (loop.pc = "parked" /\ loop'.pc = "wait")
      BY <1>14, WokenShape
    <2>. QED
      BY <1>14, <2>1, QuietOnce DEF DrainOrDone
  <1>15. CASE Subscribe \/ SubscriberTakes \/ SubscriptionCloses \/ BusCloses \/ RequestStop
    BY <1>14, <1>15 DEF Subscribe, SubscriberTakes, SubscriptionCloses, BusCloses, RequestStop,
       loopVars
  <1>16. ASSUME NEW u \in User, NEW a \in Action, NEW v \in {"yes", "no"}, UserWrites(u, a, v)
         PROVE  OnceInv'
    BY <1>14, <1>16 DEF UserWrites, loopVars
  <1>17. ASSUME NEW u \in User, UserPublishes(u)
         PROVE  OnceInv'
    BY <1>14, <1>17 DEF UserPublishes
  <1>18. CASE UNCHANGED gateVars
    BY <1>14, <1>18 DEF gateVars, loopVars
  <1>. QED
    BY <1>1, <1>2, <1>3, <1>4, <1>5, <1>6, <1>7, <1>8, <1>9, <1>10, <1>11, <1>12, <1>13,
       <1>15, <1>16, <1>17, <1>18 DEF GateNext, LoopStep

-----------------------------------------------------------------------------
(* The theorems.                                                           *)

\* The invariant holds when a run begins.
LEMMA GateInitInv ==
    ASSUME GateInit
    PROVE  GateInv
  <1>1. BusTypeOK
    <2>1. /\ log = <<>> /\ closed = FALSE
          /\ sub = [state |-> "none", since |-> 0, queue |-> <<>>, got |-> <<>>, parked |-> FALSE]
      BY DEF GateInit
    <2>2. sub \in Subscription
      BY <2>1 DEF Subscription
    <2>3. log \in Seq(Message) /\ \A i \in DOMAIN log : FALSE
      BY <2>1
    <2>4. closed \in BOOLEAN
      BY <2>1
    <2>. QED
      BY <2>2, <2>3, <2>4 DEF BusTypeOK
  <1>2. /\ loop \in Loop /\ loop.pc = "step" /\ loop.next = 1 /\ loop.expired = FALSE
    BY DEF GateInit, Loop, Pc
  <1>3. LoopTypeOK
    BY <1>2, ActionsShape DEF GateInit, LoopTypeOK, InCall
  <1>4. OthersTypeOK
    BY DEF GateInit, OthersTypeOK
  <1>5. RunsOnlyWhenAllowed
    BY DEF GateInit, RunsOnlyWhenAllowed
  <1>6. OnceInv
    <2>1. RunsInv
      BY ActionsShape DEF GateInit, RunsInv
    <2>2. QueueInv(loop.pc)
      BY <1>2, DeferredEmpty DEF GateInit, QueueInv
    <2>. QED
      BY <2>1, <2>2, OnceParts
  <1>7. AllowedInv
    BY <1>2 DEF AllowedInv
  <1>8. SeenInv
    BY DEF GateInit, SeenInv
  <1>. QED
    BY <1>1, <1>3, <1>4, <1>5, <1>6, <1>7, <1>8 DEF GateInv, GateTypeOK

\* Every step keeps the invariant.
LEMMA GateStepInv ==
    ASSUME GateInv, [GateNext]_gateVars
    PROVE  GateInv'
  <1>1. GateTypeOK'
    BY BusStep, LoopTypes, OthersTypes DEF GateInv, GateTypeOK
  <1>. QED
    BY <1>1, BusStep, AllowedStep, RunStep, OnceStep DEF GateInv

\* The invariant says what the gate promises.
LEMMA GateInvSound ==
    ASSUME GateInv
    PROVE  AutonomySound
  <1>1. RunsOnce
    <2>. SUFFICES ASSUME NEW a \in Action, ran[a] > 1 PROVE failures > 0
      BY DEF RunsOnce
    <2>1. ran[a] \in Nat /\ failures \in Nat
      BY LoopFacts DEF GateInv
    <2>2. failures # 0
      BY <2>1 DEF GateInv, OnceInv
    <2>. QED
      BY <2>1, <2>2
  <1>. QED
    BY <1>1, SeenIsTheLog DEF GateInv, AutonomySound

\* Whatever the tool calls, the behaviour and the users: nothing the gate holds
\* back runs unasked, nothing runs twice unless an append failed, and a
\* subscriber gets every message once and in order (core/loop.py,
\* interaction/gate.py, wait.py, bus.py).
THEOREM GateIsSound == GateSpec => []AutonomySound
  <1>1. GateInit => GateInv
    BY GateInitInv
  <1>2. GateInv /\ [GateNext]_gateVars => GateInv'
    BY GateStepInv
  <1>3. GateInv => AutonomySound
    BY GateInvSound
  <1>. QED
    BY <1>1, <1>2, <1>3, PTL DEF GateSpec

\* A message that was published is never lost or replaced, the bus does not
\* open again, and an answer that allowed an action goes on allowing it.
NothingTakenBack ==
    /\ LogGrows /\ (closed => closed')
    /\ \A a \in Action : Allowed(a) => Allowed(a)'

\* The bus and the permissions only grow (publish, close, response_for).
THEOREM GateTakesNothingBack == GateSpec => [][NothingTakenBack]_gateVars
  <1>1. GateInv /\ [GateNext]_gateVars => [NothingTakenBack]_gateVars
    <2>. SUFFICES ASSUME GateInv, [GateNext]_gateVars PROVE NothingTakenBack
      OBVIOUS
    <2>1. LogGrows /\ (closed => closed')
      BY BusStep DEF GateInv
    <2>2. ASSUME NEW a \in Action, Allowed(a) PROVE Allowed(a)'
      BY <2>2, AllowedStays DEF GateInv
    <2>. QED
      BY <2>1, <2>2 DEF NothingTakenBack
  <1>2. GateInit => GateInv
    BY GateInitInv
  <1>3. GateInv /\ [GateNext]_gateVars => GateInv'
    BY GateStepInv
  <1>. QED
    BY <1>1, <1>2, <1>3, PTL DEF GateSpec


-----------------------------------------------------------------------------
(* The retry loop and the usage ledger (LLMChat).                          *)

\* A fault has a class, which is no answer, and is raised as an error.
LEMMA FaultFacts ==
    ASSUME NEW f \in Faults, NEW records
    PROVE  /\ ClassOf[f] \in Class /\ ClassOf[f] # "config" /\ ClassOf[f] # "answer"
           /\ RaisedType(f, records) \in ErrorType
<1>1. f \in {"timeout", "server", "rate", "auth", "request", "context", "capability",
             "compat", "other"}
  BY ChatAssumption DEF ClassOf
<1>2. ClassOf[f] \in {"retryable", "rate_limit", "fatal_auth", "fatal_request",
                      "context_limit", "fatal_capability", "unknown"}
  BY <1>1 DEF ClassOf
<1>3. TypeOf[ClassOf[f]] \in ErrorType
  BY <1>2 DEF TypeOf, ErrorType
<1> QED
  BY <1>2, <1>3 DEF Class, RaisedType, ErrorType

\* The locals of a thread without a request.
LEMMA NoChatFacts ==
    /\ NoChat \in Locals /\ LocalsOK(NoChat) /\ NoChat.attempts = 0 /\ NoChat.timeouts = 0
    /\ NoChat.records = <<>> /\ NoChat.at = "idle" /\ NoChat.usage \in TokenUsage
<1>1. PICK k : k = NoChat
  OBVIOUS
<1>2. <<>> \in Seq(Retryable) /\ 0 \in Nat
  OBVIOUS
<1>3. NoUsage \in TokenUsage
  BY DEF NoUsage, TokenUsage
<1>4. /\ k.at = "idle" /\ k.model = "none" /\ k.timeout = FALSE /\ k.attempts = 0
      /\ k.records = <<>> /\ k.timeouts = 0 /\ k.usage = NoUsage
  BY <1>1 DEF NoChat
<1>5. k \in Locals
  BY <1>1, <1>2, <1>3 DEF NoChat, Locals
<1>6. LocalsOK(k)
  BY <1>4 DEF LocalsOK
<1> QED
  BY <1>1, <1>3, <1>4, <1>5, <1>6

\* An ending has the fields of its request.
LEMMA EndingFacts ==
    ASSUME NEW type \in ErrorType, NEW class \in Class, NEW k \in Locals,
           settings \in Models \cup {"none"}
    PROVE  LET r == Ending(type, class, k) IN
           /\ r \in Result /\ r.type = type /\ r.class = class /\ r.attempts = k.attempts
           /\ r.records = k.records /\ r.timeouts = k.timeouts /\ r.timeout = k.timeout
           /\ r.usage = k.usage /\ r.named = settings
BY DEF Ending, Result, Locals

\* The locals after a failed attempt.
LEMMA TriedFacts ==
    ASSUME NEW k \in Locals, NEW f
    PROVE  LET l == Tried(k, f) IN
           /\ l \in Locals /\ l.at = k.at /\ l.model = k.model /\ l.timeout = k.timeout
           /\ l.attempts = k.attempts + 1 /\ l.records = k.records /\ l.usage = k.usage
           /\ l.timeouts = IF f = "timeout" THEN k.timeouts + 1 ELSE k.timeouts
<1>1. k.attempts \in Nat /\ k.timeouts \in Nat
  BY DEF Locals
<1>2. PICK n \in Nat, m \in Nat :
        n = k.attempts + 1 /\ m = IF f = "timeout" THEN k.timeouts + 1 ELSE k.timeouts
  BY <1>1
<1>3. Tried(k, f) = [k EXCEPT !.attempts = n, !.timeouts = m]
  BY <1>2 DEF Tried, Locals
<1> QED
  BY <1>2, <1>3 DEF Locals

\* A request ends: the result is added and nothing else is said.
LEMMA EndsInInv ==
    ASSUME ChatInv, NEW c \in Callers, NEW r \in Result, ResultOK(r), EndsIn(c, r),
           UNCHANGED <<settings, saves>>, client' \in Models \cup {"none"},
           client # "none" => client' # "none",
           \/ ledger' = ledger
           \/ /\ r.type = "answer"
              /\ \E m \in Models \cup {"none"}, b \in Models \cup {"none"} :
                    ledger' = ledger \cup {[id |-> Len(results) + 1, model |-> m, by |-> b]}
    PROVE  ChatInv'
<1>1. /\ results \in Seq(Result) /\ chat \in [Callers -> Locals] /\ saves \in Nat
      /\ settings \in Models \cup {"none"}
      /\ ledger \subseteq [id : Nat, model : Models \cup {"none"}, by : Models \cup {"none"}]
  BY DEF ChatInv, ChatTypeOK
<1>2. PICK n \in Nat : n = Len(results) /\ DOMAIN results = 1 .. n
  BY <1>1
<1>3. /\ results' \in Seq(Result) /\ DOMAIN results' = 1 .. n + 1 /\ results'[n + 1] = r
      /\ \A i \in 1 .. n : results'[i] = results[i]
  BY <1>1, <1>2 DEF EndsIn
<1>4. chat' \in [Callers -> Locals]
      /\ \A d \in Callers : chat'[d] = IF d = c THEN NoChat ELSE chat[d]
  BY <1>1, NoChatFacts DEF EndsIn
<1>5. \A d \in Callers : LocalsOK(chat[d])'
  <2> TAKE d \in Callers
  <2>1. LocalsOK(chat[d])
    BY DEF ChatInv
  <2>2. CASE d = c
    BY <1>4, <2>2, NoChatFacts DEF LocalsOK
  <2>3. CASE d # c
    BY <1>4, <2>1, <2>3 DEF LocalsOK
  <2> QED
    BY <2>2, <2>3
<1>6. \A i \in DOMAIN results' : ResultOK(results'[i])
  <2> TAKE i \in DOMAIN results'
  <2>1. i \in 1 .. n \/ i = n + 1
    BY <1>3
  <2> QED
    BY <1>2, <1>3, <2>1 DEF ChatInv
<1>7. ledger' \subseteq [id : Nat, model : Models \cup {"none"}, by : Models \cup {"none"}]
      /\ UsageBookedOnce'
  <2>1. \A e \in ledger : e.id \in 1 .. n /\ results[e.id].type = "answer"
                          /\ \A f \in ledger : e.id = f.id => e = f
    BY <1>2 DEF ChatInv, UsageBookedOnce
  <2>2. CASE ledger' = ledger
    <3>1. \A e \in ledger : e.id \in DOMAIN results' /\ results'[e.id].type = "answer"
      BY <1>3, <2>1
    <3> QED
      BY <1>1, <2>1, <2>2, <3>1 DEF UsageBookedOnce
  <2>3. ASSUME r.type = "answer", NEW m \in Models \cup {"none"}, NEW b \in Models \cup {"none"},
               ledger' = ledger \cup {[id |-> Len(results) + 1, model |-> m, by |-> b]}
        PROVE  ledger' \subseteq [id : Nat, model : Models \cup {"none"}, by : Models \cup {"none"}]
               /\ UsageBookedOnce'
    <3>1. PICK new : new = [id |-> n + 1, model |-> m, by |-> b]
      OBVIOUS
    <3>2. new \in [id : Nat, model : Models \cup {"none"}, by : Models \cup {"none"}]
          /\ new.id = n + 1
      BY <3>1
    <3>3. \A e \in ledger' : e \in ledger \/ e = new
      BY <1>2, <2>3, <3>1
    <3>4. \A e \in ledger' : e.id \in DOMAIN results' /\ results'[e.id].type = "answer"
      BY <1>3, <2>1, <2>3, <3>2, <3>3
    <3>5. \A e \in ledger : e.id # new.id
      BY <2>1, <3>2
    <3>6. \A e \in ledger', f \in ledger' : e.id = f.id => e = f
      BY <2>1, <3>3, <3>5
    <3> QED
      BY <1>1, <3>2, <3>3, <3>4, <3>6 DEF UsageBookedOnce
  <2> QED
    BY <2>2, <2>3
<1>8. ChatTypeOK'
  BY <1>1, <1>3, <1>4, <1>7 DEF ChatTypeOK
<1>9. \A i \in DOMAIN results' : ResultOK(results[i])'
  BY <1>6 DEF ResultOK, Overstated
<1> QED
  BY <1>5, <1>7, <1>8, <1>9 DEF ChatInv

\* A request goes on: the locals of one caller change and no result is added.
LEMMA GoesOnInv ==
    ASSUME ChatInv, NEW c \in Callers, NEW l \in Locals, LocalsOK(l)', chat' = [chat EXCEPT ![c] = l],
           client' \in Models \cup {"none"}, client # "none" => client' # "none",
           UNCHANGED <<settings, results, ledger, saves>>
    PROVE  ChatInv'
<1>1. chat \in [Callers -> Locals] /\ ChatTypeOK
  BY DEF ChatInv, ChatTypeOK
<1>2. chat' \in [Callers -> Locals]
      /\ \A d \in Callers : chat'[d] = IF d = c THEN l ELSE chat[d]
  BY <1>1
<1>3. \A d \in Callers : LocalsOK(chat[d])'
  <2> TAKE d \in Callers
  <2>1. LocalsOK(chat[d])
    BY DEF ChatInv
  <2>2. CASE d = c
    BY <1>2, <2>2 DEF LocalsOK
  <2>3. CASE d # c
    BY <1>2, <2>1, <2>3 DEF LocalsOK
  <2> QED
    BY <2>2, <2>3
<1>4. ChatTypeOK'
  BY <1>1, <1>2 DEF ChatTypeOK
<1>5. \A i \in DOMAIN results' : ResultOK(results[i])'
  BY DEF ChatInv, ResultOK, Overstated
<1>6. UsageBookedOnce'
  BY DEF ChatInv, UsageBookedOnce
<1> QED
  BY <1>3, <1>4, <1>5, <1>6 DEF ChatInv

\* A request begins: a client is there, or one is to be built.
LEMMA CallsInv ==
    ASSUME ChatInv, NEW c \in Callers, Calls(c)
    PROVE  ChatInv'
<1>1. PICK t \in BOOLEAN :
         chat' = [chat EXCEPT ![c] = [NoChat EXCEPT !.timeout = t,
                                        !.at = IF client = "none" THEN "build" ELSE "use"]]
  BY DEF Calls
<1>2. client \in Models \cup {"none"} /\ UNCHANGED <<settings, client, results, ledger, saves>>
  BY DEF Calls, ChatInv, ChatTypeOK
<1>3. PICK w \in {"build", "use"} : w = IF client = "none" THEN "build" ELSE "use"
  OBVIOUS
<1>4. PICK l : l = [NoChat EXCEPT !.timeout = t, !.at = w]
  OBVIOUS
<1>5. /\ l \in Locals /\ l.at = w /\ l.timeout = t /\ l.attempts = 0 /\ l.records = <<>>
      /\ l.timeouts = 0
  BY <1>4, NoChatFacts DEF Locals
<1>6. LocalsOK(l)'
  BY <1>2, <1>3, <1>5 DEF LocalsOK
<1>7. chat' = [chat EXCEPT ![c] = l]
  BY <1>1, <1>3, <1>4
<1> QED
  BY <1>2, <1>5, <1>6, <1>7, GoesOnInv

\* A client is built from what Settings say, or the request fails for want of it.
LEMMA BuildsInv ==
    ASSUME ChatInv, NEW c \in Callers, BuildsClient(c)
    PROVE  ChatInv'
<1>1. PICK k \in Locals : k = chat[c] /\ LocalsOK(k) /\ k.at = "build"
  BY DEF ChatInv, ChatTypeOK, BuildsClient
<1>2. /\ client \in Models \cup {"none"} /\ settings \in Models \cup {"none"}
      /\ UNCHANGED <<settings, client, ledger, saves>>
  BY DEF BuildsClient, ChatInv, ChatTypeOK
<1>3. k.attempts = 0 /\ k.records = <<>> /\ (k.timeout => k.timeouts = 0)
  BY <1>1 DEF LocalsOK, Resolving
<1>4. CASE settings = "none" /\ EndsIn(c, Ending("RuntimeError", "config", k))
  <2>1. PICK r : r = Ending("RuntimeError", "config", k)
    OBVIOUS
  <2>2. "RuntimeError" \in ErrorType /\ "config" \in Class
    BY DEF ErrorType, Class
  <2>3. /\ r \in Result /\ r.class = "config" /\ r.timeouts = k.timeouts
        /\ r.timeout = k.timeout /\ r.named = "none"
    BY <1>2, <1>4, <2>1, <2>2, EndingFacts
  <2>4. ResultOK(r)
    BY <1>3, <2>3 DEF ResultOK, Retryable
  <2> QED
    BY <1>2, <1>4, <2>1, <2>3, <2>4, EndsInInv
<1>5. CASE /\ settings # "none" /\ UNCHANGED results
           /\ chat' = [chat EXCEPT ![c] = [k EXCEPT !.at = "store", !.model = settings]]
  <2>1. PICK l : l = [k EXCEPT !.at = "store", !.model = settings]
    OBVIOUS
  <2>2. /\ l \in Locals /\ l.at = "store" /\ l.model = settings /\ l.timeout = k.timeout
        /\ l.attempts = k.attempts /\ l.records = k.records /\ l.timeouts = k.timeouts
    BY <1>2, <2>1 DEF Locals
  <2>3. LocalsOK(l)'
    BY <1>3, <1>5, <2>2 DEF LocalsOK
  <2> QED
    BY <1>2, <1>5, <2>1, <2>2, <2>3, GoesOnInv
<1>6. [chat[c] EXCEPT !.at = "store", !.model = settings]
        = [k EXCEPT !.at = "store", !.model = settings]
  BY <1>1
<1>7. chat \in [Callers -> Locals]
  BY DEF ChatInv, ChatTypeOK
<1> QED
  BY <1>1, <1>4, <1>5, <1>6, <1>7 DEF BuildsClient

\* The client is stored, or read again for the call.
LEMMA TakesClientInv ==
    ASSUME ChatInv, NEW c \in Callers, StoresClient(c) \/ UsesClient(c)
    PROVE  ChatInv'
<1>1. PICK k \in Locals : k = chat[c] /\ LocalsOK(k)
  BY DEF ChatInv, ChatTypeOK
<1>2. /\ client \in Models \cup {"none"} /\ chat \in [Callers -> Locals]
      /\ k.model \in Models \cup {"none"}
  BY <1>1 DEF ChatInv, ChatTypeOK, Locals
<1>3. CASE StoresClient(c)
  <2>1. PICK l : l = [k EXCEPT !.at = "use"]
    OBVIOUS
  <2>2. /\ l \in Locals /\ l.at = "use" /\ l.model = k.model /\ l.timeout = k.timeout
        /\ l.attempts = k.attempts /\ l.records = k.records /\ l.timeouts = k.timeouts
    BY <2>1 DEF Locals
  <2>3. /\ client' = k.model /\ client' # "none" /\ k.at = "store"
        /\ k.attempts = 0 /\ k.records = <<>>
    BY <1>1, <1>3 DEF StoresClient, LocalsOK, Resolving
  <2>4. LocalsOK(l)'
    BY <1>1, <2>2, <2>3 DEF LocalsOK
  <2>5. chat' = [chat EXCEPT ![c] = l]
    BY <1>1, <1>2, <1>3, <2>1 DEF StoresClient
  <2> QED
    BY <1>2, <1>3, <2>2, <2>3, <2>4, <2>5, GoesOnInv DEF StoresClient
<1>4. CASE UsesClient(c)
  <2>1. PICK l : l = [k EXCEPT !.at = "send", !.model = client]
    OBVIOUS
  <2>2. /\ l \in Locals /\ l.at = "send" /\ l.model = client /\ l.timeout = k.timeout
        /\ l.attempts = k.attempts /\ l.records = k.records /\ l.timeouts = k.timeouts
    BY <1>2, <2>1 DEF Locals
  <2>3. /\ client # "none" /\ k.at = "use" /\ k.attempts = 0 /\ k.records = <<>>
        /\ UNCHANGED <<settings, client, results, ledger, saves>>
    BY <1>1, <1>4 DEF UsesClient, LocalsOK, Resolving
  <2>4. 0 < MaxAttempts /\ Len(<<>>) = 0
    BY ChatAssumption
  <2>5. LocalsOK(l)'
    BY <1>1, <2>2, <2>3, <2>4 DEF LocalsOK, Resolving
  <2>6. chat' = [chat EXCEPT ![c] = l]
    BY <1>1, <1>2, <1>4, <2>1 DEF UsesClient
  <2> QED
    BY <1>2, <2>2, <2>3, <2>5, <2>6, GoesOnInv
<1> QED
  BY <1>3, <1>4

\* An attempt fails.
LEMMA FailsInv ==
    ASSUME ChatInv, NEW c \in Callers, NEW f \in Faults, Fails(c, f)
    PROVE  ChatInv'
<1>1. PICK k \in Locals : k = chat[c] /\ LocalsOK(k)
  BY DEF ChatInv, ChatTypeOK
<1>2. PICK tried \in Locals : tried = Tried(k, f)
  BY TriedFacts
<1>3. /\ tried.at = k.at /\ tried.model = k.model /\ tried.timeout = k.timeout
      /\ tried.attempts = k.attempts + 1 /\ tried.records = k.records
      /\ tried.timeouts = IF f = "timeout" THEN k.timeouts + 1 ELSE k.timeouts
  BY <1>2, TriedFacts
<1>4. PICK n \in Nat : /\ n = k.attempts /\ n < MaxAttempts /\ Len(k.records) = n
                       /\ k.records \in Seq(Retryable)
  BY <1>1 DEF LocalsOK, Fails, Locals
<1>5. /\ k.at = "send" /\ UNCHANGED <<settings, client, ledger, saves>>
      /\ client # "none" /\ k.model # "none" /\ client \in Models \cup {"none"}
      /\ settings \in Models \cup {"none"}
  BY <1>1 DEF LocalsOK, Fails, ChatInv, ChatTypeOK
<1>6. MaxAttempts \in Nat
  BY ChatAssumption
<1>7. k.timeout => k.timeouts = 0
  BY <1>1 DEF LocalsOK
<1>8. CASE GivesUp(k, f) /\ EndsIn(c, Ending(RaisedType(f, k.records), ClassOf[f], tried))
  <2>1. PICK type \in ErrorType, class \in Class :
           /\ type = RaisedType(f, k.records) /\ class = ClassOf[f]
           /\ class # "config" /\ class # "answer"
    BY FaultFacts
  <2>2. PICK r : r = Ending(type, class, tried)
    OBVIOUS
  <2>3. /\ r \in Result /\ r.class = class /\ r.attempts = n + 1 /\ r.records = k.records
        /\ r.timeouts = tried.timeouts /\ r.timeout = k.timeout
    BY <1>3, <1>4, <1>5, <2>2, EndingFacts
  <2>4. r.timeout => r.timeouts <= 1
    BY <1>3, <1>7, <2>3
  <2>5. r.class \in Retryable => r.attempts = MaxAttempts \/ (r.timeout /\ r.timeouts = 1)
    BY <1>3, <1>4, <1>7, <1>8, <2>1, <2>3 DEF GivesUp
  <2>6. r.attempts \in 1 .. MaxAttempts /\ Len(r.records) = r.attempts - 1
    BY <1>4, <1>6, <2>3
  <2>7. ResultOK(r)
    BY <2>1, <2>3, <2>4, <2>5, <2>6 DEF ResultOK
  <2> QED
    BY <1>5, <1>8, <2>1, <2>2, <2>3, <2>7, EndsInInv
<1>9. CASE /\ ~GivesUp(k, f) /\ UNCHANGED results
           /\ chat' = [chat EXCEPT ![c] = [tried EXCEPT !.at = "sleep",
                                             !.records = Append(k.records, ClassOf[f])]]
  <2>1. PICK s : s = Append(k.records, ClassOf[f])
    OBVIOUS
  <2>2. ClassOf[f] \in Retryable /\ n + 1 < MaxAttempts
    BY <1>4, <1>6, <1>9 DEF GivesUp
  <2>3. s \in Seq(Retryable) /\ Len(s) = n + 1
    BY <1>4, <2>1, <2>2
  <2>4. PICK l : l = [tried EXCEPT !.at = "sleep", !.records = s]
    OBVIOUS
  <2>5. /\ l \in Locals /\ l.at = "sleep" /\ l.model = k.model /\ l.timeout = k.timeout
        /\ l.attempts = n + 1 /\ l.records = s /\ l.timeouts = tried.timeouts
    BY <1>3, <1>4, <2>3, <2>4 DEF Locals
  <2>6. l.timeout => l.timeouts = 0
    BY <1>3, <1>7, <1>9, <2>5 DEF GivesUp
  <2>7. LocalsOK(l)'
    BY <1>5, <2>2, <2>3, <2>5, <2>6 DEF LocalsOK, Resolving
  <2>8. chat' = [chat EXCEPT ![c] = l]
    BY <1>3, <1>9, <2>1, <2>4
  <2> QED
    BY <1>5, <1>9, <2>5, <2>7, <2>8, GoesOnInv
<1> QED
  BY <1>1, <1>2, <1>8, <1>9 DEF Fails

\* The caller wakes, or an attempt is answered.
LEMMA MovesInv ==
    ASSUME ChatInv, NEW c \in Callers, Wake(c) \/ \E u \in Usages : Answered(c, u)
    PROVE  ChatInv'
<1>1. PICK k \in Locals : k = chat[c] /\ LocalsOK(k)
  BY DEF ChatInv, ChatTypeOK
<1>2. client \in Models \cup {"none"} /\ chat \in [Callers -> Locals]
  BY DEF ChatInv, ChatTypeOK
<1>3. CASE Wake(c)
  <2>1. PICK l : l = [k EXCEPT !.at = "send"]
    OBVIOUS
  <2>2. /\ l \in Locals /\ l.at = "send" /\ l.model = k.model /\ l.timeout = k.timeout
        /\ l.attempts = k.attempts /\ l.records = k.records /\ l.timeouts = k.timeouts
    BY <2>1 DEF Locals
  <2>3. LocalsOK(l)'
    BY <1>1, <1>3, <2>2 DEF LocalsOK, Wake, Resolving
  <2>4. chat' = [chat EXCEPT ![c] = l]
    BY <1>1, <1>2, <1>3, <2>1 DEF Wake
  <2> QED
    BY <1>2, <1>3, <2>2, <2>3, <2>4, GoesOnInv DEF Wake
<1>4. ASSUME NEW u \in Usages, Answered(c, u)
      PROVE  ChatInv'
  <2>1. PICK n \in Nat : /\ n = k.attempts /\ n < MaxAttempts /\ Len(k.records) = n
    BY <1>1, <1>4 DEF LocalsOK, Answered, Locals
  <2>2. u \in TokenUsage /\ MaxAttempts \in Nat
    BY ChatAssumption
  <2>3. PICK l : l = [k EXCEPT !.at = "record", !.attempts = n + 1, !.usage = u]
    OBVIOUS
  <2>4. /\ l \in Locals /\ l.at = "record" /\ l.model = k.model /\ l.timeout = k.timeout
        /\ l.attempts = n + 1 /\ l.records = k.records /\ l.timeouts = k.timeouts
    <3>1. PICK m \in Nat : m = n + 1
      OBVIOUS
    <3> QED
      BY <2>2, <2>3, <3>1 DEF Locals
  <2>5. n + 1 \in 1 .. MaxAttempts /\ Len(l.records) = (n + 1) - 1
    BY <2>1, <2>2, <2>4
  <2>6. LocalsOK(l)'
    BY <1>1, <1>4, <2>4, <2>5 DEF LocalsOK, Answered, Resolving
  <2>7. chat' = [chat EXCEPT ![c] = l]
    BY <1>1, <1>2, <1>4, <2>1, <2>3 DEF Answered
  <2> QED
    BY <1>2, <1>4, <2>4, <2>6, <2>7, GoesOnInv DEF Answered
<1> QED
  BY <1>3, <1>4

\* The usage is booked and the request ends.
LEMMA RecordUsageInv ==
    ASSUME ChatInv, NEW c \in Callers, RecordUsage(c)
    PROVE  ChatInv'
<1>1. PICK k \in Locals : k = chat[c] /\ LocalsOK(k) /\ k.at = "record"
  BY DEF ChatInv, ChatTypeOK, RecordUsage
<1>2. /\ UNCHANGED <<settings, client, saves>> /\ client \in Models \cup {"none"}
      /\ settings \in Models \cup {"none"} /\ k.model \in Models \cup {"none"}
  BY <1>1 DEF ChatInv, ChatTypeOK, RecordUsage, Locals
<1>3. ASSUME NEW type \in {"answer", "ValidationError"}, NEW r,
             r = Ending(type, "answer", k), type = "answer" \/ Overstated(k.usage)
      PROVE  r \in Result /\ ResultOK(r) /\ r.type = type
  <2>1. type \in ErrorType /\ "answer" \in Class
    BY DEF ErrorType, Class
  <2>2. /\ r \in Result /\ r.type = type /\ r.class = "answer" /\ r.attempts = k.attempts
        /\ r.records = k.records /\ r.timeouts = k.timeouts /\ r.timeout = k.timeout
        /\ r.usage = k.usage
    BY <1>2, <1>3, <2>1, EndingFacts
  <2>3. r.timeout => r.timeouts <= 1
    BY <1>1, <2>2 DEF LocalsOK
  <2>4. r.attempts \in 1 .. MaxAttempts /\ Len(r.records) = r.attempts - 1
    BY <1>1, <2>2 DEF LocalsOK
  <2>5. ResultOK(r)
    BY <1>3, <2>2, <2>3, <2>4 DEF ResultOK, Retryable
  <2> QED
    BY <2>2, <2>5
<1>4. CASE Overstated(k.usage) /\ EndsIn(c, Ending("ValidationError", "answer", k))
           /\ UNCHANGED ledger
  BY <1>2, <1>3, <1>4, EndsInInv
<1>5. CASE /\ EndsIn(c, Ending("answer", "answer", k))
           /\ \/ ledger' = ledger \cup {[id |-> Len(results) + 1, model |-> settings,
                                         by |-> k.model]}
              \/ UNCHANGED ledger
  <2>1. PICK r : r = Ending("answer", "answer", k)
    OBVIOUS
  <2>2. r \in Result /\ ResultOK(r) /\ r.type = "answer" /\ EndsIn(c, r)
    BY <1>3, <1>5, <2>1
  <2>3. \/ ledger' = ledger
        \/ \E m \in Models \cup {"none"}, b \in Models \cup {"none"} :
              ledger' = ledger \cup {[id |-> Len(results) + 1, model |-> m, by |-> b]}
    BY <1>2, <1>5
  <2> QED
    BY <1>2, <2>2, <2>3, EndsInInv
<1> QED
  BY <1>1, <1>4, <1>5 DEF RecordUsage

\* Every step keeps the invariant.
LEMMA ChatNextInv ==
    ASSUME ChatInv, [ChatNext]_chatVars
    PROVE  ChatInv'
<1>1. CASE \E m \in Models : SaveSettings(m)
  BY <1>1 DEF ChatInv, ChatTypeOK, SaveSettings, LocalsOK, ResultOK, Overstated, UsageBookedOnce
<1>2. CASE UNCHANGED chatVars
  BY <1>2 DEF ChatInv, ChatTypeOK, chatVars, LocalsOK, ResultOK, Overstated, UsageBookedOnce
<1>3. CASE \E c \in Callers : ChatStep(c)
  BY <1>3, CallsInv, BuildsInv, TakesClientInv, FailsInv, MovesInv, RecordUsageInv DEF ChatStep
<1> QED
  BY <1>1, <1>2, <1>3 DEF ChatNext

\* Retries, timeouts, answers and the usage ledger are as the runs check them.
THEOREM ChatIsSound == ChatSpec => []ChatSound
<1>1. ChatInit => ChatInv
  <2> SUFFICES ASSUME ChatInit PROVE ChatInv
    OBVIOUS
  <2>1. \A c \in Callers : chat[c] = NoChat
    BY DEF ChatInit
  <2>2. chat \in [Callers -> Locals]
    BY NoChatFacts DEF ChatInit
  <2>3. ChatTypeOK
    BY <2>2 DEF ChatInit, ChatTypeOK
  <2>4. DOMAIN results = {} /\ UsageBookedOnce
    BY DEF ChatInit, UsageBookedOnce
  <2> QED
    BY <2>1, <2>3, <2>4, NoChatFacts DEF ChatInv
<1>2. ChatInv /\ [ChatNext]_chatVars => ChatInv'
  BY ChatNextInv
<1>3. ChatInv => ChatSound
  <2> SUFFICES ASSUME ChatInv PROVE ChatSound
    OBVIOUS
  <2>1. ChatTypeOK /\ UsageBookedOnce
    BY DEF ChatInv
  <2>2. TimeoutNotMultiplied
    BY DEF ChatInv, ResultOK, LocalsOK, TimeoutNotMultiplied
  <2>3. RetriesAreRecorded /\ GivesUpForAReason /\ AnswerReachesCaller
    BY DEF ChatInv, ResultOK, RetriesAreRecorded, GivesUpForAReason, AnswerReachesCaller
  <2>4. ConfigErrorIsTrue
    BY DEF ChatInv, ResultOK, LocalsOK, ConfigErrorIsTrue
  <2> QED
    BY <2>1, <2>2, <2>3, <2>4 DEF ChatSound
<1> QED
  BY <1>1, <1>2, <1>3, PTL DEF ChatSpec
-----------------------------------------------------------------------------
(* The runtime input router: requests and what they leave behind.           *)

\* The invariant in the pieces the steps use.
LEMMA RouterParts ==
    ASSUME RouterInv, NEW th \in InputThreads
    PROVE  /\ RouterTypeOK /\ inputJob[th] \in InputRow /\ InputFits(inputJob[th], effects)
           /\ inputJob[th].phase # "idle" => inputJob[th].cmd \in Commands
  <1>1. inputJob[th] \in InputRow
    BY DEF RouterInv, RouterTypeOK
  <1>2. InputFits(inputJob[th], effects)
    BY DEF RouterInv
  <1>. QED
    BY <1>1, <1>2 DEF RouterInv, InputFits

\* A plan of the planner that could not be used.
LEMMA NoProposalShape ==
    /\ NoProposal \in Proposals /\ NoProposal.target = "unsupported"
    /\ NoProposal.draft = "none" /\ NoProposal.confidence = "high"
  BY DEF NoProposal, Proposal, Proposals, Targets, Drafts, Ids

\* A thread without a request.
LEMMA NoInputShape ==
    NoInput \in InputRow /\ NoInput.phase = "idle"
  <1>1. 0 \in 0..(1 + MaxRepair)
    BY RouterAssumption
  <1>2. NoProposal \in Proposals
    BY NoProposalShape
  <1>. QED
    BY <1>1, <1>2 DEF NoInput, InputRow, Outcomes, Notes

\* A request that has just been received.
LEMMA ReceivedShape ==
    ASSUME NEW c \in Commands, NEW m \in Modes, NEW sel \in InputTasks \cup {NoId},
           NEW seen \in Asks \cup {NoId}
    PROVE  LET x == Received(c, m, sel, seen)
           IN  x \in InputRow /\ x.phase = "read" /\ x.cmd = c /\ x.calls = 0
  <1>1. PICK x : x = Received(c, m, sel, seen)
    OBVIOUS
  <1>2. x = [phase |-> "read", cmd |-> c, mode |-> m, sel |-> sel, seen |-> seen,
             ask |-> NoId, conf |-> "absent", calls |-> 0, plan |-> NoProposal,
             outcome |-> "answered", kind |-> "none"]
    BY <1>1 DEF Received, NoInput
  <1>3. 0 \in 0..(1 + MaxRepair)
    BY RouterAssumption
  <1>4. NoProposal \in Proposals
    BY NoProposalShape
  <1>5. x \in InputRow
    BY <1>2, <1>3, <1>4 DEF InputRow, Outcomes, Notes
  <1>. QED
    BY <1>1, <1>2, <1>5

\* A request whose handler has come to an end.
LEMMA ConcludedShape ==
    ASSUME NEW c \in Commands, NEW o \in Outcomes, NEW k \in Notes
    PROVE  LET x == Concluded(c, o, k)
           IN  x \in InputRow /\ x.phase = "talk" /\ x.cmd = c /\ x.outcome = o /\ x.kind = k
  <1>1. PICK x : x = Concluded(c, o, k)
    OBVIOUS
  <1>2. x = [phase |-> "talk", cmd |-> c, mode |-> "auto", sel |-> NoId, seen |-> NoId,
             ask |-> NoId, conf |-> "absent", calls |-> 0, plan |-> NoProposal,
             outcome |-> o, kind |-> k]
    BY <1>1 DEF Concluded, NoInput
  <1>3. 0 \in 0..(1 + MaxRepair)
    BY RouterAssumption
  <1>4. NoProposal \in Proposals
    BY NoProposalShape
  <1>5. x \in InputRow
    BY <1>2, <1>3, <1>4 DEF InputRow
  <1>. QED
    BY <1>1, <1>2, <1>5

\* A request that the router has looked at, and after a call of the planner.
RoutedAs(j, a, f, g, p) == [j EXCEPT !.ask = a, !.seen = NoId, !.conf = f, !.phase = g, !.plan = p]
PlannedAs(j, p) == [j EXCEPT !.phase = "act", !.plan = p, !.calls = @ + 1]
CalledAgain(j) == [j EXCEPT !.calls = @ + 1]

\* A request after a call of the planner that gave a plan.
LEMMA PlannedShape ==
    ASSUME NEW j \in InputRow, j.calls <= MaxRepair, NEW p \in Proposals
    PROVE  LET x == PlannedAs(j, p)
           IN  /\ x \in InputRow /\ x.phase = "act" /\ x.cmd = j.cmd /\ x.plan = p
               /\ x.ask = j.ask
  <1>1. PICK p1, p2, p3, p4, p5, p6, p7, p8, p9, p10, p11 :
          j = [phase |-> p1, cmd |-> p2, mode |-> p3, sel |-> p4, seen |-> p5, ask |-> p6,
               conf |-> p7, calls |-> p8, plan |-> p9, outcome |-> p10, kind |-> p11]
    BY DEF InputRow
  <1>2. j.calls \in 0..(1 + MaxRepair) /\ j.calls = p8
    BY <1>1 DEF InputRow
  <1>3. PICK n \in 0..(1 + MaxRepair) : n = p8 + 1
    BY <1>2, RouterAssumption
  <1>4. PICK x : x = PlannedAs(j, p)
    OBVIOUS
  <1>5. x = [j EXCEPT !.phase = "act", !.plan = p, !.calls = n]
    BY <1>2, <1>3, <1>4 DEF PlannedAs
  <1>6. x = [phase |-> "act", cmd |-> p2, mode |-> p3, sel |-> p4, seen |-> p5, ask |-> p6,
             conf |-> p7, calls |-> n, plan |-> p, outcome |-> p10, kind |-> p11]
    BY <1>1, <1>5
  <1>. QED
    BY <1>1, <1>3, <1>4, <1>6 DEF InputRow

\* A request after a call of the planner that gave none.
LEMMA CalledAgainShape ==
    ASSUME NEW j \in InputRow, j.calls <= MaxRepair
    PROVE  LET x == CalledAgain(j)
           IN  /\ x \in InputRow /\ x.phase = j.phase /\ x.cmd = j.cmd
               /\ x.calls = j.calls + 1
  <1>1. PICK p1, p2, p3, p4, p5, p6, p7, p8, p9, p10, p11 :
          j = [phase |-> p1, cmd |-> p2, mode |-> p3, sel |-> p4, seen |-> p5, ask |-> p6,
               conf |-> p7, calls |-> p8, plan |-> p9, outcome |-> p10, kind |-> p11]
    BY DEF InputRow
  <1>2. j.calls \in 0..(1 + MaxRepair) /\ j.calls = p8
    BY <1>1 DEF InputRow
  <1>3. PICK n \in 0..(1 + MaxRepair) : n = p8 + 1
    BY <1>2, RouterAssumption
  <1>4. PICK x : x = CalledAgain(j)
    OBVIOUS
  <1>5. x = [j EXCEPT !.calls = n]
    BY <1>2, <1>3, <1>4 DEF CalledAgain
  <1>6. x = [phase |-> p1, cmd |-> p2, mode |-> p3, sel |-> p4, seen |-> p5, ask |-> p6,
             conf |-> p7, calls |-> n, plan |-> p9, outcome |-> p10, kind |-> p11]
    BY <1>1, <1>5
  <1>7. x.calls = j.calls + 1
    BY <1>2, <1>3, <1>6
  <1>. QED
    BY <1>1, <1>3, <1>4, <1>6, <1>7 DEF InputRow

\* A request whose conversation is written.
LEMMA NotedShape ==
    ASSUME NEW j \in InputRow, NEW x, x = [j EXCEPT !.phase = "note"]
    PROVE  /\ x \in InputRow /\ x.phase = "note" /\ x.cmd = j.cmd /\ x.outcome = j.outcome
           /\ x.kind = j.kind
  BY DEF InputRow
-----------------------------------------------------------------------------
(* What a step of a request has to show.                                    *)

\* A request of command c has no effect, or one that was authorised.
EffectOf(c) ==
    \/ effects' = effects
    \/ \E e \in EffectRow : Authorised(e) /\ effects' = [effects EXCEPT ![c] = Append(@, e)]

\* One more effect leaves the others as they are.
LEMMA EffectAppended ==
    ASSUME RouterTypeOK, NEW c \in Commands, NEW e \in EffectRow,
           effects' = [effects EXCEPT ![c] = Append(@, e)]
    PROVE  /\ effects' \in [Commands -> Seq(EffectRow)]
           /\ \A d \in Commands : d # c => effects'[d] = effects[d]
           /\ Len(effects'[c]) = Len(effects[c]) + 1 /\ Len(effects[c]) \in Nat
           /\ e.what \in Made(effects', c) /\ Made(effects, c) \subseteq Made(effects', c)
           /\ \A i \in DOMAIN effects'[c] :
                effects'[c][i] = e \/ (i \in DOMAIN effects[c] /\ effects'[c][i] = effects[c][i])
  <1>1. effects \in [Commands -> Seq(EffectRow)]
    BY DEF RouterTypeOK
  <1>2. PICK q \in Seq(EffectRow) : q = effects[c]
    BY <1>1
  <1>3. PICK s : s = Append(q, e)
    OBVIOUS
  <1>4. effects' = [effects EXCEPT ![c] = s]
    BY <1>2, <1>3
  <1>5. effects'[c] = s /\ \A d \in Commands : d # c => effects'[d] = effects[d]
    BY <1>1, <1>4
  <1>6. /\ s \in Seq(EffectRow) /\ Len(s) = Len(q) + 1 /\ Len(q) \in Nat
        /\ \A i \in 1..Len(q) : s[i] = q[i]
        /\ s[Len(q) + 1] = e
    BY <1>3, AppendShape
  <1>7. DOMAIN s = 1..(Len(q) + 1) /\ DOMAIN q = 1..Len(q)
    BY <1>6, LenProperties
  <1>8. effects' \in [Commands -> Seq(EffectRow)]
    BY <1>1, <1>4, <1>6
  <1>9. \A i \in DOMAIN s : s[i] = e \/ (i \in DOMAIN q /\ s[i] = q[i])
    BY <1>6, <1>7
  <1>10. e.what \in Made(effects', c)
    <2>1. PICK i \in DOMAIN s : s[i] = e
      BY <1>6, <1>7
    <2>. QED
      BY <1>5, <2>1 DEF Made
  <1>11. Made(effects, c) \subseteq Made(effects', c)
    <2>1. ASSUME NEW i \in DOMAIN q PROVE i \in DOMAIN s /\ s[i] = q[i]
      BY <1>6, <1>7
    <2>. QED
      BY <1>2, <1>5, <2>1 DEF Made
  <1>. QED
    BY <1>2, <1>5, <1>6, <1>8, <1>9, <1>10, <1>11

\* What a request has done stays done, and was authorised.
LEMMA EffectStep ==
    ASSUME RouterInv, NEW c \in Commands, EffectOf(c)
    PROVE  /\ effects' \in [Commands -> Seq(EffectRow)]
           /\ \A d \in Commands : d # c => effects'[d] = effects[d]
           /\ \A d \in Commands : Made(effects, d) \subseteq Made(effects', d)
           /\ EffectAuthorised'
  <1>1. RouterTypeOK /\ \A d \in Commands : \A i \in DOMAIN effects[d] : Authorised(effects[d][i])
    BY DEF RouterInv, EffectAuthorised
  <1>2. CASE effects' = effects
    BY <1>1, <1>2 DEF RouterTypeOK, EffectAuthorised
  <1>3. ASSUME NEW e \in EffectRow, Authorised(e), effects' = [effects EXCEPT ![c] = Append(@, e)]
        PROVE  /\ effects' \in [Commands -> Seq(EffectRow)]
               /\ \A d \in Commands : d # c => effects'[d] = effects[d]
               /\ \A d \in Commands : Made(effects, d) \subseteq Made(effects', d)
               /\ EffectAuthorised'
    <2>1. /\ effects' \in [Commands -> Seq(EffectRow)]
          /\ \A d \in Commands : d # c => effects'[d] = effects[d]
          /\ Made(effects, c) \subseteq Made(effects', c)
          /\ \A i \in DOMAIN effects'[c] :
               effects'[c][i] = e \/ (i \in DOMAIN effects[c] /\ effects'[c][i] = effects[c][i])
      BY <1>1, <1>3, EffectAppended
    <2>2. ASSUME NEW d \in Commands PROVE Made(effects, d) \subseteq Made(effects', d)
      BY <2>1 DEF Made
    <2>3. ASSUME NEW d \in Commands, NEW i \in DOMAIN effects'[d] PROVE Authorised(effects'[d][i])
      <3>1. CASE d = c
        BY <1>1, <1>3, <2>1, <3>1
      <3>2. CASE d # c
        BY <1>1, <2>1, <3>2
      <3>. QED
        BY <3>1, <3>2
    <2>. QED
      BY <2>1, <2>2, <2>3 DEF EffectAuthorised
  <1>. QED
    BY <1>2, <1>3 DEF EffectOf

\* The parts of the world that requests share with the rest of the system.
SharedOK ==
    /\ asks' \in [Asks -> {"absent", "pending", "settled"}]
    /\ conf' \in {"absent", "pending", "resolved"}
    /\ inputTask' \in [InputTasks -> {"pending", "running", "failed"}]
    /\ answers' \in [Asks -> Nat]
    /\ AnswersInv'

\* A thread that goes from a request of command c to x, with what it leaves.
StepOf(th, c, x) ==
    /\ inputJob[th].phase # "idle" /\ inputJob[th].cmd = c
    /\ inputJob' = [inputJob EXCEPT ![th] = x]
    /\ x.phase # "idle" => x.cmd = c
    /\ UNCHANGED <<inputSends, inputCrashes>>
    /\ keys' \in [Commands -> SUBSET {"contract", "plane"}]
    /\ \A d \in Commands : d # c => keys'[d] = keys[d]
    /\ messages \subseteq messages' /\ messages' \subseteq MessageRow
    /\ \A m \in messages' : m \in messages \/ m.cmd = c
    /\ replies \subseteq replies' /\ replies' \subseteq ReplyRow
    /\ \A r \in replies' : r \in replies \/ r.cmd = c

\* A request of another command is not disturbed.
LEMMA OthersFit ==
    ASSUME NEW j, NEW c, j.cmd # c, j.cmd \in Commands, RouterTypeOK,
           \A d \in Commands : d # c => effects'[d] = effects[d] /\ keys'[d] = keys[d],
           messages \subseteq messages', \A m \in messages' : m \in messages \/ m.cmd = c,
           \A r \in replies' : r \in replies \/ r.cmd = c,
           OnceFits(j, effects, keys, messages, replies)
    PROVE  OnceFits(j, effects', keys', messages', replies')
  <1>1. effects'[j.cmd] = effects[j.cmd] /\ keys'[j.cmd] = keys[j.cmd]
    OBVIOUS
  <1>2. \A m \in messages' : m.cmd = j.cmd => m \in messages
    OBVIOUS
  <1>3. \A r \in replies' : r.cmd = j.cmd => r \in replies
    OBVIOUS
  <1>4. Announced(j.cmd, messages) => Announced(j.cmd, messages')
    BY DEF Announced
  <1>. QED
    BY <1>1, <1>2, <1>3, <1>4 DEF OnceFits

\* A step of a request that is the only one of its command leaves it, and
\* every other one, in order.
LEMMA OnlyRequestStep ==
    ASSUME RouterInv, NEW th \in InputThreads, NEW c \in Commands, NEW x \in InputRow,
           StepOf(th, c, x), EffectOf(c),
           SentOnce(c) =>
             /\ Len(effects'[c]) <= 1
             /\ x.phase # "idle" => OnceFits(x, effects', keys', messages', replies')
             /\ \A r \in replies' : r \notin replies => Truthful(r, messages')
    PROVE  OnceServedInv'
  <1>0. RouterTypeOK /\ inputJob \in [InputThreads -> InputRow]
    BY DEF RouterInv, RouterTypeOK
  <1>1. inputJob'[th] = x /\ \A u \in InputThreads : u # th => inputJob'[u] = inputJob[u]
    BY <1>0 DEF StepOf
  <1>2. \A d \in Commands : d # c => effects'[d] = effects[d] /\ keys'[d] = keys[d]
    BY EffectStep DEF StepOf
  <1>3. /\ messages \subseteq messages' /\ \A m \in messages' : m \in messages \/ m.cmd = c
        /\ replies \subseteq replies' /\ \A r \in replies' : r \in replies \/ r.cmd = c
        /\ x.phase # "idle" => x.cmd = c
        /\ Busy(th, c) /\ UNCHANGED <<inputSends, inputCrashes>>
    BY DEF StepOf, Busy
  <1>4. \A d \in Commands : SentOnce(d)' <=> SentOnce(d)
    BY <1>3 DEF SentOnce
  <1>5. ASSUME NEW d \in Commands, SentOnce(d)
        PROVE  /\ Len(effects[d]) <= 1
               /\ inputSends[d] = 0 => Unsent(d)
               /\ \A t, u \in InputThreads : Busy(t, d) /\ Busy(u, d) => t = u
               /\ \A t \in InputThreads :
                    Busy(t, d) => OnceFits(inputJob[t], effects, keys, messages, replies)
               /\ \A r \in replies : r.cmd = d => Truthful(r, messages)
    BY <1>5 DEF RouterInv, OnceServedInv
  <1>6. \A u \in InputThreads, d \in Commands : Busy(u, d)' =>
          (u = th /\ d = c /\ x.phase # "idle") \/ (u # th /\ Busy(u, d))
    BY <1>1, <1>3 DEF Busy
  <1>7. \A r : Truthful(r, messages) => Truthful(r, messages')
    BY <1>3 DEF Truthful, Announced
  <1>8. ASSUME SentOnce(c)
        PROVE  /\ Len(effects'[c]) <= 1
               /\ inputSends'[c] = 0 => Unsent(c)'
               /\ \A t, u \in InputThreads : Busy(t, c)' /\ Busy(u, c)' => t = u
               /\ \A t \in InputThreads :
                    Busy(t, c)' => OnceFits(inputJob'[t], effects', keys', messages', replies')
               /\ \A r \in replies' : r.cmd = c => Truthful(r, messages')
    <2>1. inputSends'[c] # 0
      BY <1>3, <1>5, <1>8 DEF Unsent
    <2>2. \A u \in InputThreads : Busy(u, c)' => u = th /\ x.phase # "idle"
      BY <1>3, <1>5, <1>6, <1>8
    <2>3. \A r \in replies : r.cmd # c
      BY <1>3, <1>5, <1>8 DEF OnceFits, Busy
    <2>. QED
      BY <1>1, <1>8, <2>1, <2>2, <2>3
  <1>9. ASSUME NEW d \in Commands, d # c, SentOnce(d)
        PROVE  /\ Len(effects'[d]) <= 1
               /\ inputSends'[d] = 0 => Unsent(d)'
               /\ \A t, u \in InputThreads : Busy(t, d)' /\ Busy(u, d)' => t = u
               /\ \A t \in InputThreads :
                    Busy(t, d)' => OnceFits(inputJob'[t], effects', keys', messages', replies')
               /\ \A r \in replies' : r.cmd = d => Truthful(r, messages')
    <2>1. \A u \in InputThreads : Busy(u, d)' => u # th /\ Busy(u, d)
      BY <1>6, <1>9
    <2>2. Len(effects'[d]) <= 1
      BY <1>2, <1>5, <1>9
    <2>3. inputSends'[d] = 0 => Unsent(d)'
      BY <1>2, <1>3, <1>5, <1>9, <2>1 DEF Unsent
    <2>4. ASSUME NEW t \in InputThreads, Busy(t, d)'
          PROVE  OnceFits(inputJob'[t], effects', keys', messages', replies')
      <3>1. t # th /\ Busy(t, d) /\ inputJob'[t] = inputJob[t]
        BY <1>1, <2>1, <2>4
      <3>2. PICK j : j = inputJob[t]
        OBVIOUS
      <3>3. OnceFits(j, effects, keys, messages, replies) /\ j.cmd = d
        BY <1>5, <1>9, <3>1, <3>2 DEF Busy
      <3>. QED
        BY <1>0, <1>2, <1>3, <1>9, <3>1, <3>2, <3>3, OthersFit
    <2>5. \A r \in replies' : r.cmd = d => Truthful(r, messages')
      BY <1>3, <1>5, <1>7, <1>9
    <2>. QED
      BY <1>5, <1>9, <2>1, <2>2, <2>3, <2>4, <2>5
  <1>10. \A d \in Commands : SentOnce(d)' =>
               /\ Len(effects'[d]) <= 1
               /\ inputSends'[d] = 0 => Unsent(d)'
               /\ \A t, u \in InputThreads : Busy(t, d)' /\ Busy(u, d)' => t = u
               /\ \A t \in InputThreads :
                    Busy(t, d)' => OnceFits(inputJob'[t], effects', keys', messages', replies')
               /\ \A r \in replies' : r.cmd = d => Truthful(r, messages')
    BY <1>4, <1>8, <1>9
  <1>. QED
    BY <1>10 DEF OnceServedInv

\* A step of a request keeps the invariant.
LEMMA ServeStep ==
    ASSUME RouterInv, NEW th \in InputThreads, NEW c \in Commands, NEW x \in InputRow,
           StepOf(th, c, x), EffectOf(c), SharedOK, InputFits(x, effects'),
           "plane" \in keys'[c] => "wechat" \in Made(effects', c),
           \A m \in messages' : m \notin messages => IsTrue(m.kind, Made(effects', c)),
           SentOnce(c) =>
             /\ Len(effects'[c]) <= 1
             /\ x.phase # "idle" => OnceFits(x, effects', keys', messages', replies')
             /\ \A r \in replies' : r \notin replies => Truthful(r, messages')
    PROVE  RouterInv'
  <1>0. RouterTypeOK /\ inputJob \in [InputThreads -> InputRow]
    BY DEF RouterInv, RouterTypeOK
  <1>1. inputJob'[th] = x /\ \A u \in InputThreads : u # th => inputJob'[u] = inputJob[u]
    BY <1>0 DEF StepOf
  <1>2. inputJob' \in [InputThreads -> InputRow]
    BY <1>0 DEF StepOf
  <1>3. /\ effects' \in [Commands -> Seq(EffectRow)]
        /\ \A d \in Commands : d # c => effects'[d] = effects[d]
        /\ \A d \in Commands : Made(effects, d) \subseteq Made(effects', d)
        /\ EffectAuthorised'
    BY EffectStep
  <1>4. RouterTypeOK'
    BY <1>0, <1>2, <1>3 DEF StepOf, SharedOK, RouterTypeOK
  <1>5. ActivityAfterSuccess'
    <2>1. ASSUME NEW m \in messages' PROVE IsTrue(m.kind, Made(effects', m.cmd))
      <3>1. CASE m \in messages
        <4>1. m.cmd \in Commands
          BY <1>0, <3>1 DEF RouterTypeOK, MessageRow
        <4>2. IsTrue(m.kind, Made(effects, m.cmd))
          BY <3>1 DEF RouterInv, ActivityAfterSuccess
        <4>. QED
          BY <1>3, <4>1, <4>2 DEF IsTrue
      <3>2. CASE m \notin messages
        BY <3>2 DEF StepOf
      <3>. QED
        BY <3>1, <3>2
    <2>. QED
      BY <2>1 DEF ActivityAfterSuccess
  <1>6. PlaneBacked'
    <2>1. ASSUME NEW d \in Commands, "plane" \in keys'[d] PROVE "wechat" \in Made(effects', d)
      <3>1. CASE d = c
        BY <2>1, <3>1
      <3>2. CASE d # c
        <4>1. keys'[d] = keys[d]
          BY <3>2 DEF StepOf
        <4>. QED
          BY <1>3, <2>1, <4>1 DEF RouterInv, PlaneBacked
      <3>. QED
        BY <3>1, <3>2
    <2>. QED
      BY <2>1 DEF PlaneBacked
  <1>7. ASSUME NEW u \in InputThreads PROVE InputFits(inputJob'[u], effects')
    <2>1. CASE u = th
      BY <1>1, <2>1
    <2>2. CASE u # th
      <3>1. PICK j : j = inputJob[u]
        OBVIOUS
      <3>2. inputJob'[u] = j /\ InputFits(j, effects)
        BY <1>1, <2>2, <3>1 DEF RouterInv
      <3>3. j.phase # "idle" => Made(effects, j.cmd) \subseteq Made(effects', j.cmd)
        BY <1>3, <3>2 DEF InputFits
      <3>4. InputFits(j, effects')
        BY <3>2, <3>3 DEF InputFits, IsTrue
      <3>. QED
        BY <3>2, <3>4
    <2>. QED
      BY <2>1, <2>2
  <1>8. OnceServedInv'
    BY OnlyRequestStep
  <1>. QED
    BY <1>3, <1>4, <1>5, <1>6, <1>7, <1>8 DEF RouterInv, SharedOK
-----------------------------------------------------------------------------
(* The steps of a request.                                                  *)

\* A step that leaves the rest of the system alone.
LEMMA SharedStays ==
    ASSUME RouterInv, UNCHANGED <<asks, conf, inputTask, answers>>
    PROVE  SharedOK
  BY DEF RouterInv, RouterTypeOK, AnswersInv, SharedOK

\* What is known of a request that is the only one of its command.
LEMMA OnlyRequest ==
    ASSUME RouterInv, NEW th \in InputThreads, inputJob[th].phase # "idle",
           SentOnce(inputJob[th].cmd)
    PROVE  /\ OnceFits(inputJob[th], effects, keys, messages, replies)
           /\ Len(effects[inputJob[th].cmd]) <= 1
  <1>1. PICK c \in Commands : c = inputJob[th].cmd
    BY RouterParts
  <1>2. Busy(th, c) /\ SentOnce(c)
    BY <1>1 DEF Busy
  <1>. QED
    BY <1>1, <1>2 DEF RouterInv, OnceServedInv

\* A request that goes on and has done nothing yet.
LEMMA MovesOn ==
    ASSUME RouterInv, NEW th \in InputThreads, NEW x \in InputRow,
           inputJob[th].phase \in {"read", "plan"}, x.phase \in {"plan", "act"},
           x.cmd = inputJob[th].cmd, inputJob' = [inputJob EXCEPT ![th] = x],
           UNCHANGED <<world, inputSends, messages, replies, inputCrashes>>,
           InputFits(x, effects)
    PROVE  RouterInv'
  <1>1. PICK c \in Commands : c = inputJob[th].cmd
    BY RouterParts
  <1>2. /\ UNCHANGED <<asks, conf, inputTask, effects, keys, answers>> /\ inputJob[th].phase # "idle"
        /\ RouterTypeOK
    BY DEF world, RouterInv
  <1>3. StepOf(th, c, x)
    BY <1>1, <1>2 DEF StepOf, RouterTypeOK
  <1>4. EffectOf(c) /\ SharedOK /\ InputFits(x, effects')
    BY <1>2, SharedStays DEF EffectOf
  <1>5. "plane" \in keys'[c] => "wechat" \in Made(effects', c)
    BY <1>2 DEF RouterInv, PlaneBacked
  <1>6. ASSUME SentOnce(c)
        PROVE  /\ Len(effects'[c]) <= 1
               /\ OnceFits(x, effects', keys', messages', replies')
    <2>1. OnceFits(inputJob[th], effects, keys, messages, replies) /\ Len(effects[c]) <= 1
      BY <1>1, <1>2, <1>6, OnlyRequest
    <2>2. OnceFits(x, effects, keys, messages, replies)
      BY <2>1 DEF OnceFits
    <2>. QED
      BY <1>2, <2>1, <2>2
  <1>. QED
    BY <1>3, <1>4, <1>5, <1>6, ServeStep

\* The active ASK is one that was raised.
LEMMA ActiveAskShape ==
    ASSUME RouterTypeOK, NEW seen
    PROVE  ActiveAsk(seen) \in Asks \cup {NoId}
  <1>1. PICK waiting : waiting = {a \in Asks : asks[a] = "pending"}
    OBVIOUS
  <1>2. waiting \subseteq Nat /\ waiting \subseteq Asks
    BY <1>1 DEF Asks
  <1>3. ASSUME waiting # {}
        PROVE  (CHOOSE a \in waiting : \A b \in waiting : a <= b) \in Asks
    <2>1. \E a \in waiting : \A b \in waiting : a <= b
      BY <1>2, <1>3, LeastNat
    <2>. QED
      BY <1>2, <2>1
  <1>4. CASE seen = NoId /\ waiting # {}
    BY <1>1, <1>3, <1>4 DEF ActiveAsk
  <1>5. CASE seen = NoId /\ waiting = {}
    BY <1>1, <1>5 DEF ActiveAsk
  <1>6. CASE seen # NoId
    BY <1>1, <1>2, <1>6 DEF ActiveAsk
  <1>. QED
    BY <1>4, <1>5, <1>6

\* The route of a mode is a proposal that passes.
LEMMA ModeRouteShape ==
    ASSUME NEW mode
    PROVE  /\ ModeRoute(mode) \in Proposals
           /\ ModeRoute(mode).confidence # "low" /\ ModeRoute(mode).draft = "none"
           /\ ModeRoute(mode).target \in {"read_only_inquiry", "record_guidance", "unsupported"}
  <1>1. CASE mode = "ask"
    BY <1>1 DEF ModeRoute, Proposal, Proposals, Targets, Drafts, Ids
  <1>2. CASE mode = "guide"
    BY <1>2 DEF ModeRoute, Proposal, Proposals, Targets, Drafts, Ids
  <1>3. CASE mode \notin {"ask", "guide"}
    BY <1>3, NoProposalShape DEF ModeRoute
  <1>. QED
    BY <1>1, <1>2, <1>3

\* An explicit mode decides the route; the others ask the planner.
LEMMA RouteKeeps ==
    ASSUME RouterInv, NEW th \in InputThreads, Route(th)
    PROVE  RouterInv'
  <1>0. /\ RouterTypeOK /\ inputJob[th] \in InputRow /\ InputFits(inputJob[th], effects)
        /\ inputJob \in [InputThreads -> InputRow]
    BY RouterParts DEF RouterTypeOK
  <1>1. PICK j \in InputRow : j = inputJob[th]
    BY <1>0
  <1>2. PICK a \in Asks \cup {NoId} : a = ActiveAsk(j.seen)
    BY <1>0, ActiveAskShape
  <1>3. PICK p \in Proposals : p = ModeRoute(j.mode)
    BY ModeRouteShape
  <1>4. PICK g \in {"act", "plan"} : g = IF j.mode \in {"ask", "guide"} THEN "act" ELSE "plan"
    OBVIOUS
  <1>5. PICK f \in {"absent", "pending", "resolved"} : f = conf
    BY <1>0 DEF RouterTypeOK
  <1>6. PICK x : x = RoutedAs(j, a, f, g, p)
    OBVIOUS
  <1>7. inputJob' = [inputJob EXCEPT ![th] = x]
    BY <1>0, <1>1, <1>2, <1>3, <1>4, <1>5, <1>6 DEF Route, RoutedAs
  <1>8. /\ x \in InputRow /\ x.phase = g /\ x.cmd = j.cmd /\ x.plan = p /\ x.ask = a
        /\ x.calls = j.calls
    <2>1. PICK p1, p2, p3, p4, p5, p6, p7, p8, p9, p10, p11 :
            j = [phase |-> p1, cmd |-> p2, mode |-> p3, sel |-> p4, seen |-> p5, ask |-> p6,
                 conf |-> p7, calls |-> p8, plan |-> p9, outcome |-> p10, kind |-> p11]
      BY <1>1 DEF InputRow
    <2>2. x = [phase |-> g, cmd |-> p2, mode |-> p3, sel |-> p4, seen |-> NoId, ask |-> a,
               conf |-> f, calls |-> p8, plan |-> p, outcome |-> p10, kind |-> p11]
      BY <1>6, <2>1 DEF RoutedAs
    <2>3. /\ p2 \in Commands \cup {NoId} /\ p3 \in Modes \cup {"auto"}
          /\ p4 \in InputTasks \cup {NoId} /\ p8 \in 0..(1 + MaxRepair)
          /\ p10 \in Outcomes /\ p11 \in Notes
      BY <1>1, <2>1 DEF InputRow
    <2>4. /\ g \in {"idle", "read", "plan", "act", "talk", "note"} /\ NoId \in Asks \cup {NoId}
          /\ a \in Asks \cup {NoId} /\ p \in Proposals
          /\ f \in {"absent", "pending", "resolved"}
      BY <1>2, <1>3, <1>4, <1>5
    <2>5. x \in InputRow
      BY <2>2, <2>3, <2>4 DEF InputRow
    <2>. QED
      BY <2>1, <2>2, <2>5
  <1>9. j.phase = "read" /\ j.calls = 0 /\ j.cmd \in Commands
    BY <1>0, <1>1 DEF Route, InputFits
  <1>10. p.confidence # "low" /\ p.draft \in DraftsOf(p.target) /\ p.target # "resolve_ask"
    BY <1>3, ModeRouteShape DEF DraftsOf
  <1>11. x.calls <= MaxRepair
    BY <1>8, <1>9, RouterAssumption
  <1>12. InputFits(x, effects)
    BY <1>8, <1>9, <1>10, <1>11 DEF InputFits
  <1>13. UNCHANGED <<world, inputSends, messages, replies, inputCrashes>>
    BY DEF Route
  <1>. QED
    BY <1>1, <1>7, <1>8, <1>9, <1>12, <1>13, MovesOn

\* A call of the planner: it gives a proposal that passes, or fails, or is
\* asked once more.
LEMMA PlanKeeps ==
    ASSUME RouterInv, NEW th \in InputThreads, Plan(th)
    PROVE  RouterInv'
  <1>0. /\ RouterTypeOK /\ inputJob[th] \in InputRow /\ InputFits(inputJob[th], effects)
        /\ inputJob \in [InputThreads -> InputRow] /\ inputJob[th].phase = "plan"
        /\ UNCHANGED <<world, inputSends, messages, replies, inputCrashes>>
    BY RouterParts DEF RouterTypeOK, Plan
  <1>1. PICK j \in InputRow : j = inputJob[th]
    BY <1>0
  <1>2. j.phase = "plan" /\ j.calls <= MaxRepair /\ j.cmd \in Commands
    BY <1>0, <1>1 DEF InputFits
  <1>3. j.calls \in Nat
    BY RouterAssumption DEF InputRow
  <1>4. ASSUME NEW p \in Proposals,
               p.target \in Mutating => p.confidence # "low",
               p.draft \in DraftsOf(p.target), p.target = "resolve_ask" => j.ask # NoId,
               inputJob' = [inputJob EXCEPT ![th] = [@ EXCEPT !.phase = "act", !.plan = p,
                                                                !.calls = inputJob[th].calls + 1]]
        PROVE  RouterInv'
    <2>1. PICK x : x = PlannedAs(j, p)
      OBVIOUS
    <2>2. inputJob' = [inputJob EXCEPT ![th] = x]
      BY <1>0, <1>1, <1>4, <2>1 DEF PlannedAs
    <2>3. /\ x \in InputRow /\ x.phase = "act" /\ x.cmd = j.cmd /\ x.plan = p /\ x.ask = j.ask
      BY <1>2, <2>1, PlannedShape
    <2>4. InputFits(x, effects)
      BY <1>2, <1>4, <2>3 DEF InputFits
    <2>. QED
      BY <1>0, <1>1, <1>2, <2>2, <2>3, <2>4, MovesOn
  <1>5. ASSUME PlannerUnavailable(th) PROVE RouterInv'
    <2>1. /\ NoProposal.target \notin Mutating /\ NoProposal.target # "resolve_ask"
          /\ NoProposal.draft \in DraftsOf(NoProposal.target) /\ NoProposal \in Proposals
      BY NoProposalShape DEF Mutating, DraftsOf
    <2>2. inputJob' = [inputJob EXCEPT ![th] = [@ EXCEPT !.phase = "act", !.plan = NoProposal,
                                                         !.calls = inputJob[th].calls + 1]]
      BY <1>5 DEF PlannerUnavailable
    <2>3. PICK p \in Proposals : p = NoProposal
      BY <2>1
    <2>. QED
      BY <1>4, <2>1, <2>2, <2>3
  <1>6. ASSUME Repair(th) PROVE RouterInv'
    <2>1. CASE j.calls >= MaxRepair
      BY <1>1, <1>5, <1>6, <2>1 DEF Repair
    <2>2. CASE ~(j.calls >= MaxRepair)
      <3>1. inputJob' = [inputJob EXCEPT ![th].calls = @ + 1]
        BY <1>1, <1>6, <2>2 DEF Repair
      <3>2. PICK x : x = CalledAgain(j)
        OBVIOUS
      <3>3. inputJob' = [inputJob EXCEPT ![th] = x]
        BY <1>0, <1>1, <3>1, <3>2 DEF CalledAgain
      <3>5. /\ x \in InputRow /\ x.phase = "plan" /\ x.cmd = j.cmd /\ x.calls = j.calls + 1
        BY <1>2, <3>2, CalledAgainShape
      <3>6. x.calls <= MaxRepair
        BY <1>3, <2>2, <3>5, RouterAssumption
      <3>7. InputFits(x, effects)
        BY <1>2, <3>5, <3>6 DEF InputFits
      <3>. QED
        BY <1>0, <1>1, <1>2, <3>3, <3>5, <3>7, MovesOn
    <2>. QED
      BY <2>1, <2>2
  <1>7. ASSUME NEW p \in Proposals, Valid(p, j),
               inputJob' = [inputJob EXCEPT ![th] = [@ EXCEPT !.phase = "act", !.plan = p,
                                                                !.calls = inputJob[th].calls + 1]]
        PROVE  RouterInv'
    <2>1. p.target = "resolve_ask" => j.ask # NoId
      BY <1>7 DEF Valid, AllowedTargets
    <2>. QED
      BY <1>4, <1>7, <2>1 DEF Valid
  <1>. QED
    BY <1>1, <1>5, <1>6, <1>7 DEF Plan
-----------------------------------------------------------------------------
(* The handlers of a request.                                               *)

\* A handler that ends: what it did is authorised and told truly, a refusal
\* has done nothing, and an acceptance nobody else announces is announced.
LEMMA ConcludeKeeps ==
    ASSUME RouterInv, NEW th \in InputThreads, inputJob[th].phase = "act",
           NEW c, c = inputJob[th].cmd, NEW o \in Outcomes, NEW k \in Notes, Conclude(th, o, k),
           UNCHANGED <<inputSends, inputCrashes, replies>>, SharedOK, EffectOf(c),
           keys' \in [Commands -> SUBSET {"contract", "plane"}],
           \A d \in Commands : d # c => keys'[d] = keys[d],
           "plane" \in keys'[c] => "wechat" \in Made(effects', c),
           messages \subseteq messages', messages' \subseteq MessageRow,
           \A m \in messages' : m \in messages \/
              (m.cmd = c /\ m.slot \in Slots /\ IsTrue(m.kind, Made(effects', c))),
           IsTrue(k, Made(effects', c)),
           o # "dispatched" => effects' = effects,
           SentOnce(c) /\ o = "dispatched" /\ k = "none" => Announced(c, messages')
    PROVE  RouterInv'
  <1>1. c \in Commands /\ RouterTypeOK
    BY RouterParts
  <1>2. PICK x : x = Concluded(c, o, k)
    OBVIOUS
  <1>3. x \in InputRow /\ x.phase = "talk" /\ x.cmd = c /\ x.outcome = o /\ x.kind = k
    BY <1>1, <1>2, ConcludedShape
  <1>4. inputJob' = [inputJob EXCEPT ![th] = x]
    BY <1>2 DEF Conclude
  <1>5. StepOf(th, c, x)
    <2>1. replies \subseteq replies' /\ replies' \subseteq ReplyRow
      BY <1>1 DEF RouterTypeOK
    <2>. QED
      BY <1>3, <1>4, <2>1 DEF StepOf
  <1>6. InputFits(x, effects')
    BY <1>1, <1>3 DEF InputFits
  <1>7. ASSUME SentOnce(c)
        PROVE  /\ Len(effects'[c]) <= 1
               /\ OnceFits(x, effects', keys', messages', replies')
    <2>1. /\ OnceFits(inputJob[th], effects, keys, messages, replies)
          /\ effects \in [Commands -> Seq(EffectRow)]
      BY <1>1, <1>7, OnlyRequest DEF RouterTypeOK
    <2>2. /\ effects[c] = <<>> /\ \A m \in messages : m.cmd # c
          /\ \A r \in replies : r.cmd # c
      BY <2>1 DEF OnceFits
    <2>3. Len(effects[c]) = 0
      BY <2>2
    <2>4. Len(effects'[c]) <= 1
      <3>1. CASE effects' = effects
        BY <2>3, <3>1
      <3>2. ASSUME NEW e \in EffectRow, effects' = [effects EXCEPT ![c] = Append(@, e)]
            PROVE  Len(effects'[c]) <= 1
        <4>1. Len(effects'[c]) = Len(effects[c]) + 1
          BY <1>1, <3>2, EffectAppended
        <4>. QED
          BY <2>3, <4>1
      <3>. QED
        BY <3>1, <3>2 DEF EffectOf
    <2>5. \A m \in messages' : m.cmd = c => m.slot \in Slots
      BY <2>2
    <2>6. o # "dispatched" => effects'[c] = <<>>
      BY <2>2
    <2>7. OnceFits(x, effects', keys', messages', replies')
      BY <1>3, <1>7, <2>2, <2>5, <2>6 DEF OnceFits
    <2>. QED
      BY <2>4, <2>7
  <1>8. \A m \in messages' : m \notin messages => IsTrue(m.kind, Made(effects', c))
    OBVIOUS
  <1>9. \A r \in replies' : r \notin replies => Truthful(r, messages')
    OBVIOUS
  <1>. QED
    BY <1>1, <1>3, <1>5, <1>6, <1>7, <1>8, <1>9, ServeStep

\* A handler that ends and has done nothing.
LEMMA RefuseKeeps ==
    ASSUME RouterInv, NEW th \in InputThreads, inputJob[th].phase = "act",
           NEW o \in Outcomes, NEW k \in Notes, Conclude(th, o, k), o # "dispatched",
           k \in {"recovery_note", "router_interpretation", "answer"},
           UNCHANGED <<world, inputSends, inputCrashes, replies, messages>>
    PROVE  RouterInv'
  <1>1. PICK c \in Commands : c = inputJob[th].cmd
    BY RouterParts
  <1>2. UNCHANGED <<asks, conf, inputTask, answers, effects, keys, inputSends, inputCrashes, replies,
                    messages>>
    BY DEF world
  <1>3. SharedOK /\ EffectOf(c) /\ RouterTypeOK
    BY <1>2, SharedStays DEF EffectOf, RouterInv
  <1>4. /\ keys' \in [Commands -> SUBSET {"contract", "plane"}]
        /\ messages' \subseteq MessageRow
    BY <1>2, <1>3 DEF RouterTypeOK
  <1>5. "plane" \in keys'[c] => "wechat" \in Made(effects', c)
    BY <1>2 DEF RouterInv, PlaneBacked
  <1>6. IsTrue(k, Made(effects', c))
    BY DEF IsTrue
  <1>. QED
    BY <1>1, <1>2, <1>3, <1>4, <1>5, <1>6, ConcludeKeeps

\* A command of the contract service: it is recorded, and accepted, made and
\* announced in one step, or refused.
LEMMA ContractKeeps ==
    ASSUME RouterInv, NEW th \in InputThreads, inputJob[th].phase = "act",
           NEW what \in Deeds, NEW id \in Ids, NEW accepted, NEW kind \in Notes \cup Told,
           kind # "none", IsTrue(kind, {what}), Contract(th, what, id, accepted, kind),
           UNCHANGED <<inputSends, inputCrashes, replies>>, SharedOK,
           NEW e, e = [what |-> what, id |-> id, plan |-> inputJob[th].plan], Authorised(e)
    PROVE  RouterInv'
  <1>1. PICK c \in Commands : c = inputJob[th].cmd
    BY RouterParts
  <1>2. RouterTypeOK /\ keys \in [Commands -> SUBSET {"contract", "plane"}] /\ messages \subseteq MessageRow
    BY RouterParts DEF RouterTypeOK
  <1>3. keys' = [keys EXCEPT ![c] = @ \cup {"contract"}]
    BY <1>1 DEF Contract, Recorded
  <1>4. /\ keys' \in [Commands -> SUBSET {"contract", "plane"}]
        /\ \A d \in Commands : d # c => keys'[d] = keys[d]
        /\ "plane" \in keys'[c] => "plane" \in keys[c]
    BY <1>2, <1>3
  <1>5. "plane" \in keys[c] => "wechat" \in Made(effects, c)
    BY DEF RouterInv, PlaneBacked
  <1>6. {"dispatched", "rejected"} \subseteq Outcomes /\ {"none", "recovery_note"} \subseteq Notes
    BY DEF Outcomes, Notes
  <1>7. CASE "contract" \notin keys[c] /\ accepted
    <2>1. /\ messages' = Post(messages, c, "contract", kind, "dispatched")
          /\ Conclude(th, "dispatched", "none")
          /\ effects' = [effects EXCEPT ![c] = Append(@, e)]
      BY <1>1, <1>7 DEF Contract, Effect
    <2>2. e \in EffectRow
      <3>1. inputJob[th].plan \in Proposals
        BY RouterParts DEF InputRow
      <3>. QED
        BY <3>1 DEF EffectRow
    <2>3. EffectOf(c)
      BY <2>1, <2>2 DEF EffectOf
    <2>4. what \in Made(effects', c) /\ Made(effects, c) \subseteq Made(effects', c)
      <3>1. e.what \in Made(effects', c) /\ Made(effects, c) \subseteq Made(effects', c)
        BY <1>2, <2>1, <2>2, EffectAppended
      <3>. QED
        BY <3>1
    <2>5. IsTrue(kind, Made(effects', c))
      BY <2>4 DEF IsTrue
    <2>6. PICK new : new = [cmd |-> c, slot |-> "contract", kind |-> kind, outcome |-> "dispatched"]
      OBVIOUS
    <2>7. new \in MessageRow /\ new.slot \in Slots
      BY <1>6, <2>6 DEF MessageRow, Slots
    <2>8. /\ messages \subseteq messages' /\ messages' \subseteq messages \cup {new}
      BY <2>1, <2>6 DEF Post
    <2>9. ASSUME SentOnce(c) PROVE Announced(c, messages')
      <3>1. OnceFits(inputJob[th], effects, keys, messages, replies)
        BY <1>1, <2>9, OnlyRequest
      <3>2. \A m \in messages : m.cmd # c
        BY <1>1, <3>1 DEF OnceFits
      <3>3. new \in messages'
        BY <2>1, <2>6, <3>2 DEF Post
      <3>. QED
        BY <2>6, <3>3 DEF Announced
    <2>10. \A m \in messages' : m \in messages \/
              (m.cmd = c /\ m.slot \in Slots /\ IsTrue(m.kind, Made(effects', c)))
      BY <2>5, <2>6, <2>7, <2>8
    <2>11. messages' \subseteq MessageRow
      BY <1>2, <2>7, <2>8
    <2>12. IsTrue("none", Made(effects', c))
      BY DEF IsTrue
    <2>13. PICK o \in Outcomes : o = "dispatched"
      BY <1>6
    <2>14. PICK k \in Notes : k = "none"
      BY <1>6
    <2>15. Conclude(th, o, k) /\ IsTrue(k, Made(effects', c))
      BY <2>1, <2>12, <2>13, <2>14
    <2>. QED
      BY <1>1, <1>4, <1>5, <2>3, <2>4, <2>8, <2>9, <2>10, <2>11, <2>13, <2>15, ConcludeKeeps
  <1>8. CASE ~("contract" \notin keys[c] /\ accepted)
    <2>1. messages' = messages /\ effects' = effects /\ Conclude(th, "rejected", "recovery_note")
      BY <1>1, <1>8 DEF Contract
    <2>2. EffectOf(c) /\ IsTrue("recovery_note", Made(effects', c))
      BY <2>1 DEF EffectOf, IsTrue
    <2>3. PICK o \in Outcomes : o = "rejected"
      BY <1>6
    <2>4. PICK k \in Notes : k = "recovery_note"
      BY <1>6
    <2>5. Conclude(th, o, k) /\ IsTrue(k, Made(effects', c))
      BY <2>1, <2>2, <2>3, <2>4
    <2>. QED
      BY <1>1, <1>2, <1>4, <1>5, <2>1, <2>2, <2>3, <2>5, ConcludeKeeps
  <1>. QED
    BY <1>7, <1>8

\* What an action of a route may rely on.
LEMMA ActingFits ==
    ASSUME RouterInv, NEW th \in InputThreads, NEW target, Acting(th, target)
    PROVE  /\ inputJob[th].phase = "act" /\ inputJob[th].plan.target = target
           /\ inputJob[th].plan \in Proposals
           /\ target \in Mutating => inputJob[th].plan.confidence # "low"
           /\ inputJob[th].plan.draft \in DraftsOf(target)
           /\ target = "resolve_ask" => inputJob[th].ask # NoId
           /\ inputJob[th].cmd \in Commands /\ inputJob[th].ask \in Asks \cup {NoId}
           /\ inputJob[th].sel \in InputTasks \cup {NoId}
  <1>1. inputJob[th] \in InputRow /\ InputFits(inputJob[th], effects)
    BY RouterParts
  <1>. QED
    BY <1>1 DEF Acting, InputFits, InputRow

\* Guidance goes to the contract service.
LEMMA RecordGuidanceKeeps ==
    ASSUME RouterInv, NEW th \in InputThreads, RecordGuidance(th)
    PROVE  RouterInv'
  <1>1. Acting(th, "record_guidance")
    BY DEF RecordGuidance
  <1>2. PICK ok \in BOOLEAN : Contract(th, "guidance", NoId, ok, "guidance_recorded")
    BY DEF RecordGuidance
  <1>3. UNCHANGED <<asks, conf, inputTask, inputSends, answers, replies, inputCrashes>>
    BY DEF RecordGuidance
  <1>4. PICK e : e = [what |-> "guidance", id |-> NoId, plan |-> inputJob[th].plan]
    OBVIOUS
  <1>5. Authorised(e)
    BY <1>1, <1>4, ActingFits DEF Authorised, Mutating
  <1>6. "guidance" \in Deeds /\ NoId \in Ids /\ "guidance_recorded" \in Notes \cup Told
    BY DEF Deeds, Ids, Told
  <1>7. IsTrue("guidance_recorded", {"guidance"}) /\ inputJob[th].phase = "act" /\ SharedOK
    BY <1>1, <1>3, SharedStays DEF IsTrue, Acting
  <1>. QED
    BY <1>2, <1>3, <1>4, <1>5, <1>6, <1>7, ContractKeeps

\* A task of the user goes to the contract service.
LEMMA CreateExecutionTaskKeeps ==
    ASSUME RouterInv, NEW th \in InputThreads, CreateExecutionTask(th)
    PROVE  RouterInv'
  <1>1. Acting(th, "execution_handoff") /\ inputJob[th].plan.draft = "task"
    BY DEF CreateExecutionTask
  <1>2. PICK ok \in BOOLEAN : Contract(th, "task", NoId, ok, "task_created")
    BY DEF CreateExecutionTask
  <1>3. UNCHANGED <<asks, conf, inputTask, inputSends, answers, replies, inputCrashes>>
    BY DEF CreateExecutionTask
  <1>4. PICK e : e = [what |-> "task", id |-> NoId, plan |-> inputJob[th].plan]
    OBVIOUS
  <1>5. Authorised(e)
    BY <1>1, <1>4, ActingFits DEF Authorised, Mutating
  <1>6. "task" \in Deeds /\ NoId \in Ids /\ "task_created" \in Notes \cup Told
    BY DEF Deeds, Ids, Notes
  <1>7. IsTrue("task_created", {"task"}) /\ inputJob[th].phase = "act" /\ SharedOK
    BY <1>1, <1>3, SharedStays DEF IsTrue, Acting
  <1>. QED
    BY <1>2, <1>3, <1>4, <1>5, <1>6, <1>7, ContractKeeps

\* A task that the execution plane takes, once per command.
LEMMA CreateWechatSendKeeps ==
    ASSUME RouterInv, NEW th \in InputThreads, CreateWechatSend(th)
    PROVE  RouterInv'
  <1>1. Acting(th, "execution_handoff") /\ inputJob[th].plan.draft = "wechat"
    BY DEF CreateWechatSend
  <1>2. PICK c \in Commands : c = inputJob[th].cmd
    BY <1>1, ActingFits
  <1>3. UNCHANGED <<asks, conf, inputTask, inputSends, answers, messages, replies, inputCrashes>>
    BY DEF CreateWechatSend
  <1>4. /\ RouterTypeOK /\ keys \in [Commands -> SUBSET {"contract", "plane"}]
        /\ messages' \subseteq MessageRow /\ inputJob[th].phase = "act" /\ SharedOK
    BY <1>1, <1>3, SharedStays DEF RouterInv, RouterTypeOK, Acting
  <1>5. "plane" \in keys[c] => "wechat" \in Made(effects, c)
    BY DEF RouterInv, PlaneBacked
  <1>6. PICK o \in Outcomes : o = "dispatched"
    BY DEF Outcomes
  <1>7. PICK k \in Notes : k = "task_created"
    BY DEF Notes
  <1>8. ASSUME "plane" \notin keys[c], Recorded(c, "plane"),
               Effect(c, "wechat", NoId, inputJob[th].plan),
               Conclude(th, "dispatched", "task_created")
        PROVE  RouterInv'
    <2>1. PICK e : e = [what |-> "wechat", id |-> NoId, plan |-> inputJob[th].plan]
      OBVIOUS
    <2>2. Authorised(e)
      BY <1>1, <2>1, ActingFits DEF Authorised, Mutating
    <2>3. e \in EffectRow
      BY <1>1, <2>1, ActingFits DEF EffectRow, Deeds, Ids
    <2>4. effects' = [effects EXCEPT ![c] = Append(@, e)]
      BY <1>8, <2>1 DEF Effect
    <2>5. EffectOf(c)
      BY <2>2, <2>3, <2>4 DEF EffectOf
    <2>6. e.what \in Made(effects', c)
      BY <1>4, <2>3, <2>4, EffectAppended
    <2>7. "wechat" \in Made(effects', c)
      BY <2>1, <2>6
    <2>8. keys' = [keys EXCEPT ![c] = @ \cup {"plane"}]
      BY <1>8 DEF Recorded
    <2>9. /\ keys' \in [Commands -> SUBSET {"contract", "plane"}]
          /\ \A d \in Commands : d # c => keys'[d] = keys[d]
      BY <1>4, <2>8
    <2>10. Conclude(th, o, k) /\ IsTrue(k, Made(effects', c))
      BY <1>6, <1>7, <1>8, <2>7 DEF IsTrue
    <2>. QED
      BY <1>2, <1>3, <1>4, <1>6, <1>7, <2>5, <2>7, <2>9, <2>10, ConcludeKeeps
  <1>9. ASSUME "plane" \in keys[c], Conclude(th, "dispatched", "task_created"),
               UNCHANGED <<keys, effects>>
        PROVE  RouterInv'
    <2>1. EffectOf(c) /\ Conclude(th, o, k) /\ IsTrue(k, Made(effects', c))
      BY <1>5, <1>6, <1>7, <1>9 DEF IsTrue, EffectOf
    <2>. QED
      BY <1>2, <1>3, <1>4, <1>5, <1>6, <1>7, <1>9, <2>1, ConcludeKeeps
  <1>10. ASSUME Conclude(th, "rejected", "recovery_note"), UNCHANGED <<keys, effects>>
         PROVE  RouterInv'
    <2>1. "rejected" \in Outcomes /\ "recovery_note" \in Notes
      BY DEF Outcomes, Notes
    <2>2. UNCHANGED <<world, inputSends, inputCrashes, replies, messages>>
      BY <1>3, <1>10 DEF world
    <2>. QED
      BY <1>4, <1>10, <2>1, <2>2, RefuseKeeps
  <1>. QED
    BY <1>2, <1>8, <1>9, <1>10 DEF CreateWechatSend

\* One more answer to a pending ASK, which settles it.
LEMMA AskSettled ==
    ASSUME RouterInv, NEW a \in Asks, asks[a] = "pending",
           asks' = [asks EXCEPT ![a] = "settled"], answers' = [answers EXCEPT ![a] = @ + 1],
           UNCHANGED <<conf, inputTask>>
    PROVE  SharedOK
  <1>1. /\ asks \in [Asks -> {"absent", "pending", "settled"}] /\ answers \in [Asks -> Nat]
        /\ conf \in {"absent", "pending", "resolved"}
        /\ inputTask \in [InputTasks -> {"pending", "running", "failed"}]
        /\ \A b \in Asks : answers[b] <= 1 /\ (asks[b] # "settled" => answers[b] = 0)
    BY DEF RouterInv, RouterTypeOK, AnswersInv
  <1>2. answers[a] = 0
    BY <1>1
  <1>3. answers' = [answers EXCEPT ![a] = 1]
    BY <1>1, <1>2
  <1>4. \A b \in Asks : answers'[b] <= 1 /\ (asks'[b] # "settled" => answers'[b] = 0)
    BY <1>1, <1>3
  <1>5. answers' \in [Asks -> Nat]
    BY <1>1, <1>3
  <1>6. asks' \in [Asks -> {"absent", "pending", "settled"}]
    BY <1>1
  <1>. QED
    BY <1>1, <1>4, <1>5, <1>6 DEF SharedOK, AnswersInv

\* An answer goes to the ASK found before planning, if it is still pending.
LEMMA AnswerAskKeeps ==
    ASSUME RouterInv, NEW th \in InputThreads, AnswerAsk(th)
    PROVE  RouterInv'
  <1>1. /\ Acting(th, "resolve_ask")
        /\ UNCHANGED <<conf, inputTask, inputSends, replies, inputCrashes>>
    BY DEF AnswerAsk
  <1>2. PICK a \in Asks : a = inputJob[th].ask
    BY <1>1, ActingFits
  <1>3. inputJob[th].phase = "act" /\ inputJob[th].plan.draft = "ask" /\ inputJob[th].cmd \in Commands
    BY <1>1, ActingFits DEF DraftsOf
  <1>4. CASE inputJob[th].plan.id \in {NoId, a}
    <2>1. PICK ok : ok = ("contract" \notin keys[inputJob[th].cmd] /\ asks[a] = "pending")
      OBVIOUS
    <2>2. /\ Contract(th, "ask", a, asks[a] = "pending", "ask_answered")
          /\ asks' = IF ok THEN [asks EXCEPT ![a] = "settled"] ELSE asks
          /\ answers' = IF ok THEN [answers EXCEPT ![a] = @ + 1] ELSE answers
      BY <1>2, <1>4, <2>1 DEF AnswerAsk
    <2>3. SharedOK
      <3>1. CASE ok
        <4>1. /\ asks[a] = "pending" /\ asks' = [asks EXCEPT ![a] = "settled"]
              /\ answers' = [answers EXCEPT ![a] = @ + 1]
          BY <2>1, <2>2, <3>1
        <4>. QED
          BY <1>1, <4>1, AskSettled
      <3>2. CASE ~ok
        <4>1. asks' = asks /\ answers' = answers
          BY <2>2, <3>2
        <4>. QED
          BY <1>1, <4>1, SharedStays
      <3>. QED
        BY <3>1, <3>2
    <2>4. PICK e : e = [what |-> "ask", id |-> a, plan |-> inputJob[th].plan]
      OBVIOUS
    <2>5. Authorised(e)
      BY <1>1, <1>3, <1>4, <2>4, ActingFits DEF Authorised, Mutating
    <2>6. "ask" \in Deeds /\ a \in Ids /\ "ask_answered" \in Notes \cup Told
      BY DEF Deeds, Ids, Told
    <2>7. IsTrue("ask_answered", {"ask"})
      BY DEF IsTrue
    <2>8. PICK accepted : accepted = (asks[a] = "pending")
      OBVIOUS
    <2>9. Contract(th, "ask", a, accepted, "ask_answered")
      BY <2>2, <2>8
    <2>. QED
      BY <1>1, <1>3, <2>3, <2>4, <2>5, <2>6, <2>7, <2>9, ContractKeeps
  <1>5. CASE inputJob[th].plan.id \notin {NoId, a}
    <2>1. /\ Conclude(th, "unsupported", "router_interpretation")
          /\ UNCHANGED <<asks, effects, keys, answers, messages>>
      BY <1>2, <1>5 DEF AnswerAsk, Unsupported
    <2>2. "unsupported" \in Outcomes /\ "router_interpretation" \in Notes
      BY DEF Outcomes, Notes
    <2>3. UNCHANGED <<world, inputSends, inputCrashes, replies, messages>>
      BY <1>1, <2>1 DEF world
    <2>. QED
      BY <1>3, <2>1, <2>2, <2>3, RefuseKeeps
  <1>. QED
    BY <1>4, <1>5

\* A confirmation is resolved if it is still pending.
LEMMA ResolveConfirmationKeeps ==
    ASSUME RouterInv, NEW th \in InputThreads, ResolveConfirmation(th)
    PROVE  RouterInv'
  <1>1. /\ Acting(th, "resolve_confirmation")
        /\ UNCHANGED <<asks, inputTask, inputSends, answers, replies, inputCrashes>>
    BY DEF ResolveConfirmation
  <1>2. /\ Contract(th, "confirmation", Confirmation, conf = "pending", "confirmation_resolved")
        /\ conf' = "resolved" \/ conf' = conf
    BY DEF ResolveConfirmation
  <1>3. SharedOK
    BY <1>1, <1>2 DEF RouterInv, RouterTypeOK, AnswersInv, SharedOK
  <1>4. inputJob[th].phase = "act" /\ inputJob[th].plan.draft = "confirmation"
    BY <1>1, ActingFits DEF DraftsOf
  <1>5. PICK e : e = [what |-> "confirmation", id |-> Confirmation, plan |-> inputJob[th].plan]
    OBVIOUS
  <1>6. Authorised(e)
    BY <1>1, <1>4, <1>5, ActingFits DEF Authorised, Mutating
  <1>7. "confirmation" \in Deeds /\ Confirmation \in Ids /\ "confirmation_resolved" \in Notes \cup Told
    BY DEF Deeds, Ids, Told
  <1>8. IsTrue("confirmation_resolved", {"confirmation"})
    BY DEF IsTrue
  <1>9. PICK accepted : accepted = (conf = "pending")
    OBVIOUS
  <1>10. Contract(th, "confirmation", Confirmation, accepted, "confirmation_resolved")
    BY <1>2, <1>9
  <1>. QED
    BY <1>1, <1>3, <1>4, <1>5, <1>6, <1>7, <1>8, <1>10, ContractKeeps

\* A stop or a retry of the selected task.
LEMMA TaskCommandKeeps ==
    ASSUME RouterInv, NEW th \in InputThreads, TaskCommand(th)
    PROVE  RouterInv'
  <1>1. /\ Acting(th, "existing_command")
        /\ UNCHANGED <<asks, conf, inputSends, keys, answers, messages, replies, inputCrashes>>
    BY DEF TaskCommand
  <1>2. PICK c \in Commands : c = inputJob[th].cmd
    BY <1>1, ActingFits
  <1>3. /\ inputJob[th].phase = "act" /\ inputJob[th].plan.draft \in {"stop", "retry"}
        /\ inputJob[th].plan \in Proposals
    BY <1>1, ActingFits DEF DraftsOf
  <1>4. PICK t \in InputTasks \cup {NoId} : t = inputJob[th].sel
    BY <1>1, ActingFits
  <1>5. PICK k \in Notes : k = "router_interpretation"
    BY DEF Notes
  <1>6. {"dispatched", "needs_clarification", "rejected"} \subseteq Outcomes
    BY DEF Outcomes
  <1>7. ASSUME NEW o \in {"needs_clarification", "rejected"}, Conclude(th, o, k),
               UNCHANGED <<inputTask, effects>>
        PROVE  RouterInv'
    <2>1. UNCHANGED <<world, inputSends, inputCrashes, replies, messages>>
      BY <1>1, <1>7 DEF world
    <2>2. o \in Outcomes /\ o # "dispatched"
      BY <1>6
    <2>. QED
      BY <1>3, <1>5, <1>7, <2>1, <2>2, RefuseKeeps
  <1>8. ASSUME t # NoId, Conclude(th, "dispatched", k),
               Effect(c, inputJob[th].plan.draft, t, inputJob[th].plan),
               \/ inputTask' = inputTask
               \/ inputTask' = [inputTask EXCEPT ![t] = "pending"]
        PROVE  RouterInv'
    <2>1. PICK what \in Deeds : what = inputJob[th].plan.draft
      BY <1>3 DEF Deeds
    <2>2. PICK e : e = [what |-> what, id |-> t, plan |-> inputJob[th].plan]
      OBVIOUS
    <2>3. Authorised(e)
      BY <1>1, <1>3, <2>1, <2>2, ActingFits DEF Authorised, Mutating
    <2>4. t \in Ids
      BY DEF Ids
    <2>5. e \in EffectRow
      BY <1>3, <2>2, <2>4 DEF EffectRow
    <2>6. EffectOf(c)
      BY <1>8, <2>1, <2>2, <2>3, <2>5 DEF EffectOf, Effect
    <2>7. effects' = [effects EXCEPT ![c] = Append(@, e)] /\ RouterTypeOK
      BY <1>8, <2>1, <2>2 DEF Effect, RouterInv
    <2>8. Made(effects, c) \subseteq Made(effects', c)
      BY <2>5, <2>7, EffectAppended
    <2>9. SharedOK
      BY <1>1, <1>8 DEF RouterInv, RouterTypeOK, AnswersInv, SharedOK
    <2>10. "plane" \in keys'[c] => "wechat" \in Made(effects', c)
      BY <1>1, <2>8 DEF RouterInv, PlaneBacked
    <2>11. IsTrue(k, Made(effects', c))
      BY <1>5 DEF IsTrue
    <2>12. /\ keys' \in [Commands -> SUBSET {"contract", "plane"}] /\ messages' \subseteq MessageRow
      BY <1>1, <2>7 DEF RouterTypeOK
    <2>13. PICK o \in Outcomes : o = "dispatched"
      BY <1>6
    <2>14. Conclude(th, o, k)
      BY <1>8, <2>13
    <2>. QED
      BY <1>1, <1>2, <1>3, <1>5, <2>6, <2>9, <2>10, <2>11, <2>12, <2>13, <2>14, ConcludeKeeps
  <1>. QED
    BY <1>2, <1>4, <1>5, <1>7, <1>8 DEF TaskCommand

\* An inquiry only reads.
LEMMA AnswerInquiryKeeps ==
    ASSUME RouterInv, NEW th \in InputThreads, AnswerInquiry(th)
    PROVE  RouterInv'
  <1>1. /\ inputJob[th].phase = "act"
        /\ UNCHANGED <<world, inputSends, inputCrashes, replies, messages>>
    BY DEF AnswerInquiry, Acting
  <1>2. PICK o \in Outcomes \ {"dispatched"} :
          Conclude(th, o, IF o = "answered" THEN "answer" ELSE "router_interpretation")
    BY DEF AnswerInquiry
  <1>3. PICK k : k = IF o = "answered" THEN "answer" ELSE "router_interpretation"
    OBVIOUS
  <1>4. Conclude(th, o, k) /\ k \in Notes /\ k \in {"recovery_note", "router_interpretation", "answer"}
    BY <1>2, <1>3 DEF Notes
  <1>. QED
    BY <1>1, <1>2, <1>4, RefuseKeeps

\* Without a route nothing is done.
LEMMA GiveUpKeeps ==
    ASSUME RouterInv, NEW th \in InputThreads, GiveUp(th)
    PROVE  RouterInv'
  <1>1. /\ inputJob[th].phase = "act"
        /\ UNCHANGED <<world, inputSends, inputCrashes, replies, messages>>
    BY DEF GiveUp
  <1>2. PICK o \in {"needs_clarification", "unsupported"} :
          Conclude(th, o, "router_interpretation")
    BY DEF GiveUp, Unsupported
  <1>3. o \in Outcomes /\ o # "dispatched" /\ "router_interpretation" \in Notes
    BY <1>2 DEF Outcomes, Notes
  <1>. QED
    BY <1>1, <1>2, <1>3, RefuseKeeps
-----------------------------------------------------------------------------
(* What the user sees.                                                      *)

\* The conversation is written, and nothing of it claims a success.
LEMMA PublishConversationKeeps ==
    ASSUME RouterInv, NEW th \in InputThreads, PublishConversation(th)
    PROVE  RouterInv'
  <1>1. /\ RouterTypeOK /\ inputJob[th] \in InputRow /\ InputFits(inputJob[th], effects)
        /\ inputJob \in [InputThreads -> InputRow] /\ inputJob[th].phase = "talk"
        /\ UNCHANGED <<asks, conf, inputTask, effects, keys, answers>>
        /\ UNCHANGED <<inputSends, replies, inputCrashes>>
    BY RouterParts DEF RouterTypeOK, PublishConversation, world
  <1>2. PICK j \in InputRow : j = inputJob[th]
    BY <1>1
  <1>3. PICK c \in Commands : c = j.cmd
    BY <1>1, <1>2 DEF InputFits
  <1>4. PICK x : x = [j EXCEPT !.phase = "note"]
    OBVIOUS
  <1>5. inputJob' = [inputJob EXCEPT ![th] = x]
    BY <1>1, <1>2, <1>4 DEF PublishConversation
  <1>6. x \in InputRow /\ x.phase = "note" /\ x.cmd = c /\ x.outcome = j.outcome /\ x.kind = j.kind
    BY <1>3, <1>4, NotedShape
  <1>7. PICK new \in SUBSET Slots :
          messages' = messages \cup
            {[cmd |-> c, slot |-> s, kind |-> "none", outcome |-> j.outcome] : s \in new}
    <2>1. ConversationSlots(j.outcome) \subseteq Slots
      BY DEF ConversationSlots, Slots
    <2>2. PICK new : new = {s \in ConversationSlots(j.outcome) :
                              ~\E m \in messages : m.cmd = c /\ m.slot = s}
      OBVIOUS
    <2>3. new \in SUBSET Slots
      BY <2>1, <2>2
    <2>4. messages' = messages \cup
            {[cmd |-> c, slot |-> s, kind |-> "none", outcome |-> j.outcome] : s \in new}
      BY <1>2, <1>3, <2>2 DEF PublishConversation
    <2>. QED
      BY <2>3, <2>4
  <1>8. ASSUME NEW m \in messages', m \notin messages
        PROVE  m \in MessageRow /\ m.cmd = c /\ m.slot \in Slots /\ m.kind = "none"
    <2>1. PICK s \in new : m = [cmd |-> c, slot |-> s, kind |-> "none", outcome |-> j.outcome]
      BY <1>7, <1>8
    <2>2. s \in Slots /\ j.outcome \in Outcomes /\ "none" \in Notes
      BY <1>2, <1>7 DEF InputRow, Notes
    <2>. QED
      BY <2>1, <2>2 DEF MessageRow
  <1>9. messages \subseteq messages' /\ messages' \subseteq MessageRow
    BY <1>1, <1>7, <1>8 DEF RouterTypeOK
  <1>10. StepOf(th, c, x)
    BY <1>1, <1>2, <1>3, <1>5, <1>6, <1>8, <1>9 DEF StepOf, RouterTypeOK
  <1>11. EffectOf(c) /\ SharedOK
    BY <1>1, SharedStays DEF EffectOf
  <1>12. "plane" \in keys'[c] => "wechat" \in Made(effects', c)
    BY <1>1 DEF RouterInv, PlaneBacked
  <1>13. InputFits(x, effects')
    BY <1>1, <1>2, <1>3, <1>6 DEF InputFits
  <1>14. \A m \in messages' : m \notin messages => IsTrue(m.kind, Made(effects', c))
    BY <1>8 DEF IsTrue
  <1>15. ASSUME SentOnce(c)
         PROVE  /\ Len(effects'[c]) <= 1
                /\ OnceFits(x, effects', keys', messages', replies')
    <2>1. OnceFits(j, effects, keys, messages, replies) /\ Len(effects[c]) <= 1
      BY <1>1, <1>2, <1>3, <1>15, OnlyRequest
    <2>2. Announced(c, messages) => Announced(c, messages')
      BY <1>9 DEF Announced
    <2>3. \A m \in messages' : m.cmd = c => m.slot \in Slots
      BY <1>1, <1>2, <1>3, <1>8, <2>1 DEF OnceFits
    <2>4. OnceFits(x, effects', keys', messages', replies')
      BY <1>1, <1>2, <1>3, <1>6, <2>1, <2>2, <2>3 DEF OnceFits
    <2>. QED
      BY <1>1, <2>1, <2>4
  <1>16. \A r \in replies' : r \notin replies => Truthful(r, messages')
    BY <1>1
  <1>. QED
    BY <1>6, <1>10, <1>11, <1>12, <1>13, <1>14, <1>15, <1>16, ServeStep

\* The activity and the reply tell what the request did.
LEMMA PublishActivityKeeps ==
    ASSUME RouterInv, NEW th \in InputThreads, PublishActivity(th)
    PROVE  RouterInv'
  <1>1. /\ RouterTypeOK /\ inputJob[th] \in InputRow /\ InputFits(inputJob[th], effects)
        /\ inputJob[th].phase = "note"
        /\ UNCHANGED <<asks, conf, inputTask, effects, keys, answers>>
        /\ UNCHANGED <<inputSends, inputCrashes>>
    BY RouterParts DEF PublishActivity, world
  <1>2. PICK j \in InputRow : j = inputJob[th]
    BY <1>1
  <1>3. PICK c \in Commands : c = j.cmd
    BY <1>1, <1>2 DEF InputFits
  <1>4. PICK x : x = NoInput
    OBVIOUS
  <1>5. inputJob' = [inputJob EXCEPT ![th] = x] /\ x \in InputRow /\ x.phase = "idle"
    BY <1>4, NoInputShape DEF PublishActivity
  <1>6. PICK o \in Outcomes : o = j.outcome
    BY <1>2 DEF InputRow
  <1>7. PICK k \in Notes : k = j.kind
    BY <1>2 DEF InputRow
  <1>8. PICK n \in Nat : n = Len(effects[c])
    <2>1. effects[c] \in Seq(EffectRow)
      BY <1>1 DEF RouterTypeOK
    <2>. QED
      BY <2>1, LenProperties
  <1>9. PICK r : r = [cmd |-> c, outcome |-> o, made |-> n]
    OBVIOUS
  <1>10. replies' = replies \cup {r}
    BY <1>2, <1>3, <1>6, <1>8, <1>9 DEF PublishActivity, Reply
  <1>11. PICK new : new = [cmd |-> c, slot |-> k, kind |-> k, outcome |-> o]
    OBVIOUS
  <1>12. /\ messages \subseteq messages' /\ messages' \subseteq messages \cup {new}
         /\ k # "none" /\ (\A m \in messages : m.cmd = c => m.slot # k) => new \in messages'
    BY <1>2, <1>3, <1>6, <1>7, <1>11 DEF PublishActivity, Post
  <1>13. r \in ReplyRow /\ r.cmd = c /\ new \in MessageRow /\ new.cmd = c /\ new.kind = k
    BY <1>9, <1>11 DEF ReplyRow, MessageRow
  <1>14. messages' \subseteq MessageRow /\ replies' \subseteq ReplyRow
    BY <1>1, <1>10, <1>12, <1>13 DEF RouterTypeOK
  <1>15. StepOf(th, c, x)
    BY <1>1, <1>2, <1>3, <1>5, <1>10, <1>12, <1>13, <1>14 DEF StepOf, RouterTypeOK
  <1>16. EffectOf(c) /\ SharedOK
    BY <1>1, SharedStays DEF EffectOf
  <1>17. "plane" \in keys'[c] => "wechat" \in Made(effects', c)
    BY <1>1 DEF RouterInv, PlaneBacked
  <1>18. InputFits(x, effects')
    BY <1>5 DEF InputFits
  <1>19. IsTrue(k, Made(effects', c))
    BY <1>1, <1>2, <1>3, <1>7 DEF InputFits
  <1>20. \A m \in messages' : m \notin messages => IsTrue(m.kind, Made(effects', c))
    BY <1>12, <1>13, <1>19
  <1>21. ASSUME SentOnce(c)
         PROVE  Len(effects'[c]) <= 1 /\ Truthful(r, messages')
    <2>1. OnceFits(j, effects, keys, messages, replies) /\ Len(effects[c]) <= 1
      BY <1>1, <1>2, <1>3, <1>21, OnlyRequest
    <2>2. /\ \A m \in messages : m.cmd = c => m.slot \in Slots
          /\ o # "dispatched" => effects[c] = <<>>
          /\ o = "dispatched" /\ k = "none" => Announced(c, messages)
      BY <1>1, <1>2, <1>3, <1>6, <1>7, <2>1 DEF OnceFits
    <2>3. CASE o # "dispatched"
      <3>1. n = 0
        BY <1>8, <2>2, <2>3
      <3>. QED
        BY <1>1, <1>9, <2>1, <2>3, <3>1 DEF Truthful
    <2>4. CASE o = "dispatched" /\ k = "none"
      <3>1. Announced(c, messages')
        BY <1>12, <2>2, <2>4 DEF Announced
      <3>. QED
        BY <1>1, <1>9, <2>1, <2>4, <3>1 DEF Truthful
    <2>5. CASE o = "dispatched" /\ k # "none"
      <3>1. k \notin Slots
        BY <1>7, <2>5 DEF Notes, Slots
      <3>2. new \in messages'
        BY <1>12, <2>2, <2>5, <3>1
      <3>3. Announced(c, messages')
        BY <1>11, <2>5, <3>2 DEF Announced
      <3>. QED
        BY <1>1, <1>9, <2>1, <2>5, <3>3 DEF Truthful
    <2>. QED
      BY <2>3, <2>4, <2>5
  <1>22. \A q \in replies' : q \notin replies => q = r
    BY <1>10
  <1>. QED
    BY <1>5, <1>15, <1>16, <1>17, <1>18, <1>20, <1>21, <1>22, ServeStep
-----------------------------------------------------------------------------
(* The other steps.                                                         *)

\* What holds for a command that was sent once, of the state given.
LEMMA ServedParts ==
    ASSUME RouterInv, NEW d \in Commands, SentOnce(d)
    PROVE  /\ Len(effects[d]) <= 1
           /\ inputSends[d] = 0 => Unsent(d)
           /\ \A t, u \in InputThreads : Busy(t, d) /\ Busy(u, d) => t = u
           /\ \A t \in InputThreads :
                Busy(t, d) => OnceFits(inputJob[t], effects, keys, messages, replies)
           /\ \A r \in replies : r.cmd = d => Truthful(r, messages)
  BY DEF RouterInv, OnceServedInv

\* A request that arrives is the only one of its command, or its command was
\* sent before.
LEMMA ReceiveKeeps ==
    ASSUME RouterInv, NEW th \in InputThreads, Receive(th)
    PROVE  RouterInv'
  <1>1. PICK c \in Commands, m \in Modes, sel \in InputTasks \cup {NoId}, seen \in Asks \cup {NoId} :
          /\ inputSends' = [inputSends EXCEPT ![c] = @ + 1]
          /\ inputJob' = [inputJob EXCEPT ![th] = Received(c, m, sel, seen)]
    BY DEF Receive
  <1>2. /\ inputJob[th].phase = "idle"
        /\ UNCHANGED <<asks, conf, inputTask, effects, keys, answers, messages, replies, inputCrashes>>
    BY DEF Receive, world
  <1>3. PICK x : x = Received(c, m, sel, seen)
    OBVIOUS
  <1>4. x \in InputRow /\ x.phase = "read" /\ x.cmd = c /\ x.calls = 0
    BY <1>1, <1>3, ReceivedShape
  <1>5. /\ RouterTypeOK /\ inputJob \in [InputThreads -> InputRow] /\ inputSends \in [Commands -> Nat]
    BY DEF RouterInv, RouterTypeOK
  <1>6. /\ inputJob'[th] = x /\ \A u \in InputThreads : u # th => inputJob'[u] = inputJob[u]
        /\ inputJob' \in [InputThreads -> InputRow]
    BY <1>1, <1>3, <1>4, <1>5
  <1>7. /\ inputSends' \in [Commands -> Nat] /\ inputSends'[c] = inputSends[c] + 1
        /\ \A d \in Commands : d # c => inputSends'[d] = inputSends[d]
    BY <1>1, <1>5
  <1>8. RouterTypeOK'
    BY <1>2, <1>5, <1>6, <1>7 DEF RouterTypeOK
  <1>9. AnswersInv' /\ EffectAuthorised' /\ ActivityAfterSuccess' /\ PlaneBacked'
    BY <1>2 DEF RouterInv, AnswersInv, EffectAuthorised, ActivityAfterSuccess, PlaneBacked, Made
  <1>10. ASSUME NEW u \in InputThreads PROVE InputFits(inputJob'[u], effects')
    <2>1. CASE u = th
      <3>1. InputFits(x, effects')
        BY <1>1, <1>4, RouterAssumption DEF InputFits
      <3>. QED
        BY <1>6, <2>1, <3>1
    <2>2. CASE u # th
      BY <1>2, <1>6, <2>2 DEF RouterInv
    <2>. QED
      BY <2>1, <2>2
  <1>11. \A u \in InputThreads, d \in Commands : Busy(u, d)' =>
           (u = th /\ d = c) \/ (u # th /\ Busy(u, d))
    BY <1>4, <1>6 DEF Busy
  <1>12. ASSUME NEW d \in Commands, SentOnce(d)'
         PROVE  /\ Len(effects'[d]) <= 1
                /\ inputSends'[d] = 0 => Unsent(d)'
                /\ \A t, u \in InputThreads : Busy(t, d)' /\ Busy(u, d)' => t = u
                /\ \A t \in InputThreads :
                     Busy(t, d)' => OnceFits(inputJob'[t], effects', keys', messages', replies')
                /\ \A r \in replies' : r.cmd = d => Truthful(r, messages')
    <2>1. CASE d = c
      <3>1. inputSends[c] \in Nat /\ inputSends'[c] <= 1 /\ inputCrashes = 0
        BY <1>2, <1>5, <1>12, <2>1 DEF SentOnce
      <3>2. inputSends[c] = 0 /\ SentOnce(c) /\ inputSends'[c] # 0
        BY <1>7, <3>1 DEF SentOnce
      <3>3. Unsent(c) /\ Len(effects[c]) <= 1
        BY <3>2, ServedParts
      <3>4. OnceFits(x, effects, keys, messages, replies)
        BY <1>4, <3>3 DEF OnceFits, Unsent
      <3>5. \A u \in InputThreads : Busy(u, c)' => u = th
        BY <1>11, <3>3 DEF Unsent
      <3>6. \A r \in replies' : r.cmd # c
        BY <1>2, <3>3 DEF Unsent
      <3>. QED
        BY <1>2, <1>6, <2>1, <3>2, <3>3, <3>4, <3>5, <3>6
    <2>2. CASE d # c
      <3>1. SentOnce(d) /\ inputSends'[d] = inputSends[d]
        BY <1>2, <1>7, <1>12, <2>2 DEF SentOnce
      <3>2. \A u \in InputThreads : Busy(u, d)' => u # th /\ Busy(u, d)
        BY <1>11, <2>2
      <3>3. Unsent(d) => Unsent(d)'
        BY <1>2, <3>2 DEF Unsent
      <3>4. \A u \in InputThreads : Busy(u, d)' =>
               OnceFits(inputJob'[u], effects', keys', messages', replies')
        BY <1>2, <1>6, <3>1, <3>2, ServedParts
      <3>. QED
        BY <1>2, <3>1, <3>2, <3>3, <3>4, ServedParts
    <2>. QED
      BY <2>1, <2>2
  <1>13. OnceServedInv'
    BY <1>12 DEF OnceServedInv
  <1>. QED
    BY <1>8, <1>9, <1>10, <1>13 DEF RouterInv

\* A step of the rest of the system leaves the requests alone.
LEMMA WorldMoves ==
    ASSUME RouterInv, SharedOK,
           UNCHANGED <<inputJob, inputSends, effects, keys, messages, replies, inputCrashes>>
    PROVE  RouterInv'
  <1>1. RouterTypeOK'
    BY DEF RouterInv, RouterTypeOK, SharedOK
  <1>2. EffectAuthorised' /\ ActivityAfterSuccess' /\ PlaneBacked'
    BY DEF RouterInv, EffectAuthorised, ActivityAfterSuccess, PlaneBacked, Made
  <1>3. \A u \in InputThreads : InputFits(inputJob'[u], effects')
    BY DEF RouterInv
  <1>4. ASSUME NEW d \in Commands, SentOnce(d)'
        PROVE  /\ Len(effects'[d]) <= 1
               /\ inputSends'[d] = 0 => Unsent(d)'
               /\ \A t, u \in InputThreads : Busy(t, d)' /\ Busy(u, d)' => t = u
               /\ \A t \in InputThreads :
                    Busy(t, d)' => OnceFits(inputJob'[t], effects', keys', messages', replies')
               /\ \A r \in replies' : r.cmd = d => Truthful(r, messages')
    <2>1. /\ SentOnce(d) /\ (Unsent(d) => Unsent(d)')
          /\ \A t \in InputThreads : Busy(t, d)' <=> Busy(t, d)
      BY <1>4 DEF SentOnce, Unsent, Busy
    <2>. QED
      BY <2>1, ServedParts
  <1>5. OnceServedInv'
    BY <1>4 DEF OnceServedInv
  <1>. QED
    BY <1>1, <1>2, <1>3, <1>5 DEF RouterInv, SharedOK

\* Agents and other clients move ASKs, confirmations and tasks.
LEMMA OthersKeep ==
    ASSUME RouterInv, RaiseAsk \/ AnswerElsewhere \/ MoveConfirmation \/ MoveTask
    PROVE  RouterInv'
  <1>1. /\ asks \in [Asks -> {"absent", "pending", "settled"}] /\ answers \in [Asks -> Nat]
        /\ conf \in {"absent", "pending", "resolved"}
        /\ inputTask \in [InputTasks -> {"pending", "running", "failed"}]
        /\ \A b \in Asks : answers[b] <= 1 /\ (asks[b] # "settled" => answers[b] = 0)
    BY DEF RouterInv, RouterTypeOK, AnswersInv
  <1>2. CASE RaiseAsk
    <2>1. PICK a \in Asks : asks[a] = "absent" /\ asks' = [asks EXCEPT ![a] = "pending"]
      BY <1>2 DEF RaiseAsk
    <2>2. UNCHANGED <<conf, inputTask, answers>>
      BY <1>2 DEF RaiseAsk
    <2>3. SharedOK
      BY <1>1, <2>1, <2>2 DEF SharedOK, AnswersInv
    <2>. QED
      BY <1>2, <2>3, WorldMoves DEF RaiseAsk
  <1>3. CASE AnswerElsewhere
    <2>1. PICK a \in Asks : /\ asks[a] = "pending" /\ asks' = [asks EXCEPT ![a] = "settled"]
                            /\ answers' = [answers EXCEPT ![a] = @ + 1]
      BY <1>3 DEF AnswerElsewhere
    <2>2. SharedOK
      BY <1>3, <2>1, AskSettled DEF AnswerElsewhere
    <2>. QED
      BY <1>3, <2>2, WorldMoves DEF AnswerElsewhere
  <1>4. CASE MoveConfirmation
    <2>1. SharedOK
      BY <1>1, <1>4 DEF MoveConfirmation, SharedOK, AnswersInv
    <2>. QED
      BY <1>4, <2>1, WorldMoves DEF MoveConfirmation
  <1>5. CASE MoveTask
    <2>1. SharedOK
      BY <1>1, <1>5 DEF MoveTask, SharedOK, AnswersInv
    <2>. QED
      BY <1>5, <2>1, WorldMoves DEF MoveTask
  <1>. QED
    BY <1>2, <1>3, <1>4, <1>5

\* A stop of the server drops the requests; what they did stays.
LEMMA ServerStopsKeeps ==
    ASSUME RouterInv, ServerStops
    PROVE  RouterInv'
  <1>1. /\ inputCrashes' = inputCrashes + 1 /\ inputCrashes \in Nat
        /\ inputJob' = [th \in InputThreads |-> NoInput]
        /\ UNCHANGED <<asks, conf, inputTask, effects, keys, answers, inputSends, messages, replies>>
    BY DEF ServerStops, world, RouterInv, RouterTypeOK
  <1>2. inputCrashes' \in Nat /\ inputCrashes' # 0
    BY <1>1
  <1>3. inputJob' \in [InputThreads -> InputRow]
    BY <1>1, NoInputShape
  <1>4. RouterTypeOK'
    BY <1>1, <1>2, <1>3 DEF RouterInv, RouterTypeOK
  <1>5. AnswersInv' /\ EffectAuthorised' /\ ActivityAfterSuccess' /\ PlaneBacked'
    BY <1>1 DEF RouterInv, AnswersInv, EffectAuthorised, ActivityAfterSuccess, PlaneBacked, Made
  <1>6. InputFits(NoInput, effects')
    BY NoInputShape DEF InputFits
  <1>7. \A u \in InputThreads : InputFits(inputJob'[u], effects')
    BY <1>1, <1>6
  <1>8. OnceServedInv'
    BY <1>2 DEF OnceServedInv, SentOnce
  <1>. QED
    BY <1>4, <1>5, <1>7, <1>8 DEF RouterInv

\* The router starts with nothing asked, done or told.
LEMMA RouterStarts ==
    ASSUME RouterInit
    PROVE  RouterInv
  <1>1. RouterTypeOK
    <2>1. \A c \in Commands : effects[c] = <<>>
      BY DEF RouterInit
    <2>2. effects \in [Commands -> Seq(EffectRow)]
      BY DEF RouterInit
    <2>3. inputJob \in [InputThreads -> InputRow]
      BY NoInputShape DEF RouterInit
    <2>. QED
      BY <2>2, <2>3 DEF RouterInit, RouterTypeOK
  <1>2. AnswersInv
    BY DEF RouterInit, AnswersInv
  <1>3. EffectAuthorised /\ ActivityAfterSuccess /\ PlaneBacked
    BY DEF RouterInit, EffectAuthorised, ActivityAfterSuccess, PlaneBacked
  <1>4. \A u \in InputThreads : InputFits(inputJob[u], effects)
    BY NoInputShape DEF RouterInit, InputFits
  <1>5. OnceServedInv
    <2>1. ASSUME NEW c \in Commands
          PROVE  /\ Len(effects[c]) <= 1 /\ Unsent(c)
                 /\ \A th \in InputThreads : ~Busy(th, c)
                 /\ \A r \in replies : r.cmd = c => Truthful(r, messages)
      BY NoInputShape DEF RouterInit, Unsent, Busy
    <2>. QED
      BY <2>1 DEF OnceServedInv
  <1>. QED
    BY <1>1, <1>2, <1>3, <1>4, <1>5 DEF RouterInv

\* Every step of the router keeps its invariant.
LEMMA RouterStep ==
    ASSUME RouterInv, [RouterNext]_routerVars
    PROVE  RouterInv'
  <1>1. CASE RouterNext
    <2>1. ASSUME NEW th \in InputThreads, Serve(th) PROVE RouterInv'
      BY <2>1, RouteKeeps, PlanKeeps, RecordGuidanceKeeps, CreateExecutionTaskKeeps,
         CreateWechatSendKeeps, AnswerAskKeeps, ResolveConfirmationKeeps, TaskCommandKeeps,
         AnswerInquiryKeeps, GiveUpKeeps, PublishConversationKeeps, PublishActivityKeeps
         DEF Serve
    <2>. QED
      BY <1>1, <2>1, ReceiveKeeps, OthersKeep, ServerStopsKeeps DEF RouterNext
  <1>2. CASE UNCHANGED routerVars
    <2>1. SharedOK
      BY <1>2, SharedStays DEF routerVars
    <2>. QED
      BY <1>2, <2>1, WorldMoves DEF routerVars
  <1>. QED
    BY <1>1, <1>2

\* Whatever the model proposes and however inputs overlap, are sent again or
\* are cut off by a stop of the server: an ASK is answered once, an effect
\* comes from a route the validator lets through, an activity that claims a
\* success has one behind it, and an input that was sent once and not cut off
\* has one effect at most and a reply that tells it truly.
THEOREM RouterIsSound == RouterSpec => []RouterSound
  <1>1. RouterInv => RouterSound
    <2>1. ASSUME RouterInv PROVE RouterSound
      <3>1. AskAnsweredOnce
        BY <2>1 DEF RouterInv, AnswersInv, AskAnsweredOnce
      <3>2. ServedOnce
        <4>1. ASSUME NEW c \in Commands, inputCrashes = 0, inputSends[c] <= 1
              PROVE  /\ Len(effects[c]) <= 1
                     /\ \A r \in replies : r.cmd = c => Truthful(r, messages)
          BY <2>1, <4>1, ServedParts DEF SentOnce
        <4>2. \A r \in replies : r.cmd \in Commands
          BY <2>1 DEF RouterInv, RouterTypeOK, ReplyRow
        <4>. QED
          BY <4>1, <4>2 DEF ServedOnce
      <3>. QED
        BY <2>1, <3>1, <3>2 DEF RouterInv, RouterSound
    <2>. QED
      BY <2>1
  <1>2. RouterInit => RouterInv
    BY RouterStarts
  <1>3. RouterInv /\ [RouterNext]_routerVars => RouterInv'
    BY RouterStep
  <1>. QED
    BY <1>1, <1>2, <1>3, PTL DEF RouterSpec
-----------------------------------------------------------------------------
(* The collaborator's loop: transcript, evidence and result.                *)

\* The messages of a transcript.
Messages == SaidMessages \cup ToolMessages

\* A snippet around a match is no longer than allowed and holds the match.
LEMMA SnippetFits ==
    ASSUME NEW length \in Nat, NEW index \in Nat, NEW most \in Nat, most # 0, NEW match \in Nat,
           index + match <= length
    PROVE  LET p == SnippetAround(length, index, most, match)
           IN  /\ p \in [from : Nat, upto : Nat] /\ p.upto - p.from <= most
               /\ match <= most => p.from <= index /\ index + match <= p.upto
  <1>1. PICK d \in Nat : d = most \div 3
    OBVIOUS
  <1>. DEFINE low(a, b) == IF a < b THEN a ELSE b
              back(a, b) == IF a > b THEN a - b ELSE 0
              end == low(index + match, length)
              start == low(back(index, d), back(end, most))
              upto == low(start + most, length)
  <1>2. end = index + match /\ end \in Nat
    OBVIOUS
  <1>3. back(index, d) \in Nat /\ back(index, d) <= index
    OBVIOUS
  <1>4. back(end, most) \in Nat /\ end - back(end, most) <= most
        /\ (match <= most => back(end, most) <= index)
    BY <1>2
  <1>5. start \in Nat /\ start <= index
    BY <1>3, <1>4
  <1>6. upto \in Nat /\ upto - start <= most
    BY <1>5
  <1>7. PICK p : p = SnippetAround(length, index, most, match)
    OBVIOUS
  <1>8. p = IF length <= most THEN [from |-> 0, upto |-> length]
            ELSE IF upto < end THEN [from |-> back(end, most), upto |-> end]
            ELSE [from |-> start, upto |-> upto]
    BY <1>1, <1>7 DEF SnippetAround
  <1>. HIDE DEF low, back, end, start, upto
  <1>9. CASE length <= most
    BY <1>2, <1>7, <1>8, <1>9
  <1>10. CASE ~(length <= most) /\ upto < end
    BY <1>2, <1>4, <1>7, <1>8, <1>10
  <1>11. CASE ~(length <= most) /\ ~(upto < end)
    BY <1>2, <1>5, <1>6, <1>7, <1>8, <1>11
  <1>. QED
    BY <1>9, <1>10, <1>11

\* The pieces of the invariant that the steps use.
LEMMA CollabParts ==
    ASSUME CollabInv
    PROVE  /\ CollabTypeOK /\ transcript \in Seq(Messages) /\ Len(transcript) \in Nat
           /\ DOMAIN transcript = 1..Len(transcript)
           /\ unanswered \in Seq(ToolCalls) /\ gathered \subseteq Stored
  <1>1. CollabTypeOK /\ transcript \in Seq(Messages) /\ unanswered \in Seq(ToolCalls)
    BY DEF CollabInv, CollabTypeOK, Messages
  <1>. QED
    BY <1>1, LenProperties DEF CollabInv

\* One more message leaves the others as they are.
LEMMA OneMore ==
    ASSUME CollabInv, NEW m \in Messages, transcript' = Append(transcript, m)
    PROVE  /\ transcript' \in Seq(Messages) /\ Len(transcript') = Len(transcript) + 1
           /\ Len(transcript) \in Nat /\ DOMAIN transcript' = 1..(Len(transcript) + 1)
           /\ DOMAIN transcript = 1..Len(transcript)
           /\ \A i \in 1..Len(transcript) : transcript'[i] = transcript[i]
           /\ transcript'[Len(transcript) + 1] = m
  <1>1. PICK q \in Seq(Messages) : q = transcript
    BY CollabParts
  <1>2. PICK s : s = Append(q, m)
    OBVIOUS
  <1>3. /\ s \in Seq(Messages) /\ Len(s) = Len(q) + 1 /\ Len(q) \in Nat
        /\ \A i \in 1 .. Len(q) : s[i] = q[i]
        /\ s[Len(q) + 1] = m
    BY <1>2, AppendShape
  <1>4. DOMAIN s = 1..(Len(q) + 1) /\ DOMAIN q = 1..Len(q)
    BY <1>3, LenProperties
  <1>. QED
    BY <1>1, <1>2, <1>3, <1>4

\* A message that was fair stays so when evidence is added.
LEMMA StillFair ==
    ASSUME NEW m, NEW ids, NEW more, ids \subseteq more, FairMessage(m, ids)
    PROVE  FairMessage(m, more)
  BY DEF FairMessage

\* A place is before, at or behind the next one.
LEMMA ThreePlaces ==
    ASSUME NEW a \in Nat, NEW b \in Nat
    PROVE  a <= b \/ a = b + 1 \/ a > b + 1
  OBVIOUS

\* The answer to the first unanswered call keeps the order.
LEMMA OrderKept ==
    ASSUME CollabInv, NEW m \in ToolMessages, unanswered # <<>>, m.call = Head(unanswered),
           transcript' = Append(transcript, m), unanswered' = Tail(unanswered),
           InOrder(transcript, unanswered)
    PROVE  InOrder(transcript', unanswered')
  <1>1. m \in Messages /\ m.role = "tool"
    BY DEF Messages, ToolMessages
  <1>2. PICK n \in Nat : n = Len(transcript)
    BY CollabParts
  <1>3. /\ Len(transcript') = n + 1 /\ DOMAIN transcript' = 1..(n + 1) /\ DOMAIN transcript = 1..n
        /\ \A i \in 1..n : transcript'[i] = transcript[i]
        /\ transcript'[n + 1] = m /\ transcript \in Seq(Messages)
    BY <1>1, <1>2, OneMore, CollabParts
  <1>4. PICK w \in Seq(ToolCalls) : w = unanswered
    BY CollabParts
  <1>5. PICK v : v = Tail(w)
    OBVIOUS
  <1>6. /\ Len(w) \in Nat /\ Len(v) = Len(w) - 1 /\ Len(w) # 0 /\ Head(w) = w[1]
        /\ \A k \in 1..Len(v) : v[k] = w[k + 1]
    BY <1>4, <1>5, HeadTailProperties, LenProperties, EmptySeq
  <1>7. ASSUME NEW i \in DOMAIN transcript', transcript'[i].role = "assistant"
        PROVE  /\ i + Len(transcript'[i].calls) <= Len(transcript') + Len(unanswered')
               /\ \A k \in DOMAIN transcript'[i].calls :
                    IF i + k <= Len(transcript')
                    THEN /\ transcript'[i + k].role = "tool"
                         /\ transcript'[i + k].call = transcript'[i].calls[k]
                    ELSE unanswered'[i + k - Len(transcript')] = transcript'[i].calls[k]
    <2>1. i \in 1..n /\ i # n + 1
      BY <1>1, <1>3, <1>7
    <2>2. PICK cs : cs = transcript[i].calls
      OBVIOUS
    <2>3. transcript'[i].calls = cs /\ transcript[i].role = "assistant" /\ i \in DOMAIN transcript
      BY <1>3, <1>7, <2>1, <2>2
    <2>4. cs \in Seq(ToolCalls)
      <3>1. transcript[i] \in Messages
        BY <1>3, <2>1
      <3>. QED
        BY <2>2, <2>3, <3>1 DEF Messages, SaidMessages, ToolMessages
    <2>5. Len(cs) \in Nat /\ DOMAIN cs = 1..Len(cs)
      BY <2>4, LenProperties
    <2>6. /\ i + Len(cs) <= n + Len(w)
          /\ \A k \in DOMAIN cs :
               IF i + k <= n
               THEN transcript[i + k].role = "tool" /\ transcript[i + k].call = cs[k]
               ELSE w[i + k - n] = cs[k]
      BY <1>2, <1>4, <2>2, <2>3 DEF InOrder
    <2>7. i + Len(cs) <= (n + 1) + Len(v)
      BY <1>6, <2>1, <2>5, <2>6
    <2>8. ASSUME NEW k \in DOMAIN cs
          PROVE  IF i + k <= n + 1
                 THEN transcript'[i + k].role = "tool" /\ transcript'[i + k].call = cs[k]
                 ELSE v[i + k - (n + 1)] = cs[k]
      <3>0. k \in 1..Len(cs) /\ k \in Nat /\ i \in Nat
        BY <2>1, <2>5
      <3>1. CASE i + k <= n
        BY <1>3, <2>1, <2>6, <3>0, <3>1
      <3>2. CASE i + k = n + 1
        <4>1. i + k - n = 1 /\ ~(i + k <= n)
          BY <2>1, <3>0, <3>2
        <4>2. w[1] = cs[k]
          BY <2>6, <4>1
        <4>3. transcript'[i + k] = m
          BY <1>3, <3>2
        <4>. QED
          BY <1>1, <1>4, <1>6, <3>2, <4>2, <4>3
      <3>3. CASE i + k > n + 1
        <4>1. PICK h \in Nat : h = i + k - (n + 1)
          BY <2>1, <3>0, <3>3
        <4>2. h \in 1..Len(v) /\ h + 1 = i + k - n /\ ~(i + k <= n) /\ ~(i + k <= n + 1)
          BY <1>6, <2>1, <2>5, <2>6, <3>0, <3>3, <4>1
        <4>3. w[h + 1] = cs[k]
          BY <2>6, <4>2
        <4>. QED
          BY <1>6, <4>1, <4>2, <4>3
      <3>4. PICK j \in Nat : j = i + k
        BY <3>0
      <3>5. j <= n \/ j = n + 1 \/ j > n + 1
        BY <1>2, <3>4, ThreePlaces
      <3>. QED
        BY <3>1, <3>2, <3>3, <3>4, <3>5
    <2>. QED
      BY <1>3, <1>4, <1>5, <2>3, <2>7, <2>8
  <1>. QED
    BY <1>7 DEF InOrder

\* A response whose calls are all to be answered keeps the order.
LEMMA OrderStarts ==
    ASSUME CollabInv, NEW calls \in Seq(ToolCalls), NEW m \in SaidMessages, m.calls = calls,
           unanswered = <<>>, transcript' = Append(transcript, m), unanswered' = calls,
           InOrder(transcript, unanswered)
    PROVE  InOrder(transcript', unanswered')
  <1>1. m \in Messages
    BY DEF Messages
  <1>2. PICK n \in Nat : n = Len(transcript)
    BY CollabParts
  <1>3. /\ Len(transcript') = n + 1 /\ DOMAIN transcript' = 1..(n + 1) /\ DOMAIN transcript = 1..n
        /\ \A i \in 1..n : transcript'[i] = transcript[i]
        /\ transcript'[n + 1] = m /\ transcript \in Seq(Messages)
    BY <1>1, <1>2, OneMore, CollabParts
  <1>4. Len(calls) \in Nat /\ DOMAIN calls = 1..Len(calls) /\ Len(unanswered) = 0
    BY LenProperties
  <1>5. ASSUME NEW i \in DOMAIN transcript', transcript'[i].role = "assistant"
        PROVE  /\ i + Len(transcript'[i].calls) <= Len(transcript') + Len(unanswered')
               /\ \A k \in DOMAIN transcript'[i].calls :
                    IF i + k <= Len(transcript')
                    THEN /\ transcript'[i + k].role = "tool"
                         /\ transcript'[i + k].call = transcript'[i].calls[k]
                    ELSE unanswered'[i + k - Len(transcript')] = transcript'[i].calls[k]
    <2>1. CASE i = n + 1
      <3>1. transcript'[i].calls = calls
        BY <1>3, <2>1
      <3>2. ASSUME NEW k \in DOMAIN calls
            PROVE  ~(i + k <= n + 1) /\ i + k - (n + 1) = k
        BY <1>4, <2>1
      <3>3. i + Len(calls) <= (n + 1) + Len(calls)
        BY <1>4, <2>1
      <3>. QED
        BY <1>3, <3>1, <3>2, <3>3
    <2>2. CASE i # n + 1
      <3>1. i \in 1..n
        BY <1>3, <2>2
      <3>2. PICK cs : cs = transcript[i].calls
        OBVIOUS
      <3>3. transcript'[i].calls = cs /\ transcript[i].role = "assistant" /\ i \in DOMAIN transcript
        BY <1>3, <1>5, <3>1, <3>2
      <3>4. cs \in Seq(ToolCalls)
        <4>1. transcript[i] \in Messages
          BY <1>3, <3>1
        <4>. QED
          BY <3>2, <3>3, <4>1 DEF Messages, SaidMessages, ToolMessages
      <3>5. Len(cs) \in Nat /\ DOMAIN cs = 1..Len(cs)
        BY <3>4, LenProperties
      <3>6. /\ i + Len(cs) <= n + Len(unanswered)
            /\ \A k \in DOMAIN cs : i + k <= n =>
                 transcript[i + k].role = "tool" /\ transcript[i + k].call = cs[k]
        BY <1>2, <3>2, <3>3 DEF InOrder
      <3>7. i + Len(cs) <= n
        BY <1>4, <3>1, <3>5, <3>6
      <3>8. ASSUME NEW k \in DOMAIN cs
            PROVE  /\ i + k <= n + 1
                   /\ transcript'[i + k].role = "tool" /\ transcript'[i + k].call = cs[k]
        <4>1. i + k <= n /\ i + k \in 1..n /\ i + k <= n + 1
          BY <3>1, <3>5, <3>7
        <4>. QED
          BY <1>3, <3>6, <4>1
      <3>9. i + Len(cs) <= (n + 1) + Len(calls)
        BY <1>4, <3>1, <3>5, <3>7
      <3>. QED
        BY <1>3, <3>3, <3>8, <3>9
    <2>. QED
      BY <2>1, <2>2
  <1>. QED
    BY <1>5 DEF InOrder

\* What a step does to the evidence: it only grows.
EvidenceGrows ==
    /\ IsFiniteSet(evidenceStore')
    /\ evidenceStore' \subseteq
         [id : Nat, file : FileKinds, decision : {"allowed", "denied", "omitted"}]
    /\ Stored \subseteq Stored' /\ gathered' \subseteq Stored' /\ gathered' \subseteq Nat

\* One more record of evidence, with its id.
LEMMA KeptGrows ==
    ASSUME CollabInv, NEW file \in FileKinds, NEW decision \in {"allowed", "denied", "omitted"},
           NEW r, r = Put(file, decision), Kept(r)
    PROVE  EvidenceGrows /\ r.id \in Nat /\ r.id \in Stored'
  <1>1. /\ IsFiniteSet(evidenceStore) /\ gathered \subseteq Nat /\ gathered \subseteq Stored
        /\ evidenceStore \subseteq
             [id : Nat, file : FileKinds, decision : {"allowed", "denied", "omitted"}]
    BY DEF CollabInv, CollabTypeOK
  <1>2. Cardinality(evidenceStore) \in Nat
    BY <1>1, FS_CardinalityType
  <1>3. /\ r \in [id : Nat, file : FileKinds, decision : {"allowed", "denied", "omitted"}]
        /\ r.id \in Nat
    BY <1>2 DEF Put
  <1>4. evidenceStore' = evidenceStore \cup {r} /\ gathered' = gathered \cup {r.id}
    BY DEF Kept
  <1>5. IsFiniteSet(evidenceStore')
    BY <1>1, <1>4, FS_AddElement
  <1>6. Stored \subseteq Stored' /\ r.id \in Stored'
    BY <1>4 DEF Stored
  <1>. QED
    BY <1>1, <1>3, <1>4, <1>5, <1>6 DEF EvidenceGrows

\* No evidence is a growth too.
LEMMA NothingKept ==
    ASSUME CollabInv, UNCHANGED <<evidenceStore, gathered>>
    PROVE  EvidenceGrows
  BY DEF CollabInv, CollabTypeOK, EvidenceGrows, Stored

\* The answer to a call keeps the invariant.
LEMMA AnswerKeeps ==
    ASSUME CollabInv, stage = "dispatch", NEW m \in ToolMessages, m.call = Head(unanswered),
           ToolAnswered(m), EvidenceGrows, FairMessage(m, Stored'),
           UNCHANGED <<operation, contextSteps, mutated>>
    PROVE  CollabInv'
  <1>1. /\ transcript' = Append(transcript, m) /\ unanswered' = Tail(unanswered)
        /\ stage' = IF Len(unanswered) = 1 THEN "chat" ELSE "dispatch"
        /\ UNCHANGED loopResult
    BY DEF ToolAnswered
  <1>2. m \in Messages /\ m.role = "tool"
    BY DEF Messages, ToolMessages
  <1>3. /\ CollabTypeOK /\ unanswered \in Seq(ToolCalls) /\ unanswered # <<>>
        /\ InOrder(transcript, unanswered) /\ NoTerminalYet /\ mutated = "none"
    BY CollabParts DEF CollabInv
  <1>4. PICK n \in Nat : n = Len(transcript)
    BY CollabParts
  <1>5. /\ transcript' \in Seq(Messages) /\ DOMAIN transcript' = 1..(n + 1) /\ DOMAIN transcript = 1..n
        /\ \A i \in 1..n : transcript'[i] = transcript[i]
        /\ transcript'[n + 1] = m
    BY <1>1, <1>2, <1>4, OneMore
  <1>6. InOrder(transcript', unanswered')
    BY <1>1, <1>3, OrderKept
  <1>7. /\ unanswered' \in Seq(ToolCalls)
        /\ stage' = "chat" => unanswered' = <<>>
        /\ stage' = "dispatch" => unanswered' # <<>>
        /\ stage' \in {"chat", "dispatch"}
    <2>1. PICK w \in Seq(ToolCalls) : w = unanswered
      BY <1>3
    <2>2. PICK v : v = Tail(w)
      OBVIOUS
    <2>3. v \in Seq(ToolCalls) /\ Len(v) = Len(w) - 1 /\ Len(w) \in Nat
      BY <1>3, <2>1, <2>2, HeadTailProperties, LenProperties
    <2>4. Len(w) = 1 => v = <<>>
      BY <2>3, EmptySeq
    <2>5. Len(w) # 1 => v # <<>>
      BY <2>3, EmptySeq
    <2>. QED
      BY <1>1, <2>1, <2>2, <2>3, <2>4, <2>5
  <1>8. CollabTypeOK'
    BY <1>1, <1>3, <1>5, <1>7 DEF CollabTypeOK, EvidenceGrows, Messages
  <1>9. ASSUME NEW i \in DOMAIN transcript' PROVE FairMessage(transcript'[i], Stored')
    <2>1. CASE i = n + 1
      BY <1>5, <2>1
    <2>2. CASE i # n + 1
      <3>1. i \in 1..n
        BY <1>5, <2>2
      <3>2. FairMessage(transcript[i], Stored) /\ transcript'[i] = transcript[i]
        BY <1>5, <3>1 DEF CollabInv
      <3>. QED
        BY <3>2, StillFair DEF EvidenceGrows
    <2>. QED
      BY <2>1, <2>2
  <1>10. \A i \in DOMAIN transcript' :
           transcript'[i].role = "assistant" => i \in 1..n /\ transcript'[i] = transcript[i]
    BY <1>2, <1>5
  <1>11. NoTerminalYet'
    BY <1>3, <1>5, <1>10 DEF NoTerminalYet, IsSaid, SaidCall
  <1>12. ~HasAsked'
    BY <1>11 DEF NoTerminalYet, HasAsked, Terminals
  <1>13. loopResult'.refs \subseteq Stored' \/ Named(loopResult.refs)'
    <2>1. CASE loopResult.refs \subseteq Stored
      BY <1>1, <2>1 DEF EvidenceGrows
    <2>2. CASE Named(loopResult.refs)
      BY <1>3, <2>2 DEF Named, NoTerminalYet
    <2>. QED
      BY <2>1, <2>2 DEF CollabInv
  <1>. QED
    BY <1>1, <1>3, <1>6, <1>7, <1>8, <1>9, <1>11, <1>12, <1>13 DEF CollabInv, EvidenceGrows

\* The end of a loop keeps the invariant.
LEMMA EndKeeps ==
    ASSUME CollabInv, stage \in {"chat", "dispatch"}, NEW r \in Results, LoopEnds(r),
           transcript' \in Seq(Messages),
           \A i \in DOMAIN transcript' : FairMessage(transcript'[i], Stored'),
           r.refs \subseteq Stored \/ Named(r.refs)',
           HasAsked' /\ operation # "create_raw_task" => r.status = "rejected",
           UNCHANGED <<operation, gathered, evidenceStore, mutated>>, contextSteps' \in Nat
    PROVE  CollabInv'
  <1>1. stage' = "submit" /\ loopResult' = r /\ unanswered' = <<>>
    BY DEF LoopEnds
  <1>2. CollabTypeOK /\ mutated = "none" /\ gathered \subseteq Stored
    BY DEF CollabInv
  <1>3. CollabTypeOK'
    BY <1>1, <1>2 DEF CollabTypeOK, Messages
  <1>4. Stored' = Stored /\ gathered' \subseteq Stored'
    BY <1>2 DEF Stored
  <1>. QED
    BY <1>1, <1>2, <1>3, <1>4 DEF CollabInv

\* A rejection is a result.
LEMMA RejectedShape ==
    ASSUME NEW cause \in Causes
    PROVE  /\ Rejected(cause) \in Results /\ Rejected(cause).refs = {}
           /\ Rejected(cause).status = "rejected"
  <1>1. PICK r : r = [status |-> "rejected", kind |-> "none", refs |-> {}, cause |-> cause]
    OBVIOUS
  <1>2. {} \in SUBSET Nat /\ "none" \in ProposalKinds
    BY DEF ProposalKinds
  <1>3. r \in Results /\ r.refs = {} /\ r.status = "rejected"
    BY <1>1, <1>2 DEF Results
  <1>. QED
    BY <1>1, <1>3 DEF Rejected

\* A proposal is a result.
LEMMA FinishedShape ==
    ASSUME NEW kind \in ProposalKinds, NEW used, used \subseteq Nat
    PROVE  /\ Finished(kind, used) \in Results /\ Finished(kind, used).refs = used
           /\ Finished(kind, used).status = "finished"
  <1>1. PICK r : r = [status |-> "finished", kind |-> kind, refs |-> used, cause |-> "none"]
    OBVIOUS
  <1>2. used \in SUBSET Nat /\ "none" \in Causes
    BY DEF Causes
  <1>3. r \in Results /\ r.refs = used /\ r.status = "finished"
    BY <1>1, <1>2 DEF Results
  <1>. QED
    BY <1>1, <1>3 DEF Finished

\* A response of the model leaves the transcript fair.
LEMMA SayShape ==
    ASSUME CollabInv, NEW calls \in Seq(ToolCalls), Say(calls), NEW m,
           m = [role |-> "assistant", calls |-> calls], UNCHANGED evidenceStore
    PROVE  /\ m \in SaidMessages /\ m \in Messages /\ m.calls = calls /\ m.role = "assistant"
           /\ transcript' = Append(transcript, m) /\ transcript' \in Seq(Messages)
           /\ \A i \in DOMAIN transcript' : FairMessage(transcript'[i], Stored')
  <1>1. m \in SaidMessages /\ m \in Messages /\ m.calls = calls /\ m.role = "assistant"
    BY DEF SaidMessages, Messages
  <1>2. transcript' = Append(transcript, m) /\ Stored' = Stored
    BY DEF Say, Stored
  <1>3. PICK n \in Nat : n = Len(transcript)
    BY CollabParts
  <1>4. /\ transcript' \in Seq(Messages) /\ DOMAIN transcript' = 1..(n + 1) /\ DOMAIN transcript = 1..n
        /\ \A i \in 1..n : transcript'[i] = transcript[i]
        /\ transcript'[n + 1] = m
    BY <1>1, <1>2, <1>3, OneMore
  <1>5. ASSUME NEW i \in DOMAIN transcript' PROVE FairMessage(transcript'[i], Stored)
    <2>1. CASE i = n + 1
      BY <1>1, <1>4, <2>1 DEF FairMessage
    <2>2. CASE i # n + 1
      <3>1. i \in 1..n
        BY <1>4, <2>2
      <3>. QED
        BY <1>4, <3>1 DEF CollabInv
    <2>. QED
      BY <2>1, <2>2
  <1>. QED
    BY <1>1, <1>2, <1>4, <1>5

\* After a response: what was said before it, and its calls.
LEMMA SaidBefore ==
    ASSUME CollabInv, stage = "chat", NEW calls \in Seq(ToolCalls), Say(calls),
           UNCHANGED evidenceStore
    PROVE  /\ (\A k \in DOMAIN calls : calls[k].tool \notin Terminals) => NoTerminalYet'
           /\ HasAsked' => \E k \in DOMAIN calls : calls[k].tool = "ask"
           /\ \A k \in DOMAIN calls : calls[k].tool \in Terminals => Named(calls[k].refs)'
  <1>0. NoTerminalYet
    BY DEF CollabInv
  <1>1. PICK m : m = [role |-> "assistant", calls |-> calls]
    OBVIOUS
  <1>2. m \in Messages /\ m.calls = calls /\ m.role = "assistant" /\ transcript' = Append(transcript, m)
    BY <1>1, SayShape
  <1>3. PICK n \in Nat : n = Len(transcript)
    BY CollabParts
  <1>4. /\ DOMAIN transcript' = 1..(n + 1) /\ DOMAIN transcript = 1..n
        /\ \A i \in 1..n : transcript'[i] = transcript[i]
        /\ transcript'[n + 1] = m
    BY <1>2, <1>3, OneMore
  <1>5. ASSUME NEW i \in DOMAIN transcript', transcript'[i].role = "assistant",
               NEW k \in DOMAIN transcript'[i].calls
        PROVE  \/ transcript'[i].calls[k].tool \notin Terminals
               \/ k \in DOMAIN calls /\ transcript'[i].calls[k] = calls[k]
    <2>1. CASE i = n + 1
      BY <1>2, <1>4, <1>5, <2>1
    <2>2. CASE i # n + 1
      <3>1. i \in 1..n
        BY <1>4, <2>2
      <3>. QED
        BY <1>0, <1>4, <1>5, <3>1 DEF NoTerminalYet, IsSaid, SaidCall
    <2>. QED
      BY <2>1, <2>2
  <1>6. (\A k \in DOMAIN calls : calls[k].tool \notin Terminals) => NoTerminalYet'
    BY <1>5 DEF NoTerminalYet, IsSaid, SaidCall
  <1>7. HasAsked' => \E k \in DOMAIN calls : calls[k].tool = "ask"
    BY <1>5 DEF HasAsked, IsSaid, SaidCall, Terminals
  <1>8. ASSUME NEW k \in DOMAIN calls, calls[k].tool \in Terminals PROVE Named(calls[k].refs)'
    <2>1. n + 1 \in DOMAIN transcript'
      BY <1>3, <1>4
    <2>. QED
      BY <1>2, <1>4, <1>8, <2>1 DEF Named, IsSaid, SaidCall
  <1>. QED
    BY <1>6, <1>7, <1>8
-----------------------------------------------------------------------------
(* The steps of the loop.                                                   *)

\* The responses of the model are sequences of calls.
LEMMA ResponseShape ==
    ASSUME NEW calls \in Responses
    PROVE  calls \in Seq(ToolCalls) /\ Len(calls) \in Nat /\ DOMAIN calls = 1..Len(calls)
  <1>1. PICK n \in 0..MaxToolCalls : calls \in [1..n -> ToolCalls]
    BY DEF Responses
  <1>2. n \in Nat
    BY <1>1, LoopAssumption
  <1>3. calls \in Seq(ToolCalls)
    BY <1>1, <1>2
  <1>. QED
    BY <1>3, LenProperties

\* A proposal in the text of a response ends the loop.
LEMMA ContentKeeps ==
    ASSUME CollabInv, Content
    PROVE  CollabInv'
  <1>1. /\ stage = "chat" /\ Say(<<>>)
        /\ UNCHANGED <<operation, contextSteps, gathered, evidenceStore, mutated>>
    BY DEF Content
  <1>2. PICK r : LoopEnds(r) /\ (r = Finished(KindOf[operation], gathered) \/ r = Rejected("content"))
    BY DEF Content
  <1>3. /\ CollabTypeOK /\ gathered \subseteq Stored /\ gathered \subseteq Nat /\ contextSteps' \in Nat
        /\ operation \in DOMAIN KindOf
    BY <1>1 DEF CollabInv, CollabTypeOK
  <1>4. KindOf[operation] \in ProposalKinds /\ "content" \in Causes
    BY <1>3 DEF KindOf, ProposalKinds, Causes
  <1>5. r \in Results /\ r.refs \subseteq Stored
    <2>1. PICK kind \in ProposalKinds : kind = KindOf[operation]
      BY <1>4
    <2>2. PICK used \in SUBSET Nat : used = gathered
      BY <1>3
    <2>3. CASE r = Finished(kind, used)
      BY <1>3, <2>1, <2>2, <2>3, FinishedShape
    <2>4. CASE r = Rejected("content")
      BY <1>4, <2>4, RejectedShape
    <2>. QED
      BY <1>2, <2>1, <2>2, <2>3, <2>4
  <1>6. PICK calls \in Seq(ToolCalls) : calls = <<>>
    <2>1. <<>> \in Seq(ToolCalls)
      OBVIOUS
    <2>. QED
      BY <2>1
  <1>7. PICK m : m = [role |-> "assistant", calls |-> calls]
    OBVIOUS
  <1>8. Say(calls) /\ DOMAIN calls = {}
    BY <1>1, <1>6
  <1>9. transcript' \in Seq(Messages) /\ \A i \in DOMAIN transcript' : FairMessage(transcript'[i], Stored')
    BY <1>1, <1>7, <1>8, SayShape
  <1>10. ~HasAsked'
    BY <1>1, <1>8, SaidBefore
  <1>. QED
    BY <1>1, <1>2, <1>3, <1>5, <1>9, <1>10, EndKeeps

\* A terminal call ends the loop, and a question ends it with a refusal
\* unless a raw task was asked for.
LEMMA TerminalCallKeeps ==
    ASSUME CollabInv, TerminalCall
    PROVE  CollabInv'
  <1>1. /\ stage = "chat"
        /\ UNCHANGED <<operation, contextSteps, gathered, evidenceStore, mutated>>
    BY DEF TerminalCall
  <1>2. PICK calls \in Responses :
          /\ \E i \in DOMAIN calls : calls[i].tool \in Terminals
          /\ Say(calls)
          /\ LoopEnds(IF Len(calls) > 1 THEN Rejected("terminal not alone") ELSE Terminal(calls[1]))
    BY DEF TerminalCall
  <1>3. calls \in Seq(ToolCalls) /\ Len(calls) \in Nat /\ DOMAIN calls = 1..Len(calls)
    BY <1>2, ResponseShape
  <1>4. /\ CollabTypeOK /\ gathered \subseteq Stored /\ gathered \subseteq Nat /\ contextSteps' \in Nat
    BY <1>1 DEF CollabInv, CollabTypeOK
  <1>5. PICK m : m = [role |-> "assistant", calls |-> calls]
    OBVIOUS
  <1>6. transcript' \in Seq(Messages) /\ \A i \in DOMAIN transcript' : FairMessage(transcript'[i], Stored')
    BY <1>1, <1>2, <1>3, <1>5, SayShape
  <1>7. /\ HasAsked' => \E k \in DOMAIN calls : calls[k].tool = "ask"
        /\ \A k \in DOMAIN calls : calls[k].tool \in Terminals => Named(calls[k].refs)'
    BY <1>1, <1>2, <1>3, SaidBefore
  <1>8. CASE Len(calls) > 1
    <2>1. PICK r : r = Rejected("terminal not alone")
      OBVIOUS
    <2>2. "terminal not alone" \in Causes
      BY DEF Causes
    <2>3. r \in Results /\ r.refs = {} /\ r.status = "rejected"
      BY <2>1, <2>2, RejectedShape
    <2>4. LoopEnds(r)
      BY <1>2, <1>8, <2>1
    <2>. QED
      BY <1>1, <1>4, <1>6, <2>3, <2>4, EndKeeps
  <1>9. CASE ~(Len(calls) > 1)
    <2>1. DOMAIN calls = {1}
      BY <1>2, <1>3, <1>9
    <2>2. PICK c \in ToolCalls : c = calls[1]
      BY <1>3, <2>1
    <2>3. /\ c.tool \in Terminals /\ Named(c.refs)'
          /\ HasAsked' => c.tool = "ask"
      BY <1>2, <1>7, <2>1, <2>2
    <2>4. c.kind \in ProposalKinds /\ c.refs \subseteq Nat
      BY <2>2, LoopAssumption
    <2>5. PICK used : used = IF gathered # {} /\ c.refs = {} THEN gathered ELSE c.refs
      OBVIOUS
    <2>6. /\ used \subseteq Nat /\ (used \subseteq Stored \/ used = c.refs)
      BY <1>4, <2>4, <2>5
    <2>7. PICK r : r = Terminal(c)
      OBVIOUS
    <2>8. LoopEnds(r)
      BY <1>2, <1>9, <2>2, <2>7
    <2>9. CASE c.tool = "finish"
      <3>1. r = Finished(c.kind, used)
        BY <2>5, <2>7, <2>9 DEF Terminal
      <3>2. r \in Results /\ r.refs = used
        BY <2>4, <2>6, <3>1, FinishedShape
      <3>3. ~HasAsked'
        BY <2>3, <2>9
      <3>. QED
        BY <1>1, <1>4, <1>6, <2>3, <2>6, <2>8, <3>2, <3>3, EndKeeps
    <2>10. CASE c.tool # "finish" /\ operation = "create_raw_task"
      <3>1. r = Finished("raw_task", used) /\ "raw_task" \in ProposalKinds
        BY <2>5, <2>7, <2>10 DEF Terminal, ProposalKinds
      <3>2. r \in Results /\ r.refs = used
        BY <2>6, <3>1, FinishedShape
      <3>. QED
        BY <1>1, <1>4, <1>6, <2>3, <2>6, <2>8, <2>10, <3>2, EndKeeps
    <2>11. CASE c.tool # "finish" /\ operation # "create_raw_task"
      <3>1. r = Rejected("ask outside raw task") /\ "ask outside raw task" \in Causes
        BY <2>7, <2>11 DEF Terminal, Causes
      <3>2. r \in Results /\ r.refs = {} /\ r.status = "rejected"
        BY <3>1, RejectedShape
      <3>. QED
        BY <1>1, <1>4, <1>6, <2>8, <3>2, EndKeeps
    <2>. QED
      BY <2>9, <2>10, <2>11
  <1>. QED
    BY <1>8, <1>9

\* Context calls are to be answered, or are one step too many.
LEMMA ContextCallsKeeps ==
    ASSUME CollabInv, ContextCalls
    PROVE  CollabInv'
  <1>1. /\ stage = "chat"
        /\ UNCHANGED <<operation, gathered, evidenceStore, mutated>>
    BY DEF ContextCalls
  <1>2. PICK calls \in Responses :
          /\ calls # <<>> /\ \A i \in DOMAIN calls : calls[i].tool \notin Terminals
          /\ Say(calls)
          /\ IF contextSteps >= MaxContextSteps
             THEN LoopEnds(Rejected("step limit")) /\ UNCHANGED contextSteps
             ELSE /\ stage' = "dispatch" /\ unanswered' = calls
                  /\ contextSteps' = contextSteps + 1
                  /\ UNCHANGED loopResult
    BY DEF ContextCalls
  <1>3. calls \in Seq(ToolCalls)
    BY <1>2, ResponseShape
  <1>4. PICK m : m = [role |-> "assistant", calls |-> calls]
    OBVIOUS
  <1>5. /\ transcript' \in Seq(Messages) /\ transcript' = Append(transcript, m)
        /\ m \in SaidMessages /\ m.calls = calls
        /\ \A i \in DOMAIN transcript' : FairMessage(transcript'[i], Stored')
    BY <1>1, <1>2, <1>3, <1>4, SayShape
  <1>6. NoTerminalYet'
    BY <1>1, <1>2, <1>3, SaidBefore
  <1>7. ~HasAsked'
    BY <1>6 DEF NoTerminalYet, HasAsked, Terminals
  <1>8. CollabTypeOK /\ contextSteps \in Nat
    BY DEF CollabInv, CollabTypeOK
  <1>9. CASE contextSteps >= MaxContextSteps
    <2>1. PICK r : r = Rejected("step limit")
      OBVIOUS
    <2>2. "step limit" \in Causes
      BY DEF Causes
    <2>3. r \in Results /\ r.refs = {} /\ r.status = "rejected"
      BY <2>1, <2>2, RejectedShape
    <2>4. LoopEnds(r) /\ contextSteps' \in Nat
      BY <1>2, <1>8, <1>9, <2>1
    <2>. QED
      BY <1>1, <1>5, <2>3, <2>4, EndKeeps
  <1>10. CASE ~(contextSteps >= MaxContextSteps)
    <2>1. /\ stage' = "dispatch" /\ unanswered' = calls /\ UNCHANGED loopResult
          /\ contextSteps' = contextSteps + 1
      BY <1>2, <1>10
    <2>2. contextSteps' \in Nat
      BY <1>8, <2>1
    <2>3. InOrder(transcript, unanswered) /\ unanswered = <<>> /\ mutated = "none" /\ NoTerminalYet
          /\ gathered \subseteq Stored
      BY <1>1 DEF CollabInv
    <2>4. InOrder(transcript', unanswered')
      BY <1>3, <1>5, <2>1, <2>3, OrderStarts
    <2>5. CollabTypeOK'
      BY <1>1, <1>3, <1>5, <1>8, <2>1, <2>2 DEF CollabTypeOK, Messages
    <2>6. Stored' = Stored
      BY <1>1 DEF Stored
    <2>7. ~Named(loopResult.refs)
      BY <2>3 DEF Named, NoTerminalYet
    <2>8. loopResult'.refs \subseteq Stored'
      BY <2>1, <2>6, <2>7 DEF CollabInv
    <2>. QED
      BY <1>1, <1>2, <1>5, <1>6, <1>7, <2>1, <2>3, <2>4, <2>5, <2>6, <2>8 DEF CollabInv
  <1>. QED
    BY <1>9, <1>10

\* A tool message without a match has the empty snippet.
LEMMA NoSnippetShape == NoSnippet \in Snippets /\ HoldsMatch(NoSnippet)
  <1>1. PICK p : p = [from |-> 0, upto |-> 0]
    OBVIOUS
  <1>2. PICK s : s = [part |-> p, index |-> 0, match |-> 0]
    OBVIOUS
  <1>3. p \in [from : Nat, upto : Nat] /\ p.from = 0 /\ p.upto = 0
    BY <1>1
  <1>4. s \in Snippets /\ s.part = p /\ s.index = 0 /\ s.match = 0
    BY <1>2, <1>3 DEF Snippets
  <1>5. HoldsMatch(s)
    BY <1>3, <1>4, LoopAssumption DEF HoldsMatch
  <1>. QED
    BY <1>1, <1>2, <1>4, <1>5 DEF NoSnippet, Snippet

\* The tool message of a call.
LEMMA ToolMessageShape ==
    ASSUME NEW c \in ToolCalls, NEW ids, ids \subseteq Nat, NEW shown, shown \subseteq FileKinds,
           NEW snippet \in Snippets, HoldsMatch(snippet), NEW more, ids \subseteq more,
           shown \cap {"protected", "outside"} = {}, NEW m, m = ToolMessage(c, ids, shown, snippet)
    PROVE  m \in ToolMessages /\ m.call = c /\ FairMessage(m, more)
  <1>1. m = [role |-> "tool", call |-> c, refs |-> ids, shown |-> shown, snippet |-> snippet]
    BY DEF ToolMessage
  <1>2. ids \in SUBSET Nat /\ shown \in SUBSET FileKinds
    OBVIOUS
  <1>. QED
    BY <1>1, <1>2 DEF ToolMessages, FairMessage

\* What is not answered yet is a call of the model.
LEMMA FirstCall ==
    ASSUME CollabInv, stage = "dispatch"
    PROVE  Head(unanswered) \in ToolCalls
  <1>1. unanswered \in Seq(ToolCalls) /\ unanswered # <<>>
    BY DEF CollabInv, CollabTypeOK
  <1>. QED
    BY <1>1, HeadTailProperties

\* A read leaves evidence and shows what may be shown.
LEMMA ReadKeeps ==
    ASSUME CollabInv, Read
    PROVE  CollabInv'
  <1>1. stage = "dispatch" /\ UNCHANGED <<operation, contextSteps, mutated>>
    BY DEF Read
  <1>2. PICK c \in ToolCalls : c = Head(unanswered)
    BY <1>1, FirstCall
  <1>3. c.file \in FileKinds
    BY <1>2, LoopAssumption
  <1>4. CASE c.file = "empty"
    <2>1. PICK r : r = Rejected("empty file")
      OBVIOUS
    <2>2. LoopEnds(r) /\ UNCHANGED <<evidenceStore, gathered, transcript>>
      BY <1>2, <1>4, <2>1 DEF Read
    <2>3. "empty file" \in Causes
      BY DEF Causes
    <2>4. r \in Results /\ r.refs = {} /\ r.status = "rejected"
      BY <2>1, <2>3, RejectedShape
    <2>5. /\ transcript' \in Seq(Messages) /\ contextSteps' \in Nat
          /\ \A i \in DOMAIN transcript' : FairMessage(transcript'[i], Stored')
      BY <1>1, <2>2 DEF CollabInv, CollabTypeOK, Messages, Stored
    <2>. QED
      BY <1>1, <2>2, <2>4, <2>5, EndKeeps
  <1>5. CASE c.file # "empty"
    <2>1. PICK d : d = Decision(c.file)
      OBVIOUS
    <2>2. /\ d \in {"allowed", "denied", "omitted"}
          /\ d = "allowed" => c.file \notin {"protected", "outside"}
      BY <2>1 DEF Decision
    <2>3. PICK r : r = Put(c.file, d)
      OBVIOUS
    <2>4. r.decision = d
      BY <2>3 DEF Put
    <2>5. PICK shown : shown = IF d = "allowed" THEN {c.file} ELSE {}
      OBVIOUS
    <2>6. PICK m : m = ToolMessage(c, {r.id}, shown, NoSnippet)
      OBVIOUS
    <2>7. Kept(r) /\ ToolAnswered(m)
      BY <1>2, <1>5, <2>1, <2>3, <2>4, <2>5, <2>6 DEF Read
    <2>8. EvidenceGrows /\ r.id \in Nat /\ r.id \in Stored'
      BY <1>3, <2>2, <2>3, <2>7, KeptGrows
    <2>9. shown \subseteq FileKinds /\ shown \cap {"protected", "outside"} = {}
      BY <1>3, <2>2, <2>5
    <2>10. PICK ids : ids = {r.id}
      OBVIOUS
    <2>11. ids \subseteq Nat /\ ids \subseteq Stored'
      BY <2>8, <2>10
    <2>12. m \in ToolMessages /\ m.call = c /\ FairMessage(m, Stored')
      <3>1. PICK more : more = Stored'
        OBVIOUS
      <3>2. PICK s \in Snippets : s = NoSnippet /\ HoldsMatch(s)
        BY NoSnippetShape
      <3>3. m = ToolMessage(c, ids, shown, s) /\ ids \subseteq more
        BY <2>6, <2>10, <2>11, <3>1, <3>2
      <3>4. m \in ToolMessages /\ m.call = c /\ FairMessage(m, more)
        BY <1>2, <2>9, <2>11, <3>2, <3>3, ToolMessageShape
      <3>. QED
        BY <3>1, <3>4
    <2>. QED
      BY <1>1, <1>2, <2>7, <2>8, <2>12, AnswerKeeps
  <1>. QED
    BY <1>4, <1>5

\* A search finds nothing, or a match that its snippet holds.
LEMMA SearchKeeps ==
    ASSUME CollabInv, Search
    PROVE  CollabInv'
  <1>1. stage = "dispatch" /\ UNCHANGED <<operation, contextSteps, mutated>>
    BY DEF Search
  <1>2. PICK c \in ToolCalls : c = Head(unanswered)
    BY <1>1, FirstCall
  <1>3. ASSUME ToolAnswered(ToolMessage(c, {}, {}, NoSnippet)), UNCHANGED <<evidenceStore, gathered>>
        PROVE  CollabInv'
    <2>1. PICK m : m = ToolMessage(c, {}, {}, NoSnippet)
      OBVIOUS
    <2>2. m \in ToolMessages /\ m.call = c /\ FairMessage(m, Stored')
      <3>1. PICK more : more = Stored'
        OBVIOUS
      <3>2. PICK s \in Snippets : s = NoSnippet /\ HoldsMatch(s)
        BY NoSnippetShape
      <3>3. PICK ids : ids = {}
        OBVIOUS
      <3>4. m = ToolMessage(c, ids, ids, s) /\ ids \subseteq more /\ ids \subseteq Nat
            /\ ids \subseteq FileKinds /\ ids \cap {"protected", "outside"} = {}
        BY <2>1, <3>2, <3>3
      <3>5. m \in ToolMessages /\ m.call = c /\ FairMessage(m, more)
        BY <1>2, <3>2, <3>4, ToolMessageShape
      <3>. QED
        BY <3>1, <3>5
    <2>3. EvidenceGrows /\ ToolAnswered(m)
      BY <1>3, <2>1, NothingKept
    <2>. QED
      BY <1>1, <1>2, <2>2, <2>3, AnswerKeeps
  <1>4. ASSUME NEW index \in 0..(FileLength - 1), NEW match \in 1..(FileLength - index),
               NEW r, r = Put("text", "allowed"), Kept(r),
               ToolAnswered(ToolMessage(c, {r.id}, {"text"},
                  Snippet(SnippetAround(FileLength, index, SnippetChars, match), index, match)))
        PROVE  CollabInv'
    <2>1. /\ index \in Nat /\ match \in Nat /\ index + match <= FileLength /\ FileLength \in Nat
          /\ SnippetChars \in Nat /\ SnippetChars # 0
      BY LoopAssumption
    <2>2. PICK p : p = SnippetAround(FileLength, index, SnippetChars, match)
      OBVIOUS
    <2>3. /\ p \in [from : Nat, upto : Nat] /\ p.upto - p.from <= SnippetChars
          /\ match <= SnippetChars => p.from <= index /\ index + match <= p.upto
      BY <2>1, <2>2, SnippetFits
    <2>4. PICK s : s = [part |-> p, index |-> index, match |-> match]
      OBVIOUS
    <2>5. s \in Snippets /\ s.part = p /\ s.index = index /\ s.match = match
      BY <2>1, <2>3, <2>4 DEF Snippets
    <2>6. HoldsMatch(s)
      BY <2>3, <2>5 DEF HoldsMatch
    <2>7. PICK m : m = ToolMessage(c, {r.id}, {"text"}, s)
      OBVIOUS
    <2>8. ToolAnswered(m)
      BY <1>4, <2>2, <2>4, <2>7 DEF Snippet
    <2>9. "text" \in FileKinds
      BY DEF FileKinds
    <2>10. EvidenceGrows /\ r.id \in Nat /\ r.id \in Stored'
      BY <1>4, <2>9, KeptGrows
    <2>11. PICK ids : ids = {r.id}
      OBVIOUS
    <2>12. ids \subseteq Nat /\ ids \subseteq Stored'
      BY <2>10, <2>11
    <2>13. PICK shown : shown = {"text"}
      OBVIOUS
    <2>14. shown \subseteq FileKinds /\ shown \cap {"protected", "outside"} = {}
      BY <2>9, <2>13
    <2>15. m \in ToolMessages /\ m.call = c /\ FairMessage(m, Stored')
      <3>1. PICK more : more = Stored'
        OBVIOUS
      <3>2. m = ToolMessage(c, ids, shown, s) /\ ids \subseteq more
        BY <2>7, <2>11, <2>12, <2>13, <3>1
      <3>3. m \in ToolMessages /\ m.call = c /\ FairMessage(m, more)
        BY <1>2, <2>5, <2>6, <2>12, <2>14, <3>2, ToolMessageShape
      <3>. QED
        BY <3>1, <3>3
    <2>. QED
      BY <1>1, <1>2, <2>8, <2>10, <2>15, AnswerKeeps
  <1>. QED
    BY <1>2, <1>3, <1>4 DEF Search

\* A tool that is not offered ends the loop.
LEMMA RefuseKeepsLoop ==
    ASSUME CollabInv, Refuse
    PROVE  CollabInv'
  <1>1. /\ stage = "dispatch"
        /\ UNCHANGED <<operation, contextSteps, gathered, transcript, evidenceStore, mutated>>
    BY DEF Refuse
  <1>2. PICK cause \in Causes : LoopEnds(Rejected(cause))
    BY DEF Refuse, Causes
  <1>3. PICK r : r = Rejected(cause)
    OBVIOUS
  <1>4. r \in Results /\ r.refs = {} /\ r.status = "rejected" /\ LoopEnds(r)
    BY <1>2, <1>3, RejectedShape
  <1>5. /\ transcript' \in Seq(Messages) /\ contextSteps' \in Nat
        /\ \A i \in DOMAIN transcript' : FairMessage(transcript'[i], Stored')
    BY <1>1 DEF CollabInv, CollabTypeOK, Messages, Stored
  <1>. QED
    BY <1>1, <1>4, <1>5, EndKeeps

\* The service submits a proposal of the kind that was asked for, or nothing.
LEMMA SubmitKeeps ==
    ASSUME CollabInv, Submit
    PROVE  CollabInv'
  <1>1. /\ stage = "submit" /\ stage' = "done"
        /\ UNCHANGED <<operation, unanswered, contextSteps, gathered, transcript, evidenceStore,
                       loopResult>>
    BY DEF Submit
  <1>2. \/ mutated' = "none"
        \/ /\ loopResult.status = "finished" /\ loopResult.kind = KindOf[operation]
           /\ mutated' = loopResult.kind
    BY DEF Submit
  <1>3. CollabTypeOK /\ loopResult.kind \in ProposalKinds /\ "none" \in ProposalKinds
    BY DEF CollabInv, CollabTypeOK, Results, ProposalKinds
  <1>4. CollabTypeOK'
    BY <1>1, <1>2, <1>3 DEF CollabTypeOK
  <1>5. Stored' = Stored /\ (HasAsked' <=> HasAsked)
    BY <1>1 DEF Stored, HasAsked, IsSaid, SaidCall
  <1>6. (loopResult.refs \subseteq Stored \/ Named(loopResult.refs))'
    <2>1. loopResult.refs \subseteq Stored \/ Named(loopResult.refs)
      BY DEF CollabInv
    <2>2. CASE loopResult.refs \subseteq Stored
      BY <1>1, <1>5, <2>2
    <2>3. CASE Named(loopResult.refs)
      BY <1>1, <2>3 DEF Named, IsSaid, SaidCall
    <2>. QED
      BY <2>1, <2>2, <2>3
  <1>7. /\ (\A i \in DOMAIN transcript : FairMessage(transcript[i], Stored))'
        /\ (gathered \subseteq Stored)'
    BY <1>1, <1>5 DEF CollabInv
  <1>8. (HasAsked /\ operation # "create_raw_task" => loopResult.status = "rejected")'
    BY <1>1, <1>5 DEF CollabInv
  <1>9. (mutated # "none" => loopResult.status = "finished" /\ mutated = loopResult.kind
           /\ loopResult.kind = KindOf[operation])'
    BY <1>1, <1>2
  <1>. QED
    BY <1>1, <1>4, <1>6, <1>7, <1>8, <1>9 DEF CollabInv

\* Whatever the model calls, with any tools, limits and file length: the
\* transcript is in the provider's order before every request, what the model
\* was shown has a stored record and is not protected, a snippet holds its
\* match, the result hands on gathered or named evidence, and a mutation is of
\* the kind that was asked for and never follows from a question.
THEOREM CollaboratorIsSound == CollabSpec => []LoopSound
  <1>1. CollabInv => LoopSound
    <2>1. ASSUME CollabInv PROVE LoopSound
      <3>1. CollabTypeOK /\ \A i \in DOMAIN transcript : FairMessage(transcript[i], Stored)
        BY <2>1 DEF CollabInv
      <3>2. TranscriptPaired
        <4>1. ASSUME stage = "chat", NEW i \in DOMAIN transcript, transcript[i].role = "assistant"
              PROVE  /\ i + Len(transcript[i].calls) <= Len(transcript)
                     /\ \A k \in DOMAIN transcript[i].calls :
                          /\ transcript[i + k].role = "tool"
                          /\ transcript[i + k].call = transcript[i].calls[k]
          <5>1. InOrder(transcript, unanswered) /\ unanswered = <<>>
            BY <2>1, <4>1 DEF CollabInv
          <5>2. /\ transcript \in Seq(Messages) /\ Len(transcript) \in Nat
                /\ DOMAIN transcript = 1..Len(transcript)
            BY <2>1, CollabParts
          <5>3. PICK cs : cs = transcript[i].calls
            OBVIOUS
          <5>4. cs \in Seq(ToolCalls)
            <6>1. transcript[i] \in Messages
              BY <4>1, <5>2
            <6>. QED
              BY <4>1, <5>3, <6>1 DEF Messages, SaidMessages, ToolMessages
          <5>5. Len(cs) \in Nat /\ DOMAIN cs = 1..Len(cs) /\ Len(unanswered) = 0
            BY <5>1, <5>4, LenProperties
          <5>6. /\ i + Len(cs) <= Len(transcript) + Len(unanswered)
                /\ \A k \in DOMAIN cs : i + k <= Len(transcript) =>
                     transcript[i + k].role = "tool" /\ transcript[i + k].call = cs[k]
            BY <4>1, <5>1, <5>3 DEF InOrder
          <5>7. i + Len(cs) <= Len(transcript) /\ i \in Nat
            BY <4>1, <5>2, <5>5, <5>6
          <5>8. \A k \in DOMAIN cs : i + k <= Len(transcript)
            BY <5>2, <5>5, <5>7
          <5>. QED
            BY <5>3, <5>6, <5>7, <5>8
        <4>. QED
          BY <4>1 DEF TranscriptPaired, IsSaid, SaidCall
      <3>3. EvidenceStored
        BY <2>1, <3>1 DEF CollabInv, EvidenceStored, FairMessage
      <3>4. ProtectedUnseen /\ SnippetHoldsMatch
        BY <3>1 DEF ProtectedUnseen, SnippetHoldsMatch, FairMessage
      <3>5. MutationMatchesRequest
        BY <2>1 DEF CollabInv, CollabTypeOK, MutationMatchesRequest
      <3>. QED
        BY <3>1, <3>2, <3>3, <3>4, <3>5 DEF LoopSound
    <2>. QED
      BY <2>1
  <1>2. CollabInit => CollabInv
    <2>1. ASSUME CollabInit PROVE CollabInv
      <3>1. /\ transcript = <<>> /\ unanswered = <<>> /\ stage = "chat" /\ mutated = "none"
            /\ evidenceStore = {} /\ gathered = {} /\ loopResult = NoResult
            /\ operation \in DOMAIN KindOf /\ contextSteps = 0
        BY <2>1 DEF CollabInit
      <3>2. NoResult \in Results /\ NoResult.refs = {} /\ IsFiniteSet({})
        <4>1. {} \in SUBSET Nat /\ "none" \in ProposalKinds /\ "none" \in Causes
          BY DEF ProposalKinds, Causes
        <4>. QED
          BY <4>1, FS_EmptySet DEF NoResult, Results
      <3>3. DOMAIN transcript = {} /\ transcript \in Seq(SaidMessages \cup ToolMessages)
        BY <3>1
      <3>4. CollabTypeOK
        BY <3>1, <3>2, <3>3 DEF CollabTypeOK, ProposalKinds
      <3>5. InOrder(transcript, unanswered) /\ NoTerminalYet /\ ~HasAsked
        BY <3>3 DEF InOrder, NoTerminalYet, HasAsked
      <3>. QED
        BY <3>1, <3>2, <3>3, <3>4, <3>5 DEF CollabInv
    <2>. QED
      BY <2>1
  <1>3. CollabInv /\ [CollabNext]_collabVars => CollabInv'
    <2>1. ASSUME CollabInv, CollabNext PROVE CollabInv'
      BY <2>1, ContentKeeps, TerminalCallKeeps, ContextCallsKeeps, ReadKeeps, SearchKeeps,
         RefuseKeepsLoop, SubmitKeeps DEF CollabNext
    <2>2. ASSUME CollabInv, UNCHANGED collabVars PROVE CollabInv'
      BY <2>2 DEF CollabInv, CollabTypeOK, collabVars, Stored, Named, HasAsked, NoTerminalYet,
                  IsSaid, SaidCall
    <2>. QED
      BY <2>1, <2>2
  <1>. QED
    BY <1>1, <1>2, <1>3, PTL DEF CollabSpec
-----------------------------------------------------------------------------
(* Read-only questions: evidence, rounds and the answer.                   *)

\* What is in a sequence with one more element.
LEMMA RangeOfAppend ==
    ASSUME NEW S, NEW q \in Seq(S), NEW e \in S
    PROVE  Range(Append(q, e)) = Range(q) \cup {e}
  <1>1. DOMAIN q = 1 .. Len(q) /\ Len(q) \in Nat
    BY LenProperties
  <1>2. PICK p : p = Append(q, e)
    OBVIOUS
  <1>3. DOMAIN p = 1 .. Len(q) + 1
    BY <1>2, AppendShape, LenProperties
  <1>4. /\ \A i \in 1 .. Len(q) : p[i] = q[i]
        /\ p[Len(q) + 1] = e
    BY <1>2, AppendShape
  <1>5. Range(p) \subseteq Range(q) \cup {e}
    <2>1. ASSUME NEW i \in 1 .. Len(q) + 1 PROVE p[i] \in Range(q) \cup {e}
      <3>1. CASE i = Len(q) + 1
        BY <1>4, <3>1
      <3>2. CASE i # Len(q) + 1
        BY <1>1, <1>4, <3>2 DEF Range
      <3>. QED
        BY <3>1, <3>2
    <2>. QED
      BY <1>3, <2>1 DEF Range
  <1>6. Range(q) \cup {e} \subseteq Range(p)
    <2>1. ASSUME NEW i \in 1 .. Len(q) PROVE q[i] \in Range(p)
      <3>1. i \in DOMAIN p
        BY <1>1, <1>3
      <3>. QED
        BY <1>4, <3>1 DEF Range
    <2>2. e \in Range(p)
      BY <1>1, <1>3, <1>4 DEF Range
    <2>. QED
      BY <1>1, <2>1, <2>2 DEF Range
  <1>. QED
    BY <1>2, <1>5, <1>6

\* What is in two sequences, one after the other.
LEMMA RangeOfConcat ==
    ASSUME NEW S, NEW q \in Seq(S), NEW r \in Seq(S)
    PROVE  Range(q \o r) = Range(q) \cup Range(r)
  <1>1. /\ DOMAIN q = 1 .. Len(q) /\ Len(q) \in Nat /\ DOMAIN r = 1 .. Len(r) /\ Len(r) \in Nat
    BY LenProperties
  <1>2. PICK p : p = q \o r
    OBVIOUS
  <1>3. p \in Seq(S) /\ Len(p) = Len(q) + Len(r)
    BY <1>2, ConcatProperties
  <1>4. DOMAIN p = 1 .. Len(q) + Len(r)
    BY <1>3, LenProperties
  <1>5. \A i \in 1 .. Len(q) + Len(r) : p[i] = IF i <= Len(q) THEN q[i] ELSE r[i - Len(q)]
    BY <1>2, ConcatProperties
  <1>6. ASSUME NEW i \in 1 .. Len(q) + Len(r) PROVE p[i] \in Range(q) \cup Range(r)
    <2>1. CASE i <= Len(q)
      <3>1. i \in DOMAIN q
        BY <1>1, <2>1
      <3>. QED
        BY <1>5, <2>1, <3>1 DEF Range
    <2>2. CASE ~(i <= Len(q))
      <3>1. i - Len(q) \in DOMAIN r
        BY <1>1, <2>2
      <3>. QED
        BY <1>5, <2>2, <3>1 DEF Range
    <2>. QED
      BY <2>1, <2>2
  <1>7. ASSUME NEW i \in DOMAIN q PROVE q[i] \in Range(p)
    <2>1. i \in DOMAIN p /\ i <= Len(q)
      BY <1>1, <1>4
    <2>. QED
      BY <1>4, <1>5, <2>1 DEF Range
  <1>8. ASSUME NEW i \in DOMAIN r PROVE r[i] \in Range(p)
    <2>1. PICK k \in Nat : k = Len(q) + i
      BY <1>1
    <2>2. k \in DOMAIN p /\ ~(k <= Len(q)) /\ k - Len(q) = i
      BY <1>1, <1>4, <2>1
    <2>. QED
      BY <1>4, <1>5, <2>2 DEF Range
  <1>9. Range(p) \subseteq Range(q) \cup Range(r)
    BY <1>4, <1>6 DEF Range
  <1>10. Range(q) \subseteq Range(p)
    <2>1. Range(q) = {q[i] : i \in DOMAIN q}
      BY DEF Range
    <2>. QED
      BY <1>7, <2>1
  <1>11. Range(r) \subseteq Range(p)
    <2>1. Range(r) = {r[i] : i \in DOMAIN r}
      BY DEF Range
    <2>. QED
      BY <1>8, <2>1
  <1>. QED
    BY <1>2, <1>9, <1>10, <1>11

\* What is in a sequence that is not empty is its head or behind it.
LEMMA RangeOfTail ==
    ASSUME NEW S, NEW q \in Seq(S), q # <<>>
    PROVE  /\ Head(q) \in S /\ Tail(q) \in Seq(S)
           /\ Range(q) = {Head(q)} \cup Range(Tail(q))
  <1>1. DOMAIN q = 1 .. Len(q) /\ Len(q) \in Nat /\ Len(q) # 0
    BY LenProperties, EmptySeq
  <1>2. PICK p : p = Tail(q)
    OBVIOUS
  <1>3. /\ Head(q) \in S /\ p \in Seq(S) /\ Len(p) = Len(q) - 1 /\ Head(q) = q[1]
        /\ \A i \in 1 .. Len(p) : p[i] = q[i + 1]
    BY <1>2, HeadTailProperties
  <1>4. DOMAIN p = 1 .. Len(q) - 1
    BY <1>3, LenProperties
  <1>5. ASSUME NEW i \in DOMAIN q PROVE q[i] \in {Head(q)} \cup Range(p)
    <2>1. CASE i = 1
      BY <1>3, <2>1
    <2>2. CASE i # 1
      <3>1. PICK k \in 1 .. Len(q) - 1 : k + 1 = i
        BY <1>1, <2>2
      <3>. QED
        BY <1>3, <1>4, <3>1 DEF Range
    <2>. QED
      BY <2>1, <2>2
  <1>6. ASSUME NEW i \in DOMAIN p PROVE p[i] \in Range(q)
    <2>1. i + 1 \in DOMAIN q
      BY <1>1, <1>4
    <2>. QED
      BY <1>3, <1>4, <2>1 DEF Range
  <1>7. Head(q) \in Range(q)
    BY <1>1, <1>3 DEF Range
  <1>. QED
    BY <1>2, <1>3, <1>5, <1>6, <1>7 DEF Range

\* The first ones of a list are in it, and no more than allowed.
LEMMA FirstOnes ==
    ASSUME NEW S, NEW list \in Seq(S)
    PROVE  /\ FirstCited(list) \subseteq Range(list) /\ IsFiniteSet(FirstCited(list))
           /\ Cardinality(FirstCited(list)) <= MaxCited
  <1>1. DOMAIN list = 1 .. Len(list) /\ Len(list) \in Nat /\ MaxCited \in Nat
    BY LenProperties, InquiryAssumption
  <1>2. PICK n \in Nat : n = IF Len(list) < MaxCited THEN Len(list) ELSE MaxCited
    BY <1>1
  <1>3. n <= Len(list) /\ n <= MaxCited
    <2>1. CASE Len(list) < MaxCited
      BY <1>1, <1>2, <2>1
    <2>2. CASE ~(Len(list) < MaxCited)
      BY <1>1, <1>2, <2>2
    <2>. QED
      BY <2>1, <2>2
  <1>4. PICK T : T = FirstCited(list)
    OBVIOUS
  <1>5. T = {list[i] : i \in 1 .. n}
    BY <1>2, <1>4 DEF FirstCited
  <1>6. PICK f : f = [i \in 1 .. n |-> list[i]]
    OBVIOUS
  <1>7. f \in Surjection(1 .. n, T)
    BY <1>5, <1>6 DEF Surjection
  <1>8. IsFiniteSet(1 .. n) /\ Cardinality(1 .. n) = n
    <2>1. PICK one \in Int : one = 1
      OBVIOUS
    <2>2. n \in Int
      BY <1>2
    <2>3. IsFiniteSet(one .. n) /\ Cardinality(one .. n) = IF one > n THEN 0 ELSE n - one + 1
      BY <2>2, FS_Interval
    <2>4. (IF one > n THEN 0 ELSE n - one + 1) = n
      BY <1>2, <2>1
    <2>. QED
      BY <2>1, <2>3, <2>4
  <1>9. IsFiniteSet(T) /\ Cardinality(T) <= n
    BY <1>7, <1>8, FS_Surjection
  <1>10. Cardinality(T) \in Nat
    BY <1>9, FS_CardinalityType
  <1>11. T \subseteq Range(list)
    BY <1>1, <1>3, <1>5 DEF Range
  <1>12. Cardinality(T) <= MaxCited
    <2>1. \A a, b, c \in Nat : a <= b /\ b <= c => a <= c
      OBVIOUS
    <2>. QED
      BY <1>1, <1>2, <1>3, <1>9, <1>10, <2>1
  <1>. QED
    BY <1>4, <1>9, <1>11, <1>12
\* A response that may be given: it cites what was found, and its answer is
\* the baseline with every ref accounted for, or a reply with its grounds.
SoundResponse(r) ==
    /\ r.evidence \subseteq Range(evidence)
    /\ r.status = "answered" =>
         \/ /\ r.answer.kind = "status"
            /\ \A ref \in Range(inquiry.refs) :
                  ref.kind \notin PassedOver => ref.id \in r.evidence \/ ref \in r.warnings
         \/ /\ r.answer.kind \in {"text", "json"} /\ ~r.answer.mutating
            /\ r.answer.kind = "text" => r.evidence # {} /\ HasWebEvidence
            /\ r.answer.kind = "json" => (r.answer.mode = "evidence_based" <=> r.evidence # {})

\* The fields of a response.
LEMMA AnswerShape ==
    ASSUME NEW s, NEW a, NEW c, NEW w
    PROVE  /\ Response(s, a, c, w).status = s /\ Response(s, a, c, w).answer = a
           /\ Response(s, a, c, w).evidence = c /\ Response(s, a, c, w).warnings = w
  BY DEF Response

\* What is not an answer needs no grounds.
LEMMA NoAnswerIsSound ==
    ASSUME NEW r, r.evidence \subseteq Range(evidence), r.status # "answered"
    PROVE  SoundResponse(r)
  BY DEF SoundResponse

\* The baseline may be given: without the model's reading of them, results of
\* a search are no answer.
LEMMA FallbackIsSound ==
    ASSUME InquiryInv, inquiryAt \in {"chat", "search"}, NEW code
    PROVE  SoundResponse(Fallback(code))
  <1>1. /\ \A ref \in Range(inquiry.refs) : Accounted(ref)
        /\ baseline \in {"none", "status", "web"} /\ baseline # "none"
        /\ baseline = "web" => HasWebEvidence
    BY DEF InquiryInv, FoundInv, RoundsInv, InquirySound, InquiryTypeOK
  <1>2. PICK w : w = warned \cup {Warning(code)}
    OBVIOUS
  <1>3. PICK c : c = Range(evidence)
    OBVIOUS
  <1>4. CASE baseline = "web"
    <2>1. PICK a : a = NoReply
      OBVIOUS
    <2>2. PICK r : r = Response("unsupported", a, c, w)
      OBVIOUS
    <2>3. Fallback(code) = r
      BY <1>1, <1>2, <1>3, <1>4, <2>1, <2>2 DEF Fallback
    <2>4. r.status # "answered" /\ r.evidence = c
      BY <2>2, AnswerShape
    <2>. QED
      BY <1>3, <2>3, <2>4, NoAnswerIsSound
  <1>5. CASE baseline = "status"
    <2>1. PICK a : a = Baseline("status")
      OBVIOUS
    <2>2. a.kind = "status"
      BY <2>1 DEF Baseline
    <2>3. PICK r : r = Response("answered", a, c, w)
      OBVIOUS
    <2>4. Fallback(code) = r
      BY <1>2, <1>3, <1>5, <2>1, <2>3 DEF Fallback
    <2>5. r.answer = a /\ r.evidence = c /\ r.warnings = w
      BY <2>3, AnswerShape
    <2>6. \A ref \in Range(inquiry.refs) :
             ref.kind \notin PassedOver => ref.id \in c \/ ref \in w
      BY <1>1, <1>2, <1>3 DEF Accounted
    <2>. QED
      BY <1>3, <2>2, <2>4, <2>5, <2>6 DEF SoundResponse
  <1>. QED
    BY <1>1, <1>4, <1>5

\* A reply that is validated cites what was found, and if it answers it has
\* the grounds it claims.
LEMMA ValidatedIsSound ==
    ASSUME InquiryInv, NEW reply \in Replies, reply.kind # "error", ~Refused(reply), NEW v,
           v = Validated(reply)
    PROVE  /\ SoundResponse(v)
           /\ v.status = "answered" => v.answer.kind # "status"
  <1>1. reply.kind \in {"text", "json"} /\ ~reply.mutating
    BY InquiryAssumption DEF Refused
  <1>2. PICK none : none = NoReply
    OBVIOUS
  <1>3. PICK found : found = Range(evidence)
    OBVIOUS
  <1>4. evidence \in Seq(EvidenceIds \cup WebIds)
    BY DEF InquiryInv, InquirySound, InquiryTypeOK
  <1>5. v = Unusable => SoundResponse(v) /\ v.status # "answered"
    <2>1. SUFFICES ASSUME v = Unusable PROVE SoundResponse(v) /\ v.status # "answered"
      OBVIOUS
    <2>2. v.status = "none" /\ v.evidence = {}
      BY <2>1 DEF Unusable, Response
    <2>. QED
      BY <2>2, NoAnswerIsSound
  <1>6. CASE reply.kind = "text"
    <2>1. v = ValidatedPlainText(reply)
      BY <1>6 DEF Validated
    <2>2. CASE ~HasWebEvidence \/ Shown = {}
      BY <1>5, <2>1, <2>2 DEF ValidatedPlainText
    <2>3. CASE HasWebEvidence /\ Shown # {}
      <3>1. PICK c : c = Shown
        OBVIOUS
      <3>2. PICK w : w = {}
        OBVIOUS
      <3>3. v = Response("answered", reply, c, w)
        BY <2>1, <2>3, <3>1, <3>2 DEF ValidatedPlainText
      <3>4. v.status = "answered" /\ v.answer = reply /\ v.evidence = c
        BY <3>3, AnswerShape
      <3>5. c \subseteq Range(evidence)
        BY <1>4, <3>1, FirstOnes DEF Shown
      <3>. QED
        BY <1>1, <1>6, <2>3, <3>1, <3>4, <3>5 DEF SoundResponse
    <2>. QED
      BY <2>2, <2>3
  <1>7. CASE reply.kind = "json"
    <2>1. v = ValidatedPayload(reply)
      BY <1>7 DEF Validated
    <2>2. PICK cited : cited = FirstCited(reply.cited)
      OBVIOUS
    <2>3. PICK some : some = IF cited = {} THEN found ELSE cited
      OBVIOUS
    <2>4. \/ v = Unusable
          \/ /\ cited \subseteq found
             /\ \E status \in Statuses \ {"answered"} : \E w : v = Response(status, none, some, w)
          \/ /\ cited \subseteq found
             /\ v = Response("answered", reply, cited, {})
             /\ reply.mode \in AnswerModes
             /\ ~(reply.mode = "self_contained" /\ cited # {})
             /\ ~(reply.mode = "evidence_based" /\ cited = {})
      <3>1. CASE reply.status \notin Statuses \/ ~(cited \subseteq found)
        BY <1>3, <2>1, <2>2, <3>1 DEF ValidatedPayload
      <3>2. CASE reply.status \in Statuses /\ cited \subseteq found /\ reply.status # "answered"
        <4>1. PICK w : w = {Warning(IF reply.status = "rejected" THEN "no_mutation_boundary"
                                    ELSE "unsupported_question")}
          OBVIOUS
        <4>2. v = Response(reply.status, none, some, w)
          BY <1>2, <1>3, <2>1, <2>2, <2>3, <3>2, <4>1 DEF ValidatedPayload
        <4>. QED
          BY <3>2, <4>2
      <3>3. CASE /\ reply.status = "answered" /\ cited \subseteq found /\ "answered" \in Statuses
                 /\ reply.mode \notin AnswerModes \/ (reply.mode = "self_contained" /\ cited # {})
        BY <1>3, <2>1, <2>2, <3>3 DEF ValidatedPayload
      <3>4. CASE /\ reply.status = "answered" /\ cited \subseteq found /\ "answered" \in Statuses
                 /\ reply.mode \in AnswerModes /\ ~(reply.mode = "self_contained" /\ cited # {})
                 /\ reply.mode = "evidence_based" /\ cited = {}
        <4>1. PICK w : w = {Warning("citation_required")}
          OBVIOUS
        <4>2. v = Response("unsupported", none, some, w)
          BY <1>2, <1>3, <2>1, <2>2, <2>3, <3>4, <4>1 DEF ValidatedPayload
        <4>3. "unsupported" \in Statuses \ {"answered"}
          BY DEF Statuses
        <4>. QED
          BY <3>4, <4>2, <4>3
      <3>5. CASE /\ reply.status = "answered" /\ cited \subseteq found /\ "answered" \in Statuses
                 /\ reply.mode \in AnswerModes /\ ~(reply.mode = "self_contained" /\ cited # {})
                 /\ ~(reply.mode = "evidence_based" /\ cited = {})
        <4>1. v = IF ~reply.body THEN Unusable ELSE Response("answered", reply, cited, {})
          BY <1>3, <2>1, <2>2, <3>5 DEF ValidatedPayload
        <4>. QED
          BY <3>5, <4>1
      <3>6. "answered" \in Statuses
        BY DEF Statuses
      <3>. QED
        BY <3>1, <3>2, <3>3, <3>4, <3>5, <3>6
    <2>5. ASSUME NEW status \in Statuses \ {"answered"}, NEW w, v = Response(status, none, some, w),
                 cited \subseteq found
          PROVE  SoundResponse(v) /\ v.status # "answered"
      <3>1. v.status = status /\ v.evidence = some
        BY <2>5, AnswerShape
      <3>2. some \subseteq Range(evidence)
        BY <1>3, <2>3, <2>5
      <3>. QED
        BY <2>5, <3>1, <3>2, NoAnswerIsSound
    <2>6. ASSUME cited \subseteq found, v = Response("answered", reply, cited, {}),
                 reply.mode \in AnswerModes, ~(reply.mode = "self_contained" /\ cited # {}),
                 ~(reply.mode = "evidence_based" /\ cited = {})
          PROVE  SoundResponse(v) /\ v.answer.kind # "status"
      <3>1. PICK w : w = {}
        OBVIOUS
      <3>2. v.status = "answered" /\ v.answer = reply /\ v.evidence = cited
        BY <2>6, <3>1, AnswerShape
      <3>3. reply.mode = "evidence_based" <=> cited # {}
        BY <2>6 DEF AnswerModes
      <3>. QED
        BY <1>1, <1>3, <1>7, <2>6, <3>2, <3>3 DEF SoundResponse
    <2>. QED
      BY <1>5, <2>4, <2>5, <2>6
  <1>. QED
    BY <1>1, <1>6, <1>7
-----------------------------------------------------------------------------
(* The steps of a question.                                                *)

\* A sound response ends the request.
LEMMA ResponseKeeps ==
    ASSUME InquiryInv, NEW r, SoundResponse(r), inquiryAt # "idle",
           inquiryAt' = "done", inquiryResult' = r,
           UNCHANGED <<helpers, holds, holdsChanged, inquiry, refsLeft, baseline, evidence>>,
           snapshotHeld' \subseteq EvidenceIds, BoundedAndDiscreet',
           shownSets' \in Seq(Prompts),
           baseline = "web" => HasWebEvidence
    PROVE  InquiryInv'
  <1>1. InquiryTypeOK /\ FoundInv
    BY DEF InquiryInv, InquirySound
  <1>2. InquiryTypeOK'
    BY <1>1 DEF InquiryTypeOK, Stages
  <1>3. HasWebEvidence' <=> HasWebEvidence
    BY DEF HasWebEvidence
  <1>4. FoundInv' /\ RoundsInv' /\ ParsedInv'
    BY <1>1, <1>3 DEF FoundInv, RoundsInv, ParsedInv, RefIds
  <1>5. EvidenceIsFound'
    <2>1. Range(evidence) \subseteq {inquiry.scope} \cup RefIds \cup WebIds
      BY <1>1 DEF FoundInv
    <2>2. RefIds' = RefIds
      BY DEF RefIds
    <2>. QED
      BY <2>1, <2>2 DEF EvidenceIsFound, SoundResponse
  <1>6. NothingToChange' /\ WebIsNotTheAnswer'
    BY DEF NothingToChange, WebIsNotTheAnswer, FromModel, GaveAnswer, SoundResponse
  <1>7. AnswerIsGrounded'
    BY <1>3 DEF AnswerIsGrounded, FromModel, GaveAnswer, SoundResponse
  <1>8. RefsAccounted'
    BY DEF RefsAccounted, GaveAnswer, SoundResponse
  <1>. QED
    BY <1>2, <1>4, <1>5, <1>6, <1>7, <1>8 DEF InquiryInv, InquirySound

\* Before the response there is nothing to hold against it.
LEMMA StillOpen ==
    ASSUME inquiryAt' # "done", InquiryTypeOK', BoundedAndDiscreet', FoundInv', RoundsInv', ParsedInv'
    PROVE  InquiryInv'
  BY DEF InquiryInv, InquirySound, NothingToChange, EvidenceIsFound, AnswerIsGrounded,
         WebIsNotTheAnswer, RefsAccounted, FromModel, GaveAnswer, Gave

\* The request arrives.
LEMMA AskInquiryKeeps ==
    ASSUME InquiryInv, NEW q \in Inquiries, AskInquiry(q)
    PROVE  InquiryInv'
  <1>1. /\ inquiryAt = "idle" /\ inquiryAt' = "snapshot" /\ inquiry' = q /\ refsLeft' = q.refs
        /\ UNCHANGED <<helpers, holds, holdsChanged, snapshotHeld, baseline, evidence, warned,
                       parsedReply, shownSets, inquiryResult>>
    BY DEF AskInquiry
  <1>2. InquiryTypeOK /\ FoundInv /\ RoundsInv /\ BoundedAndDiscreet
    BY DEF InquiryInv, InquirySound
  <1>3. refsLeft' \in Seq(Range(inquiry'.refs))
    BY <1>1, InquiryAssumption
  <1>4. InquiryTypeOK'
    BY <1>1, <1>2, <1>3 DEF InquiryTypeOK, Stages
  <1>5. evidence' = <<>> /\ baseline' = "none" /\ shownSets' = <<>> /\ Range(evidence') = {}
    BY <1>1, <1>2 DEF RoundsInv, Range
  <1>6. FoundInv' /\ RoundsInv' /\ ParsedInv' /\ BoundedAndDiscreet'
    BY <1>1, <1>2, <1>5 DEF FoundInv, RoundsInv, ParsedInv, BoundedAndDiscreet, RefIds
  <1>. QED
    BY <1>1, <1>4, <1>6, StillOpen

\* The snapshot is read, and the baseline made of it.
LEMMA SnapshotKeeps ==
    ASSUME InquiryInv, Snapshot
    PROVE  InquiryInv'
  <1>1. /\ inquiryAt = "snapshot" /\ snapshotHeld' = holds
        /\ UNCHANGED <<helpers, holds, holdsChanged, inquiry, refsLeft, warned, parsedReply, shownSets>>
    BY DEF Snapshot
  <1>2. InquiryTypeOK /\ FoundInv /\ RoundsInv /\ BoundedAndDiscreet
    BY DEF InquiryInv, InquirySound
  <1>3. evidence = <<>> /\ baseline = "none" /\ shownSets = <<>>
    BY <1>1, <1>2 DEF RoundsInv
  <1>4. /\ snapshotHeld' \subseteq EvidenceIds /\ BoundedAndDiscreet'
        /\ shownSets' \in Seq(Prompts)
    BY <1>1, <1>2 DEF InquiryTypeOK, BoundedAndDiscreet, RefIds
  <1>5. CASE inquiry.scope \notin holds \/ "session" \notin holds
    <2>1. PICK s : s = IF "session" \notin holds THEN "unsupported" ELSE "needs_clarification"
      OBVIOUS
    <2>2. PICK a : a = NoReply
      OBVIOUS
    <2>3. PICK c : c = {}
      OBVIOUS
    <2>4. PICK w : w = {Warning("context_empty")}
      OBVIOUS
    <2>5. PICK r : r = Response(s, a, c, w)
      OBVIOUS
    <2>6. Respond(r) /\ UNCHANGED <<baseline, evidence>>
      BY <1>5, <2>1, <2>2, <2>3, <2>4, <2>5 DEF Snapshot
    <2>7. r.status # "answered" /\ r.evidence = {}
      BY <2>1, <2>3, <2>5, AnswerShape
    <2>8. SoundResponse(r)
      BY <2>7, NoAnswerIsSound
    <2>. QED
      BY <1>1, <1>3, <1>4, <2>6, <2>8, ResponseKeeps DEF Respond
  <1>6. CASE inquiry.scope \in holds /\ "session" \in holds
    <2>1. /\ baseline' = "status" /\ evidence' = <<inquiry.scope>> /\ inquiryAt' = "refs"
          /\ UNCHANGED inquiryResult
      BY <1>6 DEF Snapshot
    <2>2. PICK scope \in EvidenceIds : scope = inquiry.scope
      BY <1>2, <1>6 DEF InquiryTypeOK
    <2>3. evidence' \in Seq(EvidenceIds \cup WebIds) /\ Range(evidence') = {scope}
      BY <2>1, <2>2 DEF Range
    <2>4. InquiryTypeOK'
      BY <1>1, <1>2, <1>4, <2>1, <2>3 DEF InquiryTypeOK, Stages
    <2>5. Range(evidence) = {}
      BY <1>3 DEF Range
    <2>6. FoundInv'
      BY <1>1, <1>2, <2>1, <2>2, <2>3, <2>5 DEF FoundInv, Accounted, RefIds
    <2>7. RoundsInv' /\ ParsedInv'
      BY <1>1, <1>3, <2>1 DEF RoundsInv, ParsedInv
    <2>. QED
      BY <1>4, <2>1, <2>4, <2>6, <2>7, StillOpen
  <1>. QED
    BY <1>5, <1>6

\* A ref is read, or warned of.
LEMMA ReadRefKeeps ==
    ASSUME InquiryInv, ReadRef
    PROVE  InquiryInv'
  <1>1. /\ inquiryAt = "refs" /\ refsLeft # <<>> /\ refsLeft' = Tail(refsLeft)
        /\ UNCHANGED <<helpers, holds, holdsChanged, inquiryAt, inquiry, snapshotHeld, baseline,
                       parsedReply, shownSets, inquiryResult>>
    BY DEF ReadRef
  <1>2. InquiryTypeOK /\ FoundInv /\ RoundsInv /\ BoundedAndDiscreet
    BY DEF InquiryInv, InquirySound
  <1>3. PICK refs : refs = Range(inquiry.refs)
    OBVIOUS
  <1>4. refsLeft \in Seq(refs)
    BY <1>2, <1>3 DEF InquiryTypeOK
  <1>5. PICK ref \in refs : ref = Head(refsLeft)
    BY <1>1, <1>4, RangeOfTail
  <1>6. refsLeft' \in Seq(refs) /\ Range(refsLeft) = {ref} \cup Range(refsLeft')
    BY <1>1, <1>4, <1>5, RangeOfTail
  <1>7. \/ ref.id \in EvidenceIds /\ evidence' = Append(evidence, ref.id) /\ warned' = warned
        \/ warned' = warned \cup {ref} /\ evidence' = evidence
        \/ ref.kind \in PassedOver /\ warned' = warned /\ evidence' = evidence
    BY <1>2, <1>5 DEF ReadRef, Found, LookedUp, InquiryTypeOK
  <1>8. evidence \in Seq(EvidenceIds \cup WebIds)
    BY <1>2 DEF InquiryTypeOK
  <1>9. /\ evidence' \in Seq(EvidenceIds \cup WebIds)
        /\ \/ Range(evidence') = Range(evidence) \cup {ref.id} /\ warned' = warned
           \/ Range(evidence') = Range(evidence) /\ warned' = warned \cup {ref}
           \/ ref.kind \in PassedOver /\ Range(evidence') = Range(evidence) /\ warned' = warned
    <2>1. CASE ref.id \in EvidenceIds /\ evidence' = Append(evidence, ref.id) /\ warned' = warned
      <3>1. PICK id \in EvidenceIds \cup WebIds : id = ref.id
        BY <2>1
      <3>2. /\ Append(evidence, id) \in Seq(EvidenceIds \cup WebIds)
            /\ Range(Append(evidence, id)) = Range(evidence) \cup {id}
        BY <1>8, <3>1, AppendShape, RangeOfAppend
      <3>. QED
        BY <2>1, <3>1, <3>2
    <2>2. CASE warned' = warned \cup {ref} /\ evidence' = evidence
      BY <1>8, <2>2
    <2>3. CASE ref.kind \in PassedOver /\ warned' = warned /\ evidence' = evidence
      BY <1>8, <2>3
    <2>. QED
      BY <1>7, <2>1, <2>2, <2>3
  <1>10. InquiryTypeOK'
    BY <1>1, <1>2, <1>3, <1>6, <1>9 DEF InquiryTypeOK
  <1>11. RefIds' = RefIds /\ ref.id \in RefIds
    BY <1>1, <1>3, <1>5 DEF RefIds
  <1>12. Range(evidence') \subseteq {inquiry.scope} \cup RefIds \cup WebIds
    BY <1>2, <1>9, <1>11 DEF FoundInv
  <1>13. \A other \in refs : Accounted(other)' \/ other \in Range(refsLeft')
    <2>1. \A other \in refs : Accounted(other) \/ other \in Range(refsLeft)
      BY <1>1, <1>2, <1>3 DEF FoundInv
    <2>. QED
      BY <1>6, <1>9, <2>1 DEF Accounted
  <1>14. FoundInv'
    BY <1>1, <1>3, <1>11, <1>12, <1>13 DEF FoundInv
  <1>15. RoundsInv' /\ ParsedInv' /\ BoundedAndDiscreet'
    <2>1. shownSets = <<>> /\ baseline # "none" /\ baseline # "web"
      BY <1>1, <1>2 DEF RoundsInv
    <2>. QED
      BY <1>1, <1>2, <2>1 DEF RoundsInv, ParsedInv, BoundedAndDiscreet, RefIds
  <1>. QED
    BY <1>1, <1>10, <1>14, <1>15, StillOpen

\* The refs are read: the model is asked, or the baseline is the answer.
LEMMA RefsReadKeeps ==
    ASSUME InquiryInv, RefsRead
    PROVE  InquiryInv'
  <1>1. /\ inquiryAt = "refs" /\ refsLeft = <<>>
        /\ UNCHANGED <<helpers, holds, holdsChanged, inquiry, refsLeft, snapshotHeld, baseline,
                       evidence, warned, parsedReply, shownSets>>
    BY DEF RefsRead
  <1>2. InquiryTypeOK /\ FoundInv /\ RoundsInv /\ BoundedAndDiscreet
    BY DEF InquiryInv, InquirySound
  <1>3. \A ref \in Range(inquiry.refs) : Accounted(ref)
    <2>1. Range(refsLeft) = {}
      BY <1>1 DEF Range
    <2>. QED
      BY <1>1, <1>2, <2>1 DEF FoundInv
  <1>4. baseline = "status" /\ shownSets = <<>>
    BY <1>1, <1>2 DEF RoundsInv, InquiryTypeOK
  <1>5. /\ snapshotHeld' \subseteq EvidenceIds /\ BoundedAndDiscreet'
        /\ shownSets' \in Seq(Prompts)
    BY <1>1, <1>2 DEF InquiryTypeOK, BoundedAndDiscreet, RefIds
  <1>6. CASE "model" \in helpers
    <2>1. inquiryAt' = "chat" /\ UNCHANGED inquiryResult
      BY <1>6 DEF RefsRead
    <2>2. InquiryTypeOK'
      BY <1>1, <1>2, <2>1 DEF InquiryTypeOK, Stages
    <2>3. FoundInv'
      BY <1>1, <1>2, <1>3, <2>1 DEF FoundInv, Accounted, RefIds
    <2>4. RoundsInv' /\ ParsedInv'
      BY <1>1, <1>4, <2>1 DEF RoundsInv, ParsedInv
    <2>. QED
      BY <1>5, <2>1, <2>2, <2>3, <2>4, StillOpen
  <1>7. CASE "model" \notin helpers
    <2>1. PICK a : a = Baseline("status")
      OBVIOUS
    <2>2. PICK c : c = Range(evidence)
      OBVIOUS
    <2>3. PICK w : w = warned
      OBVIOUS
    <2>4. PICK r : r = Response("answered", a, c, w)
      OBVIOUS
    <2>5. Respond(r)
      BY <1>4, <1>7, <2>1, <2>2, <2>3, <2>4 DEF RefsRead
    <2>6. r.answer = a /\ r.evidence = c /\ r.warnings = w /\ a.kind = "status"
      BY <2>1, <2>4, AnswerShape DEF Baseline
    <2>7. SoundResponse(r)
      BY <1>3, <2>2, <2>3, <2>6 DEF SoundResponse, Accounted
    <2>. QED
      BY <1>1, <1>4, <1>5, <2>5, <2>7, ResponseKeeps DEF Respond
  <1>. QED
    BY <1>6, <1>7
\* What the model is shown: nothing hidden and no more than allowed.
LEMMA ShownIsDiscreet ==
    ASSUME InquiryInv
    PROVE  /\ Shown \subseteq Range(evidence) /\ Shown \in SUBSET (EvidenceIds \cup WebIds)
           /\ Shown \cap HiddenIds = {} /\ Cardinality(Shown) <= MaxCited
  <1>1. evidence \in Seq(EvidenceIds \cup WebIds)
    BY DEF InquiryInv, InquirySound, InquiryTypeOK
  <1>2. Range(evidence) \subseteq EvidenceIds \cup WebIds
    BY <1>1 DEF Range
  <1>3. PICK S : S = FirstCited(evidence)
    OBVIOUS
  <1>4. S \subseteq Range(evidence) /\ IsFiniteSet(S) /\ Cardinality(S) <= MaxCited
    BY <1>1, <1>3, FirstOnes
  <1>5. PICK T : T = S \ HiddenIds
    OBVIOUS
  <1>6. IsFiniteSet(T) /\ Cardinality(T) <= Cardinality(S)
    BY <1>4, <1>5, FS_Subset
  <1>7. Cardinality(T) \in Nat /\ Cardinality(S) \in Nat /\ MaxCited \in Nat
    BY <1>4, <1>6, FS_CardinalityType, InquiryAssumption
  <1>8. Cardinality(T) <= MaxCited
    BY <1>4, <1>6, <1>7
  <1>9. Shown = T
    BY <1>3, <1>5 DEF Shown
  <1>. QED
    BY <1>2, <1>4, <1>5, <1>8, <1>9

\* Asked once more, the model has been asked twice at most.
LEMMA OneMoreRound ==
    ASSUME InquiryInv, inquiryAt = "chat", shownSets' = Append(shownSets, Prompt),
           UNCHANGED inquiry
    PROVE  /\ BoundedAndDiscreet' /\ shownSets' \in Seq(Prompts)
           /\ ~HasWebEvidence => Len(shownSets') = 1
  <1>1. /\ shownSets \in Seq(Prompts) /\ BoundedAndDiscreet
        /\ shownSets = <<>> \/ (Len(shownSets) = 1 /\ HasWebEvidence)
    BY DEF InquiryInv, InquirySound, InquiryTypeOK, RoundsInv
  <1>2. PICK now \in Prompts :
          /\ now = Prompt /\ now.citable \cap HiddenIds = {} /\ Cardinality(now.citable) <= MaxCited
          /\ now.told \subseteq {inquiry.scope} \cup RefIds \cup WebIds
    <2>1. PICK c, t : c = Shown /\ t = Range(evidence)
      OBVIOUS
    <2>2. /\ c \in SUBSET (EvidenceIds \cup WebIds) /\ c \cap HiddenIds = {}
          /\ Cardinality(c) <= MaxCited
      BY <2>1, ShownIsDiscreet
    <2>3. t \subseteq {inquiry.scope} \cup RefIds \cup WebIds
      BY <2>1 DEF InquiryInv, FoundInv
    <2>4. evidence \in Seq(EvidenceIds \cup WebIds)
      BY DEF InquiryInv, InquirySound, InquiryTypeOK
    <2>5. t \in SUBSET (EvidenceIds \cup WebIds)
      BY <2>1, <2>4 DEF Range
    <2>6. PICK m : m = [citable |-> c, told |-> t]
      OBVIOUS
    <2>7. m \in Prompts /\ m.citable = c /\ m.told = t /\ m = Prompt
      BY <2>1, <2>2, <2>5, <2>6 DEF Prompts, Prompt
    <2>. QED
      BY <2>2, <2>3, <2>7
  <1>3. PICK n \in Nat : n = Len(shownSets)
    BY <1>1, LenProperties
  <1>4. /\ shownSets' \in Seq(Prompts) /\ Len(shownSets') = n + 1
        /\ \A i \in 1 .. n : shownSets'[i] = shownSets[i]
        /\ shownSets'[n + 1] = now
    BY <1>1, <1>2, <1>3, AppendShape
  <1>5. DOMAIN shownSets' = 1 .. n + 1 /\ DOMAIN shownSets = 1 .. n
    BY <1>1, <1>3, <1>4, LenProperties
  <1>6. n <= 1 /\ (~HasWebEvidence => n = 0)
    BY <1>1, <1>3, EmptySeq
  <1>7. ASSUME NEW i \in 1 .. n + 1
        PROVE  /\ shownSets'[i].citable \cap HiddenIds = {}
               /\ Cardinality(shownSets'[i].citable) <= MaxCited
               /\ shownSets'[i].told \subseteq {inquiry.scope} \cup RefIds \cup WebIds
    <2>1. CASE i = n + 1
      BY <1>2, <1>4, <2>1
    <2>2. CASE i # n + 1
      <3>1. i \in 1 .. n
        BY <1>3, <2>2
      <3>. QED
        BY <1>1, <1>4, <1>5, <3>1 DEF BoundedAndDiscreet, RefIds
    <2>. QED
      BY <2>1, <2>2
  <1>8. inquiry' = inquiry /\ RefIds' = RefIds
    BY DEF RefIds
  <1>. QED
    BY <1>3, <1>4, <1>5, <1>6, <1>7, <1>8 DEF BoundedAndDiscreet, RefIds

\* A response with more warnings is as sound, unless it is the baseline.
LEMMA MoreWarnings ==
    ASSUME NEW v, SoundResponse(v), NEW more, v.status = "answered" => v.answer.kind # "status"
    PROVE  SoundResponse(WithWarnings(v, more))
  <1>1. PICK s, a, c : s = v.status /\ a = v.answer /\ c = v.evidence
    OBVIOUS
  <1>2. PICK w : w = warned \cup v.warnings \cup more
    OBVIOUS
  <1>3. PICK r : r = Response(s, a, c, w)
    OBVIOUS
  <1>4. r.status = s /\ r.answer = a /\ r.evidence = c
    BY <1>3, AnswerShape
  <1>5. WithWarnings(v, more) = r
    BY <1>1, <1>2, <1>3 DEF WithWarnings
  <1>6. SoundResponse(r)
    BY <1>1, <1>4 DEF SoundResponse
  <1>. QED
    BY <1>5, <1>6

\* The model answers, is refused, or a search follows.
LEMMA ChatKeeps ==
    ASSUME InquiryInv, NEW reply \in Replies, Chat(reply)
    PROVE  InquiryInv'
  <1>1. /\ inquiryAt = "chat" /\ shownSets' = Append(shownSets, Prompt)
        /\ UNCHANGED <<helpers, holds, holdsChanged, inquiry, refsLeft, snapshotHeld, baseline,
                       evidence, warned>>
    BY DEF Chat
  <1>2. InquiryTypeOK /\ FoundInv /\ RoundsInv
    BY DEF InquiryInv, InquirySound
  <1>3. /\ BoundedAndDiscreet' /\ shownSets' \in Seq(Prompts)
        /\ ~HasWebEvidence => Len(shownSets') = 1
    BY <1>1, OneMoreRound
  <1>4. snapshotHeld' \subseteq EvidenceIds /\ (baseline = "web" => HasWebEvidence)
    BY <1>1, <1>2 DEF InquiryTypeOK, RoundsInv
  <1>5. ASSUME NEW r, SoundResponse(r), Respond(r) PROVE InquiryInv'
    BY <1>1, <1>3, <1>4, <1>5, ResponseKeeps DEF Respond
  <1>6. SoundResponse(Fallback("provider_unavailable")) /\ SoundResponse(Fallback("no_mutation_boundary"))
    BY <1>1, FallbackIsSound
  <1>7. CASE reply.kind = "error" \/ Refused(reply)
    <2>1. PICK r : r = Fallback("provider_unavailable")
      OBVIOUS
    <2>2. PICK q : q = Fallback("no_mutation_boundary")
      OBVIOUS
    <2>3. Respond(r) \/ Respond(q)
      BY <1>7, <2>1, <2>2 DEF Chat
    <2>. QED
      BY <1>5, <1>6, <2>1, <2>2, <2>3
  <1>8. CASE reply.kind # "error" /\ ~Refused(reply)
    <2>1. PICK v : v = Validated(reply)
      OBVIOUS
    <2>2. SoundResponse(v) /\ (v.status = "answered" => v.answer.kind # "status")
      BY <1>8, <2>1, ValidatedIsSound
    <2>3. CASE v.status # "answered" /\ MaySearch
      <3>1. inquiryAt' = "search" /\ parsedReply' = v /\ UNCHANGED inquiryResult
        BY <1>8, <2>1, <2>3 DEF Chat
      <3>2. InquiryTypeOK'
        BY <1>1, <1>2, <1>3, <3>1 DEF InquiryTypeOK, Stages
      <3>3. FoundInv'
        BY <1>1, <1>2, <3>1 DEF FoundInv, Accounted, RefIds
      <3>4. RoundsInv'
        BY <1>1, <1>2, <1>3, <2>3, <3>1 DEF RoundsInv, MaySearch, HasWebEvidence
      <3>5. ParsedInv'
        BY <1>1, <2>2, <2>3, <3>1 DEF ParsedInv, SoundResponse
      <3>. QED
        BY <1>3, <3>1, <3>2, <3>3, <3>4, <3>5, StillOpen
    <2>4. CASE ~(v.status # "answered" /\ MaySearch)
      <3>1. PICK none : none = {}
        OBVIOUS
      <3>2. PICK r : r = IF v = Unusable THEN Fallback("provider_unavailable") ELSE WithWarnings(v, none)
        OBVIOUS
      <3>3. Respond(r)
        BY <1>8, <2>1, <2>4, <3>1, <3>2 DEF Chat
      <3>4. SoundResponse(WithWarnings(v, none))
        BY <2>2, MoreWarnings
      <3>5. SoundResponse(r)
        BY <1>6, <3>2, <3>4
      <3>. QED
        BY <1>5, <3>3, <3>5
    <2>. QED
      BY <2>3, <2>4
  <1>. QED
    BY <1>7, <1>8

\* The search finds something, and the model is asked again.
LEMMA SearchFindsKeeps ==
    ASSUME InquiryInv, NEW list \in Searches, SearchFinds(list)
    PROVE  InquiryInv'
  <1>1. /\ inquiryAt = "search" /\ baseline' = "web" /\ evidence' = evidence \o list
        /\ warned' = warned \cup parsedReply.warnings /\ inquiryAt' = "chat"
        /\ UNCHANGED <<helpers, holds, holdsChanged, inquiry, refsLeft, snapshotHeld, shownSets,
                       inquiryResult>>
    BY DEF SearchFinds
  <1>2. InquiryTypeOK /\ FoundInv /\ RoundsInv /\ BoundedAndDiscreet
    BY DEF InquiryInv, InquirySound
  <1>3. list \in Seq(WebIds) /\ list # <<>>
    BY InquiryAssumption
  <1>4. DOMAIN list = 1 .. Len(list) /\ Len(list) \in Nat /\ Len(list) # 0
    BY <1>3, LenProperties, EmptySeq
  <1>5. \A i \in 1 .. Len(list) : list[i] \in WebIds
    BY <1>3, ElementOfSeq
  <1>6. Range(list) \subseteq WebIds /\ list[1] \in Range(list)
    BY <1>4, <1>5 DEF Range
  <1>7. list \in Seq(EvidenceIds \cup WebIds)
    BY <1>3, <1>4, <1>5, SeqDef
  <1>8. evidence \in Seq(EvidenceIds \cup WebIds)
    BY <1>2 DEF InquiryTypeOK
  <1>9. evidence' \in Seq(EvidenceIds \cup WebIds) /\ Range(evidence') = Range(evidence) \cup Range(list)
    BY <1>1, <1>7, <1>8, ConcatProperties, RangeOfConcat
  <1>10. InquiryTypeOK'
    BY <1>1, <1>2, <1>9 DEF InquiryTypeOK, Stages
  <1>11. FoundInv'
    BY <1>1, <1>2, <1>6, <1>9 DEF FoundInv, Accounted, RefIds
  <1>12. HasWebEvidence'
    BY <1>6, <1>9 DEF HasWebEvidence
  <1>13. RoundsInv' /\ ParsedInv' /\ BoundedAndDiscreet'
    BY <1>1, <1>2, <1>12 DEF RoundsInv, ParsedInv, BoundedAndDiscreet, RefIds
  <1>. QED
    BY <1>1, <1>10, <1>11, <1>13, StillOpen

\* The search finds nothing: what the model said stands.
LEMMA SearchFailsKeeps ==
    ASSUME InquiryInv, SearchFails
    PROVE  InquiryInv'
  <1>1. /\ inquiryAt = "search"
        /\ UNCHANGED <<helpers, holds, holdsChanged, inquiry, refsLeft, snapshotHeld, baseline,
                       evidence, warned, parsedReply, shownSets>>
    BY DEF SearchFails
  <1>2. PICK more : more = {Warning("provider_unavailable")}
    OBVIOUS
  <1>3. PICK v : v = parsedReply
    OBVIOUS
  <1>4. PICK r : r = IF v = Unusable THEN Fallback("provider_unavailable") ELSE WithWarnings(v, more)
    OBVIOUS
  <1>5. Respond(r)
    BY <1>2, <1>3, <1>4 DEF SearchFails
  <1>6. SoundResponse(Fallback("provider_unavailable"))
    BY <1>1, FallbackIsSound
  <1>7. v.status # "answered" /\ v.evidence \subseteq Range(evidence)
    BY <1>1, <1>3 DEF InquiryInv, ParsedInv
  <1>8. SoundResponse(WithWarnings(v, more))
    BY <1>7, NoAnswerIsSound, MoreWarnings
  <1>9. SoundResponse(r)
    BY <1>4, <1>6, <1>8
  <1>10. /\ snapshotHeld' \subseteq EvidenceIds /\ BoundedAndDiscreet'
         /\ shownSets' \in Seq(Prompts) /\ (baseline = "web" => HasWebEvidence)
    BY <1>1 DEF InquiryInv, InquirySound, InquiryTypeOK, BoundedAndDiscreet, RefIds, RoundsInv
  <1>. QED
    BY <1>1, <1>5, <1>9, <1>10, ResponseKeeps DEF Respond

\* What changes under the request was read, or will be looked up.
LEMMA SessionChangesKeeps ==
    ASSUME InquiryInv, NEW e \in EvidenceIds, SessionChanges(e)
    PROVE  InquiryInv'
  <1>1. /\ inquiryAt # "done" /\ holdsChanged' = holdsChanged + 1
        /\ holds' \subseteq holds \cup {e}
        /\ UNCHANGED <<helpers, inquiryAt, inquiry, refsLeft, snapshotHeld, baseline, evidence, warned,
                       parsedReply, shownSets, inquiryResult>>
    BY DEF SessionChanges
  <1>2. InquiryTypeOK /\ FoundInv /\ RoundsInv /\ ParsedInv /\ BoundedAndDiscreet
    BY DEF InquiryInv, InquirySound
  <1>3. InquiryTypeOK'
    BY <1>1, <1>2 DEF InquiryTypeOK
  <1>4. FoundInv' /\ RoundsInv' /\ ParsedInv' /\ BoundedAndDiscreet'
    BY <1>1, <1>2 DEF FoundInv, RoundsInv, ParsedInv, BoundedAndDiscreet, Accounted, RefIds,
                      HasWebEvidence
  <1>. QED
    BY <1>1, <1>3, <1>4, StillOpen

\* Whatever the model and the search say, with any deployment, and however
\* the session changes meanwhile: what a reply wanted to change is not shown,
\* a response cites only what was found for its request, an answer has the
\* grounds it claims, search results alone are no answer, no ref is passed
\* over in silence, and the model is asked twice at most and shown nothing
\* hidden.
THEOREM InquiryIsSound == InquirySpec => []InquirySound
  <1>1. InquiryInit => InquiryInv
    <2>1. ASSUME InquiryInit PROVE InquiryInv
      <3>1. /\ inquiryAt = "idle" /\ inquiry = NoInquiry /\ refsLeft = <<>> /\ baseline = "none"
            /\ evidence = <<>> /\ shownSets = <<>> /\ snapshotHeld = {} /\ holdsChanged = 0
            /\ helpers \subseteq Helpers /\ holds \subseteq EvidenceIds
        BY <2>1, InquiryAssumption DEF InquiryInit
      <3>2. Range(evidence) = {} /\ Range(inquiry.refs) = {} /\ Len(shownSets) = 0
        BY <3>1 DEF Range, NoInquiry
      <3>3. InquiryTypeOK
        BY <3>1 DEF InquiryTypeOK, Stages
      <3>4. BoundedAndDiscreet
        BY <3>1 DEF BoundedAndDiscreet, RefIds
      <3>5. FoundInv /\ RoundsInv /\ ParsedInv
        BY <3>1, <3>2 DEF FoundInv, RoundsInv, ParsedInv
      <3>. QED
        BY <3>1, <3>3, <3>4, <3>5 DEF InquiryInv, InquirySound, NothingToChange, EvidenceIsFound,
           AnswerIsGrounded, WebIsNotTheAnswer, RefsAccounted, FromModel, GaveAnswer, Gave
    <2>. QED
      BY <2>1
  <1>2. InquiryInv /\ [InquiryNext]_inquiryVars => InquiryInv'
    <2>1. ASSUME InquiryInv, InquiryNext PROVE InquiryInv'
      BY <2>1, AskInquiryKeeps, SnapshotKeeps, ReadRefKeeps, RefsReadKeeps, ChatKeeps,
         SearchFindsKeeps, SearchFailsKeeps, SessionChangesKeeps DEF InquiryNext
    <2>2. ASSUME InquiryInv, UNCHANGED inquiryVars PROVE InquiryInv'
      BY <2>2 DEF inquiryVars, InquiryInv, InquirySound, InquiryTypeOK, NothingToChange,
         EvidenceIsFound, AnswerIsGrounded, WebIsNotTheAnswer, RefsAccounted, FromModel, GaveAnswer,
         Gave, BoundedAndDiscreet, FoundInv, RoundsInv, ParsedInv, Accounted, RefIds, HasWebEvidence
    <2>. QED
      BY <2>1, <2>2
  <1>3. InquiryInv => InquirySound
    BY DEF InquiryInv
  <1>. QED
    BY <1>1, <1>2, <1>3, PTL DEF InquirySpec
=============================================================================
