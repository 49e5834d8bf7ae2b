---------------------------- MODULE InputRouter ----------------------------
(***************************************************************************)
(* The runtime input router: one free-form input of the user, planned by a *)
(* language model, validated by code and dispatched to one handler.        *)
(*                                                                         *)
(* A request is served by a thread of the HTTP server: it reads the active *)
(* ASK and confirmation, calls the planner (an LLM call and at most        *)
(* MaxRepair repair calls, seconds each), dispatches the proposal, then    *)
(* writes the conversation and the activity.  Other clients settle ASKs    *)
(* and confirmations meanwhile; a client may send a command id again; the  *)
(* server may stop between any two steps.  The services behind the         *)
(* handlers (contract revision, execution plane, task commands) are atomic *)
(* here: their own interleavings are in ContractRevision, ExecutionPlane   *)
(* and ExecutionSystem.                                                    *)
(***************************************************************************)
EXTENDS Naturals, Sequences

CONSTANTS
    InputThreads,    \* threads of the HTTP server
    Commands,        \* command ids of the inputs
    NumAsks,         \* ASKs that may be raised, numbered by age
    InputTasks,      \* tasks a client may select
    Modes,           \* input modes in use: "auto", "ask", "guide", "change"
    MaxRepair,       \* max_output_repair_attempts of the planner
    MaxInputSends,   \* times a client sends one command id
    MaxInputCrashes, \* stops of the server
    Confirmation,    \* the id of the confirmation
    NoId             \* no ASK, task, confirmation or command

Asks == 1..NumAsks

ASSUME RouterAssumption ==
    /\ NumAsks \in Nat /\ MaxRepair \in Nat
    /\ MaxInputSends \in Nat /\ MaxInputCrashes \in Nat
    /\ Modes \subseteq {"auto", "ask", "guide", "change"}
    /\ NoId \notin Asks \cup InputTasks \cup {Confirmation}

VARIABLES
    asks,         \* status of each ASK
    conf,         \* the session's confirmation: "absent", "pending", "resolved"
    inputTask,    \* status of each task
    inputJob,     \* what each thread is doing
    inputSends,   \* times each command id was sent
    effects,      \* side effects made for each command id, in order
    keys,         \* idempotency records of each command id
    answers,      \* answers recorded for each ASK
    messages,     \* the message stream
    replies,      \* responses given to clients
    inputCrashes

routerVars == <<asks, conf, inputTask, inputJob, inputSends, effects, keys, answers, messages,
                replies, inputCrashes>>
world == <<asks, conf, inputTask, effects, keys, answers>>

Targets == {"read_only_inquiry", "record_guidance", "existing_command", "execution_handoff",
            "clarification", "unsupported", "resolve_ask", "resolve_confirmation"}
Mutating == {"record_guidance", "resolve_ask", "resolve_confirmation", "existing_command",
             "execution_handoff"}
Drafts == {"none", "stop", "retry", "task", "wechat", "ask", "confirmation"}
Outcomes == {"answered", "dispatched", "rejected", "unsupported", "needs_clarification"}

Ids == Asks \cup InputTasks \cup {Confirmation, NoId}

\* A proposal: the drafts of the other targets are left out, id is what the
\* draft names (an ASK, a task or the confirmation; NoId when it names nothing).
Proposal(target, confidence, draft, id) ==
    [target |-> target, confidence |-> confidence, draft |-> draft, id |-> id]
Proposals == [target : Targets, confidence : {"low", "high"}, draft : Drafts, id : Ids]
NoProposal == Proposal("unsupported", "high", "none", NoId)

NoInput == [phase |-> "idle", cmd |-> NoId, mode |-> "auto", sel |-> NoId, seen |-> NoId,
            ask |-> NoId, conf |-> "absent", calls |-> 0, plan |-> NoProposal,
            outcome |-> "answered", kind |-> "none"]

RouterInit ==
    /\ asks = [a \in Asks |-> "absent"]
    /\ conf = "absent"
    /\ inputTask = [t \in InputTasks |-> "running"]
    /\ inputJob = [th \in InputThreads |-> NoInput]
    /\ inputSends = [c \in Commands |-> 0]
    /\ effects = [c \in Commands |-> <<>>]
    /\ keys = [c \in Commands |-> {}]
    /\ answers = [a \in Asks |-> 0]
    /\ messages = {}
    /\ replies = {}
    /\ inputCrashes = 0

-----------------------------------------------------------------------------
(* A client sends an input; the thread reads the active interactions.       *)

Received(c, m, sel, seen) ==
    [NoInput EXCEPT !.phase = "read", !.cmd = c, !.mode = m, !.sel = sel, !.seen = seen]

Receive(th) ==
    /\ inputJob[th].phase = "idle"
    /\ \E c \in Commands, m \in Modes, sel \in InputTasks \cup {NoId}, seen \in Asks \cup {NoId} :
        /\ inputSends[c] < MaxInputSends
        /\ inputSends' = [inputSends EXCEPT ![c] = @ + 1]
        /\ inputJob' = [inputJob EXCEPT ![th] = Received(c, m, sel, seen)]
    /\ UNCHANGED <<world, messages, replies, inputCrashes>>

\* The ASK the client names if it is pending, the oldest pending one if it names none.
ActiveAsk(seen) ==
    LET pending == {a \in Asks : asks[a] = "pending"}
    IN  IF seen = NoId
        THEN IF pending = {} THEN NoId ELSE CHOOSE a \in pending : \A b \in pending : a <= b
        ELSE IF seen \in pending THEN seen ELSE NoId

\* An explicit mode decides the route; the others ask the planner.
ModeRoute(mode) ==
    IF mode = "ask" THEN Proposal("read_only_inquiry", "high", "none", NoId)
    ELSE IF mode = "guide" THEN Proposal("record_guidance", "high", "none", NoId)
    ELSE NoProposal

Route(th) ==
    /\ inputJob[th].phase = "read"
    /\ inputJob' = [inputJob EXCEPT
        ![th] = [@ EXCEPT !.ask = ActiveAsk(inputJob[th].seen),
                          !.seen = NoId,
                          !.conf = conf,
                          !.phase = IF inputJob[th].mode \in {"ask", "guide"} THEN "act" ELSE "plan",
                          !.plan = ModeRoute(inputJob[th].mode)]]
    /\ UNCHANGED <<world, inputSends, messages, replies, inputCrashes>>

-----------------------------------------------------------------------------
(* The planner: proposals of the model, validated, repaired, or refused.    *)

AllowedTargets(j) ==
    (Targets \ {"resolve_ask", "resolve_confirmation"})
    \cup (IF j.ask # NoId THEN {"resolve_ask"} ELSE {})
    \cup (IF j.conf = "pending" THEN {"resolve_confirmation"} ELSE {})

\* The drafts a target takes: the others carry none.
DraftsOf(target) ==
    CASE target = "existing_command" -> {"stop", "retry"}
      [] target = "execution_handoff" -> {"task", "wechat"}
      [] target = "resolve_ask" -> {"ask"}
      [] target = "resolve_confirmation" -> {"confirmation"}
      [] OTHER -> {"none"}

\* Faulty: the confidence of a proposal is not looked at.
ValidAtAnyConfidence(p, j) ==
    /\ p.target \in AllowedTargets(j)
    /\ p.draft \in DraftsOf(p.target)

\* Schema, side effect and reference checks of an output are left to Malformed.
Valid(p, j) ==
    /\ p.target \in AllowedTargets(j)
    /\ p.target \in Mutating => p.confidence # "low"
    /\ p.draft \in DraftsOf(p.target)

\* What a draft may name: an ASK answer an ASK, a command a task.
Names(p) ==
    CASE p.draft = "ask" -> p.id \in Asks \cup {NoId}
      [] p.draft = "confirmation" -> p.id \in {Confirmation, NoId}
      [] p.draft \in {"stop", "retry"} -> p.id \in InputTasks
      [] OTHER -> p.id = NoId

PlannerUnavailable(th) ==
    inputJob' = [inputJob EXCEPT ![th] = [@ EXCEPT !.phase = "act", !.plan = NoProposal,
                                                     !.calls = inputJob[th].calls + 1]]

\* Faulty: the count of repairs starts over.
RepairForEver(th) == inputJob' = [inputJob EXCEPT ![th].calls = (@ + 1) % (MaxRepair + 1)]

\* An output that does not pass is sent back for repair, MaxRepair times.
Repair(th) ==
    IF inputJob[th].calls >= MaxRepair
    THEN PlannerUnavailable(th)
    ELSE inputJob' = [inputJob EXCEPT ![th].calls = @ + 1]

\* One LLM call: it fails or times out, its output is malformed, or it is a proposal.
Plan(th) ==
    /\ inputJob[th].phase = "plan"
    /\ \/ PlannerUnavailable(th)
       \/ Repair(th)
       \/ \E p \in Proposals :
            /\ Names(p)
            /\ IF Valid(p, inputJob[th])
               THEN inputJob' = [inputJob EXCEPT ![th] = [@ EXCEPT !.phase = "act", !.plan = p,
                                                                   !.calls = inputJob[th].calls + 1]]
               ELSE Repair(th)
    /\ UNCHANGED <<world, inputSends, messages, replies, inputCrashes>>
-----------------------------------------------------------------------------
(* The handlers.                                                            *)

Acting(th, target) == inputJob[th].phase = "act" /\ inputJob[th].plan.target = target

\* The handler's outcome, and the kind of activity the router writes itself.
Concluded(c, outcome, kind) ==
    [NoInput EXCEPT !.phase = "talk", !.cmd = c, !.outcome = outcome, !.kind = kind]
Conclude(th, outcome, kind) ==
    inputJob' = [inputJob EXCEPT ![th] = Concluded(inputJob[th].cmd, outcome, kind)]

Post(stream, c, slot, kind, outcome) ==
    IF \E m \in stream : m.cmd = c /\ m.slot = slot
    THEN stream
    ELSE stream \cup {[cmd |-> c, slot |-> slot, kind |-> kind, outcome |-> outcome]}

Effect(c, what, id, plan) ==
    effects' = [effects EXCEPT ![c] = Append(@, [what |-> what, id |-> id, plan |-> plan])]

Recorded(c, store) == keys' = [keys EXCEPT ![c] = @ \cup {store}]

\* A contract command of the router carries a decision id of its own, so a command id already
\* recorded conflicts; otherwise the command runs and its result, whatever it is, is recorded.
Contract(th, what, id, accepted, kind) ==
    LET c == inputJob[th].cmd
    IN  IF "contract" \notin keys[c] /\ accepted
        THEN /\ Recorded(c, "contract")
             /\ Effect(c, what, id, inputJob[th].plan)
             /\ messages' = Post(messages, c, "contract", kind, "dispatched")
             /\ Conclude(th, "dispatched", "none")
        ELSE /\ Recorded(c, "contract")
             /\ messages' = messages
             /\ effects' = effects
             /\ Conclude(th, "rejected", "recovery_note")

RecordGuidance(th) ==
    /\ Acting(th, "record_guidance")
    /\ \E ok \in BOOLEAN : Contract(th, "guidance", NoId, ok, "guidance_recorded")
    /\ UNCHANGED <<asks, conf, inputTask, inputSends, answers, replies, inputCrashes>>

CreateExecutionTask(th) ==
    /\ Acting(th, "execution_handoff")
    /\ inputJob[th].plan.draft = "task"
    /\ \E ok \in BOOLEAN : Contract(th, "task", NoId, ok, "task_created")
    /\ UNCHANGED <<asks, conf, inputTask, inputSends, answers, replies, inputCrashes>>

\* The execution plane keeps one task per command id: the same body gives that task again,
\* another body an error.
CreateWechatSend(th) ==
    /\ Acting(th, "execution_handoff")
    /\ inputJob[th].plan.draft = "wechat"
    /\ LET c == inputJob[th].cmd
       IN  \/ /\ "plane" \notin keys[c]
              /\ Recorded(c, "plane")
              /\ Effect(c, "wechat", NoId, inputJob[th].plan)
              /\ Conclude(th, "dispatched", "task_created")
           \/ /\ "plane" \in keys[c]
              /\ Conclude(th, "dispatched", "task_created")
              /\ UNCHANGED <<keys, effects>>
           \/ /\ Conclude(th, "rejected", "recovery_note")
              /\ UNCHANGED <<keys, effects>>
    /\ UNCHANGED <<asks, conf, inputTask, inputSends, answers, messages, replies, inputCrashes>>

Unsupported(th) == Conclude(th, "unsupported", "router_interpretation")

\* The ASK is the one found before planning; the command handler takes a pending one only.
AnswerAsk(th) ==
    /\ Acting(th, "resolve_ask")
    /\ LET a == inputJob[th].ask
           ok == "contract" \notin keys[inputJob[th].cmd] /\ asks[a] = "pending"
       IN  IF inputJob[th].plan.id \in {NoId, a}
           THEN /\ Contract(th, "ask", a, asks[a] = "pending", "ask_answered")
                /\ asks' = IF ok THEN [asks EXCEPT ![a] = "settled"] ELSE asks
                /\ answers' = IF ok THEN [answers EXCEPT ![a] = @ + 1] ELSE answers
           ELSE Unsupported(th) /\ UNCHANGED <<asks, effects, keys, answers, messages>>
    /\ UNCHANGED <<conf, inputTask, inputSends, replies, inputCrashes>>

ResolveConfirmation(th) ==
    /\ Acting(th, "resolve_confirmation")
    /\ LET ok == "contract" \notin keys[inputJob[th].cmd] /\ conf = "pending"
       IN  /\ Contract(th, "confirmation", Confirmation, conf = "pending", "confirmation_resolved")
           /\ conf' = IF ok THEN "resolved" ELSE conf
    /\ UNCHANGED <<asks, inputTask, inputSends, answers, replies, inputCrashes>>

\* Stop and retry act on the selected task, whichever task the draft names.
TaskCommand(th) ==
    /\ Acting(th, "existing_command")
    /\ LET t == inputJob[th].sel
           stop == inputJob[th].plan.draft = "stop"
       IN  IF t = NoId
           THEN /\ Conclude(th, "needs_clarification", "router_interpretation")
                /\ UNCHANGED <<inputTask, effects>>
           ELSE IF \/ stop /\ inputTask[t] \in {"pending", "running"}
                   \/ ~stop /\ inputTask[t] = "failed"
           THEN /\ inputTask' = IF stop THEN inputTask ELSE [inputTask EXCEPT ![t] = "pending"]
                /\ Effect(inputJob[th].cmd, inputJob[th].plan.draft, t, inputJob[th].plan)
                /\ Conclude(th, "dispatched", "router_interpretation")
           ELSE /\ Conclude(th, "rejected", "router_interpretation")
                /\ UNCHANGED <<inputTask, effects>>
    /\ UNCHANGED <<asks, conf, inputSends, keys, answers, messages, replies, inputCrashes>>

\* The inquiry only reads; it answers, asks back, rejects or does not support the question.
AnswerInquiry(th) ==
    /\ Acting(th, "read_only_inquiry")
    /\ \E o \in Outcomes \ {"dispatched"} :
        Conclude(th, o, IF o = "answered" THEN "answer" ELSE "router_interpretation")
    /\ UNCHANGED <<world, inputSends, messages, replies, inputCrashes>>

\* No route: the planner asks back, proposes no support, or was unavailable.
GiveUp(th) ==
    /\ inputJob[th].phase = "act" /\ inputJob[th].plan.target \in {"clarification", "unsupported"}
    /\ IF inputJob[th].plan.target = "clarification"
       THEN Conclude(th, "needs_clarification", "router_interpretation")
       ELSE Unsupported(th)
    /\ UNCHANGED <<world, inputSends, messages, replies, inputCrashes>>
-----------------------------------------------------------------------------
(* What the user sees: the conversation, then the activity, then the reply. *)

ConversationSlots(outcome) ==
    {"user", "trace"}
    \cup (IF outcome \in {"rejected", "unsupported"} THEN {"reply"} ELSE {})
    \cup (IF outcome = "needs_clarification" THEN {"question"} ELSE {})

\* A message id that exists is left as it is.
PublishConversation(th) ==
    /\ inputJob[th].phase = "talk"
    /\ LET c == inputJob[th].cmd
           new == {s \in ConversationSlots(inputJob[th].outcome) :
                     ~\E m \in messages : m.cmd = c /\ m.slot = s}
       IN  messages' = messages \cup
              {[cmd |-> c, slot |-> s, kind |-> "none", outcome |-> inputJob[th].outcome] :
                 s \in new}
    /\ inputJob' = [inputJob EXCEPT ![th].phase = "note"]
    /\ UNCHANGED <<world, inputSends, replies, inputCrashes>>

\* The response; made counts what the input has changed by then.
Reply(c, outcome) ==
    replies' = replies \cup {[cmd |-> c, outcome |-> outcome, made |-> Len(effects[c])]}

\* A contract command that was accepted has its activity from the contract service.
PublishActivity(th) ==
    /\ inputJob[th].phase = "note"
    /\ messages' = IF inputJob[th].kind = "none" THEN messages
                   ELSE Post(messages, inputJob[th].cmd, inputJob[th].kind, inputJob[th].kind,
                             inputJob[th].outcome)
    /\ Reply(inputJob[th].cmd, inputJob[th].outcome)
    /\ inputJob' = [inputJob EXCEPT ![th] = NoInput]
    /\ UNCHANGED <<world, inputSends, inputCrashes>>
-----------------------------------------------------------------------------
(* The rest of the system: agents raise interactions, other clients settle  *)
(* them, tasks move, the server stops.                                      *)

RaiseAsk ==
    /\ \E a \in Asks :
        /\ asks[a] = "absent" /\ \A b \in 1..(a - 1) : asks[b] # "absent"
        /\ asks' = [asks EXCEPT ![a] = "pending"]
    /\ UNCHANGED <<conf, inputTask, inputJob, inputSends, effects, keys, answers, messages,
                   replies, inputCrashes>>

AnswerElsewhere ==
    /\ \E a \in Asks :
        /\ asks[a] = "pending"
        /\ asks' = [asks EXCEPT ![a] = "settled"]
        /\ answers' = [answers EXCEPT ![a] = @ + 1]
    /\ UNCHANGED <<conf, inputTask, inputJob, inputSends, effects, keys, messages,
                   replies, inputCrashes>>

MoveConfirmation ==
    /\ \/ conf = "absent" /\ conf' = "pending"
       \/ conf = "pending" /\ conf' = "resolved"
    /\ UNCHANGED <<asks, inputTask, inputJob, inputSends, effects, keys, answers, messages,
                   replies, inputCrashes>>

MoveTask ==
    /\ \E t \in InputTasks :
        \/ inputTask[t] = "pending" /\ inputTask' = [inputTask EXCEPT ![t] = "running"]
        \/ inputTask[t] = "running" /\ inputTask' = [inputTask EXCEPT ![t] = "failed"]
    /\ UNCHANGED <<asks, conf, inputJob, inputSends, effects, keys, answers, messages,
                   replies, inputCrashes>>

ServerStops ==
    /\ inputCrashes < MaxInputCrashes
    /\ inputCrashes' = inputCrashes + 1
    /\ inputJob' = [th \in InputThreads |-> NoInput]
    /\ UNCHANGED <<world, inputSends, messages, replies>>

Serve(th) ==
    \/ Route(th) \/ Plan(th)
    \/ RecordGuidance(th) \/ CreateExecutionTask(th) \/ CreateWechatSend(th)
    \/ AnswerAsk(th) \/ ResolveConfirmation(th) \/ TaskCommand(th)
    \/ AnswerInquiry(th) \/ GiveUp(th)
    \/ PublishConversation(th) \/ PublishActivity(th)

RouterNext ==
    \/ \E th \in InputThreads : Receive(th) \/ Serve(th)
    \/ RaiseAsk \/ AnswerElsewhere \/ MoveConfirmation \/ MoveTask \/ ServerStops

RouterSpec == RouterInit /\ [][RouterNext]_routerVars

\* A request's thread goes on: the LLM calls have a timeout.
RouterFairSpec == RouterSpec /\ \A th \in InputThreads : WF_routerVars(Serve(th))
-----------------------------------------------------------------------------
(* Properties.                                                              *)

Deeds == {"guidance", "task", "wechat", "ask", "confirmation", "stop", "retry"}
Notes == {"none", "recovery_note", "task_created", "router_interpretation", "answer"}
Told == {"guidance_recorded", "ask_answered", "confirmation_resolved"}
Slots == {"contract", "user", "trace", "reply", "question"}

InputRow ==
    [phase : {"idle", "read", "plan", "act", "talk", "note"}, cmd : Commands \cup {NoId},
     mode : Modes \cup {"auto"}, sel : InputTasks \cup {NoId}, seen : Asks \cup {NoId},
     ask : Asks \cup {NoId}, conf : {"absent", "pending", "resolved"}, calls : 0..(1 + MaxRepair),
     plan : Proposals, outcome : Outcomes, kind : Notes]
EffectRow == [what : Deeds, id : Ids, plan : Proposals]
MessageRow == [cmd : Commands, slot : Slots \cup Notes, kind : Notes \cup Told, outcome : Outcomes]
ReplyRow == [cmd : Commands, outcome : Outcomes, made : Nat]

\* Every variable has the shape the code gives it; the planner is called
\* 1 + MaxRepair times at most.
RouterTypeOK ==
    /\ asks \in [Asks -> {"absent", "pending", "settled"}]
    /\ conf \in {"absent", "pending", "resolved"}
    /\ inputTask \in [InputTasks -> {"pending", "running", "failed"}]
    /\ inputJob \in [InputThreads -> InputRow]
    /\ inputSends \in [Commands -> Nat]
    /\ effects \in [Commands -> Seq(EffectRow)]
    /\ keys \in [Commands -> SUBSET {"contract", "plane"}]
    /\ answers \in [Asks -> Nat]
    /\ messages \subseteq MessageRow
    /\ replies \subseteq ReplyRow
    /\ inputCrashes \in Nat

\* An ASK is answered once, however many inputs and clients were planning an answer to it.
AskAnsweredOnce == \A a \in Asks : answers[a] <= 1

\* An effect comes from a route the validator lets through.
Authorised(e) ==
    /\ e.plan.confidence # "low" /\ e.plan.target \in Mutating
    /\ e.what = "guidance" <=> e.plan.target = "record_guidance"
    /\ e.what # "guidance" => e.plan.draft = e.what
    /\ e.what = "ask" => e.plan.id \in {NoId, e.id}

\* Whatever the model proposes, a side effect comes from a route the validator lets through: a
\* confident one, with its draft, to the ASK the draft names (route, validate_route_proposal).
EffectAuthorised ==
    \A c \in Commands : \A i \in DOMAIN effects[c] : Authorised(effects[c][i])

\* What a command has done, of the effects given.
Made(effs, c) == {effs[c][i].what : i \in DOMAIN effs[c]}

\* An activity that tells of something done, and what was done.
IsTrue(kind, made) ==
    /\ kind = "ask_answered" => "ask" \in made
    /\ kind = "confirmation_resolved" => "confirmation" \in made
    /\ kind = "guidance_recorded" => "guidance" \in made
    /\ kind = "task_created" => "task" \in made \/ "wechat" \in made

\* "Emitted only after corresponding command success": an activity that tells of an answer, a
\* confirmation, guidance or a task belongs to a command that made that effect.
ActivityAfterSuccess == \A m \in messages : IsTrue(m.kind, Made(effects, m.cmd))

\* Every input is answered, however often the model fails to give a valid
\* proposal (the planner's bounded repair).
InputAnswered == \A th \in InputThreads : inputJob[th].phase = "read" ~> inputJob[th].phase = "idle"

\* A message of those given tells that command c was accepted.
Announced(c, msgs) ==
    \E m \in msgs : m.cmd = c /\ m.kind # "none" /\ m.outcome = "dispatched"

\* A reply tells what its input did.
Truthful(r, msgs) ==
    IF r.outcome = "dispatched" THEN Announced(r.cmd, msgs) ELSE r.made = 0

\* An input that was sent once and served without a stop of the server has one
\* side effect at most ("Multiple side effects are not allowed"), a refusal of
\* it has changed nothing, and its acceptance has an activity that says so.
ServedOnce ==
    inputCrashes = 0 =>
        /\ \A c \in Commands : inputSends[c] <= 1 => Len(effects[c]) <= 1
        /\ \A r \in replies : inputSends[r.cmd] <= 1 => Truthful(r, messages)

\* Whatever the model proposes and however inputs overlap, an ASK is answered
\* once, effects are authorised, and the user is told what happened.
RouterSound ==
    RouterTypeOK /\ AskAnsweredOnce /\ EffectAuthorised /\ ActivityAfterSuccess /\ ServedOnce

-----------------------------------------------------------------------------
(* The inductive invariant.                                                 *)

\* An ASK that nobody has settled has no answer.
AnswersInv == \A a \in Asks : answers[a] <= 1 /\ (asks[a] # "settled" => answers[a] = 0)

\* A command recorded by the execution plane has its task there.
PlaneBacked == \A c \in Commands : "plane" \in keys[c] => "wechat" \in Made(effects, c)

\* What a request relies on between its steps.
InputFits(j, effs) ==
    /\ j.phase # "idle" => j.cmd \in Commands
    /\ j.phase \in {"read", "plan"} => j.calls <= MaxRepair
    /\ j.phase = "read" => j.calls = 0
    /\ j.phase = "act" =>
         /\ j.plan.target \in Mutating => j.plan.confidence # "low"
         /\ j.plan.draft \in DraftsOf(j.plan.target)
         /\ j.plan.target = "resolve_ask" => j.ask # NoId
    /\ j.phase \in {"talk", "note"} => IsTrue(j.kind, Made(effs, j.cmd))

\* A request that is the only one its command ever had: nothing was done
\* before its handler, and what it is going to reply is what was done.
OnceFits(j, effs, recorded, msgs, given) ==
    /\ \A r \in given : r.cmd # j.cmd
    /\ j.phase \in {"read", "plan", "act"} =>
         effs[j.cmd] = <<>> /\ recorded[j.cmd] = {} /\ \A m \in msgs : m.cmd # j.cmd
    /\ j.phase \in {"talk", "note"} =>
         /\ \A m \in msgs : m.cmd = j.cmd => m.slot \in Slots
         /\ j.outcome # "dispatched" => effs[j.cmd] = <<>>
         /\ j.outcome = "dispatched" /\ j.kind = "none" => Announced(j.cmd, msgs)

Busy(th, c) == inputJob[th].phase # "idle" /\ inputJob[th].cmd = c

SentOnce(c) == inputCrashes = 0 /\ inputSends[c] <= 1

\* A command that nobody has sent has left no trace.
Unsent(c) ==
    /\ \A th \in InputThreads : ~Busy(th, c)
    /\ effects[c] = <<>> /\ keys[c] = {}
    /\ \A m \in messages : m.cmd # c
    /\ \A r \in replies : r.cmd # c

OnceServedInv ==
    \A c \in Commands : SentOnce(c) =>
        /\ Len(effects[c]) <= 1
        /\ inputSends[c] = 0 => Unsent(c)
        /\ \A th, u \in InputThreads : Busy(th, c) /\ Busy(u, c) => th = u
        /\ \A th \in InputThreads :
             Busy(th, c) => OnceFits(inputJob[th], effects, keys, messages, replies)
        /\ \A r \in replies : r.cmd = c => Truthful(r, messages)

RouterInv ==
    /\ RouterTypeOK /\ AnswersInv /\ EffectAuthorised /\ ActivityAfterSuccess /\ PlaneBacked
    /\ \A th \in InputThreads : InputFits(inputJob[th], effects)
    /\ OnceServedInv
=============================================================================
