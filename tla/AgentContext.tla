---------------------------- MODULE AgentContext ----------------------------
(***************************************************************************)
(* The context an execution agent is given for each LLM call of a task     *)
(* (context/agent_loop_provider.py, context/manager.py, skills/).          *)
(*                                                                         *)
(* A run begins with a start context: the system prompt and one message    *)
(* with the task, the answered ASKs, the controls and the skills.  Every   *)
(* later call reuses the loop's messages, to which a checkpoint is         *)
(* appended every Interval steps and a delta when a stop is new.  A build  *)
(* reads the task and its events, then the ASKs and the skills, and saves  *)
(* a snapshot and then a trace before the call is made; users, and a       *)
(* crash, may come between any two of these.                               *)
(***************************************************************************)
EXTENDS Naturals, Sequences, FiniteSets, SequencesExt

CONSTANTS
    Asks,          \* the ASKs the task may raise
    Tools,         \* _allowed_tools of the runtime
    Roots,         \* the skill roots: [there, trust, files]
    AllowUntrusted, MaxSkills,   \* SkillRegistryConfig
    Interval,      \* checkpoint_interval_steps
    MaxResults,    \* ContextBudget.max_tool_results
    MaxSteps,      \* max_steps of a run
    MaxRuns, MaxCalls, MaxStops, MaxCrashes   \* bounds

VARIABLES
    ask,           \* AskStore: status of each ASK of the task
    stop,          \* the task's interrupt request, 0 when there is none
    events,        \* event stream: success of each observation of the task
    activations,   \* SkillActivationStore of the process
    snapshots, traces,   \* SqliteContextStore
    run, step, pc, \* the AgentLoop: run number, step, where it is
    messages,      \* the loop's messages
    todo,          \* tool calls of the last response without a result
    state,         \* CacheAwareRunState of the run, NoState before its first call
    build,         \* locals of prepare_llm_call and SessionContextManager.build
    sent,          \* observer: the calls made in this run
    stops, crashes \* how often

vars == <<ask, stop, events, activations, snapshots, traces, run, step, pc, messages,
          todo, state, build, sent, stops, crashes>>

ContextAssumption ==
    /\ {Interval, MaxResults, MaxSteps, MaxRuns, MaxCalls, MaxSkills} \subseteq Nat \ {0}
    /\ MaxStops \in Nat /\ MaxCrashes \in Nat

-----------------------------------------------------------------------------
(* Skills: the registry, what a skill does to the controls, activation     *)

\* SKILL.md files with no usable front matter, and untrusted ones unless they
\* are allowed, are left out.
DescriptorFromSkillFile(root, file) ==
    IF file.valid /\ (root.trust # "untrusted" \/ AllowUntrusted)
    THEN <<[file EXCEPT !.enabled = @ /\ root.enabled] @@ [trust |-> root.trust]>>
    ELSE <<>>

\* max_skills is tested before each file; one more root adds no more skills.
\* The roots and their files are listed in the order the registry sorts them.
Scan ==
    LET Add(found, root) ==
            FoldLeft(LAMBDA acc, file : IF Len(acc) >= MaxSkills THEN acc
                                        ELSE acc \o DescriptorFromSkillFile(root, file),
                     found, IF root.there THEN root.files ELSE <<>>)
    IN  FoldLeft(Add, <<>>, Roots)

FindCandidates == SelectSeq(Scan, LAMBDA d : d.enabled /\ d.implicit /\ d.matches)

RuntimeControls == [allowed |-> Tools, denied |-> {}, approval |-> {}, scopes |-> {}]

MergeFileScopes(base, skill) ==
    IF base # {} /\ skill # {} THEN base \cap skill ELSE base \cup skill

MergeSkillControls(base, skill) ==
    IF skill.trust = "untrusted" THEN base
    ELSE [allowed |-> base.allowed \ skill.denied,
          denied |-> base.denied \cup skill.denied,
          approval |-> base.approval \cup skill.approval,
          scopes |-> MergeFileScopes(base.scopes, skill.scopes)]

\* The requested tools whose outcome is denied_by_runtime.
DeniedRequiredTools(base, skill) ==
    {t \in skill.requested : t \in base.denied \/ (t \notin skill.denied /\ t \notin base.allowed)}

BuildActivation(skill) ==
    [run |-> run, skill |-> skill,
     status |-> IF skill.trust = "untrusted"
                   \/ DeniedRequiredTools(RuntimeControls, skill) # {}
                THEN "blocked" ELSE "active"]

OfRun(list) == SelectSeq(list, LAMBDA a : a.run = run)

\* Each build activates at most one candidate: the first that has no
\* activation in this run, blocked ones included.
EnsureCapabilityActivation ==
    LET known == {a.skill : a \in Range(OfRun(activations))}
        fresh == SelectSeq(FindCandidates, LAMBDA d : d \notin known)
    IN  IF fresh = <<>> THEN activations ELSE Append(activations, BuildActivation(fresh[1]))

ActiveSkills(list) ==
    LET active == SelectSeq(OfRun(list), LAMBDA a : a.status = "active")
    IN  [i \in DOMAIN active |-> active[i].skill]

CollectedControls(list) == FoldLeft(MergeSkillControls, RuntimeControls, ActiveSkills(list))

-----------------------------------------------------------------------------
(* Rendering                                                               *)

NoState == [started |-> FALSE, checkpoint |-> 0, stop |-> 0]
NoBuild == [mode |-> "none", reason |-> "none"]
System == [kind |-> "system"]
LoopStart == <<System, [kind |-> "task"]>>   \* what _run_inner begins with

TrimResults(list) == SubSeq(list, IF Len(list) > MaxResults THEN Len(list) - MaxResults + 1 ELSE 1,
                            Len(list))

CollectedResults == TrimResults(events)

AskFacts == [pending |-> {a \in Asks : ask[a] = "pending"},
             answered |-> {a \in Asks : ask[a] = "answered"}]

StartUser(list) ==
    [kind |-> "start", asks |-> AskFacts, skills |-> Range(ActiveSkills(list)),
     controls |-> CollectedControls(list)]

StartContext(list) == <<System, StartUser(list)>>

DeltaUser ==
    [kind |-> "delta", stop |-> build.stop, asks |-> AskFacts,
     failed |-> Len(SelectSeq(build.results, LAMBDA ok : ~ok))]

CheckpointUser ==
    [kind |-> "checkpoint", step |-> step, stop |-> build.stop, asks |-> AskFacts,
     results |-> build.results]

\* One system message after the transcript, which stays as it was.
AppendedContext(user) == Append(messages, user)

\* _render_context; a delta_context without a reason is the transcript itself.
RenderContext(list) ==
    CASE build.mode = "start" -> StartContext(list)
      [] build.mode = "checkpoint" -> AppendedContext(CheckpointUser)
      [] build.mode = "delta" /\ build.reason # "none" -> AppendedContext(DeltaUser)
      [] OTHER -> messages

\* A start context has no prior messages.
AppendedCount(rendered) ==
    Len(rendered) - IF build.mode = "start" THEN 0 ELSE Len(messages)

-----------------------------------------------------------------------------
(* prepare_llm_call and SessionContextManager.build                        *)

\* Faulty: the checkpoint is a step late.
IntervalCheckpointLate == step - state.checkpoint > Interval

IntervalCheckpointDue == step - state.checkpoint >= Interval

RenderMode ==
    IF ~state.started THEN "start" ELSE IF IntervalCheckpointDue THEN "checkpoint" ELSE "delta"

\* The run ends; what it appended to the event stream stays.
EndAt(at, observed) ==
    /\ pc' = at /\ events' = events \o observed
    /\ todo' = 0 /\ build' = NoBuild

End(observed) == EndAt("idle", observed)

\* load_task and the event source; a second build of this call keeps its mode.
LoadTask ==
    /\ pc = "load"
    /\ build' = [mode |-> IF build.reason = "none" THEN RenderMode ELSE "delta",
                 reason |-> build.reason, stop |-> stop, results |-> CollectedResults,
                 messages |-> <<>>, id |-> 0]
    /\ pc' = "collect"
    /\ UNCHANGED <<ask, stop, events, activations, snapshots, traces, run, step, messages,
                   todo, state, sent, stops, crashes>>

\* The ASK source, the skill source and the renderer.
Collect ==
    /\ pc = "collect"
    /\ activations' = EnsureCapabilityActivation
    /\ build' = [build EXCEPT !.messages = RenderContext(activations'),
                              !.id = Cardinality(snapshots) + 1]
    /\ pc' = "snapshot"
    /\ UNCHANGED <<ask, stop, events, snapshots, traces, run, step, messages, todo, state,
                   sent, stops, crashes>>

SaveSnapshot ==
    /\ pc = "snapshot"
    /\ snapshots' = snapshots \cup {[id |-> build.id, run |-> run, step |-> step,
                                     mode |-> build.mode, messages |-> build.messages]}
    /\ pc' = "trace"
    /\ UNCHANGED <<ask, stop, events, activations, traces, run, step, messages, todo, state,
                   build, sent, stops, crashes>>

\* _prepare_reuse_transcript builds again when the stop it read is new.
NewStop == build.mode = "delta" /\ build.reason = "none" /\ build.stop # 0
           /\ build.stop # state.stop

\* The provider's run state after the build, and the loop's messages.
Prepared ==
    /\ state' = [started |-> TRUE, stop |-> build.stop,
                 checkpoint |-> IF build.mode = "checkpoint" THEN step
                                ELSE IF build.mode = "start" THEN 0 ELSE state.checkpoint]
    /\ messages' = build.messages
    /\ pc' = "ready"
    /\ UNCHANGED build

SaveTrace ==
    /\ pc = "trace"
    /\ traces' = traces \cup {[snapshot |-> build.id, mode |-> build.mode,
                               appended |-> AppendedCount(build.messages),
                               skills |-> Range(ActiveSkills(activations))]}
    /\ IF NewStop
       THEN /\ build' = [NoBuild EXCEPT !.reason = "interrupt_requested"]
            /\ pc' = "load"
            /\ UNCHANGED <<state, messages>>
       ELSE Prepared
    /\ UNCHANGED <<ask, stop, events, activations, snapshots, run, step, todo, sent, stops,
                   crashes>>

\* A source or the store raises: context_error ends the run.
ContextError ==
    /\ pc \in {"load", "collect", "snapshot", "trace"}
    /\ End(<<FALSE>>)
    /\ UNCHANGED <<ask, stop, activations, snapshots, traces, run, step, messages, state,
                   sent, stops, crashes>>

-----------------------------------------------------------------------------
(* The AgentLoop around it                                                 *)

Running == pc \notin {"idle", "waiting"}

\* The task is claimed: after an answer, which keeps a stop request, or after
\* a retry, which clears it.
StartRun ==
    /\ ~Running /\ run < MaxRuns
    /\ \A a \in Asks : ask[a] # "pending"
    /\ run' = run + 1 /\ step' = 1 /\ pc' = "turn" /\ messages' = LoopStart
    /\ state' = NoState /\ sent' = <<>>
    /\ stop' = IF pc = "waiting" THEN stop ELSE 0
    /\ UNCHANGED <<ask, events, activations, snapshots, traces, todo, build, stops, crashes>>

\* _check_interrupt at a safe point.
Interrupted == stop # 0

StepStart ==
    /\ pc = "turn"
    /\ IF Interrupted THEN End(<<FALSE>>) ELSE pc' = "load" /\ UNCHANGED <<events, todo, build>>
    /\ UNCHANGED <<ask, stop, activations, snapshots, traces, run, step, messages, state,
                   sent, stops, crashes>>

\* before_llm_chat, then the call.
Chat ==
    /\ pc = "ready"
    /\ IF Interrupted
       THEN End(<<FALSE>>) /\ UNCHANGED sent
       ELSE /\ sent' = Append(sent, [step |-> step, id |-> build.id, messages |-> messages])
            /\ pc' = "chatting" /\ build' = NoBuild
            /\ UNCHANGED <<events, todo>>
    /\ UNCHANGED <<ask, stop, activations, snapshots, traces, run, step, messages, state,
                   stops, crashes>>

\* The answer of the model: n tool calls, or none, which ends the run.
Response(n) ==
    /\ pc = "chatting"
    /\ messages' = Append(messages, [kind |-> "assistant", calls |-> n])
    /\ IF Interrupted THEN End(<<FALSE>>)
       ELSE IF n = 0 THEN End(<<>>)
       ELSE pc' = "tools" /\ todo' = n /\ UNCHANGED <<events, build>>
    /\ UNCHANGED <<ask, stop, activations, snapshots, traces, run, step, state, sent, stops,
                   crashes>>

LLMError ==
    /\ pc = "chatting" /\ End(<<FALSE>>)
    /\ UNCHANGED <<ask, stop, activations, snapshots, traces, run, step, messages, state,
                   sent, stops, crashes>>

ToolMessage(ok) == [kind |-> "tool", ok |-> ok]

\* The next call or step, both of which begin with the check of after_tool.
AfterTool(ok) ==
    IF todo > 1 THEN /\ todo' = todo - 1 /\ pc' = "tools" /\ events' = Append(events, ok)
                     /\ UNCHANGED <<build, step>>
    ELSE IF step = MaxSteps THEN End(<<ok>>) /\ UNCHANGED step
    ELSE /\ step' = step + 1 /\ pc' = "turn" /\ todo' = 0 /\ events' = Append(events, ok)
         /\ UNCHANGED build

\* before_tool; a stop may still arrive while the tool runs.
BeforeTool ==
    /\ pc = "tools"
    /\ IF Interrupted THEN End(<<FALSE>>)
       ELSE pc' = "executing" /\ UNCHANGED <<events, todo, build>>
    /\ UNCHANGED <<ask, stop, activations, snapshots, traces, run, step, messages, state,
                   sent, stops, crashes>>

RunTool(ok) ==
    /\ pc = "executing"
    /\ messages' = Append(messages, ToolMessage(ok))
    /\ AfterTool(ok)
    /\ UNCHANGED <<ask, stop, activations, snapshots, traces, run, state, sent, stops, crashes>>

\* A call that names no tool or has bad arguments is answered unchecked.
BadCall ==
    /\ pc = "tools"
    /\ messages' = Append(messages, ToolMessage(FALSE))
    /\ AfterTool(FALSE)
    /\ UNCHANGED <<ask, stop, activations, snapshots, traces, run, state, sent, stops, crashes>>

Finish ==
    /\ pc = "tools"
    /\ messages' = Append(messages, ToolMessage(TRUE))
    /\ End(<<TRUE>>)
    /\ UNCHANGED <<ask, stop, activations, snapshots, traces, run, step, state, sent, stops,
                   crashes>>

\* ask_user: the ASK is created, the task waits and the run ends.
RaiseAsk(a) ==
    /\ pc = "executing" /\ ask[a] = "none"
    /\ ask' = [ask EXCEPT ![a] = "pending"]
    /\ messages' = Append(messages, ToolMessage(TRUE))
    /\ EndAt("waiting", <<TRUE>>)
    /\ UNCHANGED <<stop, activations, snapshots, traces, run, step, state, sent, stops, crashes>>

-----------------------------------------------------------------------------
(* Users and the process                                                   *)

AnswerAsk(a) ==
    /\ ask[a] = "pending" /\ ask' = [ask EXCEPT ![a] = "answered"]
    /\ UNCHANGED <<stop, events, activations, snapshots, traces, run, step, pc, messages,
                   todo, state, build, sent, stops, crashes>>

RequestStop ==
    /\ Running /\ stop = 0 /\ stops < MaxStops
    /\ stop' = stops + 1 /\ stops' = stops + 1
    /\ UNCHANGED <<ask, events, activations, snapshots, traces, run, step, pc, messages, todo,
                   state, build, sent, crashes>>

\* The context store, the ASKs, the events and the task are on disk.
Crash ==
    /\ Running /\ crashes < MaxCrashes
    /\ crashes' = crashes + 1 /\ activations' = <<>> /\ state' = NoState
    /\ End(<<>>)
    /\ UNCHANGED <<ask, stop, snapshots, traces, run, step, messages, sent, stops>>

-----------------------------------------------------------------------------
Init ==
    /\ ask = [a \in Asks |-> "none"] /\ stop = 0 /\ events = <<>> /\ activations = <<>>
    /\ snapshots = {} /\ traces = {} /\ run = 0 /\ step = 0 /\ pc = "idle"
    /\ messages = <<>> /\ todo = 0 /\ state = NoState /\ build = NoBuild /\ sent = <<>>
    /\ stops = 0 /\ crashes = 0

Next ==
    \/ StartRun \/ StepStart \/ LoadTask \/ Collect \/ SaveSnapshot \/ SaveTrace
    \/ ContextError \/ Chat \/ LLMError \/ BeforeTool
    \/ BadCall \/ Finish \/ RequestStop \/ Crash
    \/ \E n \in 0 .. MaxCalls : Response(n)
    \/ \E ok \in BOOLEAN : RunTool(ok)
    \/ \E a \in Asks : RaiseAsk(a) \/ AnswerAsk(a)

-----------------------------------------------------------------------------
(* Properties                                                              *)

Calls == DOMAIN sent
Told(c) == Range(sent[c].messages)

\* The messages of a call extend those of the call before it: the cached
\* prefix is never rewritten within a run.
TranscriptKept ==
    \A c \in Calls : c > 1 => IsStrictPrefix(sent[c - 1].messages, sent[c].messages)

\* In what the model is sent, the results of an assistant message's tool calls
\* follow it at once: no context message comes between them.
ToolCallsAnswered ==
    \A c \in Calls : LET m == sent[c].messages IN
        \A i \in DOMAIN m : m[i].kind = "assistant" =>
            \A j \in i + 1 .. i + m[i].calls : j \in DOMAIN m /\ m[j].kind = "tool"

\* A call at step s has been given exactly the checkpoints due by s (the first
\* step has the start context), which are how the results of the task's earlier
\* runs reach the model.
CheckpointsDue ==
    \A c \in Calls :
        {m.step : m \in {x \in Told(c) : x.kind = "checkpoint"}} =
            {s \in 2 .. sent[c].step : s % Interval = 0}

\* An answer given before a run reaches every call of the run, though the
\* transcript that asked is gone.
AnswersTold ==
    Running => \A c \in Calls : \A a \in Asks :
        ask[a] = "answered" => \E m \in Told(c) : m.kind = "start" /\ a \in m.asks.answered

\* The model is never called with a context that shows a stop request: the
\* loop ends at the safe point before the call.
NoCallAfterStop ==
    \A c \in Calls : \A m \in Told(c) : m.kind \in {"delta", "checkpoint"} => m.stop = 0

\* Every call has a snapshot of what it was sent and a trace of that snapshot;
\* no trace is without its snapshot, whatever the crash.
CallsRecorded ==
    /\ \A c \in Calls : \E s \in snapshots :
          /\ s.id = sent[c].id /\ s.run = run /\ s.step = sent[c].step
          /\ s.messages = sent[c].messages
          /\ \E t \in traces : t.snapshot = s.id
    /\ \A t \in traces : \E s \in snapshots : s.id = t.snapshot /\ s.mode = t.mode
    /\ \A s, r \in snapshots : s.id = r.id => s = r

\* Skills only narrow what the runtime allows; none that is untrusted or asks
\* for more is in a trace, and none is activated twice in a run.
SkillsOnlyNarrow ==
    /\ \A c \in Calls : \A m \in Told(c) : m.kind = "start" =>
          m.controls.allowed \subseteq Tools \ m.controls.denied
    /\ \A t \in traces : \A s \in t.skills :
          s.trust # "untrusted" /\ s.requested \subseteq Tools
    /\ \A i, j \in DOMAIN activations :
          activations[i].run = activations[j].run /\ activations[i].skill = activations[j].skill
          => i = j

ContextSound ==
    /\ TranscriptKept /\ ToolCallsAnswered /\ CheckpointsDue /\ AnswersTold
    /\ NoCallAfterStop /\ CallsRecorded /\ SkillsOnlyNarrow
=============================================================================
