------------------------------ MODULE MCAgents ------------------------------
(***************************************************************************)
(* The agents and the requests that reach them: the instances of           *)
(* AutonomyLoop, CollaboratorLoop, LLMChat, InputRouter, ExecutionPlane,   *)
(* AgentContext and ReadOnlyInquiry for TLC.                               *)
(*                                                                         *)
(* As in MCPlanning, `part` names the instance that moves, the variables   *)
(* of the others rest, and instances of one component share variables.     *)
(* All but AgentContext are extended, their constants given by             *)
(* definitions: the parts "key" and "keys" explore the one instance of the *)
(* plane, "inputs", "resent" and "repaired" that of the router, "gate",    *)
(* "chat", "collaborator" and "inquiry" those of the others.               *)
(***************************************************************************)
EXTENDS ExecutionPlane, AutonomyLoop, LLMChat, InputRouter, CollaboratorLoop,
        ReadOnlyInquiry, TLC

CONSTANTS
    Parts        \* the instances to explore

VARIABLES
    part,
    ask, stopRequest, observed, activations, snapshots, traces, run, step, pc, sections,
    toolCalls, runState, build, sent, stopRequests, agentCrashes

contextVars == <<ask, stopRequest, observed, activations, snapshots, traces, run, step, pc,
                 sections, toolCalls, runState, build, sent, stopRequests, agentCrashes>>
vars == <<part, gateVars, collabVars, chatVars, routerVars, planeVars, contextVars,
          inquiryVars>>

-----------------------------------------------------------------------------
(* A harmless and a risky action under behaviours that cover the presets   *)
(* full_auto, risk_gated, collaborative and manual, and four more.         *)

B(trigger, strategy, timed, onTimeout, notify) ==
    [trigger |-> trigger, risk |-> 5, confidence |-> 5, strategy |-> strategy,
     timed |-> timed, onTimeout |-> onTimeout, notify |-> notify]

FullAuto == B("never", "async", FALSE, "proceed", FALSE)

Presets ==
    {FullAuto,
     B("on_risk", "sync", TRUE, "proceed", TRUE),
     B("on_risk", "sync", TRUE, "proceed", FALSE),
     B("on_uncertainty", "sync", FALSE, "wait", TRUE),
     B("always", "sync", FALSE, "wait", TRUE),
     B("on_risk", "sync", TRUE, "skip", TRUE),
     B("on_risk", "sync", TRUE, "wait", TRUE),
     B("always", "async", FALSE, "proceed", TRUE)}

ToolActions == <<"a1", "a2">>
ToolRisk == [a1 |-> 1, a2 |-> 5]
ToolConfidence == [a1 |-> 9, a2 |-> 2]

(* The tools of the collaborator, on files of each kind.                   *)

Call(tool, file, kind, named) == [tool |-> tool, file |-> file, kind |-> kind, refs |-> named]

CollaboratorCalls ==
    {Call("read", f, "none", {}) : f \in {"text", "binary", "protected"}}
    \cup {Call(tool, "none", "none", {}) : tool \in {"search", "write_file", "ask"}}
    \cup {Call("finish", "none", kind, {}) : kind \in {"raw_task", "draft_task_tree"}}
    \cup {Call("finish", "none", "raw_task", {7})}

(* Chat requests whose answers report a sound and an overstated usage.     *)

ChatUsages == {[hit |-> 1, input |-> 2, misses |-> FALSE],
               [hit |-> 2, input |-> 1, misses |-> FALSE]}

(* Two inputs at a time, sent once; one that is sent again after a crash;  *)
(* and one that needs repair.                                              *)

\* What a part leaves out of the instance: a request is one of `command` and
\* of `modes` in `thread`, on no task unless there are `tasks`, and the model
\* is asked once unless there are repairs.
OnlyInputs(thread, command, modes, tasks) ==
    \A th \in InputThreads : inputJob'[th].phase # "idle" =>
        /\ th \in thread /\ inputJob'[th].cmd \in command /\ inputJob'[th].mode \in modes
        /\ inputJob'[th].sel \in tasks \cup {NoId}
        /\ inputJob'[th].plan.id \in InputTasks => inputJob'[th].plan.id \in tasks
AskedOnce == \A th \in InputThreads : inputJob'[th].phase = "plan" => inputJob'[th].calls = 0

TwoInputs ==
    /\ OnlyInputs(InputThreads, Commands, {"auto"}, {}) /\ AskedOnce
    /\ UNCHANGED inputTask /\ inputCrashes' = 0
    /\ \A c \in Commands : inputSends'[c] <= 1
Resent == OnlyInputs({"th1"}, {"c1"}, Modes, InputTasks) /\ AskedOnce
Repaired == OnlyInputs({"th1"}, {"c1"}, {"auto"}, {}) /\ UNCHANGED inputTask

(* Every operation on one key of the execution plane, two bodies for it    *)
(* and a request no environment supports; two keys of one session; and one *)
(* client that sends its request again after a retry.                      *)

Publish(k, body) == [op |-> "publish", key |-> k, body |-> body, capable |-> TRUE]
Order(name, k) == [op |-> name, key |-> k, body |-> "b1", capable |-> TRUE]

OneKey == {Publish("k1", "b1"), Publish("k1", "b2"),
           [Publish("k1", "b3") EXCEPT !.capable = FALSE],
           Order("get", "k1"), Order("cancel", "k1"), Order("retry", "k1")}

TwoKeys == {Publish("k1", "b1"), Publish("k2", "b1"), Order("cancel", "k2")}

Again == {Publish("k1", "b1"), Order("cancel", "k1"), Order("retry", "k1")}

PlaneRequests == OneKey \cup TwoKeys

OnlySends(requests) == \A t \in Thread : job'[t].req \in requests \cup {NoRequest}

(* One run of a task whose responses call up to two tools, and two runs    *)
(* with a crash.  The skills: one that narrows the tools, one that is not  *)
(* to be used unasked, a plain one, and one that asks for a tool it may    *)
(* not have; an untrusted one comes first where they are allowed, and puts *)
(* the last past the limit.  One root is missing.                          *)

Skill(name, requested, denied, approval) ==
    [name |-> name, valid |-> TRUE, enabled |-> TRUE, implicit |-> TRUE, matches |-> TRUE,
     requested |-> requested, denied |-> denied, approval |-> approval, scopes |-> {}]

Root(trust, files) == [there |-> TRUE, trust |-> trust, enabled |-> TRUE, files |-> files]

SkillRoots ==
    <<[Root("trusted", <<>>) EXCEPT !.there = FALSE],
      Root("untrusted", <<Skill("spy", {"read"}, {}, {})>>),
      Root("trusted", <<[Skill("broken", {}, {}, {}) EXCEPT !.valid = FALSE],
                        Skill("careful", {"read"}, {"write"}, {"read"}),
                        [Skill("off", {}, {}, {}) EXCEPT !.implicit = FALSE],
                        Skill("plain", {"write"}, {}, {}),
                        Skill("web", {"read", "fetch"}, {}, {})>>)>>

OneRun == INSTANCE AgentContext WITH
    Asks <- {"q1"}, Tools <- {"read", "write"}, AllowUntrusted <- FALSE, MaxSkills <- 4,
    Roots <- SkillRoots, Interval <- 2, MaxResults <- 2, MaxSteps <- 4, MaxRuns <- 1,
    MaxCalls <- 2, MaxStops <- 1, MaxCrashes <- 0,
    stop <- stopRequest, events <- observed, messages <- sections, todo <- toolCalls,
    state <- runState, stops <- stopRequests, crashes <- agentCrashes

TwoRuns == INSTANCE AgentContext WITH
    Asks <- {"q1"}, Tools <- {"read", "write"}, AllowUntrusted <- TRUE, MaxSkills <- 4,
    Roots <- SkillRoots, Interval <- 2, MaxResults <- 2, MaxSteps <- 3, MaxRuns <- 2,
    MaxCalls <- 1, MaxStops <- 1, MaxCrashes <- 1,
    stop <- stopRequest, events <- observed, messages <- sections, todo <- toolCalls,
    state <- runState, stops <- stopRequests, crashes <- agentCrashes

(* Questions about a task or the session, answered by a model that may     *)
(* search, or without one.                                                 *)

Ref(kind, id) == [kind |-> kind, id |-> id, named |-> TRUE]

Questions == {[scope |-> "task", refs |-> <<Ref("file", "file1"), Ref("audit", "secret")>>],
              [scope |-> "session", refs |-> <<[Ref("diff", "none") EXCEPT !.named = FALSE]>>],
              [scope |-> "session", refs |-> <<Ref("result", "task"), Ref("plan", "plan1"),
                                              Ref("diagnostic", "file1")>>]}

SearchLists == {<<"web1">>, <<"web2">>, <<"web1", "web2">>}
Deployments == {{"model", "search", "inspection"}, {}, {"inspection", "support"}}

Json(status, mode, cited) ==
    [kind |-> "json", mutating |-> FALSE, status |-> status, mode |-> mode, cited |-> cited,
     body |-> TRUE]

Sayings ==
    {[kind |-> "error"],
     [kind |-> "text", mutating |-> FALSE], [kind |-> "text", mutating |-> TRUE],
     Json("answered", "evidence_based", <<"task">>),
     Json("answered", "evidence_based", <<"file1", "web1">>),
     Json("answered", "evidence_based", <<>>), Json("answered", "self_contained", <<>>),
     Json("answered", "self_contained", <<"task">>), Json("answered", "none", <<>>),
     Json("unsupported", "none", <<>>), Json("rejected", "none", <<"session">>),
     Json("unknown", "none", <<>>),
     [Json("answered", "self_contained", <<>>) EXCEPT !.body = FALSE],
     [Json("answered", "self_contained", <<>>) EXCEPT !.mutating = TRUE]}

ASSUME AgentsAssumption ==
    /\ OneRun!ContextAssumption /\ TwoRuns!ContextAssumption

-----------------------------------------------------------------------------
Init ==
    /\ part \in Parts
    /\ GateInit /\ (part # "gate" => behavior = FullAuto)
    /\ CollabInit /\ (part # "collaborator" => operation = "create_raw_task")
    /\ ChatInit /\ (part # "chat" => settings = "m1")
    /\ RouterInit
    /\ PlaneInit
    /\ OneRun!Init
    /\ InquiryInit /\ (part # "inquiry" => helpers = {} /\ holds = EvidenceIds)

RestOfGate == UNCHANGED <<part, collabVars, chatVars, routerVars, planeVars, contextVars,
    inquiryVars>>
RestOfCollaborator == UNCHANGED <<part, gateVars, chatVars, routerVars, planeVars, contextVars,
    inquiryVars>>
RestOfChat == UNCHANGED <<part, gateVars, collabVars, routerVars, planeVars, contextVars,
    inquiryVars>>
RestOfRouter == UNCHANGED <<part, gateVars, collabVars, chatVars, planeVars, contextVars,
    inquiryVars>>
RestOfPlane == UNCHANGED <<part, gateVars, collabVars, chatVars, routerVars, contextVars,
    inquiryVars>>
RestOfContext == UNCHANGED <<part, gateVars, collabVars, chatVars, routerVars, planeVars,
    inquiryVars>>
RestOfInquiry == UNCHANGED <<part, gateVars, collabVars, chatVars, routerVars, planeVars,
    contextVars>>

GatePart == part = "gate" /\ GateNext /\ RestOfGate
CollaboratorPart == part = "collaborator" /\ CollabNext /\ RestOfCollaborator
ChatPart == part = "chat" /\ ChatNext /\ RestOfChat

RouterPart ==
    /\ RouterNext
    /\ \/ part = "inputs" /\ TwoInputs
       \/ part = "resent" /\ Resent
       \/ part = "repaired" /\ Repaired
    /\ RestOfRouter

PlanePart ==
    /\ PlaneNext
    /\ \/ part = "key" /\ OnlySends(OneKey)
       \/ part = "keys" /\ OnlySends(TwoKeys) /\ sends' <= 2
       \/ part = "again" /\ OnlySends(Again) /\ job'["t2"] = Idle
    /\ RestOfPlane

ContextNext ==
    /\ \/ part = "run" /\ OneRun!Next
       \/ part = "runs" /\ TwoRuns!Next
    /\ RestOfContext

InquiryPart == part = "inquiry" /\ InquiryNext /\ RestOfInquiry

Next ==
    GatePart \/ CollaboratorPart \/ ChatPart \/ RouterPart \/ PlanePart \/ ContextNext
    \/ InquiryPart

Spec == Init /\ [][Next]_vars

\* The fairness of the components: threads that run go on.
Fairness ==
    /\ WF_vars(part = "gate" /\ LoopStep /\ RestOfGate)
    /\ WF_vars(part = "gate" /\ SubscriberTakes /\ RestOfGate)
    /\ WF_vars(part = "repaired" /\ Serve("th1") /\ Repaired /\ RestOfRouter)
    /\ \A t \in {"t1", "t2"} : WF_vars(part \in {"keys", "again"} /\ Step(t) /\ RestOfPlane)
    /\ WF_vars(part \in {"keys", "again"} /\ Execute /\ RestOfPlane)

FairSpec == Spec /\ Fairness

-----------------------------------------------------------------------------
(* The properties of the components, for the instance that moves; those of *)
(* the modules that are extended hold as they stand.                       *)

\* The model is sent one growing transcript with the checkpoints, answers and
\* limits it is due, and every call is on record (context/, skills/).
ContextSound == part \in {"run", "runs"} =>
    IF part = "run" THEN OneRun!ContextSound ELSE TwoRuns!ContextSound
=============================================================================
