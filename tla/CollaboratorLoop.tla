-------------------------- MODULE CollaboratorLoop --------------------------
(***************************************************************************)
(* One request of the Collaborator: the bounded loop that lets the model   *)
(* read and search the workspace, the evidence it leaves, the terminal     *)
(* calls that end it and the mutation that follows.  A file is its kind.   *)
(***************************************************************************)
EXTENDS Naturals, Sequences, FiniteSets

CONSTANTS
    ToolCalls,        \* tool calls the model makes: [tool, file, kind, refs]
    MaxToolCalls,     \* calls of one response
    MaxContextSteps,  \* max_context_steps
    HasSource,        \* a workspace context source is configured
    FileLength,       \* characters of a text file
    SnippetChars      \* max_snippet_chars

Terminals == {"ask", "finish"}
Forbidden == {"write_file", "run_command", "shell", "execute_code"}
ToolNames == Terminals \cup Forbidden \cup {"read", "search", "other"}
FileKinds == {"text", "empty", "binary", "missing", "protected", "outside", "none"}
ProposalKinds == {"raw_task", "draft_task_tree", "draft_task_patch", "none"}

ASSUME LoopAssumption ==
    /\ MaxToolCalls \in Nat /\ MaxContextSteps \in Nat /\ HasSource \in BOOLEAN
    /\ FileLength \in Nat \ {0} /\ SnippetChars \in Nat \ {0}
    /\ ToolCalls \subseteq [tool : ToolNames, file : FileKinds, kind : ProposalKinds, refs : SUBSET Nat]

VARIABLES
    stage,        \* "chat", "dispatch", "submit" or "done"
    operation,    \* the operation of the request
    unanswered,   \* calls of the last response not yet answered
    contextSteps, \* context steps used
    gathered,     \* evidence of this loop
    transcript,   \* assistant and tool messages
    evidenceStore,\* the evidence store: [id, file, decision]
    loopResult,   \* the loop's result
    mutated       \* the proposal handed to the authoring service

collabVars == <<stage, operation, unanswered, contextSteps, gathered, transcript, evidenceStore,
                loopResult, mutated>>
-----------------------------------------------------------------------------
KindOf == [create_raw_task |-> "raw_task", generate_task_tree |-> "draft_task_tree",
           refine_task_node |-> "draft_task_patch"]

Finished(kind, used) == [status |-> "finished", kind |-> kind, refs |-> used, cause |-> "none"]

\* map_rejection keeps the reason only.
Rejected(cause) == [status |-> "rejected", kind |-> "none", refs |-> {}, cause |-> cause]
NoResult == [status |-> "none", kind |-> "none", refs |-> {}, cause |-> "none"]

CollabInit ==
    /\ stage = "chat" /\ operation \in DOMAIN KindOf
    /\ unanswered = <<>> /\ transcript = <<>>
    /\ contextSteps = 0
    /\ gathered = {} /\ evidenceStore = {}
    /\ loopResult = NoResult /\ mutated = "none"

LoopEnds(r) == stage' = "submit" /\ loopResult' = r /\ unanswered' = <<>>
-----------------------------------------------------------------------------
(* Responses of the model.                                                  *)

Responses == UNION {[1..n -> ToolCalls] : n \in 0..MaxToolCalls}

\* A terminal call: the loop's evidence is added when the model names none, and a question may only
\* end the creation of a raw task.
Terminal(c) ==
    LET used == IF gathered # {} /\ c.refs = {} THEN gathered ELSE c.refs
    IN  IF c.tool = "finish" THEN Finished(c.kind, used)
        ELSE IF operation = "create_raw_task" THEN Finished("raw_task", used)
        ELSE Rejected("ask outside raw task")

Say(calls) ==
    transcript' = Append(transcript, [role |-> "assistant", calls |-> calls])

\* A response without tool calls is the proposal, when it parses.
Content ==
    /\ stage = "chat"
    /\ Say(<<>>)
    /\ \E parses \in BOOLEAN :
         LoopEnds(IF parses THEN Finished(KindOf[operation], gathered) ELSE Rejected("content"))
    /\ UNCHANGED <<operation, contextSteps, gathered, evidenceStore, mutated>>

\* A terminal call must be the only one of its response.
TerminalCall ==
    /\ stage = "chat"
    /\ \E calls \in Responses :
         /\ \E i \in DOMAIN calls : calls[i].tool \in Terminals
         /\ Say(calls)
         /\ LoopEnds(IF Len(calls) > 1 THEN Rejected("terminal not alone") ELSE Terminal(calls[1]))
    /\ UNCHANGED <<operation, contextSteps, gathered, evidenceStore, mutated>>

\* Context calls, as long as there are steps left.
ContextCalls ==
    /\ stage = "chat"
    /\ \E calls \in Responses :
         /\ calls # <<>> /\ \A i \in DOMAIN calls : calls[i].tool \notin Terminals
         /\ Say(calls)
         /\ IF contextSteps >= MaxContextSteps
            THEN LoopEnds(Rejected("step limit")) /\ UNCHANGED contextSteps
            ELSE /\ stage' = "dispatch" /\ unanswered' = calls
                 /\ contextSteps' = contextSteps + 1
                 /\ UNCHANGED loopResult
    /\ UNCHANGED <<operation, gathered, evidenceStore, mutated>>
-----------------------------------------------------------------------------
(* Context tools.                                                           *)

\* The part of a text shown around a match at index, of the given length.
SnippetAround(length, index, most, match) ==
    LET low(a, b) == IF a < b THEN a ELSE b
        end == low(index + match, length)
        back(a, b) == IF a > b THEN a - b ELSE 0
        start == low(back(index, most \div 3), back(end, most))
        upto == low(start + most, length)
    IN  IF length <= most THEN [from |-> 0, upto |-> length]
        ELSE IF upto < end THEN [from |-> back(end, most), upto |-> end]
        ELSE [from |-> start, upto |-> upto]

\* What read_workspace makes of a path.
Decision(file) == IF file \in {"outside", "protected"} THEN "denied"
                  ELSE IF file \in {"missing", "binary"} THEN "omitted" ELSE "allowed"

\* A record of evidence; one with an empty snippet does not validate and is not stored.
Put(file, decision) == [id |-> Cardinality(evidenceStore), file |-> file, decision |-> decision]

\* The tool message of a call: the evidence it names, what it shows, and the
\* snippet of a match with the place of the match.
Snippet(part, index, match) == [part |-> part, index |-> index, match |-> match]
NoSnippet == Snippet([from |-> 0, upto |-> 0], 0, 0)
ToolMessage(c, ids, shown, snippet) ==
    [role |-> "tool", call |-> c, refs |-> ids, shown |-> shown, snippet |-> snippet]

\* Faulty: one tool message answers the whole response.
ToolAnsweredOnce(message) ==
    /\ transcript' = Append(transcript, message)
    /\ unanswered' = <<>> /\ stage' = "chat"
    /\ UNCHANGED loopResult

\* The tool message of the first pending call, then the next call or the next response.
ToolAnswered(message) ==
    /\ transcript' = Append(transcript, message)
    /\ unanswered' = Tail(unanswered)
    /\ stage' = IF Len(unanswered) = 1 THEN "chat" ELSE "dispatch"
    /\ UNCHANGED loopResult

Kept(r) == evidenceStore' = evidenceStore \cup {r} /\ gathered' = gathered \cup {r.id}

\* read_workspace: every path leaves evidence, read or not; an empty file fails to validate.
Read ==
    LET c == Head(unanswered)
    IN  /\ stage = "dispatch" /\ HasSource /\ c.tool = "read"
        /\ IF c.file = "empty"
           THEN LoopEnds(Rejected("empty file")) /\ UNCHANGED <<evidenceStore, gathered, transcript>>
           ELSE LET r == Put(c.file, Decision(c.file))
                IN  /\ Kept(r)
                    /\ ToolAnswered(ToolMessage(c, {r.id},
                          IF r.decision = "allowed" THEN {c.file} ELSE {}, NoSnippet))
        /\ UNCHANGED <<operation, contextSteps, mutated>>

\* search_workspace: a match of the guidance files, none of them protected, with a snippet around it.
Search ==
    LET c == Head(unanswered)
    IN  /\ stage = "dispatch" /\ HasSource /\ c.tool = "search"
        /\ \/ /\ ToolAnswered(ToolMessage(c, {}, {}, NoSnippet))
              /\ UNCHANGED <<evidenceStore, gathered>>
           \/ \E index \in 0..(FileLength - 1) : \E match \in 1..(FileLength - index) :
                LET r == Put("text", "allowed")
                IN  /\ Kept(r)
                    /\ ToolAnswered(ToolMessage(c, {r.id}, {"text"},
                          Snippet(SnippetAround(FileLength, index, SnippetChars, match),
                                  index, match)))
        /\ UNCHANGED <<operation, contextSteps, mutated>>

\* Any other tool, or no source: the loop is rejected.
Refuse ==
    LET c == Head(unanswered)
    IN  /\ stage = "dispatch"
        /\ ~HasSource \/ c.tool \notin {"read", "search"}
        /\ LoopEnds(Rejected(IF c.tool \in Forbidden THEN "forbidden" ELSE "not allowed"))
        /\ UNCHANGED <<operation, contextSteps, gathered, transcript, evidenceStore, mutated>>

\* The service: a finished proposal of the expected kind, if it validates, is submitted.
Submit ==
    /\ stage = "submit"
    /\ IF loopResult.status = "finished" /\ loopResult.kind = KindOf[operation]
       THEN mutated' \in {loopResult.kind, "none"}
       ELSE mutated' = "none"
    /\ stage' = "done"
    /\ UNCHANGED <<operation, unanswered, contextSteps, gathered, transcript, evidenceStore,
                   loopResult>>

CollabNext ==
    \/ Content \/ TerminalCall \/ ContextCalls
    \/ Read \/ Search \/ Refuse
    \/ Submit

CollabSpec == CollabInit /\ [][CollabNext]_collabVars
-----------------------------------------------------------------------------
(* Properties.                                                              *)

SaidMessages == [role : {"assistant"}, calls : Seq(ToolCalls)]
Snippets == [part : [from : Nat, upto : Nat], index : Nat, match : Nat]
ToolMessages == [role : {"tool"}, call : ToolCalls, refs : SUBSET Nat, shown : SUBSET FileKinds,
                 snippet : Snippets]

Causes == {"none", "content", "ask outside raw task", "terminal not alone", "step limit",
           "empty file", "forbidden", "not allowed"}
Results == [status : {"none", "finished", "rejected"}, kind : ProposalKinds, refs : SUBSET Nat,
            cause : Causes]

\* Every variable has the shape the code gives it.
CollabTypeOK ==
    /\ stage \in {"chat", "dispatch", "submit", "done"} /\ operation \in DOMAIN KindOf
    /\ unanswered \in Seq(ToolCalls) /\ contextSteps \in Nat /\ gathered \subseteq Nat
    /\ transcript \in Seq(SaidMessages \cup ToolMessages)
    /\ IsFiniteSet(evidenceStore)
    /\ evidenceStore \subseteq
         [id : Nat, file : FileKinds, decision : {"allowed", "denied", "omitted"}]
    /\ loopResult \in Results
    /\ mutated \in ProposalKinds

Stored == {r.id : r \in evidenceStore}

\* The calls of the model, message by message.
IsSaid(i) == transcript[i].role = "assistant"
SaidCall(i, k) == transcript[i].calls[k]

\* "Preserve append-only transcript behavior and provider tool-call ordering": before each request to
\* the model every tool call has its tool message, in the order of the calls (run).
TranscriptPaired ==
    stage = "chat" =>
        \A i \in DOMAIN transcript : IsSaid(i) =>
            /\ i + Len(transcript[i].calls) <= Len(transcript)
            /\ \A k \in DOMAIN transcript[i].calls :
                 transcript[i + k].role = "tool" /\ transcript[i + k].call = SaidCall(i, k)

\* The evidence that the model named itself in a terminal call.
Named(refs) ==
    \E i \in DOMAIN transcript : IsSaid(i) /\ \E k \in DOMAIN transcript[i].calls :
        SaidCall(i, k).tool \in Terminals /\ SaidCall(i, k).refs = refs

\* Every observation the model was shown is backed by a stored record, and the evidence a loop hands on
\* is evidence it gathered, or what the model named instead (_terminal_action_from_tool_call).
EvidenceStored ==
    /\ \A i \in DOMAIN transcript : transcript[i].role = "tool" => transcript[i].refs \subseteq Stored
    /\ loopResult.refs \subseteq Stored \/ Named(loopResult.refs)

\* Nothing under the product's metadata or outside the workspace is shown to the model.
ProtectedUnseen ==
    \A i \in DOMAIN transcript :
        transcript[i].role = "tool" => transcript[i].shown \cap {"protected", "outside"} = {}

\* The model has asked the user a question.
HasAsked ==
    \E i \in DOMAIN transcript :
        IsSaid(i) /\ \E k \in DOMAIN transcript[i].calls : SaidCall(i, k).tool = "ask"

\* The authoring domain changes only by a proposal of the kind that was asked for, and a question never
\* becomes a plan.
MutationMatchesRequest ==
    mutated # "none" => mutated = KindOf[operation] /\ (operation # "create_raw_task" => ~HasAsked)

\* A snippet is no longer than allowed and holds the whole match when it fits.
HoldsMatch(s) ==
    /\ s.part.upto - s.part.from <= SnippetChars
    /\ s.match <= SnippetChars => s.part.from <= s.index /\ s.index + s.match <= s.part.upto

\* Every snippet that the model is shown does (_snippet_around).
SnippetHoldsMatch ==
    \A i \in DOMAIN transcript : transcript[i].role = "tool" => HoldsMatch(transcript[i].snippet)

\* Whatever the model calls, the loop keeps the transcript in the provider's
\* order, shows only what it may and hands on only what was asked for.
LoopSound ==
    /\ CollabTypeOK /\ TranscriptPaired /\ EvidenceStored /\ ProtectedUnseen
    /\ MutationMatchesRequest /\ SnippetHoldsMatch

-----------------------------------------------------------------------------
(* The inductive invariant.                                                 *)

\* A tool message keeps the promises to the model, with the evidence given.
FairMessage(m, ids) ==
    m.role = "tool" =>
        /\ m.refs \subseteq ids /\ m.shown \cap {"protected", "outside"} = {}
        /\ HoldsMatch(m.snippet)

\* Of every response, the calls that are answered have their answers behind
\* it, and those that are not are the unanswered ones, in order.
InOrder(said, waiting) ==
    \A i \in DOMAIN said : said[i].role = "assistant" =>
        /\ i + Len(said[i].calls) <= Len(said) + Len(waiting)
        /\ \A k \in DOMAIN said[i].calls :
             IF i + k <= Len(said)
             THEN said[i + k].role = "tool" /\ said[i + k].call = said[i].calls[k]
             ELSE waiting[i + k - Len(said)] = said[i].calls[k]

\* Before its end a loop has heard no terminal call.
NoTerminalYet ==
    \A i \in DOMAIN transcript : IsSaid(i) =>
        \A k \in DOMAIN transcript[i].calls : SaidCall(i, k).tool \notin Terminals

CollabInv ==
    /\ CollabTypeOK
    /\ \A i \in DOMAIN transcript : FairMessage(transcript[i], Stored)
    /\ gathered \subseteq Stored
    /\ loopResult.refs \subseteq Stored \/ Named(loopResult.refs)
    /\ stage = "chat" => unanswered = <<>>
    /\ stage = "dispatch" => unanswered # <<>>
    /\ stage \in {"chat", "dispatch"} =>
         InOrder(transcript, unanswered) /\ NoTerminalYet /\ mutated = "none"
    /\ stage = "submit" => mutated = "none"
    /\ HasAsked /\ operation # "create_raw_task" /\ stage \in {"submit", "done"} =>
         loopResult.status = "rejected"
    /\ mutated # "none" =>
         loopResult.status = "finished" /\ mutated = loopResult.kind
         /\ loopResult.kind = KindOf[operation]
=============================================================================
