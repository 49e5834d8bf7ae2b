--------------------------- MODULE ReadOnlyInquiry ---------------------------
(***************************************************************************)
(* The answer to a read-only question (server/read_only_inquiry.py and     *)
(* server/read_only_inquiry_answer_provider.py).                           *)
(*                                                                         *)
(* The service reads the session's snapshot, then each ref of the request, *)
(* while the session goes on changing; from what it found it has a         *)
(* baseline answer with evidence.  A guarded model may replace it: its     *)
(* reply is refused when it asks to change anything, cites what it was not *)
(* given or has not the right form, and one web search may come to its     *)
(* help.                                                                   *)
(***************************************************************************)
EXTENDS Naturals, Sequences, FiniteSets, Functions

CONSTANTS
    Inquiries,     \* [scope, refs]: refs a sequence of [id, kind, named]
    EvidenceIds,   \* ids a session may hold: scopes and refs
    HiddenIds,     \* those whose details are hidden
    Replies,       \* what the model may say
    HelperSets,    \* which of Helpers a deployment has
    MaxCited,      \* max_cited_refs
    WebIds,        \* ids of the results of a search
    Searches,      \* the lists of results a search may find
    MaxChanges     \* bound on the changes of the session

\* The optional collaborators: an answer provider, its web search, workspace
\* inspection and the support provider of diagnostics.
Helpers == {"model", "search", "inspection", "support"}

Statuses == {"answered", "needs_clarification", "unsupported", "rejected"}
AnswerModes == {"self_contained", "evidence_based"}

\* "error" stands for a call that fails, "text" for a reply that is no JSON.
ASSUME InquiryAssumption ==
    /\ MaxCited \in Nat \ {0} /\ MaxChanges \in Nat
    /\ HelperSets \subseteq SUBSET Helpers
    /\ Searches \subseteq Seq(WebIds) \ {<<>>}
    /\ \A q \in Inquiries : q.refs \in Seq(Range(q.refs))
    /\ \A reply \in Replies : reply.kind \in {"error", "text", "json"}

VARIABLES
    helpers,        \* the collaborators of this deployment
    holds,          \* the evidence ids that exist now
    holdsChanged,   \* how often the session changed
    inquiryAt,      \* where the request is
    inquiry,        \* the request
    refsLeft,       \* its refs yet to be read
    snapshotHeld,   \* the evidence ids of the snapshot
    baseline,       \* baseline answer: "none", "status" or "web"
    evidence,       \* the evidence refs found, in order
    warned,         \* the refs that could not be read, and what else was warned of
    parsedReply,    \* the reply that was accepted when a search follows it
    shownSets,      \* observer: what the model was given in each call
    inquiryResult   \* the response

inquiryVars == <<helpers, holds, holdsChanged, inquiryAt, inquiry, refsLeft, snapshotHeld, baseline,
                 evidence, warned, parsedReply, shownSets, inquiryResult>>

NoInquiry == [scope |-> "none", refs |-> <<>>]
NoReply == [kind |-> "none"]
Baseline(kind) == [kind |-> kind]
Warning(code) == [code |-> code]
Response(status, answer, cited, warnings) ==
    [status |-> status, answer |-> answer, evidence |-> cited, warnings |-> warnings]

\* Stands for None, and for the response before there is one.
Unusable == Response("none", NoReply, {}, {})
-----------------------------------------------------------------------------
Respond(r) == inquiryAt' = "done" /\ inquiryResult' = r

AskInquiry(q) ==
    /\ inquiryAt = "idle" /\ inquiryAt' = "snapshot" /\ inquiry' = q /\ refsLeft' = q.refs
    /\ UNCHANGED <<helpers, holds, holdsChanged, snapshotHeld, baseline, evidence, warned, parsedReply,
                   shownSets, inquiryResult>>

\* Files, diffs and audit records must be named; a result, an activity or a
\* diagnostic without a name is the one there is.
RefReadable(ref) ==
    /\ ref.kind \in {"file", "diff", "audit"} => ref.named
    /\ ref.kind \in {"file", "diff"} => "inspection" \in helpers

\* Where a ref is looked up: the snapshot holds results and diagnostics, the
\* rest is read when its turn comes.
LookedUp(ref) ==
    CASE ref.kind = "result" -> snapshotHeld
      [] ref.kind = "diagnostic" ->
            IF "support" \in helpers THEN snapshotHeld \cup holds ELSE snapshotHeld
      [] OTHER -> holds

\* The kinds no branch of the loop is for.
PassedOver == {"task", "plan"}

Found(ref) == RefReadable(ref) /\ ref.id \in LookedUp(ref)

\* get_session_snapshot and the baseline answer of the scope; a session may
\* be out of reach, and a plan or a task may have gone.
Snapshot ==
    /\ inquiryAt = "snapshot"
    /\ snapshotHeld' = holds
    /\ IF inquiry.scope \notin holds \/ "session" \notin holds
       THEN /\ Respond(Response(IF "session" \notin holds THEN "unsupported" ELSE "needs_clarification",
                                NoReply, {}, {Warning("context_empty")}))
            /\ UNCHANGED <<baseline, evidence>>
       ELSE /\ baseline' = "status" /\ evidence' = <<inquiry.scope>> /\ inquiryAt' = "refs"
            /\ UNCHANGED inquiryResult
    /\ UNCHANGED <<helpers, holds, holdsChanged, inquiry, refsLeft, warned, parsedReply, shownSets>>

\* One iteration of _append_ref_summaries.  A task or a plan is neither read
\* nor warned of.
ReadRef ==
    /\ inquiryAt = "refs" /\ refsLeft # <<>>
    /\ refsLeft' = Tail(refsLeft)
    /\ LET ref == Head(refsLeft) IN
       \/ ref.kind \in PassedOver /\ UNCHANGED <<evidence, warned>>
       \/ /\ ref.kind \notin PassedOver /\ Found(ref)
          /\ evidence' = Append(evidence, ref.id) /\ UNCHANGED warned
       \/ /\ ref.kind \notin PassedOver /\ ~Found(ref)
          /\ warned' = warned \cup {ref} /\ UNCHANGED evidence
    /\ UNCHANGED <<helpers, holds, holdsChanged, inquiryAt, inquiry, snapshotHeld, baseline, parsedReply,
                   shownSets, inquiryResult>>

\* Without a model the baseline is the answer.
RefsRead ==
    /\ inquiryAt = "refs" /\ refsLeft = <<>>
    /\ IF "model" \in helpers THEN inquiryAt' = "chat" /\ UNCHANGED inquiryResult
       ELSE Respond(Response("answered", Baseline(baseline), Range(evidence), warned))
    /\ UNCHANGED <<helpers, holds, holdsChanged, inquiry, refsLeft, snapshotHeld, baseline, evidence,
                   warned, parsedReply, shownSets>>

-----------------------------------------------------------------------------
(* GuardedLLMReadOnlyInquiryAnswerProvider                                 *)

FirstCited(list) == {list[i] : i \in 1 .. IF Len(list) < MaxCited THEN Len(list) ELSE MaxCited}

\* _messages: the refs the model may cite, at most MaxCited, none of them hidden.
Shown == FirstCited(evidence) \ HiddenIds

\* _messages sends the baseline body along, where each ref that was read has
\* left its label and summary: hidden ones and those past the limit too.
Prompt == [citable |-> Shown, told |-> Range(evidence)]

HasWebEvidence == Range(evidence) \cap WebIds # {}

\* _validated_payload.
ValidatedPayload(reply) ==
    LET cited == FirstCited(reply.cited)
        Not(status, warning) ==
            Response(status, NoReply, IF cited = {} THEN Range(evidence) ELSE cited, {Warning(warning)})
    IN  IF reply.status \notin Statuses \/ ~(cited \subseteq Range(evidence)) THEN Unusable
        ELSE IF reply.status # "answered"
        THEN Not(reply.status, IF reply.status = "rejected" THEN "no_mutation_boundary"
                               ELSE "unsupported_question")
        ELSE IF reply.mode \notin AnswerModes \/ (reply.mode = "self_contained" /\ cited # {})
        THEN Unusable
        ELSE IF reply.mode = "evidence_based" /\ cited = {}
        THEN Not("unsupported", "citation_required")
        ELSE IF ~reply.body THEN Unusable
        ELSE Response("answered", reply, cited, {})

\* _validated_plain_text_payload: only after a web search.
ValidatedPlainText(reply) ==
    IF ~HasWebEvidence \/ Shown = {} THEN Unusable ELSE Response("answered", reply, Shown, {})

\* A baseline made of web results is not shown without the model.
Fallback(warning) ==
    LET warnings == warned \cup {Warning(warning)}
    IN  IF baseline = "web" /\ HasWebEvidence
        THEN Response("unsupported", NoReply, Range(evidence), warnings)
        ELSE Response("answered", Baseline(baseline), Range(evidence), warnings)

MaySearch == "search" \in helpers /\ ~HasWebEvidence

\* Faulty: a reply that asks to change something is shown.
RefusedNothing(reply) == FALSE

Refused(reply) == reply.mutating

Validated(reply) ==
    IF reply.kind = "text" THEN ValidatedPlainText(reply) ELSE ValidatedPayload(reply)

\* The warnings of the request come with those of the reply.
WithWarnings(v, more) == Response(v.status, v.answer, v.evidence, warned \cup v.warnings \cup more)

\* The model is asked and answers; a reply that has no answer may be followed
\* by a search.
Chat(reply) ==
    /\ inquiryAt = "chat"
    /\ shownSets' = Append(shownSets, Prompt)
    /\ IF reply.kind = "error" THEN Respond(Fallback("provider_unavailable")) /\ UNCHANGED parsedReply
       ELSE IF Refused(reply) THEN Respond(Fallback("no_mutation_boundary")) /\ UNCHANGED parsedReply
       ELSE LET v == Validated(reply) IN
            IF v.status # "answered" /\ MaySearch
            THEN inquiryAt' = "search" /\ parsedReply' = v /\ UNCHANGED inquiryResult
            ELSE /\ UNCHANGED parsedReply
                 /\ Respond(IF v = Unusable THEN Fallback("provider_unavailable") ELSE WithWarnings(v, {}))
    /\ UNCHANGED <<helpers, holds, holdsChanged, inquiry, refsLeft, snapshotHeld, baseline, evidence,
                   warned>>

\* _web_search_context found something: the model is asked again, once.
SearchFinds(list) ==
    /\ inquiryAt = "search"
    /\ baseline' = "web" /\ evidence' = evidence \o list
    /\ warned' = warned \cup parsedReply.warnings
    /\ parsedReply' = Unusable /\ inquiryAt' = "chat"
    /\ UNCHANGED <<helpers, holds, holdsChanged, inquiry, refsLeft, snapshotHeld, shownSets,
                   inquiryResult>>

SearchFails ==
    /\ inquiryAt = "search"
    /\ Respond(IF parsedReply = Unusable THEN Fallback("provider_unavailable")
               ELSE WithWarnings(parsedReply, {Warning("provider_unavailable")}))
    /\ UNCHANGED <<helpers, holds, holdsChanged, inquiry, refsLeft, snapshotHeld, baseline, evidence,
                   warned, parsedReply, shownSets>>

\* The session changes under the request: something is gone or is new.
SessionChanges(e) ==
    /\ holdsChanged < MaxChanges /\ inquiryAt \notin {"idle", "done"}
    /\ holds' = IF e \in holds THEN holds \ {e} ELSE holds \cup {e}
    /\ holdsChanged' = holdsChanged + 1
    /\ UNCHANGED <<helpers, inquiryAt, inquiry, refsLeft, snapshotHeld, baseline, evidence, warned,
                   parsedReply, shownSets, inquiryResult>>

-----------------------------------------------------------------------------
InquiryInit ==
    /\ helpers \in HelperSets
    /\ holds \in {EvidenceIds, EvidenceIds \ HiddenIds} /\ holdsChanged = 0
    /\ inquiryAt = "idle" /\ inquiry = NoInquiry /\ refsLeft = <<>> /\ baseline = "none"
    /\ snapshotHeld = {} /\ evidence = <<>> /\ warned = {} /\ parsedReply = Unusable
    /\ shownSets = <<>> /\ inquiryResult = Unusable

InquiryNext ==
    \/ \E q \in Inquiries : AskInquiry(q)
    \/ Snapshot \/ ReadRef \/ RefsRead \/ SearchFails
    \/ \E reply \in Replies : Chat(reply)
    \/ \E list \in Searches : SearchFinds(list)
    \/ \E e \in EvidenceIds : SessionChanges(e)

InquirySpec == InquiryInit /\ [][InquiryNext]_inquiryVars

-----------------------------------------------------------------------------
(* Properties                                                              *)

Stages == {"idle", "snapshot", "refs", "chat", "search", "done"}
Prompts == [citable : SUBSET (EvidenceIds \cup WebIds), told : SUBSET (EvidenceIds \cup WebIds)]

\* Every variable has the shape the code gives it.
InquiryTypeOK ==
    /\ helpers \subseteq Helpers /\ holds \subseteq EvidenceIds /\ snapshotHeld \subseteq EvidenceIds
    /\ holdsChanged \in Nat /\ inquiryAt \in Stages /\ inquiry \in Inquiries \cup {NoInquiry}
    /\ refsLeft \in Seq(Range(inquiry.refs))
    /\ baseline \in {"none", "status", "web"}
    /\ evidence \in Seq(EvidenceIds \cup WebIds)
    /\ shownSets \in Seq(Prompts)

Gave == inquiryAt = "done"
GaveAnswer == Gave /\ inquiryResult.status = "answered"
FromModel == GaveAnswer /\ inquiryResult.answer.kind \notin {"status", "web"}
RefIds == {ref.id : ref \in Range(inquiry.refs)}

\* What the model wanted to change is not shown, whatever round it came in.
NothingToChange == FromModel => ~inquiryResult.answer.mutating

\* The evidence of a response was found for this request: its scope, its refs
\* or the search, and an answer of the model cites nothing else.
EvidenceIsFound ==
    Gave => /\ inquiryResult.evidence \subseteq Range(evidence)
            /\ inquiryResult.evidence \subseteq {inquiry.scope} \cup RefIds \cup WebIds

\* An answer of the model that claims evidence has some, a self-contained one
\* has none, and a text without a form comes only with the web.
AnswerIsGrounded ==
    FromModel =>
        /\ inquiryResult.answer.kind = "text" => inquiryResult.evidence # {} /\ HasWebEvidence
        /\ inquiryResult.answer.kind = "json" =>
              (inquiryResult.answer.mode = "evidence_based" <=> inquiryResult.evidence # {})

\* Search results alone are never the answer: the model read them or the
\* question stays open.
WebIsNotTheAnswer == GaveAnswer => inquiryResult.answer.kind # "web"

\* A ref is in the evidence or was warned of, unless it is of a kind that is
\* passed over.
Accounted(ref) == ref.kind \in PassedOver \/ ref.id \in Range(evidence) \/ ref \in warned

\* When the baseline is the answer, every ref of the request is in its
\* evidence or warned of.  Refs to tasks and plans are not: the loop of
\* _append_ref_summaries drops them without a word.
RefsAccounted ==
    GaveAnswer /\ inquiryResult.answer.kind = "status" =>
        \A ref \in Range(inquiry.refs) :
            ref.kind \notin PassedOver =>
                ref.id \in inquiryResult.evidence \/ ref \in inquiryResult.warnings

\* The model is asked at most twice.  What it may cite is never hidden, and it
\* is told only of what was found for this request.
BoundedAndDiscreet ==
    /\ Len(shownSets) <= 2
    /\ \A i \in DOMAIN shownSets :
         /\ shownSets[i].citable \cap HiddenIds = {}
         /\ Cardinality(shownSets[i].citable) <= MaxCited
         /\ shownSets[i].told \subseteq {inquiry.scope} \cup RefIds \cup WebIds

\* An answer to a question changes nothing and has the evidence it claims
\* (server/read_only_inquiry.py and its answer provider).
InquirySound ==
    /\ InquiryTypeOK
    /\ NothingToChange /\ EvidenceIsFound /\ AnswerIsGrounded /\ WebIsNotTheAnswer
    /\ RefsAccounted /\ BoundedAndDiscreet

-----------------------------------------------------------------------------
(* The inductive invariant.                                                *)

\* What was found belongs to the request, and every ref is accounted for or
\* still to be read.
FoundInv ==
    /\ Range(evidence) \subseteq {inquiry.scope} \cup RefIds \cup WebIds
    /\ inquiryAt \in {"snapshot", "refs"} =>
         \A ref \in Range(inquiry.refs) : Accounted(ref) \/ ref \in Range(refsLeft)
    /\ inquiryAt \in {"chat", "search"} => \A ref \in Range(inquiry.refs) : Accounted(ref)

\* The model is asked again only with results of a search.
RoundsInv ==
    /\ inquiryAt \in {"idle", "snapshot", "refs"} => shownSets = <<>>
    /\ inquiryAt = "chat" => shownSets = <<>> \/ (Len(shownSets) = 1 /\ HasWebEvidence)
    /\ inquiryAt = "search" => Len(shownSets) = 1
    /\ inquiryAt \in {"idle", "snapshot"} => evidence = <<>> /\ baseline = "none"
    /\ inquiryAt \in {"refs", "chat", "search"} => baseline # "none"
    /\ baseline = "web" => HasWebEvidence /\ inquiryAt # "refs"

\* What waits for the search is no answer, and cites what was found.
ParsedInv ==
    inquiryAt = "search" => parsedReply.status # "answered" /\ parsedReply.evidence \subseteq Range(evidence)

InquiryInv == InquirySound /\ FoundInv /\ RoundsInv /\ ParsedInv
=============================================================================
