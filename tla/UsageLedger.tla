----------------------------- MODULE UsageLedger -----------------------------
(***************************************************************************)
(* The token usage ledger of a workspace: events as the decorator          *)
(* normalises them and the summaries the usage page asks for.  A counter a *)
(* provider did not report is Unknown; a ratio is a numerator and a        *)
(* denominator.                                                            *)
(***************************************************************************)
EXTENDS Integers, Sequences, FiniteSets, SequencesExt, FiniteSetsExt

CONSTANTS
    Sessions, Tasks,   \* ids, to which None is added
    PlanOf,            \* the plan a task belongs to
    MaxTokens,         \* counters go from 0 to this
    MaxEvents

None == "none"
Unknown == -1
NoRatio == <<0, 0>>

LedgerAssumption ==
    /\ MaxTokens \in Nat /\ MaxEvents \in Nat
    /\ PlanOf \in [Tasks -> STRING] /\ None \notin Sessions \cup Tasks

VARIABLES
    ledger             \* events in the order of their times

vars == <<ledger>>
-----------------------------------------------------------------------------
(* Normalisation.                                                           *)

Counters == {Unknown} \cup 0..MaxTokens

Usages == [input : Counters, hit : Counters, miss : Counters]

\* The ratio of one call, of hits and misses or else of hits and input.
CacheHitRatio(u) ==
    IF u.hit = Unknown THEN NoRatio
    ELSE IF u.miss # Unknown /\ u.hit + u.miss > 0 THEN <<u.hit, u.hit + u.miss>>
    ELSE IF u.input > 0 THEN <<u.hit, u.input>>
    ELSE NoRatio

IsProportion(r) == r = NoRatio \/ (r[1] >= 0 /\ r[1] <= r[2])

\* Usage an event accepts: a ratio above one does not validate.
Valid(u) == IsProportion(CacheHitRatio(u))

\* The plan is resolved from the task; the lookup may fail, and is then left out.
Event(session, task, plan, u) ==
    [session |-> session, task |-> task, plan |-> plan, input |-> u.input, hit |-> u.hit, miss |-> u.miss]
-----------------------------------------------------------------------------
(* Summaries.                                                               *)

Field(events, f) == [i \in DOMAIN events |-> events[i][f]]

\* The sum of the known counters, unknown when there is none.
SumKnown(values) ==
    LET known == SelectSeq(values, LAMBDA v : v # Unknown)
    IN  IF known = <<>> THEN Unknown ELSE FoldLeft(LAMBDA a, b : a + b, 0, known)

\* The ratio of a group: hits and misses when every call with hits reports its misses, else hits and input.
AggregateCacheRate(events) ==
    LET hits == SumKnown(Field(events, "hit"))
        misses == SumKnown(Field(events, "miss"))
        input == SumKnown(Field(events, "input"))
        paired == \A i \in DOMAIN events : events[i].hit # Unknown => events[i].miss # Unknown
    IN  IF hits # Unknown /\ paired /\ misses # Unknown /\ hits + misses > 0 THEN <<hits, hits + misses>>
        ELSE IF hits # Unknown /\ input > 0 THEN <<hits, input>>
        ELSE NoRatio

\* The id all events with one share.
SingleValue(events, f) ==
    LET known == ToSet(Field(events, f)) \ {None}
    IN  IF Cardinality(known) = 1 THEN CHOOSE v \in known : TRUE ELSE None

Summary(events) ==
    [calls |-> Len(events), input |-> SumKnown(Field(events, "input")),
     hit |-> SumKnown(Field(events, "hit")), miss |-> SumKnown(Field(events, "miss")),
     ratio |-> AggregateCacheRate(events), plan |-> SingleValue(events, "plan")]

\* The groups of a dimension; a call without an id of it is in none.
GroupIds(dimension, events) == ToSet(Field(events, dimension)) \ {None}

Group(dimension, id, events) == SelectSeq(events, LAMBDA e : e[dimension] = id)

Rows(dimension, events) ==
    [id \in GroupIds(dimension, events) |-> Summary(Group(dimension, id, events))]
-----------------------------------------------------------------------------
Init == ledger = <<>>

Put(e) == Len(ledger) < MaxEvents /\ ledger' = Append(ledger, e)

Call ==
    \E u \in Usages : Valid(u) /\
      \E s \in Sessions \cup {None}, t \in Tasks \cup {None} :
        \E p \in (IF s # None /\ t # None THEN {PlanOf[t], None} ELSE {None}) : Put(Event(s, t, p, u))

Full == Len(ledger) = MaxEvents /\ UNCHANGED vars

Next == Call \/ Full

Spec == Init /\ [][Next]_vars
-----------------------------------------------------------------------------
(* Properties.                                                              *)

\* "sum known counters; keep aggregate counters null only when no included event reports that counter":
\* the rows of a dimension and the calls outside it add up to the totals (summarize).
RowsAddUp ==
    \A d \in {"session", "task", "plan"} :
        LET rows == Rows(d, ledger)
            outside == Summary(SelectSeq(ledger, LAMBDA e : e[d] = None))
            known(x) == IF x = Unknown THEN 0 ELSE x
            total == Summary(ledger)
        IN  /\ total.calls = outside.calls + MapThenSumSet(LAMBDA id : rows[id].calls, DOMAIN rows)
            /\ known(total.input) = known(outside.input)
                 + MapThenSumSet(LAMBDA id : known(rows[id].input), DOMAIN rows)
            /\ (total.input = Unknown) <=> (\A i \in DOMAIN ledger : ledger[i].input = Unknown)

\* A row of a task that names its plan counts among the rows of that plan.
TaskRowsNameTheirPlan ==
    \A t \in GroupIds("task", ledger) :
        LET plan == Rows("task", ledger)[t].plan
        IN  plan # None => plan = PlanOf[t] /\ plan \in GroupIds("plan", ledger)

\* The ratio of a group is a proportion, as the field's bounds (ge=0, le=1) demand, when all its
\* calls with hits report their misses or all report an input that covers them, whatever else
\* each leaves out.  A group that mixes the two kinds may sum to more hits than input: its summary
\* breaks the bounds and is an error instead of a page.
Comparable(events) ==
    LET hit == {i \in DOMAIN events : events[i].hit # Unknown}
    IN  (\A i \in hit : events[i].miss # Unknown) \/ (\A i \in hit : events[i].input >= events[i].hit)

RatioIsProportion ==
    /\ Comparable(ledger) => IsProportion(Summary(ledger).ratio)
    /\ \A d \in {"session", "task", "plan"} : \A id \in GroupIds(d, ledger) :
         Comparable(Group(d, id, ledger)) => IsProportion(Rows(d, ledger)[id].ratio)

\* The usage page adds up, and its ratios are proportions as far as calls can be compared.
UsageSound == RowsAddUp /\ TaskRowsNameTheirPlan /\ RatioIsProportion
=============================================================================
