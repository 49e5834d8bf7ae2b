------------------------------ MODULE AskStore ------------------------------
(***************************************************************************)
(* The durable ASK store: SqliteAskStore (interaction/sqlite_ask_store.py) *)
(* and InMemoryAskStore (interaction/ask.py), which share the transition   *)
(* functions of ask.py.  Every command runs under the store's lock, and in *)
(* the SQLite store the ASK row, the answer row and the idempotency row    *)
(* are written in one transaction, so a command is one action.             *)
(*                                                                         *)
(* The only producer, tools/ask.py, creates blocking ASKs for a task, so   *)
(* `blocking` is TRUE throughout.  Question texts and options are left     *)
(* out; what _validate_answer_against_request says of an answer is the     *)
(* set InvalidAnswer.                                                      *)
(***************************************************************************)
EXTENDS Integers

CONSTANTS
    Ask, Task, Session,
    SessionOf,      \* [Task -> Session]
    Answer,         \* answers a user may submit
    InvalidAnswer,  \* the ones that do not fit the question
    AskKey,         \* idempotency keys
    NoTask, NoAsk, NoAnswer, NoKey

ASSUME AskAssumption ==
    /\ InvalidAnswer \subseteq Answer
    /\ NoTask \notin Task /\ NoAsk \notin Ask
    /\ NoAnswer \notin Answer /\ NoKey \notin AskKey
    /\ SessionOf \in [Task -> Session]

VARIABLES
    ask,   \* the asks and ask_answers tables
    memo   \* the ask_command_idempotency table, by session and key

askVars == <<ask, memo>>

AskStatus == {"absent", "pending", "answered", "deferred", "cancelled", "expired"}

AskCommandKind == {"answer", "defer", "cancel", "expire"}

\* movedBy is the idempotency key of the command that settled the ASK: the
\* answer row stores it, for the other commands it is a history field.
AskRequest ==
    [status : AskStatus, task : Task \cup {NoTask},
     answer : Answer \cup {NoAnswer}, movedBy : AskKey \cup {NoKey}]

\* "none" marks a key that has not been used.
AskMemo == [status : {"none", "accepted", "rejected"},
            kind   : AskCommandKind,
            ask    : Ask \cup {NoAsk}]

NoMemo == [status |-> "none", kind |-> "answer", ask |-> NoAsk]

AskTypeOK ==
    /\ ask \in [Ask -> AskRequest]
    /\ memo \in [Session -> [AskKey -> AskMemo]]

AskInit ==
    /\ ask = [a \in Ask |-> [status |-> "absent", task |-> NoTask,
                             answer |-> NoAnswer, movedBy |-> NoKey]]
    /\ memo = [s \in Session |-> [k \in AskKey |-> NoMemo]]

-----------------------------------------------------------------------------
CreateAsk(a, t) ==
    /\ ask[a].status = "absent"
    /\ ask' = [ask EXCEPT ![a] = [@ EXCEPT !.status = "pending", !.task = t]]
    /\ UNCHANGED memo

StatusAfter(kind) ==
    CASE kind = "answer" -> "answered"
      [] kind = "defer"  -> "deferred"
      [] kind = "cancel" -> "cancelled"
      [] kind = "expire" -> "expired"

\* _get_locked(session_id, ask_id)
AskFound(s, a) == ask[a].status # "absent" /\ SessionOf[ask[a].task] = s

\* Faulty: a deferred or cancelled ASK can be settled again.
TransitionsUnlessAnswered(kind, s, a, ans) ==
    /\ AskFound(s, a)
    /\ ask[a].status # "answered"
    /\ kind = "answer" => ans \notin InvalidAnswer

\* _answer_request and _transition_request: the command is accepted.
Transitions(kind, s, a, ans) ==
    /\ AskFound(s, a)
    /\ ask[a].status = "pending"
    /\ kind = "answer" => ans \notin InvalidAnswer

\* Faulty: the idempotency row is not consulted.
NeverReplayed(s, k) == FALSE

\* _idempotency_replay: the key has been used before, by whatever command.
Replayed(s, k) == k # NoKey /\ memo[s][k].status # "none"

\* The AskStoreCommandResult the caller gets.
AskResult(kind, s, a, k, ans) ==
    IF Replayed(s, k)
    THEN [status |-> IF memo[s][k].status = "rejected" THEN "rejected" ELSE "replayed",
          ask    |-> memo[s][k].ask]
    ELSE [status |-> IF Transitions(kind, s, a, ans) THEN "accepted" ELSE "rejected",
          ask    |-> IF AskFound(s, a) THEN a ELSE NoAsk]

Settled(row, kind, k, ans) ==
    [row EXCEPT !.status  = StatusAfter(kind),
                !.answer  = IF kind = "answer" THEN ans ELSE @,
                !.movedBy = k]

\* answer(), defer(), cancel() and expire().  A rejection is remembered too.
AskCommand(kind, s, a, k, ans) ==
    LET result == AskResult(kind, s, a, k, ans)
    IN  /\ ask' = IF result.status = "accepted"
                  THEN [ask EXCEPT ![a] = Settled(@, kind, k, ans)]
                  ELSE ask
        /\ memo' = IF k = NoKey \/ Replayed(s, k)
                   THEN memo
                   ELSE [memo EXCEPT ![s][k] =
                            [status |-> result.status, kind |-> kind, ask |-> result.ask]]

AskNext ==
    \/ \E a \in Ask, t \in Task : CreateAsk(a, t)
    \/ \E kind \in AskCommandKind, s \in Session, a \in Ask,
          k \in AskKey \cup {NoKey}, ans \in Answer : AskCommand(kind, s, a, k, ans)

AskSpec == AskInit /\ [][AskNext]_askVars

-----------------------------------------------------------------------------
(* Properties.                                                             *)

\* An answer row exists exactly for answered ASKs
\* (AskRequest._validate_answer_reference), whatever mix of commands and
\* replays the ASK went through, and no invalid answer is ever stored.
AnswerStored ==
    \A a \in Ask :
        /\ ask[a].status = "answered" <=> ask[a].answer # NoAnswer
        /\ ask[a].answer \notin InvalidAnswer

\* A remembered success stays true: when a key is replayed, the ASK it moved
\* is still in the state the remembered command put it in, in that session.
ReplayedSuccessIsTrue ==
    \A s \in Session, k \in AskKey :
        memo[s][k].status = "accepted" =>
            /\ AskFound(s, memo[s][k].ask)
            /\ ask[memo[s][k].ask].status = StatusAfter(memo[s][k].kind)
            /\ ask[memo[s][k].ask].movedBy = k

\* One idempotency key settles at most one ASK of a session: a retried command
\* is not applied again to whatever it finds.
KeyMovesOneAsk ==
    \A a, b \in Ask :
        /\ ask[a].movedBy # NoKey
        /\ ask[a].movedBy = ask[b].movedBy
        /\ SessionOf[ask[a].task] = SessionOf[ask[b].task]
        => a = b

\* A settled ASK never changes again: the first answer, deferral or
\* cancellation wins and a late one is rejected.
SettledAskIsFinal ==
    [][\A a \in Ask : ask[a].status \notin {"absent", "pending"}
            => ask'[a] = ask[a]]_askVars

\* A row that exists names its task, and only a settled one names a key.
AskRowShape ==
    \A a \in Ask :
        /\ ask[a].status = "absent" <=> ask[a].task = NoTask
        /\ ask[a].movedBy # NoKey => ask[a].status \notin {"absent", "pending"}

\* The key that settled an ASK is remembered, with that ASK, in its session.
MovedIsRemembered ==
    \A a \in Ask :
        ask[a].movedBy # NoKey =>
            /\ memo[SessionOf[ask[a].task]][ask[a].movedBy].status = "accepted"
            /\ memo[SessionOf[ask[a].task]][ask[a].movedBy].ask = a

AskInv ==
    /\ AskTypeOK
    /\ AskRowShape
    /\ MovedIsRemembered
    /\ AnswerStored
    /\ ReplayedSuccessIsTrue
    /\ KeyMovesOneAsk
=============================================================================
