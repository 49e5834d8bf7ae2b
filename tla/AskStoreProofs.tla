--------------------------- MODULE AskStoreProofs ---------------------------
(***************************************************************************)
(* Proofs about the ASK store, for any set of ASKs, sessions and keys.     *)
(*                                                                         *)
(* KeyMovesOneAsk is not inductive: that a key has moved only one ASK      *)
(* rests on the idempotency row written in the same transaction            *)
(* (MovedIsRemembered), and that a remembered success stays true rests on  *)
(* settled rows never changing.                                            *)
(***************************************************************************)
EXTENDS AskStore, TLAPS

\* A key is remembered under the session the command came with; an accepted
\* command found its ASK there, so that is the ASK's own session.
LEMMA AcceptedFacts ==
    ASSUME AskInv, NEW kind \in AskCommandKind, NEW s \in Session, NEW a \in Ask,
           NEW k \in AskKey \cup {NoKey}, NEW ans \in Answer,
           AskResult(kind, s, a, k, ans).status = "accepted"
    PROVE  /\ ~Replayed(s, k)
           /\ ask[a].status = "pending"
           /\ ask[a].task \in Task
           /\ SessionOf[ask[a].task] = s
           /\ kind = "answer" => ans \notin InvalidAnswer
           /\ AskResult(kind, s, a, k, ans).ask = a
<1>1. ~Replayed(s, k)
  BY DEF AskResult
<1>2. Transitions(kind, s, a, ans)
  BY <1>1 DEF AskResult
<1>3. ask[a].task \in Task
  BY <1>2 DEF Transitions, AskFound, AskInv, AskRowShape, AskTypeOK, AskRequest
<1> QED
  BY <1>1, <1>2, <1>3 DEF AskResult, Transitions, AskFound

\* The row an accepted command writes.
LEMMA SettledRow ==
    ASSUME NEW row \in AskRequest, NEW kind \in AskCommandKind,
           NEW k \in AskKey \cup {NoKey}, NEW ans \in Answer
    PROVE  /\ Settled(row, kind, k, ans) \in AskRequest
           /\ Settled(row, kind, k, ans).status = StatusAfter(kind)
           /\ Settled(row, kind, k, ans).task = row.task
           /\ Settled(row, kind, k, ans).movedBy = k
           /\ Settled(row, kind, k, ans).answer = IF kind = "answer" THEN ans ELSE row.answer
           /\ StatusAfter(kind) \in {"answered", "deferred", "cancelled", "expired"}
           /\ StatusAfter(kind) = "answered" <=> kind = "answer"
<1>1. StatusAfter(kind) \in {"answered", "deferred", "cancelled", "expired"}
  BY DEF AskCommandKind, StatusAfter
<1>2. StatusAfter(kind) = "answered" <=> kind = "answer"
  BY DEF AskCommandKind, StatusAfter
<1> QED
  BY <1>1, <1>2 DEF Settled, AskRequest, AskStatus

\* The empty store satisfies the invariant.
LEMMA InitAskInv == AskInit => AskInv
<1> SUFFICES ASSUME AskInit PROVE AskInv
  OBVIOUS
<1>1. AskTypeOK
  BY DEF AskInit, AskTypeOK, AskRequest, AskStatus, AskMemo, AskCommandKind, NoMemo
<1>2. AskRowShape /\ MovedIsRemembered /\ KeyMovesOneAsk
  BY DEF AskInit, AskRowShape, MovedIsRemembered, KeyMovesOneAsk
<1>3. AnswerStored
  BY AskAssumption DEF AskInit, AnswerStored
<1>4. ReplayedSuccessIsTrue
  BY DEF AskInit, ReplayedSuccessIsTrue, NoMemo
<1> QED
  BY <1>1, <1>2, <1>3, <1>4 DEF AskInv

\* create() adds a pending row that no key points to.
LEMMA CreateKeepsInv ==
    ASSUME AskInv, NEW a \in Ask, NEW t \in Task, CreateAsk(a, t)
    PROVE  AskInv'
<1> DEFINE new == [ask[a] EXCEPT !.status = "pending", !.task = t]
<1>1. /\ ask' = [ask EXCEPT ![a] = new]
      /\ memo' = memo
      /\ ask[a].status = "absent"
  BY DEF CreateAsk, AskInv, AskTypeOK
<1>2. /\ ask[a] \in AskRequest
      /\ ask \in [Ask -> AskRequest]
  BY DEF AskInv, AskTypeOK
<1>3. /\ new \in AskRequest
      /\ new.status = "pending" /\ new.task = t
      /\ new.answer = ask[a].answer /\ new.movedBy = ask[a].movedBy
  BY <1>2 DEF AskRequest, AskStatus
<1>4. ask[a].movedBy = NoKey /\ ask[a].answer = NoAnswer
  BY <1>1 DEF AskInv, AskRowShape, AnswerStored
<1> HIDE DEF new
<1>5. \A b \in Ask : ask'[b] = IF b = a THEN new ELSE ask[b]
  BY <1>1, <1>2
<1>6. AskTypeOK'
  BY <1>1, <1>2, <1>3 DEF AskInv, AskTypeOK
<1>7. AskRowShape'
  BY <1>3, <1>4, <1>5, AskAssumption DEF AskInv, AskRowShape
<1>8. MovedIsRemembered'
  BY <1>1, <1>3, <1>4, <1>5 DEF AskInv, MovedIsRemembered
<1>9. AnswerStored'
  BY <1>3, <1>4, <1>5, AskAssumption DEF AskInv, AnswerStored
<1>10. ReplayedSuccessIsTrue'
  BY <1>1, <1>5 DEF AskInv, ReplayedSuccessIsTrue, AskFound
<1>11. KeyMovesOneAsk'
  BY <1>3, <1>4, <1>5 DEF AskInv, KeyMovesOneAsk
<1> QED
  BY <1>6, <1>7, <1>8, <1>9, <1>10, <1>11 DEF AskInv

\* answer(), defer(), cancel() and expire() when the command is accepted: one
\* pending row is settled and, if there is a key, one unused memo row is written.
LEMMA AcceptKeepsInv ==
    ASSUME AskInv, NEW kind \in AskCommandKind, NEW s \in Session, NEW a \in Ask,
           NEW k \in AskKey \cup {NoKey}, NEW ans \in Answer,
           AskCommand(kind, s, a, k, ans),
           AskResult(kind, s, a, k, ans).status = "accepted"
    PROVE  AskInv'
<1> DEFINE new  == Settled(ask[a], kind, k, ans)
           note == [status |-> "accepted", kind |-> kind, ask |-> a]
<1>1. /\ ~Replayed(s, k)
      /\ ask[a].status = "pending"
      /\ ask[a].task \in Task
      /\ SessionOf[ask[a].task] = s
      /\ kind = "answer" => ans \notin InvalidAnswer
      /\ AskResult(kind, s, a, k, ans).ask = a
  BY AcceptedFacts
<1>2. /\ ask' = [ask EXCEPT ![a] = new]
      /\ memo' = IF k = NoKey THEN memo ELSE [memo EXCEPT ![s][k] = note]
  BY <1>1 DEF AskCommand
<1>3. /\ ask \in [Ask -> AskRequest]
      /\ memo \in [Session -> [AskKey -> AskMemo]]
      /\ ask[a] \in AskRequest
  BY DEF AskInv, AskTypeOK
<1>4. /\ new \in AskRequest
      /\ new.status = StatusAfter(kind)
      /\ new.task = ask[a].task
      /\ new.movedBy = k
      /\ new.answer = IF kind = "answer" THEN ans ELSE ask[a].answer
      /\ StatusAfter(kind) \in {"answered", "deferred", "cancelled", "expired"}
      /\ StatusAfter(kind) = "answered" <=> kind = "answer"
  BY <1>3, SettledRow
<1>5. /\ note \in AskMemo
      /\ note.status = "accepted" /\ note.kind = kind /\ note.ask = a
  BY DEF AskMemo
<1> HIDE DEF new, note
<1>6. \A b \in Ask : ask'[b] = IF b = a THEN new ELSE ask[b]
  BY <1>2, <1>3
<1>7. \A r \in Session, l \in AskKey :
        memo'[r][l] = IF r = s /\ l = k THEN note ELSE memo[r][l]
  BY <1>2, <1>3, AskAssumption
<1>8. k # NoKey => k \in AskKey /\ memo[s][k].status = "none"
  BY <1>1, <1>3 DEF Replayed
<1>9. ask[a].answer = NoAnswer
  BY <1>1 DEF AskInv, AnswerStored
<1>10. AskTypeOK'
  BY <1>2, <1>3, <1>4, <1>5 DEF AskTypeOK
<1>11. AskRowShape'
  BY <1>1, <1>4, <1>6, AskAssumption DEF AskInv, AskRowShape
<1>12. MovedIsRemembered'
  <2> SUFFICES ASSUME NEW b \in Ask, ask'[b].movedBy # NoKey
               PROVE  /\ memo'[SessionOf[ask'[b].task]][ask'[b].movedBy].status = "accepted"
                      /\ memo'[SessionOf[ask'[b].task]][ask'[b].movedBy].ask = b
    BY DEF MovedIsRemembered
  <2>1. CASE b = a
    BY <2>1, <1>1, <1>4, <1>5, <1>6, <1>7, <1>8
  <2>2. CASE b # a
    <3>1. ask'[b] = ask[b]
      BY <2>2, <1>6
    <3>2. /\ memo[SessionOf[ask[b].task]][ask[b].movedBy].status = "accepted"
          /\ memo[SessionOf[ask[b].task]][ask[b].movedBy].ask = b
      BY <3>1 DEF AskInv, MovedIsRemembered
    <3>3. ask[b].movedBy \in AskKey /\ SessionOf[ask[b].task] \in Session
      <4>1. ask[b].status # "absent" /\ ask[b] \in AskRequest
        BY <3>1, <1>3 DEF AskInv, AskRowShape
      <4>2. ask[b].task \in Task
        BY <4>1 DEF AskInv, AskRowShape, AskRequest
      <4> QED
        BY <4>1, <4>2, <3>1, AskAssumption DEF AskRequest
    <3>4. ~(SessionOf[ask[b].task] = s /\ ask[b].movedBy = k)
      BY <3>2, <3>3, <1>8, AskAssumption
    <3> QED
      BY <3>1, <3>2, <3>3, <3>4, <1>7
  <2> QED
    BY <2>1, <2>2
<1>13. AnswerStored'
  BY <1>1, <1>4, <1>6, <1>9, AskAssumption DEF AskInv, AnswerStored
<1>14. ReplayedSuccessIsTrue'
  <2> SUFFICES ASSUME NEW r \in Session, NEW l \in AskKey, memo'[r][l].status = "accepted"
               PROVE  /\ AskFound(r, memo[r][l].ask)'
                      /\ ask'[memo'[r][l].ask].status = StatusAfter(memo'[r][l].kind)
                      /\ ask'[memo'[r][l].ask].movedBy = l
    BY DEF ReplayedSuccessIsTrue
  <2>1. CASE r = s /\ l = k
    BY <2>1, <1>1, <1>4, <1>5, <1>6, <1>7 DEF AskFound
  <2>2. CASE ~(r = s /\ l = k)
    <3>1. memo'[r][l] = memo[r][l]
      BY <2>2, <1>7
    <3>2. /\ AskFound(r, memo[r][l].ask)
          /\ ask[memo[r][l].ask].status = StatusAfter(memo[r][l].kind)
          /\ ask[memo[r][l].ask].movedBy = l
      BY <3>1 DEF AskInv, ReplayedSuccessIsTrue
    <3>3. memo[r][l] \in AskMemo
      BY <1>3
    <3>4. memo[r][l].ask \in Ask \cup {NoAsk}
      BY <3>3 DEF AskMemo
    <3>5. memo[r][l].ask # a
      <4>1. ask[a].movedBy = NoKey
        BY <1>1 DEF AskInv, AskRowShape
      <4> QED
        BY <4>1, <3>2, AskAssumption
    <3>6. ask'[memo[r][l].ask] = ask[memo[r][l].ask]
      BY <3>4, <3>5, <1>2
    <3> QED
      BY <3>1, <3>2, <3>6 DEF AskFound
  <2> QED
    BY <2>1, <2>2
<1>15. KeyMovesOneAsk'
  <2> SUFFICES ASSUME NEW b \in Ask, NEW c \in Ask, ask'[b].movedBy # NoKey,
                      ask'[b].movedBy = ask'[c].movedBy,
                      SessionOf[ask'[b].task] = SessionOf[ask'[c].task]
               PROVE  b = c
    BY DEF KeyMovesOneAsk
  <2> QED
    BY <1>12 DEF MovedIsRemembered
<1> QED
  BY <1>10, <1>11, <1>12, <1>13, <1>14, <1>15 DEF AskInv

\* A replay writes nothing; a rejection at most an unused memo row.
LEMMA RejectKeepsInv ==
    ASSUME AskInv, NEW kind \in AskCommandKind, NEW s \in Session, NEW a \in Ask,
           NEW k \in AskKey \cup {NoKey}, NEW ans \in Answer,
           AskCommand(kind, s, a, k, ans),
           AskResult(kind, s, a, k, ans).status # "accepted"
    PROVE  AskInv'
<1>1. ask' = ask
  BY DEF AskCommand
<1>2. CASE k = NoKey \/ Replayed(s, k)
  <2>1. memo' = memo
    BY <1>2 DEF AskCommand
  <2> QED
    BY <1>1, <2>1 DEF AskInv, AskTypeOK, AskRowShape, MovedIsRemembered, AnswerStored,
                      ReplayedSuccessIsTrue, KeyMovesOneAsk, AskFound
<1>3. CASE k # NoKey /\ ~Replayed(s, k)
  <2> DEFINE note == [status |-> "rejected", kind |-> kind,
                      ask |-> IF AskFound(s, a) THEN a ELSE NoAsk]
  <2>1. AskResult(kind, s, a, k, ans) = [status |-> "rejected",
                                         ask |-> IF AskFound(s, a) THEN a ELSE NoAsk]
    BY <1>3 DEF AskResult
  <2>2. memo' = [memo EXCEPT ![s][k] = note]
    BY <1>3, <2>1 DEF AskCommand
  <2>3. note \in AskMemo /\ note.status = "rejected"
    BY DEF AskMemo
  <2> HIDE DEF note
  <2>4. k \in AskKey /\ memo[s][k].status = "none"
    BY <1>3 DEF Replayed
  <2>5. memo \in [Session -> [AskKey -> AskMemo]] /\ ask \in [Ask -> AskRequest]
    BY DEF AskInv, AskTypeOK
  <2>6. \A r \in Session, l \in AskKey :
          memo'[r][l] = IF r = s /\ l = k THEN note ELSE memo[r][l]
    BY <2>2, <2>4, <2>5
  <2>7. AskTypeOK'
    BY <1>1, <2>2, <2>3, <2>5 DEF AskTypeOK
  <2>8. AskRowShape' /\ AnswerStored' /\ KeyMovesOneAsk'
    BY <1>1 DEF AskInv, AskRowShape, AnswerStored, KeyMovesOneAsk
  <2>9. MovedIsRemembered'
    <3> SUFFICES ASSUME NEW b \in Ask, ask[b].movedBy # NoKey
                 PROVE  /\ memo'[SessionOf[ask[b].task]][ask[b].movedBy].status = "accepted"
                        /\ memo'[SessionOf[ask[b].task]][ask[b].movedBy].ask = b
      BY <1>1 DEF MovedIsRemembered
    <3>1. /\ memo[SessionOf[ask[b].task]][ask[b].movedBy].status = "accepted"
          /\ memo[SessionOf[ask[b].task]][ask[b].movedBy].ask = b
      BY DEF AskInv, MovedIsRemembered
    <3>2. ask[b].status # "absent" /\ ask[b] \in AskRequest
      BY <2>5 DEF AskInv, AskRowShape
    <3>3. ask[b].task \in Task /\ ask[b].movedBy \in AskKey
      BY <3>2 DEF AskInv, AskRowShape, AskRequest
    <3>4. SessionOf[ask[b].task] \in Session
      BY <3>3, AskAssumption
    <3> QED
      BY <3>1, <3>3, <3>4, <2>4, <2>6
  <2>10. ReplayedSuccessIsTrue'
    BY <1>1, <2>3, <2>6 DEF AskInv, ReplayedSuccessIsTrue, AskFound
  <2> QED
    BY <2>7, <2>8, <2>9, <2>10 DEF AskInv
<1> QED
  BY <1>2, <1>3

\* Every command of the store keeps the invariant, whatever its key was used for.
LEMMA NextAskInv == AskInv /\ [AskNext]_askVars => AskInv'
<1> SUFFICES ASSUME AskInv, [AskNext]_askVars PROVE AskInv'
  OBVIOUS
<1>1. CASE UNCHANGED askVars
  BY <1>1 DEF askVars, AskInv, AskTypeOK, AskRowShape, MovedIsRemembered, AnswerStored,
              ReplayedSuccessIsTrue, KeyMovesOneAsk, AskFound
<1>2. CASE \E a \in Ask, t \in Task : CreateAsk(a, t)
  BY <1>2, CreateKeepsInv
<1>3. ASSUME NEW kind \in AskCommandKind, NEW s \in Session, NEW a \in Ask,
             NEW k \in AskKey \cup {NoKey}, NEW ans \in Answer,
             AskCommand(kind, s, a, k, ans)
      PROVE  AskInv'
  BY <1>3, AcceptKeepsInv, RejectKeepsInv
<1> QED
  BY <1>1, <1>2, <1>3 DEF AskNext

\* The invariant of the store: what the rows, the answers and the idempotency
\* rows say agrees after any sequence of commands and replays.
THEOREM AskInvariant == AskSpec => []AskInv
BY InitAskInv, NextAskInv, PTL DEF AskSpec

\* A replayed success is true, whatever happened to the ASK since
\* (_idempotency_replay_locked answers from the memo row alone).
THEOREM ReplayIsTruthful == AskSpec => []ReplayedSuccessIsTrue
<1>1. AskInv => ReplayedSuccessIsTrue
  BY DEF AskInv
<1> QED
  BY AskInvariant, <1>1, PTL

\* One idempotency key settles at most one ASK of a session.
THEOREM OneAskPerKey == AskSpec => []KeyMovesOneAsk
<1>1. AskInv => KeyMovesOneAsk
  BY DEF AskInv
<1> QED
  BY AskInvariant, <1>1, PTL

\* Answers are stored exactly with the answered ASKs and fit their questions.
THEOREM AnswersMatch == AskSpec => []AnswerStored
<1>1. AskInv => AnswerStored
  BY DEF AskInv
<1> QED
  BY AskInvariant, <1>1, PTL

\* A settled ASK never changes again: _answer_request and _transition_request
\* move pending rows only, and create() refuses an id that exists.
THEOREM SettledForever == AskSpec => SettledAskIsFinal
<1>1. AskInv /\ [AskNext]_askVars =>
        [\A a \in Ask : ask[a].status \notin {"absent", "pending"}
            => ask'[a] = ask[a]]_askVars
  <2> SUFFICES ASSUME AskInv, AskNext, NEW a \in Ask,
                      ask[a].status \notin {"absent", "pending"}
               PROVE  ask'[a] = ask[a]
    OBVIOUS
  <2>0. ask \in [Ask -> AskRequest]
    BY DEF AskInv, AskTypeOK
  <2>1. ASSUME NEW b \in Ask, NEW t \in Task, CreateAsk(b, t)
        PROVE  ask'[a] = ask[a]
    <3>1. b # a
      BY <2>1 DEF CreateAsk
    <3> QED
      BY <2>0, <2>1, <3>1 DEF CreateAsk
  <2>2. ASSUME NEW kind \in AskCommandKind, NEW s \in Session, NEW b \in Ask,
               NEW k \in AskKey \cup {NoKey}, NEW ans \in Answer,
               AskCommand(kind, s, b, k, ans)
        PROVE  ask'[a] = ask[a]
    <3>1. CASE AskResult(kind, s, b, k, ans).status = "accepted"
      <4>1. b # a
        BY <3>1, AcceptedFacts
      <4>2. ask' = [ask EXCEPT ![b] = Settled(ask[b], kind, k, ans)]
        BY <2>2, <3>1 DEF AskCommand
      <4> QED
        BY <2>0, <4>1, <4>2
    <3>2. CASE AskResult(kind, s, b, k, ans).status # "accepted"
      BY <2>2, <3>2 DEF AskCommand
    <3> QED
      BY <3>1, <3>2
  <2> QED
    BY <2>1, <2>2 DEF AskNext
<1> QED
  BY AskInvariant, <1>1, PTL DEF AskSpec, SettledAskIsFinal
=============================================================================
