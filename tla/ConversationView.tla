-------------------------- MODULE ConversationView --------------------------
(***************************************************************************)
(* What moves the conversation under the reader: the focus and scroll      *)
(* runtime of the main page (runtime/mainPageFocusScrollRuntime.ts, the    *)
(* reducer, and useMainPageFocusScrollRuntime.ts, the effects).            *)
(*                                                                         *)
(* A commit shows the messages; its effects compare them with those seen   *)
(* before and dispatch to the reducer; the request that the reducer leaves *)
(* is carried out by the layout effect of the commit after.  The browser   *)
(* delivers a scroll event, of the user's hand or of the program's, at any *)
(* moment between these, and the handler takes each for the user's.        *)
(***************************************************************************)
EXTENDS Naturals, Sequences, FiniteSets

CONSTANTS
    Session,       \* sessions of the page, positive numbers
    Command,       \* ids of the inputs the user may send, positive numbers
    MaxMessages, MaxHands, MaxSwitches   \* bounds of the exploration

ViewAssumption == Session \cup Command \subseteq Nat \ {0}

VARIABLES
    st,         \* the reducer's state
    shown,      \* the messages of the last commit
    seen,       \* previousMessagesRef
    session,    \* the session of the last commit
    place,      \* where the list stands: "bottom" (within 48 px) or "above"
    scrolled,   \* a scroll event is to be delivered
    focus,      \* what has the focus
    input,      \* isInputSubmitting and inputError, with their previous values
    made,       \* messages that ever arrived
    hands, switches,
    reading,    \* ghost: the user's own hand left the list above its end
    overtook,   \* ghost: a commit came between a scroll and its event, or the event
                \* between a commit and its effects
    carded,     \* ghost: the program last scrolled to a question card
    pulled,     \* ghost: a reader was moved to the bottom
    sender,     \* ghost: the session of the input sent last, 0 for none
    took        \* ghost: the ends by which an input of another session took the focus

vars == <<st, shown, seen, session, place, scrolled, focus, input, made, hands, switches,
          reading, overtook, carded, pulled, sender, took>>
ghosts == <<reading, overtook, carded, pulled, sender, took>>

NoTarget == [kind |-> "none", id |-> 0]
Bottom == [kind |-> "bottom", id |-> 0]
Composer == [kind |-> "composer", id |-> 0]
Card(m) == [kind |-> "card", id |-> m.id]

-----------------------------------------------------------------------------
(* The reducer.                                                            *)

createInitialFocusScrollRuntimeState(s) ==
    [session |-> s, awaitingSubmitSettlement |-> FALSE, isPinnedToBottom |-> TRUE,
     manualScrollLock |-> FALSE, pendingSubmitCommandId |-> 0, shouldFollowNextAppend |-> FALSE,
     scroll |-> NoTarget, reason |-> "none", focus |-> NoTarget]

withScrollRequest(s, target, reason) == [s EXCEPT !.scroll = target, !.reason = reason]
withFocusRequest(s, target) == [s EXCEPT !.focus = target]
shouldAutoFollowConversation(s) == s.isPinnedToBottom /\ ~s.manualScrollLock

shouldFollowCommandMessage(s, m) ==
    /\ shouldAutoFollowConversation(s)
    /\ \/ s.shouldFollowNextAppend
       \/ s.pendingSubmitCommandId # 0 /\ m.command = s.pendingSubmitCommandId

resetScope(s) ==
    withScrollRequest(createInitialFocusScrollRuntimeState(s), Bottom, "scope_changed")

conversationScrolled(s, isAtBottom, user) ==
    [s EXCEPT !.isPinnedToBottom = isAtBottom,
              !.manualScrollLock = IF user THEN ~isAtBottom ELSE @]

submitStarted(s, c) ==
    LET follow == shouldAutoFollowConversation(s)
        next == [s EXCEPT !.awaitingSubmitSettlement = TRUE, !.pendingSubmitCommandId = c,
                          !.shouldFollowNextAppend = follow]
    IN IF follow THEN withScrollRequest(next, Bottom, "submit_started") ELSE next

\* The effects name no command: whatever is pending is over.
submitOver(s) ==
    withFocusRequest([s EXCEPT !.awaitingSubmitSettlement = FALSE, !.pendingSubmitCommandId = 0,
                               !.shouldFollowNextAppend = FALSE], Composer)
submitFailed(s) == submitOver(s)
submitSettled(s) == IF s.awaitingSubmitSettlement THEN submitOver(s) ELSE s

\* The first question card that came, if the reducer follows it.
FollowedCards(s, new) ==
    LET cards == SelectSeq(new, LAMBDA m : m.kind = "question")
    IN IF cards # <<>> /\ shouldFollowCommandMessage(s, Head(cards)) THEN {Head(cards)} ELSE {}

\* (A bug: the hand of the reader is ignored when something is appended.)
FollowsAlways(s, new) == withScrollRequest(s, Bottom, "message_appended")

reduceMessagesChanged(s, new) ==
    LET came == {new[i] : i \in DOMAIN new}
        follow == \/ shouldAutoFollowConversation(s)
                  \/ s.shouldFollowNextAppend
                  \/ \E m \in came : shouldFollowCommandMessage(s, m)
        failure == \E m \in came : m.kind = "failure" /\ shouldFollowCommandMessage(s, m)
        moved == IF new # <<>> /\ follow THEN withScrollRequest(s, Bottom, "message_appended") ELSE s
    IN IF FollowedCards(s, new) # {}
       THEN LET m == CHOOSE x \in FollowedCards(s, new) : TRUE
            IN [withFocusRequest(withScrollRequest(s, Card(m), "ask_card_created"), Card(m))
                  EXCEPT !.shouldFollowNextAppend = FALSE]
       ELSE [(IF failure THEN withFocusRequest(moved, Composer) ELSE moved)
               EXCEPT !.shouldFollowNextAppend = IF new # <<>> THEN FALSE ELSE @]

appendedMessages(previous, next) ==
    SelectSeq(next, LAMBDA m : \A i \in DOMAIN previous : previous[i].id # m.id)

-----------------------------------------------------------------------------
(* What the page shows.                                                    *)

\* React runs the effects of one commit before it renders the next.
Flushed ==
    /\ shown = seen /\ st.session = session
    /\ input.submitting = input.wasSubmitting /\ input.error = input.previousError

Message(n, c, kind) == [id |-> n, command |-> c, kind |-> kind, local |-> FALSE]

\* A longer list leaves a view of its end above the end, unless the growth
\* is within the threshold; a new list may be too short to scroll.
Grown(at) == IF shown = <<>> THEN {"bottom", "above"} ELSE {at, "above"}

\* A snapshot brings a message: an answer, a question or a failure of a
\* command, or something else (command 0); the local items of the input may
\* go with it.
MessageArrives(c, kind) ==
    /\ Flushed
    /\ made < MaxMessages /\ made' = made + 1
    /\ \E keep \in BOOLEAN :
        shown' = Append(SelectSeq(shown, LAMBDA m : keep \/ ~m.local), Message(made + 1, c, kind))
    /\ place' \in Grown(place)
    /\ overtook' = (overtook \/ scrolled)
    /\ UNCHANGED <<st, seen, session, scrolled, focus, input, hands, switches, reading, carded,
                   pulled, sender, took>>

\* The local items of an input that is over disappear.
LocalItemsGo ==
    /\ Flushed /\ ~input.submitting /\ \E i \in DOMAIN shown : shown[i].local
    /\ shown' = SelectSeq(shown, LAMBDA m : ~m.local)
    /\ scrolled' = (scrolled /\ shown' # <<>>)
    /\ UNCHANGED <<st, seen, session, place, focus, input, made, hands, switches, ghosts>>

\* The user sends an input: the runtime is told, the composer keeps the
\* focus, and a local item shows the input.
Submit(c) ==
    /\ Flushed /\ ~input.submitting /\ c \notin input.used /\ made < MaxMessages
    /\ st' = submitStarted(st, c)
    /\ focus' = Composer
    /\ input' = [input EXCEPT !.submitting = TRUE, !.wasSubmitting = TRUE, !.command = c,
                              !.error = FALSE, !.previousError = FALSE, !.used = @ \cup {c}]
    /\ made' = made + 1
    /\ shown' = Append(shown, [Message(made + 1, c, "plain") EXCEPT !.local = TRUE])
    /\ place' \in Grown(place)
    /\ sender' = session /\ overtook' = (overtook \/ scrolled)
    /\ UNCHANGED <<seen, session, scrolled, hands, switches, reading, carded, pulled,
                   took>>

\* The router's answer, or an error of the call.
Reply(failed) ==
    /\ Flushed /\ input.submitting
    /\ input' = [input EXCEPT !.submitting = FALSE, !.error = failed]
    /\ UNCHANGED <<st, shown, seen, session, place, scrolled, focus, made, hands, switches, ghosts>>

\* The user opens another session, and its messages are shown as a new list;
\* the error of the input goes with the session before.
Switch(s) ==
    /\ Flushed /\ s # session /\ switches < MaxSwitches /\ switches' = switches + 1
    /\ session' = s
    /\ \E n \in {0, 1} :
        /\ made + n <= MaxMessages /\ made' = made + n
        /\ shown' = IF n = 0 THEN <<>> ELSE <<Message(made + 1, 0, "plain")>>
    /\ place' \in {"bottom", "above"} /\ reading' = FALSE
    /\ scrolled' = (scrolled /\ shown' # <<>>)
    /\ input' = [input EXCEPT !.error = FALSE]
    /\ UNCHANGED <<st, seen, focus, hands, overtook, carded, pulled, sender, took>>

-----------------------------------------------------------------------------
(* The effects, in the order of the hook: the scope before the messages,   *)
(* the end of the submit before its error.                                 *)

ScopeEffect ==
    /\ st.session # session
    /\ st' = resetScope(session)
    /\ seen' = shown
    /\ UNCHANGED <<shown, session, place, scrolled, focus, input, made, hands, switches, ghosts>>

MessagesEffect ==
    /\ st.session = session /\ shown # seen
    /\ st' = reduceMessagesChanged(st, appendedMessages(seen, shown))
    /\ seen' = shown
    /\ UNCHANGED <<shown, session, place, scrolled, focus, input, made, hands, switches, ghosts>>

SettledEffect ==
    /\ input.wasSubmitting /\ ~input.submitting
    /\ input' = [input EXCEPT !.wasSubmitting = FALSE]
    /\ st' = submitSettled(st)
    /\ took' = IF st' # st /\ sender # session THEN took \cup {"settled"} ELSE took
    /\ UNCHANGED <<shown, seen, session, place, scrolled, focus, made, hands, switches,
                   reading, overtook, carded, pulled, sender>>

ErrorEffect ==
    /\ input.error # input.previousError /\ ~input.wasSubmitting
    /\ input' = [input EXCEPT !.previousError = input.error]
    /\ st' = IF input.error THEN submitFailed(st) ELSE st
    /\ took' = IF st' # st /\ sender # session THEN took \cup {"failed"} ELSE took
    /\ UNCHANGED <<shown, seen, session, place, scrolled, focus, made, hands, switches,
                   reading, overtook, carded, pulled, sender>>

\* The layout effects.  A request made while there is no list is never
\* carried out; a card may end up anywhere in view.
ScrollEffect ==
    /\ st.scroll # NoTarget
    /\ LET done == [st EXCEPT !.scroll = NoTarget, !.reason = "none"] IN
       \/ /\ shown = <<>>
          /\ st' = done /\ UNCHANGED <<place, pulled, reading, carded>>
       \/ /\ shown # <<>> /\ st.scroll = Bottom
          /\ place' = "bottom"
          /\ st' = conversationScrolled(done, TRUE, FALSE)
          /\ pulled' = (pulled \/ (reading /\ ~scrolled /\ st.reason # "scope_changed"))
          /\ reading' = FALSE /\ carded' = FALSE
       \/ /\ shown # <<>> /\ st.scroll # Bottom
          /\ place' \in {"above", "bottom"}
          /\ st' = done
          /\ reading' = (reading /\ place' = "above") /\ carded' = TRUE
          /\ UNCHANGED pulled
    /\ scrolled' = (scrolled \/ place' # place)
    /\ UNCHANGED <<shown, seen, session, focus, input, made, hands, switches, overtook, sender,
                   took>>

FocusEffect ==
    /\ st.focus # NoTarget
    /\ focus' = IF st.focus = Composer \/ \E i \in DOMAIN shown : shown[i].id = st.focus.id
                THEN st.focus ELSE focus
    /\ st' = [st EXCEPT !.focus = NoTarget]
    /\ UNCHANGED <<shown, seen, session, place, scrolled, input, made, hands, switches, ghosts>>

-----------------------------------------------------------------------------
(* The hand and the browser.                                               *)

\* Local items alone fit the view: there is nothing to scroll.
UserScrolls(to) ==
    /\ hands < MaxHands /\ hands' = hands + 1
    /\ place # to /\ \E i \in DOMAIN shown : ~shown[i].local
    /\ place' = to /\ scrolled' = TRUE /\ reading' = (to = "above")
    /\ UNCHANGED <<st, shown, seen, session, focus, input, made, switches, overtook, carded, pulled,
                   sender, took>>

\* onMessageListScroll measures the list as it is now.
ScrollEvent ==
    /\ scrolled /\ scrolled' = FALSE
    /\ shown # <<>>
    /\ st' = conversationScrolled(st, place = "bottom", TRUE)
    /\ overtook' = (overtook \/ shown # seen \/ st.scroll # NoTarget)
    /\ UNCHANGED <<shown, seen, session, place, focus, input, made, hands, switches,
                   reading, carded, pulled, sender, took>>

Init ==
    \E s \in Session :
        /\ st = [createInitialFocusScrollRuntimeState(s) EXCEPT !.session = 0]
        /\ shown = <<>> /\ seen = <<>> /\ session = s
        /\ place = "above" /\ scrolled = FALSE /\ focus = NoTarget
        /\ input = [submitting |-> FALSE, wasSubmitting |-> FALSE, command |-> 0, error |-> FALSE,
                    previousError |-> FALSE, used |-> {}]
        /\ made = 0 /\ hands = 0 /\ switches = 0
        /\ reading = FALSE /\ overtook = FALSE /\ carded = FALSE /\ pulled = FALSE /\ sender = 0
        /\ took = {}

Next ==
    \/ \E c \in {0, input.command}, k \in {"plain", "question", "failure"} : MessageArrives(c, k)
    \/ LocalItemsGo
    \/ \E c \in Command : Submit(c)
    \/ \E failed \in BOOLEAN : Reply(failed)
    \/ \E s \in Session : Switch(s)
    \/ ScopeEffect \/ MessagesEffect \/ SettledEffect \/ ErrorEffect \/ ScrollEffect \/ FocusEffect
    \/ \E to \in {"bottom", "above"} : UserScrolls(to)
    \/ ScrollEvent

-----------------------------------------------------------------------------
Quiet == shown = seen /\ st.session = session /\ st.scroll = NoTarget /\ ~scrolled

(* Whoever has scrolled up to read is not pulled to the bottom by what is  *)
(* appended, unless the scroll and a commit crossed: the commit before the *)
(* event of the scroll, or the event before the effects of the commit      *)
(* (docs/plans/feature/main-page-focus-scroll-runtime-technical-design).   *)
ReaderLeftAlone == pulled => overtook

(* A conversation nobody has scrolled stays at its end, whatever arrives   *)
(* and however often the session changes, with the same exception and      *)
(* that of a question card the page has scrolled to.                       *)
FollowsTheEnd ==
    Quiet /\ shown # <<>> /\ ~reading /\ ~overtook /\ ~carded => place = "bottom"

(* The lock is the reader's: no append, submit or programmatic scroll to   *)
(* the bottom sets it.                                                     *)
LockIsTheReaders ==
    st.manualScrollLock /\ st.session = session => reading \/ scrolled \/ overtook \/ carded

(* A submit belongs to its session: in the session opened after it nothing *)
(* waits for it or follows its messages, and its end takes the focus there *)
(* only when it failed (the effect of an input error asks nobody whose     *)
(* input that was).                                                        *)
SubmitStaysHome ==
    /\ st.awaitingSubmitSettlement \/ st.shouldFollowNextAppend \/ st.pendingSubmitCommandId # 0
          => sender = st.session
    /\ took \subseteq {"failed"}

ViewSound == ReaderLeftAlone /\ FollowsTheEnd /\ LockIsTheReaders /\ SubmitStaysHome

=============================================================================
