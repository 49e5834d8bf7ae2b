----------------------------- MODULE Workbench -----------------------------
(***************************************************************************)
(* The main page's controller in the browser: which session the page is    *)
(* on, the snapshots it holds of the sessions, the input on its way to the *)
(* router with the local items that stand for it meanwhile, the commands   *)
(* of the page's buttons, and the session dialog.                          *)
(*                                                                         *)
(* Everything asynchronous is a step of its own: a reply or a snapshot may *)
(* come back after the user has moved to another session.  React applies   *)
(* the state setters of one callback and the effects they trigger in one   *)
(* commit, which is one step here.  What the page holds for the user (the  *)
(* draft, errors, the notice, ...) is abstracted to the visit it is about: *)
(* the one in which the user typed, or sent what was answered.  A new      *)
(* visit starts whenever the page moves to a session.                      *)
(***************************************************************************)
EXTENDS Naturals, Sequences, FiniteSets

CONSTANTS
    Session,      \* sessions of the workspace; 1 is the one the page opens on
    Input,        \* inputs the user may submit, in this order
    SameText,     \* the inputs all have the same text
    Kind,         \* commands the buttons of the page send
    ActLimit,     \* 20 in the code: activity items kept, here one for each input
    MaxVisits,    \* bound: visits of the page to a session
    MaxFetches,   \* bound: snapshots asked for
    MaxCommands,  \* bound: commands and dialogs
    Dialogs,      \* the user opens session dialogs
    Reply         \* replies of the router

WorkbenchAssumption ==
    /\ Session \subseteq Nat \ {0} /\ 1 \in Session /\ Input \subseteq Nat \ {0}
    /\ SameText \in BOOLEAN /\ Dialogs \in BOOLEAN
    /\ Kind \subseteq {"confirmation", "authoring", "repair", "answer", "defer", "cancel",
                       "publish", "archive", "retry", "stop"}
    /\ Reply \subseteq {"error", "not_ok", "command_rejected", "command_accepted", "answered",
                        "refused"}
    /\ ActLimit \in Nat \ {0} /\ MaxVisits \in Nat /\ MaxFetches \in Nat /\ MaxCommands \in Nat

VARIABLES
    active,    \* activeSessionId, 0 when there is none
    visit,     \* number of the visit
    ident,     \* the session of the snapshotIdentity, 0 when nothing is loaded
    cache,     \* the query cache: the snapshot of each session
    load,      \* the snapshot on its way, for each session
    pending,   \* MainPagePendingRuntimeState
    acts,      \* runtimeActivityItems: the inputs they are about, newest first
    failed,    \* the snapshot queries in error
    ui,        \* what else the page holds: the visit it is about, or 0
    late,      \* history: the fields filled by a reply to something sent in another visit
    flight,    \* the input mutation under way
    sending,   \* the visit a command of each kind was sent in, 0 when none is
    dialog,    \* the session dialog and its mutation
    server,    \* which messages the server holds of an input
    submitted, \* history: session, visit and outcome of each input; "unseen" is an
               \* accepted one whose reply asked for no snapshot
    fetches, issued

view == <<active, visit, ident>>
held == <<ui, late>>
vars == <<active, visit, ident, cache, load, failed, pending, acts, ui, late, flight, sending,
          dialog, server, submitted, fetches, issued>>

Max(S) == CHOOSE x \in S : \A y \in S : y <= x

Trace == {"user", "result"}                    \* messages the server keeps of an input
Item == {"local_user_input", "local_understanding"}
Field == {"draft", "input", "clarification", "notice", "selection", "confirmation",
          "authoring", "tree", "ask"}
Slot(k) == CASE k \in {"answer", "defer", "cancel"} -> "ask"
             [] k \in {"confirmation", "authoring"} -> k
             [] OTHER -> "tree"

NotLoaded == [known |-> FALSE, has |-> {}]
NoLoad == [at |-> "idle", has |-> {}]
NoFlight == [input |-> 0, reply |-> "none", hint |-> FALSE, clarification |-> 0, late |-> FALSE]
Unsent == [session |-> 0, visit |-> 0, outcome |-> "none"]
NoDialog == [mode |-> "closed", busy |-> "none", visit |-> 0]
Empty == [f \in Field |-> 0]

SameBody(i, j) == i = j \/ SameText

\* The page shows its session.  A query in error puts a frame in its place that
\* offers nothing, even over data it has.
isWorkbench == ident # 0 /\ ~failed[active]

\* The frame of a workspace that has no session lists and creates sessions.
isNoSession == ident = 0 /\ failed[active]

\* The page holds u, with the fields F filled by what was sent in the visit v.
Fill(u, F, v) ==
    /\ ui' = [f \in Field |-> IF f \in F THEN v ELSE u[f]]
    /\ late' = IF v = visit THEN late \ F ELSE late \cup F

-----------------------------------------------------------------------------
(* The local items of the inputs on their way.                             *)

createInitialPendingRuntimeState(s) ==
    [session |-> s, items |-> {}, status |-> [i \in Input |-> "none"]]

startRuntimeInputSubmit(p, i, s) ==
    [session |-> s, items |-> p.items \cup {i} \X Item,
     status |-> [p.status EXCEPT ![i] = "local_pending"]]

\* Items carry the status of their command.
updateCommandStatus(p, i, to) ==
    IF p.status[i] = "none" THEN p ELSE [p EXCEPT !.status[i] = to]

removeCommandItems(p, i) ==
    [p EXCEPT !.items = {x \in @ : x[1] # i}, !.status[i] = "none"]

\* A message with the body of the input counts as its user message (within
\* five minutes, which the model takes as always).
hasDurableUserInput(i, has) == \E j \in Input : <<j, "user">> \in has /\ SameBody(i, j)
hasDurableRuntimeResult(i, has) == <<i, "result">> \in has

reconcileHydratedSnapshot(p, has) ==
    LET kept == {x \in p.items :
                   /\ p.status[x[1]] # "none"
                   /\ \/ p.status[x[1]] \in {"failed", "rejected"}
                      \/ x[2] = "local_user_input" /\ ~hasDurableUserInput(x[1], has)
                      \/ x[2] = "local_understanding" /\ ~hasDurableRuntimeResult(x[1], has)}
    IN  [p EXCEPT !.items = kept,
                  !.status = [i \in Input |-> IF \E x \in kept : x[1] = i THEN @[i] ELSE "none"]]

\* snapshot.hydrated
Hydrate(p, s, has) ==
    IF p.session # s THEN createInitialPendingRuntimeState(s)
    ELSE reconcileHydratedSnapshot(p, has)

prependRuntimeActivityItems(i) ==
    LET rest == SelectSeq(acts, LAMBDA j : j # i)
    IN  SubSeq(<<i>> \o rest, 1, IF Len(rest) < ActLimit THEN Len(rest) + 1 ELSE ActLimit)

-----------------------------------------------------------------------------
(* The snapshot queries.                                                   *)

\* Ask for the snapshot of the session s; a query that has data starts again,
\* one that has none goes on.
refetchSnapshot(s) ==
    IF fetches < MaxFetches /\ s # 0 /\ (cache[s].known \/ load[s].at = "idle")
    THEN /\ load' = [load EXCEPT ![s] = [at |-> "asked", has |-> {}]]
         /\ fetches' = fetches + 1
    ELSE UNCHANGED <<load, fetches>>

ReadSnapshot(s) ==
    /\ load[s].at = "asked"
    /\ load' = [load EXCEPT ![s] =
         [at |-> "read", has |-> {x \in Input \X Trace :
                                    submitted[x[1]].session = s /\ x[2] \in server[x[1]]}]]
    /\ UNCHANGED <<view, cache, failed, pending, acts, held, flight, sending, dialog, server, submitted,
                   fetches, issued>>

\* Mutant: the command errors of the session before stay.
ResetUnlessError(s) ==
    IF ident = s THEN UNCHANGED <<held, dialog>>
    ELSE /\ late' = {}
         /\ ui' = [f \in Field |-> IF f \in {"input", "tree", "ask"} THEN ui[f] ELSE 0]
         /\ dialog' = [dialog EXCEPT !.mode = "closed"]

\* The effect of a page that shows another session than before.
ResetOnIdentity(s) ==
    IF ident = s THEN UNCHANGED <<held, dialog>>
    ELSE ui' = Empty /\ late' = {} /\ dialog' = [dialog EXCEPT !.mode = "closed"]

\* The data of the query changes: the page that is on this session hydrates
\* the pending items, and resets what it held if it was not showing anything.
SnapshotArrives(s) ==
    /\ load[s].at = "read"
    /\ load' = [load EXCEPT ![s] = NoLoad]
    /\ cache' = [cache EXCEPT ![s] = [known |-> TRUE, has |-> load[s].has]]
    /\ failed' = [failed EXCEPT ![s] = FALSE]
    /\ IF s = active
       THEN /\ pending' = Hydrate(pending, s, load[s].has)
            /\ ident' = s
            /\ ResetOnIdentity(s)
       ELSE UNCHANGED <<pending, ident, held, dialog>>
    /\ UNCHANGED <<active, visit, acts, flight, sending, server, submitted, fetches, issued>>

\* The query failed, and so did its retry: it keeps the data it has.
SnapshotFails(s) ==
    /\ load[s].at \in {"asked", "read"}
    /\ load' = [load EXCEPT ![s] = NoLoad]
    /\ failed' = [failed EXCEPT ![s] = TRUE]
    /\ UNCHANGED <<view, cache, pending, acts, held, flight, sending, dialog, server, submitted,
                   fetches, issued>>

\* An event of the session on the page.
EventRefetch ==
    /\ ident # 0 /\ fetches < MaxFetches /\ refetchSnapshot(active)
    /\ UNCHANGED <<view, cache, failed, pending, acts, held, flight, sending, dialog, server, submitted,
                   issued>>

-----------------------------------------------------------------------------
(* Moving to a session.                                                    *)

\* setActiveSessionId(s), with the notice n of the caller in its own commit.
\* A cached snapshot shows at once; it is asked for again once it is stale.
MoveTo(s, n, mode) ==
    LET shows == s # 0 /\ cache[s].known
    IN  /\ active' = s /\ visit' = visit + 1
        /\ ident' = IF shows THEN s ELSE 0
        /\ pending' = createInitialPendingRuntimeState(s)
        /\ acts' = <<>>
        /\ ui' = IF shows THEN Empty ELSE [ui EXCEPT !.notice = IF n THEN visit + 1 ELSE @]
        /\ late' = {}
        /\ dialog' = [dialog EXCEPT !.mode = IF shows THEN "closed" ELSE mode,
                                    !.busy = IF mode = "done" THEN "none" ELSE @]
        /\ \/ refetchSnapshot(s)
           \/ shows /\ UNCHANGED <<load, fetches>>

selectSession(s) ==
    /\ visit < MaxVisits /\ (isWorkbench \/ isNoSession)
    /\ IF s = active /\ ident = s
       THEN /\ Fill(ui, {"notice"}, visit)
            /\ UNCHANGED <<view, pending, acts, dialog, load, fetches>>
       ELSE s # active /\ MoveTo(s, FALSE, dialog.mode)
    /\ UNCHANGED <<cache, failed, flight, sending, server, submitted, issued>>

-----------------------------------------------------------------------------
(* Input.                                                                  *)

isInputSubmitting == flight.input # 0

\* The field is disabled while an input is on its way.
changeInputDraft ==
    /\ isWorkbench /\ ~isInputSubmitting /\ ui.draft = 0
    /\ Fill(ui, {"draft"}, visit)
    /\ UNCHANGED <<view, cache, load, failed, pending, acts, flight, sending, dialog, server, submitted,
                   fetches, issued>>

\* handleInputSubmit with the mutation's onMutate.
handleInputSubmit(i) ==
    /\ isWorkbench /\ ~isInputSubmitting /\ ui.draft # 0
    /\ submitted[i] = Unsent /\ \A j \in Input : j < i => submitted[j] # Unsent
    /\ flight' = [NoFlight EXCEPT !.input = i, !.clarification = ui.clarification,
                                  !.late = "clarification" \in late]
    /\ submitted' = [submitted EXCEPT ![i] = [session |-> ident, visit |-> visit,
                                              outcome |-> "sent"]]
    /\ pending' = startRuntimeInputSubmit(pending, i, ident)
    /\ Fill([ui EXCEPT !.input = 0, !.notice = 0, !.draft = 0], {}, visit)
    /\ UNCHANGED <<view, cache, load, failed, acts, sending, dialog, server, fetches, issued>>

\* The router works on the input; an "error" is a reply lost or never made.
RouterReplies(r, hint, kept) ==
    /\ isInputSubmitting /\ flight.reply = "none"
    /\ hint => r \in {"command_accepted", "refused"}
    /\ flight' = [flight EXCEPT !.reply = r, !.hint = hint]
    /\ server' = [server EXCEPT ![flight.input] = kept]
    /\ UNCHANGED <<view, cache, load, failed, pending, acts, held, sending, dialog, submitted, fetches,
                   issued>>

sentIn == submitted[flight.input].visit

Settled(o) ==
    /\ flight' = NoFlight
    /\ submitted' = [submitted EXCEPT ![flight.input].outcome = o]
    /\ UNCHANGED <<view, cache, failed, sending, dialog, server, issued>>

InputFails ==
    /\ flight.reply \in {"error", "not_ok"}
    /\ pending' = updateCommandStatus(pending, flight.input,
                                      IF flight.reply = "error" THEN "failed" ELSE "rejected")
    /\ Fill(ui, {"input"}, sentIn)
    /\ Settled("failed") /\ UNCHANGED <<acts, load, fetches>>

\* The activities of the route always have one for the user's input, so the
\* local items go before the rejection could mark them.
InputCommandRejected ==
    LET i == flight.input
    IN  /\ flight.reply = "command_rejected"
        /\ pending' = updateCommandStatus(removeCommandItems(pending, i), i, "rejected")
        /\ acts' = prependRuntimeActivityItems(i)
        /\ Fill([ui EXCEPT !.clarification = 0], {"input"}, sentIn)
        /\ Settled("rejected") /\ UNCHANGED <<load, fetches>>

InputCommandAccepted ==
    LET i == flight.input
    IN  /\ flight.reply = "command_accepted"
        /\ pending' = removeCommandItems(updateCommandStatus(pending, i, "accepted"), i)
        /\ Fill([ui EXCEPT !.clarification = 0, !.input = 0, !.draft = 0], {"notice"}, sentIn)
        /\ IF flight.hint THEN refetchSnapshot(active) ELSE UNCHANGED <<load, fetches>>
        /\ Settled(IF flight.hint /\ fetches < MaxFetches THEN "accepted" ELSE "unseen")
        /\ UNCHANGED acts

InputAnswered ==
    LET i == flight.input
    IN  /\ flight.reply = "answered"
        /\ pending' = removeCommandItems(pending, i)
        /\ acts' = prependRuntimeActivityItems(i)
        /\ Fill([ui EXCEPT !.clarification = 0, !.input = 0, !.draft = 0], {"notice"}, sentIn)
        /\ refetchSnapshot(active) /\ Settled("answered")

InputRefused ==
    LET i == flight.input
    IN  /\ flight.reply = "refused"
        /\ pending' = removeCommandItems(updateCommandStatus(pending, i, "rejected"), i)
        /\ acts' = prependRuntimeActivityItems(i)
        /\ Fill([ui EXCEPT !.clarification = 0],
                {"input"} \cup IF flight.hint THEN {"clarification"} ELSE {}, sentIn)
        /\ refetchSnapshot(active) /\ Settled("rejected")

-----------------------------------------------------------------------------
(* The buttons of the page.                                                *)

SendCommand(k) ==
    /\ isWorkbench /\ sending[k] = 0 /\ issued < MaxCommands
    /\ sending' = [sending EXCEPT ![k] = visit]
    /\ Fill([ui EXCEPT ![Slot(k)] = 0, !.notice = 0], {}, visit)
    /\ issued' = issued + 1
    /\ UNCHANGED <<view, cache, load, failed, pending, acts, flight, dialog, server, submitted, fetches>>

\* `notices`: a success says so on the page.
handleCommandResponse(k, ok, refetch, notices) ==
    /\ sending[k] # 0
    /\ sending' = [sending EXCEPT ![k] = 0]
    /\ IF ok THEN Fill([ui EXCEPT ![Slot(k)] = 0, !.selection = IF k = "archive" THEN 0 ELSE @],
                       IF notices THEN {"notice"} ELSE {}, sending[k])
       ELSE Fill(ui, {Slot(k)}, sending[k])
    /\ IF refetch THEN refetchSnapshot(active) ELSE UNCHANGED <<load, fetches>>
    /\ UNCHANGED <<view, cache, failed, pending, acts, flight, dialog, server, submitted, issued>>

InteractionReply(k, ok, hint) ==
    /\ k \in {"confirmation", "authoring", "repair"}
    /\ handleCommandResponse(k, ok, ok /\ hint, k # "confirmation")

\* A refused answer refetches too: the ASK may be gone.
AskReply(k, ok, hint) ==
    /\ k \in {"answer", "defer", "cancel"}
    /\ handleCommandResponse(k, ok, hint /\ (ok \/ k = "answer"), TRUE)

PlanReply(k, ok, hint) ==
    /\ k \in {"publish", "archive"}
    /\ handleCommandResponse(k, ok, ok /\ hint, k = "archive")

TaskReply(k, ok, hint) ==
    /\ k \in {"retry", "stop"}
    /\ handleCommandResponse(k, ok, ok /\ hint, TRUE)

\* selectTask
selectTask ==
    /\ isWorkbench /\ ui.selection = 0 /\ Kind # {}
    /\ Fill([ui EXCEPT !.notice = 0], {"selection"}, visit)
    /\ UNCHANGED <<view, cache, load, failed, pending, acts, flight, sending, dialog, server, submitted,
                   fetches, issued>>

-----------------------------------------------------------------------------
(* The session dialog.                                                     *)

\* A workspace that has no session creates one without a dialog.
OpenDialog(mode) ==
    /\ Dialogs /\ (isWorkbench \/ isNoSession) /\ dialog.busy = "none" /\ issued < MaxCommands
    /\ dialog' = IF mode = "create" /\ ident = 0
                 THEN [mode |-> "closed", busy |-> "create", visit |-> visit]
                 ELSE [dialog EXCEPT !.mode = mode]
    /\ issued' = issued + 1
    /\ UNCHANGED <<view, cache, load, failed, pending, acts, held, flight, sending, server,
                   submitted, fetches>>

handleSessionDialogCancel ==
    /\ (isWorkbench \/ isNoSession) /\ dialog.mode # "closed" /\ dialog.busy = "none"
    /\ dialog' = NoDialog
    /\ UNCHANGED <<view, cache, load, failed, pending, acts, held, flight, sending, server,
                   submitted, fetches, issued>>

handleSessionDialogSubmit ==
    /\ (isWorkbench \/ isNoSession) /\ dialog.mode # "closed" /\ dialog.busy = "none"
    /\ dialog' = [dialog EXCEPT !.busy = dialog.mode, !.visit = visit]
    /\ Fill([ui EXCEPT !.notice = 0], {}, visit)
    /\ UNCHANGED <<view, cache, load, failed, pending, acts, flight, sending, server, submitted,
                   fetches, issued>>

\* A created session opens; after a deletion the server names the session to
\* open, whichever one the page is on.
SessionOpens(s) ==
    /\ dialog.busy \in {"create", "delete"} /\ visit < MaxVisits
    /\ IF s = active
       THEN /\ dialog' = NoDialog /\ Fill(ui, {"notice"}, dialog.visit)
            /\ UNCHANGED <<view, pending, acts, load, fetches>>
       ELSE MoveTo(s, TRUE, "done")
    /\ UNCHANGED <<cache, failed, flight, sending, server, submitted, issued>>

SessionRenamed ==
    /\ dialog.busy = "rename"
    /\ dialog' = NoDialog /\ Fill(ui, {"notice"}, dialog.visit)
    /\ refetchSnapshot(active)
    /\ UNCHANGED <<view, cache, failed, pending, acts, flight, sending, server, submitted, issued>>

\* setSessionDialogError: the dialog, if it is still open, shows the failure.
DialogFails ==
    /\ dialog.busy # "none"
    /\ dialog' = [dialog EXCEPT !.busy = "none"]
    /\ UNCHANGED <<view, cache, load, failed, pending, acts, held, flight, sending, server,
                   submitted, fetches, issued>>

-----------------------------------------------------------------------------
Init ==
    /\ active = 1 /\ visit = 1 /\ ident = 0
    /\ cache = [s \in Session |-> NotLoaded]
    /\ load = [s \in Session |-> IF s = 1 THEN [at |-> "asked", has |-> {}] ELSE NoLoad]
    /\ pending = createInitialPendingRuntimeState(1)
    /\ failed = [s \in Session |-> FALSE]
    /\ acts = <<>> /\ ui = Empty /\ late = {} /\ flight = NoFlight
    /\ sending = [k \in Kind |-> 0] /\ dialog = NoDialog
    /\ server = [i \in Input |-> {}] /\ submitted = [i \in Input |-> Unsent]
    /\ fetches = 0 /\ issued = 0

Next ==
    \/ \E s \in Session : ReadSnapshot(s) \/ SnapshotArrives(s) \/ SnapshotFails(s)
                          \/ selectSession(s) \/ SessionOpens(s)
    \/ EventRefetch
    \/ changeInputDraft
    \/ \E i \in Input : handleInputSubmit(i)
    \/ \E r \in Reply, hint \in BOOLEAN, kept \in SUBSET Trace : RouterReplies(r, hint, kept)
    \/ InputFails \/ InputCommandRejected \/ InputCommandAccepted \/ InputAnswered
    \/ InputRefused
    \/ \E k \in Kind : SendCommand(k)
    \/ \E k \in Kind, ok, hint \in BOOLEAN :
           \/ InteractionReply(k, ok, hint) \/ AskReply(k, ok, hint)
           \/ PlanReply(k, ok, hint) \/ TaskReply(k, ok, hint)
    \/ selectTask
    \/ \E mode \in {"create", "rename", "delete"} : OpenDialog(mode)
    \/ handleSessionDialogCancel \/ handleSessionDialogSubmit \/ SessionRenamed \/ DialogFails

Spec == Init /\ [][Next]_vars

-----------------------------------------------------------------------------
WorkbenchTypeOK ==
    /\ active \in Session /\ visit \in Nat /\ ident \in {0, active}
    /\ ui \in [Field -> 0 .. visit] /\ late \subseteq Field /\ failed \in [Session -> BOOLEAN]
    /\ pending.items \subseteq Input \X Item
    /\ server \in [Input -> SUBSET Trace]

\* The page shows the text of an input: its local item, an activity of its
\* route, or a message of the snapshot with this text.
Shows(i) ==
    \/ <<i, "local_user_input">> \in pending.items
    \/ \E k \in DOMAIN acts : acts[k] = i
    \/ ident # 0 /\ hasDurableUserInput(i, cache[ident].has)

\* An input does not vanish from the workbench it was sent on, as often as that
\* goes into the error frame and comes back.  The one exception is a command
\* that was accepted, whose local items go at once: then the refetch is on its
\* way, or the reply asked for none, or the server keeps no message of it.
InputStaysVisible ==
    \A i \in Input : isWorkbench /\ submitted[i].visit = visit /\ submitted[i].session # 0 =>
        \/ Shows(i)
        \/ submitted[i].outcome = "accepted" /\ (load[active].at # "idle" \/ "user" \notin server[i])
        \/ submitted[i].outcome = "unseen"
        \/ Len(acts) = ActLimit

\* A local item stands for a command the page still follows, in the session
\* the page is on, and a command it follows has an item.
PendingCoherent ==
    /\ \A i \in Input : pending.status[i] # "none" <=> \E x \in pending.items : x[1] = i
    /\ \A x \in pending.items : submitted[x[1]].visit = visit /\ pending.session = active
    /\ \A x \in pending.items :
         pending.status[x[1]] = "local_pending" => flight.input = x[1]

\* What the page holds of another visit (a draft, an error, a clarification to
\* answer, a notice or a selection) was put there by a reply that came late,
\* after the user had moved on: no such reply is turned away, and moving itself
\* leaves nothing behind.  In the same way an input carries the clarification
\* of another visit only when a late reply had put that one on the page.
NothingLeftOver ==
    /\ ident # 0 => \A f \in Field \ late : ui[f] \in {0, visit}
    /\ isInputSubmitting => flight.late \/ flight.clarification \in {0, sentIn}

\* A reply that clears the draft takes nothing the user typed: while an input
\* is on its way there is no draft on the page that shows.
NoDraftWiped == isInputSubmitting /\ ident # 0 => ui.draft = 0

\* The page does not say that it understands an input whose answer is in.
AnswerEndsWaiting ==
    \A i \in Input :
        submitted[i].outcome \notin {"none", "sent"} /\ <<i, "local_understanding">> \in pending.items
            => pending.status[i] \in {"failed", "rejected"}

WorkbenchSound ==
    /\ WorkbenchTypeOK /\ InputStaysVisible /\ PendingCoherent /\ NothingLeftOver
    /\ NoDraftWiped /\ AnswerEndsWaiting
=============================================================================
