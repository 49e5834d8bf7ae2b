---------------------------- MODULE MCWorkspace ----------------------------
(***************************************************************************)
(* What agents and the user change in a workspace, and what is read out of *)
(* it: the instances of RuntimeConfig, PrecisionText, PrecisionFiles,      *)
(* WeChatSend, UsageLedger, DiagnosticBundle, MainPage, Workbench,         *)
(* ConversationView, Settings and WorkspaceHost for TLC.                   *)
(*                                                                         *)
(* As in MCPlanning, `part` names the instance that moves, the variables   *)
(* of the others rest, and instances of one component share variables.     *)
(***************************************************************************)
EXTENDS WeChatSend, RuntimeConfig, PrecisionFiles, Settings, TLC

CONSTANT Parts   \* the instances to explore

VARIABLES
    part,
    text, last, edits,
    ledger,
    source, bundle, exports,
    facts, pub, worker, stream, due, read, page, missed, runs, commands, reads, pageFaults,
    active, visit, ident, cache, load, failed, pending, acts, ui, late, flight, sending, dialog,
    server, submitted, fetches, issued,
    disk, slot, runtime, logRoot, host, closing, hostJob, hostCalls, hostFaults, hostStops,
    born, deleted, written, excuse,
    st, shown, seen, session, place, scrolled, focus, composer, made, hands, switches, reading,
    overtook, carded, pulled, sender, took

textVars == <<text, last, edits>>
bundleVars == <<source, bundle, exports>>
pageVars == <<facts, pub, worker, stream, due, read, page, missed, runs, commands, reads, pageFaults>>
wbVars == <<active, visit, ident, cache, load, failed, pending, acts, ui, late, flight, sending,
    dialog, server, submitted, fetches, issued>>
hostVars == <<disk, slot, runtime, logRoot, host, closing, hostJob, hostCalls, hostFaults, hostStops,
    born, deleted, written, excuse>>
viewVars == <<st, shown, seen, session, place, scrolled, focus, composer, made, hands, switches, reading,
    overtook, carded, pulled, sender, took>>
vars == <<part, configVars, textVars, fileVars, sendVars, ledger, bundleVars, pageVars, wbVars, settingsVars, hostVars, viewVars>>

-----------------------------------------------------------------------------
(* A live key, a key that waits for the next run, and a secret; and live,  *)
(* waiting, no-op, invalid, partial, secret, unknown, dry and session      *)
(* patches of them, with one idempotency key for three of these.           *)

Keys ==
    "level" :> [default |-> "info", live |-> TRUE, secret |-> FALSE,
                levels |-> {"workspace", "session"}, valid |-> {"info", "debug", "error", "loud", "null"}]
 @@ "steps" :> [default |-> "few", live |-> FALSE, secret |-> FALSE,
                levels |-> {"workspace"}, valid |-> {"few", "many"}]
 @@ "token" :> [default |-> "no", live |-> TRUE, secret |-> TRUE,
                levels |-> {"workspace"}, valid |-> {"no", "yes"}]

Patch(k, values) ==
    [idem |-> k, scope |-> "workspace", values |-> values, expects |-> "none",
     partial |-> FALSE, dry |-> FALSE]

Patches ==
    {Patch("i1", "level" :> "debug"), Patch("i1", "level" :> "error"),
     Patch("i2", "level" :> "info"), Patch("i3", "level" :> "debug" @@ "steps" :> "bad"),
     [Patch("i4", "level" :> "error" @@ "token" :> "yes") EXCEPT !.partial = TRUE],
     [Patch("i5", "token" :> "yes" @@ "what" :> "yes") EXCEPT !.partial = TRUE],
     [Patch("i6", "steps" :> "many") EXCEPT !.dry = TRUE],
     [Patch("i1", "level" :> "error") EXCEPT !.scope = "session"],
     Patch("i8", "level" :> "loud"), Patch("i9", "level" :> "null"),
     [Patch("i7", "steps" :> "many") EXCEPT !.expects = "base"]}

NoLayer == [source |-> "none", priority |-> 0, values |-> <<>>]
Process == [source |-> "process_input", priority |-> 100, values |-> "steps" :> "many"]

(* Two requests at a time, of a few patches, with a crash; and one at a    *)
(* time of every patch.                                                    *)

ConfigPart ==
    /\ part = "config" /\ ConfigNext
    /\ configSends' < MaxConfigSends
    /\ \A t \in ConfigThread :
         configJob'[t].pc # "idle" => configJob'[t].req.idem \in {"i1", "i4", "i7"}

ConfigAlonePart ==
    /\ part = "config_alone" /\ ConfigNext
    /\ configCrashes' = 0 /\ configJob'["t2"] = NoPatchJob

(* Texts of letters, line feeds, carriage returns and other line ends;     *)
(* what is put into them may be empty, blank, or open with a line end.     *)

Added == {<<"b">>, <<"b", "n">>, <<"n", "b">>, <<"b", "r", "n", "b">>, <<"b", "f">>}

Text == INSTANCE PrecisionText WITH
    Chars <- {"a", "n", "r", "f"}, MaxLen <- 3, MaxEdits <- 1,
    Replacements <- Added \cup {<<>>, <<"n">>, <<"f", "b">>}, Additions <- Added \cup {<<"n">>},
    Ensure <- BOOLEAN, MaxFiles <- 2, MaxMatches <- 3

(* Two calls at a time over a disk that fails; and one at a time, with     *)
(* stops of the process.                                                   *)

FilesPart ==
    /\ part = "files" /\ FileNext
    /\ fileCalls' < MaxFileCalls /\ fileStops' = 0
    /\ \A t \in FileThread : fileJob'[t] # NoFileJob => fileJob'[t].request.body = "b"

FilesAlonePart ==
    /\ part = "files_alone" /\ FileNext
    /\ ~fileShared' /\ fileFaults' = 0 /\ fileJob'["t2"] = NoFileJob /\ view'["t2"] = view["t2"]

(* Two agents in one send task, with two texts; and in two tasks with one  *)
(* text, with drafts.                                                      *)

SendPart ==
    /\ part = "send" /\ SendNext
    /\ input' = Empty /\ \A a \in Agents : job'[a].task # "k2"

DraftPart ==
    /\ part = "draft" /\ SendNext
    /\ calls' < MaxCalls /\ input' # "m2" /\ \A a \in Agents : job'[a].message # "m2"

(* Providers that leave counters out.                                      *)

Usage == INSTANCE UsageLedger WITH
    Sessions <- {"s"}, Tasks <- {"t"}, PlanOf <- [t |-> "p"],
    MaxTokens <- 1, MaxEvents <- 2

(* An export beside an executor, beside growing stores, beside another     *)
(* export of the same id; and one of every value.                          *)

Leaf(fragments) == [type |-> "str", of |-> fragments]
Mapping(f) == [type |-> "map", of |-> f]
Listing(s) == [type |-> "seq", of |-> s]

Strings == {Leaf(s) : s \in {{"absolute", "password=x"}, {"word", "root", "absolute"}}}
KeyKinds == {"plain", "secret", "prompt"}
Nested == {Mapping(k :> Listing(<<Leaf({"word"}), Mapping(m :> s)>>)) :
             k \in KeyKinds, m \in KeyKinds, s \in Strings}

BundleTasks == INSTANCE DiagnosticBundle WITH
    Exporters <- {"e1"}, Tasks <- {"t"}, Limit <- 2, Metadata <- {Leaf({"word"})},
    MaxRows <- 0, MaxAppends <- 0, MaxFaults <- 1, job <- exports

BundleRows == INSTANCE DiagnosticBundle WITH
    Exporters <- {"e1"}, Tasks <- {}, Limit <- 2, Metadata <- {Leaf({"word"})},
    MaxRows <- 2, MaxAppends <- 1, MaxFaults <- 1, job <- exports

BundleRace == INSTANCE DiagnosticBundle WITH
    Exporters <- {"e1", "e2"}, Tasks <- {}, Limit <- 2, Metadata <- {Leaf({"word"})},
    MaxRows <- 2, MaxAppends <- 0, MaxFaults <- 1, job <- exports

BundleValues == INSTANCE DiagnosticBundle WITH
    Exporters <- {"e1"}, Tasks <- {}, Limit <- 0, Metadata <- Nested,
    MaxRows <- 1, MaxAppends <- 0, MaxFaults <- 0, job <- exports

(* The page of a new session, of a plan that is published and run, of a     *)
(* published plan with commands and faults, of a plan of two tasks, and of *)
(* two tasks without a plan.                                               *)

PageNew == INSTANCE MainPage WITH
    N <- 1, Plans <- TRUE, Start <- "new", MaxRuns <- 0, MaxCommands <- 0, MaxReads <- 3,
    MaxFaults <- 0, faults <- pageFaults

PageDraft == INSTANCE MainPage WITH
    N <- 1, Plans <- TRUE, Start <- "draft", MaxRuns <- 1, MaxCommands <- 0, MaxReads <- 2,
    MaxFaults <- 0, faults <- pageFaults

PagePlan == INSTANCE MainPage WITH
    N <- 1, Plans <- TRUE, Start <- "published", MaxRuns <- 1, MaxCommands <- 1, MaxReads <- 2,
    MaxFaults <- 1, faults <- pageFaults

PageTwo == INSTANCE MainPage WITH
    N <- 2, Plans <- TRUE, Start <- "published", MaxRuns <- 2, MaxCommands <- 0, MaxReads <- 2,
    MaxFaults <- 0, faults <- pageFaults

PageLegacy == INSTANCE MainPage WITH
    N <- 2, Plans <- FALSE, Start <- "draft", MaxRuns <- 1, MaxCommands <- 0, MaxReads <- 2,
    MaxFaults <- 0, faults <- pageFaults

(* The page in the browser: one input over several visits, two inputs with *)
(* different texts and with the same one, two over a move, every button,   *)
(* the dialogs.                                                            *)

Replies == {"error", "not_ok", "command_rejected", "command_accepted", "answered", "refused"}

WbInput == INSTANCE Workbench WITH
    Session <- {1, 2}, Input <- {1}, SameText <- FALSE, Kind <- {}, ActLimit <- 1,
    MaxVisits <- 3, MaxFetches <- 3, MaxCommands <- 0, Dialogs <- FALSE, Reply <- Replies

WbTwo == INSTANCE Workbench WITH
    Session <- {1, 2}, Input <- {1, 2}, SameText <- FALSE, Kind <- {}, ActLimit <- 1,
    MaxVisits <- 1, MaxFetches <- 2, MaxCommands <- 0, Dialogs <- FALSE, Reply <- Replies

WbMoved == INSTANCE Workbench WITH
    Session <- {1, 2}, Input <- {1, 2}, SameText <- FALSE, Kind <- {}, ActLimit <- 2,
    MaxVisits <- 2, MaxFetches <- 2, MaxCommands <- 0, Dialogs <- FALSE, Reply <- {"refused"}

WbSame == INSTANCE Workbench WITH
    Session <- {1, 2}, Input <- {1, 2}, SameText <- TRUE, Kind <- {}, ActLimit <- 2,
    MaxVisits <- 1, MaxFetches <- 2, MaxCommands <- 0, Dialogs <- FALSE, Reply <- Replies

WbCommands == INSTANCE Workbench WITH
    Session <- {1, 2}, Input <- {}, SameText <- FALSE,
    Kind <- {"confirmation", "authoring", "repair", "answer", "defer", "cancel", "publish",
             "archive", "retry", "stop"},
    ActLimit <- 2, MaxVisits <- 2, MaxFetches <- 2, MaxCommands <- 2, Dialogs <- FALSE, Reply <- Replies

WbDialog == INSTANCE Workbench WITH
    Session <- {1, 2}, Input <- {}, SameText <- FALSE, Kind <- {}, ActLimit <- 2,
    MaxVisits <- 3, MaxFetches <- 2, MaxCommands <- 2, Dialogs <- TRUE, Reply <- Replies

(* Settings: one request thread with every kind of update, a key of the    *)
(* old format and failing writes; and two threads (or two sidecars with    *)
(* one settings root) whose updates overlap.                               *)

NoLlm == [provider |-> "none", valid |-> TRUE, key |-> "none"]
NoWeb == [given |-> FALSE, enabled |-> FALSE, fetch |-> FALSE, supported |-> TRUE, key |-> "none"]
Llm(p, k) == [provider |-> p, valid |-> TRUE, key |-> k]
WebOn(k) == [given |-> TRUE, enabled |-> TRUE, fetch |-> TRUE, supported |-> TRUE, key |-> k]
Settle(llm, profile, web) == [kind |-> "patch", llm |-> llm, profile |-> profile, web |-> web]
Look(kind) == [Settle(NoLlm, "unset", NoWeb) EXCEPT !.kind = kind]

BareEnv == [provider |-> "deepseek", keys |-> {}, web |-> "unset", webKey |-> FALSE,
            otherWebProvider |-> FALSE, blocked |-> FALSE, logging |-> TRUE, profile |-> "none"]
NoConfig == [llm |-> "none", profile |-> "unset", web |-> [enabled |-> FALSE, fetch |-> FALSE],
             agents |-> "roles"]
OldSecrets == [keys |-> [p \in {"deepseek", "openai"} |-> "none"], legacy |-> <<"openai", "old">>,
               web |-> "none"]

Updates ==
    {Settle(Llm("deepseek", "k1"), "unset", WebOn("w1")),
     Settle(Llm("deepseek", "k1"), "unset", NoWeb), Settle(Llm("openai", "k2"), "unset", NoWeb),
     Settle(Llm("openai", "none"), "normal", NoWeb), Settle(Llm("deepseek", "none"), "unset", NoWeb),
     Settle([Llm("openai", "k2") EXCEPT !.valid = FALSE], "unset", NoWeb),
     Settle(Llm("unknown", "k2"), "unset", NoWeb),
     Settle(NoLlm, "normal", NoWeb), Settle(NoLlm, "loud", NoWeb),
     Settle(NoLlm, "unset", WebOn("none")), Settle(NoLlm, "unset", WebOn("w1")),
     Settle(NoLlm, "unset", [WebOn("w2") EXCEPT !.supported = FALSE]),
     Settle(NoLlm, "none", [WebOn("w2") EXCEPT !.enabled = FALSE]),
     Look("get"), Look("readiness")}

SettingsOnePart ==
    /\ part = "settings_one" /\ SettingsNext
    /\ settingsJob'["h2"] = NoSettingsJob
    /\ settingsJob'["h1"].req \notin {Settle(Llm("deepseek", "k1"), "unset", NoWeb),
          Settle(Llm("openai", "k2"), "unset", NoWeb), Settle(NoLlm, "normal", NoWeb),
          Settle(NoLlm, "unset", WebOn("w1"))}

SettingsTwoPart ==
    /\ part = "settings_two" /\ SettingsNext /\ settingsSends' <= 2
    /\ \A h \in SettingsHandler : settingsJob'[h].pc # "idle" =>
         settingsJob'[h].req \in {Settle(Llm("deepseek", "k1"), "unset", NoWeb),
            Settle(Llm("openai", "k2"), "unset", NoWeb), Settle(NoLlm, "normal", NoWeb),
            Settle(NoLlm, "unset", WebOn("w1")), Look("readiness")}

(* The sidecar: first requests of two threads to a workspace that is not    *)
(* the current one, whose tasks run; the sessions of one workspace; and a  *)
(* workspace of the old layout, one that is missing and one that is        *)
(* unknown.                                                                *)

Ask(op, w, s) == [op |-> op, ws |-> w, session |-> s, token |-> TRUE]
Folder(sessions) ==
    [there |-> TRUE, rows |-> sessions, tasks |-> [s \in {"s1", "s2"} |-> "none"],
     files |-> [s \in {"s1", "s2"} |->
                 IF \E i \in DOMAIN sessions : sessions[i] = s THEN {"dir", "manifest"} ELSE {}]]
NoFolder == [there |-> FALSE, rows |-> <<>>, tasks |-> [s \in {"s1", "s2"} |-> "none"],
             files |-> [s \in {"s1", "s2"} |-> {}]]
Disk(legacy, meta) == [legacy |-> legacy, meta |-> meta, archive |-> [s \in {"s1", "s2"} |-> {}]]

HostRace == INSTANCE WorkspaceHost WITH
    Thread <- {"t1", "t2"}, Entries <- <<"w1", "w2">>, Rooted <- {"w1", "w2"}, Current <- "w1",
    Session <- {"s1"},
    Request <- {Ask("publish", "w2", "s1"), Ask("stop", "w2", "s1")},
    Start <- [w \in {"w1", "w2"} |-> Disk(NoFolder, Folder(IF w = "w2" THEN <<"s1">> ELSE <<>>))],
    MaxRuntimes <- 3, MaxCalls <- 3, MaxFaults <- 0, MaxStops <- 0,
    job <- hostJob, calls <- hostCalls, faults <- hostFaults, stops <- hostStops
HostSessions == INSTANCE WorkspaceHost WITH
    Thread <- {"t1", "t2"}, Entries <- <<"w1">>, Rooted <- {"w1"}, Current <- "w1",
    Session <- {"s1", "s2"},
    Request <- {Ask(op, "none", "s1") : op \in {"delete", "rename", "log", "publish", "stop"}}
          \cup {Ask("create", "none", "none"), Ask("delete", "none", "s2"), Ask("blank", "none", "none")},
    Start <- [w \in {"w1"} |-> Disk(NoFolder, Folder(<<"s1">>))],
    MaxRuntimes <- 1, MaxCalls <- 3, MaxFaults <- 1, MaxStops <- 1,
    job <- hostJob, calls <- hostCalls, faults <- hostFaults, stops <- hostStops
HostLegacy == INSTANCE WorkspaceHost WITH
    Thread <- {"t1", "t2"}, Entries <- <<"w1", "w2", "w3">>, Rooted <- {"w1", "w2"}, Current <- "w1",
    Session <- {"s1", "s2"},
    Request <- {Ask("catalog", "none", "none"), Ask("list", "w2", "none"), Ask("mismatch", "w2", "none"),
                Ask("delete", "w2", "s1"), Ask("publish", "w1", "s1"), Ask("list", "w3", "none"), Ask("list", "w4", "none"),
                [Ask("list", "w2", "none") EXCEPT !.token = FALSE]},
    Start <- [w \in {"w1", "w2", "w3"} |-> Disk(Folder(<<"s1">>), NoFolder)],
    MaxRuntimes <- 3, MaxCalls <- 2, MaxFaults <- 1, MaxStops <- 0,
    job <- hostJob, calls <- hostCalls, faults <- hostFaults, stops <- hostStops

(* The conversation: one session with an input and a reader; and two       *)
(* sessions.                                                               *)

ViewOne == INSTANCE ConversationView WITH
    Session <- {1}, Command <- {1}, MaxMessages <- 3, MaxHands <- 1, MaxSwitches <- 0,
    input <- composer
ViewTwo == INSTANCE ConversationView WITH
    Session <- {1, 2}, Command <- {1}, MaxMessages <- 2, MaxHands <- 1, MaxSwitches <- 1,
    input <- composer

ASSUME WorkspaceAssumption ==
    /\ Text!TextAssumption
    /\ PageNew!PageAssumption /\ PagePlan!PageAssumption
    /\ WbInput!WorkbenchAssumption /\ WbCommands!WorkbenchAssumption
    /\ HostRace!HostAssumption /\ HostLegacy!HostAssumption
    /\ ViewTwo!ViewAssumption

-----------------------------------------------------------------------------
Init ==
    /\ part \in Parts
    /\ ConfigInit
    /\ Text!Init /\ (part # "text" => text = <<>>)
    /\ FileInit
    /\ SendInit
    /\ Usage!Init
    /\ CASE part = "bundle_tasks" -> BundleTasks!Init
         [] part = "bundle_race" -> BundleRace!Init
         [] part = "bundle_values" -> BundleValues!Init
         [] part = "bundle_rows" -> BundleRows!Init
         [] OTHER -> source = <<>> /\ bundle = <<>> /\ exports = <<>>
    /\ CASE part \in {"wb_two", "wb_same", "wb_moved"} -> WbTwo!Init
         [] part = "wb_commands" -> WbCommands!Init
         [] part = "wb_dialog" -> WbDialog!Init
         [] OTHER -> WbInput!Init
    /\ SettingsInit
    /\ CASE part = "host_sessions" -> HostSessions!Init
         [] part = "host_legacy" -> HostLegacy!Init
         [] OTHER -> HostRace!Init
    /\ ViewTwo!Init /\ session = 1
    /\ CASE part = "page_plan" -> PagePlan!Init
         [] part = "page_draft" -> PageDraft!Init
         [] part = "page_two" -> PageTwo!Init
         [] part = "page_legacy" -> PageLegacy!Init
         [] OTHER -> PageNew!Init

PatchNext ==
    /\ ConfigPart \/ ConfigAlonePart
    /\ UNCHANGED <<part, textVars, fileVars, sendVars, ledger, bundleVars, pageVars, wbVars, settingsVars, hostVars, viewVars>>

TextNext ==
    /\ part = "text" /\ Text!Next
    /\ UNCHANGED <<part, configVars, fileVars, sendVars, ledger, bundleVars, pageVars, wbVars, settingsVars, hostVars, viewVars>>

EditNext ==
    /\ FilesPart \/ FilesAlonePart
    /\ UNCHANGED <<part, configVars, textVars, sendVars, ledger, bundleVars, pageVars, wbVars, settingsVars, hostVars, viewVars>>

BoundaryNext ==
    /\ SendPart \/ DraftPart
    /\ UNCHANGED <<part, configVars, textVars, fileVars, ledger, bundleVars, pageVars, wbVars, settingsVars, hostVars, viewVars>>

UsageNext ==
    /\ part = "usage" /\ Usage!Next
    /\ UNCHANGED <<part, configVars, textVars, fileVars, sendVars, bundleVars, pageVars, wbVars, settingsVars, hostVars, viewVars>>

BundleNext ==
    /\ \/ part = "bundle_tasks" /\ BundleTasks!Next
       \/ part = "bundle_rows" /\ BundleRows!Next
       \/ part = "bundle_race" /\ BundleRace!Next
       \/ part = "bundle_values" /\ BundleValues!Next
    /\ UNCHANGED <<part, configVars, textVars, fileVars, sendVars, ledger, pageVars, wbVars, settingsVars, hostVars, viewVars>>

PageNext ==
    /\ \/ part = "page_new" /\ PageNew!Next
       \/ part = "page_draft" /\ PageDraft!Next
       \/ part = "page_plan" /\ PagePlan!Next
       \/ part = "page_two" /\ PageTwo!Next
       \/ part = "page_legacy" /\ PageLegacy!Next
    /\ UNCHANGED <<part, configVars, textVars, fileVars, sendVars, ledger, bundleVars, wbVars, settingsVars, hostVars, viewVars>>

WbNext ==
    /\ \/ part = "wb_input" /\ WbInput!Next
       \/ part = "wb_two" /\ WbTwo!Next
       \/ part = "wb_same" /\ WbSame!Next
       \/ part = "wb_moved" /\ WbMoved!Next
       \/ part = "wb_commands" /\ WbCommands!Next
       \/ part = "wb_dialog" /\ WbDialog!Next
    /\ UNCHANGED <<part, configVars, textVars, fileVars, sendVars, ledger, bundleVars, pageVars, settingsVars, hostVars, viewVars>>

SettingNext ==
    /\ SettingsOnePart \/ SettingsTwoPart
    /\ UNCHANGED <<part, configVars, textVars, fileVars, sendVars, ledger, bundleVars, pageVars, wbVars, hostVars, viewVars>>

HostNext ==
    /\ \/ part = "host_race" /\ HostRace!Next
       \/ part = "host_sessions" /\ HostSessions!Next
       \/ part = "host_legacy" /\ HostLegacy!Next
    /\ UNCHANGED <<part, configVars, textVars, fileVars, sendVars, ledger, bundleVars, pageVars, wbVars, settingsVars, viewVars>>

ViewNext ==
    /\ \/ part = "view_one" /\ ViewOne!Next
       \/ part = "view_two" /\ ViewTwo!Next
    /\ UNCHANGED <<part, configVars, textVars, fileVars, sendVars, ledger, bundleVars, pageVars, wbVars, settingsVars, hostVars>>

Next == PatchNext \/ TextNext \/ EditNext \/ BoundaryNext \/ UsageNext \/ BundleNext \/ PageNext \/ WbNext \/ SettingNext \/ HostNext \/ ViewNext

Spec == Init /\ [][Next]_vars

-----------------------------------------------------------------------------
(* The properties of the components, for the instance that moves.          *)


\* The main page shows what the stores hold, or an event will tell it
\* (the snapshot and the UI event stream of server/).
PageSound == part \in {"page_new", "page_draft", "page_plan", "page_two", "page_legacy"} =>
    CASE part = "page_new" -> PageNew!PageSound
      [] part = "page_draft" -> PageDraft!PageSound
      [] part = "page_two" -> PageTwo!PageSound
      [] part = "page_legacy" -> PageLegacy!PageSound
      [] OTHER -> PagePlan!PageSound

\* What the user sends stays on the page, and nothing of another session
\* does (the page controller of frontend/src/pages/main-page).
WorkbenchSound == part \in {"wb_input", "wb_two", "wb_same", "wb_moved", "wb_commands", "wb_dialog"} =>
    CASE part = "wb_input" -> WbInput!WorkbenchSound
      [] part = "wb_two" -> WbTwo!WorkbenchSound
      [] part = "wb_same" -> WbSame!WorkbenchSound
      [] part = "wb_moved" -> WbMoved!WorkbenchSound
      [] part = "wb_commands" -> WbCommands!WorkbenchSound
      [] OTHER -> WbDialog!WorkbenchSound


(* The conversation follows its end for whoever is there and leaves a       *)
(* reader alone (the focus and scroll runtime of the main page).           *)
ViewSound == part \in {"view_one", "view_two"} => ViewTwo!ViewSound
=============================================================================
