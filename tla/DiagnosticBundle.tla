-------------------------- MODULE DiagnosticBundle --------------------------
(***************************************************************************)
(* The export of one diagnostic bundle of a session, from                  *)
(* diagnostics/bundle.py and its collectors: a directory is made, tasks    *)
(* and result summaries are read once, fifteen collectors write redacted   *)
(* files one after the other, and a manifest closes the directory.         *)
(*                                                                         *)
(* The exporter runs beside the program it describes: executors save       *)
(* summaries and complete tasks, stores grow between two collectors and,   *)
(* for the two event streams, between the count and the read of one        *)
(* collector.  A store may be absent or unreadable, a write may fail, and  *)
(* the process may stop anywhere.  Row k of a store is the number k; what  *)
(* a row says is left out, except for the strings redaction tells apart.   *)
(***************************************************************************)
EXTENDS Naturals, Sequences, FiniteSets, SequencesExt

CONSTANTS
    Exporters,   \* exports that share a bundle id: same session, same timestamp
    Tasks,       \* tasks of the session
    Limit,       \* DiagnosticExportOptions: the maximum of rows of a section
    Metadata,    \* free-form values that a summary may carry
    MaxRows,     \* rows of a store at the start, or none
    MaxAppends,  \* bound: rows appended while exports run
    MaxFaults    \* bound: absent or broken stores, failed writes and stops

VARIABLES
    source,      \* what the session's stores hold
    bundle,      \* the bundle on disk
    job          \* each exporter's run

vars == <<source, bundle, job>>

-----------------------------------------------------------------------------
(* Redaction.  A value is a string, a mapping or a sequence.  A string is  *)
(* the set of fragments in it; a key is plain, secret, a token counter or  *)
(* one that names a raw payload.                                           *)

Str(fragments) == [type |-> "str", of |-> fragments]
Redacted == Str({"redacted"})
Omitted == Str({"omitted"})

ShouldRedact(key) == key = "secret"

ShouldOmitKey(key) == key = "prompt"

RECURSIVE RedactPayload(_)
RedactPayload(v) ==
    CASE v.type = "str" -> v
      [] v.type = "seq" -> [v EXCEPT !.of = [i \in DOMAIN @ |-> RedactPayload(@[i])]]
      [] v.type = "map" ->
           [v EXCEPT !.of = [k \in DOMAIN @ |-> IF ShouldRedact(k) THEN Redacted
                                                                  ELSE RedactPayload(@[k])]]

(* The workspace root becomes a label wherever it occurs; a string that is *)
(* nothing but another absolute path is replaced.                          *)
NormalizeWorkspacePath(fragments) ==
    IF "root" \in fragments THEN (fragments \ {"root"}) \cup {"label"}
    ELSE IF fragments = {"absolute"} THEN {"redacted"}
    ELSE fragments

RedactSecretFragments(fragments) ==
    IF "password=x" \in fragments THEN (fragments \ {"password=x"}) \cup {"redacted"}
                                  ELSE fragments

RECURSIVE SanitizeValue(_, _)
SanitizeValue(v, key) ==
    CASE ShouldOmitKey(key) -> Omitted
      [] ~ShouldOmitKey(key) /\ v.type = "map" ->
           [v EXCEPT !.of = [k \in DOMAIN @ |-> SanitizeValue(@[k], k)]]
      [] ~ShouldOmitKey(key) /\ v.type = "seq" ->
           [v EXCEPT !.of = [i \in DOMAIN @ |-> SanitizeValue(@[i], "none")]]
      [] ~ShouldOmitKey(key) /\ v.type = "str" ->
           Str(RedactSecretFragments(NormalizeWorkspacePath(v.of)))

RedactDiagnosticPayload(v) == SanitizeValue(RedactPayload(v), "none")

(* The strings a reader of the value finds, each with the keys above it.   *)
RECURSIVE Leaves(_, _)
Leaves(v, path) ==
    CASE v.type = "str" -> {[path |-> path, of |-> v.of]}
      [] v.type = "map" -> UNION {Leaves(v.of[k], path \cup {k}) : k \in DOMAIN v.of}
      [] v.type = "seq" -> UNION {Leaves(v.of[i], path) : i \in DOMAIN v.of}

-----------------------------------------------------------------------------
(* The sources of an export.                                               *)

SectionsInTurn ==
    <<"session", "tasks", "results", "messages", "runtime_input", "audit",
      "workspace_inspection", "usage", "skill_governance", "events", "ui_events", "logs",
      "config", "frontend", "environment">>

(* _SECTION_ORDER: it leaves out "usage", which the manifest puts last.    *)
SectionOrder ==
    <<"session", "tasks", "results", "messages", "runtime_input", "audit",
      "workspace_inspection", "skill_governance", "events", "ui_events", "logs", "config",
      "frontend", "environment">>

Growing == {"messages", "inspection", "usage", "context", "events", "ui_events", "log",
            "frontend"}
Stores == Growing \cup {"tasks", "results"}

Readable(s) == source.state[s] = "present"
Absent(s) == source.state[s] = "absent"
Broken(s) == source.state[s] = "broken"

(* The executor makes the ref of an outcome readable before the bus        *)
(* records the outcome; without a summary store it leaves the ref alone.   *)
(* A summary may or may not have details of an error.                      *)
SaveSummary(t) ==
    /\ t \notin source.summaries /\ ~Absent("results")
    /\ \E details \in SUBSET {t} :
         source' = [source EXCEPT !.summaries = @ \cup {t}, !.detailed = @ \cup details]
    /\ UNCHANGED <<bundle, job>>

SettleTask(t) ==
    /\ source.tasks[t] = "running"
    /\ t \in source.summaries \/ Absent("results")
    /\ \E outcome \in {"done", "failed"} : source' = [source EXCEPT !.tasks[t] = outcome]
    /\ UNCHANGED <<bundle, job>>

(* A component of the running program appends a row; the first row makes   *)
(* the store.  A message may open a new runtime input route.               *)
AppendRow(s) ==
    /\ ~Broken(s) /\ source.appends < MaxAppends
    /\ \E opens \in {0, 1} :
         /\ s # "messages" => opens = 0
         /\ source' = [source EXCEPT !.rows[s] = @ + 1, !.state[s] = "present",
                                     !.appends = @ + 1, !.routes = @ + opens]
    /\ job' = [e \in Exporters |->
                 IF job[e].counted = s THEN [job[e] EXCEPT !.raced = TRUE] ELSE job[e]]
    /\ UNCHANGED bundle

-----------------------------------------------------------------------------
(* What a collector returns: the files it lists, its warnings, and of the  *)
(* rows `of` its source those it ships; or that it raises.                 *)

LastRows(n, limit) == IF limit = 0 THEN {} ELSE {k \in 1..n : k + limit > n}

Collected(files, warnings, shipped, of) ==
    [files |-> files, warnings |-> warnings, shipped |-> shipped, of |-> of, raises |-> FALSE]

Nothing == Collected({}, {}, {}, {})
NotPresent == Collected({}, {"not present"}, {}, {})
Raising(of) == [Collected({}, {"collector failed"}, {}, of) EXCEPT !.raises = TRUE]
Unread(of) == Collected({}, {"unread"}, {}, of)

Truncated(total, shipped) == IF total > Cardinality(shipped) THEN {"truncated"} ELSE {}

(* The tail of a source read in one go, with a warning when it is cut.     *)
Tail_(file, n) ==
    LET selected == LastRows(n, Limit)
    IN  Collected({file}, Truncated(n, selected), selected, 1..n)

CollectSession(e) == Collected({"session"}, {}, {}, {})

(* The details of the summary behind a failed task's error ref, when the   *)
(* summaries that were read hold it and it has any.                        *)
ProductErrorFromTask(e, t) ==
    job[e].tasks[t] = "failed" /\ t \in job[e].summaries /\ t \in source.detailed

CollectTasks(e) ==
    Collected({"tasks"}, IF Broken("tasks") THEN {"unread"} ELSE {},
              {t \in DOMAIN job[e].tasks : ProductErrorFromTask(e, t)},
              {t \in DOMAIN job[e].tasks : job[e].tasks[t] = "failed" /\ t \in source.detailed})

CollectResults(e) ==
    LET refs == {t \in DOMAIN job[e].tasks : job[e].tasks[t] # "running"}
        missing == refs \ job[e].summaries
    IN  Collected({"results"},
                  (IF Broken("results") THEN {"unread"} ELSE {})
                    \cup (IF missing # {} THEN {"missing refs"} ELSE {})
                    \cup (IF Absent("results") THEN {"not present"} ELSE {}),
                  job[e].summaries \cap DOMAIN job[e].tasks, refs)

CollectMessages(e) ==
    LET n == source.rows["messages"] IN
    IF Absent("messages") THEN NotPresent
    ELSE IF Broken("messages") THEN Raising(1..n)
    ELSE Tail_("messages", n)

CollectRuntimeInput(e) ==
    LET n == source.routes IN
    IF Absent("messages") THEN NotPresent
    ELSE IF Broken("messages") THEN Raising(1..n)
    ELSE IF n = 0 THEN Collected({}, {"no routes"}, {}, {})
    ELSE Tail_("runtime_input", n)

(* The evidence store is asked for at most Limit records, so a full answer *)
(* counts as truncated, and an answer cut to nothing as an empty store.    *)
CollectInspection(e) ==
    LET n == source.rows["inspection"]
        records == LastRows(n, Limit)
    IN  IF Absent("inspection") THEN NotPresent
        ELSE IF Broken("inspection") THEN Raising(1..n)
        ELSE IF records = {} THEN Collected({}, {"empty"}, {}, 1..n)
        ELSE Collected({"inspection"},
                       IF Cardinality(records) >= Limit THEN {"truncated"} ELSE {},
                       records, 1..n)

CollectUsage(e) ==
    LET n == source.rows["usage"] IN
    IF Absent("usage") THEN NotPresent
    ELSE IF Broken("usage") THEN Unread(1..n)
    ELSE Tail_("usage", n)

CollectSkillGovernance(e) ==
    LET n == source.rows["context"] IN
    IF Absent("context") THEN NotPresent
    ELSE IF Broken("context") THEN Unread(1..n)
    ELSE Collected({"skills"}, {}, 1..n, 1..n)

(* The total was counted on an earlier connection.                         *)
CollectEvents(e, s) ==
    LET n == source.rows[s]
        rows == LastRows(n, Limit)
    IN  IF Broken(s) THEN Raising(1..n)
        ELSE Collected({s}, Truncated(job[e].total, rows), rows, 1..n)

(* A log category without entries gets no file.                            *)
CollectLogs(e) ==
    LET n == source.rows["log"]
        entries == LastRows(n, Limit)
    IN  IF Broken("log") THEN Raising(1..n)
        ELSE Collected({"log manifest"} \cup (IF entries = {} THEN {} ELSE {"log"}),
                       Truncated(n, entries), entries, 1..n)

CollectConfig(e) ==
    IF Absent("log") THEN NotPresent ELSE Collected({"config"}, {}, {}, {})

CollectFrontendErrors(e) ==
    LET n == source.rows["frontend"] IN
    IF Absent("frontend") THEN NotPresent
    ELSE IF Broken("frontend") THEN Raising(1..n)
    ELSE Tail_("frontend", n)

CollectEnvironment(e) == Collected({"environment"}, {}, {}, {})

-----------------------------------------------------------------------------
(* The export.                                                             *)

Idle ==
    [pc |-> "idle", turn |-> 1, counted |-> "none", raced |-> FALSE, total |-> 0,
     first |-> Nothing, tasks |-> <<>>, summaries |-> {}, files |-> {}, sections |-> <<>>]

Section(e) == SectionsInTurn[job[e].turn]

Collecting(e, section) ==
    job[e].pc = "collect" /\ job[e].turn <= Len(SectionsInTurn) /\ Section(e) = section

CheckFree(e) ==
    /\ job[e].pc = "idle"
    /\ job' = [job EXCEPT ![e].pc = IF bundle.dir THEN "exists" ELSE "checked"]
    /\ UNCHANGED <<source, bundle>>


(* The session is looked up first; mkdir fails when another export of the  *)
(* same id was faster.                                                     *)
MakeDir(e) ==
    /\ job[e].pc = "checked"
    /\ IF source.session /\ ~bundle.dir
       THEN /\ bundle' = [bundle EXCEPT !.dir = TRUE, !.makers = @ \cup {e}]
            /\ job' = [job EXCEPT ![e].pc = "tasks"]
       ELSE /\ job' = [job EXCEPT ![e].pc = IF source.session THEN "exists" ELSE "not found"]
            /\ UNCHANGED bundle
    /\ UNCHANGED source

SafeReadTasks(e) ==
    /\ job[e].pc = "tasks"
    /\ job' = [job EXCEPT ![e].pc = "summaries",
                          ![e].tasks = IF Readable("tasks") THEN source.tasks ELSE <<>>]
    /\ UNCHANGED <<source, bundle>>

SafeReadResultSummaries(e) ==
    /\ job[e].pc = "summaries"
    /\ job' = [job EXCEPT ![e].pc = "collect",
                          ![e].summaries = IF Readable("results") THEN source.summaries ELSE {}]
    /\ UNCHANGED <<source, bundle>>

AddSection(e, status, c) ==
    [job EXCEPT ![e].turn = @ + 1, ![e].counted = "none", ![e].total = 0,
                ![e].raced = FALSE, ![e].first = Nothing,
                ![e].sections = Append(@, [name |-> Section(e), status |-> status,
                                           files |-> c.files, warnings |-> c.warnings,
                                           shipped |-> c.shipped, of |-> c.of,
                                           raced |-> job[e].raced])]

Status(c) ==
    IF c.warnings = {} THEN "included"
    ELSE IF c.files # {} THEN "partial"
    ELSE "missing"

(* write_json and write_jsonl: a file enters the writer's list after it is *)
(* on disk.                                                                *)
Write(e, files) == bundle' = [bundle EXCEPT !.disk = @ \cup files]

(* A file whose write fails is on disk, cut short, and not in the list.    *)
WriteFails(e, c) ==
    /\ source.faults < MaxFaults
    /\ source' = [source EXCEPT !.faults = @ + 1]
    /\ \E f \in c.files \ job[e].files :
         /\ job' = AddSection(e, "missing", Raising(c.of))
         /\ Write(e, {f})

(* One source must not break the export: a collector that raises costs its *)
(* own section only, and what it had already written stays listed.         *)
RunCollector(e, c) ==
    \/ /\ job' = IF c.raises THEN AddSection(e, "missing", c)
                 ELSE [AddSection(e, Status(c), c) EXCEPT ![e].files = @ \cup c.files]
       /\ Write(e, c.files)
       /\ UNCHANGED source
    \/ ~c.raises /\ WriteFails(e, c)

Collect(e) ==
    \/ Collecting(e, "session") /\ RunCollector(e, CollectSession(e))
    \/ Collecting(e, "tasks") /\ RunCollector(e, CollectTasks(e))
    \/ Collecting(e, "results") /\ RunCollector(e, CollectResults(e))
    \/ Collecting(e, "messages") /\ RunCollector(e, CollectMessages(e))
    \/ Collecting(e, "runtime_input") /\ RunCollector(e, CollectRuntimeInput(e))
    \/ Collecting(e, "workspace_inspection") /\ RunCollector(e, CollectInspection(e))
    \/ Collecting(e, "usage") /\ RunCollector(e, CollectUsage(e))
    \/ Collecting(e, "skill_governance") /\ RunCollector(e, CollectSkillGovernance(e))
    \/ Collecting(e, "config") /\ RunCollector(e, CollectConfig(e))
    \/ Collecting(e, "frontend") /\ RunCollector(e, CollectFrontendErrors(e))
    \/ Collecting(e, "environment") /\ RunCollector(e, CollectEnvironment(e))

(* The event streams: the count, and the rows on a second connection.      *)
CountRows(e, s) ==
    /\ Collecting(e, s) /\ job[e].counted = "none"
    /\ IF ~Readable(s)
       THEN RunCollector(e, IF Absent(s) THEN NotPresent ELSE Raising(1..source.rows[s]))
       ELSE /\ job' = [job EXCEPT ![e].counted = s, ![e].total = source.rows[s]]
            /\ UNCHANGED <<source, bundle>>

ReadRows(e, s) ==
    /\ Collecting(e, s) /\ job[e].counted = s
    /\ RunCollector(e, CollectEvents(e, s))

(* Logs: the archive's manifest is copied first, then the categories.      *)
WriteLogManifest(e) ==
    /\ Collecting(e, "logs") /\ job[e].counted = "none"
    /\ IF Absent("log") THEN RunCollector(e, NotPresent)
       ELSE \/ /\ job' = [job EXCEPT ![e].counted = "logs", ![e].files = @ \cup {"log manifest"}]
               /\ Write(e, {"log manifest"})
               /\ UNCHANGED source
            \/ WriteFails(e, Collected({"log manifest"}, {}, {}, {}))

WriteLogCategories(e) ==
    /\ Collecting(e, "logs") /\ job[e].counted = "logs"
    /\ RunCollector(e, CollectLogs(e))

(* Audit: a snapshot and a page of records, each of which the gateway may  *)
(* refuse, over the tasks and summaries the export has read.               *)
CollectAuditSnapshot(e) ==
    /\ Collecting(e, "audit") /\ job[e].counted = "none"
    /\ \E ok \in BOOLEAN :
         LET first == IF ok THEN Collected({"audit summary"}, {}, {}, {})
                            ELSE Collected({}, {"no snapshot"}, {}, {})
         IN  \/ /\ job' = [job EXCEPT ![e].counted = "audit", ![e].first = first,
                                      ![e].files = @ \cup first.files]
                /\ Write(e, first.files)
                /\ UNCHANGED source
             \/ WriteFails(e, first)

CollectAuditRecords(e) ==
    /\ Collecting(e, "audit") /\ job[e].counted = "audit"
    /\ \E answer \in {"all", "page", "refused"} :
         RunCollector(e, Collected(job[e].first.files
                                     \cup (IF answer = "refused" THEN {} ELSE {"audit records"}),
                                   job[e].first.warnings
                                     \cup (CASE answer = "all" -> {}
                                             [] answer = "page" -> {"truncated"}
                                             [] answer = "refused" -> {"no records"}),
                                   {}, {}))

SectionKey(name) ==
    IF name \in Range(SectionOrder) THEN CHOOSE i \in DOMAIN SectionOrder : SectionOrder[i] = name
                                    ELSE Len(SectionOrder) + 1

WriteManifest(e) ==
    /\ job[e].pc = "collect" /\ job[e].turn > Len(SectionsInTurn)
    /\ bundle' = [bundle EXCEPT
                    !.disk = @ \cup {"manifest"},
                    !.content = RedactDiagnosticPayload(source.metadata),
                    !.manifest =
                      [sections |-> SortSeq(job[e].sections, LAMBDA a, b :
                                              SectionKey(a.name) < SectionKey(b.name)),
                       files |-> job[e].files \cup {"manifest"}]]
    /\ job' = [job EXCEPT ![e].pc = "zip"]
    /\ UNCHANGED source

MakeArchive(e) ==
    /\ job[e].pc = "zip"
    /\ bundle' = [bundle EXCEPT !.zip = bundle.disk]
    /\ job' = [job EXCEPT ![e].pc = "done"]
    /\ UNCHANGED source

(* The process stops: the directory stays as it is.                        *)
Stop(e) ==
    /\ job[e].pc \in {"tasks", "summaries", "collect", "zip"} /\ source.faults < MaxFaults
    /\ source' = [source EXCEPT !.faults = @ + 1]
    /\ job' = [job EXCEPT ![e].pc = "stopped"]
    /\ UNCHANGED bundle

-----------------------------------------------------------------------------
States == {f \in [Stores -> {"present", "absent", "broken"}] :
             Cardinality({s \in Stores : f[s] # "present"}) <= MaxFaults}

Init ==
    /\ \E states \in States, session \in BOOLEAN, metadata \in Metadata, n \in {0, MaxRows} :
         source = [state |-> states, session |-> session, metadata |-> metadata,
                   faults |-> Cardinality({s \in Stores : states[s] # "present"}),
                   tasks |-> [t \in Tasks |-> "running"], summaries |-> {}, detailed |-> {},
                   appends |-> 0,
                   routes |-> IF states["messages"] = "absent" THEN 0 ELSE n,
                   rows |-> [s \in Growing |-> IF states[s] = "absent" THEN 0 ELSE n]]
    /\ bundle = [dir |-> FALSE, makers |-> {}, disk |-> {}, content |-> Str({}),
                 manifest |-> [sections |-> <<>>, files |-> {}], zip |-> {}]
    /\ job = [e \in Exporters |-> Idle]

Export(e) ==
    \/ CheckFree(e) \/ MakeDir(e) \/ SafeReadTasks(e) \/ SafeReadResultSummaries(e)
    \/ Collect(e) \/ \E s \in {"events", "ui_events"} : CountRows(e, s) \/ ReadRows(e, s)
    \/ WriteLogManifest(e) \/ WriteLogCategories(e)
    \/ CollectAuditSnapshot(e) \/ CollectAuditRecords(e)
    \/ WriteManifest(e) \/ MakeArchive(e) \/ Stop(e)

Next ==
    \/ \E e \in Exporters : Export(e)
    \/ \E t \in Tasks : SaveSummary(t) \/ SettleTask(t)
    \/ \E s \in Growing : AppendRow(s)

Spec == Init /\ [][Next]_vars

-----------------------------------------------------------------------------
(* Properties.                                                             *)

Written == "manifest" \in bundle.disk
Listed == DOMAIN bundle.manifest.sections
ListedAs(i) == bundle.manifest.sections[i]

(* Two exports that agree on the bundle id never write one directory, and  *)
(* a manifest lists all fifteen sections once and only files on disk; a    *)
(* file of a section is a file of the manifest, and of the archive.        *)
ManifestTellsAll ==
    /\ Cardinality(bundle.makers) <= 1
    /\ Written =>
         /\ Len(bundle.manifest.sections) = Len(SectionsInTurn)
         /\ {ListedAs(i).name : i \in Listed} = Range(SectionsInTurn)
         /\ bundle.manifest.files \subseteq bundle.disk
         /\ \A i \in Listed : ListedAs(i).files \subseteq bundle.manifest.files
    /\ (\E e \in Exporters : job[e].pc = "done") => bundle.manifest.files \subseteq bundle.zip

(* Rows of a source that a section leaves out are owned up to in its       *)
(* warnings; only a row appended between the count and the read of an      *)
(* event stream can push another one out in silence.                       *)
ShippedOrSaid ==
    Written => \A i \in Listed : LET s == ListedAs(i) IN
                 s.name = "tasks" \/ s.of \subseteq s.shipped \/ s.warnings # {} \/ s.raced

(* The summary behind the ref of an exported task is exported with it when *)
(* the summary store can be read, and so are the details of a failure that *)
(* has any: tasks are read before summaries, and executors write them in   *)
(* the opposite order.                                                     *)
ResultsFollowTasks ==
    Written /\ Readable("results") =>
      \A i \in Listed : LET s == ListedAs(i) IN
        s.name \in {"tasks", "results"} =>
          s.of \subseteq s.shipped \/ "collector failed" \in s.warnings

(* No string of the bundle holds a password, the workspace root or a bare  *)
(* absolute path, and nothing below a raw payload's or a secret's key is   *)
(* readable.                                                               *)
ContentRedacted ==
    \A leaf \in Leaves(bundle.content, {}) :
        /\ {"password=x", "root"} \cap leaf.of = {}
        /\ leaf.of # {"absolute"}
        /\ {"prompt", "secret"} \cap leaf.path # {} => leaf.of \in {{"omitted"}, {"redacted"}}

(* The four promises of an export, together.                               *)
BundleSound == ManifestTellsAll /\ ShippedOrSaid /\ ResultsFollowTasks /\ ContentRedacted

=============================================================================
