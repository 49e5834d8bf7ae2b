------------------------------ MODULE Settings ------------------------------
(***************************************************************************)
(* The Settings files of the sidecar and the requests that read and write  *)
(* them: server/settings_config.py with the LLM part in settings_llm.py,   *)
(* the readiness report of settings_readiness.py, its computer-use section *)
(* (computer_use_settings_readiness.py) and the routes of                  *)
(* ui_http_settings.py.                                                    *)
(*                                                                         *)
(* config.json and secrets.json are written to a temporary path that all   *)
(* writers of a file share, then moved over the file.  Requests are served *)
(* by threads without a lock, and with a global settings root by several   *)
(* processes, so every read and each step of a write is a step here.  A    *)
(* path holds an inode: a writer that opens a temporary another one has    *)
(* open truncates it, and one that finds it moved away fails.              *)
(***************************************************************************)
EXTENDS Naturals, FiniteSets

CONSTANTS
    SettingsHandler,  \* the request threads
    SettingsUpdate,   \* the requests the clients may send
    Provider,         \* the supported LLM providers
    Env,              \* the process environment
    StartConfig,      \* config.json when the first sidecar starts
    StartSecrets,     \* secrets.json then
    KnownProfile,     \* the logging profiles of the workspace
    ComputerUse,      \* "disabled", "unwired" or "wired"
    MaxSettingsSends, \* bounds the requests
    MaxSettingsStops  \* bounds crashes and failing writes

VARIABLES
    inode,        \* what each inode holds: a document, "empty" or "torn"
    path,         \* the inode of each file
    tempPath,     \* the inode of each file's temporary path, or NoInode
    settingsJob,  \* the request each thread serves
    saved,        \* the sections and keys whose write was completed last
    overlap,      \* the files written from a document another write had replaced
    clash,        \* the files two writers had open at once
    settingsSends, settingsStops

settingsVars == <<inode, path, tempPath, settingsJob, saved, overlap, clash, settingsSends, settingsStops>>

None == "none"
NoInode == 0
SettingsFile == {"config", "secrets"}
Inodes == 1 .. Cardinality(SettingsHandler) + 4

(* What the reader makes of an empty object, and so of an absent file.     *)
NoDocument(f) ==
    IF f = "config"
    THEN [llm |-> None, profile |-> "unset", web |-> [enabled |-> FALSE, fetch |-> FALSE], agents |-> None]
    ELSE [keys |-> [p \in Provider |-> None], legacy |-> <<None, None>>, web |-> None]

Whole(doc) == [state |-> "whole", doc |-> doc]
Broken(state) == [state |-> state, doc |-> NoDocument("config")]

(* _read_json_object: text that is not a complete object raises            *)
(* SettingsConfigStorageError.                                             *)
Readable(f) == inode[path[f]].state = "whole"
ReadJsonObject(f) == IF Readable(f) THEN inode[path[f]].doc ELSE NoDocument(f)

NoSettingsJob ==
    [pc |-> "idle", req |-> [kind |-> None], file |-> "config", doc |-> NoDocument("config"),
     report |-> None, fd |-> NoInode, stale |-> FALSE, seen |-> None, step |-> None,
     key |-> FALSE, status |-> 0]

-----------------------------------------------------------------------------
(* read_llm_provider_secret: the provider's own entry, else the single key *)
(* of the old format.                                                      *)
ReadLlmProviderSecret(s, p) ==
    IF s.keys[p] # None THEN s.keys[p]
    ELSE IF s.legacy[1] = p THEN s.legacy[2] ELSE None

SettingsInit ==
    /\ inode = [i \in Inodes |-> IF i = 1 THEN Whole(StartConfig)
                                 ELSE IF i = 2 THEN Whole(StartSecrets) ELSE Broken("empty")]
    /\ path = [f \in SettingsFile |-> IF f = "config" THEN 1 ELSE 2]
    /\ tempPath = [f \in SettingsFile |-> NoInode]
    /\ settingsJob = [h \in SettingsHandler |-> NoSettingsJob]
    /\ saved = [config |-> StartConfig, web |-> StartSecrets.web,
                keys |-> [p \in Provider |-> ReadLlmProviderSecret(StartSecrets, p)]]
    /\ overlap = {} /\ clash = {}
    /\ settingsSends = 0 /\ settingsStops = 0

(* llm_provider_secret_payload: the legacy key becomes its provider's      *)
(* entry unless there is one, then the new key is entered.                 *)
LlmProviderSecretPayload(s, p, k) ==
    [keys |-> [q \in Provider |-> IF q = p THEN k ELSE ReadLlmProviderSecret(s, q)],
     legacy |-> <<None, None>>, web |-> s.web]

(* write_web_search_secret puts its key beside the others.                 *)
WebSearchSecretPayload(s, k) == [keys |-> s.keys, legacy |-> s.legacy, web |-> k]

HasEffectiveLlmApiKey(s, p, replacement) ==
    replacement # None \/ ReadLlmProviderSecret(s, p) # None \/ p \in Env.keys

(* effective_web_search_settings: the environment's flags win over the     *)
(* stored ones; a stored key counts for the stored provider only.          *)
WebEnabled(c) ==
    IF Env.web # "unset" THEN Env.web = "on" ELSE c.web.enabled

WebStatus(c, s, replacement) ==
    IF ~WebEnabled(c) THEN "disabled"
    ELSE IF replacement # None \/ (s.web # None /\ ~Env.otherWebProvider) \/ Env.webKey
    THEN "ready" ELSE "missing_key"

(* The first sidecar finds files that complete updates left.               *)
ASSUME SettingsAssumption ==
    /\ IsFiniteSet(SettingsHandler)
    /\ None \notin Provider /\ Env.provider \in Provider
    /\ MaxSettingsSends \in Nat /\ MaxSettingsStops \in Nat
    /\ StartConfig.llm \in Provider \cup {None}
    /\ StartConfig.llm # None => HasEffectiveLlmApiKey(StartSecrets, StartConfig.llm, None)
    /\ StartConfig.web.enabled /\ ~Env.otherWebProvider /\ Env.web = "unset" =>
          WebStatus(StartConfig, StartSecrets, None) = "ready"

HasLlm(u) == u.llm.provider # None
LlmKey(u) == u.llm.key
WebKey(u) == u.web.key

(* _updated_config_data: the sections of the payload replace the stored    *)
(* ones, everything else of the stored document is kept.                   *)
UpdatedConfigData(c, u) ==
    [llm |-> IF HasLlm(u) THEN u.llm.provider ELSE c.llm,
     profile |-> IF u.profile = "unset" THEN c.profile ELSE u.profile,
     web |-> IF u.web.given
             THEN [enabled |-> u.web.enabled, fetch |-> u.web.enabled /\ u.web.fetch]
             ELSE c.web,
     agents |-> c.agents]

(* _validate_update against the secrets document s.                        *)
ValidUpdate(u, c, s) ==
    /\ HasLlm(u) => /\ u.llm.provider \in Provider /\ u.llm.valid
                    /\ HasEffectiveLlmApiKey(s, u.llm.provider, LlmKey(u))
    /\ u.profile \in KnownProfile \cup {"unset", None}
    /\ u.web.given => /\ u.web.supported
                      /\ u.web.enabled => WebStatus(c, s, WebKey(u)) # "missing_key"

-----------------------------------------------------------------------------
JobBecomes(h, j) == settingsJob' = [settingsJob EXCEPT ![h] = j]
JobGoes(h, pc) == JobBecomes(h, [settingsJob[h] EXCEPT !.pc = pc])
FilesStay == UNCHANGED <<inode, path, tempPath, saved, overlap, clash, settingsStops>>
JobAt(h, pc) == settingsJob[h].pc = pc

(* _settings_config_response and the readiness routes: a request ends with *)
(* its HTTP status; the answer is kept until the thread takes another one. *)
SettingsAnswers(h, status) ==
    JobBecomes(h, [settingsJob[h] EXCEPT !.pc = "idle", !.status = status])

SettingsRequest(h, req) ==
    /\ JobAt(h, "idle") /\ settingsSends < MaxSettingsSends
    /\ settingsSends' = settingsSends + 1
    /\ JobBecomes(h, [NoSettingsJob EXCEPT !.req = req,
                                           !.pc = IF req.kind = "patch" THEN "read"
                                                  ELSE IF req.kind = "get" THEN "summary" ELSE "env"])
    /\ UNCHANGED <<inode, path, tempPath, saved, overlap, clash, settingsStops>>

(* update_config reads config.json and builds the document to write.       *)
ReadConfig(h) ==
    /\ JobAt(h, "read")
    /\ LET c == ReadJsonObject("config") IN
       IF ~Readable("config") THEN SettingsAnswers(h, 500)
       ELSE JobBecomes(h, [settingsJob[h] EXCEPT !.pc = "check", !.stale = FALSE,
                                                 !.doc = UpdatedConfigData(c, settingsJob[h].req)])
    /\ UNCHANGED settingsSends /\ FilesStay

(* _validate_update; secrets.json is read only for a key that the payload  *)
(* does not bring.                                                         *)
ReadsSecrets(u) ==
    \/ HasLlm(u) /\ LlmKey(u) = None
    \/ u.web.given /\ u.web.supported /\ u.web.enabled /\ WebKey(u) = None

Validate(h) ==
    /\ JobAt(h, "check")
    /\ LET s == ReadJsonObject("secrets")
           u == settingsJob[h].req IN
       IF ~Readable("secrets") /\ ReadsSecrets(u) THEN SettingsAnswers(h, 500)
       ELSE IF ~ValidUpdate(u, settingsJob[h].doc, s)
       THEN SettingsAnswers(h, 400)
       ELSE JobBecomes(h, [settingsJob[h] EXCEPT !.pc = "open", !.file = "config"])
    /\ UNCHANGED settingsSends /\ FilesStay

(* write_llm_provider_secret and write_web_search_secret read secrets.json *)
(* and put one key into what they read.                                    *)
SecretsPayload(s, u, step) ==
    IF step = "llm_key" THEN LlmProviderSecretPayload(s, u.llm.provider, u.llm.key)
    ELSE WebSearchSecretPayload(s, u.web.key)

ReadSecrets(h) ==
    /\ settingsJob[h].pc \in {"llm_key", "web_key"}
    /\ LET s == ReadJsonObject("secrets")
           u == settingsJob[h].req IN
       IF ~Readable("secrets") THEN SettingsAnswers(h, 500)
       ELSE JobBecomes(h, [settingsJob[h] EXCEPT !.pc = "open", !.file = "secrets",
                                                 !.stale = FALSE, !.step = settingsJob[h].pc,
                                                 !.doc = SecretsPayload(s, u, settingsJob[h].pc)])
    /\ UNCHANGED settingsSends /\ FilesStay

(* _write_private_json: opening the temporary truncates it; the text that  *)
(* another writer put there since may outlast a shorter one; the move      *)
(* takes whatever the temporary path holds.                                *)
FreeInodes == {i \in Inodes : /\ \A f \in SettingsFile : i \notin {path[f], tempPath[f]}
                        /\ \A h \in SettingsHandler : settingsJob[h].fd # i}

HasOpen(h, f) == settingsJob[h].file = f /\ settingsJob[h].pc \in {"fill", "move"}

OpensInPlace(h) ==
    LET f == settingsJob[h].file IN
    /\ JobAt(h, "open")
    /\ inode' = [inode EXCEPT ![path[f]] = Broken("empty")]
    /\ tempPath' = [tempPath EXCEPT ![f] = path[f]]
    /\ JobBecomes(h, [settingsJob[h] EXCEPT !.pc = "fill", !.fd = path[f]])
    /\ UNCHANGED <<path, saved, overlap, clash, settingsSends, settingsStops>>

WriteOpens(h) ==
    LET f == settingsJob[h].file
        i == IF tempPath[f] # NoInode THEN tempPath[f] ELSE CHOOSE j \in FreeInodes : TRUE IN
    /\ JobAt(h, "open")
    /\ inode' = [inode EXCEPT ![i] = Broken("empty")]
    /\ tempPath' = [tempPath EXCEPT ![f] = i]
    /\ JobBecomes(h, [settingsJob[h] EXCEPT !.pc = "fill", !.fd = i])
    /\ clash' = IF \E g \in SettingsHandler \ {h} : HasOpen(g, f) THEN clash \cup {f} ELSE clash
    /\ UNCHANGED <<path, saved, overlap, settingsSends, settingsStops>>

WriteFills(h) ==
    /\ JobAt(h, "fill")
    /\ \E content \in {Whole(settingsJob[h].doc)} \cup
           (IF inode[settingsJob[h].fd].state = "empty" THEN {} ELSE {Broken("torn")}) :
           inode' = [inode EXCEPT ![settingsJob[h].fd] = content]
    /\ JobBecomes(h, [settingsJob[h] EXCEPT !.pc = "move", !.fd = NoInode])
    /\ UNCHANGED <<path, tempPath, saved, overlap, clash, settingsSends, settingsStops>>

(* update_config after a write: the next key of the payload, else the      *)
(* readiness report.                                                       *)
AfterWrite(h) ==
    LET u == settingsJob[h].req IN
    IF settingsJob[h].file = "config" /\ LlmKey(u) # None THEN "llm_key"
    ELSE IF (settingsJob[h].file = "config" \/ settingsJob[h].step = "llm_key") /\ WebKey(u) # None
    THEN "web_key" ELSE "env"

Saves(h) ==
    LET u == settingsJob[h].req IN
    [config |-> IF settingsJob[h].file = "config" THEN UpdatedConfigData(saved.config, u)
                ELSE saved.config,
     keys |-> IF settingsJob[h].file = "config" \/ settingsJob[h].step # "llm_key" THEN saved.keys
              ELSE [p \in Provider |-> IF p = u.llm.provider THEN u.llm.key ELSE saved.keys[p]],
     web |-> IF settingsJob[h].file = "config" \/ settingsJob[h].step = "llm_key" THEN saved.web
             ELSE u.web.key]

(* Whether what a thread is about to write was made from file f.           *)
Based(h, f) ==
    \/ f = "config" /\ JobAt(h, "check")
    \/ settingsJob[h].file = f /\ settingsJob[h].pc \in {"open", "fill", "move"}

WriteMoves(h) ==
    LET f == settingsJob[h].file IN
    /\ JobAt(h, "move")
    /\ \/ tempPath[f] = NoInode /\ SettingsAnswers(h, 500) /\ UNCHANGED <<path, tempPath, saved, overlap>>
       \/ /\ tempPath[f] # NoInode
          /\ path' = [path EXCEPT ![f] = tempPath[f]]
          /\ tempPath' = [tempPath EXCEPT ![f] = NoInode]
          /\ settingsJob' = [g \in SettingsHandler |->
                 IF g = h THEN [settingsJob[h] EXCEPT !.pc = AfterWrite(h)]
                 ELSE IF Based(g, f) THEN [settingsJob[g] EXCEPT !.stale = TRUE]
                 ELSE settingsJob[g]]
          /\ saved' = Saves(h)
          /\ overlap' = IF settingsJob[h].stale THEN overlap \cup {f} ELSE overlap
    /\ UNCHANGED <<inode, clash, settingsSends, settingsStops>>

(* A full disk or an unwritable directory: SettingsConfigStorageError.     *)
WriteFails(h) ==
    /\ settingsJob[h].pc \in {"open", "fill"}
    /\ settingsStops < MaxSettingsStops
    /\ settingsStops' = settingsStops + 1
    /\ JobBecomes(h, [settingsJob[h] EXCEPT !.pc = "idle", !.status = 500, !.fd = NoInode])
    /\ UNCHANGED <<inode, path, tempPath, saved, overlap, clash, settingsSends>>

-----------------------------------------------------------------------------
(* effective_env and _llm_readiness: the stored provider over the          *)
(* environment's, and whether it has a key.                                *)
EffectiveProvider(c) == IF c.llm # None THEN c.llm ELSE Env.provider

(* _readiness: config.json for the environment, secrets.json for the key   *)
(* and config.json again for the logging profile.                          *)
ReadEnv(h) ==
    /\ JobAt(h, "env")
    /\ LET c == ReadJsonObject("config") IN
       IF ~Readable("config") THEN SettingsAnswers(h, 500)
       ELSE JobBecomes(h, [settingsJob[h] EXCEPT !.pc = "keys", !.seen = EffectiveProvider(c)])
    /\ UNCHANGED settingsSends /\ FilesStay

ReadKeys(h) ==
    /\ JobAt(h, "keys")
    /\ LET s == ReadJsonObject("secrets") IN
       IF ~Readable("secrets") THEN SettingsAnswers(h, 500)
       ELSE JobBecomes(h, [settingsJob[h] EXCEPT !.pc = "profile",
                                                 !.key = HasEffectiveLlmApiKey(s, settingsJob[h].seen, None)])
    /\ UNCHANGED settingsSends /\ FilesStay

(* A stored choice, of no profile too, wins over the command line's.       *)
EffectiveLoggingProfile(c) == IF c.profile = "unset" THEN Env.profile ELSE c.profile

SelectedProfileKnown(profile) == profile \in KnownProfile \cup {None}

(* Whether LLM_REQUEST_TIMEOUT_SECONDS, LLM_THINKING_ENABLED or a variable *)
(* of the OpenRouter routing is invalid.                                   *)
EnvBlocks == Env.blocked

(* build_settings_readiness_report: a missing key, an unknown profile or   *)
(* a bad LLM_* variable blocks; disabled logging only warns.               *)
ReadinessStatus(key, profile) ==
    IF ~key \/ ~SelectedProfileKnown(profile) \/ EnvBlocks THEN "needs_configuration"
    ELSE IF Env.logging THEN "ready" ELSE "degraded"

(* ComputerUseSettingsReadinessGateway._decorate on the readiness routes:  *)
(* a backend that is not ready turns "ready" into "degraded".              *)
Decorated(status, helperReady) ==
    IF status = "ready" /\ ComputerUse # "disabled" /\ ~(ComputerUse = "wired" /\ helperReady)
    THEN "degraded" ELSE status

ReadProfile(h) ==
    /\ JobAt(h, "profile")
    /\ LET c == ReadJsonObject("config") IN
       IF ~Readable("config") THEN SettingsAnswers(h, 500)
       ELSE LET status == ReadinessStatus(settingsJob[h].key, EffectiveLoggingProfile(c)) IN
            IF settingsJob[h].req.kind = "patch"
            THEN JobBecomes(h, [settingsJob[h] EXCEPT !.pc = "summary", !.report = status])
            ELSE \E helperReady \in BOOLEAN :
                     JobBecomes(h, [settingsJob[h] EXCEPT !.pc = "idle", !.status = 200,
                                                          !.report = Decorated(status, helperReady)])
    /\ UNCHANGED settingsSends /\ FilesStay

(* build_settings_config_summary: config.json for the sources, again for   *)
(* the effective provider, then secrets.json.                              *)
ReadSummary(h) ==
    /\ JobAt(h, "summary")
    /\ IF ~Readable("config") THEN SettingsAnswers(h, 500) ELSE JobGoes(h, "provider")
    /\ UNCHANGED settingsSends /\ FilesStay

SummaryProvider(h) ==
    /\ JobAt(h, "provider")
    /\ LET c == ReadJsonObject("config") IN
       IF ~Readable("config") THEN SettingsAnswers(h, 500)
       ELSE JobBecomes(h, [settingsJob[h] EXCEPT !.pc = "sources", !.seen = EffectiveProvider(c)])
    /\ UNCHANGED settingsSends /\ FilesStay

SummaryKeys(h) ==
    /\ JobAt(h, "sources")
    /\ LET s == ReadJsonObject("secrets") IN
       IF ~Readable("secrets") THEN SettingsAnswers(h, 500)
       ELSE JobBecomes(h, [settingsJob[h] EXCEPT !.pc = "idle", !.status = 200,
                                                 !.key = HasEffectiveLlmApiKey(s, settingsJob[h].seen, None)])
    /\ UNCHANGED settingsSends /\ FilesStay

(* The sidecar dies: the files stay as they are.                           *)
SidecarDies ==
    /\ settingsStops < MaxSettingsStops
    /\ settingsStops' = settingsStops + 1
    /\ \E h \in SettingsHandler : ~JobAt(h, "idle")
    /\ settingsJob' = [h \in SettingsHandler |-> NoSettingsJob]
    /\ UNCHANGED <<inode, path, tempPath, saved, overlap, clash, settingsSends>>

SettingsNext ==
    \/ \E h \in SettingsHandler :
        \/ \E u \in SettingsUpdate : SettingsRequest(h, u)
        \/ ReadConfig(h) \/ Validate(h) \/ ReadSecrets(h)
        \/ WriteOpens(h) \/ WriteFills(h) \/ WriteMoves(h) \/ WriteFails(h)
        \/ ReadEnv(h) \/ ReadKeys(h) \/ ReadProfile(h)
        \/ ReadSummary(h) \/ SummaryProvider(h) \/ SummaryKeys(h)
    \/ SidecarDies

-----------------------------------------------------------------------------
(* A settings file is unreadable only after two requests had its temporary *)
(* path open at once: no crash and no failing write leaves a partial file. *)
FilesReadable == \A f \in SettingsFile : ~Readable(f) => f \in clash

(* Unless two writes of a file overlapped, it holds the last value written *)
(* to every section and the last key of every provider, an old-format key  *)
(* included.                                                               *)
NothingLost ==
    /\ "config" \notin overlap \cup clash => ReadJsonObject("config") = saved.config
    /\ "secrets" \notin overlap \cup clash =>
        LET s == ReadJsonObject("secrets") IN
        /\ s.web = saved.web
        /\ \A p \in Provider : ReadLlmProviderSecret(s, p) = saved.keys[p]

(* Whatever updates interleave, the stored provider and an enabled web     *)
(* search have a key, or the update that brings it is still under way;     *)
(* only a crash, a failing write or overlapping writes of one file part    *)
(* them.                                                                   *)
UnderWay(h) == settingsJob[h].pc \in {"open", "fill", "move", "llm_key", "web_key"}

StoredHasKey ==
    (settingsStops = 0 /\ "secrets" \notin overlap \cup clash /\ "config" \notin clash) =>
        LET c == ReadJsonObject("config")
            s == ReadJsonObject("secrets") IN
        /\ c.llm # None =>
            \/ HasEffectiveLlmApiKey(s, c.llm, None)
            \/ \E h \in SettingsHandler : UnderWay(h) /\ LlmKey(settingsJob[h].req) # None
                                  /\ settingsJob[h].req.llm.provider = c.llm
        /\ c.web.enabled /\ ~Env.otherWebProvider /\ Env.web = "unset" =>
            \/ WebStatus(c, s, None) = "ready"
            \/ \E h \in SettingsHandler : UnderWay(h) /\ WebKey(settingsJob[h].req) # None

(* A report that names the provider of its own update calls it configured, *)
(* and a "ready" answer names a provider that has its key.                 *)
ReportsTell ==
    "secrets" \notin overlap \cup clash =>
        \A h \in SettingsHandler : settingsJob[h].status = 200 =>
            LET p == settingsJob[h].seen IN
            /\ settingsJob[h].key \/ (settingsJob[h].req.kind = "readiness" /\ settingsJob[h].report = "ready") =>
                HasEffectiveLlmApiKey(ReadJsonObject("secrets"), p, None)
            /\ settingsJob[h].req.kind = "patch" /\ p = settingsJob[h].req.llm.provider
                  => settingsJob[h].key

SettingsSound == FilesReadable /\ NothingLost /\ StoredHasKey /\ ReportsTell

-----------------------------------------------------------------------------
(* What the properties rest on.                                            *)

SettingsStep == {"idle", "read", "check", "open", "fill", "move", "llm_key", "web_key", "env", "keys",
                 "profile", "summary", "provider", "sources"}
Saving == {"open", "fill", "move"}

JobTypeOK(h) ==
    /\ DOMAIN settingsJob[h] = DOMAIN NoSettingsJob
    /\ settingsJob[h].pc \in SettingsStep
    /\ settingsJob[h].file \in SettingsFile
    /\ settingsJob[h].fd \in Inodes \cup {NoInode}
    /\ settingsJob[h].fd # NoInode <=> JobAt(h, "fill")

SettingsTypeOK ==
    /\ DOMAIN inode = Inodes
    /\ path \in [SettingsFile -> Inodes]
    /\ tempPath \in [SettingsFile -> Inodes \cup {NoInode}]
    /\ DOMAIN settingsJob = SettingsHandler
    /\ \A h \in SettingsHandler : JobTypeOK(h)
    /\ overlap \subseteq SettingsFile /\ clash \subseteq SettingsFile
    /\ settingsStops \in Nat

(* The two files never share an inode, whoever has it open.                *)
InodesApart ==
    /\ path["config"] # path["secrets"]
    /\ \A f, g \in SettingsFile : tempPath[f] # path[g]
    /\ tempPath["config"] = tempPath["secrets"] => tempPath["config"] = NoInode
    /\ \A h \in SettingsHandler : JobAt(h, "fill") =>
         \A f \in SettingsFile \ {settingsJob[h].file} : settingsJob[h].fd \notin {path[f], tempPath[f]}
    /\ \A g, h \in SettingsHandler :
         JobAt(g, "fill") /\ JobAt(h, "fill") /\ settingsJob[g].file # settingsJob[h].file =>
             settingsJob[g].fd # settingsJob[h].fd

(* Without a clash a file is whole and its one writer has its temporary:   *)
(* truncated until it is filled, and its document from then on.            *)
WriterAlone ==
    \A f \in SettingsFile \ clash :
        /\ inode[path[f]].state = "whole"
        /\ \A g, h \in SettingsHandler : HasOpen(g, f) /\ HasOpen(h, f) => g = h
        /\ \A h \in SettingsHandler : HasOpen(h, f) =>
             /\ tempPath[f] # NoInode
             /\ JobAt(h, "fill") => /\ settingsJob[h].fd = tempPath[f]
                                    /\ inode[tempPath[f]].state = "empty"
             /\ JobAt(h, "move") => inode[tempPath[f]] = Whole(settingsJob[h].doc)

(* A document that is not stale is the file's with the update applied, and *)
(* a secrets document has the key it is written for.                       *)
BaseFresh(h) ==
    ~settingsJob[h].stale =>
        /\ "config" \notin clash /\ Based(h, "config") =>
            settingsJob[h].doc = UpdatedConfigData(ReadJsonObject("config"), settingsJob[h].req)
        /\ "secrets" \notin clash /\ Based(h, "secrets") =>
            settingsJob[h].doc =
                SecretsPayload(ReadJsonObject("secrets"), settingsJob[h].req, settingsJob[h].step)

KeyGiven(h) ==
    /\ JobAt(h, "llm_key") => LlmKey(settingsJob[h].req) # None
    /\ JobAt(h, "web_key") => WebKey(settingsJob[h].req) # None
    /\ Based(h, "secrets") => \/ settingsJob[h].step = "llm_key" /\ LlmKey(settingsJob[h].req) # None
                              \/ settingsJob[h].step = "web_key" /\ WebKey(settingsJob[h].req) # None

(* Every provider that is stored, about to be stored or reported is one.   *)
KnownIn(doc) == doc.llm \in Provider \cup {None}

ConfigInodesKnown ==
    /\ KnownIn(inode[path["config"]].doc)
    /\ tempPath["config"] # NoInode => KnownIn(inode[tempPath["config"]].doc)
    /\ \A h \in SettingsHandler : JobAt(h, "fill") /\ settingsJob[h].file = "config" =>
         KnownIn(inode[settingsJob[h].fd].doc)

Answered(h) == JobAt(h, "idle") /\ settingsJob[h].status = 200

ProviderKnown(h) ==
    /\ JobAt(h, "check") =>
         IF HasLlm(settingsJob[h].req) THEN settingsJob[h].doc.llm = settingsJob[h].req.llm.provider
         ELSE KnownIn(settingsJob[h].doc)
    /\ Based(h, "config") /\ ~JobAt(h, "check") => KnownIn(settingsJob[h].doc)
    /\ settingsJob[h].pc \in {"keys", "profile", "sources"} \/ Answered(h) => settingsJob[h].seen \in Provider
    /\ settingsJob[h].status = 200 => JobAt(h, "idle")
    /\ settingsJob[h].pc \in {"summary", "provider", "sources"} => settingsJob[h].req.kind # "readiness"

(* An accepted update has the key of its provider, or has it to write; and *)
(* what a thread found out about a key stays true.                         *)
UpdateAccepted(h) ==
    settingsJob[h].req.kind = "patch" /\ settingsJob[h].pc \notin {"idle", "read", "check"}

KeyPending(h) ==
    /\ \/ JobAt(h, "llm_key")
       \/ /\ settingsJob[h].pc \in Saving
          /\ settingsJob[h].file = "config" \/ settingsJob[h].step = "llm_key"
    /\ LlmKey(settingsJob[h].req) # None

SecretsKept == "secrets" \notin overlap \cup clash

KeyStored(p) == HasEffectiveLlmApiKey(ReadJsonObject("secrets"), p, None)

KeyTold(h) ==
    LET p == settingsJob[h].req.llm.provider IN
    /\ UpdateAccepted(h) /\ HasLlm(settingsJob[h].req) => p \in Provider /\ (KeyPending(h) \/ KeyStored(p))
    /\ (JobAt(h, "profile") \/ Answered(h)) /\ settingsJob[h].key => KeyStored(settingsJob[h].seen)
    /\ Answered(h) =>
         /\ settingsJob[h].req.kind = "readiness" /\ settingsJob[h].report = "ready" => settingsJob[h].key
         /\ settingsJob[h].req.kind = "patch" /\ settingsJob[h].seen = p => settingsJob[h].key

(* What config.json says, and what is about to be written there, has its   *)
(* keys in secrets.json or has them coming.                                *)
LlmBacked(p) ==
    \/ p = None \/ KeyStored(p)
    \/ \E h \in SettingsHandler : KeyPending(h) /\ settingsJob[h].req.llm.provider = p

WebBacked ==
    ~Env.otherWebProvider /\ Env.web = "unset" =>
        \/ ReadJsonObject("secrets").web # None \/ Env.webKey
        \/ \E h \in SettingsHandler : UnderWay(h) /\ WebKey(settingsJob[h].req) # None

DocumentBacked(h) ==
    /\ Based(h, "config") =>
         /\ (JobAt(h, "check") => ~HasLlm(settingsJob[h].req)) => LlmBacked(settingsJob[h].doc.llm)
         /\ settingsJob[h].doc.web.enabled /\ (JobAt(h, "check") => ~settingsJob[h].req.web.given) => WebBacked
    /\ JobAt(h, "check") /\ settingsJob[h].req.web.given =>
         settingsJob[h].doc.web.enabled = settingsJob[h].req.web.enabled

StoreKept == settingsStops = 0 /\ SecretsKept /\ "config" \notin clash

StoredBacked ==
    /\ LlmBacked(ReadJsonObject("config").llm)
    /\ ReadJsonObject("config").web.enabled => WebBacked

SettingsInv ==
    /\ SettingsTypeOK /\ InodesApart /\ WriterAlone /\ NothingLost /\ ConfigInodesKnown
    /\ \A h \in SettingsHandler :
         /\ BaseFresh(h) /\ KeyGiven(h) /\ ProviderKnown(h)
         /\ SecretsKept => KeyTold(h)
         /\ StoreKept => DocumentBacked(h)
    /\ StoreKept => StoredBacked

SettingsSpec == SettingsInit /\ [][SettingsNext]_settingsVars

=============================================================================
