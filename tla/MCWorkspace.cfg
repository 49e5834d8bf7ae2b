SPECIFICATION Spec
CONSTANTS
    Agents = {"a1", "a2"}
    Tasks = {"k1", "k2"}
    Messages = {"m1", "m2"}
    MaxCalls = 4
    MaxFaults = 1
    MaxStops = 1
    ConfigThread = {"t1", "t2"}
    ConfigRequest <- Patches
    Registry <- Keys
    KnownLevels = {"info", "debug", "error"}
    BaseLayer <- NoLayer
    ProcessLayer <- Process
    MaxConfigSends = 4
    MaxConfigCrashes = 1
    FileThread = {"t1", "t2"}
    FileOperation = {"o1", "o2"}
    FileBody = {"b", "c"}
    MaxFileCalls = 3
    MaxFileFaults = 1
    MaxUserEdits = 1
    MaxFileStops = 1
    SettingsHandler = {"h1", "h2"}
    SettingsUpdate <- Updates
    Provider = {"deepseek", "openai"}
    Env <- BareEnv
    StartConfig <- NoConfig
    StartSecrets <- OldSecrets
    KnownProfile = {"normal"}
    ComputerUse = "wired"
    MaxSettingsSends = 4
    MaxSettingsStops = 1
    Parts = {"config", "config_alone", "text", "files", "files_alone", "send", "draft", "usage", "bundle_tasks", "bundle_rows", "bundle_race", "bundle_values", "page_new", "page_draft", "page_plan", "page_two", "page_legacy", "wb_input", "wb_two", "wb_same", "wb_moved", "wb_commands", "wb_dialog", "settings_one", "settings_two", "host_race", "host_sessions", "host_legacy", "view_one", "view_two"}
INVARIANTS
    ConfigSound
    FilesSound
    SendSound
    
    PageSound
    WorkbenchSound
    SettingsSound
    
    ViewSound
CHECK_DEADLOCK FALSE
