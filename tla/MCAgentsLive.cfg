SPECIFICATION FairSpec
CONSTANTS
    Nothing = Nothing
    Thread = {"t1", "t2"}
    Request <- PlaneRequests
    MaxSends = 3
    MaxCrash = 1
    Actions <- ToolActions
    Risk <- ToolRisk
    Confidence <- ToolConfidence
    Behaviors <- Presets
    User = {"u"}
    MaxResponses = 1
    MaxFailures = 1
    Callers = {"c1", "c2"}
    Models = {"m1", "m2"}
    Faults = {"timeout", "rate", "auth", "capability"}
    Usages <- ChatUsages
    MaxAttempts = 3
    MaxChats = 2
    MaxSaves = 1
    InputThreads = {"th1"}
    Commands = {"c1"}
    NumAsks = 1
    InputTasks = {}
    Modes = {"auto"}
    MaxRepair = 1
    MaxInputSends = 2
    MaxInputCrashes = 1
    Confirmation = aConfirmation
    ToolCalls <- CollaboratorCalls
    MaxToolCalls = 2
    MaxContextSteps = 1
    HasSource = TRUE
    FileLength = 4
    SnippetChars = 3
    Inquiries <- Questions
    EvidenceIds = {"session", "task", "file1", "secret"}
    HiddenIds = {"secret"}
    Replies <- Sayings
    HelperSets <- Deployments
    MaxCited = 3
    WebIds = {"web1", "web2"}
    Searches <- SearchLists
    MaxChanges = 2
    NoId = NoId
    Parts = {"gate", "repaired", "keys", "again"}
PROPERTIES
    NoLostWakeup
    InputAnswered
    
CHECK_DEADLOCK FALSE
