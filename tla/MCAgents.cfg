SPECIFICATION Spec
CONSTANTS
    Nothing = Nothing
    Thread = {"t1", "t2"}
    Request <- PlaneRequests
    MaxSends = 3
    MaxCrash = 1
    Actions <- ToolActions
    Risk <- ToolRisk
    Confidence <- ToolConfidence
    Behaviors <- Presets
    User = {"u"}
    MaxResponses = 1
    MaxFailures = 1
    Callers = {"c1", "c2"}
    Models = {"m1", "m2"}
    Faults = {"timeout", "rate", "auth", "capability"}
    Usages <- ChatUsages
    MaxAttempts = 3
    MaxChats = 2
    MaxSaves = 1
    InputThreads = {"th1", "th2"}
    Commands = {"c1", "c2"}
    NumAsks = 1
    InputTasks = {aTask}
    Modes = {"auto", "ask", "guide"}
    MaxRepair = 1
    MaxInputSends = 2
    MaxInputCrashes = 1
    Confirmation = aConfirmation
    ToolCalls <- CollaboratorCalls
    MaxToolCalls = 2
    MaxContextSteps = 1
    HasSource = TRUE
    FileLength = 4
    SnippetChars = 3
    Inquiries <- Questions
    EvidenceIds = {"session", "task", "file1", "secret"}
    HiddenIds = {"secret"}
    Replies <- Sayings
    HelperSets <- Deployments
    MaxCited = 3
    WebIds = {"web1", "web2"}
    Searches <- SearchLists
    MaxChanges = 2
    NoId = NoId
    Parts = {"gate", "collaborator", "chat", "inputs", "resent", "repaired", "key", "keys", "run", "runs", "inquiry"}
INVARIANTS
    AutonomySound
    LoopSound
    ChatSound
    RouterSound
    PlaneSound
    ContextSound
    InquirySound
CHECK_DEADLOCK FALSE
