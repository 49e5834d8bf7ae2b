SPECIFICATION Spec
CONSTANTS
    Nobody = Nobody
    apiKey = apiKey
    a = a
    b = b
    Parts = {"nodes", "keys", "api", "daily", "planning", "legacy", "revision"}
    Task <- PlanTasks
    Session = {"s"}
    Capability = {"cap"}
    Agent = {"agent"}
    Ask = {"ask"}
    Confirmation = {}
    NoTask = "none"
    NoAgent = "none"
    NoAsk = "none"
    NoConfirmation = "none"
    SessionOf <- PlanSessions
    CapabilityOf <- PlanCapabilities
    Rank <- PlanRanks
    PlanNode <- PlanNodes
    PlanKey = {"k1", "k2"}
    PlanTaskId <- PlanTaskIds
    Publisher = {"p1", "p2"}
    Archiver = {"a"}
    Worker = "worker"
    Recoverer = "recoverer"
    NoPlanKey = "none"
    NoNode = "none"
    MaxPublishes = 2
    MaxUserCommands = 1
    MaxCrashes = 1
    Handler = {"h1", "h2"}
    Scheduler = "scheduler"
    Key = {apiKey}
    Tree = {a, b}
    TreeNode = {"x", "y", "z"}
    NodesOf <- Trees
    ScheduledNodes <- DailyNodes
    Pipeline <- RunTimes
    PipelineNode = "pipeline"
    ScheduleKind = "daily"
    Every = 2
    TimeOfDay = 1
    MaxTime = 4
    MaxRequests = 4
    MaxPublisherCrashes = 2
    RevThread = {"t1", "t2"}
    RevPublisher = {"b1"}
    RevCommand <- RevisionCommands
    Routed = TRUE
    MaxRevSends = 2
    MaxRevPublish = 1
    MaxRevCrash = 1
CHECK_DEADLOCK FALSE
INVARIANTS
    PlanSound
    PublishSound
    AuthoringSound
    ContractSound
PROPERTIES
    PlanHistoryKept
