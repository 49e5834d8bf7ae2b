CONSTANTS
    t1 = t1
    t2 = t2
    s1 = s1
    cap1 = cap1
    Task = {t1}
    Session = {s1}
    Capability = {cap1}
    Agent = {agent1}
    Ask = {a1}
    Confirmation = {c1}
    NoTask = NoTask
    NoAgent = NoAgent
    NoAsk = NoAsk
    NoConfirmation = NoConfirmation
    SessionOf <- MCOneTask
    CapabilityOf <- MCCapabilityOf
    Rank <- MCRank
    Thread = {w1, w2}
    NoThread = NoThread
    NoSession = NoSession
    MaxTicks = 2
    Answer = {yes}
    InvalidAnswer = {}
    AskKey = {}
    NoAnswer = NoAnswer
    NoKey = NoKey
    Handler = {h1, h2}
    MaxSteps = 2
    MaxCommands = 4
    MaxCrashes = 1
SPECIFICATION SystemSafety
INVARIANTS
    RunningHasRunner
    WaitIsBacked
PROPERTIES
    ResumedOnlyByReply
SYMMETRY Symmetry
