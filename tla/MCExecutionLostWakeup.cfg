CONSTANTS
    t1 = t1
    t2 = t2
    s1 = s1
    cap1 = cap1
    Task = {t1, t2}
    Session = {s1}
    Capability = {cap1}
    Agent = {agent1}
    Ask = {}
    Confirmation = {}
    NoTask = NoTask
    NoAgent = NoAgent
    NoAsk = NoAsk
    NoConfirmation = NoConfirmation
    SessionOf <- MCTwoTasksOneSession
    CapabilityOf <- MCCapabilityOf
    Rank <- MCRank
    Thread = {w1, w2}
    NoThread = NoThread
    NoSession = NoSession
    MaxTicks = 2
    Answer = {yes}
    InvalidAnswer = {}
    AskKey = {}
    NoAnswer = NoAnswer
    NoKey = NoKey
    Handler = {h1}
    MaxSteps = 2
    MaxCommands = 2
    MaxCrashes = 0
SPECIFICATION SystemSpec
PROPERTIES
    StartImmediatelySchedules
