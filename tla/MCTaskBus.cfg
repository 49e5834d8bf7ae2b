CONSTANTS
    t1 = t1
    t2 = t2
    t3 = t3
    s1 = s1
    s2 = s2
    cap1 = cap1
    cap2 = cap2
    Task = {t1, t2, t3}
    Session = {s1, s2}
    Capability = {cap1, cap2}
    Agent = {agent1}
    Ask = {ask1}
    Confirmation = {conf1}
    NoTask = NoTask
    NoAgent = NoAgent
    NoAsk = NoAsk
    NoConfirmation = NoConfirmation
    SessionOf <- MCSessionOf
    CapabilityOf <- MCCapabilityOf
    Rank <- MCRank
SPECIFICATION BusSpec
INVARIANTS
    WaitingLinkage
    ParentDoneFirst
PROPERTIES
    StopRequestSticks
    BusImplementsLifecycle
