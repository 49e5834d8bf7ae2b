CONSTANTS
    Session = {s1, s2, s3}
    Thread = {w1, w2, w3}
    NoThread = NoThread
    NoSession = NoSession
    MaxTicks = 2
SPECIFICATION DispatcherSpec
INVARIANTS
    OneLiveWorker
    NoParkedWithWork
PROPERTIES
    QueuedSessionDrained
