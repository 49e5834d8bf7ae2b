CONSTANTS
    Session = {s1, s2}
    Thread = {w1, w2}
    NoThread = NoThread
    NoSession = NoSession
    MaxTicks = 2
SPECIFICATION DispatcherSpec
PROPERTIES
    QueuedSessionServed
