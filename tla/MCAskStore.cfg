CONSTANTS
    t1 = t1
    t2 = t2
    s1 = s1
    s2 = s2
    Ask = {a1, a2}
    Task = {t1, t2}
    Session = {s1, s2}
    SessionOf <- MCSessionOf
    Answer = {good, bad}
    InvalidAnswer = {bad}
    AskKey = {k1}
    NoTask = NoTask
    NoAsk = NoAsk
    NoAnswer = NoAnswer
    NoKey = NoKey
SPECIFICATION AskSpec
INVARIANTS
    ReplayedSuccessIsTrue
    KeyMovesOneAsk
PROPERTIES
    SettledAskIsFinal
