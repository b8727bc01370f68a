SPECIFICATION LiveSpec
CONSTANTS
    g1 = g1
    g2 = g2
    j1 = j1
    None = None
    Attempts = {g1, g2}
    Jobs = {j1}
    JobOf <- Twice
    Private = {g1, g2}
    Conns = {1, 2, 3}
CHECK_DEADLOCK FALSE
INVARIANTS
    AnswerIsOwn
    OneInFlight
    PendingExact
    NotSentIsTruthful
PROPERTIES
    AttemptsReturn
    ReadersGoOn
