SPECIFICATION Spec
CONSTANTS
    Callers = {c1, c2}
    MaxCalls = 2
    MaxLives = 1
    QuiesceBeforeFini = TRUE
CHECK_DEADLOCK FALSE
INVARIANTS TrueMeansFresh CompletedOnce NoLostWakeup PointersCleared
PROPERTY HandlerReturns
