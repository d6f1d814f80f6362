CONSTANTS
    r1 = r1
    r2 = r2
    Runs <- MCTwoRuns
    HistoryLimit = 1
    MaxSteps = 1
    MaxCalls = 3
    NoRun = NoRun
SPECIFICATION Spec
PROPERTIES
    CancelledStaysInHistory
CHECK_DEADLOCK FALSE
