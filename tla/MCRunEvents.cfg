CONSTANTS
    first = first
    second = second
    Runs <- MCRuns
    NoRun = NoRun
    Outcomes = {"failed", "cancelled"}
    Capacity = 2
    MaxTurns = 1
SPECIFICATION Spec
INVARIANTS
    NewestKept
    TruthfulEnd
    RightAtRest
CHECK_DEADLOCK FALSE
