CONSTANTS
    r1 = r1
    r2 = r2
    Runs <- MCTwoRuns
    HistoryLimit = 1
    MaxSteps = 2
    MaxCalls = 2
    NoRun = NoRun
SPECIFICATION FairSpec
INVARIANTS
    PositionsOrdered
    ShownRunningIsActive
PROPERTIES
    ImplementsRunQueue
    PruneKeepsYoungest
    StopSticks
    StopFreesQueue
    EveryRunGetsItsTurn
CHECK_DEADLOCK FALSE
