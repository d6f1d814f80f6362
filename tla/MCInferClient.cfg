CONSTANTS
    j1 = j1
    j2 = j2
    Jobs <- MCTwoJobs
    Types <- MCTypes
    HardTypes <- MCHardTypes
    NumWorkers = 4
    Mishaps = {"crash", "freeze", "toggle", "release", "expiry", "quiet"}
    MaxMishaps = 1
    NoJob = NoJob
SPECIFICATION FairSpec
INVARIANTS
    NoJobLost
    OneTool
    OneWorkerUnlessCrash
    AnsweredOnce
    AnswerIsOwn
    NeverRejected
PROPERTIES
    EveryJobAnswered
CHECK_DEADLOCK FALSE
