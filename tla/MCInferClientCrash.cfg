CONSTANTS
    j1 = j1
    j2 = j2
    Jobs <- MCTwoJobs
    Types <- MCTypes
    HardTypes <- MCHardTypes
    NumWorkers = 4
    Mishaps = {"crash"}
    MaxMishaps = 1
    NoJob = NoJob
SPECIFICATION Spec
INVARIANTS
    OneWorker
CHECK_DEADLOCK FALSE
