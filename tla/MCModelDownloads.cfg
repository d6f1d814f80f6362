CONSTANTS
    esrgan = esrgan
    flux = flux
    NoModel = NoModel
    Models <- MCModels
    InPlace <- MCInPlace
    Seedable <- MCSeedable
    MaxJobs = 2
    MaxStarts = 2
    MaxRemovals = 1
    HistoryLimit = 1
    Drains = TRUE
SPECIFICATION FairSpec
INVARIANTS
    PartialsTracked
    CleanWhenIdle
    InstalledIsComplete
    CancelHasCause
    HonestCompletion
    AnsweredOnce
PROPERTIES
    EveryJobAnswered
CHECK_DEADLOCK FALSE
