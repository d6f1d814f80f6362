CONSTANTS
    gpu0 = gpu0
    gpu1 = gpu1
    MaxNode = 3
    NoDevice = NoDevice
    Callers <- MCNodes
    Heavy <- MCHeavy
    HeavyDevices <- MCOneDevice
    LightSlots = 4
    Graphs <- MCAllGraphs
    Batched <- MCBatched
    ListLength = 2
    RetryLimit = 1
    NoNode = NoNode
SPECIFICATION FairSpec
INVARIANTS
    InputsComplete
    NeverStuck
    QuietBetweenWaves
    BlamesTheRightNode
PROPERTIES
    StopsOthers
    ImplementsPlan
    RunEnds
CHECK_DEADLOCK FALSE
