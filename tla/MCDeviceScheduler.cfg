CONSTANTS
    h1 = h1
    h2 = h2
    h3 = h3
    l1 = l1
    l2 = l2
    gpu0 = gpu0
    gpu1 = gpu1
    NoDevice = NoDevice
    Callers <- MCCallers
    Heavy <- MCHeavy
    HeavyDevices <- MCTwoDevices
    LightSlots = 0
SPECIFICATION SchedulerSpec
INVARIANTS
    ExclusiveIfDistinct
    SlotsAccounted
PROPERTY ImplementsAdmission
