CONSTANTS
    MaxJobs = 3
    MaxFaults = 3
SPECIFICATION Spec
INVARIANTS
    OneFaultLosesNothing
PROPERTIES
    AllOrNothing
CHECK_DEADLOCK FALSE
