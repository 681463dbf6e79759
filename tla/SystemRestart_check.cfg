SPECIFICATION FairSpec
CONSTANTS
    NumModules = 2
    NumThreads = 2
    Owner <- MCOwner
    Housekeepers = {1}
    Readers = {1}
    Reasons = {1, 2}
    MaxRequests = 1
    MaxTraps = 1
    MaxLate = 1
    MaxLosses = 1
INVARIANTS
    ThreadsHaveModules
    NoNeedlessRestart
PROPERTIES
    Escalates
    RequestsAreServed
    EventuallyInService
