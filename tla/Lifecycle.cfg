SPECIFICATION Spec
CONSTANTS
    Attempts = 2
    MaxJobs = 2
    MaxFaults = 2
INVARIANTS
    TypeOK
    FailsOnlyByFault
    RunningWhole
    AnnouncedServed
PROPERTIES
    StopReturns
    NothingLeft
CHECK_DEADLOCK FALSE
