SPECIFICATION FairSpec
CONSTANTS
    N = 2
    Databases = {{1, 2}, {2}}
    PreMaxWait = 3
    PostMaxWait = 2
    PingInterval = 1
    DBInterval = 2
    GraceAfterReady = 1
    MaxSleep = 3
    EmitDelay = 1
    Durations = {0, 5}
    MaxRequest = 1
    ReportLag = 1
    MaxChanges = 1
CHECK_DEADLOCK FALSE
INVARIANT TypeOK
INVARIANT WaitBounded
INVARIANT CancelBounded
PROPERTY PassMeansServing
PROPERTY PhaseEndsUnlessHung
