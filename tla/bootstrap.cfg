SPECIFICATION FairSpec
CONSTANTS
    Tags <- OneLetter
    MaxRetries = 2
    BackoffLimit = 2
    Troubles = {"request", "hang", "node"}
    MaxTrouble = 2
CHECK_DEADLOCK FALSE
INVARIANT TypeOK
INVARIANT CompletedMeansFormed
INVARIANT JoinsWaitForAll
PROPERTY JobEndsUnlessHung
PROPERTY RetryCompletes
