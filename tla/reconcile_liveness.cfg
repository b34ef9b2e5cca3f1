SPECIFICATION FairSpec
CONSTANTS
    N = 1
    MaxImage = 2
    Access = {"lb"}
    CertSecrets = {"client"}
    ClientSecrets = {"client"}
    LicenseSecret = ""
    RestartThreshold = 1
    Troubles = {"swallowed", "stale", "job"}
    MaxTrouble = 1
CHECK_DEADLOCK FALSE
PROPERTY Settles
