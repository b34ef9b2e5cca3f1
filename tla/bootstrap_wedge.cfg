SPECIFICATION FairSpec
CONSTANTS
    N = 1
    MaxImage = 2
    Access = {"none"}
    CertSecrets = {"client"}
    ClientSecrets = {"client"}
    LicenseSecret = ""
    RestartThreshold = 1
    Troubles = {}
    MaxTrouble = 0
CHECK_DEADLOCK FALSE
PROPERTY MatchesSpec
