SPECIFICATION Spec
CONSTANTS
    N = 2
    MaxImage = 1
    Access = {"ingress"}
    CertSecrets = {"client"}
    ClientSecrets = {"client"}
    LicenseSecret = ""
    RestartThreshold = 1
    Troubles = {"api", "swallowed", "stale", "crash", "pod", "secret"}
    MaxTrouble = 1
CHECK_DEADLOCK FALSE
INVARIANT TypeOK
INVARIANT StatusIsAccurate
INVARIANT RunningMeansFormed
