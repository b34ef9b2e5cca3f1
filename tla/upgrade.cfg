SPECIFICATION FairSpec
CONSTANTS
    N = 2
    MaxImage = 3
    Databases = {{1, 2}}
    MaxLag = 0
    ShortLag = FALSE
    Troubles = {"api", "crash", "node"}
    MaxTrouble = 1
INVARIANT TypeOK
INVARIANT AtMostOneInFlight
PROPERTY NoRollback
PROPERTY UpgradesInSpecOrder
PROPERTY UpgradesNodeByNode
PROPERTY Converges
