SPECIFICATION Spec
CONSTANTS
    N = 2
    MaxImage = 3
    Databases = {{1, 2}}
    MaxLag = 1
    ShortLag = TRUE
    Troubles = {"crash", "node"}
    MaxTrouble = 1
PROPERTY NoRollback
