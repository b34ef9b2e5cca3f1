SPECIFICATION Spec
CONSTANTS
    N = 2
    MaxImage = 2
    Databases = {{1, 2}}
    MaxLag = 0
    ShortLag = FALSE
    Troubles = {}
    MaxTrouble = 0
PROPERTY ResumesFromSameNode
