SPECIFICATION FairSpec
CONSTANTS
    MaxInt = 100
    Images <- TwoImages
    FirstImages <- TwoImages
    Fields = {"access"}
    Contents = {}
    MaxEdits = 1
CHECK_DEADLOCK FALSE
PROPERTY SpecReachesNodes
