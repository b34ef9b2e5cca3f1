SPECIFICATION NoticedSpec
CONSTANTS
    N = 2
    MaxImage = 2
    Databases = {{1, 2}}
    MaxLag = 0
    ShortLag = FALSE
    Troubles = {}
    MaxTrouble = 0
INVARIANT DatabasesStayOnline
