\* Five ids, never given out twice, room for all of them, attached in time.
CONSTANTS
    Ids = {1, 2, 3, 4, 5}
    Root = 1
    Other = 2
    MaxTracked = 5
    IdsAreReused = FALSE
    AttachMayTimeOut = FALSE
SPECIFICATION TPSpec
INVARIANTS
    BuildIsTraced
    OnlyBuildIsTraced
