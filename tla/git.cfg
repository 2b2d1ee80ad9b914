\* Two builds in /tmp, one after the other; either may be killed, clones may fail.
CONSTANTS
    Runs = {"first", "second"}
    Logs = {"/tmp"}
    LogPath <- MCLogPath
    Clones = {1, 2, 3}
    RunOf <- MCRunOf
    Args <- PlainArgs
    Repo <- MCRepo
    Shallow = {}
    Repos = {"A", "B"}
    MaxCommit = 2
    MaxVain = 1
    MayOverlap = FALSE
SPECIFICATION GCSpec
CHECK_DEADLOCK FALSE
INVARIANTS
    RecordsOwnClones
    SameSources
