\* Two single-threaded processes.
CONSTANTS
    Pids = {"p", "q"}
    Threads = {1, 2}
    Process <- OneThreadEach
    Names <- PlainNames
    Dirs <- AllDirs
    StartDirs <- OneDir
    Programs <- PlainPrograms
    MaxParts = 2
    MaxArgs = 2
SPECIFICATION Spec
INVARIANTS
    TraceIsTruth
