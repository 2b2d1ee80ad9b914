\* Two builds in each of many small trees, either of which may be killed.
CONSTANTS
    Tokens = {"$(", "(", ")", " ", "| sort", "sort", "wildcard", "shell", "filter", "ls",
              "lsof", "x"}
    LsWords = {"ls", "lsof"}
    Dirs = {"top", "sub"}
    CurrentDir = "top"
    Projects <- MCProjects
    Commands <- MCCommands
    ReadOnly <- MCReadOnly
    Absent = Absent
    MaxBuilds = 2
SPECIFICATION Spec
INVARIANTS
    TypeOK
    NothingElseChanges
    Settled
    WholeOrTorn
    MakeReadsSorted
