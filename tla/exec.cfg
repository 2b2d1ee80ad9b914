\* Two calls among three reprobuilds in each other, the last of which has a flag too many.
CONSTANTS
    Depth = 3
    Paths <- MCPaths
    Base <- MCBase
    Installed <- MCInstalled
    Bare = {"gcc", "git"}
    Wrappers <- MCWrappers
    Arguments <- MCArguments
    MaxFlags = 5
    MaxCalls = 2
SPECIFICATION Spec
INVARIANTS
    TypeOK
    ArgsKept
    EveryLevelsFlags
    ClonesLoggedOnce
