\* Two files that no package owns have the same base name.
CONSTANTS
    NumFiles = 3
    Capacity = 2
    Paths <- MCPaths
    Queries <- MCQueries
    Names <- MCNames
    NoQuery = NoQuery
    Free = free
    LoadMayFail = FALSE
    Worlds <- MCWorlds
SPECIFICATION Spec
INVARIANTS
    CustomFilesKept
