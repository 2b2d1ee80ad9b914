\* Three files on two threads, on machines of every kind; reading the package
\* database may fail in any task, any number of times.
CONSTANTS
    NumFiles = 3
    Capacity = 2
    Paths <- MCPaths
    Queries <- MCQueries
    Names <- MCNames
    NoQuery = NoQuery
    Free = free
    LoadMayFail = TRUE
    Worlds <- MCWorlds
SPECIFICATION FairSpec
INVARIANTS
    OneDatabase
    RecordComplete
    OwnVersion
PROPERTIES
    AllProcessed
