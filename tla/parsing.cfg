\* Every command line of up to five words, and small projects on up to three processes.
CONSTANTS
    Pids = {1, 2, 3}
    Words <- MCWords
    Kind <- MCKind
    Programs <- MCPrograms
    Traces <- MCTraces
    MaxExecs = 2
SPECIFICATION Spec
INVARIANTS
    EdgesAreTheCommands
    TypesFollowUse
PROPERTIES
    ImplementsGraph
