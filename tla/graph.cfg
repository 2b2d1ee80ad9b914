\* Up to four commands of a small project, pruned to every set of artifacts.
CONSTANTS
    Paths <- MCPaths
    Base <- MCBase
    Commands <- MCCommands
    Priority <- MCPriority
    Possible <- MCPossible
    ArtifactSets <- MCArtifactSets
    MaxEdges = 4
SPECIFICATION FairSpec
INVARIANTS
    KeepsWhatIsNeeded
    NodesMatchEdges
PROPERTIES
    Terminates
