\* Every trace of up to two lines, and two long ones.
CONSTANTS
    Kind <- MCKind
    Mappings <- MCMappings
    BuildPath <- MCBuildPath
    SiblingNames = {"proj"}
    IgnoredDirs = {"tmp"}
    IgnoredNames = {}
    LoaderFiles <- MCLoaderFiles
    IgnoredExecs <- MCIgnoredExecs
    TempNames = {}
    CMakeDirs = {"CMakeFiles"}
    Traces <- MCTraces
    FilesAtEnd <- MCFiles
    Volatile <- MCVolatile
SPECIFICATION TRSpec
INVARIANTS
    TRTypeOK
    DependenciesAreUsesOutside
    ArtifactsAreWhatWasMade
