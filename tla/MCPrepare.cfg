CONSTANTS
    StdLabels <- MCStdLabels
    FileNames <- MCFileNames
    Rv32Names <- MCRv32Names
    DumpNames <- MCDumpNames
    Denylist <- MCDenylist
    Dirs <- MCDirs
    Queries <- MCQueries
    Limits <- MCLimits
    None = None
SPECIFICATION PrepSpec
INVARIANT PrepareTypeOK
INVARIANT CatalogMatchesSpec
INVARIANT DenylistExcluded
INVARIANT TestsFromCatalog
INVARIANT UniqueTests
