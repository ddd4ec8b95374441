CONSTANTS
    StdLabels <- MCStdLabels
    FileNames <- MCFileNames
    Rv32Names <- MCRv32Names
    DumpNames <- MCDumpNames
    Denylist <- MCDenylist
    Dirs <- MCDirs
    Queries <- MCQueries
    Limits <- MCLimitsZero
    None = None
SPECIFICATION PrepSpec
INVARIANT CatalogMatchesSpec
