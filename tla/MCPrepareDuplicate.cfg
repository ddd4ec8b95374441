CONSTANTS
    StdLabels <- MCStdLabels
    FileNames <- MCFileNamesOne
    Rv32Names <- MCFileNamesOne
    DumpNames <- MCNoDumps
    Denylist <- MCDenylist
    Dirs <- MCDirsTwo
    Queries <- MCQueries
    Limits <- MCLimits
    None = None
SPECIFICATION PrepSpec
INVARIANT UniqueTests
