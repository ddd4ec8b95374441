CONSTANTS
    Targets <- MCTargets
    TestLists <- MCTestLists
    SpikeDenylist <- MCSpikeDenylist
    MaxRetries = 3
    ExitCodes <- MCExitCodes
    Outputs <- MCRegOutputs
    None = None
SPECIFICATION Spec
INVARIANT TypeOK
INVARIANT CosimTraceFresh
INVARIANT ReportFollowsTests
INVARIANT SuggestionComplete
PROPERTY Terminates
