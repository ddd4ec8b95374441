CONSTANTS
    Targets <- MCTargets
    TestLists <- MCDistinctTestLists
    SpikeDenylist <- MCSpikeDenylist
    MaxRetries = 3
    ExitCodes <- MCExitCodes
    Outputs <- MCRegOutputs
    None = None
SPECIFICATION Spec
INVARIANT NoTestAbortsBatch
