CONSTANTS
    MaxRetries = 3
    ExitCodes <- MCExitCodes
    Outputs <- MCOutputs
SPECIFICATION UvmSpec
INVARIANT UvmTypeOK
INVARIANT RetryPolicy
PROPERTY CallReturns
