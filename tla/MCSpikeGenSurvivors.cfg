CONSTANTS
    Timeout = 2
    Grace = 1
    ExitCodes <- MCExitCodes
    Running = Running
SPECIFICATION SpikeSpec
INVARIANT NoSurvivorsAfterTimeout
