SPECIFICATION Spec
CONSTANTS
    Builds <- MCBuilds
    HSE_STARTUP_TIMEOUT = 2
    MaxErrors = 2
INVARIANTS
    PreparedForInterrupt
    MacPinsConfigured
PROPERTIES
    SchedulerStarts
    TcpipThreadRuns
    RngReturns
