SPECIFICATION Spec
CONSTANTS
    Builds <- MCBuilt
    HSE_STARTUP_TIMEOUT = 2
    MaxErrors = 1
PROPERTIES
    NegotiatedBeforeStart
CHECK_DEADLOCK FALSE
