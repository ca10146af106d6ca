SPECIFICATION ClockSpec
CONSTANTS
    Builds <- MCBuilds
    HSE_STARTUP_TIMEOUT = 4
INVARIANTS
    DeclaredIsActual
    UpdateIsActual
PROPERTIES
    ClockSettles
CHECK_DEADLOCK FALSE
