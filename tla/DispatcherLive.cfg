\* A broker that refuses nothing, so that what becomes of a message depends on
\* its handler alone; liveness.
SPECIFICATION GoogleFairSpec
CONSTANTS
    d1 = d1
    d2 = d2
    d3 = d3
    Deliveries <- MCDeliveries
    MaxInFlight = 2
    HasTimeout = TRUE
    AckMayFail = FALSE
    CallbackMayPanic = FALSE
INVARIANTS
    AckedIffSucceeded
    ShutdownKeepsHandlers
PROPERTIES
    ShutdownCompletes
    DispatchProgresses
