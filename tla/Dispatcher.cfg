\* Three deliveries, two slots, a processing timeout; a broker that refuses calls
\* and callbacks that panic.
SPECIFICATION Spec
CONSTANTS
    d1 = d1
    d2 = d2
    d3 = d3
    Deliveries <- MCDeliveries
    MaxInFlight = 2
    HasTimeout = TRUE
    AckMayFail = TRUE
    CallbackMayPanic = TRUE
SYMMETRY Symmetry
INVARIANTS
    TypeOK
    InFlightBounded
    SettledOnce
    ReturnedIsQuiet
PROPERTIES
    ImplementsSubscriber
