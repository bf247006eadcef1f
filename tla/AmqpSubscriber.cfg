\* The connection or the channel is lost once, and Receive may be stopped for two
\* reasons; what is delivered again waits for the slot of what was delivered before.
SPECIFICATION SubscriberFairSpec
CONSTANTS
    MaxLosses = 1
    N = 1
    MaxInFlight = 1
    MaxStops = 2
INVARIANTS
    DeliveryTypeOK
    FailsOnlyWhenStopped
    LeavesOnlyAfterSuccess
PROPERTIES
    SucceededIsNotRedelivered
    ShutdownCompletes
    ConsumeEnds
    HandledUnlessLossMissed
CHECK_DEADLOCK FALSE
