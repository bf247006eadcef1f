\* One slot: the second message waits in Dispatch while it is already idle.
SPECIFICATION Spec
CONSTANTS
    c1 = c1
    c2 = c2
    Consumers = {c1, c2}
    Stable = {c1, c2}
    N = 2
    MaxInFlight = 1
    BatchSize = 1
    IdleTimeout = 3
    ProcessingTimeout = 2
    MaxFaults = 0
INVARIANTS
    NotClaimableWhileProcessed
