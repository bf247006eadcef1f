\* Two consumers, one of which may stop or crash; as many slots as messages, so
\* Dispatch never waits for one.
SPECIFICATION FairSpec
CONSTANTS
    c1 = c1
    c2 = c2
    Consumers = {c1, c2}
    Stable = {c2}
    N = 2
    MaxInFlight = 2
    BatchSize = 1
    IdleTimeout = 2
    ProcessingTimeout = 1
    MaxFaults = 2
INVARIANTS
    TypeOK
    NotClaimableWhileProcessed
    LeavesOnlyAfterSuccess
    ReadsEachOnce
PROPERTIES
    ShutdownCompletes
    EventuallyAcked
