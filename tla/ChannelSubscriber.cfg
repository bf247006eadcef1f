\* Two handlers may run at a time; every message may be nacked once.
SPECIFICATION FairSpec
CONSTANTS
    m1 = m1
    m2 = m2
    m3 = m3
    Nil = Nil
    Messages <- TwoMessages
    MaxInFlight = 2
    InputCap = 2
    MaxAttempts = 2
INVARIANTS
    TypeOK
    InOnePlace
    DrainedAll
PROPERTIES
    StopCompletes
    ImplementsDispatcher
