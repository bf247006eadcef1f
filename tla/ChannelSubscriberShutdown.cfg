\* One message more than the retry channel holds (MaxInFlight + 2).
SPECIFICATION FairSpec
CONSTANTS
    m1 = m1
    m2 = m2
    m3 = m3
    Nil = Nil
    Messages <- ThreeMessages
    MaxInFlight = 1
    InputCap = 2
    MaxAttempts = 1
PROPERTIES
    ShutdownCompletes
CHECK_DEADLOCK FALSE
