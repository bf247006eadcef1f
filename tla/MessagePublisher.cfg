\* Three publishes over two destinations race with two calls of Close.
SPECIFICATION FairSpec
CONSTANTS
    c1 = c1
    c2 = c2
    c3 = c3
    k1 = k1
    k2 = k2
    x = x
    y = y
    None = None
    Calls = {c1, c2, c3}
    Closers = {k1, k2}
    Destinations = {x, y}
INVARIANTS
    TypeOK
    OnePublisherPerDestination
    ClosedExactlyOnce
    NoPublishAfterClose
PROPERTIES
    CallsReturn
    ImplementsPool
