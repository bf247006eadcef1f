\* Every broker, option, metadata and payload; the message is published at most twice.
SPECIFICATION Spec
CONSTANTS
    MaxAttempts = 2
INVARIANTS
    RouteSurvives
    PublishedIsHandled
    StillPublishable
