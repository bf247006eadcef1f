\* Close is called while the watcher reopens the channel.
SPECIFICATION FairSpec
CONSTANTS
    MaxLosses = 1
PROPERTIES
    CloseEndsConsume
CHECK_DEADLOCK FALSE
