\* The connection is lost twice.
SPECIFICATION FairSpec
CONSTANTS
    MaxLosses = 2
PROPERTIES
    ConnectionReconnects
CHECK_DEADLOCK FALSE
