SPECIFICATION Spec
CONSTANTS
    Conn <- MCConn
    Tracker <- MCTracker
    MaxConnections = 2
CHECK_DEADLOCK FALSE
INVARIANT ExitsNormally
