SPECIFICATION Spec
CONSTANTS
    Host <- MCHost
    Ip <- MCIp
    Resolve <- MCResolve
    LocalIp = 127
    NoIp = 0
    NoColon = NoColon
    DefaultPort = 5
    MaxTrackers = 3
    DirCount = 3
    Configurations <- MCFiles
    MaxStarts = 2
CHECK_DEADLOCK FALSE
INVARIANT RefusedForAReason
