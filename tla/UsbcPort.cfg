\* Once the driver is removed nothing happens any more.
CHECK_DEADLOCK FALSE
SPECIFICATION FairSpec
CONSTANTS
    SrcPdos <- Charger
    IlimBase = 1800
    VbusRetries = 2
    MaxRequests = 2
    RecoveryBurst = 1
    PluggedIn = {"none", "sink"}
    FifoSize = 1
    MaxEvents = 3
    MaxFaults = 1
INVARIANTS VbusFollowsPort LimitFitsContract RequestIsCovered
    HeldPortIsSafe ResetIsNoticed RemovedIsQuiet
PROPERTY PortSettles
