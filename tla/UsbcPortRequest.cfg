\* Once the driver is removed nothing happens any more.
CHECK_DEADLOCK FALSE
SPECIFICATION Spec
CONSTANTS
    SrcPdos <- Charger
    IlimBase = 1800
    VbusRetries = 2
    MaxRequests = 3
    RecoveryBurst = 1
    PluggedIn = {"none", "sink"}
    FifoSize = 1
    MaxEvents = 3
    MaxFaults = 0
INVARIANT LimitWaitsForAnswer
