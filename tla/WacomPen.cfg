\* A removed driver does nothing once the pen has come to rest.
CHECK_DEADLOCK FALSE
SPECIFICATION FairSpec
CONSTANTS
    MaxMoves = 3
    MaxFaults = 2
    MaxSleeps = 2
    MaxOthers = 2
INVARIANTS NoToolInSleep ToolIsReleased
PROPERTY PenIsFollowed
