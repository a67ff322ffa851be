SPECIFICATION FairSpec
CONSTANTS
    Limit = 2
    Poll = 2
    KickS = 3
    MaxChanges = 3
    MaxSuspends = 1
INVARIANTS ConsoleFollowsLid InputLights
PROPERTIES InputUnderLidIsForwarded IdleIsEarned WakePressIsDiscarded EventuallyDark
