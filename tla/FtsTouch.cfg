\* A removed driver does nothing once the glass has come to rest.
CHECK_DEADLOCK FALSE
SPECIFICATION FairSpec
CONSTANTS
    Fingers = {f1, f2}
    FifoSize = 3
    Batch = 2
    MaxTouches = 6
    MaxFaults = 3
    MaxSleeps = 3
INVARIANTS InterruptHasPower StuckFingerHasCause
PROPERTY FingersAreShown
