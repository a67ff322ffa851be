SPECIFICATION LidAwaySpec
CONSTANTS
    PenDzBare = 2
    PenDzDocked = 2
    ReversedDz = 5
    ReversedDx = 5
    ClosedDz = 2
    BaseZBare = 0
    BaseXBare = 0
    BaseZDocked = 0
    BaselineWindow = 1
    FallbackAfter = 2
    Readings <- OneReading
    MagSamples = 2
    HeartbeatS = 1
    AttachedHeartbeatS = 1
    Failing = {"scan", "node", "read"}
    MaxChanges = 2
    UintRange = 4
INVARIANTS StreamsAreClosed TimeoutGuardsSample NeverSilent
    StaleReportIsPending MissedInputIsPending ReadingsAreThisRounds
PROPERTIES TriggerIsSampled ReportsSafely
