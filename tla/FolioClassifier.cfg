SPECIFICATION Spec
CONSTANTS
    PenDzBare = 4
    PenDzDocked = 5
    ReversedDz = 1
    ReversedDx = 2
    ClosedDz = 3
    BaseZBare = 5
    BaseXBare = 8
    BaseZDocked <- ScaledZDocked
    BaselineWindow = 6
    FallbackAfter = 3
    Inputs <- MCInputs
INVARIANTS BaselinesNearSeeds ClosedLidHasMagnet
PROPERTY ReversedNeedsTwoReadings
