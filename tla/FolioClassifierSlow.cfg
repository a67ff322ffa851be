SPECIFICATION Spec
CONSTANTS
    PenDzBare = 112
    PenDzDocked = 130
    ReversedDz = 25
    ReversedDx = 40
    ClosedDz = 85
    BaseZBare = 133
    BaseXBare = 206
    BaseZDocked <- TableZDocked
    BaselineWindow = 150
    FallbackAfter = 3
    Inputs <- MCSlowCloseInputs
INVARIANT ClosedReadingReadsClosed
