CHECK_DEADLOCK FALSE
SPECIFICATION Spec
CONSTANT MaxEdges = 3
PROPERTY WatchdogEndsItsOwnSession
