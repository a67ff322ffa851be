\* Once the keyboard is off or the driver is removed nothing happens any more.
CHECK_DEADLOCK FALSE
SPECIFICATION FairSpec
CONSTANT MaxEdges = 3
INVARIANTS NothingWithoutPower ConnIsFollowed RemovedIsQuiet
PROPERTIES SessionsInOrder UnusedKeyboardPowersOff
