\* The harness ends with its verdict.
CHECK_DEADLOCK FALSE
SPECIFICATION Spec
CONSTANTS
    PropNames = {"model", "reg", "status", "bootargs", "initrd-start", "initrd-end", "odd"}
    Blobs <- AllBlobs
    Cmdlines <- Lines
    CmdlineMax = 3
    Cases <- HarnessCases
    Memmoves = {"right", "up", "down", "wrongWay", "short", "idleAligned", "idleApart", "idleAlignedApart"}
    MaxDamage = 2
INVARIANTS PassMeansPatched PassMeansMoved
