CONSTANTS
    NBlk = 4
    NDIRECT = 1
    NINDIRECT = 2
    NDir = 2
    BLKFILES = 2
    Name = {f, g, h}
    NoName = NoName
    Value = {1}
    PartialShrink = FALSE
SPECIFICATION Spec
INVARIANTS CacheInv CrashSafe FlushedSurvives
CHECK_DEADLOCK FALSE
VIEW Reachable
SYMMETRY Names
CONSTRAINTS UntilCrash Four TwoFiles GrownFull
