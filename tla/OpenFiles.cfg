CONSTANTS
    Client = {1, 2}
    Root = 1
    File = {f, g}
    MAXFD = 2
    MAXOPEN = 2
    Ids = 1000000
    NoFile = NoFile
SPECIFICATION Spec
INVARIANTS HandshakeInv HeldStaysOpen PrivateNeverAnother
CHECK_DEADLOCK FALSE
VIEW NoAge
SYMMETRY Files
