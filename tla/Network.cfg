CONSTANTS
    MAXTXDESC = 2
    MAXRXDESC = 3
    Arriving = 4
    NoPacket = 0
    MBOXSLOTS = 2
    NoSem = NoSem
    c1 = c1
    c2 = c2
    Client = {c1, c2}
    To <- ToFirst
    QUEUE_SIZE = 3
    MaxYields = 2
    MaxSent = 3
    MaxLeaks = 1
    Stack = Stack
SPECIFICATION Spec
INVARIANTS NetInv OverflowOnlyBlocked FlushedBeforeBlock ReceivedInOrder SentInOrder SpinIsShort
CHECK_DEADLOCK FALSE
CONSTRAINT Five
