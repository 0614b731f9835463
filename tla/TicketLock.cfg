SPECIFICATION FairSpec
CONSTANTS
  CPU = {c1, c2, c3}
  NoCPU = NoCPU
  TicketModulus = 4
INVARIANTS TicketInv
PROPERTIES ImplementsFifoLock EveryWaiterEnters
