SPECIFICATION FairSpec
CONSTANTS
  CPU = {c1, c2, c3}
  NoCPU = NoCPU
INVARIANTS LockInv
PROPERTIES ImplementsKernelLock SomeWaiterEnters
