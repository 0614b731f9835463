--------------------------- MODULE XchgLockProof ---------------------------
(***************************************************************************)
(* The built spin lock, for any set of CPUs: LockInv is inductive as it    *)
(* stands, and gives mutual exclusion, the absence of false panics and the *)
(* step-by-step refinement of the abstract kernel lock.                    *)
(***************************************************************************)
EXTENDS XchgLock, TLAPS

\* The lock is free at boot (__spin_initlock).
LEMMA InitInv == Init => LockInv
  BY NoCPUAssumption DEF Init, LockInv, TypeOK, MutualExclusion, OwnerRecorded,
     NoFalsePanic, Points, Waiting, Inside, Recorded

\* No load, store or xchg of spin_lock or spin_unlock breaks LockInv.
LEMMA NextInv == LockInv /\ [Next]_vars => LockInv'
<1> SUFFICES ASSUME LockInv, [Next]_vars PROVE LockInv'
  OBVIOUS
<1> USE NoCPUAssumption
    DEF LockInv, TypeOK, MutualExclusion, OwnerRecorded, NoFalsePanic,
        Points, Waiting, Inside, Recorded
<1>1. CASE UNCHANGED vars
  BY <1>1 DEF vars
<1>2. ASSUME NEW c \in CPU, CallLock(c) PROVE LockInv'
  BY <1>2 DEF CallLock, Goto
<1>3. ASSUME NEW c \in CPU, LockLoadLocked(c) PROVE LockInv'
  BY <1>3 DEF LockLoadLocked, Goto
<1>4. ASSUME NEW c \in CPU, LockLoadCpu(c) PROVE LockInv'
  BY <1>4 DEF LockLoadCpu, Goto
<1>5. ASSUME NEW c \in CPU, LockXchg(c) PROVE LockInv'
  BY <1>5 DEF LockXchg, Goto
<1>6. ASSUME NEW c \in CPU, StoreCpu(c) PROVE LockInv'
  BY <1>6 DEF StoreCpu, Goto
<1>7. ASSUME NEW c \in CPU, CallUnlock(c) PROVE LockInv'
  BY <1>7 DEF CallUnlock, Goto
<1>8. ASSUME NEW c \in CPU, UnlockLoadLocked(c) PROVE LockInv'
  BY <1>8 DEF UnlockLoadLocked, Goto
<1>9. ASSUME NEW c \in CPU, UnlockLoadCpu(c) PROVE LockInv'
  BY <1>9 DEF UnlockLoadCpu, Goto
<1>10. ASSUME NEW c \in CPU, ClearCpu(c) PROVE LockInv'
  BY <1>10 DEF ClearCpu, Goto
<1>11. ASSUME NEW c \in CPU, UnlockXchg(c) PROVE LockInv'
  BY <1>11 DEF UnlockXchg, Goto
<1>12. QED
  BY <1>1, <1>2, <1>3, <1>4, <1>5, <1>6, <1>7, <1>8, <1>9, <1>10, <1>11
     DEF Next, Step

(* Whatever the interleaving of any number of CPUs, at most one is inside  *)
(* the lock, and the lock word and lock->cpu say who.                      *)
THEOREM LockInvariant == Spec => []LockInv
<1>1. QED
  BY InitInv, NextInv, PTL DEF Spec

(* The assertions of spin_lock and spin_unlock never fail.                 *)
THEOREM HoldingNeverPanics == Spec => []NoFalsePanic
<1>1. LockInv => NoFalsePanic
  BY DEF LockInv
<1>2. QED
  BY <1>1, LockInvariant, PTL

(* Every step of the built lock is a step of the abstract kernel lock or   *)
(* leaves it unchanged.                                                    *)
THEOREM XchgImplementsKernelLock == Spec => ImplementsKernelLock
<1> DEFINE View == [c \in CPU |-> Seen(pc[c])]
<1>1. Init => Abstract!Init
  BY DEF Init, Abstract!Init, Seen, Waiting, Inside
<1>2. LockInv /\ [Next]_vars => [Abstract!Next]_(View)
  <2> SUFFICES ASSUME LockInv, [Next]_vars PROVE [Abstract!Next]_(View)
    OBVIOUS
  <2> USE DEF LockInv, TypeOK, Points, Waiting, Inside, Seen
  <2>1. CASE UNCHANGED vars
    BY <2>1 DEF vars
  <2>2. ASSUME NEW c \in CPU, CallLock(c) PROVE Abstract!Request(c)
    BY <2>2 DEF CallLock, Goto, Abstract!Request
  <2>3. ASSUME NEW c \in CPU, LockXchg(c) PROVE Abstract!Acquire(c)
    <3>1. \A d \in CPU : pc[d] \notin Inside
      BY <2>3 DEF LockXchg, OwnerRecorded
    <3>2. QED
      BY <2>3, <3>1 DEF LockXchg, Goto, Abstract!Acquire
  <2>4. ASSUME NEW c \in CPU, UnlockXchg(c) PROVE Abstract!Release(c)
    BY <2>4 DEF UnlockXchg, Goto, Abstract!Release
  <2>5. ASSUME NEW c \in CPU,
               \/ LockLoadLocked(c) \/ LockLoadCpu(c) \/ StoreCpu(c)
               \/ CallUnlock(c) \/ UnlockLoadLocked(c) \/ UnlockLoadCpu(c)
               \/ ClearCpu(c)
        PROVE  UNCHANGED View
    <3>1. LockInv'
      BY NextInv
    <3>2. pc'[c] # "panic"
      BY <3>1 DEF NoFalsePanic
    <3>3. \/ pc[c] \in Waiting /\ pc'[c] \in Waiting
          \/ pc[c] \in Inside /\ pc'[c] \in Inside
      BY <2>5, <3>2 DEF LockLoadLocked, LockLoadCpu, StoreCpu, CallUnlock,
         UnlockLoadLocked, UnlockLoadCpu, ClearCpu, Goto
    <3>4. \A d \in CPU : d # c => pc'[d] = pc[d]
      BY <2>5 DEF LockLoadLocked, LockLoadCpu, StoreCpu, CallUnlock,
         UnlockLoadLocked, UnlockLoadCpu, ClearCpu, Goto
    <3>5. QED
      BY <3>3, <3>4
  <2>6. QED
    BY <2>1, <2>2, <2>3, <2>4, <2>5 DEF Next, Step, Abstract!Next
<1>3. QED
  BY <1>1, <1>2, LockInvariant, PTL
     DEF Spec, ImplementsKernelLock, Abstract!Spec
=============================================================================
