------------------------------ MODULE XchgLock ------------------------------
(***************************************************************************)
(* kern/spinlock.c as it is built: USE_TICKET_SPIN_LOCK is commented out   *)
(* in kern/spinlock.h:9 and DEBUG_SPINLOCK is on.  Every load, store and   *)
(* xchg of the lock word and of lock->cpu is a step of its own, because    *)
(* holding() reads both without owning the lock.                           *)
(***************************************************************************)
EXTENDS Integers

CONSTANTS CPU,          \* the CPUs the kernel started
          NoCPU         \* the null pointer that lock->cpu starts with

ASSUME NoCPUAssumption == NoCPU \notin CPU

VARIABLES locked,       \* lock->locked
          lockcpu,      \* lock->cpu
          pc            \* the point of spin_lock/spin_unlock each CPU is at

vars == <<locked, lockcpu, pc>>

\* Inside spin_lock, before the xchg that takes the lock.
Waiting == {"lock_ld_locked", "lock_ld_cpu", "lock_xchg"}
\* From that xchg to the xchg that gives the lock back.
Inside  == {"st_cpu", "kernel", "unlock_ld_locked", "unlock_ld_cpu",
            "clear_cpu", "unlock_xchg"}
\* The points where the owner has recorded itself and not yet cleared it.
Recorded == {"kernel", "unlock_ld_locked", "unlock_ld_cpu", "clear_cpu"}
Points  == {"user", "panic"} \cup Waiting \cup Inside

TypeOK == /\ locked \in {0, 1}
          /\ lockcpu \in CPU \cup {NoCPU}
          /\ pc \in [CPU -> Points]

\* __spin_initlock (kern/spinlock.c:65-81).
Init == /\ locked = 0
        /\ lockcpu = NoCPU
        /\ pc = [c \in CPU |-> "user"]

Goto(c, from, to) == /\ pc[c] = from
                     /\ pc' = [pc EXCEPT ![c] = to]

\* A trap from user mode, or the first entry of a CPU, calls lock_kernel.
CallLock(c) == /\ Goto(c, "user", "lock_ld_locked")
               /\ UNCHANGED <<locked, lockcpu>>

\* holding(): lock->locked is read first, and lock->cpu only if it was set.
LockLoadLocked(c) ==
  /\ Goto(c, "lock_ld_locked", IF locked # 0 THEN "lock_ld_cpu" ELSE "lock_xchg")
  /\ UNCHANGED <<locked, lockcpu>>

LockLoadCpu(c) ==
  /\ Goto(c, "lock_ld_cpu", IF lockcpu = c THEN "panic" ELSE "lock_xchg")
  /\ UNCHANGED <<locked, lockcpu>>

\* Mutant: the lock word is tested and then set, without the atomic exchange.
LockXchgUntested(c) == /\ Goto(c, "lock_xchg", "st_cpu")
                       /\ locked' = 1
                       /\ UNCHANGED lockcpu

\* while (xchg(&lk->locked, 1) != 0): an xchg that finds 1 changes nothing.
LockXchg(c) == /\ locked = 0
               /\ Goto(c, "lock_xchg", "st_cpu")
               /\ locked' = 1
               /\ UNCHANGED lockcpu

StoreCpu(c) == /\ Goto(c, "st_cpu", "kernel")
               /\ lockcpu' = c
               /\ UNCHANGED locked

\* The kernel is about to return to user mode and calls unlock_kernel.
CallUnlock(c) == /\ Goto(c, "kernel", "unlock_ld_locked")
                 /\ UNCHANGED <<locked, lockcpu>>

UnlockLoadLocked(c) ==
  /\ Goto(c, "unlock_ld_locked", IF locked # 0 THEN "unlock_ld_cpu" ELSE "panic")
  /\ UNCHANGED <<locked, lockcpu>>

UnlockLoadCpu(c) ==
  /\ Goto(c, "unlock_ld_cpu", IF lockcpu = c THEN "clear_cpu" ELSE "panic")
  /\ UNCHANGED <<locked, lockcpu>>

\* Mutant: lock->cpu still names the last owner after the lock is released.
ClearCpuForgotten(c) == /\ Goto(c, "clear_cpu", "unlock_xchg")
                        /\ UNCHANGED <<locked, lockcpu>>

\* Mutant: the lock word is released before lock->cpu is cleared.
ClearCpuReleases(c) == /\ Goto(c, "clear_cpu", "unlock_xchg")
                       /\ lockcpu' = NoCPU
                       /\ locked' = 0

ClearCpu(c) == /\ Goto(c, "clear_cpu", "unlock_xchg")
               /\ lockcpu' = NoCPU
               /\ UNCHANGED locked

\* Mutant: a path out of the kernel that never releases the lock word.
UnlockXchgSkipped(c) == /\ Goto(c, "unlock_xchg", "user")
                        /\ UNCHANGED <<locked, lockcpu>>

UnlockXchg(c) == /\ Goto(c, "unlock_xchg", "user")
                 /\ locked' = 0
                 /\ UNCHANGED lockcpu

\* The steps a CPU takes by itself once it is in the lock or in the kernel.
Step(c) == \/ LockLoadLocked(c) \/ LockLoadCpu(c) \/ LockXchg(c) \/ StoreCpu(c)
           \/ CallUnlock(c) \/ UnlockLoadLocked(c) \/ UnlockLoadCpu(c)
           \/ ClearCpu(c) \/ UnlockXchg(c)

Next == \E c \in CPU : CallLock(c) \/ Step(c)

Spec == Init /\ [][Next]_vars

\* Every CPU keeps executing inside the kernel; nothing makes it enter.
FairSpec == Spec /\ \A c \in CPU : WF_vars(Step(c))

-----------------------------------------------------------------------------
\* At most one CPU is between the xchg that takes the big lock and the xchg
\* that releases it.
MutualExclusion ==
  \A c, d \in CPU : pc[c] \in Inside /\ pc[d] \in Inside => c = d

\* The lock word is set exactly while some CPU is inside, and lock->cpu names
\* a CPU exactly between that CPU's store and its clear.
OwnerRecorded ==
  /\ locked = 1 <=> \E c \in CPU : pc[c] \in Inside
  /\ \A c \in CPU : lockcpu = c <=> pc[c] \in Recorded

(* The unsynchronised reads of holding() never make spin_lock or           *)
(* spin_unlock panic: a CPU that waits never finds itself recorded as the  *)
(* owner, and the owner always does, whatever other CPUs write in between. *)
NoFalsePanic == \A c \in CPU : pc[c] # "panic"

(* At most one CPU is inside the lock, and the lock word and the owner     *)
(* recorded for debugging agree with who that is at every load and store   *)
(* of spin_lock and spin_unlock.                                           *)
LockInv == TypeOK /\ MutualExclusion /\ OwnerRecorded /\ NoFalsePanic

(* Whenever CPUs spin in spin_lock, one of them gets in (not a given one:  *)
(* the xchg loop keeps no order among the waiters).                        *)
SomeWaiterEnters ==
  (\E c \in CPU : pc[c] = "lock_xchg") ~> (\E c \in CPU : pc[c] = "kernel")

\* What the caller of spin_lock and spin_unlock sees of a program point.
Seen(p) == IF p \in Waiting THEN "wait" ELSE IF p \in Inside THEN "kernel" ELSE p

Abstract == INSTANCE KernelLock WITH mode <- [c \in CPU |-> Seen(pc[c])]

(* spin_lock and spin_unlock, interleaved in any way, only ever do what    *)
(* the abstract lock does.                                                 *)
ImplementsKernelLock == Abstract!Spec
=============================================================================
