----------------------------- MODULE KernelLock -----------------------------
(***************************************************************************)
(* What the big kernel lock of kern/spinlock.h promises its callers: a CPU *)
(* that asks for the lock waits, at most one CPU is inside the kernel at a *)
(* time, and a CPU leaves only by unlocking.  Both builds of               *)
(* kern/spinlock.c (XchgLock, TicketLock) are shown to implement it, and   *)
(* the kernel models (EnvSched and the others) take one atomic step per    *)
(* kernel entry on the strength of it.                                     *)
(***************************************************************************)
CONSTANT CPU            \* the CPUs the kernel started

VARIABLE mode           \* where each CPU is, as seen by the lock's users

Init == mode = [c \in CPU |-> "user"]

\* lock_kernel is called (kern/spinlock.h:40-44).
Request(c) == /\ mode[c] = "user"
              /\ mode' = [mode EXCEPT ![c] = "wait"]

\* lock_kernel returns: no other CPU is inside.
Acquire(c) == /\ mode[c] = "wait"
              /\ \A d \in CPU : mode[d] # "kernel"
              /\ mode' = [mode EXCEPT ![c] = "kernel"]

\* unlock_kernel releases (kern/spinlock.h:46-56).
Release(c) == /\ mode[c] = "kernel"
              /\ mode' = [mode EXCEPT ![c] = "user"]

Next == \E c \in CPU : Request(c) \/ Acquire(c) \/ Release(c)

Spec == Init /\ [][Next]_mode
=============================================================================
