------------------------------ MODULE FifoLock ------------------------------
(***************************************************************************)
(* What the ticket build of kern/spinlock.c promises beyond KernelLock:    *)
(* CPUs get the lock in the order in which they took their tickets.        *)
(***************************************************************************)
EXTENDS Sequences, Naturals

CONSTANT CPU

VARIABLES queue,        \* the owner, if any, followed by the waiters in order
          entered       \* whether the head of the queue has seen its turn

vars == <<queue, entered>>

InQueue(c) == \E i \in DOMAIN queue : queue[i] = c

Init == queue = <<>> /\ entered = FALSE

Take(c) == /\ ~ InQueue(c)
           /\ queue' = Append(queue, c)
           /\ UNCHANGED entered

Enter(c) == /\ queue # <<>> /\ Head(queue) = c /\ ~ entered
            /\ entered' = TRUE
            /\ UNCHANGED queue

Leave(c) == /\ queue # <<>> /\ Head(queue) = c /\ entered
            /\ queue' = Tail(queue)
            /\ entered' = FALSE

Next == \E c \in CPU : Take(c) \/ Enter(c) \/ Leave(c)

Spec == Init /\ [][Next]_vars

\* A FIFO lock is a kernel lock.
Lock == INSTANCE KernelLock WITH
  mode <- [c \in CPU |-> IF ~ InQueue(c) THEN "user"
                         ELSE IF entered /\ Head(queue) = c THEN "kernel"
                         ELSE "wait"]
=============================================================================
