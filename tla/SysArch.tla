------------------------------ MODULE SysArch ------------------------------
(***************************************************************************)
(* What lwIP runs on in the network server: cooperative threads            *)
(* (net/lwip/jos/arch/thread.c), and the semaphores and mailboxes built on *)
(* them (net/lwip/jos/arch/sys_arch.c).  Every operator maps the memory n  *)
(* of the server to its memory after the call:                             *)
(*   n.cur, n.q  the running thread and the queue of the others            *)
(*   n.on, n.wake  the semaphore each thread waits on, and tc_wakeup       *)
(*   n.sem  counter and waiters of each semaphore                          *)
(*   n.box  head, nextq and slots of each mailbox                          *)
(* A thread that waits stays in the queue and polls whenever it is run.    *)
(***************************************************************************)
EXTENDS Integers, Sequences, FiniteSets

CONSTANTS MBOXSLOTS,  \* 32 in the code
          NoSem       \* no semaphore

Queued(b) == <<b, "queued_msg">>
Free(b)   == <<b, "free_msg">>
Done(b)   == <<b, "op_completed">>   \* of the connection the mailbox belongs to
Sems(boxes) == boxes \X {"queued_msg", "free_msg", "op_completed"}

\* sys_mbox_new of every mailbox, sys_sem_new of every semaphore.
NewSems(boxes)  == [s \in Sems(boxes) |->
    [counter |-> IF s[2] = "free_msg" THEN MBOXSLOTS ELSE 0, waiters |-> 0]]
NewBoxes(boxes) == [b \in boxes |->
    [head |-> -1, nextq |-> 0, msg |-> [k \in 0 .. MBOXSLOTS - 1 |-> 0]]]
-----------------------------------------------------------------------------
\* thread_wait returns once the thread was woken or the semaphore is not as it was
\* when the thread began to wait, with counter 0 and waiters 1.
Asleep     == [counter |-> 0, waiters |-> 1]
Ready(n, t) == n.on[t] = NoSem \/ n.wake[t] \/ n.sem[n.on[t]] # Asleep

\* threads that only poll go round: the first of line that can go on runs.
Dispatch(n, line) ==
    LET k == CHOOSE k \in DOMAIN line :
               Ready(n, line[k]) /\ \A j \in 1 .. k - 1 : ~Ready(n, line[j])
    IN [n EXCEPT !.cur = line[k],
                 !.q = SubSeq(line, k + 1, Len(line)) \o SubSeq(line, 1, k - 1),
                 !.on[line[k]] = NoSem, !.wake[line[k]] = FALSE]

ThreadYield(n)     == Dispatch(n, Append(n.q, n.cur))
ThreadHalt(n)      == Dispatch(n, n.q)
ThreadCreate(n, t) == [n EXCEPT !.q = Append(@, t)]
InQueue(n)         == {n.q[k] : k \in DOMAIN n.q}
\* Mutant: only the first thread of the queue is looked at.
FirstWoken(n)      == n.q # <<>> /\ n.wake[Head(n.q)]
WakeupsPending(n)  == \E t \in InQueue(n) : n.wake[t]
ThreadWakeup(n, s) ==
    [n EXCEPT !.wake = [t \in DOMAIN @ |-> @[t] \/ (t \in InQueue(n) /\ n.on[t] = s)]]

\* sys_sem_signal wakes every waiter.
SemSignal(n, s) ==
    LET m == [n EXCEPT !.sem[s].counter = @ + 1] IN
    IF m.sem[s].waiters = 0 THEN m
    ELSE ThreadWakeup([m EXCEPT !.sem[s].waiters = 0], s)

\* sys_arch_sem_wait: take one, or mark the semaphore and wait.
SemHas(n, s)  == n.sem[s].counter > 0
SemTake(n, s) == [n EXCEPT !.sem[s].counter = @ - 1]
SemBlock(n, s) ==
    ThreadYield([n EXCEPT !.sem[s].waiters = 1, !.on[n.cur] = s, !.wake[n.cur] = FALSE])
-----------------------------------------------------------------------------
\* The rest of sys_mbox_trypost after its wait for a free slot.
MboxPut(n, b, msg) ==
    LET x    == n.box[b]
        slot == x.nextq
    IN SemSignal([n EXCEPT !.box[b] =
           [head |-> IF x.head = -1 THEN slot ELSE x.head,
            nextq |-> (slot + 1) % MBOXSLOTS,
            msg |-> [x.msg EXCEPT ![slot] = msg]]], Queued(b))

\* Mutant: head is not set back to -1 when the last message is taken.
MboxGetEmpty(n, b) ==
    LET x == n.box[b] IN
    SemSignal([n EXCEPT !.box[b].head = (x.head + 1) % MBOXSLOTS,
                        !.box[b].msg[x.head] = 0], Free(b))

\* The rest of sys_arch_mbox_fetch after its wait for a message; the slot is dead.
MboxGet(n, b) ==
    LET x    == n.box[b]
        next == (x.head + 1) % MBOXSLOTS
    IN SemSignal([n EXCEPT !.box[b].head = IF next = x.nextq THEN -1 ELSE next,
                           !.box[b].msg[x.head] = 0], Free(b))
MboxMsg(n, b) == n.box[b].msg[n.box[b].head]
Messages(x) == IF x.head = -1 THEN 0 ELSE ((x.nextq - x.head - 1) % MBOXSLOTS) + 1
=============================================================================
