----------------------------- MODULE TicketLock -----------------------------
(***************************************************************************)
(* kern/spinlock.c when USE_TICKET_SPIN_LOCK is defined (spinlock.h:9), as *)
(* kern/init.c's spinlock_test exercises it.  own and next are unsigned    *)
(* and wrap; every load and every atomic add is a step.                    *)
(***************************************************************************)
EXTENDS Integers, FiniteSets, Sequences

CONSTANTS CPU,          \* the CPUs the kernel started
          NoCPU,        \* the null pointer that lock->cpu starts with
          TicketModulus \* 2^32 in the code: where own and next wrap

\* With as many tickets as CPUs a full queue would look like an empty one.
ASSUME TicketAssumption == /\ NoCPU \notin CPU
                           /\ IsFiniteSet(CPU)
                           /\ TicketModulus \in Nat
                           /\ TicketModulus > Cardinality(CPU)

VARIABLES own,          \* lock->own: the ticket being served
          next,         \* lock->next: the ticket to hand out
          lockcpu,      \* lock->cpu
          ticket,       \* next_ticket, a local of spin_lock on each CPU
          sawOwn,       \* lock->own as holding() loaded it on each CPU
          pc            \* the point of spin_lock/spin_unlock each CPU is at

vars == <<own, next, lockcpu, ticket, sawOwn, pc>>

Ticket == 0 .. TicketModulus - 1
Before == {"user", "lock_ld_own", "lock_ld_next", "lock_ld_cpu", "take"}
\* Where the owner is sure to be served, from its last load of own on.
Inside == {"st_cpu", "kernel", "unlock_ld_own", "unlock_ld_next",
           "unlock_ld_cpu", "clear_cpu", "add_own"}
Queued == {"wait"} \cup Inside
\* Where lock->cpu is the owner: from its store to its clear.
Recorded == {"kernel", "unlock_ld_own", "unlock_ld_next", "unlock_ld_cpu", "clear_cpu"}

TypeOK == /\ own \in Ticket /\ next \in Ticket
          /\ lockcpu \in CPU \cup {NoCPU}
          /\ ticket \in [CPU -> Ticket]
          /\ sawOwn \in [CPU -> Ticket]
          /\ pc \in [CPU -> Before \cup Queued \cup {"panic"}]

\* __spin_initlock (kern/spinlock.c:65-81).
Init == /\ own = 0 /\ next = 0
        /\ lockcpu = NoCPU
        /\ ticket = [c \in CPU |-> 0]
        /\ sawOwn = [c \in CPU |-> 0]
        /\ pc = [c \in CPU |-> "user"]

Goto(c, from, to) == /\ pc[c] = from
                     /\ pc' = [pc EXCEPT ![c] = to]

CallLock(c) == /\ Goto(c, "user", "lock_ld_own")
               /\ UNCHANGED <<own, next, lockcpu, ticket, sawOwn>>

\* holding(): lock->own, then lock->next, then lock->cpu if they differ.
LoadOwn(c) ==
  /\ \/ Goto(c, "lock_ld_own", "lock_ld_next")
     \/ Goto(c, "unlock_ld_own", "unlock_ld_next")
  /\ sawOwn' = [sawOwn EXCEPT ![c] = own]
  /\ UNCHANGED <<own, next, lockcpu, ticket>>

LoadNext(c) ==
  /\ \/ Goto(c, "lock_ld_next", IF sawOwn[c] # next THEN "lock_ld_cpu" ELSE "take")
     \/ Goto(c, "unlock_ld_next", IF sawOwn[c] # next THEN "unlock_ld_cpu" ELSE "panic")
  /\ sawOwn' = [sawOwn EXCEPT ![c] = 0]          \* dead from here on
  /\ UNCHANGED <<own, next, lockcpu, ticket>>

LoadCpu(c) ==
  /\ \/ Goto(c, "lock_ld_cpu", IF lockcpu = c THEN "panic" ELSE "take")
     \/ Goto(c, "unlock_ld_cpu", IF lockcpu = c THEN "clear_cpu" ELSE "panic")
  /\ UNCHANGED <<own, next, lockcpu, ticket, sawOwn>>

\* Mutant: the ticket is read first and next is advanced by another step.
TakeTicketSplit(c) == /\ Goto(c, "take", "wait")
                      /\ ticket' = [ticket EXCEPT ![c] = next]
                      /\ next' \in {next, (next + 1) % TicketModulus}
                      /\ UNCHANGED <<own, lockcpu, sawOwn>>

TakeTicket(c) == /\ Goto(c, "take", "wait")
                 /\ ticket' = [ticket EXCEPT ![c] = next]
                 /\ next' = (next + 1) % TicketModulus
                 /\ UNCHANGED <<own, lockcpu, sawOwn>>

\* A load of own that does not find the ticket changes nothing.
SeeTurn(c) == /\ own = ticket[c]
              /\ Goto(c, "wait", "st_cpu")
              /\ UNCHANGED <<own, next, lockcpu, ticket, sawOwn>>

StoreCpu(c) == /\ Goto(c, "st_cpu", "kernel")
               /\ lockcpu' = c
               /\ UNCHANGED <<own, next, ticket, sawOwn>>

CallUnlock(c) == /\ Goto(c, "kernel", "unlock_ld_own")
                 /\ UNCHANGED <<own, next, lockcpu, ticket, sawOwn>>

ClearCpu(c) == /\ Goto(c, "clear_cpu", "add_own")
               /\ lockcpu' = NoCPU
               /\ UNCHANGED <<own, next, ticket, sawOwn>>

\* Mutant: own follows the last ticket handed out and skips the waiters.
AddOwnSkips(c) == /\ Goto(c, "add_own", "user")
                  /\ own' = next
                  /\ UNCHANGED <<next, lockcpu, ticket, sawOwn>>

AddOwn(c) == /\ Goto(c, "add_own", "user")
             /\ own' = (own + 1) % TicketModulus
             /\ ticket' = [ticket EXCEPT ![c] = 0]   \* dead from here on
             /\ UNCHANGED <<next, lockcpu, sawOwn>>

Step(c) == \/ LoadOwn(c) \/ LoadNext(c) \/ LoadCpu(c) \/ TakeTicket(c)
           \/ SeeTurn(c) \/ StoreCpu(c) \/ CallUnlock(c) \/ ClearCpu(c)
           \/ AddOwn(c)

Next == \E c \in CPU : CallLock(c) \/ Step(c)

Spec == Init /\ [][Next]_vars

\* Every CPU keeps executing inside the kernel; nothing makes it enter.
FairSpec == Spec /\ \A c \in CPU : WF_vars(Step(c))

-----------------------------------------------------------------------------
Distance(t) == (t - own) % TicketModulus
Served == Distance(next)

(* own..next-1, counted around the wrap of the unsigned counters, are the  *)
(* tickets of exactly the CPUs between their ticket and their unlock, one  *)
(* each; lock->cpu names a CPU exactly from its store to its clear, which  *)
(* only the one being served does; and holding(), read without the lock,   *)
(* never makes spin_lock or spin_unlock panic.                             *)
TicketInv ==
  /\ TypeOK
  /\ Cardinality({c \in CPU : pc[c] \in Queued}) = Served
  /\ \A c \in CPU : pc[c] \in Queued => Distance(ticket[c]) < Served
  /\ \A c, d \in CPU : pc[c] \in Queued /\ pc[d] \in Queued /\ c # d
                          => ticket[c] # ticket[d]
  /\ \A c \in CPU : pc[c] \in Inside => ticket[c] = own
  /\ \A c \in CPU : lockcpu = c <=> pc[c] \in Recorded
  /\ \A c \in CPU : pc[c] # "panic"

(* Every CPU that calls spin_lock gets the lock: nobody starves, since the *)
(* tickets ahead of it are served one by one (fetch-and-add hands each out *)
(* once, and the wrap of own follows the wrap of next).                    *)
EveryWaiterEnters == \A c \in CPU : pc[c] = "lock_ld_own" ~> pc[c] = "kernel"

\* The waiters in ticket order, from the one being served.
Queue == [i \in 1 .. Served |->
            CHOOSE c \in CPU : pc[c] \in Queued /\ Distance(ticket[c]) = i - 1]

Fifo == INSTANCE FifoLock WITH
  queue   <- Queue,
  entered <- \E c \in CPU : pc[c] \in Inside

(* The ticket build hands the lock over in the order in which the tickets  *)
(* were taken, also across the wrap of the counters.                       *)
ImplementsFifoLock == Fifo!Spec
=============================================================================
