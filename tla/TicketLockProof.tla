-------------------------- MODULE TicketLockProof --------------------------
(***************************************************************************)
(* The ticket build of the spin lock, for any set of CPUs and any modulus  *)
(* of the counters above their number: TicketInv holds.  It is not         *)
(* inductive alone: what holding() reads must be known to be current.      *)
(***************************************************************************)
EXTENDS TicketLock, FiniteSetTheorems, SequenceTheorems, TLAPS

\* The distance from ticket o to ticket t without the remainder.
Gap(t, o) == IF t >= o THEN t - o ELSE t + TicketModulus - o

InLine   == {c \in CPU : pc[c] \in Queued}

\* The tickets from own to next - 1 are those of the CPUs in line.
Tickets ==
    /\ Cardinality(InLine) = Gap(next, own)
    /\ \A c \in CPU : pc[c] \in Queued => Gap(ticket[c], own) < Gap(next, own)
    /\ \A c, d \in CPU : pc[c] \in Queued /\ pc[d] \in Queued /\ c # d => ticket[c] # ticket[d]
\* The CPU that is served, and what it and others read of the lock.
Holding ==
    /\ \A c \in CPU : pc[c] \in Inside => ticket[c] = own
    /\ \A c \in CPU : pc[c] # "panic"
    /\ \A c \in CPU : lockcpu = c <=> pc[c] \in Recorded
    /\ \A c \in CPU : pc[c] = "unlock_ld_next" => sawOwn[c] = own
IInv == TypeOK /\ Tickets /\ Holding

LEMMA TicketZero == 0 \in Ticket
  BY TicketAssumption, FS_CardinalityType DEF Ticket

\* Gap is the remainder the code's unsigned subtraction leaves.
LEMMA DistanceGap ==
  ASSUME NEW t \in Ticket, NEW o \in Ticket
  PROVE  (t - o) % TicketModulus = Gap(t, o)
<1>m. TicketModulus \in Int /\ TicketModulus > 0
  BY TicketAssumption DEF Ticket
<1>1. CASE t >= o
  <2>1. t - o \in Int /\ 0 <= t - o /\ t - o < TicketModulus
    BY <1>1, <1>m DEF Ticket
  <2> QED BY <1>1, <1>m, <2>1 DEF Gap
<1>2. CASE ~(t >= o)
  <2>1. t - o \in Int /\ t - o < 0 /\ 0 <= (t - o) + TicketModulus
    BY <1>2, <1>m DEF Ticket
  <2> QED BY <1>2, <1>m, <2>1 DEF Gap, Ticket
<1> QED BY <1>1, <1>2, <1>m DEF Ticket

\* The ticket after x, going round the wrap.
LEMMA NextTicket ==
  ASSUME NEW x \in Ticket
  PROVE  /\ (x + 1) % TicketModulus = IF x + 1 = TicketModulus THEN 0 ELSE x + 1
         /\ (x + 1) % TicketModulus \in Ticket
<1>m. TicketModulus \in Int /\ TicketModulus > 0
  BY TicketAssumption DEF Ticket
<1>1. CASE x + 1 = TicketModulus
  BY <1>1, <1>m DEF Ticket
<1>2. CASE x + 1 # TicketModulus
  <2>1. x + 1 \in Int /\ 0 <= x + 1 /\ x + 1 < TicketModulus
    BY <1>2, <1>m DEF Ticket
  <2> QED BY <1>2, <1>m, <2>1 DEF Ticket
<1> QED BY <1>1, <1>2

LEMMA GapType ==
  ASSUME NEW t \in Ticket, NEW o \in Ticket
  PROVE  Gap(t, o) \in Nat /\ (Gap(t, o) = 0 <=> t = o) /\ Gap(t, o) < TicketModulus
  BY TicketAssumption DEF Gap, Ticket

LEMMA GapInjective ==
  ASSUME NEW t \in Ticket, NEW s \in Ticket, NEW o \in Ticket, Gap(t, o) = Gap(s, o)
  PROVE  t = s
  BY TicketAssumption DEF Gap, Ticket

\* Handing out a ticket makes the line one longer, if it is not all tickets long.
LEMMA GapTake ==
  ASSUME NEW n \in Ticket, NEW o \in Ticket, Gap(n, o) + 1 < TicketModulus,
         NEW m, m = IF n + 1 = TicketModulus THEN 0 ELSE n + 1
  PROVE  Gap(m, o) = Gap(n, o) + 1
  BY TicketAssumption DEF Gap, Ticket

\* Serving the next ticket brings every other one nearer.
LEMMA GapServe ==
  ASSUME NEW t \in Ticket, NEW o \in Ticket, t # o,
         NEW u, u = IF o + 1 = TicketModulus THEN 0 ELSE o + 1
  PROVE  Gap(t, u) = Gap(t, o) - 1
  BY TicketAssumption DEF Gap, Ticket

LEMMA InitIInv == Init => IInv
<1> SUFFICES ASSUME Init PROVE IInv
  OBVIOUS
<1>1. 0 \in Ticket /\ Gap(0, 0) = 0
  BY TicketZero, GapType
<1>0. \A c \in CPU : pc[c] = "user" /\ lockcpu # c
  BY TicketAssumption DEF Init
<1>2. TypeOK
  BY <1>1 DEF Init, TypeOK, Before
<1>5. Holding
  BY <1>0 DEF Holding, Inside, Recorded
<1>3. InLine = {}
  BY DEF Init, InLine, Queued, Inside
<1>4. Tickets
  BY <1>1, <1>3, FS_EmptySet DEF Init, Tickets, Queued, Inside
<1> QED BY <1>2, <1>4, <1>5 DEF IInv

\* A step that neither takes nor gives up a ticket keeps the line.
LEMMA QuietTickets ==
  ASSUME Tickets, UNCHANGED <<own, next, ticket>>,
         \A d \in CPU : pc'[d] \in Queued <=> pc[d] \in Queued
  PROVE  Tickets'
<1>1. InLine' = InLine
  BY DEF InLine
<1> QED BY <1>1 DEF Tickets

\* A CPU that takes a ticket joins the end of the line.
LEMMA TakeInv == ASSUME IInv, NEW c \in CPU, TakeTicket(c) PROVE IInv'
<1>t. TypeOK
  BY DEF IInv
<1>0. own \in Ticket /\ next \in Ticket /\ ticket \in [CPU -> Ticket]
  BY <1>t DEF TypeOK
<1>1. /\ pc[c] = "take" /\ pc' = [pc EXCEPT ![c] = "wait"]
      /\ ticket' = [ticket EXCEPT ![c] = next]
      /\ next' = (next + 1) % TicketModulus
      /\ own' = own /\ lockcpu' = lockcpu /\ sawOwn' = sawOwn
  BY DEF TakeTicket, Goto
<1>2. next' = (IF next + 1 = TicketModulus THEN 0 ELSE next + 1) /\ next' \in Ticket
  BY <1>0, <1>1, NextTicket
<1>3. /\ pc'[c] = "wait" /\ \A d \in CPU : d # c => pc'[d] = pc[d]
      /\ ticket'[c] = next /\ \A d \in CPU : d # c => ticket'[d] = ticket[d]
  BY <1>0, <1>1, <1>t DEF TypeOK
<1>4. pc[c] \notin Queued /\ pc'[c] \in Queued /\ pc'[c] \notin Inside /\ pc'[c] \notin Recorded
      /\ pc[c] \notin Recorded /\ pc'[c] # "panic" /\ pc'[c] # "unlock_ld_next"
  BY <1>1, <1>3 DEF Queued, Inside, Recorded
<1>5. TypeOK'
  BY <1>0, <1>1, <1>2, <1>t DEF TypeOK, Queued
<1>6. Holding'
  BY <1>1, <1>3, <1>4 DEF IInv, Holding
<1>7. InLine' = InLine \cup {c} /\ c \notin InLine
  BY <1>3, <1>4 DEF InLine
<1>8. /\ IsFiniteSet(InLine) /\ Cardinality(InLine') = Cardinality(InLine) + 1
      /\ Cardinality(InLine') <= Cardinality(CPU) /\ Cardinality(CPU) \in Nat
  <2>1. InLine \subseteq CPU /\ InLine' \subseteq CPU
    BY DEF InLine
  <2> QED BY <1>7, <2>1, TicketAssumption, FS_Subset, FS_AddElement, FS_CardinalityType
<1>9. Gap(next', own) = Gap(next, own) + 1
  <2>1. Gap(next, own) + 1 < TicketModulus
    BY <1>8, <1>0, GapType, TicketAssumption DEF IInv, Tickets
  <2> QED BY <1>0, <1>2, <2>1, GapTake
<1>10. Gap(next, own) \in Nat /\ \A d \in CPU : Gap(ticket[d], own) \in Nat
  BY <1>0, GapType
<1>11. Cardinality(InLine') = Gap(next', own')
  BY <1>1, <1>8, <1>9 DEF IInv, Tickets
<1>12. ASSUME NEW d \in CPU, pc'[d] \in Queued PROVE Gap(ticket'[d], own') < Gap(next', own')
  <2>1. CASE d = c
    BY <1>1, <1>3, <1>9, <1>10, <2>1
  <2>2. CASE d # c
    BY <1>1, <1>3, <1>9, <1>10, <1>12, <2>2 DEF IInv, Tickets
  <2> QED BY <2>1, <2>2
<1>13. \A d \in CPU : pc[d] \in Queued => ticket[d] # next
  BY <1>10 DEF IInv, Tickets
<1>14. ASSUME NEW d \in CPU, NEW e \in CPU, pc'[d] \in Queued, pc'[e] \in Queued, d # e
       PROVE  ticket'[d] # ticket'[e]
  BY <1>3, <1>13, <1>14 DEF IInv, Tickets
<1> QED BY <1>5, <1>6, <1>11, <1>12, <1>14 DEF IInv, Tickets

\* The CPU that is served leaves the line from its front.
LEMMA ServeInv == ASSUME IInv, NEW c \in CPU, AddOwn(c) PROVE IInv'
<1>t. TypeOK
  BY DEF IInv
<1>0. own \in Ticket /\ next \in Ticket /\ ticket \in [CPU -> Ticket]
  BY <1>t DEF TypeOK
<1>1. /\ pc[c] = "add_own" /\ pc' = [pc EXCEPT ![c] = "user"]
      /\ ticket' = [ticket EXCEPT ![c] = 0]
      /\ own' = (own + 1) % TicketModulus
      /\ next' = next /\ lockcpu' = lockcpu /\ sawOwn' = sawOwn
  BY DEF AddOwn, Goto
<1>2. own' = (IF own + 1 = TicketModulus THEN 0 ELSE own + 1) /\ own' \in Ticket
  BY <1>0, <1>1, NextTicket
<1>3. /\ pc'[c] = "user" /\ \A d \in CPU : d # c => pc'[d] = pc[d]
      /\ \A d \in CPU : d # c => ticket'[d] = ticket[d]
  BY <1>0, <1>1, <1>t DEF TypeOK
<1>4. pc[c] \in Queued /\ pc[c] \in Inside /\ pc'[c] \notin Queued /\ pc'[c] \notin Inside
      /\ pc[c] \notin Recorded /\ pc'[c] \notin Recorded /\ pc'[c] # "panic"
      /\ pc'[c] # "unlock_ld_next"
  BY <1>1, <1>3 DEF Queued, Inside, Recorded
<1>5. TypeOK'
  <2> QED BY <1>0, <1>1, <1>2, <1>t, TicketZero DEF TypeOK, Before
<1>6. ticket[c] = own
  BY <1>4 DEF IInv, Holding
<1>7. \A d \in CPU : d # c /\ pc[d] \in Queued => ticket[d] # own
  BY <1>4, <1>6 DEF IInv, Tickets
<1>8. \A d \in CPU : pc'[d] \notin Inside
  BY <1>3, <1>4, <1>7 DEF IInv, Holding, Queued
<1>9. Holding'
  BY <1>1, <1>3, <1>4, <1>8 DEF IInv, Holding, Inside
<1>10. next # own /\ Gap(next', own') = Gap(next, own) - 1 /\ Gap(next, own) \in Nat
  <2>1. Gap(own, own) < Gap(next, own) /\ Gap(next, own) \in Nat
    BY <1>0, <1>4, <1>6, GapType DEF IInv, Tickets
  <2>2. Gap(own, own) = 0
    BY <1>0, GapType
  <2>3. next # own
    BY <1>0, <2>1, <2>2, GapType
  <2> QED BY <1>0, <1>1, <1>2, <2>1, <2>3, GapServe
<1>11. InLine' = InLine \ {c} /\ c \in InLine
  BY <1>3, <1>4 DEF InLine
<1>12. Cardinality(InLine') = Cardinality(InLine) - 1
  <2>1. IsFiniteSet(InLine)
    BY TicketAssumption, FS_Subset DEF InLine
  <2> QED BY <1>11, <2>1, FS_RemoveElement
<1>13. Cardinality(InLine') = Gap(next', own')
  BY <1>10, <1>12 DEF IInv, Tickets
<1>14. ASSUME NEW d \in CPU, pc'[d] \in Queued PROVE Gap(ticket'[d], own') < Gap(next', own')
  <2>1. d # c /\ pc[d] \in Queued /\ ticket'[d] = ticket[d]
    BY <1>3, <1>4, <1>14
  <2>2. Gap(ticket[d], own) \in Nat /\ Gap(ticket[d], own) < Gap(next, own)
    BY <1>0, <2>1, GapType DEF IInv, Tickets
  <2>3. ticket[d] # own
    BY <1>7, <2>1
  <2>4. Gap(ticket[d], own') = Gap(ticket[d], own) - 1
    BY <1>0, <1>2, <2>3, GapServe
  <2> QED BY <1>10, <2>1, <2>2, <2>4
<1>15. ASSUME NEW d \in CPU, NEW e \in CPU, pc'[d] \in Queued, pc'[e] \in Queued, d # e
       PROVE  ticket'[d] # ticket'[e]
  BY <1>3, <1>4, <1>15 DEF IInv, Tickets
<1> QED BY <1>5, <1>9, <1>13, <1>14, <1>15 DEF IInv, Tickets

\* Every other step leaves the counters alone and stays in line or out of it.
LEMMA QuietInv ==
  ASSUME IInv, NEW c \in CPU,
         \/ CallLock(c) \/ LoadOwn(c) \/ LoadNext(c) \/ LoadCpu(c)
         \/ SeeTurn(c) \/ StoreCpu(c) \/ CallUnlock(c) \/ ClearCpu(c)
  PROVE  IInv'
<1>t. TypeOK /\ Tickets /\ Holding
  BY DEF IInv
<1>0. /\ own' = own /\ next' = next /\ ticket' = ticket
      /\ \E x \in Before \cup Queued \cup {"panic"} : pc' = [pc EXCEPT ![c] = x]
      /\ lockcpu' \in CPU \cup {NoCPU} /\ sawOwn' \in [CPU -> Ticket]
  BY <1>t, TicketZero DEF CallLock, LoadOwn, LoadNext, LoadCpu, SeeTurn, StoreCpu, CallUnlock,
     ClearCpu, Goto, TypeOK, Before, Queued, Inside
<1>1. TypeOK'
  BY <1>0, <1>t DEF TypeOK
<1>2. \A d \in CPU : d # c => pc'[d] = pc[d] /\ sawOwn'[d] = sawOwn[d]
  BY <1>t DEF CallLock, LoadOwn, LoadNext, LoadCpu, SeeTurn, StoreCpu, CallUnlock,
     ClearCpu, Goto, TypeOK
<1>3. \A d \in CPU : d # c /\ pc[d] \in Inside => pc[c] \notin Inside
  BY <1>t DEF Tickets, Holding, Queued
<1>4. \A d \in CPU : pc[d] \in Queued => next # own
  <2> SUFFICES ASSUME NEW d \in CPU, pc[d] \in Queued PROVE next # own
    OBVIOUS
  <2>1. ticket[d] \in Ticket /\ own \in Ticket /\ next \in Ticket
    BY <1>t DEF TypeOK
  <2>2. Gap(ticket[d], own) < Gap(next, own) /\ Gap(ticket[d], own) \in Nat
    BY <1>t, <2>1, GapType DEF Tickets
  <2> QED BY <2>1, <2>2, GapType
\* What the step does to its own CPU.
<1>5. /\ pc'[c] \in Queued <=> pc[c] \in Queued
      /\ pc'[c] \in Inside => ticket[c] = own
      /\ pc'[c] # "panic"
      /\ lockcpu' = c <=> pc'[c] \in Recorded
      /\ pc'[c] = "unlock_ld_next" => sawOwn'[c] = own
      /\ lockcpu' = lockcpu \/ pc[c] \in Inside
  <2>1. CASE CallLock(c)
    BY <1>t, <2>1 DEF CallLock, Goto, TypeOK, Holding, Queued, Inside, Recorded
  <2>2. CASE LoadOwn(c)
    BY <1>t, <2>2 DEF LoadOwn, Goto, TypeOK, Holding, Queued, Inside, Recorded
  <2>3. CASE LoadNext(c)
    BY <1>t, <1>4, <2>3 DEF LoadNext, Goto, TypeOK, Holding, Queued, Inside, Recorded
  <2>4. CASE LoadCpu(c)
    BY <1>t, <2>4 DEF LoadCpu, Goto, TypeOK, Holding, Queued, Inside, Recorded
  <2>5. CASE SeeTurn(c)
    BY <1>t, <2>5 DEF SeeTurn, Goto, TypeOK, Holding, Queued, Inside, Recorded
  <2>6. CASE StoreCpu(c)
    BY <1>t, <2>6 DEF StoreCpu, Goto, TypeOK, Holding, Queued, Inside, Recorded
  <2>7. CASE CallUnlock(c)
    BY <1>t, <2>7 DEF CallUnlock, Goto, TypeOK, Holding, Queued, Inside, Recorded
  <2>8. CASE ClearCpu(c)
    BY <1>t, <2>8, TicketAssumption DEF ClearCpu, Goto, TypeOK, Holding, Queued, Inside, Recorded
  <2> QED BY <2>1, <2>2, <2>3, <2>4, <2>5, <2>6, <2>7, <2>8
<1>6. \A d \in CPU : d # c => (lockcpu' = d <=> lockcpu = d)
  <2> SUFFICES ASSUME NEW d \in CPU, d # c PROVE lockcpu' = d <=> lockcpu = d
    OBVIOUS
  <2>1. CASE lockcpu' = lockcpu
    BY <2>1
  <2>2. CASE pc[c] \in Inside
    <3>1. lockcpu # d
      BY <1>t, <1>3, <2>2 DEF Holding, Recorded, Inside
    <3>2. lockcpu' = lockcpu \/ lockcpu' = c \/ lockcpu' = NoCPU
      BY DEF CallLock, LoadOwn, LoadNext, LoadCpu, SeeTurn, StoreCpu, CallUnlock, ClearCpu
    <3> QED BY <3>1, <3>2, TicketAssumption
  <2> QED BY <1>5, <2>1, <2>2
<1>7. Tickets'
  BY <1>0, <1>2, <1>5, <1>t, QuietTickets
<1>8. Holding'
  BY <1>0, <1>2, <1>5, <1>6, <1>t DEF Holding
<1> QED BY <1>1, <1>7, <1>8 DEF IInv

LEMMA NextIInv == IInv /\ [Next]_vars => IInv'
<1> SUFFICES ASSUME IInv, [Next]_vars PROVE IInv'
  OBVIOUS
<1>1. CASE UNCHANGED vars
  <2>1. InLine' = InLine
    BY <1>1 DEF vars, InLine
  <2> QED BY <1>1, <2>1 DEF vars, IInv, TypeOK, Tickets, Holding
<1>2. CASE Next
  BY <1>2, TakeInv, ServeInv, QuietInv DEF Next, Step
<1> QED BY <1>1, <1>2

LEMMA IInvTicketInv == IInv => TicketInv
<1> SUFFICES ASSUME IInv PROVE TicketInv
  OBVIOUS
<1>1. own \in Ticket /\ next \in Ticket /\ \A c \in CPU : ticket[c] \in Ticket
  BY DEF IInv, TypeOK
<1>2. Served = Gap(next, own) /\ \A c \in CPU : Distance(ticket[c]) = Gap(ticket[c], own)
  BY <1>1, DistanceGap DEF Served, Distance
<1> QED BY <1>2 DEF IInv, Tickets, Holding, InLine, TicketInv

(* The ticket build of spin_lock and spin_unlock, for any number of CPUs and *)
(* any modulus above it: the tickets between own and next are those of the   *)
(* waiting CPUs and the one served, also across the wrap of the counters,    *)
(* lock->cpu names that one from its store to its clear, and holding() never *)
(* makes a CPU panic.                                                        *)
THEOREM TicketInvariant == Spec => []TicketInv
  BY InitIInv, NextIInv, IInvTicketInv, PTL DEF Spec
-----------------------------------------------------------------------------
\* The place of c in the line.
Place(c) == Gap(ticket[c], own) + 1

\* Every place of the line is taken, as there are as many CPUs as places.
LEMMA PlacesTaken ==
  ASSUME IInv
  PROVE  /\ Served \in Nat
         /\ \A c \in InLine : Place(c) \in 1 .. Served
         /\ \A c, d \in InLine : Place(c) = Place(d) => c = d
         /\ \A i \in 1 .. Served : \E c \in InLine : Place(c) = i
<1>1. own \in Ticket /\ next \in Ticket /\ \A c \in CPU : ticket[c] \in Ticket
  BY DEF IInv, TypeOK
<1>2. Served = Gap(next, own) /\ Served \in Nat
  BY <1>1, DistanceGap, GapType DEF Served, Distance
<1>3. \A c \in InLine : Place(c) \in 1 .. Served
  <2> SUFFICES ASSUME NEW c \in InLine PROVE Place(c) \in 1 .. Served
    OBVIOUS
  <2>1. Gap(ticket[c], own) \in Nat /\ Gap(ticket[c], own) < Gap(next, own)
    BY <1>1, GapType DEF InLine, IInv, Tickets
  <2> QED BY <1>2, <2>1 DEF Place
<1>4. ASSUME NEW c \in InLine, NEW d \in InLine, Place(c) = Place(d) PROVE c = d
  <2>1. c \in CPU /\ d \in CPU /\ ticket[c] \in Ticket /\ ticket[d] \in Ticket
    BY <1>1 DEF InLine
  <2>2. Gap(ticket[c], own) = Gap(ticket[d], own)
    BY <1>1, <1>4, <2>1, GapType DEF Place
  <2>3. ticket[c] = ticket[d]
    BY <1>1, <2>1, <2>2, GapInjective
  <2> QED BY <2>1, <2>3 DEF InLine, IInv, Tickets
<1>5. \A i \in 1 .. Served : \E c \in InLine : Place(c) = i
  <2> DEFINE f == [c \in InLine |-> Place(c)]
  <2>1. f \in Injection(InLine, 1 .. Served)
    BY <1>3, <1>4 DEF Injection, IsInjective
  <2>2. IsFiniteSet(1 .. Served) /\ Cardinality(1 .. Served) = Served
    BY <1>2, FS_Interval
  <2>3. Cardinality(InLine) = Cardinality(1 .. Served)
    BY <1>2, <2>2 DEF IInv, Tickets
  <2>4. f \in Surjection(InLine, 1 .. Served)
    <3> HIDE DEF f
    <3> QED BY <2>1, <2>2, <2>3, FS_Injection
  <2> QED BY <2>4 DEF Surjection
<1> QED BY <1>2, <1>3, <1>4, <1>5

\* Queue lists the CPUs in line, each at its place.
LineUp ==
    /\ Queue \in Seq(CPU) /\ Len(Queue) = Served
    /\ \A i \in 1 .. Served : Queue[i] \in InLine /\ Place(Queue[i]) = i
    /\ \A c \in InLine : Queue[Place(c)] = c
LEMMA QueuePlaces == IInv => LineUp
<1> SUFFICES ASSUME IInv PROVE LineUp
  OBVIOUS
<1>0. own \in Ticket /\ \A c \in CPU : ticket[c] \in Ticket
  BY DEF IInv, TypeOK
<1>1. ASSUME NEW i \in 1 .. Served PROVE Queue[i] \in InLine /\ Place(Queue[i]) = i
  <2>1. PICK c \in InLine : Place(c) = i
    BY PlacesTaken
  <2>2. c \in CPU /\ pc[c] \in Queued /\ Distance(ticket[c]) = i - 1
    BY <1>0, <2>1, DistanceGap, GapType DEF InLine, Distance, Place
  <2>3. /\ Queue[i] \in CPU /\ pc[Queue[i]] \in Queued
        /\ Distance(ticket[Queue[i]]) = i - 1
    BY <2>2 DEF Queue
  <2>4. Gap(ticket[Queue[i]], own) = i - 1
    BY <1>0, <2>3, DistanceGap DEF Distance
  <2> QED BY <2>3, <2>4 DEF InLine, Place
<1>2. Queue \in [1 .. Served -> CPU]
  <2>1. Queue = [i \in 1 .. Served |-> Queue[i]]
    BY DEF Queue
  <2> QED BY <1>1, <2>1 DEF InLine
<1>3. Queue \in Seq(CPU) /\ Len(Queue) = Served
  <2>1. Served \in Nat
    BY PlacesTaken
  <2> HIDE DEF Queue
  <2> QED BY <1>2, <2>1
<1>4. \A c \in InLine : Queue[Place(c)] = c
  BY <1>1, PlacesTaken
<1> QED BY <1>1, <1>3, <1>4 DEF LineUp

LEMMA QueuePlacesNext == IInv' => LineUp'
  BY QueuePlaces, PTL

\* What InQueue and Head of the abstract lock say of the line.
LEMMA QueueMembers ==
  ASSUME IInv, NEW c \in CPU
  PROVE  /\ Fifo!InQueue(c) <=> c \in InLine
         /\ c \in InLine /\ ticket[c] = own => Queue # <<>> /\ Head(Queue) = c
<1>1. Queue \in Seq(CPU) /\ Len(Queue) = Served /\ Served \in Nat
  BY QueuePlaces, PlacesTaken DEF LineUp
<1>2. DOMAIN Queue = 1 .. Served
  BY <1>1
<1>3. Fifo!InQueue(c) <=> c \in InLine
  BY <1>2, QueuePlaces, PlacesTaken DEF LineUp, Fifo!InQueue
<1>4. ASSUME c \in InLine, ticket[c] = own PROVE Queue # <<>> /\ Head(Queue) = c
  <2>1. Place(c) = 1
    BY <1>4, GapType DEF Place, IInv, TypeOK
  <2>2. 1 \in 1 .. Served /\ Queue[1] = c
    BY <1>4, <2>1, PlacesTaken, QueuePlaces DEF LineUp
  <2> QED BY <1>1, <2>2
<1> QED BY <1>3, <1>4

\* The line of a quiet step stays the same list.
LEMMA QuietQueue ==
  ASSUME UNCHANGED <<own, next, ticket>>, pc \in [CPU -> Before \cup Queued \cup {"panic"}],
         \A d \in CPU : pc'[d] \in Queued <=> pc[d] \in Queued
  PROVE  Queue' = Queue
<1>1. Served' = Served /\ \A d \in CPU : Distance(ticket[d])' = Distance(ticket[d])
  BY DEF Served, Distance
<1> QED BY <1>1 DEF Queue

\* Taking a ticket appends the CPU to the list.
LEMMA TakeQueue ==
  ASSUME IInv, NEW c \in CPU, TakeTicket(c)
  PROVE  Fifo!Take(c)
<1>0. IInv'
  BY TakeInv
<1>1. c \notin InLine /\ InLine' = InLine \cup {c}
  BY DEF IInv, TypeOK, TakeTicket, Goto, InLine, Queued, Inside
<1>2. \A d \in InLine : Place(d)' = Place(d)
  BY <1>1 DEF IInv, TypeOK, TakeTicket, InLine, Place
<1>3. Served' = Served + 1 /\ Served \in Nat
  <2>1. own \in Ticket /\ next \in Ticket /\ own' \in Ticket /\ next' \in Ticket
    BY <1>0 DEF IInv, TypeOK
  <2>2. Served = Gap(next, own) /\ Served' = Gap(next', own')
    BY <2>1, DistanceGap DEF Served, Distance
  <2>3. Cardinality(InLine') = Cardinality(InLine) + 1
    <3>1. IsFiniteSet(InLine)
      BY TicketAssumption, FS_Subset DEF InLine
    <3> QED BY <1>1, <3>1, FS_AddElement
  <2> QED BY <1>0, <2>1, <2>2, <2>3, PlacesTaken DEF IInv, Tickets
<1>4. LineUp /\ LineUp'
  BY <1>0, QueuePlaces, QueuePlacesNext
<1>5. Place(c)' = Served + 1
  <2>1. own' = own /\ ticket'[c] = next /\ own \in Ticket /\ next \in Ticket
    BY DEF IInv, TypeOK, TakeTicket
  <2>2. Place(c)' = Gap(next, own) + 1
    BY <2>1 DEF Place
  <2> QED BY <2>1, <2>2, DistanceGap DEF Served, Distance
<1>6. Queue' = Append(Queue, c)
  <2>1. Queue' \in Seq(CPU) /\ Queue \in Seq(CPU) /\ Len(Queue') = Served + 1 /\ Len(Queue) = Served
    BY <1>3, <1>4 DEF LineUp
  <2>2. Queue'[Served + 1] = c
    BY <1>1, <1>4, <1>5 DEF LineUp
  <2>3. ASSUME NEW i \in 1 .. Served PROVE Queue'[i] = Queue[i]
    <3>1. PICK d \in InLine : Queue[i] = d /\ Place(d) = i
      BY <1>4 DEF LineUp
    <3>2. d \in InLine' /\ Place(d)' = i
      BY <1>1, <1>2, <3>1
    <3>3. Queue'[Place(d)'] = d
      BY <1>4, <3>2 DEF LineUp
    <3> QED BY <3>1, <3>2, <3>3
  <2> DEFINE q == Queue
             r == Queue'
  <2>4. /\ r \in Seq(CPU) /\ q \in Seq(CPU) /\ Len(r) = Len(q) + 1 /\ Len(q) \in Nat
        /\ r[Len(q) + 1] = c /\ \A i \in 1 .. Len(q) : r[i] = q[i]
    BY <1>3, <2>1, <2>2, <2>3
  <2>5. Append(q, c) \in Seq(CPU) /\ Len(Append(q, c)) = Len(q) + 1
        /\ \A i \in 1 .. Len(q) + 1 : Append(q, c)[i] = IF i = Len(q) + 1 THEN c ELSE q[i]
    <3> HIDE DEF q, r
    <3> QED BY <2>4
  <2>6. r = Append(q, c)
    <3> HIDE DEF q, r
    <3>1. \A i \in 1 .. Len(r) : r[i] = Append(q, c)[i]
      BY <2>4, <2>5
    <3> QED BY <2>4, <2>5, <3>1, SeqEqual
  <2> QED BY <2>6
<1>7. UNCHANGED (\E d \in CPU : pc[d] \in Inside)
  BY DEF IInv, TypeOK, TakeTicket, Goto, Inside
<1> QED BY <1>1, <1>6, <1>7, QueueMembers DEF Fifo!Take

\* The owner that gives the lock up is the head of the list.
LEMMA LeaveQueue ==
  ASSUME IInv, NEW c \in CPU, AddOwn(c)
  PROVE  Fifo!Leave(c)
<1>0. IInv' /\ LineUp /\ LineUp'
  BY ServeInv, QueuePlaces, QueuePlacesNext
<1>1. /\ own \in Ticket /\ next \in Ticket /\ own' \in Ticket /\ next' = next
      /\ \A d \in CPU : ticket[d] \in Ticket
      /\ own' = IF own + 1 = TicketModulus THEN 0 ELSE own + 1
  BY <1>0, NextTicket DEF IInv, TypeOK, AddOwn
<1>2. c \in InLine /\ pc[c] \in Inside /\ ticket[c] = own /\ InLine' = InLine \ {c}
  BY DEF IInv, TypeOK, Holding, AddOwn, Goto, InLine, Queued, Inside
<1>3. \A d \in CPU : d # c => ticket'[d] = ticket[d] /\ pc'[d] = pc[d]
  BY DEF IInv, TypeOK, AddOwn, Goto
<1>4. \A d \in InLine : d # c => ticket[d] # own /\ pc[d] \notin Inside
  BY <1>2 DEF IInv, Tickets, Holding, InLine
<1>5. \A d \in InLine : d # c => Place(d)' = Place(d) - 1
  <2> SUFFICES ASSUME NEW d \in InLine, d # c PROVE Place(d)' = Place(d) - 1
    OBVIOUS
  <2>1. d \in CPU /\ ticket'[d] = ticket[d] /\ ticket[d] \in Ticket /\ ticket[d] # own
    BY <1>1, <1>3, <1>4 DEF InLine
  <2>2. Gap(ticket[d], own') = Gap(ticket[d], own) - 1 /\ Gap(ticket[d], own) \in Nat
    BY <1>1, <2>1, GapServe, GapType
  <2>3. Place(d)' = Gap(ticket[d], own') + 1
    BY <2>1 DEF Place
  <2> QED BY <2>2, <2>3 DEF Place
<1>6. Queue # <<>> /\ Head(Queue) = c
  BY <1>2, QueueMembers
<1>7. Served' = Served - 1 /\ Served \in Nat /\ Served > 0
  <2>1. Served = Gap(next, own) /\ Served' = Gap(next', own')
    BY <1>1, DistanceGap DEF Served, Distance
  <2>2. Cardinality(InLine') = Cardinality(InLine) - 1
    <3>1. IsFiniteSet(InLine)
      BY TicketAssumption, FS_Subset DEF InLine
    <3> QED BY <1>2, <3>1, FS_RemoveElement
  <2>3. Served \in Nat /\ Place(c) \in 1 .. Served
    BY <1>2, PlacesTaken
  <2> QED BY <1>0, <2>1, <2>2, <2>3 DEF IInv, Tickets
<1>8. Queue' = Tail(Queue)
  <2>1. Queue' \in Seq(CPU) /\ Queue \in Seq(CPU) /\ Len(Queue') = Served - 1 /\ Len(Queue) = Served
    BY <1>0, <1>7 DEF LineUp
  <2>2. ASSUME NEW i \in 1 .. Served - 1 PROVE Queue'[i] = Queue[i + 1]
    <3>0. i + 1 \in 1 .. Served /\ i + 1 # 1
      BY <1>7
    <3>1. PICK d \in InLine : Queue[i + 1] = d /\ Place(d) = i + 1
      BY <1>0, <3>0 DEF LineUp
    <3>2. d # c
      BY <1>6, <1>1, <1>2, <3>1, <3>0, GapType DEF Place
    <3>3. d \in InLine' /\ Place(d)' = i
      BY <1>2, <1>5, <3>1, <3>2
    <3>4. Queue'[Place(d)'] = d
      BY <1>0, <3>3 DEF LineUp
    <3> QED BY <3>1, <3>3, <3>4
  <2> DEFINE q == Queue
             r == Queue'
  <2>3. /\ r \in Seq(CPU) /\ q \in Seq(CPU) /\ Len(r) = Len(q) - 1 /\ Len(q) \in Nat /\ q # <<>>
        /\ \A i \in 1 .. Len(q) - 1 : r[i] = q[i + 1]
    BY <1>6, <1>7, <2>1, <2>2
  <2>4. r = Tail(q)
    <3> HIDE DEF q, r
    <3>1. Tail(q) \in Seq(CPU) /\ Len(Tail(q)) = Len(q) - 1
          /\ \A i \in 1 .. Len(q) - 1 : Tail(q)[i] = q[i + 1]
      BY <2>3
    <3>2. \A i \in 1 .. Len(r) : r[i] = Tail(q)[i]
      BY <2>3, <3>1
    <3> QED BY <2>3, <3>1, <3>2, SeqEqual
  <2> QED BY <2>4
<1>9. (\E d \in CPU : pc[d] \in Inside) /\ (\E d \in CPU : pc[d] \in Inside)' = FALSE
  <2>1. pc'[c] \notin Inside
    BY DEF IInv, TypeOK, AddOwn, Goto, Inside
  <2>2. \A d \in CPU : pc[d] \in Inside => d \in InLine
    BY DEF InLine, Queued
  <2> QED BY <1>2, <1>3, <1>4, <2>1, <2>2
<1> QED BY <1>6, <1>8, <1>9 DEF Fifo!Leave

\* A waiter that sees its turn is the head of the list, and no other is inside.
LEMMA EnterQueue ==
  ASSUME IInv, NEW c \in CPU, SeeTurn(c)
  PROVE  Fifo!Enter(c)
<1>1. /\ c \in InLine /\ ticket[c] = own /\ pc[c] \notin Inside /\ pc'[c] \in Inside
      /\ pc'[c] \in Queued /\ UNCHANGED <<own, next, ticket>>
      /\ \A d \in CPU : d # c => pc'[d] = pc[d]
  BY DEF IInv, TypeOK, SeeTurn, Goto, InLine, Queued, Inside
<1>2. Queue # <<>> /\ Head(Queue) = c
  BY <1>1, QueueMembers
<1>3. ~(\E d \in CPU : pc[d] \in Inside)
  BY <1>1 DEF IInv, Tickets, Holding, InLine, Queued
<1>4. (\E d \in CPU : pc[d] \in Inside)' = TRUE
  BY <1>1
<1>5. Queue' = Queue
  BY <1>1, QuietQueue DEF IInv, TypeOK, InLine
<1> QED BY <1>2, <1>3, <1>4, <1>5 DEF Fifo!Enter

\* The other steps move one CPU between points before the line, or inside.
LEMMA OtherQueue ==
  ASSUME IInv, NEW c \in CPU,
         \/ CallLock(c) \/ LoadOwn(c) \/ LoadNext(c) \/ LoadCpu(c)
         \/ StoreCpu(c) \/ CallUnlock(c) \/ ClearCpu(c)
  PROVE  UNCHANGED Fifo!vars
<1>0. IInv'
  BY QuietInv
<1>1. UNCHANGED <<own, next, ticket>>
  BY DEF CallLock, LoadOwn, LoadNext, LoadCpu, StoreCpu, CallUnlock, ClearCpu
<1>2. pc'[c] # "panic"
  BY <1>0 DEF IInv, Holding
<1>3. /\ pc'[c] \in Queued <=> pc[c] \in Queued
      /\ pc'[c] \in Inside <=> pc[c] \in Inside
      /\ \A d \in CPU : d # c => pc'[d] = pc[d]
  BY <1>2 DEF IInv, TypeOK, CallLock, LoadOwn, LoadNext, LoadCpu, StoreCpu, CallUnlock,
     ClearCpu, Goto, Queued, Inside
<1>4. Queue' = Queue
  BY <1>1, <1>3, QuietQueue DEF IInv, TypeOK
<1> QED BY <1>3, <1>4 DEF Fifo!vars

(* The ticket build serves CPUs in the order in which they took tickets, for *)
(* any number of CPUs and across the wrap of own and next: every step of     *)
(* spin_lock and spin_unlock is a step of the FIFO lock, or leaves it alone. *)
THEOREM TicketImplementsFifoLock == Spec => ImplementsFifoLock
<1>1. Init => Fifo!Init
  <2> SUFFICES ASSUME Init PROVE Fifo!Init
    OBVIOUS
  <2>1. Queue \in Seq(CPU) /\ Len(Queue) = Served /\ Served = 0
    BY InitIInv, QueuePlaces, DistanceGap, GapType, TicketZero
       DEF Init, LineUp, Served, Distance
  <2>2. Queue = <<>>
    <3> HIDE DEF Queue
    <3> QED BY <2>1
  <2> QED BY <2>2 DEF Init, Fifo!Init, Inside
<1>2. IInv /\ [Next]_vars => [Fifo!Next]_(Fifo!vars)
  <2> SUFFICES ASSUME IInv, [Next]_vars PROVE [Fifo!Next]_(Fifo!vars)
    OBVIOUS
  <2>1. CASE UNCHANGED vars
    <3>1. Queue' = Queue
      BY <2>1, QuietQueue DEF IInv, TypeOK, vars
    <3> QED BY <2>1, <3>1 DEF vars, Fifo!vars
  <2>2. CASE Next
    BY <2>2, TakeQueue, LeaveQueue, EnterQueue, OtherQueue DEF Next, Step, Fifo!Next
  <2> QED BY <2>1, <2>2
<1>3. Spec => []IInv
  BY InitIInv, NextIInv, PTL DEF Spec
<1> QED BY <1>1, <1>2, <1>3, PTL DEF Spec, ImplementsFifoLock, Fifo!Spec
=============================================================================
