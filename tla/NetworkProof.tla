---------------------------- MODULE NetworkProof ----------------------------
(***************************************************************************)
(* The receive ring of the network card, for rings of any size and any     *)
(* traffic: the descriptors marked done are those from the driver's tail   *)
(* to the card's head, so the driver, which spins with the kernel lock     *)
(* held, only ever waits for a step the card is about to take.             *)
(*                                                                         *)
(* Then the books of the network server: threads, buffers, mailboxes and   *)
(* the clients' requests.  The operators of SysArch are functions from one *)
(* memory of the server to the next, so the lemmas speak of a memory m;    *)
(* Good is what holds of it between two actions, and each action first     *)
(* shows what its edit of m does, then that the parts of Good survive it.  *)
(*                                                                         *)
(* Then the server's schedule: whom a message wakes, and that each of them *)
(* has run before serve() blocks again.  Flow says where the work of the   *)
(* last message is; a step is described once by what it adds to one        *)
(* semaphore and takes from another (Did), and Flow survives that.         *)
(***************************************************************************)
EXTENDS Network, TLAPS, FiniteSetTheorems, SequenceTheorems,
        WellFoundedInduction

Ring == 0 .. MAXRXDESC - 1

\* How far descriptor i is behind the one after t, which the driver takes next.
Off(i, t) == IF i > t THEN i - t - 1 ELSE i + MAXRXDESC - t - 1

RxType ==
    /\ arrived \in Nat /\ spin \in BOOLEAN
    /\ rx \in [desc : [Ring -> [pkt : Int, dd : BOOLEAN]],
               head : Ring, tail : Ring, marked : BOOLEAN]
DoneUpToHead ==
    \A i \in Ring : rx.desc[i].dd <=> (Off(i, rx.tail) < Off(rx.head, rx.tail) \/ (rx.marked /\ i = rx.head))
MarkedOwned == rx.marked => rx.head # rx.tail
RxInv == RxType /\ DoneUpToHead /\ MarkedOwned /\ (spin => RxReady)

\* The descriptor after x, going round the ring.
LEMMA NextMod ==
  ASSUME NEW x \in Ring
  PROVE  (x + 1) % MAXRXDESC = IF x + 1 = MAXRXDESC THEN 0 ELSE x + 1
<1>1. CASE x + 1 = MAXRXDESC
  BY <1>1, Rings DEF Ring
<1>2. CASE x + 1 # MAXRXDESC
  <2>1. x + 1 \in Int /\ 0 <= x + 1 /\ x + 1 < MAXRXDESC /\ MAXRXDESC \in Int
    BY <1>2, Rings DEF Ring
  <2> QED BY <1>2, <2>1
<1> QED BY <1>1, <1>2

\* When the driver takes a descriptor, every other one is one nearer.
LEMMA OffNext ==
  ASSUME NEW i \in Ring, NEW t \in Ring, NEW u,
         u = IF t + 1 = MAXRXDESC THEN 0 ELSE t + 1, i # u
  PROVE  Off(i, u) = Off(i, t) - 1
  BY Rings DEF Off, Ring

\* The descriptor after h, which is not t, is one further.
LEMMA OffHead ==
  ASSUME NEW h \in Ring, NEW t \in Ring, h # t, NEW u,
         u = IF h + 1 = MAXRXDESC THEN 0 ELSE h + 1
  PROVE  Off(u, t) = Off(h, t) + 1
  BY Rings DEF Off, Ring

\* Descriptors have different distances.
LEMMA OffOrder ==
  ASSUME NEW i \in Ring, NEW h \in Ring, NEW t \in Ring
  PROVE  /\ Off(i, t) \in Int /\ Off(h, t) \in Int
         /\ Off(i, t) < Off(h, t) + 1 <=> (Off(i, t) < Off(h, t) \/ i = h)
<1>1. Off(i, t) \in Int /\ Off(h, t) \in Int
  BY Rings DEF Off, Ring
<1>2. Off(i, t) = Off(h, t) => i = h
  BY Rings DEF Off, Ring
<1> QED BY <1>1, <1>2

\* At E1000_attach the card has every descriptor and none is done.
LEMMA RxInit == Init => RxInv
<1> SUFFICES ASSUME Init PROVE RxInv
  OBVIOUS
<1>1. /\ rx = [desc |-> [i \in Ring |-> [pkt |-> NoPacket, dd |-> FALSE]],
               head |-> 1, tail |-> 0, marked |-> FALSE]
      /\ spin = FALSE /\ arrived = 0
  BY DEF Init, E1000Attach, Ring
<1>2. 0 \in Ring /\ 1 \in Ring /\ NoPacket \in Int
  BY Rings DEF Ring
<1>3. RxType
  BY <1>1, <1>2 DEF RxType
<1>4. \A i \in Ring : ~rx.desc[i].dd /\ ~(Off(i, 0) < Off(1, 0))
  BY <1>1, Rings DEF Off, Ring
<1>5. DoneUpToHead
  BY <1>1, <1>4 DEF DoneUpToHead
<1> QED BY <1>1, <1>3, <1>5 DEF RxInv, MarkedOwned

\* Only the driver's receive and the card's receive steps touch the receive ring.
RxSame == UNCHANGED <<rx, spin, arrived>>
LEMMA RxSteps ==
  ASSUME [Next]_vars
  PROVE  RxSame \/ E1000Spin \/ E1000Receive \/ CardReceive \/ CardRxNext
<1>1. CASE UNCHANGED vars
  BY <1>1 DEF vars, cardVars, RxSame
<1>2. CASE Server
  BY <1>2 DEF Server, MainServe, Fetch, LowLevelOutput, ProcessTimer, Send, Sending, Recv,
     JifInput, Deliver, Reply, Others, cardVars, RxSame
<1>3. CASE Calls
  BY <1>3 DEF Calls, Call, CallWithoutPage, cardVars, RxSame
<1>4. CASE \E c \in Client : ClientRecv(c)
  BY <1>4 DEF ClientRecv, cardVars, RxSame
<1>5. CASE OutputSend
  BY <1>5 DEF OutputSend, E1000Send, RxSame
<1>6. CASE InputPoll
  BY <1>6 DEF InputPoll
<1>7. CASE InputSend \/ TimerRing \/ TimerSend
  BY <1>7 DEF InputSend, TimerRing, TimerSend, cardVars, RxSame
<1>8. CASE Cards
  BY <1>8 DEF Cards, Card, CardTransmit, CardTxNext, RxSame
<1> QED BY <1>1, <1>2, <1>3, <1>4, <1>5, <1>6, <1>7, <1>8 DEF Next

\* The driver and the card keep the shape of the receive ring.
LEMMA RxNext == RxInv /\ [Next]_vars => RxInv'
<1> SUFFICES ASSUME RxInv, [Next]_vars PROVE RxInv'
  OBVIOUS
<1> USE Rings
<1>t. RxType
  BY DEF RxInv
<1>d. /\ rx.desc \in [Ring -> [pkt : Int, dd : BOOLEAN]] /\ rx.head \in Ring
      /\ rx.tail \in Ring /\ rx.marked \in BOOLEAN
  BY <1>t DEF RxType
<1>r. Receiving = IF rx.tail + 1 = MAXRXDESC THEN 0 ELSE rx.tail + 1
  BY <1>d, NextMod DEF Receiving
<1>p. Receiving \in Ring
  BY <1>d, <1>r DEF Ring
<1>1. CASE RxSame
  BY <1>1 DEF RxSame, RxInv, RxType, DoneUpToHead, MarkedOwned, Off, RxReady, Receiving
<1>2. CASE E1000Spin
  BY <1>2 DEF E1000Spin, RxInv, RxType, DoneUpToHead, MarkedOwned, Off, RxReady, Receiving
<1>3. CASE E1000Receive
  <2>1. /\ rx'.desc = [rx.desc EXCEPT ![Receiving].dd = FALSE] /\ rx'.head = rx.head
        /\ rx'.tail = Receiving /\ rx'.marked = rx.marked
    BY <1>3, <1>t DEF E1000Receive, RxType
  <2>2. RxType'
    <3>1. rx' \in [desc : [Ring -> [pkt : Int, dd : BOOLEAN]],
                   head : Ring, tail : Ring, marked : BOOLEAN]
      BY <1>3, <1>d, <1>p, <1>t DEF E1000Receive, RxType
    <3> QED BY <1>3, <1>t, <3>1 DEF E1000Receive, RxType
  <2>3. DoneUpToHead'
    <3> SUFFICES ASSUME NEW i \in Ring
                 PROVE  rx'.desc[i].dd <=> (Off(i, rx'.tail) < Off(rx'.head, rx'.tail) \/ (rx'.marked /\ i = rx'.head))
      BY DEF DoneUpToHead
    <3>1. rx.desc[i].dd <=> (Off(i, rx.tail) < Off(rx.head, rx.tail) \/ (rx.marked /\ i = rx.head))
      BY DEF RxInv, DoneUpToHead
    <3>2. rx.head # Receiving
      BY <1>3 DEF E1000Receive
    <3>3. rx'.desc[i].dd = IF i = Receiving THEN FALSE ELSE rx.desc[i].dd
      BY <1>d, <1>p, <2>1
    <3>4. Off(rx.head, Receiving) = Off(rx.head, rx.tail) - 1
      BY <1>d, <1>r, <3>2, OffNext
    <3>5. CASE i = Receiving
      <4>1. Off(i, Receiving) = MAXRXDESC - 1 /\ Off(rx.head, Receiving) < MAXRXDESC
        BY <1>d, <1>p, <3>5 DEF Off, Ring
      <4>2. ~(Off(i, Receiving) < Off(rx.head, Receiving))
        BY <1>d, <1>p, <3>5, <4>1 DEF Off, Ring
      <4> QED BY <2>1, <3>2, <3>3, <3>5, <4>2
    <3>6. CASE i # Receiving
      <4>1. Off(i, Receiving) = Off(i, rx.tail) - 1
        BY <1>r, <1>d, <3>6, OffNext
      <4>2. Off(i, Receiving) < Off(rx.head, Receiving) <=> Off(i, rx.tail) < Off(rx.head, rx.tail)
        BY <1>d, <3>4, <4>1, OffOrder
      <4> QED BY <2>1, <3>1, <3>3, <3>6, <4>2
    <3> QED BY <3>5, <3>6
  <2>4. MarkedOwned' /\ ~spin'
    BY <1>3, <2>1 DEF E1000Receive, MarkedOwned
  <2> QED BY <2>2, <2>3, <2>4 DEF RxInv
<1>4. CASE CardReceive
  <2>1. CASE rx.head = rx.tail
    BY <1>4, <2>1 DEF CardReceive, RxInv, RxType, DoneUpToHead, MarkedOwned, Off, RxReady, Receiving
  <2>2. CASE rx.head # rx.tail
    <3>1. /\ rx' = [rx EXCEPT !.desc[rx.head] = [pkt |-> arrived + 1, dd |-> TRUE], !.marked = TRUE]
          /\ arrived' = arrived + 1 /\ spin' = spin /\ ~rx.marked
      BY <1>4, <2>2 DEF CardReceive
    <3>2. /\ rx'.desc = [rx.desc EXCEPT ![rx.head] = [pkt |-> arrived + 1, dd |-> TRUE]]
          /\ rx'.head = rx.head /\ rx'.tail = rx.tail /\ rx'.marked
      BY <1>t, <3>1 DEF RxType
    <3>3. RxType'
      <4>1. rx'.desc \in [Ring -> [pkt : Int, dd : BOOLEAN]]
        BY <1>d, <1>t, <3>2 DEF RxType
      <4>2. rx' = [rx EXCEPT !.desc = rx'.desc, !.marked = TRUE]
        BY <1>t, <3>1 DEF RxType
      <4>3. rx' \in [desc : [Ring -> [pkt : Int, dd : BOOLEAN]],
                     head : Ring, tail : Ring, marked : BOOLEAN]
        BY <1>t, <4>1, <4>2 DEF RxType
      <4>4. arrived' \in Nat /\ spin' \in BOOLEAN
        BY <1>t, <3>1 DEF RxType
      <4> QED BY <4>3, <4>4 DEF RxType
    <3>4. DoneUpToHead'
      BY <1>d, <3>1, <3>2 DEF RxInv, DoneUpToHead, Off
    <3>5. MarkedOwned' /\ (spin' => RxReady')
      BY <1>d, <1>p, <2>2, <3>1, <3>2 DEF RxInv, MarkedOwned, RxReady, Receiving
    <3> QED BY <3>3, <3>4, <3>5 DEF RxInv
  <2> QED BY <2>1, <2>2
<1>5. CASE CardRxNext
  <2>1. /\ rx' = [rx EXCEPT !.head = (rx.head + 1) % MAXRXDESC, !.marked = FALSE]
        /\ arrived' = arrived /\ spin' = spin /\ rx.marked
    BY <1>5 DEF CardRxNext
  <2>2. /\ rx'.desc = rx.desc /\ rx'.tail = rx.tail /\ rx'.marked = FALSE
        /\ rx'.head = (rx.head + 1) % MAXRXDESC
    BY <1>t, <2>1 DEF RxType
  <2>3. rx'.head = IF rx.head + 1 = MAXRXDESC THEN 0 ELSE rx.head + 1
    BY <1>d, <2>2, NextMod
  <2>4. rx'.head \in Ring
    BY <1>d, <2>3 DEF Ring
  <2>5. RxType'
    BY <1>d, <1>t, <2>1, <2>2, <2>4 DEF RxType
  <2>6. DoneUpToHead'
    <3> SUFFICES ASSUME NEW i \in Ring
                 PROVE  rx'.desc[i].dd <=> (Off(i, rx'.tail) < Off(rx'.head, rx'.tail) \/ (rx'.marked /\ i = rx'.head))
      BY DEF DoneUpToHead
    <3>1. rx.desc[i].dd <=> (Off(i, rx.tail) < Off(rx.head, rx.tail) \/ i = rx.head)
      BY <2>1 DEF RxInv, DoneUpToHead
    <3>2. rx.head # rx.tail
      BY <2>1 DEF RxInv, MarkedOwned
    <3>3. Off(i, rx'.tail) = Off(i, rx.tail) /\ Off(rx'.head, rx'.tail) = Off(rx.head, rx.tail) + 1
      BY <1>d, <2>2, <2>3, <3>2, OffHead
    <3>4. Off(i, rx.tail) < Off(rx.head, rx.tail) + 1 <=> (Off(i, rx.tail) < Off(rx.head, rx.tail) \/ i = rx.head)
      BY <1>d, OffOrder
    <3> QED BY <2>2, <3>1, <3>3, <3>4
  <2>7. MarkedOwned' /\ (spin' => RxReady')
    BY <2>1, <2>2 DEF RxInv, MarkedOwned, RxReady, Receiving
  <2> QED BY <2>5, <2>6, <2>7 DEF RxInv
<1> QED BY <1>1, <1>2, <1>3, <1>4, <1>5, RxSteps

\* A descriptor that is done and still at the card's head is a marked one.
LEMMA RxShort == RxInv => SpinIsShort
<1> SUFFICES ASSUME RxInv, spin, rx.head = Receiving PROVE rx.marked
  BY DEF SpinIsShort, RxInv
<1>1. rx.head \in Ring
  BY DEF RxInv, RxType
<1>2. Off(rx.head, rx.tail) \in Int
  BY <1>1, Rings DEF RxInv, RxType, Off, Ring
<1>3. rx.desc[rx.head].dd <=> (Off(rx.head, rx.tail) < Off(rx.head, rx.tail) \/ rx.marked)
  BY <1>1 DEF RxInv, DoneUpToHead
<1> QED BY <1>2, <1>3 DEF RxInv, RxReady

(* The loop of E1000_receive (kern/e1000.c:160), in which a CPU holds the    *)
(* kernel lock, waits only for a step the card is about to take: for every   *)
(* number of descriptors, buffers, clients and packets.                      *)
THEOREM ReceiveSpinIsShort == Spec => []SpinIsShort
<1>1. Spec => []RxInv
  BY RxInit, RxNext, PTL DEF Spec
<1> QED BY <1>1, RxShort, PTL

(* The descriptors marked done are, for every ring, those between the        *)
(* driver's tail and the card's head (kern/e1000.c:145-174).                 *)
THEOREM DoneBetweenTailAndHead == Spec => []DoneUpToHead
<1>1. Spec => []RxInv
  BY RxInit, RxNext, PTL DEF Spec
<1>2. RxInv => DoneUpToHead
  BY DEF RxInv
<1> QED BY <1>1, <1>2, PTL
-----------------------------------------------------------------------------
(* The memory of the server, whatever its threads do.                      *)
Slots == 0 .. MBOXSLOTS - 1
Pcs == {"none", "serve", "timer", "fetch", "output", "send", "sending", "recv", "reply",
        "input", "deliver"}
SemType == [counter : Nat, waiters : Nat]
BoxType == [head : Slots \cup {-1}, nextq : Slots, msg : [Slots -> Int]]
ReqType == [pc : Pcs, whom : Boxes, pkt : Int, page : {0} \cup Page]
Memory ==
    [q : Seq(Thread), cur : Thread, on : [Thread -> Sems(Boxes) \cup {NoSem}],
     wake : [Thread -> BOOLEAN], sem : [Sems(Boxes) -> SemType], box : [Boxes -> BoxType],
     req : [Thread -> ReqType], buse : SUBSET Buf, va : Buf \cup {0}, yields : Nat]

\* The running thread and the queue hold each thread of T once; serve() waits for nobody.
Line(q, c, T) ==
    /\ \A i, j \in DOMAIN q : q[i] = q[j] => i = j
    /\ c \notin {q[i] : i \in DOMAIN q} /\ {q[i] : i \in DOMAIN q} \cup {c} = T
Sched(m, T) == Line(m.q, m.cur, T) /\ m.on[Main] = NoSem /\ Main \in T

\* What only serve(), requests and mailboxes change.
Rest(m) == <<m.sem, m.box, m.req, m.buse, m.va>>

LEMMA Least == ASSUME NEW T \in SUBSET Nat, T # {} PROVE \E x \in T : \A y \in T : x <= y
<1> DEFINE R == OpToRel(<, Nat)
<1>1. IsWellFoundedOn(R, Nat)
  BY NatLessThanWellFounded
<1>2. \A x, y \in T : <<y, x>> \in R <=> y < x
  BY DEF OpToRel
<1> HIDE DEF R
<1>3. PICK x \in T : \A y \in T : ~ (<<y, x>> \in R)
  BY <1>1, WFMin
<1>4. \A y \in T : ~(y < x) /\ x \in Nat /\ y \in Nat
  BY <1>2, <1>3
<1> QED BY <1>4

\* A line from which one is taken out, the others in order from there.
LEMMA Rotation ==
  ASSUME NEW S, NEW line \in Seq(S), NEW k \in DOMAIN line,
         \A i, j \in DOMAIN line : line[i] = line[j] => i = j
  PROVE  LET r == SubSeq(line, k + 1, Len(line)) \o SubSeq(line, 1, k - 1) IN
         /\ r \in Seq(S)
         /\ Line(r, line[k], {line[i] : i \in DOMAIN line})
         /\ Len(r) = Len(line) - 1
         /\ \A i \in 1 .. Len(line) - 1 :
               r[i] = IF i <= Len(line) - k THEN line[k + i] ELSE line[i - (Len(line) - k)]
<1> DEFINE a == SubSeq(line, k + 1, Len(line))
           b == SubSeq(line, 1, k - 1)
           r == a \o b
           n1 == Len(line) - k
<1>1. DOMAIN line = 1 .. Len(line) /\ Len(line) \in Nat /\ k \in 1 .. Len(line)
  OBVIOUS
<1>2. a \in Seq(S) /\ Len(a) = n1 /\ \A i \in 1 .. n1 : a[i] = line[k + i]
  <2>1. k + 1 \in Int /\ Len(line) \in Int /\ \A i \in k + 1 .. Len(line) : line[i] \in S
    BY <1>1
  <2>2. /\ a \in Seq(S) /\ Len(a) = IF k + 1 <= Len(line) THEN Len(line) - (k + 1) + 1 ELSE 0
        /\ \A i \in 1 .. Len(line) - (k + 1) + 1 : a[i] = line[k + 1 + i - 1]
    BY <2>1, SubSeqProperties
  <2> HIDE DEF a
  <2>3. Len(a) = n1
    BY <1>1, <2>2
  <2>4. ASSUME NEW i \in 1 .. n1 PROVE a[i] = line[k + i]
    <3>1. i \in 1 .. Len(line) - (k + 1) + 1 /\ k + 1 + i - 1 = k + i
      BY <1>1
    <3> QED BY <2>2, <3>1
  <2> QED BY <2>2, <2>3, <2>4
<1>3. b \in Seq(S) /\ Len(b) = k - 1 /\ \A i \in 1 .. k - 1 : b[i] = line[i]
  <2>1. k - 1 \in Int /\ 1 \in Int /\ \A i \in 1 .. k - 1 : line[i] \in S
    BY <1>1
  <2>2. /\ b \in Seq(S) /\ Len(b) = IF 1 <= k - 1 THEN k - 1 - 1 + 1 ELSE 0
        /\ \A i \in 1 .. k - 1 - 1 + 1 : b[i] = line[1 + i - 1]
    BY <2>1, SubSeqProperties
  <2> HIDE DEF b
  <2> QED BY <1>1, <2>2
<1> HIDE DEF a, b
<1>4. /\ r \in Seq(S) /\ Len(r) = Len(line) - 1 /\ DOMAIN r = 1 .. Len(line) - 1
      /\ \A i \in 1 .. Len(line) - 1 : r[i] = IF i <= n1 THEN line[k + i] ELSE line[i - n1]
  <2>1. /\ r \in Seq(S) /\ Len(r) = Len(a) + Len(b)
        /\ \A i \in 1 .. Len(a) + Len(b) : r[i] = IF i <= Len(a) THEN a[i] ELSE b[i - Len(a)]
    BY <1>2, <1>3, ConcatProperties
  <2> HIDE DEF r
  <2>2. Len(a) + Len(b) = Len(line) - 1 /\ Len(a) = n1
    BY <1>1, <1>2, <1>3
  <2>3. ASSUME NEW i \in 1 .. Len(line) - 1
        PROVE  r[i] = IF i <= n1 THEN line[k + i] ELSE line[i - n1]
    <3>1. r[i] = IF i <= n1 THEN a[i] ELSE b[i - n1]
      BY <2>1, <2>2
    <3>2. i <= n1 => i \in 1 .. n1
      BY <1>1
    <3>3. ~(i <= n1) => i - n1 \in 1 .. k - 1
      BY <1>1
    <3> QED BY <1>2, <1>3, <3>1, <3>2, <3>3
  <2> QED BY <2>1, <2>2, <2>3
<1> HIDE DEF r
<1>5. ASSUME NEW i \in DOMAIN r
      PROVE  \E j \in DOMAIN line \ {k} : r[i] = line[j] /\ j = IF i <= n1 THEN k + i ELSE i - n1
  <2>1. r[i] = IF i <= n1 THEN line[k + i] ELSE line[i - n1]
    BY <1>4
  <2>2. i <= n1 => k + i \in DOMAIN line \ {k}
    BY <1>1, <1>4
  <2>3. ~(i <= n1) => i - n1 \in DOMAIN line \ {k}
    BY <1>1, <1>4
  <2> QED BY <2>1, <2>2, <2>3
<1>6. ASSUME NEW j \in DOMAIN line \ {k} PROVE \E i \in DOMAIN r : r[i] = line[j]
  <2>1. CASE j > k
    <3>1. j - k \in 1 .. Len(line) - 1 /\ j - k <= n1 /\ k + (j - k) = j
      BY <1>1, <2>1
    <3> QED BY SMTT(20), <1>4, <3>1
  <2>2. CASE j < k
    <3>1. j + n1 \in 1 .. Len(line) - 1 /\ ~(j + n1 <= n1) /\ j + n1 - n1 = j
      BY <1>1, <2>2
    <3> QED BY SMTT(20), <1>4, <3>1
  <2> QED BY <1>1, <2>1, <2>2
<1>7. ASSUME NEW i \in DOMAIN r, NEW j \in DOMAIN r, r[i] = r[j] PROVE i = j
  <2>1. PICK x \in DOMAIN line \ {k} : r[i] = line[x] /\ x = IF i <= n1 THEN k + i ELSE i - n1
    BY <1>5
  <2>2. PICK y \in DOMAIN line \ {k} : r[j] = line[y] /\ y = IF j <= n1 THEN k + j ELSE j - n1
    BY <1>5
  <2>3. x = y
    BY <1>7, <2>1, <2>2
  <2> QED BY SMTT(20), <1>1, <1>4, <2>1, <2>2, <2>3
<1>8. Line(r, line[k], {line[i] : i \in DOMAIN line})
  BY <1>5, <1>6, <1>7 DEF Line
<1> QED BY <1>4, <1>8 DEF a, b, r

\* thread_yield and thread_halt run a thread that can go on: serve() always can.
LEMMA DispatchKeeps ==
  ASSUME NEW m \in Memory, m.on[Main] = NoSem, NEW line \in Seq(Thread),
         \A i, j \in DOMAIN line : line[i] = line[j] => i = j,
         Main \in {line[i] : i \in DOMAIN line}
  PROVE  /\ Dispatch(m, line) \in Memory
         /\ Sched(Dispatch(m, line), {line[i] : i \in DOMAIN line})
         /\ Rest(Dispatch(m, line)) = Rest(m)
<1> DEFINE Least1(k) == Ready(m, line[k]) /\ \A j \in 1 .. k - 1 : ~Ready(m, line[j])
           k == CHOOSE k \in DOMAIN line : Least1(k)
<1>1. \E x \in DOMAIN line : Least1(x)
  <2> DEFINE T == {x \in DOMAIN line : Ready(m, line[x])}
  <2>1. DOMAIN line = 1 .. Len(line) /\ Len(line) \in Nat
    OBVIOUS
  <2>2. T \in SUBSET Nat /\ T # {}
    BY <2>1 DEF Ready
  <2>3. PICK x \in T : \A y \in T : x <= y
    BY <2>2, Least
  <2>4. \A j \in 1 .. x - 1 : j \in DOMAIN line /\ j \notin T
    BY <2>1, <2>3
  <2> QED BY <2>3, <2>4
<1>2. k \in DOMAIN line
  BY <1>1
<1> DEFINE r == SubSeq(line, k + 1, Len(line)) \o SubSeq(line, 1, k - 1)
<1>3. /\ Dispatch(m, line) = [m EXCEPT !.cur = line[k], !.q = r,
                                       !.on[line[k]] = NoSem, !.wake[line[k]] = FALSE]
  BY DEF Dispatch
<1>4. r \in Seq(Thread) /\ Line(r, line[k], {line[i] : i \in DOMAIN line})
  <2> HIDE DEF k
  <2> QED BY <1>2, Rotation
<1> HIDE DEF k, r
<1>5. line[k] \in Thread
  BY <1>2
<1>6. /\ Dispatch(m, line).q = r /\ Dispatch(m, line).cur = line[k]
      /\ Dispatch(m, line).on[Main] = NoSem /\ Rest(Dispatch(m, line)) = Rest(m)
  BY <1>3, <1>5 DEF Memory, Rest
<1>7. Dispatch(m, line) \in Memory
  <2>1. /\ [m.on EXCEPT ![line[k]] = NoSem] \in [Thread -> Sems(Boxes) \cup {NoSem}]
        /\ [m.wake EXCEPT ![line[k]] = FALSE] \in [Thread -> BOOLEAN]
    BY DEF Memory
  <2>2. Dispatch(m, line) = [m EXCEPT !.cur = line[k], !.q = r,
           !.on = [m.on EXCEPT ![line[k]] = NoSem], !.wake = [m.wake EXCEPT ![line[k]] = FALSE]]
    BY <1>3 DEF Memory
  <2> QED BY <1>4, <1>5, <2>1, <2>2 DEF Memory
<1> QED BY <1>4, <1>6, <1>7 DEF Sched

\* The queue, and the running thread after it.
LEMMA Appended ==
  ASSUME NEW S, NEW q \in Seq(S), NEW c \in S, NEW T, Line(q, c, T)
  PROVE  /\ Append(q, c) \in Seq(S)
         /\ \A i, j \in DOMAIN Append(q, c) : Append(q, c)[i] = Append(q, c)[j] => i = j
         /\ {Append(q, c)[i] : i \in DOMAIN Append(q, c)} = T
<1> DEFINE l == Append(q, c)
<1>1. DOMAIN q = 1 .. Len(q) /\ Len(q) \in Nat
  OBVIOUS
<1>2. /\ l \in Seq(S) /\ DOMAIN l = 1 .. Len(q) + 1 /\ l[Len(q) + 1] = c
      /\ \A i \in 1 .. Len(q) : l[i] = q[i]
  OBVIOUS
<1> HIDE DEF l
<1>3. \A i \in DOMAIN l : i \in DOMAIN q \/ i = Len(q) + 1
  BY <1>1, <1>2
<1>4. \A i, j \in DOMAIN l : l[i] = l[j] => i = j
  BY <1>1, <1>2, <1>3 DEF Line
<1>5. {l[i] : i \in DOMAIN l} = {q[i] : i \in DOMAIN q} \cup {c}
  <2>1. \A i \in DOMAIN q : i \in DOMAIN l /\ l[i] = q[i]
    BY <1>1, <1>2
  <2>2. Len(q) + 1 \in DOMAIN l
    BY <1>1, <1>2
  <2> QED BY <1>2, <1>3, <2>1, <2>2
<1> QED BY <1>2, <1>4, <1>5 DEF Line, l

LEMMA YieldKeeps ==
  ASSUME NEW m \in Memory, NEW T, Sched(m, T)
  PROVE  /\ ThreadYield(m) \in Memory /\ Sched(ThreadYield(m), T)
         /\ Rest(ThreadYield(m)) = Rest(m)
<1>1. m.q \in Seq(Thread) /\ m.cur \in Thread
  BY DEF Memory
<1>2. PICK line \in Seq(Thread) : line = Append(m.q, m.cur)
  BY <1>1, AppendProperties
<1>3. Line(m.q, m.cur, T)
  BY DEF Sched
<1>4. /\ \A i, j \in DOMAIN line : line[i] = line[j] => i = j
      /\ {line[i] : i \in DOMAIN line} = T
  <2>1. LET l == Append(m.q, m.cur) IN
        /\ \A i, j \in DOMAIN l : l[i] = l[j] => i = j
        /\ {l[i] : i \in DOMAIN l} = T
    BY <1>1, <1>3, Appended
  <2> QED BY <1>2, <2>1
<1> QED BY <1>2, <1>4, DispatchKeeps DEF ThreadYield, Sched

\* The running thread, not that of serve(), ends.
LEMMA HaltKeeps ==
  ASSUME NEW m \in Memory, NEW T, Sched(m, T), m.cur # Main
  PROVE  /\ ThreadHalt(m) \in Memory /\ Sched(ThreadHalt(m), T \ {m.cur})
         /\ Rest(ThreadHalt(m)) = Rest(m)
<1>1. m.q \in Seq(Thread)
  BY DEF Memory
<1>2. PICK line \in Seq(Thread) : line = m.q
  BY <1>1
<1>3. /\ \A i, j \in DOMAIN line : line[i] = line[j] => i = j
      /\ {line[i] : i \in DOMAIN line} = T \ {m.cur}
  BY <1>2 DEF Sched, Line
<1>4. /\ Dispatch(m, line) \in Memory
      /\ Sched(Dispatch(m, line), {line[i] : i \in DOMAIN line})
      /\ Rest(Dispatch(m, line)) = Rest(m)
  <2>1. m.on[Main] = NoSem /\ Main \in {line[i] : i \in DOMAIN line}
    BY <1>3 DEF Sched
  <2> QED BY <1>3, <2>1, DispatchKeeps
<1> QED BY <1>2, <1>3, <1>4 DEF ThreadHalt

LEMMA CreateKeeps ==
  ASSUME NEW m \in Memory, NEW T, Sched(m, T), NEW t \in Thread, t \notin T
  PROVE  /\ ThreadCreate(m, t) \in Memory /\ Sched(ThreadCreate(m, t), T \cup {t})
         /\ Rest(ThreadCreate(m, t)) = Rest(m)
<1>1. m.q \in Seq(Thread) /\ m.cur \in T
  BY DEF Memory, Sched, Line
<1>2. PICK l \in Seq(Thread) : l = Append(m.q, t)
  BY <1>1, AppendProperties
<1>3. ThreadCreate(m, t) = [m EXCEPT !.q = l]
  BY <1>2 DEF ThreadCreate, Memory
<1>4. Line(m.q, t, {m.q[i] : i \in DOMAIN m.q} \cup {t})
  BY DEF Sched, Line
<1>5. /\ \A i, j \in DOMAIN l : l[i] = l[j] => i = j
      /\ {l[i] : i \in DOMAIN l} = {m.q[i] : i \in DOMAIN m.q} \cup {t}
  BY <1>1, <1>2, <1>4, Appended
<1>6. /\ ThreadCreate(m, t) \in Memory /\ ThreadCreate(m, t).q = l
      /\ ThreadCreate(m, t).cur = m.cur /\ ThreadCreate(m, t).on = m.on
      /\ Rest(ThreadCreate(m, t)) = Rest(m)
  BY <1>3 DEF Memory, Rest
<1>7. Line(l, m.cur, T \cup {t})
  BY <1>1, <1>5 DEF Sched, Line
<1> QED BY <1>6, <1>7 DEF Sched

\* A signal counts, and may wake threads.
LEMMA SignalKeeps ==
  ASSUME NEW m \in Memory, NEW s \in Sems(Boxes), NEW T, Sched(m, T)
  PROVE  /\ SemSignal(m, s) \in Memory /\ Sched(SemSignal(m, s), T)
         /\ SemSignal(m, s).cur = m.cur
         /\ SemSignal(m, s).box = m.box /\ SemSignal(m, s).req = m.req
         /\ SemSignal(m, s).buse = m.buse /\ SemSignal(m, s).va = m.va
         /\ \A r \in Sems(Boxes) : SemSignal(m, s).sem[r].counter =
               IF r = s THEN m.sem[r].counter + 1 ELSE m.sem[r].counter
<1> DEFINE a == [m EXCEPT !.sem[s].counter = @ + 1]
           b == [a EXCEPT !.sem[s].waiters = 0]
<1>1. m.sem \in [Sems(Boxes) -> SemType]
  BY DEF Memory
<1>2. /\ a \in Memory /\ a.q = m.q /\ a.cur = m.cur /\ a.on = m.on /\ a.box = m.box
      /\ a.req = m.req /\ a.buse = m.buse /\ a.va = m.va
      /\ \A r \in Sems(Boxes) : a.sem[r].counter =
            IF r = s THEN m.sem[r].counter + 1 ELSE m.sem[r].counter
  <2>1. a = [m EXCEPT !.sem = [m.sem EXCEPT ![s].counter = @ + 1]]
    BY DEF Memory
  <2>2. /\ [m.sem EXCEPT ![s].counter = @ + 1] \in [Sems(Boxes) -> SemType]
        /\ \A r \in Sems(Boxes) : [m.sem EXCEPT ![s].counter = @ + 1][r].counter =
              IF r = s THEN m.sem[r].counter + 1 ELSE m.sem[r].counter
    BY <1>1 DEF SemType
  <2> HIDE DEF a
  <2> QED BY <2>1, <2>2 DEF Memory
<1> HIDE DEF a
<1>3. /\ b \in Memory /\ b.q = m.q /\ b.cur = m.cur /\ b.on = m.on /\ b.box = m.box
      /\ b.req = m.req /\ b.buse = m.buse /\ b.va = m.va
      /\ \A r \in Sems(Boxes) : b.sem[r].counter = a.sem[r].counter
  <2>1. b = [a EXCEPT !.sem = [a.sem EXCEPT ![s].waiters = 0]]
    BY <1>2 DEF Memory
  <2>2. a.sem \in [Sems(Boxes) -> SemType]
    BY <1>2 DEF Memory
  <2>3. /\ [a.sem EXCEPT ![s].waiters = 0] \in [Sems(Boxes) -> SemType]
        /\ \A r \in Sems(Boxes) : [a.sem EXCEPT ![s].waiters = 0][r].counter = a.sem[r].counter
    BY <2>2 DEF SemType
  <2> HIDE DEF b
  <2> QED BY <1>2, <2>1, <2>3 DEF Memory
<1> HIDE DEF b
<1>4. PICK c \in Memory : c = SemSignal(m, s) /\ (c = a \/ \E w \in [Thread -> BOOLEAN] : c = [b EXCEPT !.wake = w])
  <2>1. SemSignal(m, s) = IF a.sem[s].waiters = 0 THEN a ELSE ThreadWakeup(b, s)
    BY DEF SemSignal, a, b
  <2>2. ASSUME NEW w \in [Thread -> BOOLEAN] PROVE [b EXCEPT !.wake = w] \in Memory
    BY <1>3 DEF Memory
  <2> DEFINE w == [t \in DOMAIN b.wake |-> b.wake[t] \/ (t \in InQueue(b) /\ b.on[t] = s)]
  <2>3. ThreadWakeup(b, s) = [b EXCEPT !.wake = w]
    BY <1>3 DEF Memory, ThreadWakeup
  <2>4. w \in [Thread -> BOOLEAN]
    BY <1>3 DEF Memory
  <2> QED BY <1>2, <2>1, <2>2, <2>3, <2>4
<1>5. /\ c.q = m.q /\ c.cur = m.cur /\ c.on = m.on /\ c.box = m.box
      /\ c.req = m.req /\ c.buse = m.buse /\ c.va = m.va
      /\ \A r \in Sems(Boxes) : c.sem[r].counter = a.sem[r].counter
  BY <1>2, <1>3, <1>4 DEF Memory
<1>6. Sched(c, T)
  BY <1>5 DEF Sched
<1> QED BY <1>2, <1>4, <1>5, <1>6

\* A thread, not that of serve(), begins to wait.
LEMMA BlockKeeps ==
  ASSUME NEW m \in Memory, NEW s \in Sems(Boxes), NEW T, Sched(m, T), m.cur # Main
  PROVE  /\ SemBlock(m, s) \in Memory /\ Sched(SemBlock(m, s), T)
         /\ SemBlock(m, s).box = m.box /\ SemBlock(m, s).req = m.req
         /\ SemBlock(m, s).buse = m.buse /\ SemBlock(m, s).va = m.va
         /\ \A r \in Sems(Boxes) : SemBlock(m, s).sem[r].counter = m.sem[r].counter
<1> DEFINE a == [m EXCEPT !.sem[s].waiters = 1, !.on[m.cur] = s, !.wake[m.cur] = FALSE]
<1>1. a = [m EXCEPT !.sem = [m.sem EXCEPT ![s].waiters = 1], !.on = [m.on EXCEPT ![m.cur] = s],
                    !.wake = [m.wake EXCEPT ![m.cur] = FALSE]]
  BY DEF Memory
<1>2. /\ [m.sem EXCEPT ![s].waiters = 1] \in [Sems(Boxes) -> SemType]
      /\ \A r \in Sems(Boxes) : [m.sem EXCEPT ![s].waiters = 1][r].counter = m.sem[r].counter
  BY DEF Memory, SemType
<1>3. /\ [m.on EXCEPT ![m.cur] = s] \in [Thread -> Sems(Boxes) \cup {NoSem}]
      /\ [m.on EXCEPT ![m.cur] = s][Main] = m.on[Main]
      /\ [m.wake EXCEPT ![m.cur] = FALSE] \in [Thread -> BOOLEAN]
  BY DEF Memory, Thread
<1>4. SemBlock(m, s) = ThreadYield(a)
  BY DEF SemBlock
<1> HIDE DEF a
<1>5. /\ a \in Memory /\ a.q = m.q /\ a.cur = m.cur /\ a.on[Main] = m.on[Main] /\ a.box = m.box
      /\ a.req = m.req /\ a.buse = m.buse /\ a.va = m.va
      /\ \A r \in Sems(Boxes) : a.sem[r].counter = m.sem[r].counter
  BY <1>1, <1>2, <1>3 DEF Memory
<1>6. Sched(a, T)
  BY <1>5 DEF Sched
<1> QED BY <1>4, <1>5, <1>6, YieldKeeps DEF Rest

(* Mailboxes: from head, Count(x) messages, going round the slots.         *)
Count(x) == IF x.head = -1 THEN 0
            ELSE IF x.nextq > x.head THEN x.nextq - x.head ELSE x.nextq - x.head + MBOXSLOTS
Kept(x, k) ==
    x.head # -1 /\ (IF k >= x.head THEN k - x.head ELSE k - x.head + MBOXSLOTS) < Count(x)
With(x, msg) == [head |-> IF x.head = -1 THEN x.nextq ELSE x.head,
                 nextq |-> (x.nextq + 1) % MBOXSLOTS, msg |-> [x.msg EXCEPT ![x.nextq] = msg]]
NextSlot(x) == (x.head + 1) % MBOXSLOTS
Without(x) == [head |-> IF NextSlot(x) = x.nextq THEN -1 ELSE NextSlot(x),
               nextq |-> x.nextq, msg |-> [x.msg EXCEPT ![x.head] = 0]]

LEMMA ModRound ==
  ASSUME NEW k \in Nat \ {0}, NEW a \in -k .. k - 1
  PROVE  a % k = IF a < 0 THEN a + k ELSE a
OBVIOUS

LEMMA SlotAfter ==
  ASSUME NEW k \in Slots
  PROVE  (k + 1) % MBOXSLOTS = IF k + 1 = MBOXSLOTS THEN 0 ELSE k + 1
<1>1. MBOXSLOTS \in Nat \ {0} /\ k \in 0 .. MBOXSLOTS - 1
  BY Sizes DEF Slots
<1>2. CASE k + 1 = MBOXSLOTS
  BY <1>1, <1>2
<1>3. CASE k + 1 # MBOXSLOTS
  <2>1. PICK a \in -MBOXSLOTS .. MBOXSLOTS - 1 : a = k + 1 /\ a >= 0
    BY <1>1, <1>3
  <2>2. MBOXSLOTS \in Nat \ {0} /\ a \in -MBOXSLOTS .. MBOXSLOTS - 1
    BY <1>1, <2>1
  <2>3. a % MBOXSLOTS = IF a < 0 THEN a + MBOXSLOTS ELSE a
    BY <2>2, ModRound
  <2> QED BY <1>3, <2>1, <2>3
<1> QED BY <1>2, <1>3

LEMMA MessagesIs ==
  ASSUME NEW x \in BoxType
  PROVE  Messages(x) = Count(x)
<1>1. MBOXSLOTS \in Nat \ {0} /\ x.nextq \in Slots /\ x.head \in Slots \cup {-1}
  BY Sizes DEF BoxType
<1>2. CASE x.head # -1
  <2>1. PICK a \in -MBOXSLOTS .. MBOXSLOTS - 1 : a = x.nextq - x.head - 1
    BY <1>1, <1>2 DEF Slots
  <2>2. a % MBOXSLOTS = IF a < 0 THEN a + MBOXSLOTS ELSE a
    <3>1. MBOXSLOTS \in Nat \ {0} /\ a \in -MBOXSLOTS .. MBOXSLOTS - 1
      BY <1>1, <2>1
    <3> QED BY <3>1, ModRound
  <2>3. Messages(x) = (a % MBOXSLOTS) + 1
    BY <1>2, <2>1 DEF Messages
  <2> QED BY <1>1, <1>2, <2>1, <2>2, <2>3 DEF Count, Slots
<1> QED BY <1>2 DEF Messages, Count

\* Of the slots k from h on, the next q is the first that is not among the kept.
LEMMA LastOfRound ==
  ASSUME NEW N \in Nat, NEW h \in 0 .. N - 1, NEW q \in 0 .. N - 1, NEW k \in 0 .. N - 1,
         NEW c \in Int, c = IF q > h THEN q - h ELSE q - h + N, c < N
  PROVE  (IF k >= h THEN k - h ELSE k - h + N) < c + 1
            <=> (IF k >= h THEN k - h ELSE k - h + N) < c \/ k = q
<1>1. CASE k >= h
  BY <1>1
<1>2. CASE k < h
  BY <1>2
<1> QED BY <1>1, <1>2

\* A message is put behind those that are kept.
LEMMA PutBox ==
  ASSUME NEW x \in BoxType, NEW msg \in Int, Count(x) < MBOXSLOTS
  PROVE  /\ With(x, msg) \in BoxType /\ Count(With(x, msg)) = Count(x) + 1
         /\ x.nextq \in Slots /\ ~Kept(x, x.nextq)
         /\ \A k \in Slots : /\ Kept(With(x, msg), k) <=> Kept(x, k) \/ k = x.nextq
                             /\ With(x, msg).msg[k] = IF k = x.nextq THEN msg ELSE x.msg[k]
<1>1. /\ MBOXSLOTS \in Nat \ {0} /\ x.nextq \in Slots /\ x.head \in Slots \cup {-1}
      /\ x.msg \in [Slots -> Int]
  BY Sizes DEF BoxType
<1>2. (x.nextq + 1) % MBOXSLOTS = IF x.nextq + 1 = MBOXSLOTS THEN 0 ELSE x.nextq + 1
  BY <1>1, SlotAfter
<1> DEFINE y == With(x, msg)
<1>3. /\ y.head = (IF x.head = -1 THEN x.nextq ELSE x.head)
      /\ y.nextq = (IF x.nextq + 1 = MBOXSLOTS THEN 0 ELSE x.nextq + 1)
      /\ y.msg = [x.msg EXCEPT ![x.nextq] = msg]
  BY <1>2 DEF With
<1>4. y \in BoxType
  <2>1. y.nextq \in Slots
    BY <1>1, <1>3 DEF Slots
  <2>2. y = [head |-> y.head, nextq |-> y.nextq, msg |-> y.msg]
    BY DEF With
  <2>3. y.head \in Slots \cup {-1} /\ y.msg \in [Slots -> Int]
    BY <1>1, <1>3
  <2> QED BY <2>1, <2>2, <2>3 DEF BoxType
<1> HIDE DEF y
<1>5. Count(y) = Count(x) + 1
  <2>1. /\ x.nextq \in Int /\ 0 <= x.nextq /\ x.nextq < MBOXSLOTS /\ MBOXSLOTS \in Int
        /\ x.head \in Int /\ -1 <= x.head /\ x.head < MBOXSLOTS
    BY <1>1 DEF Slots
  <2>2. CASE x.head = -1
    BY <1>3, <2>1, <2>2 DEF Count
  <2>3. CASE x.head # -1 /\ x.nextq > x.head
    BY <1>3, <2>1, <2>3 DEF Count
  <2>4. CASE x.head # -1 /\ ~(x.nextq > x.head)
    BY <1>3, <2>1, <2>4 DEF Count
  <2> QED BY <2>2, <2>3, <2>4
<1>6. ~Kept(x, x.nextq)
  BY <1>1 DEF Count, Kept, Slots
<1>7. ASSUME NEW k \in Slots PROVE Kept(y, k) <=> Kept(x, k) \/ k = x.nextq
  <2>1. CASE x.head = -1
    <3>1. y.head = x.nextq /\ y.head # -1 /\ Count(y) = 1 /\ ~Kept(x, k)
      BY <1>1, <1>3, <1>5, <2>1 DEF Count, Kept, Slots
    <3> QED BY <1>1, <3>1 DEF Kept, Slots
  <2>2. CASE x.head # -1
    <3>1. y.head = x.head /\ Count(y) = Count(x) + 1
      BY <1>3, <1>5, <2>2
    <3>2. Count(x) = IF x.nextq > x.head THEN x.nextq - x.head ELSE x.nextq - x.head + MBOXSLOTS
      BY <2>2 DEF Count
    <3>3. /\ MBOXSLOTS \in Nat /\ x.head \in 0 .. MBOXSLOTS - 1 /\ x.nextq \in 0 .. MBOXSLOTS - 1
          /\ k \in 0 .. MBOXSLOTS - 1 /\ Count(x) \in Int
      BY <1>1, <2>2, <3>2 DEF Slots
    <3>4. (IF k >= x.head THEN k - x.head ELSE k - x.head + MBOXSLOTS) < Count(x) + 1
             <=> (IF k >= x.head THEN k - x.head ELSE k - x.head + MBOXSLOTS) < Count(x) \/ k = x.nextq
      BY <3>2, <3>3, LastOfRound
    <3>5. Kept(x, k) <=> (IF k >= x.head THEN k - x.head ELSE k - x.head + MBOXSLOTS) < Count(x)
      BY <2>2 DEF Kept
    <3>6. Kept(y, k) <=> (IF k >= x.head THEN k - x.head ELSE k - x.head + MBOXSLOTS) < Count(x) + 1
      BY <2>2, <3>1 DEF Kept
    <3> QED BY <3>4, <3>5, <3>6
  <2> QED BY <2>1, <2>2
<1>8. \A k \in Slots : y.msg[k] = IF k = x.nextq THEN msg ELSE x.msg[k]
  BY <1>1, <1>3
<1> QED BY <1>1, <1>4, <1>5, <1>6, <1>7, <1>8 DEF y

\* The first message is taken, and its slot is dead.
LEMMA GetBox ==
  ASSUME NEW x \in BoxType, Count(x) > 0
  PROVE  /\ Without(x) \in BoxType /\ Count(Without(x)) = Count(x) - 1
         /\ x.head \in Slots /\ Kept(x, x.head)
         /\ \A k \in Slots : /\ Kept(Without(x), k) <=> Kept(x, k) /\ k # x.head
                             /\ Without(x).msg[k] = IF k = x.head THEN 0 ELSE x.msg[k]
<1>1. /\ MBOXSLOTS \in Nat \ {0} /\ x.nextq \in Slots /\ x.head \in Slots
      /\ x.msg \in [Slots -> Int] /\ -1 \notin Slots
  BY Sizes DEF BoxType, Count, Slots
<1>2. NextSlot(x) = IF x.head + 1 = MBOXSLOTS THEN 0 ELSE x.head + 1
  BY <1>1, SlotAfter DEF NextSlot
<1> DEFINE y == Without(x)
<1>3. /\ y.head = (IF NextSlot(x) = x.nextq THEN -1 ELSE NextSlot(x))
      /\ y.nextq = x.nextq /\ y.msg = [x.msg EXCEPT ![x.head] = 0]
  BY DEF Without
<1>4. NextSlot(x) \in Slots
  BY <1>1, <1>2 DEF Slots
<1>5. y \in BoxType
  <2>1. y = [head |-> y.head, nextq |-> y.nextq, msg |-> y.msg]
    BY DEF Without
  <2>2. y.head \in Slots \cup {-1} /\ y.msg \in [Slots -> Int]
    BY <1>1, <1>3, <1>4
  <2> QED BY <1>1, <1>3, <2>1, <2>2 DEF BoxType
<1> HIDE DEF y
<1>n. Count(x) = IF x.nextq > x.head THEN x.nextq - x.head ELSE x.nextq - x.head + MBOXSLOTS
  BY <1>1 DEF Count
<1>6. Count(y) = Count(x) - 1
  <2>1. CASE NextSlot(x) = x.nextq
    BY <1>1, <1>2, <1>3, <1>n, <2>1 DEF Count, Slots
  <2>2. CASE NextSlot(x) # x.nextq
    <3>1. y.head = NextSlot(x) /\ y.nextq = x.nextq /\ y.head # -1
      BY <1>1, <1>3, <1>4, <2>2
    <3>2. Count(y) = IF x.nextq > NextSlot(x) THEN x.nextq - NextSlot(x)
                     ELSE x.nextq - NextSlot(x) + MBOXSLOTS
      BY <3>1 DEF Count
    <3>3. CASE x.head + 1 = MBOXSLOTS
      <4>1. NextSlot(x) = 0 /\ x.nextq > 0 /\ x.nextq <= x.head
        BY <1>1, <1>2, <2>2, <3>3 DEF Slots
      <4> QED BY <1>1, <1>n, <3>2, <3>3, <4>1 DEF Slots
    <3>4. CASE x.head + 1 # MBOXSLOTS
      <4>1. NextSlot(x) = x.head + 1 /\ x.nextq # x.head + 1
        BY <1>1, <1>2, <2>2, <3>4
      <4> QED BY <1>1, <1>n, <3>2, <4>1 DEF Slots
    <3> QED BY <3>3, <3>4
  <2> QED BY <2>1, <2>2
<1>7. Kept(x, x.head)
  BY <1>1 DEF Count, Kept, Slots
<1>8. ASSUME NEW k \in Slots PROVE Kept(y, k) <=> Kept(x, k) /\ k # x.head
  <2>1. CASE NextSlot(x) = x.nextq
    <3>1. y.head = -1 /\ Count(x) = 1
      BY <1>1, <1>2, <1>3, <1>n, <2>1 DEF Slots
    <3> QED BY <1>1, <3>1 DEF Kept, Slots
  <2>2. CASE NextSlot(x) # x.nextq
    <3>1. y.head = NextSlot(x) /\ y.head # -1
      BY <1>1, <1>3, <1>4, <2>2
    <3>2. PICK h \in Slots, g \in Slots, c \in Int :
             /\ h = x.head /\ g = NextSlot(x) /\ c = Count(x)
             /\ g = IF h + 1 = MBOXSLOTS THEN 0 ELSE h + 1
             /\ 1 <= c /\ c <= MBOXSLOTS
      BY <1>1, <1>2, <1>4, <1>n DEF Slots
    <3>3. Kept(x, k) <=> (IF k >= h THEN k - h ELSE k - h + MBOXSLOTS) < c
      BY <1>1, <3>2 DEF Kept
    <3>4. Kept(y, k) <=> (IF k >= g THEN k - g ELSE k - g + MBOXSLOTS) < c - 1
      BY <1>6, <3>1, <3>2 DEF Kept
    <3>5. (IF k >= g THEN k - g ELSE k - g + MBOXSLOTS) < c - 1
            <=> (IF k >= h THEN k - h ELSE k - h + MBOXSLOTS) < c /\ k # h
      <4>1. MBOXSLOTS \in Nat /\ k \in 0 .. MBOXSLOTS - 1 /\ h \in 0 .. MBOXSLOTS - 1
        BY <1>1, <3>2 DEF Slots
      <4>2. CASE h + 1 = MBOXSLOTS
        <5>1. g = 0 /\ k >= g
          BY <3>2, <4>1, <4>2
        <5> QED BY <3>2, <4>1, <4>2, <5>1
      <4>3. CASE h + 1 # MBOXSLOTS
        <5>1. g = h + 1
          BY <3>2, <4>3
        <5>2. CASE k >= h + 1
          BY <3>2, <4>1, <5>1, <5>2
        <5>3. CASE k = h
          BY <3>2, <4>1, <5>1, <5>3
        <5>4. CASE k < h
          BY <3>2, <4>1, <5>1, <5>4
        <5> QED BY <4>1, <5>2, <5>3, <5>4
      <4> QED BY <4>2, <4>3
    <3> QED BY <3>2, <3>3, <3>4, <3>5
  <2> QED BY <2>1, <2>2
<1>9. \A k \in Slots : y.msg[k] = IF k = x.head THEN 0 ELSE x.msg[k]
  BY <1>1, <1>3
<1> QED BY <1>1, <1>5, <1>6, <1>7, <1>8, <1>9 DEF y
-----------------------------------------------------------------------------
(* What the operations do to the fields the invariant is about.            *)
LEMMA SemsAre ==
  ASSUME NEW b \in Boxes
  PROVE  /\ Queued(b) \in Sems(Boxes) /\ Free(b) \in Sems(Boxes) /\ Done(b) \in Sems(Boxes)
         /\ \A c \in Boxes : /\ Queued(b) # Free(c) /\ Queued(b) # Done(c) /\ Free(b) # Done(c)
                             /\ (Queued(b) = Queued(c) \/ Free(b) = Free(c) \/ Done(b) = Done(c)) => b = c
BY DEF Queued, Free, Done, Sems

\* A thread's request is another one.
LEMMA ReqSet ==
  ASSUME NEW m \in Memory, NEW t \in Thread, NEW r \in ReqType, NEW b,
         b = [m EXCEPT !.req[t] = r]
  PROVE  /\ b \in Memory /\ \A T : Sched(m, T) => Sched(b, T)
         /\ b.cur = m.cur /\ b.box = m.box /\ b.sem = m.sem /\ b.buse = m.buse /\ b.va = m.va
         /\ b.req = [m.req EXCEPT ![t] = r]
<1>1. [m.req EXCEPT ![t] = r] \in [Thread -> ReqType]
  BY DEF Memory
<1>2. b = [m EXCEPT !.req = [m.req EXCEPT ![t] = r]]
  BY DEF Memory
<1>3. /\ b \in Memory /\ b.q = m.q /\ b.on = m.on
      /\ b.cur = m.cur /\ b.box = m.box /\ b.sem = m.sem /\ b.buse = m.buse /\ b.va = m.va
      /\ b.req = [m.req EXCEPT ![t] = r]
  BY <1>1, <1>2 DEF Memory
<1> QED BY <1>3 DEF Sched

\* The running thread goes to another point.
LEMMA GotoKeeps ==
  ASSUME NEW m \in Memory, NEW pc \in Pcs, NEW T, Sched(m, T), NEW t, m.cur = t,
         NEW b, b = Goto(m, pc)
  PROVE  /\ b \in Memory /\ Sched(b, T) /\ b.cur = t /\ b.box = m.box /\ b.sem = m.sem
         /\ b.buse = m.buse /\ b.va = m.va
         /\ b.req[t] \in ReqType /\ b.req = [m.req EXCEPT ![t] = b.req[t]]
         /\ b.req[t].pc = pc /\ b.req[t].whom = m.req[t].whom
         /\ b.req[t].pkt = m.req[t].pkt /\ b.req[t].page = m.req[t].page
<1>1. t \in Thread /\ m.req \in [Thread -> ReqType] /\ m.req[t] \in ReqType
  BY DEF Memory
<1>2. PICK r : r = [m.req[t] EXCEPT !.pc = pc]
  OBVIOUS
<1>3. /\ r \in ReqType /\ r.pc = pc /\ r.whom = m.req[t].whom /\ r.pkt = m.req[t].pkt
      /\ r.page = m.req[t].page
  BY <1>1, <1>2 DEF ReqType
<1>4. b = [m EXCEPT !.req[t] = r]
  BY <1>1, <1>2 DEF Goto, Memory
<1>5. /\ b \in Memory /\ Sched(b, T) /\ b.cur = t /\ b.box = m.box /\ b.sem = m.sem
      /\ b.buse = m.buse /\ b.va = m.va /\ b.req = [m.req EXCEPT ![t] = r]
  BY <1>1, <1>3, <1>4, ReqSet
<1>6. b.req[t] = r
  BY <1>1, <1>5
<1> QED BY <1>3, <1>5, <1>6

\* A thread's request gets another packet.
SetPkt(m, t, p) == [m EXCEPT !.req[t].pkt = p]
LEMMA PktKeeps ==
  ASSUME NEW m \in Memory, NEW p \in Int, NEW T, Sched(m, T), NEW t \in Thread,
         NEW b, b = SetPkt(m, t, p)
  PROVE  /\ b \in Memory /\ Sched(b, T) /\ b.cur = m.cur /\ b.box = m.box /\ b.sem = m.sem
         /\ b.buse = m.buse /\ b.va = m.va
         /\ b.req[t] \in ReqType /\ b.req = [m.req EXCEPT ![t] = b.req[t]]
         /\ b.req[t].pc = m.req[t].pc /\ b.req[t].whom = m.req[t].whom /\ b.req[t].pkt = p
         /\ b.req[t].page = m.req[t].page
<1>1. m.req \in [Thread -> ReqType] /\ m.req[t] \in ReqType
  BY DEF Memory
<1>2. PICK r : r = [m.req[t] EXCEPT !.pkt = p]
  OBVIOUS
<1>3. r \in ReqType /\ r.pc = m.req[t].pc /\ r.whom = m.req[t].whom /\ r.pkt = p /\ r.page = m.req[t].page
  BY <1>1, <1>2 DEF ReqType
<1>4. b = [m EXCEPT !.req[t] = r]
  BY <1>1, <1>2 DEF Memory, SetPkt
<1>5. /\ b \in Memory /\ Sched(b, T) /\ b.cur = m.cur /\ b.box = m.box /\ b.sem = m.sem
      /\ b.buse = m.buse /\ b.va = m.va /\ b.req = [m.req EXCEPT ![t] = r]
  BY <1>1, <1>3, <1>4, ReqSet
<1>6. b.req[t] = r
  BY <1>1, <1>5
<1> QED BY <1>3, <1>5, <1>6

\* One is taken from a semaphore that has some.
LEMMA TakeKeeps ==
  ASSUME NEW m \in Memory, NEW s \in Sems(Boxes), SemHas(m, s)
  PROVE  /\ SemTake(m, s) \in Memory /\ \A T : Sched(m, T) => Sched(SemTake(m, s), T)
         /\ SemTake(m, s).cur = m.cur /\ SemTake(m, s).box = m.box /\ SemTake(m, s).req = m.req
         /\ SemTake(m, s).buse = m.buse /\ SemTake(m, s).va = m.va
         /\ \A r \in Sems(Boxes) : SemTake(m, s).sem[r].counter =
               IF r = s THEN m.sem[r].counter - 1 ELSE m.sem[r].counter
<1> DEFINE a == SemTake(m, s)
<1>1. m.sem \in [Sems(Boxes) -> SemType] /\ m.sem[s].counter \in Nat /\ m.sem[s].counter > 0
  BY DEF Memory, SemHas, SemType
<1>2. a = [m EXCEPT !.sem = [m.sem EXCEPT ![s].counter = @ - 1]]
  BY DEF SemTake, Memory
<1>3. /\ [m.sem EXCEPT ![s].counter = @ - 1] \in [Sems(Boxes) -> SemType]
      /\ \A r \in Sems(Boxes) : [m.sem EXCEPT ![s].counter = @ - 1][r].counter =
            IF r = s THEN m.sem[r].counter - 1 ELSE m.sem[r].counter
  <2>1. m.sem[s].counter - 1 \in Nat
    BY <1>1
  <2>2. [m.sem[s] EXCEPT !.counter = @ - 1] \in SemType
    BY <1>1, <2>1 DEF SemType
  <2> QED BY <1>1, <2>2 DEF SemType
<1> HIDE DEF a
<1>4. /\ a \in Memory /\ a.q = m.q /\ a.on = m.on /\ a.cur = m.cur /\ a.box = m.box
      /\ a.req = m.req /\ a.buse = m.buse /\ a.va = m.va
      /\ a.sem = [m.sem EXCEPT ![s].counter = @ - 1]
  BY <1>2, <1>3 DEF Memory
<1> QED BY <1>3, <1>4 DEF Sched, a

\* The mailbox is another one, and a semaphore is signalled.
LEMMA BoxSignal ==
  ASSUME NEW m \in Memory, NEW b \in Boxes, NEW y \in BoxType, NEW s \in Sems(Boxes),
         NEW T, Sched(m, T), NEW r, r = SemSignal([m EXCEPT !.box = [m.box EXCEPT ![b] = y]], s)
  PROVE  /\ r \in Memory /\ Sched(r, T) /\ r.cur = m.cur /\ r.req = m.req
         /\ r.buse = m.buse /\ r.va = m.va /\ r.box = [m.box EXCEPT ![b] = y]
         /\ \A u \in Sems(Boxes) : r.sem[u].counter =
               IF u = s THEN m.sem[u].counter + 1 ELSE m.sem[u].counter
<1> DEFINE a == [m EXCEPT !.box = [m.box EXCEPT ![b] = y]]
<1>1. [m.box EXCEPT ![b] = y] \in [Boxes -> BoxType]
  BY DEF Memory
<1>2. /\ a \in Memory /\ a.q = m.q /\ a.cur = m.cur /\ a.on = m.on /\ a.req = m.req
      /\ a.buse = m.buse /\ a.va = m.va /\ a.sem = m.sem /\ a.box = [m.box EXCEPT ![b] = y]
  BY <1>1 DEF Memory
<1> HIDE DEF a
<1>3. PICK c \in Memory : c = a /\ Sched(c, T) /\ r = SemSignal(c, s)
  BY <1>2 DEF Sched, a
<1>4. /\ r \in Memory /\ Sched(r, T) /\ r.cur = c.cur /\ r.req = c.req
      /\ r.buse = c.buse /\ r.va = c.va /\ r.box = c.box
      /\ \A u \in Sems(Boxes) : r.sem[u].counter =
            IF u = s THEN c.sem[u].counter + 1 ELSE c.sem[u].counter
  <2>1. PICK z : z = SemSignal(c, s)
    OBVIOUS
  <2>2. /\ z \in Memory /\ Sched(z, T) /\ z.cur = c.cur /\ z.req = c.req
        /\ z.buse = c.buse /\ z.va = c.va /\ z.box = c.box
    BY <1>3, <2>1, SignalKeeps
  <2>3. \A u \in Sems(Boxes) : z.sem[u].counter =
            IF u = s THEN c.sem[u].counter + 1 ELSE c.sem[u].counter
    BY <1>3, <2>1, SignalKeeps
  <2> QED BY <1>3, <2>1, <2>2, <2>3
<1> QED BY <1>2, <1>3, <1>4

LEMMA PutKeeps ==
  ASSUME NEW m \in Memory, NEW b \in Boxes, NEW msg \in Int, Count(m.box[b]) < MBOXSLOTS,
         NEW T, Sched(m, T), NEW r, r = MboxPut(m, b, msg)
  PROVE  /\ r \in Memory /\ Sched(r, T) /\ r.cur = m.cur /\ r.req = m.req
         /\ r.buse = m.buse /\ r.va = m.va
         /\ r.box = [m.box EXCEPT ![b] = With(m.box[b], msg)]
         /\ \A u \in Sems(Boxes) : r.sem[u].counter =
               IF u = Queued(b) THEN m.sem[u].counter + 1 ELSE m.sem[u].counter
<1>1. m.box[b] \in BoxType
  BY DEF Memory
<1>2. PICK y \in BoxType : y = With(m.box[b], msg)
  BY <1>1, PutBox
<1>3. r = SemSignal([m EXCEPT !.box = [m.box EXCEPT ![b] = y]], Queued(b))
  BY <1>2 DEF MboxPut, With, Memory
<1>4. Queued(b) \in Sems(Boxes)
  BY SemsAre
<1> QED BY <1>2, <1>3, <1>4, BoxSignal

LEMMA GetKeeps ==
  ASSUME NEW m \in Memory, NEW b \in Boxes, Count(m.box[b]) > 0,
         NEW T, Sched(m, T), NEW r, r = MboxGet(m, b)
  PROVE  /\ r \in Memory /\ Sched(r, T) /\ r.cur = m.cur /\ r.req = m.req
         /\ r.buse = m.buse /\ r.va = m.va
         /\ r.box = [m.box EXCEPT ![b] = Without(m.box[b])]
         /\ \A u \in Sems(Boxes) : r.sem[u].counter =
               IF u = Free(b) THEN m.sem[u].counter + 1 ELSE m.sem[u].counter
<1>1. m.box[b] \in BoxType /\ m.box \in [Boxes -> BoxType]
  BY DEF Memory
<1>2. PICK y \in BoxType : y = Without(m.box[b])
  BY <1>1, GetBox
<1> DEFINE h == IF NextSlot(m.box[b]) = m.box[b].nextq THEN -1 ELSE NextSlot(m.box[b])
<1>3. [m EXCEPT !.box[b].head = h, !.box[b].msg[m.box[b].head] = 0]
         = [m EXCEPT !.box = [m.box EXCEPT ![b] = y]]
  <2>1. [m EXCEPT !.box[b].head = h, !.box[b].msg[m.box[b].head] = 0]
          = [m EXCEPT !.box = [m.box EXCEPT ![b] =
               [[m.box[b] EXCEPT !.head = h] EXCEPT !.msg = [m.box[b].msg EXCEPT ![m.box[b].head] = 0]]]]
    BY <1>1 DEF Memory, BoxType
  <2>2. [[m.box[b] EXCEPT !.head = h] EXCEPT !.msg = [m.box[b].msg EXCEPT ![m.box[b].head] = 0]] = y
    <3>1. m.box[b] = [head |-> m.box[b].head, nextq |-> m.box[b].nextq, msg |-> m.box[b].msg]
      BY <1>1 DEF BoxType
    <3>2. PICK x, hd, nx, ms : x = m.box[b] /\ x = [head |-> hd, nextq |-> nx, msg |-> ms]
      BY <3>1
    <3>3. PICK g : g = [x.msg EXCEPT ![x.head] = 0]
      OBVIOUS
    <3>4. y = [head |-> h, nextq |-> nx, msg |-> g]
      BY <1>2, <3>2, <3>3 DEF Without
    <3> HIDE DEF h
    <3>5. PICK z : z = [head |-> h, nextq |-> nx, msg |-> ms]
      OBVIOUS
    <3>6. [x EXCEPT !.head = h] = z
      BY <3>2, <3>5
    <3>7. [z EXCEPT !.msg = g] = [head |-> h, nextq |-> nx, msg |-> g]
      BY <3>5
    <3> QED BY <3>2, <3>3, <3>4, <3>6, <3>7
  <2> QED BY <2>1, <2>2
<1>4. r = SemSignal([m EXCEPT !.box = [m.box EXCEPT ![b] = y]], Free(b))
  <2>1. r = SemSignal([m EXCEPT !.box[b].head = h, !.box[b].msg[m.box[b].head] = 0], Free(b))
    BY DEF MboxGet, NextSlot
  <2> QED BY <1>3, <2>1
<1>5. Free(b) \in Sems(Boxes)
  BY SemsAre
<1> QED BY <1>2, <1>4, <1>5, BoxSignal
-----------------------------------------------------------------------------
(* The inductive invariant, in parts.                                      *)
Busy(m) == {t \in Buf : m.req[t].pc # "none"}
Asks == {"send", "sending", "recv", "reply"}
Pkt == 1 .. Arriving

\* A mailbox's semaphores count its messages and its free slots.
Counted(m) == \A b \in Boxes : /\ Count(m.box[b]) = m.sem[Queued(b)].counter
                               /\ Count(m.box[b]) + m.sem[Free(b)].counter = MBOXSLOTS

\* lwIP's mailbox keeps requests of threads that wait for their completion, each once.
Letters(m) == \A k \in Slots :
    LET x == m.box[Stack] IN
    /\ x.msg[k] # 0 <=> Kept(x, k)
    /\ x.msg[k] # 0 => x.msg[k] \in Buf /\ m.req[x.msg[k]].pc = "sending"
    /\ \A j \in Slots : x.msg[k] # 0 /\ x.msg[j] = x.msg[k] => j = k

\* A request that waits is in the mailbox, in the hands of lwIP, or completed: one of these.
Letter(m, c) == \E k \in Slots : m.box[Stack].msg[k] # 0 /\ m.req[m.box[Stack].msg[k]].whom = c
Outgoing(m, c) == m.req[Tcpip].pc = "output" /\ m.req[Tcpip].whom = c
Sends(m, c) == \E t \in Buf : m.req[t].pc = "sending" /\ m.req[t].whom = c
Handed(m) == \A c \in Client :
    /\ Outgoing(m, c) => Sends(m, c) /\ ~Letter(m, c)
    /\ m.sem[Done(c)].counter > 0 =>
          m.sem[Done(c)].counter = 1 /\ Sends(m, c) /\ ~Letter(m, c) /\ ~Outgoing(m, c)

\* A client that is not served has no thread, another has at most one.
Asking(m, cl) == \A t \in Buf : m.req[t].pc \in Asks =>
    /\ m.req[t].whom \in Client /\ m.req[t].page = 0 /\ cl[m.req[t].whom] # "user"
    /\ \A u \in Buf : m.req[u].pc \in Asks /\ m.req[u].whom = m.req[t].whom => u = t

Served(m) ==
    /\ m.req[Main].pc \in {"serve", "timer"} /\ m.req[Tcpip].pc \in {"fetch", "output"}
    /\ m.req[Tcpip].pc = "output" => m.req[Tcpip].whom \in Client
    /\ m.req[Main].page = 0 /\ m.req[Tcpip].page = 0
    /\ \A t \in Buf : m.req[t].pc \in Asks \cup {"none", "input", "deliver"}

\* What the input environment sends is a packet from the wire.
Packets(m, pg, inp) ==
    /\ \A t \in Buf : m.req[t].pc = "input" => m.req[t].page \in Page /\ pg[m.req[t].page] \in Pkt
    /\ \A t \in Buf : m.req[t].pc = "deliver" => m.req[t].pkt \in Pkt
    /\ inp # 0 => inp \in Page /\ pg[inp] \in Pkt

\* The buffers taken: by threads, by requests without a page, by serve().
Held(m, lk) ==
    /\ lk \subseteq Buf /\ lk \cap Busy(m) = {} /\ m.va \notin lk \cup Busy(m)
    /\ m.buse = Busy(m) \cup lk \cup ({m.va} \ {0})
Blocked(m, md) ==
    /\ md = "recv" => m.cur = Main /\ m.req[Main].pc = "serve" /\ m.va # 0
    /\ md # "recv" /\ m.req[Main].pc = "serve" => m.va = 0
    /\ m.req[Main].pc = "timer" => m.va # 0

Line0(m) == {Main, Tcpip} \cup Busy(m)
Good(m, md, cl, pg, inp, lk) ==
    /\ m \in Memory /\ Sched(m, Line0(m))
    /\ Counted(m) /\ Letters(m) /\ Handed(m) /\ Asking(m, cl)
    /\ Served(m) /\ Packets(m, pg, inp) /\ Held(m, lk) /\ Blocked(m, md)
IInv == /\ client \in [Client -> {"user", "called", "waits"}] /\ page \in [Page -> Int]
        /\ sent \in Nat /\ Good(n, mode, client, page, input, leaked)

LEMMA Threads ==
  /\ Main \notin Buf /\ Tcpip \notin Buf /\ Main # Tcpip /\ 0 \notin Buf
  /\ Main \in Thread /\ Tcpip \in Thread /\ Buf \subseteq Thread /\ Thread \subseteq Int
  /\ Buf \subseteq Int /\ Page \subseteq Int /\ 0 \notin Page
  /\ Client \subseteq Boxes /\ Stack \in Boxes /\ Stack \notin Client
BY Sizes, Sockets DEF Main, Tcpip, Buf, Thread, Page, Boxes

\* What a round of the threads keeps.
LEMMA Frame ==
  ASSUME NEW a \in Memory, NEW b \in Memory, b.box = a.box, b.req = a.req,
         \A u \in Sems(Boxes) : b.sem[u].counter = a.sem[u].counter
  PROVE  /\ Counted(a) => Counted(b)
         /\ Letters(a) => Letters(b)
         /\ Handed(a) => Handed(b)
         /\ \A cl : Asking(a, cl) => Asking(b, cl)
         /\ Served(a) => Served(b)
         /\ \A pg, inp : Packets(a, pg, inp) => Packets(b, pg, inp)
         /\ Busy(b) = Busy(a)
<1>1. Counted(a) => Counted(b)
  BY SemsAre DEF Counted
<1>2. Letters(a) => Letters(b)
  BY DEF Letters
<1>3. Handed(a) => Handed(b)
  <2>1. \A c \in Client : Done(c) \in Sems(Boxes)
    BY Threads, SemsAre
  <2> QED BY <2>1 DEF Handed, Letter, Outgoing, Sends
<1>4. \A cl : Asking(a, cl) => Asking(b, cl)
  BY DEF Asking
<1>5. Served(a) => Served(b)
  BY DEF Served
<1>6. \A pg, inp : Packets(a, pg, inp) => Packets(b, pg, inp)
  BY DEF Packets
<1>7. Busy(b) = Busy(a)
  BY DEF Busy
<1> QED BY <1>1, <1>2, <1>3, <1>4, <1>5, <1>6, <1>7

\* Mailboxes of the sockets do not matter to threads that send.
LEMMA Senders ==
  ASSUME NEW a \in Memory, NEW b \in Memory, b.box[Stack] = a.box[Stack],
         b.req[Tcpip] = a.req[Tcpip],
         \A t \in Buf : a.req[t].pc = "sending" => b.req[t] = a.req[t],
         \A c \in Client : b.sem[Done(c)].counter = a.sem[Done(c)].counter,
         Letters(a), Handed(a)
  PROVE  Letters(b) /\ Handed(b)
<1>1. Letters(b)
  BY DEF Letters
<1>2. ASSUME NEW c \in Client
      PROVE  /\ Outgoing(b, c) <=> Outgoing(a, c)
             /\ Sends(a, c) => Sends(b, c)
             /\ Letter(b, c) => Letter(a, c)
  <2>1. \A k \in Slots : a.box[Stack].msg[k] # 0 => a.box[Stack].msg[k] \in Buf /\ a.req[a.box[Stack].msg[k]].pc = "sending"
    BY DEF Letters
  <2> QED BY <2>1 DEF Outgoing, Sends, Letter
<1>3. Handed(b)
  BY <1>2 DEF Handed
<1> QED BY <1>1, <1>3

\* A mailbox of which one message is put, after its wait for a free slot.
LEMMA CountedPut ==
  ASSUME NEW a \in Memory, NEW b \in Memory, NEW x \in Boxes, NEW msg \in Int, Counted(a),
         a.sem[Free(x)].counter > 0, b.box = [a.box EXCEPT ![x] = With(a.box[x], msg)],
         \A c \in Boxes :
            /\ b.sem[Queued(c)].counter = IF c = x THEN a.sem[Queued(c)].counter + 1 ELSE a.sem[Queued(c)].counter
            /\ b.sem[Free(c)].counter = IF c = x THEN a.sem[Free(c)].counter - 1 ELSE a.sem[Free(c)].counter
  PROVE  Counted(b)
<1>1. a.box \in [Boxes -> BoxType] /\ a.sem \in [Sems(Boxes) -> SemType]
  BY DEF Memory
<1>2. ASSUME NEW c \in Boxes
      PROVE  a.sem[Queued(c)].counter \in Nat /\ a.sem[Free(c)].counter \in Nat
  BY <1>1, SemsAre DEF SemType
<1>3. Count(a.box[x]) < MBOXSLOTS
  BY <1>2, Sizes DEF Counted
<1>4. Count(With(a.box[x], msg)) = Count(a.box[x]) + 1
  BY <1>1, <1>3, PutBox
<1> SUFFICES ASSUME NEW c \in Boxes
             PROVE  /\ Count(b.box[c]) = b.sem[Queued(c)].counter
                    /\ Count(b.box[c]) + b.sem[Free(c)].counter = MBOXSLOTS
  BY DEF Counted
<1>5. Count(a.box[c]) = a.sem[Queued(c)].counter /\ Count(a.box[c]) + a.sem[Free(c)].counter = MBOXSLOTS
  BY DEF Counted
<1>6. b.box[c] = IF c = x THEN With(a.box[x], msg) ELSE a.box[c]
  BY <1>1
<1> QED BY <1>2, <1>4, <1>5, <1>6, Sizes

LEMMA CountedGet ==
  ASSUME NEW a \in Memory, NEW b \in Memory, NEW x \in Boxes, Counted(a),
         a.sem[Queued(x)].counter > 0, b.box = [a.box EXCEPT ![x] = Without(a.box[x])],
         \A c \in Boxes :
            /\ b.sem[Queued(c)].counter = IF c = x THEN a.sem[Queued(c)].counter - 1 ELSE a.sem[Queued(c)].counter
            /\ b.sem[Free(c)].counter = IF c = x THEN a.sem[Free(c)].counter + 1 ELSE a.sem[Free(c)].counter
  PROVE  Counted(b)
<1>1. a.box \in [Boxes -> BoxType] /\ a.sem \in [Sems(Boxes) -> SemType]
  BY DEF Memory
<1>2. ASSUME NEW c \in Boxes
      PROVE  a.sem[Queued(c)].counter \in Nat /\ a.sem[Free(c)].counter \in Nat
  BY <1>1, SemsAre DEF SemType
<1>3. Count(a.box[x]) > 0
  BY DEF Counted
<1>4. Count(Without(a.box[x])) = Count(a.box[x]) - 1
  BY <1>1, <1>3, GetBox
<1> SUFFICES ASSUME NEW c \in Boxes
             PROVE  /\ Count(b.box[c]) = b.sem[Queued(c)].counter
                    /\ Count(b.box[c]) + b.sem[Free(c)].counter = MBOXSLOTS
  BY DEF Counted
<1>5. Count(a.box[c]) = a.sem[Queued(c)].counter /\ Count(a.box[c]) + a.sem[Free(c)].counter = MBOXSLOTS
  BY DEF Counted
<1>6. b.box[c] = IF c = x THEN Without(a.box[x]) ELSE a.box[c]
  BY <1>1
<1> QED BY <1>2, <1>4, <1>5, <1>6, Sizes

\* A thread begins to wait for a semaphore.
LEMMA BlockGood ==
  ASSUME NEW m, NEW cl, NEW pg, NEW inp, NEW lk, Good(m, "run", cl, pg, inp, lk),
         NEW s \in Sems(Boxes), m.cur # Main
  PROVE  Good(SemBlock(m, s), "run", cl, pg, inp, lk)
<1>1. m \in Memory /\ Sched(m, Line0(m))
  BY DEF Good
<1>2. PICK b : b = SemBlock(m, s)
  OBVIOUS
<1>3. /\ b \in Memory /\ Sched(b, Line0(m)) /\ b.box = m.box /\ b.req = m.req
      /\ b.buse = m.buse /\ b.va = m.va
      /\ \A r \in Sems(Boxes) : b.sem[r].counter = m.sem[r].counter
  BY <1>1, <1>2, BlockKeeps
<1>4. /\ Counted(b) /\ Letters(b) /\ Handed(b) /\ Asking(b, cl)
      /\ Served(b) /\ Packets(b, pg, inp) /\ Busy(b) = Busy(m)
  BY <1>1, <1>3, Frame DEF Good
<1>5. Held(b, lk) /\ Blocked(b, "run") /\ Line0(b) = Line0(m)
  BY <1>3, <1>4 DEF Good, Held, Blocked, Line0
<1> QED BY <1>2, <1>3, <1>4, <1>5 DEF Good

\* A round of the threads, begun by serve() once it does not block.
LEMMA YieldGood ==
  ASSUME NEW m, NEW cl, NEW pg, NEW inp, NEW lk, Good(m, "run", cl, pg, inp, lk)
  PROVE  Good(ThreadYield(m), "run", cl, pg, inp, lk)
<1>1. m \in Memory /\ Sched(m, Line0(m))
  BY DEF Good
<1>2. PICK b : b = ThreadYield(m)
  OBVIOUS
<1>3. /\ b \in Memory /\ Sched(b, Line0(m)) /\ b.box = m.box /\ b.req = m.req
      /\ b.buse = m.buse /\ b.va = m.va /\ b.sem = m.sem
  BY <1>1, <1>2, YieldKeeps DEF Rest
<1>4. /\ Counted(b) /\ Letters(b) /\ Handed(b) /\ Asking(b, cl)
      /\ Served(b) /\ Packets(b, pg, inp) /\ Busy(b) = Busy(m)
  BY <1>1, <1>3, Frame DEF Good
<1>5. Held(b, lk) /\ Blocked(b, "run") /\ Line0(b) = Line0(m)
  BY <1>3, <1>4 DEF Good, Held, Blocked, Line0
<1> QED BY <1>2, <1>3, <1>4, <1>5 DEF Good

\* What thread t asks for is kept, and a packet to deliver is one from the wire.
Follows(q, r) ==
    /\ q.pc # "none" /\ r.pc \in Asks \cup {"deliver"}
    /\ r.pc \in Asks => q.pc \in Asks /\ r.whom = q.whom /\ r.page = q.page
    /\ r.pc = "deliver" => r.pkt \in Pkt

\* A request's thread goes on; what it did to mailboxes and semaphores is known to be good.
LEMMA StepGood ==
  ASSUME NEW a, NEW cl, NEW pg, NEW inp, NEW lk, Good(a, "run", cl, pg, inp, lk),
         NEW b \in Memory, NEW t \in Buf, NEW r \in ReqType,
         b.req = [a.req EXCEPT ![t] = r], Follows(a.req[t], r),
         b.va = a.va, b.buse = a.buse, Sched(b, Line0(a)),
         Counted(b), Letters(b), Handed(b)
  PROVE  Good(b, "run", cl, pg, inp, lk)
<1>1. /\ a \in Memory /\ a.req \in [Thread -> ReqType] /\ t \in Thread
      /\ b.req[Main] = a.req[Main] /\ b.req[Tcpip] = a.req[Tcpip] /\ b.req[t] = r
      /\ \A u \in Buf : u # t => b.req[u] = a.req[u]
  BY Threads DEF Good, Memory
<1>f. /\ a.req[t].pc # "none" /\ r.pc # "none" /\ r.pc \in Asks \cup {"deliver"}
      /\ r.pc \in Asks => a.req[t].pc \in Asks /\ r.whom = a.req[t].whom /\ r.page = a.req[t].page
      /\ r.pc = "deliver" => r.pkt \in Pkt
  BY DEF Follows, Asks
<1>2. Busy(b) = Busy(a) /\ Line0(b) = Line0(a)
  BY <1>1, <1>f DEF Busy, Line0
<1>3. Asking(b, cl)
  BY <1>1, <1>f DEF Good, Asking
<1>4. Served(b)
  BY <1>1, <1>f DEF Good, Served
<1>5. Packets(b, pg, inp)
  BY <1>1, <1>f DEF Good, Packets, Asks
<1>6. Held(b, lk) /\ Blocked(b, "run")
  BY <1>1, <1>2, <1>f DEF Good, Held, Blocked
<1> QED BY <1>2, <1>3, <1>4, <1>5, <1>6 DEF Good

\* The end of serve_thread: its request is done and its buffer given back.
LEMMA EndGood ==
  ASSUME NEW a, NEW cl, NEW cl2, NEW pg, NEW inp, NEW lk, Good(a, "run", cl, pg, inp, lk),
         NEW m \in Memory, NEW t \in Buf, a.req[t].pc \notin {"none", "sending"},
         m.cur = t, m.req = a.req, m.va = a.va, m.buse = a.buse, Sched(m, Line0(a)),
         Counted(m), m.box[Stack] = a.box[Stack],
         \A c \in Client : m.sem[Done(c)].counter = a.sem[Done(c)].counter,
         \A u \in Buf : u # t /\ a.req[u].pc \in Asks => cl2[a.req[u].whom] # "user"
  PROVE  Good(PutBuffer(m, t), "run", cl2, pg, inp, lk)
<1>1. /\ a \in Memory /\ a.req \in [Thread -> ReqType] /\ t \in Thread /\ t # Main
      /\ a.buse \in SUBSET Buf
  BY Threads DEF Good, Memory
<1>2. NoReq \in ReqType /\ NoReq.pc = "none"
  BY Threads, Rings DEF NoReq, ReqType, Pcs
<1>3. PICK c \in Memory : /\ c = [m EXCEPT !.buse = @ \ {t}, !.req[t] = NoReq]
                          /\ c.cur = t /\ c.box = m.box /\ c.sem = m.sem /\ c.va = m.va
                          /\ c.buse = a.buse \ {t} /\ c.req = [a.req EXCEPT ![t] = NoReq]
                          /\ Sched(c, Line0(a))
  <2> DEFINE c == [m EXCEPT !.buse = @ \ {t}, !.req[t] = NoReq]
  <2>1. [a.req EXCEPT ![t] = NoReq] \in [Thread -> ReqType] /\ a.buse \ {t} \in SUBSET Buf
    BY <1>1, <1>2
  <2>2. c = [m EXCEPT !.buse = a.buse \ {t}, !.req = [a.req EXCEPT ![t] = NoReq]]
    BY DEF Memory
  <2> HIDE DEF c
  <2>3. /\ c \in Memory /\ c.q = m.q /\ c.on = m.on
        /\ c.cur = t /\ c.box = m.box /\ c.sem = m.sem /\ c.va = m.va
        /\ c.buse = a.buse \ {t} /\ c.req = [a.req EXCEPT ![t] = NoReq]
    BY <2>1, <2>2 DEF Memory
  <2>4. Sched(c, Line0(a))
    BY <2>3 DEF Sched
  <2> QED BY <2>3, <2>4 DEF c
<1>4. PICK b \in Memory : /\ b = PutBuffer(m, t) /\ Sched(b, Line0(a) \ {t})
                          /\ b.box = m.box /\ b.sem = m.sem /\ b.va = a.va
                          /\ b.buse = a.buse \ {t} /\ b.req = [a.req EXCEPT ![t] = NoReq]
  <2>1. PICK b : b = ThreadHalt(c)
    OBVIOUS
  <2>2. b \in Memory /\ Sched(b, Line0(a) \ {t}) /\ Rest(b) = Rest(c)
    BY <1>1, <1>3, <2>1, HaltKeeps
  <2> QED BY <1>3, <2>1, <2>2 DEF PutBuffer, Rest
<1>5. /\ b.req[Main] = a.req[Main] /\ b.req[Tcpip] = a.req[Tcpip] /\ b.req[t] = NoReq
      /\ \A u \in Buf : u # t => b.req[u] = a.req[u]
  BY <1>1, <1>4, Threads
<1>6. Busy(b) = Busy(a) \ {t} /\ Line0(b) = Line0(a) \ {t}
  <2>1. Busy(b) = Busy(a) \ {t}
    <3>1. \A u \in Buf : b.req[u].pc # "none" <=> a.req[u].pc # "none" /\ u # t
      BY <1>2, <1>5
    <3> QED BY <3>1 DEF Busy
  <2> QED BY <1>1, <2>1, Threads DEF Line0
<1>7. Counted(b)
  BY <1>4, SemsAre DEF Counted
<1>8. Letters(b) /\ Handed(b)
  <2>1. Letters(a) /\ Handed(a) /\ \A u \in Buf : a.req[u].pc = "sending" => b.req[u] = a.req[u]
    BY <1>5 DEF Good
  <2>2. \A d \in Client : b.sem[Done(d)].counter = a.sem[Done(d)].counter
    BY <1>4
  <2>3. b.box[Stack] = a.box[Stack] /\ b.req[Tcpip] = a.req[Tcpip] /\ a \in Memory /\ b \in Memory
    BY <1>1, <1>4, <1>5
  <2> QED BY <2>1, <2>2, <2>3, Senders
<1>9. Asking(b, cl2)
  BY <1>2, <1>5 DEF Good, Asking, Asks
<1>10. Served(b) /\ Packets(b, pg, inp)
  BY <1>2, <1>5 DEF Good, Served, Packets
<1>11. Held(b, lk) /\ Blocked(b, "run")
  <2>1. t \in Busy(a)
    BY DEF Busy
  <2>2. /\ lk \subseteq Buf /\ lk \cap Busy(a) = {} /\ a.va \notin lk \cup Busy(a)
        /\ a.buse = Busy(a) \cup lk \cup ({a.va} \ {0})
    BY DEF Good, Held
  <2>3. a.buse \ {t} = (Busy(a) \ {t}) \cup lk \cup ({a.va} \ {0})
    BY <2>1, <2>2
  <2>4. Held(b, lk)
    BY <1>4, <1>6, <2>2, <2>3 DEF Held
  <2>5. Blocked(b, "run")
    BY <1>4, <1>5 DEF Good, Blocked
  <2> QED BY <2>4, <2>5
<1> QED BY <1>4, <1>6, <1>7, <1>8, <1>9, <1>10, <1>11 DEF Good

\* netconn_send: the request is posted to lwIP's mailbox.
LEMMA SendGood ==
  ASSUME NEW a, NEW cl, NEW pg, NEW inp, NEW lk, Good(a, "run", cl, pg, inp, lk),
         NEW t \in Buf, a.cur = t, a.req[t].pc = "send", SemHas(a, Free(Stack))
  PROVE  Good(Goto(MboxPut(SemTake(a, Free(Stack)), Stack, t), "sending"), "run", cl, pg, inp, lk)
<1>1. /\ a \in Memory /\ a.req \in [Thread -> ReqType] /\ a.box \in [Boxes -> BoxType]
      /\ t \in Thread /\ t \in Int /\ t # 0 /\ Stack \in Boxes /\ a.req[t] \in ReqType
  BY Threads DEF Good, Memory
<1>2. PICK m1 : m1 = SemTake(a, Free(Stack))
  OBVIOUS
<1>3. /\ m1 \in Memory /\ Sched(m1, Line0(a)) /\ m1.cur = t /\ m1.box = a.box
      /\ m1.req = a.req /\ m1.buse = a.buse /\ m1.va = a.va
      /\ \A r \in Sems(Boxes) : m1.sem[r].counter =
            IF r = Free(Stack) THEN a.sem[r].counter - 1 ELSE a.sem[r].counter
  <2>1. Free(Stack) \in Sems(Boxes)
    BY <1>1, SemsAre
  <2> QED BY <1>1, <1>2, <2>1, TakeKeeps DEF Good
<1>4. /\ a.sem[Free(Stack)].counter > 0 /\ a.sem[Free(Stack)].counter \in Nat
      /\ Count(a.box[Stack]) < MBOXSLOTS
  <2>1. a.sem[Free(Stack)].counter \in Nat /\ a.sem[Queued(Stack)].counter \in Nat
    BY <1>1, SemsAre DEF Memory, SemType
  <2>2. Count(a.box[Stack]) + a.sem[Free(Stack)].counter = MBOXSLOTS /\ Count(a.box[Stack]) = a.sem[Queued(Stack)].counter
    BY <1>1 DEF Good, Counted
  <2> QED BY <2>1, <2>2, Sizes DEF SemHas
<1>5. PICK m2 : m2 = MboxPut(m1, Stack, t)
  OBVIOUS
<1>6. /\ m2 \in Memory /\ Sched(m2, Line0(a)) /\ m2.cur = t /\ m2.req = a.req
      /\ m2.buse = a.buse /\ m2.va = a.va
      /\ m2.box = [a.box EXCEPT ![Stack] = With(a.box[Stack], t)]
      /\ \A u \in Sems(Boxes) : m2.sem[u].counter =
            IF u = Queued(Stack) THEN m1.sem[u].counter + 1 ELSE m1.sem[u].counter
  BY <1>1, <1>3, <1>4, <1>5, PutKeeps
<1>7. PICK b : b = Goto(m2, "sending")
  OBVIOUS
<1>x. /\ b \in Memory /\ Sched(b, Line0(a)) /\ b.cur = t /\ b.box = m2.box /\ b.sem = m2.sem
      /\ b.buse = m2.buse /\ b.va = m2.va
      /\ b.req[t] \in ReqType /\ b.req = [m2.req EXCEPT ![t] = b.req[t]]
      /\ b.req[t].pc = "sending" /\ b.req[t].whom = m2.req[t].whom /\ b.req[t].page = m2.req[t].page
  <2>1. "sending" \in Pcs
    BY DEF Pcs
  <2> QED BY <1>6, <1>7, <2>1, GotoKeeps
<1>8. PICK r \in ReqType : r = b.req[t]
                           /\ r.whom = a.req[t].whom /\ r.pc = "sending" /\ r.page = a.req[t].page
                           /\ b.box = m2.box /\ b.sem = m2.sem /\ b.buse = a.buse /\ b.va = a.va
                           /\ b.req = [a.req EXCEPT ![t] = r]
  BY <1>6, <1>x
<1>9. Counted(b)
  <2>1. \A c \in Boxes :
          /\ b.sem[Queued(c)].counter = IF c = Stack THEN a.sem[Queued(c)].counter + 1 ELSE a.sem[Queued(c)].counter
          /\ b.sem[Free(c)].counter = IF c = Stack THEN a.sem[Free(c)].counter - 1 ELSE a.sem[Free(c)].counter
    BY <1>1, <1>3, <1>6, <1>8, SemsAre
  <2>2. Counted(a)
    BY DEF Good
  <2> QED BY <1>1, <1>4, <1>6, <1>8, <1>x, <2>1, <2>2, CountedPut
<1>10. /\ b.req[t] = r /\ \A u \in Thread : u # t => b.req[u] = a.req[u]
       /\ b.req[Tcpip] = a.req[Tcpip]
  BY <1>1, <1>8, Threads
<1>11. PICK x \in BoxType : x = a.box[Stack]
  BY <1>1
<1>12. /\ x.nextq \in Slots /\ ~Kept(x, x.nextq)
       /\ \A k \in Slots : /\ Kept(b.box[Stack], k) <=> Kept(x, k) \/ k = x.nextq
                           /\ b.box[Stack].msg[k] = IF k = x.nextq THEN t ELSE x.msg[k]
  <2>1. b.box[Stack] = With(x, t)
    BY <1>1, <1>6, <1>8, <1>11
  <2> QED BY <1>1, <1>4, <1>11, <2>1, PutBox
<1>13. \A k \in Slots : /\ x.msg[k] # 0 <=> Kept(x, k)
                        /\ x.msg[k] # 0 => x.msg[k] \in Buf /\ a.req[x.msg[k]].pc = "sending" /\ x.msg[k] # t
                        /\ \A j \in Slots : x.msg[k] # 0 /\ x.msg[j] = x.msg[k] => j = k
  BY <1>11 DEF Good, Letters
<1>14. Letters(b)
  <2>1. \A u \in Buf : a.req[u].pc = "sending" => b.req[u].pc = "sending"
    BY <1>8, <1>10, Threads
  <2> SUFFICES ASSUME NEW k \in Slots
      PROVE  LET y == b.box[Stack] IN
             /\ y.msg[k] # 0 <=> Kept(y, k)
             /\ y.msg[k] # 0 => y.msg[k] \in Buf /\ b.req[y.msg[k]].pc = "sending"
             /\ \A j \in Slots : y.msg[k] # 0 /\ y.msg[j] = y.msg[k] => j = k
    BY DEF Letters
  <2> DEFINE y == b.box[Stack]
  <2>2. y.msg[k] # 0 <=> Kept(y, k)
    BY <1>1, <1>12, <1>13
  <2>3. y.msg[k] # 0 => y.msg[k] \in Buf /\ b.req[y.msg[k]].pc = "sending"
    <3>1. CASE k = x.nextq
      BY <1>8, <1>10, <1>12, <3>1
    <3>2. CASE k # x.nextq
      BY <1>12, <1>13, <2>1, <3>2
    <3> QED BY <3>1, <3>2
  <2>4. \A j \in Slots : y.msg[k] # 0 /\ y.msg[j] = y.msg[k] => j = k
    BY <1>1, <1>12, <1>13
  <2> QED BY <2>2, <2>3, <2>4
<1>15. Handed(b)
  <2> SUFFICES ASSUME NEW c \in Client
      PROVE  /\ Outgoing(b, c) => Sends(b, c) /\ ~Letter(b, c)
             /\ b.sem[Done(c)].counter > 0 =>
                   b.sem[Done(c)].counter = 1 /\ Sends(b, c) /\ ~Letter(b, c) /\ ~Outgoing(b, c)
    BY DEF Handed
  <2>1. /\ Outgoing(a, c) => Sends(a, c) /\ ~Letter(a, c)
        /\ a.sem[Done(c)].counter > 0 =>
              a.sem[Done(c)].counter = 1 /\ Sends(a, c) /\ ~Letter(a, c) /\ ~Outgoing(a, c)
    BY DEF Good, Handed
  <2>2. b.sem[Done(c)].counter = a.sem[Done(c)].counter
    <3>1. Done(c) \in Sems(Boxes) /\ Done(c) # Free(Stack) /\ Done(c) # Queued(Stack)
      BY <1>1, Threads, SemsAre
    <3> QED BY <1>3, <1>6, <1>8, <3>1
  <2>3. Outgoing(b, c) <=> Outgoing(a, c)
    BY <1>10 DEF Outgoing
  <2>4. Sends(a, c) => Sends(b, c)
    BY <1>8, <1>10, Threads DEF Sends
  <2>5. Sends(a, c) => r.whom # c
    BY <1>1, <1>8 DEF Good, Asking, Asks, Sends
  <2>6. Letter(b, c) => Letter(a, c) \/ r.whom = c
    <3> SUFFICES ASSUME NEW k \in Slots, b.box[Stack].msg[k] # 0,
                        b.req[b.box[Stack].msg[k]].whom = c
                 PROVE  Letter(a, c) \/ r.whom = c
      BY DEF Letter
    <3>1. CASE k = x.nextq
      BY <1>10, <1>12, <3>1
    <3>2. CASE k # x.nextq
      <4>1. b.box[Stack].msg[k] = x.msg[k] /\ x.msg[k] \in Buf /\ x.msg[k] # t
        BY <1>12, <1>13, <3>2
      <4>2. b.req[x.msg[k]] = a.req[x.msg[k]]
        BY <1>10, <4>1, Threads
      <4> QED BY <1>11, <4>1, <4>2 DEF Letter
    <3> QED BY <3>1, <3>2
  <2> QED BY <2>1, <2>2, <2>3, <2>4, <2>5, <2>6
<1>16. Good(b, "run", cl, pg, inp, lk)
  <2>1. Follows(a.req[t], r)
    BY <1>8 DEF Follows, Asks
  <2> QED BY <1>8, <1>x, <1>9, <1>14, <1>15, <2>1, StepGood
<1> QED BY <1>2, <1>5, <1>7, <1>16

\* The end of netconn_send: the request is completed.
LEMMA SendingGood ==
  ASSUME NEW a, NEW cl, NEW pg, NEW inp, NEW lk, Good(a, "run", cl, pg, inp, lk),
         NEW t \in Buf, a.cur = t, a.req[t].pc = "sending", SemHas(a, Done(a.req[t].whom))
  PROVE  Good(SetPkt(Goto(SemTake(a, Done(a.req[t].whom)), "reply"), t, NoPacket), "run", cl, pg, inp, lk)
<1>w. PICK w : w = a.req[t].whom
  OBVIOUS
<1>h. SemHas(a, Done(w))
  BY <1>w
<1>b. PICK b : b = SetPkt(Goto(SemTake(a, Done(w)), "reply"), t, NoPacket)
  OBVIOUS
<1>1. /\ a \in Memory /\ a.req \in [Thread -> ReqType] /\ a.sem \in [Sems(Boxes) -> SemType]
      /\ t \in Thread /\ Stack \in Boxes /\ a.req[t] \in ReqType /\ w \in Client /\ w \in Boxes
  BY <1>w, Threads DEF Good, Memory, Asking, Asks
<1>2. PICK m1 : m1 = SemTake(a, Done(w))
  OBVIOUS
<1>3. /\ m1 \in Memory /\ Sched(m1, Line0(a)) /\ m1.cur = t /\ m1.box = a.box
      /\ m1.req = a.req /\ m1.buse = a.buse /\ m1.va = a.va
      /\ \A r \in Sems(Boxes) : m1.sem[r].counter =
            IF r = Done(w) THEN a.sem[r].counter - 1 ELSE a.sem[r].counter
  <2>1. Done(w) \in Sems(Boxes)
    BY <1>1, SemsAre
  <2> QED BY <1>1, <1>2, <1>h, <2>1, TakeKeeps DEF Good
<1>4. PICK m2 : m2 = Goto(m1, "reply")
  OBVIOUS
<1>5. /\ m2 \in Memory /\ Sched(m2, Line0(a)) /\ m2.cur = t /\ m2.box = m1.box /\ m2.sem = m1.sem
      /\ m2.buse = m1.buse /\ m2.va = m1.va
      /\ m2.req[t] \in ReqType /\ m2.req = [m1.req EXCEPT ![t] = m2.req[t]]
      /\ m2.req[t].pc = "reply" /\ m2.req[t].whom = m1.req[t].whom /\ m2.req[t].page = m1.req[t].page
  <2>1. "reply" \in Pcs
    BY DEF Pcs
  <2> QED BY <1>3, <1>4, <2>1, GotoKeeps
<1>6. /\ b \in Memory /\ Sched(b, Line0(a)) /\ b.box = m2.box /\ b.sem = m2.sem
      /\ b.buse = m2.buse /\ b.va = m2.va
      /\ b.req[t] \in ReqType /\ b.req = [m2.req EXCEPT ![t] = b.req[t]]
      /\ b.req[t].pc = m2.req[t].pc /\ b.req[t].whom = m2.req[t].whom /\ b.req[t].page = m2.req[t].page
  <2>1. b = SetPkt(m2, t, NoPacket) /\ NoPacket \in Int
    BY <1>2, <1>4, <1>b, Rings
  <2> QED BY <1>1, <1>5, <2>1, PktKeeps
<1>9. b \in Memory /\ b.box = a.box /\ b.sem = m1.sem /\ b.buse = a.buse /\ b.va = a.va
  BY <1>3, <1>5, <1>6
<1>7. PICK r \in ReqType : r = b.req[t] /\ r.pc = "reply" /\ r.whom = w /\ r.page = a.req[t].page
  BY <1>3, <1>5, <1>6, <1>w
<1>10. b.req = [a.req EXCEPT ![t] = r]
  BY <1>1, <1>3, <1>5, <1>6, <1>7
<1>11. /\ b.req[t] = r /\ \A u \in Thread : u # t => b.req[u] = a.req[u]
       /\ b.req[Tcpip] = a.req[Tcpip]
  BY <1>1, <1>10, Threads
<1>12. Counted(b)
  <2>1. \A c \in Boxes : /\ b.sem[Queued(c)].counter = a.sem[Queued(c)].counter
                         /\ b.sem[Free(c)].counter = a.sem[Free(c)].counter
    BY <1>1, <1>3, <1>9, SemsAre
  <2> QED BY <1>9, <2>1 DEF Good, Counted
<1>13. /\ a.sem[Done(w)].counter > 0 /\ a.sem[Done(w)].counter = 1
       /\ ~Letter(a, w) /\ ~Outgoing(a, w)
  <2>1. a.sem[Done(w)].counter > 0
    BY <1>h DEF SemHas
  <2> QED BY <1>1, <2>1 DEF Good, Handed
<1>14. Letters(b)
  <2>1. \A k \in Slots : a.box[Stack].msg[k] # 0 => a.box[Stack].msg[k] # t
    BY <1>13, <1>w DEF Letter
  <2>2. \A u \in Buf : u # t => b.req[u] = a.req[u]
    BY <1>11, Threads
  <2>3. PICK x : x = a.box[Stack] /\ x = b.box[Stack]
    BY <1>9
  <2>4. \A k \in Slots : /\ x.msg[k] # 0 <=> Kept(x, k)
                         /\ x.msg[k] # 0 => x.msg[k] \in Buf /\ a.req[x.msg[k]].pc = "sending"
                         /\ \A j \in Slots : x.msg[k] # 0 /\ x.msg[j] = x.msg[k] => j = k
    BY <2>3 DEF Good, Letters
  <2>5. \A k \in Slots : x.msg[k] # 0 => b.req[x.msg[k]] = a.req[x.msg[k]]
    <3> SUFFICES ASSUME NEW k \in Slots, x.msg[k] # 0 PROVE b.req[x.msg[k]] = a.req[x.msg[k]]
      OBVIOUS
    <3>1. PICK u \in Buf : u = x.msg[k]
      BY <2>4
    <3>2. u # t
      BY <2>1, <2>3, <3>1
    <3> QED BY <2>2, <3>1, <3>2
  <2>6. Letters(b) <=> \A k \in Slots :
            /\ x.msg[k] # 0 <=> Kept(x, k)
            /\ x.msg[k] # 0 => x.msg[k] \in Buf /\ b.req[x.msg[k]].pc = "sending"
            /\ \A j \in Slots : x.msg[k] # 0 /\ x.msg[j] = x.msg[k] => j = k
    BY <2>3 DEF Letters
  <2> QED BY <2>4, <2>5, <2>6
<1>15. Handed(b)
  <2> SUFFICES ASSUME NEW c \in Client
      PROVE  /\ Outgoing(b, c) => Sends(b, c) /\ ~Letter(b, c)
             /\ b.sem[Done(c)].counter > 0 =>
                   b.sem[Done(c)].counter = 1 /\ Sends(b, c) /\ ~Letter(b, c) /\ ~Outgoing(b, c)
    BY DEF Handed
  <2>1. /\ Outgoing(a, c) => Sends(a, c) /\ ~Letter(a, c)
        /\ a.sem[Done(c)].counter > 0 =>
              a.sem[Done(c)].counter = 1 /\ Sends(a, c) /\ ~Letter(a, c) /\ ~Outgoing(a, c)
    BY DEF Good, Handed
  <2>2. Outgoing(b, c) <=> Outgoing(a, c)
    BY <1>11 DEF Outgoing
  <2>3. CASE c = w
    <3>1. b.sem[Done(c)].counter = a.sem[Done(c)].counter - 1
      BY <1>1, <1>3, <1>9, <2>3, SemsAre
    <3> QED BY <1>13, <2>2, <2>3, <3>1
  <2>4. CASE c # w
    <3>1. b.sem[Done(c)].counter = a.sem[Done(c)].counter
      <4>1. Done(c) \in Sems(Boxes) /\ Done(c) # Done(w)
        BY <1>1, <2>4, Threads, SemsAre
      <4> QED BY <1>3, <1>9, <4>1
    <3>2. Sends(a, c) => Sends(b, c)
      BY <1>11, <1>w, <2>4, Threads DEF Sends
    <3>3. Letter(b, c) => Letter(a, c)
      <4>1. \A k \in Slots : a.box[Stack].msg[k] # 0 => a.box[Stack].msg[k] \in Buf
        BY DEF Good, Letters
      <4> SUFFICES ASSUME NEW k \in Slots, b.box[Stack].msg[k] # 0,
                          b.req[b.box[Stack].msg[k]].whom = c
                   PROVE  Letter(a, c)
        BY DEF Letter
      <4>2. PICK u \in Buf : u = a.box[Stack].msg[k] /\ u = b.box[Stack].msg[k] /\ u # 0
        BY <1>9, <4>1
      <4>3. u # t
        BY <1>7, <1>11, <2>4, <4>2
      <4>4. a.req[u].whom = c
        BY <1>11, <4>2, <4>3, Threads
      <4> QED BY <4>2, <4>4 DEF Letter
    <3> QED BY <2>1, <2>2, <3>1, <3>2, <3>3
  <2> QED BY <2>3, <2>4
<1>16. Good(b, "run", cl, pg, inp, lk)
  <2>1. Follows(a.req[t], r)
    BY <1>7, <1>w DEF Follows, Asks
  <2> QED BY <1>6, <1>9, <1>10, <1>12, <1>14, <1>15, <2>1, StepGood
<1> QED BY <1>16, <1>b, <1>w

\* netconn_recv: the socket's first packet is taken.
LEMMA RecvGood ==
  ASSUME NEW a, NEW cl, NEW pg, NEW inp, NEW lk, Good(a, "run", cl, pg, inp, lk),
         NEW t \in Buf, a.cur = t, a.req[t].pc = "recv", SemHas(a, Queued(a.req[t].whom))
  PROVE  Good(Goto(MboxGet(SetPkt(SemTake(a, Queued(a.req[t].whom)), t, MboxMsg(a, a.req[t].whom)),
                           a.req[t].whom), "reply"), "run", cl, pg, inp, lk)
<1>w. PICK w, p : w = a.req[t].whom /\ p = MboxMsg(a, a.req[t].whom)
  OBVIOUS
<1>h. SemHas(a, Queued(w)) /\ p = MboxMsg(a, w)
  BY <1>w
<1>b. PICK b : b = Goto(MboxGet(SetPkt(SemTake(a, Queued(w)), t, p), w), "reply")
  OBVIOUS
<1>1. /\ a \in Memory /\ a.req \in [Thread -> ReqType] /\ a.sem \in [Sems(Boxes) -> SemType]
      /\ t \in Thread /\ Stack \in Boxes /\ a.req[t] \in ReqType /\ w \in Client /\ w \in Boxes
      /\ a.box \in [Boxes -> BoxType] /\ w # Stack
  BY <1>w, Threads DEF Good, Memory, Asking, Asks
<1>2. PICK m1 : m1 = SemTake(a, Queued(w))
  OBVIOUS
<1>3. /\ m1 \in Memory /\ Sched(m1, Line0(a)) /\ m1.cur = t /\ m1.box = a.box
      /\ m1.req = a.req /\ m1.buse = a.buse /\ m1.va = a.va
      /\ \A r \in Sems(Boxes) : m1.sem[r].counter =
            IF r = Queued(w) THEN a.sem[r].counter - 1 ELSE a.sem[r].counter
  <2>1. Queued(w) \in Sems(Boxes)
    BY <1>1, SemsAre
  <2> QED BY <1>1, <1>2, <1>h, <2>1, TakeKeeps DEF Good
<1>4. a.sem[Queued(w)].counter > 0 /\ Count(a.box[w]) > 0 /\ p \in Int
  <2>1. a.sem[Queued(w)].counter > 0 /\ Count(a.box[w]) > 0
    BY <1>1, <1>h DEF SemHas, Good, Counted
  <2>2. a.box[w] \in BoxType /\ a.box[w].head \in Slots
    BY <1>1, <2>1, GetBox
  <2> QED BY <1>1, <1>h, <2>1, <2>2 DEF MboxMsg, BoxType
<1>5. PICK m2 : m2 = SetPkt(m1, t, p)
  OBVIOUS
<1>6. /\ m2 \in Memory /\ Sched(m2, Line0(a)) /\ m2.cur = m1.cur /\ m2.box = m1.box
      /\ m2.sem = m1.sem /\ m2.buse = m1.buse /\ m2.va = m1.va
      /\ m2.req[t] \in ReqType /\ m2.req = [m1.req EXCEPT ![t] = m2.req[t]]
      /\ m2.req[t].pc = m1.req[t].pc /\ m2.req[t].whom = m1.req[t].whom /\ m2.req[t].page = m1.req[t].page
  BY <1>1, <1>3, <1>4, <1>5, PktKeeps
<1>7. PICK r1 \in ReqType : r1 = m2.req[t] /\ r1.whom = w /\ r1.page = a.req[t].page
  BY <1>3, <1>6, <1>w
<1>8. /\ m2 \in Memory /\ Sched(m2, Line0(a)) /\ m2.cur = t /\ m2.box = a.box /\ m2.sem = m1.sem
      /\ m2.buse = a.buse /\ m2.va = a.va /\ m2.req = [a.req EXCEPT ![t] = r1]
  BY <1>3, <1>6, <1>7
<1>9. PICK m3 : m3 = MboxGet(m2, w)
  OBVIOUS
<1>10. /\ m3 \in Memory /\ Sched(m3, Line0(a)) /\ m3.cur = t /\ m3.req = m2.req
       /\ m3.buse = a.buse /\ m3.va = a.va
       /\ m3.box = [a.box EXCEPT ![w] = Without(a.box[w])]
       /\ \A u \in Sems(Boxes) : m3.sem[u].counter =
            IF u = Free(w) THEN m1.sem[u].counter + 1 ELSE m1.sem[u].counter
  BY <1>1, <1>4, <1>8, <1>9, GetKeeps
<1>11. /\ b \in Memory /\ Sched(b, Line0(a)) /\ b.box = m3.box /\ b.sem = m3.sem
       /\ b.buse = m3.buse /\ b.va = m3.va
       /\ b.req[t] \in ReqType /\ b.req = [m3.req EXCEPT ![t] = b.req[t]]
       /\ b.req[t].pc = "reply" /\ b.req[t].whom = m3.req[t].whom /\ b.req[t].page = m3.req[t].page
  <2>1. "reply" \in Pcs
    BY DEF Pcs
  <2>2. b = Goto(m3, "reply")
    BY <1>2, <1>5, <1>9, <1>b
  <2> QED BY <1>10, <2>1, <2>2, GotoKeeps
<1>12. PICK r \in ReqType : r = b.req[t] /\ r.pc = "reply" /\ r.whom = w /\ r.page = a.req[t].page
  BY <1>7, <1>10, <1>11
<1>x. b.req = [a.req EXCEPT ![t] = r]
  <2>1. b.req = [[a.req EXCEPT ![t] = r1] EXCEPT ![t] = r]
    BY <1>8, <1>10, <1>11, <1>12
  <2> QED BY <1>1, <2>1
<1>13. Counted(b)
  <2>1. \A c \in Boxes :
          /\ b.sem[Queued(c)].counter = IF c = w THEN a.sem[Queued(c)].counter - 1 ELSE a.sem[Queued(c)].counter
          /\ b.sem[Free(c)].counter = IF c = w THEN a.sem[Free(c)].counter + 1 ELSE a.sem[Free(c)].counter
    BY <1>1, <1>3, <1>10, <1>11, SemsAre
  <2>2. Counted(a)
    BY DEF Good
  <2> QED BY <1>1, <1>4, <1>10, <1>11, <2>1, <2>2, CountedGet
<1>14. Letters(b) /\ Handed(b)
  <2>1. \A c \in Client : b.sem[Done(c)].counter = a.sem[Done(c)].counter
    <3>1. \A c \in Client : /\ Done(c) \in Sems(Boxes) /\ Done(c) # Free(w) /\ Done(c) # Queued(w)
      BY <1>1, Threads, SemsAre
    <3> QED BY <1>3, <1>10, <1>11, <3>1
  <2>2. /\ b.box[Stack] = a.box[Stack] /\ b.req[Tcpip] = a.req[Tcpip]
        /\ \A u \in Buf : a.req[u].pc = "sending" => b.req[u] = a.req[u]
    BY <1>1, <1>10, <1>11, <1>12, <1>x, Threads
  <2> QED BY <1>1, <1>11, <2>1, <2>2, Senders DEF Good
<1>15. Good(b, "run", cl, pg, inp, lk)
  <2>1. Follows(a.req[t], r)
    BY <1>11, <1>12, <1>w DEF Follows, Asks
  <2>2. b \in Memory /\ b.va = a.va /\ b.buse = a.buse /\ Sched(b, Line0(a))
    BY <1>10, <1>11
  <2>3. r \in ReqType
    BY <1>12
  <2> QED BY <1>13, <1>14, <1>x, <2>1, <2>2, <2>3, StepGood
<1> QED BY <1>15, <1>b, <1>w

\* jif_input: the packet is copied out of its page.
LEMMA JifInputGood ==
  ASSUME NEW a, NEW cl, NEW pg, NEW inp, NEW lk, Good(a, "run", cl, pg, inp, lk),
         NEW t \in Buf, a.cur = t, a.req[t].pc = "input"
  PROVE  Good(SetPkt(Goto(a, "deliver"), t, pg[a.req[t].page]), "run", cl, pg, inp, lk)
<1>1. a \in Memory /\ a.req \in [Thread -> ReqType] /\ t \in Thread /\ Sched(a, Line0(a))
  BY Threads DEF Good, Memory
<1>2. PICK p : p = pg[a.req[t].page]
  OBVIOUS
<1>3. p \in Pkt /\ p \in Int
  BY <1>2, Rings DEF Good, Packets, Pkt
<1>4. PICK m : m = Goto(a, "deliver")
  OBVIOUS
<1>5. /\ m \in Memory /\ Sched(m, Line0(a)) /\ m.box = a.box /\ m.sem = a.sem
      /\ m.buse = a.buse /\ m.va = a.va
      /\ m.req[t] \in ReqType /\ m.req = [a.req EXCEPT ![t] = m.req[t]]
      /\ m.req[t].pc = "deliver"
  <2>1. "deliver" \in Pcs
    BY DEF Pcs
  <2> QED BY <1>1, <1>4, <2>1, GotoKeeps
<1>6. PICK b : b = SetPkt(m, t, p)
  OBVIOUS
<1>7. /\ b \in Memory /\ Sched(b, Line0(a)) /\ b.box = m.box /\ b.sem = m.sem
      /\ b.buse = m.buse /\ b.va = m.va
      /\ b.req[t] \in ReqType /\ b.req = [m.req EXCEPT ![t] = b.req[t]]
      /\ b.req[t].pc = m.req[t].pc /\ b.req[t].pkt = p
  BY <1>1, <1>3, <1>5, <1>6, PktKeeps
<1>8. PICK r \in ReqType : r = b.req[t] /\ r.pc = "deliver" /\ r.pkt \in Pkt
  BY <1>3, <1>5, <1>7
<1>9. b.req = [a.req EXCEPT ![t] = r]
  BY <1>1, <1>5, <1>7, <1>8
<1>10. b.box = a.box /\ b.sem = a.sem /\ b.buse = a.buse /\ b.va = a.va
  BY <1>5, <1>7
<1>11. Counted(b)
  BY <1>10 DEF Good, Counted
<1>12. Letters(b) /\ Handed(b)
  <2>1. /\ b.box[Stack] = a.box[Stack] /\ b.req[Tcpip] = a.req[Tcpip]
        /\ \A u \in Buf : a.req[u].pc = "sending" => b.req[u] = a.req[u]
    BY <1>1, <1>9, <1>10, Threads
  <2>2. \A c \in Client : b.sem[Done(c)].counter = a.sem[Done(c)].counter
    BY <1>10
  <2> QED BY <1>1, <1>7, <2>1, <2>2, Senders DEF Good
<1>13. Good(b, "run", cl, pg, inp, lk)
  <2>1. Follows(a.req[t], r)
    BY <1>8 DEF Follows, Asks
  <2> QED BY <1>7, <1>8, <1>9, <1>10, <1>11, <1>12, <2>1, StepGood
<1> QED BY <1>2, <1>4, <1>6, <1>13

\* recv_udp: the packet is posted to the socket's mailbox, and the thread ends.
LEMMA DeliverGood ==
  ASSUME NEW a, NEW cl, NEW pg, NEW inp, NEW lk, Good(a, "run", cl, pg, inp, lk),
         NEW t \in Buf, a.cur = t, a.req[t].pc = "deliver",
         SemHas(a, Free(To[a.req[t].pkt]))
  PROVE  Good(PutBuffer(MboxPut(SemTake(a, Free(To[a.req[t].pkt])), To[a.req[t].pkt], a.req[t].pkt), t),
              "run", cl, pg, inp, lk)
<1>1. PICK p, c : p = a.req[t].pkt /\ c = To[a.req[t].pkt]
  OBVIOUS
<1>2. /\ p \in Int /\ c \in Client /\ c \in Boxes /\ c # Stack /\ SemHas(a, Free(c))
      /\ a \in Memory /\ a.box \in [Boxes -> BoxType] /\ Stack \in Boxes
  <2>1. p \in Pkt /\ a \in Memory
    BY <1>1 DEF Good, Packets
  <2>2. c \in Client /\ p \in Int
    BY <1>1, <2>1, Sockets, Rings DEF Pkt
  <2> QED BY <1>1, <2>1, <2>2, Threads DEF Memory
<1>3. PICK m1 : m1 = SemTake(a, Free(c))
  OBVIOUS
<1>4. /\ m1 \in Memory /\ Sched(m1, Line0(a)) /\ m1.cur = t /\ m1.box = a.box
      /\ m1.req = a.req /\ m1.buse = a.buse /\ m1.va = a.va
      /\ \A r \in Sems(Boxes) : m1.sem[r].counter =
            IF r = Free(c) THEN a.sem[r].counter - 1 ELSE a.sem[r].counter
  <2>1. Free(c) \in Sems(Boxes)
    BY <1>2, SemsAre
  <2> QED BY <1>2, <1>3, <2>1, TakeKeeps DEF Good
<1>5. a.sem[Free(c)].counter > 0 /\ Count(a.box[c]) < MBOXSLOTS
  <2>1. a.sem[Free(c)].counter \in Nat /\ a.sem[Queued(c)].counter \in Nat
    BY <1>2, SemsAre DEF Memory, SemType
  <2>2. Count(a.box[c]) + a.sem[Free(c)].counter = MBOXSLOTS /\ Count(a.box[c]) = a.sem[Queued(c)].counter
    BY <1>2 DEF Good, Counted
  <2> QED BY <1>2, <2>1, <2>2, Sizes DEF SemHas
<1>6. PICK m : m = MboxPut(m1, c, p)
  OBVIOUS
<1>7. /\ m \in Memory /\ Sched(m, Line0(a)) /\ m.cur = t /\ m.req = a.req
      /\ m.buse = a.buse /\ m.va = a.va
      /\ m.box = [a.box EXCEPT ![c] = With(a.box[c], p)]
      /\ \A u \in Sems(Boxes) : m.sem[u].counter =
            IF u = Queued(c) THEN m1.sem[u].counter + 1 ELSE m1.sem[u].counter
  BY <1>2, <1>4, <1>5, <1>6, PutKeeps
<1>8. Counted(m)
  <2>1. \A d \in Boxes :
          /\ m.sem[Queued(d)].counter = IF d = c THEN a.sem[Queued(d)].counter + 1 ELSE a.sem[Queued(d)].counter
          /\ m.sem[Free(d)].counter = IF d = c THEN a.sem[Free(d)].counter - 1 ELSE a.sem[Free(d)].counter
    BY <1>2, <1>4, <1>7, SemsAre
  <2>2. Counted(a)
    BY DEF Good
  <2> QED BY <1>2, <1>5, <1>7, <2>1, <2>2, CountedPut
<1>9. /\ m.box[Stack] = a.box[Stack]
      /\ \A d \in Client : m.sem[Done(d)].counter = a.sem[Done(d)].counter
  <2>1. \A d \in Client : Done(d) \in Sems(Boxes) /\ Done(d) # Free(c) /\ Done(d) # Queued(c)
    BY <1>2, Threads, SemsAre
  <2> QED BY <1>2, <1>4, <1>7, <2>1
<1>10. \A u \in Buf : u # t /\ a.req[u].pc \in Asks => cl[a.req[u].whom] # "user"
  BY DEF Good, Asking
<1>11. Good(PutBuffer(m, t), "run", cl, pg, inp, lk)
  <2>1. a.req[t].pc \notin {"none", "sending"}
    OBVIOUS
  <2>2. /\ m \in Memory /\ m.cur = t /\ m.req = a.req /\ m.va = a.va /\ m.buse = a.buse
        /\ Sched(m, Line0(a)) /\ Counted(m)
    BY <1>7, <1>8
  <2>3. \A u \in Buf : u # t /\ a.req[u].pc \in Asks => cl[a.req[u].whom] # "user"
    BY <1>10
  <2> QED BY <1>9, <2>1, <2>2, <2>3, EndGood
<1> QED BY <1>1, <1>3, <1>6, <1>11

\* The answer: the client it is for has no thread any more.
LEMMA ReplyGood ==
  ASSUME NEW a, NEW cl, NEW pg, NEW inp, NEW lk, Good(a, "run", cl, pg, inp, lk),
         cl \in [Client -> {"user", "called", "waits"}],
         NEW t \in Buf, a.cur = t, a.req[t].pc = "reply"
  PROVE  Good(PutBuffer(a, t), "run", [cl EXCEPT ![a.req[t].whom] = "user"], pg, inp, lk)
<1>1. a \in Memory /\ Sched(a, Line0(a)) /\ Counted(a) /\ a.req[t].pc \notin {"none", "sending"}
  BY DEF Good
<1>2. PICK cl2 : cl2 = [cl EXCEPT ![a.req[t].whom] = "user"]
  OBVIOUS
<1>3. \A u \in Buf : u # t /\ a.req[u].pc \in Asks => cl2[a.req[u].whom] # "user"
  BY <1>2 DEF Good, Asking, Asks
<1>4. Good(PutBuffer(a, t), "run", cl2, pg, inp, lk)
  BY <1>1, <1>3, EndGood
<1> QED BY <1>2, <1>4

\* lwIP's thread goes on.
LEMMA TcpipGood ==
  ASSUME NEW a, NEW cl, NEW pg, NEW inp, NEW lk, Good(a, "run", cl, pg, inp, lk),
         NEW b \in Memory, NEW r \in ReqType, b.req = [a.req EXCEPT ![Tcpip] = r],
         b.va = a.va, b.buse = a.buse, Sched(b, Line0(a)),
         Counted(b), Letters(b), Handed(b),
         r.pc \in {"fetch", "output"}, r.pc = "output" => r.whom \in Client, r.page = 0
  PROVE  Good(b, "run", cl, pg, inp, lk)
<1>1. /\ a \in Memory /\ a.req \in [Thread -> ReqType]
      /\ b.req[Main] = a.req[Main] /\ b.req[Tcpip] = r
      /\ \A u \in Buf : b.req[u] = a.req[u]
  BY Threads DEF Good, Memory
<1>2. Busy(b) = Busy(a) /\ Line0(b) = Line0(a)
  BY <1>1 DEF Busy, Line0
<1>3. Asking(b, cl)
  BY <1>1 DEF Good, Asking
<1>4. Served(b)
  BY <1>1 DEF Good, Served
<1>5. Packets(b, pg, inp)
  BY <1>1 DEF Good, Packets
<1>6. Held(b, lk) /\ Blocked(b, "run")
  BY <1>1, <1>2 DEF Good, Held, Blocked
<1> QED BY <1>2, <1>3, <1>4, <1>5, <1>6 DEF Good

\* tcpip_thread takes the first request out of its mailbox.
LEMMA FetchGood ==
  ASSUME NEW a, NEW cl, NEW pg, NEW inp, NEW lk, Good(a, "run", cl, pg, inp, lk),
         a.cur = Tcpip, SemHas(a, Queued(Stack))
  PROVE  Good([MboxGet(SemTake(a, Queued(Stack)), Stack)
                  EXCEPT !.req[Tcpip] = [a.req[MboxMsg(a, Stack)] EXCEPT !.pc = "output"]],
              "run", cl, pg, inp, lk)
<1>1. /\ a \in Memory /\ a.req \in [Thread -> ReqType] /\ a.box \in [Boxes -> BoxType]
      /\ Stack \in Boxes /\ Tcpip \in Thread /\ Letters(a) /\ Handed(a) /\ Counted(a)
  BY Threads DEF Good, Memory
<1>2. PICK u, x : u = MboxMsg(a, Stack) /\ x = a.box[Stack]
  OBVIOUS
<1>3. /\ a.sem[Queued(Stack)].counter > 0 /\ Count(x) > 0 /\ x \in BoxType
  BY <1>1, <1>2 DEF SemHas, Counted
<1>4. /\ x.head \in Slots /\ Kept(x, x.head)
      /\ \A k \in Slots : /\ Kept(Without(x), k) <=> Kept(x, k) /\ k # x.head
                          /\ Without(x).msg[k] = IF k = x.head THEN 0 ELSE x.msg[k]
  BY <1>3, GetBox
<1>5. \A k \in Slots : /\ x.msg[k] # 0 <=> Kept(x, k)
                       /\ x.msg[k] # 0 => x.msg[k] \in Buf /\ a.req[x.msg[k]].pc = "sending"
                       /\ \A j \in Slots : x.msg[k] # 0 /\ x.msg[j] = x.msg[k] => j = k
  BY <1>1, <1>2 DEF Letters
<1>6. u = x.msg[x.head] /\ u # 0 /\ u \in Buf /\ u \in Thread /\ a.req[u].pc = "sending"
  BY <1>2, <1>4, <1>5, Threads DEF MboxMsg
<1>7. PICK w : w = a.req[u].whom /\ w \in Client /\ a.req[u].page = 0
  BY <1>6 DEF Good, Asking, Asks
<1>8. PICK r \in ReqType : /\ r = [a.req[u] EXCEPT !.pc = "output"]
                           /\ r.pc = "output" /\ r.whom = w /\ r.page = 0
  <2>1. PICK q \in ReqType : q = a.req[u] /\ q.whom = w /\ q.page = 0
    BY <1>1, <1>6, <1>7
  <2>2. PICK r : r = [q EXCEPT !.pc = "output"]
    OBVIOUS
  <2>3. "output" \in Pcs
    BY DEF Pcs
  <2>4. r \in ReqType /\ r.pc = "output" /\ r.whom = w /\ r.page = 0
    BY <2>1, <2>2, <2>3 DEF ReqType
  <2> QED BY <2>1, <2>2, <2>4
<1>9. PICK m1 : m1 = SemTake(a, Queued(Stack))
  OBVIOUS
<1>10. /\ m1 \in Memory /\ Sched(m1, Line0(a)) /\ m1.cur = Tcpip /\ m1.box = a.box
       /\ m1.req = a.req /\ m1.buse = a.buse /\ m1.va = a.va
       /\ \A s \in Sems(Boxes) : m1.sem[s].counter =
            IF s = Queued(Stack) THEN a.sem[s].counter - 1 ELSE a.sem[s].counter
  <2>1. Queued(Stack) \in Sems(Boxes)
    BY <1>1, SemsAre
  <2> QED BY <1>1, <1>9, <2>1, TakeKeeps DEF Good
<1>11. PICK m2 : m2 = MboxGet(m1, Stack)
  OBVIOUS
<1>12. /\ m2 \in Memory /\ Sched(m2, Line0(a)) /\ m2.req = a.req
       /\ m2.buse = a.buse /\ m2.va = a.va
       /\ m2.box = [a.box EXCEPT ![Stack] = Without(x)]
       /\ \A s \in Sems(Boxes) : m2.sem[s].counter =
            IF s = Free(Stack) THEN m1.sem[s].counter + 1 ELSE m1.sem[s].counter
  BY <1>1, <1>2, <1>3, <1>10, <1>11, GetKeeps
<1>13. PICK b : b = [m2 EXCEPT !.req[Tcpip] = r]
  OBVIOUS
<1>14. /\ b \in Memory /\ Sched(b, Line0(a)) /\ b.box = m2.box /\ b.sem = m2.sem
       /\ b.buse = m2.buse /\ b.va = m2.va /\ b.req = [m2.req EXCEPT ![Tcpip] = r]
  BY <1>1, <1>12, <1>13, ReqSet
<1>15. Counted(b)
  <2>1. \A c \in Boxes :
          /\ b.sem[Queued(c)].counter = IF c = Stack THEN a.sem[Queued(c)].counter - 1 ELSE a.sem[Queued(c)].counter
          /\ b.sem[Free(c)].counter = IF c = Stack THEN a.sem[Free(c)].counter + 1 ELSE a.sem[Free(c)].counter
    BY <1>1, <1>10, <1>12, <1>14, SemsAre
  <2>2. b.box = [a.box EXCEPT ![Stack] = Without(a.box[Stack])]
    BY <1>2, <1>12, <1>14
  <2> QED BY <1>1, <1>3, <1>14, <2>1, <2>2, CountedGet
<1>16. /\ b.req[Tcpip] = r /\ \A v \in Buf : b.req[v] = a.req[v]
  BY <1>1, <1>12, <1>14, Threads
<1>17. PICK y : y = b.box[Stack] /\ y = Without(x)
  BY <1>1, <1>12, <1>14
<1>18. \A k \in Slots : /\ Kept(y, k) <=> Kept(x, k) /\ k # x.head
                        /\ y.msg[k] = IF k = x.head THEN 0 ELSE x.msg[k]
  BY <1>4, <1>17
<1>19. Letters(b)
  <2>1. Letters(b) <=> \A k \in Slots :
            /\ y.msg[k] # 0 <=> Kept(y, k)
            /\ y.msg[k] # 0 => y.msg[k] \in Buf /\ b.req[y.msg[k]].pc = "sending"
            /\ \A j \in Slots : y.msg[k] # 0 /\ y.msg[j] = y.msg[k] => j = k
    BY <1>17 DEF Letters
  <2> SUFFICES ASSUME NEW k \in Slots
      PROVE /\ y.msg[k] # 0 <=> Kept(y, k)
            /\ y.msg[k] # 0 => y.msg[k] \in Buf /\ b.req[y.msg[k]].pc = "sending"
            /\ \A j \in Slots : y.msg[k] # 0 /\ y.msg[j] = y.msg[k] => j = k
    BY <2>1
  <2>2. y.msg[k] # 0 <=> Kept(y, k)
    BY <1>5, <1>18
  <2>3. y.msg[k] # 0 => y.msg[k] \in Buf /\ b.req[y.msg[k]].pc = "sending"
    BY <1>5, <1>16, <1>18
  <2>4. \A j \in Slots : y.msg[k] # 0 /\ y.msg[j] = y.msg[k] => j = k
    BY <1>5, <1>18
  <2> QED BY <2>2, <2>3, <2>4
<1>20. \A c \in Client : Letter(b, c) => Letter(a, c) /\ c # w
  <2> SUFFICES ASSUME NEW c \in Client, NEW k \in Slots, y.msg[k] # 0, b.req[y.msg[k]].whom = c
               PROVE  Letter(a, c) /\ c # w
    BY <1>17 DEF Letter
  <2>1. PICK v \in Buf : v = y.msg[k] /\ v = x.msg[k] /\ v # 0 /\ k # x.head /\ a.req[v].pc = "sending"
    BY <1>5, <1>18
  <2>2. v # u
    BY <1>4, <1>5, <1>6, <2>1
  <2>3. a.req[v].whom = c
    BY <1>16, <2>1
  <2>4. Letter(a, c)
    BY <1>2, <2>1, <2>3 DEF Letter
  <2>5. c # w
    BY <1>6, <1>7, <2>1, <2>2, <2>3 DEF Good, Asking, Asks
  <2> QED BY <2>4, <2>5
<1>21. Letter(a, w)
  BY <1>2, <1>4, <1>6, <1>7 DEF Letter
<1>22. Handed(b)
  <2> SUFFICES ASSUME NEW c \in Client
      PROVE  /\ Outgoing(b, c) => Sends(b, c) /\ ~Letter(b, c)
             /\ b.sem[Done(c)].counter > 0 =>
                   b.sem[Done(c)].counter = 1 /\ Sends(b, c) /\ ~Letter(b, c) /\ ~Outgoing(b, c)
    BY DEF Handed
  <2>1. a.sem[Done(c)].counter > 0 =>
              a.sem[Done(c)].counter = 1 /\ Sends(a, c) /\ ~Letter(a, c) /\ ~Outgoing(a, c)
    BY <1>1 DEF Handed
  <2>2. b.sem[Done(c)].counter = a.sem[Done(c)].counter
    <3>1. Done(c) \in Sems(Boxes) /\ Done(c) # Free(Stack) /\ Done(c) # Queued(Stack)
      BY <1>1, Threads, SemsAre
    <3> QED BY <1>10, <1>12, <1>14, <3>1
  <2>3. Outgoing(b, c) <=> c = w
    BY <1>8, <1>16 DEF Outgoing
  <2>4. Sends(a, c) => Sends(b, c)
    BY <1>16 DEF Sends
  <2>5. Sends(b, w)
    BY <1>6, <1>7, <1>16 DEF Sends
  <2> QED BY <1>20, <1>21, <2>1, <2>2, <2>3, <2>4, <2>5
<1>23. Good(b, "run", cl, pg, inp, lk)
  <2>1. b.req = [a.req EXCEPT ![Tcpip] = r] /\ b.va = a.va /\ b.buse = a.buse
    BY <1>12, <1>14
  <2> QED BY <1>7, <1>8, <1>14, <1>15, <1>19, <1>22, <2>1, TcpipGood
<1> QED BY <1>2, <1>8, <1>9, <1>11, <1>13, <1>23

\* low_level_output has given the packet away: the thread that waits is told.
LEMMA OutputGood ==
  ASSUME NEW a, NEW cl, NEW pg, NEW inp, NEW lk, Good(a, "run", cl, pg, inp, lk),
         a.cur = Tcpip, a.req[Tcpip].pc = "output"
  PROVE  Good(SemSignal([a EXCEPT !.req[Tcpip] = [NoReq EXCEPT !.pc = "fetch"]], Done(a.req[Tcpip].whom)),
              "run", cl, pg, inp, lk)
<1>1. /\ a \in Memory /\ a.req \in [Thread -> ReqType]
      /\ Stack \in Boxes /\ Tcpip \in Thread /\ Letters(a) /\ Handed(a) /\ Counted(a)
      /\ Sched(a, Line0(a))
  BY Threads DEF Good, Memory
<1>2. PICK w : w = a.req[Tcpip].whom /\ w \in Client /\ w \in Boxes
  BY Threads DEF Good, Served
<1>3. PICK r \in ReqType : r = [NoReq EXCEPT !.pc = "fetch"] /\ r.pc = "fetch" /\ r.page = 0
  <2>1. PICK r : r = [pc |-> "fetch", whom |-> Stack, pkt |-> NoPacket, page |-> 0]
    OBVIOUS
  <2>2. r = [NoReq EXCEPT !.pc = "fetch"]
    BY <2>1 DEF NoReq
  <2>3. r \in ReqType /\ r.pc = "fetch" /\ r.page = 0
    BY <1>1, <2>1, Rings DEF ReqType, Pcs
  <2> QED BY <2>2, <2>3
<1>4. PICK m : m = [a EXCEPT !.req[Tcpip] = r]
  OBVIOUS
<1>5. /\ m \in Memory /\ Sched(m, Line0(a)) /\ m.box = a.box /\ m.sem = a.sem
      /\ m.buse = a.buse /\ m.va = a.va /\ m.req = [a.req EXCEPT ![Tcpip] = r]
  BY <1>1, <1>4, ReqSet
<1>6. PICK b : b = SemSignal(m, Done(w))
  OBVIOUS
<1>7. /\ b \in Memory /\ Sched(b, Line0(a)) /\ b.box = m.box /\ b.req = m.req
      /\ b.buse = m.buse /\ b.va = m.va
      /\ \A s \in Sems(Boxes) : b.sem[s].counter =
            IF s = Done(w) THEN m.sem[s].counter + 1 ELSE m.sem[s].counter
  <2>1. Done(w) \in Sems(Boxes)
    BY <1>2, SemsAre
  <2> QED BY <1>5, <1>6, <2>1, SignalKeeps
<1>8. b.req = [a.req EXCEPT ![Tcpip] = r] /\ b.box = a.box /\ b.va = a.va /\ b.buse = a.buse
  BY <1>5, <1>7
<1>9. b.req[Tcpip] = r /\ \A v \in Buf : b.req[v] = a.req[v]
  BY <1>1, <1>8, Threads
<1>10. Counted(b)
  <2>1. \A c \in Boxes : /\ b.sem[Queued(c)].counter = a.sem[Queued(c)].counter
                         /\ b.sem[Free(c)].counter = a.sem[Free(c)].counter
    BY <1>2, <1>5, <1>7, SemsAre
  <2> QED BY <1>1, <1>8, <2>1 DEF Counted
<1>11. Letters(b)
  <2>1. PICK x : x = a.box[Stack] /\ x = b.box[Stack]
    BY <1>8
  <2>2. \A v \in Buf : b.req[v].pc = a.req[v].pc
    BY <1>9
  <2>3. \A k \in Slots :
            /\ x.msg[k] # 0 <=> Kept(x, k)
            /\ x.msg[k] # 0 => x.msg[k] \in Buf /\ a.req[x.msg[k]].pc = "sending"
            /\ \A j \in Slots : x.msg[k] # 0 /\ x.msg[j] = x.msg[k] => j = k
    BY <1>1, <2>1 DEF Letters
  <2>4. Letters(b) <=> \A k \in Slots :
            /\ x.msg[k] # 0 <=> Kept(x, k)
            /\ x.msg[k] # 0 => x.msg[k] \in Buf /\ b.req[x.msg[k]].pc = "sending"
            /\ \A j \in Slots : x.msg[k] # 0 /\ x.msg[j] = x.msg[k] => j = k
    BY <2>1 DEF Letters
  <2> QED BY <2>2, <2>3, <2>4
<1>12. Handed(b)
  <2> SUFFICES ASSUME NEW c \in Client
      PROVE  /\ Outgoing(b, c) => Sends(b, c) /\ ~Letter(b, c)
             /\ b.sem[Done(c)].counter > 0 =>
                   b.sem[Done(c)].counter = 1 /\ Sends(b, c) /\ ~Letter(b, c) /\ ~Outgoing(b, c)
    BY DEF Handed
  <2>1. /\ Outgoing(a, c) => Sends(a, c) /\ ~Letter(a, c)
        /\ a.sem[Done(c)].counter > 0 =>
              a.sem[Done(c)].counter = 1 /\ Sends(a, c) /\ ~Letter(a, c) /\ ~Outgoing(a, c)
    BY <1>1 DEF Handed
  <2>2. ~Outgoing(b, c)
    BY <1>3, <1>9 DEF Outgoing
  <2>3. Sends(a, c) => Sends(b, c)
    BY <1>9 DEF Sends
  <2>4. Letter(b, c) => Letter(a, c)
    BY <1>1, <1>8, <1>9 DEF Letter, Letters
  <2>5. CASE c = w
    <3>1. Outgoing(a, c)
      BY <1>2, <2>5 DEF Outgoing
    <3>2. a.sem[Done(c)].counter \in Nat /\ Done(c) \in Sems(Boxes)
      BY <1>1, <1>2, <2>5, SemsAre DEF Memory, SemType
    <3>3. b.sem[Done(c)].counter = a.sem[Done(c)].counter + 1
      BY <1>5, <1>7, <2>5, <3>2
    <3> QED BY <2>1, <2>2, <2>3, <2>4, <3>1, <3>2, <3>3
  <2>6. CASE c # w
    <3>1. Done(c) \in Sems(Boxes) /\ Done(c) # Done(w)
      BY <1>2, <2>6, Threads, SemsAre
    <3>2. b.sem[Done(c)].counter = a.sem[Done(c)].counter
      BY <1>5, <1>7, <3>1
    <3> QED BY <2>1, <2>2, <2>3, <2>4, <3>2
  <2> QED BY <2>5, <2>6
<1>13. Good(b, "run", cl, pg, inp, lk)
  BY <1>3, <1>7, <1>8, <1>10, <1>11, <1>12, TcpipGood
<1> QED BY <1>2, <1>3, <1>4, <1>6, <1>13
-----------------------------------------------------------------------------
(* What serve() does.                                                      *)
LEMMA ServeKeeps ==
  ASSUME NEW m \in Memory, NEW T, Sched(m, T)
  PROVE  LET b == Serve(m) IN
         /\ b \in Memory /\ Sched(b, T) /\ b.cur = m.cur /\ b.box = m.box /\ b.sem = m.sem
         /\ b.buse = m.buse /\ b.va = 0
         /\ b.req[Main] \in ReqType /\ b.req = [m.req EXCEPT ![Main] = b.req[Main]]
         /\ b.req[Main].pc = "serve" /\ b.req[Main].page = m.req[Main].page
<1>1. m.req \in [Thread -> ReqType] /\ m.req[Main] \in ReqType /\ Main \in Thread
  BY Threads DEF Memory
<1>2. PICK r : r = [m.req[Main] EXCEPT !.pc = "serve"]
  OBVIOUS
<1>3. r \in ReqType /\ r.pc = "serve" /\ r.page = m.req[Main].page
  BY <1>1, <1>2 DEF ReqType, Pcs
<1>4. PICK g : g = [m.req EXCEPT ![Main] = r]
  OBVIOUS
<1>5. g \in [Thread -> ReqType] /\ g[Main] = r
  BY <1>1, <1>3, <1>4
<1>6. PICK b : b = Serve(m)
  OBVIOUS
<1>7. b = [m EXCEPT !.req = g, !.yields = 0, !.va = 0]
  BY <1>1, <1>2, <1>4, <1>6 DEF Serve, Memory
<1>8. /\ b \in Memory /\ b.q = m.q /\ b.on = m.on /\ b.cur = m.cur /\ b.box = m.box /\ b.sem = m.sem
      /\ b.buse = m.buse /\ b.va = 0 /\ b.req = g
  BY <1>5, <1>7 DEF Memory
<1>9. Sched(b, T)
  BY <1>8 DEF Sched
<1> QED BY <1>3, <1>4, <1>5, <1>6, <1>8, <1>9

\* serve() goes on: only its own record, its buffer and the buffers taken change.
LEMMA MainGood ==
  ASSUME NEW a, NEW md, NEW cl, NEW pg, NEW inp, NEW lk, Good(a, md, cl, pg, inp, lk),
         NEW b \in Memory, NEW r \in ReqType, b.req = [a.req EXCEPT ![Main] = r],
         b.box = a.box, b.sem = a.sem, Sched(b, Line0(a)),
         r.pc \in {"serve", "timer"}, r.page = 0,
         NEW md2, NEW cl2, NEW lk2, Blocked(b, md2),
         \A c \in Client : cl[c] # "user" => cl2[c] # "user",
         lk2 \subseteq Buf, lk2 \cap Busy(a) = {}, b.va \notin lk2 \cup Busy(a),
         b.buse = Busy(a) \cup lk2 \cup ({b.va} \ {0})
  PROVE  Good(b, md2, cl2, pg, inp, lk2)
<1>1. /\ a \in Memory /\ a.req \in [Thread -> ReqType] /\ Counted(a) /\ Letters(a) /\ Handed(a)
      /\ b.req[Tcpip] = a.req[Tcpip] /\ b.req[Main] = r
      /\ \A u \in Buf : b.req[u] = a.req[u]
  BY Threads DEF Good, Memory
<1>2. Busy(b) = Busy(a) /\ Line0(b) = Line0(a)
  BY <1>1 DEF Busy, Line0
<1>3. Asking(b, cl2)
  BY <1>1 DEF Good, Asking
<1>4. Served(b)
  BY <1>1 DEF Good, Served
<1>5. Packets(b, pg, inp)
  BY <1>1 DEF Good, Packets
<1>6. Held(b, lk2)
  BY <1>2 DEF Held
<1>7. Counted(b)
  BY <1>1 DEF Counted
<1>8. Letters(b) /\ Handed(b)
  BY <1>1, Senders
<1> QED BY <1>2, <1>3, <1>4, <1>5, <1>6, <1>7, <1>8 DEF Good

\* serve() blocks in ipc_recv, with a buffer no one has.
LEMMA RecvWith ==
  ASSUME NEW a, NEW cl, NEW pg, NEW inp, NEW lk, Good(a, "run", cl, pg, inp, lk),
         a.cur = Main, a.req[Main].pc = "serve", NEW f \in Buf \ a.buse
  PROVE  Good([a EXCEPT !.buse = @ \cup {f}, !.va = f], "recv", cl, pg, inp, lk)
<1>1. /\ a \in Memory /\ a.req \in [Thread -> ReqType] /\ a.buse \in SUBSET Buf
      /\ f \in Buf /\ f # 0 /\ a.va = 0 /\ Sched(a, Line0(a))
  BY Threads DEF Good, Memory, Blocked
<1>2. PICK b : b = [a EXCEPT !.buse = @ \cup {f}, !.va = f]
  OBVIOUS
<1>3. /\ b \in Memory /\ b.q = a.q /\ b.on = a.on /\ b.cur = a.cur /\ b.req = a.req
      /\ b.box = a.box /\ b.sem = a.sem /\ b.buse = a.buse \cup {f} /\ b.va = f
  BY <1>1, <1>2 DEF Memory
<1>4. Sched(b, Line0(a))
  BY <1>1, <1>3 DEF Sched
<1>5. PICK r \in ReqType : /\ r = a.req[Main] /\ r.pc = "serve" /\ r.page = 0
                           /\ b.req = [a.req EXCEPT ![Main] = r]
  BY <1>1, <1>3, Threads DEF Good, Served
<1>6. Blocked(b, "recv")
  BY <1>1, <1>3 DEF Blocked
<1>7. /\ lk \subseteq Buf /\ lk \cap Busy(a) = {} /\ b.va \notin lk \cup Busy(a)
      /\ b.buse = Busy(a) \cup lk \cup ({b.va} \ {0})
  BY <1>1, <1>3 DEF Good, Held
<1>8. Good(b, "recv", cl, pg, inp, lk)
  BY <1>3, <1>4, <1>5, <1>6, <1>7, MainGood
<1> QED BY <1>2, <1>8

LEMMA CountYield ==
  ASSUME NEW a, NEW cl, NEW pg, NEW inp, NEW lk, Good(a, "run", cl, pg, inp, lk)
  PROVE  Good([a EXCEPT !.yields = @ + 1], "run", cl, pg, inp, lk)
<1>1. a \in Memory /\ Sched(a, Line0(a))
  BY DEF Good
<1>2. PICK b : b = [a EXCEPT !.yields = @ + 1]
  OBVIOUS
<1>3. /\ b \in Memory /\ b.q = a.q /\ b.on = a.on /\ b.cur = a.cur /\ b.req = a.req
      /\ b.box = a.box /\ b.sem = a.sem /\ b.buse = a.buse /\ b.va = a.va
  <2>1. PICK y \in Nat : y = a.yields + 1
    BY <1>1 DEF Memory
  <2>2. b = [a EXCEPT !.yields = y]
    BY <1>1, <1>2, <2>1 DEF Memory
  <2> QED BY <1>1, <2>2 DEF Memory
<1>4. Sched(b, Line0(a))
  BY <1>1, <1>3 DEF Sched
<1>5. /\ Counted(b) /\ Letters(b) /\ Handed(b) /\ Asking(b, cl)
      /\ Served(b) /\ Packets(b, pg, inp) /\ Busy(b) = Busy(a)
  BY <1>1, <1>3, Frame DEF Good
<1>6. Held(b, lk) /\ Blocked(b, "run") /\ Line0(b) = Line0(a)
  BY <1>3, <1>5 DEF Good, Held, Blocked, Line0
<1> QED BY <1>2, <1>3, <1>4, <1>5, <1>6 DEF Good

\* A message that carries no page: the buffer serve() had is lost.
LEMMA LeakGood ==
  ASSUME NEW a, NEW cl, NEW pg, NEW inp, NEW lk, Good(a, "recv", cl, pg, inp, lk),
         NEW cl2, \A c \in Client : cl[c] # "user" => cl2[c] # "user"
  PROVE  Good(Serve(a), "run", cl2, pg, inp, lk \cup {a.va})
<1>1. a \in Memory /\ Sched(a, Line0(a)) /\ a.va \in Buf /\ a.va # 0
  BY DEF Good, Blocked, Memory
<1>2. PICK b : b = Serve(a)
  OBVIOUS
<1>3. /\ b \in Memory /\ Sched(b, Line0(a)) /\ b.box = a.box /\ b.sem = a.sem
      /\ b.buse = a.buse /\ b.va = 0
      /\ b.req[Main] \in ReqType /\ b.req = [a.req EXCEPT ![Main] = b.req[Main]]
      /\ b.req[Main].pc = "serve" /\ b.req[Main].page = 0
  BY <1>1, <1>2, ServeKeeps DEF Good, Served
<1>4. PICK r \in ReqType : r = b.req[Main] /\ r.pc = "serve" /\ r.page = 0
  BY <1>3
<1>5. Blocked(b, "run")
  BY <1>3 DEF Blocked
<1>6. PICK lk2 : lk2 = lk \cup {a.va}
  OBVIOUS
<1>7. /\ lk2 \subseteq Buf /\ lk2 \cap Busy(a) = {} /\ b.va \notin lk2 \cup Busy(a)
      /\ b.buse = Busy(a) \cup lk2 \cup ({b.va} \ {0})
  BY <1>1, <1>3, <1>6, Threads DEF Good, Held, Busy
<1>8. Good(b, "run", cl2, pg, inp, lk2)
  BY <1>3, <1>4, <1>5, <1>7, MainGood
<1> QED BY <1>2, <1>6, <1>8

\* The timer's message, before the round of the threads.
LEMMA TimerGood ==
  ASSUME NEW a, NEW cl, NEW pg, NEW inp, NEW lk, Good(a, "recv", cl, pg, inp, lk)
  PROVE  Good([a EXCEPT !.req[Main].pc = "timer"], "run", cl, pg, inp, lk)
<1>1. /\ a \in Memory /\ Sched(a, Line0(a)) /\ a.cur = Main /\ a.va # 0
      /\ a.req \in [Thread -> ReqType]
  BY DEF Good, Blocked, Memory
<1>2. PICK b : b = Goto(a, "timer")
  OBVIOUS
<1>3. /\ b \in Memory /\ Sched(b, Line0(a)) /\ b.cur = Main /\ b.box = a.box /\ b.sem = a.sem
      /\ b.buse = a.buse /\ b.va = a.va
      /\ b.req[Main] \in ReqType /\ b.req = [a.req EXCEPT ![Main] = b.req[Main]]
      /\ b.req[Main].pc = "timer" /\ b.req[Main].page = a.req[Main].page
  <2>1. "timer" \in Pcs
    BY DEF Pcs
  <2> QED BY <1>1, <1>2, <2>1, GotoKeeps
<1>4. PICK r \in ReqType : r = b.req[Main] /\ r.pc = "timer" /\ r.page = 0
  BY <1>3 DEF Good, Served
<1>5. Blocked(b, "run")
  BY <1>1, <1>3 DEF Blocked
<1>6. /\ lk \subseteq Buf /\ lk \cap Busy(a) = {} /\ b.va \notin lk \cup Busy(a)
      /\ b.buse = Busy(a) \cup lk \cup ({b.va} \ {0})
  BY <1>3 DEF Good, Held
<1>7. Good(b, "run", cl, pg, inp, lk)
  BY <1>3, <1>4, <1>5, <1>6, MainGood
<1>8. b = [a EXCEPT !.req[Main].pc = "timer"]
  BY <1>1, <1>2 DEF Goto
<1> QED BY <1>7, <1>8

\* The end of process_timer: the buffer of the message is given back.
LEMMA TimerDone ==
  ASSUME NEW a, NEW cl, NEW pg, NEW inp, NEW lk, Good(a, "run", cl, pg, inp, lk),
         a.cur = Main, a.req[Main].pc = "timer"
  PROVE  Good(Serve([a EXCEPT !.buse = @ \ {a.va}]), "run", cl, pg, inp, lk)
<1>1. a \in Memory /\ Sched(a, Line0(a)) /\ a.buse \in SUBSET Buf
  BY DEF Good, Memory
<1>2. PICK m : m = [a EXCEPT !.buse = @ \ {a.va}]
  OBVIOUS
<1>3. /\ m \in Memory /\ m.q = a.q /\ m.on = a.on /\ m.cur = a.cur /\ m.req = a.req
      /\ m.box = a.box /\ m.sem = a.sem /\ m.buse = a.buse \ {a.va} /\ m.va = a.va
  BY <1>1, <1>2 DEF Memory
<1>4. Sched(m, Line0(a))
  BY <1>1, <1>3 DEF Sched
<1>5. PICK b : b = Serve(m)
  OBVIOUS
<1>6. /\ b \in Memory /\ Sched(b, Line0(a)) /\ b.box = a.box /\ b.sem = a.sem
      /\ b.buse = a.buse \ {a.va} /\ b.va = 0
      /\ b.req[Main] \in ReqType /\ b.req = [a.req EXCEPT ![Main] = b.req[Main]]
      /\ b.req[Main].pc = "serve" /\ b.req[Main].page = a.req[Main].page
  BY <1>3, <1>4, <1>5, ServeKeeps
<1>7. PICK r \in ReqType : r = b.req[Main] /\ r.pc = "serve" /\ r.page = 0
  BY <1>6 DEF Good, Served
<1>8. Blocked(b, "run")
  BY <1>6 DEF Blocked
<1>9. /\ lk \subseteq Buf /\ lk \cap Busy(a) = {} /\ b.va \notin lk \cup Busy(a)
      /\ b.buse = Busy(a) \cup lk \cup ({b.va} \ {0})
  BY <1>1, <1>6, Threads DEF Good, Held, Busy
<1>10. Good(b, "run", cl, pg, inp, lk)
  BY <1>6, <1>7, <1>8, <1>9, MainGood
<1> QED BY <1>2, <1>5, <1>10

\* A message with a page: a thread for it, with the buffer serve() had.
LEMMA AcceptGood ==
  ASSUME NEW a, NEW cl, NEW pg, NEW inp, NEW lk, Good(a, "recv", cl, pg, inp, lk),
         NEW rq \in ReqType, rq.pc \in {"send", "recv", "input"},
         NEW cl2, \A c \in Client : cl[c] # "user" => cl2[c] # "user",
         rq.pc # "input" =>
            rq.whom \in Client /\ rq.page = 0 /\ cl[rq.whom] = "user" /\ cl2[rq.whom] # "user",
         rq.pc = "input" => rq.page \in Page /\ pg[rq.page] \in Pkt,
         NEW inp2, inp2 \in {0, inp}
  PROVE  Good(ThreadYield(Serve(ThreadCreate([a EXCEPT !.req[a.va] = rq], a.va))),
              "run", cl2, pg, inp2, lk)
<1>1. PICK t : t = a.va
  OBVIOUS
<1>2. /\ a \in Memory /\ Sched(a, Line0(a)) /\ t \in Buf /\ t \in Thread /\ t # Main /\ t # Tcpip
      /\ a.req \in [Thread -> ReqType] /\ t \notin Busy(a) /\ t \notin lk /\ t # 0
      /\ a.req[t].pc = "none"
  BY <1>1, Threads DEF Good, Blocked, Memory, Held, Busy
<1>3. PICK m1 : m1 = [a EXCEPT !.req[t] = rq]
  OBVIOUS
<1>4. /\ m1 \in Memory /\ Sched(m1, Line0(a)) /\ m1.box = a.box /\ m1.sem = a.sem
      /\ m1.buse = a.buse /\ m1.va = a.va /\ m1.req = [a.req EXCEPT ![t] = rq]
  BY <1>2, <1>3, ReqSet
<1>5. PICK m2 : m2 = ThreadCreate(m1, t)
  OBVIOUS
<1>6. /\ m2 \in Memory /\ Sched(m2, Line0(a) \cup {t}) /\ m2.box = a.box /\ m2.sem = a.sem
      /\ m2.buse = a.buse /\ m2.req = [a.req EXCEPT ![t] = rq]
  <2>1. t \notin Line0(a)
    BY <1>2 DEF Line0
  <2>2. ThreadCreate(m1, t) \in Memory /\ Sched(ThreadCreate(m1, t), Line0(a) \cup {t}) /\ Rest(ThreadCreate(m1, t)) = Rest(m1)
    BY <1>2, <1>4, <2>1, CreateKeeps
  <2> QED BY <1>4, <1>5, <2>2 DEF Rest
<1>7. PICK b : b = Serve(m2)
  OBVIOUS
<1>8. /\ b \in Memory /\ Sched(b, Line0(a) \cup {t}) /\ b.box = a.box /\ b.sem = a.sem
      /\ b.buse = a.buse /\ b.va = 0
      /\ b.req[Main] \in ReqType /\ b.req = [m2.req EXCEPT ![Main] = b.req[Main]]
      /\ b.req[Main].pc = "serve" /\ b.req[Main].page = m2.req[Main].page
  BY <1>6, <1>7, ServeKeeps
<1>9. /\ b.req[t] = rq /\ b.req[Tcpip] = a.req[Tcpip]
      /\ b.req[Main].page = 0 /\ \A u \in Buf : u # t => b.req[u] = a.req[u]
  <2>1. m2.req[t] = rq /\ \A u \in Thread : u # t => m2.req[u] = a.req[u]
    BY <1>2, <1>6
  <2>2. \A u \in Thread : u # Main => b.req[u] = m2.req[u]
    BY <1>6, <1>8 DEF Memory
  <2>3. a.req[Main].page = 0
    BY DEF Good, Served
  <2> QED BY <1>2, <1>8, <2>1, <2>2, <2>3, Threads
<1>10. Busy(b) = Busy(a) \cup {t} /\ Line0(b) = Line0(a) \cup {t}
  BY <1>2, <1>9 DEF Busy, Line0
<1>11. Counted(b)
  BY <1>8 DEF Good, Counted
<1>12. Letters(b) /\ Handed(b)
  <2>1. /\ b.box[Stack] = a.box[Stack]
        /\ \A u \in Buf : a.req[u].pc = "sending" => b.req[u] = a.req[u]
        /\ \A c \in Client : b.sem[Done(c)].counter = a.sem[Done(c)].counter
    BY <1>2, <1>8, <1>9
  <2> QED BY <1>2, <1>8, <1>9, <2>1, Senders DEF Good
<1>13. Asking(b, cl2)
  <2> SUFFICES ASSUME NEW v \in Buf, b.req[v].pc \in Asks
      PROVE  /\ b.req[v].whom \in Client /\ b.req[v].page = 0 /\ cl2[b.req[v].whom] # "user"
             /\ \A u \in Buf : b.req[u].pc \in Asks /\ b.req[u].whom = b.req[v].whom => u = v
    BY DEF Asking
  <2>1. \A u \in Buf : a.req[u].pc \in Asks =>
          /\ a.req[u].whom \in Client /\ a.req[u].page = 0 /\ cl[a.req[u].whom] # "user"
          /\ \A z \in Buf : a.req[z].pc \in Asks /\ a.req[z].whom = a.req[u].whom => z = u
    BY DEF Good, Asking
  <2>2. CASE v = t
    <3>1. rq.pc # "input"
      BY <1>9, <2>2 DEF Asks
    <3> QED BY <1>9, <2>1, <2>2, <3>1
  <2>3. CASE v # t
    <3>1. b.req[v] = a.req[v]
      BY <1>9, <2>3
    <3>2. ASSUME NEW u \in Buf, b.req[u].pc \in Asks, b.req[u].whom = b.req[v].whom PROVE u = v
      <4>1. CASE u = t
        <5>1. rq.pc # "input"
          BY <1>9, <3>2, <4>1 DEF Asks
        <5> QED BY <1>9, <2>1, <3>1, <3>2, <4>1, <5>1
      <4>2. CASE u # t
        BY <1>9, <2>1, <3>1, <3>2, <4>2
      <4> QED BY <4>1, <4>2
    <3> QED BY <2>1, <3>1, <3>2
  <2> QED BY <2>2, <2>3
<1>14. Served(b)
  <2>1. \A u \in Buf : b.req[u].pc \in Asks \cup {"none", "input", "deliver"}
    BY <1>9 DEF Good, Served, Asks
  <2> QED BY <1>8, <1>9, <2>1 DEF Good, Served
<1>15. Packets(b, pg, inp2)
  BY <1>9 DEF Good, Packets
<1>16. Held(b, lk) /\ Blocked(b, "run")
  <2>1. /\ lk \subseteq Buf /\ lk \cap Busy(a) = {}
        /\ a.buse = Busy(a) \cup lk \cup {t}
    BY <1>1, <1>2 DEF Good, Held
  <2>2. b.va \notin lk \cup Busy(b)
    BY <1>8, <1>10, <1>2, <2>1, Threads DEF Busy
  <2> QED BY <1>2, <1>8, <1>10, <2>1, <2>2 DEF Held, Blocked
<1>17. Good(b, "run", cl2, pg, inp2, lk)
  BY <1>8, <1>10, <1>11, <1>12, <1>13, <1>14, <1>15, <1>16 DEF Good
<1>18. Good(ThreadYield(b), "run", cl2, pg, inp2, lk)
  BY <1>17, YieldGood
<1> QED BY <1>1, <1>3, <1>5, <1>7, <1>18
-----------------------------------------------------------------------------
\* What a descriptor that is done holds is a packet from the wire.
RxPkts == \A i \in Ring : rx.desc[i].dd => rx.desc[i].pkt \in Pkt

LEMMA RxPktsInit == Init => RxPkts
BY DEF Init, E1000Attach, RxPkts, Ring

LEMMA RxPktsNext == RxInv /\ RxPkts /\ [Next]_vars => RxPkts'
<1> SUFFICES ASSUME RxInv, RxPkts, [Next]_vars PROVE RxPkts'
  OBVIOUS
<1>t. /\ rx \in [desc : [Ring -> [pkt : Int, dd : BOOLEAN]],
                 head : Ring, tail : Ring, marked : BOOLEAN]
      /\ arrived \in Nat
  BY DEF RxInv, RxType
<1>d. rx.desc \in [Ring -> [pkt : Int, dd : BOOLEAN]] /\ rx.head \in Ring /\ rx.tail \in Ring
  BY <1>t
<1>1. CASE RxSame \/ E1000Spin
  BY <1>1 DEF RxSame, E1000Spin, RxPkts
<1>2. CASE E1000Receive
  <2>1. rx'.desc = [rx.desc EXCEPT ![Receiving].dd = FALSE]
    BY <1>2, <1>t DEF E1000Receive
  <2>2. \A i \in Ring : rx'.desc[i].dd => rx'.desc[i] = rx.desc[i]
    BY <1>d, <2>1
  <2> QED BY <2>2 DEF RxPkts
<1>3. CASE CardReceive
  <2>1. CASE rx.head = rx.tail
    BY <1>3, <2>1 DEF CardReceive, RxPkts
  <2>2. CASE rx.head # rx.tail
    <3>1. /\ rx'.desc = [rx.desc EXCEPT ![rx.head] = [pkt |-> arrived + 1, dd |-> TRUE]]
          /\ arrived < Arriving
      BY <1>3, <1>t, <2>2 DEF CardReceive
    <3>2. arrived + 1 \in Pkt
      BY <1>t, <3>1, Rings DEF Pkt
    <3>3. \A i \in Ring : rx'.desc[i] = IF i = rx.head THEN [pkt |-> arrived + 1, dd |-> TRUE] ELSE rx.desc[i]
      BY <1>d, <3>1
    <3> QED BY <3>2, <3>3 DEF RxPkts
  <2> QED BY <2>1, <2>2
<1>4. CASE CardRxNext
  <2>1. rx'.desc = rx.desc
    BY <1>4, <1>t DEF CardRxNext
  <2> QED BY <2>1 DEF RxPkts
<1> QED BY <1>1, <1>2, <1>3, <1>4, RxSteps

\* There is a page for a packet: one more than the server has buffers.
LEMMA PageLeft ==
  ASSUME NEW g \in [Buf -> Int]
  PROVE  \E p \in Page : \A t \in Buf : g[t] # p
<1> SUFFICES ASSUME \A p \in Page : \E t \in Buf : g[t] = p PROVE FALSE
  OBVIOUS
<1>1. QUEUE_SIZE \in Nat /\ QUEUE_SIZE > 0
  BY Sizes
<1>2. /\ IsFiniteSet(Buf) /\ Cardinality(Buf) = QUEUE_SIZE
      /\ IsFiniteSet(Page) /\ Cardinality(Page) = QUEUE_SIZE + 1
  <2>1. 1 \in Int /\ QUEUE_SIZE \in Int /\ QUEUE_SIZE + 1 \in Int
    BY <1>1
  <2>2. IsFiniteSet(1 .. QUEUE_SIZE) /\ Cardinality(1 .. QUEUE_SIZE) = IF 1 > QUEUE_SIZE THEN 0 ELSE QUEUE_SIZE - 1 + 1
    BY <2>1, FS_Interval
  <2>3. /\ IsFiniteSet(1 .. QUEUE_SIZE + 1)
        /\ Cardinality(1 .. QUEUE_SIZE + 1) = IF 1 > QUEUE_SIZE + 1 THEN 0 ELSE QUEUE_SIZE + 1 - 1 + 1
    BY <2>1, FS_Interval
  <2> QED BY <1>1, <2>2, <2>3 DEF Buf, Page
<1>3. PICK I : I = {g[t] : t \in Buf}
  OBVIOUS
<1>4. g \in Surjection(Buf, I)
  BY <1>3 DEF Surjection
<1>5. IsFiniteSet(I) /\ Cardinality(I) <= QUEUE_SIZE
  BY <1>2, <1>4, FS_Surjection
<1>6. Page \in SUBSET I
  BY <1>3
<1>7. Cardinality(Page) <= Cardinality(I)
  BY <1>5, <1>6, FS_Subset
<1>8. Cardinality(I) \in Nat
  BY <1>5, FS_CardinalityType
<1> QED BY <1>1, <1>2, <1>5, <1>7, <1>8

LEMMA FreshIs ==
  ASSUME IInv, input = 0
  PROVE  FreshPage \in Page /\ \A t \in Thread : n.req[t].page # FreshPage
<1>1. /\ n \in Memory /\ n.req \in [Thread -> ReqType]
      /\ n.req[Main].page = 0 /\ n.req[Tcpip].page = 0
  BY DEF IInv, Good, Served, Memory
<1>2. PICK g \in [Buf -> Int] : \A t \in Buf : g[t] = n.req[t].page
  <2>1. \A t \in Buf : n.req[t].page \in Int
    <3> SUFFICES ASSUME NEW t \in Buf PROVE n.req[t].page \in Int
      OBVIOUS
    <3>1. n.req[t] \in ReqType
      BY <1>1, Threads
    <3>2. n.req[t].page \in {0} \cup Page
      BY <3>1 DEF ReqType
    <3> QED BY <3>2, Sizes DEF Page
  <2> DEFINE g == [t \in Buf |-> n.req[t].page]
  <2>2. g \in [Buf -> Int] /\ \A t \in Buf : g[t] = n.req[t].page
    BY <2>1
  <2> QED BY <2>2
<1>3. PICK p \in Page : \A t \in Buf : n.req[t].page # p
  BY <1>2, PageLeft
<1>4. p \notin Mapped
  <2>1. p # 0 /\ \A t \in Thread : n.req[t].page # p
    BY <1>1, <1>3, Threads DEF Thread
  <2> QED BY <2>1 DEF Mapped
<1>5. Page \ Mapped \in SUBSET Nat /\ Page \ Mapped # {}
  BY <1>4, Sizes DEF Page
<1>6. PICK x \in Page \ Mapped : \A y \in Page \ Mapped : x <= y
  BY <1>5, Least
<1>7. FreshPage \in Page \ Mapped
  BY <1>6 DEF FreshPage
<1> QED BY <1>7 DEF Mapped
-----------------------------------------------------------------------------
\* After serve_init one thread waits for lwIP's mailbox, and everything is empty.
LEMMA NetInit == Init => IInv
<1> SUFFICES ASSUME Init PROVE IInv
  OBVIOUS
<1>1. PICK sem, box, req, on, wake :
        /\ sem = [NewSems(Boxes) EXCEPT ![Queued(Stack)].waiters = 1]
        /\ box = NewBoxes(Boxes)
        /\ req = [t \in Thread |-> CASE t = Main -> [NoReq EXCEPT !.pc = "serve"]
                                     [] t = Tcpip -> [NoReq EXCEPT !.pc = "fetch"]
                                     [] OTHER -> NoReq]
        /\ on = [t \in Thread |-> IF t = Tcpip THEN Queued(Stack) ELSE NoSem]
        /\ wake = [t \in Thread |-> FALSE]
  OBVIOUS
<1>2. /\ n = [q |-> <<Tcpip>>, cur |-> Main, on |-> on, wake |-> wake, sem |-> sem, box |-> box,
              req |-> req, buse |-> {}, va |-> 0, yields |-> 0]
      /\ mode = "run" /\ client = [c \in Client |-> "user"] /\ leaked = {} /\ input = 0 /\ sent = 0
      /\ page = [g \in Page |-> NoPacket]
  BY <1>1 DEF Init
<1>3. PICK none, serve, fetch : none = NoReq /\ serve = [NoReq EXCEPT !.pc = "serve"] /\ fetch = [NoReq EXCEPT !.pc = "fetch"]
  OBVIOUS
<1>4. /\ none \in ReqType /\ none.pc = "none"
      /\ serve \in ReqType /\ serve.pc = "serve" /\ serve.page = 0
      /\ fetch \in ReqType /\ fetch.pc = "fetch" /\ fetch.page = 0
  <2>1. /\ none = [pc |-> "none", whom |-> Stack, pkt |-> NoPacket, page |-> 0]
        /\ serve = [pc |-> "serve", whom |-> Stack, pkt |-> NoPacket, page |-> 0]
        /\ fetch = [pc |-> "fetch", whom |-> Stack, pkt |-> NoPacket, page |-> 0]
    BY <1>3 DEF NoReq
  <2> QED BY <2>1, Threads, Rings DEF ReqType, Pcs
<1>5. req[Main] = serve /\ req[Tcpip] = fetch /\ \A t \in Buf : req[t] = none
  BY <1>1, <1>3, Threads
<1>6. req \in [Thread -> ReqType]
  BY <1>1, <1>3, <1>4
<1>7. /\ sem \in [Sems(Boxes) -> SemType]
      /\ \A b \in Boxes : /\ sem[Queued(b)].counter = 0 /\ sem[Free(b)].counter = MBOXSLOTS
                          /\ sem[Done(b)].counter = 0
  <2>1. PICK s0 : s0 = NewSems(Boxes)
    OBVIOUS
  <2>2. /\ s0 \in [Sems(Boxes) -> SemType]
        /\ \A s \in Sems(Boxes) : s0[s].counter = IF s[2] = "free_msg" THEN MBOXSLOTS ELSE 0
    BY <2>1, Sizes DEF NewSems, SemType
  <2>3. /\ sem \in [Sems(Boxes) -> SemType] /\ \A s \in Sems(Boxes) : sem[s].counter = s0[s].counter
    BY <1>1, <2>1, <2>2 DEF SemType
  <2>4. \A b \in Boxes : /\ Queued(b)[2] = "queued_msg" /\ Free(b)[2] = "free_msg"
                         /\ Done(b)[2] = "op_completed"
    BY DEF Queued, Free, Done
  <2> QED BY <2>2, <2>3, <2>4, SemsAre
<1>8. /\ box \in [Boxes -> BoxType]
      /\ \A b \in Boxes : /\ box[b].head = -1 /\ Count(box[b]) = 0
                          /\ \A k \in Slots : box[b].msg[k] = 0 /\ ~Kept(box[b], k)
  <2>1. \A b \in Boxes : box[b] = [head |-> -1, nextq |-> 0, msg |-> [k \in Slots |-> 0]]
    BY <1>1 DEF NewBoxes, Slots
  <2>2. [head |-> -1, nextq |-> 0, msg |-> [k \in Slots |-> 0]] \in BoxType
    <3>1. 0 \in Slots /\ [k \in Slots |-> 0] \in [Slots -> Int]
      BY Sizes DEF Slots
    <3> QED BY <3>1 DEF BoxType
  <2>3. box \in [Boxes -> BoxType]
    BY <1>1, <2>1, <2>2 DEF NewBoxes
  <2> QED BY <2>1, <2>3 DEF Count, Kept
<1>9. /\ on \in [Thread -> Sems(Boxes) \cup {NoSem}] /\ on[Main] = NoSem
      /\ wake \in [Thread -> BOOLEAN]
  BY <1>1, Threads, SemsAre
<1>10. n \in Memory
  <2>1. <<Tcpip>> \in Seq(Thread) /\ Main \in Thread
    BY Threads
  <2> QED BY <1>2, <1>6, <1>7, <1>8, <1>9, <2>1 DEF Memory
<1>11. /\ n.q = <<Tcpip>> /\ n.cur = Main /\ n.on = on /\ n.sem = sem /\ n.box = box /\ n.req = req
       /\ n.buse = {} /\ n.va = 0
  BY <1>2
<1>12. Busy(n) = {} /\ Line0(n) = {Main, Tcpip}
  BY <1>4, <1>5, <1>11 DEF Busy, Line0
<1>13. Sched(n, Line0(n))
  <2>1. Line(<<Tcpip>>, Main, {Main, Tcpip})
    BY Threads DEF Line
  <2> QED BY <1>9, <1>11, <1>12, <2>1 DEF Sched
<1>14. Counted(n)
  BY <1>7, <1>8, <1>11, Sizes DEF Counted
<1>15. Letters(n) /\ Handed(n)
  <2>1. Letters(n)
    BY <1>8, <1>11, Threads DEF Letters
  <2>2. \A c \in Client : n.sem[Done(c)].counter = 0 /\ ~Outgoing(n, c)
    BY <1>4, <1>5, <1>7, <1>11, Threads DEF Outgoing
  <2> QED BY <2>1, <2>2 DEF Handed
<1>16. Asking(n, client) /\ Served(n) /\ Packets(n, page, input)
  BY <1>2, <1>4, <1>5, <1>11 DEF Asking, Asks, Served, Packets
<1>17. Held(n, leaked) /\ Blocked(n, mode)
  BY <1>2, <1>4, <1>5, <1>11, <1>12 DEF Held, Blocked
<1>18. client \in [Client -> {"user", "called", "waits"}] /\ page \in [Page -> Int]
  BY <1>2, Rings
<1> QED BY <1>2, <1>10, <1>13, <1>14, <1>15, <1>16, <1>17, <1>18 DEF IInv, Good
-----------------------------------------------------------------------------
\* The parts of a state in which thread t runs at some point.
LEMMA Running ==
  ASSUME IInv, NEW t, NEW pc, At(t, pc)
  PROVE  /\ Good(n, "run", client, page, input, leaked) /\ mode = "run"
         /\ n.cur = t /\ n.req[t].pc = pc
         /\ client \in [Client -> {"user", "called", "waits"}] /\ page \in [Page -> Int]
BY DEF At, IInv

\* Whatever a thread does to the server's memory alone.
LEMMA Onward ==
  ASSUME IInv, mode = "run", UNCHANGED <<mode, client, input, page, leaked, sent>>,
         Good(n', "run", client, page, input, leaked)
  PROVE  IInv'
BY DEF IInv

LEMMA MainServeKeeps == ASSUME IInv, MainServe PROVE IInv'
<1>1. /\ Good(n, "run", client, page, input, leaked) /\ mode = "run" /\ n.cur = Main
      /\ n.req[Main].pc = "serve" /\ UNCHANGED <<client, input, page, leaked, sent>>
  BY Running DEF MainServe
<1>2. CASE n' = ThreadYield([n EXCEPT !.yields = @ + 1]) /\ UNCHANGED mode
  <2>1. Good([n EXCEPT !.yields = @ + 1], "run", client, page, input, leaked)
    BY <1>1, CountYield
  <2>2. Good(ThreadYield([n EXCEPT !.yields = @ + 1]), "run", client, page, input, leaked)
    BY <2>1, YieldGood
  <2> QED BY <1>1, <1>2, <2>2, Onward
<1>3. CASE mode' = "panic" /\ UNCHANGED n
  <2>1. Good(n, "panic", client, page, input, leaked)
    BY <1>1 DEF Good, Blocked
  <2> QED BY <1>1, <1>3, <2>1 DEF IInv
<1>4. CASE /\ n.buse # Buf /\ mode' = "recv"
           /\ LET b == CHOOSE b \in Buf \ n.buse : \A c \in Buf \ n.buse : b <= c
              IN n' = [n EXCEPT !.buse = @ \cup {b}, !.va = b]
  <2>1. PICK f : f = CHOOSE b \in Buf \ n.buse : \A c \in Buf \ n.buse : b <= c
    OBVIOUS
  <2>2. f \in Buf \ n.buse
    <3>1. n.buse \in SUBSET Buf
      BY <1>1 DEF Good, Memory
    <3>2. Buf \ n.buse \in SUBSET Nat /\ Buf \ n.buse # {}
      <4>1. Buf \in SUBSET Nat
        BY Sizes DEF Buf
      <4>2. \E x \in Buf : x \notin n.buse
        BY <1>4, <3>1
      <4> QED BY <4>1, <4>2
    <3>3. PICK x \in Buf \ n.buse : \A y \in Buf \ n.buse : x <= y
      BY <3>2, Least
    <3> QED BY <2>1, <3>3
  <2>3. Good([n EXCEPT !.buse = @ \cup {f}, !.va = f], "recv", client, page, input, leaked)
    BY <1>1, <2>2, RecvWith
  <2>4. n' = [n EXCEPT !.buse = @ \cup {f}, !.va = f]
    BY <1>4, <2>1
  <2> QED BY <1>1, <1>4, <2>3, <2>4 DEF IInv
<1> QED BY <1>2, <1>3, <1>4 DEF MainServe

LEMMA SendKeeps == ASSUME IInv, NEW t \in Buf, Send(t) PROVE IInv'
<1>1. /\ Good(n, "run", client, page, input, leaked) /\ mode = "run" /\ n.cur = t
      /\ n.req[t].pc = "send" /\ UNCHANGED <<mode, client, input, page, leaked, sent>>
  BY Running DEF Send, Others
<1>2. CASE SemHas(n, Free(Stack))
  <2>1. n' = Goto(MboxPut(SemTake(n, Free(Stack)), Stack, t), "sending")
    BY <1>2 DEF Send
  <2>2. Good(Goto(MboxPut(SemTake(n, Free(Stack)), Stack, t), "sending"), "run", client, page, input, leaked)
    BY <1>1, <1>2, SendGood
  <2> QED BY <1>1, <2>1, <2>2, Onward
<1>3. CASE ~SemHas(n, Free(Stack))
  <2>1. n' = SemBlock(n, Free(Stack))
    BY <1>3 DEF Send
  <2>2. Good(SemBlock(n, Free(Stack)), "run", client, page, input, leaked)
    <3>1. Free(Stack) \in Sems(Boxes) /\ n.cur # Main
      BY <1>1, Threads, SemsAre
    <3> QED BY <1>1, <3>1, BlockGood
  <2> QED BY <1>1, <2>1, <2>2, Onward
<1> QED BY <1>2, <1>3

LEMMA SendingKeeps == ASSUME IInv, NEW t \in Buf, Sending(t) PROVE IInv'
<1>1. /\ Good(n, "run", client, page, input, leaked) /\ mode = "run" /\ n.cur = t
      /\ n.req[t].pc = "sending" /\ UNCHANGED <<mode, client, input, page, leaked, sent>>
  BY Running DEF Sending, Others
<1>w. PICK w : w = n.req[t].whom /\ w \in Boxes
  BY <1>1, Threads DEF Good, Asking, Asks
<1>2. CASE SemHas(n, Done(w))
  <2>1. n' = SetPkt(Goto(SemTake(n, Done(n.req[t].whom)), "reply"), t, NoPacket)
    BY <1>2, <1>w DEF Sending, SetPkt
  <2>2. Good(SetPkt(Goto(SemTake(n, Done(n.req[t].whom)), "reply"), t, NoPacket), "run", client, page, input, leaked)
    BY <1>1, <1>2, <1>w, SendingGood
  <2> QED BY <1>1, <2>1, <2>2, Onward
<1>3. CASE ~SemHas(n, Done(w))
  <2>1. n' = SemBlock(n, Done(w))
    BY <1>3, <1>w DEF Sending
  <2>2. Good(SemBlock(n, Done(w)), "run", client, page, input, leaked)
    <3>1. Done(w) \in Sems(Boxes) /\ n.cur # Main
      BY <1>1, <1>w, Threads, SemsAre
    <3> QED BY <1>1, <3>1, BlockGood
  <2> QED BY <1>1, <2>1, <2>2, Onward
<1> QED BY <1>2, <1>3

LEMMA RecvKeeps == ASSUME IInv, NEW t \in Buf, Recv(t) PROVE IInv'
<1>1. /\ Good(n, "run", client, page, input, leaked) /\ mode = "run" /\ n.cur = t
      /\ n.req[t].pc = "recv" /\ UNCHANGED <<mode, client, input, page, leaked, sent>>
  BY Running DEF Recv, Others
<1>w. PICK w : w = n.req[t].whom /\ w \in Boxes
  BY <1>1, Threads DEF Good, Asking, Asks
<1>2. CASE SemHas(n, Queued(w))
  <2>1. n' = Goto(MboxGet(SetPkt(SemTake(n, Queued(n.req[t].whom)), t, MboxMsg(n, n.req[t].whom)),
                          n.req[t].whom), "reply")
    BY <1>2, <1>w DEF Recv, SetPkt
  <2>2. Good(Goto(MboxGet(SetPkt(SemTake(n, Queued(n.req[t].whom)), t, MboxMsg(n, n.req[t].whom)),
                          n.req[t].whom), "reply"), "run", client, page, input, leaked)
    BY <1>1, <1>2, <1>w, RecvGood
  <2> QED BY <1>1, <2>1, <2>2, Onward
<1>3. CASE ~SemHas(n, Queued(w))
  <2>1. n' = SemBlock(n, Queued(w))
    BY <1>3, <1>w DEF Recv
  <2>2. Good(SemBlock(n, Queued(w)), "run", client, page, input, leaked)
    <3>1. Queued(w) \in Sems(Boxes) /\ n.cur # Main
      BY <1>1, <1>w, Threads, SemsAre
    <3> QED BY <1>1, <3>1, BlockGood
  <2> QED BY <1>1, <2>1, <2>2, Onward
<1> QED BY <1>2, <1>3

LEMMA JifInputKeeps == ASSUME IInv, NEW t \in Buf, JifInput(t) PROVE IInv'
<1>1. /\ Good(n, "run", client, page, input, leaked) /\ mode = "run" /\ n.cur = t
      /\ n.req[t].pc = "input" /\ UNCHANGED <<mode, client, input, page, leaked, sent>>
  BY Running DEF JifInput, Others
<1>2. n' = SetPkt(Goto(n, "deliver"), t, page[n.req[t].page])
  BY DEF JifInput, SetPkt
<1>3. Good(SetPkt(Goto(n, "deliver"), t, page[n.req[t].page]), "run", client, page, input, leaked)
  BY <1>1, JifInputGood
<1> QED BY <1>1, <1>2, <1>3, Onward

LEMMA DeliverKeeps == ASSUME IInv, NEW t \in Buf, Deliver(t) PROVE IInv'
<1>1. /\ Good(n, "run", client, page, input, leaked) /\ mode = "run" /\ n.cur = t
      /\ n.req[t].pc = "deliver" /\ UNCHANGED <<mode, client, input, page, leaked, sent>>
  BY Running DEF Deliver, Others
<1>w. PICK c : c = To[n.req[t].pkt] /\ c \in Boxes
  <2>1. n.req[t].pkt \in 1 .. Arriving
    BY <1>1 DEF Good, Packets, Pkt
  <2> QED BY <2>1, Sockets, Threads
<1>2. CASE SemHas(n, Free(c))
  <2>1. n' = PutBuffer(MboxPut(SemTake(n, Free(To[n.req[t].pkt])), To[n.req[t].pkt], n.req[t].pkt), t)
    BY <1>2, <1>w DEF Deliver
  <2>2. Good(PutBuffer(MboxPut(SemTake(n, Free(To[n.req[t].pkt])), To[n.req[t].pkt], n.req[t].pkt), t),
             "run", client, page, input, leaked)
    BY <1>1, <1>2, <1>w, DeliverGood
  <2> QED BY <1>1, <2>1, <2>2, Onward
<1>3. CASE ~SemHas(n, Free(c))
  <2>1. n' = SemBlock(n, Free(c))
    BY <1>3, <1>w DEF Deliver
  <2>2. Good(SemBlock(n, Free(c)), "run", client, page, input, leaked)
    <3>1. Free(c) \in Sems(Boxes) /\ n.cur # Main
      BY <1>1, <1>w, Threads, SemsAre
    <3> QED BY <1>1, <3>1, BlockGood
  <2> QED BY <1>1, <2>1, <2>2, Onward
<1> QED BY <1>2, <1>3

LEMMA ReplyKeeps == ASSUME IInv, NEW t \in Buf, Reply(t) PROVE IInv'
<1>1. /\ Good(n, "run", client, page, input, leaked) /\ mode = "run" /\ n.cur = t
      /\ n.req[t].pc = "reply" /\ client \in [Client -> {"user", "called", "waits"}]
      /\ page \in [Page -> Int]
  BY Running DEF Reply
<1>2. /\ n' = PutBuffer(n, t) /\ client' = [client EXCEPT ![n.req[t].whom] = "user"]
      /\ UNCHANGED <<mode, input, page, leaked, sent>>
  BY DEF Reply
<1>3. Good(PutBuffer(n, t), "run", [client EXCEPT ![n.req[t].whom] = "user"], page, input, leaked)
  BY <1>1, ReplyGood
<1>4. client' \in [Client -> {"user", "called", "waits"}]
  BY <1>1, <1>2
<1> QED BY <1>1, <1>2, <1>3, <1>4 DEF IInv

LEMMA FetchKeeps == ASSUME IInv, Fetch PROVE IInv'
<1>1. /\ Good(n, "run", client, page, input, leaked) /\ mode = "run" /\ n.cur = Tcpip
      /\ n.req[Tcpip].pc = "fetch" /\ UNCHANGED <<mode, client, input, page, leaked, sent>>
  BY Running DEF Fetch, Others
<1>2. CASE SemHas(n, Queued(Stack))
  <2>1. n' = [MboxGet(SemTake(n, Queued(Stack)), Stack)
                 EXCEPT !.req[Tcpip] = [n.req[MboxMsg(n, Stack)] EXCEPT !.pc = "output"]]
    BY <1>2 DEF Fetch
  <2>2. Good([MboxGet(SemTake(n, Queued(Stack)), Stack)
                 EXCEPT !.req[Tcpip] = [n.req[MboxMsg(n, Stack)] EXCEPT !.pc = "output"]],
             "run", client, page, input, leaked)
    BY <1>1, <1>2, FetchGood
  <2> QED BY <1>1, <2>1, <2>2, Onward
<1>3. CASE ~SemHas(n, Queued(Stack))
  <2>1. n' = SemBlock(n, Queued(Stack))
    BY <1>3 DEF Fetch
  <2>2. Good(SemBlock(n, Queued(Stack)), "run", client, page, input, leaked)
    <3>1. Queued(Stack) \in Sems(Boxes) /\ n.cur # Main
      BY <1>1, Threads, SemsAre
    <3> QED BY <1>1, <3>1, BlockGood
  <2> QED BY <1>1, <2>1, <2>2, Onward
<1> QED BY <1>2, <1>3

LEMMA LowLevelOutputKeeps == ASSUME IInv, LowLevelOutput PROVE IInv'
<1>1. /\ Good(n, "run", client, page, input, leaked) /\ mode = "run" /\ n.cur = Tcpip
      /\ n.req[Tcpip].pc = "output" /\ UNCHANGED <<mode, client, input, page, leaked, sent>>
  BY Running DEF LowLevelOutput
<1>2. n' = SemSignal([n EXCEPT !.req[Tcpip] = [NoReq EXCEPT !.pc = "fetch"]], Done(n.req[Tcpip].whom))
  BY DEF LowLevelOutput, Completed
<1>3. Good(SemSignal([n EXCEPT !.req[Tcpip] = [NoReq EXCEPT !.pc = "fetch"]], Done(n.req[Tcpip].whom)),
           "run", client, page, input, leaked)
  BY <1>1, OutputGood
<1> QED BY <1>1, <1>2, <1>3, Onward

LEMMA ProcessTimerKeeps == ASSUME IInv, ProcessTimer PROVE IInv'
<1>1. /\ Good(n, "run", client, page, input, leaked) /\ mode = "run" /\ n.cur = Main
      /\ n.req[Main].pc = "timer" /\ UNCHANGED <<mode, client, input, page, leaked, sent>>
  BY Running DEF ProcessTimer
<1>2. n' = Serve([n EXCEPT !.buse = @ \ {n.va}])
  BY DEF ProcessTimer
<1>3. Good(Serve([n EXCEPT !.buse = @ \ {n.va}]), "run", client, page, input, leaked)
  BY <1>1, TimerDone
<1> QED BY <1>1, <1>2, <1>3, Onward
-----------------------------------------------------------------------------
\* The parts of a state in which serve() is in ipc_recv.
LEMMA Receiver ==
  ASSUME IInv, Receives
  PROVE  /\ Good(n, "recv", client, page, input, leaked) /\ mode = "recv"
         /\ client \in [Client -> {"user", "called", "waits"}] /\ page \in [Page -> Int]
         /\ sent \in Nat
BY DEF Receives, IInv

LEMMA CallKeeps == ASSUME IInv, NEW c \in Client, NEW op \in {"send", "recv"}, Call(c, op) PROVE IInv'
<1>1. /\ Good(n, "recv", client, page, input, leaked) /\ page \in [Page -> Int] /\ sent \in Nat
      /\ client \in [Client -> {"user", "called", "waits"}] /\ client[c] = "user"
  BY Receiver DEF Call
<1>2. PICK rq : rq = [pc |-> op, whom |-> c, page |-> 0, pkt |-> IF op = "send" THEN sent + 1 ELSE NoPacket]
  OBVIOUS
<1>3. /\ rq \in ReqType /\ rq.pc \in {"send", "recv", "input"} /\ rq.pc # "input" /\ rq.whom = c
      /\ rq.page = 0
  <2>1. PICK p \in Int : p = IF op = "send" THEN sent + 1 ELSE NoPacket
    BY <1>1, Rings
  <2>2. rq = [pc |-> op, whom |-> c, page |-> 0, pkt |-> p]
    BY <1>2, <2>1
  <2> QED BY <2>2, Threads DEF ReqType, Pcs
<1>4. PICK cl2 : cl2 = [client EXCEPT ![c] = "called"]
  OBVIOUS
<1>5. /\ cl2 \in [Client -> {"user", "called", "waits"}] /\ cl2[c] # "user"
      /\ \A d \in Client : client[d] # "user" => cl2[d] # "user"
  BY <1>1, <1>4
<1>6. Good(ThreadYield(Serve(ThreadCreate([n EXCEPT !.req[n.va] = rq], n.va))),
           "run", cl2, page, input, leaked)
  <2>1. input \in {0, input}
    OBVIOUS
  <2> QED BY <1>1, <1>3, <1>5, <2>1, AcceptGood
<1>7. /\ n' = ThreadYield(Serve(ThreadCreate([n EXCEPT !.req[n.va] = rq], n.va))) /\ mode' = "run"
      /\ client' = cl2 /\ UNCHANGED <<page, input, leaked>> /\ sent' \in Nat
  BY <1>1, <1>2, <1>4 DEF Call, Accept
<1> QED BY <1>1, <1>5, <1>6, <1>7 DEF IInv

LEMMA CallWithoutPageKeeps == ASSUME IInv, NEW c \in Client, CallWithoutPage(c) PROVE IInv'
<1>1. /\ Good(n, "recv", client, page, input, leaked) /\ page \in [Page -> Int] /\ sent \in Nat
      /\ client \in [Client -> {"user", "called", "waits"}] /\ client[c] = "user"
  BY Receiver DEF CallWithoutPage
<1>2. PICK cl2 : cl2 = [client EXCEPT ![c] = "called"]
  OBVIOUS
<1>3. /\ cl2 \in [Client -> {"user", "called", "waits"}]
      /\ \A d \in Client : client[d] # "user" => cl2[d] # "user"
  BY <1>1, <1>2
<1>4. Good(Serve(n), "run", cl2, page, input, leaked \cup {n.va})
  BY <1>1, <1>3, LeakGood
<1>5. /\ n' = Serve(n) /\ mode' = "run" /\ client' = cl2 /\ leaked' = leaked \cup {n.va}
      /\ UNCHANGED <<page, input, sent>>
  BY <1>2 DEF CallWithoutPage
<1> QED BY <1>1, <1>3, <1>4, <1>5 DEF IInv

LEMMA ClientRecvKeeps == ASSUME IInv, NEW c \in Client, ClientRecv(c) PROVE IInv'
<1>1. /\ client \in [Client -> {"user", "called", "waits"}] /\ page \in [Page -> Int] /\ sent \in Nat
      /\ Good(n, mode, client, page, input, leaked)
  BY DEF IInv
<1>2. /\ client' = [client EXCEPT ![c] = "waits"]
      /\ UNCHANGED <<n, mode, page, input, leaked, sent>>
  BY DEF ClientRecv
<1>3. /\ client' \in [Client -> {"user", "called", "waits"}]
      /\ \A d \in Client : client[d] # "user" => client'[d] # "user"
  BY <1>1, <1>2
<1>4. Asking(n, client')
  BY <1>1, <1>3 DEF Good, Asking
<1> QED BY <1>1, <1>2, <1>3, <1>4 DEF IInv, Good

LEMMA InputSendKeeps == ASSUME IInv, InputSend PROVE IInv'
<1>1. /\ Good(n, "recv", client, page, input, leaked) /\ page \in [Page -> Int] /\ sent \in Nat
      /\ client \in [Client -> {"user", "called", "waits"}]
      /\ input \in Page /\ page[input] \in Pkt
  BY Receiver DEF InputSend, Good, Packets
<1>2. PICK rq : rq = [pc |-> "input", whom |-> Stack, pkt |-> NoPacket, page |-> input]
  OBVIOUS
<1>3. rq \in ReqType /\ rq.pc = "input" /\ rq.page \in Page /\ page[rq.page] \in Pkt
  BY <1>1, <1>2, Threads, Rings DEF ReqType, Pcs
<1>4. Good(ThreadYield(Serve(ThreadCreate([n EXCEPT !.req[n.va] = rq], n.va))),
           "run", client, page, 0, leaked)
  <2>1. 0 \in {0, input} /\ rq.pc \in {"send", "recv", "input"}
    BY <1>3
  <2> QED BY <1>1, <1>3, <2>1, AcceptGood
<1>5. /\ n' = ThreadYield(Serve(ThreadCreate([n EXCEPT !.req[n.va] = rq], n.va))) /\ mode' = "run"
      /\ input' = 0 /\ UNCHANGED <<client, page, leaked, sent>>
  BY <1>2 DEF InputSend, Accept
<1> QED BY <1>1, <1>4, <1>5 DEF IInv

LEMMA TimerSendKeeps == ASSUME IInv, TimerSend PROVE IInv'
<1>1. Good(n, "recv", client, page, input, leaked)
  BY Receiver DEF TimerSend
<1>2. Good(ThreadYield([n EXCEPT !.req[Main].pc = "timer"]), "run", client, page, input, leaked)
  BY <1>1, TimerGood, YieldGood
<1>3. /\ n' = ThreadYield([n EXCEPT !.req[Main].pc = "timer"]) /\ mode' = "run"
      /\ UNCHANGED <<client, page, input, leaked, sent>>
  BY DEF TimerSend
<1> QED BY <1>2, <1>3 DEF IInv

\* A packet goes into a page that no request uses.
LEMMA InputPollKeeps == ASSUME IInv, RxInv, RxPkts, InputPoll PROVE IInv'
<1>1. /\ client \in [Client -> {"user", "called", "waits"}] /\ page \in [Page -> Int] /\ sent \in Nat
      /\ Good(n, mode, client, page, input, leaked) /\ input = 0
      /\ UNCHANGED <<n, mode, client, leaked, sent>>
  BY DEF IInv, InputPoll
<1>2. CASE UNCHANGED <<input, page>>
  BY <1>1, <1>2 DEF IInv
<1>3. CASE /\ E1000Receive /\ input' = FreshPage
           /\ page' = [page EXCEPT ![FreshPage] = rx.desc[Receiving].pkt]
  <2>1. PICK g \in Page : g = FreshPage /\ \A t \in Thread : n.req[t].page # g
    BY <1>1, FreshIs
  <2>2. PICK p \in Pkt : p = rx.desc[Receiving].pkt
    <3>1. rx.tail \in Ring
      BY DEF RxInv, RxType
    <3>2. Receiving \in Ring
      <4>1. Receiving = IF rx.tail + 1 = MAXRXDESC THEN 0 ELSE rx.tail + 1
        BY <3>1, NextMod DEF Receiving
      <4> QED BY <3>1, <4>1, Rings DEF Ring
    <3> QED BY <1>3, <3>2 DEF E1000Receive, RxReady, RxPkts
  <2>3. /\ page' \in [Page -> Int] /\ page'[g] = p
        /\ \A h \in Page : h # g => page'[h] = page[h]
    BY <1>1, <1>3, <2>1, <2>2, Rings DEF Pkt
  <2>4. Packets(n, page', input')
    <3>1. ASSUME NEW t \in Buf, n.req[t].pc = "input"
          PROVE  n.req[t].page \in Page /\ page'[n.req[t].page] \in Pkt
      BY <1>1, <2>1, <2>3, <3>1, Threads DEF Good, Packets
    <3>2. \A t \in Buf : n.req[t].pc = "deliver" => n.req[t].pkt \in Pkt
      BY <1>1 DEF Good, Packets
    <3> QED BY <1>3, <2>1, <2>2, <2>3, <3>1, <3>2 DEF Packets
  <2> QED BY <1>1, <2>3, <2>4 DEF IInv, Good
<1> QED BY <1>2, <1>3 DEF InputPoll

\* Steps that touch neither the server's memory nor its clients.
LEMMA ElsewhereKeeps ==
  ASSUME IInv, UNCHANGED vars \/ OutputSend \/ TimerRing \/ Cards
  PROVE  IInv'
<1>1. UNCHANGED <<n, mode, client, page, input, leaked, sent>>
  BY DEF vars, netVars, OutputSend, TimerRing, Cards
<1> QED BY <1>1 DEF IInv

LEMMA NetNext == IInv /\ RxInv /\ RxPkts /\ [Next]_vars => IInv'
<1> SUFFICES ASSUME IInv, RxInv, RxPkts, [Next]_vars PROVE IInv'
  OBVIOUS
<1>1. CASE Server
  <2>1. CASE MainServe
    BY <2>1, MainServeKeeps
  <2>2. CASE Fetch
    BY <2>2, FetchKeeps
  <2>3. CASE LowLevelOutput
    BY <2>3, LowLevelOutputKeeps
  <2>4. CASE ProcessTimer
    BY <2>4, ProcessTimerKeeps
  <2>5. CASE \E t \in Buf : Send(t) \/ Sending(t) \/ Recv(t) \/ JifInput(t) \/ Deliver(t) \/ Reply(t)
    BY <2>5, SendKeeps, SendingKeeps, RecvKeeps, JifInputKeeps, DeliverKeeps, ReplyKeeps
  <2> QED BY <1>1, <2>1, <2>2, <2>3, <2>4, <2>5 DEF Server
<1>2. CASE Calls
  BY <1>2, CallKeeps, CallWithoutPageKeeps DEF Calls
<1>3. CASE \E c \in Client : ClientRecv(c)
  BY <1>3, ClientRecvKeeps
<1>4. CASE InputPoll
  BY <1>4, InputPollKeeps
<1>5. CASE InputSend
  BY <1>5, InputSendKeeps
<1>6. CASE TimerSend
  BY <1>6, TimerSendKeeps
<1>7. CASE UNCHANGED vars \/ OutputSend \/ TimerRing \/ Cards
  BY <1>7, ElsewhereKeeps
<1> QED BY <1>1, <1>2, <1>3, <1>4, <1>5, <1>6, <1>7 DEF Next

\* What the bookkeeping says follows from the parts.
LEMMA NetInvHolds == IInv => NetInv
<1> SUFFICES ASSUME IInv PROVE NetInv
  OBVIOUS
<1>1. /\ n \in Memory /\ Sched(n, Line0(n)) /\ Counted(n) /\ Letters(n) /\ Held(n, leaked)
  BY DEF IInv, Good
<1>2. InQueue(n) \cup {n.cur} = {Main, Tcpip} \cup {t \in Buf : n.req[t].pc # "none"}
  BY <1>1 DEF Sched, Line, Line0, Busy, InQueue
<1>3. n.cur \notin InQueue(n)
  BY <1>1 DEF Sched, Line, InQueue
<1>4. Cardinality(InQueue(n)) = Len(n.q)
  <2>1. PICK q \in Seq(Thread) : q = n.q
    BY <1>1 DEF Memory
  <2>2. DOMAIN q = 1 .. Len(q) /\ Len(q) \in Nat
    OBVIOUS
  <2>3. PICK T : T = InQueue(n) /\ T = {q[k] : k \in 1 .. Len(q)}
    BY <2>1, <2>2 DEF InQueue
  <2>4. \A i, j \in 1 .. Len(q) : q[i] = q[j] => i = j
    BY <1>1, <2>1, <2>2 DEF Sched, Line
  <2>5. PICK f : f = [k \in 1 .. Len(q) |-> q[k]]
    OBVIOUS
  <2>6. f \in Bijection(1 .. Len(q), T)
    BY <2>3, <2>4, <2>5 DEF Bijection, Injection, Surjection, IsInjective
  <2>7. ExistsBijection(1 .. Len(q), T)
    BY <2>6 DEF ExistsBijection
  <2>8. IsFiniteSet(1 .. Len(q)) /\ Cardinality(1 .. Len(q)) = Len(q)
    <3>1. 1 \in Int /\ Len(q) \in Int
      BY <2>2
    <3>2. IsFiniteSet(1 .. Len(q)) /\ Cardinality(1 .. Len(q)) = IF 1 > Len(q) THEN 0 ELSE Len(q) - 1 + 1
      BY <3>1, FS_Interval
    <3> QED BY <2>2, <3>2
  <2>9. Cardinality(T) = Cardinality(1 .. Len(q))
    BY <2>7, <2>8, FS_Bijection
  <2> QED BY <2>1, <2>3, <2>8, <2>9
<1>5. n.buse = {t \in Buf : n.req[t].pc # "none"} \cup leaked \cup ({n.va} \ {0})
  BY <1>1 DEF Held, Busy
<1>6. \A b \in Boxes : /\ Messages(n.box[b]) = n.sem[Queued(b)].counter
                       /\ Messages(n.box[b]) + n.sem[Free(b)].counter = MBOXSLOTS
  <2>1. \A b \in Boxes : n.box[b] \in BoxType
    BY <1>1 DEF Memory
  <2>2. \A b \in Boxes : Messages(n.box[b]) = Count(n.box[b])
    BY <2>1, MessagesIs
  <2> QED BY <1>1, <2>2 DEF Counted
<1>7. \A k \in DOMAIN n.box[Stack].msg :
        LET t == n.box[Stack].msg[k] IN t # 0 => n.req[t].pc = "sending"
  <2>1. n.box[Stack] \in BoxType
    BY <1>1, Threads DEF Memory
  <2>2. DOMAIN n.box[Stack].msg = Slots
    BY <2>1 DEF BoxType
  <2> QED BY <1>1, <2>2 DEF Letters
<1> QED BY <1>2, <1>3, <1>4, <1>5, <1>6, <1>7 DEF NetInv

\* The books hold in every reachable state.
LEMMA Books == Spec => []IInv
<1>1. Spec => [](RxInv /\ RxPkts)
  <2>1. Init => RxInv /\ RxPkts
    BY RxInit, RxPktsInit
  <2>2. (RxInv /\ RxPkts) /\ [Next]_vars => (RxInv /\ RxPkts)'
    BY RxNext, RxPktsNext
  <2> QED BY <2>1, <2>2, PTL DEF Spec
<1> QED BY <1>1, NetInit, NetNext, PTL DEF Spec

(* The network server's books balance (net/serv.c, thread.c, sys_arch.c): a  *)
(* thread is in one place and no thread is lost, no buffer is lost or given  *)
(* to two requests, the head and tail of every mailbox agree with its two    *)
(* semaphores, and lwIP is never handed a request no thread waits for; for   *)
(* every number of clients, buffers, slots and packets.                      *)
THEOREM ServerBooksBalance == Spec => []NetInv
BY Books, NetInvHolds, PTL
-----------------------------------------------------------------------------
Elems(l) == {l[i] : i \in DOMAIN l}
Apiece(l) == \A i, j \in DOMAIN l : l[i] = l[j] => i = j
Ahead(l, t, u) == \E i, j \in DOMAIN l : i < j /\ l[i] = t /\ l[j] = u
Before(q, t) == Ahead(q, t, Main)

\* What one thread finds after the first of line that can go on was chosen.
Chosen(m, line, r, k) ==
    /\ k \in DOMAIN line /\ r.cur = line[k] /\ Ready(m, line[k])
    /\ \A j \in 1 .. k - 1 : ~Ready(m, line[j])
    /\ Len(r.q) = Len(line) - 1
    /\ \A i \in 1 .. Len(line) - 1 :
          r.q[i] = IF i <= Len(line) - k THEN line[k + i] ELSE line[i - (Len(line) - k)]
Round(m, line, r) ==
    /\ r \in Memory /\ Sched(r, Elems(line))
    /\ \E k \in DOMAIN line : Chosen(m, line, r, k)
    /\ r.on = [m.on EXCEPT ![r.cur] = NoSem] /\ r.wake = [m.wake EXCEPT ![r.cur] = FALSE]
    /\ r.sem = m.sem /\ r.box = m.box /\ r.req = m.req
    /\ r.buse = m.buse /\ r.va = m.va /\ r.yields = m.yields

LEMMA DispatchRound ==
  ASSUME NEW m \in Memory, m.on[Main] = NoSem, NEW line \in Seq(Thread),
         Apiece(line), Main \in Elems(line)
  PROVE  Round(m, line, Dispatch(m, line))
<1> DEFINE Least1(k) == Ready(m, line[k]) /\ \A j \in 1 .. k - 1 : ~Ready(m, line[j])
           k == CHOOSE k \in DOMAIN line : Least1(k)
<1>1. \E x \in DOMAIN line : Least1(x)
  <2> DEFINE T == {x \in DOMAIN line : Ready(m, line[x])}
  <2>1. DOMAIN line = 1 .. Len(line) /\ Len(line) \in Nat
    OBVIOUS
  <2>2. T \in SUBSET Nat /\ T # {}
    BY <2>1 DEF Ready, Elems
  <2>3. PICK x \in T : \A y \in T : x <= y
    BY <2>2, Least
  <2>4. \A j \in 1 .. x - 1 : j \in DOMAIN line /\ j \notin T
    BY <2>1, <2>3
  <2> QED BY <2>3, <2>4
<1>2. k \in DOMAIN line /\ Least1(k)
  BY <1>1
<1> DEFINE r == SubSeq(line, k + 1, Len(line)) \o SubSeq(line, 1, k - 1)
<1>3. Dispatch(m, line) = [m EXCEPT !.cur = line[k], !.q = r,
                                    !.on[line[k]] = NoSem, !.wake[line[k]] = FALSE]
  BY DEF Dispatch
<1>4. /\ r \in Seq(Thread) /\ Len(r) = Len(line) - 1
      /\ \A i \in 1 .. Len(line) - 1 :
            r[i] = IF i <= Len(line) - k THEN line[k + i] ELSE line[i - (Len(line) - k)]
  <2>1. \A i, j \in DOMAIN line : line[i] = line[j] => i = j
    BY DEF Apiece
  <2> HIDE DEF k
  <2> QED BY <1>2, <2>1, Rotation
<1>5. /\ Dispatch(m, line) \in Memory /\ Sched(Dispatch(m, line), Elems(line))
      /\ Rest(Dispatch(m, line)) = Rest(m)
  <2>1. \A i, j \in DOMAIN line : line[i] = line[j] => i = j
    BY DEF Apiece
  <2> QED BY <2>1, DispatchKeeps DEF Elems
<1> HIDE DEF k, r
<1>6. PICK w : w = Dispatch(m, line)
  OBVIOUS
<1>7. line[k] \in Thread
  BY <1>2
<1>8. w = [m EXCEPT !.cur = line[k], !.q = r,
           !.on = [m.on EXCEPT ![line[k]] = NoSem], !.wake = [m.wake EXCEPT ![line[k]] = FALSE]]
  BY <1>3, <1>6 DEF Memory
<1>9. /\ w.q = r /\ w.cur = line[k] /\ w.on = [m.on EXCEPT ![line[k]] = NoSem]
      /\ w.wake = [m.wake EXCEPT ![line[k]] = FALSE] /\ w.yields = m.yields
      /\ w.sem = m.sem /\ w.box = m.box /\ w.req = m.req /\ w.buse = m.buse /\ w.va = m.va
  BY <1>8 DEF Memory
<1>10. Chosen(m, line, w, k)
  BY <1>2, <1>4, <1>9 DEF Chosen
<1> QED BY <1>2, <1>5, <1>6, <1>9, <1>10 DEF Round

\* A line of threads, with that of serve(), which waits for nobody.
Lined(m, line) == /\ m \in Memory /\ m.on[Main] = NoSem /\ line \in Seq(Thread)
                  /\ Apiece(line) /\ Main \in Elems(line)

LEMMA InLine ==
  ASSUME NEW l \in Seq(Thread), Apiece(l), NEW t \in Elems(l), NEW u \in Elems(l), t # u
  PROVE  (Ahead(l, t, u) \/ Ahead(l, u, t)) /\ ~(Ahead(l, t, u) /\ Ahead(l, u, t))
<1>1. DOMAIN l = 1 .. Len(l) /\ Len(l) \in Nat
  OBVIOUS
<1>2. PICK i \in DOMAIN l, j \in DOMAIN l : l[i] = t /\ l[j] = u
  BY DEF Elems
<1>3. i \in Int /\ j \in Int /\ i # j
  BY <1>1, <1>2
<1>4. Ahead(l, t, u) \/ Ahead(l, u, t)
  BY <1>2, <1>3 DEF Ahead
<1>5. ASSUME Ahead(l, t, u) PROVE i < j
  BY <1>2, <1>5 DEF Ahead, Apiece
<1>6. ASSUME Ahead(l, u, t) PROVE j < i
  BY <1>2, <1>6 DEF Ahead, Apiece
<1> QED BY <1>3, <1>4, <1>5, <1>6

LEMMA AheadAppend ==
  ASSUME NEW q \in Seq(Thread), NEW c \in Thread
  PROVE  /\ \A t, u : Ahead(q, t, u) => Ahead(Append(q, c), t, u)
         /\ \A t \in Elems(q) : Ahead(Append(q, c), t, c)
<1> DEFINE l == Append(q, c)
<1>1. /\ DOMAIN q = 1 .. Len(q) /\ Len(q) \in Nat /\ DOMAIN l = 1 .. Len(q) + 1
      /\ l[Len(q) + 1] = c /\ \A i \in 1 .. Len(q) : l[i] = q[i]
  OBVIOUS
<1> HIDE DEF l
<1>2. \A i \in DOMAIN q : i \in DOMAIN l /\ l[i] = q[i] /\ i < Len(q) + 1
  BY <1>1
<1>3. ASSUME NEW t, NEW u, Ahead(q, t, u) PROVE Ahead(l, t, u)
  BY <1>2, <1>3 DEF Ahead
<1>4. ASSUME NEW t \in Elems(q) PROVE Ahead(l, t, c)
  <2>1. PICK i \in DOMAIN q : q[i] = t
    BY DEF Elems
  <2>2. Len(q) + 1 \in DOMAIN l
    BY <1>1
  <2> QED BY <1>1, <1>2, <2>1, <2>2 DEF Ahead
<1> QED BY <1>3, <1>4 DEF l

\* What a round of the threads does to them.
LEMMA RoundIs ==
  ASSUME NEW m, NEW line, Lined(m, line), NEW r, Round(m, line, r)
  PROVE  /\ r.cur \in Elems(line) /\ Ready(m, r.cur) /\ r.on[r.cur] = NoSem
         /\ InQueue(r) = Elems(line) \ {r.cur}
         /\ \A t \in Elems(line) \ {r.cur} : Ready(m, t) => Ahead(line, r.cur, t)
         /\ r.cur # Main => \A t : Ahead(line, r.cur, t) /\ Ahead(line, t, Main) => Before(r.q, t)
         /\ \A t \in Thread \ {r.cur} :
               r.on[t] = m.on[t] /\ r.wake[t] = m.wake[t] /\ (Ready(r, t) <=> Ready(m, t))
         /\ \A k \in DOMAIN line : line[k] = r.cur => Chosen(m, line, r, k)
<1>1. /\ m \in Memory /\ line \in Seq(Thread) /\ Apiece(line) /\ Main \in Elems(line)
      /\ r \in Memory /\ Sched(r, Elems(line)) /\ r.sem = m.sem
      /\ r.on = [m.on EXCEPT ![r.cur] = NoSem] /\ r.wake = [m.wake EXCEPT ![r.cur] = FALSE]
  BY DEF Lined, Round
<1>2. PICK k \in DOMAIN line : Chosen(m, line, r, k)
  BY DEF Round
<1>3. r.cur = line[k] /\ Ready(m, line[k]) /\ r.cur \in Elems(line) /\ r.cur \in Thread
  BY <1>1, <1>2 DEF Chosen, Elems, Memory
<1>4. InQueue(r) = Elems(line) \ {r.cur}
  BY <1>1 DEF Sched, Line, InQueue
<1>5. DOMAIN line = 1 .. Len(line) /\ Len(line) \in Nat /\ k \in 1 .. Len(line)
  BY <1>1, <1>2
<1>6. ASSUME NEW t \in Elems(line) \ {r.cur}, Ready(m, t) PROVE Ahead(line, r.cur, t)
  <2>1. PICK j \in DOMAIN line : line[j] = t
    BY DEF Elems
  <2>2. ~(j < k)
    <3>1. \A i \in 1 .. k - 1 : ~Ready(m, line[i])
      BY <1>2 DEF Chosen
    <3> QED BY <1>5, <1>6, <2>1, <3>1
  <2>3. k < j
    BY <1>3, <1>5, <2>1, <2>2
  <2> QED BY <1>2, <1>3, <2>1, <2>3 DEF Ahead
<1>7. ASSUME NEW t, Ahead(line, r.cur, t), Ahead(line, t, Main) PROVE Before(r.q, t)
  <2>1. PICK j \in DOMAIN line : k < j /\ line[j] = t
    BY <1>1, <1>2, <1>3, <1>7 DEF Ahead, Apiece
  <2>2. PICK x \in DOMAIN line : j < x /\ line[x] = Main
    BY <1>1, <1>7, <2>1 DEF Ahead, Apiece
  <2>3. /\ Len(r.q) = Len(line) - 1
        /\ \A i \in 1 .. Len(line) - 1 :
              r.q[i] = IF i <= Len(line) - k THEN line[k + i] ELSE line[i - (Len(line) - k)]
    BY <1>2 DEF Chosen
  <2>4. r.q \in Seq(Thread) /\ DOMAIN r.q = 1 .. Len(line) - 1
    <3>1. r.q \in Seq(Thread)
      BY <1>1 DEF Memory
    <3>2. DOMAIN r.q = 1 .. Len(r.q)
      BY <3>1
    <3> QED BY <2>3, <3>1, <3>2
  <2>5. /\ j - k \in 1 .. Len(line) - 1 /\ x - k \in 1 .. Len(line) - 1 /\ j - k < x - k
        /\ j - k <= Len(line) - k /\ x - k <= Len(line) - k /\ k + (j - k) = j /\ k + (x - k) = x
    BY <1>5, <2>1, <2>2
  <2>6. r.q[j - k] = t /\ r.q[x - k] = Main
    BY <2>1, <2>2, <2>3, <2>5
  <2> QED BY <2>4, <2>5, <2>6 DEF Before, Ahead
<1>8. ASSUME NEW t \in Thread \ {r.cur}
      PROVE  r.on[t] = m.on[t] /\ r.wake[t] = m.wake[t] /\ (Ready(r, t) <=> Ready(m, t))
  <2>1. r.on[t] = m.on[t] /\ r.wake[t] = m.wake[t]
    BY <1>1, <1>8 DEF Memory
  <2> QED BY <1>1, <2>1 DEF Ready
<1>9. r.on[r.cur] = NoSem
  BY <1>1, <1>3 DEF Memory
<1>10. \A j \in DOMAIN line : line[j] = r.cur => j = k
  BY <1>1, <1>2, <1>3 DEF Apiece
<1> QED BY <1>2, <1>3, <1>4, <1>6, <1>7, <1>8, <1>9, <1>10
-----------------------------------------------------------------------------
(* Where the work of a message is.  A message wakes few threads, and each    *)
(* of them is run before the turn of serve() comes again.                    *)
Woken(m) == {t \in InQueue(m) \ {Main} : Ready(m, t)}
Mailing(m) == {t \in Buf : m.req[t].pc = "sending"}

\* Semaphore s is what the request of thread t needs; t waits for it.
Needs(m, t, s) ==
    \/ t = Tcpip /\ m.req[t].pc = "fetch" /\ s = Queued(Stack)
    \/ t \in Buf /\ m.req[t].pc = "sending" /\ s = Done(m.req[t].whom)
    \/ t \in Buf /\ m.req[t].pc = "recv" /\ s = Queued(m.req[t].whom)
    \/ t \in Buf /\ m.req[t].pc = "deliver" /\ s = Free(To[m.req[t].pkt])
Parked(m, t) == Needs(m, t, m.on[t])

\* Of the threads T of a line every one is parked, and no other waits for anything.
AllParked(m, T) == /\ \A t \in T \ {Main} : Parked(m, t)
                   /\ \A t \in Thread \ T : m.on[t] = NoSem

\* A request handed to lwIP is in its mailbox, in its hands, or completed.
Accounted(m) == \A t \in Mailing(m) :
    \/ \E k \in Slots : m.box[Stack].msg[k] = t
    \/ Outgoing(m, m.req[t].whom)
    \/ m.sem[Done(m.req[t].whom)].counter > 0

\* No two requests of S wait, one for a packet and one for room, at the same socket.
Apart(m, S) == \A t, u \in S :
    m.req[t].pc = "recv" /\ m.req[u].pc = "deliver" => To[m.req[u].pkt] # m.req[t].whom

\* The thread of a message's request runs, serve() will run next.
FirstRound(m) ==
    /\ m.cur \in Buf /\ m.q # <<>> /\ m.q[1] = Main /\ m.yields = 0 /\ m.req[Main].pc = "serve"
    /\ \A t \in Woken(m) : m.wake[t]
    /\ Apart(m, Buf \ {m.cur})
    /\ m.req[m.cur].pc \in {"send", "recv", "input", "deliver"} => Woken(m) = {}
    /\ m.req[m.cur].pc = "sending" => /\ Woken(m) = {Tcpip} /\ m.wake[Tcpip]
                                      /\ \E k \in Slots : m.box[Stack].msg[k] = m.cur
    /\ m.req[m.cur].pc = "reply" => Tcpip \notin Woken(m)
    /\ Mailing(m) \subseteq {m.cur}

\* serve() runs: before it has yielded once, whoever is ready was woken.
Turn(m) ==
    /\ m.cur = Main
    /\ Woken(m) # {} => m.yields = 0 /\ m.req[Main].pc = "serve"
    /\ \A t \in Woken(m) : m.wake[t]
    /\ Apart(m, Buf)
    /\ Mailing(m) # {} => Tcpip \in Woken(m)
    /\ Tcpip \in Woken(m) => /\ Woken(m) = {Tcpip}
                             /\ \A t \in Mailing(m) : m.q # <<>> /\ t = m.q[Len(m.q)]

\* After serve() yielded: whoever is ready comes before serve() in the queue.
LastRound(m) ==
    /\ m.cur # Main
    /\ \A t \in Woken(m) : Before(m.q, t)
    /\ Apart(m, Buf)
    /\ m.cur \in Buf => m.req[m.cur].pc \in {"sending", "recv", "deliver", "reply"}
    /\ m.cur = Tcpip => \A t \in Mailing(m) : Before(m.q, t)
    /\ m.cur # Tcpip => Tcpip \notin Woken(m) /\ Mailing(m) \ {m.cur} \subseteq Woken(m)

Flow(m, md) ==
    /\ AllParked(m, InQueue(m)) /\ Accounted(m)
    /\ FirstRound(m) \/ LastRound(m) \/ Turn(m)
    /\ md \in {"run", "recv", "panic"}
    /\ md # "run" => Turn(m) /\ Woken(m) = {}
    /\ md = "panic" => m.buse = Buf /\ m.req[Main].pc = "serve"

\* A line of which only threads before serve() are ready, and lwIP's thread is not.
LEMMA LastGo ==
  ASSUME NEW m, NEW line, Lined(m, line), NEW r, Round(m, line, r),
         AllParked(m, Elems(line)), Accounted(m), Apart(m, Buf), Tcpip \in Elems(line),
         \A t \in Elems(line) \ {Main} : Ready(m, t) => Ahead(line, t, Main),
         ~Ready(m, Tcpip), \A t \in Mailing(m) : t \in Elems(line) /\ Ready(m, t)
  PROVE  Flow(r, "run")
<1>1. /\ r.cur \in Elems(line) /\ Ready(m, r.cur) /\ r.on[r.cur] = NoSem
      /\ InQueue(r) = Elems(line) \ {r.cur}
      /\ \A t \in Elems(line) \ {r.cur} : Ready(m, t) => Ahead(line, r.cur, t)
      /\ r.cur # Main => \A t : Ahead(line, r.cur, t) /\ Ahead(line, t, Main) => Before(r.q, t)
      /\ \A t \in Thread \ {r.cur} :
            r.on[t] = m.on[t] /\ r.wake[t] = m.wake[t] /\ (Ready(r, t) <=> Ready(m, t))
  BY RoundIs
<1>2. /\ r.req = m.req /\ r.box = m.box /\ r.sem = m.sem /\ m \in Memory /\ line \in Seq(Thread)
      /\ Apiece(line) /\ Main \in Elems(line)
  BY DEF Round, Lined
<1>3. Elems(line) \subseteq Thread
  BY <1>2 DEF Elems
<1>4. AllParked(r, InQueue(r))
  BY <1>1, <1>2, <1>3 DEF AllParked, Parked, Needs
<1>5. Accounted(r) /\ Apart(r, Buf) /\ Mailing(r) = Mailing(m)
  BY <1>2 DEF Accounted, Apart, Mailing, Outgoing
<1>6. Woken(r) \subseteq Elems(line) \ {r.cur, Main} /\ \A t \in Woken(r) : Ready(m, t)
  BY <1>1, <1>3 DEF Woken
<1>7. Mailing(m) \subseteq Elems(line) \ {Main} /\ r.cur # Tcpip /\ Tcpip \notin Woken(r)
  BY <1>1, <1>6, Threads DEF Mailing
<1>8. CASE r.cur = Main
  <2>1. \A t \in Elems(line) \ {Main} : ~Ready(m, t)
    BY <1>1, <1>2, <1>8, InLine
  <2>2. Woken(r) = {} /\ Mailing(r) = {}
    BY <1>5, <1>6, <1>7, <2>1
  <2>3. Turn(r)
    BY <1>5, <1>8, <2>2 DEF Turn
  <2> QED BY <1>4, <1>5, <2>3 DEF Flow
<1>9. CASE r.cur # Main
  <2>1. \A t \in Woken(r) : Before(r.q, t)
    BY <1>1, <1>6, <1>9
  <2>2. Parked(m, r.cur) /\ r.cur # Tcpip
    BY <1>1, <1>7, <1>9 DEF AllParked
  <2>3. m.req[r.cur].pc \in {"sending", "recv", "deliver", "reply"}
    BY <2>2 DEF Parked, Needs
  <2>4. Mailing(r) \ {r.cur} \subseteq Woken(r)
    BY <1>1, <1>3, <1>5, <1>7 DEF Woken
  <2>5. LastRound(r)
    BY <1>2, <1>5, <1>7, <1>9, <2>1, <2>3, <2>4 DEF LastRound
  <2> QED BY <1>4, <1>5, <2>5 DEF Flow
<1> QED BY <1>8, <1>9

\* A line that serve() heads: it runs.
LEMMA MainGo ==
  ASSUME NEW m, NEW line, Lined(m, line), NEW r, Round(m, line, r), line[1] = Main,
         AllParked(m, Elems(line)), Accounted(m), Apart(m, Buf),
         m.yields = 0, m.req[Main].pc = "serve", Tcpip \in Elems(line),
         \A t \in Elems(line) \ {Main} : Ready(m, t) => m.wake[t],
         Mailing(m) # {} => Ready(m, Tcpip),
         Ready(m, Tcpip) => /\ \A t \in Elems(line) \ {Main} : Ready(m, t) => t = Tcpip
                            /\ \A t \in Mailing(m) : t = line[Len(line)]
  PROVE  Flow(r, "run")
<1>1. /\ r.cur \in Elems(line) /\ Ready(m, r.cur) /\ r.on[r.cur] = NoSem
      /\ InQueue(r) = Elems(line) \ {r.cur}
      /\ \A t \in Elems(line) \ {r.cur} : Ready(m, t) => Ahead(line, r.cur, t)
      /\ \A t \in Thread \ {r.cur} :
            r.on[t] = m.on[t] /\ r.wake[t] = m.wake[t] /\ (Ready(r, t) <=> Ready(m, t))
      /\ \A k \in DOMAIN line : line[k] = r.cur => Chosen(m, line, r, k)
  BY RoundIs
<1>2. /\ r.req = m.req /\ r.box = m.box /\ r.sem = m.sem /\ m \in Memory /\ line \in Seq(Thread)
      /\ Apiece(line) /\ Main \in Elems(line) /\ r.yields = m.yields /\ m.on[Main] = NoSem
      /\ r \in Memory
  BY DEF Round, Lined
<1>3. DOMAIN line = 1 .. Len(line) /\ Len(line) \in Nat /\ Elems(line) \subseteq Thread
  BY <1>2 DEF Elems
<1>4. Len(line) > 1 /\ 1 \in DOMAIN line
  <2>1. PICK i \in DOMAIN line, j \in DOMAIN line : line[i] = Main /\ line[j] = Tcpip
    BY <1>2 DEF Elems
  <2>2. i # j /\ i \in 1 .. Len(line) /\ j \in 1 .. Len(line)
    BY <1>3, <2>1, Threads
  <2> QED BY <1>3, <2>2
<1>5. r.cur = Main
  <2>1. Ready(m, Main)
    BY <1>2 DEF Ready
  <2>2. r.cur # Main => Ahead(line, r.cur, Main)
    BY <1>1, <1>2, <2>1
  <2>3. ~ \E j \in DOMAIN line : \E i \in DOMAIN line : i < j /\ line[j] = Main
    <3> SUFFICES ASSUME NEW j \in DOMAIN line, NEW i \in DOMAIN line, i < j, line[j] = Main PROVE FALSE
      OBVIOUS
    <3>1. j = 1
      BY <1>2, <1>4 DEF Apiece
    <3> QED BY <1>3, <3>1
  <2> QED BY <2>2, <2>3 DEF Ahead
<1>6. AllParked(r, InQueue(r))
  BY <1>1, <1>2, <1>3 DEF AllParked, Parked, Needs
<1>7. Accounted(r) /\ Apart(r, Buf) /\ Mailing(r) = Mailing(m)
  BY <1>2 DEF Accounted, Apart, Mailing, Outgoing
<1>8. Woken(r) = {t \in Elems(line) \ {Main} : Ready(m, t)} /\ \A t \in Woken(r) : r.wake[t]
  BY <1>1, <1>3, <1>5 DEF Woken
<1>9. r.q # <<>> /\ r.q[Len(r.q)] = line[Len(line)]
  <2>1. Chosen(m, line, r, 1)
    BY <1>1, <1>4, <1>5
  <2>2. Len(r.q) = Len(line) - 1 /\ r.q[Len(line) - 1] = line[1 + (Len(line) - 1)]
    <3>1. Len(line) - 1 \in 1 .. Len(line) - 1 /\ Len(line) - 1 <= Len(line) - 1
      BY <1>3, <1>4
    <3> QED BY <2>1, <3>1 DEF Chosen
  <2>3. 1 + (Len(line) - 1) = Len(line) /\ Len(line) - 1 # 0
    BY <1>3, <1>4
  <2>4. r.q # <<>>
    BY <2>2, <2>3
  <2> QED BY <2>2, <2>3, <2>4
<1>10. Turn(r)
  <2>1. Tcpip \in Woken(r) <=> Ready(m, Tcpip)
    BY <1>8, Threads
  <2>2. Woken(r) # {} => r.yields = 0 /\ r.req[Main].pc = "serve"
    BY <1>2
  <2>3. Mailing(r) # {} => Tcpip \in Woken(r)
    BY <1>7, <2>1
  <2>4. Tcpip \in Woken(r) => /\ Woken(r) = {Tcpip}
                              /\ \A t \in Mailing(r) : r.q # <<>> /\ t = r.q[Len(r.q)]
    BY <1>7, <1>8, <1>9, <2>1
  <2> QED BY <1>5, <1>7, <1>8, <2>2, <2>3, <2>4 DEF Turn
<1> QED BY <1>6, <1>7, <1>10 DEF Flow

\* thread_yield: the running thread joins the line.
LEMMA YieldIs ==
  ASSUME NEW m \in Memory, NEW T, Sched(m, T), NEW line, line = Append(m.q, m.cur)
  PROVE  /\ Lined(m, line) /\ Elems(line) = T /\ Round(m, line, ThreadYield(m))
         /\ InQueue(m) = T \ {m.cur} /\ m.cur \in T /\ T \subseteq Thread
         /\ \A t \in InQueue(m) : Ahead(line, t, m.cur)
         /\ \A t, u : Ahead(m.q, t, u) => Ahead(line, t, u)
         /\ line[Len(line)] = m.cur /\ Len(line) = Len(m.q) + 1
         /\ \A i \in DOMAIN m.q : i \in DOMAIN line /\ line[i] = m.q[i]
<1>1. m.q \in Seq(Thread) /\ m.cur \in Thread /\ Line(m.q, m.cur, T) /\ m.on[Main] = NoSem /\ Main \in T
  BY DEF Memory, Sched
<1>2. line \in Seq(Thread) /\ Apiece(line) /\ Elems(line) = T
  <2>1. LET l == Append(m.q, m.cur) IN
        /\ l \in Seq(Thread)
        /\ \A i, j \in DOMAIN l : l[i] = l[j] => i = j
        /\ {l[i] : i \in DOMAIN l} = T
    BY <1>1, Appended
  <2> QED BY <2>1 DEF Apiece, Elems
<1>3. Lined(m, line)
  BY <1>1, <1>2 DEF Lined
<1>4. Round(m, line, ThreadYield(m))
  BY <1>1, <1>2, DispatchRound DEF ThreadYield
<1>5. InQueue(m) = T \ {m.cur} /\ m.cur \in T
  BY <1>1 DEF InQueue, Line
<1>6. InQueue(m) = Elems(m.q)
  BY DEF InQueue, Elems
<1>7. /\ line[Len(line)] = m.cur /\ Len(line) = Len(m.q) + 1
      /\ \A i \in DOMAIN m.q : i \in DOMAIN line /\ line[i] = m.q[i]
  BY <1>1
<1>8. /\ \A t, u : Ahead(m.q, t, u) => Ahead(line, t, u)
      /\ \A t \in Elems(m.q) : Ahead(line, t, m.cur)
  BY <1>1, AheadAppend
<1>9. T \subseteq Thread
  BY <1>2 DEF Elems
<1> QED BY <1>2, <1>3, <1>4, <1>5, <1>6, <1>7, <1>8, <1>9

\* What waiting for semaphore s, of which there are none, does before the round.
Asked(m, s, a) ==
    /\ a \in Memory /\ a.q = m.q /\ a.cur = m.cur /\ a.yields = m.yields
    /\ a.req = m.req /\ a.box = m.box
    /\ \A u \in Sems(Boxes) : a.sem[u].counter = m.sem[u].counter
    /\ a.on[m.cur] = s /\ ~Ready(a, m.cur)
    /\ \A t \in Thread \ {m.cur} :
        /\ a.on[t] = m.on[t] /\ (a.wake[t] <=> m.wake[t])
        /\ Ready(a, t) => Ready(m, t)
        /\ Ready(m, t) /\ m.on[t] # s => Ready(a, t)
        /\ m.wake[t] => Ready(a, t)

LEMMA BlockIs ==
  ASSUME NEW m \in Memory, NEW T, Sched(m, T), m.cur # Main, NEW s \in Sems(Boxes), ~SemHas(m, s)
  PROVE  \E a \in Memory : Asked(m, s, a) /\ Sched(a, T) /\ SemBlock(m, s) = ThreadYield(a)
<1> DEFINE a == [m EXCEPT !.sem[s].waiters = 1, !.on[m.cur] = s, !.wake[m.cur] = FALSE]
<1>1. a = [m EXCEPT !.sem = [m.sem EXCEPT ![s].waiters = 1], !.on = [m.on EXCEPT ![m.cur] = s],
                    !.wake = [m.wake EXCEPT ![m.cur] = FALSE]]
  BY DEF Memory
<1>2. /\ [m.sem EXCEPT ![s].waiters = 1] \in [Sems(Boxes) -> SemType]
      /\ \A r \in Sems(Boxes) : [m.sem EXCEPT ![s].waiters = 1][r].counter = m.sem[r].counter
      /\ \A r \in Sems(Boxes) : r # s => [m.sem EXCEPT ![s].waiters = 1][r] = m.sem[r]
      /\ [m.sem EXCEPT ![s].waiters = 1][s] = Asleep
  <2>1. m.sem \in [Sems(Boxes) -> SemType] /\ m.sem[s] \in SemType
    BY DEF Memory
  <2>2. m.sem[s].counter = 0
    BY <2>1 DEF SemHas, SemType
  <2>3. [m.sem[s] EXCEPT !.waiters = 1] = Asleep
    BY <2>1, <2>2 DEF SemType, Asleep
  <2>4. Asleep \in SemType /\ Asleep.counter = 0
    BY DEF Asleep, SemType
  <2> QED BY <2>1, <2>2, <2>3, <2>4
<1>3. /\ [m.on EXCEPT ![m.cur] = s] \in [Thread -> Sems(Boxes) \cup {NoSem}]
      /\ [m.on EXCEPT ![m.cur] = s][Main] = m.on[Main]
      /\ [m.wake EXCEPT ![m.cur] = FALSE] \in [Thread -> BOOLEAN]
  BY DEF Memory, Thread
<1>4. SemBlock(m, s) = ThreadYield(a)
  BY DEF SemBlock
<1> HIDE DEF a
<1>5. /\ a \in Memory /\ a.q = m.q /\ a.cur = m.cur /\ a.on[Main] = m.on[Main] /\ a.box = m.box
      /\ a.req = m.req /\ a.yields = m.yields
      /\ a.on = [m.on EXCEPT ![m.cur] = s] /\ a.wake = [m.wake EXCEPT ![m.cur] = FALSE]
      /\ \A r \in Sems(Boxes) : a.sem[r].counter = m.sem[r].counter
      /\ \A r \in Sems(Boxes) : r # s => a.sem[r] = m.sem[r]
      /\ a.sem[s] = Asleep
  BY <1>1, <1>2, <1>3 DEF Memory
<1>6. Sched(a, T)
  BY <1>5 DEF Sched
<1>7. a.on[m.cur] = s /\ a.wake[m.cur] = FALSE
  BY <1>5 DEF Memory
<1>8. ~Ready(a, m.cur)
  BY <1>5, <1>7, NoSemaphore DEF Ready
<1>9. ASSUME NEW t \in Thread \ {m.cur}
      PROVE  /\ a.on[t] = m.on[t] /\ (a.wake[t] <=> m.wake[t])
             /\ Ready(a, t) => Ready(m, t)
             /\ Ready(m, t) /\ m.on[t] # s => Ready(a, t)
             /\ m.wake[t] => Ready(a, t)
  <2>1. a.on[t] = m.on[t] /\ (a.wake[t] <=> m.wake[t]) /\ m.on[t] \in Sems(Boxes) \cup {NoSem}
    BY <1>5, <1>9 DEF Memory
  <2>2. CASE m.on[t] = s
    BY <1>5, <2>1, <2>2 DEF Ready
  <2>3. CASE m.on[t] # s
    BY <1>5, <2>1, <2>3 DEF Ready
  <2> QED BY <2>1, <2>2, <2>3
<1>10. Asked(m, s, a)
  BY <1>5, <1>7, <1>8, <1>9 DEF Asked
<1> QED BY <1>4, <1>5, <1>6, <1>10

\* The end of a request's thread, before the round.
Ended(m, t, a) ==
    /\ a \in Memory /\ a.q = m.q /\ a.cur = m.cur /\ a.yields = m.yields
    /\ a.req = [m.req EXCEPT ![t] = NoReq] /\ a.box = m.box /\ a.sem = m.sem
    /\ a.on = m.on /\ a.wake = m.wake

LEMMA HaltIs ==
  ASSUME NEW m \in Memory, NEW T, Sched(m, T), NEW t \in Buf, m.cur = t
  PROVE  /\ InQueue(m) = T \ {t} /\ Elems(m.q) = T \ {t}
         /\ \E a \in Memory : Ended(m, t, a) /\ Lined(a, m.q) /\ Round(a, m.q, PutBuffer(m, t))
<1>1. t \in Thread /\ t # Main /\ NoReq \in ReqType /\ m.req \in [Thread -> ReqType]
  BY Threads, Rings DEF NoReq, ReqType, Pcs, Memory
<1>2. PICK a \in Memory : a = [m EXCEPT !.buse = @ \ {t}, !.req[t] = NoReq] /\ Ended(m, t, a)
  <2> DEFINE a == [m EXCEPT !.buse = @ \ {t}, !.req[t] = NoReq]
  <2>1. [m.req EXCEPT ![t] = NoReq] \in [Thread -> ReqType] /\ m.buse \ {t} \in SUBSET Buf
    BY <1>1 DEF Memory
  <2>2. a = [m EXCEPT !.buse = m.buse \ {t}, !.req = [m.req EXCEPT ![t] = NoReq]]
    BY DEF Memory
  <2> HIDE DEF a
  <2>3. /\ a \in Memory /\ a.q = m.q /\ a.on = m.on /\ a.wake = m.wake /\ a.yields = m.yields
        /\ a.cur = m.cur /\ a.box = m.box /\ a.sem = m.sem
        /\ a.req = [m.req EXCEPT ![t] = NoReq]
    BY <2>1, <2>2 DEF Memory
  <2> QED BY <2>3 DEF Ended, a
<1>3. Line(m.q, t, T) /\ m.on[Main] = NoSem /\ Main \in T /\ m.q \in Seq(Thread)
  BY DEF Sched, Memory
<1>4. Apiece(m.q) /\ Elems(m.q) = T \ {t} /\ InQueue(m) = T \ {t}
  BY <1>3 DEF Line, Apiece, Elems, InQueue
<1>5. Lined(a, m.q)
  BY <1>1, <1>2, <1>3, <1>4 DEF Lined, Ended
<1>6. PutBuffer(m, t) = Dispatch(a, m.q)
  BY <1>2 DEF PutBuffer, ThreadHalt, Ended
<1>7. Round(a, m.q, Dispatch(a, m.q))
  BY <1>5, DispatchRound DEF Lined
<1> QED BY <1>2, <1>4, <1>5, <1>6, <1>7
-----------------------------------------------------------------------------
\* A step of the running thread that may make ready those that wait on up, and make
\* wait again those on down that polled in vain; NoSem where there is no such semaphore.
Wakes(m, r, down, up) ==
    /\ r \in Memory /\ r.q = m.q /\ r.cur = m.cur /\ r.on = m.on /\ r.yields = m.yields
    /\ \A t \in InQueue(m) :
        /\ Ready(r, t) => Ready(m, t) \/ m.on[t] = up
        /\ m.on[t] = up => Ready(r, t) /\ (~Ready(m, t) => r.wake[t])
        /\ m.wake[t] => r.wake[t]
        /\ Ready(m, t) /\ m.on[t] # down => Ready(r, t)

\* One of two steps takes, the other signals, or one of them does neither.
Either(x, y, z) == (x = NoSem /\ z = y) \/ (y = NoSem /\ z = x)

LEMMA WakesThen ==
  ASSUME NEW a, NEW b, NEW c, NEW d1, NEW d2, NEW u1, NEW u2, NEW d, NEW u,
         Wakes(a, b, d1, u1), Wakes(b, c, d2, u2), u1 = NoSem \/ d2 = NoSem,
         Either(d1, d2, d), Either(u1, u2, u)
  PROVE  Wakes(a, c, d, u)
<1>1. InQueue(b) = InQueue(a) /\ b.on = a.on
  BY DEF Wakes, InQueue
<1>2. ASSUME NEW t \in InQueue(a)
      PROVE  /\ Ready(c, t) => Ready(a, t) \/ a.on[t] = u
             /\ a.on[t] = u => Ready(c, t) /\ (~Ready(a, t) => c.wake[t])
             /\ a.wake[t] => c.wake[t]
             /\ Ready(a, t) /\ a.on[t] # d => Ready(c, t)
  <2>1. /\ Ready(b, t) => Ready(a, t) \/ a.on[t] = u1
        /\ a.on[t] = u1 => Ready(b, t) /\ (~Ready(a, t) => b.wake[t])
        /\ a.wake[t] => b.wake[t]
        /\ Ready(a, t) /\ a.on[t] # d1 => Ready(b, t)
    BY DEF Wakes
  <2>2. /\ Ready(c, t) => Ready(b, t) \/ a.on[t] = u2
        /\ a.on[t] = u2 => Ready(c, t) /\ (~Ready(b, t) => c.wake[t])
        /\ b.wake[t] => c.wake[t]
        /\ Ready(b, t) /\ a.on[t] # d2 => Ready(c, t)
    BY <1>1 DEF Wakes
  <2>3. a.on[t] = NoSem => Ready(a, t) /\ Ready(b, t) /\ Ready(c, t)
    <3>1. c.on = a.on
      BY <1>1 DEF Wakes
    <3> QED BY <1>1, <3>1 DEF Ready
  <2> QED BY <2>1, <2>2, <2>3 DEF Either
<1> QED BY <1>2 DEF Wakes

\* A step that touches neither the threads nor the semaphores.
LEMMA WakesNone ==
  ASSUME NEW m \in Memory, NEW r \in Memory, r.q = m.q, r.cur = m.cur, r.on = m.on,
         r.wake = m.wake, r.sem = m.sem, r.yields = m.yields
  PROVE  Wakes(m, r, NoSem, NoSem)
BY DEF Wakes, Ready

\* A signal makes every thread ready that waits on the semaphore.
LEMMA SignalWakes ==
  ASSUME NEW m \in Memory, NEW s \in Sems(Boxes)
  PROVE  Wakes(m, SemSignal(m, s), NoSem, s)
<1> DEFINE a == [m EXCEPT !.sem[s].counter = @ + 1]
           b == [a EXCEPT !.sem[s].waiters = 0]
<1>1. m.sem \in [Sems(Boxes) -> SemType]
  BY DEF Memory
<1>2. /\ a \in Memory /\ a.q = m.q /\ a.cur = m.cur /\ a.on = m.on /\ a.box = m.box
      /\ a.req = m.req /\ a.buse = m.buse /\ a.va = m.va /\ a.wake = m.wake /\ a.yields = m.yields
      /\ \A r \in Sems(Boxes) : a.sem[r].counter =
            IF r = s THEN m.sem[r].counter + 1 ELSE m.sem[r].counter
      /\ \A r \in Sems(Boxes) : r # s => a.sem[r] = m.sem[r]
      /\ a.sem[s].waiters = m.sem[s].waiters
  <2>1. a = [m EXCEPT !.sem = [m.sem EXCEPT ![s].counter = @ + 1]]
    BY DEF Memory
  <2>2. /\ [m.sem EXCEPT ![s].counter = @ + 1] \in [Sems(Boxes) -> SemType]
        /\ \A r \in Sems(Boxes) : [m.sem EXCEPT ![s].counter = @ + 1][r].counter =
              IF r = s THEN m.sem[r].counter + 1 ELSE m.sem[r].counter
        /\ \A r \in Sems(Boxes) : r # s => [m.sem EXCEPT ![s].counter = @ + 1][r] = m.sem[r]
        /\ [m.sem EXCEPT ![s].counter = @ + 1][s].waiters = m.sem[s].waiters
    BY <1>1 DEF SemType
  <2> HIDE DEF a
  <2> QED BY <2>1, <2>2 DEF Memory
<1> HIDE DEF a
<1>3. /\ b \in Memory /\ b.q = m.q /\ b.cur = m.cur /\ b.on = m.on /\ b.box = m.box
      /\ b.req = m.req /\ b.buse = m.buse /\ b.va = m.va /\ b.wake = m.wake /\ b.yields = m.yields
      /\ \A r \in Sems(Boxes) : b.sem[r].counter = a.sem[r].counter
      /\ \A r \in Sems(Boxes) : r # s => b.sem[r] = a.sem[r]
  <2>1. b = [a EXCEPT !.sem = [a.sem EXCEPT ![s].waiters = 0]]
    BY <1>2 DEF Memory
  <2>2. a.sem \in [Sems(Boxes) -> SemType]
    BY <1>2 DEF Memory
  <2>3. /\ [a.sem EXCEPT ![s].waiters = 0] \in [Sems(Boxes) -> SemType]
        /\ \A r \in Sems(Boxes) : [a.sem EXCEPT ![s].waiters = 0][r].counter = a.sem[r].counter
        /\ \A r \in Sems(Boxes) : r # s => [a.sem EXCEPT ![s].waiters = 0][r] = a.sem[r]
    BY <2>2 DEF SemType
  <2> HIDE DEF b
  <2> QED BY <1>2, <2>1, <2>3 DEF Memory
<1> HIDE DEF b
<1> DEFINE w == [t \in DOMAIN b.wake |-> b.wake[t] \/ (t \in InQueue(b) /\ b.on[t] = s)]
<1>w. w \in [Thread -> BOOLEAN]
  BY <1>3 DEF Memory
<1>4. PICK c \in Memory : c = SemSignal(m, s) /\ \/ c = a /\ a.sem[s].waiters = 0
                                                 \/ c = [b EXCEPT !.wake = w]
  <2>1. SemSignal(m, s) = IF a.sem[s].waiters = 0 THEN a ELSE ThreadWakeup(b, s)
    BY DEF SemSignal, a, b
  <2>2. [b EXCEPT !.wake = w] \in Memory
    <3> HIDE DEF w
    <3> QED BY <1>3, <1>w DEF Memory
  <2>3. ThreadWakeup(b, s) = [b EXCEPT !.wake = w]
    BY <1>3 DEF Memory, ThreadWakeup
  <2>4. CASE a.sem[s].waiters = 0
    BY <1>2, <2>1, <2>4
  <2>5. CASE a.sem[s].waiters # 0
    BY <2>1, <2>2, <2>3, <2>5
  <2> QED BY <2>4, <2>5
<1>x. \A t \in Thread : w[t] <=> (m.wake[t] \/ (t \in InQueue(m) /\ m.on[t] = s))
  <2>1. DOMAIN b.wake = Thread /\ InQueue(b) = InQueue(m)
    BY <1>3 DEF Memory, InQueue
  <2> QED BY <1>3, <2>1
<1> HIDE DEF w
<1>5. /\ c.q = m.q /\ c.cur = m.cur /\ c.on = m.on /\ c.box = m.box
      /\ c.req = m.req /\ c.buse = m.buse /\ c.va = m.va /\ c.yields = m.yields
      /\ \A r \in Sems(Boxes) : c.sem[r].counter = a.sem[r].counter
      /\ \A r \in Sems(Boxes) : r # s => c.sem[r] = m.sem[r]
      /\ (c.wake = m.wake /\ m.sem[s].waiters = 0) \/ c.wake = w
  BY <1>2, <1>3, <1>4, <1>w DEF Memory
<1>7. Wakes(m, c, NoSem, s)
  <2> SUFFICES ASSUME NEW t \in InQueue(m)
               PROVE  /\ Ready(c, t) => Ready(m, t) \/ m.on[t] = s
                      /\ m.on[t] = s => Ready(c, t) /\ (~Ready(m, t) => c.wake[t])
                      /\ m.wake[t] => c.wake[t]
                      /\ Ready(m, t) => Ready(c, t)
    BY <1>5 DEF Wakes
  <2>1. t \in Thread /\ m.on[t] \in Sems(Boxes) \cup {NoSem}
    BY DEF InQueue, Memory
  <2>w. w[t] <=> m.wake[t] \/ m.on[t] = s
    BY <1>x, <2>1
  <2>2. c.wake[t] => m.wake[t] \/ m.on[t] = s
    BY <1>5, <2>w
  <2>3. m.wake[t] => c.wake[t]
    BY <1>5, <2>w
  <2>4. m.on[t] # s /\ m.on[t] # NoSem => c.sem[m.on[t]] = m.sem[m.on[t]]
    BY <1>5, <2>1
  <2>5. c.sem[s] # Asleep
    <3>1. c.sem[s].counter = m.sem[s].counter + 1 /\ m.sem[s].counter \in Nat
      BY <1>1, <1>2, <1>5 DEF SemType
    <3> QED BY <3>1 DEF Asleep
  <2>6. m.on[t] = s => Ready(c, t)
    BY <1>5, <2>5 DEF Ready
  <2>7. m.on[t] = s /\ ~Ready(m, t) => c.wake[t]
    <3>1. m.on[t] = s /\ ~Ready(m, t) => m.sem[s].waiters = 1
      BY DEF Ready, Asleep
    <3>2. m.sem[s].waiters = 1 => c.wake = w
      BY <1>5
    <3> QED BY <2>w, <3>1, <3>2
  <2> QED BY <1>5, <2>2, <2>3, <2>4, <2>6, <2>7 DEF Ready
<1> QED BY <1>4, <1>7

LEMMA TakeWakes ==
  ASSUME NEW m \in Memory, NEW s \in Sems(Boxes), SemHas(m, s)
  PROVE  Wakes(m, SemTake(m, s), s, NoSem)
<1> DEFINE a == SemTake(m, s)
<1>1. m.sem \in [Sems(Boxes) -> SemType] /\ m.sem[s].counter \in Nat /\ m.sem[s].counter > 0
  BY DEF Memory, SemHas, SemType
<1>2. a = [m EXCEPT !.sem = [m.sem EXCEPT ![s].counter = @ - 1]]
  BY DEF SemTake, Memory
<1>3. /\ [m.sem EXCEPT ![s].counter = @ - 1] \in [Sems(Boxes) -> SemType]
      /\ \A r \in Sems(Boxes) : [m.sem EXCEPT ![s].counter = @ - 1][r].counter =
            IF r = s THEN m.sem[r].counter - 1 ELSE m.sem[r].counter
  <2>1. m.sem[s].counter - 1 \in Nat
    BY <1>1
  <2>2. [m.sem[s] EXCEPT !.counter = @ - 1] \in SemType
    BY <1>1, <2>1 DEF SemType
  <2> QED BY <1>1, <2>2 DEF SemType
<1> HIDE DEF a
<1>4. /\ a \in Memory /\ a.q = m.q /\ a.on = m.on /\ a.cur = m.cur /\ a.box = m.box
      /\ a.req = m.req /\ a.buse = m.buse /\ a.va = m.va /\ a.wake = m.wake
      /\ a.sem = [m.sem EXCEPT ![s].counter = @ - 1] /\ a.yields = m.yields
  BY <1>2, <1>3 DEF Memory
<1>5. Wakes(m, a, s, NoSem)
  <2>4. \A t \in InQueue(m) : m.on[t] = NoSem => Ready(a, t) /\ Ready(m, t)
    BY <1>4 DEF Ready
  <2> SUFFICES ASSUME NEW t \in InQueue(m)
               PROVE  /\ Ready(a, t) => Ready(m, t)
                      /\ Ready(m, t) /\ m.on[t] # s => Ready(a, t)
    BY <1>4, <2>4 DEF Wakes
  <2>1. \A u \in Sems(Boxes) : u # s => a.sem[u] = m.sem[u]
    BY <1>1, <1>4
  <2>2. m.on[t] \in Sems(Boxes) \cup {NoSem}
    BY DEF Memory, InQueue
  <2>3. m.sem[s] # Asleep
    <3>1. m.sem[s].counter # 0
      BY <1>1
    <3> QED BY <3>1 DEF Asleep
  <2> QED BY <1>4, <2>1, <2>2, <2>3 DEF Ready
<1>6. a = SemTake(m, s)
  BY DEF a
<1> QED BY <1>5, <1>6

\* The mailbox is another one, and a semaphore is signalled.
LEMMA BoxWakes ==
  ASSUME NEW m \in Memory, NEW b \in Boxes, NEW y \in BoxType, NEW s \in Sems(Boxes),
         NEW r, r = SemSignal([m EXCEPT !.box = [m.box EXCEPT ![b] = y]], s)
  PROVE  Wakes(m, r, NoSem, s)
<1> DEFINE a == [m EXCEPT !.box = [m.box EXCEPT ![b] = y]]
<1>1. [m.box EXCEPT ![b] = y] \in [Boxes -> BoxType]
  BY DEF Memory
<1>2. /\ a \in Memory /\ a.q = m.q /\ a.cur = m.cur /\ a.on = m.on
      /\ a.sem = m.sem /\ a.wake = m.wake /\ a.yields = m.yields
  BY <1>1 DEF Memory
<1>3. r = SemSignal(a, s)
  OBVIOUS
<1> HIDE DEF a
<1>4. Wakes(m, a, NoSem, NoSem)
  BY <1>2, WakesNone
<1>5. Wakes(a, r, NoSem, s)
  BY <1>2, <1>3, SignalWakes
<1>6. Either(NoSem, NoSem, NoSem) /\ Either(NoSem, s, s)
  BY DEF Either
<1> QED BY <1>4, <1>5, <1>6, WakesThen

LEMMA PutWakes ==
  ASSUME NEW m \in Memory, NEW b \in Boxes, NEW msg \in Int, Count(m.box[b]) < MBOXSLOTS
  PROVE  Wakes(m, MboxPut(m, b, msg), NoSem, Queued(b))
<1>9. PICK r : r = MboxPut(m, b, msg)
  OBVIOUS
<1>1. m.box[b] \in BoxType
  BY DEF Memory
<1>2. PICK y \in BoxType : y = With(m.box[b], msg)
  BY <1>1, PutBox
<1>3. r = SemSignal([m EXCEPT !.box = [m.box EXCEPT ![b] = y]], Queued(b))
  BY <1>2, <1>9 DEF MboxPut, With, Memory
<1>4. Queued(b) \in Sems(Boxes)
  BY SemsAre
<1>5. Wakes(m, r, NoSem, Queued(b))
  BY <1>3, <1>4, BoxWakes
<1> QED BY <1>5, <1>9

LEMMA GetWakes ==
  ASSUME NEW m \in Memory, NEW b \in Boxes, Count(m.box[b]) > 0
  PROVE  Wakes(m, MboxGet(m, b), NoSem, Free(b))
<1>9. PICK r : r = MboxGet(m, b)
  OBVIOUS
<1>1. m.box[b] \in BoxType /\ m.box \in [Boxes -> BoxType]
  BY DEF Memory
<1>2. PICK y \in BoxType : y = Without(m.box[b])
  BY <1>1, GetBox
<1> DEFINE h == IF NextSlot(m.box[b]) = m.box[b].nextq THEN -1 ELSE NextSlot(m.box[b])
<1>3. [m EXCEPT !.box[b].head = h, !.box[b].msg[m.box[b].head] = 0]
         = [m EXCEPT !.box = [m.box EXCEPT ![b] = y]]
  <2>1. [m EXCEPT !.box[b].head = h, !.box[b].msg[m.box[b].head] = 0]
          = [m EXCEPT !.box = [m.box EXCEPT ![b] =
               [[m.box[b] EXCEPT !.head = h] EXCEPT !.msg = [m.box[b].msg EXCEPT ![m.box[b].head] = 0]]]]
    BY <1>1 DEF Memory, BoxType
  <2>2. [[m.box[b] EXCEPT !.head = h] EXCEPT !.msg = [m.box[b].msg EXCEPT ![m.box[b].head] = 0]] = y
    <3>1. m.box[b] = [head |-> m.box[b].head, nextq |-> m.box[b].nextq, msg |-> m.box[b].msg]
      BY <1>1 DEF BoxType
    <3>2. PICK x, hd, nx, ms : x = m.box[b] /\ x = [head |-> hd, nextq |-> nx, msg |-> ms]
      BY <3>1
    <3>3. PICK g : g = [x.msg EXCEPT ![x.head] = 0]
      OBVIOUS
    <3>4. y = [head |-> h, nextq |-> nx, msg |-> g]
      BY <1>2, <3>2, <3>3 DEF Without
    <3> HIDE DEF h
    <3>5. PICK z : z = [head |-> h, nextq |-> nx, msg |-> ms]
      OBVIOUS
    <3>6. [x EXCEPT !.head = h] = z
      BY <3>2, <3>5
    <3>7. [z EXCEPT !.msg = g] = [head |-> h, nextq |-> nx, msg |-> g]
      BY <3>5
    <3> QED BY <3>2, <3>3, <3>4, <3>6, <3>7
  <2> QED BY <2>1, <2>2
<1>4. r = SemSignal([m EXCEPT !.box = [m.box EXCEPT ![b] = y]], Free(b))
  <2>1. r = SemSignal([m EXCEPT !.box[b].head = h, !.box[b].msg[m.box[b].head] = 0], Free(b))
    BY <1>9 DEF MboxGet, NextSlot
  <2> QED BY <1>3, <2>1
<1>5. Free(b) \in Sems(Boxes)
  BY SemsAre
<1>6. Wakes(m, r, NoSem, Free(b))
  BY <1>4, <1>5, BoxWakes
<1> QED BY <1>6, <1>9
-----------------------------------------------------------------------------
\* What a thread's step does, before the round if there is one: its request is r,
\* the mailboxes are x, one is taken from down and up is signalled.
Did(a, b, t, r, x, down, up) ==
    /\ b \in Memory /\ r \in ReqType /\ b.req = [a.req EXCEPT ![t] = r] /\ b.box = x
    /\ b.buse = a.buse /\ b.va = a.va /\ Wakes(a, b, down, up)
    /\ \A s \in Sems(Boxes) : b.sem[s].counter =
          a.sem[s].counter + (IF s = up THEN 1 ELSE 0) - (IF s = down THEN 1 ELSE 0)

LEMMA DidSched ==
  ASSUME NEW a, NEW b, NEW t, NEW r, NEW x, NEW down, NEW up, Did(a, b, t, r, x, down, up),
         NEW T, Sched(a, T)
  PROVE  Sched(b, T)
BY DEF Did, Wakes, Sched

LEMMA DidThen ==
  ASSUME NEW a \in Memory, NEW b, NEW c, NEW t \in Thread, NEW r, NEW q, NEW x, NEW y,
         NEW d1, NEW d2, NEW u1, NEW u2, NEW d, NEW u,
         Did(a, b, t, r, x, d1, u1), Did(b, c, t, q, y, d2, u2), u1 = NoSem \/ d2 = NoSem,
         Either(d1, d2, d), Either(u1, u2, u)
  PROVE  Did(a, c, t, q, y, d, u)
<1>1. Wakes(a, c, d, u)
  <2>1. Wakes(a, b, d1, u1) /\ Wakes(b, c, d2, u2)
    BY DEF Did
  <2> QED BY <2>1, WakesThen
<1>2. c.req = [a.req EXCEPT ![t] = q]
  BY DEF Did, Memory
<1>3. ASSUME NEW s \in Sems(Boxes)
      PROVE  c.sem[s].counter = a.sem[s].counter + (IF s = u THEN 1 ELSE 0)
                                                 - (IF s = d THEN 1 ELSE 0)
  <2>1. a.sem[s].counter \in Nat
    BY DEF Memory, SemType
  <2>2. /\ b.sem[s].counter = a.sem[s].counter + (IF s = u1 THEN 1 ELSE 0) - (IF s = d1 THEN 1 ELSE 0)
        /\ c.sem[s].counter = b.sem[s].counter + (IF s = u2 THEN 1 ELSE 0) - (IF s = d2 THEN 1 ELSE 0)
    BY DEF Did
  <2>3. s # NoSem
    BY NoSemaphore
  <2> QED BY <2>1, <2>2, <2>3 DEF Either
<1> QED BY <1>1, <1>2, <1>3 DEF Did

LEMMA TakeDid ==
  ASSUME NEW m \in Memory, NEW s \in Sems(Boxes), SemHas(m, s), NEW t \in Thread
  PROVE  Did(m, SemTake(m, s), t, m.req[t], m.box, s, NoSem)
<1>1. PICK b : b = SemTake(m, s)
  OBVIOUS
<1>2. /\ b \in Memory /\ b.box = m.box /\ b.req = m.req /\ b.buse = m.buse /\ b.va = m.va
      /\ \A r \in Sems(Boxes) : b.sem[r].counter =
            IF r = s THEN m.sem[r].counter - 1 ELSE m.sem[r].counter
  BY <1>1, TakeKeeps
<1>3. m.req[t] \in ReqType /\ m.req = [m.req EXCEPT ![t] = m.req[t]]
  BY DEF Memory
<1>4. ASSUME NEW z \in Sems(Boxes)
      PROVE  b.sem[z].counter = m.sem[z].counter + (IF z = NoSem THEN 1 ELSE 0)
                                                 - (IF z = s THEN 1 ELSE 0)
  <2>1. m.sem[z].counter \in Nat
    BY DEF Memory, SemType
  <2> QED BY <1>2, <2>1, NoSemaphore
<1>5. Wakes(m, b, s, NoSem)
  BY <1>1, TakeWakes
<1>6. Did(m, b, t, m.req[t], m.box, s, NoSem)
  BY <1>2, <1>3, <1>4, <1>5 DEF Did
<1> QED BY <1>1, <1>6

LEMMA ReqDid ==
  ASSUME NEW m \in Memory, NEW t \in Thread, NEW r \in ReqType, NEW b, b = [m EXCEPT !.req[t] = r]
  PROVE  Did(m, b, t, r, m.box, NoSem, NoSem)
<1>1. [m.req EXCEPT ![t] = r] \in [Thread -> ReqType]
  BY DEF Memory
<1>2. b = [m EXCEPT !.req = [m.req EXCEPT ![t] = r]]
  BY DEF Memory
<1>3. /\ b \in Memory /\ b.q = m.q /\ b.on = m.on /\ b.wake = m.wake /\ b.yields = m.yields
      /\ b.cur = m.cur /\ b.box = m.box /\ b.sem = m.sem /\ b.buse = m.buse /\ b.va = m.va
      /\ b.req = [m.req EXCEPT ![t] = r]
  BY <1>1, <1>2 DEF Memory
<1>4. Wakes(m, b, NoSem, NoSem)
  BY <1>3, WakesNone
<1>5. ASSUME NEW z \in Sems(Boxes)
      PROVE  b.sem[z].counter = m.sem[z].counter + (IF z = NoSem THEN 1 ELSE 0)
                                                 - (IF z = NoSem THEN 1 ELSE 0)
  <2>1. m.sem[z].counter \in Nat
    BY DEF Memory, SemType
  <2> QED BY <1>3, <2>1, NoSemaphore
<1> QED BY <1>3, <1>4, <1>5 DEF Did

LEMMA PutDid ==
  ASSUME NEW m \in Memory, NEW b \in Boxes, NEW msg \in Int, Count(m.box[b]) < MBOXSLOTS,
         NEW T, Sched(m, T), NEW t \in Thread
  PROVE  Did(m, MboxPut(m, b, msg), t, m.req[t], [m.box EXCEPT ![b] = With(m.box[b], msg)],
             NoSem, Queued(b))
<1>1. PICK r : r = MboxPut(m, b, msg)
  OBVIOUS
<1>2. /\ r \in Memory /\ Sched(r, T) /\ r.cur = m.cur /\ r.req = m.req
      /\ r.buse = m.buse /\ r.va = m.va
      /\ r.box = [m.box EXCEPT ![b] = With(m.box[b], msg)]
      /\ \A u \in Sems(Boxes) : r.sem[u].counter =
            IF u = Queued(b) THEN m.sem[u].counter + 1 ELSE m.sem[u].counter
  BY <1>1, PutKeeps
<1>3. m.req[t] \in ReqType /\ m.req = [m.req EXCEPT ![t] = m.req[t]]
  BY DEF Memory
<1>4. ASSUME NEW z \in Sems(Boxes)
      PROVE  r.sem[z].counter = m.sem[z].counter + (IF z = Queued(b) THEN 1 ELSE 0)
                                                 - (IF z = NoSem THEN 1 ELSE 0)
  <2>1. m.sem[z].counter \in Nat
    BY DEF Memory, SemType
  <2> QED BY <1>2, <2>1, NoSemaphore
<1>5. Wakes(m, r, NoSem, Queued(b))
  BY <1>1, PutWakes
<1>6. Did(m, r, t, m.req[t], [m.box EXCEPT ![b] = With(m.box[b], msg)], NoSem, Queued(b))
  BY <1>2, <1>3, <1>4, <1>5 DEF Did
<1> QED BY <1>1, <1>6

LEMMA GetDid ==
  ASSUME NEW m \in Memory, NEW b \in Boxes, Count(m.box[b]) > 0, NEW T, Sched(m, T), NEW t \in Thread
  PROVE  Did(m, MboxGet(m, b), t, m.req[t], [m.box EXCEPT ![b] = Without(m.box[b])],
             NoSem, Free(b))
<1>1. PICK r : r = MboxGet(m, b)
  OBVIOUS
<1>2. /\ r \in Memory /\ Sched(r, T) /\ r.cur = m.cur /\ r.req = m.req
      /\ r.buse = m.buse /\ r.va = m.va
      /\ r.box = [m.box EXCEPT ![b] = Without(m.box[b])]
      /\ \A u \in Sems(Boxes) : r.sem[u].counter =
            IF u = Free(b) THEN m.sem[u].counter + 1 ELSE m.sem[u].counter
  BY <1>1, GetKeeps
<1>3. m.req[t] \in ReqType /\ m.req = [m.req EXCEPT ![t] = m.req[t]]
  BY DEF Memory
<1>4. ASSUME NEW z \in Sems(Boxes)
      PROVE  r.sem[z].counter = m.sem[z].counter + (IF z = Free(b) THEN 1 ELSE 0)
                                                 - (IF z = NoSem THEN 1 ELSE 0)
  <2>1. m.sem[z].counter \in Nat
    BY DEF Memory, SemType
  <2> QED BY <1>2, <2>1, NoSemaphore
<1>5. Wakes(m, r, NoSem, Free(b))
  BY <1>1, GetWakes
<1>6. Did(m, r, t, m.req[t], [m.box EXCEPT ![b] = Without(m.box[b])], NoSem, Free(b))
  BY <1>2, <1>3, <1>4, <1>5 DEF Did
<1> QED BY <1>1, <1>6

\* The running thread goes to another point; or its request gets a packet.
LEMMA GotoDid ==
  ASSUME NEW m \in Memory, NEW pc \in Pcs, NEW t, m.cur = t
  PROVE  \E r \in ReqType : /\ Did(m, Goto(m, pc), t, r, m.box, NoSem, NoSem)
                            /\ r.pc = pc /\ r.whom = m.req[t].whom
                            /\ r.pkt = m.req[t].pkt /\ r.page = m.req[t].page
<1>1. t \in Thread /\ m.req \in [Thread -> ReqType] /\ m.req[t] \in ReqType
  BY DEF Memory
<1>2. PICK r : r = [m.req[t] EXCEPT !.pc = pc]
  OBVIOUS
<1>3. /\ r \in ReqType /\ r.pc = pc /\ r.whom = m.req[t].whom /\ r.pkt = m.req[t].pkt
      /\ r.page = m.req[t].page
  BY <1>1, <1>2 DEF ReqType
<1>4. PICK b : b = Goto(m, pc)
  OBVIOUS
<1>5. b = [m EXCEPT !.req[t] = r]
  BY <1>1, <1>2, <1>4 DEF Goto, Memory
<1>6. Did(m, b, t, r, m.box, NoSem, NoSem)
  BY <1>1, <1>3, <1>5, ReqDid
<1> QED BY <1>3, <1>4, <1>6

LEMMA PktDid ==
  ASSUME NEW m \in Memory, NEW p \in Int, NEW t \in Thread
  PROVE  \E r \in ReqType : /\ Did(m, SetPkt(m, t, p), t, r, m.box, NoSem, NoSem)
                            /\ r.pc = m.req[t].pc /\ r.whom = m.req[t].whom
                            /\ r.pkt = p /\ r.page = m.req[t].page
<1>1. m.req \in [Thread -> ReqType] /\ m.req[t] \in ReqType
  BY DEF Memory
<1>2. PICK r : r = [m.req[t] EXCEPT !.pkt = p]
  OBVIOUS
<1>3. r \in ReqType /\ r.pc = m.req[t].pc /\ r.whom = m.req[t].whom /\ r.pkt = p /\ r.page = m.req[t].page
  BY <1>1, <1>2 DEF ReqType
<1>4. PICK b : b = SetPkt(m, t, p)
  OBVIOUS
<1>5. b = [m EXCEPT !.req[t] = r]
  BY <1>1, <1>2, <1>4 DEF Memory, SetPkt
<1>6. Did(m, b, t, r, m.box, NoSem, NoSem)
  BY <1>3, <1>5, ReqDid
<1> QED BY <1>3, <1>4, <1>6
-----------------------------------------------------------------------------
\* Who waits on a semaphore.
LEMMA WaitsOn ==
  ASSUME NEW m, NEW md, NEW cl, NEW pg, NEW inp, NEW lk, Good(m, md, cl, pg, inp, lk),
         AllParked(m, InQueue(m)), NEW t \in InQueue(m) \ {Main}
  PROVE  /\ t \in Thread /\ t # m.cur /\ m.on[t] \in Sems(Boxes) /\ m.on[t] # NoSem
         /\ m.on[t] = Queued(Stack) => t = Tcpip /\ m.req[t].pc = "fetch"
         /\ m.on[t] # Free(Stack)
         /\ \A c \in Client :
               /\ m.on[t] = Done(c) => t \in Buf /\ m.req[t].pc = "sending" /\ m.req[t].whom = c
               /\ m.on[t] = Queued(c) => t \in Buf /\ m.req[t].pc = "recv" /\ m.req[t].whom = c
               /\ m.on[t] = Free(c) => t \in Buf /\ m.req[t].pc = "deliver" /\ To[m.req[t].pkt] = c
         /\ t = Tcpip => m.on[t] = Queued(Stack) /\ m.req[t].pc = "fetch"
         /\ t \in Buf /\ m.req[t].pc = "sending" => m.on[t] = Done(m.req[t].whom)
         /\ t \in Buf /\ m.req[t].pc = "recv" => m.on[t] = Queued(m.req[t].whom)
         /\ t \in Buf /\ m.req[t].pc = "deliver" => m.on[t] = Free(To[m.req[t].pkt])
         /\ m.wake[t] => Ready(m, t)
         /\ m.sem[m.on[t]].counter > 0 => Ready(m, t)
<1>1. Needs(m, t, m.on[t])
  BY DEF AllParked, Parked
<1>2. /\ m.req[t].pc \in {"sending", "recv"} /\ t \in Buf => m.req[t].whom \in Client
      /\ m.req[t].pc = "deliver" /\ t \in Buf => To[m.req[t].pkt] \in Client
  <2>1. Asking(m, cl) /\ Packets(m, pg, inp)
    BY DEF Good
  <2>2. m.req[t].pc = "deliver" /\ t \in Buf => m.req[t].pkt \in 1 .. Arriving
    BY <2>1 DEF Packets, Pkt
  <2>3. m.req[t].pc \in {"sending", "recv"} /\ t \in Buf => m.req[t].whom \in Client
    BY <2>1 DEF Asking, Asks
  <2> QED BY <2>2, <2>3, Sockets
<1>3. Stack \in Boxes /\ Client \subseteq Boxes /\ Stack \notin Client /\ Tcpip \notin Buf
  BY Threads
<1>4. t \in Thread /\ t # m.cur
  <2>1. m \in Memory /\ Sched(m, Line0(m))
    BY DEF Good
  <2> QED BY <2>1 DEF Sched, Line, InQueue, Memory
<1>5. m.on[t] \in Sems(Boxes)
  BY <1>1, <1>2, <1>3, SemsAre DEF Needs
<1>6. m.on[t] = Queued(Stack) => t = Tcpip /\ m.req[t].pc = "fetch"
  BY <1>1, <1>2, <1>3, SemsAre DEF Needs
<1>7. m.on[t] # Free(Stack)
  BY <1>1, <1>2, <1>3, SemsAre DEF Needs
<1>8. ASSUME NEW c \in Client
      PROVE  /\ m.on[t] = Done(c) => t \in Buf /\ m.req[t].pc = "sending" /\ m.req[t].whom = c
             /\ m.on[t] = Queued(c) => t \in Buf /\ m.req[t].pc = "recv" /\ m.req[t].whom = c
             /\ m.on[t] = Free(c) => t \in Buf /\ m.req[t].pc = "deliver" /\ To[m.req[t].pkt] = c
  <2>1. m.on[t] = Done(c) => t \in Buf /\ m.req[t].pc = "sending" /\ m.req[t].whom = c
    BY <1>1, <1>2, <1>3, SemsAre DEF Needs
  <2>2. m.on[t] = Queued(c) => t \in Buf /\ m.req[t].pc = "recv" /\ m.req[t].whom = c
    BY <1>1, <1>2, <1>3, SemsAre DEF Needs
  <2>3. m.on[t] = Free(c) => t \in Buf /\ m.req[t].pc = "deliver" /\ To[m.req[t].pkt] = c
    BY <1>1, <1>2, <1>3, SemsAre DEF Needs
  <2> QED BY <2>1, <2>2, <2>3
<1>9. /\ t = Tcpip => m.on[t] = Queued(Stack) /\ m.req[t].pc = "fetch"
      /\ t \in Buf /\ m.req[t].pc = "sending" => m.on[t] = Done(m.req[t].whom)
      /\ t \in Buf /\ m.req[t].pc = "recv" => m.on[t] = Queued(m.req[t].whom)
      /\ t \in Buf /\ m.req[t].pc = "deliver" => m.on[t] = Free(To[m.req[t].pkt])
  BY <1>1, <1>3 DEF Needs
<1>10. m.wake[t] => Ready(m, t)
  BY DEF Ready
<1>11. m.sem[m.on[t]].counter > 0 => Ready(m, t)
  <2>1. Asleep.counter = 0
    BY DEF Asleep
  <2>2. m.sem[m.on[t]].counter > 0 => m.sem[m.on[t]] # Asleep
    BY <2>1
  <2> QED BY <2>2 DEF Ready
<1>12. m.on[t] # NoSem
  BY <1>5, NoSemaphore
<1> QED BY <1>4, <1>5, <1>6, <1>7, <1>8, <1>9, <1>10, <1>11, <1>12

\* What a step of thread t, not serve()'s, leaves.
Stays(a, b, t, r, x, d, u) ==
    /\ b \in Memory /\ b.cur = t /\ b.q = a.q /\ b.yields = a.yields
    /\ b.on = a.on /\ b.box = x /\ b.req[t] = r /\ r \in ReqType
    /\ \A v \in Thread \ {t} : b.req[v] = a.req[v]
    /\ InQueue(b) = InQueue(a) /\ t \notin InQueue(a) /\ InQueue(a) \subseteq Thread
    /\ AllParked(b, InQueue(b))
    /\ \A v \in Woken(b) : v \in Woken(a) \/ (v \in InQueue(a) \ {Main} /\ a.on[v] = u)
    /\ \A v \in InQueue(a) \ {Main} : a.on[v] = u => v \in Woken(b) /\ (v \notin Woken(a) => b.wake[v])
    /\ \A v \in Woken(a) : (a.wake[v] => b.wake[v]) /\ (a.on[v] # d => v \in Woken(b))
    /\ \A s \in Sems(Boxes) : b.sem[s].counter =
          a.sem[s].counter + (IF s = u THEN 1 ELSE 0) - (IF s = d THEN 1 ELSE 0)

LEMMA StayIs ==
  ASSUME NEW a \in Memory, NEW T, Sched(a, T), NEW t \in Thread \ {Main}, a.cur = t,
         AllParked(a, InQueue(a)),
         NEW b, NEW r, NEW x, NEW d, NEW u, Did(a, b, t, r, x, d, u)
  PROVE  Stays(a, b, t, r, x, d, u) /\ Sched(b, T)
<1>1. /\ b \in Memory /\ r \in ReqType /\ b.req = [a.req EXCEPT ![t] = r] /\ b.box = x
      /\ b.q = a.q /\ b.cur = a.cur /\ b.on = a.on /\ b.yields = a.yields
      /\ \A s \in Sems(Boxes) : b.sem[s].counter =
            a.sem[s].counter + (IF s = u THEN 1 ELSE 0) - (IF s = d THEN 1 ELSE 0)
  BY DEF Did, Wakes
<1>2. Sched(b, T)
  BY DidSched
<1>3. InQueue(b) = InQueue(a)
  BY <1>1 DEF InQueue
<1>4. t \notin InQueue(a) /\ InQueue(a) \subseteq Thread
  BY DEF Sched, Line, InQueue, Memory
<1>5. b.req[t] = r /\ \A v \in Thread \ {t} : b.req[v] = a.req[v]
  BY <1>1 DEF Memory
<1>6. AllParked(b, InQueue(b))
  <2>1. ASSUME NEW v \in InQueue(b) \ {Main} PROVE Parked(b, v)
    <3>1. Parked(a, v) /\ b.req[v] = a.req[v] /\ b.on[v] = a.on[v]
      BY <1>1, <1>3, <1>4, <1>5, <2>1 DEF AllParked
    <3> QED BY <3>1 DEF Parked, Needs
  <2>2. \A v \in Thread \ InQueue(b) : b.on[v] = NoSem
    BY <1>1, <1>3 DEF AllParked
  <2> QED BY <2>1, <2>2 DEF AllParked
<1>7. \A v \in InQueue(a) :
        /\ Ready(b, v) => Ready(a, v) \/ a.on[v] = u
        /\ a.on[v] = u => Ready(b, v) /\ (~Ready(a, v) => b.wake[v])
        /\ a.wake[v] => b.wake[v]
        /\ Ready(a, v) /\ a.on[v] # d => Ready(b, v)
  BY DEF Did, Wakes
<1>8. /\ \A v \in Woken(b) : v \in Woken(a) \/ (v \in InQueue(a) \ {Main} /\ a.on[v] = u)
      /\ \A v \in InQueue(a) \ {Main} : a.on[v] = u => v \in Woken(b) /\ (v \notin Woken(a) => b.wake[v])
      /\ \A v \in Woken(a) : (a.wake[v] => b.wake[v]) /\ (a.on[v] # d => v \in Woken(b))
  BY <1>3, <1>7 DEF Woken
<1> QED BY <1>1, <1>2, <1>3, <1>4, <1>5, <1>6, <1>8 DEF Stays

\* Accounted depends on few parts.
LEMMA AccountedIs ==
  ASSUME NEW a \in Memory, NEW b, b.req = a.req, b.box[Stack] = a.box[Stack],
         \A u \in Sems(Boxes) : b.sem[u].counter = a.sem[u].counter, Accounted(a)
  PROVE  Accounted(b)
<1>1. \A t \in Buf : a.req[t].whom \in Boxes /\ Done(a.req[t].whom) \in Sems(Boxes)
  BY Threads, SemsAre DEF Memory, ReqType
<1>2. Mailing(a) = Mailing(b) /\ Mailing(a) \subseteq Buf
  BY DEF Mailing
<1> QED BY <1>1, <1>2 DEF Accounted, Outgoing

\* A thread begins to wait: what the threads of the line are then.
BlockLine(m, t, s, T, a, line, r) ==
    /\ a \in Memory /\ Asked(m, s, a) /\ r = ThreadYield(a)
    /\ line = Append(m.q, t) /\ Lined(a, line) /\ Elems(line) = T /\ Round(a, line, r)
    /\ InQueue(m) = T \ {t} /\ t \in T /\ T \subseteq Thread
    /\ \A v \in InQueue(m) : Ahead(line, v, t)
    /\ \A v, u : Ahead(m.q, v, u) => Ahead(line, v, u)
    /\ line[Len(line)] = t /\ Len(line) = Len(m.q) + 1
    /\ \A i \in DOMAIN m.q : i \in DOMAIN line /\ line[i] = m.q[i]
    /\ AllParked(a, T) /\ Accounted(a) /\ Mailing(a) = Mailing(m)
    /\ \A S : Apart(m, S) => Apart(a, S)

LEMMA BlockLined ==
  ASSUME NEW m \in Memory, NEW T, Sched(m, T), NEW t \in Thread \ {Main}, m.cur = t,
         NEW s \in Sems(Boxes), ~SemHas(m, s), Needs(m, t, s),
         AllParked(m, InQueue(m)), Accounted(m)
  PROVE  \E a, line : BlockLine(m, t, s, T, a, line, SemBlock(m, s))
<1>1. PICK a \in Memory : Asked(m, s, a) /\ Sched(a, T) /\ SemBlock(m, s) = ThreadYield(a)
  BY BlockIs
<1>2. PICK line : line = Append(a.q, a.cur)
  OBVIOUS
<1>3. /\ a.q = m.q /\ a.cur = t /\ a.req = m.req /\ a.box = m.box
      /\ \A u \in Sems(Boxes) : a.sem[u].counter = m.sem[u].counter
      /\ a.on[t] = s /\ \A v \in Thread \ {t} : a.on[v] = m.on[v]
  BY <1>1 DEF Asked
<1>4. /\ Lined(a, line) /\ Elems(line) = T /\ Round(a, line, ThreadYield(a))
      /\ InQueue(a) = T \ {a.cur} /\ a.cur \in T /\ T \subseteq Thread
      /\ \A v \in InQueue(a) : Ahead(line, v, a.cur)
      /\ \A v, u : Ahead(a.q, v, u) => Ahead(line, v, u)
      /\ line[Len(line)] = a.cur /\ Len(line) = Len(a.q) + 1
      /\ \A i \in DOMAIN a.q : i \in DOMAIN line /\ line[i] = a.q[i]
  <2>1. a \in Memory /\ Sched(a, T)
    BY <1>1
  <2>8. Lined(a, line)
    BY <1>2, <2>1, YieldIs
  <2>9. Elems(line) = T
    BY <1>2, <2>1, YieldIs, ZenonT(60)
  <2>2. Round(a, line, ThreadYield(a))
    BY <1>2, <2>1, YieldIs
  <2>3. InQueue(a) = T \ {a.cur} /\ a.cur \in T /\ T \subseteq Thread
    BY <1>2, <2>1, YieldIs
  <2>4. \A v \in InQueue(a) : Ahead(line, v, a.cur)
    BY <1>2, <2>1, YieldIs
  <2>5. \A v, u : Ahead(a.q, v, u) => Ahead(line, v, u)
    BY <1>2, <2>1, YieldIs
  <2>6. line[Len(line)] = a.cur /\ Len(line) = Len(a.q) + 1
    BY <1>2, <2>1, YieldIs
  <2>7. \A i \in DOMAIN a.q : i \in DOMAIN line /\ line[i] = a.q[i]
    BY <1>2, <2>1, YieldIs
  <2> QED BY <2>2, <2>3, <2>4, <2>5, <2>6, <2>7, <2>8, <2>9
<1>5. InQueue(a) = InQueue(m)
  BY <1>3 DEF InQueue
<1>6. AllParked(a, T)
  <2>1. ASSUME NEW v \in T \ {Main} PROVE Parked(a, v)
    <3>1. CASE v = t
      <4>1. Needs(a, t, s)
        BY <1>3 DEF Needs
      <4> QED BY <1>3, <3>1, <4>1 DEF Parked
    <3>2. CASE v # t
      <4>1. v \in InQueue(m) \ {Main} /\ v \in Thread \ {t}
        BY <1>3, <1>4, <1>5, <2>1, <3>2
      <4>2. Needs(m, v, m.on[v]) /\ a.on[v] = m.on[v]
        BY <1>3, <4>1 DEF AllParked, Parked
      <4> QED BY <1>3, <4>2 DEF Parked, Needs
    <3> QED BY <3>1, <3>2
  <2>2. ASSUME NEW v \in Thread \ T PROVE a.on[v] = NoSem
    <3>1. v # t /\ v \notin InQueue(m)
      BY <1>3, <1>4, <1>5, <2>2
    <3> QED BY <1>3, <2>2, <3>1 DEF AllParked
  <2> QED BY <2>1, <2>2 DEF AllParked
<1>7. Accounted(a)
  BY <1>3, AccountedIs
<1>8. Mailing(a) = Mailing(m) /\ \A S : Apart(m, S) => Apart(a, S)
  BY <1>3 DEF Mailing, Apart
<1>9. PICK r : r = SemBlock(m, s)
  OBVIOUS
<1>10. BlockLine(m, t, s, T, a, line, r)
  BY <1>1, <1>2, <1>3, <1>4, <1>5, <1>6, <1>7, <1>8, <1>9 DEF BlockLine
<1> QED BY <1>9, <1>10

\* The thread of a message's request waits: serve() runs.
LEMMA BlockFirst ==
  ASSUME NEW m \in Memory, NEW T, Sched(m, T), Tcpip \in T, NEW t \in Buf, m.cur = t,
         NEW s \in Sems(Boxes), ~SemHas(m, s), Needs(m, t, s),
         AllParked(m, InQueue(m)), Accounted(m), Apart(m, Buf),
         m.q # <<>>, m.q[1] = Main, m.yields = 0, m.req[Main].pc = "serve",
         \A v \in Woken(m) : m.wake[v],
         Tcpip \in Woken(m) => Woken(m) = {Tcpip} /\ Mailing(m) \subseteq {t},
         Mailing(m) # {} => Tcpip \in Woken(m)
  PROVE  Flow(SemBlock(m, s), "run")
<1>1. t \in Thread \ {Main} /\ t # Tcpip
  BY Threads
<1>2. PICK r : r = SemBlock(m, s)
  OBVIOUS
<1>3. PICK a, line : BlockLine(m, t, s, T, a, line, r)
  BY <1>1, <1>2, BlockLined
<1>4. /\ Lined(a, line) /\ Elems(line) = T /\ Round(a, line, r) /\ AllParked(a, Elems(line))
      /\ Accounted(a) /\ Apart(a, Buf) /\ Mailing(a) = Mailing(m) /\ line[Len(line)] = t
      /\ InQueue(m) = T \ {t} /\ T \subseteq Thread
  BY <1>3 DEF BlockLine
<1>5. line[1] = Main
  <2>1. 1 \in DOMAIN m.q
    <3>1. m.q \in Seq(Thread)
      BY DEF Memory
    <3> QED BY <3>1
  <2> QED BY <1>3, <2>1 DEF BlockLine
<1>6. a.yields = 0 /\ a.req[Main].pc = "serve" /\ ~Ready(a, t)
  BY <1>3 DEF BlockLine, Asked
<1>a. \A v \in Thread \ {t} : a.wake[v] <=> m.wake[v]
  BY <1>3 DEF BlockLine, Asked
<1>b. \A v \in Thread \ {t} : Ready(a, v) => Ready(m, v)
  BY <1>3 DEF BlockLine, Asked
<1>c. \A v \in Thread \ {t} : m.wake[v] => Ready(a, v)
  BY <1>3 DEF BlockLine, Asked
<1>7. ASSUME NEW v \in Elems(line) \ {Main}, Ready(a, v)
      PROVE  v \in Woken(m) /\ a.wake[v]
  <2>1. v # t /\ v \in InQueue(m) \ {Main} /\ v \in Thread \ {t}
    BY <1>4, <1>6, <1>7
  <2>2. Ready(m, v)
    BY <1>7, <1>b, <2>1
  <2>3. v \in Woken(m)
    BY <2>1, <2>2 DEF Woken
  <2>4. m.wake[v]
    BY <2>3
  <2> QED BY <1>a, <2>1, <2>3, <2>4
<1>8. Tcpip \in Elems(line) \ {Main} /\ Tcpip \in Thread \ {t}
  BY <1>1, <1>4, Threads
<1>9. Mailing(a) # {} => Ready(a, Tcpip)
  <2>1. Mailing(a) # {} => m.wake[Tcpip]
    BY <1>4
  <2> QED BY <1>c, <1>8, <2>1
<1>10. Ready(a, Tcpip) => /\ \A v \in Elems(line) \ {Main} : Ready(a, v) => v = Tcpip
                          /\ \A v \in Mailing(a) : v = line[Len(line)]
  BY <1>4, <1>7, <1>8
<1>11. \A v \in Elems(line) \ {Main} : Ready(a, v) => a.wake[v]
  BY <1>7
<1>12. Flow(r, "run")
  BY <1>4, <1>5, <1>6, <1>8, <1>9, <1>10, <1>11, MainGo
<1> QED BY <1>2, <1>12

\* A thread that was woken waits again: the next of them runs, or serve().
LEMMA BlockLast ==
  ASSUME NEW m \in Memory, NEW T, Sched(m, T), Tcpip \in T, NEW t \in Thread \ {Main}, m.cur = t,
         NEW s \in Sems(Boxes), ~SemHas(m, s), Needs(m, t, s),
         AllParked(m, InQueue(m)), Accounted(m), Apart(m, Buf),
         \A v \in Woken(m) : Before(m.q, v),
         t # Tcpip => Tcpip \notin Woken(m),
         \A v \in Mailing(m) : v \in Woken(m) /\ m.on[v] # s
  PROVE  Flow(SemBlock(m, s), "run")
<1>2. PICK r : r = SemBlock(m, s)
  OBVIOUS
<1>3. PICK a, line : BlockLine(m, t, s, T, a, line, r)
  BY <1>2, BlockLined
<1>4. /\ Lined(a, line) /\ Elems(line) = T /\ Round(a, line, r) /\ AllParked(a, Elems(line))
      /\ Accounted(a) /\ Apart(a, Buf) /\ Mailing(a) = Mailing(m)
      /\ InQueue(m) = T \ {t} /\ T \subseteq Thread
      /\ \A v, u : Ahead(m.q, v, u) => Ahead(line, v, u)
  BY <1>3 DEF BlockLine
<1>6. ~Ready(a, t)
  BY <1>3 DEF BlockLine, Asked
<1>b. \A v \in Thread \ {t} : Ready(a, v) => Ready(m, v)
  BY <1>3 DEF BlockLine, Asked
<1>c. \A v \in Thread \ {t} : Ready(m, v) /\ m.on[v] # s => Ready(a, v)
  BY <1>3 DEF BlockLine, Asked
<1>7. ASSUME NEW v \in Elems(line) \ {Main}, Ready(a, v)
      PROVE  v \in Woken(m) /\ Ahead(line, v, Main)
  <2>1. v # t /\ v \in InQueue(m) \ {Main} /\ v \in Thread \ {t}
    BY <1>4, <1>6, <1>7
  <2>2. Ready(m, v)
    BY <1>7, <1>b, <2>1
  <2>3. v \in Woken(m)
    BY <2>1, <2>2 DEF Woken
  <2> QED BY <1>4, <2>3 DEF Before
<1>8. Tcpip \in Elems(line) \ {Main}
  BY <1>4, Threads
<1>9. ~Ready(a, Tcpip)
  BY <1>6, <1>7, <1>8
<1>10. ASSUME NEW v \in Mailing(a) PROVE v \in Elems(line) /\ Ready(a, v)
  <2>1. v \in Woken(m) /\ m.on[v] # s
    BY <1>4, <1>10
  <2>2. v \in InQueue(m) /\ Ready(m, v) /\ v \in Thread \ {t}
    BY <1>4, <2>1 DEF Woken
  <2>3. Ready(a, v)
    BY <1>c, <2>1, <2>2
  <2> QED BY <1>4, <2>2, <2>3
<1>12. Flow(r, "run")
  <2>1. \A v \in Elems(line) \ {Main} : Ready(a, v) => Ahead(line, v, Main)
    BY <1>7
  <2>2. \A v \in Mailing(a) : v \in Elems(line) /\ Ready(a, v)
    BY <1>10
  <2> QED BY <1>4, <1>8, <1>9, <2>1, <2>2, LastGo
<1> QED BY <1>2, <1>12

\* The end of a thread: what the threads of the line are then.
HaltLine(m, t, T, a, r) ==
    /\ Ended(m, t, a) /\ Lined(a, m.q) /\ Round(a, m.q, r) /\ Elems(m.q) = T \ {t}
    /\ InQueue(m) = T \ {t}
    /\ AllParked(a, Elems(m.q)) /\ Accounted(a) /\ Mailing(a) = Mailing(m) \ {t}
    /\ Apart(m, Buf \ {t}) => Apart(a, Buf)
    /\ \A v : Ready(a, v) <=> Ready(m, v)

LEMMA HaltLined ==
  ASSUME NEW m \in Memory, NEW T, Sched(m, T), NEW t \in Buf, m.cur = t,
         AllParked(m, InQueue(m)), Accounted(m)
  PROVE  \E a : HaltLine(m, t, T, a, PutBuffer(m, t))
<1>1. /\ InQueue(m) = T \ {t} /\ Elems(m.q) = T \ {t}
      /\ \E a \in Memory : Ended(m, t, a) /\ Lined(a, m.q) /\ Round(a, m.q, PutBuffer(m, t))
  BY HaltIs
<1>2. PICK a \in Memory : Ended(m, t, a) /\ Lined(a, m.q) /\ Round(a, m.q, PutBuffer(m, t))
  BY <1>1
<1>3. /\ a.req = [m.req EXCEPT ![t] = NoReq] /\ a.box = m.box /\ a.sem = m.sem
      /\ a.on = m.on /\ a.wake = m.wake
  BY <1>2 DEF Ended
<1>4. NoReq.pc = "none" /\ t \in Thread /\ t # Main /\ t # Tcpip
  BY Threads DEF NoReq
<1>5. a.req[t].pc = "none" /\ \A v \in Thread \ {t} : a.req[v] = m.req[v]
  BY <1>3, <1>4 DEF Memory
<1>6. AllParked(a, Elems(m.q))
  <2>1. ASSUME NEW v \in Elems(m.q) \ {Main} PROVE Parked(a, v)
    <3>1. v \in Thread \ {t}
      <4>1. m.q \in Seq(Thread)
        BY DEF Memory
      <4>2. v \in Thread
        BY <2>1, <4>1 DEF Elems
      <4> QED BY <1>1, <2>1, <4>2
    <3>2. Needs(m, v, m.on[v]) /\ a.req[v] = m.req[v] /\ a.on[v] = m.on[v]
      BY <1>1, <1>3, <1>5, <2>1, <3>1 DEF AllParked, Parked
    <3> QED BY <3>2 DEF Parked, Needs
  <2>2. \A v \in Thread \ Elems(m.q) : a.on[v] = NoSem
    BY <1>1, <1>3 DEF AllParked
  <2> QED BY <2>1, <2>2 DEF AllParked
<1>7. Mailing(a) = Mailing(m) \ {t}
  BY <1>5, Threads DEF Mailing
<1>8. Accounted(a)
  <2>1. ASSUME NEW v \in Mailing(a)
        PROVE \/ \E k \in Slots : a.box[Stack].msg[k] = v
              \/ Outgoing(a, a.req[v].whom)
              \/ a.sem[Done(a.req[v].whom)].counter > 0
    <3>1. v \in Mailing(m) /\ a.req[v] = m.req[v] /\ a.req[Tcpip] = m.req[Tcpip]
      BY <1>4, <1>5, <1>7, <2>1, Threads DEF Mailing
    <3> QED BY <1>3, <3>1 DEF Accounted, Outgoing
  <2> QED BY <2>1 DEF Accounted
<1>9. Apart(m, Buf \ {t}) => Apart(a, Buf)
  BY <1>5, Threads DEF Apart
<1>10. \A v : Ready(a, v) <=> Ready(m, v)
  BY <1>3 DEF Ready
<1>11. PICK r : r = PutBuffer(m, t)
  OBVIOUS
<1>12. HaltLine(m, t, T, a, r)
  BY <1>1, <1>2, <1>6, <1>7, <1>8, <1>9, <1>10, <1>11 DEF HaltLine
<1> QED BY <1>11, <1>12

\* The thread of a message's request ends: serve() runs.
LEMMA HaltFirst ==
  ASSUME NEW m \in Memory, NEW T, Sched(m, T), Tcpip \in T, NEW t \in Buf, m.cur = t,
         AllParked(m, InQueue(m)), Accounted(m), Apart(m, Buf \ {t}),
         m.q # <<>>, m.q[1] = Main, m.yields = 0, m.req[Main].pc = "serve",
         \A v \in Woken(m) : m.wake[v], Tcpip \notin Woken(m), Mailing(m) \subseteq {t}
  PROVE  Flow(PutBuffer(m, t), "run")
<1>1. t \in Thread \ {Main} /\ t # Tcpip
  BY Threads
<1>2. PICK r : r = PutBuffer(m, t)
  OBVIOUS
<1>3. PICK a : HaltLine(m, t, T, a, r)
  BY <1>2, HaltLined
<1>4. /\ Lined(a, m.q) /\ Elems(m.q) = T \ {t} /\ Round(a, m.q, r) /\ AllParked(a, Elems(m.q))
      /\ Accounted(a) /\ Apart(a, Buf) /\ Mailing(a) = {} /\ InQueue(m) = T \ {t}
      /\ \A v : Ready(a, v) <=> Ready(m, v)
  BY <1>3 DEF HaltLine
<1>5. a.yields = 0 /\ a.wake = m.wake /\ a.req[Main].pc = "serve"
  <2>1. /\ a.yields = m.yields /\ a.wake = m.wake /\ a.req = [m.req EXCEPT ![t] = NoReq]
    BY <1>3 DEF HaltLine, Ended
  <2> QED BY <1>1, <2>1, Threads DEF Memory
<1>6. \A v \in Elems(m.q) \ {Main} : Ready(a, v) => v \in Woken(m)
  BY <1>4 DEF Woken
<1>7. Tcpip \in Elems(m.q) \ {Main}
  BY <1>1, <1>4, Threads
<1>8. ~Ready(a, Tcpip)
  BY <1>6, <1>7
<1>9. \A v \in Elems(m.q) \ {Main} : Ready(a, v) => a.wake[v]
  BY <1>5, <1>6
<1>12. Flow(r, "run")
  BY <1>4, <1>5, <1>7, <1>8, <1>9, MainGo
<1> QED BY <1>2, <1>12

\* The thread of a request that was woken ends: the next of them runs, or serve().
LEMMA HaltLast ==
  ASSUME NEW m \in Memory, NEW T, Sched(m, T), Tcpip \in T, NEW t \in Buf, m.cur = t,
         AllParked(m, InQueue(m)), Accounted(m), Apart(m, Buf),
         \A v \in Woken(m) : Before(m.q, v), Tcpip \notin Woken(m),
         Mailing(m) \ {t} \subseteq Woken(m)
  PROVE  Flow(PutBuffer(m, t), "run")
<1>1. t \in Thread \ {Main} /\ t # Tcpip
  BY Threads
<1>2. PICK r : r = PutBuffer(m, t)
  OBVIOUS
<1>3. PICK a : HaltLine(m, t, T, a, r)
  BY <1>2, HaltLined
<1>4. /\ Lined(a, m.q) /\ Elems(m.q) = T \ {t} /\ Round(a, m.q, r) /\ AllParked(a, Elems(m.q))
      /\ Accounted(a) /\ Mailing(a) = Mailing(m) \ {t} /\ InQueue(m) = T \ {t}
      /\ \A v : Ready(a, v) <=> Ready(m, v)
  BY <1>3 DEF HaltLine
<1>5. Apart(a, Buf)
  <2>1. Apart(m, Buf \ {t})
    BY DEF Apart
  <2> QED BY <1>3, <2>1 DEF HaltLine
<1>6. \A v \in Elems(m.q) \ {Main} : Ready(a, v) => v \in Woken(m)
  BY <1>4 DEF Woken
<1>7. Tcpip \in Elems(m.q) \ {Main}
  BY <1>1, <1>4, Threads
<1>8. ~Ready(a, Tcpip)
  BY <1>6, <1>7
<1>9. \A v \in Elems(m.q) \ {Main} : Ready(a, v) => Ahead(m.q, v, Main)
  BY <1>6 DEF Before
<1>10. \A v \in Mailing(a) : v \in Elems(m.q) /\ Ready(a, v)
  BY <1>4 DEF Woken
<1>12. Flow(r, "run")
  BY <1>4, <1>5, <1>7, <1>8, <1>9, <1>10, LastGo
<1> QED BY <1>2, <1>12
-----------------------------------------------------------------------------
\* A free slot is taken and a message put there.
Puts(a, t, c, msg, b, x, s, z) ==
    /\ b = MboxPut(SemTake(a, Free(c)), c, msg) /\ x = [a.box EXCEPT ![c] = With(a.box[c], msg)]
    /\ s = Free(c) /\ z = Queued(c) /\ s \in Sems(Boxes) /\ z \in Sems(Boxes)
    /\ Did(a, b, t, a.req[t], x, s, z)

LEMMA PutIs ==
  ASSUME NEW a \in Memory, NEW T, Sched(a, T), Counted(a), NEW c \in Boxes, NEW msg \in Int,
         SemHas(a, Free(c)), NEW t \in Thread
  PROVE  \E b, x, s, z : Puts(a, t, c, msg, b, x, s, z)
<1>1. PICK s, z : s = Free(c) /\ z = Queued(c)
  OBVIOUS
<1>2. s \in Sems(Boxes) /\ z \in Sems(Boxes) /\ SemHas(a, s)
  BY <1>1, SemsAre
<1>3. PICK b : b = SemTake(a, s)
  OBVIOUS
<1>4. Did(a, b, t, a.req[t], a.box, s, NoSem)
  BY <1>2, <1>3, TakeDid
<1>5. b \in Memory /\ b.box = a.box /\ Sched(b, T)
  <2>1. b \in Memory /\ b.box = a.box
    BY <1>4 DEF Did
  <2>2. Sched(b, T)
    BY <1>4, DidSched
  <2> QED BY <2>1, <2>2
<1>6. b.req[t] = a.req[t]
  <2>1. b.req = [a.req EXCEPT ![t] = a.req[t]]
    BY <1>4 DEF Did
  <2> QED BY <2>1 DEF Memory
<1>7. Count(b.box[c]) < MBOXSLOTS
  <2>1. a.sem[s].counter \in Nat /\ a.sem[z].counter \in Nat
    BY <1>2 DEF Memory, SemType
  <2>2. Count(a.box[c]) + a.sem[s].counter = MBOXSLOTS /\ Count(a.box[c]) = a.sem[z].counter
    BY <1>1 DEF Counted
  <2> QED BY <1>2, <1>5, <2>1, <2>2, Sizes DEF SemHas
<1>8. PICK d : d = MboxPut(b, c, msg)
  OBVIOUS
<1>9. PICK x : x = [a.box EXCEPT ![c] = With(a.box[c], msg)]
  OBVIOUS
<1>10. Did(b, d, t, a.req[t], x, NoSem, z)
  <2>1. Did(b, MboxPut(b, c, msg), t, b.req[t], [b.box EXCEPT ![c] = With(b.box[c], msg)],
            NoSem, Queued(c))
    BY <1>5, <1>7, PutDid
  <2> QED BY <1>1, <1>5, <1>6, <1>8, <1>9, <2>1
<1>11. Either(s, NoSem, s) /\ Either(NoSem, z, z)
  BY DEF Either
<1>12. Did(a, d, t, a.req[t], x, s, z)
  BY <1>4, <1>10, <1>11, DidThen
<1>13. Puts(a, t, c, msg, d, x, s, z)
  BY <1>1, <1>2, <1>3, <1>8, <1>9, <1>12 DEF Puts
<1> QED BY <1>13

\* A message is taken, and its slot is free again.
Gets(a, t, c, b, x, s, z) ==
    /\ b = MboxGet(SemTake(a, Queued(c)), c) /\ x = [a.box EXCEPT ![c] = Without(a.box[c])]
    /\ s = Queued(c) /\ z = Free(c) /\ s \in Sems(Boxes) /\ z \in Sems(Boxes)
    /\ Did(a, b, t, a.req[t], x, s, z)

LEMMA GetIs ==
  ASSUME NEW a \in Memory, NEW T, Sched(a, T), Counted(a), NEW c \in Boxes,
         SemHas(a, Queued(c)), NEW t \in Thread
  PROVE  \E b, x, s, z : Gets(a, t, c, b, x, s, z)
<1>1. PICK s, z : s = Queued(c) /\ z = Free(c)
  OBVIOUS
<1>2. s \in Sems(Boxes) /\ z \in Sems(Boxes) /\ SemHas(a, s)
  BY <1>1, SemsAre
<1>3. PICK b : b = SemTake(a, s)
  OBVIOUS
<1>4. Did(a, b, t, a.req[t], a.box, s, NoSem)
  BY <1>2, <1>3, TakeDid
<1>5. b \in Memory /\ b.box = a.box /\ Sched(b, T)
  <2>1. b \in Memory /\ b.box = a.box
    BY <1>4 DEF Did
  <2>2. Sched(b, T)
    BY <1>4, DidSched
  <2> QED BY <2>1, <2>2
<1>6. b.req[t] = a.req[t]
  <2>1. b.req = [a.req EXCEPT ![t] = a.req[t]]
    BY <1>4 DEF Did
  <2> QED BY <2>1 DEF Memory
<1>7. Count(b.box[c]) > 0
  BY <1>1, <1>2, <1>5 DEF Counted, SemHas
<1>8. PICK d : d = MboxGet(b, c)
  OBVIOUS
<1>9. PICK x : x = [a.box EXCEPT ![c] = Without(a.box[c])]
  OBVIOUS
<1>10. Did(b, d, t, a.req[t], x, NoSem, z)
  <2>1. Did(b, MboxGet(b, c), t, b.req[t], [b.box EXCEPT ![c] = Without(b.box[c])],
            NoSem, Free(c))
    BY <1>5, <1>7, GetDid
  <2> QED BY <1>1, <1>5, <1>6, <1>8, <1>9, <2>1
<1>11. Either(s, NoSem, s) /\ Either(NoSem, z, z)
  BY DEF Either
<1>12. Did(a, d, t, a.req[t], x, s, z)
  BY <1>4, <1>10, <1>11, DidThen
<1>13. Gets(a, t, c, d, x, s, z)
  BY <1>1, <1>2, <1>3, <1>8, <1>9, <1>12 DEF Gets
<1> QED BY <1>13

\* A step and then another point for the running thread.
Went(a, b, t, r, x, d, u, pc) ==
    \E q \in ReqType : /\ Did(a, Goto(b, pc), t, q, x, d, u)
                       /\ q.pc = pc /\ q.whom = r.whom /\ q.pkt = r.pkt /\ q.page = r.page

LEMMA GotoThen ==
  ASSUME NEW a \in Memory, NEW t \in Thread, a.cur = t, NEW b, NEW r, NEW x, NEW d, NEW u,
         Did(a, b, t, r, x, d, u), NEW pc \in Pcs
  PROVE  Went(a, b, t, r, x, d, u, pc)
<1>1. b \in Memory /\ b.cur = t /\ b.req[t] = r /\ b.box = x
  BY DEF Did, Wakes, Memory
<1>2. PICK q \in ReqType : /\ Did(b, Goto(b, pc), t, q, b.box, NoSem, NoSem)
                           /\ q.pc = pc /\ q.whom = b.req[t].whom
                           /\ q.pkt = b.req[t].pkt /\ q.page = b.req[t].page
  BY <1>1, GotoDid
<1>3. Either(d, NoSem, d) /\ Either(u, NoSem, u)
  BY DEF Either
<1>4. PICK c : c = Goto(b, pc)
  OBVIOUS
<1>5. Did(b, c, t, q, x, NoSem, NoSem)
  BY <1>1, <1>2, <1>4
<1>6. Did(a, c, t, q, x, d, u)
  BY <1>3, <1>5, DidThen
<1> QED BY <1>1, <1>2, <1>4, <1>6 DEF Went

\* A step and then another packet for the running thread.
Holds(a, b, t, r, x, d, u, p) ==
    \E q \in ReqType : /\ Did(a, SetPkt(b, t, p), t, q, x, d, u)
                       /\ q.pc = r.pc /\ q.whom = r.whom /\ q.pkt = p /\ q.page = r.page

LEMMA PktThen ==
  ASSUME NEW a \in Memory, NEW t \in Thread, a.cur = t, NEW b, NEW r, NEW x, NEW d, NEW u,
         Did(a, b, t, r, x, d, u), NEW p \in Int
  PROVE  Holds(a, b, t, r, x, d, u, p)
<1>1. b \in Memory /\ b.cur = t /\ b.req[t] = r /\ b.box = x
  BY DEF Did, Wakes, Memory
<1>2. PICK q \in ReqType : /\ Did(b, SetPkt(b, t, p), t, q, b.box, NoSem, NoSem)
                           /\ q.pc = b.req[t].pc /\ q.whom = b.req[t].whom
                           /\ q.pkt = p /\ q.page = b.req[t].page
  BY <1>1, PktDid
<1>3. Either(d, NoSem, d) /\ Either(u, NoSem, u)
  BY DEF Either
<1>4. PICK c : c = SetPkt(b, t, p)
  OBVIOUS
<1>5. Did(b, c, t, q, x, NoSem, NoSem)
  BY <1>1, <1>2, <1>4
<1>6. Did(a, c, t, q, x, d, u)
  BY <1>3, <1>5, DidThen
<1> QED BY <1>1, <1>2, <1>4, <1>6 DEF Holds

\* The states in which the thread of a request runs, and those in which lwIP's does.
LEMMA BufRuns ==
  ASSUME NEW m, NEW cl, NEW pg, NEW inp, NEW lk, Good(m, "run", cl, pg, inp, lk),
         Flow(m, "run"), NEW t \in Buf, m.cur = t
  PROVE  /\ m \in Memory /\ Sched(m, Line0(m)) /\ Tcpip \in Line0(m)
         /\ Tcpip \in InQueue(m) \ {Main} /\ t \in Thread \ {Main} /\ t # Tcpip
         /\ InQueue(m) = Line0(m) \ {t} /\ Woken(m) \subseteq InQueue(m) \ {Main}
         /\ AllParked(m, InQueue(m)) /\ Accounted(m) /\ Counted(m) /\ Letters(m) /\ Handed(m)
         /\ FirstRound(m) \/ LastRound(m)
         /\ FirstRound(m) => /\ m.q # <<>> /\ m.q[1] = Main /\ m.yields = 0 /\ m.req[Main].pc = "serve"
                             /\ \A v \in Woken(m) : m.wake[v]
                             /\ Apart(m, Buf \ {t}) /\ Mailing(m) \subseteq {t}
         /\ LastRound(m) => /\ \A v \in Woken(m) : Before(m.q, v)
                            /\ Apart(m, Buf) /\ Tcpip \notin Woken(m)
                            /\ Mailing(m) \ {t} \subseteq Woken(m)
                            /\ m.req[t].pc \in {"sending", "recv", "deliver", "reply"}
<1>1. /\ m \in Memory /\ Sched(m, Line0(m)) /\ Tcpip \in Line0(m) /\ t \in Thread \ {Main}
      /\ t # Tcpip /\ t # Main /\ Tcpip # Main
  BY Threads DEF Good, Line0
<1>2. InQueue(m) = Line0(m) \ {t}
  BY <1>1 DEF Sched, Line, InQueue
<1>3. AllParked(m, InQueue(m)) /\ Accounted(m) /\ Counted(m) /\ Letters(m) /\ Handed(m)
  BY DEF Flow, Good
<1>4. FirstRound(m) \/ LastRound(m)
  BY <1>1 DEF Flow, Turn
<1>5. FirstRound(m) => /\ m.q # <<>> /\ m.q[1] = Main /\ m.yields = 0 /\ m.req[Main].pc = "serve"
                       /\ \A v \in Woken(m) : m.wake[v]
                       /\ Apart(m, Buf \ {t}) /\ Mailing(m) \subseteq {t}
  BY DEF FirstRound
<1>6. LastRound(m) => /\ \A v \in Woken(m) : Before(m.q, v)
                      /\ Apart(m, Buf) /\ Tcpip \notin Woken(m)
                      /\ Mailing(m) \ {t} \subseteq Woken(m)
                      /\ m.req[t].pc \in {"sending", "recv", "deliver", "reply"}
  BY <1>1 DEF LastRound
<1> QED BY <1>1, <1>2, <1>3, <1>4, <1>5, <1>6 DEF Woken

\* netconn_send of a new request: lwIP waits, so it has taken every message.
LEMMA SendFlow ==
  ASSUME NEW a, NEW cl, NEW pg, NEW inp, NEW lk, Good(a, "run", cl, pg, inp, lk),
         Flow(a, "run"), NEW t \in Buf, a.cur = t, a.req[t].pc = "send"
  PROVE  /\ SemHas(a, Free(Stack))
         /\ Flow(Goto(MboxPut(SemTake(a, Free(Stack)), Stack, t), "sending"), "run")
<1>1. /\ a \in Memory /\ Sched(a, Line0(a)) /\ Tcpip \in InQueue(a) \ {Main} /\ t \in Thread \ {Main}
      /\ AllParked(a, InQueue(a)) /\ Accounted(a) /\ Counted(a) /\ FirstRound(a) /\ t # Tcpip
      /\ a.q # <<>> /\ a.q[1] = Main /\ a.yields = 0 /\ a.req[Main].pc = "serve"
      /\ Apart(a, Buf \ {t}) /\ Mailing(a) \subseteq {t}
  BY BufRuns
<1>2. Woken(a) = {} /\ Mailing(a) = {}
  BY <1>1 DEF FirstRound, Mailing
<1>3. Stack \in Boxes /\ t \in Int /\ t \in Thread
  BY Threads
<1>e. PICK d, u : d = Free(Stack) /\ u = Queued(Stack) /\ d \in Sems(Boxes) /\ u \in Sems(Boxes)
  BY <1>3, SemsAre
<1>f. \A v \in InQueue(a) \ {Main} : /\ a.on[v] = u => v = Tcpip
                                     /\ v = Tcpip => a.on[v] = u
                                     /\ a.sem[a.on[v]].counter > 0 => Ready(a, v)
  <2>1. \A v \in InQueue(a) \ {Main} : a.on[v] = Queued(Stack) => v = Tcpip
    BY <1>1, WaitsOn
  <2>2. \A v \in InQueue(a) \ {Main} : v = Tcpip => a.on[v] = Queued(Stack)
    BY <1>1, WaitsOn
  <2>3. \A v \in InQueue(a) \ {Main} : a.sem[a.on[v]].counter > 0 => Ready(a, v)
    BY <1>1, WaitsOn
  <2> QED BY <1>e, <2>1, <2>2, <2>3
<1>4. SemHas(a, Free(Stack))
  <2>1. ~Ready(a, Tcpip)
    BY <1>1, <1>2 DEF Woken
  <2>2. ~(a.sem[u].counter > 0)
    BY <1>1, <1>f, <2>1
  <2>3. a.sem[u].counter \in Nat /\ a.sem[d].counter \in Nat
    BY <1>1, <1>e DEF Memory, SemType
  <2>4. /\ Count(a.box[Stack]) = a.sem[u].counter
        /\ Count(a.box[Stack]) + a.sem[d].counter = MBOXSLOTS
    BY <1>1, <1>3, <1>e DEF Counted
  <2> QED BY <1>e, <2>2, <2>3, <2>4, Sizes DEF SemHas
<1>5. PICK b0, x, s, z : Puts(a, t, Stack, t, b0, x, s, z)
  BY <1>1, <1>3, <1>4, PutIs
<1>6. /\ b0 = MboxPut(SemTake(a, Free(Stack)), Stack, t)
      /\ x = [a.box EXCEPT ![Stack] = With(a.box[Stack], t)] /\ Did(a, b0, t, a.req[t], x, d, u)
  BY <1>5, <1>e DEF Puts
<1>8. PICK b : b = Goto(b0, "sending")
  OBVIOUS
<1>9. PICK r \in ReqType : Did(a, b, t, r, x, d, u) /\ r.pc = "sending"
  <2>1. "sending" \in Pcs
    BY DEF Pcs
  <2>2. PICK rr : rr = a.req[t]
    OBVIOUS
  <2>3. Did(a, b0, t, rr, x, d, u)
    BY <1>6, <2>2
  <2>4. Went(a, b0, t, rr, x, d, u, "sending")
    BY <1>1, <1>3, <2>1, <2>3, GotoThen
  <2> QED BY <1>8, <2>4 DEF Went
<1>10. Stays(a, b, t, r, x, d, u)
  BY <1>1, <1>9, StayIs
<1>a. /\ b \in Memory /\ b.cur = t /\ b.q = a.q /\ b.yields = a.yields
      /\ b.on = a.on /\ b.box = x /\ b.req[t] = r
      /\ InQueue(b) = InQueue(a) /\ t \notin InQueue(a) /\ InQueue(a) \subseteq Thread
      /\ AllParked(b, InQueue(b))
  BY <1>10 DEF Stays
<1>b. \A v \in Thread \ {t} : b.req[v] = a.req[v]
  BY <1>10 DEF Stays
<1>c. \A v \in Woken(b) : v \in Woken(a) \/ (v \in InQueue(a) \ {Main} /\ a.on[v] = u)
  BY <1>10 DEF Stays
<1>d. \A v \in InQueue(a) \ {Main} : a.on[v] = u => v \in Woken(b) /\ (v \notin Woken(a) => b.wake[v])
  BY <1>10 DEF Stays
<1>11. Woken(b) = {Tcpip} /\ b.wake[Tcpip]
  BY <1>1, <1>2, <1>c, <1>d, <1>f
<1>12. Mailing(b) = {t}
  BY <1>2, <1>9, <1>a, <1>b, Threads DEF Mailing
<1>13. \E k \in Slots : b.box[Stack].msg[k] = t
  <2>1. PICK y : y = a.box[Stack] /\ y \in BoxType
    BY <1>1, <1>3 DEF Memory
  <2>2. b.box[Stack] = With(y, t)
    BY <1>1, <1>3, <1>6, <1>a, <2>1 DEF Memory
  <2>3. With(y, t).msg[y.nextq] = t /\ y.nextq \in Slots
    BY <2>1 DEF With, BoxType
  <2> QED BY <2>2, <2>3
<1>14. Accounted(b)
  BY <1>12, <1>13 DEF Accounted
<1>15. Apart(b, Buf \ {t})
  <2>1. \A v \in Buf \ {t} : b.req[v] = a.req[v]
    BY <1>b, Threads
  <2> QED BY <1>1, <2>1 DEF Apart
<1>16. FirstRound(b)
  <2>1. b.req[Main] = a.req[Main]
    BY <1>1, <1>b, Threads
  <2> QED BY <1>1, <1>9, <1>a, <1>11, <1>12, <1>13, <1>15, <2>1 DEF FirstRound
<1>17. Flow(b, "run")
  BY <1>a, <1>14, <1>16 DEF Flow
<1> QED BY <1>4, <1>6, <1>8, <1>17

\* In the round of a message its thread goes on, and serve() is still the next.
LEMMA GoFirst ==
  ASSUME NEW a, NEW cl, NEW pg, NEW inp, NEW lk, Good(a, "run", cl, pg, inp, lk),
         Flow(a, "run"), NEW t \in Buf, a.cur = t, FirstRound(a),
         NEW b, NEW r, NEW x, NEW d, NEW u, Did(a, b, t, r, x, d, u), r.pc \in {"reply", "deliver"},
         u # Queued(Stack), Tcpip \notin Woken(a), r.pc = "deliver" => Woken(a) = {} /\ u = NoSem
  PROVE  Flow(b, "run")
<1>1. /\ a \in Memory /\ Sched(a, Line0(a)) /\ Tcpip \in InQueue(a) \ {Main} /\ t \in Thread \ {Main}
      /\ AllParked(a, InQueue(a)) /\ Accounted(a) /\ t # Tcpip
      /\ a.q # <<>> /\ a.q[1] = Main /\ a.yields = 0 /\ a.req[Main].pc = "serve"
      /\ \A v \in Woken(a) : a.wake[v]
      /\ Apart(a, Buf \ {t}) /\ Mailing(a) \subseteq {t}
  BY BufRuns
<1>2. Stays(a, b, t, r, x, d, u)
  BY <1>1, StayIs
<1>3. /\ b \in Memory /\ b.cur = t /\ b.q = a.q /\ b.yields = a.yields
      /\ b.on = a.on /\ b.box = x /\ b.req[t] = r
      /\ InQueue(b) = InQueue(a) /\ AllParked(b, InQueue(b))
  BY <1>2 DEF Stays
<1>4. \A v \in Thread \ {t} : b.req[v] = a.req[v]
  BY <1>2 DEF Stays
<1>5. \A v \in Woken(b) : v \in Woken(a) \/ (v \in InQueue(a) \ {Main} /\ a.on[v] = u)
  BY <1>2 DEF Stays
<1>6. \A v \in InQueue(a) \ {Main} : a.on[v] = u => v \in Woken(b) /\ (v \notin Woken(a) => b.wake[v])
  BY <1>2 DEF Stays
<1>7. \A v \in Woken(a) : a.wake[v] => b.wake[v]
  BY <1>2 DEF Stays
<1>8. \A v \in Woken(b) : b.wake[v]
  BY <1>1, <1>5, <1>6, <1>7
<1>9. Mailing(b) = {}
  BY <1>1, <1>3, <1>4, Threads DEF Mailing
<1>10. Apart(b, Buf \ {t})
  <2>1. \A v \in Buf \ {t} : b.req[v] = a.req[v]
    BY <1>4, Threads
  <2> QED BY <1>1, <2>1 DEF Apart
<1>11. Tcpip \notin Woken(b)
  <2>1. a.on[Tcpip] = Queued(Stack)
    BY <1>1, WaitsOn
  <2> QED BY <1>5, <2>1
<1>12. r.pc = "deliver" => Woken(b) = {}
  <2>1. \A v \in InQueue(a) \ {Main} : a.on[v] # NoSem
    BY <1>1, WaitsOn
  <2> QED BY <1>5, <2>1
<1>13. FirstRound(b)
  <2>1. b.req[Main] = a.req[Main]
    BY <1>1, <1>4, Threads
  <2> QED BY <1>1, <1>3, <1>8, <1>9, <1>10, <1>11, <1>12, <2>1 DEF FirstRound
<1>14. Accounted(b)
  BY <1>9 DEF Accounted
<1> QED BY <1>3, <1>13, <1>14 DEF Flow

\* A thread that was woken goes on to its reply, or posts its packet, and makes nobody ready.
LEMMA GoLast ==
  ASSUME NEW a, NEW cl, NEW pg, NEW inp, NEW lk, Good(a, "run", cl, pg, inp, lk),
         Flow(a, "run"), NEW t \in Buf, a.cur = t, LastRound(a),
         NEW b, NEW r, NEW x, NEW d, NEW u, Did(a, b, t, r, x, d, u),
         r.pc = "reply" \/ (r.pc = "deliver" /\ r = a.req[t]), x[Stack] = a.box[Stack],
         \A v \in InQueue(a) \ {Main} : a.on[v] # u,
         \A v \in Mailing(a) \ {t} : a.on[v] # d
  PROVE  Flow(b, "run") /\ LastRound(b)
<1>1. /\ a \in Memory /\ Sched(a, Line0(a)) /\ Tcpip \in InQueue(a) \ {Main} /\ t \in Thread \ {Main}
      /\ AllParked(a, InQueue(a)) /\ Accounted(a) /\ t # Tcpip
      /\ \A v \in Woken(a) : Before(a.q, v)
      /\ Apart(a, Buf) /\ Tcpip \notin Woken(a) /\ Mailing(a) \ {t} \subseteq Woken(a)
  BY BufRuns
<1>2. Stays(a, b, t, r, x, d, u)
  BY <1>1, StayIs
<1>3. /\ b \in Memory /\ b.cur = t /\ b.q = a.q
      /\ b.on = a.on /\ b.box = x /\ b.req[t] = r
      /\ InQueue(b) = InQueue(a) /\ AllParked(b, InQueue(b))
  BY <1>2 DEF Stays
<1>4. \A v \in Thread \ {t} : b.req[v] = a.req[v]
  BY <1>2 DEF Stays
<1>5. \A v \in Woken(b) : v \in Woken(a) \/ (v \in InQueue(a) \ {Main} /\ a.on[v] = u)
  BY <1>2 DEF Stays
<1>6. \A v \in Woken(a) : a.on[v] # d => v \in Woken(b)
  BY <1>2 DEF Stays
<1>7. \A s \in Sems(Boxes) : b.sem[s].counter =
          a.sem[s].counter + (IF s = u THEN 1 ELSE 0) - (IF s = d THEN 1 ELSE 0)
  BY <1>2 DEF Stays
<1>8. Woken(b) \subseteq Woken(a)
  BY <1>5
<1>9. Mailing(b) = Mailing(a) \ {t}
  BY <1>1, <1>3, <1>4, Threads DEF Mailing
<1>10. Mailing(b) \subseteq Woken(b)
  BY <1>1, <1>6, <1>9
<1>11. Apart(b, Buf)
  <2>1. \A v \in Buf : b.req[v].pc \in {"recv", "deliver"} => b.req[v] = a.req[v]
    BY <1>3, <1>4, Threads
  <2> QED BY <1>1, <2>1 DEF Apart
<1>12. Accounted(b)
  <2> SUFFICES ASSUME NEW v \in Mailing(b)
               PROVE \/ \E k \in Slots : b.box[Stack].msg[k] = v
                     \/ Outgoing(b, b.req[v].whom)
                     \/ b.sem[Done(b.req[v].whom)].counter > 0
    BY DEF Accounted
  <2>1. /\ v \in Mailing(a) \ {t} /\ v \in Buf /\ a.req[v].pc = "sending"
        /\ b.req[v] = a.req[v] /\ b.req[Tcpip] = a.req[Tcpip]
    BY <1>1, <1>4, <1>9, Threads DEF Mailing
  <2>2. PICK s : s = Done(a.req[v].whom)
    OBVIOUS
  <2>3. v \in InQueue(a) \ {Main}
    BY <1>1, <2>1 DEF Woken
  <2>4. a.on[v] = s /\ s \in Sems(Boxes) /\ s # d /\ s # u
    <3>1. a.on[v] = Done(a.req[v].whom) /\ a.on[v] \in Sems(Boxes)
      BY <1>1, <2>1, <2>3, WaitsOn
    <3> QED BY <2>1, <2>2, <2>3, <3>1
  <2>5. b.sem[s].counter = a.sem[s].counter
    <3>1. a.sem[s].counter \in Nat
      BY <1>1, <2>4 DEF Memory, SemType
    <3> QED BY <1>7, <2>4, <3>1
  <2>6. \/ \E k \in Slots : a.box[Stack].msg[k] = v
        \/ Outgoing(a, a.req[v].whom)
        \/ a.sem[s].counter > 0
    BY <1>1, <2>1, <2>2 DEF Accounted
  <2> QED BY <1>3, <2>1, <2>2, <2>5, <2>6 DEF Outgoing
<1>13. LastRound(b)
  BY <1>1, <1>3, <1>8, <1>9, <1>10, <1>11 DEF LastRound
<1> QED BY <1>3, <1>12, <1>13 DEF Flow
-----------------------------------------------------------------------------
\* A request still in lwIP's mailbox makes lwIP's thread ready.
LEMMA KeptWakes ==
  ASSUME NEW a, NEW cl, NEW pg, NEW inp, NEW lk, Good(a, "run", cl, pg, inp, lk),
         Flow(a, "run"), Tcpip \in InQueue(a) \ {Main}, NEW k \in Slots, a.box[Stack].msg[k] # 0
  PROVE  Tcpip \in Woken(a)
<1>1. a \in Memory /\ Letters(a) /\ Counted(a) /\ AllParked(a, InQueue(a)) /\ Stack \in Boxes
  BY Threads DEF Good, Flow
<1>2. PICK y : y = a.box[Stack] /\ y \in BoxType
  BY <1>1 DEF Memory
<1>3. Kept(y, k)
  BY <1>1, <1>2 DEF Letters
<1>4. Count(y) > 0
  <2>1. y.head \in Slots \cup {-1} /\ y.nextq \in Slots
    BY <1>2 DEF BoxType
  <2>2. k >= 0 /\ y.head # -1 /\ k \in Int
    BY <1>3 DEF Kept, Slots
  <2> QED BY <1>3, <2>1, <2>2, Sizes DEF Kept, Slots, Count
<1>5. PICK z : z = Queued(Stack)
  OBVIOUS
<1>6. a.sem[z].counter > 0
  BY <1>1, <1>2, <1>4, <1>5 DEF Counted
<1>7. a.on[Tcpip] = z
  BY <1>1, <1>5, WaitsOn
<1>8. a.sem[a.on[Tcpip]].counter > 0 => Ready(a, Tcpip)
  BY <1>1, WaitsOn
<1> QED BY <1>6, <1>7, <1>8 DEF Woken

\* The end of netconn_send.
LEMMA SendingFlow ==
  ASSUME NEW a, NEW cl, NEW pg, NEW inp, NEW lk, Good(a, "run", cl, pg, inp, lk),
         Flow(a, "run"), NEW t \in Buf, a.cur = t, a.req[t].pc = "sending",
         NEW w, w = a.req[t].whom
  PROVE  /\ SemHas(a, Done(w)) =>
               Flow(SetPkt(Goto(SemTake(a, Done(w)), "reply"), t, NoPacket), "run")
         /\ ~SemHas(a, Done(w)) => Flow(SemBlock(a, Done(w)), "run")
<1>1. /\ a \in Memory /\ Sched(a, Line0(a)) /\ Tcpip \in InQueue(a) \ {Main} /\ t \in Thread \ {Main}
      /\ AllParked(a, InQueue(a)) /\ Accounted(a) /\ Letters(a) /\ Handed(a)
      /\ (FirstRound(a) \/ LastRound(a)) /\ Tcpip \in Line0(a)
  BY BufRuns
<1>2. w \in Client /\ w \in Boxes /\ t \in Mailing(a) /\ t \in Thread
  BY Threads DEF Good, Asking, Asks, Mailing
<1>3. PICK s : s = Done(w) /\ s \in Sems(Boxes)
  BY <1>2, SemsAre
<1>4. Needs(a, t, s)
  BY <1>3 DEF Needs
<1>5. CASE FirstRound(a)
  <2>1. /\ a.q # <<>> /\ a.q[1] = Main /\ a.yields = 0 /\ a.req[Main].pc = "serve"
        /\ \A v \in Woken(a) : a.wake[v]
        /\ Apart(a, Buf \ {t}) /\ Mailing(a) \subseteq {t}
    BY <1>5, BufRuns
  <2>2. Woken(a) = {Tcpip} /\ \E k \in Slots : a.box[Stack].msg[k] = t
    BY <1>5 DEF FirstRound
  <2>3. Letter(a, w)
    BY <2>2, Threads DEF Letter
  <2>4. ~SemHas(a, s)
    BY <1>1, <1>2, <1>3, <2>3 DEF Handed, SemHas
  <2>5. Apart(a, Buf)
    BY <2>1 DEF Apart
  <2>6. Flow(SemBlock(a, s), "run")
    BY <1>1, <1>3, <1>4, <2>1, <2>2, <2>4, <2>5, BlockFirst
  <2> QED BY <1>3, <2>4, <2>6
<1>6. CASE LastRound(a)
  <2>1. Tcpip \notin Woken(a) /\ Mailing(a) \ {t} \subseteq Woken(a)
    BY <1>6, BufRuns
  <2>2. SemHas(a, s)
    <3>1. ~ \E k \in Slots : a.box[Stack].msg[k] = t
      BY <1>1, <2>1, KeptWakes, Threads
    <3>2. ~Outgoing(a, w)
      <4>1. a.req[Tcpip].pc = "fetch"
        BY <1>1, WaitsOn
      <4> QED BY <4>1 DEF Outgoing
    <3> QED BY <1>1, <1>2, <1>3, <3>1, <3>2 DEF Accounted, SemHas
  <2>3. PICK b1 : b1 = SemTake(a, s)
    OBVIOUS
  <2>4. PICK q1 : q1 = a.req[t]
    OBVIOUS
  <2>5. Did(a, b1, t, q1, a.box, s, NoSem)
    BY <1>1, <1>2, <1>3, <2>2, <2>3, <2>4, TakeDid
  <2>6. PICK b2 : b2 = Goto(b1, "reply")
    OBVIOUS
  <2>x. PICK x, u : x = a.box /\ u = NoSem
    OBVIOUS
  <2>m. a \in Memory /\ t \in Thread
    BY <1>1, <1>2
  <2>7. PICK q2 \in ReqType : Did(a, b2, t, q2, x, s, u) /\ q2.pc = "reply"
    <3>1. "reply" \in Pcs
      BY DEF Pcs
    <3>2. Did(a, b1, t, q1, x, s, u)
      BY <2>5, <2>x
    <3>3. Went(a, b1, t, q1, x, s, u, "reply")
      BY <2>m, <3>1, <3>2, GotoThen
    <3> QED BY <2>6, <3>3 DEF Went
  <2>8. PICK b3 : b3 = SetPkt(b2, t, NoPacket)
    OBVIOUS
  <2>9. PICK q3 \in ReqType : Did(a, b3, t, q3, x, s, u) /\ q3.pc = "reply"
    <3>1. NoPacket \in Int
      BY Rings
    <3>2. Holds(a, b2, t, q2, x, s, u, NoPacket)
      BY <2>m, <2>7, <3>1, PktThen
    <3> QED BY <2>7, <2>8, <3>2 DEF Holds
  <2>10. \A v \in InQueue(a) \ {Main} : a.on[v] # NoSem
    BY <1>1, WaitsOn
  <2>11. \A v \in Mailing(a) \ {t} : a.on[v] # s
    <3> SUFFICES ASSUME NEW v \in Mailing(a) \ {t} PROVE a.on[v] # s
      OBVIOUS
    <3>1. v \in InQueue(a) \ {Main} /\ v \in Buf /\ a.req[v].pc = "sending" /\ v # t
      BY <2>1 DEF Woken, Mailing
    <3>2. a.on[v] = Done(a.req[v].whom)
      BY <1>1, <3>1, WaitsOn
    <3>3. PICK c : c = a.req[v].whom /\ c \in Client /\ c # w
      BY <3>1 DEF Good, Asking, Asks
    <3>4. Done(c) # Done(w)
      BY <1>2, <3>3, SemsAre, Threads
    <3> QED BY <1>3, <3>2, <3>3, <3>4
  <2>12. Flow(b3, "run")
    <3>1. x[Stack] = a.box[Stack]
      BY <2>x
    <3>2. \A v \in InQueue(a) \ {Main} : a.on[v] # u
      BY <2>10, <2>x
    <3> QED BY <1>1, <1>6, <2>9, <2>11, <3>1, <3>2, GoLast
  <2> QED BY <1>3, <2>2, <2>3, <2>6, <2>8, <2>12
<1> QED BY <1>1, <1>5, <1>6

\* A packet is taken and the thread has it.
TakesPkt(a, t, c, b, r, x, s, z) ==
    /\ b = Goto(MboxGet(SetPkt(SemTake(a, Queued(c)), t, MboxMsg(a, c)), c), "reply")
    /\ x = [a.box EXCEPT ![c] = Without(a.box[c])]
    /\ s = Queued(c) /\ z = Free(c) /\ s \in Sems(Boxes) /\ z \in Sems(Boxes)
    /\ Did(a, b, t, r, x, s, z) /\ r.pc = "reply"

LEMMA TakesPktIs ==
  ASSUME NEW a \in Memory, NEW T, Sched(a, T), Counted(a), NEW c \in Boxes,
         SemHas(a, Queued(c)), NEW t \in Thread, a.cur = t
  PROVE  \E b, r, x, s, z : TakesPkt(a, t, c, b, r, x, s, z)
<1>1. PICK s, z, y, o : s = Queued(c) /\ z = Free(c) /\ y = a.box /\ o = NoSem
  OBVIOUS
<1>2. s \in Sems(Boxes) /\ z \in Sems(Boxes) /\ SemHas(a, s) /\ Count(a.box[c]) > 0
  BY <1>1, SemsAre DEF Counted, SemHas
<1>3. PICK b1, r1 : b1 = SemTake(a, s) /\ r1 = a.req[t]
  OBVIOUS
<1>4. Did(a, b1, t, r1, y, s, o)
  <2>1. Did(a, b1, t, a.req[t], a.box, s, NoSem)
    BY <1>2, <1>3, TakeDid
  <2> QED BY <1>1, <1>3, <2>1
<1>5. PICK p \in Int : p = MboxMsg(a, c)
  <2>1. a.box[c] \in BoxType
    BY DEF Memory
  <2>2. a.box[c].head \in Slots
    BY <1>2, <2>1 DEF BoxType, Count
  <2> QED BY <2>1, <2>2 DEF BoxType, MboxMsg
<1>6. PICK b2 : b2 = SetPkt(b1, t, p)
  OBVIOUS
<1>7. PICK r2 \in ReqType : Did(a, b2, t, r2, y, s, o)
  <2>1. Holds(a, b1, t, r1, y, s, o, p)
    BY <1>4, PktThen
  <2> QED BY <1>6, <2>1 DEF Holds
<1>8. b2 \in Memory /\ b2.box = a.box /\ b2.req[t] = r2 /\ b2.cur = t
  <2>1. b2 \in Memory /\ b2.box = a.box /\ b2.req = [a.req EXCEPT ![t] = r2] /\ b2.cur = t
    BY <1>1, <1>7 DEF Did, Wakes
  <2> QED BY <2>1 DEF Memory
<1>9. Sched(b2, T)
  BY <1>7, DidSched
<1>10. PICK b3, x : b3 = MboxGet(b2, c) /\ x = [a.box EXCEPT ![c] = Without(a.box[c])]
  OBVIOUS
<1>11. Did(b2, b3, t, r2, x, o, z)
  <2>1. Did(b2, MboxGet(b2, c), t, b2.req[t], [b2.box EXCEPT ![c] = Without(b2.box[c])],
            NoSem, Free(c))
    BY <1>2, <1>8, <1>9, GetDid
  <2> QED BY <1>1, <1>8, <1>10, <2>1
<1>12. Either(s, o, s) /\ Either(o, z, z)
  BY <1>1 DEF Either
<1>13. Did(a, b3, t, r2, x, s, z)
  <2>1. o = NoSem
    BY <1>1
  <2> QED BY <1>7, <1>11, <1>12, <2>1, DidThen
<1>14. PICK b4 : b4 = Goto(b3, "reply")
  OBVIOUS
<1>15. PICK r4 \in ReqType : Did(a, b4, t, r4, x, s, z) /\ r4.pc = "reply"
  <2>1. "reply" \in Pcs
    BY DEF Pcs
  <2>2. Went(a, b3, t, r2, x, s, z, "reply")
    BY <1>13, <2>1, GotoThen
  <2> QED BY <1>14, <2>2 DEF Went
<1>16. TakesPkt(a, t, c, b4, r4, x, s, z)
  BY <1>1, <1>2, <1>3, <1>5, <1>6, <1>10, <1>14, <1>15 DEF TakesPkt
<1> QED BY <1>16

\* No request waits for room at a socket that has none when a thread finds no packet there.
LEMMA NoneWaits ==
  ASSUME NEW a, NEW cl, NEW pg, NEW inp, NEW lk, Good(a, "run", cl, pg, inp, lk),
         Flow(a, "run"), NEW t \in Buf, a.cur = t, Woken(a) = {}, Apart(a, Buf \ {t}),
         NEW w \in Client,
         \/ a.req[t].pc = "recv" /\ a.req[t].whom = w /\ ~SemHas(a, Queued(w))
         \/ a.req[t].pc = "deliver" /\ To[a.req[t].pkt] = w /\ ~SemHas(a, Free(w))
  PROVE  Apart(a, Buf)
<1>1. /\ a \in Memory /\ AllParked(a, InQueue(a)) /\ Counted(a) /\ InQueue(a) = Line0(a) \ {t}
  BY BufRuns
<1>2. w \in Boxes
  BY Threads
<1>3. PICK s, z : s = Queued(w) /\ z = Free(w) /\ s \in Sems(Boxes) /\ z \in Sems(Boxes)
  BY <1>2, SemsAre
<1>4. /\ a.sem[s].counter \in Nat /\ a.sem[z].counter \in Nat
      /\ a.sem[s].counter + a.sem[z].counter = MBOXSLOTS
  <2>1. a.sem[s].counter \in Nat /\ a.sem[z].counter \in Nat
    BY <1>1, <1>3 DEF Memory, SemType
  <2>2. Count(a.box[w]) = a.sem[s].counter /\ Count(a.box[w]) + a.sem[z].counter = MBOXSLOTS
    BY <1>1, <1>2, <1>3 DEF Counted
  <2> QED BY <2>1, <2>2
<1>5. MBOXSLOTS > 0
  BY Sizes
<1>6. ASSUME NEW v \in Buf, v # t, a.req[v].pc \in {"recv", "deliver"}
      PROVE  v \in InQueue(a) \ {Main} /\ ~(a.sem[a.on[v]].counter > 0)
  <2>1. v \in InQueue(a) \ {Main}
    BY <1>1, <1>6, Threads DEF Line0, Busy
  <2>2. ~Ready(a, v)
    BY <2>1 DEF Woken
  <2>3. a.sem[a.on[v]].counter > 0 => Ready(a, v)
    BY <1>1, <2>1, WaitsOn
  <2> QED BY <2>1, <2>2, <2>3
<1>7. ASSUME a.req[t].pc = "recv", a.req[t].whom = w, ~SemHas(a, Queued(w)),
             NEW v \in Buf, v # t, a.req[v].pc = "deliver", To[a.req[v].pkt] = w
      PROVE  FALSE
  <2>1. v \in InQueue(a) \ {Main} /\ ~(a.sem[a.on[v]].counter > 0)
    BY <1>6, <1>7
  <2>2. a.on[v] = Free(To[a.req[v].pkt])
    BY <1>1, <1>7, <2>1, WaitsOn
  <2>3. ~(a.sem[s].counter > 0)
    BY <1>3, <1>7 DEF SemHas
  <2>4. ~(a.sem[z].counter > 0)
    BY <1>3, <1>7, <2>1, <2>2
  <2> QED BY <1>4, <1>5, <2>3, <2>4
<1>8. ASSUME a.req[t].pc = "deliver", To[a.req[t].pkt] = w, ~SemHas(a, Free(w)),
             NEW v \in Buf, v # t, a.req[v].pc = "recv", a.req[v].whom = w
      PROVE  FALSE
  <2>1. v \in InQueue(a) \ {Main} /\ ~(a.sem[a.on[v]].counter > 0)
    BY <1>6, <1>8
  <2>2. a.on[v] = Queued(a.req[v].whom)
    BY <1>1, <1>8, <2>1, WaitsOn
  <2>3. ~(a.sem[z].counter > 0)
    BY <1>3, <1>8 DEF SemHas
  <2>4. ~(a.sem[s].counter > 0)
    BY <1>3, <1>8, <2>1, <2>2
  <2> QED BY <1>4, <1>5, <2>3, <2>4
<1>9. \A v, u \in Buf \ {t} :
         a.req[v].pc = "recv" /\ a.req[u].pc = "deliver" => To[a.req[u].pkt] # a.req[v].whom
  BY DEF Apart
<1>10. ASSUME NEW v \in Buf, NEW u \in Buf, a.req[v].pc = "recv", a.req[u].pc = "deliver"
       PROVE  To[a.req[u].pkt] # a.req[v].whom
  <2>1. CASE v = t
    BY <1>7, <1>10, <2>1
  <2>2. CASE u = t
    BY <1>8, <1>10, <2>2
  <2>3. CASE v # t /\ u # t
    BY <1>9, <1>10, <2>3
  <2> QED BY <2>1, <2>2, <2>3
<1> QED BY <1>10 DEF Apart

\* netconn_recv.
LEMMA RecvFlow ==
  ASSUME NEW a, NEW cl, NEW pg, NEW inp, NEW lk, Good(a, "run", cl, pg, inp, lk),
         Flow(a, "run"), NEW t \in Buf, a.cur = t, a.req[t].pc = "recv",
         NEW w, w = a.req[t].whom
  PROVE  /\ SemHas(a, Queued(w)) =>
               Flow(Goto(MboxGet(SetPkt(SemTake(a, Queued(w)), t, MboxMsg(a, w)), w), "reply"), "run")
         /\ ~SemHas(a, Queued(w)) => Flow(SemBlock(a, Queued(w)), "run")
<1>1. /\ a \in Memory /\ Sched(a, Line0(a)) /\ Tcpip \in InQueue(a) \ {Main} /\ t \in Thread \ {Main}
      /\ AllParked(a, InQueue(a)) /\ Accounted(a) /\ Counted(a)
      /\ (FirstRound(a) \/ LastRound(a)) /\ Tcpip \in Line0(a) /\ t # Tcpip
  BY BufRuns
<1>2. w \in Client /\ w \in Boxes /\ t \notin Mailing(a) /\ t \in Thread /\ w # Stack /\ Stack \in Boxes
  BY Threads DEF Good, Asking, Asks, Mailing
<1>3. PICK s, z : s = Queued(w) /\ z = Free(w) /\ s \in Sems(Boxes) /\ z \in Sems(Boxes)
  BY <1>2, SemsAre
<1>4. Needs(a, t, s)
  BY <1>3 DEF Needs
<1>5. \A v \in Mailing(a) \cap InQueue(a) : a.on[v] # s
  <2> SUFFICES ASSUME NEW v \in Mailing(a) \cap InQueue(a) PROVE a.on[v] # s
    OBVIOUS
  <2>1. v \in InQueue(a) \ {Main} /\ v \in Buf /\ a.req[v].pc = "sending"
    BY Threads DEF Mailing
  <2>2. a.on[v] = Queued(w) => a.req[v].pc = "recv"
    BY <1>1, <1>2, <2>1, WaitsOn
  <2> QED BY <1>3, <2>1, <2>2
<1>6. CASE SemHas(a, s)
  <2>1. PICK b, r, x, s2, z2 : TakesPkt(a, t, w, b, r, x, s2, z2)
    BY <1>1, <1>2, <1>3, <1>6, TakesPktIs
  <2>2. /\ b = Goto(MboxGet(SetPkt(SemTake(a, s), t, MboxMsg(a, w)), w), "reply")
        /\ x = [a.box EXCEPT ![w] = Without(a.box[w])] /\ Did(a, b, t, r, x, s, z) /\ r.pc = "reply"
    BY <1>3, <2>1 DEF TakesPkt
  <2>3. CASE FirstRound(a)
    <3>1. Woken(a) = {}
      BY <2>3 DEF FirstRound
    <3>2. z # Queued(Stack)
      BY <1>2, <1>3, SemsAre
    <3> QED BY <1>3, <2>2, <2>3, <1>6, <3>1, <3>2, GoFirst
  <2>4. CASE LastRound(a)
    <3>1. Apart(a, Buf) /\ Mailing(a) \ {t} \subseteq Woken(a)
      BY <2>4, BufRuns
    <3>2. ASSUME NEW v \in InQueue(a) \ {Main}, a.on[v] = z PROVE FALSE
      <4>1. a.on[v] = Free(w) => v \in Buf /\ a.req[v].pc = "deliver" /\ To[a.req[v].pkt] = w
        BY <1>1, <1>2, <3>2, WaitsOn
      <4> QED BY <1>3, <3>1, <3>2, <4>1 DEF Apart
    <3>3. \A v \in Mailing(a) \ {t} : a.on[v] # s
      BY <1>5, <3>1 DEF Woken
    <3>4. x[Stack] = a.box[Stack]
      BY <1>1, <1>2, <2>2 DEF Memory
    <3>5. \A v \in InQueue(a) \ {Main} : a.on[v] # z
      BY <3>2
    <3>6. Flow(b, "run")
      <4>1. Did(a, b, t, r, x, s, z) /\ r.pc = "reply"
        BY <2>2
      <4> QED BY <2>4, <3>3, <3>4, <3>5, <4>1, GoLast
    <3> QED BY <1>3, <1>6, <2>2, <3>6
  <2> QED BY <1>1, <2>3, <2>4
<1>7. CASE ~SemHas(a, s)
  <2>1. CASE FirstRound(a)
    <3>1. /\ a.q # <<>> /\ a.q[1] = Main /\ a.yields = 0 /\ a.req[Main].pc = "serve"
          /\ Apart(a, Buf \ {t}) /\ Mailing(a) \subseteq {t}
      BY <2>1, BufRuns
    <3>2. Woken(a) = {} /\ Mailing(a) = {}
      BY <1>2, <2>1, <3>1 DEF FirstRound
    <3>3. Apart(a, Buf)
      BY <1>2, <1>3, <1>7, <3>1, <3>2, NoneWaits
    <3>4. Flow(SemBlock(a, s), "run")
      BY <1>1, <1>3, <1>4, <1>7, <3>1, <3>2, <3>3, BlockFirst
    <3> QED BY <1>3, <1>7, <3>4
  <2>2. CASE LastRound(a)
    <3>1. /\ \A v \in Woken(a) : Before(a.q, v)
          /\ Apart(a, Buf) /\ Tcpip \notin Woken(a) /\ Mailing(a) \ {t} \subseteq Woken(a)
      BY <2>2, BufRuns
    <3>2. \A v \in Mailing(a) : v \in Woken(a) /\ a.on[v] # s
      BY <1>2, <1>5, <3>1 DEF Woken
    <3>3. Flow(SemBlock(a, s), "run")
      BY <1>1, <1>3, <1>4, <1>7, <3>1, <3>2, BlockLast
    <3> QED BY <1>3, <1>7, <3>3
  <2> QED BY <1>1, <2>1, <2>2
<1> QED BY <1>6, <1>7

\* jif_input.
LEMMA JifInputFlow ==
  ASSUME NEW a, NEW cl, NEW pg, NEW inp, NEW lk, Good(a, "run", cl, pg, inp, lk),
         Flow(a, "run"), NEW t \in Buf, a.cur = t, a.req[t].pc = "input", NEW p \in Int
  PROVE  Flow(SetPkt(Goto(a, "deliver"), t, p), "run")
<1>1. a \in Memory /\ (FirstRound(a) \/ LastRound(a)) /\ t \in Thread
  BY BufRuns
<1>2. FirstRound(a)
  <2>1. LastRound(a) => a.req[t].pc \in {"sending", "recv", "deliver", "reply"}
    BY DEF LastRound
  <2> QED BY <1>1, <2>1
<1>3. Woken(a) = {}
  BY <1>2 DEF FirstRound
<1>4. PICK o, x, b1 : o = NoSem /\ x = a.box /\ b1 = Goto(a, "deliver")
  OBVIOUS
<1>5. PICK r1 \in ReqType : Did(a, b1, t, r1, x, o, o) /\ r1.pc = "deliver"
  <2>1. "deliver" \in Pcs
    BY DEF Pcs
  <2> QED BY <1>1, <1>4, <2>1, GotoDid
<1>6. PICK b2 : b2 = SetPkt(b1, t, p)
  OBVIOUS
<1>7. PICK r2 \in ReqType : Did(a, b2, t, r2, x, o, o) /\ r2.pc = "deliver"
  <2>1. Holds(a, b1, t, r1, x, o, o, p)
    BY <1>1, <1>5, PktThen
  <2> QED BY <1>5, <1>6, <2>1 DEF Holds
<1>8. o # Queued(Stack)
  <2>1. Queued(Stack) \in Sems(Boxes)
    BY Threads, SemsAre
  <2> QED BY <1>4, <2>1, NoSemaphore
<1>9. Flow(b2, "run")
  BY <1>2, <1>3, <1>4, <1>7, <1>8, GoFirst
<1> QED BY <1>4, <1>6, <1>9

\* The end of serve_thread after an answer.
LEMMA ReplyFlow ==
  ASSUME NEW a, NEW cl, NEW pg, NEW inp, NEW lk, Good(a, "run", cl, pg, inp, lk),
         Flow(a, "run"), NEW t \in Buf, a.cur = t, a.req[t].pc = "reply"
  PROVE  Flow(PutBuffer(a, t), "run")
<1>1. /\ a \in Memory /\ Sched(a, Line0(a)) /\ AllParked(a, InQueue(a)) /\ Accounted(a)
      /\ (FirstRound(a) \/ LastRound(a)) /\ Tcpip \in Line0(a)
  BY BufRuns
<1>2. CASE FirstRound(a)
  <2>1. /\ a.q # <<>> /\ a.q[1] = Main /\ a.yields = 0 /\ a.req[Main].pc = "serve"
        /\ \A v \in Woken(a) : a.wake[v]
        /\ Apart(a, Buf \ {t}) /\ Mailing(a) \subseteq {t}
    BY <1>2, BufRuns
  <2>2. Tcpip \notin Woken(a)
    BY <1>2 DEF FirstRound
  <2> QED BY <1>1, <2>1, <2>2, HaltFirst
<1>3. CASE LastRound(a)
  <2>1. /\ \A v \in Woken(a) : Before(a.q, v)
        /\ Apart(a, Buf) /\ Tcpip \notin Woken(a) /\ Mailing(a) \ {t} \subseteq Woken(a)
    BY <1>3, BufRuns
  <2> QED BY <1>1, <2>1, HaltLast
<1> QED BY <1>1, <1>2, <1>3

\* recv_udp, and the end of serve_thread.
LEMMA DeliverFlow ==
  ASSUME NEW a, NEW cl, NEW pg, NEW inp, NEW lk, Good(a, "run", cl, pg, inp, lk),
         Flow(a, "run"), NEW t \in Buf, a.cur = t, a.req[t].pc = "deliver",
         NEW p, p = a.req[t].pkt, NEW w, w = To[p]
  PROVE  /\ SemHas(a, Free(w)) => Flow(PutBuffer(MboxPut(SemTake(a, Free(w)), w, p), t), "run")
         /\ ~SemHas(a, Free(w)) => Flow(SemBlock(a, Free(w)), "run")
<1>1. /\ a \in Memory /\ Sched(a, Line0(a)) /\ Tcpip \in InQueue(a) \ {Main} /\ t \in Thread \ {Main}
      /\ AllParked(a, InQueue(a)) /\ Accounted(a) /\ Counted(a)
      /\ (FirstRound(a) \/ LastRound(a)) /\ Tcpip \in Line0(a) /\ t # Tcpip
  BY BufRuns
<1>2. w \in Client /\ w \in Boxes /\ t \notin Mailing(a) /\ t \in Thread /\ w # Stack /\ p \in Int
  <2>1. p \in 1 .. Arriving
    BY DEF Good, Packets, Pkt
  <2>2. w \in Client
    BY <2>1, Sockets
  <2> QED BY <1>1, <2>1, <2>2, Threads DEF Mailing
<1>3. PICK s, z : s = Free(w) /\ z = Queued(w) /\ s \in Sems(Boxes) /\ z \in Sems(Boxes)
  BY <1>2, SemsAre
<1>4. Needs(a, t, s)
  BY <1>3 DEF Needs
<1>5. \A v \in Mailing(a) \cap InQueue(a) : a.on[v] # s
  <2> SUFFICES ASSUME NEW v \in Mailing(a) \cap InQueue(a) PROVE a.on[v] # s
    OBVIOUS
  <2>1. v \in InQueue(a) \ {Main} /\ v \in Buf /\ a.req[v].pc = "sending"
    BY Threads DEF Mailing
  <2>2. a.on[v] = Free(w) => a.req[v].pc = "deliver"
    BY <1>1, <1>2, <2>1, WaitsOn
  <2> QED BY <1>3, <2>1, <2>2
<1>6. CASE SemHas(a, s)
  <2>1. PICK b, x, s2, z2 : Puts(a, t, w, p, b, x, s2, z2)
    BY <1>1, <1>2, <1>3, <1>6, PutIs
  <2>2. PICK r : r = a.req[t] /\ Did(a, b, t, r, x, s, z)
    BY <1>3, <2>1 DEF Puts
  <2>3. b = MboxPut(SemTake(a, s), w, p) /\ x = [a.box EXCEPT ![w] = With(a.box[w], p)]
    BY <1>3, <2>1 DEF Puts
  <2>4. Stays(a, b, t, r, x, s, z) /\ Sched(b, Line0(a))
    BY <1>1, <2>2, StayIs
  <2>5. b \in Memory /\ b.cur = t /\ b.q = a.q /\ b.yields = a.yields
    BY <2>4 DEF Stays
  <2>a. AllParked(b, InQueue(b)) /\ InQueue(b) = InQueue(a)
    BY <2>4 DEF Stays
  <2>6. CASE FirstRound(a)
    <3>1. /\ a.q # <<>> /\ a.q[1] = Main /\ a.yields = 0 /\ a.req[Main].pc = "serve"
          /\ Apart(a, Buf \ {t}) /\ Mailing(a) \subseteq {t}
      BY <2>6, BufRuns
    <3>2. Woken(a) = {} /\ Mailing(a) = {}
      BY <1>2, <2>6, <3>1 DEF FirstRound
    <3>3. b.req[t] = r /\ \A v \in Thread \ {t} : b.req[v] = a.req[v]
      BY <2>4 DEF Stays
    <3>4. \A v \in Woken(b) : v \in Woken(a) \/ (v \in InQueue(a) \ {Main} /\ a.on[v] = z)
      BY <2>4 DEF Stays
    <3>5. \A v \in InQueue(a) \ {Main} : a.on[v] = z => v \in Woken(b) /\ (v \notin Woken(a) => b.wake[v])
      BY <2>4 DEF Stays
    <3>6. \A v \in Woken(b) : b.wake[v]
      BY <3>2, <3>4, <3>5
    <3>7. Tcpip \notin Woken(b)
      <4>1. a.on[Tcpip] = Queued(Stack)
        BY <1>1, WaitsOn
      <4>2. z # Queued(Stack)
        BY <1>2, <1>3, SemsAre, Threads
      <4> QED BY <3>2, <3>4, <4>1, <4>2
    <3>8. Mailing(b) = {}
      BY <2>2, <3>2, <3>3, Threads DEF Mailing
    <3>9. Accounted(b)
      BY <3>8 DEF Accounted
    <3>10. Apart(b, Buf \ {t})
      <4>1. \A v \in Buf \ {t} : b.req[v] = a.req[v]
        BY <3>3, Threads
      <4> QED BY <3>1, <4>1 DEF Apart
    <3>11. b.req[Main] = a.req[Main]
      BY <1>1, <3>3, Threads
    <3>12. Flow(PutBuffer(b, t), "run")
      BY <1>1, <2>4, <2>5, <2>a, <3>1, <3>6, <3>7, <3>8, <3>9, <3>10, <3>11, HaltFirst
    <3> QED BY <1>3, <1>6, <2>3, <3>12
  <2>7. CASE LastRound(a)
    <3>1. Apart(a, Buf) /\ Mailing(a) \ {t} \subseteq Woken(a)
      BY <2>7, BufRuns
    <3>2. ASSUME NEW v \in InQueue(a) \ {Main}, a.on[v] = z PROVE FALSE
      <4>1. a.on[v] = Queued(w) => v \in Buf /\ a.req[v].pc = "recv" /\ a.req[v].whom = w
        BY <1>1, <1>2, <3>2, WaitsOn
      <4> QED BY <1>3, <3>1, <3>2, <4>1 DEF Apart
    <3>3. \A v \in Mailing(a) \ {t} : a.on[v] # s
      BY <1>5, <3>1 DEF Woken
    <3>4. x[Stack] = a.box[Stack]
      BY <1>1, <1>2, <2>3, Threads DEF Memory
    <3>5. \A v \in InQueue(a) \ {Main} : a.on[v] # z
      BY <3>2
    <3>6. r.pc = "deliver" /\ r = a.req[t]
      BY <2>2
    <3>7. Flow(b, "run") /\ LastRound(b)
      BY <2>2, <2>7, <3>3, <3>4, <3>5, <3>6, GoLast
    <3>8. LastRound(b) /\ Accounted(b)
      BY <3>7 DEF Flow
    <3>9. /\ \A v \in Woken(b) : Before(b.q, v)
          /\ Apart(b, Buf) /\ Tcpip \notin Woken(b) /\ Mailing(b) \ {t} \subseteq Woken(b)
      BY <1>1, <2>5, <3>8 DEF LastRound
    <3>10. Flow(PutBuffer(b, t), "run")
      BY <1>1, <2>4, <2>5, <2>a, <3>8, <3>9, HaltLast
    <3> QED BY <1>3, <1>6, <2>3, <3>10
  <2> QED BY <1>1, <2>6, <2>7
<1>7. CASE ~SemHas(a, s)
  <2>1. CASE FirstRound(a)
    <3>1. /\ a.q # <<>> /\ a.q[1] = Main /\ a.yields = 0 /\ a.req[Main].pc = "serve"
          /\ Apart(a, Buf \ {t}) /\ Mailing(a) \subseteq {t}
      BY <2>1, BufRuns
    <3>2. Woken(a) = {} /\ Mailing(a) = {}
      BY <1>2, <2>1, <3>1 DEF FirstRound
    <3>3. Apart(a, Buf)
      BY <1>2, <1>3, <1>7, <3>1, <3>2, NoneWaits
    <3>4. Flow(SemBlock(a, s), "run")
      BY <1>1, <1>3, <1>4, <1>7, <3>1, <3>2, <3>3, BlockFirst
    <3> QED BY <1>3, <1>7, <3>4
  <2>2. CASE LastRound(a)
    <3>1. /\ \A v \in Woken(a) : Before(a.q, v)
          /\ Apart(a, Buf) /\ Tcpip \notin Woken(a) /\ Mailing(a) \ {t} \subseteq Woken(a)
      BY <2>2, BufRuns
    <3>2. \A v \in Mailing(a) : v \in Woken(a) /\ a.on[v] # s
      BY <1>2, <1>5, <3>1 DEF Woken
    <3>3. Flow(SemBlock(a, s), "run")
      BY <1>1, <1>3, <1>4, <1>7, <3>1, <3>2, BlockLast
    <3> QED BY <1>3, <1>7, <3>3
  <2> QED BY <1>1, <2>1, <2>2
<1> QED BY <1>6, <1>7
-----------------------------------------------------------------------------
LEMMA SignalDid ==
  ASSUME NEW m \in Memory, NEW s \in Sems(Boxes), NEW T, Sched(m, T), NEW t \in Thread
  PROVE  Did(m, SemSignal(m, s), t, m.req[t], m.box, NoSem, s)
<1>1. PICK r : r = SemSignal(m, s)
  OBVIOUS
<1>2. /\ r \in Memory /\ r.box = m.box /\ r.req = m.req /\ r.buse = m.buse /\ r.va = m.va
      /\ \A u \in Sems(Boxes) : r.sem[u].counter =
            IF u = s THEN m.sem[u].counter + 1 ELSE m.sem[u].counter
  BY <1>1, SignalKeeps
<1>3. m.req[t] \in ReqType /\ m.req = [m.req EXCEPT ![t] = m.req[t]]
  BY DEF Memory
<1>4. ASSUME NEW z \in Sems(Boxes)
      PROVE  r.sem[z].counter = m.sem[z].counter + (IF z = s THEN 1 ELSE 0)
                                                 - (IF z = NoSem THEN 1 ELSE 0)
  <2>1. m.sem[z].counter \in Nat
    BY DEF Memory, SemType
  <2> QED BY <1>2, <2>1, NoSemaphore
<1>5. Wakes(m, r, NoSem, s)
  BY <1>1, SignalWakes
<1>6. Did(m, r, t, m.req[t], m.box, NoSem, s)
  BY <1>2, <1>3, <1>4, <1>5 DEF Did
<1> QED BY <1>1, <1>6

\* The states in which lwIP's thread runs.
LEMMA TcpipRuns ==
  ASSUME NEW m, NEW cl, NEW pg, NEW inp, NEW lk, Good(m, "run", cl, pg, inp, lk),
         Flow(m, "run"), m.cur = Tcpip
  PROVE  /\ m \in Memory /\ Sched(m, Line0(m)) /\ Tcpip \in Line0(m)
         /\ Tcpip \in Thread /\ Tcpip \in Thread \ {Main} /\ Tcpip \notin Buf
         /\ AllParked(m, InQueue(m)) /\ Accounted(m) /\ Counted(m) /\ Letters(m)
         /\ \A v \in Woken(m) : Before(m.q, v)
         /\ Apart(m, Buf) /\ \A v \in Mailing(m) : Before(m.q, v)
         /\ \A v \in Mailing(m) : v \in InQueue(m) \ {Main} /\ v \in Thread \ {Tcpip}
<1>1. /\ m \in Memory /\ Sched(m, Line0(m)) /\ Tcpip \in Line0(m) /\ Tcpip \in Thread
      /\ Tcpip # Main /\ Tcpip \notin Buf
  BY Threads DEF Good, Line0
<1>2. AllParked(m, InQueue(m)) /\ Accounted(m) /\ Counted(m) /\ Letters(m)
  BY DEF Flow, Good
<1>3. LastRound(m)
  BY <1>1 DEF Flow, FirstRound, Turn
<1>4. /\ \A v \in Woken(m) : Before(m.q, v)
      /\ Apart(m, Buf) /\ \A v \in Mailing(m) : Before(m.q, v)
  BY <1>3 DEF LastRound
<1>5. ASSUME NEW v \in Mailing(m) PROVE v \in InQueue(m) \ {Main} /\ v \in Thread \ {Tcpip}
  <2>1. v \in Buf /\ v # Main /\ v # Tcpip /\ v \in Thread
    BY Threads DEF Mailing
  <2>2. v \in InQueue(m)
    BY <1>4 DEF Before, Ahead, InQueue
  <2> QED BY <2>1, <2>2
<1> QED BY <1>1, <1>2, <1>4, <1>5

\* A request in lwIP's mailbox is counted.
LEMMA KeptHas ==
  ASSUME NEW a, NEW cl, NEW pg, NEW inp, NEW lk, Good(a, "run", cl, pg, inp, lk),
         NEW k \in Slots, a.box[Stack].msg[k] # 0
  PROVE  SemHas(a, Queued(Stack))
<1>1. a \in Memory /\ Letters(a) /\ Counted(a) /\ Stack \in Boxes
  BY Threads DEF Good
<1>2. PICK y : y = a.box[Stack] /\ y \in BoxType
  BY <1>1 DEF Memory
<1>3. Kept(y, k)
  BY <1>1, <1>2 DEF Letters
<1>4. Count(y) > 0
  <2>1. y.head \in Slots \cup {-1} /\ y.nextq \in Slots
    BY <1>2 DEF BoxType
  <2>2. k >= 0 /\ y.head # -1 /\ k \in Int
    BY <1>3 DEF Kept, Slots
  <2> QED BY <1>3, <2>1, <2>2, Sizes DEF Kept, Slots, Count
<1> QED BY <1>1, <1>2, <1>4 DEF Counted, SemHas

\* tcpip_thread waits for a message: every request it was handed is completed.
LEMMA FetchBlockFlow ==
  ASSUME NEW a, NEW cl, NEW pg, NEW inp, NEW lk, Good(a, "run", cl, pg, inp, lk),
         Flow(a, "run"), a.cur = Tcpip, a.req[Tcpip].pc = "fetch", ~SemHas(a, Queued(Stack))
  PROVE  Flow(SemBlock(a, Queued(Stack)), "run")
<1>1. /\ a \in Memory /\ Sched(a, Line0(a)) /\ Tcpip \in Line0(a)
      /\ Tcpip \in Thread /\ Tcpip \in Thread \ {Main}
      /\ AllParked(a, InQueue(a)) /\ Accounted(a) /\ Apart(a, Buf)
      /\ \A v \in Woken(a) : Before(a.q, v)
      /\ \A v \in Mailing(a) : v \in InQueue(a) \ {Main} /\ v \in Thread \ {Tcpip}
  BY TcpipRuns
<1>2. PICK s : s = Queued(Stack) /\ s \in Sems(Boxes)
  BY SemsAre, Threads
<1>3. Needs(a, Tcpip, s)
  BY <1>2 DEF Needs
<1>4. \A k \in Slots : a.box[Stack].msg[k] = 0
  BY KeptHas
<1>5. ASSUME NEW v \in Mailing(a) PROVE v \in Woken(a) /\ a.on[v] # s
  <2>1. v \in InQueue(a) \ {Main} /\ v \in Buf /\ a.req[v].pc = "sending" /\ v # 0 /\ v # Tcpip
    BY <1>1, Threads DEF Mailing
  <2>2. a.on[v] = Done(a.req[v].whom) /\ (a.sem[a.on[v]].counter > 0 => Ready(a, v))
    BY <1>1, <2>1, WaitsOn
  <2>3. a.on[v] # Queued(Stack)
    BY <1>1, <2>1, WaitsOn
  <2>4. ~ \E k \in Slots : a.box[Stack].msg[k] = v
    BY <1>4, <2>1
  <2>5. a.sem[Done(a.req[v].whom)].counter > 0
    BY <1>1, <2>4 DEF Accounted, Outgoing
  <2> QED BY <1>2, <2>1, <2>2, <2>3, <2>5 DEF Woken
<1>6. Flow(SemBlock(a, s), "run")
  <2>1. \A v \in Mailing(a) : v \in Woken(a) /\ a.on[v] # s
    BY <1>5
  <2>2. ~SemHas(a, s)
    BY <1>2
  <2> QED BY <1>1, <1>2, <1>3, <2>1, <2>2, BlockLast
<1> QED BY <1>2, <1>6

\* lwIP's thread goes on: whoever it makes ready comes before serve().
LEMMA GoStack ==
  ASSUME NEW a, NEW cl, NEW pg, NEW inp, NEW lk, Good(a, "run", cl, pg, inp, lk),
         Flow(a, "run"), a.cur = Tcpip,
         NEW b, NEW r, NEW x, NEW d, NEW u, Did(a, b, Tcpip, r, x, d, u),
         \A v \in InQueue(a) \ {Main} : a.on[v] = u => v \in Mailing(a), Accounted(b)
  PROVE  Flow(b, "run")
<1>1. /\ a \in Memory /\ Sched(a, Line0(a)) /\ Tcpip \in Line0(a)
      /\ Tcpip \in Thread \ {Main} /\ Tcpip \notin Buf
      /\ AllParked(a, InQueue(a)) /\ Apart(a, Buf)
      /\ \A v \in Woken(a) : Before(a.q, v)
      /\ \A v \in Mailing(a) : Before(a.q, v)
  BY TcpipRuns
<1>2. Stays(a, b, Tcpip, r, x, d, u)
  BY <1>1, StayIs
<1>3. /\ b \in Memory /\ b.cur = Tcpip /\ b.q = a.q /\ b.req[Tcpip] = r
      /\ InQueue(b) = InQueue(a) /\ AllParked(b, InQueue(b))
  BY <1>2 DEF Stays
<1>4. \A v \in Buf : b.req[v] = a.req[v]
  <2>1. \A v \in Thread \ {Tcpip} : b.req[v] = a.req[v]
    BY <1>2 DEF Stays
  <2> QED BY <2>1, Threads
<1>5. \A v \in Woken(b) : v \in Woken(a) \/ (v \in InQueue(a) \ {Main} /\ a.on[v] = u)
  BY <1>2 DEF Stays
<1>6. Mailing(b) = Mailing(a)
  BY <1>4 DEF Mailing
<1>7. Apart(b, Buf)
  BY <1>1, <1>4 DEF Apart
<1>8. LastRound(b)
  BY <1>1, <1>3, <1>5, <1>6, <1>7 DEF LastRound
<1> QED BY <1>3, <1>8 DEF Flow

\* tcpip_thread takes a message: it has the request in its hands.
LEMMA FetchFlow ==
  ASSUME NEW a, NEW cl, NEW pg, NEW inp, NEW lk, Good(a, "run", cl, pg, inp, lk),
         Flow(a, "run"), a.cur = Tcpip, a.req[Tcpip].pc = "fetch", SemHas(a, Queued(Stack))
  PROVE  Flow([MboxGet(SemTake(a, Queued(Stack)), Stack)
                  EXCEPT !.req[Tcpip] = [a.req[MboxMsg(a, Stack)] EXCEPT !.pc = "output"]], "run")
<1>1. /\ a \in Memory /\ Sched(a, Line0(a)) /\ Tcpip \in Thread /\ Tcpip \in Thread \ {Main}
      /\ AllParked(a, InQueue(a)) /\ Accounted(a) /\ Counted(a) /\ Letters(a) /\ Tcpip \notin Buf
      /\ \A v \in Mailing(a) : v \in InQueue(a) \ {Main} /\ v \in Thread \ {Tcpip}
  BY TcpipRuns
<1>2. Stack \in Boxes /\ a.box \in [Boxes -> BoxType] /\ a.req \in [Thread -> ReqType]
  BY <1>1, Threads DEF Memory
<1>3. PICK b0, x, s, z : Gets(a, Tcpip, Stack, b0, x, s, z)
  BY <1>1, <1>2, GetIs
<1>4. /\ b0 = MboxGet(SemTake(a, Queued(Stack)), Stack) /\ x = [a.box EXCEPT ![Stack] = Without(a.box[Stack])]
      /\ s = Queued(Stack) /\ z = Free(Stack) /\ s \in Sems(Boxes) /\ z \in Sems(Boxes)
  BY <1>3 DEF Gets
<1>5. PICK r0 : r0 = a.req[Tcpip] /\ Did(a, b0, Tcpip, r0, x, s, z)
  BY <1>3 DEF Gets
<1>6. PICK y, h : y = a.box[Stack] /\ h = MboxMsg(a, Stack)
  OBVIOUS
<1>7. Count(y) > 0 /\ y \in BoxType
  BY <1>1, <1>2, <1>6 DEF SemHas, Counted
<1>8. /\ y.head \in Slots /\ Kept(y, y.head)
      /\ \A k \in Slots : Without(y).msg[k] = IF k = y.head THEN 0 ELSE y.msg[k]
  BY <1>7, GetBox
<1>9. h = y.msg[y.head] /\ h \in Buf /\ h \in Thread
  <2>1. h = y.msg[y.head]
    BY <1>6 DEF MboxMsg
  <2>2. y.msg[y.head] # 0 /\ y.msg[y.head] \in Buf
    BY <1>1, <1>6, <1>8 DEF Letters
  <2> QED BY <2>1, <2>2, Threads
<1>10. PICK r \in ReqType : r = [a.req[h] EXCEPT !.pc = "output"] /\ r.pc = "output" /\ r.whom = a.req[h].whom
  <2>1. PICK q \in ReqType : q = a.req[h]
    BY <1>2, <1>9
  <2>2. PICK r : r = [q EXCEPT !.pc = "output"]
    OBVIOUS
  <2>3. "output" \in Pcs
    BY DEF Pcs
  <2>4. r \in ReqType /\ r.pc = "output" /\ r.whom = q.whom
    BY <2>1, <2>2, <2>3 DEF ReqType
  <2> QED BY <2>1, <2>2, <2>4
<1>11. PICK b, o : b = [b0 EXCEPT !.req[Tcpip] = r] /\ o = NoSem
  OBVIOUS
<1>12. b0 \in Memory /\ b0.box = x
  BY <1>5 DEF Did
<1>13. Did(b0, b, Tcpip, r, x, o, o)
  <2>1. Did(b0, b, Tcpip, r, b0.box, NoSem, NoSem)
    BY <1>1, <1>11, <1>12, ReqDid
  <2> QED BY <1>11, <1>12, <2>1
<1>14. Did(a, b, Tcpip, r, x, s, z)
  <2>1. Either(s, o, s) /\ Either(z, o, z) /\ o = NoSem
    BY <1>11 DEF Either
  <2> QED BY <1>1, <1>5, <1>13, <2>1, DidThen
<1>15. Stays(a, b, Tcpip, r, x, s, z)
  BY <1>1, <1>14, StayIs
<1>16. b.req[Tcpip] = r /\ b.box = x
  BY <1>15 DEF Stays
<1>17. \A v \in Buf : b.req[v] = a.req[v]
  <2>1. \A v \in Thread \ {Tcpip} : b.req[v] = a.req[v]
    BY <1>15 DEF Stays
  <2> QED BY <2>1, Threads
<1>18. \A u \in Sems(Boxes) : b.sem[u].counter =
          a.sem[u].counter + (IF u = z THEN 1 ELSE 0) - (IF u = s THEN 1 ELSE 0)
  BY <1>15 DEF Stays
<1>19. Accounted(b)
  <2> SUFFICES ASSUME NEW v \in Mailing(b)
               PROVE \/ \E k \in Slots : b.box[Stack].msg[k] = v
                     \/ Outgoing(b, b.req[v].whom)
                     \/ b.sem[Done(b.req[v].whom)].counter > 0
    BY DEF Accounted
  <2>1. v \in Mailing(a) /\ v \in Buf /\ b.req[v] = a.req[v] /\ v # 0
    BY <1>17, Threads DEF Mailing
  <2>2. PICK w, e : w = a.req[v].whom /\ e = Done(w) /\ w \in Boxes /\ v \in Thread
    BY <1>2, <2>1, Threads DEF ReqType
  <2>3. \/ \E k \in Slots : y.msg[k] = v
        \/ a.sem[e].counter > 0
    BY <1>1, <1>6, <2>1, <2>2 DEF Accounted, Outgoing
  <2>4. CASE a.sem[e].counter > 0
    <3>1. e \in Sems(Boxes) /\ e # s /\ e # z
      BY <1>2, <1>4, <2>2, SemsAre
    <3>2. a.sem[e].counter \in Nat
      BY <1>1, <3>1 DEF Memory, SemType
    <3>3. b.sem[e].counter = a.sem[e].counter
      BY <1>18, <3>1, <3>2
    <3> QED BY <2>1, <2>2, <2>4, <3>3
  <2>5. ASSUME NEW k \in Slots, y.msg[k] = v
        PROVE  (\E j \in Slots : b.box[Stack].msg[j] = v) \/ Outgoing(b, b.req[v].whom)
    <3>1. CASE k = y.head
      BY <1>9, <1>10, <1>16, <2>1, <2>5, <3>1 DEF Outgoing
    <3>2. CASE k # y.head
      <4>1. b.box[Stack] = Without(y)
        BY <1>2, <1>4, <1>6, <1>16
      <4> QED BY <1>8, <2>5, <3>2, <4>1
    <3> QED BY <3>1, <3>2
  <2> QED BY <2>3, <2>4, <2>5
<1>20. \A v \in InQueue(a) \ {Main} : a.on[v] = z => v \in Mailing(a)
  <2>1. \A v \in InQueue(a) \ {Main} : a.on[v] # Free(Stack)
    BY <1>1, WaitsOn
  <2> QED BY <1>4, <2>1
<1>21. Flow(b, "run")
  BY <1>14, <1>19, <1>20, GoStack
<1> QED BY <1>4, <1>6, <1>10, <1>11, <1>21

\* low_level_output: the request is completed, the thread that waits for it is ready.
LEMMA OutputFlow ==
  ASSUME NEW a, NEW cl, NEW pg, NEW inp, NEW lk, Good(a, "run", cl, pg, inp, lk),
         Flow(a, "run"), a.cur = Tcpip, a.req[Tcpip].pc = "output"
  PROVE  Flow(SemSignal([a EXCEPT !.req[Tcpip] = [NoReq EXCEPT !.pc = "fetch"]],
                        Done(a.req[Tcpip].whom)), "run")
<1>1. /\ a \in Memory /\ Sched(a, Line0(a)) /\ Tcpip \in Thread /\ Tcpip \in Thread \ {Main}
      /\ AllParked(a, InQueue(a)) /\ Accounted(a) /\ Tcpip \notin Buf
      /\ \A v \in Mailing(a) : v \in InQueue(a) \ {Main} /\ v \in Thread \ {Tcpip}
  BY TcpipRuns
<1>2. PICK w : w = a.req[Tcpip].whom /\ w \in Client /\ w \in Boxes
  BY Threads DEF Good, Served
<1>3. PICK e : e = Done(w) /\ e \in Sems(Boxes)
  BY <1>2, SemsAre
<1>4. PICK r \in ReqType : r = [NoReq EXCEPT !.pc = "fetch"] /\ r.pc = "fetch"
  <2>1. PICK r : r = [pc |-> "fetch", whom |-> Stack, pkt |-> NoPacket, page |-> 0]
    OBVIOUS
  <2>2. r = [NoReq EXCEPT !.pc = "fetch"]
    BY <2>1 DEF NoReq
  <2>3. r \in ReqType /\ r.pc = "fetch"
    BY <2>1, Rings, Threads DEF ReqType, Pcs
  <2> QED BY <2>2, <2>3
<1>5. PICK b0, x, o : b0 = [a EXCEPT !.req[Tcpip] = r] /\ x = a.box /\ o = NoSem
  OBVIOUS
<1>6. Did(a, b0, Tcpip, r, x, o, o)
  <2>1. Did(a, b0, Tcpip, r, a.box, NoSem, NoSem)
    BY <1>1, <1>5, ReqDid
  <2> QED BY <1>5, <2>1
<1>7. b0 \in Memory /\ b0.box = x /\ b0.req[Tcpip] = r
  <2>1. b0 \in Memory /\ b0.box = x /\ b0.req = [a.req EXCEPT ![Tcpip] = r]
    BY <1>6 DEF Did
  <2> QED BY <1>1, <2>1 DEF Memory
<1>8. Sched(b0, Line0(a))
  BY <1>1, <1>6, DidSched
<1>9. PICK b : b = SemSignal(b0, e)
  OBVIOUS
<1>10. Did(b0, b, Tcpip, r, x, o, e)
  <2>1. Did(b0, SemSignal(b0, e), Tcpip, b0.req[Tcpip], b0.box, NoSem, e)
    BY <1>1, <1>3, <1>7, <1>8, SignalDid
  <2> QED BY <1>5, <1>7, <1>9, <2>1
<1>11. Did(a, b, Tcpip, r, x, o, e)
  <2>1. Either(o, o, o) /\ Either(o, e, e) /\ o = NoSem
    BY <1>5 DEF Either
  <2> QED BY <1>1, <1>6, <1>10, <2>1, DidThen
<1>15. Stays(a, b, Tcpip, r, x, o, e)
  BY <1>1, <1>11, StayIs
<1>16. b.req[Tcpip] = r /\ b.box = x
  BY <1>15 DEF Stays
<1>17. \A v \in Buf : b.req[v] = a.req[v]
  <2>1. \A v \in Thread \ {Tcpip} : b.req[v] = a.req[v]
    BY <1>15 DEF Stays
  <2> QED BY <2>1, Threads
<1>18. \A u \in Sems(Boxes) : b.sem[u].counter =
          a.sem[u].counter + (IF u = e THEN 1 ELSE 0) - (IF u = o THEN 1 ELSE 0)
  BY <1>15 DEF Stays
<1>19. Accounted(b)
  <2> SUFFICES ASSUME NEW v \in Mailing(b)
               PROVE \/ \E k \in Slots : b.box[Stack].msg[k] = v
                     \/ Outgoing(b, b.req[v].whom)
                     \/ b.sem[Done(b.req[v].whom)].counter > 0
    BY DEF Accounted
  <2>1. v \in Mailing(a) /\ v \in Buf /\ b.req[v] = a.req[v] /\ v \in Thread
    BY <1>17, Threads DEF Mailing
  <2>2. PICK c, f : c = a.req[v].whom /\ f = Done(c) /\ c \in Boxes
    BY <1>1, <2>1 DEF Memory, ReqType
  <2>3. f \in Sems(Boxes) /\ f # o
    BY <1>5, <2>2, SemsAre, NoSemaphore
  <2>4. a.sem[f].counter \in Nat
    BY <1>1, <2>3 DEF Memory, SemType
  <2>5. b.sem[f].counter = a.sem[f].counter + (IF f = e THEN 1 ELSE 0)
    BY <1>18, <2>3, <2>4
  <2>6. \/ \E k \in Slots : a.box[Stack].msg[k] = v
        \/ Outgoing(a, c)
        \/ a.sem[f].counter > 0
    BY <1>1, <2>1, <2>2 DEF Accounted
  <2>7. Outgoing(a, c) => f = e
    BY <1>2, <1>3, <2>2 DEF Outgoing
  <2>8. Outgoing(a, c) \/ a.sem[f].counter > 0 => b.sem[f].counter > 0
    BY <2>4, <2>5, <2>7
  <2> QED BY <1>5, <1>16, <2>1, <2>2, <2>6, <2>8
<1>20. \A v \in InQueue(a) \ {Main} : a.on[v] = e => v \in Mailing(a)
  <2>1. \A v \in InQueue(a) \ {Main} : a.on[v] = Done(w) => v \in Buf /\ a.req[v].pc = "sending"
    BY <1>1, <1>2, WaitsOn
  <2> QED BY <1>3, <2>1 DEF Mailing
<1>21. Flow(b, "run")
  BY <1>11, <1>19, <1>20, GoStack
<1> QED BY <1>2, <1>3, <1>4, <1>5, <1>9, <1>21
-----------------------------------------------------------------------------
\* A round that serve() begins: whoever is ready is run before serve() runs again.
LEMMA YieldFlow ==
  ASSUME NEW m \in Memory, NEW T, Sched(m, T), m.cur = Main, Tcpip \in T,
         AllParked(m, InQueue(m)), Accounted(m), Apart(m, Buf),
         Mailing(m) # {} => Tcpip \in Woken(m),
         Tcpip \in Woken(m) => /\ Woken(m) = {Tcpip}
                               /\ \A t \in Mailing(m) : m.q # <<>> /\ t = m.q[Len(m.q)]
  PROVE  Flow(ThreadYield(m), "run")
<1>1. PICK r, line : r = ThreadYield(m) /\ line = Append(m.q, m.cur)
  OBVIOUS
<1>2. Lined(m, line) /\ Round(m, line, r)
  BY <1>1, YieldIs
<1>3. Elems(line) = T
  BY <1>1, YieldIs, ZenonT(60)
<1>4. InQueue(m) = T \ {Main} /\ Main \in T /\ T \subseteq Thread
  BY <1>1, YieldIs
<1>5. \A t \in InQueue(m) : Ahead(line, t, Main)
  BY <1>1, YieldIs
<1>6. \A t, u : Ahead(m.q, t, u) => Ahead(line, t, u)
  BY <1>1, YieldIs
<1>7. Tcpip \in Elems(line) \ {Main} /\ Tcpip \in InQueue(m) \ {Main}
  BY <1>3, <1>4, Threads
<1>8. AllParked(m, Elems(line))
  <2>1. m.on[Main] = NoSem
    BY DEF Sched
  <2>2. \A t \in Thread \ T : m.on[t] = NoSem
    BY <1>4 DEF AllParked
  <2>3. \A t \in T \ {Main} : Parked(m, t)
    BY <1>4 DEF AllParked
  <2> QED BY <1>3, <2>2, <2>3 DEF AllParked
<1>9. \A t \in Elems(line) \ {Main} : Ready(m, t) => Ahead(line, t, Main)
  BY <1>3, <1>4, <1>5
<1>10. \A t \in Elems(line) \ {Main} : Ready(m, t) => t \in Woken(m)
  BY <1>3, <1>4 DEF Woken
<1>11. CASE Tcpip \notin Woken(m)
  <2>1. Mailing(m) = {}
    BY <1>11
  <2>2. ~Ready(m, Tcpip)
    BY <1>7, <1>10, <1>11
  <2>3. \A t \in Mailing(m) : t \in Elems(line) /\ Ready(m, t)
    BY <2>1
  <2>4. Flow(r, "run")
    BY <1>2, <1>7, <1>8, <1>9, <2>2, <2>3, LastGo
  <2> QED BY <1>1, <2>4
<1>12. CASE Tcpip \in Woken(m)
  <2>1. Woken(m) = {Tcpip} /\ \A t \in Mailing(m) : m.q # <<>> /\ t = m.q[Len(m.q)]
    BY <1>12
  <2>2. /\ r.cur \in Elems(line) /\ Ready(m, r.cur) /\ r.on[r.cur] = NoSem
        /\ InQueue(r) = Elems(line) \ {r.cur}
    BY <1>2, RoundIs
  <2>3. \A t \in Elems(line) \ {r.cur} : Ready(m, t) => Ahead(line, r.cur, t)
    BY <1>2, RoundIs
  <2>4. r.cur # Main => \A t : Ahead(line, r.cur, t) /\ Ahead(line, t, Main) => Before(r.q, t)
    BY <1>2, RoundIs
  <2>5. \A t \in Thread \ {r.cur} :
               r.on[t] = m.on[t] /\ r.wake[t] = m.wake[t] /\ (Ready(r, t) <=> Ready(m, t))
    BY <1>2, RoundIs
  <2>6. /\ r.req = m.req /\ r.box = m.box /\ r.sem = m.sem /\ line \in Seq(Thread)
        /\ Apiece(line) /\ Main \in Elems(line)
    BY <1>2 DEF Round, Lined
  <2>7. Ready(m, Tcpip)
    BY <1>12 DEF Woken
  <2>8. r.cur # Main
    <3>1. ASSUME r.cur = Main PROVE FALSE
      <4>1. Ahead(line, Main, Tcpip) /\ Ahead(line, Tcpip, Main)
        BY <1>7, <1>9, <2>3, <2>7, <3>1
      <4> QED BY <1>7, <2>6, <4>1, InLine
    <3> QED BY <3>1
  <2>9. r.cur = Tcpip
    BY <1>10, <2>1, <2>2, <2>8
  <2>10. Woken(r) = {}
    <3>1. ASSUME NEW t \in Woken(r) PROVE FALSE
      <4>1. t \in Elems(line) \ {Tcpip, Main} /\ Ready(r, t)
        BY <2>2, <2>9 DEF Woken
      <4>2. Ready(m, t)
        BY <1>3, <1>4, <2>5, <2>9, <4>1
      <4> QED BY <1>10, <2>1, <4>1, <4>2
    <3> QED BY <3>1
  <2>11. AllParked(r, InQueue(r))
    <3>1. ASSUME NEW v \in InQueue(r) \ {Main} PROVE Parked(r, v)
      <4>1. v \in Elems(line) \ {Main} /\ v \in Thread \ {r.cur}
        BY <1>3, <1>4, <2>2, <3>1
      <4>2. Needs(m, v, m.on[v]) /\ r.on[v] = m.on[v]
        BY <1>8, <2>5, <4>1 DEF AllParked, Parked
      <4> QED BY <2>6, <4>2 DEF Parked, Needs
    <3>2. ASSUME NEW v \in Thread \ InQueue(r) PROVE r.on[v] = NoSem
      <4>1. CASE v = r.cur
        BY <2>2, <4>1
      <4>2. CASE v # r.cur
        BY <1>8, <2>2, <2>5, <3>2, <4>2 DEF AllParked
      <4> QED BY <4>1, <4>2
    <3> QED BY <3>1, <3>2 DEF AllParked
  <2>12. Accounted(r) /\ Apart(r, Buf) /\ Mailing(r) = Mailing(m)
    BY <2>6 DEF Accounted, Apart, Mailing, Outgoing
  <2>13. ASSUME NEW t \in Mailing(r) PROVE Before(r.q, t)
    <3>1. m.q # <<>> /\ t = m.q[Len(m.q)] /\ t # Tcpip
      BY <2>1, <2>12, <2>13, Threads DEF Mailing
    <3>2. m.q \in Seq(Thread)
      BY DEF Memory
    <3>3. Len(m.q) \in DOMAIN m.q /\ Len(m.q) \in Nat /\ DOMAIN m.q = 1 .. Len(m.q)
      BY <3>1, <3>2
    <3>4. PICK i \in DOMAIN m.q : m.q[i] = Tcpip
      BY <1>7 DEF InQueue
    <3>5. i < Len(m.q)
      BY <3>1, <3>3, <3>4
    <3>6. Ahead(m.q, Tcpip, t)
      BY <3>1, <3>3, <3>4, <3>5 DEF Ahead
    <3>7. t \in InQueue(m)
      BY <3>1, <3>3 DEF InQueue
    <3> QED BY <1>5, <1>6, <2>4, <2>8, <2>9, <3>6, <3>7
  <2>14. LastRound(r)
    BY <2>8, <2>9, <2>10, <2>12, <2>13, Threads DEF LastRound
  <2>15. Flow(r, "run")
    BY <2>11, <2>12, <2>14 DEF Flow
  <2> QED BY <1>1, <2>15
<1> QED BY <1>11, <1>12

\* serve() runs and nobody is ready: it goes on running.
LEMMA StillTurn ==
  ASSUME NEW a, NEW b, a \in Memory, Turn(a), Woken(a) = {}, AllParked(a, InQueue(a)), Accounted(a),
         b.q = a.q, b.cur = a.cur, b.on = a.on, b.wake = a.wake, b.sem = a.sem, b.box = a.box,
         \A t \in Thread \ {Main} : b.req[t] = a.req[t]
  PROVE  Turn(b) /\ Woken(b) = {} /\ AllParked(b, InQueue(b)) /\ Accounted(b) /\ Mailing(b) = {}
<1>1. InQueue(b) = InQueue(a) /\ InQueue(a) \subseteq Thread
  BY DEF InQueue, Memory
<1>2. Woken(b) = {}
  BY <1>1 DEF Woken, Ready
<1>3. \A t \in Buf : b.req[t] = a.req[t]
  BY Threads
<1>4. Mailing(a) = {} /\ Mailing(b) = {}
  BY <1>3 DEF Turn, Mailing
<1>5. Apart(b, Buf)
  BY <1>3 DEF Turn, Apart
<1>6. AllParked(b, InQueue(b))
  <2>1. ASSUME NEW v \in InQueue(b) \ {Main} PROVE Parked(b, v)
    <3>1. Needs(a, v, a.on[v]) /\ v \in Thread \ {Main}
      BY <1>1, <2>1 DEF AllParked, Parked
    <3> QED BY <3>1 DEF Parked, Needs
  <2>2. \A v \in Thread \ InQueue(b) : b.on[v] = NoSem
    BY <1>1 DEF AllParked
  <2> QED BY <2>1, <2>2 DEF AllParked
<1>7. Accounted(b)
  BY <1>4 DEF Accounted
<1> QED BY <1>2, <1>4, <1>5, <1>6, <1>7 DEF Turn
-----------------------------------------------------------------------------
\* What only serve() has of its own differs.
Kept0(a, b) ==
    /\ b.q = a.q /\ b.cur = a.cur /\ b.on = a.on /\ b.wake = a.wake
    /\ b.sem = a.sem /\ b.box = a.box
    /\ \A t \in Thread \ {Main} : b.req[t] = a.req[t]

LEMMA TurnIs ==
  ASSUME NEW a, NEW md, NEW cl, NEW pg, NEW inp, NEW lk, Good(a, md, cl, pg, inp, lk),
         Flow(a, md), a.cur = Main
  PROVE  /\ a \in Memory /\ Sched(a, Line0(a)) /\ Tcpip \in Line0(a)
         /\ Turn(a) /\ AllParked(a, InQueue(a)) /\ Accounted(a)
<1>1. a \in Memory /\ Sched(a, Line0(a)) /\ Tcpip \in Line0(a)
  BY DEF Good, Line0
<1>2. AllParked(a, InQueue(a)) /\ Accounted(a) /\ (FirstRound(a) \/ LastRound(a) \/ Turn(a))
  BY DEF Flow
<1>3. ~FirstRound(a) /\ ~LastRound(a)
  BY Threads DEF FirstRound, LastRound
<1> QED BY <1>1, <1>2, <1>3

LEMMA MainYields ==
  ASSUME NEW a, NEW md, NEW cl, NEW pg, NEW inp, NEW lk, Good(a, md, cl, pg, inp, lk),
         Flow(a, md), a.cur = Main, NEW b \in Memory, Kept0(a, b), NEW T, Sched(b, T), Tcpip \in T
  PROVE  Flow(ThreadYield(b), "run")
<1>1. a \in Memory /\ Turn(a) /\ AllParked(a, InQueue(a)) /\ Accounted(a)
  BY TurnIs
<1>2. InQueue(b) = InQueue(a) /\ InQueue(a) \subseteq Thread
  BY <1>1 DEF InQueue, Memory, Kept0
<1>3. Woken(b) = Woken(a)
  BY <1>2 DEF Woken, Ready, Kept0
<1>4. \A t \in Buf \cup {Tcpip} : b.req[t] = a.req[t]
  BY Threads DEF Kept0
<1>5. Mailing(b) = Mailing(a)
  BY <1>4 DEF Mailing
<1>6. Apart(b, Buf)
  BY <1>1, <1>4 DEF Turn, Apart
<1>7. AllParked(b, InQueue(b))
  <2>1. ASSUME NEW v \in InQueue(b) \ {Main} PROVE Parked(b, v)
    <3>1. Needs(a, v, a.on[v]) /\ v \in Thread \ {Main}
      BY <1>1, <1>2, <2>1 DEF AllParked, Parked
    <3>2. b.req[v] = a.req[v] /\ b.on = a.on
      BY <3>1 DEF Kept0
    <3> QED BY <3>1, <3>2 DEF Parked, Needs
  <2>2. \A v \in Thread \ InQueue(b) : b.on[v] = NoSem
    BY <1>1, <1>2 DEF AllParked, Kept0
  <2> QED BY <2>1, <2>2 DEF AllParked
<1>8. Accounted(b)
  <2>1. b.sem = a.sem /\ b.box = a.box /\ b.req[Tcpip] = a.req[Tcpip]
    BY <1>4 DEF Kept0
  <2>2. \A t \in Mailing(a) : b.req[t] = a.req[t]
    BY <1>4 DEF Mailing
  <2> QED BY <1>1, <1>5, <2>1, <2>2 DEF Accounted, Outgoing
<1>9. b.q = a.q /\ b.cur = Main
  BY DEF Kept0
<1>10. Mailing(b) # {} => Tcpip \in Woken(b)
  BY <1>1, <1>3, <1>5 DEF Turn
<1>11. Tcpip \in Woken(b) => /\ Woken(b) = {Tcpip}
                             /\ \A t \in Mailing(b) : b.q # <<>> /\ t = b.q[Len(b.q)]
  BY <1>1, <1>3, <1>5, <1>9 DEF Turn
<1> QED BY <1>6, <1>7, <1>8, <1>9, <1>10, <1>11, YieldFlow

\* serve() yields once more while a wakeup is pending.
LEMMA AgainFlow ==
  ASSUME NEW a, NEW cl, NEW pg, NEW inp, NEW lk, Good(a, "run", cl, pg, inp, lk),
         Flow(a, "run"), a.cur = Main
  PROVE  Flow(ThreadYield([a EXCEPT !.yields = @ + 1]), "run")
<1>1. PICK b : b = [a EXCEPT !.yields = @ + 1]
  OBVIOUS
<1>2. Good(b, "run", cl, pg, inp, lk)
  BY <1>1, CountYield
<1>3. a \in Memory /\ b \in Memory /\ Sched(b, Line0(b)) /\ Tcpip \in Line0(b)
  BY <1>2 DEF Good, Line0
<1>4. Kept0(a, b)
  BY <1>1, <1>3 DEF Kept0, Memory
<1>5. Flow(ThreadYield(b), "run")
  BY <1>3, <1>4, MainYields
<1> QED BY <1>1, <1>5

\* A round for the timer's message.
LEMMA TimerFlow ==
  ASSUME NEW a, NEW cl, NEW pg, NEW inp, NEW lk, Good(a, "recv", cl, pg, inp, lk),
         Flow(a, "recv")
  PROVE  Flow(ThreadYield([a EXCEPT !.req[Main].pc = "timer"]), "run")
<1>1. PICK b : b = [a EXCEPT !.req[Main].pc = "timer"]
  OBVIOUS
<1>2. Good(b, "run", cl, pg, inp, lk)
  BY <1>1, TimerGood
<1>3. a \in Memory /\ b \in Memory /\ Sched(b, Line0(b)) /\ Tcpip \in Line0(b)
  BY <1>2 DEF Good, Line0
<1>4. Kept0(a, b)
  BY <1>1, <1>3 DEF Kept0, Memory
<1>5. a.cur = Main
  BY DEF Good, Blocked
<1>6. Flow(ThreadYield(b), "run")
  BY <1>3, <1>4, <1>5, MainYields
<1> QED BY <1>1, <1>6

\* serve() does not yield again: nobody is ready.
LEMMA NobodyReady ==
  ASSUME NEW a, NEW cl, NEW pg, NEW inp, NEW lk, Good(a, "run", cl, pg, inp, lk),
         Flow(a, "run"), a.cur = Main, ~(WakeupsPending(a) /\ a.yields < MaxYields)
  PROVE  Woken(a) = {}
<1>1. Turn(a)
  BY TurnIs
<1>2. ASSUME NEW t \in Woken(a) PROVE FALSE
  <2>1. t \in InQueue(a) /\ a.wake[t] /\ a.yields = 0
    BY <1>1, <1>2 DEF Turn, Woken
  <2>2. WakeupsPending(a)
    BY <2>1 DEF WakeupsPending
  <2>3. 0 < MaxYields
    BY Sizes
  <2> QED BY <2>1, <2>2, <2>3
<1> QED BY <1>2

\* serve() goes on to another point with the threads as they are.
LEMMA GoesOn ==
  ASSUME NEW a, NEW md, NEW cl, NEW pg, NEW inp, NEW lk, Good(a, md, cl, pg, inp, lk),
         Flow(a, md), a.cur = Main, Woken(a) = {}, NEW b, Kept0(a, b),
         NEW md2 \in {"run", "recv", "panic"}, md2 = "panic" => b.buse = Buf /\ b.req[Main].pc = "serve"
  PROVE  Flow(b, md2)
<1>1. a \in Memory /\ Turn(a) /\ AllParked(a, InQueue(a)) /\ Accounted(a)
  BY TurnIs
<1>2. /\ b.q = a.q /\ b.cur = a.cur /\ b.on = a.on /\ b.wake = a.wake /\ b.sem = a.sem
      /\ b.box = a.box /\ \A t \in Thread \ {Main} : b.req[t] = a.req[t]
  BY DEF Kept0
<1>3. Turn(b) /\ Woken(b) = {} /\ AllParked(b, InQueue(b)) /\ Accounted(b) /\ Mailing(b) = {}
  BY <1>1, <1>2, StillTurn
<1> QED BY <1>3 DEF Flow

\* What serve() sets of its own.
LEMMA ServeIs ==
  ASSUME NEW m \in Memory
  PROVE  Kept0(m, Serve(m)) /\ Serve(m).yields = 0 /\ Serve(m).req[Main].pc = "serve"
<1>1. PICK r : r = [m.req[Main] EXCEPT !.pc = "serve"]
  OBVIOUS
<1>2. m.req \in [Thread -> ReqType] /\ m.req[Main] \in ReqType /\ Main \in Thread
  BY Threads DEF Memory
<1>3. r.pc = "serve"
  BY <1>1, <1>2 DEF ReqType
<1>4. PICK g : g = [m.req EXCEPT ![Main] = r]
  OBVIOUS
<1>5. g[Main] = r /\ \A t \in Thread \ {Main} : g[t] = m.req[t]
  BY <1>2, <1>4
<1>6. PICK b : b = Serve(m)
  OBVIOUS
<1>7. b = [m EXCEPT !.req = g, !.yields = 0, !.va = 0]
  BY <1>1, <1>2, <1>4, <1>6 DEF Serve, Memory
<1>8. /\ b.q = m.q /\ b.on = m.on /\ b.cur = m.cur /\ b.wake = m.wake /\ b.box = m.box
      /\ b.sem = m.sem /\ b.req = g /\ b.yields = 0
  BY <1>7 DEF Memory
<1>9. Kept0(m, b) /\ b.yields = 0 /\ b.req[Main].pc = "serve"
  BY <1>3, <1>5, <1>8 DEF Kept0
<1> QED BY <1>6, <1>9
-----------------------------------------------------------------------------
\* serve() blocks in ipc_recv with a buffer, or panics for want of one.
LEMMA BlocksFlow ==
  ASSUME NEW a, NEW cl, NEW pg, NEW inp, NEW lk, Good(a, "run", cl, pg, inp, lk),
         Flow(a, "run"), a.cur = Main, a.req[Main].pc = "serve",
         ~(WakeupsPending(a) /\ a.yields < MaxYields)
  PROVE  /\ a.buse = Buf => Flow(a, "panic")
         /\ \A f : Flow([a EXCEPT !.buse = @ \cup {f}, !.va = f], "recv")
<1>1. Woken(a) = {} /\ a \in Memory
  BY NobodyReady DEF Good
<1>2. ASSUME a.buse = Buf PROVE Flow(a, "panic")
  <2>1. Kept0(a, a)
    BY DEF Kept0
  <2> QED BY <1>1, <1>2, <2>1, GoesOn
<1>3. ASSUME NEW f PROVE Flow([a EXCEPT !.buse = @ \cup {f}, !.va = f], "recv")
  <2>1. PICK b : b = [a EXCEPT !.buse = @ \cup {f}, !.va = f]
    OBVIOUS
  <2>2. Kept0(a, b)
    BY <1>1, <2>1 DEF Kept0, Memory
  <2>3. Flow(b, "recv")
    BY <1>1, <2>2, GoesOn
  <2> QED BY <2>1, <2>3
<1> QED BY <1>2, <1>3

\* A message without a page: serve() goes on.
LEMMA LeakFlow ==
  ASSUME NEW a, NEW cl, NEW pg, NEW inp, NEW lk, Good(a, "recv", cl, pg, inp, lk),
         Flow(a, "recv")
  PROVE  Flow(Serve(a), "run")
<1>1. a.cur = Main /\ a \in Memory /\ Woken(a) = {}
  BY DEF Good, Blocked, Flow
<1>2. PICK b : b = Serve(a)
  OBVIOUS
<1>3. Kept0(a, b)
  BY <1>1, <1>2, ServeIs
<1>4. Flow(b, "run")
  BY <1>1, <1>3, GoesOn
<1> QED BY <1>2, <1>4

\* The end of process_timer.
LEMMA TimerDoneFlow ==
  ASSUME NEW a, NEW cl, NEW pg, NEW inp, NEW lk, Good(a, "run", cl, pg, inp, lk),
         Flow(a, "run"), a.cur = Main, a.req[Main].pc = "timer"
  PROVE  Flow(Serve([a EXCEPT !.buse = @ \ {a.va}]), "run")
<1>1. a \in Memory /\ Turn(a) /\ a.buse \in SUBSET Buf
  BY TurnIs DEF Memory
<1>2. Woken(a) = {}
  BY <1>1 DEF Turn
<1>3. PICK m : m = [a EXCEPT !.buse = @ \ {a.va}]
  OBVIOUS
<1>4. m \in Memory /\ Kept0(a, m)
  BY <1>1, <1>3 DEF Memory, Kept0
<1>5. PICK b : b = Serve(m)
  OBVIOUS
<1>6. Kept0(m, b)
  BY <1>4, <1>5, ServeIs
<1>7. Kept0(a, b)
  BY <1>4, <1>6 DEF Kept0
<1>8. Flow(b, "run")
  BY <1>2, <1>7, GoesOn
<1> QED BY <1>3, <1>5, <1>8

\* serve() before the round for a new request: its thread t is the last of the queue.
Created(a, t, rq, b) ==
    /\ b \in Memory /\ Sched(b, Line0(a) \cup {t}) /\ b.q = Append(a.q, t) /\ b.cur = Main
    /\ b.on = a.on /\ b.wake = a.wake /\ b.sem = a.sem /\ b.box = a.box
    /\ b.req[t] = rq /\ \A v \in Thread \ {Main, t} : b.req[v] = a.req[v]
    /\ b.yields = 0 /\ b.req[Main].pc = "serve"

LEMMA CreatedIs ==
  ASSUME NEW a \in Memory, Sched(a, Line0(a)), a.cur = Main, NEW t \in Buf, t \notin Line0(a),
         NEW rq \in ReqType
  PROVE  Created(a, t, rq, Serve(ThreadCreate([a EXCEPT !.req[t] = rq], t)))
<1>1. t \in Thread /\ t # Main
  BY Threads
<1>2. PICK m1 : m1 = [a EXCEPT !.req[t] = rq]
  OBVIOUS
<1>a. PICK g : g = [a.req EXCEPT ![t] = rq]
  OBVIOUS
<1>b. g \in [Thread -> ReqType] /\ m1 = [a EXCEPT !.req = g]
  BY <1>1, <1>2, <1>a DEF Memory
<1>3. m1 \in Memory /\ m1.req = g
  BY <1>b DEF Memory
<1>4. /\ m1.q = a.q /\ m1.cur = Main /\ m1.on = a.on /\ m1.wake = a.wake
      /\ m1.sem = a.sem /\ m1.box = a.box
  BY <1>b DEF Memory
<1>c. Sched(m1, Line0(a))
  BY <1>4 DEF Sched
<1>5. m1.req[t] = rq /\ \A v \in Thread \ {t} : m1.req[v] = a.req[v]
  BY <1>1, <1>3, <1>a DEF Memory
<1>6. PICK m2 : m2 = ThreadCreate(m1, t)
  OBVIOUS
<1>7. m2 \in Memory /\ Sched(m2, Line0(a) \cup {t})
  BY <1>1, <1>3, <1>6, <1>c, CreateKeeps
<1>8. /\ m2.q = Append(a.q, t) /\ m2.cur = Main /\ m2.on = a.on /\ m2.wake = a.wake
      /\ m2.sem = a.sem /\ m2.box = a.box /\ m2.req = m1.req
  <2>1. m2 = [m1 EXCEPT !.q = Append(m1.q, t)]
    BY <1>6 DEF ThreadCreate
  <2> QED BY <1>3, <1>4, <2>1 DEF Memory
<1>9. PICK b : b = Serve(m2)
  OBVIOUS
<1>10. b \in Memory /\ Sched(b, Line0(a) \cup {t})
  BY <1>7, <1>9, ServeKeeps
<1>11. Kept0(m2, b) /\ b.yields = 0 /\ b.req[Main].pc = "serve"
  BY <1>7, <1>9, ServeIs
<1>12. /\ b.q = Append(a.q, t) /\ b.cur = Main /\ b.on = a.on /\ b.wake = a.wake
       /\ b.sem = a.sem /\ b.box = a.box
  BY <1>8, <1>11 DEF Kept0
<1>15. \A v \in Thread \ {Main} : b.req[v] = m1.req[v]
  <2>1. \A v \in Thread \ {Main} : b.req[v] = m2.req[v]
    BY <1>11 DEF Kept0
  <2>2. m2.req = m1.req
    BY <1>8
  <2> QED BY <2>1, <2>2
<1>13. b.req[t] = rq /\ \A v \in Thread \ {Main, t} : b.req[v] = a.req[v]
  BY <1>1, <1>5, <1>15
<1>14. Created(a, t, rq, b)
  BY <1>10, <1>11, <1>12, <1>13 DEF Created
<1> QED BY <1>2, <1>6, <1>9, <1>14

LEMMA YieldLine ==
  ASSUME NEW m \in Memory, NEW T, Sched(m, T), NEW line, line = Append(m.q, m.cur)
  PROVE  Elems(line) = T
BY YieldIs, ZenonT(60)

\* A message with a page: the thread of the request runs, serve() comes next.
LEMMA CreatedFlow ==
  ASSUME NEW a, NEW cl, NEW pg, NEW inp, NEW lk, Good(a, "recv", cl, pg, inp, lk),
         Flow(a, "recv"), NEW t \in Buf, t \notin Line0(a),
         NEW rq \in ReqType, rq.pc \in {"send", "recv", "input"},
         NEW b \in Memory, Created(a, t, rq, b), NEW T,
         \A v : v \in T <=> v \in Line0(a) \cup {t}, Sched(b, T)
  PROVE  Flow(ThreadYield(b), "run")
<1>2. /\ a \in Memory /\ Sched(a, Line0(a)) /\ a.cur = Main /\ Woken(a) = {}
  BY DEF Good, Blocked, Flow
<1>3. Turn(a) /\ AllParked(a, InQueue(a)) /\ Accounted(a)
  BY <1>2, TurnIs
<1>6. /\ b.q = Append(a.q, t) /\ b.cur = Main
      /\ b.on = a.on /\ b.wake = a.wake /\ b.sem = a.sem /\ b.box = a.box
      /\ b.yields = 0 /\ b.req[Main].pc = "serve"
  BY DEF Created
<1>7. b.req[t] = rq /\ \A v \in Thread \ {Main, t} : b.req[v] = a.req[v]
  BY DEF Created
<1>8. /\ t \in Thread /\ t # Main /\ t # Tcpip /\ Main \in Line0(a)
      /\ InQueue(a) = Line0(a) \ {Main} /\ InQueue(a) \subseteq Thread /\ t \notin InQueue(a)
  <2>1. t \in Thread /\ t # Main /\ t # Tcpip
    BY <1>2, Threads
  <2>2. Line(a.q, Main, Line0(a)) /\ Main \in Line0(a)
    BY <1>2 DEF Sched
  <2>3. InQueue(a) = Line0(a) \ {Main}
    BY <2>2 DEF Line, InQueue
  <2>4. Line0(a) \subseteq Thread
    BY Threads DEF Line0, Busy
  <2> QED BY <1>2, <2>1, <2>2, <2>3, <2>4
<1>9. Ready(b, t)
  BY <1>3, <1>6, <1>8 DEF AllParked, Ready
<1>10. \A v \in InQueue(a) : ~Ready(b, v)
  BY <1>2, <1>6, <1>8 DEF Woken, Ready
<1>11. PICK r, line : r = ThreadYield(b) /\ line = Append(b.q, b.cur)
  OBVIOUS
<1>12. Lined(b, line) /\ Round(b, line, r)
  BY <1>11, YieldIs
<1>13. Elems(line) = T
  BY <1>11, YieldLine
<1>14. InQueue(b) = T \ {Main} /\ \A v \in InQueue(b) : Ahead(line, v, Main)
  <2>1. InQueue(b) = T \ {b.cur} /\ \A v \in InQueue(b) : Ahead(line, v, b.cur)
    BY <1>11, YieldIs
  <2> QED BY <1>6, <2>1
<1>15. /\ line[Len(line)] = Main /\ Len(line) = Len(b.q) + 1
       /\ \A i \in DOMAIN b.q : i \in DOMAIN line /\ line[i] = b.q[i]
  <2>1. /\ line[Len(line)] = b.cur /\ Len(line) = Len(b.q) + 1
        /\ \A i \in DOMAIN b.q : i \in DOMAIN line /\ line[i] = b.q[i]
    BY <1>11, YieldIs
  <2> QED BY <1>6, <2>1
<1>16. /\ r.cur \in Elems(line) /\ Ready(b, r.cur) /\ r.on[r.cur] = NoSem
       /\ InQueue(r) = Elems(line) \ {r.cur}
  BY <1>12, RoundIs
<1>17. \A v \in Elems(line) \ {r.cur} : Ready(b, v) => Ahead(line, r.cur, v)
  BY <1>12, RoundIs
<1>18. \A v \in Thread \ {r.cur} :
          r.on[v] = b.on[v] /\ r.wake[v] = b.wake[v] /\ (Ready(r, v) <=> Ready(b, v))
  BY <1>12, RoundIs
<1>19. \A k \in DOMAIN line : line[k] = r.cur => Chosen(b, line, r, k)
  BY <1>12, RoundIs
<1>20. /\ r.req = b.req /\ r.yields = b.yields /\ line \in Seq(Thread) /\ Apiece(line)
       /\ Main \in Elems(line) /\ r.q \in Seq(Thread)
  BY <1>12 DEF Round, Lined, Memory
<1>21. T = InQueue(a) \cup {Main, t} /\ t \in Elems(line) /\ t \in InQueue(b)
  BY <1>8, <1>13, <1>14
<1>22. r.cur = t
  <2>1. r.cur \in {Main, t}
    BY <1>10, <1>13, <1>16, <1>21
  <2>2. ASSUME r.cur = Main PROVE FALSE
    <3>1. Ahead(line, Main, t) /\ Ahead(line, t, Main)
      BY <1>8, <1>9, <1>14, <1>17, <1>21, <2>2
    <3> QED BY <1>8, <1>20, <1>21, <3>1, InLine
  <2> QED BY <2>1, <2>2
<1>23. r.q # <<>> /\ r.q[1] = Main
  <2>1. PICK q \in Seq(Thread) : q = a.q
    BY <1>2 DEF Memory
  <2>2. PICK k \in Nat : k = Len(q) + 1
    BY <2>1
  <2>3. k \in DOMAIN b.q /\ b.q[k] = t /\ Len(b.q) = k
    BY <1>6, <1>8, <2>1, <2>2
  <2>4. k \in DOMAIN line /\ line[k] = t /\ Len(line) = k + 1 /\ k >= 1
    BY <1>15, <2>1, <2>2, <2>3
  <2>5. Chosen(b, line, r, k)
    BY <1>19, <1>22, <2>4
  <2>6. Len(r.q) = k /\ r.q[1] = line[k + 1]
    <3>1. /\ Len(r.q) = Len(line) - 1
          /\ \A i \in 1 .. Len(line) - 1 :
                r.q[i] = IF i <= Len(line) - k THEN line[k + i] ELSE line[i - (Len(line) - k)]
      BY <2>5 DEF Chosen
    <3>2. 1 \in 1 .. Len(line) - 1 /\ 1 <= Len(line) - k
      BY <2>2, <2>4
    <3> QED BY <2>2, <2>4, <3>1, <3>2
  <2>7. Len(r.q) # 0
    BY <2>2, <2>4, <2>6
  <2>8. r.q # <<>>
    BY <2>7
  <2> QED BY <1>15, <2>4, <2>6, <2>8
<1>24. InQueue(r) = InQueue(a) \cup {Main}
  BY <1>8, <1>13, <1>16, <1>21, <1>22
<1>25. Woken(r) = {}
  BY <1>8, <1>10, <1>18, <1>22, <1>24 DEF Woken
<1>26. AllParked(r, InQueue(r))
  <2>1. ASSUME NEW v \in InQueue(r) \ {Main} PROVE Parked(r, v)
    <3>1. v \in InQueue(a) \ {Main} /\ v \in Thread \ {Main, t} /\ v \in Thread \ {r.cur}
      BY <1>8, <1>22, <1>24, <2>1
    <3>2. Needs(a, v, a.on[v])
      BY <1>3, <3>1 DEF AllParked, Parked
    <3>3. r.req[v] = a.req[v] /\ r.on[v] = a.on[v]
      BY <1>6, <1>7, <1>18, <1>20, <3>1
    <3> QED BY <3>2, <3>3 DEF Parked, Needs
  <2>2. ASSUME NEW v \in Thread \ InQueue(r) PROVE r.on[v] = NoSem
    <3>1. CASE v = t
      BY <1>16, <1>22, <3>1
    <3>2. CASE v # t
      <4>1. v \in Thread \ InQueue(a) /\ v \in Thread \ {r.cur}
        BY <1>22, <1>24, <2>2, <3>2
      <4>2. a.on[v] = NoSem
        BY <1>3, <4>1 DEF AllParked
      <4> QED BY <1>6, <1>18, <4>1, <4>2
    <3> QED BY <3>1, <3>2
  <2> QED BY <2>1, <2>2 DEF AllParked
<1>27. /\ r.req[t] = rq /\ r.req[Main].pc = "serve" /\ r.yields = 0
       /\ \A v \in Buf \ {t} : r.req[v] = a.req[v]
  BY <1>6, <1>7, <1>20, Threads
<1>28. Mailing(r) = {}
  <2>1. Mailing(a) = {}
    BY <1>2, <1>3 DEF Turn
  <2> QED BY <1>27, <2>1 DEF Mailing
<1>29. Apart(r, Buf \ {t})
  <2>1. Apart(a, Buf)
    BY <1>3 DEF Turn
  <2> QED BY <1>27, <2>1 DEF Apart
<1>30. Accounted(r)
  BY <1>28 DEF Accounted
<1>31. FirstRound(r)
  BY <1>2, <1>22, <1>23, <1>25, <1>27, <1>28, <1>29 DEF FirstRound
<1>32. Flow(r, "run")
  BY <1>26, <1>30, <1>31 DEF Flow
<1> QED BY <1>11, <1>32

LEMMA AcceptFlow ==
  ASSUME NEW a, NEW cl, NEW pg, NEW inp, NEW lk, Good(a, "recv", cl, pg, inp, lk),
         Flow(a, "recv"), NEW rq \in ReqType, rq.pc \in {"send", "recv", "input"}
  PROVE  Flow(ThreadYield(Serve(ThreadCreate([a EXCEPT !.req[a.va] = rq], a.va))), "run")
<1>1. PICK t : t = a.va
  OBVIOUS
<1>2. a \in Memory /\ Sched(a, Line0(a)) /\ a.cur = Main /\ t \in Buf /\ t \notin Line0(a)
  BY <1>1, Threads DEF Good, Blocked, Memory, Held, Line0
<1>3. PICK b, T : b = Serve(ThreadCreate([a EXCEPT !.req[t] = rq], t)) /\ T = Line0(a) \cup {t}
  OBVIOUS
<1>4. Created(a, t, rq, b)
  BY <1>2, <1>3, CreatedIs
<1>5. b \in Memory /\ Sched(b, T)
  BY <1>3, <1>4 DEF Created
<1>6. Flow(ThreadYield(b), "run")
  BY <1>2, <1>3, <1>4, <1>5, CreatedFlow
<1> QED BY <1>1, <1>3, <1>6
-----------------------------------------------------------------------------
\* serve() starts, and lwIP's thread waits for its first message.
LEMMA FlowInit == Init => Flow(n, mode)
<1> SUFFICES ASSUME Init PROVE Flow(n, mode)
  OBVIOUS
<1>1. PICK sem, box, req, on, wake :
        /\ sem = [NewSems(Boxes) EXCEPT ![Queued(Stack)].waiters = 1]
        /\ box = NewBoxes(Boxes)
        /\ req = [t \in Thread |-> CASE t = Main -> [NoReq EXCEPT !.pc = "serve"]
                                     [] t = Tcpip -> [NoReq EXCEPT !.pc = "fetch"]
                                     [] OTHER -> NoReq]
        /\ on = [t \in Thread |-> IF t = Tcpip THEN Queued(Stack) ELSE NoSem]
        /\ wake = [t \in Thread |-> FALSE]
  OBVIOUS
<1>2. /\ n = [q |-> <<Tcpip>>, cur |-> Main, on |-> on, wake |-> wake, sem |-> sem, box |-> box,
              req |-> req, buse |-> {}, va |-> 0, yields |-> 0]
      /\ mode = "run"
  BY <1>1 DEF Init
<1>3. /\ n.q = <<Tcpip>> /\ n.cur = Main /\ n.on = on /\ n.wake = wake /\ n.sem = sem
      /\ n.req = req /\ n.yields = 0
  BY <1>2
<1>4. PICK none, fetch : none = NoReq /\ fetch = [NoReq EXCEPT !.pc = "fetch"]
  OBVIOUS
<1>5. none.pc = "none" /\ fetch.pc = "fetch"
  BY <1>4 DEF NoReq
<1>6. req[Tcpip] = fetch /\ \A t \in Buf : req[t] = none
  BY <1>1, <1>4, Threads
<1>7. InQueue(n) = {Tcpip}
  BY <1>3 DEF InQueue
<1>8. PICK s \in Sems(Boxes) : s = Queued(Stack) /\ s # NoSem
  BY Threads, SemsAre, NoSemaphore
<1>9. on[Tcpip] = s /\ wake[Tcpip] = FALSE /\ \A t \in Thread \ {Tcpip} : on[t] = NoSem
  BY <1>1, <1>8, Threads
<1>10. sem[s] = Asleep
  <2>1. PICK s0 : s0 = NewSems(Boxes)
    OBVIOUS
  <2>2. s[2] = "queued_msg"
    BY <1>8 DEF Queued
  <2>3. s0[s] = [counter |-> 0, waiters |-> 0] /\ DOMAIN s0 = Sems(Boxes)
    BY <2>1, <2>2 DEF NewSems
  <2>4. sem = [s0 EXCEPT ![s] = [s0[s] EXCEPT !.waiters = 1]]
    BY <1>1, <1>8, <2>1
  <2>5. sem[s] = [s0[s] EXCEPT !.waiters = 1]
    BY <2>3, <2>4
  <2> QED BY <2>3, <2>5 DEF Asleep
<1>11. Woken(n) = {}
  <2>1. ~Ready(n, Tcpip)
    BY <1>3, <1>8, <1>9, <1>10 DEF Ready
  <2> QED BY <1>7, <2>1 DEF Woken
<1>12. Mailing(n) = {}
  BY <1>3, <1>5, <1>6 DEF Mailing
<1>13. AllParked(n, InQueue(n))
  <2>1. Needs(n, Tcpip, n.on[Tcpip])
    BY <1>3, <1>5, <1>6, <1>8, <1>9 DEF Needs
  <2> QED BY <1>3, <1>7, <1>9, <2>1 DEF AllParked, Parked
<1>14. Turn(n)
  <2>1. Apart(n, Buf)
    BY <1>3, <1>5, <1>6 DEF Apart
  <2> QED BY <1>3, <1>11, <1>12, <2>1 DEF Turn
<1> QED BY <1>2, <1>12, <1>13, <1>14 DEF Flow, Accounted

\* serve() between two messages.
LEMMA MainServeFlow == ASSUME IInv, Flow(n, mode), MainServe PROVE Flow(n', mode')
<1>1. /\ Good(n, "run", client, page, input, leaked) /\ Flow(n, "run") /\ mode = "run"
      /\ n.cur = Main /\ n.req[Main].pc = "serve"
  <2>1. At(Main, "serve")
    BY DEF MainServe
  <2> QED BY <2>1, Running
<1>2. CASE WakeupsPending(n) /\ n.yields < MaxYields
  <2>1. n' = ThreadYield([n EXCEPT !.yields = @ + 1]) /\ mode' = mode
    BY <1>2 DEF MainServe
  <2>2. Flow(ThreadYield([n EXCEPT !.yields = @ + 1]), "run")
    BY <1>1, AgainFlow
  <2> QED BY <1>1, <2>1, <2>2
<1>3. CASE ~(WakeupsPending(n) /\ n.yields < MaxYields)
  <2>1. /\ n.buse = Buf => Flow(n, "panic")
        /\ \A f : Flow([n EXCEPT !.buse = @ \cup {f}, !.va = f], "recv")
    BY <1>1, <1>3, BlocksFlow
  <2>2. CASE n.buse = Buf
    <3>1. n' = n /\ mode' = "panic"
      BY <1>3, <2>2 DEF MainServe
    <3> QED BY <2>1, <2>2, <3>1
  <2>3. CASE n.buse # Buf
    <3>1. PICK f : f = CHOOSE b \in Buf \ n.buse : \A c \in Buf \ n.buse : b <= c
      OBVIOUS
    <3>2. n' = [n EXCEPT !.buse = @ \cup {f}, !.va = f] /\ mode' = "recv"
      BY <1>3, <2>3, <3>1 DEF MainServe
    <3> QED BY <2>1, <3>2
  <2> QED BY <2>2, <2>3
<1> QED BY <1>2, <1>3

\* The steps of a request's thread.
LEMMA RequestFlow ==
  ASSUME IInv, Flow(n, mode), NEW t \in Buf,
         Send(t) \/ Sending(t) \/ Recv(t) \/ JifInput(t) \/ Deliver(t) \/ Reply(t)
  PROVE  Flow(n', mode')
<1>1. /\ Good(n, "run", client, page, input, leaked) /\ Flow(n, "run") /\ mode = "run" /\ n.cur = t
      /\ mode' = mode /\ page \in [Page -> Int]
  BY DEF Send, Sending, Recv, JifInput, Deliver, Reply, At, Others, IInv
<1>2. CASE Send(t)
  <2>1. n.req[t].pc = "send"
    BY <1>2 DEF Send, At
  <2>2. SemHas(n, Free(Stack)) /\ Flow(Goto(MboxPut(SemTake(n, Free(Stack)), Stack, t), "sending"), "run")
    BY <1>1, <2>1, SendFlow
  <2>3. n' = Goto(MboxPut(SemTake(n, Free(Stack)), Stack, t), "sending")
    BY <1>2, <2>2 DEF Send
  <2> QED BY <1>1, <2>2, <2>3
<1>3. CASE Sending(t)
  <2>1. n.req[t].pc = "sending"
    BY <1>3 DEF Sending, At
  <2>2. PICK w : w = n.req[t].whom
    OBVIOUS
  <2>3. /\ SemHas(n, Done(w)) => Flow(SetPkt(Goto(SemTake(n, Done(w)), "reply"), t, NoPacket), "run")
        /\ ~SemHas(n, Done(w)) => Flow(SemBlock(n, Done(w)), "run")
    BY <1>1, <2>1, <2>2, SendingFlow
  <2>4. n' = IF SemHas(n, Done(w)) THEN SetPkt(Goto(SemTake(n, Done(w)), "reply"), t, NoPacket)
             ELSE SemBlock(n, Done(w))
    BY <1>3, <2>2 DEF Sending, SetPkt
  <2> QED BY <1>1, <2>3, <2>4
<1>4. CASE Recv(t)
  <2>1. n.req[t].pc = "recv"
    BY <1>4 DEF Recv, At
  <2>2. PICK w : w = n.req[t].whom
    OBVIOUS
  <2>3. /\ SemHas(n, Queued(w)) =>
               Flow(Goto(MboxGet(SetPkt(SemTake(n, Queued(w)), t, MboxMsg(n, w)), w), "reply"), "run")
        /\ ~SemHas(n, Queued(w)) => Flow(SemBlock(n, Queued(w)), "run")
    BY <1>1, <2>1, <2>2, RecvFlow
  <2>4. n' = IF SemHas(n, Queued(w))
             THEN Goto(MboxGet(SetPkt(SemTake(n, Queued(w)), t, MboxMsg(n, w)), w), "reply")
             ELSE SemBlock(n, Queued(w))
    BY <1>4, <2>2 DEF Recv, SetPkt
  <2> QED BY <1>1, <2>3, <2>4
<1>5. CASE JifInput(t)
  <2>1. n.req[t].pc = "input"
    BY <1>5 DEF JifInput, At
  <2>2. PICK p \in Int : p = page[n.req[t].page]
    <3>1. n.req[t].page \in Page
      BY <1>1, <2>1 DEF Good, Packets
    <3> QED BY <1>1, <3>1
  <2>3. Flow(SetPkt(Goto(n, "deliver"), t, p), "run")
    BY <1>1, <2>1, JifInputFlow
  <2>4. n' = SetPkt(Goto(n, "deliver"), t, p)
    BY <1>5, <2>2 DEF JifInput, SetPkt
  <2> QED BY <1>1, <2>3, <2>4
<1>6. CASE Deliver(t)
  <2>1. n.req[t].pc = "deliver"
    BY <1>6 DEF Deliver, At
  <2>2. PICK p, w : p = n.req[t].pkt /\ w = To[p]
    OBVIOUS
  <2>3. /\ SemHas(n, Free(w)) => Flow(PutBuffer(MboxPut(SemTake(n, Free(w)), w, p), t), "run")
        /\ ~SemHas(n, Free(w)) => Flow(SemBlock(n, Free(w)), "run")
    BY <1>1, <2>1, <2>2, DeliverFlow
  <2>4. n' = IF SemHas(n, Free(w)) THEN PutBuffer(MboxPut(SemTake(n, Free(w)), w, p), t)
             ELSE SemBlock(n, Free(w))
    BY <1>6, <2>2 DEF Deliver
  <2> QED BY <1>1, <2>3, <2>4
<1>7. CASE Reply(t)
  <2>1. n.req[t].pc = "reply" /\ n' = PutBuffer(n, t)
    BY <1>7 DEF Reply, At
  <2>2. Flow(PutBuffer(n, t), "run")
    BY <1>1, <2>1, ReplyFlow
  <2> QED BY <1>1, <2>1, <2>2
<1> QED BY <1>2, <1>3, <1>4, <1>5, <1>6, <1>7

\* The steps of lwIP's thread.
LEMMA StackFlow ==
  ASSUME IInv, Flow(n, mode), Fetch \/ LowLevelOutput
  PROVE  Flow(n', mode')
<1>1. /\ Good(n, "run", client, page, input, leaked) /\ Flow(n, "run") /\ mode = "run"
      /\ n.cur = Tcpip /\ mode' = mode
  BY DEF Fetch, LowLevelOutput, At, Others, IInv
<1>2. CASE Fetch
  <2>1. n.req[Tcpip].pc = "fetch"
    BY <1>2 DEF Fetch, At
  <2>2. CASE SemHas(n, Queued(Stack))
    <3>1. n' = [MboxGet(SemTake(n, Queued(Stack)), Stack)
                   EXCEPT !.req[Tcpip] = [n.req[MboxMsg(n, Stack)] EXCEPT !.pc = "output"]]
      BY <1>2, <2>2 DEF Fetch
    <3>2. Flow([MboxGet(SemTake(n, Queued(Stack)), Stack)
                   EXCEPT !.req[Tcpip] = [n.req[MboxMsg(n, Stack)] EXCEPT !.pc = "output"]], "run")
      BY <1>1, <2>1, <2>2, FetchFlow
    <3> QED BY <1>1, <3>1, <3>2
  <2>3. CASE ~SemHas(n, Queued(Stack))
    <3>1. n' = SemBlock(n, Queued(Stack))
      BY <1>2, <2>3 DEF Fetch
    <3>2. Flow(SemBlock(n, Queued(Stack)), "run")
      BY <1>1, <2>1, <2>3, FetchBlockFlow
    <3> QED BY <1>1, <3>1, <3>2
  <2> QED BY <2>2, <2>3
<1>3. CASE LowLevelOutput
  <2>1. n.req[Tcpip].pc = "output"
    BY <1>3 DEF LowLevelOutput, At
  <2>2. n' = SemSignal([n EXCEPT !.req[Tcpip] = [NoReq EXCEPT !.pc = "fetch"]], Done(n.req[Tcpip].whom))
    BY <1>3 DEF LowLevelOutput, Completed
  <2>3. Flow(SemSignal([n EXCEPT !.req[Tcpip] = [NoReq EXCEPT !.pc = "fetch"]],
                       Done(n.req[Tcpip].whom)), "run")
    BY <1>1, <2>1, OutputFlow
  <2> QED BY <1>1, <2>2, <2>3
<1> QED BY <1>2, <1>3

\* The messages serve() receives.
LEMMA MessageFlow ==
  ASSUME IInv, Flow(n, mode), Calls \/ InputSend \/ TimerSend
  PROVE  Flow(n', mode')
<1>1. /\ Good(n, "recv", client, page, input, leaked) /\ Flow(n, "recv") /\ sent \in Nat
      /\ mode' = "run"
  BY DEF Calls, Call, CallWithoutPage, InputSend, TimerSend, Accept, Receives, IInv
<1>2. ASSUME NEW rq \in ReqType, rq.pc \in {"send", "recv", "input"}, Accept(rq)
      PROVE  Flow(n', "run")
  <2>1. Flow(ThreadYield(Serve(ThreadCreate([n EXCEPT !.req[n.va] = rq], n.va))), "run")
    BY <1>1, <1>2, AcceptFlow
  <2> QED BY <1>2, <2>1 DEF Accept
<1>3. ASSUME NEW c \in Client, NEW op \in {"send", "recv"}, Call(c, op) PROVE Flow(n', "run")
  <2>1. PICK p \in Int : p = IF op = "send" THEN sent + 1 ELSE NoPacket
    BY <1>1, Rings
  <2>2. PICK rq : rq = [pc |-> op, whom |-> c, page |-> 0, pkt |-> p]
    OBVIOUS
  <2>3. rq \in ReqType /\ rq.pc \in {"send", "recv", "input"}
    BY <2>2, Threads DEF ReqType, Pcs
  <2>4. Accept(rq)
    BY <1>3, <2>1, <2>2 DEF Call
  <2> QED BY <1>2, <2>3, <2>4
<1>4. ASSUME NEW c \in Client, CallWithoutPage(c) PROVE Flow(n', "run")
  <2>1. n' = Serve(n)
    BY <1>4 DEF CallWithoutPage
  <2> QED BY <1>1, <2>1, LeakFlow
<1>5. CASE InputSend
  <2>1. PICK rq : rq = [pc |-> "input", whom |-> Stack, pkt |-> NoPacket, page |-> input]
    OBVIOUS
  <2>2. input \in Page
    BY <1>1, <1>5 DEF InputSend, Good, Packets
  <2>3. rq \in ReqType /\ rq.pc \in {"send", "recv", "input"}
    BY <2>1, <2>2, Threads, Rings DEF ReqType, Pcs
  <2>4. Accept(rq)
    BY <1>5, <2>1 DEF InputSend
  <2> QED BY <1>1, <1>2, <2>3, <2>4
<1>6. CASE TimerSend
  <2>1. n' = ThreadYield([n EXCEPT !.req[Main].pc = "timer"])
    BY <1>6 DEF TimerSend
  <2>2. Flow(ThreadYield([n EXCEPT !.req[Main].pc = "timer"]), "run")
    BY <1>1, TimerFlow
  <2> QED BY <1>1, <2>1, <2>2
<1> QED BY <1>1, <1>3, <1>4, <1>5, <1>6 DEF Calls

LEMMA FlowNext == IInv /\ Flow(n, mode) /\ [Next]_vars => Flow(n', mode')
<1> SUFFICES ASSUME IInv, Flow(n, mode), [Next]_vars PROVE Flow(n', mode')
  OBVIOUS
<1>1. CASE MainServe
  BY <1>1, MainServeFlow
<1>2. CASE \E t \in Buf : Send(t) \/ Sending(t) \/ Recv(t) \/ JifInput(t) \/ Deliver(t) \/ Reply(t)
  BY <1>2, RequestFlow
<1>3. CASE Fetch \/ LowLevelOutput
  BY <1>3, StackFlow
<1>4. CASE ProcessTimer
  <2>1. /\ Good(n, "run", client, page, input, leaked) /\ Flow(n, "run") /\ mode = "run"
        /\ n.cur = Main /\ n.req[Main].pc = "timer" /\ mode' = mode
        /\ n' = Serve([n EXCEPT !.buse = @ \ {n.va}])
    BY <1>4 DEF ProcessTimer, At, IInv
  <2>2. Flow(Serve([n EXCEPT !.buse = @ \ {n.va}]), "run")
    BY <2>1, TimerDoneFlow
  <2> QED BY <2>1, <2>2
<1>5. CASE Calls \/ InputSend \/ TimerSend
  BY <1>5, MessageFlow
<1>6. CASE UNCHANGED <<n, mode>>
  BY <1>6
<1>7. ASSUME (\E c \in Client : ClientRecv(c)) \/ OutputSend \/ InputPoll \/ TimerRing \/ Cards
             \/ UNCHANGED vars
      PROVE  UNCHANGED <<n, mode>>
  BY <1>7 DEF ClientRecv, OutputSend, InputPoll, TimerRing, Cards, vars, netVars
<1> QED BY <1>1, <1>2, <1>3, <1>4, <1>5, <1>6, <1>7 DEF Next, Server

LEMMA Always == Spec => [](IInv /\ Flow(n, mode))
<1>1. IInv /\ Flow(n, mode) /\ [Next]_vars => Flow(n, mode)'
  BY FlowNext
<1> QED BY <1>1, Books, FlowInit, PTL DEF Spec

(* When the network server blocks in ipc_recv no thread of it is ready: what *)
(* the last message made ready has been done within the rounds serve() gives *)
(* its threads before it looks for a new message, no signal of a semaphore   *)
(* or mailbox is lost, and one round is enough however small MaxYields is    *)
(* (net/serv.c, thread.c, sys_arch.c); for every number of clients, buffers, *)
(* slots and packets.                                                        *)
THEOREM EverythingDoneBeforeBlock == Spec => []FlushedBeforeBlock
<1>1. IInv /\ Flow(n, mode) => FlushedBeforeBlock
  <2> SUFFICES ASSUME IInv, Flow(n, mode), mode = "recv", NEW t \in InQueue(n) PROVE ~Ready(n, t)
    BY DEF FlushedBeforeBlock
  <2>1. Turn(n) /\ Woken(n) = {}
    BY DEF Flow
  <2>2. t # Main
    BY <2>1 DEF Turn, IInv, Good, Sched, Line, InQueue
  <2> QED BY <2>1, <2>2 DEF Woken
<1> QED BY <1>1, Always, PTL

(* The server panics for want of a buffer (get_buffer in net/serv.c) only    *)
(* when each buffer is held by a thread that waits for a packet from the     *)
(* wire or for room in a socket's mailbox, or was lost with a message        *)
(* without a page: never while a send is on its way through lwIP, or while a *)
(* thread could go on.                                                       *)
THEOREM PanicOnlyWhenAllWait == Spec => []OverflowOnlyBlocked
<1>1. IInv /\ Flow(n, mode) => OverflowOnlyBlocked
  <2> SUFFICES ASSUME IInv, Flow(n, mode), mode = "panic", NEW b \in Buf \ leaked
               PROVE  Waiting(b) /\ n.req[b].pc \in {"recv", "deliver"}
    BY DEF OverflowOnlyBlocked
  <2>1. /\ Good(n, "panic", client, page, input, leaked) /\ Turn(n) /\ Woken(n) = {}
        /\ n.buse = Buf /\ n.req[Main].pc = "serve" /\ AllParked(n, InQueue(n))
    BY DEF IInv, Flow
  <2>2. n.va = 0 /\ b \in Busy(n)
    BY <2>1 DEF Good, Held, Blocked
  <2>3. b \in InQueue(n) \ {Main}
    BY <2>1, <2>2, Threads DEF Good, Sched, Line, Line0, InQueue, Turn
  <2>4. n.on[b] # NoSem
    BY <2>1, <2>3, WaitsOn
  <2>5. n.req[b].pc \in {"sending", "recv", "deliver"}
    BY <2>1, <2>3, Threads DEF AllParked, Parked, Needs
  <2>6. Mailing(n) = {}
    BY <2>1 DEF Turn
  <2> QED BY <2>4, <2>5, <2>6 DEF Waiting, Mailing
<1> QED BY <1>1, Always, PTL
-----------------------------------------------------------------------------
(* The way of a packet a client sends: the request's thread, lwIP's mailbox, *)
(* lwIP's thread, the output environment, the ring, the wire.                *)
TxRing == 0 .. MAXTXDESC - 1
TxType == [desc : [TxRing -> [pkt : Int, dd : BOOLEAN]],
           head : TxRing, tail : TxRing, marked : BOOLEAN]

\* The j-th descriptor after p, going round the ring.
Place(p, j) == IF p + j < MAXTXDESC THEN p + j ELSE p + j - MAXTXDESC

\* The first descriptor that is not transmitted; if k are not, the tail is after them.
Start(x) == IF x.marked THEN Place(x.head, 1) ELSE x.head

\* The ring has k packets that are not transmitted, numbered from l + 1.
Pends(x, l, k) ==
    /\ k \in 0 .. MAXTXDESC /\ x.tail = Place(Start(x), k)
    /\ \A j \in TxRing :
         /\ x.desc[Place(Start(x), j)].dd <=> j >= k
         /\ j < k => x.desc[Place(Start(x), j)].pkt = l + 1 + j

\* Thread u has a packet that it, or who reads its message, is still to send.
Bears(m, u) ==
    \/ u \in Buf /\ m.req[u].pc = "send"
    \/ u \in Buf /\ \E k \in Slots : m.box[Stack].msg[k] = u
    \/ u = Tcpip /\ m.req[u].pc = "output"

\* Of s packets accepted, w have left lwIP; at most one is on its way there.
Carry(m, w, s) ==
    \/ s = w /\ \A u \in Thread : ~Bears(m, u)
    \/ s = w + 1 /\ \E u \in Thread : /\ Bears(m, u) /\ m.req[u].pkt = w + 1
                                      /\ \A v \in Thread : Bears(m, v) => v = u
Left(l, k, ou) == l + k + (IF ou = NoPacket THEN 0 ELSE 1)
Numbered(o, l) == l \in Nat /\ o = [k \in 1 .. l |-> k]
Sent(x, o, ou, m, s) ==
    /\ x \in TxType /\ ou \in Int
    /\ \E l, k : /\ Numbered(o, l) /\ Pends(x, l, k) /\ (ou # NoPacket => ou = l + k + 1)
                 /\ Carry(m, Left(l, k, ou), s)

LEMMA PlaceIs ==
  ASSUME NEW p \in TxRing
  PROVE  /\ (p + 1) % MAXTXDESC = Place(p, 1) /\ Place(p, 1) \in TxRing
         /\ Place(p, 0) = p /\ Place(p, MAXTXDESC) = p
         /\ \A j \in TxRing : Place(p, j) \in TxRing /\ Place(p, j + 1) = Place(Place(p, 1), j)
         /\ \A i, j \in TxRing : Place(p, i) = Place(p, j) => i = j
<1>r. MAXTXDESC \in Nat /\ MAXTXDESC > 1
  BY Rings
<1>1. (p + 1) % MAXTXDESC = Place(p, 1)
  <2>1. CASE p + 1 = MAXTXDESC
    BY <1>r, <2>1 DEF Place, TxRing
  <2>2. CASE p + 1 # MAXTXDESC
    <3>1. p + 1 \in Int /\ 0 <= p + 1 /\ p + 1 < MAXTXDESC /\ MAXTXDESC \in Int
      BY <1>r, <2>2 DEF TxRing
    <3> QED BY <3>1 DEF Place
  <2> QED BY <2>1, <2>2
<1>2. Place(p, 1) \in TxRing /\ Place(p, 0) = p /\ Place(p, MAXTXDESC) = p
  BY <1>r DEF Place, TxRing
<1>3. ASSUME NEW j \in TxRing PROVE Place(p, j) \in TxRing /\ Place(p, j + 1) = Place(Place(p, 1), j)
  <2>1. CASE p + 1 < MAXTXDESC
    BY <1>r, <2>1 DEF Place, TxRing
  <2>2. CASE p + 1 = MAXTXDESC
    BY <1>r, <2>2 DEF Place, TxRing
  <2> QED BY <1>r, <2>1, <2>2 DEF TxRing
<1>4. ASSUME NEW i \in TxRing, NEW j \in TxRing, Place(p, i) = Place(p, j) PROVE i = j
  BY <1>r, <1>4 DEF Place, TxRing
<1> QED BY <1>1, <1>2, <1>3, <1>4

LEMMA PendsType ==
  ASSUME NEW x \in TxType, NEW l \in Nat, NEW k, Pends(x, l, k)
  PROVE  /\ Start(x) \in TxRing /\ x.head \in TxRing /\ x.tail \in TxRing
         /\ k \in 0 .. MAXTXDESC /\ MAXTXDESC \in Nat /\ MAXTXDESC > 1
         /\ x.tail = Place(Start(x), k)
<1>1. x.head \in TxRing /\ x.tail \in TxRing
  BY DEF TxType
<1> QED BY <1>1, PlaceIs, Rings DEF Start, Pends

\* E1000_send puts the next packet behind the others.
LEMMA SendPends ==
  ASSUME NEW x \in TxType, NEW l \in Nat, NEW k, Pends(x, l, k), x.desc[x.tail].dd,
         NEW p \in Int, p = l + k + 1, NEW y,
         y = [x EXCEPT !.desc[x.tail] = [pkt |-> p, dd |-> FALSE],
                       !.tail = (@ + 1) % MAXTXDESC]
  PROVE  y \in TxType /\ Pends(y, l, k + 1)
<1>1. PICK s : s = Start(x) /\ s \in TxRing
  BY PendsType
<1>2. /\ x.head \in TxRing /\ x.tail \in TxRing /\ x.tail = Place(s, k)
      /\ k \in 0 .. MAXTXDESC /\ MAXTXDESC \in Nat /\ MAXTXDESC > 1
  BY <1>1, PendsType
<1>3. \A j \in TxRing : /\ x.desc[Place(s, j)].dd <=> j >= k
                        /\ j < k => x.desc[Place(s, j)].pkt = l + 1 + j
  BY <1>1 DEF Pends
<1>4. k \in TxRing
  <2>1. ASSUME k = MAXTXDESC PROVE FALSE
    <3>1. x.tail = Place(s, 0) /\ 0 \in TxRing
      BY <1>1, <1>2, <2>1, PlaceIs DEF TxRing
    <3>2. x.desc[Place(s, 0)].dd <=> 0 >= k
      BY <1>3, <3>1
    <3> QED BY <1>2, <2>1, <3>1, <3>2
  <2> QED BY <1>2, <2>1 DEF TxRing
<1>5. PICK d, q : d = [pkt |-> p, dd |-> FALSE] /\ q = (x.tail + 1) % MAXTXDESC
  OBVIOUS
<1>6. q = Place(x.tail, 1) /\ q \in TxRing /\ q = Place(s, k + 1)
  <2>1. q = Place(x.tail, 1) /\ q \in TxRing
    BY <1>2, <1>5, PlaceIs
  <2>2. Place(Place(s, k), 1) = Place(s, k + 1)
    BY <1>1, <1>2, <1>4 DEF Place, TxRing
  <2> QED BY <1>2, <2>1, <2>2
<1>7. PICK g : g = [x.desc EXCEPT ![x.tail] = d]
  OBVIOUS
<1>8. /\ y \in TxType /\ y.head = x.head /\ y.marked = x.marked /\ y.tail = q /\ y.desc = g
  <2>1. y = [x EXCEPT !.desc = g, !.tail = q]
    BY <1>5, <1>7
  <2>2. g \in [TxRing -> [pkt : Int, dd : BOOLEAN]]
    <3>1. d \in [pkt : Int, dd : BOOLEAN] /\ x.desc \in [TxRing -> [pkt : Int, dd : BOOLEAN]]
      BY <1>5 DEF TxType
    <3> QED BY <1>7, <3>1
  <2> QED BY <1>6, <2>1, <2>2 DEF TxType
<1>9. Start(y) = s
  BY <1>1, <1>8 DEF Start
<1>10. ASSUME NEW j \in TxRing
       PROVE  /\ g[Place(s, j)].dd <=> j >= k + 1
              /\ j < k + 1 => g[Place(s, j)].pkt = l + 1 + j
  <2>1. Place(s, j) \in TxRing /\ DOMAIN x.desc = TxRing
    BY <1>1, PlaceIs DEF TxType
  <2>2. CASE j = k
    <3>1. g[Place(s, j)] = d
      BY <1>2, <1>7, <2>1, <2>2
    <3>2. d.pkt = l + 1 + j /\ d.dd = FALSE /\ ~(j >= k + 1)
      BY <1>2, <1>5, <2>2
    <3> QED BY <3>1, <3>2
  <2>3. CASE j # k
    <3>1. Place(s, j) # x.tail
      <4>1. \A i, h \in TxRing : Place(s, i) = Place(s, h) => i = h
        BY <1>1, PlaceIs
      <4> QED BY <1>2, <1>4, <2>3, <4>1
    <3>2. g[Place(s, j)] = x.desc[Place(s, j)]
      BY <1>7, <2>1, <3>1
    <3>3. (j >= k <=> j >= k + 1) /\ (j < k + 1 => j < k)
      BY <1>2, <2>3 DEF TxRing
    <3> QED BY <1>3, <3>2, <3>3
  <2> QED BY <2>2, <2>3
<1>11. k + 1 \in 0 .. MAXTXDESC
  BY <1>2, <1>4 DEF TxRing
<1> QED BY <1>6, <1>8, <1>9, <1>10, <1>11 DEF Pends

\* The card transmits the first of them, and marks its descriptor.
LEMMA TransmitPends ==
  ASSUME NEW x \in TxType, NEW l \in Nat, NEW k, Pends(x, l, k), ~x.marked, x.head # x.tail,
         NEW y, y = [x EXCEPT !.desc[x.head].dd = TRUE, !.marked = TRUE]
  PROVE  /\ y \in TxType /\ Pends(y, l + 1, k - 1) /\ x.desc[x.head].pkt = l + 1
<1>1. PICK s : s = x.head /\ s = Start(x) /\ s \in TxRing
  BY PendsType DEF Start
<1>2. /\ x.tail \in TxRing /\ x.tail = Place(s, k)
      /\ k \in 0 .. MAXTXDESC /\ MAXTXDESC \in Nat /\ MAXTXDESC > 1
  BY <1>1, PendsType
<1>3. \A j \in TxRing : /\ x.desc[Place(s, j)].dd <=> j >= k
                        /\ j < k => x.desc[Place(s, j)].pkt = l + 1 + j
  BY <1>1 DEF Pends
<1>4. k > 0
  <2>1. k # 0
    BY <1>1, <1>2, PlaceIs
  <2> QED BY <1>2, <2>1
<1>5. x.desc[s].pkt = l + 1
  <2>1. 0 \in TxRing /\ Place(s, 0) = s
    BY <1>1, <1>2, PlaceIs DEF TxRing
  <2> QED BY <1>3, <1>4, <2>1
<1>6. PICK d, g : d = [x.desc[s] EXCEPT !.dd = TRUE] /\ g = [x.desc EXCEPT ![s] = d]
  OBVIOUS
<1>7. d.dd = TRUE /\ d \in [pkt : Int, dd : BOOLEAN]
  <2>1. x.desc[s] \in [pkt : Int, dd : BOOLEAN]
    BY <1>1 DEF TxType
  <2> QED BY <1>6, <2>1
<1>8. /\ y \in TxType /\ y.head = x.head /\ y.marked = TRUE /\ y.tail = x.tail /\ y.desc = g
  <2>1. y = [x EXCEPT !.desc = g, !.marked = TRUE]
    BY <1>1, <1>6
  <2>2. g \in [TxRing -> [pkt : Int, dd : BOOLEAN]]
    <3>1. x.desc \in [TxRing -> [pkt : Int, dd : BOOLEAN]]
      BY DEF TxType
    <3> QED BY <1>6, <1>7, <3>1
  <2> QED BY <2>1, <2>2 DEF TxType
<1>9. PICK z : z = Start(y) /\ z = Place(s, 1) /\ z \in TxRing
  BY <1>1, <1>8, PlaceIs DEF Start
<1>p. /\ \A j \in TxRing : Place(s, j + 1) = Place(z, j)
      /\ \A i, j \in TxRing : Place(s, i) = Place(s, j) => i = j
      /\ \A j \in TxRing : Place(s, j) \in TxRing
      /\ Place(s, 0) = s /\ Place(s, MAXTXDESC) = s
  <2>1. /\ \A j \in TxRing : Place(s, j) \in TxRing /\ Place(s, j + 1) = Place(Place(s, 1), j)
        /\ \A i, j \in TxRing : Place(s, i) = Place(s, j) => i = j
        /\ Place(s, 0) = s /\ Place(s, MAXTXDESC) = s
    BY <1>1, PlaceIs
  <2> QED BY <1>9, <2>1
<1>10. y.tail = Place(z, k - 1)
  <2>1. k - 1 \in TxRing /\ k - 1 + 1 = k
    BY <1>2, <1>4 DEF TxRing
  <2>2. Place(s, k - 1 + 1) = Place(z, k - 1)
    BY <1>p, <2>1
  <2> QED BY <1>2, <1>8, <2>1, <2>2
<1>11. ASSUME NEW j \in TxRing
       PROVE  /\ g[Place(z, j)].dd <=> j >= k - 1
              /\ j < k - 1 => g[Place(z, j)].pkt = l + 1 + 1 + j
  <2>1. Place(z, j) = Place(s, j + 1) /\ DOMAIN x.desc = TxRing
    BY <1>p DEF TxType
  <2>2. CASE j + 1 = MAXTXDESC
    <3>1. g[Place(z, j)] = d
      <4>1. Place(z, j) = s
        BY <1>p, <2>1, <2>2
      <4> QED BY <1>1, <1>6, <2>1, <4>1
    <3>2. j >= k - 1
      BY <1>2, <2>2 DEF TxRing
    <3> QED BY <1>2, <1>7, <3>1, <3>2 DEF TxRing
  <2>3. CASE j + 1 # MAXTXDESC
    <3>1. j + 1 \in TxRing /\ 0 \in TxRing /\ j + 1 # 0
      BY <1>2, <2>3 DEF TxRing
    <3>2. Place(s, j + 1) # s /\ Place(s, j + 1) \in TxRing
      BY <1>p, <3>1
    <3>3. g[Place(z, j)] = x.desc[Place(s, j + 1)]
      BY <1>6, <2>1, <3>2
    <3>4. (j + 1 >= k <=> j >= k - 1) /\ (j < k - 1 => j + 1 < k) /\ l + 1 + (j + 1) = l + 1 + 1 + j
      BY <1>2 DEF TxRing
    <3> QED BY <1>3, <3>1, <3>3, <3>4
  <2> QED BY <2>2, <2>3
<1>12. k - 1 \in 0 .. MAXTXDESC
  BY <1>2, <1>4
<1> QED BY <1>1, <1>5, <1>8, <1>9, <1>10, <1>11, <1>12 DEF Pends

\* The card moves on.
LEMMA NextPends ==
  ASSUME NEW x \in TxType, NEW l \in Nat, NEW k, Pends(x, l, k), x.marked,
         NEW y, y = [x EXCEPT !.head = (@ + 1) % MAXTXDESC, !.marked = FALSE]
  PROVE  y \in TxType /\ Pends(y, l, k)
<1>1. x.head \in TxRing /\ (x.head + 1) % MAXTXDESC = Place(x.head, 1) /\ Place(x.head, 1) \in TxRing
  BY PlaceIs DEF TxType
<1>2. /\ y \in TxType /\ y.head = Place(x.head, 1) /\ y.marked = FALSE
      /\ y.tail = x.tail /\ y.desc = x.desc
  BY <1>1 DEF TxType
<1>3. Start(y) = Start(x)
  BY <1>2 DEF Start
<1> QED BY <1>2, <1>3 DEF Pends

\* Who has a packet to send, and what its thread does.
LEMMA BearersAre ==
  ASSUME NEW m, Letters(m), NEW u, Bears(m, u)
  PROVE  (u \in Buf /\ m.req[u].pc \in {"send", "sending"}) \/ (u = Tcpip /\ m.req[u].pc = "output")
<1>1. \A k \in Slots : m.box[Stack].msg[k] # 0 => m.req[m.box[Stack].msg[k]].pc = "sending"
  BY DEF Letters
<1>2. 0 \notin Buf
  BY Threads
<1> QED BY <1>1, <1>2 DEF Bears

\* A step after which only the threads S are doing something else.
SameButFor(a, b, S) == b.box[Stack] = a.box[Stack] /\ \A u \in Thread \ S : b.req[u] = a.req[u]
Uninvolved(a, b, S) == \A u \in S : ~Bears(a, u) /\ b.req[u].pc \notin {"send", "output"}

LEMMA CarryOther ==
  ASSUME NEW a, NEW b, NEW S, SameButFor(a, b, S), Uninvolved(a, b, S), NEW w, NEW s, Carry(a, w, s)
  PROVE  Carry(b, w, s)
<1>1. \A u \in Thread : u \in S => ~Bears(a, u) /\ ~Bears(b, u)
  BY DEF SameButFor, Uninvolved, Bears
<1>2. \A u \in Thread : u \notin S => (Bears(a, u) <=> Bears(b, u)) /\ b.req[u] = a.req[u]
  BY DEF SameButFor, Bears
<1>3. \A u \in Thread : Bears(a, u) <=> Bears(b, u)
  BY <1>1, <1>2
<1>4. \A u \in Thread : Bears(a, u) => b.req[u] = a.req[u]
  BY <1>1, <1>2
<1>5. CASE s = w /\ \A u \in Thread : ~Bears(a, u)
  BY <1>3, <1>5 DEF Carry
<1>6. CASE s = w + 1 /\ \E u \in Thread : /\ Bears(a, u) /\ a.req[u].pkt = w + 1
                                          /\ \A v \in Thread : Bears(a, v) => v = u
  <2>1. PICK u \in Thread : /\ Bears(a, u) /\ a.req[u].pkt = w + 1
                            /\ \A v \in Thread : Bears(a, v) => v = u
    BY <1>6
  <2>2. Bears(b, u) /\ b.req[u].pkt = w + 1 /\ \A v \in Thread : Bears(b, v) => v = u
    BY <1>3, <1>4, <2>1
  <2> QED BY <1>6, <2>2 DEF Carry
<1> QED BY <1>5, <1>6 DEF Carry

\* A semaphore waited for; a round of the threads.
LEMMA BlockCarry ==
  ASSUME NEW a \in Memory, NEW T, Sched(a, T), a.cur # Main, NEW d \in Sems(Boxes),
         NEW w, NEW s, Carry(a, w, s)
  PROVE  Carry(SemBlock(a, d), w, s)
<1>1. PICK b : b = SemBlock(a, d) /\ b.box = a.box /\ b.req = a.req
  BY BlockKeeps
<1>2. SameButFor(a, b, {}) /\ Uninvolved(a, b, {})
  BY <1>1 DEF SameButFor, Uninvolved
<1> QED BY <1>1, <1>2, CarryOther

LEMMA YieldCarry ==
  ASSUME NEW a \in Memory, NEW T, Sched(a, T), NEW w, NEW s, Carry(a, w, s)
  PROVE  Carry(ThreadYield(a), w, s)
<1>1. PICK b : b = ThreadYield(a) /\ b.box = a.box /\ b.req = a.req
  BY YieldKeeps DEF Rest
<1>2. SameButFor(a, b, {}) /\ Uninvolved(a, b, {})
  BY <1>1 DEF SameButFor, Uninvolved
<1> QED BY <1>1, <1>2, CarryOther

\* The end of serve_thread.
LEMMA EndCarry ==
  ASSUME NEW a \in Memory, NEW m \in Memory, NEW T, Sched(m, T), NEW t \in Buf, m.cur = t,
         m.box[Stack] = a.box[Stack], m.req = a.req, ~Bears(a, t),
         NEW w, NEW s, Carry(a, w, s)
  PROVE  Carry(PutBuffer(m, t), w, s)
<1>1. t \in Thread /\ t # Main /\ NoReq \in ReqType /\ NoReq.pc = "none"
  BY Threads, Rings DEF NoReq, ReqType, Pcs
<1>2. PICK g : g = [m.req EXCEPT ![t] = NoReq] /\ g \in [Thread -> ReqType]
  <2>1. m.req \in [Thread -> ReqType]
    BY DEF Memory
  <2>2. [m.req EXCEPT ![t] = NoReq] \in [Thread -> ReqType]
    BY <1>1, <2>1
  <2> QED BY <2>2
<1>3. PICK c : c = [m EXCEPT !.buse = @ \ {t}, !.req[t] = NoReq]
  OBVIOUS
<1>4. c = [m EXCEPT !.buse = m.buse \ {t}, !.req = g]
  BY <1>2, <1>3 DEF Memory
<1>5. c \in Memory /\ c.q = m.q /\ c.on = m.on /\ c.cur = t /\ c.box = m.box /\ c.req = g
  BY <1>2, <1>4 DEF Memory
<1>6. Sched(c, T)
  BY <1>5 DEF Sched
<1>7. PICK b : b = ThreadHalt(c) /\ b.box = c.box /\ b.req = c.req
  BY <1>1, <1>5, <1>6, HaltKeeps DEF Rest
<1>8. b = PutBuffer(m, t)
  BY <1>3, <1>7 DEF PutBuffer
<1>9. b.req[t] = NoReq /\ \A u \in Thread \ {t} : b.req[u] = a.req[u]
  <2>1. b.req = [m.req EXCEPT ![t] = NoReq]
    BY <1>2, <1>5, <1>7
  <2>2. m.req \in [Thread -> ReqType]
    BY DEF Memory
  <2> QED BY <1>1, <2>1, <2>2
<1>10. SameButFor(a, b, {t}) /\ Uninvolved(a, b, {t})
  BY <1>1, <1>5, <1>7, <1>9 DEF SameButFor, Uninvolved
<1> QED BY <1>8, <1>10, CarryOther

\* netconn_send of a request: its packet goes with the message.
LEMMA SendCarry ==
  ASSUME NEW a, NEW cl, NEW pg, NEW inp, NEW lk, Good(a, "run", cl, pg, inp, lk),
         NEW t \in Buf, a.cur = t, a.req[t].pc = "send", SemHas(a, Free(Stack)),
         NEW w, NEW s, Carry(a, w, s)
  PROVE  Carry(Goto(MboxPut(SemTake(a, Free(Stack)), Stack, t), "sending"), w, s)
<1>1. /\ a \in Memory /\ Sched(a, Line0(a)) /\ Counted(a) /\ Letters(a)
      /\ Stack \in Boxes /\ t \in Int /\ t \in Thread /\ t # Tcpip
  BY Threads DEF Good
<1>2. PICK b0, x, d, u : Puts(a, t, Stack, t, b0, x, d, u)
  BY <1>1, PutIs
<1>3. /\ b0 = MboxPut(SemTake(a, Free(Stack)), Stack, t)
      /\ x = [a.box EXCEPT ![Stack] = With(a.box[Stack], t)]
  BY <1>2 DEF Puts
<1>4. PICK r0 : r0 = a.req[t] /\ Did(a, b0, t, r0, x, d, u)
  BY <1>2 DEF Puts
<1>5. PICK b : b = Goto(b0, "sending")
  OBVIOUS
<1>6. PICK r : Did(a, b, t, r, x, d, u) /\ r.pc = "sending" /\ r.pkt = a.req[t].pkt
  <2>1. "sending" \in Pcs
    BY DEF Pcs
  <2>2. Went(a, b0, t, r0, x, d, u, "sending")
    BY <1>1, <1>4, <2>1, GotoThen
  <2> QED BY <1>4, <1>5, <2>2 DEF Went
<1>7. b.req[t] = r /\ b.box = x /\ \A v \in Thread \ {t} : b.req[v] = a.req[v]
  BY <1>1, <1>6 DEF Did, Memory
<1>8. PICK y \in BoxType : y = a.box[Stack]
  BY <1>1 DEF Memory
<1>9. b.box[Stack] = With(y, t)
  BY <1>1, <1>3, <1>7, <1>8 DEF Memory
<1>10. /\ y.nextq \in Slots
       /\ \A k \in Slots : With(y, t).msg[k] = IF k = y.nextq THEN t ELSE y.msg[k]
  BY <1>8 DEF With, BoxType
<1>11. Bears(a, t) /\ Bears(b, t)
  BY <1>9, <1>10 DEF Bears
<1>12. ASSUME NEW v \in Thread, v # t, Bears(b, v) PROVE Bears(a, v)
  <2>1. CASE v \in Buf /\ \E k \in Slots : b.box[Stack].msg[k] = v
    <3>1. PICK k \in Slots : With(y, t).msg[k] = v
      BY <1>9, <2>1
    <3>2. y.msg[k] = v
      BY <1>10, <1>12, <3>1
    <3> QED BY <1>8, <2>1, <3>2 DEF Bears
  <2> QED BY <1>7, <1>12, <2>1 DEF Bears
<1>13. s = w + 1 /\ a.req[t].pkt = w + 1 /\ \A v \in Thread : Bears(a, v) => v = t
  BY <1>1, <1>11 DEF Carry
<1>14. Carry(b, w, s)
  <2>1. \A v \in Thread : Bears(b, v) => v = t
    BY <1>12, <1>13
  <2>2. b.req[t].pkt = w + 1
    BY <1>6, <1>7, <1>13
  <2> QED BY <1>1, <1>11, <1>13, <2>1, <2>2 DEF Carry
<1> QED BY <1>3, <1>5, <1>14

\* The completion of a send: lwIP has the packet no more.
LEMMA SendingCarry ==
  ASSUME NEW a, NEW cl, NEW pg, NEW inp, NEW lk, Good(a, "run", cl, pg, inp, lk),
         NEW t \in Buf, a.cur = t, a.req[t].pc = "sending", NEW d, d = Done(a.req[t].whom),
         SemHas(a, d), NEW w, NEW s, Carry(a, w, s)
  PROVE  Carry(SetPkt(Goto(SemTake(a, d), "reply"), t, NoPacket), w, s)
<1>1. /\ a \in Memory /\ Sched(a, Line0(a)) /\ Letters(a) /\ Handed(a) /\ t \in Thread /\ t # Tcpip
  BY Threads DEF Good
<1>2. PICK c : c = a.req[t].whom /\ c \in Client /\ c \in Boxes
  BY Threads DEF Good, Asking, Asks
<1>3. d \in Sems(Boxes) /\ a.sem[d].counter > 0
  BY <1>2, SemsAre DEF SemHas
<1>4. ~Letter(a, c)
  BY <1>1, <1>2, <1>3 DEF Handed
<1>5. ~Bears(a, t)
  <2>1. ASSUME NEW k \in Slots, a.box[Stack].msg[k] = t PROVE FALSE
    <3>1. t # 0
      BY Threads
    <3> QED BY <1>2, <1>4, <2>1, <3>1 DEF Letter
  <2> QED BY <1>1, <2>1 DEF Bears
<1>6. PICK m1 : m1 = SemTake(a, d)
  OBVIOUS
<1>7. m1 \in Memory /\ Sched(m1, Line0(a)) /\ m1.cur = t /\ m1.box = a.box /\ m1.req = a.req
  BY <1>1, <1>3, <1>6, TakeKeeps
<1>8. PICK m2 : m2 = Goto(m1, "reply")
  OBVIOUS
<1>9. /\ m2 \in Memory /\ Sched(m2, Line0(a)) /\ m2.box = a.box /\ m2.req[t].pc = "reply"
      /\ m2.req = [a.req EXCEPT ![t] = m2.req[t]]
  <2>1. "reply" \in Pcs
    BY DEF Pcs
  <2> QED BY <1>7, <1>8, <2>1, GotoKeeps
<1>10. PICK b : b = SetPkt(m2, t, NoPacket)
  OBVIOUS
<1>11. b.box = a.box /\ b.req[t].pc = "reply" /\ b.req = [m2.req EXCEPT ![t] = b.req[t]]
  BY <1>1, <1>9, <1>10, PktKeeps, Rings
<1>12. \A u \in Thread \ {t} : b.req[u] = a.req[u]
  <2>1. \A u \in Thread \ {t} : m2.req[u] = a.req[u]
    BY <1>1, <1>9 DEF Memory
  <2>2. \A u \in Thread \ {t} : b.req[u] = m2.req[u]
    BY <1>9, <1>11 DEF Memory
  <2> QED BY <2>1, <2>2
<1>13. SameButFor(a, b, {t}) /\ Uninvolved(a, b, {t})
  BY <1>5, <1>11, <1>12 DEF SameButFor, Uninvolved
<1>14. Carry(b, w, s)
  BY <1>13, CarryOther
<1> QED BY <1>6, <1>8, <1>10, <1>14

\* netconn_recv and jif_input: a thread without a packet to send goes on.
LEMMA RecvCarry ==
  ASSUME NEW a, NEW cl, NEW pg, NEW inp, NEW lk, Good(a, "run", cl, pg, inp, lk),
         NEW t \in Buf, a.cur = t, a.req[t].pc = "recv", NEW c, c = a.req[t].whom,
         SemHas(a, Queued(c)), NEW w, NEW s, Carry(a, w, s)
  PROVE  Carry(Goto(MboxGet(SetPkt(SemTake(a, Queued(c)), t, MboxMsg(a, c)), c), "reply"), w, s)
<1>1. /\ a \in Memory /\ Sched(a, Line0(a)) /\ Letters(a) /\ Counted(a) /\ t \in Thread /\ t # Tcpip
  BY Threads DEF Good
<1>2. c \in Client /\ c \in Boxes /\ c # Stack /\ Stack \in Boxes
  BY Threads DEF Good, Asking, Asks
<1>3. ~Bears(a, t)
  BY <1>1, BearersAre
<1>4. PICK b, r, x, d, u : TakesPkt(a, t, c, b, r, x, d, u)
  BY <1>1, <1>2, TakesPktIs
<1>5. /\ b = Goto(MboxGet(SetPkt(SemTake(a, Queued(c)), t, MboxMsg(a, c)), c), "reply")
      /\ x = [a.box EXCEPT ![c] = Without(a.box[c])] /\ Did(a, b, t, r, x, d, u) /\ r.pc = "reply"
  BY <1>4 DEF TakesPkt
<1>6. b.req[t] = r /\ b.box = x /\ \A v \in Thread \ {t} : b.req[v] = a.req[v]
  <2>1. b.req = [a.req EXCEPT ![t] = r] /\ b.box = x
    BY <1>5 DEF Did
  <2>2. a.req \in [Thread -> ReqType]
    BY <1>1 DEF Memory
  <2> QED BY <1>1, <2>1, <2>2
<1>7. b.box[Stack] = a.box[Stack]
  <2>1. PICK y : y = Without(a.box[c])
    OBVIOUS
  <2>2. PICK g \in [Boxes -> BoxType] : g = a.box
    BY <1>1 DEF Memory
  <2>3. b.box = [g EXCEPT ![c] = y]
    BY <1>5, <1>6, <2>1, <2>2
  <2> QED BY <1>2, <2>2, <2>3
<1>8. SameButFor(a, b, {t}) /\ Uninvolved(a, b, {t})
  BY <1>3, <1>5, <1>6, <1>7 DEF SameButFor, Uninvolved
<1> QED BY <1>5, <1>8, CarryOther

LEMMA JifInputCarry ==
  ASSUME NEW a, NEW cl, NEW pg, NEW inp, NEW lk, Good(a, "run", cl, pg, inp, lk),
         NEW t \in Buf, a.cur = t, a.req[t].pc = "input", NEW p \in Int,
         NEW w, NEW s, Carry(a, w, s)
  PROVE  Carry(SetPkt(Goto(a, "deliver"), t, p), w, s)
<1>1. /\ a \in Memory /\ Sched(a, Line0(a)) /\ Letters(a) /\ t \in Thread /\ t # Tcpip
  BY Threads DEF Good
<1>2. ~Bears(a, t)
  BY <1>1, BearersAre
<1>3. PICK m : m = Goto(a, "deliver")
  OBVIOUS
<1>4. /\ m \in Memory /\ Sched(m, Line0(a)) /\ m.box = a.box /\ m.req[t].pc = "deliver"
      /\ m.req = [a.req EXCEPT ![t] = m.req[t]]
  <2>1. "deliver" \in Pcs
    BY DEF Pcs
  <2> QED BY <1>1, <1>3, <2>1, GotoKeeps
<1>5. PICK b : b = SetPkt(m, t, p)
  OBVIOUS
<1>6. b.box = a.box /\ b.req[t].pc = "deliver" /\ b.req = [m.req EXCEPT ![t] = b.req[t]]
  BY <1>1, <1>4, <1>5, PktKeeps
<1>7. \A u \in Thread \ {t} : b.req[u] = a.req[u]
  <2>1. \A u \in Thread \ {t} : m.req[u] = a.req[u]
    BY <1>1, <1>4 DEF Memory
  <2>2. \A u \in Thread \ {t} : b.req[u] = m.req[u]
    BY <1>4, <1>6 DEF Memory
  <2> QED BY <2>1, <2>2
<1>8. SameButFor(a, b, {t}) /\ Uninvolved(a, b, {t})
  BY <1>2, <1>6, <1>7 DEF SameButFor, Uninvolved
<1> QED BY <1>3, <1>5, <1>8, CarryOther

LEMMA DeliverCarry ==
  ASSUME NEW a, NEW cl, NEW pg, NEW inp, NEW lk, Good(a, "run", cl, pg, inp, lk),
         NEW t \in Buf, a.cur = t, a.req[t].pc = "deliver", NEW p, p = a.req[t].pkt,
         NEW c, c = To[p], SemHas(a, Free(c)), NEW w, NEW s, Carry(a, w, s)
  PROVE  Carry(PutBuffer(MboxPut(SemTake(a, Free(c)), c, p), t), w, s)
<1>1. /\ a \in Memory /\ Sched(a, Line0(a)) /\ Letters(a) /\ Counted(a) /\ t \in Thread /\ t # Tcpip
  BY Threads DEF Good
<1>2. c \in Boxes /\ c # Stack /\ Stack \in Boxes /\ p \in Int
  <2>1. p \in 1 .. Arriving
    BY DEF Good, Packets, Pkt
  <2> QED BY <2>1, Sockets, Threads
<1>3. ~Bears(a, t)
  BY <1>1, BearersAre
<1>4. PICK m, x, d, u : Puts(a, t, c, p, m, x, d, u)
  BY <1>1, <1>2, PutIs
<1>5. /\ m = MboxPut(SemTake(a, Free(c)), c, p) /\ x = [a.box EXCEPT ![c] = With(a.box[c], p)]
      /\ m.box = x
  BY <1>4 DEF Puts, Did
<1>r. PICK r : r = a.req[t] /\ Did(a, m, t, r, x, d, u)
  BY <1>4 DEF Puts
<1>6. m \in Memory /\ Sched(m, Line0(a)) /\ m.cur = t
  <2>1. Sched(m, Line0(a))
    BY <1>1, <1>r, DidSched
  <2>2. m \in Memory /\ m.cur = a.cur
    BY <1>r DEF Did, Wakes
  <2> QED BY <2>1, <2>2
<1>7. m.req = a.req
  <2>1. m.req = [a.req EXCEPT ![t] = a.req[t]] /\ a.req \in [Thread -> ReqType]
    BY <1>1, <1>r DEF Did, Memory
  <2> QED BY <1>1, <2>1
<1>8. m.box[Stack] = a.box[Stack]
  BY <1>1, <1>2, <1>5 DEF Memory
<1>9. Carry(PutBuffer(m, t), w, s)
  BY <1>1, <1>3, <1>6, <1>7, <1>8, EndCarry
<1> QED BY <1>5, <1>9

LEMMA ReplyCarry ==
  ASSUME NEW a, NEW cl, NEW pg, NEW inp, NEW lk, Good(a, "run", cl, pg, inp, lk),
         NEW t \in Buf, a.cur = t, a.req[t].pc = "reply", NEW w, NEW s, Carry(a, w, s)
  PROVE  Carry(PutBuffer(a, t), w, s)
<1>1. /\ a \in Memory /\ Sched(a, Line0(a)) /\ Letters(a) /\ t \in Thread /\ t # Tcpip
  BY Threads DEF Good
<1>2. ~Bears(a, t)
  BY <1>1, BearersAre
<1> QED BY <1>1, <1>2, EndCarry

\* tcpip_thread takes the message: the packet is in its hands.
LEMMA FetchCarry ==
  ASSUME NEW a, NEW cl, NEW pg, NEW inp, NEW lk, Good(a, "run", cl, pg, inp, lk),
         a.cur = Tcpip, a.req[Tcpip].pc = "fetch", SemHas(a, Queued(Stack)),
         NEW w, NEW s, Carry(a, w, s)
  PROVE  Carry([MboxGet(SemTake(a, Queued(Stack)), Stack)
                  EXCEPT !.req[Tcpip] = [a.req[MboxMsg(a, Stack)] EXCEPT !.pc = "output"]], w, s)
<1>1. /\ a \in Memory /\ Sched(a, Line0(a)) /\ Letters(a) /\ Counted(a)
      /\ Stack \in Boxes /\ Tcpip \in Thread
  BY Threads DEF Good
<1>2. PICK u, x : u = MboxMsg(a, Stack) /\ x = a.box[Stack]
  OBVIOUS
<1>3. Count(x) > 0 /\ x \in BoxType
  BY <1>1, <1>2 DEF SemHas, Counted, Memory
<1>4. /\ x.head \in Slots /\ Kept(x, x.head)
      /\ \A k \in Slots : Without(x).msg[k] = IF k = x.head THEN 0 ELSE x.msg[k]
  BY <1>3, GetBox
<1>5. \A k \in Slots : /\ x.msg[k] # 0 <=> Kept(x, k)
                       /\ x.msg[k] # 0 => x.msg[k] \in Buf /\ a.req[x.msg[k]].pc = "sending"
                       /\ \A j \in Slots : x.msg[k] # 0 /\ x.msg[j] = x.msg[k] => j = k
  BY <1>1, <1>2 DEF Letters
<1>6. u = x.msg[x.head] /\ u # 0 /\ u \in Buf /\ u \in Thread /\ u # Tcpip /\ a.req[u].pc = "sending"
  BY <1>2, <1>4, <1>5, Threads DEF MboxMsg
<1>7. PICK r \in ReqType : r = [a.req[u] EXCEPT !.pc = "output"] /\ r.pc = "output" /\ r.pkt = a.req[u].pkt
  <2>1. PICK q \in ReqType : q = a.req[u]
    BY <1>1, <1>6 DEF Memory
  <2>2. PICK r : r = [q EXCEPT !.pc = "output"]
    OBVIOUS
  <2>3. "output" \in Pcs
    BY DEF Pcs
  <2>4. r \in ReqType /\ r.pc = "output" /\ r.pkt = q.pkt
    BY <2>2, <2>3 DEF ReqType
  <2> QED BY <2>1, <2>2, <2>4
<1>8. PICK m, y, d, z : Gets(a, Tcpip, Stack, m, y, d, z)
  BY <1>1, GetIs
<1>9. /\ m = MboxGet(SemTake(a, Queued(Stack)), Stack) /\ y = [a.box EXCEPT ![Stack] = Without(x)]
      /\ m.box = y /\ m \in Memory
  BY <1>2, <1>8 DEF Gets, Did
<1>10. m.req = a.req
  <2>1. m.req = [a.req EXCEPT ![Tcpip] = a.req[Tcpip]] /\ a.req \in [Thread -> ReqType]
    BY <1>1, <1>8 DEF Gets, Did, Memory
  <2> QED BY <1>1, <2>1
<1>11. PICK b : b = [m EXCEPT !.req[Tcpip] = r]
  OBVIOUS
<1>12. b.box = m.box /\ b.req = [a.req EXCEPT ![Tcpip] = r]
  BY <1>1, <1>9, <1>10, <1>11, ReqSet
<1>13. b.req[Tcpip] = r /\ \A v \in Thread \ {Tcpip} : b.req[v] = a.req[v]
  BY <1>1, <1>12 DEF Memory
<1>14. b.box[Stack] = Without(x)
  BY <1>1, <1>9, <1>12 DEF Memory
<1>15. Bears(a, u)
  BY <1>2, <1>4, <1>6 DEF Bears
<1>16. s = w + 1 /\ a.req[u].pkt = w + 1 /\ \A v \in Thread : Bears(a, v) => v = u
  BY <1>6, <1>15 DEF Carry
<1>17. Bears(b, Tcpip)
  BY <1>7, <1>13 DEF Bears
<1>18. ASSUME NEW v \in Thread, v # Tcpip, Bears(b, v) PROVE FALSE
  <2>1. CASE v \in Buf /\ b.req[v].pc = "send"
    <3>1. Bears(a, v)
      BY <1>13, <1>18, <2>1 DEF Bears
    <3> QED BY <1>6, <1>13, <1>16, <1>18, <2>1, <3>1
  <2>2. CASE v \in Buf /\ \E k \in Slots : b.box[Stack].msg[k] = v
    <3>1. PICK k \in Slots : Without(x).msg[k] = v
      BY <1>14, <2>2
    <3>2. v # 0
      BY <2>2, Threads
    <3>3. x.msg[k] = v /\ k # x.head
      BY <1>4, <3>1, <3>2
    <3>4. Bears(a, v)
      BY <1>2, <2>2, <3>3 DEF Bears
    <3> QED BY <1>4, <1>5, <1>6, <1>16, <3>2, <3>3, <3>4
  <2> QED BY <1>18, <2>1, <2>2 DEF Bears
<1>19. Carry(b, w, s)
  <2>1. b.req[Tcpip].pkt = w + 1
    BY <1>7, <1>13, <1>16
  <2> QED BY <1>1, <1>16, <1>17, <1>18, <2>1 DEF Carry
<1> QED BY <1>2, <1>7, <1>9, <1>11, <1>19

\* low_level_output: the packet is the output environment's.
LEMMA OutputCarry ==
  ASSUME NEW a, NEW cl, NEW pg, NEW inp, NEW lk, Good(a, "run", cl, pg, inp, lk),
         a.cur = Tcpip, a.req[Tcpip].pc = "output", NEW w, NEW s, Carry(a, w, s)
  PROVE  /\ a.req[Tcpip].pkt = w + 1 /\ s = w + 1
         /\ Carry(SemSignal([a EXCEPT !.req[Tcpip] = [NoReq EXCEPT !.pc = "fetch"]],
                            Done(a.req[Tcpip].whom)), w + 1, s)
<1>1. /\ a \in Memory /\ Sched(a, Line0(a)) /\ Letters(a) /\ Tcpip \in Thread /\ Tcpip \notin Buf
  BY Threads DEF Good
<1>2. PICK d : d = Done(a.req[Tcpip].whom) /\ d \in Sems(Boxes)
  <2>1. a.req[Tcpip].whom \in Boxes
    BY Threads DEF Good, Served
  <2> QED BY <2>1, SemsAre
<1>3. PICK r \in ReqType : r = [NoReq EXCEPT !.pc = "fetch"] /\ r.pc = "fetch"
  <2>0. NoReq \in ReqType
    BY Threads, Rings DEF NoReq, ReqType, Pcs
  <2>1. PICK q \in ReqType : q = NoReq
    BY <2>0
  <2>2. "fetch" \in Pcs
    BY DEF Pcs
  <2>3. [q EXCEPT !.pc = "fetch"] \in ReqType /\ [q EXCEPT !.pc = "fetch"].pc = "fetch"
    BY <2>1, <2>2 DEF ReqType
  <2> QED BY <2>1, <2>3
<1>4. PICK m : m = [a EXCEPT !.req[Tcpip] = r]
  OBVIOUS
<1>5. /\ m \in Memory /\ Sched(m, Line0(a)) /\ m.box = a.box
      /\ m.req = [a.req EXCEPT ![Tcpip] = r]
  <2>1. a \in Memory /\ Tcpip \in Thread /\ r \in ReqType
    BY <1>1, <1>3
  <2>2. PICK g : g = [a.req EXCEPT ![Tcpip] = r]
    OBVIOUS
  <2>3. g \in [Thread -> ReqType] /\ m = [a EXCEPT !.req = g]
    BY <1>4, <2>1, <2>2 DEF Memory
  <2>4. /\ m \in Memory /\ m.box = a.box /\ m.req = g
        /\ m.q = a.q /\ m.cur = a.cur /\ m.on = a.on
    BY <2>1, <2>3 DEF Memory
  <2>5. Sched(m, Line0(a))
    BY <1>1, <2>4 DEF Sched
  <2> QED BY <2>2, <2>4, <2>5
<1>6. PICK b : b = SemSignal(m, d) /\ b.box = m.box /\ b.req = m.req
  BY <1>2, <1>5, SignalKeeps
<1>7. b.req[Tcpip] = r /\ \A v \in Thread \ {Tcpip} : b.req[v] = a.req[v]
  BY <1>1, <1>5, <1>6 DEF Memory
<1>8. Bears(a, Tcpip)
  BY DEF Bears
<1>9. s = w + 1 /\ a.req[Tcpip].pkt = w + 1 /\ \A v \in Thread : Bears(a, v) => v = Tcpip
  BY <1>1, <1>8 DEF Carry
<1>10. ASSUME NEW v \in Thread PROVE ~Bears(b, v)
  <2>1. v # Tcpip => ~Bears(a, v)
    BY <1>9
  <2>2. v # Tcpip => b.req[v] = a.req[v] /\ b.box[Stack] = a.box[Stack]
    BY <1>5, <1>6, <1>7
  <2> QED BY <1>1, <1>3, <1>7, <2>1, <2>2 DEF Bears
<1>11. Carry(b, w + 1, s)
  BY <1>9, <1>10 DEF Carry
<1> QED BY <1>2, <1>3, <1>4, <1>6, <1>9, <1>11

\* serve(): a round of the threads, a buffer, the timer's message and its end.
LEMMA MainCarry ==
  ASSUME NEW a \in Memory, NEW b, b.box = a.box,
         \A u \in Thread \ {Main} : b.req[u] = a.req[u], b.req[Main].pc \in {"serve", "timer"},
         NEW w, NEW s, Carry(a, w, s)
  PROVE  Carry(b, w, s)
<1>1. ~Bears(a, Main)
  BY Threads DEF Bears
<1>2. SameButFor(a, b, {Main}) /\ Uninvolved(a, b, {Main})
  BY <1>1 DEF SameButFor, Uninvolved
<1> QED BY <1>2, CarryOther

LEMMA ServeCarry ==
  ASSUME NEW a \in Memory, NEW T, Sched(a, T), NEW w, NEW s, Carry(a, w, s)
  PROVE  Carry(Serve(a), w, s)
<1>1. PICK b : b = Serve(a)
  OBVIOUS
<1>2. b.box = a.box /\ b.req = [a.req EXCEPT ![Main] = b.req[Main]] /\ b.req[Main].pc = "serve"
  BY <1>1, ServeKeeps
<1>3. \A u \in Thread \ {Main} : b.req[u] = a.req[u]
  BY <1>2 DEF Memory
<1>4. Carry(b, w, s)
  BY <1>2, <1>3, MainCarry
<1> QED BY <1>1, <1>4

LEMMA TimerCarry ==
  ASSUME NEW a \in Memory, NEW T, Sched(a, T), a.cur = Main, NEW w, NEW s, Carry(a, w, s)
  PROVE  Carry(ThreadYield([a EXCEPT !.req[Main].pc = "timer"]), w, s)
<1>1. PICK b : b = Goto(a, "timer")
  OBVIOUS
<1>2. /\ b \in Memory /\ Sched(b, T) /\ b.box = a.box /\ b.req[Main].pc = "timer"
      /\ b.req = [a.req EXCEPT ![Main] = b.req[Main]]
  <2>1. "timer" \in Pcs
    BY DEF Pcs
  <2> QED BY <1>1, <2>1, GotoKeeps
<1>3. \A u \in Thread \ {Main} : b.req[u] = a.req[u]
  BY <1>2 DEF Memory
<1>4. Carry(b, w, s)
  BY <1>2, <1>3, MainCarry
<1>5. Carry(ThreadYield(b), w, s)
  BY <1>2, <1>4, YieldCarry
<1>6. b = [a EXCEPT !.req[Main].pc = "timer"]
  BY <1>1 DEF Goto
<1> QED BY <1>5, <1>6

\* When serve() receives, lwIP has sent every packet.
LEMMA NothingLeft ==
  ASSUME NEW a, NEW cl, NEW pg, NEW inp, NEW lk, Good(a, "recv", cl, pg, inp, lk),
         Flow(a, "recv"), NEW w, NEW s, Carry(a, w, s)
  PROVE  s = w /\ \A u \in Thread : ~Bears(a, u)
<1>1. /\ a \in Memory /\ Sched(a, Line0(a)) /\ Letters(a) /\ a.cur = Main
      /\ AllParked(a, InQueue(a)) /\ Woken(a) = {} /\ Mailing(a) = {}
  BY DEF Good, Flow, Turn, Blocked
<1>2. InQueue(a) = Line0(a) \ {Main}
  BY <1>1 DEF Sched, Line, InQueue
<1>3. ASSUME NEW u \in Thread, Bears(a, u) PROVE FALSE
  <2>1. CASE u \in Buf /\ a.req[u].pc \in {"send", "sending"}
    <3>1. a.req[u].pc # "sending"
      BY <1>1, <2>1 DEF Mailing
    <3>2. u \in InQueue(a) \ {Main}
      BY <1>2, <2>1, Threads DEF Line0, Busy
    <3> QED BY <1>1, <2>1, <3>1, <3>2, Threads DEF AllParked, Parked, Needs
  <2>2. CASE u = Tcpip /\ a.req[u].pc = "output"
    <3>1. u \in InQueue(a) \ {Main}
      BY <1>2, <2>2, Threads DEF Line0
    <3> QED BY <1>1, <2>2, <3>1, Threads DEF AllParked, Parked, Needs
  <2> QED BY <1>1, <1>3, <2>1, <2>2, BearersAre
<1> QED BY <1>3 DEF Carry

\* A message with a page: the thread for it may have the next packet to send.
LEMMA AcceptCarry ==
  ASSUME NEW a, NEW cl, NEW pg, NEW inp, NEW lk, Good(a, "recv", cl, pg, inp, lk),
         Flow(a, "recv"), NEW rq \in ReqType, rq.pc \in {"send", "recv", "input"},
         NEW w \in Nat, NEW s, Carry(a, w, s),
         NEW s2, s2 = IF rq.pc = "send" THEN s + 1 ELSE s, rq.pc = "send" => rq.pkt = s2
  PROVE  Carry(ThreadYield(Serve(ThreadCreate([a EXCEPT !.req[a.va] = rq], a.va))), w, s2)
<1>1. PICK t : t = a.va
  OBVIOUS
<1>2. /\ a \in Memory /\ Sched(a, Line0(a)) /\ a.cur = Main /\ t \in Buf /\ t \in Thread
      /\ t # Main /\ t # Tcpip /\ t \notin Line0(a)
  BY <1>1, Threads DEF Good, Blocked, Memory, Held, Line0
<1>3. PICK b : b = Serve(ThreadCreate([a EXCEPT !.req[t] = rq], t)) /\ Created(a, t, rq, b)
  BY <1>2, CreatedIs
<1>4. /\ b \in Memory /\ Sched(b, Line0(a) \cup {t}) /\ b.box = a.box /\ b.req[t] = rq
      /\ \A v \in Thread \ {Main, t} : b.req[v] = a.req[v]
  BY <1>3 DEF Created
<1>5. s = w /\ \A u \in Thread : ~Bears(a, u)
  BY NothingLeft
<1>6. ASSUME NEW u \in Thread, u # t PROVE ~Bears(b, u)
  <2>1. ~Bears(a, u)
    BY <1>5
  <2>2. u # Main => b.req[u] = a.req[u]
    BY <1>4, <1>6
  <2>3. u = Main => u \notin Buf /\ u # Tcpip
    BY Threads
  <2> QED BY <1>4, <2>1, <2>2, <2>3 DEF Bears
<1>7. Bears(b, t) <=> rq.pc = "send"
  <2>1. ~Bears(a, t)
    BY <1>2, <1>5
  <2> QED BY <1>2, <1>4, <2>1 DEF Bears
<1>8. Carry(b, w, s2)
  <2>1. CASE rq.pc = "send"
    <3>1. s2 = w + 1 /\ b.req[t].pkt = w + 1 /\ Bears(b, t)
      BY <1>4, <1>5, <1>7, <2>1
    <3>2. \A v \in Thread : Bears(b, v) => v = t
      BY <1>6
    <3> QED BY <1>2, <3>1, <3>2 DEF Carry
  <2>2. CASE rq.pc # "send"
    <3>1. s2 = w /\ \A u \in Thread : ~Bears(b, u)
      BY <1>5, <1>6, <1>7, <2>2
    <3> QED BY <3>1 DEF Carry
  <2> QED BY <2>1, <2>2
<1>9. Carry(ThreadYield(b), w, s2)
  BY <1>4, <1>8, YieldCarry
<1> QED BY <1>1, <1>3, <1>9

\* The steps of a request's thread.
LEMMA RequestCarry ==
  ASSUME IInv, Flow(n, mode), NEW t \in Buf, NEW w, NEW s, Carry(n, w, s),
         Send(t) \/ Sending(t) \/ Recv(t) \/ JifInput(t) \/ Deliver(t) \/ Reply(t)
  PROVE  Carry(n', w, s)
<1>1. /\ Good(n, "run", client, page, input, leaked) /\ Flow(n, "run") /\ n.cur = t
      /\ n \in Memory /\ Sched(n, Line0(n)) /\ n.cur # Main /\ page \in [Page -> Int]
  BY Threads DEF Send, Sending, Recv, JifInput, Deliver, Reply, At, IInv, Good
<1>2. ASSUME NEW d \in Sems(Boxes), n' = SemBlock(n, d) PROVE Carry(n', w, s)
  BY <1>1, <1>2, BlockCarry
<1>3. CASE Send(t)
  <2>1. n.req[t].pc = "send"
    BY <1>3 DEF Send, At
  <2>2. SemHas(n, Free(Stack))
    BY <1>1, <2>1, SendFlow
  <2>3. n' = Goto(MboxPut(SemTake(n, Free(Stack)), Stack, t), "sending")
    BY <1>3, <2>2 DEF Send
  <2> QED BY <1>1, <2>1, <2>2, <2>3, SendCarry
<1>4. CASE Sending(t)
  <2>1. n.req[t].pc = "sending"
    BY <1>4 DEF Sending, At
  <2>2. PICK d : d = Done(n.req[t].whom)
    OBVIOUS
  <2>3. d \in Sems(Boxes)
    BY <1>1, <2>1, <2>2, SemsAre, Threads DEF Good, Asking, Asks
  <2>4. n' = IF SemHas(n, d) THEN SetPkt(Goto(SemTake(n, d), "reply"), t, NoPacket) ELSE SemBlock(n, d)
    BY <1>4, <2>2 DEF Sending, SetPkt
  <2>5. CASE SemHas(n, d)
    <3>1. Carry(SetPkt(Goto(SemTake(n, d), "reply"), t, NoPacket), w, s)
      BY <1>1, <2>1, <2>2, <2>5, SendingCarry
    <3> QED BY <2>4, <2>5, <3>1
  <2> QED BY <1>2, <2>3, <2>4, <2>5
<1>5. CASE Recv(t)
  <2>1. n.req[t].pc = "recv"
    BY <1>5 DEF Recv, At
  <2>2. PICK c : c = n.req[t].whom
    OBVIOUS
  <2>3. Queued(c) \in Sems(Boxes)
    BY <1>1, <2>1, <2>2, SemsAre, Threads DEF Good, Asking, Asks
  <2>4. n' = IF SemHas(n, Queued(c))
             THEN Goto(MboxGet(SetPkt(SemTake(n, Queued(c)), t, MboxMsg(n, c)), c), "reply")
             ELSE SemBlock(n, Queued(c))
    BY <1>5, <2>2 DEF Recv, SetPkt
  <2>5. CASE SemHas(n, Queued(c))
    <3>1. Carry(Goto(MboxGet(SetPkt(SemTake(n, Queued(c)), t, MboxMsg(n, c)), c), "reply"), w, s)
      BY <1>1, <2>1, <2>2, <2>5, RecvCarry
    <3> QED BY <2>4, <2>5, <3>1
  <2> QED BY <1>2, <2>3, <2>4, <2>5
<1>6. CASE JifInput(t)
  <2>1. n.req[t].pc = "input"
    BY <1>6 DEF JifInput, At
  <2>2. PICK p \in Int : p = page[n.req[t].page]
    <3>1. n.req[t].page \in Page
      BY <1>1, <2>1 DEF Good, Packets
    <3> QED BY <1>1, <3>1
  <2>3. n' = SetPkt(Goto(n, "deliver"), t, p)
    BY <1>6, <2>2 DEF JifInput, SetPkt
  <2> QED BY <1>1, <2>1, <2>3, JifInputCarry
<1>7. CASE Deliver(t)
  <2>1. n.req[t].pc = "deliver"
    BY <1>7 DEF Deliver, At
  <2>2. PICK p, c : p = n.req[t].pkt /\ c = To[p]
    OBVIOUS
  <2>3. Free(c) \in Sems(Boxes)
    <3>1. p \in 1 .. Arriving
      BY <1>1, <2>1, <2>2 DEF Good, Packets, Pkt
    <3>2. c \in Boxes
      BY <2>2, <3>1, Sockets, Threads
    <3> QED BY <3>2, SemsAre
  <2>4. n' = IF SemHas(n, Free(c)) THEN PutBuffer(MboxPut(SemTake(n, Free(c)), c, p), t)
             ELSE SemBlock(n, Free(c))
    BY <1>7, <2>2 DEF Deliver
  <2>5. CASE SemHas(n, Free(c))
    <3>1. Carry(PutBuffer(MboxPut(SemTake(n, Free(c)), c, p), t), w, s)
      BY <1>1, <2>1, <2>2, <2>5, DeliverCarry
    <3> QED BY <2>4, <2>5, <3>1
  <2> QED BY <1>2, <2>3, <2>4, <2>5
<1>8. CASE Reply(t)
  <2>1. n.req[t].pc = "reply" /\ n' = PutBuffer(n, t)
    BY <1>8 DEF Reply, At
  <2> QED BY <1>1, <2>1, ReplyCarry
<1> QED BY <1>3, <1>4, <1>5, <1>6, <1>7, <1>8

\* The steps of serve(), and the messages it receives.
LEMMA ServerCarry ==
  ASSUME IInv, Flow(n, mode), NEW w \in Nat, Carry(n, w, sent),
         MainServe \/ Fetch \/ ProcessTimer \/ Calls \/ InputSend \/ TimerSend
  PROVE  Carry(n', w, sent')
<1>0. n \in Memory /\ Sched(n, Line0(n)) /\ sent \in Nat
  BY DEF IInv, Good
<1>1. CASE MainServe
  <2>1. sent' = sent /\ n.req[Main].pc = "serve"
    BY <1>1 DEF MainServe, At
  <2>2. CASE n' = ThreadYield([n EXCEPT !.yields = @ + 1])
    <3>1. PICK m : m = [n EXCEPT !.yields = @ + 1]
      OBVIOUS
    <3>2. m \in Memory /\ m.q = n.q /\ m.cur = n.cur /\ m.on = n.on /\ m.box = n.box /\ m.req = n.req
      <4>1. PICK a : a = n
        OBVIOUS
      <4>2. PICK y \in Nat : y = a.yields + 1
        BY <1>0, <4>1 DEF Memory
      <4>3. m = [a EXCEPT !.yields = y] /\ a \in Memory
        BY <1>0, <3>1, <4>1, <4>2 DEF Memory
      <4> QED BY <4>1, <4>3 DEF Memory
    <3>3. Sched(m, Line0(n))
      BY <1>0, <3>2 DEF Sched
    <3>4. Carry(m, w, sent)
      BY <1>0, <2>1, <3>2, MainCarry
    <3>5. Carry(ThreadYield(m), w, sent)
      BY <3>2, <3>3, <3>4, YieldCarry
    <3> QED BY <2>1, <2>2, <3>1, <3>5
  <2>3. CASE n'.box = n.box /\ n'.req = n.req
    <3>1. PICK m : m = n'
      OBVIOUS
    <3>2. Carry(m, w, sent)
      BY <1>0, <2>1, <2>3, <3>1, MainCarry
    <3> QED BY <2>1, <3>1, <3>2
  <2>4. n' = ThreadYield([n EXCEPT !.yields = @ + 1]) \/ (n'.box = n.box /\ n'.req = n.req)
    BY <1>0, <1>1 DEF MainServe, Memory
  <2> QED BY <2>2, <2>3, <2>4
<1>2. CASE Fetch
  <2>1. /\ Good(n, "run", client, page, input, leaked) /\ n.cur = Tcpip /\ n.req[Tcpip].pc = "fetch"
        /\ sent' = sent
    BY <1>2 DEF Fetch, At, IInv, Others
  <2>2. CASE SemHas(n, Queued(Stack))
    <3>1. n' = [MboxGet(SemTake(n, Queued(Stack)), Stack)
                   EXCEPT !.req[Tcpip] = [n.req[MboxMsg(n, Stack)] EXCEPT !.pc = "output"]]
      BY <1>2, <2>2 DEF Fetch
    <3>2. Carry([MboxGet(SemTake(n, Queued(Stack)), Stack)
                   EXCEPT !.req[Tcpip] = [n.req[MboxMsg(n, Stack)] EXCEPT !.pc = "output"]], w, sent)
      BY <2>1, <2>2, FetchCarry
    <3> QED BY <2>1, <3>1, <3>2
  <2>3. CASE ~SemHas(n, Queued(Stack))
    <3>1. n' = SemBlock(n, Queued(Stack))
      BY <1>2, <2>3 DEF Fetch
    <3>2. Queued(Stack) \in Sems(Boxes) /\ n.cur # Main
      BY <2>1, SemsAre, Threads
    <3>3. Carry(SemBlock(n, Queued(Stack)), w, sent)
      BY <1>0, <3>2, BlockCarry
    <3> QED BY <2>1, <3>1, <3>3
  <2> QED BY <2>2, <2>3
<1>3. CASE ProcessTimer
  <2>1. n' = Serve([n EXCEPT !.buse = @ \ {n.va}]) /\ sent' = sent /\ n.req[Main].pc = "timer"
    BY <1>3 DEF ProcessTimer, At
  <2>2. PICK m : m = [n EXCEPT !.buse = @ \ {n.va}]
    OBVIOUS
  <2>3. m \in Memory /\ m.q = n.q /\ m.cur = n.cur /\ m.on = n.on /\ m.box = n.box /\ m.req = n.req
    BY <1>0, <2>2 DEF Memory
  <2>4. Sched(m, Line0(n))
    BY <1>0, <2>3 DEF Sched
  <2>5. Carry(m, w, sent)
    BY <1>0, <2>1, <2>3, MainCarry
  <2>6. Carry(Serve(m), w, sent)
    BY <2>3, <2>4, <2>5, ServeCarry
  <2> QED BY <2>1, <2>2, <2>6
<1>4. ASSUME Calls \/ InputSend \/ TimerSend
      PROVE  Good(n, "recv", client, page, input, leaked) /\ Flow(n, "recv") /\ n.cur = Main
  <2>1. mode = "recv"
    BY <1>4 DEF Calls, Call, CallWithoutPage, InputSend, TimerSend, Receives
  <2>2. Good(n, "recv", client, page, input, leaked)
    BY <2>1 DEF IInv
  <2> QED BY <2>1, <2>2 DEF Good, Blocked
<1>5. ASSUME NEW c \in Client, NEW op \in {"send", "recv"}, Call(c, op), Calls PROVE Carry(n', w, sent')
  <2>1. PICK p \in Int : p = IF op = "send" THEN sent + 1 ELSE NoPacket
    BY <1>0, Rings
  <2>2. PICK rq : rq = [pc |-> op, whom |-> c, page |-> 0, pkt |-> p]
    OBVIOUS
  <2>3. rq \in ReqType /\ rq.pc = op /\ rq.pc \in {"send", "recv", "input"} /\ rq.pkt = p
    BY <2>2, Threads DEF ReqType, Pcs
  <2>4. n' = ThreadYield(Serve(ThreadCreate([n EXCEPT !.req[n.va] = rq], n.va)))
    BY <1>5, <2>1, <2>2 DEF Call, Accept
  <2>5. PICK s2 : s2 = sent' /\ s2 = IF op = "send" THEN sent + 1 ELSE sent
    BY <1>5 DEF Call
  <2>6. Carry(ThreadYield(Serve(ThreadCreate([n EXCEPT !.req[n.va] = rq], n.va))), w, s2)
    <3>1. s2 = IF rq.pc = "send" THEN sent + 1 ELSE sent
      BY <2>3, <2>5
    <3>2. rq.pc = "send" => rq.pkt = s2
      BY <2>1, <2>3, <2>5
    <3> QED BY <1>4, <1>5, <2>3, <3>1, <3>2, AcceptCarry
  <2> QED BY <2>4, <2>5, <2>6
<1>6. ASSUME NEW c \in Client, CallWithoutPage(c) PROVE Carry(n', w, sent')
  <2>1. n' = Serve(n) /\ sent' = sent
    BY <1>6 DEF CallWithoutPage
  <2>2. Carry(Serve(n), w, sent)
    BY <1>0, ServeCarry
  <2> QED BY <2>1, <2>2
<1>7. CASE InputSend
  <2>1. PICK rq : rq = [pc |-> "input", whom |-> Stack, pkt |-> NoPacket, page |-> input]
    OBVIOUS
  <2>2. input \in Page
    BY <1>4, <1>7 DEF InputSend, Good, Packets
  <2>3. rq \in ReqType /\ rq.pc \in {"send", "recv", "input"} /\ rq.pc # "send"
    BY <2>1, <2>2, Threads, Rings DEF ReqType, Pcs
  <2>4. n' = ThreadYield(Serve(ThreadCreate([n EXCEPT !.req[n.va] = rq], n.va))) /\ sent' = sent
    BY <1>7, <2>1 DEF InputSend, Accept
  <2>5. Carry(ThreadYield(Serve(ThreadCreate([n EXCEPT !.req[n.va] = rq], n.va))), w, sent)
    <3>1. sent = IF rq.pc = "send" THEN sent + 1 ELSE sent
      BY <2>3
    <3>2. rq.pc = "send" => rq.pkt = sent
      BY <2>3
    <3> QED BY <1>4, <1>7, <2>3, <3>1, <3>2, AcceptCarry
  <2> QED BY <2>4, <2>5
<1>8. CASE TimerSend
  <2>1. n' = ThreadYield([n EXCEPT !.req[Main].pc = "timer"]) /\ sent' = sent
    BY <1>8 DEF TimerSend
  <2>2. Carry(ThreadYield([n EXCEPT !.req[Main].pc = "timer"]), w, sent)
    BY <1>0, <1>4, <1>8, TimerCarry
  <2> QED BY <2>1, <2>2
<1>9. CASE Calls
  BY <1>5, <1>6, <1>9 DEF Calls
<1> QED BY <1>1, <1>2, <1>3, <1>7, <1>8, <1>9

TxInv == Sent(tx, out, output, n, sent)

LEMMA TxInit == Init => TxInv
<1> SUFFICES ASSUME Init PROVE TxInv
  OBVIOUS
<1>1. MAXTXDESC \in Nat /\ MAXTXDESC > 1 /\ NoPacket = 0
  BY Rings
<1>2. /\ tx = [desc |-> [i \in TxRing |-> [pkt |-> NoPacket, dd |-> TRUE]],
               head |-> 0, tail |-> 0, marked |-> FALSE]
      /\ out = <<>> /\ output = NoPacket /\ sent = 0
  BY DEF Init, E1000Attach, TxRing
<1>3. 0 \in TxRing /\ Start(tx) = 0 /\ Place(0, 0) = 0 /\ \A j \in TxRing : Place(0, j) \in TxRing
  <2>1. 0 \in TxRing
    BY <1>1 DEF TxRing
  <2>2. Start(tx) = 0
    BY <1>2 DEF Start
  <2> QED BY <2>1, <2>2, PlaceIs
<1>4. tx \in TxType
  <2>1. [pkt |-> NoPacket, dd |-> TRUE] \in [pkt : Int, dd : BOOLEAN]
    BY <1>1
  <2>2. PICK g : g = [i \in TxRing |-> [pkt |-> NoPacket, dd |-> TRUE]]
    OBVIOUS
  <2>3. g \in [TxRing -> [pkt : Int, dd : BOOLEAN]]
    BY <2>1, <2>2
  <2>4. tx = [desc |-> g, head |-> 0, tail |-> 0, marked |-> FALSE]
    BY <1>2, <2>2
  <2> QED BY <1>3, <2>3, <2>4 DEF TxType
<1>5. Pends(tx, 0, 0)
  <2>1. 0 \in 0 .. MAXTXDESC /\ tx.tail = Place(Start(tx), 0)
    BY <1>1, <1>2, <1>3
  <2>2. ASSUME NEW j \in TxRing PROVE tx.desc[Place(Start(tx), j)].dd /\ j >= 0 /\ ~(j < 0)
    BY <1>1, <1>2, <1>3 DEF TxRing
  <2> QED BY <2>1, <2>2 DEF Pends
<1>6. Numbered(out, 0)
  BY <1>2 DEF Numbered
<1>7. \A u \in Thread : ~Bears(n, u)
  <2>1. PICK req, box : /\ req = [t \in Thread |-> CASE t = Main -> [NoReq EXCEPT !.pc = "serve"]
                                                   [] t = Tcpip -> [NoReq EXCEPT !.pc = "fetch"]
                                                   [] OTHER -> NoReq]
                        /\ box = NewBoxes(Boxes)
    OBVIOUS
  <2>2. n.req = req /\ n.box = box
    BY <2>1 DEF Init
  <2>3. PICK none, fetch : none = NoReq /\ fetch = [NoReq EXCEPT !.pc = "fetch"]
    OBVIOUS
  <2>4. none.pc = "none" /\ fetch.pc = "fetch"
    BY <2>3 DEF NoReq
  <2>5. req[Tcpip] = fetch /\ \A u \in Buf : req[u] = none
    BY <2>1, <2>3, Threads
  <2>6. box[Stack] = [head |-> -1, nextq |-> 0, msg |-> [k \in Slots |-> 0]]
    BY <2>1, Threads DEF NewBoxes, Slots
  <2>7. \A k \in Slots : box[Stack].msg[k] = 0
    BY <2>6
  <2>8. ASSUME NEW u \in Thread PROVE ~Bears(n, u)
    <3>1. ~(u \in Buf /\ req[u].pc = "send") /\ ~(u = Tcpip /\ req[u].pc = "output")
      BY <2>4, <2>5
    <3>2. ~(u \in Buf /\ \E k \in Slots : box[Stack].msg[k] = u)
      BY <2>7, Threads
    <3> QED BY <2>2, <3>1, <3>2 DEF Bears
  <2> QED BY <2>8
<1>8. Carry(n, Left(0, 0, output), sent)
  <2>1. Left(0, 0, output) = 0
    BY <1>2 DEF Left
  <2> QED BY <1>2, <1>7, <2>1 DEF Carry
<1>9. output = NoPacket /\ output \in Int
  BY <1>1, <1>2
<1>10. Sent(tx, out, output, n, sent)
  BY <1>4, <1>5, <1>6, <1>8, <1>9 DEF Sent
<1> QED BY <1>10 DEF TxInv

LEMMA LeftIs ==
  ASSUME NEW l \in Nat, NEW x \in TxType, NEW k, Pends(x, l, k), NEW ou
  PROVE  /\ k \in Nat /\ Left(l, k, ou) \in Nat
         /\ ou = NoPacket => Left(l, k, ou) = l + k
         /\ ou # NoPacket => Left(l, k, ou) = l + k + 1
BY PendsType DEF Left

\* A step that leaves the card and the output environment as they are.
LEMMA TxElsewhere ==
  ASSUME TxInv, UNCHANGED <<tx, out, output>>,
         \A w \in Nat : Carry(n, w, sent) => Carry(n', w, sent')
  PROVE  TxInv'
<1>1. PICK l, k : /\ Numbered(out, l) /\ Pends(tx, l, k) /\ (output # NoPacket => output = l + k + 1)
                  /\ Carry(n, Left(l, k, output), sent)
  BY DEF TxInv, Sent
<1>2. tx \in TxType /\ output \in Int /\ l \in Nat
  BY <1>1 DEF TxInv, Sent, Numbered
<1>3. PICK w \in Nat : w = Left(l, k, output)
  BY <1>1, <1>2, LeftIs
<1>4. Carry(n', w, sent')
  BY <1>1, <1>3
<1>5. Sent(tx, out, output, n', sent')
  BY <1>1, <1>2, <1>3, <1>4 DEF Sent
<1> QED BY <1>5 DEF TxInv

\* A packet leaves lwIP for the output environment.
LEMMA TxOutput == ASSUME IInv, TxInv, LowLevelOutput PROVE TxInv'
<1>1. /\ Good(n, "run", client, page, input, leaked) /\ n.cur = Tcpip /\ n.req[Tcpip].pc = "output"
      /\ output = NoPacket /\ output' = n.req[Tcpip].pkt /\ UNCHANGED <<tx, out, sent>>
      /\ n' = SemSignal([n EXCEPT !.req[Tcpip] = [NoReq EXCEPT !.pc = "fetch"]],
                        Done(n.req[Tcpip].whom))
  BY DEF LowLevelOutput, At, IInv, Completed, cardVars
<1>2. PICK l, k : /\ Numbered(out, l) /\ Pends(tx, l, k)
                  /\ Carry(n, Left(l, k, output), sent)
  BY DEF TxInv, Sent
<1>3. tx \in TxType /\ l \in Nat
  BY <1>2 DEF TxInv, Sent, Numbered
<1>4. PICK w \in Nat : w = Left(l, k, output) /\ w = l + k /\ k \in Nat
  BY <1>1, <1>2, <1>3, LeftIs
<1>5. /\ n.req[Tcpip].pkt = w + 1
      /\ Carry(SemSignal([n EXCEPT !.req[Tcpip] = [NoReq EXCEPT !.pc = "fetch"]],
                         Done(n.req[Tcpip].whom)), w + 1, sent)
  <2>1. Carry(n, w, sent)
    BY <1>2, <1>4
  <2> QED BY <1>1, <2>1, OutputCarry
<1>6. PICK o \in Int : o = output' /\ o = l + k + 1 /\ o # NoPacket
  BY <1>1, <1>3, <1>4, <1>5, Rings
<1>7. Left(l, k, o) = w + 1
  BY <1>4, <1>6 DEF Left
<1>8. Carry(n', Left(l, k, o), sent)
  BY <1>1, <1>5, <1>7
<1>9. Sent(tx, out, o, n', sent)
  BY <1>2, <1>3, <1>6, <1>8 DEF Sent
<1> QED BY <1>1, <1>6, <1>9 DEF TxInv

\* The output environment gives its packet to the driver.
LEMMA TxSend == ASSUME TxInv, OutputSend PROVE TxInv'
<1>1. /\ output # NoPacket /\ output' = NoPacket /\ tx.desc[tx.tail].dd
      /\ tx' = [tx EXCEPT !.desc[tx.tail] = [pkt |-> output, dd |-> FALSE],
                          !.tail = (@ + 1) % MAXTXDESC]
      /\ UNCHANGED <<n, sent, out>>
  BY DEF OutputSend, E1000Send, TxFull
<1>2. PICK l, k : /\ Numbered(out, l) /\ Pends(tx, l, k) /\ output = l + k + 1
                  /\ Carry(n, Left(l, k, output), sent)
  BY <1>1 DEF TxInv, Sent
<1>3. tx \in TxType /\ l \in Nat /\ output \in Int
  BY <1>2 DEF TxInv, Sent, Numbered
<1>4. k \in Nat /\ Left(l, k, output) = l + k + 1
  BY <1>1, <1>2, <1>3, LeftIs
<1>5. PICK p, y : p \in Int /\ p = output /\ y = tx'
  BY <1>3
<1>6. y \in TxType /\ Pends(y, l, k + 1)
  <2>1. y = [tx EXCEPT !.desc[tx.tail] = [pkt |-> p, dd |-> FALSE], !.tail = (@ + 1) % MAXTXDESC]
    BY <1>1, <1>5
  <2> QED BY <1>1, <1>2, <1>3, <1>5, <2>1, SendPends
<1>7. PICK j : j = k + 1
  OBVIOUS
<1>8. Left(l, j, NoPacket) = l + k + 1
  BY <1>3, <1>4, <1>7 DEF Left
<1>9. Sent(y, out, NoPacket, n, sent)
  <2>1. Pends(y, l, j) /\ Carry(n, Left(l, j, NoPacket), sent) /\ NoPacket \in Int
    BY <1>2, <1>4, <1>6, <1>7, <1>8, Rings
  <2> QED BY <1>2, <1>6, <2>1 DEF Sent
<1> QED BY <1>1, <1>5, <1>9 DEF TxInv

\* The card transmits, and moves on.
LEMMA TxTransmit == ASSUME TxInv, CardTransmit, UNCHANGED netVars PROVE TxInv'
<1>1. /\ ~tx.marked /\ tx.head # tx.tail /\ out' = Append(out, tx.desc[tx.head].pkt)
      /\ tx' = [tx EXCEPT !.desc[tx.head].dd = TRUE, !.marked = TRUE]
      /\ UNCHANGED <<n, sent, output>>
  BY DEF CardTransmit, netVars
<1>2. PICK l, k : /\ Numbered(out, l) /\ Pends(tx, l, k) /\ (output # NoPacket => output = l + k + 1)
                  /\ Carry(n, Left(l, k, output), sent)
  BY DEF TxInv, Sent
<1>3. tx \in TxType /\ l \in Nat /\ output \in Int
  BY <1>2 DEF TxInv, Sent, Numbered
<1>4. PICK y : y = tx'
  OBVIOUS
<1>5. y \in TxType /\ Pends(y, l + 1, k - 1) /\ tx.desc[tx.head].pkt = l + 1
  BY <1>1, <1>2, <1>3, <1>4, TransmitPends
<1>6. k \in Nat
  BY <1>2, <1>3, LeftIs
<1>7. PICK l1, k1 : l1 = l + 1 /\ k1 = k - 1
  OBVIOUS
<1>8. l1 + k1 = l + k
  BY <1>3, <1>6, <1>7
<1>9. Left(l1, k1, output) = Left(l, k, output) /\ (output # NoPacket => output = l1 + k1 + 1)
  BY <1>2, <1>8 DEF Left
<1>10. Numbered(out', l1)
  <2>1. out = [i \in 1 .. l |-> i] /\ out' = Append(out, l + 1) /\ l1 \in Nat
    BY <1>1, <1>2, <1>3, <1>5, <1>7 DEF Numbered
  <2>2. out \in Seq(Nat) /\ Len(out) = l
    BY <1>3, <2>1
  <2>3. out' = [i \in 1 .. l + 1 |-> i]
    <3>1. PICK o, p : o = out /\ p = Append(o, l + 1)
      OBVIOUS
    <3>2. o \in Seq(Nat) /\ Len(o) = l /\ l + 1 \in Nat /\ \A i \in 1 .. l : o[i] = i
      BY <1>3, <2>1, <2>2, <3>1
    <3>3. /\ p \in Seq(Nat) /\ Len(p) = l + 1
          /\ \A i \in 1 .. l : p[i] = o[i]
          /\ p[l + 1] = l + 1
      BY <3>1, <3>2, AppendProperties
    <3>4. p = [i \in 1 .. l + 1 |-> p[i]]
      BY <3>3
    <3>5. \A i \in 1 .. l + 1 : p[i] = i
      BY <1>3, <3>2, <3>3
    <3>6. p = [i \in 1 .. l + 1 |-> i]
      BY <3>4, <3>5
    <3> QED BY <2>1, <3>1, <3>6
  <2> QED BY <1>7, <2>1, <2>3 DEF Numbered
<1>11. Sent(y, out', output, n, sent)
  BY <1>2, <1>3, <1>5, <1>7, <1>9, <1>10 DEF Sent
<1> QED BY <1>1, <1>4, <1>11 DEF TxInv

LEMMA TxMovesOn == ASSUME TxInv, CardTxNext, UNCHANGED netVars PROVE TxInv'
<1>1. /\ tx.marked /\ tx' = [tx EXCEPT !.head = (@ + 1) % MAXTXDESC, !.marked = FALSE]
      /\ UNCHANGED <<n, sent, output, out>>
  BY DEF CardTxNext, netVars
<1>2. PICK l, k : /\ Numbered(out, l) /\ Pends(tx, l, k) /\ (output # NoPacket => output = l + k + 1)
                  /\ Carry(n, Left(l, k, output), sent)
  BY DEF TxInv, Sent
<1>3. tx \in TxType /\ l \in Nat /\ output \in Int
  BY <1>2 DEF TxInv, Sent, Numbered
<1>4. PICK y : y = tx'
  OBVIOUS
<1>5. y \in TxType /\ Pends(y, l, k)
  BY <1>1, <1>2, <1>3, <1>4, NextPends
<1>6. Sent(y, out, output, n, sent)
  BY <1>2, <1>3, <1>5 DEF Sent
<1> QED BY <1>1, <1>4, <1>6 DEF TxInv

LEMMA TxNext == IInv /\ Flow(n, mode) /\ TxInv /\ [Next]_vars => TxInv'
<1> SUFFICES ASSUME IInv, Flow(n, mode), TxInv, [Next]_vars PROVE TxInv'
  OBVIOUS
<1>1. ASSUME NEW t \in Buf, Send(t) \/ Sending(t) \/ Recv(t) \/ JifInput(t) \/ Deliver(t) \/ Reply(t)
      PROVE  TxInv'
  <2>1. UNCHANGED <<tx, out, output, sent>>
    BY <1>1 DEF Send, Sending, Recv, JifInput, Deliver, Reply, Others, cardVars
  <2>2. PICK s : s = sent
    OBVIOUS
  <2>3. \A w \in Nat : Carry(n, w, s) => Carry(n', w, s)
    BY <1>1, RequestCarry
  <2> QED BY <2>1, <2>2, <2>3, TxElsewhere
<1>2. CASE MainServe \/ Fetch \/ ProcessTimer \/ Calls \/ InputSend \/ TimerSend
  <2>1. UNCHANGED <<tx, out, output>>
    BY <1>2 DEF MainServe, Fetch, ProcessTimer, Calls, Call, CallWithoutPage, InputSend, TimerSend,
                Others, cardVars
  <2>2. \A w \in Nat : Carry(n, w, sent) => Carry(n', w, sent')
    BY <1>2, ServerCarry
  <2> QED BY <2>1, <2>2, TxElsewhere
<1>3. CASE LowLevelOutput
  BY <1>3, TxOutput
<1>4. CASE OutputSend
  BY <1>4, TxSend
<1>5. CASE CardTransmit /\ UNCHANGED netVars
  BY <1>5, TxTransmit
<1>6. CASE CardTxNext /\ UNCHANGED netVars
  BY <1>6, TxMovesOn
<1>7. CASE UNCHANGED <<tx, out, output, n, sent>>
  <2>1. TxInv' = TxInv
    BY <1>7 DEF TxInv
  <2> QED BY <2>1
<1>8. ASSUME \/ \E c \in Client : ClientRecv(c)
             \/ InputPoll \/ TimerRing \/ UNCHANGED vars
             \/ (CardReceive \/ CardRxNext) /\ UNCHANGED netVars
      PROVE  UNCHANGED <<tx, out, output, n, sent>>
  BY <1>8 DEF ClientRecv, InputPoll, E1000Spin, E1000Receive, TimerRing, CardReceive, CardRxNext,
              vars, netVars, cardVars
<1>9. CASE Server
  BY <1>1, <1>2, <1>3, <1>9 DEF Server
<1>10. CASE Cards
  BY <1>5, <1>6, <1>7, <1>8, <1>10 DEF Cards, Card
<1> QED BY <1>2, <1>4, <1>7, <1>8, <1>9, <1>10 DEF Next

(* The packets clients send leave the machine in the order in which the      *)
(* network server accepted the requests, none lost and none twice, on their  *)
(* way through the request's thread, lwIP's mailbox and thread (sys_arch.c), *)
(* the output environment (net/output.c) and the transmit ring with its full *)
(* test (E1000_send in kern/e1000.c), for rings and mailboxes of every size. *)
THEOREM WireOrderIsAcceptOrder == Spec => []SentInOrder
<1>1. IInv /\ Flow(n, mode) /\ TxInv /\ [Next]_vars => TxInv'
  BY TxNext
<1>2. TxInv => SentInOrder
  <2> SUFFICES ASSUME TxInv PROVE SentInOrder
    OBVIOUS
  <2>1. PICK l \in Nat : out = [i \in 1 .. l |-> i]
    BY DEF TxInv, Sent, Numbered
  <2>2. Len(out) = l
    BY <2>1
  <2> QED BY <2>1, <2>2 DEF SentInOrder
<1> QED BY <1>1, <1>2, Always, TxInit, PTL DEF Spec
=============================================================================
