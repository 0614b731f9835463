------------------------------ MODULE Network ------------------------------
(***************************************************************************)
(* The network server (net/serv.c) with its timer, input and output        *)
(* environments (net/timer.c, net/input.c, net/output.c), the card and its *)
(* driver (E1000), and clients that send and receive packets on sockets of *)
(* their own.  Of lwIP, the way of a request through the stack's thread    *)
(* and mailboxes is modelled; what it does to packets is not.              *)
(***************************************************************************)
EXTENDS E1000, SysArch

CONSTANTS
    Client,      \* environments with one socket each
    To,          \* the client a packet from the wire is for: a function on 1 .. Arriving
    QUEUE_SIZE,  \* 20 in the code
    MaxYields,   \* 32 in the code: rounds the server gives its threads before it blocks
    MaxSent,     \* (bound) packets the clients send
    MaxLeaks,    \* (bound) requests without an argument page
    Stack        \* the mailbox of lwIP's thread

ASSUME Sizes == {QUEUE_SIZE, MaxYields, MBOXSLOTS} \subseteq Nat \ {0}
ASSUME Sockets == Stack \notin Client /\ To \in [1 .. Arriving -> Client]

Buf    == 1 .. QUEUE_SIZE     \* a buffer, and the thread that serves its request
Main   == 0                   \* the thread of serve()
Tcpip  == -1                  \* the thread of lwIP
Thread == Buf \cup {Main, Tcpip}
Boxes  == Client \cup {Stack}

ASSUME NoSemaphore == NoSem \notin Sems(Boxes)

VARIABLES
    n,       \* the server's memory: threads, semaphores, mailboxes, buffers
    mode,    \* "run", "recv" (blocked in ipc_recv), "panic"
    client,  \* what each client is doing
    output,  \* the packet the output environment has, or NoPacket
    input,   \* the page of the packet the input environment has, or 0
    page,    \* the packet in each page the input environment gave out
    timer,   \* what the timer environment is doing
    sent,    \* how many packets clients have sent; a packet's name is its number
    leaked,  \* (for the properties) buffers that are never given back
    got      \* (for the properties) the packets each client has received
netVars == <<n, mode, client, output, input, page, timer, sent, leaked, got>>
vars == <<netVars, cardVars>>

Page == 1 .. QUEUE_SIZE + 1
NoReq == [pc |-> "none", whom |-> Stack, pkt |-> NoPacket, page |-> 0]

\* After serve_init: lwIP's thread waits for a message, serve() starts.
Init ==
    /\ E1000Attach
    /\ n = [q |-> <<Tcpip>>, cur |-> Main,
            on |-> [t \in Thread |-> IF t = Tcpip THEN Queued(Stack) ELSE NoSem],
            wake |-> [t \in Thread |-> FALSE],
            sem |-> [NewSems(Boxes) EXCEPT ![Queued(Stack)].waiters = 1], box |-> NewBoxes(Boxes),
            req |-> [t \in Thread |-> CASE t = Main -> [NoReq EXCEPT !.pc = "serve"]
                                        [] t = Tcpip -> [NoReq EXCEPT !.pc = "fetch"]
                                        [] OTHER -> NoReq],
            buse |-> {}, va |-> 0, yields |-> 0]
    /\ mode = "run" /\ client = [c \in Client |-> "user"] /\ output = NoPacket
    /\ input = 0 /\ page = [g \in Page |-> NoPacket] /\ timer = "asleep"
    /\ sent = 0 /\ leaked = {} /\ got = [c \in Client |-> <<>>]
-----------------------------------------------------------------------------
\* Thread t runs at point pc, and no CPU spins with the kernel lock.
At(t, pc) == ~spin /\ mode = "run" /\ n.cur = t /\ n.req[t].pc = pc
Goto(m, pc) == [m EXCEPT !.req[m.cur].pc = pc]
Serve(m) == [m EXCEPT !.req[Main].pc = "serve", !.yields = 0, !.va = 0]

\* serve(): let threads run while wakeups are pending, then take a buffer and block.
MainServe ==
    /\ At(Main, "serve")
    /\ IF WakeupsPending(n) /\ n.yields < MaxYields
       THEN n' = ThreadYield([n EXCEPT !.yields = @ + 1]) /\ UNCHANGED mode
       ELSE IF n.buse = Buf
       THEN mode' = "panic" /\ UNCHANGED n
       ELSE LET b == CHOOSE b \in Buf \ n.buse : \A c \in Buf \ n.buse : b <= c
            IN n' = [n EXCEPT !.buse = @ \cup {b}, !.va = b] /\ mode' = "recv"
    /\ UNCHANGED <<client, output, input, page, timer, sent, leaked, got, cardVars>>

\* A message with a page: a thread for it, and one round of the threads.
Receives == ~spin /\ mode = "recv"
Accept(req) ==
    /\ n' = ThreadYield(Serve(ThreadCreate([n EXCEPT !.req[n.va] = req], n.va)))
    /\ mode' = "run"

Call(c, op) ==
    /\ Receives /\ client[c] = "user"
    /\ op = "send" => sent < MaxSent
    /\ Accept([pc |-> op, whom |-> c, page |-> 0,
               pkt |-> IF op = "send" THEN sent + 1 ELSE NoPacket])
    /\ sent' = IF op = "send" THEN sent + 1 ELSE sent
    /\ client' = [client EXCEPT ![c] = "called"]
    /\ UNCHANGED <<output, input, page, timer, leaked, got, cardVars>>

\* A request without a page keeps its buffer and is never answered.
CallWithoutPage(c) ==
    /\ Receives /\ client[c] = "user" /\ Cardinality(leaked) < MaxLeaks
    /\ n' = Serve(n) /\ mode' = "run"
    /\ leaked' = leaked \cup {n.va}
    /\ client' = [client EXCEPT ![c] = "called"]
    /\ UNCHANGED <<output, input, page, timer, sent, got, cardVars>>

\* nsipc: the client is in ipc_recv once its ipc_send has returned.
ClientRecv(c) ==
    /\ ~spin /\ client[c] = "called"
    /\ client' = [client EXCEPT ![c] = "waits"]
    /\ UNCHANGED <<n, mode, output, input, page, timer, sent, leaked, got, cardVars>>
-----------------------------------------------------------------------------
\* Threads of requests.  netconn_send: to lwIP's mailbox, then wait for completion.
Others == <<mode, client, output, input, page, timer, sent, leaked, got, cardVars>>
Send(t) ==
    /\ At(t, "send")
    /\ n' = IF SemHas(n, Free(Stack))
            THEN Goto(MboxPut(SemTake(n, Free(Stack)), Stack, t), "sending")
            ELSE SemBlock(n, Free(Stack))
    /\ UNCHANGED Others
Sending(t) ==
    /\ At(t, "sending")
    /\ LET s == Done(n.req[t].whom) IN
       n' = IF SemHas(n, s) THEN [Goto(SemTake(n, s), "reply") EXCEPT !.req[t].pkt = NoPacket]
            ELSE SemBlock(n, s)
    /\ UNCHANGED Others

\* netconn_recv
Recv(t) ==
    /\ At(t, "recv")
    /\ LET c == n.req[t].whom IN
       n' = IF SemHas(n, Queued(c))
            THEN Goto(MboxGet([SemTake(n, Queued(c)) EXCEPT !.req[t].pkt = MboxMsg(n, c)], c),
                      "reply")
            ELSE SemBlock(n, Queued(c))
    /\ UNCHANGED Others

\* Mutant: the thread ends and its buffer stays taken.
PutBufferForgotten(m, t) == ThreadHalt([m EXCEPT !.req[t] = NoReq])

\* The end of serve_thread.
PutBuffer(m, t) == ThreadHalt([m EXCEPT !.buse = @ \ {t}, !.req[t] = NoReq])

\* jif_input copies the packet; recv_udp posts it to the socket's mailbox.
JifInput(t) ==
    /\ At(t, "input")
    /\ n' = [Goto(n, "deliver") EXCEPT !.req[t].pkt = page[n.req[t].page]]
    /\ UNCHANGED Others
Deliver(t) ==
    /\ At(t, "deliver")
    /\ LET c == To[n.req[t].pkt] IN
       n' = IF SemHas(n, Free(c))
            THEN PutBuffer(MboxPut(SemTake(n, Free(c)), c, n.req[t].pkt), t)
            ELSE SemBlock(n, Free(c))
    /\ UNCHANGED Others

\* ipc_send of the answer: the whole server waits until the client receives.
Reply(t) ==
    /\ At(t, "reply")
    /\ LET r == n.req[t] IN
       /\ client[r.whom] = "waits"
       /\ client' = [client EXCEPT ![r.whom] = "user"]
       /\ got' = IF r.pkt = NoPacket THEN got ELSE [got EXCEPT ![r.whom] = Append(@, r.pkt)]
    /\ n' = PutBuffer(n, t)
    /\ UNCHANGED <<mode, output, input, page, timer, sent, leaked, cardVars>>

\* tcpip_thread: fetch a message; for a send, give the packet to the output
\* environment (low_level_output), then signal that the request is completed.
Fetch ==
    /\ At(Tcpip, "fetch")
    /\ n' = IF SemHas(n, Queued(Stack))
            THEN LET t == MboxMsg(n, Stack)
                     m == MboxGet(SemTake(n, Queued(Stack)), Stack)
                 IN [m EXCEPT !.req[Tcpip] = [n.req[t] EXCEPT !.pc = "output"]]
            ELSE SemBlock(n, Queued(Stack))
    /\ UNCHANGED Others

Completed(c) == SemSignal([n EXCEPT !.req[Tcpip] = [NoReq EXCEPT !.pc = "fetch"]], Done(c))
\* Mutant: ipc_send does not wait until the output environment receives.
LowLevelOutputNoWait ==
    /\ At(Tcpip, "output") /\ output' = n.req[Tcpip].pkt
    /\ n' = Completed(n.req[Tcpip].whom)
    /\ UNCHANGED <<mode, client, input, page, timer, sent, leaked, got, cardVars>>
LowLevelOutput ==
    /\ At(Tcpip, "output") /\ output = NoPacket
    /\ output' = n.req[Tcpip].pkt
    /\ n' = Completed(n.req[Tcpip].whom)
    /\ UNCHANGED <<mode, client, input, page, timer, sent, leaked, got, cardVars>>
-----------------------------------------------------------------------------
\* output(): a packet at a time, again and again while the ring is full.
OutputSend ==
    /\ ~spin /\ output # NoPacket
    /\ E1000Send(output)
    /\ output' = NoPacket
    /\ UNCHANGED <<n, mode, client, input, page, timer, sent, leaked, got>>

\* input(): poll the card, put the packet into a page of its own, send the page.
Mapped    == {n.req[t].page : t \in Thread} \cup {input}
\* Mutant: every packet is put into the page of the packet before.
SamePage  == 1
\* sys_page_alloc at the address of the packet: the page there goes to the server.
FreshPage == CHOOSE g \in Page \ Mapped : \A h \in Page \ Mapped : g <= h
InputPoll ==
    /\ input = 0
    /\ \/ E1000Spin /\ UNCHANGED <<input, page>>
       \/ /\ E1000Receive
          /\ input' = FreshPage
          /\ page' = [page EXCEPT ![FreshPage] = rx.desc[Receiving].pkt]
    /\ UNCHANGED <<n, mode, client, output, timer, sent, leaked, got>>
InputSend ==
    /\ Receives /\ input # 0
    /\ Accept([pc |-> "input", whom |-> Stack, pkt |-> NoPacket, page |-> input])
    /\ input' = 0
    /\ UNCHANGED <<client, output, page, timer, sent, leaked, got, cardVars>>

\* timer(): ring, then wait for the server to say when to ring next.
TimerRing ==
    /\ timer = "asleep" /\ timer' = "rings"
    /\ UNCHANGED <<n, mode, client, output, input, page, sent, leaked, got, cardVars>>
TimerSend ==
    /\ Receives /\ timer = "rings"
    /\ timer' = "waits"
    /\ n' = ThreadYield([n EXCEPT !.req[Main].pc = "timer"]) /\ mode' = "run"
    /\ UNCHANGED <<client, output, input, page, sent, leaked, got, cardVars>>

\* The end of process_timer, after its round of the threads.
ProcessTimer ==
    /\ At(Main, "timer") /\ timer = "waits"
    /\ timer' = "asleep"
    /\ n' = Serve([n EXCEPT !.buse = @ \ {n.va}])
    /\ UNCHANGED <<mode, client, output, input, page, sent, leaked, got, cardVars>>
-----------------------------------------------------------------------------
Server == \/ MainServe \/ Fetch \/ LowLevelOutput \/ ProcessTimer
          \/ \E t \in Buf : Send(t) \/ Sending(t) \/ Recv(t) \/ JifInput(t)
                            \/ Deliver(t) \/ Reply(t)
Calls == \E c \in Client : Call(c, "send") \/ Call(c, "recv") \/ CallWithoutPage(c)
Cards == Card /\ UNCHANGED netVars
Next  == \/ Server \/ Calls \/ (\E c \in Client : ClientRecv(c))
         \/ OutputSend \/ InputPoll \/ InputSend \/ TimerRing \/ TimerSend
         \/ Cards

Spec == Init /\ [][Next]_vars
-----------------------------------------------------------------------------
Waiting(t) == n.on[t] # NoSem
Holders(b, pcs) == {t \in Buf : n.req[t].pc \in pcs /\ n.req[t].whom = b}

(* The server's bookkeeping: each thread is in one place; a buffer is taken  *)
(* exactly by its thread, by serve() that receives into it, or by a request  *)
(* without a page; a mailbox's head and nextq agree with its semaphores, and *)
(* lwIP's mailbox names only threads that still wait for it.                 *)
NetInv ==
    /\ InQueue(n) \cup {n.cur} = {Main, Tcpip} \cup {t \in Buf : n.req[t].pc # "none"}
    /\ Cardinality(InQueue(n)) = Len(n.q) /\ n.cur \notin InQueue(n)
    /\ n.buse = {t \in Buf : n.req[t].pc # "none"} \cup leaked \cup ({n.va} \ {0})
    /\ \A b \in Boxes :
        /\ Messages(n.box[b]) = n.sem[Queued(b)].counter
        /\ Messages(n.box[b]) + n.sem[Free(b)].counter = MBOXSLOTS
    /\ \A k \in DOMAIN n.box[Stack].msg :
        LET t == n.box[Stack].msg[k] IN t # 0 => n.req[t].pc = "sending"

(* The server stops for want of a buffer only when every buffer is held by a *)
(* request that waits for a packet or for room, or by one without a page.    *)
OverflowOnlyBlocked ==
    mode = "panic" => \A b \in Buf \ leaked : Waiting(b) /\ n.req[b].pc \in {"recv", "deliver"}

(* When the server blocks in ipc_recv no thread has work it could do: what a *)
(* message made ready is done within MaxYields rounds, and no wakeup is lost *)
(* (a thread asleep on a semaphore that was signalled would be ready).       *)
FlushedBeforeBlock == mode = "recv" => \A t \in InQueue(n) : ~Ready(n, t)

(* Packets from the wire reach each socket in the order in which the driver  *)
(* took them, each once and unchanged.                                       *)
ReceivedInOrder ==
    \A c \in Client :
        LET due == SelectSeq(taken, LAMBDA p : To[p] = c)
        IN Len(got[c]) <= Len(due) /\ got[c] = SubSeq(due, 1, Len(got[c]))

(* Packets clients send reach the wire in the order in which the server      *)
(* accepted them, each once, whatever the card and the environments between  *)
(* do in the meantime.                                                       *)
SentInOrder == out = [k \in 1 .. Len(out) |-> k]

(* A CPU that waits in E1000_receive for the card's head, with the kernel    *)
(* lock held, waits for one step of the card: the card is about to leave the *)
(* descriptor, and no one else has to do anything first.                     *)
SpinIsShort == spin => RxReady /\ (rx.head = Receiving => rx.marked)
=============================================================================
