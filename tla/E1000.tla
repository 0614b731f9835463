------------------------------- MODULE E1000 -------------------------------
(***************************************************************************)
(* The network card and its driver (kern/e1000.c).  The driver moves the   *)
(* two tails with the kernel lock held; the card moves the two heads at    *)
(* any time, and marks a descriptor done before it moves its head on.      *)
(***************************************************************************)
EXTENDS Integers, Sequences

CONSTANTS MAXTXDESC, MAXRXDESC,  \* descriptors of the rings: 64 and 128 in the code
          Arriving,              \* packets that come over the wire: 1 .. Arriving
          NoPacket

ASSUME Rings == /\ MAXTXDESC \in Nat \ {0, 1} /\ MAXRXDESC \in Nat \ {0, 1}
                /\ Arriving \in Nat /\ NoPacket = 0

VARIABLES tx, rx,   \* the rings: descriptors, head and tail, and whether the card is
                    \* between marking the descriptor at its head and moving on
          spin,     \* a CPU spins in E1000_receive, holding the kernel lock
          arrived,  \* (environment) the last packet the wire has brought
          out,      \* (for the properties) the packets put on the wire
          taken,    \* (for the properties) the packets the driver handed out
          lapped    \* (for the properties) the transmit ring was filled completely
cardVars == <<tx, rx, spin, arrived, out, taken, lapped>>

\* E1000_attach: every transmit descriptor is done; the card has all receive
\* descriptors but the one at the tail.
E1000Attach ==
    /\ tx = [desc |-> [i \in 0 .. MAXTXDESC - 1 |-> [pkt |-> NoPacket, dd |-> TRUE]],
             head |-> 0, tail |-> 0, marked |-> FALSE]
    /\ rx = [desc |-> [i \in 0 .. MAXRXDESC - 1 |-> [pkt |-> NoPacket, dd |-> FALSE]],
             head |-> 1, tail |-> 0, marked |-> FALSE]
    /\ spin = FALSE /\ arrived = 0 /\ out = <<>> /\ taken = <<>> /\ lapped = FALSE
-----------------------------------------------------------------------------
\* E1000_send fails with E_TX_FULL while the descriptor at the tail is not done.
TxFull == ~tx.desc[tx.tail].dd
E1000Send(p) ==
    /\ ~TxFull
    /\ tx' = [tx EXCEPT !.desc[tx.tail] = [pkt |-> p, dd |-> FALSE],
                        !.tail = (@ + 1) % MAXTXDESC]
    /\ lapped' = (lapped \/ tx'.tail = tx.head)
    /\ UNCHANGED <<rx, spin, arrived, out, taken>>

\* E1000_receive of the descriptor after the tail: it spins while the card's head
\* stands there, then takes the packet and gives the descriptor back.
Receiving == (rx.tail + 1) % MAXRXDESC
RxReady   == rx.desc[Receiving].dd
E1000Spin ==
    /\ ~spin /\ RxReady /\ rx.head = Receiving
    /\ spin' = TRUE
    /\ UNCHANGED <<tx, rx, arrived, out, taken, lapped>>

\* Mutant: the descriptor is given back still marked done.
E1000ReceiveStale ==
    /\ RxReady /\ rx.head # Receiving
    /\ rx' = [rx EXCEPT !.tail = Receiving]
    /\ taken' = Append(taken, rx.desc[Receiving].pkt)
    /\ spin' = FALSE
    /\ UNCHANGED <<tx, arrived, out, lapped>>

E1000Receive ==
    /\ RxReady /\ rx.head # Receiving
    /\ rx' = [rx EXCEPT !.desc[Receiving].dd = FALSE, !.tail = Receiving]
    /\ taken' = Append(taken, rx.desc[Receiving].pkt)
    /\ spin' = FALSE
    /\ UNCHANGED <<tx, arrived, out, lapped>>
-----------------------------------------------------------------------------
\* The card transmits the packet at its head, marks the descriptor done, moves on.
CardTransmit ==
    /\ ~tx.marked /\ tx.head # tx.tail
    /\ out' = Append(out, tx.desc[tx.head].pkt)
    /\ tx' = [tx EXCEPT !.desc[tx.head].dd = TRUE, !.marked = TRUE]
    /\ UNCHANGED <<rx, spin, arrived, taken, lapped>>
CardTxNext ==
    /\ tx.marked
    /\ tx' = [tx EXCEPT !.head = (@ + 1) % MAXTXDESC, !.marked = FALSE]
    /\ UNCHANGED <<rx, spin, arrived, out, taken, lapped>>

\* A packet arrives: it is stored at the head, or lost when head and tail meet.
CardReceive ==
    /\ ~rx.marked /\ arrived < Arriving
    /\ arrived' = arrived + 1
    /\ rx' = IF rx.head = rx.tail THEN rx
             ELSE [rx EXCEPT !.desc[rx.head] = [pkt |-> arrived', dd |-> TRUE],
                             !.marked = TRUE]
    /\ UNCHANGED <<tx, spin, out, taken, lapped>>
CardRxNext ==
    /\ rx.marked
    /\ rx' = [rx EXCEPT !.head = (@ + 1) % MAXRXDESC, !.marked = FALSE]
    /\ UNCHANGED <<tx, spin, arrived, out, taken, lapped>>

Card == CardTransmit \/ CardTxNext \/ CardReceive \/ CardRxNext
=============================================================================
