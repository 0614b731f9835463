----------------------------- MODULE NetworkMC -----------------------------
(***************************************************************************)
(* Two clients; every packet from the wire is for the first, whose mailbox *)
(* fills up when it does not receive.  Four packets are two more than a    *)
(* mailbox takes, and three buffers run out.  The bound: packets of both   *)
(* directions and requests without a page are five together.               *)
(***************************************************************************)
EXTENDS Network
CONSTANTS c1, c2
ToFirst == [p \in 1 .. Arriving |-> c1]
Five    == arrived + sent + Cardinality(leaked) <= 5
=============================================================================
