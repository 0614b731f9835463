----------------------------- MODULE ForkCowMC -----------------------------
(* Three env ids, a page of text and the stack, and the ten pages three      *)
(* environments can hold.  Pages have no names: the lowest free one is       *)
(* allocated, and a view keeps of each slot what it permits, what it shows   *)
(* and which slots share its page.                                           *)
EXTENDS ForkCow

Lowest(S) == {p \in S : \A q \in S : p <= q}
Unnamed ==
    <<[e \in Env |-> [s \in Slot |->
         LET p == map[e][s].page IN
         IF p = NoPage THEN <<>>
         ELSE <<map[e][s].perm, data[p], {<<f, t>> \in Env \X Slot : map[f][t].page = p}>>]],
      stage, upcall, handler, fault, fork>>
=============================================================================
