--------------------------- MODULE PrivateMemory ---------------------------
(***************************************************************************)
(* What fork promises: every environment has a memory of its own.  A child *)
(* is built by its maker page by page, each page a copy of the maker's at  *)
(* that moment, and runs once it has them all.  Nobody else's store is     *)
(* ever seen.                                                              *)
(***************************************************************************)
CONSTANTS Env, Va, Value, Root,
          Blank,     \* a page not copied yet
          None,      \* not being built
          Nobody     \* half built, its maker gone

VARIABLES mem, alive, maker
vars == <<mem, alive, maker>>

Init ==
    /\ \E m \in [Va -> Value] :
          mem = [e \in Env |-> IF e = Root THEN m ELSE [v \in Va |-> Blank]]
    /\ alive = {Root}
    /\ maker = [e \in Env |-> None]

Store(e, v, x) ==
    /\ e \in alive
    /\ mem' = [mem EXCEPT ![e][v] = x]
    /\ UNCHANGED <<alive, maker>>

Create(p, c) ==
    /\ p \in alive /\ c \notin alive /\ maker[c] = None
    /\ maker' = [maker EXCEPT ![c] = p]
    /\ UNCHANGED <<mem, alive>>

Copy(c, v) ==
    /\ maker[c] \in alive /\ mem[c][v] = Blank
    /\ mem' = [mem EXCEPT ![c][v] = mem[maker[c]][v]]
    /\ UNCHANGED <<alive, maker>>

Start(c) ==
    /\ maker[c] \in alive /\ \A v \in Va : mem[c][v] # Blank
    /\ alive' = alive \cup {c}
    /\ maker' = [maker EXCEPT ![c] = None]
    /\ UNCHANGED mem

\* What an environment was building never starts.
End(e) ==
    /\ e \in alive
    /\ alive' = alive \ {e}
    /\ mem' = [c \in Env |-> IF c = e \/ maker[c] = e THEN [v \in Va |-> Blank] ELSE mem[c]]
    /\ maker' = [c \in Env |-> IF maker[c] = e THEN Nobody ELSE maker[c]]

Next ==
    \/ \E e \in Env, v \in Va, x \in Value : Store(e, v, x)
    \/ \E p, c \in Env : Create(p, c)
    \/ \E c \in Env, v \in Va : Copy(c, v)
    \/ \E c \in Env : Start(c)
    \/ \E e \in Env : End(e)

Spec == Init /\ [][Next]_vars
=============================================================================
