------------------------------ MODULE ForkCow ------------------------------
(***************************************************************************)
(* lib/fork.c: copy-on-write fork and the page fault handler, one system   *)
(* call or one copy per step.  The environment that forks keeps writing    *)
(* its own stack while it forks, its children run as soon as they are      *)
(* started, and any of them may end between two steps.                     *)
(***************************************************************************)
EXTENDS Integers, FiniteSets

CONSTANTS
    Env,            \* env ids: one is never given out twice
    Root,           \* the program the kernel loads
    NVa,            \* pages below USTACKTOP, in the order fork visits them; the last is the stack
    Text,           \* those the loader mapped read-only
    Page, NoPage,
    Value,          \* what a page may hold; 0 is a page fresh from page_alloc
    NoEnv,
    Candidates(_),  \* of the free pages or env ids, those the allocator may return
    Blank, None, Nobody

Va    == 1 .. NVa
Stack == NVa
PFTEMP  == NVa + 1   \* the scratch page of pgfault
UXSTACK == NVa + 2   \* the exception stack
Slot    == 1 .. NVa + 2

ASSUME Shape == /\ Root \in Env /\ NVa \in Nat \ {0} /\ Text \subseteq Va \ {Stack}
                /\ NoPage \notin Page /\ NoEnv \notin Env /\ 0 \in Value
ASSUME Choice == \A S \in (SUBSET Page) \cup (SUBSET Env) : Candidates(S) \subseteq S
ASSUME Marks == Blank \notin Value /\ {None, Nobody} \cap Env = {} /\ None # Nobody

VARIABLES
    map,      \* page tables: the page and permission of every slot
    data,     \* contents of the pages
    stage,    \* unused, embryo (made by sys_exofork), live, panicked, gone
    upcall,   \* environments with env_pgfault_upcall
    handler,  \* environments whose copy of _pgfault_handler is set
    fault,    \* the step of pgfault and the address that faulted
    fork      \* the step of fork, the child, the page it is at

vars == <<map, data, stage, upcall, handler, fault, fork>>

Unmapped == [page |-> NoPage, perm |-> "none"]
NoFault  == [at |-> "none", va |-> Stack]
NoFork   == [at |-> "none", child |-> NoEnv, pn |-> 0]

Free == Page \ {map[e][s].page : e \in Env, s \in Slot}
\* page_alloc(ALLOC_ZERO) and page_insert at s of environment e
SysPageAlloc(e, s, p) ==
    /\ p \in Candidates(Free)
    /\ map' = [map EXCEPT ![e][s] = [page |-> p, perm |-> "w"]]
    /\ data' = [data EXCEPT ![p] = 0]

\* The next page of the caller that is mapped, after pn; NVa + 1 at USTACKTOP.
After(e, pn) ==
    LET Later == {v \in Va : v > pn /\ map[e][v].page # NoPage}
    IN IF Later = {} THEN NVa + 1 ELSE CHOOSE v \in Later : \A w \in Later : v <= w
At(e, pn, c) == IF pn = NVa + 1 THEN [at |-> "uxstack", child |-> c, pn |-> pn]
                                ELSE [at |-> "dup", child |-> c, pn |-> pn]

\* In user mode or between two system calls of the library.
Runs(e)     == stage[e] = "live"
Undisturbed(e) == Runs(e) /\ fault[e].at = "none"
-----------------------------------------------------------------------------
\* A store.  During fork only the stack is written.  A store to a copy-on-write
\* page enters pgfault and is executed again when it returns.  (A store to
\* read-only text ends the program: pgfault panics, or the kernel destroys it.)
Write(e, v, x) ==
    /\ Undisturbed(e)
    /\ fork[e].at = "none" \/ v = Stack
    /\ \/ /\ map[e][v].perm = "w"
          /\ data' = [data EXCEPT ![map[e][v].page] = x]
          /\ UNCHANGED fault
       \/ /\ map[e][v].perm = "cow" /\ e \in upcall
          /\ fault' = [fault EXCEPT ![e] = [at |-> "alloc", va |-> v]]
          /\ UNCHANGED data
    /\ UNCHANGED <<map, stage, upcall, handler, fork>>

PgfaultAlloc(e) ==
    /\ Runs(e) /\ fault[e].at = "alloc"
    /\ \E p \in Page : SysPageAlloc(e, PFTEMP, p)
    /\ fault' = [fault EXCEPT ![e].at = "copy"]
    /\ UNCHANGED <<stage, upcall, handler, fork>>

PgfaultCopy(e) ==
    /\ Runs(e) /\ fault[e].at = "copy"
    /\ data' = [data EXCEPT ![map[e][PFTEMP].page] = data[map[e][fault[e].va].page]]
    /\ fault' = [fault EXCEPT ![e].at = "map"]
    /\ UNCHANGED <<map, stage, upcall, handler, fork>>

PgfaultMap(e) ==
    /\ Runs(e) /\ fault[e].at = "map"
    /\ map' = [map EXCEPT ![e][fault[e].va] = [page |-> map[e][PFTEMP].page, perm |-> "w"]]
    /\ fault' = [fault EXCEPT ![e].at = "unmap"]
    /\ UNCHANGED <<data, stage, upcall, handler, fork>>

\* Mutant: the mapping at PFTEMP is left behind.
PgfaultUnmapForgotten(e) ==
    /\ Runs(e) /\ fault[e].at = "unmap"
    /\ fault' = [fault EXCEPT ![e] = NoFault]
    /\ UNCHANGED <<map, data, stage, upcall, handler, fork>>

PgfaultUnmap(e) ==
    /\ Runs(e) /\ fault[e].at = "unmap"
    /\ map' = [map EXCEPT ![e][PFTEMP] = Unmapped]
    /\ fault' = [fault EXCEPT ![e] = NoFault]
    /\ UNCHANGED <<data, stage, upcall, handler, fork>>
-----------------------------------------------------------------------------
\* set_pgfault_handler, the first time: an exception stack and the upcall.
SetPgfaultHandler(e) ==
    /\ Undisturbed(e) /\ fork[e].at = "none"
    /\ IF e \in handler
       THEN UNCHANGED <<map, data, upcall>>
       ELSE (\E p \in Page : SysPageAlloc(e, UXSTACK, p)) /\ upcall' = upcall \cup {e}
    /\ handler' = handler \cup {e}
    /\ fork' = [fork EXCEPT ![e].at = "exofork"]
    /\ UNCHANGED <<stage, fault>>

\* env_alloc gives the child no mapping and no upcall.
SysExofork(e, c) ==
    /\ Undisturbed(e) /\ fork[e].at = "exofork" /\ c \in Candidates({d \in Env : stage[d] = "unused"})
    /\ stage' = [stage EXCEPT ![c] = "embryo"]
    /\ fork' = [fork EXCEPT ![e] = At(e, After(e, 0), c)]
    /\ UNCHANGED <<map, data, upcall, handler, fault>>

\* duppage, the mapping of the child.
DupChild(e) ==
    /\ Undisturbed(e) /\ fork[e].at = "dup"
    /\ LET c == fork[e].child
           v == fork[e].pn
           own == map[e][v]
       IN IF own.perm \in {"w", "cow"}
          THEN /\ map' = [map EXCEPT ![c][v] = [page |-> own.page, perm |-> "cow"]]
               /\ fork' = [fork EXCEPT ![e].at = "self"]
          ELSE /\ map' = [map EXCEPT ![c][v] = [page |-> own.page, perm |-> "ro"]]
               /\ fork' = [fork EXCEPT ![e] = At(e, After(e, v), c)]
    /\ UNCHANGED <<data, stage, upcall, handler, fault>>

\* Mutant: the caller's own mapping is left writable.
DupSelfForgotten(e) ==
    /\ Undisturbed(e) /\ fork[e].at = "self"
    /\ fork' = [fork EXCEPT ![e] = At(e, After(e, fork[e].pn), fork[e].child)]
    /\ UNCHANGED <<map, data, stage, upcall, handler, fault>>

\* duppage, the caller's own mapping.
DupSelf(e) ==
    /\ Undisturbed(e) /\ fork[e].at = "self"
    /\ map' = [map EXCEPT ![e][fork[e].pn].perm = "cow"]
    /\ fork' = [fork EXCEPT ![e] = At(e, After(e, fork[e].pn), fork[e].child)]
    /\ UNCHANGED <<data, stage, upcall, handler, fault>>

\* The exception stack of the child, then its upcall.
ForkUxstack(e) ==
    /\ Undisturbed(e) /\ fork[e].at = "uxstack"
    /\ \E p \in Page : SysPageAlloc(fork[e].child, UXSTACK, p)
    /\ fork' = [fork EXCEPT ![e].at = "upcall"]
    /\ UNCHANGED <<stage, upcall, handler, fault>>

SysEnvSetPgfaultUpcall(e) ==
    /\ Undisturbed(e) /\ fork[e].at = "upcall"
    /\ upcall' = upcall \cup {fork[e].child}
    /\ fork' = [fork EXCEPT ![e].at = "start"]
    /\ UNCHANGED <<map, data, stage, handler, fault>>

\* The child's memory, _pgfault_handler included, is a copy of the caller's.
SysEnvSetStatus(e) ==
    /\ Undisturbed(e) /\ fork[e].at = "start"
    /\ stage' = [stage EXCEPT ![fork[e].child] = "live"]
    /\ handler' = handler \cup {fork[e].child}
    /\ fork' = [fork EXCEPT ![e] = NoFork]
    /\ UNCHANGED <<map, data, upcall, fault>>
-----------------------------------------------------------------------------
\* A system call of the library fails for want of memory or of an environment:
\* panic, which never returns to the program.
Panic(e) ==
    /\ Runs(e)
    /\ \/ fault[e].at \in {"alloc", "map"}
       \/ fault[e].at = "none" /\ (fork[e].at # "none" \/ e \notin handler)
    /\ stage' = [stage EXCEPT ![e] = "panicked"]
    /\ fault' = [fault EXCEPT ![e] = NoFault]
    /\ fork' = [fork EXCEPT ![e] = NoFork]
    /\ UNCHANGED <<map, data, upcall, handler>>

\* exit, or sys_env_destroy by the parent, between any two steps.
EnvFree(e) ==
    /\ stage[e] \in {"live", "panicked"}
    /\ stage' = [stage EXCEPT ![e] = "gone"]
    /\ map' = [map EXCEPT ![e] = [s \in Slot |-> Unmapped]]
    /\ upcall' = upcall \ {e} /\ handler' = handler \ {e}
    /\ fault' = [fault EXCEPT ![e] = NoFault]
    /\ fork' = [fork EXCEPT ![e] = NoFork]
    /\ UNCHANGED data

\* A program loaded by the kernel: one page per address, text read-only.
Init ==
    /\ \E load \in [Va -> Page] :
          /\ \A v, w \in Va : load[v] = load[w] => v = w
          /\ map = [e \in Env |-> [s \in Slot |->
                      IF e = Root /\ s \in Va
                      THEN [page |-> load[s], perm |-> IF s \in Text THEN "ro" ELSE "w"]
                      ELSE Unmapped]]
    /\ data = [p \in Page |-> 0]
    /\ stage = [e \in Env |-> IF e = Root THEN "live" ELSE "unused"]
    /\ upcall = {} /\ handler = {}
    /\ fault = [e \in Env |-> NoFault]
    /\ fork = [e \in Env |-> NoFork]

Next == \E e \in Env :
    \/ \E v \in Va, x \in Value : Write(e, v, x)
    \/ PgfaultAlloc(e) \/ PgfaultCopy(e) \/ PgfaultMap(e) \/ PgfaultUnmap(e)
    \/ SetPgfaultHandler(e)
    \/ \E c \in Env : SysExofork(e, c)
    \/ DupChild(e) \/ DupSelf(e)
    \/ ForkUxstack(e) \/ SysEnvSetPgfaultUpcall(e) \/ SysEnvSetStatus(e)
    \/ Panic(e)
    \/ EnvFree(e)

Spec == Init /\ [][Next]_vars
-----------------------------------------------------------------------------
(* The page tables between any two steps: a page that somebody can write is  *)
(* mapped once, but for the page pgfault is moving and the page duppage is   *)
(* sharing (for ever, when the caller panics there); PFTEMP is used inside   *)
(* pgfault only; whoever can meet a copy-on-write page has an exception      *)
(* stack of its own and an upcall.                                           *)
Perms == {"none", "ro", "w", "cow"}
TypeOK ==
    /\ map \in [Env -> [Slot -> [page : Page \cup {NoPage}, perm : Perms]]]
    /\ data \in [Page -> Value]
    /\ stage \in [Env -> {"unused", "embryo", "live", "panicked", "gone"}]
    /\ upcall \subseteq Env /\ handler \subseteq Env
    /\ fault \in [Env -> [at : {"none", "alloc", "copy", "map", "unmap"}, va : Va]]
    /\ fork \in [Env -> [at : {"none", "exofork", "dup", "self", "uxstack", "upcall", "start"},
                         child : Env \cup {NoEnv}, pn : 0 .. NVa + 1]]

Maker(c) ==
    IF stage[c] # "embryo" THEN None
    ELSE IF \E e \in Env : fork[e].child = c THEN CHOOSE e \in Env : fork[e].child = c
    ELSE Nobody

Sharing(e, s, f, t) ==
    \/ /\ f = e /\ s = PFTEMP /\ t = fault[e].va /\ fault[e].at = "unmap"
    \/ /\ fork[e].at = "self" /\ s = fork[e].pn /\ t = s /\ f = fork[e].child
    \/ stage[f] = "embryo" /\ Maker(f) = Nobody
    \/ stage[e] = "panicked" /\ f = e /\ s = PFTEMP
WritablePrivate ==
    \A e, f \in Env : \A s, t \in Slot :
        /\ map[e][s].perm = "w" /\ map[e][s].page = map[f][t].page /\ <<e, s>> # <<f, t>>
        => Sharing(e, s, f, t) \/ Sharing(f, t, e, s)
PftempInHandler ==
    \A e \in Env : Runs(e) /\ map[e][PFTEMP].page # NoPage => fault[e].at \in {"copy", "map", "unmap"}
FaultsHandled ==
    \A e \in Env : \A v \in Va : Runs(e) /\ map[e][v].perm = "cow" =>
        e \in upcall /\ map[e][UXSTACK].perm = "w"
CowInv == TypeOK /\ WritablePrivate /\ PftempInHandler /\ FaultsHandled

(* Fork copies memory: the pages of an environment change by its own stores  *)
(* only, and a child starts with the pages of its parent as they were when   *)
(* duppage shared them.  A page counts as copied once nobody can write it.   *)
Copied(c, v) ==
    /\ map[c][v].page # NoPage
    /\ \A e \in Env, s \in Slot : map[e][s].page = map[c][v].page => map[e][s].perm # "w"
View(e) == [v \in Va |->
    IF stage[e] = "live" \/ (stage[e] = "embryo" /\ Maker(e) # Nobody /\ Copied(e, v))
    THEN data[map[e][v].page] ELSE Blank]
Abstract == INSTANCE PrivateMemory WITH
    mem   <- [e \in Env |-> View(e)],
    alive <- {e \in Env : stage[e] = "live"},
    maker <- [c \in Env |-> Maker(c)]
ImplementsPrivateMemory == Abstract!Spec
=============================================================================
