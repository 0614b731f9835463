------------------------------ MODULE PageRefs ------------------------------
(* Physical pages, their reference counts and free list, the address spaces  *)
(* that point at them, and the TLBs of the CPUs (kern/pmap.c, the memory     *)
(* system calls of kern/syscall.c, the memory side of kern/env.c).           *)
(*                                                                           *)
(* A pointer to a page lives in a holder: the page directory of an           *)
(* environment, an entry of the directory, or an entry of a page table.      *)
(* pp_ref is meant to be "the count of pointers ... to this page"            *)
(* (inc/memlayout.h:185).  System calls run under the kernel lock, so each   *)
(* is one step; between them any CPU runs user code and fills its TLB.       *)
(* The free list is a set: which free page page_alloc returns is arbitrary.  *)
(* A panic for want of memory (region_alloc, sys_sbrk) ends the system and   *)
(* is left out.                                                              *)
EXTENDS Integers, FiniteSets

CONSTANTS
    CPU, Env,
    Boot,           \* the environments env_create makes before the CPUs run
    Page,           \* the pages page_init puts on the free list
    Va,             \* user pages (below UTOP)
    Pd,             \* entries of a page directory
    PDX,            \* [Va -> Pd]
    ImageVa,        \* the page load_icode maps
    NoPage, NoVa, Idle,
    RefMax,         \* largest value of pp_ref (16 bits in the code)
    AnyUse          \* TRUE: parents also edit the mappings of a child that runs

Dir(e)    == <<"dir", e, NoVa>>
Tab(e, d) == <<"tab", e, d>>
Pte(e, v) == <<"pte", e, v>>
Tables    == {Dir(e) : e \in Env} \cup {Tab(e, d) : e \in Env, d \in Pd}
Ptes      == {Pte(e, v) : e \in Env, v \in Va}
Holder    == Tables \cup Ptes
Owned(e)  == {h \in Holder : h[2] = e}

ASSUME Finite == IsFiniteSet(Holder)
ASSUME Kinds  == /\ Boot \subseteq Env
                 /\ PDX \in [Va -> Pd] /\ ImageVa \in Va /\ AnyUse \in BOOLEAN
                 /\ NoPage \notin Page /\ Idle \notin Env /\ NoVa \notin Va
\* No program maps one page so often that pp_ref wraps; see the README.
ASSUME RefWide == RefMax \in Nat /\ RefMax > Cardinality(Holder) + 1

VARIABLES
    mem,        \* ptr: the page each holder points at; wr: the PTEs with PTE_W;
                \* ref: pp_ref; free: page_free_list;
                \* pinned: pages with one reference that no holder stands for
    stage,      \* free, embryo (sys_exofork), live, waiting (in sys_ipc_recv), dying
    parent,     \* env_parent_id, Idle when that environment is gone
    dstva,      \* env_ipc_dstva while waiting, NoVa for "no page wanted"
    cur,        \* the environment whose page directory the CPU has loaded
    tlb,        \* [CPU -> [Va -> cached translation]]
    booted

vars == <<mem, stage, parent, dstva, cur, tlb, booted>>
-----------------------------------------------------------------------------
(* Reference counts and the free list.                                       *)

Inc(n) == IF n = RefMax THEN 0 ELSE n + 1
Dec(n) == IF n = 0 THEN RefMax ELSE n - 1

PageFree(m, p) == [m EXCEPT !.free = @ \cup {p}]

PageDecref(m, p) ==
    LET less == [m EXCEPT !.ref[p] = Dec(@)]
    IN  IF less.ref[p] = 0 THEN PageFree(less, p) ELSE less

\* page_alloc resets the count: a page freed too early would lose its references.
PageAlloc(m, p) == [m EXCEPT !.free = @ \ {p}, !.ref[p] = 0]

(* Page tables.                                                              *)

HasTable(m, e, v) == m.ptr[Tab(e, PDX[v])] # NoPage

\* What pgdir_walk(create) may allocate: nothing when the table is there, no
\* way to go on when the table is missing and memory is out.
TableChoice(m, e, v) == IF HasTable(m, e, v) THEN {NoPage} ELSE m.free

\* A fresh page becomes a table or a directory, with one reference.
NewTable(m, h, t) == [PageAlloc(m, t) EXCEPT !.ptr[h] = t, !.ref[t] = Inc(@)]

PgdirWalk(m, e, v, t) == IF t = NoPage THEN m ELSE NewTable(m, Tab(e, PDX[v]), t)

PageRemove(m, e, v) ==
    LET h == Pte(e, v) IN
    IF m.ptr[h] = NoPage THEN m
    ELSE [PageDecref(m, m.ptr[h]) EXCEPT !.ptr[h] = NoPage, !.wr = @ \ {h}]

\* A mutant: the old mapping is removed before the new one is counted.
PageInsertLate(m, e, p, v, w, t) ==
    LET removed == PageRemove(PgdirWalk(m, e, v, t), e, v)
    IN  [removed EXCEPT !.ptr[Pte(e, v)] = p, !.ref[p] = Inc(@)]

SetPte(m, h, p, w) ==
    [m EXCEPT !.ptr[h] = p, !.wr = IF w THEN @ \cup {h} ELSE @ \ {h}]

\* page_insert counts the new mapping before it removes the old one.
PageInsert(m, e, p, v, w, t) ==
    LET walked  == PgdirWalk(m, e, v, t)
        counted == [walked EXCEPT !.ref[p] = Inc(@)]
    IN  SetPte(PageRemove(counted, e, v), Pte(e, v), p, w)

\* region_alloc and sys_sbrk count the page once more before page_insert does.
AllocPinned(m, p) ==
    [PageAlloc(m, p) EXCEPT !.ref[p] = Inc(@), !.pinned = @ \cup {p}]
RegionAlloc(m, e, p, v) ==
    LET popped == AllocPinned(m, p)
    IN  {PageInsert(popped, e, p, v, TRUE, t) : t \in TableChoice(popped, e, v)}

\* env_setup_vm
EnvSetupVm(m, e, p) == NewTable(m, Dir(e), p)

\* env_free removes every mapping below UTOP, then the tables, then the directory.
Drops(m, e, p) == Cardinality({h \in Owned(e) : m.ptr[h] = p})
EnvFree(m, e) ==
    [m EXCEPT !.ptr = [h \in Holder |-> IF h[2] = e THEN NoPage ELSE m.ptr[h]],
              !.wr = @ \ Owned(e),
              !.ref = [p \in Page |-> m.ref[p] - Drops(m, e, p)],
              !.free = @ \cup {p \in Page : Drops(m, e, p) > 0
                                            /\ m.ref[p] = Drops(m, e, p)}]
-----------------------------------------------------------------------------
(* CPUs, address spaces and TLBs.                                            *)

NoEntry == [page |-> NoPage, w |-> FALSE]
Entry   == [page : Page \cup {NoPage}, w : BOOLEAN]
Flushed == [v \in Va |-> NoEntry]

\* A mutant: page_remove does not call it.
TlbInvalidateSkipped(c, e, v) == tlb

\* tlb_invalidate flushes on the CPU that runs the kernel, and only when that
\* CPU has this address space loaded; page_remove calls it for a mapped page.
TlbInvalidate(c, e, v) ==
    IF cur[c] = e /\ mem.ptr[Pte(e, v)] # NoPage
    THEN [tlb EXCEPT ![c][v] = NoEntry] ELSE tlb

\* sched_yield and env_run: some environment that may run, or the idle one (which
\* one is the subject of EnvSched).  lcr3 empties the TLB, but env_run skips it
\* when the environment it picks is the one already loaded.
Runnable(st, c) == {e \in Env : st[e] = "live" /\ \A o \in CPU \ {c} : cur[o] # e}
SchedYield(c, st) ==
    \E n \in Runnable(st, c) \cup {Idle} :
       /\ cur' = [cur EXCEPT ![c] = n]
       /\ tlb' = IF n = cur[c] THEN tlb ELSE [tlb EXCEPT ![c] = Flushed]

\* The caller is in the kernel and was not destroyed while it ran.
Calls(c) == booted /\ cur[c] \in Env /\ stage[cur[c]] = "live"

\* envid2env(checkperm): the caller or its child; the library edits a child
\* only before it has started.
MayEdit(c, e) ==
    \/ e = cur[c]
    \/ /\ parent[e] = cur[c]
       /\ stage[e] # "free"
       /\ AnyUse \/ stage[e] = "embryo"

Release(e) ==
    /\ mem' = EnvFree(mem, e)
    /\ stage' = [stage EXCEPT ![e] = "free"]
    /\ parent' = [x \in Env |-> IF x = e \/ parent[x] = e THEN Idle ELSE parent[x]]
    /\ dstva' = [dstva EXCEPT ![e] = NoVa]
-----------------------------------------------------------------------------
(* Boot.                                                                     *)

EnvCreate(e) ==
    /\ ~booted /\ e \in Boot /\ stage[e] = "free"
    /\ \E p \in mem.free : \E q \in mem.free \ {p} :
          mem' \in RegionAlloc(EnvSetupVm(mem, e, p), e, q, ImageVa)
    /\ stage' = [stage EXCEPT ![e] = "live"]
    /\ UNCHANGED <<parent, dstva, cur, tlb, booted>>

BootAps ==
    /\ ~booted /\ \A e \in Boot : stage[e] = "live"
    /\ booted' = TRUE
    /\ UNCHANGED <<mem, stage, parent, dstva, cur, tlb>>

(* User code: an access through a mapping caches it.                         *)

Touch(c, v) ==
    /\ booted /\ cur[c] \in Env
    /\ mem.ptr[Pte(cur[c], v)] # NoPage
    /\ tlb' = [tlb EXCEPT ![c][v] = [page |-> mem.ptr[Pte(cur[c], v)],
                                     w    |-> Pte(cur[c], v) \in mem.wr]]
    /\ UNCHANGED <<mem, stage, parent, dstva, cur, booted>>

(* Traps and system calls of the environment on CPU c.                       *)

Yield(c) ==
    /\ booted /\ (cur[c] = Idle \/ Calls(c))
    /\ SchedYield(c, stage)
    /\ UNCHANGED <<mem, stage, parent, dstva, booted>>

\* trap: a destroyed environment is freed when it enters the kernel.
Reap(c) ==
    /\ cur[c] \in Env /\ stage[cur[c]] = "dying"
    /\ Release(cur[c])
    /\ SchedYield(c, stage')
    /\ UNCHANGED booted

\* When the walk finds no memory the new page goes back to the list.
SysPageAlloc(c, e, v, w) ==
    /\ Calls(c) /\ MayEdit(c, e)
    /\ \E p \in mem.free :
          LET popped == PageAlloc(mem, p) IN
          \/ /\ \E t \in TableChoice(popped, e, v) :
                   mem' = PageInsert(popped, e, p, v, w, t)
             /\ tlb' = TlbInvalidate(c, e, v)
          \/ /\ TableChoice(popped, e, v) = {}
             /\ mem' = PageFree(popped, p)
             /\ tlb' = tlb
    /\ UNCHANGED <<stage, parent, dstva, cur, booted>>

\* A mutant: PTE_W is granted from a read-only mapping.
MayShareUnchecked(h, w) == mem.ptr[h] # NoPage

\* A mapping may not be made writable from a read-only one.
MayShare(h, w) == mem.ptr[h] # NoPage /\ (w => h \in mem.wr)

SysPageMap(c, s, sv, e, v, w) ==
    /\ Calls(c) /\ MayEdit(c, s) /\ MayEdit(c, e)
    /\ MayShare(Pte(s, sv), w)
    /\ \E t \in TableChoice(mem, e, v) :
          mem' = PageInsert(mem, e, mem.ptr[Pte(s, sv)], v, w, t)
    /\ tlb' = TlbInvalidate(c, e, v)
    /\ UNCHANGED <<stage, parent, dstva, cur, booted>>

SysPageUnmap(c, e, v) ==
    /\ Calls(c) /\ MayEdit(c, e)
    /\ mem' = PageRemove(mem, e, v)
    /\ tlb' = TlbInvalidate(c, e, v)
    /\ UNCHANGED <<stage, parent, dstva, cur, booted>>

SysSbrk(c, v) ==
    /\ Calls(c)
    /\ \E p \in mem.free : mem' \in RegionAlloc(mem, cur[c], p, v)
    /\ tlb' = TlbInvalidate(c, cur[c], v)
    /\ UNCHANGED <<stage, parent, dstva, cur, booted>>

SysExofork(c, e) ==
    /\ Calls(c) /\ stage[e] = "free"
    /\ \E p \in mem.free : mem' = EnvSetupVm(mem, e, p)
    /\ stage' = [stage EXCEPT ![e] = "embryo"]
    /\ parent' = [parent EXCEPT ![e] = cur[c]]
    /\ UNCHANGED <<dstva, cur, tlb, booted>>

SysEnvSetStatus(c, e) ==
    /\ Calls(c) /\ stage[e] = "embryo" /\ parent[e] = cur[c]
    /\ stage' = [stage EXCEPT ![e] = "live"]
    /\ UNCHANGED <<mem, parent, dstva, cur, tlb, booted>>

SysIpcRecv(c, v) ==
    /\ Calls(c)
    /\ stage' = [stage EXCEPT ![cur[c]] = "waiting"]
    /\ dstva' = [dstva EXCEPT ![cur[c]] = v]
    /\ SchedYield(c, stage')
    /\ UNCHANGED <<mem, parent, booted>>

\* The page travels only when the receiver asked for one; -E_NO_MEM sends nothing.
SysIpcTrySend(c, e, sv, w) ==
    /\ Calls(c) /\ stage[e] = "waiting"
    /\ sv # NoVa => MayShare(Pte(cur[c], sv), w)
    /\ IF sv # NoVa /\ dstva[e] # NoVa
       THEN \E t \in TableChoice(mem, e, dstva[e]) :
               mem' = PageInsert(mem, e, mem.ptr[Pte(cur[c], sv)], dstva[e], w, t)
       ELSE mem' = mem
    /\ stage' = [stage EXCEPT ![e] = "live"]
    /\ dstva' = [dstva EXCEPT ![e] = NoVa]
    /\ UNCHANGED <<parent, cur, tlb, booted>>

\* A mutant: a child that another CPU runs is freed at once.
SysEnvDestroyAtOnce(c, e) ==
    /\ Calls(c) /\ (e = cur[c] \/ parent[e] = cur[c]) /\ stage[e] # "dying"
    /\ Release(e)
    /\ IF e = cur[c] THEN SchedYield(c, stage') ELSE UNCHANGED <<cur, tlb>>
    /\ UNCHANGED booted

\* env_destroy: a zombie when another CPU runs it, freed at once otherwise.
SysEnvDestroy(c, e) ==
    /\ Calls(c) /\ (e = cur[c] \/ parent[e] = cur[c]) /\ stage[e] # "dying"
    /\ IF e = cur[c]
       THEN Release(e) /\ SchedYield(c, stage')
       ELSE /\ IF \E o \in CPU : cur[o] = e
               THEN stage' = [stage EXCEPT ![e] = "dying"] /\ UNCHANGED <<mem, parent, dstva>>
               ELSE Release(e)
            /\ UNCHANGED <<cur, tlb>>
    /\ UNCHANGED booted
-----------------------------------------------------------------------------
Init ==
    /\ mem = [ptr    |-> [h \in Holder |-> NoPage], wr |-> {},
              ref    |-> [p \in Page |-> 0],
              free   |-> Page,
              pinned |-> {}]
    /\ stage = [e \in Env |-> "free"]
    /\ parent = [e \in Env |-> Idle]
    /\ dstva = [e \in Env |-> NoVa]
    /\ cur = [c \in CPU |-> Idle]
    /\ tlb = [c \in CPU |-> Flushed]
    /\ booted = FALSE

Edits(c) ==
    \E e \in Env, v \in Va, w \in BOOLEAN :
       \/ SysPageAlloc(c, e, v, w)
       \/ SysPageUnmap(c, e, v)
       \/ \E s \in Env, sv \in Va : SysPageMap(c, s, sv, e, v, w)

Next ==
    \/ \E e \in Env : EnvCreate(e)
    \/ BootAps
    \/ \E c \in CPU :
          \/ Yield(c) \/ Reap(c) \/ Edits(c)
          \/ \E v \in Va : Touch(c, v) \/ SysSbrk(c, v)
          \/ \E v \in Va \cup {NoVa} : SysIpcRecv(c, v)
          \/ \E e \in Env :
                \/ SysExofork(c, e) \/ SysEnvSetStatus(c, e) \/ SysEnvDestroy(c, e)
                \/ \E sv \in Va \cup {NoVa}, w \in BOOLEAN : SysIpcTrySend(c, e, sv, w)

Spec == Init /\ [][Next]_vars
-----------------------------------------------------------------------------
(* Properties.                                                               *)

Stages == {"free", "embryo", "live", "waiting", "dying"}
Holders(f, p) == {h \in Holder : f[h] = p}
Count(m, p) == Cardinality(Holders(m.ptr, p))
Pin(m, p)   == IF p \in m.pinned THEN 1 ELSE 0

Memory == [ptr : [Holder -> Page \cup {NoPage}], wr : SUBSET Ptes,
           ref : [Page -> 0 .. RefMax], free : SUBSET Page, pinned : SUBSET Page]
MemType(m) == m \in Memory /\ \A h \in m.wr : m.ptr[h] # NoPage

\* Every page is referenced exactly as often as it is pointed at.
Counted(m) == \A p \in Page : m.ref[p] = Count(m, p) + Pin(m, p)
\* Exactly the unreferenced pages are on the free list: none leaks, none is
\* handed out while a mapping of it remains.
FreeList(m) == m.free = {p \in Page : m.ref[p] = 0}
\* A page table or directory is reached by one pointer and by no user mapping.
TablesPrivate(m) == \A h \in Tables, o \in Holder :
                       m.ptr[h] # NoPage /\ m.ptr[o] = m.ptr[h] => o = h
\* Page tables are neither pinned nor kernel pages.
TablesUnpinned(m) == \A h \in Tables : m.ptr[h] \notin m.pinned
\* A mapping lies in a table, a table hangs off a directory.
Nested(m) == /\ \A e \in Env, v \in Va :
                   m.ptr[Pte(e, v)] # NoPage => m.ptr[Tab(e, PDX[v])] # NoPage
             /\ \A e \in Env, d \in Pd :
                   m.ptr[Tab(e, d)] # NoPage => m.ptr[Dir(e)] # NoPage

\* The pages of the system are sound between two entries of the kernel: counts,
\* free list and page tables agree, and an address space exists exactly for an
\* allocated environment (page_insert, page_remove, env_setup_vm, env_free).
PageInv ==
    /\ MemType(mem) /\ Counted(mem) /\ FreeList(mem)
    /\ TablesPrivate(mem) /\ TablesUnpinned(mem) /\ Nested(mem)
    /\ \A e \in Env : mem.ptr[Dir(e)] = NoPage <=> stage[e] = "free"

\* Only an environment that may execute is loaded, on one CPU, and a live or
\* dying one alone; a child that has not started is loaded nowhere.
LoadedInv ==
    /\ stage \in [Env -> Stages] /\ parent \in [Env -> Env \cup {Idle}]
    /\ dstva \in [Env -> Va \cup {NoVa}] /\ booted \in BOOLEAN
    /\ cur \in [CPU -> Env \cup {Idle}]
    /\ \A c \in CPU : cur[c] # Idle => stage[cur[c]] \in {"live", "dying"}
    /\ \A c, o \in CPU : cur[c] = cur[o] /\ cur[c] # Idle => c = o

\* What a TLB caches is what the page table of the loaded environment says:
\* no CPU reaches a page its environment has lost, or writes one it may only
\* read (tlb_invalidate flushes nothing on other CPUs).
TlbFresh ==
    /\ tlb \in [CPU -> [Va -> Entry]]
    /\ \A c \in CPU, v \in Va : tlb[c][v].page # NoPage =>
          /\ cur[c] # Idle
          /\ mem.ptr[Pte(cur[c], v)] = tlb[c][v].page
          /\ tlb[c][v].w => Pte(cur[c], v) \in mem.wr

\* No CPU can still reach a page that is free for the next page_alloc.
NoFreedTranslation ==
    \A c \in CPU, v \in Va : tlb[c][v].page \notin mem.free

\* A page that is mapped read-only everywhere never becomes writable again
\* while it stays mapped: sharing, sending and remapping cannot add PTE_W.
Writable(m, p) == \E h \in m.wr : m.ptr[h] = p
ReadOnlyStays ==
    [][\A p \in Page :
          Count(mem, p) > 0 /\ ~Writable(mem, p) => ~Writable(mem', p)]_vars
=============================================================================
