---------------------------- MODULE ForkCowProof ----------------------------
(***************************************************************************)
(* Copy-on-write fork for any number of environments, addresses and pages: *)
(* the page tables between any two steps, and that memory behaves as if    *)
(* fork had copied it.                                                     *)
(***************************************************************************)
EXTENDS ForkCow, TLAPS

(* The inductive invariant.                                                *)

\* Slot t of f may have the page that e can write at s: pgfault moves it, or
\* duppage is sharing it, for ever if the maker of f ended there.
Shares(e, s, f, t) ==
    \/ f = e /\ fault[e].at = "unmap" /\ {s, t} = {PFTEMP, fault[e].va}
    \/ /\ s = t /\ s \in Va /\ stage[f] = "embryo" /\ map[f][t].perm = "cow"
       /\ \/ fork[e].at = "self" /\ fork[e].child = f /\ fork[e].pn = s
          \/ \A x \in Env : fork[x].child # f
Exclusive == \A e, f \in Env, s, t \in Slot :
    map[e][s].perm = "w" /\ map[f][t].page = map[e][s].page /\ <<e, s>> # <<f, t>>
        => Shares(e, s, f, t)

\* What the page tables of an environment hold at each stage of its life.
Table(e) ==
    /\ \A s \in Slot : map[e][s].page = NoPage <=> map[e][s].perm = "none"
    /\ map[e][UXSTACK].perm \in {"none", "w"}
    /\ stage[e] \in {"unused", "gone"} => \A s \in Slot : map[e][s].page = NoPage
    /\ stage[e] = "embryo" => map[e][PFTEMP].page = NoPage /\ \A v \in Va : map[e][v].perm # "w"
    /\ stage[e] = "live" => \A v \in Va : map[e][v].page # NoPage

\* The steps of pgfault.
Handling(e) ==
    /\ stage[e] # "live" => fault[e].at = "none"
    /\ stage[e] = "live" /\ fault[e].at \in {"none", "alloc"} => map[e][PFTEMP].page = NoPage
    /\ fault[e].at \in {"copy", "map"} => map[e][PFTEMP].perm = "w"
    /\ fault[e].at \in {"alloc", "copy", "map"} => map[e][fault[e].va].perm = "cow"
    /\ fault[e].at = "map" => data[map[e][PFTEMP].page] = data[map[e][fault[e].va].page]
    /\ fault[e].at = "unmap" => map[e][PFTEMP].perm = "w" /\ map[e][fault[e].va] = map[e][PFTEMP]

\* The steps of fork: a child has one maker, which has copied the pages below pn.
Building(e) == fork[e].at \notin {"none", "exofork"}
Making(e) ==
    /\ stage[e] # "live" => fork[e].at = "none"
    /\ fork[e].child = NoEnv <=> ~Building(e)
    /\ Building(e) => stage[fork[e].child] = "embryo"
    /\ \A f \in Env : Building(e) /\ fork[f].child = fork[e].child => f = e
Progress(e) ==
    LET c == fork[e].child  n == fork[e].pn  at == fork[e].at IN
    /\ at \in {"dup", "self"} => n \in Va
    /\ at \in {"uxstack", "upcall", "start"} => n = NVa + 1
    /\ Building(e) => \A v \in Va : map[c][v].page # NoPage <=> v < n \/ (v = n /\ at = "self")
    /\ at = "self" => map[c][n].perm = "cow" /\ map[e][n].perm \in {"w", "cow"}
    /\ at \in {"upcall", "start"} => map[c][UXSTACK].perm = "w"
    /\ at = "start" => c \in upcall

\* Whoever can meet a copy-on-write page, now or when duppage goes on, can handle it.
Ready(e) == e \in upcall /\ map[e][UXSTACK].perm = "w"
Handled(e) ==
    Runs(e) /\ (fork[e].at # "none" \/ e \in handler \/ \E v \in Va : map[e][v].perm = "cow")
        => Ready(e)

IInv == /\ TypeOK /\ Exclusive
        /\ \A e \in Env : Table(e) /\ Handling(e) /\ Making(e) /\ Progress(e) /\ Handled(e)

Mapping == [page : Page \cup {NoPage}, perm : Perms]
FaultType == [at : {"none", "alloc", "copy", "map", "unmap"}, va : Va]
ForkType == [at : {"none", "exofork", "dup", "self", "uxstack", "upcall", "start"},
             child : Env \cup {NoEnv}, pn : 0 .. NVa + 1]
Stages == {"unused", "embryo", "live", "panicked", "gone"}

LEMMA Typed ==
  TypeOK <=> /\ map \in [Env -> [Slot -> Mapping]] /\ data \in [Page -> Value]
             /\ stage \in [Env -> Stages] /\ upcall \subseteq Env /\ handler \subseteq Env
             /\ fault \in [Env -> FaultType] /\ fork \in [Env -> ForkType]
BY DEF TypeOK, Mapping, FaultType, ForkType, Stages

LEMMA TypedNext ==
  ASSUME map' \in [Env -> [Slot -> Mapping]], data' \in [Page -> Value],
         stage' \in [Env -> Stages], upcall' \subseteq Env, handler' \subseteq Env,
         fault' \in [Env -> FaultType], fork' \in [Env -> ForkType]
  PROVE  TypeOK'
BY DEF TypeOK, Mapping, FaultType, ForkType, Stages

LEMMA Layout ==
  /\ NVa \in Nat \ {0} /\ Va \subseteq Slot /\ Stack \in Va
  /\ PFTEMP \in Slot /\ UXSTACK \in Slot /\ PFTEMP \notin Va /\ UXSTACK \notin Va
  /\ PFTEMP # UXSTACK
  /\ \A s \in Slot : s \in Va \/ s = PFTEMP \/ s = UXSTACK
BY Shape DEF Va, Slot, Stack, PFTEMP, UXSTACK

LEMMA Blanks ==
  Unmapped \in Mapping /\ NoFault \in FaultType /\ NoFork \in ForkType
BY Layout DEF Unmapped, NoFault, NoFork, Mapping, FaultType, ForkType, Perms

(* Pointwise assignments.                                                  *)

LEMMA SetMap ==
  ASSUME map \in [Env -> [Slot -> Mapping]], NEW e \in Env, NEW s \in Slot, NEW m \in Mapping,
         map' = [map EXCEPT ![e][s] = m]
  PROVE  /\ map' \in [Env -> [Slot -> Mapping]]
         /\ \A f \in Env, t \in Slot : map'[f][t] = IF f = e /\ t = s THEN m ELSE map[f][t]
OBVIOUS

LEMMA SetFaultAt ==
  ASSUME fault \in [Env -> FaultType], NEW e \in Env,
         NEW a \in {"none", "alloc", "copy", "map", "unmap"}, fault' = [fault EXCEPT ![e].at = a]
  PROVE  /\ fault' \in [Env -> FaultType]
         /\ fault'[e].at = a /\ fault'[e].va = fault[e].va
         /\ \A f \in Env \ {e} : fault'[f] = fault[f]
BY DEF FaultType

LEMMA SetForkAt ==
  ASSUME fork \in [Env -> ForkType], NEW e \in Env,
         NEW a \in {"none", "exofork", "dup", "self", "uxstack", "upcall", "start"},
         fork' = [fork EXCEPT ![e].at = a]
  PROVE  /\ fork' \in [Env -> ForkType]
         /\ fork'[e].at = a /\ fork'[e].child = fork[e].child /\ fork'[e].pn = fork[e].pn
         /\ \A f \in Env \ {e} : fork'[f] = fork[f]
BY DEF ForkType

LEMMA SetPerm ==
  ASSUME map \in [Env -> [Slot -> Mapping]], NEW e \in Env, NEW s \in Slot,
         map' = [map EXCEPT ![e][s].perm = "cow"]
  PROVE  /\ map' \in [Env -> [Slot -> Mapping]]
         /\ map'[e][s].page = map[e][s].page /\ map'[e][s].perm = "cow"
         /\ \A f \in Env, t \in Slot : f # e \/ t # s => map'[f][t] = map[f][t]
<1>1. map[e][s] \in Mapping
  OBVIOUS
<1>2. PICK m \in Mapping : m = [map[e][s] EXCEPT !.perm = "cow"]
  BY <1>1 DEF Mapping, Perms
<1>3. map' = [map EXCEPT ![e][s] = m] /\ m.page = map[e][s].page /\ m.perm = "cow"
  BY <1>1, <1>2 DEF Mapping
<1>4. /\ map' \in [Env -> [Slot -> Mapping]]
      /\ \A f \in Env, t \in Slot : map'[f][t] = IF f = e /\ t = s THEN m ELSE map[f][t]
  BY <1>2, <1>3, SetMap
<1>5. map'[e][s] = m /\ \A f \in Env, t \in Slot : f # e \/ t # s => map'[f][t] = map[f][t]
  BY <1>4
<1> QED BY <1>3, <1>4, <1>5

\* page_alloc returns a page nobody maps.
LEMMA Fresh ==
  ASSUME map \in [Env -> [Slot -> Mapping]], data \in [Page -> Value],
         NEW e \in Env, NEW s \in Slot, NEW p, SysPageAlloc(e, s, p)
  PROVE  /\ p \in Page /\ p # NoPage /\ \A f \in Env, t \in Slot : map[f][t].page # p
         /\ map' \in [Env -> [Slot -> Mapping]] /\ data' \in [Page -> Value]
         /\ \A f \in Env, t \in Slot : f # e \/ t # s => map'[f][t] = map[f][t]
         /\ map'[e][s].page = p /\ map'[e][s].perm = "w"
         /\ \A q \in Page \ {p} : data'[q] = data[q]
<1>1. p \in Free
  <2>1. Free \in SUBSET Page
    BY DEF Free
  <2> QED BY <2>1, Choice DEF SysPageAlloc
<1>2. p \in Page /\ p # NoPage /\ \A f \in Env, t \in Slot : map[f][t].page # p
  BY <1>1, Shape DEF Free
<1> DEFINE m == [page |-> p, perm |-> "w"]
<1>3. m \in Mapping /\ m.page = p /\ m.perm = "w"
  BY <1>2 DEF Mapping, Perms
<1>4. map' = [map EXCEPT ![e][s] = m] /\ data' = [data EXCEPT ![p] = 0]
  BY DEF SysPageAlloc
<1> HIDE DEF m
<1>5. /\ map' \in [Env -> [Slot -> Mapping]]
      /\ \A f \in Env, t \in Slot : map'[f][t] = IF f = e /\ t = s THEN m ELSE map[f][t]
  BY <1>3, <1>4, SetMap
<1>6. data' \in [Page -> Value] /\ \A q \in Page \ {p} : data'[q] = data[q]
  BY <1>4, Shape
<1> QED BY <1>2, <1>3, <1>5, <1>6

\* The next page after n is n + 1 when every page is mapped.
LEMMA NextPage ==
  ASSUME NEW e \in Env, \A v \in Va : map[e][v].page # NoPage, NEW n \in 0 .. NVa
  PROVE  After(e, n) = n + 1
<1> DEFINE Later == {v \in Va : v > n /\ map[e][v].page # NoPage}
<1>1. CASE n = NVa
  <2>1. Later = {}
    BY <1>1, Layout DEF Va
  <2> QED BY <1>1, <2>1 DEF After
<1>2. CASE n # NVa
  <2>1. n + 1 \in Later /\ \A w \in Later : n + 1 <= w
    BY <1>2, Layout DEF Va
  <2>2. \A v \in Later : (\A w \in Later : v <= w) => v = n + 1
    BY <2>1, Layout DEF Va
  <2>3. (CHOOSE v \in Later : \A w \in Later : v <= w) = n + 1
    <3> HIDE DEF Later
    <3> QED BY <2>1, <2>2
  <2> QED BY <2>1, <2>3 DEF After
<1> QED BY <1>1, <1>2

LEMMA InvInit == Init => IInv
<1> SUFFICES ASSUME Init PROVE IInv
  OBVIOUS
<1>1. PICK load \in [Va -> Page] :
          /\ \A v, w \in Va : load[v] = load[w] => v = w
          /\ map = [e \in Env |-> [s \in Slot |->
                      IF e = Root /\ s \in Va
                      THEN [page |-> load[s], perm |-> IF s \in Text THEN "ro" ELSE "w"]
                      ELSE Unmapped]]
  BY DEF Init
<1>2. \A e \in Env, s \in Slot : map[e][s] =
         IF e = Root /\ s \in Va
         THEN [page |-> load[s], perm |-> IF s \in Text THEN "ro" ELSE "w"]
         ELSE Unmapped
  BY <1>1
<1>3. TypeOK
  <2>1. \A s \in Va : [page |-> load[s], perm |-> IF s \in Text THEN "ro" ELSE "w"] \in Mapping
    BY <1>1 DEF Mapping, Perms
  <2>2. map \in [Env -> [Slot -> Mapping]]
    BY <1>1, <2>1, Blanks
  <2> QED BY <2>2, Typed, Blanks, Shape DEF Init, Stages
<1>4. \A v \in Va : load[v] # NoPage
  BY <1>1, Shape
<1>5. Exclusive
  BY <1>1, <1>2, <1>4, Layout DEF Exclusive, Unmapped
<1>6. ASSUME NEW e \in Env
      PROVE  Table(e) /\ Handling(e) /\ Making(e) /\ Progress(e) /\ Handled(e)
  <2>1. /\ stage[e] = IF e = Root THEN "live" ELSE "unused"
        /\ fault[e].at = "none" /\ fork[e].at = "none" /\ fork[e].child = NoEnv
        /\ e \notin handler
    BY DEF Init, NoFault, NoFork
  <2>2. Unmapped.page = NoPage /\ Unmapped.perm = "none"
    BY DEF Unmapped
  <2>3. ASSUME NEW s \in Slot
        PROVE  /\ map[e][s].page = NoPage <=> map[e][s].perm = "none"
               /\ map[e][s].perm # "cow"
               /\ e # Root \/ s \notin Va => map[e][s].page = NoPage
               /\ e = Root /\ s \in Va => map[e][s].page # NoPage
    <3>1. CASE e = Root /\ s \in Va
      <4>1. map[e][s].page = load[s] /\ map[e][s].perm \in {"ro", "w"}
        <5>1. map[e][s] = [page |-> load[s], perm |-> IF s \in Text THEN "ro" ELSE "w"]
          BY <1>2, <3>1, Zenon
        <5> QED BY <5>1
      <4> QED BY <1>4, <3>1, <4>1
    <3>2. CASE ~(e = Root /\ s \in Va)
      <4>1. map[e][s] = Unmapped
        BY <1>2, <3>2, Zenon
      <4> QED BY <2>2, <3>2, <4>1
    <3> QED BY <3>1, <3>2
  <2>4. Table(e)
    <3>1. map[e][UXSTACK].perm = "none"
      BY <2>3, Layout
    <3>2. e # Root => \A s \in Slot : map[e][s].page = NoPage
      BY <2>3
    <3>3. e = Root => \A v \in Va : map[e][v].page # NoPage
      BY <2>3, Layout
    <3> QED BY <2>1, <2>3, <3>1, <3>2, <3>3 DEF Table
  <2>5. Handling(e)
    BY <2>1, <2>3, Layout DEF Handling
  <2>6. Making(e) /\ Progress(e)
    BY <2>1 DEF Making, Building, Progress
  <2>7. Handled(e)
    BY <2>1, <2>3, Layout DEF Handled
  <2> QED BY <2>4, <2>5, <2>6, <2>7
<1> QED BY <1>3, <1>5, <1>6 DEF IInv
(* What the invariant says of the pages of an environment that runs.       *)

\* A page it maps but cannot write is written by nobody.
LEMMA NoWriter ==
  ASSUME IInv, NEW e \in Env, stage[e] = "live", fault[e].at # "unmap",
         NEW s \in Slot, map[e][s].perm # "w",
         NEW f \in Env, NEW t \in Slot, map[f][t].page = map[e][s].page
  PROVE  map[f][t].perm # "w"
BY DEF IInv, Exclusive, Shares

\* A page outside its memory that it can write is mapped nowhere else.
LEMMA Alone ==
  ASSUME IInv, NEW e \in Env, fault[e].at # "unmap", NEW s \in Slot \ Va, map[e][s].perm = "w",
         NEW f \in Env, NEW t \in Slot, map[f][t].page = map[e][s].page
  PROVE  f = e /\ t = s
BY DEF IInv, Exclusive, Shares

\* The page of its exception stack too, pgfault or not.
LEMMA UxAlone ==
  ASSUME IInv, NEW e \in Env, map[e][UXSTACK].perm = "w",
         NEW f \in Env, NEW t \in Slot, map[f][t].page = map[e][UXSTACK].page
  PROVE  f = e /\ t = UXSTACK
<1>1. fault[e].va \in Va
  BY Typed DEF IInv, FaultType
<1> QED BY <1>1, Layout DEF IInv, Exclusive, Shares

\* A page of its memory that it can write is shown only by a child being made.
LEMMA Shown ==
  ASSUME IInv, NEW e \in Env, fault[e].at # "unmap", NEW v \in Va, map[e][v].perm = "w",
         NEW f \in Env, NEW t \in Slot, map[f][t].page = map[e][v].page, f # e \/ t # v
  PROVE  /\ t = v /\ stage[f] = "embryo" /\ map[f][t].perm = "cow"
         /\ \/ fork[e].at = "self" /\ fork[e].child = f /\ fork[e].pn = v
            \/ \A x \in Env : fork[x].child # f
BY Layout DEF IInv, Exclusive, Shares

(* What a step leaves alone.                                               *)

LEMMA SharesFrame ==
  ASSUME NEW e \in Env, NEW s, NEW f, NEW t, Shares(e, s, f, t),
         \A x \in Env : /\ fork'[x].child = fork[x].child
                        /\ fork[x].at = "self" => fork'[x] = fork[x],
         fault[e].at = "unmap" => fault'[e] = fault[e],
         map'[f][t].perm = map[f][t].perm, stage[f] = "embryo" => stage'[f] = stage[f]
  PROVE  Shares(e, s, f, t)'
BY DEF Shares

LEMMA ExclusiveFrame ==
  ASSUME Exclusive, UNCHANGED <<map, stage>>,
         \A x \in Env : /\ fork'[x].child = fork[x].child
                        /\ fork[x].at = "self" => fork'[x] = fork[x],
         \A e \in Env : fault[e].at = "unmap" => fault'[e] = fault[e]
  PROVE  Exclusive'
<1> SUFFICES ASSUME NEW x \in Env, NEW y \in Env, NEW s \in Slot, NEW t \in Slot,
                    map'[x][s].perm = "w", map'[y][t].page = map'[x][s].page, <<x, s>> # <<y, t>>
             PROVE  Shares(x, s, y, t)'
  BY DEF Exclusive
<1>1. Shares(x, s, y, t)
  BY DEF Exclusive
<1> QED BY <1>1, SharesFrame

\* A page that was free becomes writable at one slot.
LEMMA ExclusiveAlloc ==
  ASSUME Exclusive, NEW e \in Env, NEW r \in Slot, NEW p,
         \A f \in Env, t \in Slot : map[f][t].page # p,
         \A f \in Env, t \in Slot : f # e \/ t # r => map'[f][t] = map[f][t],
         map'[e][r].page = p, UNCHANGED stage,
         \A x \in Env : /\ fork'[x].child = fork[x].child
                        /\ fork[x].at = "self" => fork'[x] = fork[x],
         \A f \in Env : fault[f].at = "unmap" => fault'[f] = fault[f]
  PROVE  Exclusive'
<1> SUFFICES ASSUME NEW x \in Env, NEW y \in Env, NEW s \in Slot, NEW t \in Slot,
                    map'[x][s].perm = "w", map'[y][t].page = map'[x][s].page, <<x, s>> # <<y, t>>
             PROVE  Shares(x, s, y, t)'
  BY DEF Exclusive
<1>1. (x # e \/ s # r) /\ (y # e \/ t # r)
  <2>1. ASSUME NEW f \in Env, NEW u \in Slot, map'[f][u].page = p PROVE f = e /\ u = r
    BY <2>1
  <2> QED BY <2>1
<1>2. map'[x][s] = map[x][s] /\ map'[y][t] = map[y][t]
  BY <1>1
<1>3. Shares(x, s, y, t)
  BY <1>2 DEF Exclusive
<1> QED BY <1>2, <1>3, SharesFrame

LEMMA TableFrame ==
  ASSUME NEW f, Table(f), map'[f] = map[f], stage'[f] = stage[f]
  PROVE  Table(f)'
BY DEF Table

LEMMA HandlingFrame ==
  ASSUME NEW f, Handling(f), map'[f] = map[f], stage'[f] = stage[f], fault'[f] = fault[f],
         fault[f].at = "map" => /\ data'[map[f][PFTEMP].page] = data[map[f][PFTEMP].page]
                                /\ data'[map[f][fault[f].va].page] = data[map[f][fault[f].va].page]
  PROVE  Handling(f)'
BY DEF Handling

LEMMA MakingFrame ==
  ASSUME NEW f, Making(f), fork'[f] = fork[f],
         \A x \in Env : x = f \/ fork'[x].child = fork[x].child \/ (Building(f) => fork'[x].child # fork[f].child),
         stage'[f] = stage[f], Building(f) => stage'[fork[f].child] = stage[fork[f].child]
  PROVE  Making(f)'
BY DEF Making, Building

LEMMA ProgressFrame ==
  ASSUME NEW f, Progress(f), fork'[f] = fork[f],
         fork[f].child \in upcall => fork[f].child \in upcall',
         fork[f].at = "self" =>
            (map[f][fork[f].pn].perm \in {"w", "cow"} => map'[f][fork[f].pn].perm \in {"w", "cow"}),
         Building(f) => map'[fork[f].child] = map[fork[f].child]
  PROVE  Progress(f)'
BY DEF Progress, Building

LEMMA HandledFrame ==
  ASSUME NEW f, Handled(f), map'[f] = map[f], stage'[f] = stage[f],
         fork'[f] = fork[f], f \in handler' => f \in handler, f \in upcall => f \in upcall'
  PROVE  Handled(f)'
BY DEF Handled, Ready, Runs

\* A running environment is nobody's child.
LEMMA NotAChild ==
  ASSUME IInv, NEW e \in Env, stage[e] # "embryo", NEW f \in Env, Building(f)
  PROVE  fork[f].child # e /\ fork[f].child \in Env /\ stage[fork[f].child] = "embryo"
<1>1. Making(f) /\ fork[f] \in ForkType
  BY Typed DEF IInv
<1> QED BY <1>1 DEF Making, ForkType

(* Each step keeps it.                                                     *)

LEMMA WriteStep ==
  ASSUME IInv, NEW e \in Env, NEW v \in Va, NEW x \in Value, Write(e, v, x)
  PROVE  IInv'
<1>t. /\ map \in [Env -> [Slot -> Mapping]] /\ data \in [Page -> Value] /\ stage \in [Env -> Stages]
      /\ upcall \subseteq Env /\ handler \subseteq Env /\ fault \in [Env -> FaultType]
      /\ fork \in [Env -> ForkType] /\ v \in Slot
  BY Typed, Layout DEF IInv
<1>i. Exclusive /\ \A f \in Env : Table(f) /\ Handling(f) /\ Making(f) /\ Progress(f) /\ Handled(f)
  BY DEF IInv
<1>1. /\ stage[e] = "live" /\ fault[e].at = "none"
      /\ UNCHANGED <<map, stage, upcall, handler, fork>>
  BY DEF Write, Undisturbed, Runs
<1>2. \A f \in Env : Table(f)' /\ Making(f)' /\ Progress(f)' /\ Handled(f)'
  BY <1>i, <1>1, TableFrame, MakingFrame, ProgressFrame, HandledFrame
<1>3. CASE /\ map[e][v].perm = "w" /\ data' = [data EXCEPT ![map[e][v].page] = x]
           /\ UNCHANGED fault
  <2>1. TypeOK'
    BY <1>t, <1>1, <1>3, TypedNext
  <2>2. Exclusive'
    BY <1>i, <1>1, <1>3 DEF Exclusive, Shares
  <2>3. ASSUME NEW f \in Env PROVE Handling(f)'
    <3>1. ASSUME fault[f].at = "map"
          PROVE  /\ data'[map[f][PFTEMP].page] = data[map[f][PFTEMP].page]
                 /\ data'[map[f][fault[f].va].page] = data[map[f][fault[f].va].page]
      <4>1. /\ map[f][PFTEMP].perm = "w" /\ map[f][fault[f].va].perm = "cow" /\ stage[f] = "live"
            /\ fault[f].va \in Slot
        BY <1>t, <1>i, <3>1, Layout DEF Handling, FaultType
      <4>2. map[f][PFTEMP].page # map[e][v].page
        BY <3>1, <4>1, <1>t, Alone, Layout
      <4>3. map[f][fault[f].va].page # map[e][v].page
        BY <3>1, <4>1, <1>t, <1>3, NoWriter
      <4> QED BY <1>3, <4>2, <4>3
    <3> QED BY <1>i, <1>1, <1>3, <3>1, HandlingFrame
  <2> QED BY <1>2, <2>1, <2>2, <2>3 DEF IInv
<1>4. CASE /\ map[e][v].perm = "cow" /\ e \in upcall
           /\ fault' = [fault EXCEPT ![e] = [at |-> "alloc", va |-> v]] /\ UNCHANGED data
  <2>1. fault' \in [Env -> FaultType] /\ fault'[e].at = "alloc" /\ fault'[e].va = v
        /\ \A f \in Env \ {e} : fault'[f] = fault[f]
    BY <1>t, <1>4 DEF FaultType
  <2>2. TypeOK'
    BY <1>t, <1>1, <1>4, <2>1, TypedNext
  <2>3. Exclusive'
    <3>1. \A f \in Env : fault[f].at = "unmap" => fault'[f] = fault[f]
      BY <1>1, <2>1
    <3> QED BY <1>i, <1>1, <3>1, ExclusiveFrame
  <2>4. \A f \in Env : Handling(f)'
    <3>1. ASSUME NEW f \in Env, f # e PROVE Handling(f)'
      BY <1>i, <1>1, <1>4, <2>1, <3>1, HandlingFrame
    <3>2. Handling(e)'
      BY <1>i, <1>1, <1>4, <2>1 DEF Handling
    <3> QED BY <3>1, <3>2
  <2> QED BY <1>2, <2>2, <2>3, <2>4 DEF IInv
<1> QED BY <1>3, <1>4 DEF Write

LEMMA PgfaultAllocStep ==
  ASSUME IInv, NEW e \in Env, PgfaultAlloc(e)
  PROVE  IInv'
<1>t. /\ map \in [Env -> [Slot -> Mapping]] /\ data \in [Page -> Value] /\ stage \in [Env -> Stages]
      /\ upcall \subseteq Env /\ handler \subseteq Env /\ fault \in [Env -> FaultType]
      /\ fork \in [Env -> ForkType]
  BY Typed DEF IInv
<1>i. Exclusive /\ \A f \in Env : Table(f) /\ Handling(f) /\ Making(f) /\ Progress(f) /\ Handled(f)
  BY DEF IInv
<1>1. /\ stage[e] = "live" /\ fault[e].at = "alloc" /\ fault' = [fault EXCEPT ![e].at = "copy"]
      /\ UNCHANGED <<stage, upcall, handler, fork>>
  BY DEF PgfaultAlloc, Runs
<1>2. PICK p \in Page : SysPageAlloc(e, PFTEMP, p)
  BY DEF PgfaultAlloc
<1>3. /\ p # NoPage /\ \A f \in Env, t \in Slot : map[f][t].page # p
      /\ map' \in [Env -> [Slot -> Mapping]] /\ data' \in [Page -> Value]
      /\ \A f \in Env, t \in Slot : f # e \/ t # PFTEMP => map'[f][t] = map[f][t]
      /\ map'[e][PFTEMP].page = p /\ map'[e][PFTEMP].perm = "w"
      /\ \A q \in Page \ {p} : data'[q] = data[q]
  BY <1>t, <1>2, Fresh, Layout
<1>4. /\ fault' \in [Env -> FaultType] /\ fault'[e].at = "copy" /\ fault'[e].va = fault[e].va
      /\ \A f \in Env \ {e} : fault'[f] = fault[f]
  BY <1>t, <1>1, SetFaultAt
<1>5. \A f \in Env \ {e} : map'[f] = map[f]
  BY <1>t, <1>3
<1>6. TypeOK'
  BY <1>t, <1>1, <1>3, <1>4, TypedNext
<1>7. Exclusive'
  <2>1. \A f \in Env : fault[f].at = "unmap" => fault'[f] = fault[f]
    BY <1>1, <1>4
  <2> QED BY <1>i, <1>1, <1>3, <2>1, ExclusiveAlloc, Layout
<1>8. \A f \in Env : Making(f)'
  BY <1>i, <1>1, MakingFrame
<1>9. ASSUME NEW f \in Env, f # e PROVE Table(f)' /\ Handling(f)' /\ Progress(f)' /\ Handled(f)'
  <2>1. Table(f)' /\ Handled(f)'
    BY <1>i, <1>1, <1>5, <1>9, TableFrame, HandledFrame
  <2>2. Building(f) => map'[fork[f].child] = map[fork[f].child]
    BY <1>1, <1>5, NotAChild
  <2>3. Progress(f)'
    BY <1>i, <1>1, <1>5, <1>9, <2>2, ProgressFrame
  <2>4. \A s \in Slot : map[f][s].page \in Page => data'[map[f][s].page] = data[map[f][s].page]
    BY <1>3
  <2>5. fault[f].at = "map" => \A s \in {PFTEMP, fault[f].va} : map[f][s].page \in Page
    BY <1>t, <1>i, Layout DEF Handling, Table, FaultType, Mapping
  <2>6. Handling(f)'
    BY <1>t, <1>i, <1>1, <1>4, <1>5, <1>9, <2>4, <2>5, HandlingFrame, Layout DEF FaultType
  <2> QED BY <2>1, <2>3, <2>6
<1>10. Table(e)'
  <2>1. \A s \in Slot : map'[e][s] = map[e][s] \/ (s = PFTEMP /\ map'[e][s].page = p /\ map'[e][s].perm = "w")
    BY <1>3
  <2>2. map'[e][UXSTACK] = map[e][UXSTACK] /\ \A v \in Va : map'[e][v] = map[e][v]
    BY <1>3, Layout
  <2> QED BY SMTT(20), <1>i, <1>1, <1>3, <2>1, <2>2 DEF Table
<1>11. Handling(e)'
  <2>1. fault[e].va \in Slot /\ fault[e].va # PFTEMP
    BY <1>t, Layout DEF FaultType
  <2>2. map'[e][fault[e].va].perm = "cow"
    BY <1>i, <1>1, <1>3, <2>1 DEF Handling
  <2> QED BY <1>1, <1>3, <1>4, <2>2 DEF Handling
<1>12. Progress(e)'
  <2>1. Building(e) => map'[fork[e].child] = map[fork[e].child]
    BY <1>1, <1>5, NotAChild
  <2>2. fork[e].at = "self" => fork[e].pn \in Va
    BY <1>i DEF Progress
  <2>3. fork[e].at = "self" => map'[e][fork[e].pn] = map[e][fork[e].pn]
    BY <1>3, <2>2, Layout
  <2> QED BY <1>i, <1>1, <2>1, <2>3, ProgressFrame
<1>13. Handled(e)'
  BY <1>i, <1>1, <1>3, Layout DEF Handled, Ready, Runs
<1> QED BY <1>6, <1>7, <1>8, <1>9, <1>10, <1>11, <1>12, <1>13 DEF IInv
\* The pages that pgfault reads and writes are not those of anybody else's pgfault.
LEMMA FaultPages ==
  ASSUME IInv, NEW e \in Env, fault[e].at \in {"copy", "map"}
  PROVE  /\ stage[e] = "live" /\ fault[e].va \in Va /\ fault[e].va \in Slot
         /\ map[e][PFTEMP].perm = "w" /\ map[e][fault[e].va].perm = "cow"
         /\ map[e][PFTEMP].page \in Page /\ map[e][fault[e].va].page \in Page
         /\ \A f \in Env, t \in Slot : map[f][t].page = map[e][PFTEMP].page => f = e /\ t = PFTEMP
<1>1. /\ map[e][PFTEMP] \in Mapping /\ fault[e].va \in Va /\ fault[e].va \in Slot
      /\ map[e][fault[e].va] \in Mapping /\ stage[e] \in Stages
  BY Typed, Layout DEF IInv, FaultType
<1>2. Handling(e) /\ Table(e)
  BY DEF IInv
<1>3. stage[e] = "live" /\ map[e][PFTEMP].perm = "w" /\ map[e][fault[e].va].perm = "cow"
  BY <1>2 DEF Handling
<1>4. map[e][PFTEMP].page \in Page /\ map[e][fault[e].va].page \in Page
  BY <1>1, <1>2, <1>3, Layout DEF Table, Mapping
<1>5. \A f \in Env, t \in Slot : map[f][t].page = map[e][PFTEMP].page => f = e /\ t = PFTEMP
  BY <1>3, Alone, Layout
<1> QED BY <1>1, <1>3, <1>4, <1>5

LEMMA PgfaultCopyStep ==
  ASSUME IInv, NEW e \in Env, PgfaultCopy(e)
  PROVE  IInv'
<1>t. /\ map \in [Env -> [Slot -> Mapping]] /\ data \in [Page -> Value] /\ stage \in [Env -> Stages]
      /\ upcall \subseteq Env /\ handler \subseteq Env /\ fault \in [Env -> FaultType]
      /\ fork \in [Env -> ForkType]
  BY Typed DEF IInv
<1>i. Exclusive /\ \A f \in Env : Table(f) /\ Handling(f) /\ Making(f) /\ Progress(f) /\ Handled(f)
  BY DEF IInv
<1> DEFINE q == map[e][PFTEMP].page
           o == map[e][fault[e].va].page
<1>1. /\ fault[e].at = "copy" /\ fault' = [fault EXCEPT ![e].at = "map"]
      /\ data' = [data EXCEPT ![q] = data[o]]
      /\ UNCHANGED <<map, stage, upcall, handler, fork>>
  BY DEF PgfaultCopy
<1>2. /\ stage[e] = "live" /\ fault[e].va \in Slot /\ q \in Page /\ o \in Page /\ q # o
      /\ map[e][PFTEMP].perm = "w" /\ map[e][fault[e].va].perm = "cow"
      /\ \A f \in Env, t \in Slot : map[f][t].page = q => f = e /\ t = PFTEMP
  BY <1>1, FaultPages, Layout
<1>3. /\ fault' \in [Env -> FaultType] /\ fault'[e].at = "map" /\ fault'[e].va = fault[e].va
      /\ \A f \in Env \ {e} : fault'[f] = fault[f]
  BY <1>t, <1>1, SetFaultAt
<1> HIDE DEF q, o
<1>4. /\ data' \in [Page -> Value] /\ data'[q] = data[o] /\ data'[o] = data[o]
      /\ \A r \in Page : r # q => data'[r] = data[r]
  BY <1>t, <1>1, <1>2
<1>5. TypeOK'
  BY <1>t, <1>1, <1>3, <1>4, TypedNext
<1>6. Exclusive'
  <2>1. \A f \in Env : fault[f].at = "unmap" => fault'[f] = fault[f]
    BY <1>1, <1>3
  <2> QED BY <1>i, <1>1, <2>1, ExclusiveFrame
<1>7. \A f \in Env : Table(f)' /\ Making(f)' /\ Progress(f)' /\ Handled(f)'
  BY <1>i, <1>1, TableFrame, MakingFrame, ProgressFrame, HandledFrame
<1>8. ASSUME NEW f \in Env, f # e PROVE Handling(f)'
  <2>1. fault[f].at = "map" => /\ map[f][PFTEMP].page \in Page \ {q}
                               /\ map[f][fault[f].va].page \in Page \ {q}
    BY <1>2, <1>8, FaultPages, Layout
  <2> QED BY <1>i, <1>1, <1>3, <1>4, <1>8, <2>1, HandlingFrame
<1>9. Handling(e)'
  BY <1>1, <1>2, <1>3, <1>4 DEF Handling, q, o
<1> QED BY <1>5, <1>6, <1>7, <1>8, <1>9 DEF IInv

LEMMA PgfaultMapStep ==
  ASSUME IInv, NEW e \in Env, PgfaultMap(e)
  PROVE  IInv'
<1>t. /\ map \in [Env -> [Slot -> Mapping]] /\ data \in [Page -> Value] /\ stage \in [Env -> Stages]
      /\ upcall \subseteq Env /\ handler \subseteq Env /\ fault \in [Env -> FaultType]
      /\ fork \in [Env -> ForkType]
  BY Typed DEF IInv
<1>i. Exclusive /\ \A f \in Env : Table(f) /\ Handling(f) /\ Making(f) /\ Progress(f) /\ Handled(f)
  BY DEF IInv
<1> DEFINE w == fault[e].va
           m == [page |-> map[e][PFTEMP].page, perm |-> "w"]
<1>1. /\ fault[e].at = "map" /\ fault' = [fault EXCEPT ![e].at = "unmap"]
      /\ map' = [map EXCEPT ![e][w] = m]
      /\ UNCHANGED <<data, stage, upcall, handler, fork>>
  BY DEF PgfaultMap
<1>2. /\ stage[e] = "live" /\ w \in Va /\ w \in Slot /\ w # PFTEMP /\ w # UXSTACK
      /\ map[e][PFTEMP].page \in Page /\ map[e][PFTEMP].perm = "w"
      /\ \A f \in Env, t \in Slot : map[f][t].page = map[e][PFTEMP].page => f = e /\ t = PFTEMP
  BY <1>1, FaultPages, Layout
<1>3. m \in Mapping /\ m = map[e][PFTEMP] /\ m.page # NoPage
  BY <1>t, <1>2, Layout, Shape DEF Mapping, Perms
<1>4. m.page = map[e][PFTEMP].page /\ m.perm = "w"
  OBVIOUS
<1> HIDE DEF m
<1>5. /\ map' \in [Env -> [Slot -> Mapping]]
      /\ \A f \in Env, t \in Slot : map'[f][t] = IF f = e /\ t = w THEN m ELSE map[f][t]
  BY <1>t, <1>1, <1>2, <1>3, SetMap
<1>6. /\ fault' \in [Env -> FaultType] /\ fault'[e].at = "unmap" /\ fault'[e].va = w
      /\ \A f \in Env \ {e} : fault'[f] = fault[f]
  BY <1>t, <1>1, SetFaultAt
<1> HIDE DEF w
<1>7. \A f \in Env \ {e} : map'[f] = map[f]
  BY <1>t, <1>5
<1>8. TypeOK'
  BY <1>t, <1>1, <1>5, <1>6, TypedNext
<1>9. Exclusive'
  <2> SUFFICES ASSUME NEW x \in Env, NEW y \in Env, NEW s \in Slot, NEW t \in Slot,
                      map'[x][s].perm = "w", map'[y][t].page = map'[x][s].page, <<x, s>> # <<y, t>>
               PROVE  Shares(x, s, y, t)'
    BY DEF Exclusive
  <2>1. CASE x = e /\ s = w
    <3>1. map[y][t].page = map[e][PFTEMP].page
      BY <1>4, <1>5, <2>1
    <3>2. y = e /\ t = PFTEMP
      BY <1>2, <3>1
    <3> QED BY <1>6, <2>1, <3>2 DEF Shares
  <2>2. CASE y = e /\ t = w
    <3>1. map[x][s].page = map[e][PFTEMP].page
      BY <1>4, <1>5, <2>2
    <3>2. x = e /\ s = PFTEMP
      BY <1>2, <3>1
    <3> QED BY <1>6, <2>2, <3>2 DEF Shares
  <2>3. CASE (x # e \/ s # w) /\ (y # e \/ t # w)
    <3>1. map'[x][s] = map[x][s] /\ map'[y][t] = map[y][t]
      BY <1>5, <2>3
    <3>2. Shares(x, s, y, t)
      BY <1>i, <3>1 DEF Exclusive
    <3>3. fault[x].at = "unmap" => fault'[x] = fault[x]
      BY <1>1, <1>6
    <3> QED BY <1>1, <3>1, <3>2, <3>3, SharesFrame
  <2> QED BY <2>1, <2>2, <2>3
<1>10. \A f \in Env : Making(f)'
  BY <1>i, <1>1, MakingFrame
<1>11. ASSUME NEW f \in Env, f # e PROVE Table(f)' /\ Handling(f)' /\ Handled(f)'
  BY <1>i, <1>1, <1>6, <1>7, <1>11, TableFrame, HandlingFrame, HandledFrame
<1>12. Table(e)'
  <2>1. \A s \in Slot : map'[e][s] = map[e][s] \/ map'[e][s] = map[e][PFTEMP]
    BY <1>3, <1>5
  <2>2. map'[e][UXSTACK] = map[e][UXSTACK]
    BY <1>2, <1>5, Layout
  <2>3. \A v \in Va : map'[e][v].page # NoPage
    BY <1>2, <1>3, <1>i, <2>1, Layout DEF Table
  <2> QED BY <1>i, <1>1, <1>2, <2>1, <2>2, <2>3, Layout DEF Table
<1>13. Handling(e)'
  BY <1>1, <1>2, <1>3, <1>5, <1>6, Layout DEF Handling
<1>14. ASSUME NEW f \in Env PROVE Progress(f)'
  <2>1. Building(f) => map'[fork[f].child] = map[fork[f].child]
    BY <1>2, <1>7, NotAChild
  <2>2. fork[f].at = "self" => fork[f].pn \in Slot
    BY <1>i, Layout DEF Progress
  <2>3. fork[f].at = "self" => \/ map'[f][fork[f].pn] = map[f][fork[f].pn]
                               \/ map'[f][fork[f].pn].perm = "w"
    BY <1>4, <1>5, <2>2
  <2> QED BY <1>i, <1>1, <2>1, <2>3, ProgressFrame
<1>15. Handled(e)'
  <2>1. (\E v \in Va : map'[e][v].perm = "cow") => \E v \in Va : map[e][v].perm = "cow"
    BY <1>4, <1>5, Layout
  <2>2. map'[e][UXSTACK] = map[e][UXSTACK]
    BY <1>2, <1>5, Layout
  <2> QED BY <1>i, <1>1, <2>1, <2>2 DEF Handled, Ready, Runs
<1> QED BY <1>8, <1>9, <1>10, <1>11, <1>12, <1>13, <1>14, <1>15 DEF IInv

LEMMA PgfaultUnmapStep ==
  ASSUME IInv, NEW e \in Env, PgfaultUnmap(e)
  PROVE  IInv'
<1>t. /\ map \in [Env -> [Slot -> Mapping]] /\ data \in [Page -> Value] /\ stage \in [Env -> Stages]
      /\ upcall \subseteq Env /\ handler \subseteq Env /\ fault \in [Env -> FaultType]
      /\ fork \in [Env -> ForkType]
  BY Typed DEF IInv
<1>i. Exclusive /\ \A f \in Env : Table(f) /\ Handling(f) /\ Making(f) /\ Progress(f) /\ Handled(f)
  BY DEF IInv
<1>1. /\ stage[e] = "live" /\ fault[e].at = "unmap" /\ fault' = [fault EXCEPT ![e] = NoFault]
      /\ map' = [map EXCEPT ![e][PFTEMP] = Unmapped]
      /\ UNCHANGED <<data, stage, upcall, handler, fork>>
  BY DEF PgfaultUnmap, Runs
<1>2. /\ map' \in [Env -> [Slot -> Mapping]]
      /\ \A f \in Env, t \in Slot : map'[f][t] = IF f = e /\ t = PFTEMP THEN Unmapped ELSE map[f][t]
  BY <1>t, <1>1, Blanks, Layout, SetMap
<1>3. /\ fault' \in [Env -> FaultType] /\ fault'[e].at = "none"
      /\ \A f \in Env \ {e} : fault'[f] = fault[f]
  BY <1>t, <1>1, Blanks DEF NoFault
<1>4. Unmapped.page = NoPage /\ Unmapped.perm = "none"
  BY DEF Unmapped
<1>5. \A f \in Env \ {e} : map'[f] = map[f]
  BY <1>t, <1>2
<1>6. \A s \in Slot \ {PFTEMP} : map'[e][s] = map[e][s]
  BY <1>2
<1>7. map'[e][PFTEMP].page = NoPage /\ map'[e][PFTEMP].perm = "none"
  BY <1>2, <1>4, Layout
<1>8. TypeOK'
  BY <1>t, <1>1, <1>2, <1>3, TypedNext
<1>9. Exclusive'
  <2> SUFFICES ASSUME NEW x \in Env, NEW y \in Env, NEW s \in Slot, NEW t \in Slot,
                      map'[x][s].perm = "w", map'[y][t].page = map'[x][s].page, <<x, s>> # <<y, t>>
               PROVE  Shares(x, s, y, t)'
    BY DEF Exclusive
  <2>1. ~(x = e /\ s = PFTEMP)
    BY <1>7
  <2>2. map'[x][s] = map[x][s] /\ map[x][s].page # NoPage
    BY <1>2, <1>i, <2>1 DEF Table
  <2>3. ~(y = e /\ t = PFTEMP)
    BY <1>7, <2>2
  <2>4. map'[y][t] = map[y][t]
    BY <1>2, <2>3
  <2>5. Shares(x, s, y, t)
    BY <1>i, <2>2, <2>4 DEF Exclusive
  <2> QED BY <1>1, <1>3, <2>1, <2>3, <2>4, <2>5 DEF Shares
<1>10. \A f \in Env : Making(f)'
  BY <1>i, <1>1, MakingFrame
<1>11. ASSUME NEW f \in Env, f # e PROVE Table(f)' /\ Handling(f)' /\ Handled(f)'
  BY <1>i, <1>1, <1>3, <1>5, <1>11, TableFrame, HandlingFrame, HandledFrame
<1>12. Table(e)'
  <2>1. \A v \in Va : map'[e][v] = map[e][v]
    BY <1>6, Layout
  <2>2. map'[e][UXSTACK] = map[e][UXSTACK]
    BY <1>6, Layout
  <2>3. \A s \in Slot : map'[e][s].page = NoPage <=> map'[e][s].perm = "none"
    BY <1>i, <1>6, <1>7 DEF Table
  <2> QED BY <1>i, <1>1, <2>1, <2>2, <2>3 DEF Table
<1>13. Handling(e)'
  BY <1>1, <1>3, <1>7 DEF Handling
<1>14. ASSUME NEW f \in Env PROVE Progress(f)'
  <2>1. Building(f) => map'[fork[f].child] = map[fork[f].child]
    BY <1>1, <1>5, NotAChild
  <2>2. fork[f].at = "self" => fork[f].pn \in Slot \ {PFTEMP}
    BY <1>i, Layout DEF Progress
  <2>3. fork[f].at = "self" => map'[f][fork[f].pn] = map[f][fork[f].pn]
    BY <1>2, <2>2
  <2> QED BY <1>i, <1>1, <2>1, <2>3, ProgressFrame
<1>15. Handled(e)'
  <2>1. map'[e][UXSTACK] = map[e][UXSTACK] /\ \A v \in Va : map'[e][v] = map[e][v]
    BY <1>6, Layout
  <2> QED BY <1>i, <1>1, <2>1 DEF Handled, Ready, Runs
<1> QED BY <1>8, <1>9, <1>10, <1>11, <1>12, <1>13, <1>14, <1>15 DEF IInv
\* A step that changes fork[e].at only, before there is a child or late in fork.
LEMMA AtOnly ==
  ASSUME fork \in [Env -> ForkType], NEW e \in Env, fork[e].at # "self",
         fork'[e].child = fork[e].child, \A f \in Env \ {e} : fork'[f] = fork[f]
  PROVE  \A x \in Env : /\ fork'[x].child = fork[x].child
                        /\ fork[x].at = "self" => fork'[x] = fork[x]
OBVIOUS

LEMMA SetPgfaultHandlerStep ==
  ASSUME IInv, NEW e \in Env, SetPgfaultHandler(e)
  PROVE  IInv'
<1>t. /\ map \in [Env -> [Slot -> Mapping]] /\ data \in [Page -> Value] /\ stage \in [Env -> Stages]
      /\ upcall \subseteq Env /\ handler \subseteq Env /\ fault \in [Env -> FaultType]
      /\ fork \in [Env -> ForkType]
  BY Typed DEF IInv
<1>i. Exclusive /\ \A f \in Env : Table(f) /\ Handling(f) /\ Making(f) /\ Progress(f) /\ Handled(f)
  BY DEF IInv
<1>1. /\ stage[e] = "live" /\ fault[e].at = "none" /\ fork[e].at = "none"
      /\ handler' = handler \cup {e} /\ fork' = [fork EXCEPT ![e].at = "exofork"]
      /\ UNCHANGED <<stage, fault>>
  BY DEF SetPgfaultHandler, Undisturbed, Runs
<1>2. /\ fork' \in [Env -> ForkType] /\ fork'[e].at = "exofork" /\ fork'[e].child = fork[e].child
      /\ \A f \in Env \ {e} : fork'[f] = fork[f]
  BY <1>t, <1>1, SetForkAt
<1>3. \A x \in Env : /\ fork'[x].child = fork[x].child
                     /\ fork[x].at = "self" => fork'[x] = fork[x]
  BY <1>t, <1>1, <1>2, AtOnly
<1>4. \A f \in Env : Making(f)'
  <2>1. ASSUME NEW f \in Env, f # e PROVE Making(f)'
    BY <1>i, <1>1, <1>2, <1>3, <2>1, MakingFrame
  <2>2. Making(e)'
    BY <1>i, <1>1, <1>2, <1>3 DEF Making, Building
  <2> QED BY <2>1, <2>2
<1>5. Progress(e)'
  BY <1>2 DEF Progress, Building
<1>6. CASE e \in handler /\ UNCHANGED <<map, data, upcall>>
  <2>1. TypeOK'
    BY <1>t, <1>1, <1>2, <1>6, TypedNext
  <2>2. Exclusive'
    BY <1>i, <1>1, <1>3, <1>6, ExclusiveFrame
  <2>3. ASSUME NEW f \in Env PROVE Table(f)' /\ Handling(f)'
    BY <1>i, <1>1, <1>6, TableFrame, HandlingFrame
  <2>4. ASSUME NEW f \in Env, f # e PROVE Progress(f)' /\ Handled(f)'
    BY <1>i, <1>1, <1>2, <1>6, <2>4, ProgressFrame, HandledFrame
  <2>5. Handled(e)'
    BY <1>i, <1>1, <1>6 DEF Handled, Ready, Runs
  <2> QED BY <1>4, <1>5, <2>1, <2>2, <2>3, <2>4, <2>5 DEF IInv
<1>7. CASE (\E p \in Page : SysPageAlloc(e, UXSTACK, p)) /\ upcall' = upcall \cup {e}
  <2>1. PICK p \in Page : SysPageAlloc(e, UXSTACK, p)
    BY <1>7
  <2>2. /\ p # NoPage /\ \A f \in Env, t \in Slot : map[f][t].page # p
        /\ map' \in [Env -> [Slot -> Mapping]] /\ data' \in [Page -> Value]
        /\ \A f \in Env, t \in Slot : f # e \/ t # UXSTACK => map'[f][t] = map[f][t]
        /\ map'[e][UXSTACK].page = p /\ map'[e][UXSTACK].perm = "w"
        /\ \A q \in Page \ {p} : data'[q] = data[q]
    BY <1>t, <2>1, Fresh, Layout
  <2>3. \A f \in Env \ {e} : map'[f] = map[f]
    BY <1>t, <2>2
  <2>4. map'[e][PFTEMP] = map[e][PFTEMP] /\ \A v \in Va : map'[e][v] = map[e][v]
    BY <2>2, Layout
  <2>5. TypeOK'
    BY <1>t, <1>1, <1>2, <1>7, <2>2, TypedNext
  <2>6. Exclusive'
    BY <1>i, <1>1, <1>3, <2>2, ExclusiveAlloc, Layout, SMTT(30)
  <2>7. ASSUME NEW f \in Env, f # e PROVE Table(f)' /\ Progress(f)' /\ Handled(f)'
    <3>1. Building(f) => map'[fork[f].child] = map[fork[f].child]
      BY <1>1, <2>3, NotAChild
    <3> QED BY <1>i, <1>1, <1>2, <1>7, <2>3, <2>7, <3>1, TableFrame, ProgressFrame, HandledFrame
  <2>8. ASSUME NEW f \in Env, f # e PROVE Handling(f)'
    <3>1. fault[f].at = "map" => map[f][PFTEMP].page \in Page \ {p} /\ map[f][fault[f].va].page \in Page \ {p}
      BY <2>2, FaultPages, Layout
    <3> QED BY <1>i, <1>1, <2>2, <2>3, <2>8, <3>1, HandlingFrame
  <2>9. Table(e)'
    <3>1. \A s \in Slot : map'[e][s] = map[e][s] \/ (map'[e][s].page # NoPage /\ map'[e][s].perm = "w")
      BY <2>2
    <3> QED BY <1>i, <1>1, <2>2, <2>4, <3>1 DEF Table
  <2>10. Handling(e)'
    BY <1>i, <1>1, <2>4 DEF Handling
  <2>11. Handled(e)'
    BY <1>7, <2>2 DEF Handled, Ready
  <2> QED BY <1>4, <1>5, <2>5, <2>6, <2>7, <2>8, <2>9, <2>10, <2>11 DEF IInv
<1> QED BY <1>6, <1>7 DEF SetPgfaultHandler

\* fork goes on to the page after n, or past the last one.
LEMMA AtNext ==
  ASSUME NEW e \in Env, \A v \in Va : map[e][v].page # NoPage, NEW n \in 0 .. NVa, NEW c \in Env
  PROVE  LET a == At(e, After(e, n), c)
         IN /\ a \in ForkType /\ a.child = c /\ a.pn = n + 1
            /\ a.at = IF n = NVa THEN "uxstack" ELSE "dup"
            /\ n # NVa => n + 1 \in Va
<1>1. After(e, n) = n + 1
  BY NextPage
<1>2. NVa \in Nat
  BY Layout
<1> QED BY <1>1, <1>2 DEF At, ForkType, Va

LEMMA SysExoforkStep ==
  ASSUME IInv, NEW e \in Env, NEW c \in Env, SysExofork(e, c)
  PROVE  IInv'
<1>t. /\ map \in [Env -> [Slot -> Mapping]] /\ data \in [Page -> Value] /\ stage \in [Env -> Stages]
      /\ upcall \subseteq Env /\ handler \subseteq Env /\ fault \in [Env -> FaultType]
      /\ fork \in [Env -> ForkType]
  BY Typed DEF IInv
<1>i. Exclusive /\ \A f \in Env : Table(f) /\ Handling(f) /\ Making(f) /\ Progress(f) /\ Handled(f)
  BY DEF IInv
<1>1. /\ stage[e] = "live" /\ fault[e].at = "none" /\ fork[e].at = "exofork"
      /\ stage' = [stage EXCEPT ![c] = "embryo"]
      /\ fork' = [fork EXCEPT ![e] = At(e, After(e, 0), c)]
      /\ UNCHANGED <<map, data, upcall, handler, fault>>
  BY DEF SysExofork, Undisturbed, Runs
<1>2. stage[c] = "unused" /\ c # e
  <2>1. {d \in Env : stage[d] = "unused"} \in SUBSET Env
    OBVIOUS
  <2>2. c \in {d \in Env : stage[d] = "unused"}
    BY <2>1, Choice DEF SysExofork
  <2> QED BY <1>1, <2>2
<1>3. \A v \in Va : map[e][v].page # NoPage
  BY <1>i, <1>1 DEF Table
<1>4. /\ fork' \in [Env -> ForkType] /\ \A f \in Env \ {e} : fork'[f] = fork[f]
      /\ fork'[e].at = "dup" /\ fork'[e].child = c /\ fork'[e].pn = 1 /\ 1 \in Va
  <2>1. 0 \in 0 .. NVa /\ NVa # 0
    BY Layout
  <2> QED BY <1>t, <1>1, <1>3, <2>1, AtNext
<1>5. /\ stage' \in [Env -> Stages] /\ stage'[c] = "embryo"
      /\ \A f \in Env \ {c} : stage'[f] = stage[f]
  BY <1>t, <1>1 DEF Stages
<1>6. \A s \in Slot : map[c][s].page = NoPage /\ map[c][s].perm = "none"
  BY <1>i, <1>2 DEF Table
<1>7. \A f \in Env : fork[f].child # c
  <2>1. fork[e].child = NoEnv /\ NoEnv \notin Env
    BY <1>i, <1>1, Shape DEF Making, Building
  <2>2. \A f \in Env : Building(f) => fork[f].child # c
    BY <1>2, NotAChild
  <2>3. \A f \in Env : ~Building(f) => fork[f].child = NoEnv
    BY <1>i DEF Making
  <2> QED BY <2>1, <2>2, <2>3
<1>8. TypeOK'
  BY <1>t, <1>1, <1>4, <1>5, TypedNext
<1>9. Exclusive'
  <2> SUFFICES ASSUME NEW x \in Env, NEW y \in Env, NEW s \in Slot, NEW t \in Slot,
                      map[x][s].perm = "w", map[y][t].page = map[x][s].page, <<x, s>> # <<y, t>>
               PROVE  Shares(x, s, y, t)'
    BY <1>1 DEF Exclusive
  <2>1. Shares(x, s, y, t)
    BY <1>i DEF Exclusive
  <2>2. y # c
    BY <1>i, <1>6 DEF Table
  <2> QED BY <1>1, <1>4, <1>5, <2>1, <2>2 DEF Shares
<1>10. ASSUME NEW f \in Env PROVE Making(f)'
  <2>1. CASE f = e
    BY <1>1, <1>2, <1>4, <1>5, <1>7, <2>1, Shape DEF Making, Building
  <2>2. CASE f # e
    <3>1. Building(f) => fork[f].child \in Env /\ fork[f].child # c
      BY <1>7, <1>2, NotAChild, <1>1
    <3>2. stage[f] # "live" => fork[f].at = "none"
      BY <1>i DEF Making
    <3>3. stage'[f] # "live" => fork[f].at = "none"
      BY <1>2, <1>5, <3>2
    <3> QED BY <1>i, <1>4, <1>5, <2>2, <3>1, <3>3 DEF Making, Building
  <2> QED BY <2>1, <2>2
<1>11. ASSUME NEW f \in Env, f # c PROVE Table(f)' /\ Handling(f)'
  BY <1>i, <1>1, <1>5, <1>11, TableFrame, HandlingFrame
<1>12. Table(c)' /\ Handling(c)' /\ Handled(c)'
  <2>1. Table(c)'
    BY <1>1, <1>5, <1>6, Layout DEF Table
  <2>2. Handling(c)' /\ Handled(c)'
    BY <1>i, <1>1, <1>2, <1>5 DEF Handling, Handled, Runs
  <2> QED BY <2>1, <2>2
<1>13. ASSUME NEW f \in Env, f # e PROVE Progress(f)'
  BY <1>i, <1>1, <1>4, <1>13, ProgressFrame
<1>14. Progress(e)'
  <2>1. \A v \in Va : ~(v < 1)
    BY DEF Va
  <2>2. \A v \in Va : map'[c][v].page = NoPage
    BY <1>1, <1>6, Layout
  <2> QED BY <1>4, <2>1, <2>2 DEF Progress, Building
<1>15. ASSUME NEW f \in Env, f # c PROVE Handled(f)'
  <2>1. CASE f = e
    BY <1>i, <1>1, <2>1 DEF Handled, Ready, Runs
  <2>2. CASE f # e
    BY <1>i, <1>1, <1>4, <1>5, <1>15, <2>2, HandledFrame
  <2> QED BY <2>1, <2>2
<1> QED BY <1>8, <1>9, <1>10, <1>11, <1>12, <1>13, <1>14, <1>15 DEF IInv
\* The child an environment is making.
LEMMA Child ==
  ASSUME IInv, NEW e \in Env, Building(e)
  PROVE  /\ fork[e].child \in Env /\ fork[e].child # e /\ stage[e] = "live"
         /\ stage[fork[e].child] = "embryo"
         /\ \A f \in Env : fork[f].child = fork[e].child => f = e
<1>1. Making(e)
  BY DEF IInv
<1>2. stage[e] = "live"
  BY <1>1 DEF Making, Building
<1>3. fork[e].child \in Env /\ stage[fork[e].child] = "embryo"
  BY <1>2, NotAChild
<1> QED BY <1>1, <1>2, <1>3 DEF Making

LEMMA DupChildStep ==
  ASSUME IInv, NEW e \in Env, DupChild(e)
  PROVE  IInv'
<1>t. /\ map \in [Env -> [Slot -> Mapping]] /\ data \in [Page -> Value] /\ stage \in [Env -> Stages]
      /\ upcall \subseteq Env /\ handler \subseteq Env /\ fault \in [Env -> FaultType]
      /\ fork \in [Env -> ForkType]
  BY Typed DEF IInv
<1>i. Exclusive /\ \A f \in Env : Table(f) /\ Handling(f) /\ Making(f) /\ Progress(f) /\ Handled(f)
  BY DEF IInv
<1>c. PICK c \in Env, n \in 0 .. NVa + 1 : c = fork[e].child /\ n = fork[e].pn
  BY <1>t, Child DEF DupChild, Building, ForkType
<1> DEFINE own == map[e][n]
           kept == own.perm \in {"w", "cow"}
           m == [page |-> own.page, perm |-> IF kept THEN "cow" ELSE "ro"]
<1>1. /\ fault[e].at = "none" /\ fork[e].at = "dup" /\ map' = [map EXCEPT ![c][n] = m]
      /\ IF kept THEN fork' = [fork EXCEPT ![e].at = "self"]
                 ELSE fork' = [fork EXCEPT ![e] = At(e, After(e, n), c)]
      /\ UNCHANGED <<data, stage, upcall, handler, fault>>
  BY <1>c DEF DupChild, Undisturbed
<1>2. /\ c \in Env /\ c # e /\ stage[e] = "live" /\ stage[c] = "embryo"
      /\ \A f \in Env : fork[f].child = c => f = e
  BY <1>1, <1>c, Child DEF Building
<1>3. n \in Va /\ n \in Slot /\ n # UXSTACK /\ n # PFTEMP /\ n \in 0 .. NVa
  BY <1>i, <1>1, <1>c, Layout DEF Progress, Va
<1>4. \A v \in Va : map[e][v].page # NoPage
  BY <1>i, <1>2 DEF Table
<1>5. m \in Mapping /\ m.page = own.page /\ m.page # NoPage /\ m.perm \in {"cow", "ro"}
      /\ (kept => m.perm = "cow")
  BY <1>t, <1>3, <1>4 DEF Mapping, Perms
<1> HIDE DEF m
<1>6. /\ map' \in [Env -> [Slot -> Mapping]]
      /\ \A f \in Env, t \in Slot : map'[f][t] = IF f = c /\ t = n THEN m ELSE map[f][t]
  BY <1>t, <1>1, <1>2, <1>3, <1>5, SetMap
<1>7. /\ fork' \in [Env -> ForkType] /\ fork'[e].child = c
      /\ \A f \in Env \ {e} : fork'[f] = fork[f]
      /\ IF kept THEN fork'[e].at = "self" /\ fork'[e].pn = n
         ELSE /\ fork'[e].at = IF n = NVa THEN "uxstack" ELSE "dup"
              /\ fork'[e].pn = n + 1 /\ (n # NVa => n + 1 \in Va)
  <2>1. CASE kept
    BY <1>t, <1>1, <1>c, <2>1, SetForkAt
  <2>2. CASE ~kept
    <3> DEFINE a == At(e, After(e, n), c)
    <3>1. /\ a \in ForkType /\ a.child = c /\ a.pn = n + 1
          /\ a.at = IF n = NVa THEN "uxstack" ELSE "dup"
          /\ n # NVa => n + 1 \in Va
      BY <1>2, <1>3, <1>4, AtNext
    <3>2. fork' = [fork EXCEPT ![e] = a]
      BY <1>1, <2>2
    <3> HIDE DEF a
    <3>3. fork' \in [Env -> ForkType] /\ fork'[e] = a /\ \A f \in Env \ {e} : fork'[f] = fork[f]
      BY <1>t, <3>1, <3>2
    <3> QED BY <2>2, <3>1, <3>3
  <2> QED BY <2>1, <2>2
<1>8. \A f \in Env \ {c} : map'[f] = map[f]
  BY <1>t, <1>6
<1>9. \A s \in Slot : s # n => map'[c][s] = map[c][s]
  BY <1>2, <1>6
<1>10. map'[c][n] = m
  BY <1>2, <1>3, <1>6
<1>11. TypeOK'
  BY <1>t, <1>1, <1>6, <1>7, TypedNext
<1>12. Exclusive'
  <2> SUFFICES ASSUME NEW x \in Env, NEW y \in Env, NEW s \in Slot, NEW t \in Slot,
                      map'[x][s].perm = "w", map'[y][t].page = map'[x][s].page, <<x, s>> # <<y, t>>
               PROVE  Shares(x, s, y, t)'
    BY DEF Exclusive
  <2>1. ~(x = c /\ s = n) /\ map'[x][s] = map[x][s]
    BY <1>5, <1>6, <1>10
  <2>2. CASE y = c /\ t = n
    <3>1. map[x][s].page = own.page
      BY <1>5, <1>10, <2>1, <2>2
    <3>2. CASE x = e /\ s = n
      <4>1. own.perm = "w"
        BY <2>1, <3>2
      <4>2. map'[y][t].perm = "cow"
        BY <1>5, <1>10, <2>2, <4>1
      <4> QED BY <1>1, <1>2, <1>3, <1>7, <2>2, <3>2, <4>1, <4>2 DEF Shares
    <3>3. CASE ~(x = e /\ s = n)
      <4>1. CASE own.perm = "w"
        <5>1. map[x][s].perm = "cow"
          BY <1>1, <1>3, <3>1, <3>3, <4>1, Shown
        <5> QED BY <2>1, <5>1
      <4>2. CASE own.perm # "w"
        <5>1. map[x][s].perm # "w"
          BY <1>1, <1>2, <1>3, <3>1, <4>2, NoWriter
        <5> QED BY <2>1, <5>1
      <4> QED BY <4>1, <4>2
    <3> QED BY <3>2, <3>3
  <2>3. CASE ~(y = c /\ t = n)
    <3>1. map'[y][t] = map[y][t]
      BY <1>6, <2>3
    <3>2. Shares(x, s, y, t)
      BY <1>i, <2>1, <3>1 DEF Exclusive
    <3>3. \A f \in Env : /\ fork'[f].child = fork[f].child
                         /\ fork[f].at = "self" => fork'[f] = fork[f]
      BY <1>1, <1>7, <1>c
    <3> QED BY <1>1, <3>1, <3>2, <3>3, SharesFrame
  <2> QED BY <2>2, <2>3
<1>13. ASSUME NEW f \in Env, f # c PROVE Table(f)' /\ Handling(f)'
  BY <1>i, <1>1, <1>8, <1>13, TableFrame, HandlingFrame
<1>14. Table(c)'
  <2>1. map'[c][PFTEMP] = map[c][PFTEMP] /\ map'[c][UXSTACK] = map[c][UXSTACK]
    BY <1>3, <1>9, Layout
  <2>2. m.perm # "none" /\ m.perm # "w"
    BY <1>5
  <2>3. \A s \in Slot : map'[c][s] = map[c][s] \/ map'[c][s] = m
    BY <1>6, <1>2
  <2>4. \A s \in Slot : map'[c][s].page = NoPage <=> map'[c][s].perm = "none"
    BY <1>i, <1>2, <1>5, <2>2, <2>3 DEF Table
  <2>5. \A v \in Va : map'[c][v].perm # "w"
    BY <1>i, <1>2, <2>2, <2>3, Layout DEF Table
  <2> QED BY <1>i, <1>1, <1>2, <2>1, <2>4, <2>5 DEF Table
<1>15. Handling(c)' /\ Handled(c)'
  <2>1. fault[c].at = "none" /\ stage[c] # "live"
    BY <1>i, <1>2 DEF Handling
  <2>2. Handling(c)'
    BY <1>1, <2>1 DEF Handling
  <2>3. Handled(c)'
    BY <1>1, <2>1 DEF Handled, Runs
  <2> QED BY <2>2, <2>3
<1>16. ASSUME NEW f \in Env PROVE Making(f)'
  <2>1. CASE f = e
    BY <1>i, <1>1, <1>2, <1>7, <1>c, <2>1, Shape DEF Making, Building
  <2>2. CASE f # e
    BY <1>i, <1>1, <1>2, <1>7, <2>2, <1>c, MakingFrame
  <2> QED BY <2>1, <2>2
<1>17. ASSUME NEW f \in Env, f # e PROVE Progress(f)'
  <2>1. Building(f) => map'[fork[f].child] = map[fork[f].child]
    BY <1>2, <1>8, <1>c, <1>17, Child
  <2>2. Building(f) => f # c
    BY <1>2, Child
  <2>3. fork[f].at = "self" => map'[f] = map[f]
    BY <1>8, <2>2 DEF Building
  <2> QED BY <1>i, <1>1, <1>7, <1>17, <2>1, <2>3, ProgressFrame
<1>18. Progress(e)'
  <2>1. \A v \in Va : map[c][v].page # NoPage <=> v < n
    BY <1>i, <1>1, <1>c DEF Progress, Building
  <2>2. \A v \in Va : map'[c][v].page # NoPage <=> v < n \/ v = n
    BY <1>3, <1>5, <1>9, <1>10, <2>1, Layout
  <2>3. \A v \in Va : v < n + 1 <=> v < n \/ v = n
    BY <1>3 DEF Va
  <2>4. map'[e] = map[e]
    BY <1>2, <1>8
  <2>5. CASE kept
    BY <1>3, <1>5, <1>7, <1>10, <2>2, <2>4, <2>5 DEF Progress, Building
  <2>6. CASE ~kept
    <3>1. /\ fork'[e].at = IF n = NVa THEN "uxstack" ELSE "dup"
          /\ fork'[e].pn = n + 1 /\ (n # NVa => n + 1 \in Va) /\ fork'[e].child = c
      BY <1>7, <2>6
    <3> QED BY <2>2, <2>3, <3>1 DEF Progress, Building
  <2> QED BY <2>5, <2>6
<1>19. ASSUME NEW f \in Env, f # c PROVE Handled(f)'
  <2>1. CASE f = e
    BY <1>i, <1>1, <1>2, <1>8, <2>1 DEF Handled, Ready, Runs
  <2>2. CASE f # e
    BY <1>i, <1>1, <1>7, <1>8, <1>19, <2>2, HandledFrame
  <2> QED BY <2>1, <2>2
<1>20. \A f \in Env : Table(f)' /\ Handling(f)' /\ Handled(f)'
  BY <1>13, <1>14, <1>15, <1>19
<1>21. \A f \in Env : Progress(f)'
  BY <1>17, <1>18
<1> QED BY <1>11, <1>12, <1>16, <1>20, <1>21 DEF IInv

LEMMA DupSelfStep ==
  ASSUME IInv, NEW e \in Env, DupSelf(e)
  PROVE  IInv'
<1>t. /\ map \in [Env -> [Slot -> Mapping]] /\ data \in [Page -> Value] /\ stage \in [Env -> Stages]
      /\ upcall \subseteq Env /\ handler \subseteq Env /\ fault \in [Env -> FaultType]
      /\ fork \in [Env -> ForkType]
  BY Typed DEF IInv
<1>i. Exclusive /\ \A f \in Env : Table(f) /\ Handling(f) /\ Making(f) /\ Progress(f) /\ Handled(f)
  BY DEF IInv
<1> DEFINE c == fork[e].child
           n == fork[e].pn
           a == At(e, After(e, n), c)
<1>1. /\ fault[e].at = "none" /\ fork[e].at = "self" /\ map' = [map EXCEPT ![e][n].perm = "cow"]
      /\ fork' = [fork EXCEPT ![e] = a]
      /\ UNCHANGED <<data, stage, upcall, handler, fault>>
  BY DEF DupSelf, Undisturbed
<1>2. /\ c \in Env /\ c # e /\ stage[e] = "live" /\ stage[c] = "embryo"
      /\ \A f \in Env : fork[f].child = c => f = e
  BY <1>1, Child DEF Building
<1>3. n \in Va /\ n \in Slot /\ n # UXSTACK /\ n # PFTEMP /\ n \in 0 .. NVa
  BY <1>i, <1>1, Layout DEF Progress, Va
<1>4. \A v \in Va : map[e][v].page # NoPage
  BY <1>i, <1>2 DEF Table
<1>5. /\ map' \in [Env -> [Slot -> Mapping]]
      /\ map'[e][n].page = map[e][n].page /\ map'[e][n].perm = "cow"
      /\ \A f \in Env, t \in Slot : f # e \/ t # n => map'[f][t] = map[f][t]
  <2>1. map' = [map EXCEPT ![e][n].perm = "cow"] /\ n \in Slot
    BY <1>1, <1>3
  <2> HIDE DEF n
  <2> QED BY <1>t, <2>1, SetPerm, ZenonT(30)
<1>6. /\ a \in ForkType /\ a.child = c /\ a.pn = n + 1
      /\ a.at = IF n = NVa THEN "uxstack" ELSE "dup"
      /\ n # NVa => n + 1 \in Va
  BY <1>2, <1>3, <1>4, AtNext
<1> HIDE DEF a
<1>7. /\ fork' \in [Env -> ForkType] /\ fork'[e].child = c
      /\ \A f \in Env \ {e} : fork'[f] = fork[f]
      /\ fork'[e].at = IF n = NVa THEN "uxstack" ELSE "dup"
      /\ fork'[e].pn = n + 1 /\ (n # NVa => n + 1 \in Va)
  BY <1>t, <1>1, <1>6
<1> HIDE DEF c, n
<1>8. \A f \in Env \ {e} : map'[f] = map[f]
  BY <1>t, <1>5
<1>9. \A s \in Slot : s # n => map'[e][s] = map[e][s]
  BY <1>5
<1>10. map[e][n].page # NoPage /\ map[e][n].perm # "none"
  BY <1>i, <1>3, <1>4 DEF Table
<1>11. TypeOK'
  BY <1>t, <1>1, <1>5, <1>7, TypedNext
<1>12. Exclusive'
  <2> SUFFICES ASSUME NEW x \in Env, NEW y \in Env, NEW s \in Slot, NEW t \in Slot,
                      map'[x][s].perm = "w", map'[y][t].page = map'[x][s].page, <<x, s>> # <<y, t>>
               PROVE  Shares(x, s, y, t)'
    BY DEF Exclusive
  <2>1. ~(x = e /\ s = n)
    BY <1>5
  <2>2. map'[x][s] = map[x][s] /\ map'[y][t].page = map[y][t].page
    BY <1>5, <2>1
  <2>3. Shares(x, s, y, t)
    BY <1>i, <2>2 DEF Exclusive
  <2>4. y # e \/ t # n
    BY <1>1, <1>2, <1>3, <2>3 DEF Shares
  <2>5. map'[y][t] = map[y][t]
    BY <1>5, <2>4
  <2>6. \A f \in Env : fork'[f].child = fork[f].child
    BY <1>7 DEF c
  <2>7. ~(x = e /\ fork[x].at = "self" /\ fork[x].pn = s)
    BY <2>1 DEF n
  <2> QED BY <1>1, <1>7, <2>3, <2>5, <2>6, <2>7 DEF Shares
<1>13. ASSUME NEW f \in Env, f # e PROVE Table(f)' /\ Handling(f)' /\ Handled(f)'
  BY <1>i, <1>1, <1>7, <1>8, <1>13, TableFrame, HandlingFrame, HandledFrame
<1>14. Table(e)'
  <2>1. map'[e][UXSTACK] = map[e][UXSTACK]
    BY <1>3, <1>9, Layout
  <2>2. \A s \in Slot : map'[e][s].page = NoPage <=> map'[e][s].perm = "none"
    BY <1>i, <1>5, <1>9, <1>10 DEF Table
  <2>3. \A v \in Va : map'[e][v].page # NoPage
    BY <1>4, <1>5, <1>9, Layout
  <2> QED BY <1>i, <1>1, <1>2, <2>1, <2>2, <2>3 DEF Table
<1>15. Handling(e)'
  <2>1. map'[e][PFTEMP] = map[e][PFTEMP]
    BY <1>3, <1>9, Layout
  <2> QED BY <1>i, <1>1, <2>1 DEF Handling
<1>16. ASSUME NEW f \in Env PROVE Making(f)'
  <2>1. CASE f = e
    BY <1>i, <1>1, <1>2, <1>7, <2>1, Shape DEF Making, Building
  <2>2. CASE f # e
    BY <1>i, <1>1, <1>2, <1>7, <2>2, MakingFrame DEF c
  <2> QED BY <2>1, <2>2
<1>17. ASSUME NEW f \in Env, f # e PROVE Progress(f)'
  <2>1. Building(f) => map'[fork[f].child] = map[fork[f].child]
    BY <1>2, <1>8, NotAChild
  <2> QED BY <1>i, <1>1, <1>7, <1>8, <1>17, <2>1, ProgressFrame
<1>18. Progress(e)'
  <2>1. \A v \in Va : map[c][v].page # NoPage <=> v < n \/ v = n
    BY <1>i, <1>1 DEF Progress, Building, c, n
  <2>2. \A v \in Va : v < n + 1 <=> v < n \/ v = n
    BY <1>3 DEF Va
  <2>3. map'[c] = map[c]
    BY <1>2, <1>8
  <2> QED BY <1>7, <2>1, <2>2, <2>3 DEF Progress, Building
<1>19. Handled(e)'
  <2>1. map'[e][UXSTACK] = map[e][UXSTACK]
    BY <1>3, <1>9, Layout
  <2> QED BY <1>i, <1>1, <1>2, <2>1 DEF Handled, Ready, Runs
<1> QED BY <1>11, <1>12, <1>13, <1>14, <1>15, <1>16, <1>17, <1>18, <1>19 DEF IInv

LEMMA ForkUxstackStep ==
  ASSUME IInv, NEW e \in Env, ForkUxstack(e)
  PROVE  IInv'
<1>t. /\ map \in [Env -> [Slot -> Mapping]] /\ data \in [Page -> Value] /\ stage \in [Env -> Stages]
      /\ upcall \subseteq Env /\ handler \subseteq Env /\ fault \in [Env -> FaultType]
      /\ fork \in [Env -> ForkType]
  BY Typed DEF IInv
<1>i. Exclusive /\ \A f \in Env : Table(f) /\ Handling(f) /\ Making(f) /\ Progress(f) /\ Handled(f)
  BY DEF IInv
<1>c. PICK c \in Env : c = fork[e].child
  BY <1>t, Child DEF ForkUxstack, Building
<1>1. /\ fault[e].at = "none" /\ fork[e].at = "uxstack" /\ fork' = [fork EXCEPT ![e].at = "upcall"]
      /\ UNCHANGED <<stage, upcall, handler, fault>>
  BY DEF ForkUxstack, Undisturbed
<1>2. /\ c \in Env /\ c # e /\ stage[e] = "live" /\ stage[c] = "embryo"
      /\ \A f \in Env : fork[f].child = c => f = e
  BY <1>1, <1>c, Child DEF Building
<1>3. PICK p \in Page : SysPageAlloc(c, UXSTACK, p)
  BY <1>c DEF ForkUxstack
<1>4. /\ p # NoPage /\ \A f \in Env, t \in Slot : map[f][t].page # p
      /\ map' \in [Env -> [Slot -> Mapping]] /\ data' \in [Page -> Value]
      /\ \A f \in Env, t \in Slot : f # c \/ t # UXSTACK => map'[f][t] = map[f][t]
      /\ map'[c][UXSTACK].page = p /\ map'[c][UXSTACK].perm = "w"
      /\ \A q \in Page \ {p} : data'[q] = data[q]
  BY <1>t, <1>2, <1>3, Fresh, Layout
<1>5. /\ fork' \in [Env -> ForkType] /\ fork'[e].at = "upcall" /\ fork'[e].child = c
      /\ fork'[e].pn = fork[e].pn /\ \A f \in Env \ {e} : fork'[f] = fork[f]
  BY <1>t, <1>1, <1>c, SetForkAt
<1>6. \A f \in Env \ {c} : map'[f] = map[f]
  BY <1>t, <1>4
<1>7. map'[c][PFTEMP] = map[c][PFTEMP] /\ \A v \in Va : map'[c][v] = map[c][v]
  BY <1>2, <1>4, Layout
<1>8. \A x \in Env : /\ fork'[x].child = fork[x].child
                     /\ fork[x].at = "self" => fork'[x] = fork[x]
  BY <1>1, <1>5, <1>c
<1>9. TypeOK'
  BY <1>t, <1>1, <1>4, <1>5, TypedNext
<1>10. Exclusive'
  <2>1. UXSTACK \in Slot /\ c \in Env /\ Exclusive /\ UNCHANGED <<stage, fault>>
    BY <1>i, <1>1, <1>2, Layout
  <2> QED BY <1>4, <1>8, <2>1, ExclusiveAlloc
<1>11. ASSUME NEW f \in Env, f # c PROVE Table(f)' /\ Handling(f)'
  <2>1. fault[f].at = "map" => map[f][PFTEMP].page \in Page \ {p} /\ map[f][fault[f].va].page \in Page \ {p}
    BY <1>4, FaultPages, Layout
  <2> QED BY <1>i, <1>1, <1>4, <1>6, <1>11, <2>1, TableFrame, HandlingFrame
<1>12. Table(c)'
  <2>1. \A s \in Slot : map'[c][s] = map[c][s] \/ (map'[c][s].page # NoPage /\ map'[c][s].perm = "w")
    BY <1>2, <1>4
  <2>2. \A s \in Slot : map'[c][s].page = NoPage <=> map'[c][s].perm = "none"
    BY <1>i, <1>2, <2>1 DEF Table
  <2>3. \A v \in Va : map'[c][v].perm # "w"
    BY <1>i, <1>2, <1>7 DEF Table
  <2> QED BY <1>i, <1>1, <1>2, <1>4, <1>7, <2>2, <2>3 DEF Table
<1>13. Handling(c)' /\ Handled(c)'
  <2>1. fault[c].at = "none" /\ stage[c] # "live"
    BY <1>i, <1>2 DEF Handling
  <2>2. Handling(c)'
    BY <1>1, <2>1 DEF Handling
  <2>3. Handled(c)'
    BY <1>1, <2>1 DEF Handled, Runs
  <2> QED BY <2>2, <2>3
<1>14. ASSUME NEW f \in Env PROVE Making(f)'
  <2>1. CASE f = e
    BY <1>i, <1>1, <1>2, <1>5, <1>8, <1>c, <2>1, Shape DEF Making, Building
  <2>2. CASE f # e
    BY <1>i, <1>1, <1>2, <1>5, <1>8, <2>2, MakingFrame
  <2> QED BY <2>1, <2>2
<1>15. ASSUME NEW f \in Env, f # e PROVE Progress(f)'
  <2>1. Building(f) => map'[fork[f].child] = map[fork[f].child]
    BY <1>2, <1>6, <1>c, <1>15, Child
  <2>2. Building(f) => f # c
    BY <1>2, Child
  <2>3. fork[f].at = "self" => map'[f] = map[f]
    BY <1>6, <2>2 DEF Building
  <2> QED BY <1>i, <1>1, <1>5, <1>15, <2>1, <2>3, ProgressFrame
<1>16. Progress(e)'
  <2>1. fork[e].pn = NVa + 1 /\ \A v \in Va : map[c][v].page # NoPage <=> v < NVa + 1
    BY <1>i, <1>1, <1>c DEF Progress, Building
  <2> QED BY <1>4, <1>5, <1>7, <2>1 DEF Progress, Building
<1>17. ASSUME NEW f \in Env, f # c PROVE Handled(f)'
  <2>1. CASE f = e
    BY <1>i, <1>1, <1>2, <1>6, <2>1 DEF Handled, Ready, Runs
  <2>2. CASE f # e
    BY <1>i, <1>1, <1>5, <1>6, <1>17, <2>2, HandledFrame
  <2> QED BY <2>1, <2>2
<1>18. \A f \in Env : Table(f)' /\ Handling(f)' /\ Handled(f)'
  BY <1>11, <1>12, <1>13, <1>17
<1>19. \A f \in Env : Progress(f)'
  BY <1>15, <1>16
<1> QED BY <1>9, <1>10, <1>14, <1>18, <1>19 DEF IInv
LEMMA SetUpcallStep ==
  ASSUME IInv, NEW e \in Env, SysEnvSetPgfaultUpcall(e)
  PROVE  IInv'
<1>t. /\ map \in [Env -> [Slot -> Mapping]] /\ data \in [Page -> Value] /\ stage \in [Env -> Stages]
      /\ upcall \subseteq Env /\ handler \subseteq Env /\ fault \in [Env -> FaultType]
      /\ fork \in [Env -> ForkType]
  BY Typed DEF IInv
<1>i. Exclusive /\ \A f \in Env : Table(f) /\ Handling(f) /\ Making(f) /\ Progress(f) /\ Handled(f)
  BY DEF IInv
<1>c. PICK c \in Env : c = fork[e].child
  BY <1>t, Child DEF SysEnvSetPgfaultUpcall, Building
<1>1. /\ fork[e].at = "upcall" /\ fork' = [fork EXCEPT ![e].at = "start"]
      /\ upcall' = upcall \cup {c} /\ UNCHANGED <<map, data, stage, handler, fault>>
  BY <1>c DEF SysEnvSetPgfaultUpcall
<1>2. stage[e] = "live"
  BY <1>1, Child DEF Building
<1>3. /\ fork' \in [Env -> ForkType] /\ fork'[e].at = "start" /\ fork'[e].child = c
      /\ fork'[e].pn = fork[e].pn /\ \A f \in Env \ {e} : fork'[f] = fork[f]
  BY <1>t, <1>1, <1>c, SetForkAt
<1>4. \A x \in Env : /\ fork'[x].child = fork[x].child
                     /\ fork[x].at = "self" => fork'[x] = fork[x]
  BY <1>1, <1>3, <1>c
<1>5. TypeOK'
  BY <1>t, <1>1, <1>3, TypedNext
<1>6. Exclusive'
  BY <1>i, <1>1, <1>4, ExclusiveFrame
<1>7. ASSUME NEW f \in Env PROVE Table(f)' /\ Handling(f)'
  BY <1>i, <1>1, TableFrame, HandlingFrame
<1>8. ASSUME NEW f \in Env PROVE Making(f)'
  <2>1. CASE f = e
    BY <1>i, <1>1, <1>2, <1>3, <1>4, <1>c, <2>1 DEF Making, Building
  <2>2. CASE f # e
    BY <1>i, <1>1, <1>3, <1>4, <2>2, MakingFrame
  <2> QED BY <2>1, <2>2
<1>9. ASSUME NEW f \in Env, f # e PROVE Progress(f)'
  BY <1>i, <1>1, <1>3, <1>9, ProgressFrame
<1>10. Progress(e)'
  BY <1>i, <1>1, <1>3, <1>c DEF Progress, Building
<1>11. ASSUME NEW f \in Env PROVE Handled(f)'
  <2>1. CASE f = e
    BY <1>i, <1>1, <1>2, <2>1 DEF Handled, Ready, Runs
  <2>2. CASE f # e
    BY <1>i, <1>1, <1>3, <2>2, HandledFrame
  <2> QED BY <2>1, <2>2
<1> QED BY <1>5, <1>6, <1>7, <1>8, <1>9, <1>10, <1>11 DEF IInv

\* The child has all its pages, an exception stack and an upcall when it starts.
LEMMA SetStatusStep ==
  ASSUME IInv, NEW e \in Env, SysEnvSetStatus(e)
  PROVE  IInv'
<1>t. /\ map \in [Env -> [Slot -> Mapping]] /\ data \in [Page -> Value] /\ stage \in [Env -> Stages]
      /\ upcall \subseteq Env /\ handler \subseteq Env /\ fault \in [Env -> FaultType]
      /\ fork \in [Env -> ForkType]
  BY Typed DEF IInv
<1>i. Exclusive /\ \A f \in Env : Table(f) /\ Handling(f) /\ Making(f) /\ Progress(f) /\ Handled(f)
  BY DEF IInv
<1>c. PICK c \in Env : c = fork[e].child
  BY <1>t, Child DEF SysEnvSetStatus, Building
<1>1. /\ fork[e].at = "start" /\ stage' = [stage EXCEPT ![c] = "live"]
      /\ handler' = handler \cup {c} /\ fork' = [fork EXCEPT ![e] = NoFork]
      /\ UNCHANGED <<map, data, upcall, fault>>
  BY <1>c DEF SysEnvSetStatus
<1>2. /\ c # e /\ stage[e] = "live" /\ stage[c] = "embryo"
      /\ \A f \in Env : fork[f].child = c => f = e
  BY <1>1, <1>c, Child DEF Building
<1>3. /\ fork' \in [Env -> ForkType] /\ fork'[e].at = "none" /\ fork'[e].child = NoEnv
      /\ \A f \in Env \ {e} : fork'[f] = fork[f]
  BY <1>t, <1>1, Blanks DEF NoFork
<1>4. /\ stage' \in [Env -> Stages] /\ stage'[c] = "live"
      /\ \A f \in Env \ {c} : stage'[f] = stage[f]
  BY <1>t, <1>1 DEF Stages
<1>5. /\ \A v \in Va : map[c][v].page # NoPage
      /\ map[c][UXSTACK].perm = "w" /\ c \in upcall
  <2>1. /\ fork[e].pn = NVa + 1 /\ \A v \in Va : map[c][v].page # NoPage <=> v < fork[e].pn
        /\ map[c][UXSTACK].perm = "w" /\ c \in upcall
    BY <1>i, <1>1, <1>c DEF Progress, Building
  <2>2. \A v \in Va : v < NVa + 1
    BY Layout DEF Va
  <2> QED BY <2>1, <2>2
<1>6. TypeOK'
  BY <1>t, <1>1, <1>3, <1>4, TypedNext
<1>7. Exclusive'
  <2> SUFFICES ASSUME NEW x \in Env, NEW y \in Env, NEW s \in Slot, NEW t \in Slot,
                      map[x][s].perm = "w", map[y][t].page = map[x][s].page, <<x, s>> # <<y, t>>
               PROVE  Shares(x, s, y, t)'
    BY <1>1 DEF Exclusive
  <2>1. Shares(x, s, y, t)
    BY <1>i DEF Exclusive
  <2>2. CASE y = x /\ fault[x].at = "unmap" /\ {s, t} = {PFTEMP, fault[x].va}
    BY <1>1, <2>2 DEF Shares
  <2>3. CASE /\ s = t /\ s \in Va /\ stage[y] = "embryo" /\ map[y][t].perm = "cow"
             /\ \/ fork[x].at = "self" /\ fork[x].child = y /\ fork[x].pn = s
                \/ \A z \in Env : fork[z].child # y
    <3>1. y # c
      BY <1>1, <1>2, <1>c, <2>3
    <3>2. (\A z \in Env : fork[z].child # y) => \A z \in Env : fork'[z].child # y
      BY <1>3, Shape
    <3>3. fork[x].at = "self" => fork'[x] = fork[x]
      BY <1>1, <1>3
    <3> QED BY <1>1, <1>4, <2>3, <3>1, <3>2, <3>3 DEF Shares
  <2> QED BY <2>1, <2>2, <2>3 DEF Shares
<1>8. ASSUME NEW f \in Env, f # c PROVE Table(f)' /\ Handling(f)'
  BY <1>i, <1>1, <1>4, <1>8, TableFrame, HandlingFrame
<1>9. Table(c)' /\ Handling(c)' /\ Handled(c)' /\ Making(c)'
  <2>1. fault[c].at = "none" /\ fork[c].at = "none" /\ map[c][PFTEMP].page = NoPage
        /\ fork[c].child = NoEnv
    BY <1>i, <1>2 DEF Handling, Making, Table, Building
  <2>2. Table(c)'
    BY <1>i, <1>1, <1>4, <1>5 DEF Table
  <2>3. Handling(c)'
    BY <1>1, <2>1 DEF Handling
  <2>4. Handled(c)'
    BY <1>1, <1>5 DEF Handled, Ready
  <2>5. fork'[c].at = "none" /\ fork'[c].child = NoEnv
    BY <1>2, <1>3, <2>1
  <2>6. Making(c)'
    BY <2>5 DEF Making, Building
  <2> QED BY <2>2, <2>3, <2>4, <2>6
<1>10. ASSUME NEW f \in Env, f # c PROVE Making(f)'
  <2>1. CASE f = e
    BY <1>3, <2>1 DEF Making, Building
  <2>2. CASE f # e
    <3>1. Building(f) => fork[f].child \in Env /\ fork[f].child # c
      BY <1>2, <2>2, Child
    <3>2. Building(f) => fork'[e].child # fork[f].child
      BY <1>3, <3>1, Shape
    <3> QED BY <1>i, <1>3, <1>4, <1>10, <2>2, <3>1, <3>2, MakingFrame
  <2> QED BY <2>1, <2>2
<1>11. ASSUME NEW f \in Env PROVE Progress(f)'
  <2>1. CASE f = e
    BY <1>3, <2>1 DEF Progress, Building
  <2>2. CASE f # e
    BY <1>i, <1>1, <1>3, <2>2, ProgressFrame
  <2> QED BY <2>1, <2>2
<1>12. ASSUME NEW f \in Env, f # c PROVE Handled(f)'
  <2>1. CASE f = e
    BY <1>i, <1>1, <1>2, <2>1 DEF Handled, Ready, Runs
  <2>2. CASE f # e
    BY <1>i, <1>1, <1>3, <1>4, <1>12, <2>2, HandledFrame
  <2> QED BY <2>1, <2>2
<1>13. \A f \in Env : Table(f)' /\ Handling(f)' /\ Making(f)' /\ Handled(f)'
  BY <1>8, <1>9, <1>10, <1>12
<1> QED BY <1>6, <1>7, <1>11, <1>13 DEF IInv

\* An environment that leaves fork orphans its child.
LEMMA Orphaned ==
  ASSUME IInv, NEW e \in Env, fork'[e].child = NoEnv, \A f \in Env \ {e} : fork'[f] = fork[f],
         NEW x \in Env, NEW y \in Env, NEW s \in Slot, NEW t \in Slot, Shares(x, s, y, t),
         fault[x].at = "unmap" => fault'[x] = fault[x],
         map'[y][t] = map[y][t], stage[y] = "embryo" => stage'[y] = "embryo"
  PROVE  Shares(x, s, y, t)'
<1>1. CASE y = x /\ fault[x].at = "unmap" /\ {s, t} = {PFTEMP, fault[x].va}
  BY <1>1 DEF Shares
<1>2. CASE /\ s = t /\ s \in Va /\ stage[y] = "embryo" /\ map[y][t].perm = "cow"
           /\ \/ fork[x].at = "self" /\ fork[x].child = y /\ fork[x].pn = s
              \/ \A z \in Env : fork[z].child # y
  <2>1. CASE \A z \in Env : fork[z].child # y
    <3>1. \A z \in Env : fork'[z].child # y
      BY <2>1, Shape
    <3> QED BY <1>2, <3>1 DEF Shares
  <2>2. CASE fork[x].at = "self" /\ fork[x].child = y /\ fork[x].pn = s
    <3>1. CASE x = e
      <4>1. \A z \in Env : fork[z].child = y => z = x
        BY <2>2, Child DEF Building
      <4>2. \A z \in Env : fork'[z].child # y
        BY <3>1, <4>1, Shape
      <4> QED BY <1>2, <4>2 DEF Shares
    <3>2. CASE x # e
      BY <1>2, <2>2, <3>2 DEF Shares
    <3> QED BY <3>1, <3>2
  <2> QED BY <1>2, <2>1, <2>2
<1> QED BY <1>1, <1>2 DEF Shares

LEMMA PanicStep ==
  ASSUME IInv, NEW e \in Env, Panic(e)
  PROVE  IInv'
<1>t. /\ map \in [Env -> [Slot -> Mapping]] /\ data \in [Page -> Value] /\ stage \in [Env -> Stages]
      /\ upcall \subseteq Env /\ handler \subseteq Env /\ fault \in [Env -> FaultType]
      /\ fork \in [Env -> ForkType]
  BY Typed DEF IInv
<1>i. Exclusive /\ \A f \in Env : Table(f) /\ Handling(f) /\ Making(f) /\ Progress(f) /\ Handled(f)
  BY DEF IInv
<1>1. /\ stage[e] = "live" /\ fault[e].at # "unmap"
      /\ stage' = [stage EXCEPT ![e] = "panicked"] /\ fault' = [fault EXCEPT ![e] = NoFault]
      /\ fork' = [fork EXCEPT ![e] = NoFork] /\ UNCHANGED <<map, data, upcall, handler>>
  BY DEF Panic, Runs
<1>2. /\ stage' \in [Env -> Stages] /\ stage'[e] = "panicked"
      /\ \A f \in Env \ {e} : stage'[f] = stage[f]
  BY <1>t, <1>1 DEF Stages
<1>3. /\ fault' \in [Env -> FaultType] /\ fault'[e].at = "none"
      /\ \A f \in Env \ {e} : fault'[f] = fault[f]
  BY <1>t, <1>1, Blanks DEF NoFault
<1>4. /\ fork' \in [Env -> ForkType] /\ fork'[e].at = "none" /\ fork'[e].child = NoEnv
      /\ \A f \in Env \ {e} : fork'[f] = fork[f]
  BY <1>t, <1>1, Blanks DEF NoFork
<1>5. TypeOK'
  BY <1>t, <1>1, <1>2, <1>3, <1>4, TypedNext
<1>6. Exclusive'
  <2> SUFFICES ASSUME NEW x \in Env, NEW y \in Env, NEW s \in Slot, NEW t \in Slot,
                      map[x][s].perm = "w", map[y][t].page = map[x][s].page, <<x, s>> # <<y, t>>
               PROVE  Shares(x, s, y, t)'
    BY <1>1 DEF Exclusive
  <2>1. Shares(x, s, y, t)
    BY <1>i DEF Exclusive
  <2>2. fault[x].at = "unmap" => fault'[x] = fault[x]
    BY <1>1, <1>3
  <2>3. stage[y] = "embryo" => stage'[y] = "embryo"
    BY <1>1, <1>2
  <2> QED BY <1>1, <1>4, <2>1, <2>2, <2>3, Orphaned
<1>7. ASSUME NEW f \in Env, f # e
      PROVE  Table(f)' /\ Handling(f)' /\ Making(f)' /\ Progress(f)' /\ Handled(f)'
  <2>1. Table(f)' /\ Handling(f)' /\ Progress(f)' /\ Handled(f)'
    BY <1>i, <1>1, <1>2, <1>3, <1>4, <1>7, TableFrame, HandlingFrame, ProgressFrame, HandledFrame
  <2>2. Building(f) => fork[f].child \in Env /\ fork[f].child # e
    BY <1>1, NotAChild
  <2>3. Building(f) => fork'[e].child # fork[f].child
    BY <1>4, <2>2, Shape
  <2>4. Making(f)'
    BY <1>i, <1>2, <1>4, <1>7, <2>2, <2>3, MakingFrame
  <2> QED BY <2>1, <2>4
<1>8. Table(e)' /\ Handling(e)' /\ Making(e)' /\ Progress(e)' /\ Handled(e)'
  <2>1. Table(e)'
    BY <1>i, <1>1, <1>2 DEF Table
  <2>2. Handling(e)'
    BY <1>2, <1>3 DEF Handling
  <2>3. Making(e)' /\ Progress(e)'
    BY <1>4 DEF Making, Progress, Building
  <2>4. Handled(e)'
    BY <1>2 DEF Handled, Runs
  <2> QED BY <2>1, <2>2, <2>3, <2>4
<1> QED BY <1>5, <1>6, <1>7, <1>8 DEF IInv

LEMMA EnvFreeStep ==
  ASSUME IInv, NEW e \in Env, EnvFree(e)
  PROVE  IInv'
<1>t. /\ map \in [Env -> [Slot -> Mapping]] /\ data \in [Page -> Value] /\ stage \in [Env -> Stages]
      /\ upcall \subseteq Env /\ handler \subseteq Env /\ fault \in [Env -> FaultType]
      /\ fork \in [Env -> ForkType]
  BY Typed DEF IInv
<1>i. Exclusive /\ \A f \in Env : Table(f) /\ Handling(f) /\ Making(f) /\ Progress(f) /\ Handled(f)
  BY DEF IInv
<1>1. /\ stage[e] \in {"live", "panicked"}
      /\ stage' = [stage EXCEPT ![e] = "gone"] /\ map' = [map EXCEPT ![e] = [s \in Slot |-> Unmapped]]
      /\ fault' = [fault EXCEPT ![e] = NoFault] /\ fork' = [fork EXCEPT ![e] = NoFork]
      /\ upcall' = upcall \ {e} /\ handler' = handler \ {e} /\ UNCHANGED data
  BY DEF EnvFree
<1>2. /\ stage' \in [Env -> Stages] /\ stage'[e] = "gone"
      /\ \A f \in Env \ {e} : stage'[f] = stage[f]
  BY <1>t, <1>1 DEF Stages
<1>3. /\ fault' \in [Env -> FaultType] /\ fault'[e].at = "none"
      /\ \A f \in Env \ {e} : fault'[f] = fault[f]
  BY <1>t, <1>1, Blanks DEF NoFault
<1>4. /\ fork' \in [Env -> ForkType] /\ fork'[e].at = "none" /\ fork'[e].child = NoEnv
      /\ \A f \in Env \ {e} : fork'[f] = fork[f]
  BY <1>t, <1>1, Blanks DEF NoFork
<1>5. /\ map' \in [Env -> [Slot -> Mapping]] /\ \A f \in Env \ {e} : map'[f] = map[f]
      /\ \A s \in Slot : map'[e][s].page = NoPage /\ map'[e][s].perm = "none"
  <2>1. Unmapped.page = NoPage /\ Unmapped.perm = "none"
    BY DEF Unmapped
  <2>2. \A s \in Slot : map'[e][s] = Unmapped
    BY <1>t, <1>1
  <2> QED BY <1>t, <1>1, <2>1, <2>2, Blanks
<1>6. TypeOK'
  BY <1>t, <1>1, <1>2, <1>3, <1>4, <1>5, TypedNext
<1>7. Exclusive'
  <2> SUFFICES ASSUME NEW x \in Env, NEW y \in Env, NEW s \in Slot, NEW t \in Slot,
                      map'[x][s].perm = "w", map'[y][t].page = map'[x][s].page, <<x, s>> # <<y, t>>
               PROVE  Shares(x, s, y, t)'
    BY DEF Exclusive
  <2>1. x # e
    BY <1>5
  <2>2. map'[x][s].page # NoPage
    BY <1>i, <1>5, <2>1 DEF Table
  <2>3. y # e
    BY <1>5, <2>2
  <2>4. Shares(x, s, y, t)
    BY <1>i, <1>5, <2>1, <2>3 DEF Exclusive
  <2> QED BY <1>2, <1>3, <1>4, <1>5, <2>1, <2>3, <2>4, Orphaned
<1>8. ASSUME NEW f \in Env, f # e
      PROVE  Table(f)' /\ Handling(f)' /\ Making(f)' /\ Progress(f)' /\ Handled(f)'
  <2>1. Table(f)' /\ Handling(f)' /\ Handled(f)'
    BY <1>i, <1>1, <1>2, <1>3, <1>4, <1>5, <1>8, TableFrame, HandlingFrame, HandledFrame
  <2>2. Building(f) => fork[f].child \in Env /\ fork[f].child # e
    BY <1>1, NotAChild
  <2>3. Building(f) => fork'[e].child # fork[f].child
    BY <1>4, <2>2, Shape
  <2>4. Making(f)'
    BY <1>i, <1>2, <1>4, <1>8, <2>2, <2>3, MakingFrame
  <2>5. fork[f].child \in upcall => fork[f].child \in upcall'
    <3>1. fork[f].child \in upcall => Building(f)
      BY <1>t, <1>i, Shape DEF Making
    <3> QED BY <1>1, <2>2, <3>1
  <2>6. Progress(f)'
    BY <1>i, <1>4, <1>5, <1>8, <2>2, <2>5, ProgressFrame
  <2> QED BY <2>1, <2>4, <2>6
<1>9. Table(e)' /\ Handling(e)' /\ Making(e)' /\ Progress(e)' /\ Handled(e)'
  <2>1. Table(e)'
    BY <1>2, <1>5, Layout DEF Table
  <2>2. Handling(e)'
    BY <1>2, <1>3 DEF Handling
  <2>3. Making(e)' /\ Progress(e)'
    BY <1>4 DEF Making, Progress, Building
  <2>4. Handled(e)'
    BY <1>2 DEF Handled, Runs
  <2> QED BY <2>1, <2>2, <2>3, <2>4
<1> QED BY <1>6, <1>7, <1>8, <1>9 DEF IInv

LEMMA InvNext == IInv /\ [Next]_vars => IInv'
<1> SUFFICES ASSUME IInv, [Next]_vars PROVE IInv'
  OBVIOUS
<1>1. CASE UNCHANGED vars
  <2>1. UNCHANGED <<map, data, stage, upcall, handler, fault, fork>>
    BY <1>1 DEF vars
  <2>2. TypeOK'
    BY <2>1, Typed, TypedNext DEF IInv
  <2>3. Exclusive'
    BY <2>1, ExclusiveFrame DEF IInv
  <2>4. ASSUME NEW f \in Env
        PROVE  Table(f)' /\ Handling(f)' /\ Making(f)' /\ Progress(f)' /\ Handled(f)'
    BY <2>1, TableFrame, HandlingFrame, MakingFrame, ProgressFrame, HandledFrame DEF IInv
  <2> QED BY <2>2, <2>3, <2>4 DEF IInv
<1>2. ASSUME NEW e \in Env, NEW v \in Va, NEW x \in Value, Write(e, v, x) PROVE IInv'
  BY <1>2, WriteStep
<1>3. ASSUME NEW e \in Env, PgfaultAlloc(e) \/ PgfaultCopy(e) \/ PgfaultMap(e) \/ PgfaultUnmap(e)
      PROVE  IInv'
  BY <1>3, PgfaultAllocStep, PgfaultCopyStep, PgfaultMapStep, PgfaultUnmapStep
<1>4. ASSUME NEW e \in Env, \/ SetPgfaultHandler(e)
                            \/ \E c \in Env : SysExofork(e, c)
                            \/ DupChild(e) \/ DupSelf(e)
      PROVE  IInv'
  BY <1>4, SetPgfaultHandlerStep, SysExoforkStep, DupChildStep, DupSelfStep
<1>5. ASSUME NEW e \in Env, ForkUxstack(e) \/ SysEnvSetPgfaultUpcall(e) \/ SysEnvSetStatus(e)
      PROVE  IInv'
  BY <1>5, ForkUxstackStep, SetUpcallStep, SetStatusStep
<1>6. ASSUME NEW e \in Env, Panic(e) \/ EnvFree(e) PROVE IInv'
  BY <1>6, PanicStep, EnvFreeStep
<1> QED BY <1>1, <1>2, <1>3, <1>4, <1>5, <1>6 DEF Next

LEMMA InvImplies == IInv => CowInv
<1> SUFFICES ASSUME IInv PROVE CowInv
  OBVIOUS
<1>i. Exclusive /\ \A f \in Env : Table(f) /\ Handling(f) /\ Making(f) /\ Progress(f) /\ Handled(f)
  BY DEF IInv
<1>1. WritablePrivate
  <2> SUFFICES ASSUME NEW x \in Env, NEW y \in Env, NEW s \in Slot, NEW t \in Slot,
                      map[x][s].perm = "w", map[x][s].page = map[y][t].page, <<x, s>> # <<y, t>>
               PROVE  Sharing(x, s, y, t) \/ Sharing(y, t, x, s)
    BY DEF WritablePrivate
  <2>1. Shares(x, s, y, t)
    BY <1>i DEF Exclusive
  <2>2. (\A z \in Env : fork[z].child # y) /\ stage[y] = "embryo" => Maker(y) = Nobody
    BY DEF Maker
  <2> QED BY <2>1, <2>2 DEF Shares, Sharing
<1>2. PftempInHandler
  <2>1. ASSUME NEW e \in Env, stage[e] = "live", map[e][PFTEMP].page # NoPage
        PROVE  fault[e].at \in {"copy", "map", "unmap"}
    <3>1. fault[e].at \notin {"none", "alloc"}
      BY <1>i, <2>1 DEF Handling
    <3>2. fault[e] \in FaultType
      BY Typed DEF IInv
    <3> QED BY <3>1, <3>2 DEF FaultType
  <2> QED BY <2>1 DEF PftempInHandler, Runs
<1>3. FaultsHandled
  BY <1>i DEF FaultsHandled, Handled, Ready
<1> QED BY <1>1, <1>2, <1>3 DEF CowInv, IInv

(* Between any two steps of fork and pgfault (lib/fork.c) a page that somebody *)
(* can write is mapped once, but for the page that is being moved or shared;   *)
(* PFTEMP is empty outside pgfault; and whoever can meet a copy-on-write page  *)
(* has the exception stack and the upcall to handle it, a child that has just  *)
(* started included, wherever its maker or anybody else panicked or was        *)
(* destroyed.                                                                  *)
THEOREM CopyOnWriteSound == Spec => []CowInv
BY InvInit, InvNext, InvImplies, PTL DEF Spec
(* The refinement: what the abstract memory is, in terms of the steps of    *)
(* fork.                                                                    *)

\* fork of e has copied v: past it, or at it with nobody able to write the page.
Passed(e, v) ==
    \/ v < fork[e].pn
    \/ /\ fork[e].at = "self" /\ v = fork[e].pn
       /\ ~(map[e][v].perm = "w" /\ map[e][v].page = map[fork[e].child][v].page)
Visible(f, v) == stage[f] = "live" \/ \E e \in Env : fork[e].child = f /\ Passed(e, v)
Cell(f, v) == IF Visible(f, v) THEN data[map[f][v].page] ELSE Blank

Mem == [e \in Env |-> View(e)]
Alive == {e \in Env : stage[e] = "live"}
Makers == [c \in Env |-> Maker(c)]

MakerOf(c) ==
    /\ stage[c] # "embryo" => Maker(c) = None
    /\ \A e \in Env : fork[e].child = c => stage[c] = "embryo" /\ Maker(c) = e
    /\ stage[c] = "embryo" /\ (\A e \in Env : fork[e].child # c) => Maker(c) = Nobody

\* A child has at most one maker, which runs.
LEMMA MakerIs == IInv => \A c \in Env : MakerOf(c)
<1> SUFFICES ASSUME IInv, NEW c \in Env PROVE MakerOf(c)
  OBVIOUS
<1>1. ASSUME NEW e \in Env, fork[e].child = c
      PROVE  stage[c] = "embryo" /\ Maker(c) = e
  <2>1. Building(e)
    BY <1>1, Shape DEF IInv, Making
  <2>2. stage[c] = "embryo" /\ \A f \in Env : fork[f].child = c => f = e
    BY <1>1, <2>1, Child
  <2> QED BY <1>1, <2>2 DEF Maker
<1> QED BY <1>1 DEF MakerOf, Maker

\* What the child shows is what fork has passed.
LEMMA CopiedIs ==
  ASSUME IInv, NEW e \in Env, Building(e), NEW v \in Va
  PROVE  Copied(fork[e].child, v) <=> Passed(e, v)
<1>i. Exclusive /\ \A f \in Env : Table(f) /\ Handling(f) /\ Making(f) /\ Progress(f) /\ Handled(f)
  BY DEF IInv
<1>c. PICK c \in Env : c = fork[e].child
  BY Child
<1>1. /\ c # e /\ stage[e] = "live" /\ stage[c] = "embryo"
      /\ \A f \in Env : fork[f].child = c => f = e
  BY <1>c, Child
<1>2. map[c][v].page # NoPage <=> v < fork[e].pn \/ (v = fork[e].pn /\ fork[e].at = "self")
  BY <1>i, <1>c DEF Progress
<1>3. v \in Slot /\ v \in Nat /\ map[c][v].perm # "w"
  BY <1>i, <1>1, Layout DEF Table, Va
<1>4. ASSUME NEW f \in Env, NEW s \in Slot, map[f][s].page = map[c][v].page, map[f][s].perm = "w"
      PROVE  fork[e].at = "self" /\ f = e /\ s = v /\ v = fork[e].pn
  <2>1. Shares(f, s, c, v)
    BY <1>i, <1>3, <1>4 DEF Exclusive
  <2>2. fault[c].at = "none"
    BY <1>i, <1>1 DEF Handling
  <2> QED BY <1>1, <1>c, <2>1, <2>2 DEF Shares
<1>5. CASE Copied(c, v)
  <2>1. map[c][v].page # NoPage /\ ~(map[e][v].page = map[c][v].page /\ map[e][v].perm = "w")
    BY <1>3, <1>5 DEF Copied
  <2> QED BY <1>2, <1>5, <1>c, <2>1 DEF Passed
<1>6. CASE ~Copied(c, v)
  <2>1. CASE map[c][v].page = NoPage
    BY <1>2, <1>6, <1>c, <2>1 DEF Passed
  <2>2. CASE \E f \in Env, s \in Slot : map[f][s].page = map[c][v].page /\ map[f][s].perm = "w"
    <3>1. fork[e].at = "self" /\ v = fork[e].pn /\ map[e][v].page = map[c][v].page /\ map[e][v].perm = "w"
      BY <1>4, <2>2
    <3>2. ~(v < fork[e].pn)
      BY <1>3, <3>1
    <3> QED BY <1>6, <1>c, <3>1, <3>2 DEF Passed
  <2> QED BY <1>6, <2>1, <2>2 DEF Copied
<1> QED BY <1>5, <1>6, <1>c

LEMMA ViewIs == IInv => \A f \in Env : View(f) = [v \in Va |-> Cell(f, v)]
<1> SUFFICES ASSUME IInv, NEW f \in Env, NEW v \in Va
             PROVE  (IF stage[f] = "live" \/ (stage[f] = "embryo" /\ Maker(f) # Nobody /\ Copied(f, v))
                     THEN data[map[f][v].page] ELSE Blank) = Cell(f, v)
  BY DEF View
<1>1. MakerOf(f)
  BY MakerIs
<1>2. CASE \E e \in Env : fork[e].child = f
  <2>1. PICK e \in Env : fork[e].child = f
    BY <1>2
  <2>2. Building(e)
    BY <2>1, Shape DEF IInv, Making
  <2>3. stage[f] = "embryo" /\ Maker(f) = e /\ Maker(f) # Nobody
    BY <1>1, <2>1, Marks DEF MakerOf
  <2>4. \A x \in Env : fork[x].child = f => x = e
    BY <2>1, <2>2, Child
  <2>5. Copied(f, v) <=> Passed(e, v)
    BY <2>1, <2>2, CopiedIs
  <2> QED BY <2>1, <2>3, <2>4, <2>5 DEF Cell, Visible
<1>3. CASE ~(\E e \in Env : fork[e].child = f)
  <2>1. ~(stage[f] = "embryo" /\ Maker(f) # Nobody)
    BY <1>1, <1>3 DEF MakerOf
  <2> QED BY <1>3, <2>1 DEF Cell, Visible
<1> QED BY <1>2, <1>3

\* The same of the state after a step.
LEMMA MakerNext == IInv' => (\A c \in Env : MakerOf(c))'
BY MakerIs, PTL

LEMMA ViewNext == IInv' => (\A f \in Env : View(f) = [v \in Va |-> Cell(f, v)])'
BY ViewIs, PTL

LEMMA MemSame ==
  ASSUME IInv, IInv', \A f \in Env, v \in Va : Cell(f, v)' = Cell(f, v)
  PROVE  Mem' = Mem
<1>1. \A f \in Env : View(f) = [v \in Va |-> Cell(f, v)]
  BY ViewIs
<1>2. \A f \in Env : View(f)' = [v \in Va |-> Cell(f, v)']
  BY ViewNext
<1>3. \A f \in Env : View(f)' = View(f)
  BY <1>1, <1>2
<1> QED BY <1>3 DEF Mem

LEMMA MemSet ==
  ASSUME IInv, IInv', NEW e \in Env, NEW v \in Va, NEW x, Cell(e, v)' = x,
         \A f \in Env, u \in Va : f # e \/ u # v => Cell(f, u)' = Cell(f, u)
  PROVE  Mem' = [Mem EXCEPT ![e][v] = x]
<1>1. Mem = [f \in Env |-> [u \in Va |-> Cell(f, u)]]
  BY ViewIs DEF Mem
<1>2. \A f \in Env : View(f)' = [u \in Va |-> Cell(f, u)']
  BY ViewNext
<1>3. Mem' = [f \in Env |-> [u \in Va |-> Cell(f, u)']]
  BY <1>2 DEF Mem
<1> QED BY <1>1, <1>3
LEMMA MakersSame ==
  ASSUME IInv, IInv', UNCHANGED stage, \A x \in Env : fork'[x].child = fork[x].child
  PROVE  Makers' = Makers /\ Alive' = Alive
<1>1. ASSUME NEW c \in Env PROVE Maker(c)' = Maker(c)
  <2>1. MakerOf(c)
    BY MakerIs
  <2>2. MakerOf(c)'
    BY MakerNext
  <2>3. CASE \E e \in Env : fork[e].child = c
    BY <2>1, <2>2, <2>3 DEF MakerOf
  <2>4. CASE ~(\E e \in Env : fork[e].child = c)
    BY <2>1, <2>2, <2>4 DEF MakerOf
  <2> QED BY <2>3, <2>4
<1> QED BY <1>1 DEF Makers, Alive

\* Whatever is visible is on a page.
LEMMA VisiblePage ==
  ASSUME IInv, NEW f \in Env, NEW v \in Va, Visible(f, v)
  PROVE  map[f][v].page \in Page
<1>1. CASE stage[f] = "live"
  BY <1>1, Typed, Layout DEF IInv, Table, Mapping
<1>2. CASE \E e \in Env : fork[e].child = f /\ Passed(e, v)
  <2>1. PICK e \in Env : fork[e].child = f /\ Passed(e, v)
    BY <1>2
  <2>2. Building(e)
    BY <2>1, Shape DEF IInv, Making
  <2>3. map[f][v].page # NoPage
    BY <2>1, <2>2 DEF IInv, Progress, Passed
  <2> QED BY <2>3, Typed, Layout DEF IInv, Mapping
<1> QED BY <1>1, <1>2 DEF Visible

\* A step that neither shares nor copies what anybody sees.
LEMMA Quiet ==
  ASSUME IInv, IInv', UNCHANGED stage,
         \A f \in Env, v \in Va : map'[f][v] = map[f][v],
         \A x \in Env : /\ fork'[x].child = fork[x].child /\ fork'[x].pn = fork[x].pn
                        /\ fork'[x].at = "self" <=> fork[x].at = "self",
         \A f \in Env, v \in Va : map[f][v].page \in Page =>
            data'[map[f][v].page] = data[map[f][v].page]
  PROVE  Mem' = Mem /\ Makers' = Makers /\ Alive' = Alive
<1>1. ASSUME NEW f \in Env, NEW v \in Va PROVE Cell(f, v)' = Cell(f, v)
  <2>1. ASSUME NEW e \in Env, fork[e].child = f PROVE Passed(e, v)' <=> Passed(e, v)
    BY <2>1 DEF Passed
  <2>2. Visible(f, v)' <=> Visible(f, v)
    BY <2>1 DEF Visible
  <2>3. Visible(f, v) => map[f][v].page \in Page
    BY VisiblePage
  <2> QED BY <2>2, <2>3 DEF Cell
<1>2. Mem' = Mem
  BY <1>1, MemSame
<1> QED BY <1>2, MakersSame

\* A store changes what its own environment sees.
LEMMA WriteImplements ==
  ASSUME IInv, IInv', NEW e \in Env, NEW v \in Va, NEW x \in Value, Write(e, v, x)
  PROVE  Abstract!Store(e, v, x) \/ UNCHANGED <<Mem, Alive, Makers>>
<1>1. /\ stage[e] = "live" /\ fault[e].at = "none" /\ UNCHANGED <<map, stage, fork>>
  BY DEF Write, Undisturbed, Runs
<1>2. CASE UNCHANGED data
  BY <1>1, <1>2, Quiet
<1>3. CASE map[e][v].perm = "w" /\ data' = [data EXCEPT ![map[e][v].page] = x]
  <2> DEFINE p == map[e][v].page
  <2>1. p \in Page /\ data \in [Page -> Value]
    BY <1>1, <1>3, Typed, Layout DEF IInv, Table, Mapping
  <2>2. data'[p] = x /\ \A q \in Page \ {p} : data'[q] = data[q]
    BY <1>3, <2>1
  <2>3. \A f \in Env, u \in Va : Visible(f, u)' <=> Visible(f, u)
    BY <1>1 DEF Visible, Passed
  <2>4. Cell(e, v)' = x
    BY <1>1, <2>2 DEF Cell, Visible
  <2>5. ASSUME NEW f \in Env, NEW u \in Va, f # e \/ u # v PROVE Cell(f, u)' = Cell(f, u)
    <3>1. CASE map[f][u].page = p
      <4>1. /\ u = v /\ stage[f] = "embryo"
            /\ \/ fork[e].at = "self" /\ fork[e].child = f /\ fork[e].pn = v
               \/ \A y \in Env : fork[y].child # f
        BY <1>1, <1>3, <2>5, <3>1, Shown, Layout
      <4>2. ASSUME NEW y \in Env, fork[y].child = f PROVE ~Passed(y, u)
        <5>1. y = e /\ fork[e].at = "self" /\ fork[e].child = f /\ fork[e].pn = v
          BY <4>1, <4>2, Child DEF Building
        <5> QED BY <1>3, <3>1, <4>1, <5>1 DEF Passed, Va
      <4>3. ~Visible(f, u)
        BY <4>1, <4>2 DEF Visible
      <4> QED BY <2>3, <4>3 DEF Cell
    <3>2. CASE map[f][u].page # p
      <4>1. map[f][u].page \in Page => data'[map[f][u].page] = data[map[f][u].page]
        BY <2>2, <3>2
      <4>2. Visible(f, u) => map[f][u].page \in Page
        BY VisiblePage
      <4> QED BY <1>1, <2>3, <4>1, <4>2 DEF Cell
    <3> QED BY <3>1, <3>2
  <2>6. Mem' = [Mem EXCEPT ![e][v] = x]
    BY <2>4, <2>5, MemSet
  <2>7. e \in Alive
    BY <1>1 DEF Alive
  <2>8. Makers' = Makers /\ Alive' = Alive
    BY <1>1, MakersSame
  <2> QED BY <2>6, <2>7, <2>8 DEF Abstract!Store, Mem, Alive, Makers
<1> QED BY <1>2, <1>3 DEF Write
\* The allocations and the private copy of pgfault are seen by nobody.
LEMMA QuietSteps ==
  ASSUME IInv, IInv', NEW e \in Env,
         \/ PgfaultAlloc(e) \/ PgfaultCopy(e) \/ PgfaultUnmap(e) \/ SetPgfaultHandler(e)
         \/ ForkUxstack(e) \/ SysEnvSetPgfaultUpcall(e)
  PROVE  Mem' = Mem /\ Makers' = Makers /\ Alive' = Alive
<1>t. /\ map \in [Env -> [Slot -> Mapping]] /\ data \in [Page -> Value]
      /\ fault \in [Env -> FaultType] /\ fork \in [Env -> ForkType]
  BY Typed DEF IInv
<1>1. ASSUME NEW c \in Env, NEW s \in Slot \ Va, NEW p \in Page, SysPageAlloc(c, s, p)
      PROVE  /\ \A f \in Env, v \in Va : map'[f][v] = map[f][v]
             /\ \A f \in Env, v \in Va : map[f][v].page \in Page =>
                   data'[map[f][v].page] = data[map[f][v].page]
  <2>1. /\ \A f \in Env, t \in Slot : map[f][t].page # p
        /\ \A f \in Env, t \in Slot : f # c \/ t # s => map'[f][t] = map[f][t]
        /\ \A q \in Page \ {p} : data'[q] = data[q]
    BY <1>t, <1>1, Fresh
  <2> QED BY <2>1, Layout
<1>2. ASSUME NEW a \in {"exofork", "upcall", "start"}, fork[e].at # "self",
             fork' = [fork EXCEPT ![e].at = a]
      PROVE  \A x \in Env : /\ fork'[x].child = fork[x].child /\ fork'[x].pn = fork[x].pn
                            /\ fork'[x].at = "self" <=> fork[x].at = "self"
  <2>1. /\ fork'[e].at = a /\ fork'[e].child = fork[e].child /\ fork'[e].pn = fork[e].pn
        /\ \A f \in Env \ {e} : fork'[f] = fork[f]
    BY <1>t, <1>2, SetForkAt
  <2> QED BY <1>2, <2>1
<1>3. CASE PgfaultAlloc(e)
  BY <1>1, <1>3, Quiet, Layout DEF PgfaultAlloc
<1>4. CASE PgfaultCopy(e)
  <2>1. /\ fault[e].at = "copy" /\ UNCHANGED <<map, stage, fork>>
        /\ data' = [data EXCEPT ![map[e][PFTEMP].page] = data[map[e][fault[e].va].page]]
    BY <1>4 DEF PgfaultCopy
  <2>2. \A f \in Env, v \in Va : map[f][v].page # map[e][PFTEMP].page
    BY <2>1, FaultPages, Layout
  <2>3. \A f \in Env, v \in Va : map[f][v].page \in Page =>
           data'[map[f][v].page] = data[map[f][v].page]
    BY <1>t, <2>1, <2>2
  <2> QED BY <2>1, <2>3, Quiet
<1>5. CASE PgfaultUnmap(e)
  <2>1. map' = [map EXCEPT ![e][PFTEMP] = Unmapped] /\ UNCHANGED <<data, stage, fork>>
    BY <1>5 DEF PgfaultUnmap
  <2>2. \A f \in Env, v \in Va : map'[f][v] = map[f][v]
    BY <1>t, <2>1, Layout
  <2> QED BY <2>1, <2>2, Quiet
<1>6. CASE SetPgfaultHandler(e)
  <2>1. fork[e].at = "none" /\ fork' = [fork EXCEPT ![e].at = "exofork"] /\ UNCHANGED stage
    BY <1>6 DEF SetPgfaultHandler
  <2>2. \A x \in Env : /\ fork'[x].child = fork[x].child /\ fork'[x].pn = fork[x].pn
                       /\ fork'[x].at = "self" <=> fork[x].at = "self"
    BY <1>2, <2>1
  <2>3. \/ UNCHANGED <<map, data>>
        \/ \E p \in Page : SysPageAlloc(e, UXSTACK, p)
    BY <1>6 DEF SetPgfaultHandler
  <2>4. /\ \A f \in Env, v \in Va : map'[f][v] = map[f][v]
        /\ \A f \in Env, v \in Va : map[f][v].page \in Page =>
              data'[map[f][v].page] = data[map[f][v].page]
    BY <1>1, <2>3, Layout
  <2> QED BY <2>1, <2>2, <2>4, Quiet
<1>7. CASE ForkUxstack(e)
  <2>1. fork[e].at = "uxstack" /\ fork' = [fork EXCEPT ![e].at = "upcall"] /\ UNCHANGED stage
    BY <1>7 DEF ForkUxstack
  <2>2. \A x \in Env : /\ fork'[x].child = fork[x].child /\ fork'[x].pn = fork[x].pn
                       /\ fork'[x].at = "self" <=> fork[x].at = "self"
    BY <1>2, <2>1
  <2>3. PICK c \in Env : c = fork[e].child
    BY <2>1, Child DEF Building
  <2>4. \E p \in Page : SysPageAlloc(c, UXSTACK, p)
    BY <1>7, <2>3 DEF ForkUxstack
  <2>5. /\ \A f \in Env, v \in Va : map'[f][v] = map[f][v]
        /\ \A f \in Env, v \in Va : map[f][v].page \in Page =>
              data'[map[f][v].page] = data[map[f][v].page]
    BY <1>1, <2>4, Layout
  <2> QED BY <2>1, <2>2, <2>5, Quiet
<1>8. CASE SysEnvSetPgfaultUpcall(e)
  <2>1. fork[e].at = "upcall" /\ fork' = [fork EXCEPT ![e].at = "start"]
        /\ UNCHANGED <<map, data, stage>>
    BY <1>8 DEF SysEnvSetPgfaultUpcall
  <2>2. \A x \in Env : /\ fork'[x].child = fork[x].child /\ fork'[x].pn = fork[x].pn
                       /\ fork'[x].at = "self" <=> fork[x].at = "self"
    BY <1>2, <2>1
  <2> QED BY <2>1, <2>2, Quiet
<1> QED BY <1>3, <1>4, <1>5, <1>6, <1>7, <1>8

\* pgfault replaces the page by its copy.
LEMMA PgfaultMapQuiet ==
  ASSUME IInv, IInv', NEW e \in Env, PgfaultMap(e)
  PROVE  Mem' = Mem /\ Makers' = Makers /\ Alive' = Alive
<1>t. /\ map \in [Env -> [Slot -> Mapping]] /\ fault \in [Env -> FaultType]
  BY Typed DEF IInv
<1>w. PICK w \in Va : w = fault[e].va
  BY <1>t DEF FaultType
<1>1. /\ fault[e].at = "map" /\ UNCHANGED <<data, stage, fork>>
      /\ map' = [map EXCEPT ![e][w] = [page |-> map[e][PFTEMP].page, perm |-> "w"]]
  BY <1>w DEF PgfaultMap
<1>2. /\ stage[e] = "live" /\ map[e][w].perm = "cow"
      /\ \A f \in Env, t \in Slot : map[f][t].page = map[e][PFTEMP].page => f = e /\ t = PFTEMP
  BY <1>1, <1>w, FaultPages
<1>3. /\ map'[e][w].page = map[e][PFTEMP].page
      /\ \A f \in Env, t \in Slot : f # e \/ t # w => map'[f][t] = map[f][t]
  BY <1>t, <1>1, Layout
<1>4. data[map[e][PFTEMP].page] = data[map[e][w].page]
  BY <1>1, <1>w DEF IInv, Handling
<1>5. ASSUME NEW f \in Env, NEW v \in Va PROVE Cell(f, v)' = Cell(f, v)
  <2>1. ASSUME NEW y \in Env, fork[y].child = f PROVE Passed(y, v)' <=> Passed(y, v)
    <3>1. f # e /\ f \in Env
      BY <1>2, <2>1, NotAChild, Shape DEF IInv, Making
    <3>2. map'[f][v] = map[f][v]
      BY <1>3, <3>1, Layout
    <3>3. CASE y = e /\ v = w
      <4>1. map[f][v].page # map[e][PFTEMP].page
        BY <1>2, <3>1, Layout
      <4>2. map'[y][v].page # map'[f][v].page /\ map[y][v].perm # "w"
        BY <1>2, <1>3, <3>2, <3>3, <4>1
      <4> QED BY <1>1, <2>1, <4>2 DEF Passed
    <3>4. CASE ~(y = e /\ v = w)
      <4>1. map'[y][v] = map[y][v]
        BY <1>3, <3>4, Layout
      <4> QED BY <1>1, <2>1, <3>2, <4>1 DEF Passed
    <3> QED BY <3>3, <3>4
  <2>2. Visible(f, v)' <=> Visible(f, v)
    BY <1>1, <2>1 DEF Visible
  <2>3. data'[map'[f][v].page] = data[map[f][v].page]
    BY <1>1, <1>3, <1>4, Layout
  <2> QED BY <2>2, <2>3 DEF Cell
<1> QED BY <1>1, <1>5, MemSame, MakersSame

LEMMA SysExoforkImplements ==
  ASSUME IInv, IInv', NEW e \in Env, NEW c \in Env, SysExofork(e, c)
  PROVE  Abstract!Create(e, c)
<1>t. /\ stage \in [Env -> Stages] /\ fork \in [Env -> ForkType]
  BY Typed DEF IInv
<1>1. /\ stage[e] = "live" /\ fork[e].at = "exofork" /\ stage' = [stage EXCEPT ![c] = "embryo"]
      /\ fork' = [fork EXCEPT ![e] = At(e, After(e, 0), c)] /\ UNCHANGED <<map, data>>
  BY DEF SysExofork, Undisturbed, Runs
<1>2. stage[c] = "unused" /\ c # e
  <2>1. {d \in Env : stage[d] = "unused"} \in SUBSET Env
    OBVIOUS
  <2>2. c \in {d \in Env : stage[d] = "unused"}
    BY <2>1, Choice DEF SysExofork
  <2> QED BY <1>1, <2>2
<1>3. \A f \in Env \ {e} : fork'[f] = fork[f]
  BY <1>t, <1>1
<1>4. fork'[e].child = c /\ fork'[e].at = "dup" /\ fork'[e].pn = 1
  <2>1. 0 \in 0 .. NVa /\ NVa # 0 /\ \A v \in Va : map[e][v].page # NoPage
    BY <1>1, Layout DEF IInv, Table
  <2>2. fork'[e] = At(e, After(e, 0), c)
    BY <1>t, <1>1
  <2> QED BY <2>1, <2>2, AtNext
<1>5. fork[e].child = NoEnv
  BY <1>1 DEF IInv, Making, Building
<1>6. \A f \in Env : MakerOf(f)
  BY MakerIs
<1>7. \A f \in Env : MakerOf(f)'
  BY MakerNext
<1>8. stage'[c] = "embryo" /\ \A f \in Env \ {c} : stage'[f] = stage[f]
  BY <1>t, <1>1
<1>9. ASSUME NEW f \in Env PROVE Maker(f)' = IF f = c THEN e ELSE Maker(f)
  <2>1. CASE f = c
    BY <1>4, <1>7, <2>1 DEF MakerOf
  <2>2. CASE f # c
    <3>1. fork[e].child # f /\ fork'[e].child # f
      BY <1>4, <1>5, <2>2, Shape
    <3>2. MakerOf(f) /\ MakerOf(f)'
      BY <1>6, <1>7
    <3>3. CASE \E y \in Env : fork[y].child = f
      <4>1. PICK y \in Env : fork[y].child = f
        BY <3>3
      <4>2. fork'[y].child = f
        BY <1>3, <3>1, <4>1
      <4> QED BY <2>2, <3>2, <4>1, <4>2 DEF MakerOf
    <3>4. CASE ~(\E y \in Env : fork[y].child = f)
      <4>1. \A y \in Env : fork'[y].child # f
        BY <1>3, <3>1, <3>4
      <4> QED BY <1>8, <2>2, <3>2, <3>4, <4>1 DEF MakerOf
    <3> QED BY <3>3, <3>4
  <2> QED BY <2>1, <2>2
<1>10. Makers' = [Makers EXCEPT ![c] = e]
  BY <1>9 DEF Makers
<1>11. Alive' = Alive /\ e \in Alive /\ c \notin Alive /\ Makers[c] = None
  <2>1. Maker(c) = None
    BY <1>2, <1>6 DEF MakerOf
  <2> QED BY <1>1, <1>2, <1>8, <2>1 DEF Alive, Makers
<1>12. ASSUME NEW f \in Env, NEW v \in Va PROVE Cell(f, v)' = Cell(f, v)
  <2>1. \A y \in Env \ {e} : Passed(y, v)' <=> Passed(y, v)
    BY <1>1, <1>3 DEF Passed
  <2>2. ~(Passed(e, v)')
    BY <1>4 DEF Passed, Va
  <2>3. Visible(f, v)' <=> Visible(f, v)
    <3>1. stage'[f] = "live" <=> stage[f] = "live"
      BY <1>2, <1>8
    <3>2. fork[e].child # f
      BY <1>5, Shape
    <3>3. \A y \in Env : fork'[y].child = f /\ Passed(y, v)' <=> fork[y].child = f /\ Passed(y, v)
      BY <1>3, <2>1, <2>2, <3>2
    <3> QED BY <3>1, <3>3 DEF Visible
  <2> QED BY <1>1, <2>3 DEF Cell
<1>13. Mem' = Mem
  BY <1>12, MemSame
<1> QED BY <1>10, <1>11, <1>13 DEF Abstract!Create, Mem, Alive, Makers
\* duppage copies a page for the child as soon as nobody can write it.
LEMMA DupChildImplements ==
  ASSUME IInv, IInv', NEW e \in Env, DupChild(e)
  PROVE  \/ \E c \in Env, v \in Va : Abstract!Copy(c, v)
         \/ UNCHANGED <<Mem, Alive, Makers>>
<1>t. /\ map \in [Env -> [Slot -> Mapping]] /\ fork \in [Env -> ForkType]
  BY Typed DEF IInv
<1>c. PICK c \in Env, n \in Va : c = fork[e].child /\ n = fork[e].pn
  BY <1>t, Child DEF DupChild, Building, IInv, Progress
<1>1. /\ fork[e].at = "dup" /\ UNCHANGED <<data, stage>>
      /\ \/ /\ map[e][n].perm \in {"w", "cow"}
            /\ map' = [map EXCEPT ![c][n] = [page |-> map[e][n].page, perm |-> "cow"]]
            /\ fork' = [fork EXCEPT ![e].at = "self"]
         \/ /\ map[e][n].perm \notin {"w", "cow"}
            /\ map' = [map EXCEPT ![c][n] = [page |-> map[e][n].page, perm |-> "ro"]]
            /\ fork' = [fork EXCEPT ![e] = At(e, After(e, n), c)]
  BY <1>c DEF DupChild
<1>2. /\ c # e /\ stage[e] = "live" /\ stage[c] = "embryo"
      /\ \A f \in Env : fork[f].child = c => f = e
  BY <1>1, <1>c, Child DEF Building
<1>3. n \in Slot /\ n \in 0 .. NVa /\ n \in Nat
  BY Layout DEF Va
<1>4. /\ map'[c][n].page = map[e][n].page
      /\ \A f \in Env, t \in Slot : f # c \/ t # n => map'[f][t] = map[f][t]
  BY <1>t, <1>1, <1>3
<1>5. /\ \A f \in Env \ {e} : fork'[f] = fork[f]
      /\ fork'[e].child = c
      /\ IF map[e][n].perm \in {"w", "cow"} THEN fork'[e].at = "self" /\ fork'[e].pn = n
                                            ELSE fork'[e].at # "self" /\ fork'[e].pn = n + 1
  <2>1. CASE fork' = [fork EXCEPT ![e].at = "self"] /\ map[e][n].perm \in {"w", "cow"}
    BY <1>t, <1>c, <2>1, SetForkAt
  <2>2. CASE fork' = [fork EXCEPT ![e] = At(e, After(e, n), c)] /\ map[e][n].perm \notin {"w", "cow"}
    <3>1. \A v \in Va : map[e][v].page # NoPage
      BY <1>2 DEF IInv, Table
    <3>2. fork'[e] = At(e, After(e, n), c) /\ \A f \in Env \ {e} : fork'[f] = fork[f]
      BY <1>t, <2>2
    <3> QED BY <1>3, <2>2, <3>1, <3>2, AtNext
  <2> QED BY <1>1, <2>1, <2>2
<1>6. Makers' = Makers /\ Alive' = Alive
  BY <1>1, <1>5, <1>c, MakersSame
<1>7. ASSUME NEW f \in Env, NEW v \in Va, f # c \/ v # n PROVE Cell(f, v)' = Cell(f, v)
  <2>1. map'[f][v] = map[f][v]
    BY <1>4, <1>7, Layout
  <2>2. ASSUME NEW y \in Env, fork[y].child = f PROVE Passed(y, v)' <=> Passed(y, v)
    <3>1. y # c
      BY <1>2, <2>2, NotAChild, Shape DEF Building, IInv, Making
    <3>2. map'[y][v] = map[y][v]
      BY <1>4, <3>1, Layout
    <3>3. CASE y # e
      BY <1>5, <2>1, <2>2, <3>2, <3>3 DEF Passed
    <3>4. CASE y = e
      <4>1. v # n /\ v \in Nat
        BY <1>7, <1>c, <2>2, <3>4 DEF Va
      <4>2. Passed(y, v) <=> v < n
        BY <1>1, <1>c, <3>4, <4>1 DEF Passed
      <4>3. Passed(y, v)' <=> v < n
        BY <1>3, <1>5, <3>4, <4>1 DEF Passed
      <4> QED BY <4>2, <4>3
    <3> QED BY <3>3, <3>4
  <2>3. Visible(f, v)' <=> Visible(f, v)
    <3>1. \A y \in Env : fork'[y].child = f <=> fork[y].child = f
      BY <1>5, <1>c
    <3> QED BY <1>1, <2>2, <3>1 DEF Visible
  <2> QED BY <1>1, <2>1, <2>3 DEF Cell
<1>8. ~Visible(c, n) /\ Cell(c, n) = Blank
  <2>1. ~Passed(e, n)
    BY <1>1, <1>3, <1>c DEF Passed
  <2> QED BY <1>2, <2>1 DEF Visible, Cell
<1>9. CASE map[e][n].perm = "w"
  <2>1. ~(Passed(e, n)')
    <3>1. map'[e][n] = map[e][n]
      BY <1>2, <1>3, <1>4
    <3> QED BY <1>3, <1>4, <1>5, <1>9, <3>1 DEF Passed
  <2>2. ~(Visible(c, n)')
    <3>1. \A y \in Env : fork'[y].child = c => y = e
      BY <1>2, <1>5
    <3> QED BY <1>1, <1>2, <2>1, <3>1 DEF Visible
  <2>3. Cell(c, n)' = Cell(c, n)
    BY <1>8, <2>2 DEF Cell
  <2> QED BY <1>6, <1>7, <2>3, MemSame
<1>10. CASE map[e][n].perm # "w"
  <2>1. Passed(e, n)'
    <3>1. map'[e][n] = map[e][n]
      BY <1>2, <1>3, <1>4
    <3> QED BY <1>3, <1>5, <1>10, <3>1 DEF Passed
  <2>2. Visible(c, n)'
    BY <1>5, <2>1 DEF Visible
  <2>3. Cell(c, n)' = data[map[e][n].page]
    BY <1>1, <1>4, <2>2 DEF Cell
  <2>4. Cell(e, n) = data[map[e][n].page]
    BY <1>2 DEF Cell, Visible
  <2>5. PICK x : x = data[map[e][n].page]
    OBVIOUS
  <2>6. Mem' = [Mem EXCEPT ![c][n] = x]
    BY <1>7, <2>3, <2>5, MemSet
  <2>7. Mem = [f \in Env |-> [v \in Va |-> Cell(f, v)]]
    BY ViewIs DEF Mem
  <2>8. Mem[c][n] = Blank /\ Mem[e][n] = x
    BY <1>8, <2>4, <2>5, <2>7
  <2>9. Makers[c] = e /\ e \in Alive
    BY <1>2, <1>c, MakerIs DEF Makers, MakerOf, Alive
  <2>10. Mem' = [Mem EXCEPT ![c][n] = Mem[Makers[c]][n]] /\ Makers[c] \in Alive
    BY <2>6, <2>8, <2>9
  <2>11. Abstract!Copy(c, n)
    BY <1>6, <2>8, <2>10 DEF Abstract!Copy, Mem, Alive, Makers
  <2> QED BY <2>11
<1> QED BY <1>9, <1>10

LEMMA DupSelfImplements ==
  ASSUME IInv, IInv', NEW e \in Env, DupSelf(e)
  PROVE  \/ \E c \in Env, v \in Va : Abstract!Copy(c, v)
         \/ UNCHANGED <<Mem, Alive, Makers>>
<1>t. /\ map \in [Env -> [Slot -> Mapping]] /\ fork \in [Env -> ForkType]
  BY Typed DEF IInv
<1>c. PICK c \in Env, n \in Va : c = fork[e].child /\ n = fork[e].pn
  BY <1>t, Child DEF DupSelf, Building, IInv, Progress
<1>1. /\ fork[e].at = "self" /\ UNCHANGED <<data, stage>>
      /\ map' = [map EXCEPT ![e][n].perm = "cow"]
      /\ fork' = [fork EXCEPT ![e] = At(e, After(e, n), c)]
  BY <1>c DEF DupSelf
<1>2. /\ c # e /\ stage[e] = "live" /\ stage[c] = "embryo"
      /\ \A f \in Env : fork[f].child = c => f = e
  BY <1>1, <1>c, Child DEF Building
<1>3. n \in Slot /\ n \in 0 .. NVa /\ n \in Nat
  BY Layout DEF Va
<1>4. /\ map'[e][n].page = map[e][n].page
      /\ \A f \in Env, t \in Slot : f # e \/ t # n => map'[f][t] = map[f][t]
  BY <1>t, <1>1, <1>3, SetPerm
<1>5. /\ \A f \in Env \ {e} : fork'[f] = fork[f]
      /\ fork'[e].child = c /\ fork'[e].at # "self" /\ fork'[e].pn = n + 1
  <2>1. \A v \in Va : map[e][v].page # NoPage
    BY <1>2 DEF IInv, Table
  <2>2. fork'[e] = At(e, After(e, n), c) /\ \A f \in Env \ {e} : fork'[f] = fork[f]
    BY <1>t, <1>1
  <2> QED BY <1>3, <2>1, <2>2, AtNext
<1>6. Makers' = Makers /\ Alive' = Alive
  BY <1>1, <1>5, <1>c, MakersSame
<1>p. \A f \in Env, v \in Va : map'[f][v].page = map[f][v].page
  BY <1>4, Layout
<1>7. ASSUME NEW f \in Env, NEW v \in Va, f # c \/ v # n PROVE Cell(f, v)' = Cell(f, v)
  <2>2. ASSUME NEW y \in Env, fork[y].child = f PROVE Passed(y, v)' <=> Passed(y, v)
    <3>1. CASE y # e
      <4>1. map'[y][v] = map[y][v]
        BY <1>4, <3>1, Layout
      <4> QED BY <1>5, <1>p, <2>2, <3>1, <4>1 DEF Passed
    <3>2. CASE y = e
      <4>1. v # n /\ v \in Nat
        BY <1>7, <1>c, <2>2, <3>2 DEF Va
      <4>2. Passed(y, v) <=> v < n
        BY <1>c, <3>2, <4>1 DEF Passed
      <4>3. Passed(y, v)' <=> v < n
        BY <1>3, <1>5, <3>2, <4>1 DEF Passed
      <4> QED BY <4>2, <4>3
    <3> QED BY <3>1, <3>2
  <2>3. Visible(f, v)' <=> Visible(f, v)
    <3>1. \A y \in Env : fork'[y].child = f <=> fork[y].child = f
      BY <1>5, <1>c
    <3> QED BY <1>1, <2>2, <3>1 DEF Visible
  <2> QED BY <1>1, <1>p, <2>3 DEF Cell
<1>8. Visible(c, n)' /\ Cell(c, n)' = data[map[c][n].page]
  <2>1. Passed(e, n)'
    BY <1>3, <1>5 DEF Passed
  <2>2. Visible(c, n)'
    BY <1>5, <2>1 DEF Visible
  <2> QED BY <1>1, <1>p, <2>2 DEF Cell
<1>9. Visible(c, n) <=> Passed(e, n)
  BY <1>2, <1>c DEF Visible
<1>10. CASE Visible(c, n)
  <2>1. Cell(c, n)' = Cell(c, n)
    BY <1>8, <1>10 DEF Cell
  <2> QED BY <1>6, <1>7, <2>1, MemSame
<1>11. CASE ~Visible(c, n)
  <2>1. map[e][n].page = map[c][n].page
    BY <1>1, <1>9, <1>11, <1>c DEF Passed
  <2>2. Cell(c, n) = Blank /\ Cell(e, n) = data[map[c][n].page]
    BY <1>2, <1>11, <2>1 DEF Cell, Visible
  <2>3. PICK x : x = data[map[c][n].page]
    OBVIOUS
  <2>4. Mem' = [Mem EXCEPT ![c][n] = x]
    BY <1>7, <1>8, <2>3, MemSet
  <2>5. Mem = [f \in Env |-> [v \in Va |-> Cell(f, v)]]
    BY ViewIs DEF Mem
  <2>6. Mem[c][n] = Blank /\ Mem[e][n] = x
    BY <2>2, <2>3, <2>5
  <2>7. Makers[c] = e /\ e \in Alive
    BY <1>2, <1>c, MakerIs DEF Makers, MakerOf, Alive
  <2>8. Mem' = [Mem EXCEPT ![c][n] = Mem[Makers[c]][n]] /\ Makers[c] \in Alive
    BY <2>4, <2>6, <2>7
  <2>9. Abstract!Copy(c, n)
    BY <1>6, <2>6, <2>8 DEF Abstract!Copy, Mem, Alive, Makers
  <2> QED BY <2>9
<1> QED BY <1>10, <1>11

\* A child starts with every page copied.
LEMMA SetStatusImplements ==
  ASSUME IInv, IInv', NEW e \in Env, SysEnvSetStatus(e)
  PROVE  \E c \in Env : Abstract!Start(c)
<1>t. /\ map \in [Env -> [Slot -> Mapping]] /\ data \in [Page -> Value]
      /\ stage \in [Env -> Stages] /\ fork \in [Env -> ForkType]
  BY Typed DEF IInv
<1>c. PICK c \in Env : c = fork[e].child
  BY <1>t, Child DEF SysEnvSetStatus, Building
<1>1. /\ fork[e].at = "start" /\ stage' = [stage EXCEPT ![c] = "live"]
      /\ fork' = [fork EXCEPT ![e] = NoFork] /\ UNCHANGED <<map, data>>
  BY <1>c DEF SysEnvSetStatus
<1>2. /\ c # e /\ stage[e] = "live" /\ stage[c] = "embryo"
      /\ \A f \in Env : fork[f].child = c => f = e
  BY <1>1, <1>c, Child DEF Building
<1>3. /\ fork'[e].child = NoEnv /\ \A f \in Env \ {e} : fork'[f] = fork[f]
  BY <1>t, <1>1 DEF NoFork
<1>4. /\ stage'[c] = "live" /\ \A f \in Env \ {c} : stage'[f] = stage[f]
  BY <1>t, <1>1
<1>5. ASSUME NEW v \in Va PROVE Visible(c, v) /\ Cell(c, v) # Blank
  <2>1. fork[e].pn = NVa + 1 /\ v < NVa + 1
    BY <1>1, Layout DEF IInv, Progress, Va
  <2>2. Visible(c, v)
    BY <1>c, <2>1 DEF Visible, Passed
  <2>3. data[map[c][v].page] \in Value
    BY <1>t, <2>2, VisiblePage
  <2> QED BY <2>2, <2>3, Marks DEF Cell
<1>6. ASSUME NEW f \in Env, NEW v \in Va PROVE Cell(f, v)' = Cell(f, v)
  <2>1. CASE f = c
    BY <1>1, <1>4, <1>5, <2>1 DEF Cell, Visible
  <2>2. CASE f # c
    <3>1. \A y \in Env : fork'[y].child = f <=> fork[y].child = f
      BY <1>3, <1>c, <2>2, Shape
    <3>2. \A y \in Env : fork[y].child = f => fork'[y] = fork[y]
      BY <1>3, <1>c, <2>2
    <3>3. \A y \in Env : fork[y].child = f => (Passed(y, v)' <=> Passed(y, v))
      BY <1>1, <3>2 DEF Passed
    <3>4. Visible(f, v)' <=> Visible(f, v)
      BY <1>4, <2>2, <3>1, <3>3 DEF Visible
    <3> QED BY <1>1, <3>4 DEF Cell
  <2> QED BY <2>1, <2>2
<1>7. Mem' = Mem
  BY <1>6, MemSame
<1>8. ASSUME NEW f \in Env PROVE Maker(f)' = IF f = c THEN None ELSE Maker(f)
  <2>1. MakerOf(f)
    BY MakerIs
  <2>2. MakerOf(f)'
    BY MakerNext
  <2>3. CASE f = c
    BY <1>4, <2>2, <2>3 DEF MakerOf
  <2>4. CASE f # c
    <3>1. \A y \in Env : fork'[y].child = f <=> fork[y].child = f
      BY <1>3, <1>c, <2>4, Shape
    <3> QED BY <1>4, <2>1, <2>2, <2>4, <3>1 DEF MakerOf
  <2> QED BY <2>3, <2>4
<1>9. Makers' = [Makers EXCEPT ![c] = None]
  BY <1>8 DEF Makers
<1>10. Makers[c] \in Alive
  BY <1>2, <1>c, MakerIs DEF Makers, MakerOf, Alive
<1>11. Alive' = Alive \cup {c}
  BY <1>4 DEF Alive
<1>12. \A v \in Va : Mem[c][v] # Blank
  <2>1. Mem = [f \in Env |-> [v \in Va |-> Cell(f, v)]]
    BY ViewIs DEF Mem
  <2> QED BY <1>5, <2>1
<1>13. Abstract!Start(c)
  BY <1>7, <1>9, <1>10, <1>11, <1>12 DEF Abstract!Start, Mem, Alive, Makers
<1> QED BY <1>13

\* What an environment was making when it ended is never completed.
LEMMA EndImplements ==
  ASSUME IInv, IInv', NEW e \in Env, Panic(e) \/ EnvFree(e)
  PROVE  Abstract!End(e) \/ UNCHANGED <<Mem, Alive, Makers>>
<1>t. /\ map \in [Env -> [Slot -> Mapping]]
      /\ stage \in [Env -> Stages] /\ fork \in [Env -> ForkType]
  BY Typed DEF IInv
<1>1. /\ stage[e] \in {"live", "panicked"} /\ UNCHANGED data
      /\ fork'[e].child = NoEnv /\ \A f \in Env \ {e} : fork'[f] = fork[f]
      /\ stage'[e] \in {"panicked", "gone"} /\ \A f \in Env \ {e} : stage'[f] = stage[f]
      /\ \A f \in Env \ {e} : map'[f] = map[f]
  BY <1>t DEF Panic, EnvFree, Runs, NoFork
<1>2. \A y \in Env : fork[y].child # e
  BY <1>1, MakerIs DEF MakerOf
<1>3. \A y \in Env : fork'[y].child = e => FALSE
  BY <1>1, <1>2, Shape
<1>4. ASSUME NEW v \in Va PROVE Cell(e, v)' = Blank
  BY <1>1, <1>3 DEF Cell, Visible
<1>5. ASSUME NEW f \in Env, NEW v \in Va, f # e, fork[e].child # f
      PROVE  Cell(f, v)' = Cell(f, v)
  <2>1. \A y \in Env : fork'[y].child = f <=> y # e /\ fork[y].child = f
    BY <1>1, Shape
  <2>2. \A y \in Env : fork[y].child = f => (Passed(y, v)' <=> Passed(y, v))
    BY <1>1, <1>5 DEF Passed
  <2>3. Visible(f, v)' <=> Visible(f, v)
    BY <1>1, <1>5, <2>1, <2>2 DEF Visible
  <2> QED BY <1>1, <1>5, <2>3 DEF Cell
<1>6. ASSUME NEW f \in Env, NEW v \in Va, fork[e].child = f PROVE Cell(f, v)' = Blank
  <2>1. stage[f] = "embryo" /\ f # e /\ \A y \in Env : fork[y].child = f => y = e
    BY <1>2, <1>6, Child, Shape DEF Building, IInv, Making
  <2>2. \A y \in Env : fork'[y].child # f
    BY <1>1, <2>1, Shape
  <2> QED BY <1>1, <2>1, <2>2 DEF Cell, Visible
<1>7. ASSUME NEW f \in Env PROVE Maker(f)' = IF fork[e].child = f THEN Nobody ELSE Maker(f)
  <2>1. MakerOf(f)
    BY MakerIs
  <2>2. MakerOf(f)'
    BY MakerNext
  <2>3. CASE fork[e].child = f
    <3>1. stage[f] = "embryo" /\ f # e /\ \A y \in Env : fork[y].child = f => y = e
      BY <1>2, <2>3, Child, Shape DEF Building, IInv, Making
    <3>2. \A y \in Env : fork'[y].child # f
      BY <1>1, <3>1, Shape
    <3> QED BY <1>1, <2>2, <2>3, <3>1, <3>2 DEF MakerOf
  <2>4. CASE fork[e].child # f
    <3>1. \A y \in Env : fork'[y].child = f <=> fork[y].child = f
      BY <1>1, <2>4, Shape
    <3>2. stage'[f] = "embryo" <=> stage[f] = "embryo"
      BY <1>1
    <3> QED BY <2>1, <2>2, <2>4, <3>1, <3>2 DEF MakerOf
  <2> QED BY <2>3, <2>4
<1>8. \A f \in Env : Maker(f) = e <=> fork[e].child = f
  <2> SUFFICES ASSUME NEW f \in Env PROVE Maker(f) = e <=> fork[e].child = f
    OBVIOUS
  <2>1. MakerOf(f) /\ None # e /\ Nobody # e
    BY MakerIs, Marks
  <2> QED BY <2>1 DEF MakerOf
<1>9. Mem = [f \in Env |-> [v \in Va |-> Cell(f, v)]]
  BY ViewIs DEF Mem
<1>10. Mem' = [f \in Env |-> [v \in Va |-> Cell(f, v)']]
  <2>1. \A f \in Env : View(f)' = [v \in Va |-> Cell(f, v)']
    BY ViewNext
  <2> QED BY <2>1 DEF Mem
<1>11. CASE stage[e] = "live"
  <2>1. e \in Alive /\ Alive' = Alive \ {e}
    BY <1>1, <1>11 DEF Alive
  <2>2. Makers' = [c \in Env |-> IF Makers[c] = e THEN Nobody ELSE Makers[c]]
    BY <1>7, <1>8 DEF Makers
  <2>3. ASSUME NEW f \in Env
        PROVE  Mem'[f] = IF f = e \/ Makers[f] = e THEN [v \in Va |-> Blank] ELSE Mem[f]
    <3>1. Makers[f] = e <=> fork[e].child = f
      BY <1>8 DEF Makers
    <3>2. CASE f = e \/ fork[e].child = f
      <4>1. \A v \in Va : Cell(f, v)' = Blank
        BY <1>4, <1>6, <3>2
      <4> QED BY <1>10, <3>1, <3>2, <4>1
    <3>3. CASE f # e /\ fork[e].child # f
      <4>1. \A v \in Va : Cell(f, v)' = Cell(f, v)
        BY <1>5, <3>3
      <4> QED BY <1>9, <1>10, <3>1, <3>3, <4>1
    <3> QED BY <3>2, <3>3
  <2>4. Mem' = [f \in Env |->
                  IF f = e \/ Makers[f] = e THEN [v \in Va |-> Blank] ELSE Mem[f]]
    BY <1>10, <2>3
  <2> QED BY <2>1, <2>2, <2>4 DEF Abstract!End, Mem, Alive, Makers
<1>12. CASE stage[e] # "live"
  <2>1. fork[e].child = NoEnv
    BY <1>12 DEF IInv, Making, Building
  <2>2. \A f \in Env : fork[e].child # f
    BY <2>1, Shape
  <2>3. \A v \in Va : Cell(e, v) = Blank
    BY <1>2, <1>12 DEF Cell, Visible
  <2>4. Mem' = Mem
    BY <1>4, <1>5, <2>2, <2>3, MemSame
  <2>5. Makers' = Makers /\ Alive' = Alive
    BY <1>1, <1>7, <1>12, <2>2 DEF Makers, Alive
  <2> QED BY <2>4, <2>5
<1> QED BY <1>11, <1>12

\* The program the kernel loads is alone.
LEMMA InitImplements == Init => Abstract!Init
<1> SUFFICES ASSUME Init PROVE Abstract!Init
  OBVIOUS
<1>1. IInv
  BY InvInit
<1>2. /\ \A f \in Env : stage[f] = IF f = Root THEN "live" ELSE "unused"
      /\ \A f \in Env : fork[f].child = NoEnv
      /\ data = [p \in Page |-> 0]
  BY DEF Init, NoFork
<1>3. Alive = {Root}
  BY <1>2, Shape DEF Alive
<1>4. Makers = [c \in Env |-> None]
  BY <1>2 DEF Makers, Maker
<1>5. Mem = [f \in Env |-> [v \in Va |-> Cell(f, v)]]
  BY <1>1, ViewIs DEF Mem
<1>6. ASSUME NEW f \in Env, NEW v \in Va PROVE Cell(f, v) = IF f = Root THEN 0 ELSE Blank
  <2>1. f = Root => Visible(f, v) /\ map[f][v].page \in Page
    BY <1>1, <1>2, VisiblePage DEF Visible
  <2>2. f # Root => ~Visible(f, v)
    BY <1>2, Shape DEF Visible
  <2> QED BY <1>2, <2>1, <2>2 DEF Cell
<1> DEFINE m == [v \in Va |-> 0]
<1>7. m \in [Va -> Value]
  BY Shape
<1>8. Mem = [f \in Env |-> IF f = Root THEN m ELSE [v \in Va |-> Blank]]
  BY <1>5, <1>6
<1> QED BY <1>3, <1>4, <1>7, <1>8 DEF Abstract!Init, Mem, Alive, Makers

(* Fork as the library and the page fault handler do it, a page at a time,   *)
(* with the caller storing to its stack meanwhile and anybody ending at any  *)
(* step, is a memory of its own for every environment: each step of          *)
(* lib/fork.c is a step of PrivateMemory or is seen by nobody.               *)
THEOREM ForkImplementsPrivateMemory == Spec => ImplementsPrivateMemory
<1>1. Init => Abstract!Init
  BY InitImplements
<1>2. IInv /\ IInv' /\ [Next]_vars => [Abstract!Next]_(<<Mem, Alive, Makers>>)
  <2> SUFFICES ASSUME IInv, IInv', [Next]_vars
               PROVE  Abstract!Next \/ UNCHANGED <<Mem, Alive, Makers>>
    OBVIOUS
  <2>1. CASE UNCHANGED vars
    BY <2>1, Quiet DEF vars
  <2>2. ASSUME NEW e \in Env, NEW v \in Va, NEW x \in Value, Write(e, v, x)
        PROVE  Abstract!Next \/ UNCHANGED <<Mem, Alive, Makers>>
    BY <2>2, WriteImplements DEF Abstract!Next
  <2>3. ASSUME NEW e \in Env, \/ PgfaultAlloc(e) \/ PgfaultCopy(e) \/ PgfaultUnmap(e)
                              \/ SetPgfaultHandler(e) \/ ForkUxstack(e)
                              \/ SysEnvSetPgfaultUpcall(e) \/ PgfaultMap(e)
        PROVE  UNCHANGED <<Mem, Alive, Makers>>
    BY <2>3, QuietSteps, PgfaultMapQuiet
  <2>4. ASSUME NEW e \in Env, NEW c \in Env, SysExofork(e, c) PROVE Abstract!Next
    BY <2>4, SysExoforkImplements DEF Abstract!Next
  <2>5. ASSUME NEW e \in Env, DupChild(e) \/ DupSelf(e)
        PROVE  Abstract!Next \/ UNCHANGED <<Mem, Alive, Makers>>
    BY <2>5, DupChildImplements, DupSelfImplements DEF Abstract!Next
  <2>6. ASSUME NEW e \in Env, SysEnvSetStatus(e) PROVE Abstract!Next
    BY <2>6, SetStatusImplements DEF Abstract!Next
  <2>7. ASSUME NEW e \in Env, Panic(e) \/ EnvFree(e)
        PROVE  Abstract!Next \/ UNCHANGED <<Mem, Alive, Makers>>
    BY <2>7, EndImplements DEF Abstract!Next
  <2> QED BY <2>1, <2>2, <2>3, <2>4, <2>5, <2>6, <2>7 DEF Next
<1>3. Spec => []IInv
  BY InvInit, InvNext, PTL DEF Spec
<1>4. UNCHANGED <<Mem, Alive, Makers>> => UNCHANGED Abstract!vars
  BY DEF Mem, Alive, Makers, Abstract!vars
<1>5. IInv /\ IInv' /\ [Next]_vars => [Abstract!Next]_(Abstract!vars)
  <2> SUFFICES ASSUME IInv, IInv', [Next]_vars PROVE Abstract!Next \/ UNCHANGED Abstract!vars
    OBVIOUS
  <2>1. Abstract!Next \/ UNCHANGED <<Mem, Alive, Makers>>
    BY <1>2
  <2> QED BY <1>4, <2>1
<1> QED BY <1>1, <1>3, <1>5, PTL DEF Spec, ImplementsPrivateMemory, Abstract!Spec
=============================================================================
