--------------------------- MODULE PageRefsProof ---------------------------
(***************************************************************************)
(* PageInv, LoadedInv, TlbFresh and ReadOnlyStays for any number of CPUs,  *)
(* environments and pages.  The operators of PageRefs are functions from   *)
(* one state of the memory to the next, so the lemmas speak of a memory m; *)
(* Sound is the part of PageInv about it, with the pages X that page_alloc *)
(* has handed out and nobody points at yet.                                *)
(***************************************************************************)
EXTENDS PageRefs, TLAPS, FiniteSetTheorems

Sound(m, X) ==
  /\ MemType(m) /\ Counted(m)
  /\ m.free = {p \in Page : m.ref[p] = 0} \ X
  /\ TablesPrivate(m) /\ TablesUnpinned(m) /\ Nested(m)

LEMMA MemoryFields ==
  ASSUME NEW m \in Memory
  PROVE  /\ m.ptr \in [Holder -> Page \cup {NoPage}] /\ m.wr \in SUBSET Ptes
         /\ m.ref \in [Page -> 0 .. RefMax] /\ m.free \in SUBSET Page
         /\ m.pinned \in SUBSET Page
BY DEF Memory

LEMMA MemoryUpdate ==
  ASSUME NEW m \in Memory, NEW f \in [Holder -> Page \cup {NoPage}], NEW w \in SUBSET Ptes,
         NEW r \in [Page -> 0 .. RefMax], NEW fr \in SUBSET Page, NEW pi \in SUBSET Page,
         NEW n, n = [m EXCEPT !.ptr = f, !.wr = w, !.ref = r, !.free = fr, !.pinned = pi]
  PROVE  /\ n \in Memory /\ n.ptr = f /\ n.wr = w /\ n.ref = r /\ n.free = fr
         /\ n.pinned = pi
BY DEF Memory

(* Holders.                                                                *)

LEMMA HolderKinds ==
  /\ \A e \in Env : Dir(e) \in Tables
  /\ \A e \in Env, d \in Pd : Tab(e, d) \in Tables
  /\ \A e \in Env, v \in Va : Pte(e, v) \in Ptes
  /\ \A h \in Tables : (\E e \in Env : h = Dir(e)) \/ (\E e \in Env, d \in Pd : h = Tab(e, d))
  /\ \A h \in Ptes : \E e \in Env, v \in Va : h = Pte(e, v)
  /\ Tables \subseteq Holder /\ Ptes \subseteq Holder /\ Holder \subseteq Tables \cup Ptes
BY DEF Tables, Ptes, Holder

LEMMA HolderNames ==
  /\ \A e, x, d : Dir(e) # Tab(x, d)
  /\ \A e, x, v : Dir(e) # Pte(x, v)
  /\ \A e, d, x, v : Tab(e, d) # Pte(x, v)
  /\ \A e, x : Dir(e) = Dir(x) => e = x
  /\ \A e, d, x, y : Tab(e, d) = Tab(x, y) => e = x /\ d = y
  /\ \A e, d, x, y : Pte(e, d) = Pte(x, y) => e = x /\ d = y
  /\ \A e : Dir(e)[2] = e
  /\ \A e, d : Tab(e, d)[2] = e /\ Pte(e, d)[2] = e
BY DEF Dir, Tab, Pte

LEMMA TablesApart == Tables \cap Ptes = {}
BY HolderKinds, HolderNames

LEMMA CountType ==
  ASSUME NEW f, NEW p
  PROVE  /\ IsFiniteSet(Holders(f, p))
         /\ Cardinality(Holders(f, p)) \in Nat
         /\ Cardinality(Holders(f, p)) <= Cardinality(Holder)
         /\ Cardinality(Holder) \in Nat
<1>1. Holders(f, p) \in SUBSET Holder
  BY DEF Holders
<1>2. IsFiniteSet(Holder)
  BY Finite DEF Finite
<1>3. IsFiniteSet(Holders(f, p)) /\ Cardinality(Holders(f, p)) <= Cardinality(Holder)
  BY <1>1, <1>2, FS_Subset
<1>4. QED
  BY <1>2, <1>3, FS_CardinalityType

\* A page nobody points at is counted zero times.
LEMMA CountZero ==
  ASSUME NEW f, NEW p
  PROVE  Cardinality(Holders(f, p)) = 0 <=> \A h \in Holder : f[h] # p
<1>1. Cardinality(Holders(f, p)) = 0 <=> Holders(f, p) = {}
  BY CountType, FS_EmptySet
<1>2. QED
  BY <1>1 DEF Holders

\* One write to a holder moves the count of the old page to the new one.
LEMMA CountWrite ==
  ASSUME NEW f, DOMAIN f = Holder, NEW h \in Holder, NEW q, NEW p
  PROVE  Cardinality(Holders([f EXCEPT ![h] = q], p)) =
           Cardinality(Holders(f, p)) + (IF p = q THEN 1 ELSE 0)
                                      - (IF p = f[h] THEN 1 ELSE 0)
<1> DEFINE g == [f EXCEPT ![h] = q]
<1>1. CASE p = q /\ p = f[h]
  <2>1. Holders(g, p) = Holders(f, p)
    BY <1>1 DEF Holders
  <2>2. QED
    BY <2>1, <1>1, CountType
<1>2. CASE p = q /\ p # f[h]
  <2>1. Holders(g, p) = Holders(f, p) \cup {h} /\ h \notin Holders(f, p)
    BY <1>2 DEF Holders
  <2>2. IsFiniteSet(Holders(f, p)) /\ Cardinality(Holders(f, p)) \in Nat
    BY CountType
  <2>3. Cardinality(Holders(g, p)) = Cardinality(Holders(f, p)) + 1
    BY <2>1, <2>2, FS_AddElement
  <2>4. QED
    BY <1>2, <2>2, <2>3
<1>3. CASE p # q /\ p = f[h]
  <2>1. Holders(g, p) = Holders(f, p) \ {h} /\ h \in Holders(f, p)
    BY <1>3 DEF Holders
  <2>2. IsFiniteSet(Holders(f, p)) /\ Cardinality(Holders(f, p)) \in Nat
    BY CountType
  <2>3. Cardinality(Holders(g, p)) = Cardinality(Holders(f, p)) - 1
    BY <2>1, <2>2, FS_RemoveElement
  <2>4. QED
    BY <1>3, <2>2, <2>3
<1>4. CASE p # q /\ p # f[h]
  <2>1. Holders(g, p) = Holders(f, p)
    BY <1>4 DEF Holders
  <2>2. QED
    BY <2>1, <1>4, CountType
<1>5. QED
  BY <1>1, <1>2, <1>3, <1>4

Moved(m, n, h, q) ==
  /\ m.ptr \in [Holder -> Page \cup {NoPage}] /\ h \in Holder
  /\ \A x \in Holder : n.ptr[x] = IF x = h THEN q ELSE m.ptr[x]

LEMMA CountStep ==
  ASSUME NEW m, NEW n, NEW h, NEW q, Moved(m, n, h, q), NEW p
  PROVE  Count(n, p) = Count(m, p) + (IF p = q THEN 1 ELSE 0)
                                   - (IF p = m.ptr[h] THEN 1 ELSE 0)
<1> DEFINE g == [m.ptr EXCEPT ![h] = q]
<1>1. DOMAIN m.ptr = Holder /\ h \in Holder
  BY DEF Moved
<1>2. Cardinality(Holders(g, p)) =
           Cardinality(Holders(m.ptr, p)) + (IF p = q THEN 1 ELSE 0)
                                          - (IF p = m.ptr[h] THEN 1 ELSE 0)
  BY <1>1, CountWrite
<1>3. Holders(g, p) = Holders(n.ptr, p)
  BY <1>1 DEF Holders, Moved
<1>4. QED
  BY <1>2, <1>3 DEF Count

(* Reference counts do not wrap.                                           *)

LEMMA CountBound ==
  ASSUME NEW m, MemType(m), Counted(m), NEW p \in Page
  PROVE  /\ m.ref[p] \in Nat /\ m.ref[p] < RefMax /\ RefMax \in Nat
         /\ Count(m, p) \in Nat /\ Pin(m, p) \in {0, 1}
         /\ Inc(m.ref[p]) = m.ref[p] + 1
<1>1. Count(m, p) \in Nat /\ Count(m, p) <= Cardinality(Holder) /\ Cardinality(Holder) \in Nat
  BY CountType DEF Count
<1>2. m.ref[p] = Count(m, p) + Pin(m, p) /\ Pin(m, p) \in {0, 1}
  BY DEF Counted, Pin
<1>3. QED
  BY <1>1, <1>2, RefWide DEF Inc

\* On a free page page_alloc resets a count that is 0 already.
LEMMA AllocReset ==
  ASSUME NEW m \in Memory, NEW p \in Page, m.ref[p] = 0
  PROVE  PageAlloc(m, p) = [m EXCEPT !.free = m.free \ {p}]
<1>1. m.ref \in [Page -> 0 .. RefMax]
  BY MemoryFields
<1>2. [m.ref EXCEPT ![p] = 0] = m.ref
  BY <1>1
<1>3. PageAlloc(m, p) = [m EXCEPT !.free = m.free \ {p}, !.ref = [m.ref EXCEPT ![p] = 0]]
  BY DEF PageAlloc, Memory
<1>4. QED
  BY <1>2, <1>3 DEF Memory

(* page_alloc for a table or a directory: a free page gets its one holder. *)

\* A table hangs off a directory.
Rooted(m, h) == \A e \in Env, d \in Pd : h = Tab(e, d) => m.ptr[Dir(e)] # NoPage

TableAdded(m, n, h, t) ==
  /\ n.ptr = [m.ptr EXCEPT ![h] = t] /\ n.wr = m.wr
  /\ n.free = m.free \ {t} /\ n.pinned = m.pinned

LEMMA TableSound ==
  ASSUME NEW m, NEW X, Sound(m, X), NEW h \in Tables, m.ptr[h] = NoPage, Rooted(m, h),
         NEW t \in m.free
  PROVE  Sound(NewTable(m, h, t), X) /\ TableAdded(m, NewTable(m, h, t), h, t)
<1> DEFINE n == NewTable(m, h, t)
<1>1. MemType(m) /\ Counted(m) /\ m.free = {p \in Page : m.ref[p] = 0} \ X
      /\ TablesPrivate(m) /\ TablesUnpinned(m) /\ Nested(m)
  BY DEF Sound
<1>2. /\ m.ptr \in [Holder -> Page \cup {NoPage}] /\ m.ref \in [Page -> 0 .. RefMax]
      /\ m.wr \subseteq Ptes /\ m.free \subseteq Page /\ m.pinned \subseteq Page
      /\ \A x \in m.wr : m.ptr[x] # NoPage
  BY <1>1, MemoryFields DEF MemType
<1>3. t \in Page /\ t # NoPage /\ m.ref[t] = 0 /\ t \notin X
  BY <1>1, <1>2, Kinds DEF Kinds
<1>4. h \in Holder /\ h \notin Ptes
  BY HolderKinds, TablesApart
<1>5. Inc(m.ref[t]) = 1 /\ 1 \in 0 .. RefMax /\ Count(m, t) = 0 /\ Pin(m, t) = 0
  <2>1. Inc(m.ref[t]) = m.ref[t] + 1 /\ m.ref[t] < RefMax /\ RefMax \in Nat
        /\ Count(m, t) \in Nat /\ Pin(m, t) \in {0, 1}
    BY <1>1, <1>3, CountBound
  <2>2. QED
    BY <2>1, <1>1, <1>3 DEF Counted
<1>6. \A x \in Holder : m.ptr[x] # t
  BY <1>5, CountZero DEF Count
<1>7. /\ n.ptr = [m.ptr EXCEPT ![h] = t] /\ n.wr = m.wr
      /\ n.ref = [m.ref EXCEPT ![t] = 1]
      /\ n.free = m.free \ {t} /\ n.pinned = m.pinned
  <2>1. PageAlloc(m, t) = [m EXCEPT !.free = m.free \ {t}] /\ m \in Memory
    BY <1>1, <1>3, AllocReset DEF MemType
  <2>2. n = [m EXCEPT !.free = m.free \ {t}, !.ptr = [m.ptr EXCEPT ![h] = t],
                      !.ref = [m.ref EXCEPT ![t] = 1]]
    BY <2>1, <1>5 DEF NewTable, Memory
  <2>3. QED
    BY <2>1, <2>2 DEF Memory
<1> HIDE DEF n
<1>8. MemType(n)
  <2>1. n \in Memory
    <3>1. /\ [m.ptr EXCEPT ![h] = t] \in [Holder -> Page \cup {NoPage}]
          /\ [m.ref EXCEPT ![t] = 1] \in [Page -> 0 .. RefMax]
          /\ m.free \ {t} \in SUBSET Page
      BY <1>2, <1>3, <1>4, <1>5
    <3>2. PageAlloc(m, t) = [m EXCEPT !.free = m.free \ {t}] /\ m \in Memory
      BY <1>1, <1>3, AllocReset DEF MemType
    <3>3. n = [m EXCEPT !.free = m.free \ {t}, !.ptr = [m.ptr EXCEPT ![h] = t],
                        !.ref = [m.ref EXCEPT ![t] = 1]]
      BY <3>2, <1>5 DEF NewTable, Memory, n
    <3>4. QED
      BY <3>1, <3>2, <3>3 DEF Memory
  <2>2. \A x \in n.wr : n.ptr[x] # NoPage
    BY <1>2, <1>4, <1>7, HolderKinds
  <2>3. QED
    BY <2>1, <2>2 DEF MemType
<1>9. Counted(n)
  <2> SUFFICES ASSUME NEW p \in Page PROVE n.ref[p] = Count(n, p) + Pin(n, p)
    BY DEF Counted
  <2>0. Moved(m, n, h, t)
    BY <1>2, <1>4, <1>7 DEF Moved
  <2>1. Count(n, p) = Count(m, p) + (IF p = t THEN 1 ELSE 0) - (IF p = m.ptr[h] THEN 1 ELSE 0)
    BY <2>0, CountStep
  <2>2. p # m.ptr[h]
    BY Kinds DEF Kinds
  <2>3. Pin(n, p) = Pin(m, p)
    BY <1>7 DEF Pin
  <2>4. m.ref[p] = Count(m, p) + Pin(m, p) /\ Count(m, p) \in Nat
    BY <1>1, CountBound DEF Counted
  <2>5. QED
    BY <2>1, <2>2, <2>3, <2>4, <1>2, <1>3, <1>5, <1>7
<1>10. n.free = {p \in Page : n.ref[p] = 0} \ X
  BY <1>1, <1>2, <1>3, <1>7
<1>11. TablesPrivate(n)
  BY <1>1, <1>2, <1>3, <1>4, <1>6, <1>7, HolderKinds DEF TablesPrivate
<1>12. TablesUnpinned(n)
  BY <1>1, <1>2, <1>4, <1>5, <1>7, HolderKinds DEF TablesUnpinned, Pin
<1>13. Nested(n)
  <2>1. \A x \in Holder : n.ptr[x] = IF x = h THEN t ELSE m.ptr[x]
    BY <1>2, <1>4, <1>7
  <2>2. PDX \in [Va -> Pd]
    BY Kinds DEF Kinds
  <2>3. QED
    BY <1>1, <1>3, <1>4, <2>1, <2>2, HolderKinds DEF Nested, Rooted
<1>14. QED
  BY <1>7, <1>8, <1>9, <1>10, <1>11, <1>12, <1>13 DEF Sound, TableAdded, n

(* page_insert once the page table is there.  The page p is mapped          *)
(* somewhere or in hand; no table is stored in it.                         *)

Insertable(m, X, p) ==
  /\ p \in Page /\ p \notin m.free /\ X \subseteq {p}
  /\ \A h \in Tables : m.ptr[h] # p

MapPage(m, e, p, v, w) ==
  SetPte(PageRemove([m EXCEPT !.ref[p] = Inc(@)], e, v), Pte(e, v), p, w)

\* What it does: one pointer and one count move from the old page to p.
Mapped(m, n, e, p, v, w) ==
  LET h == Pte(e, v)
      q == m.ptr[h] IN
  /\ n \in Memory /\ n.ptr = [m.ptr EXCEPT ![h] = p]
  /\ n.wr = IF w THEN m.wr \cup {h} ELSE m.wr \ {h}
  /\ n.pinned = m.pinned
  /\ \A x \in Page : n.ref[x] = m.ref[x] + (IF x = p THEN 1 ELSE 0)
                                       - (IF x = q THEN 1 ELSE 0)
  /\ n.free = IF q # NoPage /\ q # p /\ m.ref[q] = 1 THEN m.free \cup {q} ELSE m.free

LEMMA MapEffect ==
  ASSUME NEW m, NEW X, Sound(m, X), NEW p, Insertable(m, X, p),
         NEW e \in Env, NEW v \in Va, NEW w \in BOOLEAN
  PROVE  Mapped(m, MapPage(m, e, p, v, w), e, p, v, w)
<1> DEFINE n == MapPage(m, e, p, v, w)
           q == m.ptr[Pte(e, v)]
<1> DEFINE h == Pte(e, v)
           c == [m EXCEPT !.ref[p] = Inc(@)]
<1>1. m \in Memory /\ Counted(m) /\ MemType(m) /\ p \in Page
  BY DEF Sound, MemType, Insertable
<1>0. /\ m.ptr \in [Holder -> Page \cup {NoPage}] /\ m.wr \in SUBSET Ptes
      /\ m.ref \in [Page -> 0 .. RefMax] /\ m.free \in SUBSET Page
      /\ m.pinned \in SUBSET Page
  BY <1>1, MemoryFields
<1>2. h \in Holder /\ h \in Ptes /\ q \in Page \cup {NoPage} /\ NoPage \notin Page
  BY <1>0, HolderKinds, Kinds DEF Kinds
<1>3. \A x \in Page : /\ m.ref[x] \in Nat /\ m.ref[x] < RefMax /\ RefMax \in Nat
                      /\ Inc(m.ref[x]) = m.ref[x] + 1
  BY <1>1, CountBound
<1>4. /\ c \in Memory /\ c.ptr = m.ptr /\ c.wr = m.wr /\ c.free = m.free
      /\ c.pinned = m.pinned /\ c.ref = [m.ref EXCEPT ![p] = m.ref[p] + 1]
  <2>1. m.ref[p] + 1 \in 0 .. RefMax
    BY <1>1, <1>3
  <2>2. [m.ref EXCEPT ![p] = m.ref[p] + 1] \in [Page -> 0 .. RefMax]
    BY <1>0, <1>1, <2>1
  <2>3. c = [m EXCEPT !.ref = [m.ref EXCEPT ![p] = m.ref[p] + 1]]
    BY <1>1, <1>3 DEF Memory
  <2>4. QED
    BY <1>0, <1>1, <2>2, <2>3 DEF Memory
<1> HIDE DEF c
<1>5. q # NoPage => m.ref[q] > 0
  <2>1. SUFFICES ASSUME q # NoPage PROVE m.ref[q] > 0
    OBVIOUS
  <2>2. q \in Page /\ Count(m, q) \in Nat /\ Pin(m, q) \in {0, 1}
    BY <1>1, <1>2, <2>1, CountBound
  <2>3. Count(m, q) # 0
    BY <1>2, CountZero DEF Count
  <2>4. QED
    BY <1>1, <2>2, <2>3 DEF Counted
<1>9. ASSUME NEW r \in Memory, n = SetPte(r, h, p, w)
      PROVE  /\ n \in Memory /\ n.ptr = [r.ptr EXCEPT ![h] = p] /\ n.ref = r.ref
             /\ n.wr = (IF w THEN r.wr \cup {h} ELSE r.wr \ {h})
             /\ n.free = r.free /\ n.pinned = r.pinned
  <2>1. /\ [r.ptr EXCEPT ![h] = p] \in [Holder -> Page \cup {NoPage}]
        /\ (IF w THEN r.wr \cup {h} ELSE r.wr \ {h}) \in SUBSET Ptes
    BY <1>1, <1>2, <1>9, MemoryFields
  <2>2. n = [r EXCEPT !.ptr = [r.ptr EXCEPT ![h] = p],
                      !.wr = IF w THEN r.wr \cup {h} ELSE r.wr \ {h}]
    BY <1>9 DEF SetPte, Memory
  <2>3. QED
    BY <1>9, <2>1, <2>2 DEF Memory
<1>6. CASE q = NoPage
  <2>1. PageRemove(c, e, v) = c
    BY <1>4, <1>6 DEF PageRemove
  <2>2. n = SetPte(c, h, p, w)
    BY <2>1 DEF MapPage, c
  <2>3. /\ n \in Memory /\ n.ptr = [c.ptr EXCEPT ![h] = p] /\ n.ref = c.ref
        /\ n.wr = (IF w THEN c.wr \cup {h} ELSE c.wr \ {h})
        /\ n.free = c.free /\ n.pinned = c.pinned
    BY <1>4, <1>9, <2>2
  <2>4. \A x \in Page : n.ref[x] = m.ref[x] + (IF x = p THEN 1 ELSE 0)
                                           - (IF x = q THEN 1 ELSE 0)
    BY <1>0, <1>1, <1>2, <1>3, <1>4, <1>6, <2>3
  <2>5. QED
    BY <1>4, <1>6, <2>3, <2>4 DEF Mapped
<1>7. CASE q # NoPage
  <2> DEFINE r == PageRemove(c, e, v)
             k == [c EXCEPT !.ref[q] = Dec(@)]
             j == IF k.ref[q] = 0 THEN PageFree(k, q) ELSE k
  <2>1. q \in Page /\ c.ref[q] > 0 /\ c.ref[q] \in 0 .. RefMax /\ Dec(c.ref[q]) = c.ref[q] - 1
    <3>1. q \in Page /\ c.ref[q] \in 0 .. RefMax
      BY <1>2, <1>4, <1>7, MemoryFields
    <3>2. c.ref[q] > 0
      BY <1>0, <1>1, <1>3, <1>4, <1>5, <1>7, <3>1
    <3>3. QED
      BY <3>1, <3>2 DEF Dec
  <2>2. /\ k \in Memory /\ k.ptr = m.ptr /\ k.wr = m.wr /\ k.free = m.free
        /\ k.pinned = m.pinned /\ k.ref = [c.ref EXCEPT ![q] = c.ref[q] - 1]
    <3>1. c.ref[q] - 1 \in 0 .. RefMax
      BY <1>3, <2>1
    <3>2. [c.ref EXCEPT ![q] = c.ref[q] - 1] \in [Page -> 0 .. RefMax]
      BY <1>4, <3>1, MemoryFields
    <3>3. k = [c EXCEPT !.ref = [c.ref EXCEPT ![q] = c.ref[q] - 1]]
      BY <1>4, <2>1 DEF Memory
    <3>4. QED
      BY <1>4, <3>2, <3>3 DEF Memory
  <2> HIDE DEF k
  <2>3. /\ j \in Memory /\ j.ptr = m.ptr /\ j.wr = m.wr /\ j.pinned = m.pinned
        /\ j.ref = k.ref
        /\ j.free = IF k.ref[q] = 0 THEN m.free \cup {q} ELSE m.free
    BY <1>0, <2>1, <2>2 DEF PageFree, Memory
  <2>4. r = [j EXCEPT !.ptr = [j.ptr EXCEPT ![h] = NoPage], !.wr = j.wr \ {h}]
    <3>1. r = [PageDecref(c, q) EXCEPT !.ptr[h] = NoPage, !.wr = @ \ {h}]
      BY <1>4, <1>7 DEF PageRemove
    <3>2. PageDecref(c, q) = j
      BY DEF PageDecref, k
    <3>3. QED
      BY <2>3, <3>1, <3>2 DEF Memory
  <2>5. /\ r \in Memory /\ r.ptr = [m.ptr EXCEPT ![h] = NoPage] /\ r.wr = m.wr \ {h}
        /\ r.free = j.free /\ r.ref = k.ref /\ r.pinned = m.pinned
    <3>1. [j.ptr EXCEPT ![h] = NoPage] \in [Holder -> Page \cup {NoPage}]
          /\ j.wr \ {h} \in SUBSET Ptes
      BY <1>0, <2>3
    <3>2. QED
      BY ZenonT(30), <2>3, <2>4, <3>1 DEF Memory
  <2>6. n = SetPte(r, h, p, w)
    BY DEF MapPage, c
  <2>7. /\ n \in Memory /\ n.ptr = [r.ptr EXCEPT ![h] = p] /\ n.ref = r.ref
        /\ n.wr = (IF w THEN r.wr \cup {h} ELSE r.wr \ {h})
        /\ n.free = r.free /\ n.pinned = r.pinned
    BY <1>9, <2>5, <2>6
  <2>8. \A x \in Page : k.ref[x] = m.ref[x] + (IF x = p THEN 1 ELSE 0)
                                           - (IF x = q THEN 1 ELSE 0)
    BY <1>0, <1>1, <1>2, <1>3, <1>4, <2>1, <2>2
  <2>9. k.ref[q] = 0 <=> q # p /\ m.ref[q] = 1
    BY <1>1, <1>3, <1>5, <1>7, <2>1, <2>8
  <2>10. n.ptr = [m.ptr EXCEPT ![h] = p]
    BY <1>0, <1>2, <2>5, <2>7
  <2>11. n.wr = IF w THEN m.wr \cup {h} ELSE m.wr \ {h}
    BY <2>5, <2>7
  <2>12. n.free = IF q # NoPage /\ q # p /\ m.ref[q] = 1 THEN m.free \cup {q} ELSE m.free
    BY <1>7, <2>3, <2>5, <2>7, <2>9
  <2>13. QED
    BY <2>5, <2>7, <2>8, <2>10, <2>11, <2>12 DEF Mapped
<1>8. QED
  BY <1>6, <1>7

\* Only the mapping of v in e differs, and page tables may have been added.
Edited(m, n, e, v) ==
  /\ \A h \in Ptes : h # Pte(e, v) => n.ptr[h] = m.ptr[h] /\ (h \in n.wr <=> h \in m.wr)
  /\ \A x \in Env : n.ptr[Dir(x)] = m.ptr[Dir(x)]

LEMMA MapSound ==
  ASSUME NEW m, NEW X, Sound(m, X), NEW p, Insertable(m, X, p),
         NEW e \in Env, NEW v \in Va, NEW w \in BOOLEAN, HasTable(m, e, v),
         NEW n, n = MapPage(m, e, p, v, w)
  PROVE  Sound(n, {}) /\ Edited(m, n, e, v)
<1> DEFINE h == Pte(e, v)
           q == m.ptr[h]
<1>1. /\ n \in Memory /\ n.ptr = [m.ptr EXCEPT ![h] = p]
      /\ n.wr = IF w THEN m.wr \cup {h} ELSE m.wr \ {h}
      /\ n.pinned = m.pinned
      /\ \A x \in Page : n.ref[x] = m.ref[x] + (IF x = p THEN 1 ELSE 0)
                                           - (IF x = q THEN 1 ELSE 0)
      /\ n.free = IF q # NoPage /\ q # p /\ m.ref[q] = 1 THEN m.free \cup {q} ELSE m.free
  <2>1. Mapped(m, n, e, p, v, w)
    BY MapEffect
  <2>2. QED
    BY <2>1 DEF Mapped
<1>2. MemType(m) /\ Counted(m) /\ m.free = {x \in Page : m.ref[x] = 0} \ X
      /\ TablesPrivate(m) /\ TablesUnpinned(m) /\ Nested(m)
  BY DEF Sound
<1>3. /\ m.ptr \in [Holder -> Page \cup {NoPage}] /\ m.wr \in SUBSET Ptes
      /\ m.free \in SUBSET Page /\ \A x \in m.wr : m.ptr[x] # NoPage
  BY <1>2, MemoryFields DEF MemType
<1>4. p \in Page /\ p \notin m.free /\ X \subseteq {p} /\ NoPage \notin Page
      /\ \A x \in Tables : m.ptr[x] # p
  BY Kinds DEF Kinds, Insertable
<1>5. h \in Ptes /\ h \in Holder /\ h \notin Tables /\ Ptes \subseteq Holder
      /\ Tables \subseteq Holder
  BY HolderKinds, TablesApart
<1>6. \A x \in Holder : n.ptr[x] = IF x = h THEN p ELSE m.ptr[x]
  BY <1>1, <1>3, <1>5
<1>7. Moved(m, n, h, p)
  BY <1>3, <1>5, <1>6 DEF Moved
<1>8. MemType(n)
  BY <1>1, <1>3, <1>4, <1>5, <1>6 DEF MemType
<1>9. Counted(n)
  <2> SUFFICES ASSUME NEW x \in Page PROVE n.ref[x] = Count(n, x) + Pin(n, x)
    BY DEF Counted
  <2>1. Count(n, x) = Count(m, x) + (IF x = p THEN 1 ELSE 0) - (IF x = q THEN 1 ELSE 0)
    BY <1>7, CountStep
  <2>2. m.ref[x] = Count(m, x) + Pin(m, x) /\ Count(m, x) \in Nat /\ Pin(m, x) \in {0, 1}
    BY <1>2, CountBound DEF Counted
  <2>3. Pin(n, x) = Pin(m, x)
    BY <1>1 DEF Pin
  <2>4. QED
    BY <1>1, <2>1, <2>2, <2>3
<1>10. n.free = {x \in Page : n.ref[x] = 0} \ {}
  <2>1. n.ref[p] # 0
    <3>1. n.ref[p] = Count(n, p) + Pin(n, p) /\ Count(n, p) \in Nat /\ Pin(n, p) \in {0, 1}
      BY <1>4, <1>8, <1>9, CountBound DEF Counted
    <3>2. Count(n, p) # 0
      BY <1>5, <1>6, CountZero DEF Count
    <3>3. QED
      BY <3>1, <3>2
  <2>2. \A x \in Page : m.ref[x] \in Nat
    BY <1>2, CountBound
  <2>3. ASSUME NEW x \in Page, x # p
        PROVE  x \in n.free <=> n.ref[x] = 0
    <3>1. n.ref[x] = m.ref[x] - (IF x = q THEN 1 ELSE 0) /\ m.ref[x] \in Nat
      BY <1>1, <2>2, <2>3
    <3>2. x \in m.free <=> m.ref[x] = 0
      BY <1>2, <1>4, <2>3
    <3>3. x = q => m.ref[x] # 0
      <4>1. SUFFICES ASSUME x = q PROVE m.ref[x] # 0
        OBVIOUS
      <4>2. Count(m, x) # 0
        BY <1>5, <4>1, CountZero DEF Count
      <4>3. QED
        BY <1>2, <4>2, CountBound DEF Counted
    <3>4. x \in n.free <=> x \in m.free \/ (x = q /\ m.ref[q] = 1)
      BY <1>1, <1>4, <2>3
    <3>5. QED
      BY <3>1, <3>2, <3>3, <3>4
  <2>4. p \notin n.free /\ n.free \subseteq Page
    BY <1>1, <1>4, MemoryFields
  <2>5. QED
    BY <2>1, <2>3, <2>4
<1>11. TablesPrivate(n) /\ TablesUnpinned(n)
  BY <1>1, <1>2, <1>4, <1>5, <1>6 DEF TablesPrivate, TablesUnpinned
<1>12. \A x \in Tables : n.ptr[x] = m.ptr[x]
  BY <1>5, <1>6
<1>13. Nested(n)
  <2>1. ASSUME NEW a \in Env, NEW u \in Va, n.ptr[Pte(a, u)] # NoPage
        PROVE  n.ptr[Tab(a, PDX[u])] # NoPage
    <3>1. Tab(a, PDX[u]) \in Tables /\ Pte(a, u) \in Ptes
      BY HolderKinds, Kinds DEF Kinds
    <3>2. CASE Pte(a, u) = h
      <4>1. a = e /\ u = v
        BY <3>2, HolderNames
      <4>2. QED
        BY <1>12, <3>1, <4>1 DEF HasTable
    <3>3. CASE Pte(a, u) # h
      BY <1>2, <1>5, <1>6, <1>12, <2>1, <3>1, <3>3 DEF Nested
    <3>4. QED
      BY <3>2, <3>3
  <2>2. \A a \in Env, d \in Pd : n.ptr[Tab(a, d)] # NoPage => n.ptr[Dir(a)] # NoPage
    BY <1>2, <1>12, HolderKinds DEF Nested
  <2>3. QED
    BY <2>1, <2>2 DEF Nested
<1>14. Edited(m, n, e, v)
  <2>1. \A x \in Ptes : x # h => n.ptr[x] = m.ptr[x]
    BY <1>5, <1>6
  <2>2. \A x : x # h => (x \in n.wr <=> x \in m.wr)
    BY <1>1
  <2>3. \A x \in Env : n.ptr[Dir(x)] = m.ptr[Dir(x)]
    BY <1>12, HolderKinds
  <2>4. QED
    BY <2>1, <2>2, <2>3 DEF Edited
<1>15. QED
  BY <1>8, <1>9, <1>10, <1>11, <1>13, <1>14 DEF Sound

(* page_insert with its walk.                                              *)

LEMMA InsertSound ==
  ASSUME NEW m, NEW X, Sound(m, X), NEW p, Insertable(m, X, p),
         NEW e \in Env, m.ptr[Dir(e)] # NoPage, NEW v \in Va, NEW w \in BOOLEAN,
         NEW t \in TableChoice(m, e, v), NEW n, n = PageInsert(m, e, p, v, w, t)
  PROVE  Sound(n, {}) /\ Edited(m, n, e, v)
<1> DEFINE walked == PgdirWalk(m, e, v, t)
           h == Tab(e, PDX[v])
<1>1. /\ m.ptr \in [Holder -> Page \cup {NoPage}] /\ m.free \in SUBSET Page
      /\ NoPage \notin Page
  BY MemoryFields, Kinds DEF Sound, MemType, Kinds
<1>2. h \in Tables /\ h \in Holder
  BY HolderKinds, Kinds DEF Kinds
<1>3. n = MapPage(walked, e, p, v, w)
  BY DEF PageInsert, MapPage
<1>4. CASE HasTable(m, e, v)
  <2>1. walked = m
    BY <1>4 DEF TableChoice, PgdirWalk
  <2>2. QED
    BY <1>3, <1>4, <2>1, MapSound
<1>5. CASE ~HasTable(m, e, v)
  <2>1. t \in m.free /\ t # NoPage /\ m.ptr[h] = NoPage
    BY <1>1, <1>5 DEF TableChoice, HasTable
  <2>2. walked = NewTable(m, h, t)
    BY <2>1 DEF PgdirWalk
  <2>3. Rooted(m, h)
    BY HolderNames DEF Rooted
  <2> HIDE DEF walked, h
  <2>4. /\ Sound(walked, X) /\ walked.ptr = [m.ptr EXCEPT ![h] = t] /\ walked.wr = m.wr
        /\ walked.free = m.free \ {t}
    BY <1>2, <2>1, <2>2, <2>3, TableSound DEF TableAdded
  <2>5. \A x \in Holder : walked.ptr[x] = IF x = h THEN t ELSE m.ptr[x]
    BY <1>1, <1>2, <2>4
  <2>6. Insertable(walked, X, p)
    BY <2>1, <2>4, <2>5, HolderKinds DEF Insertable
  <2>7. HasTable(walked, e, v)
    BY <1>2, <2>1, <2>5 DEF HasTable, h
  <2>8. Sound(n, {}) /\ Edited(walked, n, e, v)
    BY <1>3, <2>4, <2>6, <2>7, MapSound
  <2>9. \A x \in Env : Dir(x) # h /\ Dir(x) \in Holder
    BY HolderKinds, HolderNames DEF h
  <2>10. \A x \in Ptes : x # h /\ x \in Holder
    BY <1>2, HolderKinds, TablesApart
  <2>11. QED
    BY <2>4, <2>5, <2>8, <2>9, <2>10 DEF Edited
<1>6. QED
  BY <1>4, <1>5

(* page_remove.                                                            *)

LEMMA RemoveSound ==
  ASSUME NEW m, Sound(m, {}), NEW e \in Env, NEW v \in Va
  PROVE  Sound(PageRemove(m, e, v), {}) /\ Edited(m, PageRemove(m, e, v), e, v)
<1> DEFINE n == PageRemove(m, e, v)
           h == Pte(e, v)
           q == m.ptr[h]
           k == [m EXCEPT !.ref[q] = Dec(@)]
           j == IF k.ref[q] = 0 THEN PageFree(k, q) ELSE k
<1>1. MemType(m) /\ Counted(m) /\ m.free = {x \in Page : m.ref[x] = 0}
      /\ TablesPrivate(m) /\ TablesUnpinned(m) /\ Nested(m) /\ m \in Memory
  BY DEF Sound, MemType
<1>2. /\ m.ptr \in [Holder -> Page \cup {NoPage}] /\ m.wr \in SUBSET Ptes
      /\ m.ref \in [Page -> 0 .. RefMax] /\ m.free \in SUBSET Page
      /\ m.pinned \in SUBSET Page /\ \A x \in m.wr : m.ptr[x] # NoPage
  BY <1>1, MemoryFields DEF MemType
<1>3. h \in Ptes /\ h \in Holder /\ h \notin Tables /\ Ptes \subseteq Holder
      /\ Tables \subseteq Holder /\ NoPage \notin Page
  BY HolderKinds, TablesApart, Kinds DEF Kinds
<1>4. CASE q = NoPage
  <2>1. n = m
    BY <1>4 DEF PageRemove
  <2>2. QED
    BY <2>1 DEF Edited
<1>5. CASE q # NoPage
  <2>1. q \in Page /\ m.ref[q] \in Nat /\ m.ref[q] > 0 /\ m.ref[q] - 1 \in 0 .. RefMax
    <3>1. q \in Page /\ m.ref[q] \in Nat /\ m.ref[q] < RefMax /\ RefMax \in Nat
          /\ Count(m, q) \in Nat /\ Pin(m, q) \in {0, 1}
      BY <1>1, <1>2, <1>3, <1>5, CountBound
    <3>2. Count(m, q) # 0
      BY <1>3, CountZero DEF Count
    <3>3. m.ref[q] = Count(m, q) + Pin(m, q)
      BY <1>1, <3>1 DEF Counted
    <3>4. QED
      BY <3>1, <3>2, <3>3
  <2>2. /\ k \in Memory /\ k.ptr = m.ptr /\ k.wr = m.wr /\ k.free = m.free
        /\ k.pinned = m.pinned /\ k.ref = [m.ref EXCEPT ![q] = m.ref[q] - 1]
    <3>1. [m.ref EXCEPT ![q] = m.ref[q] - 1] \in [Page -> 0 .. RefMax]
      BY <1>2, <2>1
    <3>2. k = [m EXCEPT !.ref = [m.ref EXCEPT ![q] = m.ref[q] - 1]]
      BY <1>1, <2>1 DEF Memory, Dec
    <3>3. QED
      BY <1>1, <3>1, <3>2 DEF Memory
  <2>3. k.ref[q] = m.ref[q] - 1
    BY <1>2, <2>1, <2>2
  <2> HIDE DEF k
  <2>4. /\ j \in Memory /\ j.ptr = m.ptr /\ j.wr = m.wr /\ j.pinned = m.pinned
        /\ j.ref = k.ref
        /\ j.free = IF m.ref[q] = 1 THEN m.free \cup {q} ELSE m.free
    BY <1>2, <2>1, <2>2, <2>3 DEF PageFree, Memory
  <2>5. n = [j EXCEPT !.ptr = [j.ptr EXCEPT ![h] = NoPage], !.wr = j.wr \ {h}]
    <3>1. n = [PageDecref(m, q) EXCEPT !.ptr[h] = NoPage, !.wr = @ \ {h}]
      BY <1>5 DEF PageRemove
    <3>2. PageDecref(m, q) = j
      BY DEF PageDecref, k
    <3>3. QED
      BY <2>4, <3>1, <3>2 DEF Memory
  <2>6. /\ n \in Memory /\ n.ptr = [m.ptr EXCEPT ![h] = NoPage] /\ n.wr = m.wr \ {h}
        /\ n.free = j.free /\ n.ref = k.ref /\ n.pinned = m.pinned
    <3>1. [j.ptr EXCEPT ![h] = NoPage] \in [Holder -> Page \cup {NoPage}]
          /\ j.wr \ {h} \in SUBSET Ptes
      BY <1>2, <2>4
    <3>2. QED
      BY ZenonT(30), <2>4, <2>5, <3>1 DEF Memory
  <2> HIDE DEF n, j
  <2>7. \A x \in Holder : n.ptr[x] = IF x = h THEN NoPage ELSE m.ptr[x]
    BY <1>2, <1>3, <2>6
  <2>8. \A x \in Page : n.ref[x] = m.ref[x] - (IF x = q THEN 1 ELSE 0)
    BY <1>2, <2>1, <2>2, <2>6
  <2>9. MemType(n)
    BY <1>2, <1>3, <2>6, <2>7 DEF MemType
  <2>10. Counted(n)
    <3> SUFFICES ASSUME NEW x \in Page PROVE n.ref[x] = Count(n, x) + Pin(n, x)
      BY DEF Counted
    <3>1. Moved(m, n, h, NoPage)
      BY <1>2, <1>3, <2>7 DEF Moved
    <3>2. Count(n, x) = Count(m, x) + (IF x = NoPage THEN 1 ELSE 0) - (IF x = q THEN 1 ELSE 0)
      BY <3>1, CountStep
    <3>3. m.ref[x] = Count(m, x) + Pin(m, x) /\ Count(m, x) \in Nat /\ Pin(m, x) \in {0, 1}
      BY <1>1, CountBound DEF Counted
    <3>4. Pin(n, x) = Pin(m, x)
      BY <2>6 DEF Pin
    <3>5. QED
      BY <1>3, <2>8, <3>2, <3>3, <3>4
  <2>11. n.free = {x \in Page : n.ref[x] = 0} \ {}
    <3>1. ASSUME NEW x \in Page
          PROVE  x \in n.free <=> n.ref[x] = 0
      <4>1. n.ref[x] = m.ref[x] - (IF x = q THEN 1 ELSE 0) /\ m.ref[x] \in Nat
        BY <1>1, <2>8, CountBound
      <4>2. x \in n.free <=> m.ref[x] = 0 \/ (x = q /\ m.ref[q] = 1)
        BY <1>1, <2>4, <2>6
      <4>3. QED
        BY <2>1, <4>1, <4>2
    <3>2. n.free \subseteq Page
      BY <2>6, MemoryFields
    <3>3. QED
      BY <3>1, <3>2
  <2>12. TablesPrivate(n) /\ TablesUnpinned(n)
    BY <1>1, <1>3, <2>6, <2>7 DEF TablesPrivate, TablesUnpinned
  <2>13. \A x \in Tables : n.ptr[x] = m.ptr[x]
    BY <1>3, <2>7
  <2>14. Nested(n)
    <3>1. ASSUME NEW a \in Env, NEW u \in Va, n.ptr[Pte(a, u)] # NoPage
          PROVE  n.ptr[Tab(a, PDX[u])] # NoPage
      <4>1. Tab(a, PDX[u]) \in Tables /\ Pte(a, u) \in Ptes
        BY HolderKinds, Kinds DEF Kinds
      <4>2. QED
        BY <1>1, <1>3, <2>7, <2>13, <3>1, <4>1 DEF Nested
    <3>2. \A a \in Env, d \in Pd : n.ptr[Tab(a, d)] # NoPage => n.ptr[Dir(a)] # NoPage
      BY <1>1, <2>13, HolderKinds DEF Nested
    <3>3. QED
      BY <3>1, <3>2 DEF Nested
  <2>15. Edited(m, n, e, v)
    <3>1. \A x \in Ptes : x # h => n.ptr[x] = m.ptr[x]
      BY <1>3, <2>7
    <3>2. \A x : x # h => (x \in n.wr <=> x \in m.wr)
      BY <2>6
    <3>3. \A x \in Env : n.ptr[Dir(x)] = m.ptr[Dir(x)]
      BY <2>13, HolderKinds
    <3>4. QED
      BY <3>1, <3>2, <3>3 DEF Edited
  <2>16. QED
    BY <2>9, <2>10, <2>11, <2>12, <2>14, <2>15 DEF Sound, n
<1>6. QED
  BY <1>4, <1>5

(* page_alloc: the page is in hand, and nothing points at it.               *)

LEMMA AllocSound ==
  ASSUME NEW m, Sound(m, {}), NEW p \in m.free
  PROVE  /\ Sound(PageAlloc(m, p), {p}) /\ Insertable(PageAlloc(m, p), {p}, p)
         /\ PageAlloc(m, p).ptr = m.ptr /\ PageAlloc(m, p).wr = m.wr
         /\ PageAlloc(m, p).ref = m.ref /\ PageAlloc(m, p).pinned = m.pinned
         /\ PageAlloc(m, p).free = m.free \ {p}
         /\ m.ref[p] = 0 /\ p \notin m.pinned /\ p \in Page
         /\ \A h \in Holder : m.ptr[h] # p
<1> DEFINE n == PageAlloc(m, p)
<1>1. MemType(m) /\ Counted(m) /\ m.free = {x \in Page : m.ref[x] = 0} /\ m \in Memory
      /\ TablesPrivate(m) /\ TablesUnpinned(m) /\ Nested(m)
  BY DEF Sound, MemType
<1>2. m.free \ {p} \in SUBSET Page /\ p \in Page /\ m.ref[p] = 0
  BY <1>1, MemoryFields
<1>3. /\ n \in Memory /\ n.ptr = m.ptr /\ n.wr = m.wr /\ n.ref = m.ref
      /\ n.pinned = m.pinned /\ n.free = m.free \ {p}
  BY <1>1, <1>2, AllocReset DEF Memory
<1>4. Count(m, p) = 0 /\ Pin(m, p) = 0
  <2>1. Count(m, p) \in Nat /\ Pin(m, p) \in {0, 1} /\ m.ref[p] = Count(m, p) + Pin(m, p)
    BY <1>1, <1>2, CountBound DEF Counted
  <2>2. QED
    BY <1>2, <2>1
<1>5. p \notin m.pinned /\ \A h \in Holder : m.ptr[h] # p
  BY <1>4, CountZero DEF Count, Pin
<1>6. MemType(n) /\ Counted(n) /\ TablesPrivate(n) /\ TablesUnpinned(n) /\ Nested(n)
  BY <1>1, <1>3 DEF MemType, Counted, Count, Pin, TablesPrivate, TablesUnpinned, Nested
<1>7. n.free = {x \in Page : n.ref[x] = 0} \ {p}
  BY <1>1, <1>3
<1>8. QED
  BY <1>2, <1>3, <1>5, <1>6, <1>7, HolderKinds DEF Sound, Insertable

\* ... and in hand with one reference too many (region_alloc, sys_sbrk).
LEMMA PinSound ==
  ASSUME NEW m, Sound(m, {}), NEW p \in m.free
  PROVE  /\ Sound(AllocPinned(m, p), {p}) /\ Insertable(AllocPinned(m, p), {p}, p)
         /\ AllocPinned(m, p).ptr = m.ptr /\ AllocPinned(m, p).wr = m.wr
<1> DEFINE a == PageAlloc(m, p)
           n == AllocPinned(m, p)
<1>1. /\ Sound(a, {p}) /\ Insertable(a, {p}, p) /\ a.ptr = m.ptr /\ a.wr = m.wr
      /\ a.ref = m.ref /\ a.pinned = m.pinned /\ a.free = m.free \ {p} /\ m.ref[p] = 0
      /\ p \notin m.pinned /\ p \in Page /\ \A h \in Holder : m.ptr[h] # p
  BY AllocSound
<1> HIDE DEF a
<1>2. MemType(a) /\ Counted(a) /\ a.free = {x \in Page : a.ref[x] = 0} \ {p} /\ a \in Memory
      /\ TablesPrivate(a) /\ TablesUnpinned(a) /\ Nested(a)
  BY <1>1 DEF Sound, MemType
<1>3. Inc(a.ref[p]) = 1 /\ 1 \in 0 .. RefMax /\ Count(a, p) \in Nat
  <2>1. Inc(a.ref[p]) = a.ref[p] + 1 /\ a.ref[p] < RefMax /\ RefMax \in Nat /\ Count(a, p) \in Nat
    BY <1>1, <1>2, CountBound
  <2>2. QED
    BY <1>1, <2>1
<1>4. /\ [a.ref EXCEPT ![p] = 1] \in [Page -> 0 .. RefMax]
      /\ a.pinned \cup {p} \in SUBSET Page /\ a.ref \in [Page -> 0 .. RefMax]
  BY <1>1, <1>2, <1>3, MemoryFields
<1>5. n = [a EXCEPT !.ref = [a.ref EXCEPT ![p] = 1], !.pinned = a.pinned \cup {p}]
  BY <1>2, <1>3 DEF AllocPinned, Memory, a
<1>6. /\ n \in Memory /\ n.ptr = a.ptr /\ n.wr = a.wr /\ n.ref = [a.ref EXCEPT ![p] = 1]
      /\ n.pinned = a.pinned \cup {p} /\ n.free = a.free
  BY <1>2, <1>4, <1>5 DEF Memory
<1> HIDE DEF n
<1>7. MemType(n) /\ TablesPrivate(n) /\ Nested(n)
  BY <1>2, <1>6 DEF MemType, TablesPrivate, Nested
<1>8. TablesUnpinned(n)
  BY <1>1, <1>2, <1>6, HolderKinds DEF TablesUnpinned
<1>9. Counted(n)
  <2> SUFFICES ASSUME NEW x \in Page PROVE n.ref[x] = Count(n, x) + Pin(n, x)
    BY DEF Counted
  <2>1. Count(n, x) = Count(a, x) /\ a.ref[x] = Count(a, x) + Pin(a, x)
    BY <1>2, <1>6 DEF Count, Counted
  <2>2. CASE x = p
    <3>1. n.ref[x] = 1 /\ Pin(n, x) = 1 /\ Pin(a, x) = 0
      BY <1>1, <1>4, <1>6, <2>2 DEF Pin
    <3>2. Count(a, x) = 0
      BY <1>1, <1>3, <2>1, <2>2, <3>1
    <3>3. QED
      BY <2>1, <3>1, <3>2
  <2>3. CASE x # p
    BY <1>4, <1>6, <2>1, <2>3 DEF Pin
  <2>4. QED
    BY <2>2, <2>3
<1>10. n.free = {x \in Page : n.ref[x] = 0} \ {p}
  BY <1>2, <1>4, <1>6
<1>11. QED
  BY <1>1, <1>6, <1>7, <1>8, <1>9, <1>10 DEF Sound, Insertable, n

(* env_free.                                                               *)

LEMMA FreeSound ==
  ASSUME NEW m, Sound(m, {}), NEW e \in Env
  PROVE  /\ Sound(EnvFree(m, e), {})
         /\ \A h \in Holder : EnvFree(m, e).ptr[h] = IF h[2] = e THEN NoPage ELSE m.ptr[h]
         /\ EnvFree(m, e).wr = m.wr \ Owned(e)
<1> DEFINE n == EnvFree(m, e)
<1>1. MemType(m) /\ Counted(m) /\ m.free = {x \in Page : m.ref[x] = 0} /\ m \in Memory
      /\ TablesPrivate(m) /\ TablesUnpinned(m) /\ Nested(m)
  BY DEF Sound, MemType
<1>2. /\ m.ptr \in [Holder -> Page \cup {NoPage}] /\ m.wr \in SUBSET Ptes
      /\ m.ref \in [Page -> 0 .. RefMax] /\ m.free \in SUBSET Page
      /\ m.pinned \in SUBSET Page /\ \A x \in m.wr : m.ptr[x] # NoPage /\ x \in Holder
  BY <1>1, MemoryFields, HolderKinds DEF MemType
<1>3. NoPage \notin Page
  BY Kinds DEF Kinds
<1>4. ASSUME NEW x \in Page, NEW f,
             \A h \in Holder : f[h] = IF h[2] = e THEN NoPage ELSE m.ptr[h]
      PROVE  /\ Drops(m, e, x) \in Nat
             /\ Cardinality(Holders(f, x)) = Count(m, x) - Drops(m, e, x)
  <2> DEFINE D == Holders(m.ptr, x) \cap Owned(e)
  <2>1. IsFiniteSet(Holders(m.ptr, x))
    BY CountType
  <2>2. IsFiniteSet(D)
    BY <2>1, FS_Intersection
  <2>3. D = {h \in Owned(e) : m.ptr[h] = x}
    BY DEF Holders, Owned
  <2>4. Drops(m, e, x) \in Nat /\ Drops(m, e, x) = Cardinality(D)
    BY <2>2, <2>3, FS_CardinalityType DEF Drops
  <2>5. Holders(f, x) = Holders(m.ptr, x) \ Owned(e)
    BY <1>3, <1>4 DEF Holders, Owned
  <2>6. Cardinality(Holders(m.ptr, x) \ Owned(e)) = Cardinality(Holders(m.ptr, x)) - Cardinality(D)
    BY <2>1, FS_Difference
  <2>7. QED
    BY <2>4, <2>5, <2>6 DEF Count
<1> DEFINE f0 == [h \in Holder |-> IF h[2] = e THEN NoPage ELSE m.ptr[h]]
           r0 == [x \in Page |-> m.ref[x] - Drops(m, e, x)]
           l0 == m.free \cup {x \in Page : Drops(m, e, x) > 0 /\ m.ref[x] = Drops(m, e, x)}
<1>5. ASSUME NEW x \in Page
      PROVE  /\ Drops(m, e, x) \in Nat /\ Drops(m, e, x) <= Count(m, x)
             /\ Cardinality(Holders(f0, x)) = Count(m, x) - Drops(m, e, x)
             /\ m.ref[x] = Count(m, x) + Pin(m, x) /\ Count(m, x) \in Nat
             /\ Pin(m, x) \in {0, 1} /\ m.ref[x] - Drops(m, e, x) \in 0 .. RefMax
  <2>1. /\ Drops(m, e, x) \in Nat
        /\ Cardinality(Holders(f0, x)) = Count(m, x) - Drops(m, e, x)
    BY <1>4
  <2>2. Cardinality(Holders(f0, x)) \in Nat
    BY CountType
  <2>3. /\ m.ref[x] = Count(m, x) + Pin(m, x) /\ Count(m, x) \in Nat
        /\ Pin(m, x) \in {0, 1} /\ m.ref[x] < RefMax /\ RefMax \in Nat
    BY <1>1, CountBound DEF Counted
  <2>4. QED
    BY <2>1, <2>2, <2>3
<1>6. /\ f0 \in [Holder -> Page \cup {NoPage}] /\ r0 \in [Page -> 0 .. RefMax]
      /\ l0 \in SUBSET Page /\ m.wr \ Owned(e) \in SUBSET Ptes
  BY <1>2, <1>5
<1>7. n = [m EXCEPT !.ptr = f0, !.wr = m.wr \ Owned(e), !.ref = r0, !.free = l0]
  BY <1>1 DEF EnvFree, Memory
<1>8. /\ n \in Memory /\ n.ptr = f0 /\ n.wr = m.wr \ Owned(e) /\ n.ref = r0 /\ n.free = l0
      /\ n.pinned = m.pinned
  BY <1>1, <1>6, <1>7 DEF Memory
<1>9. \A h \in Holder : n.ptr[h] = IF h[2] = e THEN NoPage ELSE m.ptr[h]
  BY <1>8
<1>16. /\ \A x \in Page : n.ref[x] = m.ref[x] - Drops(m, e, x)
       /\ \A x \in Page : x \in n.free <=>
            m.ref[x] = 0 \/ (Drops(m, e, x) > 0 /\ m.ref[x] = Drops(m, e, x))
  BY <1>1, <1>8
<1> HIDE DEF n, f0, r0, l0
<1>10. MemType(n)
  BY <1>2, <1>8, <1>9 DEF MemType, Owned
<1>11. Counted(n)
  <2> SUFFICES ASSUME NEW x \in Page PROVE n.ref[x] = Count(n, x) + Pin(n, x)
    BY DEF Counted
  <2>1. n.ref[x] = m.ref[x] - Drops(m, e, x) /\ Pin(n, x) = Pin(m, x)
    BY <1>8, <1>16 DEF Pin
  <2>2. Count(n, x) = Count(m, x) - Drops(m, e, x)
    BY <1>5, <1>8 DEF Count
  <2>3. /\ Drops(m, e, x) \in Int /\ Count(m, x) \in Int /\ Pin(m, x) \in Int
        /\ m.ref[x] = Count(m, x) + Pin(m, x)
    BY <1>5
  <2>4. QED
    BY <2>1, <2>2, <2>3
<1>12. n.free = {x \in Page : n.ref[x] = 0} \ {}
  <2>1. ASSUME NEW x \in Page PROVE x \in n.free <=> n.ref[x] = 0
    <3>1. n.ref[x] = m.ref[x] - Drops(m, e, x)
      BY <1>16
    <3>2. x \in n.free <=> m.ref[x] = 0 \/ (Drops(m, e, x) > 0 /\ m.ref[x] = Drops(m, e, x))
      BY <1>16
    <3>3. Drops(m, e, x) \in Nat /\ m.ref[x] \in Int /\ m.ref[x] - Drops(m, e, x) >= 0
      BY <1>2, <1>5
    <3>4. QED
      BY <3>1, <3>2, <3>3
  <2>2. QED
    BY <1>6, <1>8, <2>1
<1>13. TablesPrivate(n) /\ TablesUnpinned(n)
  BY <1>1, <1>2, <1>3, <1>8, <1>9, HolderKinds DEF TablesPrivate, TablesUnpinned
<1>14. Nested(n)
  BY <1>1, <1>9, HolderKinds, HolderNames, Kinds DEF Nested, Kinds
<1>15. QED
  BY <1>8, <1>9, <1>10, <1>11, <1>12, <1>13, <1>14 DEF Sound, n

(* The invariant of the whole module.                                      *)

IInv == PageInv /\ LoadedInv /\ TlbFresh

\* An address space exists exactly for an allocated environment.
Spaces(m, st) == \A e \in Env : m.ptr[Dir(e)] = NoPage <=> st[e] = "free"

LEMMA Parts ==
  /\ PageInv <=> Sound(mem, {}) /\ Spaces(mem, stage)
  /\ PageInv' <=> Sound(mem', {}) /\ Spaces(mem', stage')
BY DEF PageInv, Sound, Spaces, FreeList

\* An edit of one mapping keeps every TLB right when only the editing CPU may
\* have the address space loaded.
LEMMA EditStep ==
  ASSUME IInv, NEW c \in CPU, NEW e \in Env, NEW v \in Va,
         \A d \in CPU : cur[d] = e => d = c,
         Sound(mem', {}), Edited(mem, mem', e, v), tlb' = TlbInvalidate(c, e, v),
         UNCHANGED <<cur, booted>>, stage' \in [Env -> Stages],
         \A x \in Env : stage'[x] = "free" <=> stage[x] = "free",
         \A x \in Env : stage[x] \in {"live", "dying"} => stage'[x] \in {"live", "dying"},
         parent' \in [Env -> Env \cup {Idle}], dstva' \in [Env -> Va \cup {NoVa}]
  PROVE  IInv'
<1>1. Spaces(mem', stage')
  BY Parts DEF IInv, Spaces, Edited
<1>2. LoadedInv'
  BY DEF IInv, LoadedInv
<1>3. tlb' \in [CPU -> [Va -> Entry]]
  BY DEF IInv, TlbFresh, TlbInvalidate, NoEntry, Entry
<1>4. ASSUME NEW d \in CPU, NEW u \in Va, tlb'[d][u].page # NoPage
      PROVE  /\ cur'[d] # Idle /\ mem'.ptr[Pte(cur'[d], u)] = tlb'[d][u].page
             /\ tlb'[d][u].w => Pte(cur'[d], u) \in mem'.wr
  <2>1. tlb'[d][u] = tlb[d][u] /\ ~ (d = c /\ u = v /\ cur[c] = e /\ mem.ptr[Pte(e, v)] # NoPage)
    BY <1>4 DEF IInv, TlbFresh, TlbInvalidate, NoEntry
  <2>2. /\ cur[d] # Idle /\ mem.ptr[Pte(cur[d], u)] = tlb[d][u].page
        /\ tlb[d][u].w => Pte(cur[d], u) \in mem.wr
    BY <1>4, <2>1 DEF IInv, TlbFresh
  <2>3. cur[d] \in Env
    BY <2>2 DEF IInv, LoadedInv
  <2>4. Pte(cur[d], u) # Pte(e, v)
    <3>1. ~ (cur[d] = e /\ u = v)
      BY <1>4, <2>1, <2>2
    <3>2. QED
      BY <3>1, HolderNames
  <2>5. Pte(cur[d], u) \in Ptes
    BY <2>3, HolderKinds
  <2>6. QED
    BY <2>1, <2>2, <2>4, <2>5 DEF Edited
<1>5. TlbFresh'
  BY <1>3, <1>4 DEF TlbFresh
<1>6. QED
  BY <1>1, <1>2, <1>5, Parts DEF IInv

\* A switch empties the TLB of its CPU and leaves what the others execute, and
\* what this one goes on executing.
Undisturbed(c) ==
  \A d \in CPU : cur[d] # Idle /\ (d # c \/ stage'[cur[d]] = "live") =>
     /\ stage'[cur[d]] = stage[cur[d]]
     /\ \A v \in Va : /\ mem'.ptr[Pte(cur[d], v)] = mem.ptr[Pte(cur[d], v)]
                      /\ Pte(cur[d], v) \in mem'.wr <=> Pte(cur[d], v) \in mem.wr

LEMMA SwitchStep ==
  ASSUME IInv, NEW c \in CPU, SchedYield(c, stage'), Undisturbed(c),
         Sound(mem', {}), Spaces(mem', stage'), booted' = booted, stage' \in [Env -> Stages],
         parent' \in [Env -> Env \cup {Idle}], dstva' \in [Env -> Va \cup {NoVa}]
  PROVE  IInv'
<1>1. PICK n \in Runnable(stage', c) \cup {Idle} :
        /\ cur' = [cur EXCEPT ![c] = n]
        /\ tlb' = IF n = cur[c] THEN tlb ELSE [tlb EXCEPT ![c] = Flushed]
  BY DEF SchedYield
<1>2. Flushed \in [Va -> Entry]
  BY DEF Flushed, NoEntry, Entry
<1>3. n # Idle => n \in Env /\ stage'[n] = "live" /\ \A o \in CPU \ {c} : cur[o] # n
  BY <1>1 DEF Runnable
<1>4. /\ cur \in [CPU -> Env \cup {Idle}]
      /\ \A d \in CPU : cur[d] # Idle => stage[cur[d]] \in {"live", "dying"}
      /\ \A d, o \in CPU : cur[d] = cur[o] /\ cur[d] # Idle => d = o
      /\ booted \in BOOLEAN
  BY DEF IInv, LoadedInv
<1>5. \A d \in CPU : cur'[d] = IF d = c THEN n ELSE cur[d]
  BY <1>1, <1>4
<1>6. cur' \in [CPU -> Env \cup {Idle}]
  BY <1>1, <1>3, <1>4
<1>7. LoadedInv'
  BY <1>3, <1>4, <1>5, <1>6 DEF LoadedInv, Undisturbed
<1>8. /\ tlb' \in [CPU -> [Va -> Entry]]
      /\ \A d \in CPU : tlb'[d] = IF d = c /\ n # cur[c] THEN Flushed ELSE tlb[d]
  BY <1>1, <1>2 DEF IInv, TlbFresh
<1>9. ASSUME NEW d \in CPU, NEW u \in Va, tlb'[d][u].page # NoPage
      PROVE  /\ cur'[d] # Idle /\ mem'.ptr[Pte(cur'[d], u)] = tlb'[d][u].page
             /\ tlb'[d][u].w => Pte(cur'[d], u) \in mem'.wr
  <2>1. d # c \/ n = cur[c]
    BY <1>8, <1>9 DEF Flushed, NoEntry
  <2>2. tlb'[d] = tlb[d] /\ cur'[d] = cur[d]
    BY <1>5, <1>8, <2>1
  <2>3. /\ cur[d] # Idle /\ mem.ptr[Pte(cur[d], u)] = tlb[d][u].page
        /\ tlb[d][u].w => Pte(cur[d], u) \in mem.wr
    BY <1>9, <2>2 DEF IInv, TlbFresh
  <2>4. d # c \/ stage'[cur[d]] = "live"
    BY <1>3, <2>1, <2>3
  <2>5. QED
    BY <2>2, <2>3, <2>4 DEF Undisturbed
<1>10. TlbFresh'
  BY <1>8, <1>9 DEF TlbFresh
<1>11. QED
  BY <1>7, <1>10, Parts DEF IInv

\* A step that switches nobody and edits no loaded address space.
LEMMA QuietStep ==
  ASSUME IInv, UNCHANGED <<cur, tlb>>, booted' \in BOOLEAN,
         Sound(mem', {}), Spaces(mem', stage'), stage' \in [Env -> Stages],
         parent' \in [Env -> Env \cup {Idle}], dstva' \in [Env -> Va \cup {NoVa}],
         \A d \in CPU : cur[d] # Idle =>
            /\ stage'[cur[d]] \in {"live", "dying"}
            /\ \A v \in Va : /\ mem'.ptr[Pte(cur[d], v)] = mem.ptr[Pte(cur[d], v)]
                             /\ Pte(cur[d], v) \in mem'.wr <=> Pte(cur[d], v) \in mem.wr
  PROVE  IInv'
<1>1. LoadedInv'
  BY DEF IInv, LoadedInv
<1>2. TlbFresh'
  BY DEF IInv, TlbFresh
<1>3. QED
  BY <1>1, <1>2, Parts DEF IInv

LEMMA Types ==
  ASSUME IInv
  PROVE  /\ stage \in [Env -> Stages] /\ parent \in [Env -> Env \cup {Idle}]
         /\ dstva \in [Env -> Va \cup {NoVa}] /\ booted \in BOOLEAN
         /\ cur \in [CPU -> Env \cup {Idle}]
         /\ \A d \in CPU : cur[d] # Idle => cur[d] \in Env /\ stage[cur[d]] \in {"live", "dying"}
         /\ \A d, o \in CPU : cur[d] = cur[o] /\ cur[d] # Idle => d = o
         /\ Sound(mem, {}) /\ Spaces(mem, stage) /\ mem \in Memory
BY Parts DEF IInv, LoadedInv, Sound, MemType

(* Who may edit an address space is the only one to have it loaded.         *)
LEMMA EditorAlone ==
  ASSUME IInv, AnyUse = FALSE, NEW c \in CPU, Calls(c), NEW e \in Env, MayEdit(c, e)
  PROVE  /\ mem.ptr[Dir(e)] # NoPage
         /\ \A d \in CPU : cur[d] = e => d = c
<1>1. stage[e] # "free"
  BY DEF Calls, MayEdit
<1>2. \A d \in CPU : cur[d] = e => d = c
  BY Types, Kinds DEF Calls, MayEdit, Kinds
<1>3. QED
  BY <1>1, <1>2, Types DEF Spaces

\* A mapped page may be mapped again.
LEMMA SharedInsertable ==
  ASSUME NEW m, Sound(m, {}), NEW h \in Ptes, m.ptr[h] # NoPage
  PROVE  Insertable(m, {}, m.ptr[h])
<1>1. MemType(m) /\ Counted(m) /\ m.free = {x \in Page : m.ref[x] = 0} /\ TablesPrivate(m)
  BY DEF Sound
<1>2. h \in Holder /\ h \notin Tables /\ m.ptr[h] \in Page
  BY <1>1, HolderKinds, TablesApart, MemoryFields DEF MemType
<1>3. m.ref[m.ptr[h]] # 0
  <2>1. Count(m, m.ptr[h]) # 0
    BY <1>2, CountZero DEF Count
  <2>2. QED
    BY <1>1, <1>2, <2>1, CountBound DEF Counted
<1>4. \A x \in Tables : m.ptr[x] # m.ptr[h]
  BY <1>1, <1>2 DEF TablesPrivate
<1>5. QED
  BY <1>1, <1>2, <1>3, <1>4 DEF Insertable

\* A mapping written from m, when m has the pointers of mem.
LEMMA InsertInv ==
  ASSUME IInv, AnyUse = FALSE, NEW c \in CPU, Calls(c), NEW e \in Env, MayEdit(c, e),
         NEW m, NEW X, Sound(m, X), m.ptr = mem.ptr, m.wr = mem.wr,
         NEW p, Insertable(m, X, p), NEW v \in Va, NEW w \in BOOLEAN,
         NEW t \in TableChoice(m, e, v), mem' = PageInsert(m, e, p, v, w, t),
         tlb' = TlbInvalidate(c, e, v), UNCHANGED <<stage, parent, dstva, cur, booted>>
  PROVE  IInv'
<1>1. mem.ptr[Dir(e)] # NoPage /\ \A d \in CPU : cur[d] = e => d = c
  BY EditorAlone
<1>2. Sound(mem', {}) /\ Edited(m, mem', e, v)
  BY <1>1, InsertSound
<1>3. Edited(mem, mem', e, v)
  BY <1>2 DEF Edited
<1>4. QED
  BY <1>1, <1>2, <1>3, Types, EditStep

(* The actions.                                                            *)

LEMMA AllocInv ==
  ASSUME IInv, AnyUse = FALSE, NEW c \in CPU, NEW e \in Env, NEW v \in Va,
         NEW w \in BOOLEAN, SysPageAlloc(c, e, v, w)
  PROVE  IInv'
<1>1. PICK p \in mem.free :
        \/ /\ \E t \in TableChoice(PageAlloc(mem, p), e, v) :
                 mem' = PageInsert(PageAlloc(mem, p), e, p, v, w, t)
           /\ tlb' = TlbInvalidate(c, e, v)
        \/ mem' = PageFree(PageAlloc(mem, p), p) /\ tlb' = tlb
  BY DEF SysPageAlloc
<1>2. Calls(c) /\ MayEdit(c, e) /\ UNCHANGED <<stage, parent, dstva, cur, booted>>
  BY DEF SysPageAlloc
<1> DEFINE m == PageAlloc(mem, p)
<1>3. Sound(m, {p}) /\ Insertable(m, {p}, p) /\ m.ptr = mem.ptr /\ m.wr = mem.wr
      /\ mem.ref[p] = 0 /\ p \in Page
  BY SMTT(20), Types, AllocSound
<1> HIDE DEF m
<1>4. CASE /\ \E t \in TableChoice(m, e, v) : mem' = PageInsert(m, e, p, v, w, t)
           /\ tlb' = TlbInvalidate(c, e, v)
  BY <1>2, <1>3, <1>4, InsertInv
<1>5. CASE mem' = PageFree(m, p) /\ tlb' = tlb
  <2>1. mem' = mem
    <3>1. mem \in Memory /\ (mem.free \ {p}) \cup {p} = mem.free
      BY Types
    <3>2. mem' = [mem EXCEPT !.free = (mem.free \ {p}) \cup {p}]
      <4>1. m = [mem EXCEPT !.free = mem.free \ {p}]
        BY <1>3, <3>1, AllocReset DEF m
      <4>2. QED
        BY <1>5, <3>1, <4>1 DEF PageFree, Memory
    <3>3. QED
      BY <3>1, <3>2 DEF Memory
  <2>2. QED
    BY <1>2, <1>5, <2>1, Types, QuietStep
<1>6. QED
  BY <1>1, <1>4, <1>5 DEF m

LEMMA MapInv ==
  ASSUME IInv, AnyUse = FALSE, NEW c \in CPU, NEW x \in Env, NEW y \in Va,
         NEW e \in Env, NEW v \in Va, NEW w \in BOOLEAN, SysPageMap(c, x, y, e, v, w)
  PROVE  IInv'
<1>1. /\ Calls(c) /\ MayEdit(c, e) /\ UNCHANGED <<stage, parent, dstva, cur, booted>>
      /\ mem.ptr[Pte(x, y)] # NoPage /\ tlb' = TlbInvalidate(c, e, v)
  BY DEF SysPageMap, MayShare
<1>2. PICK t \in TableChoice(mem, e, v) :
        mem' = PageInsert(mem, e, mem.ptr[Pte(x, y)], v, w, t)
  BY DEF SysPageMap
<1>3. Insertable(mem, {}, mem.ptr[Pte(x, y)])
  BY <1>1, Types, HolderKinds, SharedInsertable
<1>4. QED
  BY <1>1, <1>2, <1>3, Types, InsertInv

LEMMA UnmapInv ==
  ASSUME IInv, AnyUse = FALSE, NEW c \in CPU, NEW e \in Env, NEW v \in Va,
         SysPageUnmap(c, e, v)
  PROVE  IInv'
<1>1. /\ Calls(c) /\ MayEdit(c, e) /\ UNCHANGED <<stage, parent, dstva, cur, booted>>
      /\ mem' = PageRemove(mem, e, v) /\ tlb' = TlbInvalidate(c, e, v)
  BY DEF SysPageUnmap
<1>2. Sound(mem', {}) /\ Edited(mem, mem', e, v)
  BY <1>1, Types, RemoveSound
<1>3. \A d \in CPU : cur[d] = e => d = c
  BY <1>1, EditorAlone
<1>4. QED
  BY <1>1, <1>2, <1>3, Types, EditStep

LEMMA SbrkInv ==
  ASSUME IInv, AnyUse = FALSE, NEW c \in CPU, NEW v \in Va, SysSbrk(c, v)
  PROVE  IInv'
<1>1. Calls(c) /\ tlb' = TlbInvalidate(c, cur[c], v)
      /\ UNCHANGED <<stage, parent, dstva, cur, booted>>
  BY DEF SysSbrk
<1>2. PICK p \in mem.free : mem' \in RegionAlloc(mem, cur[c], p, v)
  BY DEF SysSbrk
<1> DEFINE m == AllocPinned(mem, p)
<1>3. PICK t \in TableChoice(m, cur[c], v) : mem' = PageInsert(m, cur[c], p, v, TRUE, t)
  BY <1>2 DEF RegionAlloc
<1>4. Sound(m, {p}) /\ Insertable(m, {p}, p) /\ m.ptr = mem.ptr /\ m.wr = mem.wr
  BY Types, PinSound
<1>5. cur[c] \in Env /\ MayEdit(c, cur[c])
  BY <1>1 DEF Calls, MayEdit
<1> HIDE DEF m
<1>6. QED
  BY <1>1, <1>3, <1>4, <1>5, InsertInv

LEMMA TouchInv ==
  ASSUME IInv, NEW c \in CPU, NEW v \in Va, Touch(c, v)
  PROVE  IInv'
<1> DEFINE h == Pte(cur[c], v)
           x == [page |-> mem.ptr[h], w |-> h \in mem.wr]
<1>1. /\ cur[c] \in Env /\ mem.ptr[h] # NoPage /\ tlb' = [tlb EXCEPT ![c][v] = x]
      /\ UNCHANGED <<mem, stage, parent, dstva, cur, booted>>
  BY DEF Touch
<1>2. h \in Holder
  BY <1>1, HolderKinds
<1>3. x \in Entry
  BY <1>2, Types, MemoryFields DEF Entry
<1>4. tlb \in [CPU -> [Va -> Entry]]
  BY DEF IInv, TlbFresh
<1>5. /\ tlb' \in [CPU -> [Va -> Entry]]
      /\ \A d \in CPU, u \in Va : tlb'[d][u] = IF d = c /\ u = v THEN x ELSE tlb[d][u]
  BY <1>1, <1>3, <1>4
<1>6. cur[c] # Idle
  BY <1>1, Kinds DEF Kinds
<1>10. x.page = mem.ptr[h] /\ (x.w <=> h \in mem.wr)
  OBVIOUS
<1> HIDE DEF x, h
<1>7. TlbFresh'
  <2>1. ASSUME NEW d \in CPU, NEW u \in Va, tlb'[d][u].page # NoPage
        PROVE  /\ cur[d] # Idle /\ mem.ptr[Pte(cur[d], u)] = tlb'[d][u].page
               /\ tlb'[d][u].w => Pte(cur[d], u) \in mem.wr
    <3>1. CASE d = c /\ u = v
      <4>1. tlb'[d][u].page = mem.ptr[h] /\ (tlb'[d][u].w => h \in mem.wr)
        BY <1>5, <1>10, <3>1
      <4>2. QED
        BY <1>6, <3>1, <4>1 DEF h
    <3>2. CASE ~ (d = c /\ u = v)
      <4>1. tlb'[d][u] = tlb[d][u]
        BY <1>5, <3>2
      <4>2. QED
        BY <2>1, <4>1 DEF IInv, TlbFresh
    <3>3. QED
      BY <3>1, <3>2
  <2>2. QED
    BY <1>1, <1>5, <2>1 DEF TlbFresh
<1>8. PageInv' /\ LoadedInv'
  <2>1. Sound(mem', {}) /\ Spaces(mem', stage')
    BY <1>1, Types
  <2>2. QED
    BY <1>1, <2>1, Parts DEF IInv, LoadedInv
<1>9. QED
  BY <1>7, <1>8 DEF IInv

LEMMA YieldInv ==
  ASSUME IInv, NEW c \in CPU, Yield(c)
  PROVE  IInv'
<1>1. SchedYield(c, stage') /\ UNCHANGED <<mem, stage, parent, dstva, booted>>
  BY DEF Yield
<1>2. Undisturbed(c)
  BY <1>1 DEF Undisturbed
<1>3. QED
  BY <1>1, <1>2, Types, SwitchStep

LEMMA RecvInv ==
  ASSUME IInv, NEW c \in CPU, NEW v \in Va \cup {NoVa}, SysIpcRecv(c, v)
  PROVE  IInv'
<1>1. /\ SchedYield(c, stage') /\ UNCHANGED <<mem, parent, booted>> /\ cur[c] \in Env
      /\ stage[cur[c]] = "live" /\ stage' = [stage EXCEPT ![cur[c]] = "waiting"]
      /\ dstva' = [dstva EXCEPT ![cur[c]] = v]
  BY DEF SysIpcRecv, Calls
<1>2. Undisturbed(c)
  BY <1>1, Types, Kinds DEF Undisturbed, Kinds
<1>3. /\ stage' \in [Env -> Stages] /\ parent' \in [Env -> Env \cup {Idle}]
      /\ dstva' \in [Env -> Va \cup {NoVa}]
  BY <1>1, Types DEF Stages
<1>4. Spaces(mem', stage')
  BY <1>1, Types DEF Spaces
<1>5. QED
  BY <1>1, <1>2, <1>3, <1>4, Types, SwitchStep

\* env_free gives up one address space and touches no other.
LEMMA ReleaseStep ==
  ASSUME IInv, NEW e \in Env, Release(e)
  PROVE  /\ Sound(mem', {}) /\ Spaces(mem', stage') /\ stage' \in [Env -> Stages]
         /\ parent' \in [Env -> Env \cup {Idle}] /\ dstva' \in [Env -> Va \cup {NoVa}]
         /\ \A x \in Env : x # e => stage'[x] = stage[x]
         /\ \A x \in Env, v \in Va : x # e =>
               /\ mem'.ptr[Pte(x, v)] = mem.ptr[Pte(x, v)]
               /\ Pte(x, v) \in mem'.wr <=> Pte(x, v) \in mem.wr
<1>1. /\ mem' = EnvFree(mem, e) /\ stage' = [stage EXCEPT ![e] = "free"]
      /\ parent' = [x \in Env |-> IF x = e \/ parent[x] = e THEN Idle ELSE parent[x]]
      /\ dstva' = [dstva EXCEPT ![e] = NoVa]
  BY DEF Release
<1>2. /\ Sound(mem', {}) /\ mem'.wr = mem.wr \ Owned(e)
      /\ \A h \in Holder : mem'.ptr[h] = IF h[2] = e THEN NoPage ELSE mem.ptr[h]
  BY <1>1, Types, FreeSound
<1>3. /\ stage' \in [Env -> Stages] /\ parent' \in [Env -> Env \cup {Idle}]
      /\ dstva' \in [Env -> Va \cup {NoVa}]
      /\ \A x \in Env : stage'[x] = IF x = e THEN "free" ELSE stage[x]
  BY <1>1, Types DEF Stages
<1>4. \A x \in Env : Dir(x) \in Holder /\ Dir(x)[2] = x
  BY HolderKinds, HolderNames
<1>5. Spaces(mem', stage')
  BY <1>2, <1>3, <1>4, Types DEF Spaces
<1>6. \A x \in Env, v \in Va : Pte(x, v) \in Holder /\ Pte(x, v)[2] = x
  BY HolderKinds, HolderNames
<1>7. ASSUME NEW x \in Env, NEW v \in Va, x # e
      PROVE  /\ mem'.ptr[Pte(x, v)] = mem.ptr[Pte(x, v)]
             /\ Pte(x, v) \in mem'.wr <=> Pte(x, v) \in mem.wr
  BY <1>2, <1>6, <1>7 DEF Owned
<1>8. QED
  BY <1>2, <1>3, <1>5, <1>7

LEMMA ReapInv ==
  ASSUME IInv, NEW c \in CPU, Reap(c)
  PROVE  IInv'
<1>1. cur[c] \in Env /\ Release(cur[c]) /\ SchedYield(c, stage') /\ booted' = booted
  BY DEF Reap
<1>2. stage'[cur[c]] = "free"
  BY <1>1, Types DEF Release
<1>3. \A d \in CPU : cur[d] # Idle /\ (d # c \/ stage'[cur[d]] = "live") =>
         cur[d] \in Env /\ cur[d] # cur[c]
  BY <1>2, Types
<1>4. Undisturbed(c)
  BY <1>1, <1>3, ReleaseStep DEF Undisturbed
<1>5. QED
  BY <1>1, <1>4, ReleaseStep, Types, SwitchStep

LEMMA DestroyInv ==
  ASSUME IInv, NEW c \in CPU, NEW e \in Env, SysEnvDestroy(c, e)
  PROVE  IInv'
<1>1. Calls(c) /\ booted' = booted /\ stage[e] # "dying" /\ (e = cur[c] \/ parent[e] = cur[c])
  BY DEF SysEnvDestroy
<1>2. CASE e = cur[c]
  <2>1. Release(e) /\ SchedYield(c, stage')
    BY <1>2 DEF SysEnvDestroy
  <2>2. stage'[cur[c]] = "free"
    BY <1>2, <2>1, Types DEF Release
  <2>3. \A d \in CPU : cur[d] # Idle /\ (d # c \/ stage'[cur[d]] = "live") =>
           cur[d] \in Env /\ cur[d] # e
    BY <1>2, <2>2, Types
  <2>4. Undisturbed(c)
    BY <1>2, <2>1, <2>3, ReleaseStep DEF Undisturbed
  <2>5. QED
    BY <1>1, <2>1, <2>4, ReleaseStep, Types, SwitchStep
<1>3. CASE e # cur[c] /\ \E o \in CPU : cur[o] = e
  <2>1. stage' = [stage EXCEPT ![e] = "dying"] /\ UNCHANGED <<mem, parent, dstva, cur, tlb>>
    BY <1>3 DEF SysEnvDestroy
  <2>2. stage[e] # "free" /\ e # Idle
    BY <1>3, Types, Kinds DEF Kinds
  <2>3. stage' \in [Env -> Stages] /\ \A x \in Env : stage'[x] = IF x = e THEN "dying" ELSE stage[x]
    BY <2>1, Types DEF Stages
  <2>4. Spaces(mem', stage')
    BY <2>1, <2>2, <2>3, Types DEF Spaces
  <2>5. QED
    BY <1>1, <2>1, <2>3, <2>4, Types, QuietStep
<1>4. CASE e # cur[c] /\ ~ \E o \in CPU : cur[o] = e
  <2>1. Release(e) /\ UNCHANGED <<cur, tlb>>
    BY <1>4 DEF SysEnvDestroy
  <2>2. \A d \in CPU : cur[d] # Idle =>
            /\ stage'[cur[d]] \in {"live", "dying"}
            /\ \A v \in Va : /\ mem'.ptr[Pte(cur[d], v)] = mem.ptr[Pte(cur[d], v)]
                             /\ Pte(cur[d], v) \in mem'.wr <=> Pte(cur[d], v) \in mem.wr
    BY <1>4, <2>1, ReleaseStep, Types
  <2>3. QED
    BY <1>1, <2>1, <2>2, ReleaseStep, Types, QuietStep
<1>5. QED
  BY <1>2, <1>3, <1>4

\* env_setup_vm gives a free slot its directory.
SetUp(n, e, p) ==
  /\ Sound(n, {}) /\ n.wr = mem.wr /\ n.free = mem.free \ {p} /\ p # NoPage
  /\ \A h \in Holder : n.ptr[h] = IF h = Dir(e) THEN p ELSE mem.ptr[h]

LEMMA SetupStep ==
  ASSUME IInv, NEW e \in Env, stage[e] = "free", NEW p \in mem.free
  PROVE  SetUp(EnvSetupVm(mem, e, p), e, p)
<1> DEFINE n == EnvSetupVm(mem, e, p)
<1>1. mem.ptr[Dir(e)] = NoPage /\ Dir(e) \in Tables /\ Dir(e) \in Holder
  BY Types, HolderKinds DEF Spaces
<1>2. Rooted(mem, Dir(e))
  BY HolderNames DEF Rooted
<1>3. Sound(n, {}) /\ TableAdded(mem, n, Dir(e), p)
  BY <1>1, <1>2, Types, TableSound DEF EnvSetupVm
<1>4. mem.ptr \in [Holder -> Page \cup {NoPage}] /\ p # NoPage
  BY Types, MemoryFields, Kinds DEF Kinds
<1> HIDE DEF n
<1>5. SetUp(n, e, p)
  BY <1>1, <1>3, <1>4 DEF TableAdded, SetUp
<1>6. QED
  BY <1>5 DEF n

LEMMA CreateInv ==
  ASSUME IInv, NEW e \in Env, EnvCreate(e)
  PROVE  IInv'
<1>1. /\ stage[e] = "free" /\ stage' = [stage EXCEPT ![e] = "live"]
      /\ UNCHANGED <<parent, dstva, cur, tlb, booted>>
  BY DEF EnvCreate
<1>15. PICK p \in mem.free : \E q \in mem.free \ {p} :
        mem' \in RegionAlloc(EnvSetupVm(mem, e, p), e, q, ImageVa)
  BY DEF EnvCreate
<1>2. PICK q \in mem.free \ {p} : mem' \in RegionAlloc(EnvSetupVm(mem, e, p), e, q, ImageVa)
  BY <1>15
<1> DEFINE m == EnvSetupVm(mem, e, p)
           r == AllocPinned(m, q)
<1>3. /\ Sound(m, {}) /\ m.free = mem.free \ {p} /\ m.wr = mem.wr /\ p # NoPage
      /\ \A h \in Holder : m.ptr[h] = IF h = Dir(e) THEN p ELSE mem.ptr[h]
  <2>1. SetUp(m, e, p)
    BY <1>1, SetupStep
  <2>2. QED
    BY <2>1 DEF SetUp
<1>4. PICK t \in TableChoice(r, e, ImageVa) : mem' = PageInsert(r, e, q, ImageVa, TRUE, t)
  BY <1>2 DEF RegionAlloc
<1> HIDE DEF m
<1>5. Sound(r, {q}) /\ Insertable(r, {q}, q) /\ r.ptr = m.ptr /\ r.wr = m.wr
  BY <1>2, <1>3, PinSound
<1> HIDE DEF r
<1>6. r.ptr[Dir(e)] # NoPage /\ ImageVa \in Va
  BY <1>3, <1>5, HolderKinds, Kinds DEF Kinds
<1>7. Sound(mem', {}) /\ Edited(r, mem', e, ImageVa)
  BY <1>4, <1>5, <1>6, InsertSound
<1>8. /\ stage' \in [Env -> Stages]
      /\ \A x \in Env : stage'[x] = IF x = e THEN "live" ELSE stage[x]
  BY <1>1, Types DEF Stages
<1>9. \A x \in Env : mem'.ptr[Dir(x)] = IF x = e THEN p ELSE mem.ptr[Dir(x)]
  BY <1>3, <1>5, <1>7, HolderKinds, HolderNames DEF Edited
<1>10. Spaces(mem', stage')
  BY <1>3, <1>8, <1>9, Types DEF Spaces
<1>11. ASSUME NEW x \in Env, x # e, NEW v \in Va
       PROVE  /\ mem'.ptr[Pte(x, v)] = mem.ptr[Pte(x, v)]
              /\ Pte(x, v) \in mem'.wr <=> Pte(x, v) \in mem.wr
  <2>1. Pte(x, v) \in Ptes /\ Pte(x, v) \in Holder /\ Pte(x, v) # Dir(e)
        /\ Pte(x, v) # Pte(e, ImageVa)
    BY <1>11, HolderKinds, HolderNames
  <2>2. QED
    BY <1>3, <1>5, <1>7, <2>1 DEF Edited
<1>12. \A d \in CPU : cur[d] # Idle => cur[d] \in Env /\ cur[d] # e
  BY <1>1, Types
<1>13. \A d \in CPU : cur[d] # Idle =>
            /\ stage'[cur[d]] \in {"live", "dying"}
            /\ \A v \in Va : /\ mem'.ptr[Pte(cur[d], v)] = mem.ptr[Pte(cur[d], v)]
                             /\ Pte(cur[d], v) \in mem'.wr <=> Pte(cur[d], v) \in mem.wr
  BY <1>8, <1>11, <1>12, Types
<1>14. QED
  BY <1>1, <1>7, <1>8, <1>10, <1>13, Types, QuietStep

LEMMA ExoforkInv ==
  ASSUME IInv, NEW c \in CPU, NEW e \in Env, SysExofork(c, e)
  PROVE  IInv'
<1>1. /\ stage[e] = "free" /\ stage' = [stage EXCEPT ![e] = "embryo"] /\ cur[c] \in Env
      /\ parent' = [parent EXCEPT ![e] = cur[c]] /\ UNCHANGED <<dstva, cur, tlb, booted>>
  BY DEF SysExofork, Calls
<1>2. PICK p \in mem.free : mem' = EnvSetupVm(mem, e, p)
  BY DEF SysExofork
<1>3. /\ Sound(mem', {}) /\ mem'.wr = mem.wr /\ p # NoPage
      /\ \A h \in Holder : mem'.ptr[h] = IF h = Dir(e) THEN p ELSE mem.ptr[h]
  <2>1. SetUp(mem', e, p)
    BY <1>1, <1>2, SetupStep
  <2>2. QED
    BY <2>1 DEF SetUp
<1>4. /\ stage' \in [Env -> Stages] /\ parent' \in [Env -> Env \cup {Idle}]
      /\ \A x \in Env : stage'[x] = IF x = e THEN "embryo" ELSE stage[x]
  BY <1>1, Types DEF Stages
<1>5. \A x \in Env : mem'.ptr[Dir(x)] = IF x = e THEN p ELSE mem.ptr[Dir(x)]
  BY <1>3, HolderKinds, HolderNames
<1>6. Spaces(mem', stage')
  BY <1>3, <1>4, <1>5, Types DEF Spaces
<1>7. \A x \in Env, v \in Va : mem'.ptr[Pte(x, v)] = mem.ptr[Pte(x, v)]
  BY <1>3, HolderKinds, HolderNames
<1>8. \A d \in CPU : cur[d] # Idle =>
            /\ stage'[cur[d]] \in {"live", "dying"}
            /\ \A v \in Va : /\ mem'.ptr[Pte(cur[d], v)] = mem.ptr[Pte(cur[d], v)]
                             /\ Pte(cur[d], v) \in mem'.wr <=> Pte(cur[d], v) \in mem.wr
  BY <1>1, <1>3, <1>4, <1>7, Types
<1>9. QED
  BY <1>1, <1>3, <1>4, <1>6, <1>8, Types, QuietStep

LEMMA SetStatusInv ==
  ASSUME IInv, NEW c \in CPU, NEW e \in Env, SysEnvSetStatus(c, e)
  PROVE  IInv'
<1>1. /\ stage[e] = "embryo" /\ stage' = [stage EXCEPT ![e] = "live"]
      /\ UNCHANGED <<mem, parent, dstva, cur, tlb, booted>>
  BY DEF SysEnvSetStatus
<1>2. /\ stage' \in [Env -> Stages]
      /\ \A x \in Env : stage'[x] = IF x = e THEN "live" ELSE stage[x]
  BY <1>1, Types DEF Stages
<1>3. Spaces(mem', stage')
  BY <1>1, <1>2, Types DEF Spaces
<1>4. QED
  BY <1>1, <1>2, <1>3, Types, QuietStep

LEMMA SendInv ==
  ASSUME IInv, NEW c \in CPU, NEW e \in Env, NEW y \in Va \cup {NoVa},
         NEW w \in BOOLEAN, SysIpcTrySend(c, e, y, w)
  PROVE  IInv'
<1>1. /\ stage[e] = "waiting" /\ stage' = [stage EXCEPT ![e] = "live"]
      /\ dstva' = [dstva EXCEPT ![e] = NoVa] /\ UNCHANGED <<parent, cur, tlb, booted>>
      /\ cur[c] \in Env
      /\ y # NoVa => MayShare(Pte(cur[c], y), w)
  BY DEF SysIpcTrySend, Calls
<1>2. /\ stage' \in [Env -> Stages] /\ dstva' \in [Env -> Va \cup {NoVa}]
      /\ \A x \in Env : stage'[x] = IF x = e THEN "live" ELSE stage[x]
  BY <1>1, Types DEF Stages
<1>3. \A d \in CPU : cur[d] # e
  BY <1>1, Types, Kinds DEF Kinds
<1>4. CASE y # NoVa /\ dstva[e] # NoVa
  <2> DEFINE v == dstva[e]
  <2>1. PICK t \in TableChoice(mem, e, v) :
          mem' = PageInsert(mem, e, mem.ptr[Pte(cur[c], y)], v, w, t)
    BY <1>4 DEF SysIpcTrySend
  <2>2. Pte(cur[c], y) \in Ptes /\ mem.ptr[Pte(cur[c], y)] # NoPage
    BY <1>1, <1>4, HolderKinds DEF MayShare
  <2>3. Insertable(mem, {}, mem.ptr[Pte(cur[c], y)])
    BY <2>2, Types, SharedInsertable
  <2>4. mem.ptr[Dir(e)] # NoPage /\ v \in Va
    BY <1>1, <1>4, Types DEF Spaces
  <2>5. Sound(mem', {}) /\ Edited(mem, mem', e, v)
    BY <2>1, <2>3, <2>4, Types, InsertSound
  <2>6. tlb' = TlbInvalidate(c, e, v)
    BY <1>1, <1>3 DEF TlbInvalidate
  <2>7. /\ \A x \in Env : stage'[x] = "free" <=> stage[x] = "free"
        /\ \A x \in Env : stage[x] \in {"live", "dying"} => stage'[x] \in {"live", "dying"}
    BY <1>1, <1>2
  <2> HIDE DEF v
  <2>8. QED
    BY <1>1, <1>2, <1>3, <2>4, <2>5, <2>6, <2>7, Types, EditStep
<1>5. CASE ~ (y # NoVa /\ dstva[e] # NoVa)
  <2>1. mem' = mem
    BY <1>5 DEF SysIpcTrySend
  <2>2. Sound(mem', {}) /\ Spaces(mem', stage')
    BY <1>1, <1>2, <2>1, Types DEF Spaces
  <2>3. QED
    BY <1>1, <1>2, <2>1, <2>2, Types, QuietStep
<1>6. QED
  BY <1>4, <1>5

LEMMA BootInv ==
  ASSUME IInv, BootAps
  PROVE  IInv'
BY Types, QuietStep DEF BootAps

LEMMA InitInv == Init => IInv
<1> SUFFICES ASSUME Init PROVE IInv
  OBVIOUS
<1>1. /\ mem = [ptr |-> [h \in Holder |-> NoPage], wr |-> {}, ref |-> [p \in Page |-> 0],
                free |-> Page, pinned |-> {}]
      /\ stage = [e \in Env |-> "free"] /\ parent = [e \in Env |-> Idle]
      /\ dstva = [e \in Env |-> NoVa] /\ cur = [c \in CPU |-> Idle]
      /\ tlb = [c \in CPU |-> Flushed] /\ booted = FALSE
  BY DEF Init
<1>2. RefMax \in Nat
  BY RefWide DEF RefWide
<1>3. MemType(mem)
  BY <1>1, <1>2 DEF MemType, Memory
<1>4. NoPage \notin Page
  BY Kinds DEF Kinds
<1>5. Counted(mem)
  <2> SUFFICES ASSUME NEW p \in Page PROVE mem.ref[p] = Count(mem, p) + Pin(mem, p)
    BY DEF Counted
  <2>1. \A h \in Holder : mem.ptr[h] # p
    BY <1>1, <1>4
  <2>2. Count(mem, p) = 0
    BY <2>1, CountZero DEF Count
  <2>3. QED
    BY <1>1, <2>2 DEF Pin
<1>6. mem.free = {p \in Page : mem.ref[p] = 0} \ {}
  BY <1>1
<1>7. TablesPrivate(mem) /\ TablesUnpinned(mem) /\ Nested(mem)
  BY <1>1, HolderKinds DEF TablesPrivate, TablesUnpinned, Nested
<1>8. Sound(mem, {}) /\ Spaces(mem, stage)
  BY <1>1, <1>3, <1>5, <1>6, <1>7, HolderKinds DEF Sound, Spaces
<1>9. LoadedInv
  BY <1>1 DEF LoadedInv, Stages
<1>10. TlbFresh
  BY <1>1 DEF TlbFresh, Flushed, NoEntry, Entry
<1>11. QED
  BY <1>8, <1>9, <1>10, Parts DEF IInv

LEMMA NextInv == AnyUse = FALSE /\ IInv /\ [Next]_vars => IInv'
<1> SUFFICES ASSUME AnyUse = FALSE, IInv, [Next]_vars PROVE IInv'
  OBVIOUS
<1>1. CASE UNCHANGED vars
  <2>1. UNCHANGED <<mem, stage, parent, dstva, cur, tlb, booted>>
    BY <1>1 DEF vars
  <2>2. Sound(mem', {}) /\ Spaces(mem', stage')
    BY <2>1, Types
  <2>3. QED
    BY <2>1, <2>2, Types, QuietStep
<1>2. ASSUME NEW c \in CPU, Edits(c) PROVE IInv'
  BY <1>2, AllocInv, UnmapInv, MapInv DEF Edits
<1>3. CASE Next
  BY <1>2, <1>3, CreateInv, BootInv, YieldInv, ReapInv, TouchInv, SbrkInv, RecvInv,
     ExoforkInv, SetStatusInv, DestroyInv, SendInv DEF Next
<1>4. QED
  BY <1>1, <1>3

(* Write permission.  A step may make a page writable only where it was      *)
(* writable already, or when page_alloc has just handed it out.              *)

\* Whatever n lets somebody write was writable in m, or free.
Granted(m, n) == \A h \in n.wr : Writable(m, n.ptr[h]) \/ n.ptr[h] \in m.free

LEMMA FreeUnmapped ==
  ASSUME NEW m, Sound(m, {}), NEW p \in m.free
  PROVE  p \in Page /\ Count(m, p) = 0
<1>1. p \in Page /\ m.ref[p] = 0
  BY DEF Sound
<1>2. Count(m, p) \in Nat /\ Pin(m, p) \in {0, 1} /\ m.ref[p] = Count(m, p) + Pin(m, p)
  BY <1>1, CountBound DEF Sound, MemType, Counted
<1>3. QED
  BY <1>1, <1>2

LEMMA MapPlaces ==
  ASSUME NEW m, NEW X, Sound(m, X), NEW p, Insertable(m, X, p),
         NEW e \in Env, NEW v \in Va, NEW w \in BOOLEAN, NEW n, n = MapPage(m, e, p, v, w)
  PROVE  /\ n.ptr[Pte(e, v)] = p
         /\ Pte(e, v) \in n.wr => w
<1>1. Mapped(m, n, e, p, v, w)
  BY MapEffect
<1>2. Pte(e, v) \in Holder /\ m.ptr \in [Holder -> Page \cup {NoPage}]
  BY HolderKinds, MemoryFields DEF Sound, MemType
<1>3. QED
  BY <1>1, <1>2 DEF Mapped

\* page_insert grants what it is asked for on the page it maps, and no more.
LEMMA InsertGrants ==
  ASSUME NEW m, NEW X, Sound(m, X), NEW p, Insertable(m, X, p),
         NEW e \in Env, m.ptr[Dir(e)] # NoPage, NEW v \in Va, NEW w \in BOOLEAN,
         NEW t \in TableChoice(m, e, v), NEW n, n = PageInsert(m, e, p, v, w, t)
  PROVE  \A h \in n.wr : (h \in m.wr /\ n.ptr[h] = m.ptr[h]) \/ (w /\ n.ptr[h] = p)
<1> DEFINE walked == PgdirWalk(m, e, v, t)
           h == Tab(e, PDX[v])
<1>1. /\ m.ptr \in [Holder -> Page \cup {NoPage}] /\ m.free \in SUBSET Page
      /\ NoPage \notin Page
  BY MemoryFields, Kinds DEF Sound, MemType, Kinds
<1>2. h \in Tables /\ h \in Holder
  BY HolderKinds, Kinds DEF Kinds
<1>3. n = MapPage(walked, e, p, v, w)
  BY DEF PageInsert, MapPage
<1>4. Sound(n, {}) /\ Edited(m, n, e, v)
  BY InsertSound
<1>5. n.ptr[Pte(e, v)] = p /\ (Pte(e, v) \in n.wr => w)
  <2>1. CASE HasTable(m, e, v)
    <3>1. walked = m
      BY <2>1 DEF TableChoice, PgdirWalk
    <3>2. QED
      BY <1>3, <3>1, MapPlaces
  <2>2. CASE ~HasTable(m, e, v)
    <3>1. t \in m.free /\ t # NoPage /\ m.ptr[h] = NoPage
      BY <1>1, <2>2 DEF TableChoice, HasTable
    <3>2. walked = NewTable(m, h, t)
      BY <3>1 DEF PgdirWalk
    <3>3. Rooted(m, h)
      BY HolderNames DEF Rooted
    <3> HIDE DEF walked, h
    <3>4. /\ Sound(walked, X) /\ walked.ptr = [m.ptr EXCEPT ![h] = t]
          /\ walked.free = m.free \ {t}
      BY <1>2, <3>1, <3>2, <3>3, TableSound DEF TableAdded
    <3>5. \A x \in Holder : walked.ptr[x] = IF x = h THEN t ELSE m.ptr[x]
      BY <1>1, <1>2, <3>4
    <3>6. Insertable(walked, X, p)
      BY <3>1, <3>4, <3>5, HolderKinds DEF Insertable
    <3>7. QED
      BY <1>3, <3>4, <3>6, MapPlaces
  <2>3. QED
    BY <2>1, <2>2
<1>6. n.wr \subseteq Ptes
  BY <1>4, MemoryFields DEF Sound, MemType
<1>7. QED
  BY <1>4, <1>5, <1>6 DEF Edited

\* page_remove grants nothing.
LEMMA RemoveGrants ==
  ASSUME NEW m, Sound(m, {}), NEW e \in Env, NEW v \in Va
  PROVE  Granted(m, PageRemove(m, e, v))
<1> DEFINE h == Pte(e, v)
<1>1. PICK n : n = PageRemove(m, e, v)
  OBVIOUS
<1>2. Sound(n, {}) /\ Edited(m, n, e, v) /\ n.wr \subseteq Ptes
  <2>1. Sound(n, {}) /\ Edited(m, n, e, v)
    BY <1>1, RemoveSound
  <2>2. QED
    BY <2>1, MemoryFields DEF Sound, MemType
<1>3. h \notin n.wr
  <2>1. CASE m.ptr[h] = NoPage
    BY <1>1, <1>2, <2>1 DEF PageRemove, Sound, MemType
  <2>2. CASE m.ptr[h] # NoPage
    <3>1. n = [PageDecref(m, m.ptr[h]) EXCEPT !.ptr[h] = NoPage, !.wr = @ \ {h}]
      BY <1>1, <2>2 DEF PageRemove
    <3>2. "wr" \in DOMAIN PageDecref(m, m.ptr[h])
      BY DEF PageDecref, PageFree, Sound, MemType, Memory
    <3>3. n.wr = PageDecref(m, m.ptr[h]).wr \ {h}
      BY <3>1, <3>2
    <3>4. QED
      BY <3>3
  <2>3. QED
    BY <2>1, <2>2
<1>4. \A x \in n.wr : x \in m.wr /\ n.ptr[x] = m.ptr[x]
  BY <1>2, <1>3 DEF Edited
<1>5. QED
  BY <1>1, <1>4 DEF Granted, Writable

\* A page taken from the list and mapped was free.
LEMMA FreshGrants ==
  ASSUME NEW m, NEW X, Sound(m, X), NEW p, Insertable(m, X, p), m.wr = mem.wr,
         \A h \in m.wr : m.ptr[h] = mem.ptr[h], p \in mem.free,
         NEW e \in Env, m.ptr[Dir(e)] # NoPage, NEW v \in Va, NEW w \in BOOLEAN,
         NEW t \in TableChoice(m, e, v), mem' = PageInsert(m, e, p, v, w, t)
  PROVE  Granted(mem, mem')
<1>1. \A h \in mem'.wr : (h \in m.wr /\ mem'.ptr[h] = m.ptr[h]) \/ (w /\ mem'.ptr[h] = p)
  BY InsertGrants
<1>2. QED
  BY <1>1 DEF Granted, Writable

\* A mapping made from another one is writable only if that one is.
LEMMA SharedGrants ==
  ASSUME IInv, NEW h \in Ptes, NEW w \in BOOLEAN, MayShare(h, w),
         NEW e \in Env, mem.ptr[Dir(e)] # NoPage, NEW v \in Va,
         NEW t \in TableChoice(mem, e, v), mem' = PageInsert(mem, e, mem.ptr[h], v, w, t)
  PROVE  Granted(mem, mem')
<1>1. Insertable(mem, {}, mem.ptr[h])
  BY Types, SharedInsertable DEF MayShare
<1>2. \A x \in mem'.wr : (x \in mem.wr /\ mem'.ptr[x] = mem.ptr[x])
                         \/ (w /\ mem'.ptr[x] = mem.ptr[h])
  BY <1>1, Types, InsertGrants
<1>3. QED
  BY <1>2 DEF MayShare, Granted, Writable

\* A step that adds no mapping, or a page table only, grants nothing.
LEMMA SameGrants ==
  ASSUME mem'.wr \subseteq mem.wr, \A h \in mem'.wr : mem'.ptr[h] = mem.ptr[h]
  PROVE  Granted(mem, mem')
BY DEF Granted, Writable

LEMMA AllocGrants ==
  ASSUME IInv, AnyUse = FALSE, NEW c \in CPU, NEW e \in Env, NEW v \in Va,
         NEW w \in BOOLEAN, SysPageAlloc(c, e, v, w)
  PROVE  Granted(mem, mem')
<1>1. PICK p \in mem.free :
        \/ \E t \in TableChoice(PageAlloc(mem, p), e, v) :
              mem' = PageInsert(PageAlloc(mem, p), e, p, v, w, t)
        \/ mem' = PageFree(PageAlloc(mem, p), p)
  BY DEF SysPageAlloc
<1>2. mem.ptr[Dir(e)] # NoPage
  BY EditorAlone DEF SysPageAlloc
<1> DEFINE m == PageAlloc(mem, p)
<1>3. Sound(m, {p}) /\ Insertable(m, {p}, p) /\ m.ptr = mem.ptr /\ m.wr = mem.wr
  BY Types, AllocSound
<1>4. CASE \E t \in TableChoice(m, e, v) : mem' = PageInsert(m, e, p, v, w, t)
  <2> HIDE DEF m
  <2>1. QED
    BY <1>2, <1>3, <1>4, FreshGrants
<1>5. CASE mem' = PageFree(m, p)
  <2>1. "free" \in DOMAIN m /\ mem' = [m EXCEPT !.free = @ \cup {p}]
    BY <1>5, Types DEF PageFree, PageAlloc, Memory
  <2> HIDE DEF m
  <2>2. mem'.ptr = m.ptr /\ mem'.wr = m.wr
    BY <2>1
  <2>3. QED
    BY <1>3, <2>2, SameGrants
<1>6. QED
  BY <1>1, <1>4, <1>5

LEMMA SbrkGrants ==
  ASSUME IInv, AnyUse = FALSE, NEW c \in CPU, NEW v \in Va, SysSbrk(c, v)
  PROVE  Granted(mem, mem')
<1>1. Calls(c) /\ cur[c] \in Env /\ MayEdit(c, cur[c])
  BY DEF SysSbrk, Calls, MayEdit
<1>2. PICK p \in mem.free : mem' \in RegionAlloc(mem, cur[c], p, v)
  BY DEF SysSbrk
<1> DEFINE m == AllocPinned(mem, p)
<1>3. PICK t \in TableChoice(m, cur[c], v) : mem' = PageInsert(m, cur[c], p, v, TRUE, t)
  BY <1>2 DEF RegionAlloc
<1>4. Sound(m, {p}) /\ Insertable(m, {p}, p) /\ m.ptr = mem.ptr /\ m.wr = mem.wr
  BY Types, PinSound
<1>5. m.ptr[Dir(cur[c])] # NoPage
  BY <1>1, <1>4, EditorAlone
<1> HIDE DEF m
<1>6. QED
  BY <1>1, <1>3, <1>4, <1>5, FreshGrants

LEMMA CreateGrants ==
  ASSUME IInv, NEW e \in Env, EnvCreate(e)
  PROVE  Granted(mem, mem')
<1>1. stage[e] = "free"
  BY DEF EnvCreate
<1>2. PICK p \in mem.free : \E q \in mem.free \ {p} :
        mem' \in RegionAlloc(EnvSetupVm(mem, e, p), e, q, ImageVa)
  BY DEF EnvCreate
<1>3. PICK q \in mem.free \ {p} : mem' \in RegionAlloc(EnvSetupVm(mem, e, p), e, q, ImageVa)
  BY <1>2
<1> DEFINE m == EnvSetupVm(mem, e, p)
           r == AllocPinned(m, q)
<1>4. /\ Sound(m, {}) /\ m.free = mem.free \ {p} /\ m.wr = mem.wr /\ p # NoPage
      /\ \A h \in Holder : m.ptr[h] = IF h = Dir(e) THEN p ELSE mem.ptr[h]
  <2>1. SetUp(m, e, p)
    BY <1>1, SetupStep
  <2>2. QED
    BY <2>1 DEF SetUp
<1>5. PICK t \in TableChoice(r, e, ImageVa) : mem' = PageInsert(r, e, q, ImageVa, TRUE, t)
  BY <1>3 DEF RegionAlloc
<1> HIDE DEF m
<1>6. Sound(r, {q}) /\ Insertable(r, {q}, q) /\ r.ptr = m.ptr /\ r.wr = m.wr
  BY <1>3, <1>4, PinSound
<1> HIDE DEF r
<1>7. r.ptr[Dir(e)] # NoPage /\ ImageVa \in Va
  BY <1>4, <1>6, HolderKinds, Kinds DEF Kinds
<1>8. \A h \in r.wr : r.ptr[h] = mem.ptr[h]
  <2>1. r.wr \subseteq Ptes
    BY <1>6, MemoryFields DEF Sound, MemType
  <2>2. Dir(e) \in Tables /\ Ptes \subseteq Holder
    BY HolderKinds
  <2>3. QED
    BY <1>4, <1>6, <2>1, <2>2, TablesApart
<1>9. QED
  BY <1>3, <1>4, <1>5, <1>6, <1>7, <1>8, FreshGrants

LEMMA MapGrants ==
  ASSUME IInv, AnyUse = FALSE, NEW c \in CPU, NEW x \in Env, NEW y \in Va,
         NEW e \in Env, NEW v \in Va, NEW w \in BOOLEAN, SysPageMap(c, x, y, e, v, w)
  PROVE  Granted(mem, mem')
<1>1. MayShare(Pte(x, y), w) /\ Calls(c) /\ MayEdit(c, e)
  BY DEF SysPageMap
<1>2. PICK t \in TableChoice(mem, e, v) :
        mem' = PageInsert(mem, e, mem.ptr[Pte(x, y)], v, w, t)
  BY DEF SysPageMap
<1>3. mem.ptr[Dir(e)] # NoPage /\ Pte(x, y) \in Ptes
  BY <1>1, EditorAlone, HolderKinds
<1>4. QED
  BY <1>1, <1>2, <1>3, SharedGrants

LEMMA SendGrants ==
  ASSUME IInv, NEW c \in CPU, NEW e \in Env, NEW y \in Va \cup {NoVa},
         NEW w \in BOOLEAN, SysIpcTrySend(c, e, y, w)
  PROVE  Granted(mem, mem')
<1>1. stage[e] = "waiting" /\ cur[c] \in Env /\ (y # NoVa => MayShare(Pte(cur[c], y), w))
  BY DEF SysIpcTrySend, Calls
<1>2. CASE y # NoVa /\ dstva[e] # NoVa
  <2>1. PICK t \in TableChoice(mem, e, dstva[e]) :
          mem' = PageInsert(mem, e, mem.ptr[Pte(cur[c], y)], dstva[e], w, t)
    BY <1>2 DEF SysIpcTrySend
  <2>2. Pte(cur[c], y) \in Ptes /\ MayShare(Pte(cur[c], y), w)
    BY <1>1, <1>2, HolderKinds
  <2>3. mem.ptr[Dir(e)] # NoPage /\ dstva[e] \in Va
    BY <1>1, <1>2, Types DEF Spaces
  <2>4. QED
    BY <2>1, <2>2, <2>3, SharedGrants
<1>3. CASE ~ (y # NoVa /\ dstva[e] # NoVa)
  BY <1>3, SameGrants DEF SysIpcTrySend
<1>4. QED
  BY <1>2, <1>3

LEMMA ReleaseGrants ==
  ASSUME IInv, NEW e \in Env, Release(e)
  PROVE  Granted(mem, mem')
<1>1. /\ mem'.wr = mem.wr \ Owned(e)
      /\ \A h \in Holder : mem'.ptr[h] = IF h[2] = e THEN NoPage ELSE mem.ptr[h]
  BY Types, FreeSound DEF Release
<1>2. mem.wr \subseteq Holder
  BY Types, MemoryFields, HolderKinds
<1>3. QED
  BY <1>1, <1>2, SameGrants DEF Owned

LEMMA ExoforkGrants ==
  ASSUME IInv, NEW c \in CPU, NEW e \in Env, SysExofork(c, e)
  PROVE  Granted(mem, mem')
<1>1. PICK p \in mem.free : mem' = EnvSetupVm(mem, e, p)
  BY DEF SysExofork
<1>2. SetUp(mem', e, p)
  BY <1>1, SetupStep DEF SysExofork
<1>3. mem.wr \subseteq Ptes /\ Ptes \subseteq Holder /\ Dir(e) \in Tables
  BY Types, MemoryFields, HolderKinds
<1>4. QED
  BY <1>2, <1>3, TablesApart, SameGrants DEF SetUp

LEMMA NextGrants == AnyUse = FALSE /\ IInv /\ Next => Granted(mem, mem')
<1> SUFFICES ASSUME AnyUse = FALSE, IInv, Next PROVE Granted(mem, mem')
  OBVIOUS
<1>1. mem' = mem => Granted(mem, mem')
  BY SameGrants
<1>2. ASSUME NEW c \in CPU, Edits(c) PROVE Granted(mem, mem')
  <2>1. ASSUME NEW e \in Env, NEW v \in Va, SysPageUnmap(c, e, v)
        PROVE  Granted(mem, mem')
    BY <2>1, Types, RemoveGrants DEF SysPageUnmap
  <2>2. QED
    BY <1>2, <2>1, AllocGrants, MapGrants DEF Edits
<1>3. ASSUME NEW c \in CPU, NEW e \in Env, SysEnvDestroy(c, e) PROVE Granted(mem, mem')
  BY <1>1, <1>3, ReleaseGrants DEF SysEnvDestroy
<1>4. ASSUME NEW c \in CPU, Reap(c) PROVE Granted(mem, mem')
  BY <1>4, ReleaseGrants DEF Reap
<1>5. ASSUME NEW c \in CPU,
             \/ Yield(c)
             \/ \E v \in Va : Touch(c, v)
             \/ \E v \in Va \cup {NoVa} : SysIpcRecv(c, v)
             \/ \E e \in Env : SysEnvSetStatus(c, e)
      PROVE  Granted(mem, mem')
  BY <1>1, <1>5 DEF Yield, Touch, SysIpcRecv, SysEnvSetStatus
<1>6. BootAps => Granted(mem, mem')
  BY <1>1 DEF BootAps
<1>7. QED
  BY <1>2, <1>3, <1>4, <1>5, <1>6, CreateGrants, SbrkGrants, ExoforkGrants, SendGrants DEF Next

(* Reference counts, free list and page tables agree between kernel entries *)
(* however programs allocate, map, share, send and unmap pages, fork, die   *)
(* and are destroyed: page_insert, page_remove, env_setup_vm and env_free   *)
(* neither lose a page nor free one that is still mapped.                   *)
THEOREM PagesSound == AnyUse = FALSE => (Spec => []PageInv)
<1> SUFFICES ASSUME AnyUse = FALSE PROVE Spec => []PageInv
  OBVIOUS
<1>1. IInv /\ [Next]_vars => IInv'
  BY NextInv
<1>2. IInv => PageInv
  BY DEF IInv
<1>3. QED
  BY <1>1, <1>2, InitInv, PTL DEF Spec

(* No CPU translates through a mapping its environment no longer has, even  *)
(* though tlb_invalidate never reaches another CPU: the library edits only  *)
(* its own address space and that of a child that has not started.          *)
THEOREM TranslationsFresh == AnyUse = FALSE => (Spec => []TlbFresh)
<1> SUFFICES ASSUME AnyUse = FALSE PROVE Spec => []TlbFresh
  OBVIOUS
<1>1. IInv /\ [Next]_vars => IInv'
  BY NextInv
<1>2. IInv => TlbFresh
  BY DEF IInv
<1>3. QED
  BY <1>1, <1>2, InitInv, PTL DEF Spec

(* Only an environment that may execute is loaded by env_run, and on one    *)
(* CPU at a time; a child that has not started is loaded nowhere, so its    *)
(* parent may edit its address space.                                       *)
THEOREM LoadedSound == AnyUse = FALSE => (Spec => []LoadedInv)
<1> SUFFICES ASSUME AnyUse = FALSE PROVE Spec => []LoadedInv
  OBVIOUS
<1>1. IInv /\ [Next]_vars => IInv'
  BY NextInv
<1>2. IInv => LoadedInv
  BY DEF IInv
<1>3. QED
  BY <1>1, <1>2, InitInv, PTL DEF Spec

(* A page that everybody maps read-only stays so while it is mapped: the      *)
(* checks of sys_page_map and sys_ipc_try_send let no chain of mappings and    *)
(* messages regain PTE_W, and a page is handed out anew only when no mapping   *)
(* of it is left.                                                             *)
THEOREM ReadOnlySound == AnyUse = FALSE => (Spec => ReadOnlyStays)
<1> SUFFICES ASSUME AnyUse = FALSE PROVE Spec => ReadOnlyStays
  OBVIOUS
<1> DEFINE Kept == \A p \in Page :
                     Count(mem, p) > 0 /\ ~Writable(mem, p) => ~Writable(mem', p)
<1>1. IInv /\ [Next]_vars => IInv'
  BY NextInv
<1>2. IInv /\ Next => Kept
  <2> SUFFICES ASSUME IInv, Next, NEW p \in Page, Count(mem, p) > 0,
                      ~Writable(mem, p), Writable(mem', p)
               PROVE  FALSE
    OBVIOUS
  <2>1. PICK h \in mem'.wr : mem'.ptr[h] = p
    BY DEF Writable
  <2>2. p \in mem.free
    BY <2>1, NextGrants DEF Granted
  <2>3. QED
    BY <2>2, Types, FreeUnmapped
<1>3. IInv /\ [Next]_vars => [Kept]_vars
  BY <1>2
<1> HIDE DEF Kept
<1>4. Spec => [][Kept]_vars
  BY <1>1, <1>3, InitInv, PTL DEF Spec
<1>5. QED
  BY <1>4 DEF ReadOnlyStays, Kept
=============================================================================
