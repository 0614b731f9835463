-------------------------- MODULE FileSystemProof --------------------------
(***************************************************************************)
(* For disks, directories and files of any size and requests in any order: *)
(* the cache never holds a block twice, neither does the disk, whenever    *)
(* the machine stops, and a file whose flush was answered stays on disk.   *)
(*                                                                         *)
(* The argument.  What the disk holds, and what each write still to do     *)
(* will put there, is behind the cache (Fits): a block pointer is 0 or the *)
(* cache's, a name is empty or the cache's, the bitmap has free only what  *)
(* the cache has free or what a write still to come takes.  A block just   *)
(* allocated is on no pointer of the disk before its clearing is written.  *)
(* Such a disk holds no block twice because the cache does not, and        *)
(* remains so under each write, and when the cache grows.  The requests    *)
(* that free blocks write one block, and only after it the disk is behind  *)
(* again (Freeing).                                                        *)
(***************************************************************************)
EXTENDS FileSystem, TLAPS, SequenceTheorems, NaturalsInduction, WellFoundedInduction

\* Contents of a block, and the writes a request may leave.
BlockType == [val : {0} \cup Value, ptr : [1 .. NINDIRECT -> {0} \cup Blk],
              file : [1 .. BLKFILES -> FileType]]
SuperType == (0 .. NDir) \X [1 .. NDir -> {0} \cup Blk]
Units     == Blk \cup {Super, Bitmap}
WriteType == [unit : {Bitmap}, to : SUBSET Blk] \cup [unit : {Super}, to : SuperType]
             \cup [unit : Blk, to : BlockType] \cup [unit : {0}, to : {Cleared}]

\* What holds of a cache, and of a disk whenever the machine stops.
Sound(m) ==
    /\ Exclusive(m)
    /\ UniqueNames(m)
    /\ \A d \in 1 .. NDir : m.dptr[d] # 0 => d <= m.dsize
\* No block is lost, and no pointer is set beyond a file's size.
Whole(m) ==
    /\ Blk \ m.free \subseteq Used(m)
    /\ \A i \in File, k \in Index : k > Fl(m, i).size => Ptr(m, i, k) = 0
-----------------------------------------------------------------------------
\* The File g, or the pointer p, of a block written earlier than the cache's f, or q;
\* no pointer leads to a block of late.
OldPtr(p, q, late)  == p \in {0, q} /\ p \notin late
OldFile(g, f, late) ==
    /\ g.name \in {NoName, f.name}
    /\ OldPtr(g.indirect, f.indirect, late)
    /\ \A k \in 1 .. NDIRECT : OldPtr(g.direct[k], f.direct[k], late)
\* The contents v of block u are behind the cache m.
BehindSuper(v, m, late) ==
    \A d \in 1 .. NDir : OldPtr(v[2][d], m.dptr[d], late) /\ (v[2][d] # 0 => d <= v[1])
BehindFiles(u, v, m, late) ==
    \A i \in File : DirBlock(m, i) = u => OldFile(v.file[EntryOf(i)], Fl(m, i), late)
BehindPtrs(u, v, m, late) ==
    \A i \in File : Fl(m, i).indirect = u =>
        \A k \in 1 .. NINDIRECT : OldPtr(v.ptr[k], m.blk[u].ptr[k], late)
Behind(u, v, m, late) ==
    /\ u = Super => BehindSuper(v, m, late)
    /\ u \in Blk => BehindFiles(u, v, m, late) /\ BehindPtrs(u, v, m, late)

\* The contents v of block u have what the cache m has of file i.
Val(m, i, k) == Contents(m, i).data[k]
KeptFile(g, m, i) ==
    /\ g.name = Fl(m, i).name /\ g.size = Fl(m, i).size
    /\ \A k \in 1 .. NDIRECT : g.direct[k] = 0 => Val(m, i, k) = 0
    /\ g.indirect = 0 => \A k \in Index : k > NDIRECT => Val(m, i, k) = 0
Kept(u, v, m, i) ==
    /\ u = Super => v[2][DirOf(i)] = m.dptr[DirOf(i)] /\ DirOf(i) <= v[1]
    /\ u \in Blk =>
        /\ DirBlock(m, i) = u => KeptFile(v.file[EntryOf(i)], m, i)
        /\ Fl(m, i).indirect = u =>
               \A k \in 1 .. NINDIRECT : v.ptr[k] = 0 => Val(m, i, k + NDIRECT) = 0
        /\ \A k \in Index : k <= Fl(m, i).size /\ Ptr(m, i, k) = u => v.val = Val(m, i, k)

\* The writes of q that clear an allocated block are those at the places of c.
Late(q, c, n)  == {q[o].unit : o \in {o \in c : o > n}}
Clears(q, c)   ==
    /\ \A n \in c : q[n].unit \in Blk /\ q[n].to = Cleared
    /\ \A n, o \in c : q[n].unit = q[o].unit => n = o
\* The bitmap written at o has b as used, as have those after it, and b is cleared later.
Takes(q, c, o, b) ==
    /\ q[o].unit = Bitmap
    /\ \A p \in DOMAIN q : p >= o /\ q[p].unit = Bitmap => b \notin q[p].to
    /\ b \in Late(q, c, o)
Freed0(free, m, q, c, n) ==
    \A b \in free : b \in m.free \/ \E o \in DOMAIN q : o > n /\ Takes(q, c, o, b)
\* A write, or the disk, is behind the cache and has the files of S.
FitsAs(u, v, m, late, S) ==
    Behind(u, v, m, late) /\ \A i \in S : Kept(u, v, m, i)
FitsBy(d, m, q, S, c) ==
    /\ Clears(q, c)
    /\ Freed0(d.free, m, q, c, 0)
    /\ \A u \in Units : u \notin Late(q, c, 0) => FitsAs(u, Held(d, u), m, Late(q, c, 0), S)
    /\ \A n \in DOMAIN q :
        /\ q[n].unit = Bitmap => Freed0(q[n].to, m, q, c, n)
        /\ FitsAs(q[n].unit, q[n].to, m, Late(q, c, n), S)
Fits(d, m, q, S) == \E c \in SUBSET DOMAIN q : FitsBy(d, m, q, S, c)
-----------------------------------------------------------------------------
\* One write is left of a request that frees blocks.
Freeing ==
    /\ Len(queue) = 1
    /\ Sound(disk) /\ FlushedSurvives
    /\ Fits(Written(disk, queue[1]), mem, <<>>, synced)

Needed(m, i) ==
    ({DirBlock(m, i), Fl(m, i).indirect}
     \cup {Ptr(m, i, k) : k \in {k \in Index : k <= Fl(m, i).size}}) \ {0}
\* The directory's pointer to the block of a file with a name is on the disk, or will be.
OnDisk(d, m, i) == d.dptr[DirOf(i)] = m.dptr[DirOf(i)] /\ DirOf(i) <= d.dsize
Settled(d, m, q) ==
    /\ \A n \in DOMAIN q : q[n].unit = Super => q[n].to = Held(m, Super)
    /\ \A i \in File : Fl(m, i).name # NoName =>
           OnDisk(d, m, i) \/ \E n \in DOMAIN q : q[n].unit = Super
\* What the flush under way has not written is still to be written.
Flushing(d, m, q, i) ==
    /\ Fl(m, i).name # NoName
    /\ \A n \in DOMAIN q : q[n].to = Held(m, q[n].unit)
    /\ \A u \in Needed(m, i) : Held(d, u) = Held(m, u) \/ \E n \in DOMAIN q : q[n].unit = u

Typed ==
    /\ mem \in DiskType /\ disk \in DiskType /\ queue \in Seq(WriteType)
    /\ closing \subseteq File /\ synced \subseteq File /\ crashed \in BOOLEAN
Inv ==
    /\ PartialShrink = FALSE
    /\ Typed
    /\ Sound(mem)
    /\ crashed \/ Whole(mem)
    /\ Fits(disk, mem, queue, synced) \/ Freeing
    /\ Settled(disk, mem, queue)
    /\ \A i \in synced : Fl(mem, i).name # NoName
    /\ queue = <<>> => closing = {}
    /\ \A i \in closing : Flushing(disk, mem, queue, i)
-----------------------------------------------------------------------------
\* Sizes, blocks and types.
Dirs == 1 .. NDir

LEMMA Least == ASSUME NEW T \in SUBSET Nat, T # {} PROVE \E x \in T : \A y \in T : x <= y
<1> DEFINE R == OpToRel(<, Nat)
<1>1. IsWellFoundedOn(R, Nat)
  BY NatLessThanWellFounded
<1>2. \A x, y \in T : <<y, x>> \in R <=> y < x
  BY DEF OpToRel
<1> HIDE DEF R
<1>3. PICK x \in T : \A y \in T : ~ (<<y, x>> \in R)
  BY <1>1, WFMin
<1>4. \A y \in T : ~(y < x) /\ x \in Nat /\ y \in Nat
  BY <1>2, <1>3
<1> QED BY <1>4

LEMMA Numbers ==
    /\ NBlk \in Nat /\ NDIRECT \in Nat /\ NINDIRECT \in Nat /\ NDir \in Nat /\ BLKFILES \in Nat
    /\ NBlk > 0 /\ NDIRECT > 0 /\ NINDIRECT > 0 /\ NDir > 0 /\ BLKFILES > 0
    /\ Super = NBlk + 1 /\ Bitmap = NBlk + 2
    /\ Super \notin Blk /\ Bitmap \notin Blk /\ Super # Bitmap /\ 0 \notin Units
    /\ Blk \subseteq Nat /\ 0 \notin Blk
    /\ Index = 1 .. NDIRECT + NINDIRECT
    /\ \A k \in Index : k > NDIRECT => k - NDIRECT \in 1 .. NINDIRECT
    /\ \A k \in 1 .. NINDIRECT : k + NDIRECT \in Index /\ k + NDIRECT > NDIRECT
    /\ 1 .. NDIRECT \subseteq Index
    /\ \A k \in Index : k <= NDIRECT => k \in 1 .. NDIRECT
    /\ NoName \notin Name /\ 0 \notin Value
<1>1. /\ NBlk \in Nat \ {0} /\ NDIRECT \in Nat \ {0} /\ NINDIRECT \in Nat \ {0}
      /\ NDir \in Nat \ {0} /\ BLKFILES \in Nat \ {0} /\ NoName \notin Name /\ 0 \notin Value
  BY Sizes
<1>2. Super = NBlk + 1 /\ Bitmap = NBlk + 2 /\ Blk \subseteq Nat /\ 0 \notin Blk
      /\ Super \notin Blk /\ Bitmap \notin Blk /\ Super # Bitmap
  BY <1>1 DEF Super, Bitmap, Blk
<1>3. 0 \notin Units
  BY <1>1, <1>2 DEF Units
<1> QED BY <1>1, <1>2, <1>3 DEF Index

LEMMA Files == \A i \in File : DirOf(i) \in Dirs /\ EntryOf(i) \in 1 .. BLKFILES
                               /\ i = <<DirOf(i), EntryOf(i)>>
BY DEF File, DirOf, EntryOf, Dirs

LEMMA NoFileType == NoFile \in FileType
BY Numbers DEF NoFile, FileType

LEMMA ClearedType ==
    /\ Cleared \in BlockType /\ Cleared.val = 0
    /\ \A j \in 1 .. BLKFILES : Cleared.file[j] = NoFile
    /\ \A k \in 1 .. NINDIRECT : Cleared.ptr[k] = 0
<1>1. [j \in 1 .. BLKFILES |-> NoFile] \in [1 .. BLKFILES -> FileType]
  BY NoFileType
<1>2. NoPtrs \in [1 .. NINDIRECT -> {0} \cup Blk]
  BY DEF NoPtrs
<1> QED BY <1>1, <1>2 DEF Cleared, BlockType, NoPtrs

\* The parts of a cache or a disk.
LEMMA Parts == ASSUME NEW m \in DiskType
    PROVE /\ m.free \in SUBSET Blk /\ m.free \subseteq Blk /\ m.dsize \in 0 .. NDir
          /\ m.dptr \in [Dirs -> {0} \cup Blk] /\ m.blk \in [Blk -> BlockType]
          /\ \A b \in Blk : /\ m.blk[b].val \in {0} \cup Value
                            /\ m.blk[b].ptr \in [1 .. NINDIRECT -> {0} \cup Blk]
                            /\ m.blk[b].file \in [1 .. BLKFILES -> FileType]
                            /\ \A k \in 1 .. NINDIRECT : m.blk[b].ptr[k] \in {0} \cup Blk
                            /\ \A j \in 1 .. BLKFILES : m.blk[b].file[j] \in FileType
          /\ \A d \in Dirs : m.dptr[d] \in {0} \cup Blk
          /\ m = [free |-> m.free, dsize |-> m.dsize, dptr |-> m.dptr, blk |-> m.blk]
<1>1. /\ m.free \in SUBSET Blk /\ m.free \subseteq Blk /\ m.dsize \in 0 .. NDir
      /\ m.dptr \in [Dirs -> {0} \cup Blk] /\ m.blk \in [Blk -> BlockType]
      /\ m = [free |-> m.free, dsize |-> m.dsize, dptr |-> m.dptr, blk |-> m.blk]
  BY DEF DiskType, BlockType, Dirs
<1>2. ASSUME NEW b \in Blk
      PROVE /\ m.blk[b].val \in {0} \cup Value
            /\ m.blk[b].ptr \in [1 .. NINDIRECT -> {0} \cup Blk]
            /\ m.blk[b].file \in [1 .. BLKFILES -> FileType]
  <2>1. m.blk[b] \in BlockType
    BY <1>1
  <2> QED BY <2>1 DEF BlockType
<1>3. /\ \A b \in Blk, k \in 1 .. NINDIRECT : m.blk[b].ptr[k] \in {0} \cup Blk
      /\ \A b \in Blk, j \in 1 .. BLKFILES : m.blk[b].file[j] \in FileType
  BY <1>2
<1> QED BY <1>1, <1>2, <1>3

LEMMA MakeDisk == ASSUME NEW a \in SUBSET Blk, NEW n \in 0 .. NDir,
                         NEW p \in [Dirs -> {0} \cup Blk], NEW f \in [Blk -> BlockType]
    PROVE [free |-> a, dsize |-> n, dptr |-> p, blk |-> f] \in DiskType
BY DEF DiskType, BlockType, Dirs

LEMMA FlType == ASSUME NEW m \in DiskType, NEW i \in File
    PROVE /\ Fl(m, i) \in FileType
          /\ Fl(m, i).name \in Name \cup {NoName} /\ Fl(m, i).size \in {0} \cup Index
          /\ Fl(m, i).direct \in [1 .. NDIRECT -> {0} \cup Blk]
          /\ Fl(m, i).indirect \in {0} \cup Blk
          /\ Fl(m, i) = [name |-> Fl(m, i).name, size |-> Fl(m, i).size,
                         direct |-> Fl(m, i).direct, indirect |-> Fl(m, i).indirect]
          /\ DirBlock(m, i) \in {0} \cup Blk
          /\ DirBlock(m, i) = 0 => Fl(m, i) = NoFile
          /\ DirBlock(m, i) # 0 => Fl(m, i) = m.blk[DirBlock(m, i)].file[EntryOf(i)]
<1>1. DirBlock(m, i) \in {0} \cup Blk
  BY Parts, Files DEF DirBlock
<1>2. /\ DirBlock(m, i) = 0 => Fl(m, i) = NoFile
      /\ DirBlock(m, i) # 0 => Fl(m, i) = m.blk[DirBlock(m, i)].file[EntryOf(i)]
  BY DEF DirBlock, Fl
<1>3. Fl(m, i) \in FileType
  <2> DEFINE b == DirBlock(m, i)
  <2>1. CASE b = 0
    BY <1>2, <2>1, NoFileType
  <2>2. CASE b # 0
    <3>1. b \in Blk /\ Fl(m, i) = m.blk[b].file[EntryOf(i)] /\ EntryOf(i) \in 1 .. BLKFILES
      BY <1>1, <1>2, <2>2, Files
    <3> HIDE DEF b
    <3> QED BY <3>1, Parts
  <2> QED BY <2>1, <2>2
<1> QED BY <1>1, <1>2, <1>3 DEF FileType

LEMMA PtrType == ASSUME NEW m \in DiskType, NEW i \in File, NEW k \in Index
    PROVE /\ Ptr(m, i, k) \in {0} \cup Blk
          /\ k <= NDIRECT => Ptr(m, i, k) = Fl(m, i).direct[k]
          /\ k > NDIRECT => Ptr(m, i, k) = IF Fl(m, i).indirect = 0 THEN 0
                                ELSE m.blk[Fl(m, i).indirect].ptr[k - NDIRECT]
<1>1. CASE k <= NDIRECT
  <2>1. k \in 1 .. NDIRECT
    BY <1>1, Numbers
  <2> QED BY <1>1, <2>1, FlType, Numbers DEF Ptr
<1>2. CASE k > NDIRECT
  <2>1. k - NDIRECT \in 1 .. NINDIRECT /\ ~(k <= NDIRECT)
    BY <1>2, Numbers
  <2>2. Fl(m, i).indirect \in {0} \cup Blk
    BY FlType
  <2>3. Fl(m, i).indirect # 0 =>
            m.blk[Fl(m, i).indirect].ptr[k - NDIRECT] \in {0} \cup Blk
    <3> DEFINE b == Fl(m, i).indirect
    <3> SUFFICES ASSUME b # 0 PROVE m.blk[b].ptr[k - NDIRECT] \in {0} \cup Blk
      OBVIOUS
    <3>1. b \in Blk
      BY <2>2
    <3> HIDE DEF b
    <3> QED BY <2>1, <3>1, Parts
  <2> QED BY <1>2, <2>1, <2>3 DEF Ptr
<1> QED BY <1>1, <1>2, Numbers
-----------------------------------------------------------------------------
\* Every block has one owner: the same, place by place.
DirApart(m) == \A d, e \in Dirs : m.dptr[d] = m.dptr[e] /\ m.dptr[d] # 0 => d = e
Apart(m) ==
    /\ \A d, e \in Dirs : m.dptr[d] = m.dptr[e] /\ m.dptr[d] # 0 => d = e
    /\ \A i, j \in File : Fl(m, i).indirect = Fl(m, j).indirect /\ Fl(m, i).indirect # 0 => i = j
    /\ \A i, j \in File, k, l \in Index :
           Ptr(m, i, k) = Ptr(m, j, l) /\ Ptr(m, i, k) # 0 => i = j /\ k = l
    /\ \A d \in Dirs, i \in File : m.dptr[d] # 0 => Fl(m, i).indirect # m.dptr[d]
    /\ \A d \in Dirs, i \in File, k \in Index : m.dptr[d] # 0 => Ptr(m, i, k) # m.dptr[d]
    /\ \A i, j \in File, k \in Index : Fl(m, j).indirect # 0 => Ptr(m, i, k) # Fl(m, j).indirect
Owned(m, b) ==
    /\ b # 0
    /\ \/ \E d \in Dirs : m.dptr[d] = b
       \/ \E i \in File : Fl(m, i).indirect = b
       \/ \E i \in File, k \in Index : Ptr(m, i, k) = b

LEMMA Places ==
    /\ \A d \in Dirs : <<d, 0, 0>> \in Place
    /\ \A i \in File, k \in {0} \cup Index : <<DirOf(i), EntryOf(i), k>> \in Place
    /\ \A h \in Place : \/ \E d \in Dirs : h = <<d, 0, 0>>
                        \/ \E i \in File, k \in {0} \cup Index : h = <<DirOf(i), EntryOf(i), k>>
    /\ \A m : \A d \in Dirs : Holds(m, <<d, 0, 0>>) = m.dptr[d]
    /\ \A m : \A i \in File : Holds(m, <<DirOf(i), EntryOf(i), 0>>) = Fl(m, i).indirect
    /\ \A m : \A i \in File, k \in Index : Holds(m, <<DirOf(i), EntryOf(i), k>>) = Ptr(m, i, k)
<1>1. \A i \in File : EntryOf(i) # 0 /\ EntryOf(i) \in 1 .. BLKFILES /\ DirOf(i) \in 1 .. NDir
                      /\ <<DirOf(i), EntryOf(i)>> = i
  BY Files, Numbers DEF Dirs
<1>2. \A k \in Index : k # 0
  BY Numbers
<1>3. \A h \in Place : \/ \E d \in Dirs : h = <<d, 0, 0>>
                       \/ \E i \in File, k \in {0} \cup Index : h = <<DirOf(i), EntryOf(i), k>>
  <2> TAKE h \in Place
  <2>1. CASE h \in (1 .. NDir) \X {0} \X {0}
    BY <2>1 DEF Dirs
  <2>2. CASE h \in (1 .. NDir) \X (1 .. BLKFILES) \X ({0} \cup Index)
    <3>1. PICK d \in 1 .. NDir, e \in 1 .. BLKFILES, k \in {0} \cup Index : h = <<d, e, k>>
      <4>1. /\ h[1] \in 1 .. NDir /\ h[2] \in 1 .. BLKFILES /\ h[3] \in {0} \cup Index
            /\ h = <<h[1], h[2], h[3]>>
        BY <2>2
      <4> QED BY <4>1
    <3>2. <<d, e>> \in File
      BY DEF File
    <3>3. DirOf(<<d, e>>) = d /\ EntryOf(<<d, e>>) = e
      BY DEF DirOf, EntryOf
    <3> QED BY <3>1, <3>2, <3>3
  <2> QED BY <2>1, <2>2 DEF Place
<1>4. /\ \A d \in Dirs : <<d, 0, 0>> \in Place
      /\ \A i \in File, k \in {0} \cup Index : <<DirOf(i), EntryOf(i), k>> \in Place
  BY <1>1 DEF Place, Dirs
<1>5. \A m : \A d \in Dirs : Holds(m, <<d, 0, 0>>) = m.dptr[d]
  BY DEF Holds
<1>6. \A m : \A i \in File : Holds(m, <<DirOf(i), EntryOf(i), 0>>) = Fl(m, i).indirect
  BY <1>1 DEF Holds
<1>7. \A m : \A i \in File, k \in Index : Holds(m, <<DirOf(i), EntryOf(i), k>>) = Ptr(m, i, k)
  BY <1>1, <1>2 DEF Holds
<1> QED BY <1>3, <1>4, <1>5, <1>6, <1>7

LEMMA UsedOwned == ASSUME NEW m, NEW b PROVE b \in Used(m) <=> Owned(m, b)
<1>1. b \in Used(m) <=> b # 0 /\ \E h \in Place : Holds(m, h) = b
  BY DEF Used, Filled
<1>2. ASSUME NEW h \in Place, Holds(m, h) = b, b # 0 PROVE Owned(m, b)
  BY <1>2, Places DEF Owned
<1>3. ASSUME Owned(m, b) PROVE b # 0 /\ \E h \in Place : Holds(m, h) = b
  BY <1>3, Places DEF Owned
<1> QED BY <1>1, <1>2, <1>3

LEMMA ExclusiveHolds == ASSUME NEW m
    PROVE Exclusive(m) <=> /\ \A g, h \in Filled(m) : Holds(m, g) = Holds(m, h) => g = h
                           /\ Used(m) \cap m.free = {}
<1> DEFINE held == {<<h, Holds(m, h)>> : h \in Filled(m)}
<1>1. Exclusive(m) <=> \A p, q \in held : p[2] \notin m.free /\ (p[2] = q[2] => p[1] = q[1])
  BY DEF Exclusive
<1>2. ASSUME \A p, q \in held : p[2] \notin m.free /\ (p[2] = q[2] => p[1] = q[1]),
             NEW g \in Filled(m), NEW h \in Filled(m)
      PROVE Holds(m, g) \notin m.free /\ (Holds(m, g) = Holds(m, h) => g = h)
  <2>1. <<g, Holds(m, g)>> \in held /\ <<h, Holds(m, h)>> \in held
    OBVIOUS
  <2> HIDE DEF held
  <2> QED BY <1>2, <2>1
<1>3. ASSUME \A g, h \in Filled(m) :
               Holds(m, g) \notin m.free /\ (Holds(m, g) = Holds(m, h) => g = h),
             NEW p \in held, NEW q \in held
      PROVE p[2] \notin m.free /\ (p[2] = q[2] => p[1] = q[1])
  <2>1. PICK g \in Filled(m) : p = <<g, Holds(m, g)>>
    OBVIOUS
  <2>2. PICK h \in Filled(m) : q = <<h, Holds(m, h)>>
    OBVIOUS
  <2> HIDE DEF held
  <2> QED BY <1>3, <2>1, <2>2
<1>4. Used(m) \cap m.free = {} <=> \A g \in Filled(m) : Holds(m, g) \notin m.free
  BY DEF Used
<1> HIDE DEF held
<1> QED BY <1>1, <1>2, <1>3, <1>4

LEMMA ExclusiveApart == ASSUME NEW m
    PROVE Exclusive(m) <=> Apart(m) /\ \A b \in m.free : ~Owned(m, b)
<1>1. Exclusive(m) <=>
        /\ \A g, h \in Place : Holds(m, g) = Holds(m, h) /\ Holds(m, g) # 0 => g = h
        /\ \A b \in m.free : ~Owned(m, b)
  BY ExclusiveHolds, UsedOwned DEF Filled
<1>2. ASSUME \A g, h \in Place : Holds(m, g) = Holds(m, h) /\ Holds(m, g) # 0 => g = h
      PROVE Apart(m)
  <2>1. \A i \in File : i = <<DirOf(i), EntryOf(i)>> /\ EntryOf(i) # 0
    BY Files, Numbers
  <2>2. \A k \in Index : k # 0
    BY Numbers
  <2>3. \A d, e \in Dirs : m.dptr[d] = m.dptr[e] /\ m.dptr[d] # 0 => d = e
    <3> SUFFICES ASSUME NEW d \in Dirs, NEW e \in Dirs, m.dptr[d] = m.dptr[e], m.dptr[d] # 0
                 PROVE d = e
      OBVIOUS
    <3> DEFINE g == <<d, 0, 0>>
               h == <<e, 0, 0>>
    <3>0. /\ g \in Place /\ h \in Place
          /\ Holds(m, g) = m.dptr[d] /\ Holds(m, h) = m.dptr[e]
      BY Places
    <3> HIDE DEF g, h
    <3>9. g = h
      BY <1>2, <3>0
    <3>1. <<d, 0, 0>> = <<e, 0, 0>>
      BY <3>9 DEF g, h
    <3> QED BY <3>1
  <2>4. \A i, j \in File : Fl(m, i).indirect = Fl(m, j).indirect /\ Fl(m, i).indirect # 0 => i = j
    <3> SUFFICES ASSUME NEW i \in File, NEW j \in File, Fl(m, i).indirect = Fl(m, j).indirect,
                        Fl(m, i).indirect # 0
                 PROVE i = j
      OBVIOUS
    <3> DEFINE g == <<DirOf(i), EntryOf(i), 0>>
               h == <<DirOf(j), EntryOf(j), 0>>
    <3>0. /\ g \in Place /\ h \in Place
          /\ Holds(m, g) = Fl(m, i).indirect /\ Holds(m, h) = Fl(m, j).indirect
      BY Places
    <3> HIDE DEF g, h
    <3>9. g = h
      BY <1>2, <3>0
    <3>1. <<DirOf(i), EntryOf(i), 0>> = <<DirOf(j), EntryOf(j), 0>>
      BY <3>9 DEF g, h
    <3> QED BY <3>1, <2>1
  <2>5. \A i, j \in File, k, l \in Index :
           Ptr(m, i, k) = Ptr(m, j, l) /\ Ptr(m, i, k) # 0 => i = j /\ k = l
    <3> SUFFICES ASSUME NEW i \in File, NEW j \in File, NEW k \in Index, NEW l \in Index,
                        Ptr(m, i, k) = Ptr(m, j, l), Ptr(m, i, k) # 0
                 PROVE i = j /\ k = l
      OBVIOUS
    <3> DEFINE g == <<DirOf(i), EntryOf(i), k>>
               h == <<DirOf(j), EntryOf(j), l>>
    <3>0. /\ g \in Place /\ h \in Place
          /\ Holds(m, g) = Ptr(m, i, k) /\ Holds(m, h) = Ptr(m, j, l)
      BY Places
    <3> HIDE DEF g, h
    <3>9. g = h
      BY <1>2, <3>0
    <3>1. <<DirOf(i), EntryOf(i), k>> = <<DirOf(j), EntryOf(j), l>>
      BY <3>9 DEF g, h
    <3> QED BY <3>1, <2>1
  <2>6. \A d \in Dirs, i \in File : m.dptr[d] # 0 => Fl(m, i).indirect # m.dptr[d]
    <3> SUFFICES ASSUME NEW d \in Dirs, NEW i \in File, m.dptr[d] # 0, Fl(m, i).indirect = m.dptr[d]
                 PROVE FALSE
      OBVIOUS
    <3> DEFINE g == <<DirOf(i), EntryOf(i), 0>>
               h == <<d, 0, 0>>
    <3>0. /\ g \in Place /\ h \in Place
          /\ Holds(m, g) = Fl(m, i).indirect /\ Holds(m, h) = m.dptr[d]
      BY Places
    <3> HIDE DEF g, h
    <3>9. g = h
      BY <1>2, <3>0
    <3>1. <<DirOf(i), EntryOf(i), 0>> = <<d, 0, 0>>
      BY <3>9 DEF g, h
    <3> QED BY <3>1, <2>1
  <2>7. \A d \in Dirs, i \in File, k \in Index : m.dptr[d] # 0 => Ptr(m, i, k) # m.dptr[d]
    <3> SUFFICES ASSUME NEW d \in Dirs, NEW i \in File, NEW k \in Index, m.dptr[d] # 0,
                        Ptr(m, i, k) = m.dptr[d]
                 PROVE FALSE
      OBVIOUS
    <3> DEFINE g == <<DirOf(i), EntryOf(i), k>>
               h == <<d, 0, 0>>
    <3>0. /\ g \in Place /\ h \in Place
          /\ Holds(m, g) = Ptr(m, i, k) /\ Holds(m, h) = m.dptr[d]
      BY Places
    <3> HIDE DEF g, h
    <3>9. g = h
      BY <1>2, <3>0
    <3>1. <<DirOf(i), EntryOf(i), k>> = <<d, 0, 0>>
      BY <3>9 DEF g, h
    <3> QED BY <3>1, <2>1
  <2>8. \A i, j \in File, k \in Index : Fl(m, j).indirect # 0 => Ptr(m, i, k) # Fl(m, j).indirect
    <3> SUFFICES ASSUME NEW j \in File, NEW i \in File, NEW k \in Index, Fl(m, j).indirect # 0,
                        Ptr(m, i, k) = Fl(m, j).indirect
                 PROVE FALSE
      OBVIOUS
    <3> DEFINE g == <<DirOf(i), EntryOf(i), k>>
               h == <<DirOf(j), EntryOf(j), 0>>
    <3>0. /\ g \in Place /\ h \in Place
          /\ Holds(m, g) = Ptr(m, i, k) /\ Holds(m, h) = Fl(m, j).indirect
      BY Places
    <3> HIDE DEF g, h
    <3>9. g = h
      BY <1>2, <3>0
    <3>1. <<DirOf(i), EntryOf(i), k>> = <<DirOf(j), EntryOf(j), 0>>
      BY <3>9 DEF g, h
    <3> QED BY <3>1, <2>2
  <2> QED BY <2>3, <2>4, <2>5, <2>6, <2>7, <2>8 DEF Apart
<1>3. ASSUME Apart(m), NEW g \in Place, NEW h \in Place, Holds(m, g) = Holds(m, h), Holds(m, g) # 0
      PROVE g = h
  <2>1. CASE \E d \in Dirs : g = <<d, 0, 0>>
    <3>1. CASE \E d \in Dirs : h = <<d, 0, 0>>
      BY <1>3, <2>1, <3>1, Places DEF Apart
    <3>2. CASE \E i \in File, k \in {0} \cup Index : h = <<DirOf(i), EntryOf(i), k>>
      BY <1>3, <2>1, <3>2, Places DEF Apart
    <3> QED BY <3>1, <3>2, Places
  <2>2. CASE \E i \in File, k \in {0} \cup Index : g = <<DirOf(i), EntryOf(i), k>>
    <3>1. CASE \E d \in Dirs : h = <<d, 0, 0>>
      BY <1>3, <2>2, <3>1, Places DEF Apart
    <3>2. CASE \E i \in File, k \in {0} \cup Index : h = <<DirOf(i), EntryOf(i), k>>
      <4>1. PICK i \in File, k \in {0} \cup Index : g = <<DirOf(i), EntryOf(i), k>>
        BY <2>2
      <4>2. PICK j \in File, l \in {0} \cup Index : h = <<DirOf(j), EntryOf(j), l>>
        BY <3>2
      <4>3. CASE k = 0 /\ l = 0
        BY <1>3, <4>1, <4>2, <4>3, Places DEF Apart
      <4>4. CASE k = 0 /\ l \in Index
        BY <1>3, <4>1, <4>2, <4>4, Places DEF Apart
      <4>5. CASE k \in Index /\ l = 0
        BY <1>3, <4>1, <4>2, <4>5, Places DEF Apart
      <4>6. CASE k \in Index /\ l \in Index
        BY <1>3, <4>1, <4>2, <4>6, Places DEF Apart
      <4> QED BY <4>3, <4>4, <4>5, <4>6
    <3> QED BY <3>1, <3>2, Places
  <2> QED BY <2>1, <2>2, Places
<1> QED BY <1>1, <1>2, <1>3
-----------------------------------------------------------------------------
\* The steps a request is made of: a File, a pointer of an indirect block or of the
\* directory, the data of a block are set; a block is taken.
PutPtr(m, b, k, p) == [m EXCEPT !.blk[b].ptr[k] = p]
PutDir(m, d, b)    == [m EXCEPT !.dptr[d] = b]
PutVal(m, b, v)    == [m EXCEPT !.blk[b].val = v]
PutSize(m, n)      == [m EXCEPT !.dsize = n]
Taken(m, b)        == [[m EXCEPT !.free = @ \ {b}] EXCEPT !.blk[b] = Cleared]

LEMMA SetFileAt ==
    ASSUME NEW m \in DiskType, DirApart(m), NEW i \in File, DirBlock(m, i) # 0, NEW f \in FileType
    PROVE /\ SetFile(m, i, f) \in DiskType
          /\ SetFile(m, i, f).free = m.free /\ SetFile(m, i, f).dsize = m.dsize
          /\ SetFile(m, i, f).dptr = m.dptr
          /\ \A b \in Blk : /\ SetFile(m, i, f).blk[b].val = m.blk[b].val
                            /\ SetFile(m, i, f).blk[b].ptr = m.blk[b].ptr
                            /\ b # DirBlock(m, i) => SetFile(m, i, f).blk[b] = m.blk[b]
          /\ \A j \in File : Fl(SetFile(m, i, f), j) = IF j = i THEN f ELSE Fl(m, j)
<1> DEFINE B == DirBlock(m, i)
           e == EntryOf(i)
           v == [m.blk[B] EXCEPT !.file = [@ EXCEPT ![e] = f]]
<1>1. B \in Blk /\ e \in 1 .. BLKFILES /\ DirOf(i) \in Dirs /\ m.dptr[DirOf(i)] = B
  BY FlType, Files DEF DirBlock
<1>2. m.blk[B] \in BlockType /\ m.blk \in [Blk -> BlockType]
  BY <1>1, Parts
<1>3. /\ v \in BlockType /\ v.val = m.blk[B].val /\ v.ptr = m.blk[B].ptr
      /\ \A j \in 1 .. BLKFILES : v.file[j] = IF j = e THEN f ELSE m.blk[B].file[j]
  BY <1>1, <1>2 DEF BlockType
<1>4. SetFile(m, i, f) = [m EXCEPT !.blk = [@ EXCEPT ![B] = v]]
  BY <1>1 DEF SetFile
<1> HIDE DEF v, B, e
<1>5. [m.blk EXCEPT ![B] = v] \in [Blk -> BlockType]
  BY <1>1, <1>2, <1>3
<1>6. SetFile(m, i, f) = [free |-> m.free, dsize |-> m.dsize, dptr |-> m.dptr,
                          blk |-> [m.blk EXCEPT ![B] = v]]
  BY <1>4, Parts
<1>7. SetFile(m, i, f) \in DiskType
  <2>1. /\ m.free \in SUBSET Blk /\ m.dsize \in 0 .. NDir
        /\ m.dptr \in [Dirs -> {0} \cup Blk]
    BY Parts
  <2> QED BY <1>5, <1>6, <2>1, MakeDisk
<1>8. \A b \in Blk : SetFile(m, i, f).blk[b] = IF b = B THEN v ELSE m.blk[b]
  BY <1>1, <1>2, <1>6
<1>9. /\ SetFile(m, i, f).free = m.free /\ SetFile(m, i, f).dsize = m.dsize
      /\ SetFile(m, i, f).dptr = m.dptr
  BY <1>6
<1>10. ASSUME NEW j \in File PROVE Fl(SetFile(m, i, f), j) = IF j = i THEN f ELSE Fl(m, j)
  <2>1. DirBlock(SetFile(m, i, f), j) = DirBlock(m, j)
    BY <1>9 DEF DirBlock
  <2>2. CASE DirBlock(m, j) = 0
    BY <2>1, <2>2, <1>1, <1>7, FlType DEF B
  <2>3. CASE DirBlock(m, j) # 0 /\ DirBlock(m, j) # B
    <3>1. DirBlock(m, j) \in Blk /\ j # i
      BY <2>3, FlType DEF B
    <3>2. Fl(SetFile(m, i, f), j) = SetFile(m, i, f).blk[DirBlock(m, j)].file[EntryOf(j)]
      BY <2>1, <2>3, <1>7, FlType
    <3>3. Fl(m, j) = m.blk[DirBlock(m, j)].file[EntryOf(j)]
      BY <2>3, FlType
    <3> QED BY <2>3, <3>1, <3>2, <3>3, <1>8
  <2>4. CASE DirBlock(m, j) = B
    <3>1. DirOf(j) = DirOf(i)
      BY <2>4, <1>1, Files, Numbers DEF DirApart, DirBlock
    <3>2. j = i <=> EntryOf(j) = e
      BY <3>1, Files DEF e
    <3>3. Fl(SetFile(m, i, f), j) = v.file[EntryOf(j)]
      BY SMTT(20), <2>1, <2>4, <1>1, <1>7, <1>8, FlType, Numbers
    <3>4. Fl(m, j) = m.blk[B].file[EntryOf(j)]
      BY <2>4, <1>1, FlType, Numbers
    <3>5. EntryOf(j) \in 1 .. BLKFILES
      BY Files
    <3> QED BY <3>2, <3>3, <3>4, <3>5, <1>3
  <2> QED BY <2>2, <2>3, <2>4
<1> QED BY <1>3, <1>7, <1>8, <1>9, <1>10 DEF B

LEMMA SetFileIs ==
    ASSUME NEW m \in DiskType, Apart(m), NEW i \in File, DirBlock(m, i) # 0, NEW f \in FileType
    PROVE /\ SetFile(m, i, f) \in DiskType
          /\ SetFile(m, i, f).free = m.free /\ SetFile(m, i, f).dsize = m.dsize
          /\ SetFile(m, i, f).dptr = m.dptr
          /\ \A b \in Blk : /\ SetFile(m, i, f).blk[b].val = m.blk[b].val
                            /\ SetFile(m, i, f).blk[b].ptr = m.blk[b].ptr
                            /\ b # DirBlock(m, i) => SetFile(m, i, f).blk[b] = m.blk[b]
          /\ \A j \in File : Fl(SetFile(m, i, f), j) = IF j = i THEN f ELSE Fl(m, j)
<1>1. DirApart(m)
  BY DEF Apart, DirApart
<1> QED BY <1>1, SetFileAt

LEMMA PutPtrIs ==
    ASSUME NEW m \in DiskType, NEW b \in Blk, NEW k \in 1 .. NINDIRECT, NEW p \in {0} \cup Blk
    PROVE /\ PutPtr(m, b, k, p) \in DiskType
          /\ PutPtr(m, b, k, p).free = m.free /\ PutPtr(m, b, k, p).dsize = m.dsize
          /\ PutPtr(m, b, k, p).dptr = m.dptr
          /\ \A a \in Blk : /\ PutPtr(m, b, k, p).blk[a].val = m.blk[a].val
                            /\ PutPtr(m, b, k, p).blk[a].file = m.blk[a].file
                            /\ a # b => PutPtr(m, b, k, p).blk[a] = m.blk[a]
          /\ \A l \in 1 .. NINDIRECT :
                 PutPtr(m, b, k, p).blk[b].ptr[l] = IF l = k THEN p ELSE m.blk[b].ptr[l]
          /\ \A j \in File : Fl(PutPtr(m, b, k, p), j) = Fl(m, j)
<1> DEFINE v == [m.blk[b] EXCEPT !.ptr = [@ EXCEPT ![k] = p]]
<1>1. m.blk[b] \in BlockType /\ m.blk \in [Blk -> BlockType]
  BY Parts
<1>2. /\ v \in BlockType /\ v.val = m.blk[b].val /\ v.file = m.blk[b].file
      /\ \A l \in 1 .. NINDIRECT : v.ptr[l] = IF l = k THEN p ELSE m.blk[b].ptr[l]
  BY <1>1 DEF BlockType
<1>3. PutPtr(m, b, k, p) = [m EXCEPT !.blk = [@ EXCEPT ![b] = v]]
  BY DEF PutPtr
<1> HIDE DEF v
<1>4. [m.blk EXCEPT ![b] = v] \in [Blk -> BlockType]
  BY <1>1, <1>2
<1>5. PutPtr(m, b, k, p) = [free |-> m.free, dsize |-> m.dsize, dptr |-> m.dptr,
                            blk |-> [m.blk EXCEPT ![b] = v]]
  BY <1>3, Parts
<1>6. PutPtr(m, b, k, p) \in DiskType
  <2>1. /\ m.free \in SUBSET Blk /\ m.dsize \in 0 .. NDir
        /\ m.dptr \in [Dirs -> {0} \cup Blk]
    BY Parts
  <2> QED BY <1>4, <1>5, <2>1, MakeDisk
<1>7. \A a \in Blk : PutPtr(m, b, k, p).blk[a] = IF a = b THEN v ELSE m.blk[a]
  BY <1>1, <1>5
<1>8. /\ PutPtr(m, b, k, p).free = m.free /\ PutPtr(m, b, k, p).dsize = m.dsize
      /\ PutPtr(m, b, k, p).dptr = m.dptr
  BY <1>5
<1>9. ASSUME NEW j \in File PROVE Fl(PutPtr(m, b, k, p), j) = Fl(m, j)
  <2>1. DirBlock(PutPtr(m, b, k, p), j) = DirBlock(m, j)
    BY <1>8 DEF DirBlock
  <2>2. CASE DirBlock(m, j) = 0
    BY <2>1, <2>2, <1>6, FlType
  <2>3. CASE DirBlock(m, j) # 0
    <3>1. DirBlock(m, j) \in Blk
      BY <2>3, FlType
    <3>2. Fl(PutPtr(m, b, k, p), j) = PutPtr(m, b, k, p).blk[DirBlock(m, j)].file[EntryOf(j)]
      BY <2>1, <2>3, <1>6, FlType
    <3>3. Fl(m, j) = m.blk[DirBlock(m, j)].file[EntryOf(j)]
      BY <2>3, FlType
    <3> QED BY <3>1, <3>2, <3>3, <1>2, <1>7
  <2> QED BY <2>2, <2>3
<1> QED BY <1>2, <1>6, <1>7, <1>8, <1>9

LEMMA PutValIs ==
    ASSUME NEW m \in DiskType, NEW b \in Blk, NEW v \in {0} \cup Value
    PROVE /\ PutVal(m, b, v) \in DiskType
          /\ PutVal(m, b, v).free = m.free /\ PutVal(m, b, v).dsize = m.dsize
          /\ PutVal(m, b, v).dptr = m.dptr
          /\ \A a \in Blk : /\ PutVal(m, b, v).blk[a].ptr = m.blk[a].ptr
                            /\ PutVal(m, b, v).blk[a].file = m.blk[a].file
                            /\ a # b => PutVal(m, b, v).blk[a] = m.blk[a]
          /\ \A j \in File : Fl(PutVal(m, b, v), j) = Fl(m, j)
<1> DEFINE w == [m.blk[b] EXCEPT !.val = v]
<1>1. m.blk[b] \in BlockType /\ m.blk \in [Blk -> BlockType]
  BY Parts
<1>2. w \in BlockType /\ w.ptr = m.blk[b].ptr /\ w.file = m.blk[b].file
  BY <1>1 DEF BlockType
<1>3. PutVal(m, b, v) = [m EXCEPT !.blk = [@ EXCEPT ![b] = w]]
  BY DEF PutVal
<1> HIDE DEF w
<1>4. [m.blk EXCEPT ![b] = w] \in [Blk -> BlockType]
  BY <1>1, <1>2
<1>5. PutVal(m, b, v) = [free |-> m.free, dsize |-> m.dsize, dptr |-> m.dptr,
                         blk |-> [m.blk EXCEPT ![b] = w]]
  BY <1>3, Parts
<1>6. PutVal(m, b, v) \in DiskType
  <2>1. /\ m.free \in SUBSET Blk /\ m.dsize \in 0 .. NDir
        /\ m.dptr \in [Dirs -> {0} \cup Blk]
    BY Parts
  <2> QED BY <1>4, <1>5, <2>1, MakeDisk
<1>7. \A a \in Blk : PutVal(m, b, v).blk[a] = IF a = b THEN w ELSE m.blk[a]
  BY <1>1, <1>5
<1>8. /\ PutVal(m, b, v).free = m.free /\ PutVal(m, b, v).dsize = m.dsize
      /\ PutVal(m, b, v).dptr = m.dptr
  BY <1>5
<1>9. ASSUME NEW j \in File PROVE Fl(PutVal(m, b, v), j) = Fl(m, j)
  <2>1. DirBlock(PutVal(m, b, v), j) = DirBlock(m, j)
    BY <1>8 DEF DirBlock
  <2>2. CASE DirBlock(m, j) = 0
    BY <2>1, <2>2, <1>6, FlType
  <2>3. CASE DirBlock(m, j) # 0
    <3>1. DirBlock(m, j) \in Blk
      BY <2>3, FlType
    <3>2. Fl(PutVal(m, b, v), j) = PutVal(m, b, v).blk[DirBlock(m, j)].file[EntryOf(j)]
      BY <2>1, <2>3, <1>6, FlType
    <3>3. Fl(m, j) = m.blk[DirBlock(m, j)].file[EntryOf(j)]
      BY <2>3, FlType
    <3> QED BY <3>1, <3>2, <3>3, <1>2, <1>7
  <2> QED BY <2>2, <2>3
<1> QED BY <1>2, <1>6, <1>7, <1>8, <1>9

LEMMA PutDirIs ==
    ASSUME NEW m \in DiskType, NEW d \in Dirs, NEW b \in Blk, m.dptr[d] = 0, m.blk[b] = Cleared
    PROVE /\ PutDir(m, d, b) \in DiskType
          /\ PutDir(m, d, b).free = m.free /\ PutDir(m, d, b).dsize = m.dsize
          /\ PutDir(m, d, b).blk = m.blk
          /\ \A e \in Dirs : PutDir(m, d, b).dptr[e] = IF e = d THEN b ELSE m.dptr[e]
          /\ \A j \in File : Fl(PutDir(m, d, b), j) = Fl(m, j)
<1> DEFINE p == [m.dptr EXCEPT ![d] = b]
<1>1. /\ m.dptr \in [Dirs -> {0} \cup Blk] /\ m.blk \in [Blk -> BlockType]
      /\ m.free \in SUBSET Blk /\ m.dsize \in 0 .. NDir
  BY Parts
<1>2. p \in [Dirs -> {0} \cup Blk] /\ \A e \in Dirs : p[e] = IF e = d THEN b ELSE m.dptr[e]
  BY <1>1
<1>3. PutDir(m, d, b) = [free |-> m.free, dsize |-> m.dsize, dptr |-> p, blk |-> m.blk]
  BY Parts DEF PutDir
<1> HIDE DEF p
<1>4. PutDir(m, d, b) \in DiskType
  BY <1>1, <1>2, <1>3, MakeDisk
<1>5. /\ PutDir(m, d, b).free = m.free /\ PutDir(m, d, b).dsize = m.dsize
      /\ PutDir(m, d, b).blk = m.blk /\ PutDir(m, d, b).dptr = p
  BY <1>3
<1>6. ASSUME NEW j \in File PROVE Fl(PutDir(m, d, b), j) = Fl(m, j)
  <2>1. DirOf(j) \in Dirs /\ EntryOf(j) \in 1 .. BLKFILES
    BY Files
  <2>2. CASE DirOf(j) = d
    <3>1. DirBlock(PutDir(m, d, b), j) = b /\ DirBlock(m, j) = 0
      BY <2>1, <2>2, <1>2, <1>5 DEF DirBlock
    <3>2. Fl(PutDir(m, d, b), j) = Cleared.file[EntryOf(j)]
      BY <3>1, <1>4, <1>5, FlType, Numbers
    <3> QED BY <2>1, <3>1, <3>2, FlType, ClearedType
  <2>3. CASE DirOf(j) # d
    <3>1. DirBlock(PutDir(m, d, b), j) = DirBlock(m, j)
      BY <2>1, <2>3, <1>2, <1>5 DEF DirBlock
    <3> QED BY <3>1, <1>4, <1>5, FlType
  <2> QED BY <2>2, <2>3
<1> QED BY <1>2, <1>4, <1>5, <1>6

LEMMA PutSizeIs ==
    ASSUME NEW m \in DiskType, NEW n \in 0 .. NDir
    PROVE /\ PutSize(m, n) \in DiskType
          /\ PutSize(m, n).free = m.free /\ PutSize(m, n).dsize = n
          /\ PutSize(m, n).blk = m.blk /\ PutSize(m, n).dptr = m.dptr
          /\ \A j \in File : Fl(PutSize(m, n), j) = Fl(m, j)
<1>1. PutSize(m, n) = [free |-> m.free, dsize |-> n, dptr |-> m.dptr, blk |-> m.blk]
  BY Parts DEF PutSize
<1>2. /\ m.dptr \in [Dirs -> {0} \cup Blk] /\ m.blk \in [Blk -> BlockType] /\ m.free \in SUBSET Blk
  BY Parts
<1> QED BY <1>1, <1>2, MakeDisk DEF Fl

LEMMA TakenIs ==
    ASSUME NEW m \in DiskType, NEW b \in Blk, ~Owned(m, b)
    PROVE /\ Taken(m, b) \in DiskType
          /\ Taken(m, b).free = m.free \ {b} /\ Taken(m, b).dsize = m.dsize
          /\ Taken(m, b).dptr = m.dptr /\ Taken(m, b).blk[b] = Cleared
          /\ \A a \in Blk : a # b => Taken(m, b).blk[a] = m.blk[a]
          /\ \A j \in File : Fl(Taken(m, b), j) = Fl(m, j)
<1>1. /\ m.dptr \in [Dirs -> {0} \cup Blk] /\ m.blk \in [Blk -> BlockType]
      /\ m.free \in SUBSET Blk /\ m.dsize \in 0 .. NDir
  BY Parts
<1>2. [m.blk EXCEPT ![b] = Cleared] \in [Blk -> BlockType]
  BY <1>1, ClearedType
<1>3. Taken(m, b) = [free |-> m.free \ {b}, dsize |-> m.dsize, dptr |-> m.dptr,
                     blk |-> [m.blk EXCEPT ![b] = Cleared]]
  <2> DEFINE n == [m EXCEPT !.free = @ \ {b}]
  <2>1. n = [free |-> m.free \ {b}, dsize |-> m.dsize, dptr |-> m.dptr, blk |-> m.blk]
    <3>1. m = [free |-> m.free, dsize |-> m.dsize, dptr |-> m.dptr, blk |-> m.blk]
      BY Parts
    <3>2. \A a : [m EXCEPT !.free = a] = [free |-> a, dsize |-> m.dsize, dptr |-> m.dptr,
                                          blk |-> m.blk]
      BY <3>1
    <3> QED BY <3>2
  <2>2. Taken(m, b) = [n EXCEPT !.blk[b] = Cleared]
    BY DEF Taken
  <2> HIDE DEF n
  <2> QED BY <2>1, <2>2
<1>4. Taken(m, b) \in DiskType
  BY <1>1, <1>2, <1>3, MakeDisk
<1>5. /\ Taken(m, b).free = m.free \ {b} /\ Taken(m, b).dsize = m.dsize
      /\ Taken(m, b).dptr = m.dptr
      /\ \A a \in Blk : Taken(m, b).blk[a] = IF a = b THEN Cleared ELSE m.blk[a]
  BY <1>1, <1>3
<1>6. ASSUME NEW j \in File PROVE Fl(Taken(m, b), j) = Fl(m, j)
  <2>1. DirBlock(Taken(m, b), j) = DirBlock(m, j)
    BY <1>5 DEF DirBlock
  <2>2. CASE DirBlock(m, j) = 0
    BY <2>1, <2>2, <1>4, FlType
  <2>3. CASE DirBlock(m, j) # 0
    <3>1. DirBlock(m, j) \in Blk /\ DirBlock(m, j) # b
      BY <2>3, FlType, Files, Numbers DEF Owned, DirBlock
    <3>2. Fl(Taken(m, b), j) = Taken(m, b).blk[DirBlock(m, j)].file[EntryOf(j)]
      BY <2>1, <2>3, <1>4, FlType
    <3>3. Fl(m, j) = m.blk[DirBlock(m, j)].file[EntryOf(j)]
      BY <2>3, FlType
    <3> QED BY <3>1, <3>2, <3>3, <1>5
  <2> QED BY <2>2, <2>3
<1> QED BY <1>4, <1>5, <1>6

\* What a reader of a file sees, block by block.
LEMMA ValIs == ASSUME NEW m \in DiskType, NEW i \in File, NEW k \in Index
    PROVE /\ Val(m, i, k) = IF k <= Fl(m, i).size /\ Ptr(m, i, k) # 0
                            THEN m.blk[Ptr(m, i, k)].val ELSE 0
          /\ k > NDIRECT /\ Fl(m, i).indirect = 0 => Ptr(m, i, k) = 0 /\ Val(m, i, k) = 0
<1>1. Val(m, i, k) = IF k <= Fl(m, i).size /\ Ptr(m, i, k) # 0
                     THEN m.blk[Ptr(m, i, k)].val ELSE 0
  BY DEF Val, Contents
<1> QED BY <1>1, PtrType

LEMMA ContentsIs == ASSUME NEW m, NEW n, NEW i \in File
    PROVE Contents(m, i) = Contents(n, i) <=>
            /\ Fl(m, i).name = Fl(n, i).name /\ Fl(m, i).size = Fl(n, i).size
            /\ \A k \in Index : Val(m, i, k) = Val(n, i, k)
<1> DEFINE D(a) == [k \in Index |-> IF k <= Fl(a, i).size /\ Ptr(a, i, k) # 0
                                    THEN a.blk[Ptr(a, i, k)].val ELSE 0]
<1>1. \A a : Contents(a, i) = [name |-> Fl(a, i).name, size |-> Fl(a, i).size, data |-> D(a)]
  BY DEF Contents
<1>2. \A a : Contents(a, i).data = D(a)
  <2> HIDE DEF D
  <2> QED BY <1>1
<1>3. D(m) = D(n) <=> \A k \in Index : D(m)[k] = D(n)[k]
  OBVIOUS
<1>4. \A a : \A k \in Index : Val(a, i, k) = D(a)[k]
  BY <1>2 DEF Val
<1> HIDE DEF D
<1>5. D(m) = D(n) <=> \A k \in Index : Val(m, i, k) = Val(n, i, k)
  BY <1>3, <1>4
<1> QED BY <1>1, <1>5
-----------------------------------------------------------------------------
\* Block writes: what they hold, and what they leave.
LEMMA HeldIs ==
    /\ \A m : Held(m, Bitmap) = m.free /\ Held(m, Super) = <<m.dsize, m.dptr>>
              /\ Held(m, 0) = Cleared
    /\ \A m : \A b \in Blk : Held(m, b) = m.blk[b]
BY Numbers DEF Held

LEMMA WriteIs == ASSUME NEW w \in WriteType
    PROVE /\ w.unit \in Units \cup {0} /\ w = [unit |-> w.unit, to |-> w.to]
          /\ w.unit = Bitmap => w.to \in SUBSET Blk
          /\ w.unit = Super => w.to \in SuperType
          /\ w.unit \in Blk => w.to \in BlockType
          /\ w.unit = 0 => w.to = Cleared
<1>1. CASE w \in [unit : {Bitmap}, to : SUBSET Blk]
  BY <1>1, Numbers DEF Units
<1>2. CASE w \in [unit : {Super}, to : SuperType]
  BY <1>2, Numbers DEF Units
<1>3. CASE w \in [unit : Blk, to : BlockType]
  BY <1>3, Numbers DEF Units
<1>4. CASE w \in [unit : {0}, to : {Cleared}]
  BY <1>4, Numbers DEF Units
<1> QED BY <1>1, <1>2, <1>3, <1>4 DEF WriteType

LEMMA OwnWrite == ASSUME NEW m \in DiskType, NEW u \in Units \cup {0}
    PROVE /\ Block(m, u) \in WriteType
          /\ Block(m, u).unit = u /\ Block(m, u).to = Held(m, u)
<1>1. Block(m, u) = [unit |-> u, to |-> Held(m, u)]
  BY DEF Block
<1>2. CASE u = Bitmap
  <2>1. Held(m, u) \in SUBSET Blk
    BY <1>2, HeldIs, Parts
  <2> QED BY <1>1, <1>2, <2>1 DEF WriteType
<1>3. CASE u = Super
  <2>1. m.dsize \in 0 .. NDir /\ m.dptr \in [1 .. NDir -> {0} \cup Blk]
    BY Parts DEF Dirs
  <2>2. Held(m, u) \in SuperType
    BY <1>3, HeldIs, <2>1 DEF SuperType
  <2> QED BY <1>1, <1>3, <2>2 DEF WriteType
<1>4. CASE u \in Blk
  <2>1. Held(m, u) \in BlockType
    BY <1>4, HeldIs, Parts
  <2> QED BY <1>1, <1>4, <2>1 DEF WriteType
<1>5. CASE u = 0
  <2>1. Held(m, u) = Cleared
    BY <1>5, HeldIs
  <2> QED BY <1>1, <1>5, <2>1 DEF WriteType
<1> QED BY <1>1, <1>2, <1>3, <1>4, <1>5 DEF Units

LEMMA WrittenIs == ASSUME NEW d \in DiskType, NEW w \in WriteType
    PROVE /\ Written(d, w) \in DiskType
          /\ \A u \in Units : Held(Written(d, w), u) = IF u = w.unit THEN w.to ELSE Held(d, u)
<1> DEFINE e == Written(d, w)
<1>0. /\ d.free \in SUBSET Blk /\ d.dsize \in 0 .. NDir
      /\ d.dptr \in [Dirs -> {0} \cup Blk] /\ d.blk \in [Blk -> BlockType]
      /\ d = [free |-> d.free, dsize |-> d.dsize, dptr |-> d.dptr, blk |-> d.blk]
  BY Parts
<1>1. CASE w.unit = Bitmap
  <2>1. w.to \in SUBSET Blk
    BY <1>1, WriteIs
  <2>2. e = [free |-> w.to, dsize |-> d.dsize, dptr |-> d.dptr, blk |-> d.blk]
    <3>1. \A a : [d EXCEPT !.free = a] = [free |-> a, dsize |-> d.dsize, dptr |-> d.dptr,
                                          blk |-> d.blk]
      BY <1>0
    <3>2. e = [d EXCEPT !.free = w.to]
      BY <1>1, Numbers DEF Written
    <3> QED BY <3>1, <3>2
  <2> HIDE DEF e
  <2>3. e \in DiskType /\ e.free = w.to /\ e.dsize = d.dsize /\ e.dptr = d.dptr /\ e.blk = d.blk
    BY <1>0, <2>1, <2>2, MakeDisk
  <2>4. \A u \in Units : Held(e, u) = IF u = w.unit THEN w.to ELSE Held(d, u)
    BY <1>1, <2>3, HeldIs, Numbers DEF Units
  <2> QED BY <2>3, <2>4 DEF e
<1>2. CASE w.unit = Super
  <2>1. w.to \in SuperType
    BY <1>2, WriteIs
  <2>2. w.to[1] \in 0 .. NDir /\ w.to[2] \in [Dirs -> {0} \cup Blk] /\ w.to = <<w.to[1], w.to[2]>>
    BY <2>1 DEF SuperType, Dirs
  <2>3. e = [free |-> d.free, dsize |-> w.to[1], dptr |-> w.to[2], blk |-> d.blk]
    BY <1>0, <1>2, Numbers DEF Written
  <2> HIDE DEF e
  <2>4. e \in DiskType /\ e.free = d.free /\ e.dsize = w.to[1] /\ e.dptr = w.to[2] /\ e.blk = d.blk
    BY <1>0, <2>2, <2>3, MakeDisk
  <2>5. \A u \in Units : Held(e, u) = IF u = w.unit THEN w.to ELSE Held(d, u)
    BY <1>2, <2>2, <2>4, HeldIs, Numbers DEF Units
  <2> QED BY <2>4, <2>5 DEF e
<1>3. CASE w.unit \in Blk
  <2>1. w.to \in BlockType
    BY <1>3, WriteIs
  <2>2. e = [free |-> d.free, dsize |-> d.dsize, dptr |-> d.dptr,
             blk |-> [d.blk EXCEPT ![w.unit] = w.to]]
    <3>1. w.unit # Bitmap /\ w.unit # Super
      BY <1>3, Numbers
    <3>2. e = [d EXCEPT !.blk = [@ EXCEPT ![w.unit] = w.to]]
      BY <1>3, <3>1 DEF Written
    <3> QED BY <1>0, <3>2
  <2>3. [d.blk EXCEPT ![w.unit] = w.to] \in [Blk -> BlockType]
    BY <1>0, <2>1
  <2> HIDE DEF e
  <2>4. e \in DiskType /\ e.free = d.free /\ e.dsize = d.dsize /\ e.dptr = d.dptr
        /\ e.blk = [d.blk EXCEPT ![w.unit] = w.to]
    BY <1>0, <2>2, <2>3, MakeDisk
  <2>5. \A u \in Units : Held(e, u) = IF u = w.unit THEN w.to ELSE Held(d, u)
    <3>1. w.unit # Bitmap /\ w.unit # Super
      BY <1>3, Numbers
    <3>2. \A u \in Blk : e.blk[u] = IF u = w.unit THEN w.to ELSE d.blk[u]
      BY <1>0, <1>3, <2>4
    <3>3. \A u \in Blk : Held(e, u) = e.blk[u] /\ Held(d, u) = d.blk[u]
      BY HeldIs
    <3>4. Held(e, Bitmap) = Held(d, Bitmap) /\ Held(e, Super) = Held(d, Super)
      BY <2>4, HeldIs
    <3> QED BY <3>1, <3>2, <3>3, <3>4 DEF Units
  <2> QED BY <2>4, <2>5 DEF e
<1>4. CASE w.unit = 0
  <2>1. e = d
    BY <1>4, Numbers DEF Written, Units
  <2> QED BY <1>4, <2>1, Numbers
<1> QED BY <1>1, <1>2, <1>3, <1>4, WriteIs DEF Units

\* The clean writes at the head of a sequence are passed over.
Dropped(d, q, k, p) ==
    /\ k \in 0 .. Len(q)
    /\ p \in Seq(WriteType) /\ Len(p) = Len(q) - k
    /\ \A n \in 1 .. Len(p) : p[n] = q[n + k]
    /\ \A n \in 1 .. k : Held(d, q[n].unit) = q[n].to

LEMMA RestIs == ASSUME NEW d, NEW q \in Seq(WriteType) PROVE \E k : Dropped(d, q, k, Rest(d, q))
<1> DEFINE dirty == {n \in DOMAIN q : Held(d, q[n].unit) # q[n].to}
<1>0. Len(q) \in Nat /\ DOMAIN q = 1 .. Len(q) /\ \A n \in 1 .. Len(q) : q[n] \in WriteType
  OBVIOUS
<1>1. CASE dirty = {}
  <2>1. Rest(d, q) = <<>>
    BY <1>1 DEF Rest
  <2>2. \A n \in 1 .. Len(q) : Held(d, q[n].unit) = q[n].to
    BY <1>0, <1>1
  <2>3. Dropped(d, q, Len(q), <<>>)
    BY <1>0, <2>2 DEF Dropped
  <2> QED BY <2>1, <2>3
<1>2. CASE dirty # {}
  <2> DEFINE f == CHOOSE n \in dirty : \A o \in dirty : n <= o
  <2>1. dirty \in SUBSET Nat
    BY <1>0
  <2>2. \E n \in dirty : \A o \in dirty : n <= o
    BY <1>2, <2>1, Least
  <2>3. f \in dirty /\ \A o \in dirty : f <= o
    BY <2>2
  <2>4. Rest(d, q) = SubSeq(q, f, Len(q))
    BY <1>2 DEF Rest
  <2>5. f \in 1 .. Len(q) /\ \A n \in 1 .. Len(q) : n < f => Held(d, q[n].unit) = q[n].to
    BY <1>0, <2>3
  <2> HIDE DEF f
  <2>6. /\ SubSeq(q, f, Len(q)) \in Seq(WriteType) /\ Len(SubSeq(q, f, Len(q))) = Len(q) - f + 1
        /\ \A n \in 1 .. Len(q) - f + 1 : SubSeq(q, f, Len(q))[n] = q[f + n - 1]
    <3>1. \A n \in f .. Len(q) : q[n] \in WriteType
      BY <1>0, <2>5
    <3>2. f \in Int /\ Len(q) \in Int /\ f <= Len(q)
      BY <1>0, <2>5
    <3> QED BY <3>1, <3>2, SubSeqProperties
  <2>7. Dropped(d, q, f - 1, SubSeq(q, f, Len(q)))
    <3>1. f - 1 \in 0 .. Len(q) /\ Len(SubSeq(q, f, Len(q))) = Len(q) - (f - 1)
      BY <1>0, <2>5, <2>6
    <3>2. \A n \in 1 .. f - 1 : n \in 1 .. Len(q) /\ n < f
      BY <1>0, <2>5
    <3>3. \A n \in 1 .. Len(SubSeq(q, f, Len(q))) :
              n \in 1 .. Len(q) - f + 1 /\ f + n - 1 = n + (f - 1)
      BY <1>0, <2>5, <2>6
    <3> QED BY <2>5, <2>6, <3>1, <3>2, <3>3 DEF Dropped
  <2> QED BY <2>4, <2>7
<1> QED BY <1>1, <1>2
-----------------------------------------------------------------------------
\* Less behind: fewer blocks still to be cleared.
LEMMA LateBlocks == ASSUME NEW q, NEW c, Clears(q, c)
    PROVE \A n : Late(q, c, n) \subseteq Blk
BY DEF Clears, Late

LEMMA LessLate == ASSUME NEW u, NEW v, NEW m, NEW late, NEW less, less \subseteq late, NEW S,
                         FitsAs(u, v, m, late, S)
    PROVE FitsAs(u, v, m, less, S)
<1>1. \A p, r : OldPtr(p, r, late) => OldPtr(p, r, less)
  BY DEF OldPtr
<1>2. \A g, f : OldFile(g, f, late) => OldFile(g, f, less)
  BY <1>1 DEF OldFile
<1>3. BehindSuper(v, m, late) => BehindSuper(v, m, less)
  BY <1>1 DEF BehindSuper
<1>4. BehindFiles(u, v, m, late) => BehindFiles(u, v, m, less)
  BY <1>2 DEF BehindFiles
<1>5. BehindPtrs(u, v, m, late) => BehindPtrs(u, v, m, less)
  BY <1>1 DEF BehindPtrs
<1> QED BY <1>3, <1>4, <1>5 DEF FitsAs, Behind

LEMMA FitsFewer == ASSUME NEW d, NEW m, NEW q, NEW S, NEW T \in SUBSET S, Fits(d, m, q, S)
    PROVE Fits(d, m, q, T)
<1>1. PICK c \in SUBSET DOMAIN q : FitsBy(d, m, q, S, c)
  BY DEF Fits
<1>2. \A u, v, late : FitsAs(u, v, m, late, S) => FitsAs(u, v, m, late, T)
  BY DEF FitsAs
<1>3. FitsBy(d, m, q, T, c)
  BY <1>1, <1>2 DEF FitsBy
<1> QED BY <1>3 DEF Fits

\* The disk after the first write.
LEMMA FitsWritten ==
    ASSUME NEW d \in DiskType, NEW m, NEW q \in Seq(WriteType), q # <<>>, NEW S, Fits(d, m, q, S)
    PROVE Fits(Written(d, q[1]), m, q, S)
<1>1. PICK c \in SUBSET DOMAIN q : FitsBy(d, m, q, S, c)
  BY DEF Fits
<1> DEFINE e == Written(d, q[1])
<1>2. 1 \in DOMAIN q /\ q[1] \in WriteType
  OBVIOUS
<1>3. \A u \in Units : Held(e, u) = IF u = q[1].unit THEN q[1].to ELSE Held(d, u)
  BY <1>2, WrittenIs
<1> HIDE DEF e
<1>4. Bitmap \in Units
  BY DEF Units
<1>5. e.free = IF q[1].unit = Bitmap THEN q[1].to ELSE d.free
  BY <1>3, <1>4, HeldIs
<1>6. Freed0(q[1].to, m, q, c, 1) => Freed0(q[1].to, m, q, c, 0)
  <2>1. \A o \in DOMAIN q : o > 1 => o > 0
    OBVIOUS
  <2> QED BY <2>1 DEF Freed0
<1>7. Freed0(e.free, m, q, c, 0)
  BY <1>1, <1>2, <1>5, <1>6 DEF FitsBy
<1>8. ASSUME NEW u \in Units, u \notin Late(q, c, 0)
      PROVE FitsAs(u, Held(e, u), m, Late(q, c, 0), S)
  <2>1. CASE u # q[1].unit
    BY <1>1, <1>3, <1>8, <2>1 DEF FitsBy
  <2>2. CASE u = q[1].unit
    <3>1. 1 \notin c
      BY <1>8, <2>2 DEF Late
    <3>2. Late(q, c, 0) = Late(q, c, 1)
      <4>1. \A o \in c : o > 0 <=> o > 1
        BY <3>1
      <4> QED BY <4>1 DEF Late
    <3>3. FitsAs(u, q[1].to, m, Late(q, c, 1), S)
      BY <1>1, <1>2, <2>2 DEF FitsBy
    <3> QED BY <1>3, <2>2, <3>2, <3>3
  <2> QED BY <2>1, <2>2
<1>9. FitsBy(e, m, q, S, c)
  BY <1>1, <1>7, <1>8 DEF FitsBy
<1> QED BY <1>9 DEF Fits, e

\* The writes that are passed over are on the disk.
LEMMA FitsDropped ==
    ASSUME NEW d \in DiskType, NEW m, NEW q \in Seq(WriteType), NEW S, Fits(d, m, q, S),
           NEW k, NEW p, Dropped(d, q, k, p)
    PROVE Fits(d, m, p, S)
<1>1. PICK c \in SUBSET DOMAIN q : FitsBy(d, m, q, S, c)
  BY DEF Fits
<1>2. /\ k \in Nat /\ k <= Len(q) /\ Len(q) \in Nat
      /\ DOMAIN q = 1 .. Len(q) /\ DOMAIN p = 1 .. (Len(q) - k)
      /\ \A n \in DOMAIN p : n \in Nat /\ n > 0 /\ n + k \in DOMAIN q /\ p[n] = q[n + k]
      /\ \A n \in DOMAIN q : n > k => n - k \in DOMAIN p /\ p[n - k] = q[n]
      /\ \A n \in DOMAIN q : n <= k => Held(d, q[n].unit) = q[n].to
  <2>1. k \in 0 .. Len(q) /\ Len(q) \in Nat /\ p \in Seq(WriteType) /\ Len(p) = Len(q) - k
    BY DEF Dropped
  <2>2. DOMAIN q = 1 .. Len(q) /\ DOMAIN p = 1 .. (Len(q) - k)
    BY <2>1
  <2>3. \A n \in DOMAIN p : n \in Nat /\ n > 0 /\ n + k \in DOMAIN q /\ p[n] = q[n + k]
    BY <2>1, <2>2 DEF Dropped
  <2>4. ASSUME NEW n \in DOMAIN q, n > k PROVE n - k \in DOMAIN p /\ p[n - k] = q[n]
    <3>1. n - k \in DOMAIN p /\ (n - k) + k = n
      BY <2>1, <2>2, <2>4
    <3> QED BY <2>3, <3>1
  <2>5. \A n \in DOMAIN q : n <= k => Held(d, q[n].unit) = q[n].to
    BY <2>1, <2>2 DEF Dropped
  <2> QED BY <2>1, <2>2, <2>3, <2>4, <2>5
<1> DEFINE a == {n \in DOMAIN p : n + k \in c}
<1>3. \A n \in Nat : Late(p, a, n) = Late(q, c, n + k)
  <2> TAKE n \in Nat
  <2>1. ASSUME NEW b \in Late(p, a, n) PROVE b \in Late(q, c, n + k)
    <3>1. PICK o \in a : o > n /\ b = p[o].unit
      BY <2>1 DEF Late
    <3>2. o + k \in c /\ o + k > n + k /\ b = q[o + k].unit
      BY <1>2, <3>1
    <3> QED BY <3>2 DEF Late
  <2>2. ASSUME NEW b \in Late(q, c, n + k) PROVE b \in Late(p, a, n)
    <3>1. PICK o \in c : o > n + k /\ b = q[o].unit
      BY <2>2 DEF Late
    <3>2. o \in DOMAIN q /\ o > k /\ o - k > n /\ (o - k) + k = o
      BY <1>2, <3>1
    <3>3. o - k \in a /\ p[o - k] = q[o]
      BY <1>2, <3>1, <3>2
    <3> QED BY <3>1, <3>2, <3>3 DEF Late
  <2> QED BY <2>1, <2>2
<1>4. Clears(p, a)
  <2>1. \A n \in a : n + k \in c /\ p[n] = q[n + k] /\ n \in Nat
    BY <1>2
  <2>2. Clears(q, c)
    BY <1>1 DEF FitsBy
  <2>3. \A n, o \in a : n + k = o + k => n = o
    BY <1>2, <2>1
  <2> HIDE DEF a
  <2>4. \A n \in a : p[n].unit \in Blk /\ p[n].to = Cleared
    BY <2>1, <2>2 DEF Clears
  <2>5. \A n, o \in a : p[n].unit = p[o].unit => n = o
    BY <2>1, <2>2, <2>3 DEF Clears
  <2> QED BY <2>4, <2>5 DEF Clears
<1> HIDE DEF a
<1>5. ASSUME NEW o \in DOMAIN q, o > k, NEW b, Takes(q, c, o, b) PROVE Takes(p, a, o - k, b)
  <2>1. o - k \in DOMAIN p /\ p[o - k] = q[o] /\ o - k \in Nat /\ (o - k) + k = o
    BY <1>2, <1>5
  <2>2. p[o - k].unit = Bitmap /\ b \in Late(p, a, o - k)
    BY <1>3, <1>5, <2>1 DEF Takes
  <2>3. ASSUME NEW n \in DOMAIN p, n >= o - k, p[n].unit = Bitmap PROVE b \notin p[n].to
    <3>1. n + k \in DOMAIN q /\ p[n] = q[n + k] /\ n + k >= o
      BY <1>2, <2>3
    <3> QED BY <1>5, <2>3, <3>1 DEF Takes
  <2> QED BY <2>2, <2>3 DEF Takes
<1>6. ASSUME NEW free, NEW n \in Nat, Freed0(free, m, q, c, n + k) PROVE Freed0(free, m, p, a, n)
  <2> SUFFICES ASSUME NEW b \in free, b \notin m.free
               PROVE \E o \in DOMAIN p : o > n /\ Takes(p, a, o, b)
    BY DEF Freed0
  <2>1. PICK o \in DOMAIN q : o > n + k /\ Takes(q, c, o, b)
    BY <1>6 DEF Freed0
  <2>2. o > k /\ o - k \in DOMAIN p /\ o - k > n
    BY <1>2, <2>1
  <2> QED BY <1>5, <2>1, <2>2
<1>7. Freed0(d.free, m, p, a, 0)
  <2> SUFFICES ASSUME NEW b \in d.free, b \notin m.free
               PROVE \E o \in DOMAIN p : o > 0 /\ Takes(p, a, o, b)
    BY DEF Freed0
  <2>1. PICK o \in DOMAIN q : o > 0 /\ Takes(q, c, o, b)
    BY <1>1 DEF FitsBy, Freed0
  <2>2. o > k
    <3> SUFFICES ASSUME ~(o > k) PROVE FALSE
      OBVIOUS
    <3>1. o <= k /\ o >= o
      BY <1>2
    <3>2. q[o].unit = Bitmap /\ b \notin q[o].to
      BY <2>1, <3>1 DEF Takes
    <3>3. q[o].to = d.free
      BY <1>2, <3>1, <3>2, HeldIs
    <3> QED BY <3>2, <3>3
  <2>3. o - k \in DOMAIN p /\ o - k > 0
    BY <1>2, <2>2
  <2> QED BY <1>5, <2>1, <2>2, <2>3
<1>8. ASSUME NEW u \in Units, u \notin Late(p, a, 0)
      PROVE FitsAs(u, Held(d, u), m, Late(p, a, 0), S)
  <2>1. Late(p, a, 0) = Late(q, c, k)
    BY <1>2, <1>3
  <2>2. CASE u \notin Late(q, c, 0)
    <3>1. Late(q, c, k) \subseteq Late(q, c, 0)
      BY <1>2 DEF Late
    <3>2. FitsAs(u, Held(d, u), m, Late(q, c, 0), S)
      BY <1>1, <2>2 DEF FitsBy
    <3> QED BY <2>1, <3>1, <3>2, LessLate
  <2>3. CASE u \in Late(q, c, 0)
    <3>1. PICK n \in c : n > 0 /\ u = q[n].unit
      BY <2>3 DEF Late
    <3>2. n \in DOMAIN q /\ n <= k
      <4>1. u \notin Late(q, c, k)
        BY <1>8, <2>1
      <4>2. ~(n > k)
        BY <3>1, <4>1 DEF Late
      <4>3. n \in DOMAIN q
        OBVIOUS
      <4> QED BY <1>2, <4>2, <4>3
    <3>3. Held(d, u) = q[n].to
      BY <1>2, <3>1, <3>2
    <3>4. FitsAs(u, q[n].to, m, Late(q, c, n), S)
      BY <1>1, <3>1, <3>2 DEF FitsBy
    <3>5. Late(q, c, k) \subseteq Late(q, c, n)
      <4>1. \A o \in c : o > k => o > n
        BY <1>2, <3>2
      <4> QED BY <4>1 DEF Late
    <3> QED BY <2>1, <3>3, <3>4, <3>5, LessLate
  <2> QED BY <2>2, <2>3
<1>9. ASSUME NEW n \in DOMAIN p
      PROVE /\ p[n].unit = Bitmap => Freed0(p[n].to, m, p, a, n)
            /\ FitsAs(p[n].unit, p[n].to, m, Late(p, a, n), S)
  <2>1. n \in Nat /\ n + k \in DOMAIN q /\ p[n] = q[n + k]
    BY <1>2
  <2>2. /\ q[n + k].unit = Bitmap => Freed0(q[n + k].to, m, q, c, n + k)
        /\ FitsAs(q[n + k].unit, q[n + k].to, m, Late(q, c, n + k), S)
    BY <1>1, <2>1 DEF FitsBy
  <2> QED BY <1>3, <1>6, <2>1, <2>2
<1>10. FitsBy(d, m, p, S, a)
  BY <1>4, <1>7, <1>8, <1>9 DEF FitsBy
<1>11. a \in SUBSET DOMAIN p
  BY DEF a
<1> QED BY <1>10, <1>11 DEF Fits
-----------------------------------------------------------------------------
\* The cache is behind itself.
LEMMA DirBlockBound == ASSUME NEW m \in DiskType, Sound(m), NEW i \in File, Fl(m, i).name # NoName
    PROVE DirBlock(m, i) # 0 /\ DirOf(i) <= m.dsize
<1>1. DirBlock(m, i) # 0
  <2>1. NoFile.name = NoName
    BY DEF NoFile
  <2> QED BY <2>1, FlType
<1>2. DirOf(i) \in 1 .. NDir
  BY Files DEF Dirs
<1> QED BY <1>1, <1>2 DEF Sound, DirBlock

LEMMA OwnFits ==
    ASSUME NEW m \in DiskType, Sound(m), NEW S \in SUBSET File,
           \A i \in S : Fl(m, i).name # NoName, NEW u \in Units \cup {0}
    PROVE FitsAs(u, Held(m, u), m, {}, S)
<1>1. \A p : OldPtr(p, p, {})
  BY DEF OldPtr
<1>2. \A f : OldFile(f, f, {})
  BY <1>1 DEF OldFile
<1>3. u = Super => Held(m, u)[1] = m.dsize /\ Held(m, u)[2] = m.dptr
  BY HeldIs
<1>4. u = Super => BehindSuper(Held(m, u), m, {})
  BY <1>1, <1>3 DEF BehindSuper, Sound
<1>5. u \in Blk => Held(m, u) = m.blk[u]
  BY HeldIs
<1>6. \A i \in File : u \in Blk /\ DirBlock(m, i) = u => m.blk[u].file[EntryOf(i)] = Fl(m, i)
  BY FlType, Numbers
<1>7. u \in Blk => BehindFiles(u, Held(m, u), m, {}) /\ BehindPtrs(u, Held(m, u), m, {})
  BY <1>1, <1>2, <1>5, <1>6 DEF BehindFiles, BehindPtrs
<1>8. ASSUME NEW i \in S PROVE Kept(u, Held(m, u), m, i)
  <2>0. i \in File
    OBVIOUS
  <2>1. u = Super => Held(m, u)[2][DirOf(i)] = m.dptr[DirOf(i)] /\ DirOf(i) <= Held(m, u)[1]
    BY <1>3, DirBlockBound
  <2>2. ASSUME NEW k \in 1 .. NDIRECT, Fl(m, i).direct[k] = 0 PROVE Val(m, i, k) = 0
    <3>1. k \in Index /\ k <= NDIRECT
      BY Numbers
    <3> QED BY <2>0, <2>2, <3>1, ValIs, PtrType
  <2>3. ASSUME NEW k \in Index, k > NDIRECT, Fl(m, i).indirect = 0 PROVE Val(m, i, k) = 0
    BY <2>0, <2>3, ValIs
  <2>4. KeptFile(Fl(m, i), m, i)
    BY <2>2, <2>3 DEF KeptFile
  <2>5. ASSUME u \in Blk, Fl(m, i).indirect = u, NEW k \in 1 .. NINDIRECT, m.blk[u].ptr[k] = 0
        PROVE Val(m, i, k + NDIRECT) = 0
    <3>1. k + NDIRECT \in Index /\ k + NDIRECT > NDIRECT /\ (k + NDIRECT) - NDIRECT = k /\ u # 0
      BY <2>5, Numbers
    <3>2. Ptr(m, i, k + NDIRECT) = 0
      BY <2>0, <2>5, <3>1, PtrType
    <3> QED BY <2>0, <3>1, <3>2, ValIs
  <2>6. ASSUME u \in Blk, NEW k \in Index, k <= Fl(m, i).size, Ptr(m, i, k) = u
        PROVE m.blk[u].val = Val(m, i, k)
    BY <2>0, <2>6, ValIs, Numbers
  <2> QED BY <1>5, <1>6, <2>0, <2>1, <2>4, <2>5, <2>6 DEF Kept
<1> QED BY <1>4, <1>7, <1>8 DEF FitsAs, Behind

LEMMA FitsRefl ==
    ASSUME NEW m \in DiskType, Sound(m), NEW S \in SUBSET File, \A i \in S : Fl(m, i).name # NoName
    PROVE Fits(m, m, <<>>, S)
<1>1. DOMAIN <<>> = {}
  OBVIOUS
<1>2. \A n : Late(<<>>, {}, n) = {}
  BY DEF Late
<1>3. Clears(<<>>, {}) /\ Freed0(m.free, m, <<>>, {}, 0)
  BY DEF Clears, Freed0
<1>4. \A u \in Units : FitsAs(u, Held(m, u), m, {}, S)
  BY OwnFits
<1>5. FitsBy(m, m, <<>>, S, {})
  BY <1>1, <1>2, <1>3, <1>4 DEF FitsBy
<1> QED BY <1>5 DEF Fits

\* Writes of what the cache holds may follow.
Own(m, p) == p \in Seq(WriteType) /\ \A n \in 1 .. Len(p) : p[n].to = Held(m, p[n].unit)

LEMMA FitsAppend ==
    ASSUME NEW d, NEW m \in DiskType, Sound(m), NEW q \in Seq(WriteType),
           NEW S \in SUBSET File, \A i \in S : Fl(m, i).name # NoName,
           Fits(d, m, q, S), NEW p, Own(m, p)
    PROVE Fits(d, m, q \o p, S)
<1>1. PICK c \in SUBSET DOMAIN q : FitsBy(d, m, q, S, c)
  BY DEF Fits
<1> DEFINE r == q \o p
<1>2. /\ p \in Seq(WriteType) /\ Len(q) \in Nat /\ Len(p) \in Nat
      /\ DOMAIN q = 1 .. Len(q) /\ DOMAIN r = 1 .. Len(q) + Len(p) /\ DOMAIN p = 1 .. Len(p)
      /\ \A n \in DOMAIN q : n \in DOMAIN r /\ r[n] = q[n]
      /\ \A n \in DOMAIN r : n \notin DOMAIN q =>
             n > Len(q) /\ n - Len(q) \in DOMAIN p /\ r[n] = p[n - Len(q)]
  <2>1. p \in Seq(WriteType)
    BY DEF Own
  <2>2. r \in Seq(WriteType) /\ Len(r) = Len(q) + Len(p)
        /\ \A i \in 1 .. Len(q) + Len(p) : r[i] = IF i <= Len(q) THEN q[i] ELSE p[i - Len(q)]
    BY <2>1, ConcatProperties
  <2>3. Len(q) \in Nat /\ Len(p) \in Nat /\ DOMAIN q = 1 .. Len(q) /\ DOMAIN p = 1 .. Len(p)
        /\ DOMAIN r = 1 .. Len(q) + Len(p)
    BY <2>1, <2>2
  <2> HIDE DEF r
  <2> QED BY <2>1, <2>2, <2>3
<1> HIDE DEF r
<1>3. c \in SUBSET DOMAIN r /\ c \in SUBSET DOMAIN q /\ \A n \in c : r[n] = q[n]
  BY <1>2
<1>4. \A n : Late(r, c, n) = Late(q, c, n)
  BY <1>3 DEF Late
<1>5. \A n \in DOMAIN r : n \notin DOMAIN q => Late(r, c, n) = {}
  <2>1. \A n \in DOMAIN r, o \in c : n \notin DOMAIN q => ~(o > n)
    BY <1>2, <1>3
  <2> QED BY <2>1 DEF Late
<1>6. Clears(r, c)
  BY <1>1, <1>3 DEF FitsBy, Clears
<1>7. ASSUME NEW n \in DOMAIN r, n \notin DOMAIN q
      PROVE r[n].to = Held(m, r[n].unit) /\ r[n].unit \in Units \cup {0}
  <2>1. n - Len(q) \in 1 .. Len(p) /\ r[n] = p[n - Len(q)] /\ r[n] \in WriteType
    BY <1>2, <1>7
  <2> QED BY <2>1, WriteIs DEF Own
<1>8. ASSUME NEW o \in DOMAIN q, NEW b, b \notin m.free, Takes(q, c, o, b) PROVE Takes(r, c, o, b)
  <2>1. r[o].unit = Bitmap /\ b \in Late(r, c, o)
    BY <1>2, <1>4, <1>8 DEF Takes
  <2>2. ASSUME NEW n \in DOMAIN r, n >= o, r[n].unit = Bitmap PROVE b \notin r[n].to
    <3>1. CASE n \in DOMAIN q
      BY <1>2, <1>8, <2>2, <3>1 DEF Takes
    <3>2. CASE n \notin DOMAIN q
      BY <1>7, <1>8, <2>2, <3>2, HeldIs
    <3> QED BY <3>1, <3>2
  <2> QED BY <2>1, <2>2 DEF Takes
<1>9. \A free, n : Freed0(free, m, q, c, n) => Freed0(free, m, r, c, n)
  BY <1>2, <1>8 DEF Freed0
<1>10. ASSUME NEW n \in DOMAIN r
       PROVE /\ r[n].unit = Bitmap => Freed0(r[n].to, m, r, c, n)
             /\ FitsAs(r[n].unit, r[n].to, m, Late(r, c, n), S)
  <2>1. CASE n \in DOMAIN q
    BY <1>1, <1>2, <1>4, <1>9, <2>1 DEF FitsBy
  <2>2. CASE n \notin DOMAIN q
    <3>1. r[n].unit = Bitmap => Freed0(r[n].to, m, r, c, n)
      BY <1>7, <2>2, HeldIs DEF Freed0
    <3>2. FitsAs(r[n].unit, r[n].to, m, {}, S)
      BY <1>7, <2>2, OwnFits
    <3> QED BY <1>5, <2>2, <3>1, <3>2
  <2> QED BY <2>1, <2>2
<1>11. FitsBy(d, m, r, S, c)
  BY <1>1, <1>4, <1>6, <1>9, <1>10 DEF FitsBy
<1> QED BY <1>3, <1>11 DEF Fits, r
-----------------------------------------------------------------------------
\* A disk behind a sound cache is sound, and has the files of S.
LEMMA OldPtrs ==
    ASSUME NEW d \in DiskType, NEW m \in DiskType, NEW q \in Seq(WriteType), NEW S,
           NEW c \in SUBSET DOMAIN q, FitsBy(d, m, q, S, c)
    PROVE /\ \A b \in d.free : b \in m.free \/ b \in Late(q, c, 0)
          /\ \A e \in Dirs : OldPtr(d.dptr[e], m.dptr[e], Late(q, c, 0))
          /\ \A e \in Dirs : d.dptr[e] # 0 => e <= d.dsize
          /\ \A i \in File : OldFile(Fl(d, i), Fl(m, i), Late(q, c, 0))
          /\ \A i \in File, k \in Index : OldPtr(Ptr(d, i, k), Ptr(m, i, k), Late(q, c, 0))
<1> DEFINE L == Late(q, c, 0)
<1>0. 0 \notin L /\ Super \notin L
  BY LateBlocks, Numbers DEF FitsBy
<1>1. \A b \in d.free : b \in m.free \/ b \in L
  <2> SUFFICES ASSUME NEW b \in d.free, b \notin m.free PROVE b \in L
    OBVIOUS
  <2>1. PICK o \in DOMAIN q : o > 0 /\ b \in Late(q, c, o)
    BY DEF FitsBy, Freed0, Takes
  <2>2. PICK n \in c : n > o /\ b = q[n].unit
    BY <2>1 DEF Late
  <2>3. n > 0
    BY <2>1, <2>2
  <2> QED BY <2>2, <2>3 DEF Late, L
<1>2. \A u \in Units : u \notin L => FitsAs(u, Held(d, u), m, L, S)
  BY DEF FitsBy
<1> HIDE DEF L
<1>3. /\ \A e \in Dirs : OldPtr(d.dptr[e], m.dptr[e], L)
      /\ \A e \in Dirs : d.dptr[e] # 0 => e <= d.dsize
  <2>1. Super \in Units /\ Held(d, Super)[1] = d.dsize /\ Held(d, Super)[2] = d.dptr
    BY HeldIs DEF Units
  <2>2. BehindSuper(Held(d, Super), m, L)
    BY <1>0, <1>2, <2>1 DEF FitsAs, Behind
  <2> QED BY <2>1, <2>2 DEF BehindSuper, Dirs
<1>4. \A b \in Blk : b \notin L => BehindFiles(b, d.blk[b], m, L) /\ BehindPtrs(b, d.blk[b], m, L)
  <2>1. \A b \in Blk : b \in Units /\ Held(d, b) = d.blk[b]
    BY HeldIs DEF Units
  <2> QED BY <1>2, <2>1 DEF FitsAs, Behind
<1>5. ASSUME NEW i \in File PROVE OldFile(Fl(d, i), Fl(m, i), L)
  <2>1. OldPtr(DirBlock(d, i), DirBlock(m, i), L)
    BY <1>3, Files DEF DirBlock
  <2>2. CASE DirBlock(d, i) = 0
    <3>1. Fl(d, i) = NoFile
      BY <2>2, FlType
    <3>2. /\ NoFile.name = NoName /\ NoFile.indirect = 0
          /\ \A k \in 1 .. NDIRECT : NoFile.direct[k] = 0
      BY DEF NoFile
    <3> QED BY <1>0, <3>1, <3>2 DEF OldFile, OldPtr
  <2>3. CASE DirBlock(d, i) # 0
    <3>1. /\ DirBlock(d, i) = DirBlock(m, i) /\ DirBlock(d, i) \in Blk /\ DirBlock(d, i) \notin L
          /\ Fl(d, i) = d.blk[DirBlock(d, i)].file[EntryOf(i)]
      BY <2>1, <2>3, FlType DEF OldPtr
    <3> QED BY <1>4, <3>1 DEF BehindFiles
  <2> QED BY <2>2, <2>3
<1>6. ASSUME NEW i \in File, NEW k \in Index PROVE OldPtr(Ptr(d, i, k), Ptr(m, i, k), L)
  <2>1. CASE k <= NDIRECT
    <3>1. k \in 1 .. NDIRECT
      BY <2>1, Numbers
    <3> QED BY <1>5, <2>1, <3>1, PtrType DEF OldFile
  <2>2. CASE k > NDIRECT
    <3>1. OldPtr(Fl(d, i).indirect, Fl(m, i).indirect, L)
      BY <1>5 DEF OldFile
    <3>2. CASE Fl(d, i).indirect = 0
      BY <1>0, <2>2, <3>2, PtrType DEF OldPtr
    <3>3. CASE Fl(d, i).indirect # 0
      <4> DEFINE u == Fl(d, i).indirect
      <4>1. u \in Blk /\ u = Fl(m, i).indirect /\ u \notin L /\ k - NDIRECT \in 1 .. NINDIRECT
        BY <2>2, <3>1, <3>3, FlType, Numbers DEF OldPtr
      <4>2. Ptr(d, i, k) = d.blk[u].ptr[k - NDIRECT] /\ Ptr(m, i, k) = m.blk[u].ptr[k - NDIRECT]
        BY <2>2, <3>3, <4>1, PtrType
      <4> HIDE DEF u
      <4> QED BY <1>4, <4>1, <4>2 DEF BehindPtrs
    <3> QED BY <3>2, <3>3
  <2> QED BY <2>1, <2>2, Numbers
<1> QED BY <1>1, <1>3, <1>5, <1>6 DEF L

LEMMA FitsSound ==
    ASSUME NEW d \in DiskType, NEW m \in DiskType, NEW q \in Seq(WriteType), NEW S, Fits(d, m, q, S), Sound(m)
    PROVE Sound(d)
<1>1. PICK c \in SUBSET DOMAIN q : FitsBy(d, m, q, S, c)
  BY DEF Fits
<1> DEFINE L == Late(q, c, 0)
<1>2. /\ \A b \in d.free : b \in m.free \/ b \in L
      /\ \A e \in Dirs : OldPtr(d.dptr[e], m.dptr[e], L)
      /\ \A e \in Dirs : d.dptr[e] # 0 => e <= d.dsize
      /\ \A i \in File : OldFile(Fl(d, i), Fl(m, i), L)
      /\ \A i \in File, k \in Index : OldPtr(Ptr(d, i, k), Ptr(m, i, k), L)
  BY <1>1, OldPtrs
<1> HIDE DEF L
<1>3. Apart(m) /\ \A b \in m.free : ~Owned(m, b)
  BY ExclusiveApart DEF Sound
<1>4. /\ \A e \in Dirs : d.dptr[e] # 0 => d.dptr[e] = m.dptr[e] /\ d.dptr[e] \notin L
      /\ \A i \in File : Fl(d, i).indirect # 0 =>
             Fl(d, i).indirect = Fl(m, i).indirect /\ Fl(d, i).indirect \notin L
      /\ \A i \in File, k \in Index : Ptr(d, i, k) # 0 =>
             Ptr(d, i, k) = Ptr(m, i, k) /\ Ptr(d, i, k) \notin L
      /\ \A i \in File : Fl(d, i).name \in {NoName, Fl(m, i).name}
  BY <1>2 DEF OldPtr, OldFile
<1>5. Apart(d)
  BY <1>3, <1>4 DEF Apart
<1>6. \A b \in d.free : ~Owned(d, b)
  <2> SUFFICES ASSUME NEW b \in d.free, Owned(d, b) PROVE FALSE
    OBVIOUS
  <2>1. Owned(m, b) /\ b \notin L
    BY <1>4 DEF Owned
  <2> QED BY <1>2, <1>3, <2>1
<1>7. UniqueNames(d)
  BY <1>4 DEF Sound, UniqueNames
<1> QED BY <1>2, <1>5, <1>6, <1>7, ExclusiveApart DEF Sound, Dirs

LEMMA FitsKept ==
    ASSUME NEW d \in DiskType, NEW m \in DiskType, NEW q \in Seq(WriteType), NEW S \in SUBSET File,
           Fits(d, m, q, S), Sound(m), NEW i \in S, Fl(m, i).name # NoName
    PROVE /\ DirOf(i) <= d.dsize /\ d.dptr[DirOf(i)] = m.dptr[DirOf(i)]
          /\ Contents(d, i) = Contents(m, i)
<1>1. PICK c \in SUBSET DOMAIN q : FitsBy(d, m, q, S, c)
  BY DEF Fits
<1> DEFINE L == Late(q, c, 0)
<1>2. /\ \A e \in Dirs : OldPtr(d.dptr[e], m.dptr[e], L)
      /\ OldFile(Fl(d, i), Fl(m, i), L)
      /\ \A k \in Index : OldPtr(Ptr(d, i, k), Ptr(m, i, k), L)
  BY <1>1, OldPtrs
<1>3. Super \notin L
  BY <1>1, LateBlocks, Numbers DEF FitsBy
<1>4. \A u \in Units : u \notin L => Kept(u, Held(d, u), m, i)
  BY <1>1 DEF FitsBy, FitsAs
<1> HIDE DEF L
<1>5. d.dptr[DirOf(i)] = m.dptr[DirOf(i)] /\ DirOf(i) <= d.dsize
  <2>1. Super \in Units /\ Held(d, Super)[1] = d.dsize /\ Held(d, Super)[2] = d.dptr
    BY HeldIs DEF Units
  <2> QED BY <1>3, <1>4, <2>1 DEF Kept
<1>6. \A u \in Blk : u \notin L => Kept(u, d.blk[u], m, i)
  <2>1. \A b \in Blk : b \in Units /\ Held(d, b) = d.blk[b]
    BY HeldIs DEF Units
  <2> QED BY <1>4, <2>1
<1>7. KeptFile(Fl(d, i), m, i)
  <2> DEFINE B == DirBlock(m, i)
  <2>1. B # 0 /\ B = DirBlock(d, i) /\ B \notin L /\ B \in Blk
    BY <1>2, <1>5, DirBlockBound, FlType, Files DEF DirBlock, OldPtr
  <2>2. Fl(d, i) = d.blk[B].file[EntryOf(i)]
    BY <2>1, FlType
  <2> QED BY <1>6, <2>1, <2>2 DEF Kept
<1>8. ASSUME NEW k \in Index PROVE Val(d, i, k) = Val(m, i, k)
  <2>1. Fl(d, i).size = Fl(m, i).size
    BY <1>7 DEF KeptFile
  <2>2. OldPtr(Ptr(d, i, k), Ptr(m, i, k), L)
    BY <1>2
  <2>3. CASE ~(k <= Fl(m, i).size)
    BY <2>1, <2>3, ValIs
  <2>4. CASE k <= Fl(m, i).size /\ Ptr(d, i, k) # 0
    <3> DEFINE p == Ptr(d, i, k)
    <3>1. p \in Blk /\ p \notin L /\ p = Ptr(m, i, k)
      BY <2>2, <2>4, PtrType DEF OldPtr
    <3>2. d.blk[p].val = Val(m, i, k)
      BY <1>6, <2>4, <3>1 DEF Kept
    <3>3. Val(d, i, k) = d.blk[p].val
      BY <2>1, <2>4, ValIs
    <3> QED BY <3>2, <3>3
  <2>5. CASE k <= Fl(m, i).size /\ Ptr(d, i, k) = 0
    <3>1. Val(d, i, k) = 0
      BY <2>5, ValIs
    <3>2. CASE k <= NDIRECT
      <4>1. k \in 1 .. NDIRECT /\ Fl(d, i).direct[k] = 0
        BY <2>5, <3>2, Numbers, PtrType
      <4> QED BY <1>7, <3>1, <4>1 DEF KeptFile
    <3>3. CASE k > NDIRECT /\ Fl(d, i).indirect = 0
      BY <1>7, <3>1, <3>3 DEF KeptFile
    <3>4. CASE k > NDIRECT /\ Fl(d, i).indirect # 0
      <4> DEFINE u == Fl(d, i).indirect
      <4>1. u \in Blk /\ u \notin L /\ u = Fl(m, i).indirect
        BY <1>2, <3>4, FlType DEF OldFile, OldPtr
      <4>2. k - NDIRECT \in 1 .. NINDIRECT /\ (k - NDIRECT) + NDIRECT = k
        BY <3>4, Numbers
      <4>3. d.blk[u].ptr[k - NDIRECT] = 0
        BY <2>5, <3>4, PtrType
      <4>4. Kept(u, d.blk[u], m, i)
        BY <1>6, <4>1
      <4> HIDE DEF u
      <4>5. \A l \in 1 .. NINDIRECT : d.blk[u].ptr[l] = 0 => Val(m, i, l + NDIRECT) = 0
        BY <4>1, <4>4 DEF Kept
      <4> QED BY <3>1, <4>2, <4>3, <4>5
    <3> QED BY <3>2, <3>3, <3>4, Numbers
  <2> QED BY <2>3, <2>4, <2>5
<1>9. Fl(d, i).name = Fl(m, i).name /\ Fl(d, i).size = Fl(m, i).size
  BY <1>7 DEF KeptFile
<1>10. i \in File
  OBVIOUS
<1> QED BY <1>5, <1>8, <1>9, <1>10, ContentsIs
-----------------------------------------------------------------------------
\* The cache grows: pointers that were 0 lead to the new block b.
Grown(p, q, b) == q = p \/ (p = 0 /\ q = b)
Grows(m, n, b) ==
    /\ \A d \in Dirs : Grown(m.dptr[d], n.dptr[d], b)
    /\ \A i \in File : /\ Fl(m, i).name \in {NoName, Fl(n, i).name}
                       /\ Grown(Fl(m, i).indirect, Fl(n, i).indirect, b)
                       /\ \A k \in Index : Grown(Ptr(m, i, k), Ptr(n, i, k), b)
Same(m, n, i) == DirBlock(n, i) = DirBlock(m, i) /\ Contents(n, i) = Contents(m, i)

LEMMA FitsGrown ==
    ASSUME NEW m \in DiskType, NEW n \in DiskType, NEW b \in {0} \cup Blk, Grows(m, n, b),
           NEW S \in SUBSET File, \A i \in S : Same(m, n, i),
           NEW u \in Units \cup {0}, NEW v, u # b \/ v = Cleared \/ u = 0, NEW late, 0 \notin late,
           FitsAs(u, v, m, late, S)
    PROVE FitsAs(u, v, n, late, S)
<1>1. \A p, q, r : OldPtr(p, q, late) /\ Grown(q, r, b) => OldPtr(p, r, late)
  BY DEF OldPtr, Grown
<1>2. u = Super => BehindSuper(v, n, late)
  <2> SUFFICES ASSUME u = Super PROVE BehindSuper(v, n, late)
    OBVIOUS
  <2>1. BehindSuper(v, m, late)
    BY DEF FitsAs, Behind
  <2> QED BY <1>1, <2>1 DEF BehindSuper, Grows, Dirs
<1>3. u \in Blk => BehindFiles(u, v, n, late)
  <2> SUFFICES ASSUME u \in Blk, NEW i \in File, DirBlock(n, i) = u
               PROVE OldFile(v.file[EntryOf(i)], Fl(n, i), late)
    BY DEF BehindFiles
  <2>0. EntryOf(i) \in 1 .. BLKFILES /\ u # 0
    BY Files, Numbers
  <2>1. CASE DirBlock(m, i) = u
    <3>1. OldFile(v.file[EntryOf(i)], Fl(m, i), late)
      BY <2>1 DEF FitsAs, Behind, BehindFiles
    <3>2. \A k \in 1 .. NDIRECT : Grown(Fl(m, i).direct[k], Fl(n, i).direct[k], b)
      <4> TAKE k \in 1 .. NDIRECT
      <4>1. k \in Index /\ k <= NDIRECT
        BY Numbers
      <4>2. Ptr(m, i, k) = Fl(m, i).direct[k] /\ Ptr(n, i, k) = Fl(n, i).direct[k]
        BY <4>1, PtrType
      <4> QED BY <4>1, <4>2 DEF Grows
    <3>3. Fl(m, i).name \in {NoName, Fl(n, i).name}
          /\ Grown(Fl(m, i).indirect, Fl(n, i).indirect, b)
      BY DEF Grows
    <3> QED BY <1>1, <3>1, <3>2, <3>3 DEF OldFile
  <2>2. CASE DirBlock(m, i) # u
    <3>1. u = b
      BY <2>2, Files DEF Grows, Grown, DirBlock
    <3>2. v.file[EntryOf(i)] = NoFile
      BY <2>0, <3>1, ClearedType
    <3>3. /\ NoFile.name = NoName /\ NoFile.indirect = 0
          /\ \A k \in 1 .. NDIRECT : NoFile.direct[k] = 0
      BY DEF NoFile
    <3> QED BY <3>2, <3>3 DEF OldFile, OldPtr
  <2> QED BY <2>1, <2>2
<1>4. u \in Blk => BehindPtrs(u, v, n, late)
  <2> SUFFICES ASSUME u \in Blk, NEW i \in File, Fl(n, i).indirect = u, NEW k \in 1 .. NINDIRECT
               PROVE OldPtr(v.ptr[k], n.blk[u].ptr[k], late)
    BY DEF BehindPtrs
  <2>0. u # 0 /\ k + NDIRECT \in Index /\ k + NDIRECT > NDIRECT /\ (k + NDIRECT) - NDIRECT = k
    BY Numbers
  <2>1. CASE Fl(m, i).indirect = u
    <3>1. OldPtr(v.ptr[k], m.blk[u].ptr[k], late)
      BY <2>1 DEF FitsAs, Behind, BehindPtrs
    <3>2. Ptr(m, i, k + NDIRECT) = m.blk[u].ptr[k] /\ Ptr(n, i, k + NDIRECT) = n.blk[u].ptr[k]
      BY <2>0, <2>1, PtrType
    <3>3. Grown(m.blk[u].ptr[k], n.blk[u].ptr[k], b)
      BY <2>0, <3>2 DEF Grows
    <3> QED BY <1>1, <3>1, <3>3
  <2>2. CASE Fl(m, i).indirect # u
    <3>1. u = b
      BY <2>2 DEF Grows, Grown
    <3>2. v.ptr[k] = 0
      BY <2>0, <3>1, ClearedType
    <3> QED BY <3>2 DEF OldPtr
  <2> QED BY <2>1, <2>2
<1>5. ASSUME NEW i \in S PROVE Kept(u, v, n, i)
  <2>0. i \in File /\ DirBlock(n, i) = DirBlock(m, i) /\ Contents(n, i) = Contents(m, i)
        /\ Kept(u, v, m, i)
    BY DEF Same, FitsAs
  <2>1. /\ Fl(n, i).name = Fl(m, i).name /\ Fl(n, i).size = Fl(m, i).size
        /\ \A k \in Index : Val(n, i, k) = Val(m, i, k)
    BY <2>0, ContentsIs
  <2>2. u = Super => v[2][DirOf(i)] = n.dptr[DirOf(i)] /\ DirOf(i) <= v[1]
    BY <2>0 DEF Kept, DirBlock
  <2>3. u \in Blk /\ DirBlock(n, i) = u => KeptFile(v.file[EntryOf(i)], n, i)
    <3>1. \A g : KeptFile(g, m, i) => KeptFile(g, n, i)
      BY <2>1, Numbers DEF KeptFile
    <3> QED BY <2>0, <3>1 DEF Kept
  <2>4. ASSUME u \in Blk, Fl(n, i).indirect = u, NEW k \in 1 .. NINDIRECT, v.ptr[k] = 0
        PROVE Val(n, i, k + NDIRECT) = 0
    <3>0. k + NDIRECT \in Index /\ k + NDIRECT > NDIRECT
      BY Numbers
    <3>1. CASE Fl(m, i).indirect = u
      BY <2>0, <2>1, <2>4, <3>0, <3>1 DEF Kept
    <3>2. CASE Fl(m, i).indirect # u
      <4>1. Fl(m, i).indirect = 0
        BY <2>0, <2>4, <3>2 DEF Grows, Grown
      <4> QED BY <2>0, <2>1, <3>0, <4>1, ValIs
    <3> QED BY <3>1, <3>2
  <2>5. ASSUME u \in Blk, NEW k \in Index, k <= Fl(n, i).size, Ptr(n, i, k) = u
        PROVE v.val = Val(n, i, k)
    <3>1. CASE Ptr(m, i, k) = u
      BY <2>0, <2>1, <2>5, <3>1 DEF Kept
    <3>2. CASE Ptr(m, i, k) # u
      <4>1. Ptr(m, i, k) = 0 /\ u = b /\ u # 0
        BY <2>0, <2>5, <3>2, Numbers DEF Grows, Grown
      <4>2. v.val = 0
        BY <4>1, ClearedType
      <4>3. Val(m, i, k) = 0
        BY <2>0, <4>1, ValIs
      <4> QED BY <2>1, <4>2, <4>3
    <3> QED BY <3>1, <3>2
  <2> QED BY <2>2, <2>3, <2>4, <2>5 DEF Kept
<1> QED BY <1>2, <1>3, <1>4, <1>5 DEF FitsAs, Behind

\* b is taken by a write to come, and its clearing is the only write of it.
FitsNew(d, m, q, S, b) == \E c \in SUBSET DOMAIN q :
    /\ FitsBy(d, m, q, S, c)
    /\ b # 0 => b \in Late(q, c, 0) /\ \A n \in DOMAIN q : q[n].unit = b => q[n].to = Cleared

LEMMA NewFits == \A d, m, q, S : /\ \A b : FitsNew(d, m, q, S, b) => Fits(d, m, q, S)
                                 /\ Fits(d, m, q, S) => FitsNew(d, m, q, S, 0)
BY DEF FitsNew, Fits

LEMMA FitsGrows ==
    ASSUME NEW d, NEW m \in DiskType, NEW n \in DiskType, NEW q \in Seq(WriteType),
           NEW b \in {0} \cup Blk, Grows(m, n, b), n.free = m.free,
           NEW S \in SUBSET File, \A i \in S : Same(m, n, i), FitsNew(d, m, q, S, b)
    PROVE Fits(d, n, q, S)
<1>1. PICK c \in SUBSET DOMAIN q :
          /\ FitsBy(d, m, q, S, c)
          /\ b # 0 => b \in Late(q, c, 0) /\ \A o \in DOMAIN q : q[o].unit = b => q[o].to = Cleared
  BY DEF FitsNew
<1>2. \A o : 0 \notin Late(q, c, o)
  BY <1>1, LateBlocks, Numbers DEF FitsBy
<1>3. \A free, o : Freed0(free, m, q, c, o) => Freed0(free, n, q, c, o)
  BY DEF Freed0
<1>4. ASSUME NEW u \in Units, u \notin Late(q, c, 0)
      PROVE FitsAs(u, Held(d, u), n, Late(q, c, 0), S)
  <2>1. FitsAs(u, Held(d, u), m, Late(q, c, 0), S) /\ u # 0
    BY <1>1, <1>4, Numbers DEF FitsBy
  <2>2. u # b
    BY <1>1, <1>4, <2>1
  <2> QED BY <1>2, <2>1, <2>2, FitsGrown
<1>5. ASSUME NEW o \in DOMAIN q PROVE FitsAs(q[o].unit, q[o].to, n, Late(q, c, o), S)
  <2>1. FitsAs(q[o].unit, q[o].to, m, Late(q, c, o), S)
    BY <1>1 DEF FitsBy
  <2>2. q[o] \in WriteType
    OBVIOUS
  <2>3. q[o].unit \in Units \cup {0}
    BY <2>2, WriteIs
  <2>4. q[o].unit # b \/ q[o].to = Cleared \/ q[o].unit = 0
    BY <1>1
  <2> QED BY <1>2, <2>1, <2>3, <2>4, FitsGrown
<1>6. FitsBy(d, n, q, S, c)
  BY <1>1, <1>3, <1>4, <1>5 DEF FitsBy
<1> QED BY <1>6 DEF Fits
-----------------------------------------------------------------------------
\* A block is taken: no pointer leads to it, here or on the disk.
LEMMA MoreLate ==
    ASSUME NEW m \in DiskType, NEW b, b # 0, ~Owned(m, b), NEW u, NEW v, NEW late, NEW S,
           FitsAs(u, v, m, late, S)
    PROVE FitsAs(u, v, m, late \cup {b}, S)
<1>1. \A p, q : OldPtr(p, q, late) /\ q # b => OldPtr(p, q, late \cup {b})
  BY DEF OldPtr
<1>2. \A d \in Dirs : m.dptr[d] # b
  BY DEF Owned
<1>3. \A i \in File : Fl(m, i).indirect # b /\ \A k \in 1 .. NDIRECT : Fl(m, i).direct[k] # b
  <2> TAKE i \in File
  <2>1. Fl(m, i).indirect # b
    BY DEF Owned
  <2>2. ASSUME NEW k \in 1 .. NDIRECT PROVE Fl(m, i).direct[k] # b
    <3>1. k \in Index /\ k <= NDIRECT
      BY Numbers
    <3>2. Ptr(m, i, k) = Fl(m, i).direct[k]
      BY <3>1, PtrType
    <3> QED BY <3>1, <3>2 DEF Owned
  <2> QED BY <2>1, <2>2
<1>4. \A i \in File, k \in 1 .. NINDIRECT : Fl(m, i).indirect # 0 =>
          m.blk[Fl(m, i).indirect].ptr[k] # b
  <2> SUFFICES ASSUME NEW i \in File, NEW k \in 1 .. NINDIRECT, Fl(m, i).indirect # 0
               PROVE m.blk[Fl(m, i).indirect].ptr[k] # b
    OBVIOUS
  <2>1. k + NDIRECT \in Index /\ k + NDIRECT > NDIRECT /\ (k + NDIRECT) - NDIRECT = k
    BY Numbers
  <2>2. Ptr(m, i, k + NDIRECT) = m.blk[Fl(m, i).indirect].ptr[k]
    BY <2>1, PtrType
  <2> QED BY <2>1, <2>2 DEF Owned
<1>5. BehindSuper(v, m, late) => BehindSuper(v, m, late \cup {b})
  BY <1>1, <1>2 DEF BehindSuper, Dirs
<1>6. BehindFiles(u, v, m, late) => BehindFiles(u, v, m, late \cup {b})
  BY <1>1, <1>3 DEF BehindFiles, OldFile
<1>7. u \in Blk /\ BehindPtrs(u, v, m, late) => BehindPtrs(u, v, m, late \cup {b})
  <2>1. u \in Blk => u # 0
    BY Numbers
  <2> QED BY <1>1, <1>4, <2>1 DEF BehindPtrs
<1> QED BY <1>5, <1>6, <1>7 DEF FitsAs, Behind

LEMMA TakenSame ==
    ASSUME NEW m \in DiskType, NEW b \in Blk, ~Owned(m, b)
    PROVE /\ Grows(m, Taken(m, b), 0)
          /\ \A i \in File, k \in Index : Ptr(Taken(m, b), i, k) = Ptr(m, i, k)
          /\ \A i \in File : Same(m, Taken(m, b), i)
<1> DEFINE n == Taken(m, b)
<1>1. /\ n \in DiskType /\ n.dptr = m.dptr /\ \A a \in Blk : a # b => n.blk[a] = m.blk[a]
      /\ \A j \in File : Fl(n, j) = Fl(m, j)
  BY TakenIs
<1> HIDE DEF n
<1>2. ASSUME NEW i \in File, NEW k \in Index PROVE Ptr(n, i, k) = Ptr(m, i, k)
  <2>1. CASE k <= NDIRECT
    BY <1>1, <2>1, PtrType
  <2>2. CASE k > NDIRECT /\ Fl(m, i).indirect = 0
    BY <1>1, <2>2, PtrType
  <2>3. CASE k > NDIRECT /\ Fl(m, i).indirect # 0
    <3>1. Fl(m, i).indirect \in Blk /\ Fl(m, i).indirect # b
      BY <2>3, FlType DEF Owned
    <3> QED BY <1>1, <2>3, <3>1, PtrType
  <2> QED BY <2>1, <2>2, <2>3, Numbers
<1>3. ASSUME NEW i \in File PROVE Same(m, n, i)
  <2>1. ASSUME NEW k \in Index PROVE Val(n, i, k) = Val(m, i, k)
    <3>1. CASE k <= Fl(m, i).size /\ Ptr(m, i, k) # 0
      <4>1. Ptr(m, i, k) \in Blk /\ Ptr(m, i, k) # b
        BY <3>1, PtrType, Numbers DEF Owned
      <4>2. n.blk[Ptr(m, i, k)] = m.blk[Ptr(m, i, k)]
        BY <1>1, <4>1
      <4>3. Val(m, i, k) = m.blk[Ptr(m, i, k)].val
        BY <3>1, ValIs
      <4>4. Val(n, i, k) = n.blk[Ptr(n, i, k)].val
        BY <1>1, <1>2, <3>1, ValIs
      <4> QED BY <1>2, <4>2, <4>3, <4>4
    <3>2. CASE ~(k <= Fl(m, i).size /\ Ptr(m, i, k) # 0)
      <4>1. Val(m, i, k) = 0
        BY <3>2, ValIs
      <4>2. ~(k <= Fl(n, i).size /\ Ptr(n, i, k) # 0)
        BY <1>1, <1>2, <3>2
      <4>3. Val(n, i, k) = 0
        BY <1>1, <4>2, ValIs
      <4> QED BY <4>1, <4>3
    <3> QED BY <3>1, <3>2
  <2>2. DirBlock(n, i) = DirBlock(m, i)
    BY <1>1 DEF DirBlock
  <2> QED BY <1>1, <2>1, <2>2, ContentsIs DEF Same
<1>4. Grows(m, n, 0)
  BY <1>1, <1>2 DEF Grows, Grown
<1> QED BY <1>2, <1>3, <1>4 DEF n

\* The two writes of alloc_block.
Takings(m, q, b) == Append(Append(q, [unit |-> Bitmap, to |-> m.free \ {b}]),
                           [unit |-> b, to |-> Cleared])

LEMMA TakingsIs ==
    ASSUME NEW m \in DiskType, NEW q \in Seq(WriteType), NEW b \in Blk
    PROVE /\ Takings(m, q, b) \in Seq(WriteType)
          /\ Len(q) \in Nat /\ DOMAIN q = 1 .. Len(q)
          /\ DOMAIN Takings(m, q, b) = 1 .. Len(q) + 2
          /\ \A n \in 1 .. Len(q) : Takings(m, q, b)[n] = q[n]
          /\ Takings(m, q, b)[Len(q) + 1] = [unit |-> Bitmap, to |-> m.free \ {b}]
          /\ Takings(m, q, b)[Len(q) + 2] = [unit |-> b, to |-> Cleared]
<1> DEFINE x == [unit |-> Bitmap, to |-> m.free \ {b}]
           y == [unit |-> b, to |-> Cleared]
<1>1. m.free \ {b} \in SUBSET Blk
  BY Parts
<1>2. x \in WriteType
  <2>1. x \in [unit : {Bitmap}, to : SUBSET Blk]
    BY <1>1
  <2> QED BY <2>1 DEF WriteType
<1>3. y \in WriteType
  <2>1. y \in [unit : Blk, to : BlockType]
    BY ClearedType
  <2> QED BY <2>1 DEF WriteType
<1>4. Takings(m, q, b) = Append(Append(q, x), y)
  BY DEF Takings
<1> HIDE DEF x, y
<1>5. /\ Append(Append(q, x), y) \in Seq(WriteType)
      /\ Len(q) \in Nat /\ DOMAIN q = 1 .. Len(q)
      /\ DOMAIN Append(Append(q, x), y) = 1 .. Len(q) + 2
      /\ \A n \in 1 .. Len(q) : Append(Append(q, x), y)[n] = q[n]
      /\ Append(Append(q, x), y)[Len(q) + 1] = x
      /\ Append(Append(q, x), y)[Len(q) + 2] = y
  BY <1>2, <1>3
<1> QED BY <1>4, <1>5 DEF x, y

LEMMA FitsTaken ==
    ASSUME NEW d, NEW m \in DiskType, NEW q \in Seq(WriteType), NEW S \in SUBSET File,
           NEW b \in m.free, b \in Blk, ~Owned(m, b),
           \A n \in DOMAIN q : q[n].unit # b, Fits(d, m, q, S)
    PROVE FitsNew(d, Taken(m, b), Takings(m, q, b), S, b)
<1>1. PICK c \in SUBSET DOMAIN q : FitsBy(d, m, q, S, c)
  BY DEF Fits
<1> DEFINE r == Takings(m, q, b)
           l == Len(q)
           e == c \cup {l + 2}
           n == Taken(m, b)
<1>2. /\ r \in Seq(WriteType) /\ l \in Nat /\ DOMAIN q = 1 .. l /\ DOMAIN r = 1 .. l + 2
      /\ \A o \in 1 .. l : r[o] = q[o]
      /\ r[l + 1].unit = Bitmap /\ r[l + 1].to = m.free \ {b}
      /\ r[l + 2].unit = b /\ r[l + 2].to = Cleared
  <2>1. /\ Takings(m, q, b) \in Seq(WriteType)
        /\ Len(q) \in Nat /\ DOMAIN q = 1 .. Len(q)
        /\ DOMAIN Takings(m, q, b) = 1 .. Len(q) + 2
        /\ \A o \in 1 .. Len(q) : Takings(m, q, b)[o] = q[o]
        /\ Takings(m, q, b)[Len(q) + 1] = [unit |-> Bitmap, to |-> m.free \ {b}]
        /\ Takings(m, q, b)[Len(q) + 2] = [unit |-> b, to |-> Cleared]
    BY TakingsIs
  <2> HIDE DEF r, l
  <2>2. r = Takings(m, q, b) /\ l = Len(q)
    BY DEF r, l
  <2> QED BY <2>1, <2>2
<1>3. n \in DiskType /\ n.free = m.free \ {b} /\ Grows(m, n, 0) /\ \A i \in S : Same(m, n, i)
  BY TakenIs, TakenSame
<1> HIDE DEF r, l, n
<1>4. c \in SUBSET (1 .. l) /\ e \in SUBSET DOMAIN r /\ l + 1 \in DOMAIN r /\ l + 2 \in DOMAIN r
      /\ (\A o \in c : r[o] = q[o]) /\ b # Bitmap /\ b # 0
  BY <1>2, Numbers
<1>5. \A o \in 0 .. l : Late(r, e, o) = Late(q, c, o) \cup {b}
  <2> TAKE o \in 0 .. l
  <2>1. l + 2 > o
    BY <1>2
  <2>2. ASSUME NEW a \in Late(r, e, o) PROVE a \in Late(q, c, o) \cup {b}
    <3>1. PICK p \in e : p > o /\ a = r[p].unit
      BY <2>2 DEF Late
    <3> QED BY <1>2, <1>4, <3>1 DEF Late
  <2>3. ASSUME NEW a \in Late(q, c, o) PROVE a \in Late(r, e, o)
    <3>1. PICK p \in c : p > o /\ a = q[p].unit
      BY <2>3 DEF Late
    <3>2. p \in e /\ a = r[p].unit
      BY <1>4, <3>1
    <3> QED BY <3>1, <3>2 DEF Late
  <2>4. b \in Late(r, e, o)
    <3>1. l + 2 \in e
      OBVIOUS
    <3> QED BY <1>2, <2>1, <3>1 DEF Late
  <2> QED BY <2>2, <2>3, <2>4
<1>6. Late(r, e, l + 1) = {b} /\ Late(r, e, l + 2) = {}
  <2>1. \A o \in c : ~(o > l + 1) /\ ~(o > l + 2)
    BY <1>2, <1>4
  <2>2. l + 2 > l + 1 /\ ~(l + 2 > l + 2)
    BY <1>2
  <2>3. \A o \in e : (o > l + 1 => o = l + 2) /\ ~(o > l + 2)
    BY <2>1, <2>2
  <2>4. l + 2 \in e
    OBVIOUS
  <2> HIDE DEF e
  <2>5. Late(r, e, l + 1) \subseteq {b} /\ Late(r, e, l + 2) = {}
    BY <1>2, <2>3 DEF Late
  <2>6. b \in Late(r, e, l + 1)
    BY <1>2, <2>2, <2>4 DEF Late
  <2> QED BY <2>5, <2>6
<1>7. Clears(r, e)
  <2>1. Clears(q, c)
    BY <1>1 DEF FitsBy
  <2>2. \A o \in c : r[o].unit \in Blk /\ r[o].to = Cleared /\ r[o].unit # b
    BY <1>4, <2>1 DEF Clears
  <2>3. \A o, p \in c : r[o].unit = r[p].unit => o = p
    BY <1>4, <2>1 DEF Clears
  <2> QED BY <1>2, <2>2, <2>3 DEF Clears
<1> HIDE DEF e
<1>8. ASSUME NEW o \in DOMAIN q, NEW a, a \notin m.free, Takes(q, c, o, a) PROVE Takes(r, e, o, a)
  <2>1. o \in 0 .. l /\ r[o] = q[o]
    BY <1>2
  <2>2. r[o].unit = Bitmap /\ a \in Late(r, e, o)
    BY <1>5, <1>8, <2>1 DEF Takes
  <2>3. ASSUME NEW p \in DOMAIN r, p >= o, r[p].unit = Bitmap PROVE a \notin r[p].to
    <3>1. CASE p \in 1 .. l
      BY <1>2, <1>8, <2>3, <3>1 DEF Takes
    <3>2. CASE p = l + 1
      BY <1>2, <1>8, <3>2
    <3>3. CASE p = l + 2
      BY <1>2, <1>4, <2>3, <3>3
    <3> QED BY <1>2, <3>1, <3>2, <3>3
  <2> QED BY <2>2, <2>3 DEF Takes
<1>9. Takes(r, e, l + 1, b)
  <2>1. ASSUME NEW p \in DOMAIN r, p >= l + 1, r[p].unit = Bitmap PROVE b \notin r[p].to
    <3>1. p = l + 1 \/ p = l + 2
      BY <1>2, <2>1
    <3>2. p = l + 1
      BY <1>2, <1>4, <2>1, <3>1
    <3> QED BY <1>2, <3>2
  <2> QED BY <1>2, <1>6, <2>1 DEF Takes
<1>10. ASSUME NEW free, NEW o \in 0 .. l, Freed0(free, m, q, c, o) PROVE Freed0(free, n, r, e, o)
  <2> SUFFICES ASSUME NEW a \in free, a \notin n.free
               PROVE \E p \in DOMAIN r : p > o /\ Takes(r, e, p, a)
    BY DEF Freed0
  <2>1. CASE a = b
    <3>1. l + 1 > o
      BY <1>2
    <3> QED BY <1>4, <1>9, <2>1, <3>1
  <2>2. CASE a # b
    <3>1. a \notin m.free
      BY <1>3, <2>2
    <3>2. PICK p \in DOMAIN q : p > o /\ Takes(q, c, p, a)
      BY <1>10, <3>1 DEF Freed0
    <3>3. p \in DOMAIN r
      BY <1>2
    <3> QED BY <1>8, <3>1, <3>2, <3>3
  <2> QED BY <2>1, <2>2
<1>11. ASSUME NEW u \in Units \cup {0}, NEW v, NEW late, 0 \notin late, FitsAs(u, v, m, late, S)
       PROVE FitsAs(u, v, n, late \cup {b}, S)
  <2>1. FitsAs(u, v, m, late \cup {b}, S)
    BY <1>4, <1>11, MoreLate
  <2>2. 0 \notin late \cup {b} /\ (u # 0 \/ u = 0)
    BY <1>4, <1>11
  <2> QED BY <1>3, <2>1, <2>2, FitsGrown
<1>12. \A o : 0 \notin Late(q, c, o)
  BY <1>1, LateBlocks, Numbers DEF FitsBy
<1>13. Freed0(d.free, n, r, e, 0)
  <2>1. 0 \in 0 .. l
    BY <1>2
  <2> QED BY <1>1, <1>10, <2>1 DEF FitsBy
<1>14. ASSUME NEW u \in Units, u \notin Late(r, e, 0)
       PROVE FitsAs(u, Held(d, u), n, Late(r, e, 0), S)
  <2>1. Late(r, e, 0) = Late(q, c, 0) \cup {b}
    BY <1>2, <1>5
  <2>2. FitsAs(u, Held(d, u), m, Late(q, c, 0), S)
    BY <1>1, <1>14, <2>1 DEF FitsBy
  <2> QED BY <1>11, <1>12, <2>1, <2>2
<1>15. ASSUME NEW o \in DOMAIN r
       PROVE /\ r[o].unit = Bitmap => Freed0(r[o].to, n, r, e, o)
             /\ FitsAs(r[o].unit, r[o].to, n, Late(r, e, o), S)
  <2>1. CASE o \in 1 .. l
    <3>1. o \in DOMAIN q /\ o \in 0 .. l /\ r[o] = q[o] /\ q[o] \in WriteType
      BY <1>2, <2>1
    <3>2. /\ q[o].unit = Bitmap => Freed0(q[o].to, m, q, c, o)
          /\ FitsAs(q[o].unit, q[o].to, m, Late(q, c, o), S)
      BY <1>1, <3>1 DEF FitsBy
    <3>3. q[o].unit \in Units \cup {0}
      BY <3>1, WriteIs
    <3> QED BY <1>5, <1>10, <1>11, <1>12, <3>1, <3>2, <3>3
  <2>2. CASE o = l + 1
    <3>1. Freed0(r[o].to, n, r, e, o)
      BY <1>2, <1>3, <2>2 DEF Freed0
    <3>2. r[o].unit # Super /\ r[o].unit \notin Blk
      BY <1>2, <2>2, Numbers
    <3> QED BY <3>1, <3>2 DEF FitsAs, Behind, Kept
  <2>3. CASE o = l + 2
    <3>1. r[o].unit = b /\ r[o].to = Cleared /\ b # Bitmap /\ b # Super
      BY <1>2, <1>4, <2>3, Numbers
    <3>2. \A i \in File : DirBlock(n, i) # b /\ Fl(n, i).indirect # b
                          /\ \A k \in Index : Ptr(n, i, k) # b
      BY <1>4, TakenIs, TakenSame, Files DEF Owned, DirBlock, n
    <3> QED BY <3>1, <3>2 DEF FitsAs, Behind, Kept, BehindFiles, BehindPtrs
  <2> QED BY <1>2, <2>1, <2>2, <2>3
<1>16. FitsBy(d, n, r, S, e)
  BY <1>7, <1>13, <1>14, <1>15 DEF FitsBy
<1>17. b \in Late(r, e, 0) /\ \A o \in DOMAIN r : r[o].unit = b => r[o].to = Cleared
  <2>1. b \in Late(r, e, 0)
    BY <1>2, <1>5
  <2>2. \A o \in DOMAIN r : o \in 1 .. l \/ o = l + 1 \/ o = l + 2
    BY <1>2
  <2> QED BY <1>2, <1>4, <2>1, <2>2
<1> QED BY <1>4, <1>16, <1>17 DEF FitsNew, n, r
-----------------------------------------------------------------------------
\* The block taken is linked at one place; no reader sees a difference.
Linked(m, n, g, b) ==
    /\ g \in Place /\ Holds(m, g) = 0
    /\ \A h \in Place : Holds(n, h) = IF h = g THEN b ELSE Holds(m, h)
    /\ n.free = m.free
    /\ \A j \in File : Contents(n, j) = Contents(m, j)

LEMMA LinkedGrows ==
    ASSUME NEW m \in DiskType, NEW n \in DiskType, NEW g, NEW b, Linked(m, n, g, b)
    PROVE /\ Grows(m, n, b)
          /\ \A i \in File : DirBlock(m, i) # 0 => Same(m, n, i)
<1>1. \A h \in Place : Grown(Holds(m, h), Holds(n, h), b)
  BY DEF Linked, Grown
<1>2. \A d \in Dirs : Grown(m.dptr[d], n.dptr[d], b)
  <2> TAKE d \in Dirs
  <2>1. <<d, 0, 0>> \in Place /\ Holds(m, <<d, 0, 0>>) = m.dptr[d]
        /\ Holds(n, <<d, 0, 0>>) = n.dptr[d]
    BY Places
  <2> QED BY <1>1, <2>1
<1>3. ASSUME NEW i \in File PROVE Grown(Fl(m, i).indirect, Fl(n, i).indirect, b)
  <2> DEFINE h == <<DirOf(i), EntryOf(i), 0>>
  <2>1. h \in Place /\ Holds(m, h) = Fl(m, i).indirect /\ Holds(n, h) = Fl(n, i).indirect
    BY Places
  <2> HIDE DEF h
  <2> QED BY <1>1, <2>1
<1>4. ASSUME NEW i \in File, NEW k \in Index PROVE Grown(Ptr(m, i, k), Ptr(n, i, k), b)
  <2> DEFINE h == <<DirOf(i), EntryOf(i), k>>
  <2>1. h \in Place /\ Holds(m, h) = Ptr(m, i, k) /\ Holds(n, h) = Ptr(n, i, k)
    BY Places
  <2> HIDE DEF h
  <2> QED BY <1>1, <2>1
<1>5. \A i \in File : Fl(n, i).name = Fl(m, i).name
  BY ContentsIs DEF Linked
<1>6. Grows(m, n, b)
  BY <1>2, <1>3, <1>4, <1>5 DEF Grows
<1>7. \A i \in File : DirBlock(m, i) # 0 => Same(m, n, i)
  BY <1>2, Files DEF Same, DirBlock, Grown, Linked
<1> QED BY <1>6, <1>7

LEMMA LinkedExclusive ==
    ASSUME NEW m, NEW n, NEW g, NEW b, b # 0, Linked(m, n, g, b), Exclusive(m), ~Owned(m, b),
           b \notin m.free
    PROVE Exclusive(n) /\ Used(n) = Used(m) \cup {b}
<1>1. \A h \in Place : Holds(m, h) # b
  BY UsedOwned DEF Used, Filled
<1>2. Filled(n) = Filled(m) \cup {g}
  BY DEF Filled, Linked
<1>3. \A h \in Filled(m) : h # g /\ h \in Place /\ Holds(n, h) = Holds(m, h)
  BY DEF Filled, Linked
<1>4. Holds(n, g) = b
  BY DEF Linked
<1>5. Used(n) = Used(m) \cup {b}
  BY <1>2, <1>3, <1>4 DEF Used
<1>6. \A h, k \in Filled(n) : Holds(n, h) = Holds(n, k) => h = k
  BY <1>1, <1>2, <1>3, <1>4, ExclusiveHolds
<1>7. Used(n) \cap n.free = {}
  BY <1>5, ExclusiveHolds DEF Linked
<1> QED BY <1>5, <1>6, <1>7, ExclusiveHolds

\* A request under way, seen from the disk it found.
ReqType == [m : DiskType, q : Seq(WriteType), ok : BOOLEAN, b : {0} \cup Blk]
Tight(m) == \A i \in File, k \in Index : k > Fl(m, i).size => Ptr(m, i, k) = 0
Building(d, r, S, w) ==
    /\ r \in ReqType
    /\ Sound(r.m)
    /\ w => Whole(r.m)
    /\ Fits(d, r.m, r.q, S)
    /\ \A n \in DOMAIN r.q : r.q[n].unit \notin r.m.free /\ r.q[n].unit # Super
    /\ \A i \in S : Fl(r.m, i).name # NoName
\* What the steps of a request leave as it was.
Follows(m, n) ==
    /\ \A j \in File : Contents(n, j) = Contents(m, j)
    /\ \A d \in Dirs : m.dptr[d] # 0 => n.dptr[d] = m.dptr[d]
    /\ n.dsize = m.dsize

LEMMA FreeBlock ==
    ASSUME NEW d, NEW r, NEW S, NEW w, Building(d, r, S, w), NEW b \in r.m.free
    PROVE /\ b \in Blk /\ b # 0 /\ ~Owned(r.m, b)
          /\ r.m \in DiskType /\ r.q \in Seq(WriteType) /\ \A n \in DOMAIN r.q : r.q[n].unit # b
<1>1. r.m \in DiskType /\ r.q \in Seq(WriteType)
  BY DEF Building, ReqType
<1>2. b \in Blk
  BY <1>1, Parts
<1>3. ~Owned(r.m, b)
  BY ExclusiveApart DEF Building, Sound
<1> QED BY <1>1, <1>2, <1>3, Numbers DEF Building

LEMMA LinkStep ==
    ASSUME NEW d, NEW r, NEW S \in SUBSET File, NEW w, Building(d, r, S, w), NEW b \in r.m.free,
           NEW n \in DiskType, NEW g, Linked(Taken(r.m, b), n, g, b),
           \A e \in Dirs : n.dptr[e] # 0 => e <= n.dsize, w => Tight(n),
           NEW s \in ReqType, s.m = n, s.q = Takings(r.m, r.q, b)
    PROVE Building(d, s, S, w)
<1> DEFINE t == Taken(r.m, b)
<1>1. /\ b \in Blk /\ b # 0 /\ ~Owned(r.m, b)
      /\ r.m \in DiskType /\ r.q \in Seq(WriteType) /\ \A o \in DOMAIN r.q : r.q[o].unit # b
  BY FreeBlock
<1>2. /\ t \in DiskType /\ t.free = r.m.free \ {b} /\ t.dptr = r.m.dptr /\ t.dsize = r.m.dsize
      /\ \A j \in File : Fl(t, j) = Fl(r.m, j)
      /\ \A j \in File, k \in Index : Ptr(t, j, k) = Ptr(r.m, j, k)
  BY <1>1, TakenIs, TakenSame
<1>3. FitsNew(d, t, Takings(r.m, r.q, b), S, b)
  BY <1>1, FitsTaken DEF Building
<1> HIDE DEF t
<1>4. Linked(t, n, g, b)
  BY DEF t
<1>5. Exclusive(t) /\ ~Owned(t, b)
  <2>0. Exclusive(r.m)
    BY DEF Building, Sound
  <2>1. Apart(r.m) /\ \A a \in r.m.free : ~Owned(r.m, a)
    BY <2>0, ExclusiveApart
  <2>2. Apart(t)
    BY <1>2, <2>1 DEF Apart
  <2>3. \A a : Owned(t, a) <=> Owned(r.m, a)
    BY <1>2 DEF Owned
  <2> QED BY <1>1, <1>2, <2>1, <2>2, <2>3, ExclusiveApart
<1>6. Exclusive(n) /\ Used(n) = Used(t) \cup {b} /\ n.free = r.m.free \ {b}
  <2>1. n.free = t.free
    BY <1>4 DEF Linked
  <2>2. b \notin t.free
    BY <1>2
  <2>3. Exclusive(n) /\ Used(n) = Used(t) \cup {b}
    BY <1>1, <1>4, <1>5, <2>2, LinkedExclusive
  <2> QED BY <1>2, <2>1, <2>3
<1>7. \A j \in File : Fl(n, j).name = Fl(r.m, j).name /\ Fl(n, j).size = Fl(r.m, j).size
  BY <1>2, <1>4, ContentsIs DEF Linked
<1>8. Sound(n)
  BY <1>6, <1>7 DEF Sound, Building, UniqueNames, Dirs
<1>9. ASSUME w, Tight(n) PROVE Whole(n)
  <2>1. Used(t) = Used(r.m)
    <3>1. \A a : Owned(t, a) <=> Owned(r.m, a)
      BY <1>2 DEF Owned
    <3> QED BY <3>1, UsedOwned
  <2>2. Blk \ r.m.free \subseteq Used(r.m)
    BY <1>9 DEF Building, Whole
  <2> QED BY <1>6, <1>9, <2>1, <2>2 DEF Whole, Tight
<1>10. ASSUME NEW i \in S PROVE Same(t, n, i) /\ Fl(n, i).name # NoName
  <2>1. Fl(t, i).name # NoName /\ i \in File
    BY <1>2 DEF Building
  <2>2. DirBlock(t, i) # 0
    <3>1. NoFile.name = NoName
      BY DEF NoFile
    <3> QED BY <1>2, <2>1, <3>1, FlType
  <2> QED BY <1>2, <1>4, <1>7, <2>1, <2>2, LinkedGrows
<1>11. Fits(d, n, Takings(r.m, r.q, b), S)
  <2>1. Grows(t, n, b) /\ n.free = t.free /\ b \in {0} \cup Blk
    BY <1>1, <1>2, <1>4, LinkedGrows DEF Linked
  <2>2. Takings(r.m, r.q, b) \in Seq(WriteType)
    BY <1>1, TakingsIs
  <2> QED BY <1>2, <1>3, <1>10, <2>1, <2>2, FitsGrows
<1>12. \A o \in DOMAIN s.q : s.q[o].unit \notin n.free /\ s.q[o].unit # Super
  <2> DEFINE l == Len(r.q)
  <2>1. /\ l \in Nat /\ DOMAIN r.q = 1 .. l /\ DOMAIN s.q = 1 .. l + 2
        /\ \A o \in 1 .. l : s.q[o] = r.q[o]
        /\ s.q[l + 1] = [unit |-> Bitmap, to |-> r.m.free \ {b}]
        /\ s.q[l + 2] = [unit |-> b, to |-> Cleared]
    BY <1>1, TakingsIs
  <2> HIDE DEF l
  <2>2. \A o \in 1 .. l : s.q[o].unit \notin n.free /\ s.q[o].unit # Super
    BY <1>6, <2>1 DEF Building
  <2>3. s.q[l + 1].unit = Bitmap /\ s.q[l + 2].unit = b
    BY <2>1
  <2>4. Bitmap \notin n.free /\ Bitmap # Super /\ b \notin n.free /\ b # Super
    BY <1>1, <1>6, Numbers, Parts
  <2>5. \A o \in DOMAIN s.q : o \in 1 .. l \/ o = l + 1 \/ o = l + 2
    BY <2>1
  <2> QED BY <2>2, <2>3, <2>4, <2>5
<1>13. w => Whole(n)
  BY <1>9
<1> QED BY <1>8, <1>10, <1>11, <1>12, <1>13 DEF Building
-----------------------------------------------------------------------------
\* The three places a block may be linked at.
LinkedAt(m, n, g, b) ==
    /\ \A d \in Dirs : n.dptr[d] = IF <<d, 0, 0>> = g THEN b ELSE m.dptr[d]
    /\ \A i \in File : Fl(n, i).indirect = IF <<DirOf(i), EntryOf(i), 0>> = g THEN b
                                           ELSE Fl(m, i).indirect
    /\ \A i \in File, k \in Index : Ptr(n, i, k) = IF <<DirOf(i), EntryOf(i), k>> = g THEN b
                                                   ELSE Ptr(m, i, k)
LEMMA HoldsBy ==
    ASSUME NEW m, NEW n, NEW g, NEW b, LinkedAt(m, n, g, b)
    PROVE \A h \in Place : Holds(n, h) = IF h = g THEN b ELSE Holds(m, h)
<1> TAKE h \in Place
<1>1. CASE \E d \in Dirs : h = <<d, 0, 0>>
  BY <1>1, Places DEF LinkedAt
<1>2. ASSUME NEW i \in File, h = <<DirOf(i), EntryOf(i), 0>>
      PROVE Holds(n, h) = IF h = g THEN b ELSE Holds(m, h)
  BY <1>2, Places DEF LinkedAt
<1>3. ASSUME NEW i \in File, NEW k \in Index, h = <<DirOf(i), EntryOf(i), k>>
      PROVE Holds(n, h) = IF h = g THEN b ELSE Holds(m, h)
  BY <1>3, Places DEF LinkedAt
<1> QED BY <1>1, <1>2, <1>3, Places

LEMMA PlaceIs ==
    /\ \A i \in File, d \in Dirs : \A k : <<DirOf(i), EntryOf(i), k>> # <<d, 0, 0>>
    /\ \A i, j \in File : \A k, l :
           <<DirOf(i), EntryOf(i), k>> = <<DirOf(j), EntryOf(j), l>> <=> i = j /\ k = l
<1>1. \A i \in File : EntryOf(i) # 0 /\ i = <<DirOf(i), EntryOf(i)>>
  BY Files, Numbers
<1>2. \A i, j \in File : DirOf(i) = DirOf(j) /\ EntryOf(i) = EntryOf(j) => i = j
  BY <1>1
<1> QED BY <1>1, <1>2

\* Files and their data are the same when the pointers are.
LEMMA SameContents ==
    ASSUME NEW m \in DiskType, NEW n \in DiskType, NEW j \in File,
           Fl(n, j).name = Fl(m, j).name, Fl(n, j).size = Fl(m, j).size,
           \A k \in Index : \/ Ptr(n, j, k) = Ptr(m, j, k)
                               /\ (Ptr(m, j, k) # 0 =>
                                   n.blk[Ptr(m, j, k)].val = m.blk[Ptr(m, j, k)].val)
                            \/ /\ Ptr(m, j, k) = 0 /\ Ptr(n, j, k) # 0
                               /\ n.blk[Ptr(n, j, k)].val = 0
    PROVE Contents(n, j) = Contents(m, j)
<1>1. ASSUME NEW k \in Index PROVE Val(n, j, k) = Val(m, j, k)
  <2>1. /\ Val(m, j, k) = IF k <= Fl(m, j).size /\ Ptr(m, j, k) # 0
                          THEN m.blk[Ptr(m, j, k)].val ELSE 0
        /\ Val(n, j, k) = IF k <= Fl(m, j).size /\ Ptr(n, j, k) # 0
                          THEN n.blk[Ptr(n, j, k)].val ELSE 0
    BY ValIs
  <2> QED BY <2>1
<1> QED BY <1>1, ContentsIs

LEMMA DirLinked ==
    ASSUME NEW m \in DiskType, NEW d \in Dirs, NEW b \in Blk, m.dptr[d] = 0, m.blk[b] = Cleared
    PROVE Linked(m, PutDir(m, d, b), <<d, 0, 0>>, b)
<1> DEFINE n == PutDir(m, d, b)
           g == <<d, 0, 0>>
<1>1. /\ n \in DiskType /\ n.free = m.free /\ n.blk = m.blk
      /\ \A e \in Dirs : n.dptr[e] = IF e = d THEN b ELSE m.dptr[e]
      /\ \A j \in File : Fl(n, j) = Fl(m, j)
  BY PutDirIs
<1> HIDE DEF n
<1>2. \A j \in File, k \in Index : Ptr(n, j, k) = Ptr(m, j, k)
  BY <1>1, PtrType, Numbers
<1>3. \A j \in File : Contents(n, j) = Contents(m, j)
  BY <1>1, <1>2, SameContents
<1>4. \A e \in Dirs : <<e, 0, 0>> = g <=> e = d
  OBVIOUS
<1>5. \A j \in File : \A k : <<DirOf(j), EntryOf(j), k>> # g
  BY PlaceIs
<1>6. g \in Place /\ Holds(m, g) = 0
  BY Places
<1> HIDE DEF g
<1>7. \A h \in Place : Holds(n, h) = IF h = g THEN b ELSE Holds(m, h)
  <2>1. \A e \in Dirs : n.dptr[e] = IF <<e, 0, 0>> = g THEN b ELSE m.dptr[e]
    BY <1>1, <1>4
  <2>2. \A i \in File : Fl(n, i).indirect = IF <<DirOf(i), EntryOf(i), 0>> = g THEN b
                                            ELSE Fl(m, i).indirect
    BY <1>1, <1>5
  <2>3. \A i \in File, k \in Index : Ptr(n, i, k) = IF <<DirOf(i), EntryOf(i), k>> = g THEN b
                                                    ELSE Ptr(m, i, k)
    BY <1>2, <1>5
  <2>4. LinkedAt(m, n, g, b)
    BY <2>1, <2>2, <2>3 DEF LinkedAt
  <2> QED BY <2>4, HoldsBy
<1> QED BY <1>1, <1>3, <1>6, <1>7 DEF Linked, n, g

WithInd(f, b) == [f EXCEPT !.indirect = b]
LEMMA WithIndIs == ASSUME NEW f \in FileType, NEW b \in {0} \cup Blk
    PROVE /\ WithInd(f, b) \in FileType /\ WithInd(f, b).indirect = b
          /\ WithInd(f, b).name = f.name /\ WithInd(f, b).size = f.size
          /\ WithInd(f, b).direct = f.direct
BY DEF WithInd, FileType

LEMMA IndirectLinked ==
    ASSUME NEW m \in DiskType, Apart(m), NEW i \in File, DirBlock(m, i) # 0,
           Fl(m, i).indirect = 0, NEW b \in Blk, m.blk[b] = Cleared
    PROVE Linked(m, SetFile(m, i, WithInd(Fl(m, i), b)), <<DirOf(i), EntryOf(i), 0>>, b)
<1> DEFINE n == SetFile(m, i, WithInd(Fl(m, i), b))
           g == <<DirOf(i), EntryOf(i), 0>>
<1>1. /\ Fl(m, i) \in FileType /\ WithInd(Fl(m, i), b) \in FileType
      /\ WithInd(Fl(m, i), b).indirect = b
      /\ WithInd(Fl(m, i), b).name = Fl(m, i).name /\ WithInd(Fl(m, i), b).size = Fl(m, i).size
      /\ WithInd(Fl(m, i), b).direct = Fl(m, i).direct
  BY FlType, WithIndIs
<1>2. /\ n \in DiskType /\ n.free = m.free /\ n.dptr = m.dptr
      /\ \A a \in Blk : n.blk[a].val = m.blk[a].val /\ n.blk[a].ptr = m.blk[a].ptr
      /\ \A j \in File : Fl(n, j) = IF j = i THEN WithInd(Fl(m, i), b) ELSE Fl(m, j)
  BY <1>1, SetFileIs
<1> HIDE DEF n
<1>3. \A j \in File : /\ Fl(n, j).name = Fl(m, j).name /\ Fl(n, j).size = Fl(m, j).size
                      /\ Fl(n, j).direct = Fl(m, j).direct
                      /\ Fl(n, j).indirect = IF j = i THEN b ELSE Fl(m, j).indirect
  BY <1>1, <1>2
<1>4. ASSUME NEW j \in File, NEW k \in Index PROVE Ptr(n, j, k) = Ptr(m, j, k)
  <2>1. CASE k <= NDIRECT
    BY <1>2, <1>3, <2>1, PtrType
  <2>2. CASE k > NDIRECT /\ j # i
    <3>1. Fl(n, j).indirect = Fl(m, j).indirect
      BY <1>3, <2>2
    <3>2. CASE Fl(m, j).indirect = 0
      BY <1>2, <2>2, <3>1, <3>2, PtrType
    <3>3. CASE Fl(m, j).indirect # 0
      <4>1. Fl(m, j).indirect \in Blk
        BY <3>3, FlType
      <4> QED BY <1>2, <2>2, <3>1, <3>3, <4>1, PtrType
    <3> QED BY <3>2, <3>3
  <2>3. CASE k > NDIRECT /\ j = i
    <3>1. Ptr(m, j, k) = 0 /\ b # 0 /\ k - NDIRECT \in 1 .. NINDIRECT
      BY <2>3, PtrType, Numbers
    <3>2. Ptr(n, j, k) = n.blk[b].ptr[k - NDIRECT]
      BY <1>2, <1>3, <2>3, <3>1, PtrType
    <3>3. n.blk[b].ptr[k - NDIRECT] = 0
      BY <1>2, <3>1, ClearedType
    <3> QED BY <3>1, <3>2, <3>3
  <2> QED BY <2>1, <2>2, <2>3, Numbers
<1>5. \A j \in File : Contents(n, j) = Contents(m, j)
  <2> TAKE j \in File
  <2>1. \A k \in Index : Ptr(m, j, k) # 0 =>
            n.blk[Ptr(m, j, k)].val = m.blk[Ptr(m, j, k)].val
    BY <1>2, PtrType
  <2> QED BY <1>2, <1>3, <1>4, <2>1, SameContents
<1>6. /\ \A e \in Dirs : <<e, 0, 0>> # g
      /\ \A j \in File : <<DirOf(j), EntryOf(j), 0>> = g <=> j = i
      /\ \A j \in File, k \in Index : <<DirOf(j), EntryOf(j), k>> # g
  <2>1. \A e \in Dirs : <<e, 0, 0>> # g
    BY PlaceIs
  <2>2. \A j \in File : \A k : <<DirOf(j), EntryOf(j), k>> = g <=> j = i /\ k = 0
    BY PlaceIs
  <2>3. \A k \in Index : k # 0
    BY Numbers
  <2> HIDE DEF g
  <2> QED BY <2>1, <2>2, <2>3
<1>7. g \in Place /\ Holds(m, g) = 0
  BY Places
<1> HIDE DEF g
<1>8. \A h \in Place : Holds(n, h) = IF h = g THEN b ELSE Holds(m, h)
  <2>1. \A e \in Dirs : n.dptr[e] = IF <<e, 0, 0>> = g THEN b ELSE m.dptr[e]
    BY <1>2, <1>6
  <2>2. \A j \in File : Fl(n, j).indirect = IF <<DirOf(j), EntryOf(j), 0>> = g THEN b
                                            ELSE Fl(m, j).indirect
    BY <1>3, <1>6
  <2>3. \A j \in File, k \in Index : Ptr(n, j, k) = IF <<DirOf(j), EntryOf(j), k>> = g THEN b
                                                    ELSE Ptr(m, j, k)
    BY <1>4, <1>6
  <2>4. LinkedAt(m, n, g, b)
    BY <2>1, <2>2, <2>3 DEF LinkedAt
  <2> QED BY <2>4, HoldsBy
<1> QED BY <1>2, <1>5, <1>7, <1>8 DEF Linked, n, g

WithDirect(f, k, b) == [f EXCEPT !.direct[k] = b]
LEMMA WithDirectIs == ASSUME NEW f \in FileType, NEW k \in 1 .. NDIRECT, NEW b \in {0} \cup Blk
    PROVE /\ WithDirect(f, k, b) \in FileType /\ WithDirect(f, k, b).indirect = f.indirect
          /\ WithDirect(f, k, b).name = f.name /\ WithDirect(f, k, b).size = f.size
          /\ \A l \in 1 .. NDIRECT : WithDirect(f, k, b).direct[l] = IF l = k THEN b
                                                                   ELSE f.direct[l]
BY DEF WithDirect, FileType

\* Setting the pointer of a block of a file.
LEMMA SetPtrIs ==
    ASSUME NEW m \in DiskType, Apart(m), NEW i \in File, DirBlock(m, i) # 0, NEW k \in Index,
           k > NDIRECT => Fl(m, i).indirect # 0, NEW b \in {0} \cup Blk
    PROVE /\ SetPtr(m, i, k, b) \in DiskType
          /\ SetPtr(m, i, k, b).free = m.free /\ SetPtr(m, i, k, b).dsize = m.dsize
          /\ SetPtr(m, i, k, b).dptr = m.dptr
          /\ \A a \in Blk : SetPtr(m, i, k, b).blk[a].val = m.blk[a].val
          /\ \A j \in File : /\ Fl(SetPtr(m, i, k, b), j).name = Fl(m, j).name
                             /\ Fl(SetPtr(m, i, k, b), j).size = Fl(m, j).size
                             /\ Fl(SetPtr(m, i, k, b), j).indirect = Fl(m, j).indirect
          /\ \A j \in File, l \in Index :
                 Ptr(SetPtr(m, i, k, b), j, l) = IF j = i /\ l = k THEN b ELSE Ptr(m, j, l)
<1> DEFINE n == SetPtr(m, i, k, b)
<1>1. CASE k <= NDIRECT
  <2> DEFINE f == WithDirect(Fl(m, i), k, b)
  <2>0. k \in 1 .. NDIRECT /\ Fl(m, i) \in FileType
    BY <1>1, FlType, Numbers
  <2>1. /\ f \in FileType /\ f.indirect = Fl(m, i).indirect
        /\ f.name = Fl(m, i).name /\ f.size = Fl(m, i).size
        /\ \A l \in 1 .. NDIRECT : f.direct[l] = IF l = k THEN b ELSE Fl(m, i).direct[l]
    BY <2>0, WithDirectIs
  <2>2. n = SetFile(m, i, f)
    BY <1>1 DEF SetPtr, WithDirect
  <2> HIDE DEF n, f
  <2>3. /\ n \in DiskType /\ n.free = m.free /\ n.dsize = m.dsize /\ n.dptr = m.dptr
        /\ \A a \in Blk : n.blk[a].val = m.blk[a].val /\ n.blk[a].ptr = m.blk[a].ptr
        /\ \A j \in File : Fl(n, j) = IF j = i THEN f ELSE Fl(m, j)
    BY <2>1, <2>2, SetFileIs
  <2>4. \A j \in File : /\ Fl(n, j).name = Fl(m, j).name /\ Fl(n, j).size = Fl(m, j).size
                        /\ Fl(n, j).indirect = Fl(m, j).indirect
    BY <2>1, <2>3
  <2>5. ASSUME NEW j \in File, NEW l \in Index
        PROVE Ptr(n, j, l) = IF j = i /\ l = k THEN b ELSE Ptr(m, j, l)
    <3>1. CASE l <= NDIRECT
      <4>1. l \in 1 .. NDIRECT
        BY <3>1, Numbers
      <4>2. Ptr(n, j, l) = Fl(n, j).direct[l] /\ Ptr(m, j, l) = Fl(m, j).direct[l]
        BY <2>3, <3>1, PtrType
      <4> QED BY <2>1, <2>3, <4>1, <4>2
    <3>2. CASE l > NDIRECT
      <4>1. l # k
        BY <1>1, <3>2, Numbers
      <4>2. CASE Fl(m, j).indirect = 0
        BY <2>3, <2>4, <3>2, <4>1, <4>2, PtrType
      <4>3. CASE Fl(m, j).indirect # 0
        <5>1. Fl(m, j).indirect \in Blk
          BY <4>3, FlType
        <5> QED BY <2>3, <2>4, <3>2, <4>1, <4>3, <5>1, PtrType
      <4> QED BY <4>2, <4>3
    <3> QED BY <3>1, <3>2, Numbers
  <2> QED BY <2>3, <2>4, <2>5 DEF n
<1>2. CASE k > NDIRECT
  <2> DEFINE u == Fl(m, i).indirect
  <2>1. u \in Blk /\ u # 0 /\ k - NDIRECT \in 1 .. NINDIRECT /\ ~(k <= NDIRECT)
    BY <1>2, FlType, Numbers
  <2>2. n = PutPtr(m, u, k - NDIRECT, b)
    BY <2>1 DEF SetPtr, PutPtr
  <2>3. u = Fl(m, i).indirect
    OBVIOUS
  <2> HIDE DEF n, u
  <2>4. /\ n \in DiskType /\ n.free = m.free /\ n.dsize = m.dsize /\ n.dptr = m.dptr
        /\ \A a \in Blk : n.blk[a].val = m.blk[a].val /\ (a # u => n.blk[a] = m.blk[a])
        /\ \A l \in 1 .. NINDIRECT : n.blk[u].ptr[l] = IF l = k - NDIRECT THEN b
                                                      ELSE m.blk[u].ptr[l]
        /\ \A j \in File : Fl(n, j) = Fl(m, j)
    BY SMTT(20), <2>1, <2>2, PutPtrIs
  <2>5. ASSUME NEW j \in File, NEW l \in Index
        PROVE Ptr(n, j, l) = IF j = i /\ l = k THEN b ELSE Ptr(m, j, l)
    <3>1. CASE l <= NDIRECT
      <4>1. l # k
        BY <1>2, <3>1, Numbers
      <4> QED BY <2>4, <3>1, <4>1, PtrType
    <3>2. CASE l > NDIRECT /\ j = i
      <4>1. l - NDIRECT \in 1 .. NINDIRECT /\ (l - NDIRECT = k - NDIRECT <=> l = k)
        BY <3>2, Numbers
      <4>2. Ptr(n, j, l) = n.blk[u].ptr[l - NDIRECT] /\ Ptr(m, j, l) = m.blk[u].ptr[l - NDIRECT]
        BY <2>1, <2>3, <2>4, <3>2, PtrType
      <4> QED BY <2>4, <3>2, <4>1, <4>2
    <3>3. CASE l > NDIRECT /\ j # i /\ Fl(m, j).indirect = 0
      BY <2>4, <3>3, PtrType
    <3>4. CASE l > NDIRECT /\ j # i /\ Fl(m, j).indirect # 0
      <4>1. Fl(m, j).indirect \in Blk /\ Fl(m, j).indirect # u
        BY <2>1, <2>3, <3>4, FlType DEF Apart
      <4> QED BY <2>4, <3>4, <4>1, PtrType
    <3> QED BY <3>1, <3>2, <3>3, <3>4, Numbers
  <2> QED BY <2>4, <2>5 DEF n
<1> QED BY <1>1, <1>2, Numbers

LEMMA PtrLinked ==
    ASSUME NEW m \in DiskType, Apart(m), NEW i \in File, DirBlock(m, i) # 0, NEW k \in Index,
           k > NDIRECT => Fl(m, i).indirect # 0, Ptr(m, i, k) = 0,
           NEW b \in Blk, m.blk[b] = Cleared
    PROVE Linked(m, SetPtr(m, i, k, b), <<DirOf(i), EntryOf(i), k>>, b)
<1> DEFINE n == SetPtr(m, i, k, b)
           g == <<DirOf(i), EntryOf(i), k>>
<1>0. b \in {0} \cup Blk
  OBVIOUS
<1>1. /\ n \in DiskType /\ n.free = m.free /\ n.dsize = m.dsize /\ n.dptr = m.dptr
      /\ \A a \in Blk : n.blk[a].val = m.blk[a].val
      /\ \A j \in File : /\ Fl(n, j).name = Fl(m, j).name /\ Fl(n, j).size = Fl(m, j).size
                         /\ Fl(n, j).indirect = Fl(m, j).indirect
      /\ \A j \in File, l \in Index :
             Ptr(n, j, l) = IF j = i /\ l = k THEN b ELSE Ptr(m, j, l)
  BY <1>0, SetPtrIs
<1> HIDE DEF n
<1>2. b # 0 /\ n.blk[b].val = 0
  BY <1>1, ClearedType, Numbers
<1>3. \A j \in File : Contents(n, j) = Contents(m, j)
  <2> TAKE j \in File
  <2>1. \A l \in Index : Ptr(m, j, l) # 0 =>
            n.blk[Ptr(m, j, l)].val = m.blk[Ptr(m, j, l)].val
    BY <1>1, PtrType
  <2>2. \A l \in Index : \/ Ptr(n, j, l) = Ptr(m, j, l)
                            /\ (Ptr(m, j, l) # 0 =>
                                n.blk[Ptr(m, j, l)].val = m.blk[Ptr(m, j, l)].val)
                         \/ /\ Ptr(m, j, l) = 0 /\ Ptr(n, j, l) # 0
                            /\ n.blk[Ptr(n, j, l)].val = 0
    BY <1>1, <1>2, <2>1
  <2> QED BY <1>1, <2>2, SameContents
<1>4. /\ \A e \in Dirs : <<e, 0, 0>> # g
      /\ \A j \in File : <<DirOf(j), EntryOf(j), 0>> # g
      /\ \A j \in File, l \in Index : <<DirOf(j), EntryOf(j), l>> = g <=> j = i /\ l = k
  BY PlaceIs, Numbers
<1>5. g \in Place /\ Holds(m, g) = 0
  BY Places
<1> HIDE DEF g
<1>6. \A h \in Place : Holds(n, h) = IF h = g THEN b ELSE Holds(m, h)
  <2>1. \A e \in Dirs : n.dptr[e] = IF <<e, 0, 0>> = g THEN b ELSE m.dptr[e]
    BY <1>1, <1>4
  <2>2. \A j \in File : Fl(n, j).indirect = IF <<DirOf(j), EntryOf(j), 0>> = g THEN b
                                            ELSE Fl(m, j).indirect
    BY <1>1, <1>4
  <2>3. \A j \in File, l \in Index : Ptr(n, j, l) = IF <<DirOf(j), EntryOf(j), l>> = g THEN b
                                                    ELSE Ptr(m, j, l)
    BY <1>1, <1>4
  <2>4. LinkedAt(m, n, g, b)
    BY <2>1, <2>2, <2>3 DEF LinkedAt
  <2> QED BY <2>4, HoldsBy
<1> QED BY <1>1, <1>3, <1>5, <1>6 DEF Linked, n, g
-----------------------------------------------------------------------------
\* What a request under way becomes when it gets the block b, when it gets none, and
\* when its cache is changed.
Got(r, s, b)  == /\ b \in r.m.free /\ s.ok /\ s.b = b
                 /\ s.m = Taken(r.m, b) /\ s.q = Takings(r.m, r.q, b)
Fails(r, s)   == ~s.ok /\ s.m = r.m /\ s.q = r.q
With(r, n)    == [r EXCEPT !.m = n]

LEMMA WithIs == ASSUME NEW r \in ReqType, NEW n \in DiskType
    PROVE /\ With(r, n) \in ReqType /\ With(r, n).m = n
          /\ With(r, n).q = r.q /\ With(r, n).ok = r.ok /\ With(r, n).b = r.b
BY DEF With, ReqType

LEMMA AllocIs == ASSUME NEW r \in ReqType, \A b \in r.m.free : ~Owned(r.m, b)
    PROVE /\ AllocBlock(r) \in ReqType
          /\ Fails(r, AllocBlock(r)) \/ \E b \in r.m.free : Got(r, AllocBlock(r), b)
<1>1. r.m \in DiskType /\ r.q \in Seq(WriteType) /\ r.ok \in BOOLEAN /\ r.b \in {0} \cup Blk
  BY DEF ReqType
<1>2. r.m.free \subseteq Blk /\ r.m.blk \in [Blk -> BlockType]
  BY <1>1, Parts
<1>3. CASE ~r.ok \/ r.m.free = {}
  <2>1. AllocBlock(r) = [r EXCEPT !.ok = FALSE]
    BY <1>3 DEF AllocBlock
  <2> QED BY <2>1 DEF ReqType, Fails
<1>4. CASE r.ok /\ r.m.free # {}
  <2>1. \E b \in r.m.free : \A c \in r.m.free : b <= c
    BY <1>2, <1>4, Least, Numbers
  <2>2. PICK b : b = CHOOSE x \in r.m.free : \A c \in r.m.free : x <= c
    OBVIOUS
  <2>3. b \in r.m.free /\ b \in Blk /\ ~Owned(r.m, b)
    BY <1>2, <2>1, <2>2
  <2> DEFINE m1 == [r.m EXCEPT !.free = @ \ {b}]
             s0 == [r EXCEPT !.m.free = @ \ {b}, !.b = b]
             r1 == Flush(s0, Bitmap)
             s1 == [r1 EXCEPT !.m.blk[b] = Cleared]
  <2>4. AllocBlock(r) = Flush(s1, b)
    BY <1>4, <2>2 DEF AllocBlock
  <2>5. s0 = [r EXCEPT !.m = m1, !.b = b]
    OBVIOUS
  <2>6. m1 \in DiskType /\ m1.free = r.m.free \ {b}
    <3>1. r.m = [free |-> r.m.free, dsize |-> r.m.dsize, dptr |-> r.m.dptr, blk |-> r.m.blk]
          /\ r.m.free \ {b} \in SUBSET Blk /\ r.m.dsize \in 0 .. NDir
          /\ r.m.dptr \in [Dirs -> {0} \cup Blk]
      BY <1>1, Parts
    <3>2. \A a : [r.m EXCEPT !.free = a] = [free |-> a, dsize |-> r.m.dsize, dptr |-> r.m.dptr,
                                            blk |-> r.m.blk]
      BY <3>1
    <3>3. m1 = [free |-> r.m.free \ {b}, dsize |-> r.m.dsize, dptr |-> r.m.dptr, blk |-> r.m.blk]
      BY <3>2
    <3> HIDE DEF m1
    <3> QED BY <1>2, <3>1, <3>3, MakeDisk
  <2>7. Taken(r.m, b) = [m1 EXCEPT !.blk[b] = Cleared]
    BY DEF Taken
  <2> HIDE DEF m1, s0
  <2>8. s0 \in ReqType /\ s0.m = m1 /\ s0.q = r.q /\ s0.ok = r.ok /\ s0.b = b
    BY <2>3, <2>5, <2>6 DEF ReqType
  <2> DEFINE w1 == [unit |-> Bitmap, to |-> r.m.free \ {b}]
             w2 == [unit |-> b, to |-> Cleared]
  <2>9. Block(m1, Bitmap) = w1
    BY <2>6, HeldIs DEF Block
  <2>10. w1 \in WriteType /\ w2 \in WriteType
    BY <1>2, <2>3, ClearedType DEF WriteType
  <2> HIDE DEF w1, w2
  <2>11. r1 \in ReqType /\ r1.m = m1 /\ r1.q = Append(r.q, w1) /\ r1.ok = r.ok /\ r1.b = b
    BY SMTT(20), <1>1, <2>8, <2>9, <2>10 DEF Flush, ReqType
  <2> HIDE DEF r1
  <2>12. Taken(r.m, b) \in DiskType /\ Taken(r.m, b).blk[b] = Cleared
    BY <1>1, <2>3, TakenIs
  <2>13. s1 = [r1 EXCEPT !.m = Taken(r.m, b)]
    BY <2>7, <2>11
  <2> HIDE DEF s1
  <2>14. /\ s1 \in ReqType /\ s1.m = Taken(r.m, b) /\ s1.q = Append(r.q, w1)
         /\ s1.ok = r.ok /\ s1.b = b
    BY <2>11, <2>12, <2>13 DEF ReqType
  <2>15. Block(Taken(r.m, b), b) = w2
    BY <2>3, <2>12, HeldIs DEF Block, w2
  <2>16. Append(Append(r.q, w1), w2) = Takings(r.m, r.q, b)
    BY DEF Takings, w1, w2
  <2>17. Takings(r.m, r.q, b) \in Seq(WriteType)
    BY <1>1, <2>3, TakingsIs
  <2>18. Flush(s1, b) = [s1 EXCEPT !.q = Takings(r.m, r.q, b)]
    BY <2>14, <2>15, <2>16 DEF Flush
  <2>19. /\ Flush(s1, b) \in ReqType /\ Flush(s1, b).m = Taken(r.m, b)
         /\ Flush(s1, b).q = Takings(r.m, r.q, b) /\ Flush(s1, b).ok = r.ok /\ Flush(s1, b).b = b
    BY <2>14, <2>17, <2>18 DEF ReqType
  <2> QED BY <1>4, <2>3, <2>4, <2>19 DEF Got
<1> QED BY <1>1, <1>3, <1>4

LEMMA FailStep ==
    ASSUME NEW d, NEW r, NEW S, NEW w, Building(d, r, S, w), NEW s \in ReqType, Fails(r, s)
    PROVE Building(d, s, S, w) /\ Follows(r.m, s.m)
BY DEF Building, Follows, Fails

LEMMA FollowsTrans == ASSUME NEW m, NEW n, NEW o, Follows(m, n), Follows(n, o)
    PROVE Follows(m, o)
BY DEF Follows

\* A block got, and linked at a place that had none.
LEMMA GotStep ==
    ASSUME NEW d, NEW r, NEW S \in SUBSET File, NEW w, Building(d, r, S, w),
           NEW s \in ReqType, NEW b \in r.m.free, Got(r, s, b),
           NEW n \in DiskType, NEW g, Linked(s.m, n, g, b), n.dsize = s.m.dsize,
           \A e \in Dirs : n.dptr[e] # 0 => e <= n.dsize, w => Tight(n)
    PROVE Building(d, With(s, n), S, w) /\ Follows(r.m, n)
<1> DEFINE t == Taken(r.m, b)
<1>1. s.m = t /\ s.q = Takings(r.m, r.q, b)
  BY DEF Got
<1>2. /\ With(s, n) \in ReqType /\ With(s, n).m = n
      /\ With(s, n).q = Takings(r.m, r.q, b)
  BY <1>1, WithIs
<1>3. Building(d, With(s, n), S, w)
  BY <1>1, <1>2, LinkStep
<1>4. b \in Blk /\ ~Owned(r.m, b) /\ r.m \in DiskType
  BY FreeBlock
<1>5. /\ t.dptr = r.m.dptr /\ t.dsize = r.m.dsize /\ \A i \in File : Contents(t, i) = Contents(r.m, i)
  BY <1>4, TakenIs, TakenSame DEF Same
<1> HIDE DEF t
<1>6. \A j \in File : Contents(n, j) = Contents(r.m, j)
  BY <1>1, <1>5 DEF Linked
<1>7. ASSUME NEW e \in Dirs, r.m.dptr[e] # 0 PROVE n.dptr[e] = r.m.dptr[e]
  <2> DEFINE h == <<e, 0, 0>>
  <2>1. h \in Place /\ Holds(t, h) = t.dptr[e] /\ Holds(n, h) = n.dptr[e]
    BY Places
  <2> HIDE DEF h
  <2> QED BY <1>1, <1>5, <1>7, <2>1 DEF Linked
<1> QED BY <1>1, <1>3, <1>5, <1>6, <1>7 DEF Follows, Dirs

LEMMA GotIs ==
    ASSUME NEW d, NEW r, NEW S, NEW w, Building(d, r, S, w),
           NEW s \in ReqType, NEW b \in r.m.free, Got(r, s, b)
    PROVE /\ b \in Blk /\ b # 0 /\ s.m \in DiskType /\ s.m.blk[b] = Cleared /\ Apart(s.m)
          /\ s.m.dptr = r.m.dptr /\ s.m.dsize = r.m.dsize
          /\ \A i \in File : Fl(s.m, i) = Fl(r.m, i) /\ DirBlock(s.m, i) = DirBlock(r.m, i)
          /\ \A i \in File, k \in Index : Ptr(s.m, i, k) = Ptr(r.m, i, k)
          /\ w => Tight(s.m)
          /\ \A e \in Dirs : s.m.dptr[e] # 0 => e <= s.m.dsize
<1>1. b \in Blk /\ b # 0 /\ ~Owned(r.m, b) /\ r.m \in DiskType
  BY FreeBlock
<1>2. s.m = Taken(r.m, b) /\ s.m \in DiskType
  BY DEF Got, ReqType
<1>3. /\ s.m.blk[b] = Cleared /\ s.m.dptr = r.m.dptr /\ s.m.dsize = r.m.dsize
      /\ \A i \in File : Fl(s.m, i) = Fl(r.m, i)
      /\ \A i \in File, k \in Index : Ptr(s.m, i, k) = Ptr(r.m, i, k)
  BY <1>1, <1>2, TakenIs, TakenSame
<1>4. Apart(r.m)
  BY ExclusiveApart DEF Building, Sound
<1>5. Apart(s.m)
  BY <1>3, <1>4 DEF Apart
<1>6. w => Tight(s.m)
  BY <1>3 DEF Building, Whole, Tight
<1>7. \A e \in Dirs : s.m.dptr[e] # 0 => e <= s.m.dsize
  BY <1>3 DEF Building, Sound, Dirs
<1> QED BY <1>1, <1>2, <1>3, <1>5, <1>6, <1>7 DEF DirBlock

LEMMA LinkedTight ==
    ASSUME NEW m, NEW n, NEW g, NEW b, Linked(m, n, g, b), Tight(m),
           \A i \in File, k \in Index : g = <<DirOf(i), EntryOf(i), k>> => ~(k > Fl(m, i).size)
    PROVE Tight(n)
<1> SUFFICES ASSUME NEW i \in File, NEW k \in Index, k > Fl(n, i).size PROVE Ptr(n, i, k) = 0
  BY DEF Tight
<1>1. Fl(n, i).size = Fl(m, i).size
  BY ContentsIs DEF Linked
<1>2. Ptr(m, i, k) = 0
  BY <1>1 DEF Tight
<1> DEFINE h == <<DirOf(i), EntryOf(i), k>>
<1>3. h \in Place /\ Holds(m, h) = Ptr(m, i, k) /\ Holds(n, h) = Ptr(n, i, k)
  BY Places
<1>4. h # g
  BY <1>1
<1> HIDE DEF h
<1> QED BY <1>2, <1>3, <1>4 DEF Linked

LEMMA GetDirBlockStep ==
    ASSUME NEW d, NEW r, NEW S \in SUBSET File, NEW w, Building(d, r, S, w),
           NEW e \in Dirs, e <= r.m.dsize
    PROVE /\ Building(d, GetDirBlock(r, e), S, w) /\ Follows(r.m, GetDirBlock(r, e).m)
          /\ GetDirBlock(r, e).ok => GetDirBlock(r, e).m.dptr[e] # 0
<1>1. CASE ~r.ok \/ r.m.dptr[e] # 0
  BY <1>1 DEF GetDirBlock, Follows
<1>2. CASE r.ok /\ r.m.dptr[e] = 0
  <2> DEFINE s == AllocBlock(r)
  <2>0. r \in ReqType /\ \A b \in r.m.free : ~Owned(r.m, b)
    BY FreeBlock DEF Building
  <2>1. s \in ReqType /\ (Fails(r, s) \/ \E b \in r.m.free : Got(r, s, b))
    BY <2>0, AllocIs
  <2>2. GetDirBlock(r, e) = IF s.ok THEN [s EXCEPT !.m.dptr[e] = s.b] ELSE s
    BY <1>2 DEF GetDirBlock
  <2> HIDE DEF s
  <2>3. CASE Fails(r, s)
    <3>1. GetDirBlock(r, e) = s /\ ~s.ok
      BY <2>2, <2>3 DEF Fails
    <3> QED BY <2>1, <2>3, <3>1, FailStep
  <2>4. ASSUME NEW b \in r.m.free, Got(r, s, b)
        PROVE /\ Building(d, GetDirBlock(r, e), S, w) /\ Follows(r.m, GetDirBlock(r, e).m)
              /\ GetDirBlock(r, e).m.dptr[e] # 0
    <3> DEFINE n == PutDir(s.m, e, b)
    <3>1. /\ b \in Blk /\ b # 0 /\ s.m \in DiskType /\ s.m.blk[b] = Cleared
          /\ s.m.dptr = r.m.dptr /\ s.m.dsize = r.m.dsize /\ (w => Tight(s.m))
          /\ \A a \in Dirs : s.m.dptr[a] # 0 => a <= s.m.dsize
      BY <2>1, <2>4, GotIs
    <3>2. s.m.dptr[e] = 0
      BY <1>2, <3>1
    <3>3. /\ n \in DiskType /\ n.dsize = s.m.dsize
          /\ \A a \in Dirs : n.dptr[a] = IF a = e THEN b ELSE s.m.dptr[a]
      BY <3>1, <3>2, PutDirIs
    <3>4. Linked(s.m, n, <<e, 0, 0>>, b)
      BY <3>1, <3>2, DirLinked
    <3>5. GetDirBlock(r, e) = With(s, n)
      BY <2>2, <2>4 DEF With, PutDir, Got
    <3> HIDE DEF n
    <3>6. \A i \in File, k \in Index : <<e, 0, 0>> # <<DirOf(i), EntryOf(i), k>>
      BY PlaceIs
    <3>7. w => Tight(n)
      BY <3>1, <3>4, <3>6, LinkedTight
    <3>8. \A a \in Dirs : n.dptr[a] # 0 => a <= n.dsize
      BY <3>1, <3>3
    <3>9. Building(d, With(s, n), S, w) /\ Follows(r.m, n)
      BY <2>1, <2>4, <3>3, <3>4, <3>7, <3>8, GotStep
    <3> QED BY <2>1, <3>1, <3>3, <3>5, <3>9, WithIs
  <2> QED BY <2>1, <2>3, <2>4
<1> QED BY <1>1, <1>2

LEMMA WithIndirectStep ==
    ASSUME NEW d, NEW r, NEW S \in SUBSET File, NEW w, Building(d, r, S, w),
           NEW i \in File, DirBlock(r.m, i) # 0, NEW k \in Index
    PROVE /\ Building(d, WithIndirect(r, i, k), S, w) /\ Follows(r.m, WithIndirect(r, i, k).m)
          /\ WithIndirect(r, i, k).ok =>
                 (k > NDIRECT => Fl(WithIndirect(r, i, k).m, i).indirect # 0)
<1>1. CASE k <= NDIRECT \/ Fl(r.m, i).indirect # 0
  <2>1. WithIndirect(r, i, k) = r
    BY <1>1 DEF WithIndirect
  <2>2. k > NDIRECT => Fl(r.m, i).indirect # 0
    BY <1>1, Numbers
  <2> QED BY <2>1, <2>2 DEF Follows
<1>2. CASE ~(k <= NDIRECT) /\ Fl(r.m, i).indirect = 0
  <2> DEFINE s == AllocBlock(r)
  <2>0. r \in ReqType /\ \A b \in r.m.free : ~Owned(r.m, b)
    BY FreeBlock DEF Building
  <2>1. s \in ReqType /\ (Fails(r, s) \/ \E b \in r.m.free : Got(r, s, b))
    BY <2>0, AllocIs
  <2>2. WithIndirect(r, i, k) =
          IF s.ok THEN [s EXCEPT !.m = SetFile(s.m, i, [Fl(s.m, i) EXCEPT !.indirect = s.b])] ELSE s
    BY <1>2 DEF WithIndirect
  <2> HIDE DEF s
  <2>3. CASE Fails(r, s)
    <3>1. WithIndirect(r, i, k) = s /\ ~s.ok
      BY <2>2, <2>3 DEF Fails
    <3> QED BY <2>1, <2>3, <3>1, FailStep
  <2>4. ASSUME NEW b \in r.m.free, Got(r, s, b)
        PROVE /\ Building(d, WithIndirect(r, i, k), S, w) /\ Follows(r.m, WithIndirect(r, i, k).m)
              /\ Fl(WithIndirect(r, i, k).m, i).indirect # 0
    <3> DEFINE f == WithInd(Fl(s.m, i), b)
               n == SetFile(s.m, i, f)
               g == <<DirOf(i), EntryOf(i), 0>>
    <3>1. /\ b \in Blk /\ b # 0 /\ s.m \in DiskType /\ s.m.blk[b] = Cleared /\ Apart(s.m)
          /\ s.m.dptr = r.m.dptr /\ s.m.dsize = r.m.dsize /\ (w => Tight(s.m))
          /\ \A a \in Dirs : s.m.dptr[a] # 0 => a <= s.m.dsize
          /\ Fl(s.m, i) = Fl(r.m, i) /\ DirBlock(s.m, i) = DirBlock(r.m, i)
      BY <2>1, <2>4, GotIs
    <3>2. Fl(s.m, i).indirect = 0 /\ DirBlock(s.m, i) # 0
      BY <1>2, <3>1
    <3>3. f \in FileType /\ f.indirect = b
      BY <3>1, FlType, WithIndIs
    <3>4. Linked(s.m, n, g, b)
      BY <3>1, <3>2, IndirectLinked
    <3>5. WithIndirect(r, i, k) = With(s, n)
      BY <2>2, <2>4 DEF With, WithInd, Got
    <3> HIDE DEF f
    <3>6. n \in DiskType /\ n.dsize = s.m.dsize /\ n.dptr = s.m.dptr /\ Fl(n, i) = f
      BY <3>1, <3>2, <3>3, SetFileIs
    <3>7. \A j \in File, l \in Index : g # <<DirOf(j), EntryOf(j), l>>
      BY PlaceIs, Numbers
    <3> HIDE DEF n, g
    <3>8. w => Tight(n)
      BY <3>1, <3>4, <3>7, LinkedTight
    <3>9. \A a \in Dirs : n.dptr[a] # 0 => a <= n.dsize
      BY <3>1, <3>6
    <3>10. Building(d, With(s, n), S, w) /\ Follows(r.m, n)
      BY <2>1, <2>4, <3>4, <3>6, <3>8, <3>9, GotStep
    <3> QED BY <2>1, <3>1, <3>3, <3>5, <3>6, <3>10, WithIs
  <2> QED BY <2>1, <2>3, <2>4
<1> QED BY <1>1, <1>2

LEMMA FollowsIs == ASSUME NEW m, NEW n, Follows(m, n)
    PROVE /\ \A i \in File : /\ Fl(n, i).name = Fl(m, i).name /\ Fl(n, i).size = Fl(m, i).size
                             /\ Contents(n, i) = Contents(m, i)
                             /\ DirBlock(m, i) # 0 => DirBlock(n, i) = DirBlock(m, i)
          /\ n.dsize = m.dsize
<1>1. \A i \in File : DirBlock(m, i) # 0 => DirBlock(n, i) = DirBlock(m, i)
  BY Files DEF Follows, DirBlock
<1> QED BY <1>1, ContentsIs DEF Follows

\* The block found is the one the file has at k.
Finds(s, i, k) == s.b \in Blk /\ s.b = Ptr(s.m, i, k) /\ DirBlock(s.m, i) # 0

LEMMA GetBlockStep ==
    ASSUME NEW d, NEW r, NEW S \in SUBSET File, NEW w, Building(d, r, S, w),
           NEW i \in File, DirBlock(r.m, i) # 0, NEW k \in Index,
           w => ~(k > Fl(r.m, i).size)
    PROVE /\ Building(d, GetBlock(r, i, k), S, w) /\ Follows(r.m, GetBlock(r, i, k).m)
          /\ GetBlock(r, i, k).ok => Finds(GetBlock(r, i, k), i, k)
<1> DEFINE r1 == WithIndirect(r, i, k)
<1>1. /\ Building(d, r1, S, w) /\ Follows(r.m, r1.m)
      /\ r1.ok => (k > NDIRECT => Fl(r1.m, i).indirect # 0)
  BY WithIndirectStep
<1>2. GetBlock(r, i, k) =
        IF ~r1.ok THEN r1
        ELSE IF Ptr(r1.m, i, k) # 0 THEN [r1 EXCEPT !.b = Ptr(r1.m, i, k)]
        ELSE LET r2 == AllocBlock(r1)
             IN IF r2.ok THEN [r2 EXCEPT !.m = SetPtr(r2.m, i, k, r2.b)] ELSE r2
  BY DEF GetBlock
<1> HIDE DEF r1
<1>3. r1 \in ReqType /\ r1.m \in DiskType /\ \A b \in r1.m.free : ~Owned(r1.m, b)
  BY <1>1, FreeBlock DEF Building, ReqType
<1>4. DirBlock(r1.m, i) # 0 /\ (w => ~(k > Fl(r1.m, i).size))
  BY <1>1, FollowsIs
<1>5. CASE ~r1.ok
  BY <1>1, <1>2, <1>5
<1>6. CASE r1.ok /\ Ptr(r1.m, i, k) # 0
  <2>1. Ptr(r1.m, i, k) \in Blk
    BY <1>3, <1>6, PtrType
  <2> DEFINE s == [r1 EXCEPT !.b = Ptr(r1.m, i, k)]
  <2>2. GetBlock(r, i, k) = s
    BY <1>2, <1>6
  <2>3. s \in ReqType /\ s.m = r1.m /\ s.q = r1.q /\ s.b = Ptr(r1.m, i, k)
    BY <1>3, <2>1 DEF ReqType
  <2> HIDE DEF s
  <2>4. Building(d, s, S, w)
    BY <1>1, <2>3 DEF Building
  <2> QED BY <1>1, <1>4, <2>1, <2>2, <2>3, <2>4 DEF Finds
<1>7. CASE r1.ok /\ Ptr(r1.m, i, k) = 0
  <2> DEFINE s == AllocBlock(r1)
  <2>1. s \in ReqType /\ (Fails(r1, s) \/ \E b \in r1.m.free : Got(r1, s, b))
    BY <1>3, AllocIs
  <2>2. GetBlock(r, i, k) = IF s.ok THEN [s EXCEPT !.m = SetPtr(s.m, i, k, s.b)] ELSE s
    BY <1>2, <1>7
  <2> HIDE DEF s
  <2>3. CASE Fails(r1, s)
    <3>1. GetBlock(r, i, k) = s /\ ~s.ok
      BY <2>2, <2>3 DEF Fails
    <3>2. Building(d, s, S, w) /\ Follows(r1.m, s.m)
      BY <1>1, <2>1, <2>3, FailStep
    <3> QED BY <1>1, <3>1, <3>2, FollowsTrans
  <2>4. ASSUME NEW b \in r1.m.free, Got(r1, s, b)
        PROVE /\ Building(d, GetBlock(r, i, k), S, w) /\ Follows(r.m, GetBlock(r, i, k).m)
              /\ Finds(GetBlock(r, i, k), i, k)
    <3> DEFINE n == SetPtr(s.m, i, k, b)
               g == <<DirOf(i), EntryOf(i), k>>
    <3>1. /\ b \in Blk /\ b # 0 /\ s.m \in DiskType /\ s.m.blk[b] = Cleared /\ Apart(s.m)
          /\ s.m.dptr = r1.m.dptr /\ s.m.dsize = r1.m.dsize /\ (w => Tight(s.m))
          /\ \A a \in Dirs : s.m.dptr[a] # 0 => a <= s.m.dsize
          /\ Fl(s.m, i) = Fl(r1.m, i) /\ DirBlock(s.m, i) = DirBlock(r1.m, i)
          /\ Ptr(s.m, i, k) = Ptr(r1.m, i, k)
      BY <1>1, <2>1, <2>4, GotIs
    <3>2. /\ DirBlock(s.m, i) # 0 /\ (k > NDIRECT => Fl(s.m, i).indirect # 0)
          /\ Ptr(s.m, i, k) = 0 /\ b \in {0} \cup Blk
      BY <1>1, <1>4, <1>7, <3>1
    <3>3. Linked(s.m, n, g, b)
      BY <3>1, <3>2, PtrLinked
    <3>4. GetBlock(r, i, k) = With(s, n)
      BY <2>2, <2>4 DEF With, Got
    <3>5. /\ n \in DiskType /\ n.dsize = s.m.dsize /\ n.dptr = s.m.dptr
          /\ Ptr(n, i, k) = b
      <4>1. /\ n \in DiskType
            /\ n.free = s.m.free /\ n.dsize = s.m.dsize /\ n.dptr = s.m.dptr
            /\ \A j \in File, l \in Index :
                   Ptr(n, j, l) = IF j = i /\ l = k THEN b ELSE Ptr(s.m, j, l)
        BY <3>1, <3>2, SetPtrIs
      <4> QED BY <4>1
    <3>6. \A j \in File, l \in Index : g = <<DirOf(j), EntryOf(j), l>> => j = i /\ l = k
      BY PlaceIs
    <3> HIDE DEF n, g
    <3>7. w => Tight(n)
      <4> SUFFICES ASSUME w PROVE Tight(n)
        OBVIOUS
      <4>1. \A j \in File, l \in Index :
                g = <<DirOf(j), EntryOf(j), l>> => ~(l > Fl(s.m, j).size)
        BY <1>4, <3>1, <3>6
      <4> QED BY <3>1, <3>3, <4>1, LinkedTight
    <3>8. \A a \in Dirs : n.dptr[a] # 0 => a <= n.dsize
      BY <3>1, <3>5
    <3>9. Building(d, With(s, n), S, w) /\ Follows(r1.m, n)
      BY <1>1, <2>1, <2>4, <3>3, <3>5, <3>7, <3>8, GotStep
    <3>10. With(s, n).m = n /\ With(s, n).b = b
      BY <2>1, <2>4, <3>5, WithIs DEF Got
    <3>11. DirBlock(n, i) # 0
      BY <3>2, <3>5 DEF DirBlock
    <3> QED BY <1>1, <3>1, <3>4, <3>5, <3>9, <3>10, <3>11, FollowsTrans DEF Finds
  <2> QED BY <2>1, <2>3, <2>4
<1> QED BY <1>5, <1>6, <1>7

\* Going through the directory.
LEMMA MatchingIs == ASSUME NEW r, NEW name, NEW i \in Matching(r, name)
    PROVE /\ i \in File /\ DirOf(i) \in Dirs /\ DirOf(i) <= r.m.dsize /\ DirBlock(r.m, i) # 0
          /\ Fl(r.m, i).name = name
BY Files DEF Matching, DirBlock

LEMMA ScanStep ==
    ASSUME NEW d, NEW r, NEW S \in SUBSET File, NEW w, Building(d, r, S, w), NEW name
    PROVE Building(d, Scan(r, name), S, w) /\ Follows(r.m, Scan(r, name).m)
<1>1. r.m.dsize \in 0 .. NDir
  BY Parts DEF Building, ReqType
<1>2. CASE Matching(r, name) = {} /\ r.m.dsize > 0 /\ r.m.dptr[r.m.dsize] = 0
  <2>1. r.m.dsize \in Dirs /\ r.m.dsize <= r.m.dsize
    BY <1>1, <1>2, Numbers DEF Dirs
  <2>2. Scan(r, name) = GetDirBlock(r, r.m.dsize)
    BY <1>2 DEF Scan
  <2> QED BY <2>1, <2>2, GetDirBlockStep
<1>3. CASE Matching(r, name) # {} \/ ~(r.m.dsize > 0 /\ r.m.dptr[r.m.dsize] = 0)
  <2>1. Scan(r, name) = r
    BY <1>3 DEF Scan
  <2> QED BY <2>1 DEF Follows
<1> QED BY <1>2, <1>3
-----------------------------------------------------------------------------
\* A change of names, sizes and data only, seen by no file of T.
Shape(m, n) ==
    /\ n.free = m.free /\ n.dptr = m.dptr
    /\ \A i \in File : Fl(n, i).indirect = Fl(m, i).indirect
    /\ \A i \in File, k \in Index : Ptr(n, i, k) = Ptr(m, i, k)

LEMMA ShapeIs == ASSUME NEW m, NEW n, Shape(m, n)
    PROVE /\ Exclusive(m) => Exclusive(n)
          /\ Used(n) = Used(m)
<1>1. \A a : Owned(n, a) <=> Owned(m, a)
  BY DEF Owned, Shape
<1>2. Apart(m) => Apart(n)
  BY DEF Apart, Shape
<1> QED BY <1>1, <1>2, UsedOwned, ExclusiveApart DEF Shape

LEMMA ShapeStep ==
    ASSUME NEW d, NEW r, NEW S \in SUBSET File, NEW w, Building(d, r, S, w),
           NEW n \in DiskType, Shape(r.m, n), UniqueNames(n),
           \A e \in Dirs : n.dptr[e] # 0 => e <= n.dsize, w => Tight(n), NEW T \in SUBSET S,
           \A i \in File : Fl(r.m, i).name \in {NoName, Fl(n, i).name},
           \A i \in T : Contents(n, i) = Contents(r.m, i)
    PROVE Building(d, With(r, n), T, w)
<1>1. r \in ReqType /\ r.m \in DiskType /\ r.q \in Seq(WriteType)
  BY DEF Building, ReqType
<1>2. With(r, n) \in ReqType /\ With(r, n).m = n /\ With(r, n).q = r.q
  BY <1>1, WithIs
<1>3. Exclusive(n) /\ Used(n) = Used(r.m)
  BY ShapeIs DEF Building, Sound
<1>4. Sound(n)
  BY <1>3 DEF Sound, Dirs
<1>5. w => Whole(n)
  BY <1>3 DEF Building, Whole, Tight, Shape
<1>6. Grows(r.m, n, 0)
  BY DEF Grows, Grown, Shape
<1>7. \A i \in T : Same(r.m, n, i) /\ Fl(n, i).name # NoName
  <2> TAKE i \in T
  <2>1. i \in S /\ i \in File /\ Fl(r.m, i).name # NoName
    BY DEF Building
  <2>2. Fl(n, i).name = Fl(r.m, i).name
    BY <2>1
  <2>3. DirBlock(n, i) = DirBlock(r.m, i)
    BY DEF DirBlock, Shape
  <2> QED BY <2>1, <2>2, <2>3 DEF Same
<1>8. Fits(d, n, r.q, T)
  <2>1. Fits(d, r.m, r.q, T)
    BY FitsFewer DEF Building
  <2>2. FitsNew(d, r.m, r.q, T, 0)
    BY <2>1, NewFits
  <2>3. 0 \in {0} \cup Blk /\ n.free = r.m.free /\ T \in SUBSET File
    BY DEF Shape
  <2> QED BY <1>1, <1>6, <1>7, <2>2, <2>3, FitsGrows
<1> QED BY <1>2, <1>4, <1>5, <1>7, <1>8 DEF Building, Shape

\* A block written as it is.
LEMMA FlushIs == ASSUME NEW r \in ReqType, NEW u \in Units \cup {0}
    PROVE /\ Flush(r, u) \in ReqType /\ Flush(r, u).m = r.m /\ Flush(r, u).ok = r.ok
          /\ Flush(r, u).q = r.q \o <<Block(r.m, u)>> /\ Own(r.m, <<Block(r.m, u)>>)
          /\ Flush(r, u).q = Append(r.q, Block(r.m, u))
<1>1. r.m \in DiskType /\ r.q \in Seq(WriteType)
  BY DEF ReqType
<1>2. /\ Block(r.m, u) \in WriteType /\ Block(r.m, u).unit = u
      /\ Block(r.m, u).to = Held(r.m, u)
  BY <1>1, OwnWrite
<1> DEFINE x == Block(r.m, u)
<1>3. /\ Flush(r, u) \in ReqType /\ Flush(r, u).m = r.m /\ Flush(r, u).ok = r.ok
      /\ Flush(r, u).q = Append(r.q, x)
  BY <1>1, <1>2 DEF Flush, ReqType
<1> HIDE DEF x
<1>4. Append(r.q, x) = r.q \o <<x>>
  BY <1>1, <1>2 DEF x
<1>5. Own(r.m, <<x>>)
  <2>1. <<x>> \in Seq(WriteType) /\ Len(<<x>>) = 1 /\ <<x>>[1] = x
    BY <1>2 DEF x
  <2>2. \A n \in 1 .. Len(<<x>>) : n = 1
    BY <2>1
  <2>3. x.to = Held(r.m, x.unit)
    BY <1>2 DEF x
  <2> QED BY <2>1, <2>2, <2>3 DEF Own
<1> QED BY <1>3, <1>4, <1>5 DEF x

LEMMA FlushStep ==
    ASSUME NEW d, NEW r, NEW S \in SUBSET File, NEW w, Building(d, r, S, w),
           NEW u \in Units \cup {0}, u \notin r.m.free, u # Super
    PROVE Building(d, Flush(r, u), S, w)
<1>1. r \in ReqType /\ r.m \in DiskType /\ r.q \in Seq(WriteType)
  BY DEF Building, ReqType
<1> DEFINE x == Block(r.m, u)
           s == Flush(r, u)
<1>2. /\ s \in ReqType /\ s.m = r.m /\ s.q = r.q \o <<x>> /\ Own(r.m, <<x>>)
      /\ s.q = Append(r.q, x)
  BY <1>1, FlushIs
<1>3. x \in WriteType /\ x.unit = u
  BY <1>1, OwnWrite
<1> HIDE DEF x, s
<1>4. Fits(d, s.m, s.q, S)
  BY <1>1, <1>2, FitsAppend DEF Building
<1>5. \A n \in DOMAIN s.q : (n \in DOMAIN r.q /\ s.q[n] = r.q[n]) \/ s.q[n] = x
  BY <1>1, <1>2, <1>3
<1>6. \A n \in DOMAIN s.q : s.q[n].unit \notin s.m.free /\ s.q[n].unit # Super
  BY <1>2, <1>3, <1>5 DEF Building
<1> QED BY <1>2, <1>4, <1>6 DEF Building, s

LEMMA SetFileShape ==
    ASSUME NEW m \in DiskType, Apart(m), NEW i \in File, DirBlock(m, i) # 0, NEW f \in FileType,
           f.direct = Fl(m, i).direct, f.indirect = Fl(m, i).indirect
    PROVE /\ SetFile(m, i, f) \in DiskType /\ Shape(m, SetFile(m, i, f))
          /\ SetFile(m, i, f).dsize = m.dsize
          /\ \A j \in File : Fl(SetFile(m, i, f), j) = IF j = i THEN f ELSE Fl(m, j)
          /\ \A j \in File : j # i => Contents(SetFile(m, i, f), j) = Contents(m, j)
          /\ \A j \in File : DirBlock(SetFile(m, i, f), j) = DirBlock(m, j)
<1> DEFINE n == SetFile(m, i, f)
<1>1. /\ n \in DiskType /\ n.free = m.free /\ n.dsize = m.dsize /\ n.dptr = m.dptr
      /\ \A b \in Blk : n.blk[b].val = m.blk[b].val /\ n.blk[b].ptr = m.blk[b].ptr
      /\ \A j \in File : Fl(n, j) = IF j = i THEN f ELSE Fl(m, j)
  BY SetFileIs
<1> HIDE DEF n
<1>2. \A j \in File : Fl(n, j).direct = Fl(m, j).direct /\ Fl(n, j).indirect = Fl(m, j).indirect
  BY <1>1
<1>3. ASSUME NEW j \in File, NEW k \in Index PROVE Ptr(n, j, k) = Ptr(m, j, k)
  <2>1. CASE k <= NDIRECT
    BY <1>1, <1>2, <2>1, PtrType
  <2>2. CASE k > NDIRECT /\ Fl(m, j).indirect = 0
    BY <1>1, <1>2, <2>2, PtrType
  <2>3. CASE k > NDIRECT /\ Fl(m, j).indirect # 0
    <3>1. Fl(m, j).indirect \in Blk
      BY <2>3, FlType
    <3> QED BY <1>1, <1>2, <2>3, <3>1, PtrType
  <2> QED BY <2>1, <2>2, <2>3, Numbers
<1>4. ASSUME NEW j \in File, j # i PROVE Contents(n, j) = Contents(m, j)
  <2>1. \A k \in Index : Ptr(m, j, k) # 0 => n.blk[Ptr(m, j, k)].val = m.blk[Ptr(m, j, k)].val
    BY <1>1, PtrType
  <2>2. Fl(n, j).name = Fl(m, j).name /\ Fl(n, j).size = Fl(m, j).size
    BY <1>1, <1>4
  <2> QED BY <1>1, <1>3, <2>1, <2>2, SameContents
<1> QED BY <1>1, <1>2, <1>3, <1>4 DEF Shape, n, DirBlock

WithSize(f, n)  == [f EXCEPT !.size = n]
WithName(f, nm) == [f EXCEPT !.name = nm]
LEMMA WithSizeIs == ASSUME NEW f \in FileType
    PROVE /\ \A n \in {0} \cup Index :
                 /\ WithSize(f, n) \in FileType /\ WithSize(f, n).size = n
                 /\ WithSize(f, n).name = f.name /\ WithSize(f, n).direct = f.direct
                 /\ WithSize(f, n).indirect = f.indirect
          /\ \A nm \in Name \cup {NoName} :
                 /\ WithName(f, nm) \in FileType /\ WithName(f, nm).name = nm
                 /\ WithName(f, nm).size = f.size /\ WithName(f, nm).direct = f.direct
                 /\ WithName(f, nm).indirect = f.indirect
BY DEF WithSize, WithName, FileType

\* file_set_size to a size not below the file's.
Extent == {0} \cup Index
Covers(m, i, n) == ~(n < Fl(m, i).size)
Resizes(m, i, n, o) ==
    /\ \A j \in File : Fl(o, j).name = Fl(m, j).name /\ DirBlock(o, j) = DirBlock(m, j)
    /\ Fl(o, i).size = n
LEMMA GrowStep ==
    ASSUME NEW d, NEW r, NEW S \in SUBSET File, NEW w, Building(d, r, S, w),
           NEW i \in File, DirBlock(r.m, i) # 0, NEW n \in Extent, Covers(r.m, i, n)
    PROVE /\ Building(d, Resized(r, i, n), S \ {i}, w)
          /\ Resizes(r.m, i, n, Resized(r, i, n).m)
<1> DEFINE f == WithSize(Fl(r.m, i), n)
           m2 == SetFile(r.m, i, f)
           B == DirBlock(r.m, i)
<1>1. r \in ReqType /\ r.m \in DiskType /\ Exclusive(r.m) /\ UniqueNames(r.m) /\ Apart(r.m)
  BY ExclusiveApart DEF Building, ReqType, Sound
<1>2. /\ f \in FileType /\ f.size = n /\ f.name = Fl(r.m, i).name
      /\ f.direct = Fl(r.m, i).direct /\ f.indirect = Fl(r.m, i).indirect
  BY <1>1, FlType, WithSizeIs DEF Extent
<1>3. /\ m2 \in DiskType /\ Shape(r.m, m2) /\ m2.dsize = r.m.dsize
      /\ \A j \in File : Fl(m2, j) = IF j = i THEN f ELSE Fl(r.m, j)
      /\ \A j \in File : j # i => Contents(m2, j) = Contents(r.m, j)
      /\ \A j \in File : DirBlock(m2, j) = DirBlock(r.m, j)
  BY <1>1, <1>2, SetFileShape
<1>4. Resized(r, i, n) = Flush(With(r, m2), B)
  <2>1. DirBlock(m2, i) = B
    BY <1>3
  <2>2. ~(n < Fl(r.m, i).size)
    BY DEF Covers
  <2>3. Resized(r, i, n) = Flush(With(r, m2), DirBlock(m2, i))
    BY <2>2 DEF Resized, With, WithSize
  <2> HIDE DEF m2, B
  <2> QED BY <2>1, <2>3
<1> HIDE DEF m2, f
<1>5. \A j \in File : Fl(m2, j).name = Fl(r.m, j).name
  BY <1>2, <1>3
<1>6. UniqueNames(m2) /\ \A e \in Dirs : m2.dptr[e] # 0 => e <= m2.dsize
  BY <1>1, <1>3, <1>5 DEF UniqueNames, Building, Sound, Shape, Dirs
<1>7. w => Tight(m2)
  <2> SUFFICES ASSUME w, NEW j \in File, NEW k \in Index, k > Fl(m2, j).size PROVE Ptr(m2, j, k) = 0
    BY DEF Tight
  <2>1. Ptr(m2, j, k) = Ptr(r.m, j, k)
    BY <1>3 DEF Shape
  <2>2. k > Fl(r.m, j).size
    <3>1. CASE j # i
      BY <1>3, <3>1
    <3>2. CASE j = i
      <4>1. Fl(r.m, i).size \in Nat /\ n \in Nat /\ k \in Nat
        BY <1>1, FlType, Numbers DEF Extent
      <4>2. k > n
        BY <1>2, <1>3, <3>2
      <4> QED BY <3>2, <4>1, <4>2 DEF Covers
    <3> QED BY <3>1, <3>2
  <2> QED BY <2>1, <2>2 DEF Building, Whole
<1>8. Building(d, With(r, m2), S \ {i}, w)
  <2>1. /\ S \ {i} \in SUBSET S
        /\ \A j \in File : Fl(r.m, j).name \in {NoName, Fl(m2, j).name}
        /\ \A j \in S \ {i} : Contents(m2, j) = Contents(r.m, j)
    BY <1>3, <1>5
  <2> QED BY <1>3, <1>6, <1>7, <2>1, ShapeStep
<1>9. /\ With(r, m2) \in ReqType /\ With(r, m2).m = m2 /\ With(r, m2).ok = r.ok
  BY <1>1, <1>3, WithIs
<1>10. B \in Units \cup {0} /\ B \notin m2.free /\ B # Super
  <2>1. B \in Blk
    BY <1>1, FlType
  <2>2. Owned(r.m, B)
    BY <2>1, Files, Numbers DEF Owned, DirBlock
  <2>3. B \notin r.m.free
    BY <1>1, <2>2, ExclusiveApart
  <2> QED BY <1>3, <2>1, <2>3, Numbers DEF Shape, Units
<1>11. /\ Building(d, Resized(r, i, n), S \ {i}, w)
       /\ Resized(r, i, n).m = m2 /\ Resized(r, i, n).ok = r.ok
  <2> HIDE DEF B
  <2> DEFINE s == With(r, m2)
  <2>1. S \ {i} \in SUBSET File /\ B \notin s.m.free
    BY <1>9, <1>10
  <2>2. Flush(s, B).m = s.m /\ Flush(s, B).ok = s.ok
    BY <1>9, <1>10, FlushIs
  <2>3. Building(d, s, S \ {i}, w)
    BY <1>8
  <2> HIDE DEF s
  <2>4. Building(d, Flush(s, B), S \ {i}, w)
    BY <1>10, <2>1, <2>3, FlushStep
  <2> QED BY <1>4, <1>9, <2>2, <2>4 DEF s
<1>12. Resizes(r.m, i, n, m2)
  BY <1>2, <1>3, <1>5 DEF Resizes
<1> QED BY <1>11, <1>12

\* file_write: a value is put into the block found.
LEMMA PutStep ==
    ASSUME NEW d, NEW r, NEW S \in SUBSET File, NEW w, Building(d, r, S, w),
           NEW i \in File, NEW k \in Index, Finds(r, i, k), i \notin S, NEW v \in Value
    PROVE /\ Building(d, [r EXCEPT !.m.blk[r.b].val = v], S, w)
          /\ \A j \in File :
                /\ Fl([r EXCEPT !.m.blk[r.b].val = v].m, j).name = Fl(r.m, j).name
                /\ DirBlock([r EXCEPT !.m.blk[r.b].val = v].m, j) = DirBlock(r.m, j)
<1> DEFINE n == PutVal(r.m, r.b, v)
<1>1. r \in ReqType /\ r.m \in DiskType /\ Apart(r.m) /\ r.b \in Blk /\ r.b # 0
      /\ r.b = Ptr(r.m, i, k) /\ v \in {0} \cup Value
  BY ExclusiveApart, Numbers DEF Building, ReqType, Sound, Finds
<1>2. [r EXCEPT !.m.blk[r.b].val = v] = With(r, n)
  BY DEF With, PutVal
<1>3. /\ n \in DiskType /\ n.free = r.m.free /\ n.dsize = r.m.dsize /\ n.dptr = r.m.dptr
      /\ \A a \in Blk : n.blk[a].ptr = r.m.blk[a].ptr /\ (a # r.b => n.blk[a] = r.m.blk[a])
      /\ \A j \in File : Fl(n, j) = Fl(r.m, j)
  BY SMTT(20), <1>1, PutValIs
<1> HIDE DEF n
<1>4. ASSUME NEW j \in File, NEW l \in Index PROVE Ptr(n, j, l) = Ptr(r.m, j, l)
  <2>1. CASE Fl(r.m, j).indirect = 0
    BY SMTT(20), <1>1, <1>3, <2>1, PtrType, Numbers
  <2>2. CASE Fl(r.m, j).indirect # 0
    <3>1. Fl(r.m, j).indirect \in Blk
      BY <1>1, <2>2, FlType
    <3>2. CASE l <= NDIRECT
      BY <1>1, <1>3, <3>2, PtrType
    <3>3. CASE l > NDIRECT
      BY <1>1, <1>3, <2>2, <3>1, <3>3, PtrType
    <3> QED BY <3>2, <3>3, Numbers
  <2> QED BY <2>1, <2>2
<1>5. Shape(r.m, n)
  BY <1>3, <1>4 DEF Shape
<1>6. UniqueNames(n) /\ \A e \in Dirs : n.dptr[e] # 0 => e <= n.dsize
  BY <1>3 DEF UniqueNames, Building, Sound, Dirs
<1>7. w => Tight(n)
  BY <1>3, <1>4 DEF Tight, Building, Whole
<1>8. ASSUME NEW j \in S PROVE Contents(n, j) = Contents(r.m, j)
  <2>1. j \in File /\ j # i
    OBVIOUS
  <2>2. \A l \in Index : Ptr(r.m, j, l) # r.b
    BY <1>1, <2>1 DEF Apart
  <2>3. \A l \in Index : Ptr(r.m, j, l) # 0 =>
            n.blk[Ptr(r.m, j, l)].val = r.m.blk[Ptr(r.m, j, l)].val
    BY <1>1, <1>3, <2>1, <2>2, PtrType
  <2> QED BY <1>1, <1>3, <1>4, <2>1, <2>3, SameContents
<1>9. Building(d, With(r, n), S, w)
  <2>1. S \in SUBSET S /\ \A j \in File : Fl(r.m, j).name \in {NoName, Fl(n, j).name}
    BY <1>3
  <2> QED BY <1>3, <1>5, <1>6, <1>7, <1>8, <2>1, ShapeStep
<1>10. With(r, n).m = n
  BY <1>1, <1>3, WithIs
<1> QED BY <1>2, <1>3, <1>9, <1>10 DEF DirBlock
-----------------------------------------------------------------------------
\* A request done: its cache and the writes it leaves.
Final(d, m, q, S, w) ==
    /\ m \in DiskType /\ q \in Seq(WriteType) /\ Sound(m) /\ (w => Whole(m))
    /\ Fits(d, m, q, S) /\ Settled(d, m, q)
    /\ \A i \in S : Fl(m, i).name # NoName

LEMMA BuildingFinal ==
    ASSUME NEW d, NEW m, Settled(d, m, <<>>), NEW r, NEW S, NEW w, Building(d, r, S, w),
           \A j \in File : Fl(r.m, j).name # NoName =>
               Fl(m, j).name # NoName /\ DirBlock(r.m, j) = DirBlock(m, j)
    PROVE Final(d, r.m, r.q, S, w)
<1>1. r.m \in DiskType /\ r.q \in Seq(WriteType)
  BY DEF Building, ReqType
<1>2. \A j \in File : Fl(m, j).name # NoName => OnDisk(d, m, j)
  BY DEF Settled
<1>3. \A j \in File : Fl(r.m, j).name # NoName => OnDisk(d, r.m, j)
  BY <1>2 DEF OnDisk, DirBlock
<1>4. Settled(d, r.m, r.q)
  BY <1>3 DEF Settled, Building
<1> QED BY <1>1, <1>4 DEF Final, Building

LEMMA SettledDropped ==
    ASSUME NEW d, NEW m \in DiskType, Sound(m), NEW q \in Seq(WriteType), Settled(d, m, q),
           NEW k, NEW p, Dropped(d, q, k, p)
    PROVE Settled(d, m, p)
<1>1. /\ k \in 0 .. Len(q) /\ Len(q) \in Nat /\ Len(p) = Len(q) - k /\ Len(p) \in Nat
      /\ DOMAIN q = 1 .. Len(q) /\ DOMAIN p = 1 .. Len(p)
      /\ \A n \in 1 .. Len(p) : p[n] = q[n + k]
      /\ \A n \in 1 .. k : Held(d, q[n].unit) = q[n].to
  BY DEF Dropped
<1>2. \A n \in DOMAIN p : n + k \in DOMAIN q /\ p[n] = q[n + k]
  BY <1>1
<1>3. \A n \in DOMAIN p : p[n].unit = Super => p[n].to = Held(m, Super)
  BY <1>2 DEF Settled
<1>4. ASSUME NEW i \in File, Fl(m, i).name # NoName, ~\E n \in DOMAIN p : p[n].unit = Super
      PROVE OnDisk(d, m, i)
  <2>1. CASE OnDisk(d, m, i)
    BY <2>1
  <2>2. CASE \E n \in DOMAIN q : q[n].unit = Super
    <3>1. PICK n \in DOMAIN q : q[n].unit = Super
      BY <2>2
    <3>2. n \in 1 .. k
      <4> SUFFICES ASSUME n > k PROVE FALSE
        BY <1>1
      <4>1. n - k \in DOMAIN p /\ (n - k) + k = n
        BY <1>1
      <4>2. p[n - k].unit = Super
        BY <1>2, <3>1, <4>1
      <4> QED BY <1>4, <4>1, <4>2
    <3>3. Held(d, Super) = Held(m, Super)
      BY <1>1, <3>1, <3>2 DEF Settled
    <3>4. d.dsize = m.dsize /\ d.dptr = m.dptr
      BY <3>3, HeldIs
    <3> QED BY <1>4, <3>4, DirBlockBound DEF OnDisk
  <2> QED BY <1>4, <2>1, <2>2 DEF Settled
<1> QED BY <1>3, <1>4 DEF Settled

LEMMA FlushingDropped ==
    ASSUME NEW d, NEW m, NEW q \in Seq(WriteType), NEW i, Flushing(d, m, q, i),
           NEW k, NEW p, Dropped(d, q, k, p)
    PROVE Flushing(d, m, p, i)
<1>1. /\ k \in 0 .. Len(q) /\ Len(q) \in Nat /\ Len(p) = Len(q) - k /\ Len(p) \in Nat
      /\ DOMAIN q = 1 .. Len(q) /\ DOMAIN p = 1 .. Len(p)
      /\ \A n \in 1 .. Len(p) : p[n] = q[n + k]
      /\ \A n \in 1 .. k : Held(d, q[n].unit) = q[n].to
  BY DEF Dropped
<1>2. \A n \in DOMAIN p : n + k \in DOMAIN q /\ p[n] = q[n + k]
  BY <1>1
<1>3. \A n \in DOMAIN p : p[n].to = Held(m, p[n].unit)
  BY <1>2 DEF Flushing
<1>4. ASSUME NEW u \in Needed(m, i), ~\E n \in DOMAIN p : p[n].unit = u
      PROVE Held(d, u) = Held(m, u)
  <2>1. CASE \E n \in DOMAIN q : q[n].unit = u
    <3>1. PICK n \in DOMAIN q : q[n].unit = u
      BY <2>1
    <3>2. n \in 1 .. k
      <4> SUFFICES ASSUME n > k PROVE FALSE
        BY <1>1
      <4>1. n - k \in DOMAIN p /\ (n - k) + k = n
        BY <1>1
      <4>2. p[n - k].unit = u
        BY <1>2, <3>1, <4>1
      <4> QED BY <1>4, <4>1, <4>2
    <3> QED BY <1>1, <3>1, <3>2 DEF Flushing
  <2> QED BY <2>1 DEF Flushing
<1> QED BY <1>3, <1>4 DEF Flushing

\* What the last write of a flush leaves.
LEMMA FlushDone ==
    ASSUME NEW d \in DiskType, NEW m \in DiskType, Sound(m), NEW S \in SUBSET File, NEW T \in SUBSET File,
           Fits(d, m, <<>>, S), Settled(d, m, <<>>), \A i \in T : Flushing(d, m, <<>>, i)
    PROVE Fits(d, m, <<>>, S \cup T)
<1>1. DOMAIN <<>> = {}
  OBVIOUS
<1>2. PICK c \in SUBSET DOMAIN <<>> : FitsBy(d, m, <<>>, S, c)
  BY DEF Fits
<1>3. c = {} /\ \A n : Late(<<>>, c, n) = {}
  BY <1>1 DEF Late
<1>4. ASSUME NEW i \in T, NEW u \in Units PROVE Kept(u, Held(d, u), m, i)
  <2>1. /\ Fl(m, i).name # NoName /\ i \in File
        /\ \A x \in Needed(m, i) : Held(d, x) = Held(m, x)
    BY <1>1 DEF Flushing
  <2>2. OnDisk(d, m, i)
    BY <1>1, <2>1 DEF Settled
  <2>3. FitsAs(u, Held(m, u), m, {}, {i})
    BY <2>1, OwnFits
  <2>4. Kept(u, Held(m, u), m, i)
    BY <2>3 DEF FitsAs
  <2>5. CASE u \in Needed(m, i)
    BY <2>1, <2>4, <2>5
  <2>6. CASE u \notin Needed(m, i) /\ u \in Blk
    <3>1. u # 0 /\ u # Super
      BY <2>6, Numbers
    <3>2. DirBlock(m, i) # u /\ Fl(m, i).indirect # u
      BY <2>6, <3>1 DEF Needed
    <3>3. \A k \in Index : ~(k <= Fl(m, i).size /\ Ptr(m, i, k) = u)
      BY <2>6, <3>1 DEF Needed
    <3> QED BY <3>1, <3>2, <3>3 DEF Kept
  <2>7. CASE u = Super
    <3>1. Held(d, Super) = <<d.dsize, d.dptr>> /\ Super \notin Blk
      BY HeldIs, Numbers
    <3> QED BY <2>2, <2>7, <3>1 DEF Kept, OnDisk
  <2>8. CASE u = Bitmap
    BY <2>8, Numbers DEF Kept
  <2> QED BY <2>5, <2>6, <2>7, <2>8 DEF Units
<1>5. \A u \in Units : FitsAs(u, Held(d, u), m, {}, S)
  BY <1>2, <1>3 DEF FitsBy
<1>6. \A u \in Units : FitsAs(u, Held(d, u), m, {}, S \cup T)
  BY <1>4, <1>5 DEF FitsAs
<1>7. FitsBy(d, m, <<>>, S \cup T, c)
  BY <1>1, <1>2, <1>3, <1>6 DEF FitsBy
<1> QED BY <1>2, <1>7 DEF Fits
-----------------------------------------------------------------------------
\* Blocks written as they are, in the order of units.
LEMMA WritesIs ==
    ASSUME NEW m \in DiskType, NEW units \in Seq(Units \cup {0})
    PROVE /\ Own(m, Writes(m, units)) /\ Writes(m, units) \in Seq(WriteType)
          /\ DOMAIN Writes(m, units) = DOMAIN units
          /\ \A n \in DOMAIN units : /\ Writes(m, units)[n].unit = units[n]
                                     /\ Writes(m, units)[n].to = Held(m, units[n])
<1> DEFINE W == Writes(m, units)
<1>1. Len(units) \in Nat /\ DOMAIN units = 1 .. Len(units)
      /\ \A n \in DOMAIN units : units[n] \in Units \cup {0}
  OBVIOUS
<1>2. \A n \in DOMAIN units : /\ Block(m, units[n]) \in WriteType
                              /\ Block(m, units[n]).unit = units[n]
                              /\ Block(m, units[n]).to = Held(m, units[n])
  BY <1>1, OwnWrite
<1>3. W = [n \in 1 .. Len(units) |-> Block(m, units[n])]
  BY <1>1 DEF Writes
<1> HIDE DEF W
<1>4. W \in Seq(WriteType) /\ DOMAIN W = 1 .. Len(units) /\ Len(W) = Len(units)
      /\ \A n \in 1 .. Len(units) : W[n] = Block(m, units[n])
  BY <1>1, <1>2, <1>3
<1>5. \A n \in 1 .. Len(units) : W[n].unit = units[n] /\ W[n].to = Held(m, units[n])
  BY <1>1, <1>2, <1>4
<1>6. Own(m, W)
  BY <1>4, <1>5 DEF Own
<1> QED BY <1>1, <1>4, <1>5, <1>6 DEF W

LEMMA FileFlushIs ==
    ASSUME NEW m \in DiskType, NEW i \in File
    PROVE /\ Own(m, FileFlush(m, i)) /\ FileFlush(m, i) \in Seq(WriteType)
          /\ \A n \in DOMAIN FileFlush(m, i) :
                 /\ FileFlush(m, i)[n].unit # Super
                 /\ FileFlush(m, i)[n].to = Held(m, FileFlush(m, i)[n].unit)
          /\ \A u \in Needed(m, i) : \E n \in DOMAIN FileFlush(m, i) : FileFlush(m, i)[n].unit = u
<1> DEFINE s == Fl(m, i).size
           a == [k \in 1 .. s |-> Ptr(m, i, k)]
           b == <<DirBlock(m, i), Fl(m, i).indirect>>
           units == a \o b
<1>1. s \in {0} \cup Index /\ s \in Nat /\ \A k \in 1 .. s : k \in Index
  BY FlType, Numbers
<1>2. \A k \in 1 .. s : Ptr(m, i, k) \in {0} \cup Blk
  BY <1>1, PtrType
<1>3. DirBlock(m, i) \in {0} \cup Blk /\ Fl(m, i).indirect \in {0} \cup Blk
  BY FlType
<1>4. FileFlush(m, i) = Writes(m, units)
  BY DEF FileFlush
<1>5. \A k \in Index : k <= s => k \in 1 .. s
  BY <1>1, Numbers
<1> HIDE DEF s
<1>6. a \in Seq({0} \cup Blk) /\ Len(a) = s /\ \A k \in 1 .. s : a[k] = Ptr(m, i, k)
  BY <1>1, <1>2
<1>7. b \in Seq({0} \cup Blk) /\ Len(b) = 2 /\ b[1] = DirBlock(m, i) /\ b[2] = Fl(m, i).indirect
  BY <1>3
<1> HIDE DEF a, b
<1>8. /\ units \in Seq({0} \cup Blk) /\ Len(units) = s + 2
      /\ \A k \in 1 .. s : units[k] = a[k]
      /\ units[s + 1] = b[1] /\ units[s + 2] = b[2]
  <2>1. /\ units \in Seq({0} \cup Blk) /\ Len(units) = Len(a) + Len(b)
        /\ \A k \in 1 .. Len(a) + Len(b) : units[k] = IF k <= Len(a) THEN a[k]
                                                       ELSE b[k - Len(a)]
    BY <1>6, <1>7, ConcatProperties
  <2> HIDE DEF units
  <2>2. \A k \in 1 .. s : k \in 1 .. s + 2 /\ k <= s
    BY <1>1
  <2>3. s + 1 \in 1 .. s + 2 /\ s + 2 \in 1 .. s + 2 /\ ~(s + 1 <= s) /\ ~(s + 2 <= s)
        /\ (s + 1) - s = 1 /\ (s + 2) - s = 2
    BY <1>1
  <2> QED BY <1>6, <1>7, <2>1, <2>2, <2>3
<1>9. DOMAIN units = 1 .. s + 2 /\ \A n \in DOMAIN units : units[n] \in {0} \cup Blk
  BY <1>1, <1>8
<1> HIDE DEF units
<1>10. units \in Seq(Units \cup {0}) /\ \A n \in DOMAIN units : units[n] # Super
  BY <1>1, <1>8, <1>9, Numbers DEF Units
<1>11. /\ Own(m, Writes(m, units)) /\ Writes(m, units) \in Seq(WriteType)
       /\ DOMAIN Writes(m, units) = DOMAIN units
       /\ \A n \in DOMAIN units : /\ Writes(m, units)[n].unit = units[n]
                                  /\ Writes(m, units)[n].to = Held(m, units[n])
  BY <1>10, WritesIs
<1>12. ASSUME NEW u \in Needed(m, i) PROVE \E n \in DOMAIN units : units[n] = u
  <2>1. \/ u = DirBlock(m, i) \/ u = Fl(m, i).indirect
        \/ \E k \in Index : k <= s /\ u = Ptr(m, i, k)
    BY DEF Needed, s
  <2>2. CASE u = DirBlock(m, i) \/ u = Fl(m, i).indirect
    BY <1>1, <1>7, <1>8, <1>9, <2>2
  <2>3. CASE \E k \in Index : k <= s /\ u = Ptr(m, i, k)
    BY <1>1, <1>5, <1>6, <1>8, <1>9, <2>3
  <2> QED BY <2>1, <2>2, <2>3
<1> QED BY <1>4, <1>10, <1>11, <1>12

LEMMA DirFlushIs ==
    ASSUME NEW m \in DiskType
    PROVE /\ Own(m, DirFlush(m)) /\ DirFlush(m) \in Seq(WriteType)
          /\ \A n \in DOMAIN DirFlush(m) : DirFlush(m)[n].to = Held(m, DirFlush(m)[n].unit)
          /\ Len(DirFlush(m)) \in Nat \ {0}
          /\ DirFlush(m)[Len(DirFlush(m))].unit = Super
<1> DEFINE s == m.dsize
           a == [e \in 1 .. s |-> m.dptr[e]]
           b == <<Super>>
           units == a \o b
<1>1. s \in Nat /\ \A e \in 1 .. s : m.dptr[e] \in {0} \cup Blk
  <2>1. s \in 0 .. NDir /\ \A e \in Dirs : m.dptr[e] \in {0} \cup Blk
    BY Parts
  <2> QED BY <2>1, Numbers DEF Dirs
<1>2. DirFlush(m) = Writes(m, units)
  BY DEF DirFlush
<1>3. \A x \in {0} \cup Blk : x \in Units \cup {0}
  BY DEF Units
<1> HIDE DEF s
<1>4. a \in Seq(Units \cup {0}) /\ Len(a) = s
  <2>1. \A e \in 1 .. s : m.dptr[e] \in Units \cup {0}
    BY <1>1, <1>3
  <2> QED BY <1>1, <2>1
<1>5. b \in Seq(Units \cup {0}) /\ Len(b) = 1 /\ b[1] = Super
  BY DEF Units
<1> HIDE DEF a, b
<1>6. units \in Seq(Units \cup {0}) /\ Len(units) = s + 1 /\ units[s + 1] = Super
      /\ DOMAIN units = 1 .. s + 1
  <2>1. /\ units \in Seq(Units \cup {0}) /\ Len(units) = Len(a) + Len(b)
        /\ \A k \in 1 .. Len(a) + Len(b) : units[k] = IF k <= Len(a) THEN a[k]
                                                       ELSE b[k - Len(a)]
    BY <1>4, <1>5, ConcatProperties
  <2> HIDE DEF units
  <2>2. s + 1 \in 1 .. s + 1 /\ ~(s + 1 <= s) /\ (s + 1) - s = 1
    BY <1>1
  <2> QED BY <1>4, <1>5, <2>1, <2>2
<1> HIDE DEF units
<1>7. /\ Own(m, Writes(m, units)) /\ Writes(m, units) \in Seq(WriteType)
      /\ DOMAIN Writes(m, units) = DOMAIN units
      /\ \A n \in DOMAIN units : /\ Writes(m, units)[n].unit = units[n]
                                 /\ Writes(m, units)[n].to = Held(m, units[n])
  BY <1>6, WritesIs
<1>8. Len(Writes(m, units)) = s + 1 /\ s + 1 \in DOMAIN units
  BY <1>1, <1>6, <1>7
<1> QED BY <1>1, <1>2, <1>6, <1>7, <1>8

LEMMA OwnFinal ==
    ASSUME NEW d, NEW m \in DiskType, Sound(m), NEW w, w => Whole(m), NEW S \in SUBSET File,
           Fits(d, m, <<>>, S), \A i \in S : Fl(m, i).name # NoName, NEW p, Own(m, p),
           Settled(d, m, p)
    PROVE Final(d, m, p, S, w)
<1>1. p \in Seq(WriteType) /\ <<>> \in Seq(WriteType)
  BY DEF Own
<1>2. Fits(d, m, <<>> \o p, S)
  BY <1>1, FitsAppend
<1>3. <<>> \o p = p
  BY <1>1
<1> QED BY <1>1, <1>2, <1>3 DEF Final

LEMMA OwnSettled ==
    ASSUME NEW d, NEW m, NEW p, Own(m, p), Settled(d, m, <<>>)
    PROVE Settled(d, m, p)
<1>1. Len(p) \in Nat /\ DOMAIN p = 1 .. Len(p)
  BY DEF Own
<1>2. \A n \in DOMAIN p : p[n].unit = Super => p[n].to = Held(m, Super)
  BY <1>1 DEF Own
<1> QED BY <1>2 DEF Settled
-----------------------------------------------------------------------------
\* Every step of the file server.
LEMMA StartIs == ASSUME Inv, Idle
    PROVE /\ Building(disk, Start, synced, ~crashed)
          /\ Start \in ReqType /\ Start.m = mem /\ Start.q = <<>> /\ Start.ok
          /\ Settled(disk, mem, <<>>) /\ Fits(disk, mem, <<>>, synced)
          /\ mem \in DiskType /\ disk \in DiskType /\ Sound(mem) /\ (~crashed => Whole(mem))
          /\ synced \in SUBSET File /\ closing = {} /\ \A i \in synced : Fl(mem, i).name # NoName
<1>1. mem \in DiskType /\ disk \in DiskType /\ queue = <<>> /\ synced \in SUBSET File
  BY DEF Inv, Typed, Idle
<1>2. <<>> \in Seq(WriteType) /\ Len(<<>>) = 0 /\ DOMAIN <<>> = {}
  OBVIOUS
<1>3. /\ Start \in ReqType /\ Start.m = mem /\ Start.q = <<>> /\ Start.ok
  BY <1>1, <1>2 DEF Start, Req, ReqType
<1>4. Fits(disk, mem, <<>>, synced)
  BY <1>1, <1>2 DEF Inv, Freeing
<1>5. /\ Sound(mem) /\ (~crashed => Whole(mem)) /\ Settled(disk, mem, <<>>) /\ closing = {}
      /\ \A i \in synced : Fl(mem, i).name # NoName
  BY <1>1 DEF Inv
<1> HIDE DEF Start
<1>6. Building(disk, Start, synced, ~crashed)
  BY <1>2, <1>3, <1>4, <1>5 DEF Building
<1> QED BY <1>1, <1>3, <1>4, <1>5, <1>6

LEMMA Ends ==
    ASSUME Inv, Idle, NEW r, Starts(r), Final(disk, r.m, r.q, synced', ~crashed),
           synced' \subseteq File, UNCHANGED <<disk, closing, crashed>>
    PROVE Inv'
<1>1. /\ mem' = r.m /\ queue' = Rest(disk, r.q) /\ disk' = disk /\ closing' = {} /\ closing = {}
      /\ crashed' = crashed
  BY DEF Starts, Inv, Idle
<1>2. /\ r.m \in DiskType /\ r.q \in Seq(WriteType) /\ Sound(r.m) /\ (~crashed => Whole(r.m))
      /\ Fits(disk, r.m, r.q, synced') /\ Settled(disk, r.m, r.q)
      /\ \A i \in synced' : Fl(r.m, i).name # NoName
  BY DEF Final
<1>3. disk \in DiskType
  BY DEF Inv, Typed
<1>4. PICK k : Dropped(disk, r.q, k, queue')
  BY <1>1, <1>2, RestIs
<1>5. Typed'
  BY <1>1, <1>2, <1>3, <1>4 DEF Typed, Inv, Dropped
<1>6. Fits(disk', mem', queue', synced')
  BY <1>1, <1>2, <1>3, <1>4, FitsDropped
<1>7. Settled(disk', mem', queue')
  BY <1>1, <1>2, <1>4, SettledDropped
<1> QED BY <1>1, <1>2, <1>5, <1>6, <1>7 DEF Inv

\* A request that frees nothing and names nothing.
LEMMA BuildingEnds ==
    ASSUME Inv, Idle, NEW r, Starts(r), Building(disk, r, synced', ~crashed),
           synced' \subseteq synced, UNCHANGED <<disk, closing, crashed>>,
           \A j \in File : Fl(r.m, j).name # NoName =>
               Fl(mem, j).name # NoName /\ DirBlock(r.m, j) = DirBlock(mem, j)
    PROVE Inv'
<1>1. Settled(disk, mem, <<>>) /\ synced \in SUBSET File
  BY StartIs
<1>2. Final(disk, r.m, r.q, synced', ~crashed)
  BY <1>1, BuildingFinal
<1> QED BY <1>1, <1>2, Ends

LEMMA NamedBlock == ASSUME NEW m \in DiskType, NEW i \in File, Fl(m, i).name # NoName
    PROVE DirBlock(m, i) # 0
<1>1. NoFile.name = NoName
  BY DEF NoFile
<1> QED BY <1>1, FlType

LEMMA FollowsEnds == ASSUME NEW m \in DiskType, NEW n, Follows(m, n)
    PROVE \A j \in File : Fl(n, j).name # NoName =>
              Fl(m, j).name # NoName /\ DirBlock(n, j) = DirBlock(m, j)
BY NamedBlock, FollowsIs

LEMMA OpenInv == ASSUME Inv, NEW name, FileOpen(name) PROVE Inv'
<1>1. Idle /\ Starts(Scan(Start, name)) /\ UNCHANGED <<disk, synced, closing, crashed>>
  BY DEF FileOpen
<1>2. Building(disk, Start, synced, ~crashed) /\ Start.m = mem /\ mem \in DiskType
      /\ synced \in SUBSET File
  BY <1>1, StartIs
<1> DEFINE r == Scan(Start, name)
<1>3. Building(disk, r, synced, ~crashed) /\ Follows(mem, r.m)
  BY <1>2, ScanStep
<1> HIDE DEF r
<1>4. \A j \in File : Fl(r.m, j).name # NoName =>
          Fl(mem, j).name # NoName /\ DirBlock(r.m, j) = DirBlock(mem, j)
  BY <1>2, <1>3, FollowsEnds
<1>5. Starts(r) /\ synced' \subseteq synced /\ Building(disk, r, synced', ~crashed)
  BY <1>1, <1>3 DEF r
<1> QED BY <1>1, <1>4, <1>5, BuildingEnds

LEMMA ReadInv == ASSUME Inv, NEW i \in File, NEW k \in Index, FileRead(i, k) PROVE Inv'
<1>1. Idle /\ Starts(GetBlock(Start, i, k)) /\ UNCHANGED <<disk, synced, closing, crashed>>
      /\ Fl(mem, i).name # NoName /\ k <= Fl(mem, i).size
  BY DEF FileRead, Named
<1>2. Building(disk, Start, synced, ~crashed) /\ Start.m = mem /\ mem \in DiskType
      /\ synced \in SUBSET File
  BY <1>1, StartIs
<1>3. DirBlock(Start.m, i) # 0 /\ ~(k > Fl(Start.m, i).size)
  <2>1. Fl(mem, i).size \in Nat /\ k \in Nat
    BY <1>2, FlType, Numbers
  <2> QED BY <1>1, <1>2, <2>1, NamedBlock
<1> DEFINE r == GetBlock(Start, i, k)
<1>4. Building(disk, r, synced, ~crashed) /\ Follows(mem, r.m)
  BY <1>2, <1>3, GetBlockStep
<1> HIDE DEF r
<1>5. \A j \in File : Fl(r.m, j).name # NoName =>
          Fl(mem, j).name # NoName /\ DirBlock(r.m, j) = DirBlock(mem, j)
  BY <1>2, <1>4, FollowsEnds
<1>6. Starts(r) /\ synced' \subseteq synced /\ Building(disk, r, synced', ~crashed)
  BY <1>1, <1>4 DEF r
<1> QED BY <1>1, <1>5, <1>6, BuildingEnds

LEMMA WriteInv == ASSUME Inv, NEW i \in File, NEW k \in Index, NEW v \in Value, FileWrite(i, k, v)
    PROVE Inv'
<1> DEFINE r1 == IF k > Fl(mem, i).size THEN Resized(Start, i, k) ELSE Start
           r2 == GetBlock(r1, i, k)
           T  == synced \ {i}
           r3 == IF r2.ok THEN [r2 EXCEPT !.m.blk[r2.b].val = v] ELSE r2
<1>0. PICK w : w <=> ~crashed
  OBVIOUS
<1>1. Idle /\ Starts(r3) /\ synced' = T /\ UNCHANGED <<disk, closing, crashed>>
      /\ Fl(mem, i).name # NoName
  BY DEF FileWrite, Named, Touched
<1>2. Building(disk, Start, synced, w) /\ Start.m = mem /\ mem \in DiskType
      /\ synced \in SUBSET File /\ T \in SUBSET File /\ T \in SUBSET synced
  BY <1>0, <1>1, StartIs DEF Building
<1>3. DirBlock(mem, i) # 0 /\ Fl(mem, i).size \in Nat /\ k \in Nat /\ k \in {0} \cup Index
  <2>1. mem \in DiskType /\ Fl(mem, i).name # NoName
    BY <1>1, <1>2
  <2>2. DirBlock(mem, i) # 0
    BY <2>1, NamedBlock
  <2>3. Fl(mem, i).size \in {0} \cup Index
    BY <2>1, FlType
  <2> QED BY <2>2, <2>3, Numbers
<1>4. /\ Building(disk, r1, T, w)
      /\ \A j \in File : Fl(r1.m, j).name = Fl(mem, j).name /\ DirBlock(r1.m, j) = DirBlock(mem, j)
      /\ ~(k > Fl(r1.m, i).size)
  <2>1. CASE k > Fl(mem, i).size
    <3>1. r1 = Resized(Start, i, k)
      BY <2>1
    <3> HIDE DEF r1
    <3>2. ~(k < Fl(Start.m, i).size) /\ DirBlock(Start.m, i) # 0
      BY <1>2, <1>3, <2>1
    <3> HIDE DEF T
    <3>3. /\ Building(disk, Resized(Start, i, k), synced \ {i}, w)
          /\ Resizes(Start.m, i, k, Resized(Start, i, k).m)
      <4> HIDE DEF Start, Inv, FileWrite
      <4>1. PICK s : s = Start
        OBVIOUS
      <4>2. /\ synced \in SUBSET File /\ Building(disk, s, synced, w) /\ DirBlock(s.m, i) # 0
            /\ k \in Extent /\ Covers(s.m, i, k)
        BY <1>2, <1>3, <3>2, <4>1 DEF Extent, Covers
      <4>3. /\ Building(disk, Resized(s, i, k), synced \ {i}, w)
            /\ Resizes(s.m, i, k, Resized(s, i, k).m)
        BY <4>2, GrowStep
      <4> QED BY <4>1, <4>3
    <3> QED BY <1>2, <1>3, <3>1, <3>3 DEF T, Resizes
  <2>2. CASE ~(k > Fl(mem, i).size)
    <3>1. r1 = Start
      BY <2>2
    <3> HIDE DEF r1
    <3>2. Fits(disk, Start.m, Start.q, T)
      BY <1>2, FitsFewer DEF Building
    <3>3. Building(disk, Start, T, w)
      BY <1>2, <3>2 DEF Building
    <3> QED BY <1>2, <2>2, <3>1, <3>3
  <2> QED BY <2>1, <2>2
<1> HIDE DEF r1
<1>5. /\ Building(disk, r2, T, w) /\ Follows(r1.m, r2.m)
      /\ r2.ok => Finds(r2, i, k)
  <2>1. DirBlock(r1.m, i) # 0
    BY <1>3, <1>4
  <2> QED BY <1>2, <1>4, <2>1, GetBlockStep
<1> HIDE DEF r2
<1>6. r1.m \in DiskType
  BY <1>4 DEF Building, ReqType
<1>7. \A j \in File : Fl(r2.m, j).name # NoName =>
          Fl(mem, j).name # NoName /\ DirBlock(r2.m, j) = DirBlock(mem, j)
  BY <1>4, <1>5, <1>6, FollowsEnds
<1>8. /\ Building(disk, r3, T, w)
      /\ \A j \in File : Fl(r3.m, j).name # NoName =>
             Fl(mem, j).name # NoName /\ DirBlock(r3.m, j) = DirBlock(mem, j)
  <2>1. CASE r2.ok
    <3> DEFINE s == [r2 EXCEPT !.m.blk[r2.b].val = v]
    <3>1. r3 = s
      BY <2>1
    <3>2. /\ Building(disk, s, T, w)
          /\ \A j \in File : Fl(s.m, j).name = Fl(r2.m, j).name
                             /\ DirBlock(s.m, j) = DirBlock(r2.m, j)
      BY <1>2, <1>5, <2>1, PutStep
    <3> HIDE DEF r3, s
    <3> QED BY <1>7, <3>1, <3>2
  <2>2. CASE ~r2.ok
    BY <1>5, <1>7, <2>2
  <2> QED BY <2>1, <2>2
<1> HIDE DEF r3
<1>9. synced' \subseteq synced /\ Building(disk, r3, synced', ~crashed)
  BY <1>0, <1>1, <1>2, <1>8 DEF Building
<1> QED BY <1>1, <1>8, <1>9, BuildingEnds

LEMMA GrowInv ==
    ASSUME Inv, NEW i \in File, NEW n \in Extent, FileSetSize(i, n), Covers(mem, i, n)
    PROVE Inv'
<1>0. PICK w : w <=> ~crashed
  OBVIOUS
<1>1. /\ Idle /\ Starts(Resized(Start, i, n)) /\ synced' = synced \ {i}
      /\ UNCHANGED <<disk, closing, crashed>> /\ Fl(mem, i).name # NoName
  BY DEF FileSetSize, Named, Touched
<1>2. Building(disk, Start, synced, w) /\ Start.m = mem /\ mem \in DiskType
      /\ synced \in SUBSET File
  BY <1>0, <1>1, StartIs DEF Building
<1>3. DirBlock(mem, i) # 0
  BY <1>1, <1>2, NamedBlock
<1> HIDE DEF Start, Inv, FileSetSize
<1>4. PICK s : s = Start
  OBVIOUS
<1>5. /\ synced \in SUBSET File /\ Building(disk, s, synced, w) /\ DirBlock(s.m, i) # 0
      /\ n \in Extent /\ Covers(s.m, i, n)
  BY <1>2, <1>3, <1>4 DEF Extent, Covers
<1> DEFINE r == Resized(s, i, n)
<1>6. Building(disk, r, synced \ {i}, w) /\ Resizes(s.m, i, n, r.m)
  BY <1>5, GrowStep
<1>7. Starts(r)
  BY <1>1, <1>4
<1> HIDE DEF r
<1>8. /\ Building(disk, r, synced', ~crashed) /\ synced' \subseteq synced
      /\ \A j \in File : Fl(r.m, j).name # NoName =>
             Fl(mem, j).name # NoName /\ DirBlock(r.m, j) = DirBlock(mem, j)
  BY <1>0, <1>1, <1>2, <1>4, <1>6 DEF Building, Resizes
<1> QED BY <1>1, <1>7, <1>8, BuildingEnds

LEMMA SyncInv == ASSUME Inv, FsSync PROVE Inv'
<1> DEFINE units == <<Super, Bitmap>> \o [b \in Blk |-> b]
           r     == [Start EXCEPT !.q = Writes(mem, units)]
<1>1. Idle /\ Starts(r) /\ UNCHANGED <<disk, synced, closing, crashed>>
  BY DEF FsSync
<1>2. /\ Start \in ReqType /\ Start.m = mem
      /\ Settled(disk, mem, <<>>) /\ Fits(disk, mem, <<>>, synced)
      /\ mem \in DiskType /\ Sound(mem) /\ (~crashed => Whole(mem))
      /\ synced \in SUBSET File /\ \A i \in synced : Fl(mem, i).name # NoName
  BY <1>1, StartIs
<1>3. units \in Seq(Units \cup {0})
  <2>1. <<Super, Bitmap>> \in Seq(Units \cup {0})
    BY DEF Units
  <2>2. [b \in Blk |-> b] \in Seq(Units \cup {0})
    <3>1. \A b \in 1 .. NBlk : b \in Units \cup {0}
      BY DEF Units, Blk
    <3>2. [b \in 1 .. NBlk |-> b] \in Seq(Units \cup {0})
      BY <3>1, Numbers
    <3> QED BY <3>2 DEF Blk
  <2> QED BY <2>1, <2>2, ConcatProperties
<1> HIDE DEF units
<1>4. Own(mem, Writes(mem, units)) /\ Writes(mem, units) \in Seq(WriteType)
  BY <1>2, <1>3, WritesIs
<1>5. r.m = mem /\ r.q = Writes(mem, units)
  BY <1>2 DEF ReqType
<1>6. Settled(disk, mem, Writes(mem, units))
  BY <1>2, <1>4, OwnSettled
<1> HIDE DEF r
<1>7. Final(disk, r.m, r.q, synced, ~crashed)
  BY <1>2, <1>4, <1>5, <1>6, OwnFinal
<1>8. synced' = synced
  BY <1>1
<1>9. Final(disk, r.m, r.q, synced', ~crashed) /\ synced' \subseteq File
  BY <1>2, <1>7, <1>8
<1> QED BY <1>1, <1>9, Ends

Answers(q, S, T, S1, T1) == IF q = <<>> THEN S1 = S \cup T /\ T1 = {} ELSE T1 = T /\ S1 = S

\* The files of S are on disk, those of T will be when q is written.
Flushed(d, m, q, S, T) ==
    /\ d \in DiskType /\ m \in DiskType /\ Sound(m) /\ q \in Seq(WriteType)
    /\ S \in SUBSET File /\ T \in SUBSET File
    /\ Fits(d, m, q, S) /\ Settled(d, m, q) /\ \A i \in S : Fl(m, i).name # NoName
    /\ \A i \in T : Flushing(d, m, q, i)

\* A flush whose last write is done adds its files to those on disk.
LEMMA Answered ==
    ASSUME NEW d, NEW m, NEW q, NEW S, NEW T, Flushed(d, m, q, S, T),
           NEW S1, NEW T1, Answers(q, S, T, S1, T1)
    PROVE Flushed(d, m, q, S1, T1) /\ (q = <<>> => T1 = {})
<1>1. CASE q = <<>>
  <2>1. Fits(d, m, <<>>, S \cup T)
    BY <1>1, FlushDone DEF Flushed
  <2>2. \A i \in T : Fl(m, i).name # NoName
    BY DEF Flushing, Flushed
  <2> QED BY <1>1, <2>1, <2>2 DEF Answers, Flushed
<1>2. CASE q # <<>>
  BY <1>2 DEF Answers
<1> QED BY <1>1, <1>2

LEMMA FlushInv == ASSUME Inv, NEW i \in File, ServeFlush(i) PROVE Inv'
<1> DEFINE p == FileFlush(mem, i)
           r == [Start EXCEPT !.q = p]
<1>1. /\ Idle /\ Starts(r) /\ Answer({i}, queue') /\ UNCHANGED <<disk, crashed>>
      /\ Fl(mem, i).name # NoName
  BY DEF ServeFlush, Named
<1>2. /\ Start \in ReqType /\ Start.m = mem
      /\ Settled(disk, mem, <<>>) /\ Fits(disk, mem, <<>>, synced)
      /\ mem \in DiskType /\ disk \in DiskType /\ Sound(mem) /\ (~crashed => Whole(mem))
      /\ synced \in SUBSET File /\ \A j \in synced : Fl(mem, j).name # NoName
  BY <1>1, StartIs
<1>3. /\ Own(mem, p) /\ p \in Seq(WriteType)
      /\ \A n \in DOMAIN p : p[n].to = Held(mem, p[n].unit)
      /\ \A u \in Needed(mem, i) : \E n \in DOMAIN p : p[n].unit = u
  BY <1>2, FileFlushIs
<1>4. mem' = mem /\ queue' = Rest(disk, p) /\ disk' = disk /\ crashed' = crashed
  BY <1>1, <1>2 DEF Starts, ReqType
<1> HIDE DEF p, r
<1>5. Final(disk, mem, p, synced, ~crashed)
  <2>1. Settled(disk, mem, p)
    BY <1>2, <1>3, OwnSettled
  <2> QED BY <1>2, <1>3, <2>1, OwnFinal
<1>6. Flushing(disk, mem, p, i)
  BY <1>1, <1>3 DEF Flushing
<1>7. PICK k : Dropped(disk, p, k, queue')
  BY <1>3, <1>4, RestIs
<1>8. /\ queue' \in Seq(WriteType) /\ Fits(disk, mem, queue', synced)
      /\ Settled(disk, mem, queue') /\ Flushing(disk, mem, queue', i)
  <2>1. queue' \in Seq(WriteType)
    BY <1>7 DEF Dropped
  <2>2. Fits(disk, mem, queue', synced)
    BY <1>2, <1>3, <1>5, <1>7, FitsDropped DEF Final
  <2>3. Settled(disk, mem, queue')
    BY <1>2, <1>3, <1>5, <1>7, SettledDropped DEF Final
  <2>4. Flushing(disk, mem, queue', i)
    BY <1>3, <1>6, <1>7, FlushingDropped
  <2> QED BY <2>1, <2>2, <2>3, <2>4
<1>9. Flushed(disk, mem, queue', synced', closing') /\ (queue' = <<>> => closing' = {})
  <2>1. Answers(queue', synced, {i}, synced', closing')
    BY <1>1 DEF Answer, Answers
  <2>2. Flushed(disk, mem, queue', synced, {i})
    BY <1>2, <1>8 DEF Flushed
  <2> QED BY <2>1, <2>2, Answered
<1>10. Typed'
  BY <1>2, <1>4, <1>9 DEF Typed, Inv, Flushed
<1> QED BY <1>2, <1>4, <1>9, <1>10 DEF Inv, Flushed

\* The write at the head of the queue is done.
LEMMA HeadDropped ==
    ASSUME NEW d \in DiskType, NEW q \in Seq(WriteType), q # <<>>,
           NEW e, e = Written(d, q[1]), NEW k, NEW p, Dropped(e, Tail(q), k, p)
    PROVE Dropped(e, q, k + 1, p)
<1>1. /\ Len(q) \in Nat \ {0} /\ Tail(q) \in Seq(WriteType) /\ Len(Tail(q)) = Len(q) - 1
      /\ \A n \in 1 .. Len(q) - 1 : Tail(q)[n] = q[n + 1]
      /\ q[1] \in WriteType
  OBVIOUS
<1> DEFINE t == Tail(q)
<1> HIDE DEF t
<1>2. /\ k \in 0 .. Len(t) /\ p \in Seq(WriteType) /\ Len(p) = Len(t) - k
      /\ \A n \in 1 .. Len(p) : p[n] = t[n + k]
      /\ \A n \in 1 .. k : Held(e, t[n].unit) = t[n].to
  BY DEF Dropped, t
<1>3. Len(t) = Len(q) - 1 /\ \A n \in 1 .. Len(q) - 1 : t[n] = q[n + 1]
  BY <1>1 DEF t
<1>4. Held(e, q[1].unit) = q[1].to
  <2>1. q[1].unit \in Units \cup {0} /\ (q[1].unit = 0 => q[1].to = Cleared)
    BY <1>1, WriteIs
  <2>2. CASE q[1].unit \in Units
    <3>1. \A u \in Units : Held(Written(d, q[1]), u) = IF u = q[1].unit THEN q[1].to ELSE Held(d, u)
      BY <1>1, WrittenIs
    <3> QED BY <2>2, <3>1
  <2>3. CASE q[1].unit = 0
    BY <2>1, <2>3, HeldIs
  <2> QED BY <2>1, <2>2, <2>3
<1>5. k + 1 \in 0 .. Len(q) /\ Len(p) = Len(q) - (k + 1)
  BY <1>1, <1>2, <1>3
<1>6. ASSUME NEW n \in 1 .. Len(p) PROVE p[n] = q[n + (k + 1)]
  <2>0. k \in Nat /\ Len(p) \in Nat /\ Len(q) \in Nat /\ Len(p) + k = Len(q) - 1
        /\ n \in Nat /\ n >= 1 /\ n <= Len(p)
    BY <1>1, <1>2, <1>3
  <2>1. n + k \in 1 .. Len(q) - 1 /\ (n + k) + 1 = n + (k + 1)
    BY <2>0
  <2> QED BY <1>2, <1>3, <2>1
<1>7. ASSUME NEW n \in 1 .. k + 1 PROVE Held(e, q[n].unit) = q[n].to
  <2>1. CASE n = 1
    BY <1>4, <2>1
  <2>2. CASE n # 1
    <3>1. n - 1 \in 1 .. k /\ n - 1 \in 1 .. Len(q) - 1 /\ (n - 1) + 1 = n
      BY <1>1, <1>2, <1>3, <2>2
    <3>2. t[n - 1] = q[n]
      BY <1>3, <3>1
    <3> QED BY <1>2, <3>1, <3>2
  <2> QED BY <2>1, <2>2
<1> QED BY <1>2, <1>5, <1>6, <1>7 DEF Dropped

LEMMA SettledWritten ==
    ASSUME NEW d \in DiskType, NEW m \in DiskType, Sound(m), NEW q \in Seq(WriteType), q # <<>>,
           Settled(d, m, q)
    PROVE Settled(Written(d, q[1]), m, q)
<1> DEFINE e == Written(d, q[1])
<1>1. q[1] \in WriteType /\ 1 \in DOMAIN q
  OBVIOUS
<1>2. \A u \in Units : Held(e, u) = IF u = q[1].unit THEN q[1].to ELSE Held(d, u)
  BY <1>1, WrittenIs
<1> HIDE DEF e
<1>3. Held(e, Super) = Held(d, Super) \/ Held(e, Super) = Held(m, Super)
  BY <1>1, <1>2 DEF Settled, Units
<1>4. \/ e.dsize = d.dsize /\ e.dptr = d.dptr
      \/ e.dsize = m.dsize /\ e.dptr = m.dptr
  BY <1>3, HeldIs
<1>5. ASSUME NEW i \in File, Fl(m, i).name # NoName, OnDisk(d, m, i) PROVE OnDisk(e, m, i)
  BY <1>4, <1>5, DirBlockBound DEF OnDisk
<1> QED BY <1>5 DEF Settled, e

LEMMA FlushingWritten ==
    ASSUME NEW d \in DiskType, NEW m \in DiskType, NEW q \in Seq(WriteType), q # <<>>,
           NEW i \in File, Flushing(d, m, q, i)
    PROVE Flushing(Written(d, q[1]), m, q, i)
<1> DEFINE e == Written(d, q[1])
<1>1. q[1] \in WriteType /\ 1 \in DOMAIN q
  OBVIOUS
<1>2. \A u \in Units : Held(e, u) = IF u = q[1].unit THEN q[1].to ELSE Held(d, u)
  BY <1>1, WrittenIs
<1> HIDE DEF e
<1>3. Needed(m, i) \subseteq Units
  <2>1. DirBlock(m, i) \in {0} \cup Blk /\ Fl(m, i).indirect \in {0} \cup Blk
    BY FlType
  <2>2. \A k \in Index : Ptr(m, i, k) \in {0} \cup Blk
    BY PtrType
  <2> QED BY <2>1, <2>2 DEF Needed, Units
<1>4. ASSUME NEW u \in Needed(m, i), Held(d, u) = Held(m, u) PROVE Held(e, u) = Held(m, u)
  BY <1>1, <1>2, <1>3, <1>4 DEF Flushing
<1> QED BY <1>4 DEF Flushing, e

LEMMA DiskInv == ASSUME Inv, DiskWrite PROVE Inv'
<1>1. /\ mem \in DiskType /\ disk \in DiskType /\ Sound(mem) /\ queue \in Seq(WriteType)
      /\ queue # <<>> /\ synced \in SUBSET File /\ closing \in SUBSET File
      /\ Settled(disk, mem, queue) /\ \A i \in synced : Fl(mem, i).name # NoName
      /\ \A i \in closing : Flushing(disk, mem, queue, i)
      /\ PartialShrink = FALSE /\ crashed \in BOOLEAN /\ (crashed \/ Whole(mem))
      /\ Fits(disk, mem, queue, synced) \/ Freeing
  BY DEF Inv, Typed, DiskWrite
<1>2. /\ disk' = Written(disk, queue[1]) /\ queue' = Rest(disk', Tail(queue))
      /\ Answer(closing, queue') /\ mem' = mem /\ crashed' = crashed
  BY <1>1 DEF DiskWrite
<1>3. queue[1] \in WriteType /\ Tail(queue) \in Seq(WriteType)
  BY <1>1
<1>4. disk' \in DiskType
  BY <1>1, <1>2, <1>3, WrittenIs
<1>5. PICK k : Dropped(disk', Tail(queue), k, queue')
  BY <1>2, <1>3, RestIs
<1>6. Dropped(disk', queue, k + 1, queue')
  BY <1>1, <1>2, <1>5, HeadDropped
<1>7. queue' \in Seq(WriteType)
  BY <1>6 DEF Dropped
<1>8. Fits(disk', mem, queue', synced)
  <2>1. CASE Fits(disk, mem, queue, synced)
    <3>0. Fits(Written(disk, queue[1]), mem, queue, synced)
      BY <1>1, <2>1, FitsWritten
    <3>1. Fits(disk', mem, queue, synced)
      BY <1>2, <3>0
    <3> QED BY <1>1, <1>4, <1>6, <3>1, FitsDropped
  <2>2. CASE Freeing
    <3>1. Len(queue) = 1 /\ Fits(disk', mem, <<>>, synced)
      BY <1>2, <2>2 DEF Freeing
    <3>2. Len(queue') = 0
      <4>1. k \in 0 .. Len(Tail(queue)) /\ Len(Tail(queue)) = Len(queue) - 1
        BY <1>1, <1>5 DEF Dropped
      <4>2. k = 0 /\ Len(queue') = Len(queue) - (k + 1)
        BY <1>6, <3>1, <4>1 DEF Dropped
      <4> QED BY <3>1, <4>2
    <3>3. queue' = <<>>
      BY <1>7, <3>2
    <3> QED BY <3>1, <3>3
  <2> QED BY <1>1, <2>1, <2>2
<1>9. Settled(disk', mem, queue')
  <2>1. Settled(disk', mem, queue)
    BY <1>1, <1>2, SettledWritten
  <2> QED BY <1>1, <1>6, <2>1, SettledDropped
<1>10. ASSUME NEW i \in closing PROVE Flushing(disk', mem, queue', i)
  <2>1. Flushing(disk', mem, queue, i)
    BY <1>1, <1>2, FlushingWritten
  <2> QED BY <1>1, <1>6, <2>1, FlushingDropped
<1>11. Flushed(disk', mem, queue', synced', closing') /\ (queue' = <<>> => closing' = {})
  <2>1. Answers(queue', synced, closing, synced', closing')
    BY <1>2 DEF Answer, Answers
  <2>2. Flushed(disk', mem, queue', synced, closing)
    BY <1>1, <1>4, <1>7, <1>8, <1>9, <1>10 DEF Flushed
  <2> QED BY <2>1, <2>2, Answered
<1>12. Typed'
  BY <1>1, <1>2, <1>4, <1>7, <1>11 DEF Typed, Flushed
<1> QED BY <1>1, <1>2, <1>11, <1>12 DEF Inv, Flushed

\* What the machine leaves behind when it stops.
LEMMA StopSafe == ASSUME Inv PROVE Sound(disk) /\ FlushedSurvives
<1>1. /\ mem \in DiskType /\ disk \in DiskType /\ Sound(mem) /\ queue \in Seq(WriteType)
      /\ synced \in SUBSET File /\ \A i \in synced : Fl(mem, i).name # NoName
      /\ Fits(disk, mem, queue, synced) \/ Freeing
  BY DEF Inv, Typed
<1>2. CASE Freeing
  BY <1>2 DEF Freeing
<1>3. CASE Fits(disk, mem, queue, synced)
  <2>1. Sound(disk)
    BY <1>1, <1>3, FitsSound
  <2>2. \A i \in synced : DirOf(i) <= disk.dsize /\ Contents(disk, i) = Contents(mem, i)
    BY <1>1, <1>3, FitsKept
  <2> QED BY <2>1, <2>2 DEF FlushedSurvives
<1> QED BY <1>1, <1>2, <1>3

LEMMA CrashInv == ASSUME Inv, Crash PROVE Inv'
<1>1. /\ mem' = disk /\ queue' = <<>> /\ closing' = {} /\ crashed' = TRUE
      /\ disk' = disk /\ synced' = synced
  BY DEF Crash
<1>2. disk \in DiskType /\ synced \in SUBSET File /\ PartialShrink = FALSE
      /\ \A i \in synced : Fl(mem, i).name # NoName
  BY DEF Inv, Typed
<1>3. Sound(disk) /\ FlushedSurvives
  BY StopSafe
<1>4. \A i \in synced : Fl(disk, i).name # NoName
  BY <1>2, <1>3, ContentsIs DEF FlushedSurvives
<1>5. Fits(disk, disk, <<>>, synced)
  BY <1>2, <1>3, <1>4, FitsRefl
<1>6. DOMAIN <<>> = {} /\ <<>> \in Seq(WriteType)
  OBVIOUS
<1>7. Settled(disk, disk, <<>>)
  BY <1>2, <1>3, <1>6, DirBlockBound DEF Settled, OnDisk
<1>8. Typed'
  BY <1>1, <1>2, <1>6 DEF Typed
<1> QED BY <1>1, <1>2, <1>3, <1>4, <1>5, <1>7, <1>8 DEF Inv
-----------------------------------------------------------------------------
\* Blocks are freed: other free blocks, other pointers in the blocks.
PutBlocks(m, a, x) == [m EXCEPT !.free = a, !.blk = x]

LEMMA TwoParts ==
    ASSUME NEW m, m = [free |-> m.free, dsize |-> m.dsize, dptr |-> m.dptr, blk |-> m.blk],
           NEW a, NEW x
    PROVE [m EXCEPT !.free = a, !.blk = x]
              = [free |-> a, dsize |-> m.dsize, dptr |-> m.dptr, blk |-> x]
<1>1. [m EXCEPT !.free = a, !.blk = x] = [[m EXCEPT !.free = a] EXCEPT !.blk = x]
  OBVIOUS
<1>2. \A c : [m EXCEPT !.free = c]
               = [free |-> c, dsize |-> m.dsize, dptr |-> m.dptr, blk |-> m.blk]
  OBVIOUS
<1>3. \A c, n, p, b, y : [[free |-> c, dsize |-> n, dptr |-> p, blk |-> b] EXCEPT !.blk = y]
               = [free |-> c, dsize |-> n, dptr |-> p, blk |-> y]
  OBVIOUS
<1> DEFINE k == [free |-> a, dsize |-> m.dsize, dptr |-> m.dptr, blk |-> m.blk]
<1>4. [m EXCEPT !.free = a] = k
  BY <1>2
<1>5. [k EXCEPT !.blk = x] = [free |-> a, dsize |-> m.dsize, dptr |-> m.dptr, blk |-> x]
  BY <1>3
<1> HIDE DEF k
<1> QED BY <1>1, <1>4, <1>5

LEMMA PutBlocksIs ==
    ASSUME NEW m \in DiskType, NEW a \in SUBSET Blk, NEW x \in [Blk -> BlockType],
           \A b \in Blk : x[b].file = m.blk[b].file
    PROVE /\ PutBlocks(m, a, x) \in DiskType
          /\ PutBlocks(m, a, x).free = a /\ PutBlocks(m, a, x).dsize = m.dsize
          /\ PutBlocks(m, a, x).dptr = m.dptr /\ PutBlocks(m, a, x).blk = x
          /\ \A j \in File : Fl(PutBlocks(m, a, x), j) = Fl(m, j)
<1>1. /\ m.free \in SUBSET Blk /\ m.dsize \in 0 .. NDir /\ m.dptr \in [Dirs -> {0} \cup Blk]
      /\ m.blk \in [Blk -> BlockType]
  BY Parts
<1>2. m = [free |-> m.free, dsize |-> m.dsize, dptr |-> m.dptr, blk |-> m.blk]
  BY Parts
<1> DEFINE n == PutBlocks(m, a, x)
<1>3. n = [free |-> a, dsize |-> m.dsize, dptr |-> m.dptr, blk |-> x]
  BY <1>2, TwoParts DEF PutBlocks
<1> HIDE DEF n
<1>4. n \in DiskType /\ n.free = a /\ n.dsize = m.dsize /\ n.dptr = m.dptr /\ n.blk = x
  BY <1>1, <1>3, MakeDisk
<1>5. ASSUME NEW j \in File PROVE Fl(n, j) = Fl(m, j)
  <2>1. DirBlock(n, j) = DirBlock(m, j)
    BY <1>4 DEF DirBlock
  <2>2. CASE DirBlock(m, j) = 0
    BY <1>4, <2>1, <2>2, FlType
  <2>3. CASE DirBlock(m, j) # 0
    <3>1. DirBlock(m, j) \in Blk
      BY <2>3, FlType
    <3>2. Fl(n, j) = n.blk[DirBlock(m, j)].file[EntryOf(j)]
      BY <1>4, <2>1, <2>3, FlType
    <3>3. Fl(m, j) = m.blk[DirBlock(m, j)].file[EntryOf(j)]
      BY <2>3, FlType
    <3> QED BY <1>4, <3>1, <3>2, <3>3
  <2> QED BY <2>2, <2>3
<1> QED BY <1>4, <1>5 DEF n

\* The pointers of cut are set to 0.
NoPtr(x, cut)    == [x EXCEPT !.ptr =
    [k \in 1 .. NINDIRECT |-> IF k + NDIRECT \in cut THEN 0 ELSE x.ptr[k]]]
NoDirect(f, cut) == [f EXCEPT !.direct = [k \in 1 .. NDIRECT |-> IF k \in cut THEN 0 ELSE @[k]]]
CutBlocks(m, a, cut) == [b \in Blk |-> IF b # a THEN m.blk[b] ELSE NoPtr(m.blk[b], cut)]

LEMMA NoPtrIs == ASSUME NEW x \in BlockType, NEW cut
    PROVE /\ NoPtr(x, cut) \in BlockType
          /\ NoPtr(x, cut).val = x.val /\ NoPtr(x, cut).file = x.file
<1>1. x.ptr \in [1 .. NINDIRECT -> {0} \cup Blk]
  BY DEF BlockType
<1> DEFINE z == [k \in 1 .. NINDIRECT |-> IF k + NDIRECT \in cut THEN 0 ELSE x.ptr[k]]
<1>2. z \in [1 .. NINDIRECT -> {0} \cup Blk]
  BY <1>1
<1>3. NoPtr(x, cut) = [x EXCEPT !.ptr = z]
  BY DEF NoPtr
<1> HIDE DEF z
<1> QED BY <1>2, <1>3 DEF BlockType, z

LEMMA NoDirectIs == ASSUME NEW f \in FileType, NEW cut
    PROVE /\ NoDirect(f, cut) \in FileType
          /\ NoDirect(f, cut).name = f.name /\ NoDirect(f, cut).size = f.size
          /\ NoDirect(f, cut).indirect = f.indirect
          /\ \A k \in 1 .. NDIRECT :
                 NoDirect(f, cut).direct[k] = IF k \in cut THEN 0 ELSE f.direct[k]
<1>1. f.direct \in [1 .. NDIRECT -> {0} \cup Blk]
  BY DEF FileType
<1> DEFINE z == [k \in 1 .. NDIRECT |-> IF k \in cut THEN 0 ELSE f.direct[k]]
<1>2. /\ z \in [1 .. NDIRECT -> {0} \cup Blk]
      /\ \A k \in 1 .. NDIRECT : z[k] = IF k \in cut THEN 0 ELSE f.direct[k]
  BY <1>1
<1>3. NoDirect(f, cut) = [f EXCEPT !.direct = z]
  BY DEF NoDirect
<1> HIDE DEF z
<1> QED BY <1>2, <1>3 DEF FileType

Lost(m, i, cut) == {Ptr(m, i, k) : k \in cut} \ {0}
LEMMA FreedIs ==
    ASSUME NEW m \in DiskType, DirApart(m), NEW i \in File, DirBlock(m, i) # 0,
           NEW cut \in SUBSET Index
    PROVE /\ Freed(m, i, cut) \in DiskType
          /\ Freed(m, i, cut).free = m.free \cup Lost(m, i, cut)
          /\ Freed(m, i, cut).dsize = m.dsize /\ Freed(m, i, cut).dptr = m.dptr
          /\ \A b \in Blk : /\ Freed(m, i, cut).blk[b].val = m.blk[b].val
                            /\ b # Fl(m, i).indirect => Freed(m, i, cut).blk[b].ptr = m.blk[b].ptr
          /\ Fl(Freed(m, i, cut), i) = NoDirect(Fl(m, i), cut)
          /\ \A j \in File : j # i => Fl(Freed(m, i, cut), j) = Fl(m, j)
<1> DEFINE a == m.free \cup Lost(m, i, cut)
           x == CutBlocks(m, Fl(m, i).indirect, cut)
           g == NoDirect(Fl(m, i), cut)
           n == PutBlocks(m, a, x)
<1>1. Freed(m, i, cut) = SetFile(n, i, g)
  BY DEF Freed, Lost, CutBlocks, NoPtr, PutBlocks, NoDirect
<1>2. a \in SUBSET Blk
  <2>1. \A k \in cut : Ptr(m, i, k) \in {0} \cup Blk
    BY PtrType
  <2>2. m.free \subseteq Blk
    BY Parts
  <2> QED BY <2>1, <2>2 DEF Lost
<1>3. /\ x \in [Blk -> BlockType]
      /\ \A b \in Blk : /\ x[b].val = m.blk[b].val /\ x[b].file = m.blk[b].file
                        /\ b # Fl(m, i).indirect => x[b] = m.blk[b]
  <2>1. m.blk \in [Blk -> BlockType] /\ \A b \in Blk : m.blk[b] \in BlockType
    BY Parts
  <2>2. \A b \in Blk : /\ NoPtr(m.blk[b], cut) \in BlockType
                       /\ NoPtr(m.blk[b], cut).val = m.blk[b].val
                       /\ NoPtr(m.blk[b], cut).file = m.blk[b].file
    BY <2>1, NoPtrIs
  <2> QED BY <2>1, <2>2 DEF CutBlocks
<1>4. g \in FileType
  BY FlType, NoDirectIs
<1> HIDE DEF a, x, g
<1>5. /\ n \in DiskType /\ n.free = a /\ n.dsize = m.dsize /\ n.dptr = m.dptr /\ n.blk = x
      /\ \A j \in File : Fl(n, j) = Fl(m, j)
  BY <1>2, <1>3, PutBlocksIs
<1> HIDE DEF n
<1>6. DirApart(n) /\ DirBlock(n, i) # 0
  BY <1>5 DEF DirApart, DirBlock
<1>7. /\ SetFile(n, i, g) \in DiskType
      /\ SetFile(n, i, g).free = n.free /\ SetFile(n, i, g).dsize = n.dsize
      /\ SetFile(n, i, g).dptr = n.dptr
      /\ \A b \in Blk : /\ SetFile(n, i, g).blk[b].val = n.blk[b].val
                        /\ SetFile(n, i, g).blk[b].ptr = n.blk[b].ptr
      /\ \A j \in File : Fl(SetFile(n, i, g), j) = IF j = i THEN g ELSE Fl(n, j)
  BY <1>4, <1>5, <1>6, SetFileAt
<1> QED BY <1>1, <1>3, <1>5, <1>7 DEF a, g

\* file_truncate_blocks of file i to s blocks, none of them behind the indirect block.
Cuts(m, n, i, s) ==
    /\ n \in DiskType /\ n.dsize = m.dsize /\ n.dptr = m.dptr
    /\ n.free = m.free \cup Lost(m, i, Cut(m, i, s)) \cup ({Fl(m, i).indirect} \ {0})
    /\ \A b \in Blk : /\ n.blk[b].val = m.blk[b].val
                      /\ b # Fl(m, i).indirect => n.blk[b].ptr = m.blk[b].ptr
    /\ \A j \in File : j # i => Fl(n, j) = Fl(m, j)
    /\ Fl(n, i).indirect = 0
    /\ \A k \in 1 .. NDIRECT :
           Fl(n, i).direct[k] = IF k \in Cut(m, i, s) THEN 0 ELSE Fl(m, i).direct[k]

LEMMA TruncIs ==
    ASSUME NEW m \in DiskType, DirApart(m), NEW i \in File, DirBlock(m, i) # 0,
           NEW s \in 0 .. NDIRECT
    PROVE /\ Cuts(m, Truncated(m, i, s), i, s)
          /\ Fl(Truncated(m, i, s), i).name = Fl(m, i).name
<1> DEFINE cut == Cut(m, i, s)
           m1 == Freed(m, i, cut)
           g == NoDirect(Fl(m, i), cut)
<1>0. cut \in SUBSET Index /\ ~(s > NDIRECT)
  BY Numbers DEF Cut
<1>1. /\ m1 \in DiskType /\ m1.free = m.free \cup Lost(m, i, cut)
      /\ m1.dsize = m.dsize /\ m1.dptr = m.dptr
      /\ \A b \in Blk : /\ m1.blk[b].val = m.blk[b].val
                        /\ b # Fl(m, i).indirect => m1.blk[b].ptr = m.blk[b].ptr
      /\ Fl(m1, i) = g
      /\ \A j \in File : j # i => Fl(m1, j) = Fl(m, j)
  <2> HIDE DEF cut
  <2> QED BY <1>0, FreedIs
<1>2. /\ g \in FileType /\ g.name = Fl(m, i).name /\ g.indirect = Fl(m, i).indirect
      /\ \A k \in 1 .. NDIRECT : g.direct[k] = IF k \in cut THEN 0 ELSE Fl(m, i).direct[k]
  <2> HIDE DEF cut
  <2> QED BY FlType, NoDirectIs
<1>3. Truncated(m, i, s) =
          IF Fl(m1, i).indirect = 0 THEN m1
          ELSE SetFile([m1 EXCEPT !.free = @ \cup {Fl(m1, i).indirect}], i,
                       [Fl(m1, i) EXCEPT !.indirect = 0])
  BY <1>0 DEF Truncated
<1> HIDE DEF m1, g, cut
<1>4. CASE Fl(m, i).indirect = 0
  <2>1. Truncated(m, i, s) = m1
    BY <1>1, <1>2, <1>3, <1>4
  <2>2. Fl(m1, i).indirect = 0 /\ {Fl(m, i).indirect} \ {0} = {}
    BY <1>1, <1>2, <1>4
  <2> QED BY <1>1, <1>2, <2>1, <2>2 DEF Cuts, cut
<1>5. CASE Fl(m, i).indirect # 0
  <2> DEFINE I == Fl(m, i).indirect
             n1 == [m1 EXCEPT !.free = @ \cup {I}]
             h == WithInd(g, 0)
  <2>1. Truncated(m, i, s) = SetFile(n1, i, h)
    BY <1>1, <1>2, <1>3, <1>5 DEF WithInd
  <2>2. I \in Blk
    BY <1>5, FlType
  <2>3. n1 = PutBlocks(m1, m1.free \cup {I}, m1.blk)
    <3>1. m1 = [free |-> m1.free, dsize |-> m1.dsize, dptr |-> m1.dptr, blk |-> m1.blk]
      BY <1>1, Parts
    <3>2. \A c : [m1 EXCEPT !.free = c]
                   = [free |-> c, dsize |-> m1.dsize, dptr |-> m1.dptr, blk |-> m1.blk]
      BY <3>1
    <3>3. PutBlocks(m1, m1.free \cup {I}, m1.blk)
              = [free |-> m1.free \cup {I}, dsize |-> m1.dsize, dptr |-> m1.dptr, blk |-> m1.blk]
      BY <3>1, TwoParts DEF PutBlocks
    <3> QED BY <3>2, <3>3
  <2> HIDE DEF n1, I
  <2>4. m1.free \cup {I} \in SUBSET Blk /\ m1.blk \in [Blk -> BlockType]
    BY <1>1, <2>2, Parts
  <2>5. /\ n1 \in DiskType /\ n1.free = m1.free \cup {I} /\ n1.dsize = m1.dsize
        /\ n1.dptr = m1.dptr /\ n1.blk = m1.blk
        /\ \A j \in File : Fl(n1, j) = Fl(m1, j)
    <3>1. PICK a \in SUBSET Blk : a = m1.free \cup {I}
      BY <2>4
    <3>2. PICK x \in [Blk -> BlockType] : x = m1.blk
      BY <2>4
    <3>3. n1 = PutBlocks(m1, a, x) /\ m1 \in DiskType /\ \A b \in Blk : x[b].file = m1.blk[b].file
      BY <1>1, <2>3, <3>1, <3>2
    <3>4. /\ PutBlocks(m1, a, x) \in DiskType
          /\ PutBlocks(m1, a, x).free = a /\ PutBlocks(m1, a, x).dsize = m1.dsize
          /\ PutBlocks(m1, a, x).dptr = m1.dptr /\ PutBlocks(m1, a, x).blk = x
          /\ \A j \in File : Fl(PutBlocks(m1, a, x), j) = Fl(m1, j)
      BY <3>3, PutBlocksIs
    <3> QED BY <3>1, <3>2, <3>3, <3>4
  <2>6. /\ h \in FileType /\ h.name = g.name /\ h.indirect = 0 /\ h.direct = g.direct
    BY <1>2, WithIndIs
  <2> HIDE DEF h
  <2>7. DirApart(n1) /\ DirBlock(n1, i) # 0
    BY <1>1, <2>5 DEF DirApart, DirBlock
  <2> DEFINE n == SetFile(n1, i, h)
  <2>8. /\ n \in DiskType /\ n.free = n1.free /\ n.dsize = n1.dsize /\ n.dptr = n1.dptr
        /\ \A b \in Blk : n.blk[b].val = n1.blk[b].val /\ n.blk[b].ptr = n1.blk[b].ptr
        /\ \A j \in File : Fl(n, j) = IF j = i THEN h ELSE Fl(n1, j)
    BY <2>5, <2>6, <2>7, SetFileAt
  <2> HIDE DEF n
  <2>9. n.free = m.free \cup Lost(m, i, cut) \cup ({Fl(m, i).indirect} \ {0})
    BY <1>1, <1>5, <2>5, <2>8 DEF I
  <2>10. \A b \in Blk : n.blk[b].val = m.blk[b].val /\ (b # Fl(m, i).indirect => n.blk[b].ptr = m.blk[b].ptr)
    BY <1>1, <2>5, <2>8
  <2>11. /\ n \in DiskType /\ n.dsize = m.dsize /\ n.dptr = m.dptr
         /\ \A j \in File : j # i => Fl(n, j) = Fl(m, j)
         /\ Fl(n, i) = h
    BY <1>1, <2>5, <2>8
  <2>12. Cuts(m, n, i, s) /\ Fl(n, i).name = Fl(m, i).name
    BY <1>2, <2>6, <2>9, <2>10, <2>11 DEF Cuts, cut
  <2> QED BY <2>1, <2>12 DEF n
<1> QED BY <1>4, <1>5

\* The size and the name of the file are set after it.
LEMMA CutsThen ==
    ASSUME NEW m \in DiskType, DirApart(m), NEW n, NEW i \in File, NEW s, Cuts(m, n, i, s),
           DirBlock(m, i) # 0, NEW f \in FileType, f.direct = Fl(n, i).direct,
           f.indirect = Fl(n, i).indirect
    PROVE /\ Cuts(m, SetFile(n, i, f), i, s)
          /\ Fl(SetFile(n, i, f), i) = f
<1>1. n \in DiskType /\ n.dptr = m.dptr
  BY DEF Cuts
<1>2. DirApart(n) /\ DirBlock(n, i) # 0
  BY <1>1 DEF DirApart, DirBlock
<1> DEFINE o == SetFile(n, i, f)
<1>3. /\ o \in DiskType /\ o.free = n.free /\ o.dsize = n.dsize /\ o.dptr = n.dptr
      /\ \A b \in Blk : o.blk[b].val = n.blk[b].val /\ o.blk[b].ptr = n.blk[b].ptr
      /\ \A j \in File : Fl(o, j) = IF j = i THEN f ELSE Fl(n, j)
  BY <1>1, <1>2, SetFileAt
<1> HIDE DEF o
<1>4. Cuts(m, o, i, s)
  BY <1>3 DEF Cuts
<1> QED BY <1>3, <1>4 DEF o

LEMMA CutsPtr ==
    ASSUME NEW m \in DiskType, Apart(m), NEW n, NEW i \in File, NEW s, Cuts(m, n, i, s)
    PROVE /\ \A j \in File, k \in Index : j # i => Ptr(n, j, k) = Ptr(m, j, k)
          /\ \A k \in Index : Ptr(n, i, k) =
                 IF k <= NDIRECT /\ k \notin Cut(m, i, s) THEN Ptr(m, i, k) ELSE 0
          /\ \A j \in File : j # i => Contents(n, j) = Contents(m, j)
<1>1. n \in DiskType
  BY DEF Cuts
<1>2. ASSUME NEW j \in File, NEW k \in Index, j # i PROVE Ptr(n, j, k) = Ptr(m, j, k)
  <2>1. Fl(n, j) = Fl(m, j)
    BY <1>2 DEF Cuts
  <2>2. CASE k <= NDIRECT
    BY <1>1, <2>1, <2>2, PtrType
  <2>3. CASE k > NDIRECT /\ Fl(m, j).indirect = 0
    BY <1>1, <2>1, <2>3, PtrType
  <2>4. CASE k > NDIRECT /\ Fl(m, j).indirect # 0
    <3>1. Fl(m, j).indirect \in Blk
      BY <2>4, FlType
    <3>2. Fl(m, j).indirect # Fl(m, i).indirect
      BY <1>2, <2>4 DEF Apart
    <3>3. n.blk[Fl(m, j).indirect].ptr = m.blk[Fl(m, j).indirect].ptr
      BY <3>1, <3>2 DEF Cuts
    <3> QED BY <1>1, <2>1, <2>4, <3>3, PtrType
  <2> QED BY <2>2, <2>3, <2>4, Numbers
<1>3. ASSUME NEW k \in Index
      PROVE Ptr(n, i, k) = IF k <= NDIRECT /\ k \notin Cut(m, i, s) THEN Ptr(m, i, k) ELSE 0
  <2>1. CASE k <= NDIRECT
    <3>1. k \in 1 .. NDIRECT
      BY <2>1, Numbers
    <3>2. Fl(n, i).direct[k] = IF k \in Cut(m, i, s) THEN 0 ELSE Fl(m, i).direct[k]
      BY <3>1 DEF Cuts
    <3>3. Ptr(n, i, k) = Fl(n, i).direct[k] /\ Ptr(m, i, k) = Fl(m, i).direct[k]
      BY <1>1, <2>1, PtrType
    <3> QED BY <2>1, <3>2, <3>3
  <2>2. CASE k > NDIRECT
    <3>1. Fl(n, i).indirect = 0 /\ ~(k <= NDIRECT)
      BY <2>2, Numbers DEF Cuts
    <3>2. Ptr(n, i, k) = 0
      BY <1>1, <2>2, <3>1, PtrType
    <3> QED BY <3>1, <3>2
  <2> QED BY <2>1, <2>2, Numbers
<1>4. ASSUME NEW j \in File, j # i PROVE Contents(n, j) = Contents(m, j)
  <2>1. Fl(n, j) = Fl(m, j)
    BY <1>4 DEF Cuts
  <2>2. \A k \in Index : Ptr(m, j, k) # 0 => n.blk[Ptr(m, j, k)].val = m.blk[Ptr(m, j, k)].val
    BY PtrType DEF Cuts
  <2> QED BY <1>1, <1>2, <1>4, <2>1, <2>2, SameContents
<1> QED BY <1>2, <1>3, <1>4

\* No block is held and free, and none is lost.
LEMMA CutsOwned ==
    ASSUME NEW m \in DiskType, Exclusive(m), NEW n, NEW i \in File, NEW s \in 0 .. NDIRECT,
           Cuts(m, n, i, s)
    PROVE /\ Exclusive(n)
          /\ Whole(m) => Blk \ n.free \subseteq Used(n)
<1> DEFINE I == Fl(m, i).indirect
           cut == Cut(m, i, s)
<1>1. Apart(m) /\ (\A b \in m.free : ~Owned(m, b)) /\ n \in DiskType
  BY ExclusiveApart DEF Cuts
<1>2. /\ \A j \in File, k \in Index : j # i => Ptr(n, j, k) = Ptr(m, j, k)
      /\ \A k \in Index : Ptr(n, i, k) = IF k <= NDIRECT /\ k \notin cut THEN Ptr(m, i, k) ELSE 0
  BY <1>1, CutsPtr
<1>3. /\ n.dptr = m.dptr /\ Fl(n, i).indirect = 0
      /\ \A j \in File : j # i => Fl(n, j).indirect = Fl(m, j).indirect
  BY DEF Cuts
<1>4. /\ \A j \in File, k \in Index : Ptr(n, j, k) # 0 => Ptr(n, j, k) = Ptr(m, j, k)
      /\ \A j \in File : Fl(n, j).indirect # 0 => Fl(n, j).indirect = Fl(m, j).indirect
  BY <1>2, <1>3
<1>5. Apart(n)
  BY <1>1, <1>3, <1>4 DEF Apart
<1>6. \A b : Owned(n, b) => Owned(m, b)
  BY <1>3, <1>4 DEF Owned
<1>7. n.free = m.free \cup Lost(m, i, cut) \cup ({I} \ {0})
  BY DEF Cuts
<1>8. ASSUME I # 0, Owned(n, I) PROVE FALSE
  <2>1. \A d \in Dirs : m.dptr[d] # I
    BY <1>1, <1>8 DEF Apart
  <2>2. \A j \in File : Fl(n, j).indirect # I
    BY <1>1, <1>3, <1>8 DEF Apart
  <2>3. \A j \in File, k \in Index : Ptr(m, j, k) # I
    BY <1>1, <1>8 DEF Apart
  <2> QED BY <1>3, <1>4, <1>8, <2>1, <2>2, <2>3 DEF Owned
<1>9. ASSUME NEW k \in cut, Ptr(m, i, k) # 0, Owned(n, Ptr(m, i, k)) PROVE FALSE
  <2>1. k \in Index
    BY DEF Cut
  <2>2. \A d \in Dirs : m.dptr[d] # Ptr(m, i, k)
    BY <1>1, <1>9, <2>1 DEF Apart
  <2>3. \A j \in File : Fl(m, j).indirect # Ptr(m, i, k)
    BY <1>1, <1>9, <2>1 DEF Apart
  <2>4. PICK j \in File, l \in Index : Ptr(n, j, l) = Ptr(m, i, k)
    BY <1>3, <1>4, <1>9, <2>2, <2>3 DEF Owned
  <2>5. Ptr(m, j, l) = Ptr(m, i, k) /\ Ptr(n, j, l) # 0
    BY <1>4, <1>9, <2>4
  <2>6. j = i /\ l = k
    BY <1>1, <1>9, <2>1, <2>5 DEF Apart
  <2> QED BY <1>2, <1>9, <2>1, <2>5, <2>6
<1> HIDE DEF I, cut
<1>10. \A b \in n.free : ~Owned(n, b)
  <2> SUFFICES ASSUME NEW b \in n.free, Owned(n, b) PROVE FALSE
    OBVIOUS
  <2>1. b \notin m.free
    BY <1>1, <1>6
  <2>2. b \in Lost(m, i, cut) \/ (b = I /\ I # 0)
    BY <1>7, <2>1
  <2> QED BY <1>8, <1>9, <2>2 DEF Lost
<1>11. ASSUME Whole(m) PROVE Blk \ n.free \subseteq Used(n)
  <2> SUFFICES ASSUME NEW b \in Blk, b \notin n.free PROVE Owned(n, b)
    BY UsedOwned
  <2>1. b \notin m.free /\ b \notin Lost(m, i, cut) /\ b # I
    BY <1>7, Numbers
  <2>2. Owned(m, b)
    BY <1>11, <2>1, UsedOwned DEF Whole
  <2>3. b # 0
    BY Numbers
  <2>4. CASE \E d \in Dirs : m.dptr[d] = b
    BY <1>3, <2>3, <2>4 DEF Owned
  <2>5. CASE \E j \in File : Fl(m, j).indirect = b
    BY <1>3, <2>1, <2>3, <2>5 DEF Owned, I
  <2>6. CASE \E j \in File, k \in Index : Ptr(m, j, k) = b
    <3>1. PICK j \in File, k \in Index : Ptr(m, j, k) = b
      BY <2>6
    <3>2. CASE j # i
      BY <1>2, <2>3, <3>1, <3>2 DEF Owned
    <3>3. CASE j = i
      <4>1. k \notin cut
        BY <2>1, <2>3, <3>1, <3>3 DEF Lost
      <4>2. ~(k > Fl(m, i).size)
        BY <1>11, <2>3, <3>1, <3>3 DEF Whole
      <4>3. k <= s
        <5>1. k \in Nat /\ s \in Nat /\ Fl(m, i).size \in Nat
          BY FlType, Numbers
        <5> QED BY <4>1, <4>2, <5>1 DEF cut, Cut
      <4>4. k <= NDIRECT
        BY <4>3, Numbers
      <4>5. Ptr(n, i, k) = b
        BY <1>2, <3>1, <3>3, <4>1, <4>4
      <4> QED BY <2>3, <4>5 DEF Owned
    <3> QED BY <3>2, <3>3
  <2> QED BY <2>2, <2>4, <2>5, <2>6 DEF Owned
<1> QED BY <1>5, <1>10, <1>11, ExclusiveApart

\* The file is left with s blocks, and with its name or none.
Drops(m, n, i, s) ==
    Cuts(m, n, i, s) /\ Fl(n, i).size = s /\ Fl(n, i).name \in {NoName, Fl(m, i).name}

LEMMA DropsSound ==
    ASSUME NEW m \in DiskType, Sound(m), NEW n, NEW i \in File, NEW s \in 0 .. NDIRECT,
           Drops(m, n, i, s)
    PROVE /\ Sound(n) /\ (Whole(m) => Whole(n))
          /\ \A j \in File : Fl(n, j).name # NoName => Fl(n, j).name = Fl(m, j).name
<1> DEFINE cut == Cut(m, i, s)
<1>1. /\ Exclusive(m) /\ UniqueNames(m) /\ Apart(m) /\ Cuts(m, n, i, s)
      /\ Fl(n, i).size = s /\ Fl(n, i).name \in {NoName, Fl(m, i).name}
  BY ExclusiveApart DEF Sound, Drops
<1>2. Exclusive(n) /\ (Whole(m) => Blk \ n.free \subseteq Used(n))
  BY <1>1, CutsOwned
<1>3. /\ n.dptr = m.dptr /\ n.dsize = m.dsize
      /\ \A j \in File : j # i => Fl(n, j) = Fl(m, j)
  BY <1>1 DEF Cuts
<1>4. /\ \A j \in File, k \in Index : j # i => Ptr(n, j, k) = Ptr(m, j, k)
      /\ \A k \in Index : Ptr(n, i, k) = IF k <= NDIRECT /\ k \notin cut THEN Ptr(m, i, k) ELSE 0
  BY <1>1, CutsPtr
<1>5. \A j \in File : Fl(n, j).name # NoName => Fl(n, j).name = Fl(m, j).name
  BY <1>1, <1>3
<1>6. UniqueNames(n)
  BY <1>1, <1>5 DEF UniqueNames
<1>7. ASSUME Whole(m), NEW j \in File, NEW k \in Index, k > Fl(n, j).size PROVE Ptr(n, j, k) = 0
  <2>1. CASE j # i
    BY <1>3, <1>4, <1>7, <2>1 DEF Whole
  <2>2. CASE j = i
    <3>1. k > s /\ k \in Nat /\ s \in Nat /\ Fl(m, i).size \in Nat
      BY <1>1, <1>7, <2>2, FlType, Numbers
    <3>2. CASE k \in cut
      BY <1>4, <2>2, <3>2
    <3>3. CASE k \notin cut
      <4>1. k > Fl(m, i).size
        BY <3>1, <3>3 DEF Cut
      <4>2. Ptr(m, i, k) = 0
        BY <1>7, <4>1 DEF Whole
      <4> QED BY <1>4, <2>2, <4>2
    <3> QED BY <3>2, <3>3
  <2> QED BY <2>1, <2>2
<1> QED BY <1>1, <1>2, <1>3, <1>5, <1>6, <1>7 DEF Sound, Whole

\* What was behind the cache still is, the directory's block of the file excepted.
LEMMA DropsBehind ==
    ASSUME NEW m \in DiskType, Sound(m), NEW n, NEW i \in File, NEW s, Drops(m, n, i, s),
           NEW S \in SUBSET File, i \notin S, NEW u \in Units, u # DirBlock(m, i), NEW v,
           FitsAs(u, v, m, {}, S)
    PROVE FitsAs(u, v, n, {}, S)
<1>0. Apart(m) /\ Cuts(m, n, i, s)
  BY ExclusiveApart DEF Sound, Drops
<1>1. /\ n.dptr = m.dptr /\ Fl(n, i).indirect = 0
      /\ \A j \in File : j # i => Fl(n, j) = Fl(m, j)
      /\ \A b \in Blk : b # Fl(m, i).indirect => n.blk[b].ptr = m.blk[b].ptr
  BY <1>0 DEF Cuts
<1>2. /\ \A j \in File, k \in Index : j # i => Ptr(n, j, k) = Ptr(m, j, k)
      /\ \A j \in File : j # i => Contents(n, j) = Contents(m, j)
  BY <1>0, CutsPtr
<1>3. \A j \in File : DirBlock(n, j) = DirBlock(m, j)
  BY <1>1 DEF DirBlock
<1>4. Behind(u, v, m, {}) /\ \A j \in S : Kept(u, v, m, j)
  BY DEF FitsAs
<1>5. u = Super => BehindSuper(v, n, {})
  BY <1>1, <1>4 DEF Behind, BehindSuper
<1>6. u \in Blk => BehindFiles(u, v, n, {})
  BY <1>1, <1>3, <1>4 DEF Behind, BehindFiles
<1>7. ASSUME u \in Blk PROVE BehindPtrs(u, v, n, {})
  <2> SUFFICES ASSUME NEW j \in File, Fl(n, j).indirect = u, NEW k \in 1 .. NINDIRECT
               PROVE OldPtr(v.ptr[k], n.blk[u].ptr[k], {})
    BY DEF BehindPtrs
  <2>1. u # 0 /\ j # i
    BY <1>1, <1>7, Numbers
  <2>2. Fl(m, j).indirect = u
    BY <1>1, <2>1
  <2>3. Fl(m, i).indirect # u
    BY <1>0, <2>1, <2>2 DEF Apart
  <2>4. n.blk[u].ptr = m.blk[u].ptr
    BY <1>1, <1>7, <2>3
  <2>5. BehindPtrs(u, v, m, {})
    BY <1>4, <1>7 DEF Behind
  <2> QED BY <2>2, <2>4, <2>5 DEF BehindPtrs
<1>8. ASSUME NEW j \in S PROVE Kept(u, v, n, j)
  <2>1. j \in File /\ j # i /\ Kept(u, v, m, j)
    BY <1>4
  <2>2. /\ Fl(n, j) = Fl(m, j) /\ DirBlock(n, j) = DirBlock(m, j)
        /\ Contents(n, j) = Contents(m, j) /\ \A k \in Index : Ptr(n, j, k) = Ptr(m, j, k)
    BY <1>1, <1>2, <1>3, <2>1
  <2>3. \A k : Val(n, j, k) = Val(m, j, k)
    BY <2>2 DEF Val
  <2>4. \A g : KeptFile(g, m, j) <=> KeptFile(g, n, j)
    BY <2>2, <2>3 DEF KeptFile
  <2> QED BY <1>1, <2>1, <2>2, <2>3, <2>4 DEF Kept
<1> QED BY <1>5, <1>6, <1>7, <1>8 DEF FitsAs, Behind

\* A disk that has the directory's block of the file as it now is.
Has(e, d, n, u) ==
    /\ Held(e, u) = Held(n, u)
    /\ \A x \in Units : x # u => Held(e, x) = Held(d, x)

LEMMA DropsFits ==
    ASSUME NEW m \in DiskType, Sound(m), NEW n, NEW i \in File, NEW s \in 0 .. NDIRECT,
           Drops(m, n, i, s), DirBlock(m, i) # 0,
           NEW d, NEW S \in SUBSET File, Fits(d, m, <<>>, S), \A j \in S : Fl(m, j).name # NoName,
           NEW e, Has(e, d, n, DirBlock(m, i))
    PROVE Fits(e, n, <<>>, S \ {i})
<1> DEFINE T == S \ {i}
           B == DirBlock(m, i)
<1>1. DOMAIN <<>> = {}
  OBVIOUS
<1>2. PICK c \in SUBSET DOMAIN <<>> : FitsBy(d, m, <<>>, S, c)
  BY DEF Fits
<1>3. c = {} /\ \A x : Late(<<>>, c, x) = {}
  BY <1>1 DEF Late
<1>4. n \in DiskType /\ m.free \subseteq n.free /\ Sound(n)
  BY DropsSound DEF Drops, Cuts
<1>5. B \in Blk /\ B \in Units
  BY FlType DEF Units
<1>6. \A j \in T : Fl(n, j).name # NoName
  BY DEF Drops, Cuts
<1>7. \A u \in Units : FitsAs(u, Held(d, u), m, {}, T)
  BY <1>2, <1>3 DEF FitsBy, FitsAs
<1>8. ASSUME NEW u \in Units PROVE FitsAs(u, Held(e, u), n, {}, T)
  <2>1. CASE u = B
    <3>1. FitsAs(u, Held(n, u), n, {}, T)
      BY <1>4, <1>6, OwnFits
    <3> QED BY <2>1, <3>1 DEF Has
  <2>2. CASE u # B
    <3>1. FitsAs(u, Held(d, u), n, {}, T)
      BY <1>7, <2>2, DropsBehind
    <3> QED BY <2>2, <3>1 DEF Has
  <2> QED BY <2>1, <2>2
<1>9. e.free = d.free
  <2>1. Held(e, Bitmap) = Held(d, Bitmap)
    BY <1>5, Numbers DEF Has, Units
  <2> QED BY <2>1, HeldIs
<1>10. Freed0(e.free, n, <<>>, {}, 0)
  <2>1. Freed0(d.free, m, <<>>, {}, 0)
    BY <1>2, <1>3 DEF FitsBy
  <2> QED BY <1>1, <1>4, <1>9, <2>1 DEF Freed0
<1>11. FitsBy(e, n, <<>>, T, {})
  BY <1>1, <1>3, <1>8, <1>10 DEF FitsBy, Clears
<1> QED BY <1>11 DEF Fits

\* A request that frees: the cache is mem with the blocks of i dropped, and one block
\* is to be written.
LEMMA FreeEnds ==
    ASSUME Inv, Idle, NEW r, Starts(r), NEW i \in File, NEW s \in 0 .. NDIRECT,
           Drops(mem, r.m, i, s), DirBlock(mem, i) # 0,
           r.q = <<Block(r.m, DirBlock(mem, i))>>,
           synced' = synced \ {i}, UNCHANGED <<disk, closing, crashed>>
    PROVE Inv'
<1> DEFINE B == DirBlock(mem, i)
           x == Block(r.m, B)
           T == synced \ {i}
<1>1. /\ Settled(disk, mem, <<>>) /\ Fits(disk, mem, <<>>, synced)
      /\ mem \in DiskType /\ disk \in DiskType /\ Sound(mem) /\ (~crashed => Whole(mem))
      /\ synced \in SUBSET File /\ closing = {} /\ \A j \in synced : Fl(mem, j).name # NoName
  BY StartIs
<1>2. /\ mem' = r.m /\ queue' = Rest(disk, r.q) /\ disk' = disk /\ closing' = {}
      /\ crashed' = crashed /\ r.q = <<x>> /\ synced' = T
  BY <1>1 DEF Starts
<1>3. B \in Blk /\ B \in Units /\ B # Super
  <2>1. B \in Blk
    BY <1>1, FlType
  <2> QED BY <2>1, Numbers DEF Units
<1> HIDE DEF B
<1>4. /\ r.m \in DiskType /\ r.m.dptr = mem.dptr /\ r.m.dsize = mem.dsize
      /\ \A j \in File : j # i => Fl(r.m, j) = Fl(mem, j)
  BY DEF Drops, Cuts
<1>5. /\ Sound(r.m) /\ (~crashed => Whole(r.m))
      /\ \A j \in File : Fl(r.m, j).name # NoName => Fl(r.m, j).name = Fl(mem, j).name
  BY <1>1, DropsSound
<1>6. x \in WriteType /\ x.unit = B /\ x.to = Held(r.m, B)
  BY <1>3, <1>4, OwnWrite
<1> HIDE DEF x
<1>7. r.q \in Seq(WriteType) /\ Len(r.q) = 1 /\ r.q[1] = x
  BY <1>2, <1>6
<1>8. PICK k : Dropped(disk, r.q, k, queue')
  BY <1>2, <1>7, RestIs
<1>9. queue' \in Seq(WriteType) /\ (\A y \in DOMAIN queue' : queue'[y] = x)
      /\ \/ Len(queue') = 1 /\ queue'[1] = x
         \/ queue' = <<>> /\ Held(disk, B) = Held(r.m, B)
  <2>1. /\ queue' \in Seq(WriteType) /\ k \in 0 .. 1 /\ Len(queue') = 1 - k
        /\ DOMAIN queue' = 1 .. Len(queue')
        /\ \A y \in 1 .. Len(queue') : queue'[y] = r.q[y + k]
        /\ \A y \in 1 .. k : Held(disk, r.q[y].unit) = r.q[y].to
    BY <1>7, <1>8 DEF Dropped
  <2>2. CASE k = 0
    BY <1>7, <2>1, <2>2
  <2>3. CASE k = 1
    <3>1. Len(queue') = 0
      BY <2>1, <2>3
    <3>2. queue' = <<>> /\ DOMAIN queue' = {}
      BY <2>1, <3>1
    <3>3. 1 \in 1 .. k
      BY <2>3
    <3> QED BY <1>6, <1>7, <2>1, <3>2, <3>3
  <2> QED BY <2>1, <2>2, <2>3
<1>10. \A e : Has(e, disk, r.m, B) => Fits(e, r.m, <<>>, T)
  BY <1>1, DropsFits DEF B
<1>11. Fits(disk', mem', queue', synced') \/ Freeing'
  <2>1. CASE queue' = <<>> /\ Held(disk, B) = Held(r.m, B)
    <3>1. Has(disk, disk, r.m, B)
      BY <2>1 DEF Has
    <3>2. Fits(disk, r.m, <<>>, T)
      BY <1>10, <3>1
    <3> QED BY <1>2, <2>1, <3>2
  <2>2. CASE Len(queue') = 1 /\ queue'[1] = x
    <3>1. Sound(disk)
      <4>1. <<>> \in Seq(WriteType)
        OBVIOUS
      <4> QED BY <1>1, <4>1, FitsSound
    <3>2. \A j \in T : DirOf(j) <= disk.dsize /\ Contents(disk, j) = Contents(r.m, j)
      <4>1. <<>> \in Seq(WriteType)
        OBVIOUS
      <4>2. \A j \in synced : DirOf(j) <= disk.dsize /\ Contents(disk, j) = Contents(mem, j)
        BY <1>1, <4>1, FitsKept
      <4>3. Apart(mem) /\ Cuts(mem, r.m, i, s)
        BY <1>1, ExclusiveApart DEF Sound, Drops
      <4>4. \A j \in File : j # i => Contents(r.m, j) = Contents(mem, j)
        BY <1>1, <4>3, CutsPtr
      <4> QED BY <1>1, <4>2, <4>4
    <3>3. Fits(Written(disk, x), r.m, <<>>, T)
      <4>1. \A u \in Units : Held(Written(disk, x), u) = IF u = B THEN x.to ELSE Held(disk, u)
        BY <1>1, <1>6, WrittenIs
      <4>2. Has(Written(disk, x), disk, r.m, B)
        BY <1>3, <1>6, <4>1 DEF Has
      <4> QED BY <1>10, <4>2
    <3>4. Fits(Written(disk', queue'[1]), mem', <<>>, synced')
      BY <1>2, <2>2, <3>3
    <3>5. FlushedSurvives'
      BY <1>2, <3>2 DEF FlushedSurvives
    <3> QED BY <1>2, <2>2, <3>1, <3>4, <3>5 DEF Freeing
  <2> QED BY <1>9, <2>1, <2>2
<1>12. Settled(disk', mem', queue')
  <2>1. \A y \in DOMAIN queue' : queue'[y].unit # Super
    BY <1>3, <1>6, <1>9
  <2>2. \A j \in File : Fl(mem, j).name # NoName => OnDisk(disk, mem, j)
    <3>1. DOMAIN <<>> = {}
      OBVIOUS
    <3> QED BY <1>1, <3>1 DEF Settled
  <2>3. \A j \in File : Fl(r.m, j).name # NoName => OnDisk(disk, r.m, j)
    BY <1>4, <1>5, <2>2 DEF OnDisk
  <2> QED BY <1>2, <2>1, <2>3 DEF Settled
<1>13. \A j \in synced' : Fl(mem', j).name # NoName
  BY <1>1, <1>2, <1>4
<1>14. Typed'
  BY <1>1, <1>2, <1>4, <1>9 DEF Typed, Inv
<1> QED BY <1>2, <1>5, <1>11, <1>12, <1>13, <1>14 DEF Inv

LEMMA ShrinkInv ==
    ASSUME Inv, NEW i \in File, NEW n \in Extent, FileSetSize(i, n), ~Covers(mem, i, n)
    PROVE Inv'
<1> DEFINE m1 == Truncated(mem, i, n)
           f  == WithSize(Fl(m1, i), n)
           m2 == SetFile(m1, i, f)
           r  == Flush(With(Start, m2), DirBlock(m2, i))
<1>1. /\ Idle /\ Starts(Resized(Start, i, n)) /\ synced' = synced \ {i}
      /\ UNCHANGED <<disk, closing, crashed>> /\ Fl(mem, i).name # NoName
      /\ n < Fl(mem, i).size
  BY DEF FileSetSize, Named, Touched, Covers
<1>2. /\ Start \in ReqType /\ Start.m = mem /\ Start.q = <<>> /\ mem \in DiskType /\ Sound(mem)
  BY <1>1, StartIs
<1>3. DirBlock(mem, i) # 0 /\ Fl(mem, i).size \in Nat /\ n \in Nat
  BY <1>1, <1>2, NamedBlock, FlType, Numbers DEF Extent
<1>4. n \in 0 .. NDIRECT
  <2>1. ~(n >= Fl(mem, i).size) /\ PartialShrink = FALSE
    BY <1>1, <1>3 DEF Inv
  <2>2. n <= NDIRECT
    BY <2>1 DEF FileSetSize
  <2> QED BY <1>3, <2>2, Numbers
<1>5. DirApart(mem)
  BY <1>2, ExclusiveApart DEF Sound, Apart, DirApart
<1>6. Cuts(mem, m1, i, n) /\ Fl(m1, i).name = Fl(mem, i).name
  BY <1>2, <1>3, <1>4, <1>5, TruncIs
<1>7. Starts(r)
  <2>1. Resized(Start, i, n) = r
    BY <1>1, <1>2 DEF Resized, With, WithSize
  <2> QED BY <1>1, <2>1
<1> HIDE DEF m1
<1>8. /\ f \in FileType /\ f.size = n /\ f.name = Fl(mem, i).name
      /\ f.direct = Fl(m1, i).direct /\ f.indirect = Fl(m1, i).indirect
  <2>1. Fl(m1, i) \in FileType
    BY <1>6, FlType DEF Cuts
  <2> QED BY <1>6, <2>1, WithSizeIs DEF Extent
<1> HIDE DEF f
<1>9. Cuts(mem, m2, i, n) /\ Fl(m2, i) = f
  BY <1>2, <1>3, <1>5, <1>6, <1>8, CutsThen
<1> HIDE DEF m2
<1>10. Drops(mem, m2, i, n) /\ DirBlock(m2, i) = DirBlock(mem, i) /\ m2 \in DiskType
  BY <1>8, <1>9 DEF Drops, Cuts, DirBlock
<1>11. r.m = m2 /\ r.q = <<Block(m2, DirBlock(mem, i))>>
  <2>1. With(Start, m2) \in ReqType /\ With(Start, m2).m = m2 /\ With(Start, m2).q = <<>>
    BY <1>2, <1>10, WithIs
  <2>2. DirBlock(mem, i) \in Units \cup {0}
    BY <1>2, FlType DEF Units
  <2>3. r.m = m2 /\ r.q = <<>> \o <<Block(m2, DirBlock(mem, i))>>
    BY ZenonT(30), <1>10, <2>1, <2>2, FlushIs
  <2> QED BY <2>3
<1> HIDE DEF r
<1>12. Drops(mem, r.m, i, n) /\ r.q = <<Block(r.m, DirBlock(mem, i))>>
  BY <1>10, <1>11
<1> QED BY <1>1, <1>3, <1>4, <1>7, <1>12, FreeEnds

LEMMA SizeInv == ASSUME Inv, NEW i \in File, NEW n \in Extent, FileSetSize(i, n) PROVE Inv'
BY GrowInv, ShrinkInv

LEMMA FirstIn == ASSUME NEW S \in SUBSET File, S # {} PROVE FirstOf(S) \in S
<1> DEFINE D == {DirOf(i) : i \in S}
<1>1. D \in SUBSET Nat /\ D # {}
  BY Files DEF Dirs
<1>2. PICK d \in D : \A x \in D : d <= x
  <2> HIDE DEF D
  <2> QED BY <1>1, Least
<1> DEFINE E == {EntryOf(i) : i \in {i \in S : DirOf(i) = d}}
<1>3. E \in SUBSET Nat /\ E # {}
  BY Files, <1>2
<1>4. PICK e \in E : \A x \in E : e <= x
  <2> HIDE DEF E
  <2> QED BY <1>3, Least
<1>5. PICK i \in S : DirOf(i) = d /\ EntryOf(i) = e
  BY <1>4
<1>6. ASSUME NEW j \in S
      PROVE DirOf(i) < DirOf(j) \/ (DirOf(i) = DirOf(j) /\ EntryOf(i) <= EntryOf(j))
  <2>1. d <= DirOf(j) /\ d \in Nat /\ DirOf(j) \in Nat
    BY <1>1, <1>2
  <2>2. DirOf(j) = d => e <= EntryOf(j)
    BY <1>4
  <2> QED BY <1>5, <2>1, <2>2
<1> QED BY <1>6 DEF FirstOf

LEMMA RemoveInv == ASSUME Inv, NEW name \in Name, FileRemove(name) PROVE Inv'
<1> DEFINE i  == FirstOf(Matching(Start, name))
           m1 == Truncated(mem, i, 0)
           f  == [Fl(m1, i) EXCEPT !.name = NoName, !.size = 0]
           m2 == SetFile(m1, i, f)
           r  == Flush(With(Start, m2), DirBlock(m2, i))
<1>1. Idle /\ Matching(Start, name) # {}
  <2> DEFINE s == Scan(Start, name)
  <2>1. Idle /\ Matching(s, name) # {}
    BY DEF FileRemove
  <2>2. Building(disk, Start, synced, ~crashed) /\ Start.m = mem /\ mem \in DiskType
        /\ synced \in SUBSET File /\ Sound(mem)
    BY <2>1, StartIs
  <2>3. Follows(mem, s.m)
    BY <2>2, ScanStep
  <2> HIDE DEF s
  <2>4. PICK j \in Matching(s, name) : TRUE
    BY <2>1
  <2>5. j \in File /\ Fl(s.m, j).name = name /\ name # NoName
    BY <2>4, MatchingIs, Numbers
  <2>6. Fl(mem, j).name = name
    BY <2>3, <2>5, FollowsIs
  <2>7. DirBlock(mem, j) # 0 /\ DirOf(j) <= mem.dsize
    BY <2>2, <2>5, <2>6, DirBlockBound
  <2>8. j \in Matching(Start, name)
    BY <2>2, <2>5, <2>6, <2>7 DEF Matching, DirBlock
  <2> QED BY <2>1, <2>8
<1>0. Scan(Start, name) = Start
  BY <1>1 DEF Scan
<1>2. /\ Start \in ReqType /\ Start.m = mem /\ Start.q = <<>> /\ mem \in DiskType /\ Sound(mem)
  BY <1>1, StartIs
<1>3. Starts(r) /\ synced' = synced \ {i} /\ UNCHANGED <<disk, closing, crashed>>
  BY <1>0, <1>2 DEF FileRemove, Touched, With
<1>4. i \in File /\ Fl(mem, i).name = name
  <2>1. Matching(Start, name) \in SUBSET File
    BY DEF Matching
  <2>2. i \in Matching(Start, name)
    BY <1>1, <2>1, FirstIn
  <2> HIDE DEF i
  <2> QED BY <1>2, <2>2, MatchingIs
<1> HIDE DEF i
<1>5. Fl(mem, i).name # NoName /\ DirBlock(mem, i) # 0 /\ 0 \in 0 .. NDIRECT
  <2>1. name # NoName
    BY Numbers
  <2> QED BY <1>2, <1>4, <2>1, NamedBlock, Numbers
<1>6. DirApart(mem)
  BY <1>2, ExclusiveApart DEF Sound, Apart, DirApart
<1>7. Cuts(mem, m1, i, 0)
  BY <1>2, <1>4, <1>5, <1>6, TruncIs
<1> HIDE DEF m1
<1>8. /\ f \in FileType /\ f.size = 0 /\ f.name = NoName
      /\ f.direct = Fl(m1, i).direct /\ f.indirect = Fl(m1, i).indirect
  <2>1. Fl(m1, i) \in FileType
    BY <1>4, <1>7, FlType DEF Cuts
  <2> QED BY <2>1 DEF FileType
<1> HIDE DEF f
<1>9. Cuts(mem, m2, i, 0) /\ Fl(m2, i) = f
  BY <1>2, <1>4, <1>5, <1>6, <1>7, <1>8, CutsThen
<1> HIDE DEF m2
<1>10. Drops(mem, m2, i, 0) /\ DirBlock(m2, i) = DirBlock(mem, i) /\ m2 \in DiskType
  BY <1>8, <1>9 DEF Drops, Cuts, DirBlock
<1>11. r.m = m2 /\ r.q = <<Block(m2, DirBlock(mem, i))>>
  <2>1. With(Start, m2) \in ReqType /\ With(Start, m2).m = m2 /\ With(Start, m2).q = <<>>
    BY <1>2, <1>10, WithIs
  <2>2. DirBlock(mem, i) \in Units \cup {0}
    BY <1>2, <1>4, FlType DEF Units
  <2>3. r.m = m2 /\ r.q = <<>> \o <<Block(m2, DirBlock(mem, i))>>
    BY ZenonT(30), <1>10, <2>1, <2>2, FlushIs
  <2> QED BY <2>3
<1> HIDE DEF r
<1>12. Drops(mem, r.m, i, 0) /\ r.q = <<Block(r.m, DirBlock(mem, i))>>
  BY <1>10, <1>11
<1> QED BY <1>1, <1>3, <1>4, <1>5, <1>12, FreeEnds
-----------------------------------------------------------------------------
\* A File is taken for a name.
Alike(m, n) == \A j \in File : /\ Contents(n, j) = Contents(m, j)
                               /\ DirBlock(m, j) # 0 => DirBlock(n, j) = DirBlock(m, j)

LEMMA FollowsAlike == ASSUME NEW m, NEW n, Follows(m, n) PROVE Alike(m, n)
BY FollowsIs DEF Alike

LEMMA AlikeTrans == ASSUME NEW m, NEW n, NEW o, Alike(m, n), Alike(n, o) PROVE Alike(m, o)
BY DEF Alike

\* The directory counts one block more.
LEMMA SizeStep ==
    ASSUME NEW d, NEW r, NEW S \in SUBSET File, NEW w, Building(d, r, S, w),
           r.m.dsize + 1 \in Dirs
    PROVE /\ Building(d, With(r, PutSize(r.m, r.m.dsize + 1)), S, w)
          /\ Alike(r.m, PutSize(r.m, r.m.dsize + 1))
          /\ With(r, PutSize(r.m, r.m.dsize + 1)).m = PutSize(r.m, r.m.dsize + 1)
          /\ PutSize(r.m, r.m.dsize + 1).dsize = r.m.dsize + 1
          /\ PutSize(r.m, r.m.dsize + 1).dptr = r.m.dptr
          /\ With(r, PutSize(r.m, r.m.dsize + 1)) \in ReqType
<1> DEFINE n == PutSize(r.m, r.m.dsize + 1)
<1>1. /\ r \in ReqType /\ r.m \in DiskType /\ Sound(r.m) /\ (w => Whole(r.m))
      /\ \A i \in S : Fl(r.m, i).name # NoName
  BY DEF Building, ReqType
<1>2. r.m.dsize \in Nat /\ r.m.dsize + 1 \in 0 .. NDir
  <2>1. r.m.dsize \in 0 .. NDir
    BY <1>1, Parts
  <2> QED BY <2>1, Numbers DEF Dirs
<1>3. /\ n \in DiskType /\ n.free = r.m.free /\ n.dsize = r.m.dsize + 1
      /\ n.blk = r.m.blk /\ n.dptr = r.m.dptr /\ \A j \in File : Fl(n, j) = Fl(r.m, j)
  BY <1>1, <1>2, PutSizeIs
<1> HIDE DEF n
<1>4. \A j \in File, k \in Index : Ptr(n, j, k) = Ptr(r.m, j, k)
  BY <1>3 DEF Ptr
<1>5. Shape(r.m, n)
  BY <1>3, <1>4 DEF Shape
<1>6. \A j \in File : Contents(n, j) = Contents(r.m, j) /\ DirBlock(n, j) = DirBlock(r.m, j)
  BY <1>3, <1>4 DEF Contents, DirBlock
<1>7. UniqueNames(n)
  BY <1>1, <1>3 DEF Sound, UniqueNames
<1>8. \A e \in Dirs : n.dptr[e] # 0 => e <= n.dsize
  <2> SUFFICES ASSUME NEW e \in Dirs, r.m.dptr[e] # 0 PROVE e <= r.m.dsize + 1
    BY <1>3
  <2>1. e <= r.m.dsize /\ e \in Nat
    BY <1>1 DEF Sound, Dirs
  <2> QED BY <1>2, <2>1
<1>9. w => Tight(n)
  BY <1>1, <1>3, <1>4 DEF Whole, Tight
<1>10. /\ \A i \in File : Fl(r.m, i).name \in {NoName, Fl(n, i).name}
       /\ \A i \in S : Contents(n, i) = Contents(r.m, i)
  BY <1>3, <1>6
<1>11. Building(d, With(r, n), S, w)
  BY <1>3, <1>5, <1>7, <1>8, <1>9, <1>10, ShapeStep
<1>12. With(r, n).m = n /\ With(r, n) \in ReqType
  BY <1>1, <1>3, WithIs
<1> QED BY <1>3, <1>6, <1>11, <1>12 DEF n, Alike

\* dir_alloc_file: there is a File without a name, unless it fails.
Room(r) == Matching(r, NoName) # {} \/ r.m.dsize < NDir

LEMMA NewFileStep ==
    ASSUME NEW d, NEW r, NEW S \in SUBSET File, NEW w, Building(d, r, S, w), Room(r)
    PROVE /\ Building(d, NewFile(r), S, w) /\ Alike(r.m, NewFile(r).m)
          /\ NewFile(r).ok => Matching(NewFile(r), NoName) # {}
<1> DEFINE s == Scan(r, NoName)
<1>1. Building(d, s, S, w) /\ Follows(r.m, s.m)
  BY ScanStep
<1>2. Matching(r, NoName) # {} => s = r
  BY DEF Scan
<1>3. NewFile(r) = IF ~s.ok \/ Matching(s, NoName) # {} THEN s
                   ELSE GetDirBlock([s EXCEPT !.m.dsize = @ + 1], s.m.dsize + 1)
  BY DEF NewFile
<1> HIDE DEF s
<1>4. CASE ~s.ok \/ Matching(s, NoName) # {}
  BY <1>1, <1>3, <1>4, FollowsAlike
<1>5. CASE s.ok /\ Matching(s, NoName) = {}
  <2> DEFINE e == s.m.dsize + 1
             t == With(s, PutSize(s.m, e))
             u == GetDirBlock(t, e)
  <2>1. s \in ReqType /\ s.m \in DiskType /\ Sound(s.m) /\ s.m.dsize \in 0 .. NDir
    <3>1. s \in ReqType /\ s.m \in DiskType /\ Sound(s.m)
      BY <1>1 DEF Building, ReqType
    <3> QED BY <3>1, Parts
  <2>2. s.m.dsize < NDir /\ e \in Dirs
    <3>1. r.m.dsize < NDir /\ s.m.dsize = r.m.dsize
      BY <1>1, <1>2, <1>5, FollowsIs DEF Room
    <3> QED BY <2>1, <3>1, Numbers DEF Dirs
  <2>3. [s EXCEPT !.m.dsize = @ + 1] = t
    BY DEF With, PutSize
  <2>4. NewFile(r) = u
    BY <1>3, <1>5, <2>3
  <2>5. /\ Building(d, t, S, w) /\ Alike(s.m, t.m) /\ t.m.dsize = e /\ t.m.dptr = s.m.dptr
    BY <1>1, <2>2, SizeStep
  <2> HIDE DEF t
  <2>6. /\ Building(d, u, S, w) /\ Follows(t.m, u.m)
        /\ u.ok => u.m.dptr[e] # 0
    <3>1. e <= t.m.dsize
      BY <2>1, <2>5
    <3> HIDE DEF e
    <3> QED BY <2>2, <2>5, <3>1, GetDirBlockStep
  <2> HIDE DEF u
  <2>7. Alike(r.m, u.m)
    BY <1>1, <2>5, <2>6, FollowsAlike, AlikeTrans
  <2>8. ASSUME u.ok PROVE Matching(u, NoName) # {}
    <3> DEFINE j == <<e, 1>>
    <3>1. j \in File /\ DirOf(j) = e /\ EntryOf(j) = 1
      BY <2>2, Numbers DEF File, DirOf, EntryOf, Dirs
    <3>2. s.m.dptr[e] = 0
      BY <2>1, <2>2 DEF Sound, Dirs
    <3> HIDE DEF j
    <3>3. Fl(s.m, j).name = NoName
      BY <3>1, <3>2 DEF Fl, NoFile
    <3>4. Fl(u.m, j).name = NoName
      <4>1. Alike(s.m, u.m)
        BY <2>5, <2>6, FollowsAlike, AlikeTrans
      <4> QED BY <3>1, <3>3, <4>1, ContentsIs DEF Alike
    <3>5. u.m.dsize = e /\ e \in Nat
      BY <2>1, <2>5, <2>6 DEF Follows
    <3>6. j \in Matching(u, NoName)
      BY <2>6, <2>8, <3>1, <3>4, <3>5 DEF Matching
    <3> QED BY <3>6
  <2> QED BY <2>4, <2>6, <2>7, <2>8
<1> QED BY <1>4, <1>5

\* The name is new.
LEMMA NameStep ==
    ASSUME NEW d, NEW r, NEW S \in SUBSET File, NEW w, Building(d, r, S, w),
           NEW i \in File, DirBlock(r.m, i) # 0, Fl(r.m, i).name = NoName,
           NEW name \in Name, \A j \in File : Fl(r.m, j).name # name
    PROVE /\ Building(d, With(r, SetFile(r.m, i, WithName(Fl(r.m, i), name))), S, w)
          /\ SetFile(r.m, i, WithName(Fl(r.m, i), name)) \in DiskType
<1> DEFINE f == WithName(Fl(r.m, i), name)
           n == SetFile(r.m, i, f)
<1>1. /\ r \in ReqType /\ r.m \in DiskType /\ Sound(r.m) /\ UniqueNames(r.m) /\ Apart(r.m)
      /\ (w => Whole(r.m)) /\ \A j \in S : Fl(r.m, j).name # NoName
  BY ExclusiveApart DEF Building, ReqType, Sound
<1>2. /\ f \in FileType /\ f.size = Fl(r.m, i).size /\ f.name = name
      /\ f.direct = Fl(r.m, i).direct /\ f.indirect = Fl(r.m, i).indirect
  BY <1>1, FlType, WithSizeIs
<1> HIDE DEF f
<1>3. /\ n \in DiskType /\ Shape(r.m, n) /\ n.dsize = r.m.dsize
      /\ \A j \in File : Fl(n, j) = IF j = i THEN f ELSE Fl(r.m, j)
      /\ \A j \in File : j # i => Contents(n, j) = Contents(r.m, j)
  BY <1>1, <1>2, SetFileShape
<1> HIDE DEF n
<1>4. UniqueNames(n)
  BY <1>1, <1>2, <1>3 DEF UniqueNames
<1>5. \A e \in Dirs : n.dptr[e] # 0 => e <= n.dsize
  BY <1>1, <1>3 DEF Sound, Shape, Dirs
<1>6. w => Tight(n)
  <2>1. \A j \in File : Fl(n, j).size = Fl(r.m, j).size
    BY <1>2, <1>3
  <2> QED BY <1>1, <1>3, <2>1 DEF Whole, Tight, Shape
<1>7. \A j \in File : Fl(r.m, j).name \in {NoName, Fl(n, j).name}
  BY <1>3
<1>8. \A j \in S : Contents(n, j) = Contents(r.m, j)
  BY <1>1, <1>3
<1>9. Building(d, With(r, n), S, w)
  BY <1>3, <1>4, <1>5, <1>6, <1>7, <1>8, ShapeStep
<1> QED BY <1>3, <1>9 DEF n, f

\* The directory is written after the name, the super block last.
LEMMA CreateFinal ==
    ASSUME NEW d, NEW m, Settled(d, m, <<>>), NEW r, NEW S \in SUBSET File, NEW w,
           Building(d, r, S, w)
    PROVE Final(d, r.m, r.q \o DirFlush(r.m), S, w)
<1>1. /\ r.m \in DiskType /\ r.q \in Seq(WriteType) /\ Sound(r.m) /\ (w => Whole(r.m))
      /\ Fits(d, r.m, r.q, S) /\ \A i \in S : Fl(r.m, i).name # NoName
      /\ \A n \in DOMAIN r.q : r.q[n].unit # Super
  BY DEF Building, ReqType
<1> DEFINE p == DirFlush(r.m)
           q == r.q \o p
<1>2. /\ Own(r.m, p) /\ p \in Seq(WriteType)
      /\ \A n \in DOMAIN p : p[n].to = Held(r.m, p[n].unit)
      /\ Len(p) \in Nat \ {0} /\ p[Len(p)].unit = Super
  BY <1>1, DirFlushIs
<1> HIDE DEF p
<1>3. Fits(d, r.m, q, S)
  BY <1>1, <1>2, FitsAppend
<1>4. /\ q \in Seq(WriteType) /\ Len(q) = Len(r.q) + Len(p) /\ DOMAIN q = 1 .. Len(q)
      /\ \A n \in 1 .. Len(r.q) + Len(p) :
             q[n] = IF n <= Len(r.q) THEN r.q[n] ELSE p[n - Len(r.q)]
  BY <1>1, <1>2, ConcatProperties
<1> HIDE DEF q
<1>5. /\ Len(r.q) \in Nat /\ DOMAIN r.q = 1 .. Len(r.q) /\ DOMAIN p = 1 .. Len(p)
  BY <1>1, <1>2
<1>6. ASSUME NEW n \in DOMAIN q, q[n].unit = Super PROVE q[n].to = Held(r.m, Super)
  <2>1. CASE n <= Len(r.q)
    <3>1. n \in DOMAIN r.q /\ q[n] = r.q[n]
      BY <1>4, <1>5, <2>1
    <3> QED BY <1>1, <1>6, <3>1
  <2>2. CASE ~(n <= Len(r.q))
    <3>1. n - Len(r.q) \in DOMAIN p /\ q[n] = p[n - Len(r.q)]
      BY <1>2, <1>4, <1>5, <2>2
    <3> QED BY <1>2, <1>6, <3>1
  <2> QED BY <2>1, <2>2
<1>7. \E n \in DOMAIN q : q[n].unit = Super
  <2>1. /\ Len(q) \in DOMAIN q /\ ~(Len(q) <= Len(r.q)) /\ Len(q) - Len(r.q) = Len(p)
    BY <1>2, <1>4, <1>5
  <2>2. q[Len(q)] = p[Len(p)]
    BY <1>4, <2>1
  <2> QED BY <1>2, <2>1, <2>2
<1>8. Settled(d, r.m, q)
  BY <1>6, <1>7 DEF Settled
<1> QED BY <1>1, <1>3, <1>4, <1>8 DEF Final, q, p

LEMMA CreateInv == ASSUME Inv, NEW name \in Name, FileCreate(name) PROVE Inv'
<1> DEFINE r0 == Scan(Start, name)
           r1 == NewFile(r0)
           i  == FirstOf(Matching(r1, NoName))
           m2 == SetFile(r1.m, i, WithName(Fl(r1.m, i), name))
           r2 == With(r1, m2)
           r  == [r1 EXCEPT !.m = m2, !.q = @ \o DirFlush(m2)]
<1>0. PICK w : w <=> ~crashed
  OBVIOUS
<1>1. /\ Idle /\ Matching(r0, name) = {} /\ UNCHANGED <<disk, closing, crashed>>
      /\ mem.dsize < NDir \/ Matching(r0, NoName) # {}
      /\ IF r0.ok /\ r1.ok THEN Starts(r) /\ synced' = synced \ {i}
         ELSE Starts(IF r0.ok THEN r1 ELSE r0) /\ synced' = synced
  BY DEF FileCreate, Touched, WithName
<1>2. /\ Building(disk, Start, synced, w) /\ Start.m = mem /\ mem \in DiskType
      /\ synced \in SUBSET File /\ Settled(disk, mem, <<>>)
  BY <1>0, <1>1, StartIs DEF Building
<1>3. Building(disk, r0, synced, w) /\ Follows(mem, r0.m)
  BY <1>2, ScanStep
<1> HIDE DEF r0
<1>4. Room(r0) /\ Alike(mem, r0.m)
  BY <1>1, <1>3, FollowsIs, FollowsAlike DEF Room
<1>5. /\ Building(disk, r1, synced, w) /\ Alike(r0.m, r1.m) /\ Alike(mem, r1.m)
      /\ r1.ok => Matching(r1, NoName) # {}
  BY <1>2, <1>3, <1>4, NewFileStep, AlikeTrans
<1> HIDE DEF r1
<1>6. \A n : Alike(mem, n) => \A j \in File : Fl(n, j).name # NoName =>
          Fl(mem, j).name # NoName /\ DirBlock(n, j) = DirBlock(mem, j)
  BY <1>2, NamedBlock, ContentsIs DEF Alike
<1>7. CASE r0.ok /\ r1.ok
  <2>1. /\ i \in File /\ DirBlock(r1.m, i) # 0 /\ Fl(r1.m, i).name = NoName
    <3>1. Matching(r1, NoName) \in SUBSET File
      BY DEF Matching
    <3>2. i \in Matching(r1, NoName)
      BY <1>5, <1>7, <3>1, FirstIn
    <3> HIDE DEF i
    <3> QED BY <3>2, MatchingIs
  <2>2. Starts(r) /\ synced' = synced \ {i}
    BY <1>1, <1>7
  <2> HIDE DEF i
  <2>3. ASSUME NEW j \in File, Fl(r1.m, j).name = name PROVE FALSE
    <3>1. Fl(r0.m, j).name = name /\ name # NoName
      BY <1>5, <2>3, ContentsIs, Numbers DEF Alike
    <3>2. r0.m \in DiskType /\ Sound(r0.m)
      BY <1>3 DEF Building, ReqType
    <3>3. DirBlock(r0.m, j) # 0 /\ DirOf(j) <= r0.m.dsize
      BY <3>1, <3>2, DirBlockBound
    <3>4. j \in Matching(r0, name)
      BY <3>1, <3>3 DEF Matching, DirBlock
    <3> QED BY <1>1, <3>4
  <2>4. Building(disk, r2, synced, w) /\ m2 \in DiskType
    BY <1>2, <1>5, <2>1, <2>3, NameStep
  <2> HIDE DEF m2
  <2>5. /\ r2.m = m2 /\ r2.q = r1.q /\ r1 \in ReqType
    <3>1. r1 \in ReqType
      BY <1>5 DEF Building
    <3> QED BY <2>4, <3>1, WithIs
  <2>6. r.m = m2 /\ r.q = r1.q \o DirFlush(m2)
    BY <2>5 DEF ReqType
  <2> HIDE DEF r, r2
  <2>7. Final(disk, r2.m, r2.q \o DirFlush(r2.m), synced, w)
    BY <1>2, <2>4, CreateFinal
  <2>8. Final(disk, r.m, r.q, synced, w)
    BY <2>5, <2>6, <2>7
  <2>9. Final(disk, r.m, r.q, synced', ~crashed) /\ synced' \subseteq File
    <3>1. synced' \in SUBSET synced
      BY <2>2
    <3>2. Fits(disk, r.m, r.q, synced')
      BY <1>2, <2>8, <3>1, FitsFewer DEF Final
    <3> QED BY <1>0, <1>2, <2>8, <3>1, <3>2 DEF Final
  <2> QED BY <1>1, <2>2, <2>9, Ends
<1>8. CASE ~(r0.ok /\ r1.ok)
  <2>1. PICK s : s = IF r0.ok THEN r1 ELSE r0
    OBVIOUS
  <2>2. Starts(s) /\ synced' = synced
    BY <1>1, <1>8, <2>1
  <2>3. Building(disk, s, synced, w) /\ Alike(mem, s.m)
    BY <1>3, <1>4, <1>5, <2>1
  <2>4. /\ Building(disk, s, synced', ~crashed) /\ synced' \subseteq synced
        /\ \A j \in File : Fl(s.m, j).name # NoName =>
               Fl(mem, j).name # NoName /\ DirBlock(s.m, j) = DirBlock(mem, j)
    BY <1>0, <1>6, <2>2, <2>3 DEF Building
  <2> QED BY <1>1, <2>2, <2>4, BuildingEnds
<1> QED BY <1>7, <1>8
-----------------------------------------------------------------------------
\* The disk fsformat leaves.
LEMMA EmptyIs ==
    /\ Empty \in DiskType /\ Empty.free = Blk /\ Empty.dsize = 0
    /\ \A d \in Dirs : Empty.dptr[d] = 0
    /\ \A i \in File : Fl(Empty, i) = NoFile
    /\ \A i \in File, k \in Index : Ptr(Empty, i, k) = 0
    /\ Sound(Empty) /\ Whole(Empty)
<1> DEFINE p == [d \in 1 .. NDir |-> 0]
           f == [b \in Blk |-> Cleared]
<1>1. /\ p \in [Dirs -> {0} \cup Blk] /\ f \in [Blk -> BlockType] /\ 0 \in 0 .. NDir
      /\ Blk \in SUBSET Blk /\ \A d \in Dirs : p[d] = 0
  BY ClearedType, Numbers DEF Dirs
<1>2. Empty = [free |-> Blk, dsize |-> 0, dptr |-> p, blk |-> f]
  BY DEF Empty
<1> HIDE DEF p, f
<1>3. Empty \in DiskType /\ Empty.free = Blk /\ Empty.dsize = 0 /\ Empty.dptr = p
  BY <1>1, <1>2, MakeDisk
<1>4. \A d \in Dirs : Empty.dptr[d] = 0
  BY <1>1, <1>3
<1>5. \A i \in File : Fl(Empty, i) = NoFile
  BY <1>4, Files DEF Fl
<1>6. NoFile.indirect = 0 /\ NoFile.name = NoName /\ \A k \in 1 .. NDIRECT : NoFile.direct[k] = 0
  BY DEF NoFile
<1>7. \A i \in File, k \in Index : Ptr(Empty, i, k) = 0
  BY <1>3, <1>5, <1>6, PtrType, Numbers
<1>8. \A b : ~Owned(Empty, b)
  BY <1>4, <1>5, <1>6, <1>7 DEF Owned
<1>9. Apart(Empty)
  BY <1>4, <1>5, <1>6, <1>7 DEF Apart
<1>10. Exclusive(Empty)
  BY <1>8, <1>9, ExclusiveApart
<1>11. UniqueNames(Empty)
  BY <1>5, <1>6 DEF UniqueNames
<1>12. Sound(Empty) /\ Whole(Empty)
  BY <1>3, <1>4, <1>7, <1>10, <1>11 DEF Sound, Whole, Dirs
<1> QED BY <1>3, <1>4, <1>5, <1>7, <1>12

LEMMA InitInv == ASSUME PartialShrink = FALSE, Init PROVE Inv
<1>1. /\ mem = Empty /\ disk = Empty /\ queue = <<>> /\ closing = {} /\ synced = {}
      /\ crashed = FALSE
  BY DEF Init
<1>2. <<>> \in Seq(WriteType) /\ DOMAIN <<>> = {}
  OBVIOUS
<1>3. Typed
  BY <1>1, <1>2, EmptyIs DEF Typed
<1>4. Fits(Empty, Empty, <<>>, {})
  BY EmptyIs, FitsRefl
<1>5. Settled(Empty, Empty, <<>>)
  <2>1. NoFile.name = NoName
    BY DEF NoFile
  <2> QED BY <1>2, <2>1, EmptyIs DEF Settled
<1> QED BY <1>1, <1>3, <1>4, <1>5, EmptyIs DEF Inv

LEMMA NextInv == ASSUME Inv, [Next]_vars PROVE Inv'
<1>1. ASSUME NEW name \in Name, FileOpen(name) \/ FileCreate(name) \/ FileRemove(name)
      PROVE Inv'
  BY <1>1, OpenInv, CreateInv, RemoveInv
<1>2. ASSUME NEW i \in File, NEW k \in Index,
             FileRead(i, k) \/ \E v \in Value : FileWrite(i, k, v)
      PROVE Inv'
  BY <1>2, ReadInv, WriteInv
<1>3. ASSUME NEW i \in File, NEW n \in {0} \cup Index, FileSetSize(i, n) PROVE Inv'
  <2>1. n \in Extent
    BY DEF Extent
  <2> QED BY <1>3, <2>1, SizeInv
<1>4. ASSUME NEW i \in File, ServeFlush(i) PROVE Inv'
  BY <1>4, FlushInv
<1>5. CASE FsSync \/ DiskWrite \/ Crash
  BY <1>5, SyncInv, DiskInv, CrashInv
<1>6. CASE UNCHANGED vars
  BY <1>6 DEF vars, Inv, Typed, Freeing, FlushedSurvives
<1> QED BY <1>1, <1>2, <1>3, <1>4, <1>5, <1>6 DEF Next

\* The states of every run satisfy the inductive invariant.
THEOREM Invariant == PartialShrink = FALSE /\ Spec => []Inv
<1>1. PartialShrink = FALSE /\ Init => Inv
  BY InitInv
<1>2. Inv /\ [Next]_vars => Inv'
  BY NextInv
<1> QED BY <1>1, <1>2, PTL DEF Spec

LEMMA InvTypes == ASSUME Inv PROVE TypeOK
<1>1. /\ mem \in DiskType /\ disk \in DiskType /\ queue \in Seq(WriteType)
      /\ closing \subseteq File /\ synced \subseteq File /\ crashed \in BOOLEAN
  BY DEF Inv, Typed
<1>2. \A n \in DOMAIN queue : Written(disk, queue[n]) \in DiskType
  <2> TAKE n \in DOMAIN queue
  <2>1. queue[n] \in WriteType
    BY <1>1
  <2> QED BY <1>1, <2>1, WrittenIs
<1> QED BY <1>1, <1>2 DEF TypeOK

LEMMA InvCache == ASSUME Inv PROVE CacheInv
<1>1. mem \in DiskType /\ Exclusive(mem) /\ UniqueNames(mem) /\ (crashed \/ Whole(mem))
  BY DEF Inv, Typed, Sound
<1>2. Used(mem) \subseteq Blk
  <2> SUFFICES ASSUME NEW b, Owned(mem, b) PROVE b \in Blk
    BY UsedOwned
  <2>1. /\ \A d \in Dirs : mem.dptr[d] \in {0} \cup Blk
        /\ \A i \in File : Fl(mem, i).indirect \in {0} \cup Blk
        /\ \A i \in File, k \in Index : Ptr(mem, i, k) \in {0} \cup Blk
    BY <1>1, Parts, FlType, PtrType
  <2> QED BY <2>1 DEF Owned
<1>3. Used(mem) \cap mem.free = {}
  BY <1>1, ExclusiveHolds
<1>4. ~crashed => Blk \ mem.free = Used(mem)
  BY <1>1, <1>2, <1>3 DEF Whole
<1> QED BY <1>1, <1>4, InvTypes DEF CacheInv

\* No cached pointer leads to a block that another place has or that is free, names are
\* unique and no block is lost, for any number of blocks, Files and names (fs.c).
THEOREM CacheSound == PartialShrink = FALSE /\ Spec => []CacheInv
<1>1. Inv => CacheInv
  BY InvCache
<1> QED BY <1>1, Invariant, PTL

\* Wherever the machine stops between two writes of any sequence of requests, the disk
\* has no block in two places and none that its bitmap has free (alloc_block's order).
THEOREM CrashSound == PartialShrink = FALSE /\ Spec => []CrashSafe
<1>1. Inv => CrashSafe
  BY StopSafe DEF Sound, CrashSafe
<1> QED BY <1>1, Invariant, PTL

\* A file whose flush was answered is on the disk as it is in the cache, and survives
\* every later crash and every request on other files (file_flush, serve_flush).
THEOREM FlushSound == PartialShrink = FALSE /\ Spec => []FlushedSurvives
<1>1. Inv => FlushedSurvives
  BY StopSafe
<1> QED BY <1>1, Invariant, PTL
=============================================================================
