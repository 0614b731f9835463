---------------------------- MODULE FileSystem ----------------------------
(***************************************************************************)
(* The file system of the file server (fs/fs.c, fs/bc.c): what the block   *)
(* cache holds, what the disk holds, and the order in which each request   *)
(* writes blocks out.  A request changes the cache and leaves a sequence   *)
(* of block writes; the machine may stop before any of them.               *)
(***************************************************************************)
EXTENDS Integers, Sequences

CONSTANTS
    NBlk,                \* data blocks of the disk
    NDIRECT, NINDIRECT,  \* block pointers in a File and in an indirect block
    NDir, BLKFILES,      \* blocks a directory may have, Files in each
    Name, NoName,
    Value,               \* what a client writes into a block; 0 is a cleared block
    PartialShrink        \* whether clients shrink files to more than NDIRECT blocks

Blk   == 1 .. NBlk
File  == (1 .. NDir) \X (1 .. BLKFILES)   \* struct File: the directory's block, place in it
DirOf(i)   == i[1]
EntryOf(i) == i[2]
Index == 1 .. NDIRECT + NINDIRECT      \* blocks of a file

ASSUME Sizes == /\ {NBlk, NDIRECT, NINDIRECT, NDir, BLKFILES} \subseteq Nat \ {0}
                /\ NoName \notin Name /\ 0 \notin Value
                /\ PartialShrink \in BOOLEAN

VARIABLES
    mem,     \* the block cache: what the server reads and writes
    disk,    \* what is on the disk
    queue,   \* block writes the current request still has to do
    closing, \* the file whose flush is under way, if any
    synced,  \* (for the properties) files unchanged since a flush of them was answered
    crashed  \* (for the properties) the machine has stopped once

vars == <<mem, disk, queue, closing, synced, crashed>>

NoPtrs == [k \in 1 .. NINDIRECT |-> 0]
NoFile == [name |-> NoName, size |-> 0, direct |-> [k \in 1 .. NDIRECT |-> 0], indirect |-> 0]
\* A block has the fields of each use it may have: data, an indirect block, Files.
Cleared == [val |-> 0, ptr |-> NoPtrs, file |-> [j \in 1 .. BLKFILES |-> NoFile]]
\* The bitmap, the root directory's size and pointers (in the super block), the others.
Empty == [free |-> Blk, dsize |-> 0, dptr |-> [d \in 1 .. NDir |-> 0],
          blk |-> [b \in Blk |-> Cleared]]

Fl(m, i)    == IF m.dptr[DirOf(i)] = 0 THEN NoFile ELSE m.blk[m.dptr[DirOf(i)]].file[EntryOf(i)]
SetFile(m, i, f) == [m EXCEPT !.blk[m.dptr[DirOf(i)]].file[EntryOf(i)] = f]
-----------------------------------------------------------------------------
\* A request under way: the cache, the writes so far, whether it has failed, and
\* the block found last.
Req(m) == [m |-> m, q |-> <<>>, ok |-> TRUE, b |-> 0]
Super  == NBlk + 1
Bitmap == NBlk + 2
\* A block write: the number of the block and what the cache holds now.  Block 0 is a
\* hole of a file: it is never dirty, as file_flush passes over it.
Held(m, b)  == CASE b = Bitmap -> m.free
                 [] b = Super  -> <<m.dsize, m.dptr>>
                 [] b \in Blk  -> m.blk[b]
                 [] OTHER      -> Cleared
Block(m, b) == [unit |-> b, to |-> Held(m, b)]
Flush(r, b) == [r EXCEPT !.q = Append(@, Block(r.m, b))]

\* The disk after one block write.
Written(d, w) ==
    CASE w.unit = Bitmap -> [d EXCEPT !.free = w.to]
      [] w.unit = Super  -> [d EXCEPT !.dsize = w.to[1], !.dptr = w.to[2]]
      [] w.unit \in Blk  -> [d EXCEPT !.blk[w.unit] = w.to]
      [] OTHER -> d
\* flush_block does nothing for a block that is clean.
Rest(d, q) ==
    LET dirty == {n \in DOMAIN q : Held(d, q[n].unit) # q[n].to}
    IN IF dirty = {} THEN <<>>
       ELSE SubSeq(q, CHOOSE n \in dirty : \A o \in dirty : n <= o, Len(q))

\* Mutant: the changed bitmap stays in the cache.
AllocBlockLate(r) ==
    IF ~r.ok \/ r.m.free = {} THEN [r EXCEPT !.ok = FALSE]
    ELSE LET b == CHOOSE b \in r.m.free : \A c \in r.m.free : b <= c
         IN Flush([r EXCEPT !.m.free = @ \ {b}, !.m.blk[b] = Cleared, !.b = b], b)

\* alloc_block: the bitmap is written before the cleared block.
AllocBlock(r) ==
    IF ~r.ok \/ r.m.free = {} THEN [r EXCEPT !.ok = FALSE]
    ELSE LET b  == CHOOSE b \in r.m.free : \A c \in r.m.free : b <= c
             r1 == Flush([r EXCEPT !.m.free = @ \ {b}, !.b = b], Bitmap)
         IN Flush([r1 EXCEPT !.m.blk[b] = Cleared], b)

\* file_block_walk: where the pointer of block k is, and what it holds.
Ptr(m, i, k) ==
    IF k <= NDIRECT THEN Fl(m, i).direct[k]
    ELSE IF Fl(m, i).indirect = 0 THEN 0 ELSE m.blk[Fl(m, i).indirect].ptr[k - NDIRECT]
SetPtr(m, i, k, b) ==
    IF k <= NDIRECT THEN SetFile(m, i, [Fl(m, i) EXCEPT !.direct[k] = b])
    ELSE [m EXCEPT !.blk[Fl(m, i).indirect].ptr[k - NDIRECT] = b]
WithIndirect(r, i, k) ==
    IF k <= NDIRECT \/ Fl(r.m, i).indirect # 0 THEN r
    ELSE LET r1 == AllocBlock(r)
         IN IF r1.ok THEN [r1 EXCEPT !.m = SetFile(r1.m, i, [Fl(r1.m, i) EXCEPT !.indirect = r1.b])]
            ELSE r1

\* file_get_block, for a file and for the directory.
GetBlock(r, i, k) ==
    LET r1 == WithIndirect(r, i, k) IN
    IF ~r1.ok THEN r1
    ELSE IF Ptr(r1.m, i, k) # 0 THEN [r1 EXCEPT !.b = Ptr(r1.m, i, k)]
    ELSE LET r2 == AllocBlock(r1)
         IN IF r2.ok THEN [r2 EXCEPT !.m = SetPtr(r2.m, i, k, r2.b)] ELSE r2
GetDirBlock(r, d) ==
    IF ~r.ok \/ r.m.dptr[d] # 0 THEN r
    ELSE LET r1 == AllocBlock(r)
         IN IF r1.ok THEN [r1 EXCEPT !.m.dptr[d] = r1.b] ELSE r1

\* dir_lookup and dir_alloc_file go through the directory's blocks in order and
\* allocate the one that is missing.
Matching(r, name) == {i \in File : DirOf(i) <= r.m.dsize /\ r.m.dptr[DirOf(i)] # 0
                                   /\ Fl(r.m, i).name = name}
FirstOf(S) == CHOOSE i \in S : \A j \in S :
                  DirOf(i) < DirOf(j) \/ (DirOf(i) = DirOf(j) /\ EntryOf(i) <= EntryOf(j))
Scan(r, name) ==
    IF Matching(r, name) # {} THEN r
    ELSE IF r.m.dsize > 0 /\ r.m.dptr[r.m.dsize] = 0 THEN GetDirBlock(r, r.m.dsize) ELSE r
-----------------------------------------------------------------------------
\* file_free_block for the blocks of cut.
Freed(m, i, cut) ==
    LET f == Fl(m, i)
        g == [f EXCEPT !.direct = [k \in 1 .. NDIRECT |-> IF k \in cut THEN 0 ELSE @[k]]]
        ptr(b) == [k \in 1 .. NINDIRECT |->
                       IF k + NDIRECT \in cut THEN 0 ELSE m.blk[b].ptr[k]]
    IN SetFile([m EXCEPT
        !.free = @ \cup ({Ptr(m, i, k) : k \in cut} \ {0}),
        !.blk  = [b \in Blk |-> IF b # f.indirect THEN m.blk[b]
                                ELSE [m.blk[b] EXCEPT !.ptr = ptr(b)]]], i, g)
Cut(m, i, n) == {k \in Index : n < k /\ k <= Fl(m, i).size}

\* Mutant: the indirect block is freed and f_indirect keeps its number.
TruncatedKeepsIndirect(m, i, n) ==
    LET m1 == Freed(m, i, Cut(m, i, n)) IN
    [m1 EXCEPT !.free = @ \cup (IF n <= NDIRECT THEN {Fl(m1, i).indirect} \ {0} ELSE {})]

\* file_truncate_blocks
Truncated(m, i, n) ==
    LET m1 == Freed(m, i, Cut(m, i, n)) IN
    IF n > NDIRECT \/ Fl(m1, i).indirect = 0 THEN m1
    ELSE SetFile([m1 EXCEPT !.free = @ \cup {Fl(m1, i).indirect}], i,
                 [Fl(m1, i) EXCEPT !.indirect = 0])

\* file_set_size: only the block with the File is written.
DirBlock(m, i) == m.dptr[DirOf(i)]
Resized(r, i, n) ==
    LET m1 == IF n < Fl(r.m, i).size THEN Truncated(r.m, i, n) ELSE r.m
        m2 == SetFile(m1, i, [Fl(m1, i) EXCEPT !.size = n])
    IN Flush([r EXCEPT !.m = m2], DirBlock(m2, i))

Writes(m, units) == [n \in DOMAIN units |-> Block(m, units[n])]

\* Mutant: the indirect block is not written.
FileFlushDirect(m, i) ==
    Writes(m, [k \in 1 .. Fl(m, i).size |-> Ptr(m, i, k)] \o <<DirBlock(m, i)>>)

\* file_flush of a file: data, then the File, then the indirect block.
FileFlush(m, i) ==
    Writes(m, [k \in 1 .. Fl(m, i).size |-> Ptr(m, i, k)]
              \o <<DirBlock(m, i), Fl(m, i).indirect>>)
DirFlush(m) ==
    Writes(m, [d \in 1 .. m.dsize |-> m.dptr[d]] \o <<Super>>)
-----------------------------------------------------------------------------
\* A request starts when the one before has done its writes.
Idle      == queue = <<>>
Starts(r) == mem' = r.m /\ queue' = Rest(disk, r.q)
Start     == Req(mem)

\* What a reader of file i sees.
Contents(m, i) == [name |-> Fl(m, i).name, size |-> Fl(m, i).size,
    data |-> [k \in Index |->
        IF k <= Fl(m, i).size /\ Ptr(m, i, k) # 0 THEN m.blk[Ptr(m, i, k)].val ELSE 0]]
Touched(i) == synced' = synced \ {i}
Named(i)   == Fl(mem, i).name # NoName

\* file_open
FileOpen(name) ==
    /\ Idle
    /\ Starts(Scan(Start, name))
    /\ UNCHANGED <<disk, synced, closing, crashed>>

\* file_create: a free File, of the block after the last one when all are taken.
\* The directory counts the new block before it has it.
NewFile(r) ==
    LET r1 == Scan(r, NoName) IN
    IF ~r1.ok \/ Matching(r1, NoName) # {} THEN r1
    ELSE GetDirBlock([r1 EXCEPT !.m.dsize = @ + 1], r1.m.dsize + 1)
FileCreate(name) ==
    LET r0 == Scan(Start, name)
        r1 == NewFile(r0)
        i  == FirstOf(Matching(r1, NoName))
        m2 == SetFile(r1.m, i, [Fl(r1.m, i) EXCEPT !.name = name])
    IN /\ Idle
       /\ Matching(r0, name) = {}
       /\ mem.dsize < NDir \/ Matching(r0, NoName) # {}
       /\ IF r0.ok /\ r1.ok
          THEN /\ Starts([r1 EXCEPT !.m = m2, !.q = @ \o DirFlush(m2)])
               /\ Touched(i)
          ELSE /\ Starts(IF r0.ok THEN r1 ELSE r0)
               /\ UNCHANGED synced
       /\ UNCHANGED <<disk, closing, crashed>>

\* file_write of block k: the size first, then the block.
FileWrite(i, k, v) ==
    LET r1 == IF k > Fl(mem, i).size THEN Resized(Start, i, k) ELSE Start
        r2 == GetBlock(r1, i, k)
    IN /\ Idle /\ Named(i)
       /\ Starts(IF r2.ok THEN [r2 EXCEPT !.m.blk[r2.b].val = v] ELSE r2)
       /\ Touched(i)
       /\ UNCHANGED <<disk, closing, crashed>>

\* file_read of block k: a hole is given a block.
FileRead(i, k) ==
    /\ Idle /\ Named(i) /\ k <= Fl(mem, i).size
    /\ Starts(GetBlock(Start, i, k))
    /\ UNCHANGED <<disk, synced, closing, crashed>>

FileSetSize(i, n) ==
    /\ Idle /\ Named(i)
    /\ PartialShrink \/ n <= NDIRECT \/ n >= Fl(mem, i).size
    /\ Starts(Resized(Start, i, n))
    /\ Touched(i)
    /\ UNCHANGED <<disk, closing, crashed>>

\* file_remove
FileRemove(name) ==
    LET r  == Scan(Start, name)
        i  == FirstOf(Matching(r, name))
        m1 == Truncated(r.m, i, 0)
        m2 == SetFile(m1, i, [Fl(m1, i) EXCEPT !.name = NoName, !.size = 0])
    IN /\ Idle
       /\ Matching(r, name) # {}
       /\ Starts(Flush([r EXCEPT !.m = m2], DirBlock(m2, i)))
       /\ Touched(i)
       /\ UNCHANGED <<disk, closing, crashed>>

\* The flush of the files of S, one or none, is answered when no write is left.
Answer(S, q) ==
    IF q = <<>> THEN synced' = synced \cup S /\ closing' = {}
    ELSE closing' = S /\ UNCHANGED synced

\* serve_flush, which close and fd_close wait for.
ServeFlush(i) ==
    /\ Idle /\ Named(i)
    /\ Starts([Start EXCEPT !.q = FileFlush(mem, i)])
    /\ Answer({i}, queue')
    /\ UNCHANGED <<disk, crashed>>

\* fs_sync: every block, in the order of the disk.
FsSync ==
    /\ Idle
    /\ Starts([Start EXCEPT !.q = Writes(mem, <<Super, Bitmap>> \o [b \in Blk |-> b])])
    /\ UNCHANGED <<disk, synced, closing, crashed>>

\* ide_write of the next block.
DiskWrite ==
    /\ queue # <<>>
    /\ disk' = Written(disk, Head(queue))
    /\ queue' = Rest(disk', Tail(queue))
    /\ Answer(closing, queue')
    /\ UNCHANGED <<mem, crashed>>

\* The machine stops; after a restart the cache is read from the disk.
Crash ==
    /\ mem' = disk /\ queue' = <<>> /\ closing' = {}
    /\ crashed' = TRUE
    /\ UNCHANGED <<disk, synced>>

\* A disk fresh from fsformat.
Init ==
    /\ mem = Empty /\ disk = Empty /\ queue = <<>> /\ closing = {}
    /\ synced = {} /\ crashed = FALSE

Next ==
    \/ \E name \in Name : FileOpen(name) \/ FileCreate(name) \/ FileRemove(name)
    \/ \E i \in File, k \in Index : FileRead(i, k) \/ \E v \in Value : FileWrite(i, k, v)
    \/ \E i \in File, n \in {0} \cup Index : FileSetSize(i, n)
    \/ \E i \in File : ServeFlush(i)
    \/ FsSync \/ DiskWrite \/ Crash

Spec == Init /\ [][Next]_vars
-----------------------------------------------------------------------------
\* Where a cache or a disk keeps block numbers, also those beyond a file's size: the
\* root directory's pointers, and the indirect block (0) and the blocks of each File.
Place == ((1 .. NDir) \X {0} \X {0}) \cup ((1 .. NDir) \X (1 .. BLKFILES) \X ({0} \cup Index))
Holds(m, h) ==
    IF h[2] = 0 THEN m.dptr[h[1]]
    ELSE IF h[3] = 0 THEN Fl(m, <<h[1], h[2]>>).indirect ELSE Ptr(m, <<h[1], h[2]>>, h[3])
Filled(m)    == {h \in Place : Holds(m, h) # 0}
Used(m)      == {Holds(m, h) : h \in Filled(m)}
Exclusive(m) ==
    LET held == {<<h, Holds(m, h)>> : h \in Filled(m)}
    IN \A p, q \in held : p[2] \notin m.free /\ (p[2] = q[2] => p[1] = q[1])
UniqueNames(m) ==
    \A i, j \in File : Fl(m, i).name = Fl(m, j).name /\ Fl(m, i).name # NoName => i = j

FileType == [name : Name \cup {NoName}, size : {0} \cup Index,
             direct : [1 .. NDIRECT -> {0} \cup Blk], indirect : {0} \cup Blk]
DiskType == [free : SUBSET Blk, dsize : 0 .. NDir, dptr : [1 .. NDir -> {0} \cup Blk],
             blk : [Blk -> [val : {0} \cup Value, ptr : [1 .. NINDIRECT -> {0} \cup Blk],
                            file : [1 .. BLKFILES -> FileType]]]]
TypeOK ==
    /\ {mem, disk} \cup {Written(disk, queue[n]) : n \in DOMAIN queue} \subseteq DiskType
    /\ closing \subseteq File /\ synced \subseteq File /\ crashed \in BOOLEAN

(* In the cache no block belongs to two places or is both used and free, no  *)
(* two Files have a name, and until the machine stops no block is lost.      *)
CacheInv ==
    /\ TypeOK
    /\ Exclusive(mem) /\ UniqueNames(mem)
    /\ ~crashed => Blk \ mem.free = Used(mem)

(* Whenever the machine stops, the disk holds no block twice and none that   *)
(* its bitmap has free.                                                      *)
CrashSafe == Exclusive(disk) /\ UniqueNames(disk)

(* Once close has answered, the file is on disk, name, size and data, and    *)
(* stays there, whatever is done to the other files and whenever the machine *)
(* stops, until the file itself is changed.                                  *)
FlushedSurvives ==
    \A i \in synced :
        DirOf(i) <= disk.dsize /\ Contents(disk, i) = Contents(mem, i)
=============================================================================
