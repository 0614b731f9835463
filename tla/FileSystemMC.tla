---------------------------- MODULE FileSystemMC ----------------------------
(***************************************************************************)
(* Three names in a directory of two blocks of two names, files of a       *)
(* direct block and an indirect block of two pointers, and a disk of four  *)
(* data blocks.  The directory and the files together are four blocks long *)
(* (Four), holes included; two files, and one once the directory is two    *)
(* blocks long, have a length, and as many count as flushed (TwoFiles):    *)
(* enough for the disk to be full when the directory asks for its second   *)
(* block, which then stays a hole.  With two blocks of the directory a     *)
(* file counts as flushed only while the disk is full (GrownFull).  A      *)
(* state beyond these bounds, or in which the machine has stopped, is      *)
(* checked and not continued.  The view forgets the contents of blocks     *)
(* nothing points at: an allocation clears them.                           *)
(***************************************************************************)
EXTENDS FileSystem, FiniteSets, Functions, TLC

Seen(m, live) == [m EXCEPT !.blk = [b \in Blk |-> IF b \in live THEN @[b] ELSE Cleared]]
Reachable ==
    LET live    == {Holds(mem, h) : h \in Place} \cup {Holds(disk, h) : h \in Place}
        written == {queue[n].unit : n \in DOMAIN queue}
    IN <<Seen(mem, live), Seen(disk, live \cup written), queue, closing, synced, crashed>>
UntilCrash == ~crashed
Four       == mem.dsize + FoldFunction(+, 0, [i \in File |-> Fl(mem, i).size]) <= 4
TwoFiles   == LET most == IF mem.dsize < 2 THEN 2 ELSE 1
              IN /\ Cardinality({i \in File : Fl(mem, i).size > 0}) <= most
                 /\ Cardinality(synced) <= most
GrownFull  == mem.dsize = 2 => mem.free = {} \/ synced = {}
Names      == Permutations(Name)
=============================================================================
