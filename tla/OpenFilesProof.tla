--------------------------- MODULE OpenFilesProof ---------------------------
(***************************************************************************)
(* The open-file table for any number of clients, descriptors, slots and   *)
(* ids: requests are served one at a time, a descriptor backed by the      *)
(* server's page names its own file, and a descriptor whose page became    *)
(* private never names another one.                                        *)
(***************************************************************************)
EXTENDS OpenFiles, TLAPS, FiniteSetTheorems, WellFoundedInduction

(* Ids.  The id of slot i is i modulo MAXOPEN, for ever: ids wrap at a       *)
(* multiple of MAXOPEN.                                                      *)

LEMMA ModUnique ==
  ASSUME NEW m \in Nat \ {0}, NEW q \in Int, NEW i \in 0 .. m - 1
  PROVE  (m * q + i) % m = i
OBVIOUS

LEMMA ModSmall ==
  ASSUME NEW m \in Nat \ {0}, NEW i \in 0 .. m - 1
  PROVE  i % m = i
OBVIOUS

LEMMA DivMod ==
  ASSUME NEW m \in Int, m > 0, NEW x \in Int
  PROVE  x = m * (x \div m) + (x % m)
BY Z3T(30)

LEMMA ModRange ==
  ASSUME NEW m \in Nat \ {0}, NEW x \in Int
  PROVE  x % m \in 0 .. m - 1 /\ \E q \in Int : x = m * q + (x % m)
<1>1. x % m \in 0 .. m - 1 /\ x \div m \in Int
  OBVIOUS
<1>2. m \in Int /\ m > 0
  OBVIOUS
<1>3. x = m * (x \div m) + (x % m)
  BY <1>2, DivMod
<1> QED BY <1>1, <1>3

LEMMA ModShift ==
  ASSUME NEW m \in Nat \ {0}, NEW x \in Int, NEW k \in Int, NEW y, y = x + m * k
  PROVE  y % m = x % m
<1>1. PICK q \in Int : x = m * q + (x % m)
  BY ModRange
<1>2. y = m * (q + k) + (x % m) /\ q + k \in Int
  BY <1>1, ModRange
<1> HIDE <1>1
<1>3. x % m \in 0 .. m - 1
  BY ModRange
<1>4. (m * (q + k) + (x % m)) % m = x % m
  BY <1>2, <1>3, ModUnique
<1> QED BY <1>2, <1>4

\* Ids is a multiple of MAXOPEN, and not MAXOPEN itself.
LEMMA IdsBlocks == \E k \in Int : Ids = (2 * MAXOPEN) * k
<1> DEFINE m == 2 * MAXOPEN
<1>1. m \in Nat \ {0} /\ Ids \in Int /\ Ids % m = 0
  BY Bounds
<1> HIDE DEF m
<1>2. PICK k \in Int : Ids = m * k + (Ids % m)
  BY <1>1, ModRange
<1>3. Ids = m * k
  BY <1>1, <1>2
<1> QED BY <1>3 DEF m

LEMMA IdsMany == Ids \in Nat /\ Ids >= 2 * MAXOPEN
<1>1. PICK k \in Int : Ids = (2 * MAXOPEN) * k
  BY IdsBlocks
<1>2. k > 0
  BY <1>1, Bounds
<1> QED BY <1>1, <1>2, Bounds

\* openfile_alloc advances an id within the ids of its slot; it grows unless it wraps.
LEMMA IdsOfASlot ==
  ASSUME NEW x \in 0 .. Ids - 1
  PROVE  LET y == (x + MAXOPEN) % Ids IN
         /\ y \in 0 .. Ids - 1 /\ y % MAXOPEN = x % MAXOPEN
         /\ y = x + MAXOPEN \/ y < x
<1> USE Bounds
<1>1. PICK k \in Int : Ids = (2 * MAXOPEN) * k
  BY IdsBlocks
<1>2. Ids >= 2 * MAXOPEN
  BY IdsMany
<1>3. CASE x + MAXOPEN < Ids
  <2>1. (x + MAXOPEN) % Ids = x + MAXOPEN
    BY <1>3
  <2>2. (x + MAXOPEN) % MAXOPEN = x % MAXOPEN
    <3>1. x + MAXOPEN = x + MAXOPEN * 1
      OBVIOUS
    <3>2. x \in Int /\ 1 \in Int
      OBVIOUS
    <3> QED BY <3>1, <3>2, ModShift, ZenonT(30)
  <2> QED BY <1>3, <2>1, <2>2
<1>4. CASE x + MAXOPEN >= Ids
  <2>1. (x + MAXOPEN) % Ids = x + MAXOPEN - Ids
    <3>1. x + MAXOPEN = Ids * 1 + (x + MAXOPEN - Ids) /\ x + MAXOPEN - Ids \in 0 .. Ids - 1
      BY <1>2, <1>4
    <3> QED BY <3>1, ModUnique
  <2>2. x + MAXOPEN - Ids = x + MAXOPEN * (1 - 2 * k)
    BY <1>1
  <2>3. (x + MAXOPEN - Ids) % MAXOPEN = x % MAXOPEN
    <3>1. x \in Int /\ 1 - 2 * k \in Int
      OBVIOUS
    <3> QED BY <2>2, <3>1, ModShift, ZenonT(30)
  <2> QED BY <1>2, <1>4, <2>1, <2>2, <2>3
<1> QED BY <1>3, <1>4

(* The inductive invariant.                                                *)

\* The page of slot i is that of a file that is open, f.
Backs(i, f)   == pageid[i] = fileid[i] /\ file[i] = f
Unheld(i)     == \A e \in Client, n \in Fds : fd[e][n].page # i
\* Id x once meant f; it never means another file before the ids of its slot wrap.
Past(x, f)    == LET i == x % MAXOPEN
                 IN i \in wrapped \/ (x <= fileid[i] /\ (x = fileid[i] => file[i] = f))

QuietWhenGone == \A e \in Client \ live : op[e] = Idle /\ \A n \in Fds : fd[e][n] = Closed
NeverReborn   == live \cap unborn = {} /\ srv.whom \notin unborn /\ Root \notin unborn
SameFile      == srv.at \in {"serve", "reply"} /\ srv.whom \in live => op[srv.whom].file = srv.file
PageInReply   == srv.at \in {"recv", "serve"} => srv.page = NoPage
SlotIds       == \A i \in Slot : fileid[i] % MAXOPEN = i
HeldBacked    == \A e \in Client, n \in Fds :
                    fd[e][n].page \in Slot => Backs(fd[e][n].page, fd[e][n].file)
AnswerBacked  == srv.at = "reply" /\ srv.page \in Slot =>
                    Unheld(srv.page) /\ Backs(srv.page, srv.file)
PrivatePast   == \A e \in Client, n \in Fds :
                    fd[e][n].page = Private => Past(fd[e][n].id, fd[e][n].file)
Handshake     == OneRequest /\ QuietWhenGone /\ NeverReborn /\ SameFile /\ PageInReply
Backed        == SlotIds /\ HeldBacked /\ AnswerBacked /\ PrivatePast
IInv          == TypeOK /\ Handshake /\ Backed

FdType  == [page : Slot \cup {Private, NoPage}, perm : {"none", "w", "cow"},
            id : 0 .. Ids - 1, file : File \cup {NoFile}]
OpType  == [at : {"idle", "send", "sent", "recv", "answered", "panicked"},
            kind : Kinds, n : Fds, id : 0 .. Ids - 1, file : File \cup {NoFile}]
SrvType == [at : {"recv", "serve", "reply", "panicked"}, whom : Client, kind : Kinds,
            id : 0 .. Ids - 1, file : File \cup {NoFile}, r : {0, -1},
            page : Slot \cup {NoPage}]

LEMMA Typed ==
  TypeOK <=> /\ fd \in [Client -> [Fds -> FdType]] /\ op \in [Client -> OpType]
             /\ buf \subseteq Client /\ live \subseteq Client /\ unborn \subseteq Client
             /\ fileid \in [Slot -> 0 .. Ids - 1] /\ pageid \in [Slot -> 0 .. Ids - 1]
             /\ file \in [Slot -> File \cup {NoFile}] /\ wrapped \subseteq Slot
             /\ srv \in SrvType
BY DEF TypeOK, FdType, OpType, SrvType

LEMMA TypedNext ==
  ASSUME fd' \in [Client -> [Fds -> FdType]], op' \in [Client -> OpType],
         buf' \subseteq Client, live' \subseteq Client, unborn' \subseteq Client,
         fileid' \in [Slot -> 0 .. Ids - 1], pageid' \in [Slot -> 0 .. Ids - 1],
         file' \in [Slot -> File \cup {NoFile}], wrapped' \subseteq Slot, srv' \in SrvType
  PROVE  TypeOK'
BY DEF TypeOK, FdType, OpType, SrvType

LEMMA Values ==
  /\ Idle \in OpType /\ Closed \in FdType /\ NoRequest \in SrvType
  /\ NoPage \notin Slot /\ Private \notin Slot /\ Private # NoPage
  /\ 0 \in Fds /\ Slot = 0 .. MAXOPEN - 1 /\ Root \in Client
BY Bounds DEF Idle, Closed, NoRequest, OpType, FdType, SrvType, NoPage, Private, Slot, Fds, Kinds

\* pageref counts the server's own mapping.
LEMMA PageRef ==
  ASSUME NEW i
  PROVE  pageref(i) \in Nat \ {0} /\ (pageref(i) = 1 <=> Unheld(i))
<1>1. IsFiniteSet(Client) /\ IsFiniteSet(Fds)
  BY Bounds, FS_Interval DEF Fds
<1>2. IsFiniteSet(Client \X Fds)
  BY <1>1, FS_Product
<1>3. IsFiniteSet(Holders(i))
  BY <1>2, FS_Subset DEF Holders
<1>4. Cardinality(Holders(i)) \in Nat /\ (Cardinality(Holders(i)) = 0 <=> Holders(i) = {})
  BY <1>3, FS_CardinalityType, FS_EmptySet
<1>5. Holders(i) = {} <=> Unheld(i)
  <2>1. ASSUME NEW x \in Holders(i) PROVE ~Unheld(i)
    BY <2>1 DEF Holders, Unheld
  <2>2. ASSUME NEW e \in Client, NEW n \in Fds, fd[e][n].page = i PROVE <<e, n>> \in Holders(i)
    BY <2>2 DEF Holders
  <2> QED BY <2>1, <2>2 DEF Unheld
<1> QED BY <1>4, <1>5 DEF pageref

LEMMA InvInit == Init => IInv
<1> SUFFICES ASSUME Init PROVE IInv
  OBVIOUS
<1> USE Values DEF Init
<1>1. TypeOK
  BY Bounds, IdsMany, Typed DEF Slot
<1>2. Handshake
  BY DEF Handshake, OneRequest, QuietWhenGone, NeverReborn, SameFile, PageInReply, NoRequest, Idle
<1>3. SlotIds
  <2>1. ASSUME NEW i \in Slot PROVE i % MAXOPEN = i
    BY Bounds, ModSmall DEF Slot
  <2> QED BY <2>1 DEF SlotIds
<1>4. HeldBacked /\ AnswerBacked /\ PrivatePast
  BY DEF HeldBacked, AnswerBacked, PrivatePast, NoRequest, Closed
<1> QED BY <1>1, <1>2, <1>3, <1>4 DEF IInv, Backed

(* Each step keeps it.                                                     *)

\* Every descriptor there is after the step was there before it.
LEMMA BackedCopied ==
  ASSUME Backed, UNCHANGED <<fileid, pageid, file, srv, wrapped>>,
         \A x \in Client, k \in Fds : \E y \in Client, m \in Fds :
            /\ fd'[x][k].page = fd[y][m].page
            /\ fd'[x][k].page # NoPage =>
                  fd'[x][k].id = fd[y][m].id /\ fd'[x][k].file = fd[y][m].file
  PROVE  Backed'
<1>1. SlotIds'
  BY DEF Backed, SlotIds
<1>2. HeldBacked'
  <2> SUFFICES ASSUME NEW x \in Client, NEW k \in Fds, fd'[x][k].page \in Slot
               PROVE  LET i == fd'[x][k].page
                      IN pageid'[i] = fileid'[i] /\ file'[i] = fd'[x][k].file
    BY DEF HeldBacked, Backs
  <2>1. PICK y \in Client, m \in Fds :
            /\ fd'[x][k].page = fd[y][m].page
            /\ fd'[x][k].page # NoPage =>
                  fd'[x][k].id = fd[y][m].id /\ fd'[x][k].file = fd[y][m].file
    OBVIOUS
  <2>2. fd[y][m].page \in Slot /\ fd[y][m].page # NoPage
    BY <2>1, Values, ZenonT(30)
  <2>3. Backs(fd[y][m].page, fd[y][m].file)
    BY <2>2 DEF Backed, HeldBacked
  <2> QED BY <2>1, <2>2, <2>3 DEF Backs
<1>3. AnswerBacked'
  BY DEF Backed, AnswerBacked, Backs, Unheld
<1>4. PrivatePast'
  <2> SUFFICES ASSUME NEW x \in Client, NEW k \in Fds, fd'[x][k].page = Private
               PROVE  LET z == fd'[x][k].id   i == z % MAXOPEN
                      IN i \in wrapped' \/ (z <= fileid'[i] /\ (z = fileid'[i] => file'[i] = fd'[x][k].file))
    BY DEF PrivatePast, Past
  <2>1. PICK y \in Client, m \in Fds :
            /\ fd'[x][k].page = fd[y][m].page
            /\ fd'[x][k].page # NoPage =>
                  fd'[x][k].id = fd[y][m].id /\ fd'[x][k].file = fd[y][m].file
    OBVIOUS
  <2>2. fd[y][m].page = Private /\ fd[y][m].page # NoPage
    BY <2>1, Values
  <2>3. Past(fd[y][m].id, fd[y][m].file)
    BY <2>2 DEF Backed, PrivatePast
  <2> QED BY <2>1, <2>2, <2>3 DEF Past
<1> QED BY <1>1, <1>2, <1>3, <1>4 DEF Backed

LEMMA BackedSame ==
  Backed /\ UNCHANGED <<fd, fileid, pageid, file, srv, wrapped>> => Backed'
BY DEF Backed, SlotIds, HeldBacked, AnswerBacked, PrivatePast, Backs, Unheld, Past

\* A client that begins a call is not the one being served.
LEMMA RequestStep ==
  ASSUME IInv, NEW e \in Client, Calls(e), NEW req \in OpType, req.at = "send",
         op' = [op EXCEPT ![e] = req], buf' \subseteq Client,
         UNCHANGED <<fd, live, unborn, fileid, pageid, file, srv, wrapped>>
  PROVE  IInv'
<1>1. TypeOK'
  BY Typed, TypedNext DEF IInv
<1>2. Handshake'
  BY Typed DEF IInv, Handshake, OneRequest, QuietWhenGone, NeverReborn, SameFile, PageInReply,
     Calls, Idle
<1>3. Backed'
  BY BackedSame DEF IInv
<1> QED BY <1>1, <1>2, <1>3 DEF IInv

LEMMA IdTyped ==
  ASSUME TypeOK, NEW e \in Client, NEW n \in Fds, IsOpen(e, n)
  PROVE  IdOf(e, n) \in 0 .. Ids - 1
BY Typed DEF IdOf, IsOpen, FdType

LEMMA CallSteps ==
  ASSUME IInv, NEW e \in Client,
         \/ \E f \in File : Open(e, f)
         \/ \E n \in Fds : Use(e, n) \/ Close(e, n)
         \/ Remove(e) \/ Sync(e)
  PROVE  IInv'
<1>t. TypeOK /\ buf \subseteq Client
  BY Typed DEF IInv
<1>1. ASSUME NEW f \in File, Open(e, f) PROVE IInv'
  <2>1. PICK n \in Fds : Request(e, [Idle EXCEPT !.at = "send", !.kind = "open", !.n = n, !.file = f])
    BY <1>1 DEF Open
  <2>2. [Idle EXCEPT !.at = "send", !.kind = "open", !.n = n, !.file = f] \in OpType
    BY Values DEF OpType, Kinds
  <2> QED BY <1>1, <1>t, <2>1, <2>2, Values, RequestStep DEF Open, Request, OpType
<1>2. ASSUME NEW n \in Fds, Use(e, n) PROVE IInv'
  <2>1. [Idle EXCEPT !.at = "send", !.kind = "use", !.id = IdOf(e, n)] \in OpType
    BY <1>2, <1>t, Values, IdTyped DEF OpType, Kinds, Use
  <2> QED BY <1>2, <1>t, <2>1, Values, RequestStep DEF Use, Request, OpType
<1>3. ASSUME NEW n \in Fds, Close(e, n) PROVE IInv'
  <2>1. [Idle EXCEPT !.at = "send", !.kind = "close", !.n = n, !.id = IdOf(e, n)] \in OpType
    BY <1>3, <1>t, Values, IdTyped DEF OpType, Kinds, Close
  <2> QED BY <1>3, <1>t, <2>1, Values, RequestStep DEF Close, Request, OpType
<1>4. CASE Remove(e) \/ Sync(e)
  <2>1. [Idle EXCEPT !.at = "send", !.kind = "other"] \in OpType
    BY Values DEF OpType, Kinds
  <2> QED BY <1>4, <1>t, <2>1, Values, RequestStep DEF Remove, Sync, Request, OpType
<1> QED BY <1>1, <1>2, <1>3, <1>4

\* A descriptor is copied: dup, and fork for every one.
LEMMA DupStep ==
  ASSUME IInv, NEW e \in Client, NEW from \in Fds, NEW n \in Fds, Dup(e, from, n)
  PROVE  IInv'
<1> USE DEF IInv, Dup
<1>1. TypeOK'
  BY Typed, TypedNext
<1>2. \A x \in Client, k \in Fds : \E y \in Client, m \in Fds : fd'[x][k] = fd[y][m]
  BY Typed
<1>3. Handshake'
  BY Typed DEF Handshake, OneRequest, QuietWhenGone, NeverReborn, SameFile, PageInReply, Calls
<1>4. Backed'
  <2>1. ASSUME NEW x \in Client, NEW k \in Fds
        PROVE  \E y \in Client, m \in Fds :
            /\ fd'[x][k].page = fd[y][m].page
            /\ fd'[x][k].page # NoPage =>
                  fd'[x][k].id = fd[y][m].id /\ fd'[x][k].file = fd[y][m].file
    <3>1. PICK y \in Client, m \in Fds : fd'[x][k] = fd[y][m]
      BY <1>2
    <3> QED BY <3>1
  <2> QED BY <2>1, BackedCopied
<1> QED BY <1>1, <1>3, <1>4

LEMMA CowType ==
  ASSUME NEW d \in FdType
  PROVE  [d EXCEPT !.perm = "cow"] \in FdType
BY DEF FdType

LEMMA ForkStep ==
  ASSUME IInv, NEW e \in Client, NEW c \in Client, Fork(e, c)
  PROVE  IInv'
<1> USE DEF IInv
<1>1. /\ c \in unborn /\ Calls(e) /\ live' = live \cup {c} /\ unborn' = unborn \ {c}
      /\ buf' = buf \cup {e, c} /\ UNCHANGED <<op, fileid, pageid, file, srv, wrapped>>
  BY DEF Fork
<1> DEFINE shared == [n \in Fds |-> IF IsOpen(e, n) THEN [fd[e][n] EXCEPT !.perm = "cow"]
                                                      ELSE Closed]
<1>2. fd' = [fd EXCEPT ![e] = shared, ![c] = shared]
  BY DEF Fork
<1>t. fd \in [Client -> [Fds -> FdType]]
  BY Typed
<1>3. shared \in [Fds -> FdType]
  <2>1. ASSUME NEW n \in Fds PROVE [fd[e][n] EXCEPT !.perm = "cow"] \in FdType
    <3>1. fd[e][n] \in FdType
      BY <1>t
    <3> QED BY <3>1, CowType
  <2> QED BY <2>1, Values
<1>4. \A n \in Fds : /\ shared[n].page = fd[e][n].page
                     /\ shared[n].page # NoPage =>
                           shared[n].id = fd[e][n].id /\ shared[n].file = fd[e][n].file
  BY <1>t DEF IsOpen, Closed, FdType
<1>5. TypeOK'
  BY <1>1, <1>2, <1>3, Typed, TypedNext
<1>6. ASSUME NEW x \in Client, NEW k \in Fds
      PROVE  \E y \in Client, m \in Fds :
        /\ fd'[x][k].page = fd[y][m].page
        /\ fd'[x][k].page # NoPage =>
              fd'[x][k].id = fd[y][m].id /\ fd'[x][k].file = fd[y][m].file
  <2>1. CASE x \in {e, c}
    <3>1. fd'[x] = shared
      BY <1>2, <2>1, Typed
    <3> QED BY <1>4, <3>1
  <2>2. CASE x \notin {e, c}
    BY <1>2, <2>2, Typed
  <2> QED BY <2>1, <2>2
<1>7. Handshake'
  BY <1>1, <1>2, Typed DEF Handshake, OneRequest, QuietWhenGone, NeverReborn, SameFile,
     PageInReply, Calls
<1>8. Backed'
  BY <1>1, <1>6, BackedCopied
<1> QED BY <1>5, <1>7, <1>8

\* A client's copy of the server's page keeps the id the page has now.
LEMMA SeekStep ==
  ASSUME IInv, NEW e \in Client, NEW n \in Fds, Seek(e, n)
  PROVE  IInv'
<1> DEFINE d == fd[e][n]
           c == [d EXCEPT !.page = Private, !.perm = "w", !.id = IdOf(e, n)]
<1>1. /\ Calls(e) /\ IsOpen(e, n) /\ fd' = [fd EXCEPT ![e][n] = c]
      /\ UNCHANGED <<buf, live, unborn, op, fileid, pageid, file, srv, wrapped>>
  BY DEF Seek
<1>t. TypeOK /\ fd \in [Client -> [Fds -> FdType]] /\ d \in FdType
  BY Typed DEF IInv
<1>2. IdOf(e, n) \in 0 .. Ids - 1
  BY <1>1, <1>t, IdTyped
<1>3. c \in FdType /\ c.page = Private /\ c.id = IdOf(e, n) /\ c.file = d.file
  BY <1>t, <1>2 DEF FdType
<1> HIDE DEF c
<1>4. \A x \in Client, k \in Fds : fd'[x][k] = IF x = e /\ k = n THEN c ELSE fd[x][k]
  BY <1>1, <1>t
<1>5. TypeOK'
  <2>1. fd' \in [Client -> [Fds -> FdType]]
    BY <1>1, <1>t, <1>3
  <2> QED BY <1>1, <1>t, <2>1, Typed, TypedNext
<1>6. Handshake'
  BY <1>1, <1>4 DEF IInv, Handshake, OneRequest, QuietWhenGone, NeverReborn, SameFile,
     PageInReply, Calls
<1>7. Past(c.id, c.file)
  <2>1. CASE d.page = Private
    <3>1. c.id = d.id /\ Past(d.id, d.file)
      BY <1>3, <2>1 DEF IdOf, IInv, Backed, PrivatePast
    <3> QED BY <1>3, <3>1
  <2>2. CASE d.page \in Slot
    <3>1. c.id = pageid[d.page] /\ Backs(d.page, d.file) /\ pageid[d.page] % MAXOPEN = d.page
      BY <1>3, <2>2, Values DEF IdOf, IInv, Backed, HeldBacked, SlotIds, Backs
    <3>2. fileid[d.page] \in 0 .. Ids - 1
      BY <1>t, <2>2, Typed
    <3> QED BY <1>3, <3>1, <3>2 DEF Past, Backs
  <2> QED BY <1>1, <1>t, <2>1, <2>2 DEF IsOpen, FdType
<1>8. Backed'
  <2>1. SlotIds' /\ HeldBacked' /\ AnswerBacked'
    BY <1>1, <1>3, <1>4, Values DEF IInv, Backed, SlotIds, HeldBacked, AnswerBacked, Backs, Unheld
  <2>2. PrivatePast'
    BY <1>1, <1>4, <1>7 DEF IInv, Backed, PrivatePast, Past
  <2> QED BY <2>1, <2>2 DEF Backed
<1> QED BY <1>5, <1>6, <1>8 DEF IInv

LEMMA EndStep ==
  ASSUME IInv, NEW e \in Client, End(e)
  PROVE  IInv'
<1>1. /\ live' = live \ {e} /\ fd' = [fd EXCEPT ![e] = [n \in Fds |-> Closed]]
      /\ buf' = buf \ {e} /\ op' = [op EXCEPT ![e] = Idle]
      /\ UNCHANGED <<unborn, fileid, pageid, file, srv, wrapped>>
  BY DEF End
<1>t. TypeOK /\ fd \in [Client -> [Fds -> FdType]] /\ op \in [Client -> OpType]
  BY Typed DEF IInv
<1>2. TypeOK'
  BY <1>1, <1>t, Typed, TypedNext, Values
<1>3. Handshake'
  BY <1>1, <1>t DEF IInv, Handshake, OneRequest, QuietWhenGone, NeverReborn, SameFile,
     PageInReply, Idle
<1>4. \A x \in Client, k \in Fds : fd'[x][k] = IF x = e THEN Closed ELSE fd[x][k]
  BY <1>1, <1>t
<1>5. Closed.page = NoPage
  BY DEF Closed
<1>6. Backed'
  BY <1>1, <1>4, <1>5, Values DEF IInv, Backed, SlotIds, HeldBacked, AnswerBacked, PrivatePast,
     Backs, Unheld, Past
<1> QED BY <1>2, <1>3, <1>6 DEF IInv

LEMMA SendStep ==
  ASSUME IInv, NEW e \in Client, Send(e) \/ Recv(e)
  PROVE  IInv'
<1>t. TypeOK /\ fd \in [Client -> [Fds -> FdType]] /\ op \in [Client -> OpType] /\ srv \in SrvType
  BY Typed DEF IInv
<1>1. CASE Send(e) /\ e \in buf
  <2>1. /\ op[e].at = "send" /\ op' = [op EXCEPT ![e].at = "panicked"]
        /\ UNCHANGED <<fd, buf, live, unborn, fileid, pageid, file, srv, wrapped>>
    BY <1>1 DEF Send
  <2>2. op' \in [Client -> OpType]
    BY <1>t, <2>1 DEF OpType
  <2>3. TypeOK'
    BY <1>t, <2>1, <2>2, Typed, TypedNext
  <2>4. Handshake'
    BY <1>t, <2>1 DEF IInv, Handshake, OneRequest, QuietWhenGone, NeverReborn, SameFile,
       PageInReply, Idle, OpType
  <2> QED BY <2>1, <2>3, <2>4, BackedSame DEF IInv
<1>2. CASE Send(e) /\ e \notin buf
  <2>1. /\ op[e].at = "send" /\ srv.at = "recv" /\ op' = [op EXCEPT ![e].at = "sent"]
        /\ srv' = [srv EXCEPT !.at = "serve", !.whom = e, !.kind = op[e].kind,
                              !.id = op[e].id, !.file = op[e].file]
        /\ UNCHANGED <<fd, buf, live, unborn, fileid, pageid, file, wrapped>>
    BY <1>2 DEF Send
  <2>2. op' \in [Client -> OpType]
    BY <1>t, <2>1 DEF OpType
  <2>3. srv' \in SrvType /\ srv'.at = "serve" /\ srv'.whom = e /\ srv'.kind = op[e].kind
        /\ srv'.file = op[e].file /\ srv'.page = srv.page
    BY <1>t, <2>1 DEF OpType, SrvType
  <2>4. TypeOK'
    BY <1>t, <2>1, <2>2, <2>3, Typed, TypedNext
  <2>5. \A x \in Client : /\ x # e => op'[x] = op[x]
                          /\ op'[e].at = "sent" /\ op'[e].kind = op[e].kind
                          /\ op'[e].file = op[e].file
    BY <1>t, <2>1 DEF OpType
  <2>6. e \in live
    BY <2>1 DEF IInv, Handshake, QuietWhenGone, Idle
  <2>7. Handshake'
    BY <2>1, <2>3, <2>5, <2>6 DEF IInv, Handshake, OneRequest, QuietWhenGone, NeverReborn, SameFile,
       PageInReply
  <2>8. Backed'
    BY <2>1, <2>3 DEF IInv, Backed, SlotIds, HeldBacked, AnswerBacked, PrivatePast, Backs,
       Unheld, Past
  <2> QED BY <2>4, <2>7, <2>8 DEF IInv
<1>3. CASE Recv(e)
  <2>1. /\ op[e].at = "sent" /\ op' = [op EXCEPT ![e].at = "recv"]
        /\ UNCHANGED <<fd, buf, live, unborn, fileid, pageid, file, srv, wrapped>>
    BY <1>3 DEF Recv
  <2>2. op' \in [Client -> OpType]
    BY <1>t, <2>1 DEF OpType
  <2>3. TypeOK'
    BY <1>t, <2>1, <2>2, Typed, TypedNext
  <2>4. \A x \in Client : /\ x # e => op'[x] = op[x]
                          /\ op'[e].at = "recv" /\ op'[e].kind = op[e].kind
                          /\ op'[e].file = op[e].file
    BY <1>t, <2>1 DEF OpType
  <2>5. Handshake'
    BY <2>1, <2>4 DEF IInv, Handshake, OneRequest, QuietWhenGone, NeverReborn, SameFile,
       PageInReply, Idle
  <2> QED BY <2>1, <2>3, <2>5, BackedSame DEF IInv
<1> QED BY <1>1, <1>2, <1>3
\* The answer has come: a close unmaps the page.
LEMMA ReturnStep ==
  ASSUME IInv, NEW e \in Client, Return(e)
  PROVE  IInv'
<1>1. /\ op[e].at = "answered" /\ op' = [op EXCEPT ![e] = Idle]
      /\ fd' = IF op[e].kind = "close" THEN [fd EXCEPT ![e][op[e].n] = Closed] ELSE fd
      /\ UNCHANGED <<buf, live, unborn, fileid, pageid, file, srv, wrapped>>
  BY DEF Return
<1>t. TypeOK /\ fd \in [Client -> [Fds -> FdType]] /\ op \in [Client -> OpType]
      /\ op[e].n \in Fds
  BY Typed DEF IInv, OpType
<1>2. TypeOK'
  <2>1. fd' \in [Client -> [Fds -> FdType]] /\ op' \in [Client -> OpType]
    BY <1>1, <1>t, Values
  <2> QED BY <1>1, <1>t, <2>1, Typed, TypedNext
<1>3. \A x \in Client, k \in Fds : fd'[x][k] = fd[x][k] \/ (x = e /\ fd'[x][k] = Closed)
  BY <1>1, <1>t
<1>4. \A x \in Client : op'[x] = IF x = e THEN Idle ELSE op[x]
  BY <1>1, <1>t
<1>5. e \in live
  BY <1>1 DEF IInv, Handshake, QuietWhenGone, Idle
<1>6. Handshake'
  BY <1>1, <1>3, <1>4, <1>5 DEF IInv, Handshake, OneRequest, QuietWhenGone, NeverReborn, SameFile,
     PageInReply, Idle
<1>7. Closed.page = NoPage
  BY DEF Closed
<1>8. Backed'
  <2>1. \A x \in Client, k \in Fds : fd'[x][k] = fd[x][k] \/ fd'[x][k].page = NoPage
    BY <1>3, <1>7
  <2>2. SlotIds'
    BY <1>1 DEF IInv, Backed, SlotIds
  <2>3. HeldBacked'
    BY <1>1, <2>1, Values DEF IInv, Backed, HeldBacked, Backs
  <2>4. \A i \in Slot : Unheld(i) => Unheld(i)'
    BY <2>1, Values DEF Unheld
  <2>5. AnswerBacked'
    BY <1>1, <2>4 DEF IInv, Backed, AnswerBacked, Backs
  <2>6. PrivatePast'
    BY <1>1, <2>1, Values DEF IInv, Backed, PrivatePast, Past
  <2> QED BY <2>2, <2>3, <2>5, <2>6 DEF Backed
<1> QED BY <1>2, <1>6, <1>8 DEF IInv

\* A nonempty set of numbers has a least one.
LEMMA Least == ASSUME NEW T \in SUBSET Nat, T # {} PROVE \E x \in T : \A y \in T : x <= y
<1> DEFINE R == OpToRel(<, Nat)
<1>1. IsWellFoundedOn(R, Nat)
  BY NatLessThanWellFounded
<1>2. \A x, y \in T : <<y, x>> \in R <=> y < x
  BY DEF OpToRel
<1> HIDE DEF R
<1>3. PICK x \in T : \A y \in T : ~ (<<y, x>> \in R)
  BY <1>1, WFMin
<1>4. \A y \in T : ~(y < x) /\ x \in Nat /\ y \in Nat
  BY <1>2, <1>3
<1> QED BY <1>4

\* openfile_alloc returns a slot whose page nobody maps.
LEMMA Alloc ==
  ASSUME Available # {}
  PROVE  LET i == CHOOSE i \in Available : \A j \in Available : i <= j
         IN i \in Slot /\ Unheld(i)
<1>1. Available \in SUBSET Nat
  BY Bounds DEF Available, Slot
<1>2. \E i \in Available : \A j \in Available : i <= j
  BY <1>1, Least
<1> DEFINE i == CHOOSE i \in Available : \A j \in Available : i <= j
<1>3. i \in Available
  BY <1>2
<1>4. i \in Slot /\ pageref(i) <= 1
  BY <1>3 DEF Available
<1> HIDE DEF i
<1>5. pageref(i) = 1
  BY <1>4, PageRef
<1>6. i \in Slot /\ Unheld(i)
  BY <1>4, <1>5, PageRef
<1> QED BY <1>6 DEF i

\* A request that changes no table is answered.
LEMMA ReplyStep ==
  ASSUME IInv, srv.at = "serve", NEW r \in {0, -1}, Reply(r, NoPage),
         UNCHANGED <<fd, buf, live, unborn, op, fileid, pageid, file, wrapped>>
  PROVE  IInv'
<1>t. TypeOK /\ srv \in SrvType
  BY Typed DEF IInv
<1>1. srv' \in SrvType /\ srv'.at = "reply" /\ srv'.page = NoPage /\ srv'.whom = srv.whom
      /\ srv'.kind = srv.kind /\ srv'.file = srv.file
  BY <1>t DEF Reply, SrvType
<1>2. TypeOK'
  BY <1>t, <1>1, Typed, TypedNext
<1>3. Handshake'
  BY <1>1 DEF IInv, Handshake, OneRequest, QuietWhenGone, NeverReborn, SameFile, PageInReply
<1>4. Backed'
  BY <1>1, Values DEF IInv, Backed, SlotIds, HeldBacked, AnswerBacked, PrivatePast, Backs,
     Unheld, Past
<1> QED BY <1>2, <1>3, <1>4 DEF IInv

\* serve_open gives a slot nobody holds its next id, so no descriptor that is
\* held changes its meaning, and every id given before is a past one.
LEMMA OpenStep ==
  ASSUME IInv, srv.at = "serve", ServeOpen, UNCHANGED <<fd, buf, live, unborn, op>>
  PROVE  IInv'
<1>t. /\ TypeOK /\ srv \in SrvType /\ fileid \in [Slot -> 0 .. Ids - 1]
      /\ pageid \in [Slot -> 0 .. Ids - 1] /\ file \in [Slot -> File \cup {NoFile}]
      /\ wrapped \subseteq Slot /\ fd \in [Client -> [Fds -> FdType]]
  BY Typed DEF IInv
<1>1. CASE Available = {}
  BY <1>1, ReplyStep DEF ServeOpen
<1>2. CASE Available # {}
  <2> DEFINE i == CHOOSE i \in Available : \A j \in Available : i <= j
             y == NextId(i)
  <2>1. i \in Slot /\ Unheld(i)
    BY <1>2, Alloc
  <2>2. /\ fileid' = [fileid EXCEPT ![i] = y]
        /\ wrapped' = IF y < fileid[i] THEN wrapped \cup {i} ELSE wrapped
        /\ \/ pageid' = [pageid EXCEPT ![i] = 0] /\ Reply(-1, NoPage) /\ file' = file
           \/ /\ pageid' = [pageid EXCEPT ![i] = y] /\ Reply(0, i)
              /\ file' = [file EXCEPT ![i] = srv.file]
    BY <1>2 DEF ServeOpen
  <2> HIDE DEF i
  <2>3. /\ y \in 0 .. Ids - 1 /\ y % MAXOPEN = fileid[i] % MAXOPEN
        /\ y < fileid[i] \/ y > fileid[i]
    <3>1. fileid[i] \in 0 .. Ids - 1
      BY <1>t, <2>1
    <3>2. LET z == NextId(i) IN z \in 0 .. Ids - 1 /\ z % MAXOPEN = fileid[i] % MAXOPEN
             /\ (z = fileid[i] + MAXOPEN \/ z < fileid[i])
      BY <3>1, IdsOfASlot DEF NextId
    <3> QED BY <3>1, <3>2, Bounds
  <2> HIDE DEF y
  <2>4. /\ srv' \in SrvType /\ srv'.at = "reply" /\ srv'.whom = srv.whom /\ srv'.kind = srv.kind
        /\ srv'.file = srv.file
    BY <1>t, <2>1, <2>2, ZenonT(30) DEF Reply, SrvType
  <2>5. \/ srv'.page = NoPage
        \/ srv'.page = i /\ file'[i] = srv'.file /\ pageid'[i] = fileid'[i]
    <3>1. fileid'[i] = y
      BY <1>t, <2>1, <2>2
    <3>2. ASSUME NEW r, NEW p, Reply(r, p) PROVE srv'.page = p
      BY <1>t, <3>2 DEF Reply, SrvType
    <3>3. CASE Reply(-1, NoPage)
      BY <3>2, <3>3
    <3>4. CASE /\ pageid' = [pageid EXCEPT ![i] = y] /\ Reply(0, i)
               /\ file' = [file EXCEPT ![i] = srv.file]
      BY <1>t, <2>1, <2>4, <3>1, <3>2, <3>4
    <3> QED BY <2>2, <3>3, <3>4
  <2>6. /\ fileid'[i] = y
        /\ \A j \in Slot \ {i} : fileid'[j] = fileid[j] /\ pageid'[j] = pageid[j] /\ file'[j] = file[j]
    BY <1>t, <2>1, <2>2
  <2>7. TypeOK'
    <3>1. 0 \in 0 .. Ids - 1 /\ srv.file \in File \cup {NoFile}
      BY <1>t, IdsMany, Bounds DEF SrvType
    <3>2. /\ fileid' \in [Slot -> 0 .. Ids - 1] /\ pageid' \in [Slot -> 0 .. Ids - 1]
          /\ file' \in [Slot -> File \cup {NoFile}] /\ wrapped' \subseteq Slot
      BY <1>t, <2>1, <2>2, <2>3, <3>1
    <3> QED BY <1>t, <2>4, <3>2, Typed, TypedNext
  <2>8. Handshake'
    BY <2>4 DEF IInv, Handshake, OneRequest, QuietWhenGone, NeverReborn, SameFile, PageInReply
  <2>9. SlotIds'
    BY <2>1, <2>3, <2>6 DEF IInv, Backed, SlotIds
  <2>10. HeldBacked'
    BY <2>1, <2>6 DEF IInv, Backed, HeldBacked, Unheld, Backs
  <2>11. AnswerBacked'
    BY <2>1, <2>5, Values DEF AnswerBacked, Unheld, Backs
  <2>12. PrivatePast'
    <3> SUFFICES ASSUME NEW x \in Client, NEW k \in Fds, fd[x][k].page = Private
                 PROVE  LET z == fd[x][k].id   j == z % MAXOPEN
                        IN j \in wrapped' \/ (z <= fileid'[j] /\ (z = fileid'[j] => file'[j] = fd[x][k].file))
      BY DEF PrivatePast, Past
    <3> DEFINE z == fd[x][k].id
               j == z % MAXOPEN
    <3>0. fd[x][k] \in FdType
      BY <1>t
    <3>1. z \in 0 .. Ids - 1 /\ Past(z, fd[x][k].file)
      BY <3>0 DEF IInv, Backed, PrivatePast, FdType
    <3>2. j \in Slot
      <4>1. z \in Int
        BY <3>1
      <4> HIDE DEF z
      <4>2. z % MAXOPEN \in 0 .. MAXOPEN - 1
        BY <4>1, ModRange, Bounds
      <4> QED BY <4>2 DEF Slot
    <3>3. j \in wrapped \/ (z <= fileid[j] /\ (z = fileid[j] => file[j] = fd[x][k].file))
      BY <3>1 DEF Past
    <3> HIDE DEF j, z
    <3>4. CASE j # i
      <4>1. fileid'[j] = fileid[j] /\ file'[j] = file[j]
        BY <2>6, <3>2, <3>4
      <4>2. j \in wrapped => j \in wrapped'
        BY <2>2
      <4> QED BY <3>3, <4>1, <4>2 DEF j, z
    <3>5. CASE j = i
      <4>1. i \in wrapped => i \in wrapped'
        BY <2>2
      <4>2. y < fileid[i] => i \in wrapped'
        BY <2>2
      <4>3. z \in Int /\ y \in Int /\ fileid[i] \in Int
        BY <1>t, <2>1, <2>3, <3>1
      <4>4. i \in wrapped' \/ z < y
        BY <2>3, <3>3, <3>5, <4>1, <4>2, <4>3
      <4>5. i \in wrapped' \/ (z <= fileid'[i] /\ z # fileid'[i])
        BY <2>6, <4>3, <4>4
      <4> QED BY <3>5, <4>5 DEF j, z
    <3> QED BY <3>4, <3>5
  <2> QED BY <2>7, <2>8, <2>9, <2>10, <2>11, <2>12 DEF IInv, Backed
<1> QED BY <1>1, <1>2

LEMMA ServeStep ==
  ASSUME IInv, Serve
  PROVE  IInv'
<1>1. srv.at = "serve" /\ UNCHANGED <<fd, buf, live, unborn, op>>
  BY DEF Serve
<1>2. CASE srv.kind = "open" /\ ServeOpen
  BY <1>1, <1>2, OpenStep
<1>3. CASE \E r \in {0, -1} : Reply(r, NoPage) /\ UNCHANGED <<fileid, pageid, file, wrapped>>
  BY <1>1, <1>3, ReplyStep
<1> QED BY <1>2, <1>3 DEF Serve

\* The answer reaches the client it is for, and its page the descriptor it was
\* asked for; without a client the server panics.
LEMMA SendReplyStep ==
  ASSUME IInv, SendReply
  PROVE  IInv'
<1> DEFINE e == srv.whom
<1>t. /\ TypeOK /\ srv \in SrvType /\ fd \in [Client -> [Fds -> FdType]]
      /\ op \in [Client -> OpType] /\ e \in Client /\ op[e] \in OpType /\ op[e].n \in Fds
  BY Typed DEF IInv, SrvType, OpType
<1>1. srv.at = "reply" /\ UNCHANGED <<buf, live, unborn, fileid, pageid, file, wrapped>>
  BY DEF SendReply
<1>2. CASE e \notin live /\ srv' = [srv EXCEPT !.at = "panicked"] /\ UNCHANGED <<op, fd>>
  <2>1. srv' \in SrvType /\ srv'.at = "panicked" /\ srv'.whom = srv.whom
    BY <1>t, <1>2 DEF SrvType
  <2>2. TypeOK'
    BY <1>t, <1>1, <1>2, <2>1, Typed, TypedNext
  <2>3. Handshake'
    BY <1>1, <1>2, <2>1 DEF IInv, Handshake, OneRequest, QuietWhenGone, NeverReborn, SameFile,
       PageInReply
  <2>4. Backed'
    BY <1>1, <1>2, <2>1 DEF IInv, Backed, SlotIds, HeldBacked, AnswerBacked, PrivatePast, Backs,
       Unheld, Past
  <2> QED BY <2>2, <2>3, <2>4 DEF IInv
<1>3. CASE op[e].at = "recv" /\ op' = [op EXCEPT ![e].at = "answered"] /\ srv' = NoRequest
           /\ fd' = IF srv.page = NoPage THEN fd ELSE
                      [fd EXCEPT ![e][op[e].n] = [page |-> srv.page, perm |-> "w", id |-> 0,
                                                  file |-> op[e].file]]
  <2> DEFINE d == [page |-> srv.page, perm |-> "w", id |-> 0, file |-> op[e].file]
  <2>1. e \in live /\ op[e].file = srv.file
    BY <1>1, <1>3, <1>t DEF IInv, Handshake, QuietWhenGone, SameFile, Idle
  <2>2. d \in FdType /\ d.page = srv.page /\ d.file = srv.file
    BY <1>t, <2>1, IdsMany, Bounds DEF FdType, OpType, SrvType
  <2>3. fd' = IF srv.page = NoPage THEN fd ELSE [fd EXCEPT ![e][op[e].n] = d]
    BY <1>3
  <2> HIDE DEF d
  <2>4. \A x \in Client, k \in Fds :
           \/ fd'[x][k] = fd[x][k]
           \/ srv.page # NoPage /\ x = e /\ fd'[x][k] = d
    BY <1>t, <2>3
  <2>5. \A x \in Client : /\ x # e => op'[x] = op[x]
                          /\ op'[e].at = "answered"
    BY <1>3, <1>t DEF OpType
  <2>6. srv'.at = "recv" /\ srv'.whom = Root /\ srv'.page = NoPage
    BY <1>3 DEF NoRequest
  <2>7. TypeOK'
    <3>1. fd' \in [Client -> [Fds -> FdType]]
      BY <1>t, <2>2, <2>3
    <3>2. op' \in [Client -> OpType]
      BY <1>t, <1>3 DEF OpType
    <3> QED BY <1>t, <1>1, <1>3, <3>1, <3>2, Typed, TypedNext, Values
  <2>8. Handshake'
    <3>1. OneRequest'
      BY <1>1, <2>5, <2>6 DEF IInv, Handshake, OneRequest
    <3>2. QuietWhenGone'
      BY <1>1, <2>1, <2>4, <2>5 DEF IInv, Handshake, QuietWhenGone
    <3>3. NeverReborn' /\ SameFile' /\ PageInReply'
      BY <1>1, <2>6 DEF IInv, Handshake, NeverReborn, SameFile, PageInReply
    <3> QED BY <3>1, <3>2, <3>3 DEF Handshake
  <2>9. SlotIds' /\ AnswerBacked'
    BY <1>1, <2>6 DEF IInv, Backed, SlotIds, AnswerBacked
  <2>10. HeldBacked'
    BY <1>1, <2>2, <2>4 DEF IInv, Backed, HeldBacked, AnswerBacked, Backs
  <2>11. PrivatePast'
    <3>1. srv.page # Private
      BY <1>t, Values DEF SrvType
    <3> QED BY <1>1, <2>2, <2>4, <3>1 DEF IInv, Backed, PrivatePast, Past
  <2> QED BY <2>7, <2>8, <2>9, <2>10, <2>11 DEF IInv, Backed
<1> QED BY <1>2, <1>3 DEF SendReply
LEMMA InvNext == IInv /\ [Next]_vars => IInv'
<1> SUFFICES ASSUME IInv, [Next]_vars PROVE IInv'
  OBVIOUS
<1>1. CASE UNCHANGED vars
  BY <1>1 DEF vars, IInv, TypeOK, Handshake, OneRequest, QuietWhenGone, NeverReborn, SameFile,
     PageInReply, Backed, SlotIds, HeldBacked, AnswerBacked, PrivatePast, Backs, Unheld, Past
<1>2. CASE Server
  BY <1>2, ServeStep, SendReplyStep DEF Server
<1>3. ASSUME NEW e \in Client, Call(e) PROVE IInv'
  <2>1. ASSUME NEW n \in Fds, NEW from \in Fds, Dup(e, from, n) PROVE IInv'
    BY <2>1, DupStep
  <2>2. ASSUME NEW n \in Fds, Seek(e, n) PROVE IInv'
    BY <2>2, SeekStep
  <2>3. ASSUME NEW c \in Client, Fork(e, c) PROVE IInv'
    BY <2>3, ForkStep
  <2> QED BY <1>3, <2>1, <2>2, <2>3, CallSteps DEF Call
<1>4. ASSUME NEW e \in Client, Library(e) PROVE IInv'
  BY <1>4, SendStep, ReturnStep DEF Library
<1>5. ASSUME NEW e \in Client, End(e) PROVE IInv'
  BY <1>5, EndStep
<1> QED BY <1>1, <1>2, <1>3, <1>4, <1>5 DEF Next

\* What is held names an open slot, which holds the file that was opened.
LEMMA InvHeld == IInv => HeldStaysOpen
<1> SUFFICES ASSUME IInv, NEW e \in live, NEW n \in Fds, fd[e][n].page \in Slot
             PROVE  /\ Lookup(IdOf(e, n)) /\ IdOf(e, n) % MAXOPEN = fd[e][n].page
                    /\ NamesItsFile(e, n)
  BY DEF HeldStaysOpen
<1> DEFINE i == fd[e][n].page
<1>1. e \in Client
  BY Typed DEF IInv
<1>2. IdOf(e, n) = pageid[i] /\ pageid[i] = fileid[i] /\ file[i] = fd[e][n].file
  BY <1>1, Values DEF IdOf, IInv, Backed, HeldBacked, Backs
<1>3. fileid[i] % MAXOPEN = i
  BY DEF IInv, Backed, SlotIds
<1>4. pageref(i) # 1
  <2>1. ~Unheld(i)
    BY <1>1 DEF Unheld
  <2> QED BY <2>1, PageRef
<1> HIDE DEF i
<1>5. Lookup(IdOf(e, n))
  BY <1>2, <1>3, <1>4 DEF Lookup
<1>6. NamesItsFile(e, n)
  BY <1>2, <1>3 DEF NamesItsFile, i
<1> QED BY <1>2, <1>3, <1>5, <1>6 DEF i

\* The id of a private copy is past: its slot has another id, the same file, or has wrapped.
LEMMA InvPrivate == IInv => PrivateNeverAnother
<1> SUFFICES ASSUME IInv, NEW e \in live, NEW n \in Fds, fd[e][n].page = Private
             PROVE  \/ ~Lookup(IdOf(e, n)) \/ NamesItsFile(e, n)
                    \/ IdOf(e, n) % MAXOPEN \in wrapped
  BY DEF PrivateNeverAnother
<1>1. e \in Client
  BY Typed DEF IInv
<1>2. IdOf(e, n) = fd[e][n].id /\ Past(fd[e][n].id, fd[e][n].file)
  BY <1>1 DEF IdOf, IInv, Backed, PrivatePast
<1> QED BY <1>2 DEF Past, Lookup, NamesItsFile

(* Requests to the file server are served one at a time: whoever waits for an *)
(* answer is the client the server works for, on the call that client made    *)
(* (fsipc in lib/file.c, serve in fs/serv.c, sys_ipc_recv in kern/syscall.c). *)
THEOREM OneRequestAtATime == Spec => []HandshakeInv
<1>1. IInv => HandshakeInv
  BY DEF IInv, Handshake, HandshakeInv
<1> QED BY <1>1, InvInit, InvNext, PTL DEF Spec

(* openfile_alloc never takes the slot of a file that a client still has       *)
(* mapped, however clients open, dup, fork, close and end: openfile_lookup     *)
(* finds the descriptor's slot, and in it the file that was opened.            *)
THEOREM HeldDescriptorsSound == Spec => []HeldStaysOpen
BY InvInit, InvNext, InvHeld, PTL DEF Spec

(* A descriptor that lost the server's page (seek after fork) is refused by    *)
(* openfile_lookup or still names its file, as long as the ids of the slot,    *)
(* which openfile_alloc advances by MAXOPEN, have not wrapped.                 *)
THEOREM PrivateCopiesSound == Spec => []PrivateNeverAnother
BY InvInit, InvNext, InvPrivate, PTL DEF Spec
=============================================================================
