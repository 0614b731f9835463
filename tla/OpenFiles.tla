----------------------------- MODULE OpenFiles -----------------------------
(***************************************************************************)
(* Descriptors and the open-file table: the client library (lib/file.c,    *)
(* lib/fd.c, lib/ipc.c) and the request loop of the file server            *)
(* (fs/serv.c).  A file is open as long as the reference count of its Fd   *)
(* page says that a client maps it; fork makes those mappings              *)
(* copy-on-write, and a client may end between any two steps.              *)
(***************************************************************************)
EXTENDS Integers, FiniteSets

CONSTANTS
    Client,      \* env ids of clients: one is never given out twice
    Root,        \* the first client
    File,        \* the files of the disk
    MAXFD, MAXOPEN,
    Ids,         \* file ids are taken modulo Ids; from Ids \div 2 on they are negative as an int
    NoFile

Fds  == 0 .. MAXFD - 1
Slot == 0 .. MAXOPEN - 1
Private == MAXOPEN        \* a copy of an Fd page that pgfault made
NoPage  == MAXOPEN + 1

ASSUME Bounds == /\ MAXFD \in Nat \ {0} /\ MAXOPEN \in Nat \ {0} /\ IsFiniteSet(Client)
                 /\ Ids \in Nat \ {0} /\ Ids % (2 * MAXOPEN) = 0
                 /\ Root \in Client /\ NoFile \notin File

VARIABLES
    fd,       \* descriptor pages of every client: page, permission, id in a private copy,
              \* and (kept for the properties) the file that was opened
    buf,      \* clients whose fsipcbuf fork has made copy-on-write
    live,     \* clients that run
    unborn,   \* env ids not given out yet
    op,       \* the library call a client is in
    fileid,   \* o_fileid and the id in the Fd page of every slot
    pageid,
    file,     \* o_file of every slot
    srv,      \* the server: what it does, for whom, the result, the page it sends
    wrapped   \* (for the properties) slots whose ids have come round to 0

vars == <<fd, buf, live, unborn, op, fileid, pageid, file, srv, wrapped>>

Kinds == {"none", "open", "use", "close", "other"}
NoRequest == [at |-> "recv", whom |-> Root, kind |-> "none", id |-> 0, file |-> NoFile, r |-> 0,
              page |-> NoPage]
Closed == [page |-> NoPage, perm |-> "none", id |-> 0, file |-> NoFile]
Idle   == [at |-> "idle", kind |-> "none", n |-> 0, id |-> 0, file |-> NoFile]

IsOpen(e, n) == fd[e][n].page # NoPage
IdOf(e, n)   == IF fd[e][n].page = Private THEN fd[e][n].id ELSE pageid[fd[e][n].page]
\* The mappings of a server page besides the server's own.
Holders(i)   == {x \in Client \X Fds : fd[x[1]][x[2]].page = i}
pageref(i)   == 1 + Cardinality(Holders(i))
-----------------------------------------------------------------------------
\* fsipc: the arguments are stored into fsipcbuf (which pgfault makes writable
\* again) before the page is sent; only sync has none to store.
Request(e, req) ==
    /\ op' = [op EXCEPT ![e] = req]
    /\ buf' = buf \ {e}
    /\ UNCHANGED <<fd, live, unborn, fileid, pageid, file, srv, wrapped>>

Calls(e) == e \in live /\ op[e] = Idle

Open(e, f) ==
    /\ Calls(e)
    /\ \E n \in Fds : /\ ~IsOpen(e, n) /\ \A m \in Fds : m < n => IsOpen(e, m)
                      /\ Request(e, [Idle EXCEPT !.at = "send", !.kind = "open", !.n = n, !.file = f])

\* read, write, ftruncate, fstat: the server looks the id up.
Use(e, n) ==
    /\ Calls(e) /\ IsOpen(e, n)
    /\ Request(e, [Idle EXCEPT !.at = "send", !.kind = "use", !.id = IdOf(e, n)])

Close(e, n) ==
    /\ Calls(e) /\ IsOpen(e, n)
    /\ Request(e, [Idle EXCEPT !.at = "send", !.kind = "close", !.n = n, !.id = IdOf(e, n)])

Remove(e) ==
    /\ Calls(e)
    /\ Request(e, [Idle EXCEPT !.at = "send", !.kind = "other"])

Sync(e) ==
    /\ Calls(e)
    /\ op' = [op EXCEPT ![e] = [Idle EXCEPT !.at = "send", !.kind = "other"]]
    /\ UNCHANGED <<fd, buf, live, unborn, fileid, pageid, file, srv, wrapped>>

\* dup onto a free descriptor; onto an open one it is a Close and then this.
Dup(e, from, n) ==
    /\ Calls(e) /\ IsOpen(e, from) /\ ~IsOpen(e, n)
    /\ fd' = [fd EXCEPT ![e][n] = fd[e][from]]
    /\ UNCHANGED <<buf, live, unborn, op, fileid, pageid, file, srv, wrapped>>

\* seek stores into the Fd page; if it is copy-on-write, pgfault gives the
\* client a copy and the server's page loses a reference.
Seek(e, n) ==
    /\ Calls(e) /\ IsOpen(e, n)
    /\ fd[e][n].perm = "cow"
    /\ fd' = [fd EXCEPT ![e][n] = [@ EXCEPT !.page = Private, !.perm = "w", !.id = IdOf(e, n)]]
    /\ UNCHANGED <<buf, live, unborn, op, fileid, pageid, file, srv, wrapped>>

\* fork (ForkCow has its steps): parent and child map every page copy-on-write.
Fork(e, c) ==
    /\ Calls(e) /\ c \in unborn
    /\ LET shared == [n \in Fds |-> IF IsOpen(e, n) THEN [fd[e][n] EXCEPT !.perm = "cow"]
                                                    ELSE Closed]
       IN fd' = [fd EXCEPT ![e] = shared, ![c] = shared]
    /\ buf' = buf \cup {e, c}
    /\ live' = live \cup {c} /\ unborn' = unborn \ {c}
    /\ UNCHANGED <<op, fileid, pageid, file, srv, wrapped>>

\* A client ends, on its own or destroyed, between any two steps.
End(e) ==
    /\ e \in live
    /\ live' = live \ {e}
    /\ fd' = [fd EXCEPT ![e] = [n \in Fds |-> Closed]]
    /\ buf' = buf \ {e}
    /\ op' = [op EXCEPT ![e] = Idle]
    /\ UNCHANGED <<unborn, fileid, pageid, file, srv, wrapped>>
-----------------------------------------------------------------------------
\* Mutant: sys_ipc_try_send forgets to clear env_ipc_recving.
SendUncleared(e) ==
    /\ op[e].at = "send" /\ srv.at \in {"recv", "serve"}
    /\ op' = [op EXCEPT ![e].at = "sent"]
    /\ srv' = [srv EXCEPT !.at = "serve", !.whom = e, !.kind = op[e].kind,
                          !.id = op[e].id, !.file = op[e].file]
    /\ UNCHANGED <<fd, buf, live, unborn, fileid, pageid, file, wrapped>>

\* sys_ipc_try_send gets through once the server is in sys_ipc_recv.  It refuses
\* to send a copy-on-write page as writable, and ipc_send panics.
Send(e) ==
    /\ op[e].at = "send" /\ srv.at = "recv"
    /\ IF e \in buf
       THEN op' = [op EXCEPT ![e].at = "panicked"] /\ UNCHANGED srv
       ELSE /\ op' = [op EXCEPT ![e].at = "sent"]
            /\ srv' = [srv EXCEPT !.at = "serve", !.whom = e, !.kind = op[e].kind,
                                  !.id = op[e].id, !.file = op[e].file]
    /\ UNCHANGED <<fd, buf, live, unborn, fileid, pageid, file, wrapped>>

Recv(e) ==
    /\ op[e].at = "sent"
    /\ op' = [op EXCEPT ![e].at = "recv"]
    /\ UNCHANGED <<fd, buf, live, unborn, fileid, pageid, file, srv, wrapped>>

\* The answer is in: fd_close unmaps the page whatever the server said.
Return(e) ==
    /\ op[e].at = "answered"
    /\ fd' = IF op[e].kind = "close" THEN [fd EXCEPT ![e][op[e].n] = Closed] ELSE fd
    /\ op' = [op EXCEPT ![e] = Idle]
    /\ UNCHANGED <<buf, live, unborn, fileid, pageid, file, srv, wrapped>>
-----------------------------------------------------------------------------
\* openfile_alloc takes the first slot whose page nobody but the server maps.
\* Mutants: a slot with one client is taken too; the id is not advanced.
AvailableShared == {i \in Slot : pageref(i) <= 2}
Available == {i \in Slot : pageref(i) <= 1}
NextIdSame(i) == fileid[i]
NextId(i) == (fileid[i] + MAXOPEN) % Ids
Lookup(id) == LET i == id % MAXOPEN IN pageref(i) # 1 /\ fileid[i] = id

Reply(r, i) == srv' = [srv EXCEPT !.at = "reply", !.r = r, !.page = i]

\* serve_open.  The id is advanced and the Fd page cleared before anything else
\* can fail: the directory, the disk, or an id that is negative as an int and
\* is taken for an error.
ServeOpen ==
    IF Available = {} THEN Reply(-1, NoPage) /\ UNCHANGED <<fileid, pageid, file, wrapped>>
    ELSE LET i == CHOOSE i \in Available : \A j \in Available : i <= j IN
         /\ fileid' = [fileid EXCEPT ![i] = NextId(i)]
         /\ wrapped' = IF NextId(i) < fileid[i] THEN wrapped \cup {i} ELSE wrapped
         /\ \/ /\ pageid' = [pageid EXCEPT ![i] = 0]
               /\ Reply(-1, NoPage)
               /\ UNCHANGED file
            \/ /\ 2 * NextId(i) < Ids
               /\ pageid' = [pageid EXCEPT ![i] = NextId(i)]
               /\ file' = [file EXCEPT ![i] = srv.file]
               /\ Reply(0, i)

\* One request: open, a request on an id, or one that names no open file.
Serve ==
    /\ srv.at = "serve"
    /\ \/ srv.kind = "open" /\ ServeOpen
       \/ /\ srv.kind \in {"use", "close"}
          /\ Reply(IF Lookup(srv.id) THEN 0 ELSE -1, NoPage)
          /\ UNCHANGED <<fileid, pageid, file, wrapped>>
       \/ /\ srv.kind = "other"
          /\ Reply(0, NoPage)
          /\ UNCHANGED <<fileid, pageid, file, wrapped>>
    /\ UNCHANGED <<fd, buf, live, unborn, op>>

\* ipc_send retries until the client receives, and panics if it is gone.  The
\* kernel maps the Fd page where the client asked for it.  The request page is
\* unmapped, and the server receives again.
SendReply ==
    /\ srv.at = "reply"
    /\ LET e == srv.whom IN
       \/ /\ e \notin live
          /\ srv' = [srv EXCEPT !.at = "panicked"]
          /\ UNCHANGED <<op, fd>>
       \/ /\ op[e].at = "recv"
          /\ op' = [op EXCEPT ![e].at = "answered"]
          /\ fd' = IF srv.page = NoPage THEN fd ELSE
                   [fd EXCEPT ![e][op[e].n] = [page |-> srv.page, perm |-> "w", id |-> 0,
                                               file |-> op[e].file]]
          /\ srv' = NoRequest
    /\ UNCHANGED <<buf, live, unborn, fileid, pageid, file, wrapped>>
-----------------------------------------------------------------------------
\* serve_init
Init ==
    /\ fd = [e \in Client |-> [n \in Fds |-> Closed]]
    /\ buf = {} /\ live = {Root} /\ unborn = Client \ {Root}
    /\ op = [e \in Client |-> Idle]
    /\ fileid = [i \in Slot |-> i] /\ pageid = [i \in Slot |-> 0]
    /\ file = [i \in Slot |-> NoFile]
    /\ srv = NoRequest
    /\ wrapped = {}

Server == Serve \/ SendReply
Call(e) ==
    \/ \E f \in File : Open(e, f)
    \/ \E n \in Fds : Use(e, n) \/ Close(e, n) \/ Seek(e, n) \/ \E from \in Fds : Dup(e, from, n)
    \/ Remove(e) \/ Sync(e)
    \/ \E c \in Client : Fork(e, c)
Library(e) == Send(e) \/ Recv(e) \/ Return(e)
Next == Server \/ \E e \in Client : Call(e) \/ Library(e) \/ End(e)

Spec == Init /\ [][Next]_vars
-----------------------------------------------------------------------------
(* The tables, and one request at a time: the server works for a client that *)
(* waits for it, on that client's call, and nobody else waits for an answer. *)
TypeOK ==
    /\ fd \in [Client -> [Fds -> [page : Slot \cup {Private, NoPage}, perm : {"none", "w", "cow"},
                                 id : 0 .. Ids - 1, file : File \cup {NoFile}]]]
    /\ buf \subseteq Client /\ live \subseteq Client /\ unborn \subseteq Client
    /\ op \in [Client -> [at : {"idle", "send", "sent", "recv", "answered", "panicked"},
            kind : Kinds, n : Fds, id : 0 .. Ids - 1, file : File \cup {NoFile}]]
    /\ fileid \in [Slot -> 0 .. Ids - 1] /\ pageid \in [Slot -> 0 .. Ids - 1]
    /\ file \in [Slot -> File \cup {NoFile}] /\ wrapped \subseteq Slot
    /\ srv \in [at : {"recv", "serve", "reply", "panicked"}, whom : Client, kind : Kinds,
               id : 0 .. Ids - 1, file : File \cup {NoFile}, r : {0, -1},
               page : Slot \cup {NoPage}]
OneRequest ==
    /\ \A e \in Client : op[e].at \in {"sent", "recv"} =>
            srv.whom = e /\ srv.at \in {"serve", "reply", "panicked"}
    /\ srv.at \in {"serve", "reply"} /\ srv.whom \in live =>
            op[srv.whom].at \in {"sent", "recv"} /\ op[srv.whom].kind = srv.kind
HandshakeInv == TypeOK /\ OneRequest

(* A descriptor that is still backed by the server's page names an open slot *)
(* of the table, which holds the file that was opened, whoever opened,       *)
(* duplicated, forked, closed or ended in between.                           *)
NamesItsFile(e, n) == file[IdOf(e, n) % MAXOPEN] = fd[e][n].file
HeldStaysOpen ==
    \A e \in live, n \in Fds : fd[e][n].page \in Slot =>
        /\ Lookup(IdOf(e, n)) /\ IdOf(e, n) % MAXOPEN = fd[e][n].page
        /\ NamesItsFile(e, n)

(* A descriptor whose page became private (seek after fork) may be refused,  *)
(* but its id never names another file, until the ids of the slot wrap.      *)
PrivateNeverAnother ==
    \A e \in live, n \in Fds : fd[e][n].page = Private =>
        \/ ~Lookup(IdOf(e, n)) \/ NamesItsFile(e, n)
        \/ IdOf(e, n) % MAXOPEN \in wrapped
=============================================================================
