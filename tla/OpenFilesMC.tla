---------------------------- MODULE OpenFilesMC ----------------------------
(* Two clients.  An id matters only while it is the id of a slot in use, so  *)
(* the view forgets how often the slots were opened and what ids once meant: *)
(* the run covers every number of opens before ids wrap.                     *)
EXTENDS OpenFiles, TLC

InUse(i) == pageref(i) > 1 \/ srv.page = i
Now(id)  == LET i == id % MAXOPEN IN IF InUse(i) /\ fileid[i] = id THEN i ELSE NoPage
NoAge ==
    <<[e \in Client |-> [n \in Fds |->
         LET d == fd[e][n] IN
         IF d.page # Private THEN <<d.page, d.perm, d.file>>
         ELSE <<Private, Now(d.id), IF Now(d.id) = NoPage THEN NoFile ELSE d.file>>]],
      [e \in Client |->
         LET o == op[e] IN
         <<o.at, o.kind, o.n, o.file,
           IF o.at = "send" /\ o.kind \in {"use", "close"} THEN Now(o.id) ELSE NoPage>>],
      IF srv.kind \in {"use", "close"} THEN Now(srv.id) ELSE NoPage,
      [srv EXCEPT !.id = 0],
      [i \in Slot |-> IF InUse(i) THEN <<pageid[i] = fileid[i], file[i]>> ELSE <<>>],
      buf, live, unborn, wrapped>>
Files == Permutations(File)
=============================================================================
