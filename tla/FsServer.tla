------------------------------ MODULE FsServer ------------------------------
(***************************************************************************)
(* The file system server and its clients: fs/serv.c on one side of the    *)
(* IPC, user/lib/fsipc.c, file.c and the files of fd.c on the other.       *)
(*                                                                         *)
(* A call of a client is a sequence of requests; between two of them the   *)
(* server takes requests of other clients.  ipc_send is retried until the  *)
(* other side receives, so a client is about to send, has sent, receives,  *)
(* or is back with the reply; the server receives, serves or replies.      *)
(* Pages are shared: the fd page of a slot of opentab, and the page of a   *)
(* block in the server's cache, which a client maps where it reads and     *)
(* writes the file.                                                        *)
(***************************************************************************)
EXTENDS Fs

CONSTANTS
  Clients, First,
  MAXOPEN,
  MAXFD,         \* fd_alloc never gives out the last one
  Paths,         \* the paths that programs open and remove
  Modes,
  Sizes,         \* the sizes they set
  Word,          \* the word they write
  MaxCalls,      \* bound: how many calls the clients make
  SharedChanges, \* is a file resized or removed that is open elsewhere?
  KillWaiting    \* are clients destroyed while they wait for the server?

O_RDONLY == "O_RDONLY"
O_RDWR   == "O_RDWR"

ASSUME FsServerAssumption ==
  /\ IsFiniteSet(Clients) /\ First \in Clients
  /\ MAXFD \in Nat \ {0} /\ MAXOPEN \in Nat /\ MAXOPEN >= Cardinality(Clients) * MAXFD
  /\ Modes \subseteq {O_RDONLY, O_RDWR}
  /\ Sizes \subseteq 0..MAXFILESIZE /\ Word \in Nat \ {0} /\ MaxCalls \in Nat
  /\ {SharedChanges, KillWaiting} \subseteq BOOLEAN

Fds     == 0..(MAXFD - 1)
Opens   == 0..(MAXOPEN - 1)
NoFd    == -1
NoPage  == 0   \* nothing is mapped
Private == -1  \* a page of the client's own, which passive_alloc put there

VARIABLES
  fs,
  opentab,  \* [o_fileid, o_file, page]: page says whether o_ff is there
  filefd,   \* the content of o_ff: [f_fileid, f_size, fd_omode, fd_offset]
  spc,      \* the server: "recv", "busy", "reply"
  srv,      \* what it is about: [whom, req, r, page]
  alive,
  fds,      \* fds[c][fd]: the slot of opentab whose page is the Fd, or NoFd
  data,     \* data[c][fd][n]: the block whose page is at fd2data(fd) + n
  pc,       \* a client: "idle", "send", "sent", "recv", "back"
  call,     \* the library call it is in
  opened,   \* history: the file that a descriptor was opened for
  calls

server  == <<fs, opentab, filefd, spc, srv>>
clients == <<alive, fds, data, pc, call, opened, calls>>
vars    == <<server, clients>>

NoReq  == [type |-> "none", path |-> <<>>, fileid |-> 0, arg |-> 0]
NoCall == [op |-> "none", fd |-> 0, i |-> 0, size |-> 0, old |-> 0,
           req |-> NoReq, r |-> 0]
Idle   == [whom |-> First, req |-> NoReq, r |-> 0, page |-> <<"none", 0>>]
NoData == [n \in 0..(NINDIRECT - 1) |-> NoPage]

fs_init(s) == read_bitmap(check_write_block_restore(check_write_block_smash(read_super(s))))

serve_init == [i \in Opens |-> [o_fileid |-> i, o_file |-> NULL, page |-> FALSE]]

Init ==
  /\ fs = fs_init(Booted(Formatted))
  /\ opentab = serve_init
  /\ filefd = [i \in Opens |-> [f_fileid |-> 0, f_size |-> 0, fd_omode |-> O_RDONLY,
                                fd_offset |-> 0]]
  /\ spc = "recv" /\ srv = Idle
  /\ alive = {First}
  /\ fds = [c \in Clients |-> [fd \in Fds |-> NoFd]]
  /\ data = [c \in Clients |-> [fd \in Fds |-> NoData]]
  /\ pc = [c \in Clients |-> "idle"] /\ call = [c \in Clients |-> NoCall]
  /\ opened = [c \in Clients |-> [fd \in Fds |-> NULL]]
  /\ calls = 0

----------------------------------------------------------------------------
(* The server.  A handler gives the new state and the reply.                *)

Holders(i)   == {x \in Clients \X Fds : fds[x[1]][x[2]] = i}
pageref(i)   == Cardinality(Holders(i)) + (IF opentab[i].page THEN 1 ELSE 0)

(* Slip: the slot of a file that a client has open is taken. *)
open_alloc_Held == {i \in Opens : pageref(i) <= 2}

(* The slots that open_alloc may take, the first of which it takes. *)
open_alloc == {i \in Opens : pageref(i) <= 1}

(* Slip: the new id does not lead back to the slot. *)
NewId_One(i) == opentab[i].o_fileid + 1

NewId(i) == opentab[i].o_fileid + MAXOPEN

open_lookup(fileid) ==
  LET i == fileid % MAXOPEN
  IN  IF pageref(i) = 1 \/ opentab[i].o_fileid # fileid THEN E_INVAL ELSE i

Result(s, r) == [fs |-> s, opentab |-> opentab, filefd |-> filefd, r |-> r, page |-> <<"none", 0>>]

(* When there is no slot serve_open replies and goes on with a pointer that  *)
(* was never set.                                                            *)
serve_open(rq) ==
  LET i  == Min(open_alloc)
      o  == [opentab EXCEPT ![i].o_fileid = NewId(i), ![i].page = TRUE]
      ff == [f_fileid |-> 0, f_size |-> 0, fd_omode |-> O_RDONLY, fd_offset |-> 0]
      Opened(w) == [f_fileid |-> NewId(i), f_size |-> File(w.fs, w.file).f_size,
                    fd_omode |-> rq.arg, fd_offset |-> 0]
      Found(w) ==
        IF w.r < 0 THEN [Result(w.fs, w.r) EXCEPT !.opentab = o, !.filefd[i] = ff]
        ELSE [Result(w.fs, w.r) EXCEPT !.opentab = [o EXCEPT ![i].o_file = w.file],
                                       !.filefd[i] = Opened(w), !.page = <<"fd", i>>]
  IN  IF open_alloc = {} THEN Result(panic(fs, "wild pointer"), E_MAX_OPEN)
      ELSE Found(file_open(fs, rq.path, TRUE))

serve_map(rq) ==
  LET i == open_lookup(rq.fileid)
      Found(g) == IF g.r < 0 THEN Result(g.fs, g.r)
                  ELSE [Result(g.fs, 0) EXCEPT !.page = <<"block", g.r>>]
  IN  IF i < 0 THEN Result(fs, i)
      ELSE Found(file_get_block(fs, opentab[i].o_file, rq.arg \div BY2BLK, TRUE))

serve_set_size(rq) ==
  LET i == open_lookup(rq.fileid)
  IN  IF i < 0 THEN Result(fs, i) ELSE Result(file_set_size(fs, opentab[i].o_file, rq.arg), 0)

serve_close(rq) ==
  LET i == open_lookup(rq.fileid)
  IN  IF i < 0 THEN Result(fs, i) ELSE Result(file_close(fs, opentab[i].o_file), 0)

serve_remove(rq) == Given(file_remove(fs, rq.path, TRUE), LAMBDA x : Result(x.fs, x.r))

serve_dirty(rq) ==
  LET i == open_lookup(rq.fileid)
  IN  IF i < 0 THEN Result(fs, i)
      ELSE Given(file_dirty(fs, opentab[i].o_file, rq.arg), LAMBDA d : Result(d.fs, d.r))

serve_sync == Result(fs_sync(fs), 0)

Handler(rq) ==
  CASE rq.type = "FSREQ_OPEN"     -> serve_open(rq)
    [] rq.type = "FSREQ_MAP"      -> serve_map(rq)
    [] rq.type = "FSREQ_SET_SIZE" -> serve_set_size(rq)
    [] rq.type = "FSREQ_CLOSE"    -> serve_close(rq)
    [] rq.type = "FSREQ_DIRTY"    -> serve_dirty(rq)
    [] rq.type = "FSREQ_REMOVE"   -> serve_remove(rq)
    [] rq.type = "FSREQ_SYNC"     -> serve_sync

(* Slip: a handler returns without a reply when it fails. *)
Serve_Silent ==
  /\ spc = "busy" /\ fs.panic = "no"
  /\ \E h \in {Handler(srv.req)} :
       /\ fs' = h.fs /\ opentab' = h.opentab /\ filefd' = h.filefd
       /\ spc' = IF h.r < 0 THEN "recv" ELSE "reply"
       /\ srv' = [srv EXCEPT !.r = h.r, !.page = h.page]
  /\ UNCHANGED clients

Serve ==
  /\ spc = "busy" /\ fs.panic = "no"
  /\ \E h \in {Handler(srv.req)} :
       /\ fs' = h.fs /\ opentab' = h.opentab /\ filefd' = h.filefd
       /\ spc' = "reply" /\ srv' = [srv EXCEPT !.r = h.r, !.page = h.page]
  /\ UNCHANGED clients

(* ipc_send of the server: the page, if any, appears where the client        *)
(* receives.  A client that is gone fails the assertion of ipc_send.         *)
Reply ==
  LET c == srv.whom
  IN  /\ spc = "reply" /\ fs.panic = "no"
      /\ spc' = "recv" /\ srv' = Idle
      /\ IF c \notin alive
         THEN /\ fs' = panic(fs, "assertion failed")
              /\ UNCHANGED <<fds, data, pc, call, opened>>
         ELSE /\ pc[c] = "recv"
              /\ pc' = [pc EXCEPT ![c] = "back"]
              /\ call' = [call EXCEPT ![c].r = srv.r]
              /\ IF srv.page[1] = "fd"
                 THEN /\ fds' = [fds EXCEPT ![c][call[c].fd] = srv.page[2]]
                      /\ opened' = [opened EXCEPT ![c][call[c].fd] = opentab[srv.page[2]].o_file]
                 ELSE UNCHANGED <<fds, opened>>
              /\ data' = IF srv.page[1] = "block"
                         THEN [data EXCEPT ![c][call[c].fd][call[c].i \div BY2BLK] = srv.page[2]]
                         ELSE data
              /\ UNCHANGED fs
      /\ UNCHANGED <<opentab, filefd, alive, calls>>

----------------------------------------------------------------------------
(* The clients: fsipc.  An env that is not receiving cannot be sent to.     *)

Send(c) ==
  /\ c \in alive /\ pc[c] = "send"
  /\ spc = "recv"
  /\ spc' = "busy" /\ srv' = [srv EXCEPT !.whom = c, !.req = call[c].req]
  /\ pc' = [pc EXCEPT ![c] = "sent"]
  /\ UNCHANGED <<fs, opentab, filefd, alive, fds, data, call, opened, calls>>

Recv(c) ==
  /\ c \in alive /\ pc[c] = "sent"
  /\ pc' = [pc EXCEPT ![c] = "recv"]
  /\ UNCHANGED <<server, alive, fds, data, call, opened, calls>>

Req(type, path, fileid, arg) == [type |-> type, path |-> path, fileid |-> fileid, arg |-> arg]
By(type, c, fd, arg)         == Req(type, <<>>, filefd[fds[c][fd]].f_fileid, arg)

Round(n) == ((n + BY2BLK - 1) \div BY2BLK) * BY2BLK

----------------------------------------------------------------------------
(* Where a call goes after a reply: the requests of the client library.     *)

(* fsipc(...) is called next. *)
Ask(c, rq, i) ==
  /\ pc' = [pc EXCEPT ![c] = "send"]
  /\ call' = [call EXCEPT ![c].req = rq, ![c].i = i]
  /\ UNCHANGED <<server, alive, fds, data, opened, calls>>

Done(c) == pc' = [pc EXCEPT ![c] = "idle"] /\ call' = [call EXCEPT ![c] = NoCall]

Return(c) == Done(c) /\ UNCHANGED <<server, alive, fds, data, opened, calls>>

Back(c, op) == c \in alive /\ pc[c] = "back" /\ call[c].op = op

(* open: after the fd page every page of the file.  A failure leaves the     *)
(* descriptor.                                                               *)
open(c) ==
  LET k    == call[c]
      size == filefd[fds[c][k.fd]].f_size
      i    == IF k.req.type = "FSREQ_OPEN" THEN 0 ELSE k.i + BY2BLK
  IN  /\ Back(c, "open")
      /\ IF k.r < 0 \/ i >= size THEN Return(c) ELSE Ask(c, By("FSREQ_MAP", c, k.fd, i), i)

(* Slip: the last page is not reported. *)
file_close_Last(c, i) == i + BY2BLK < call[c].size

(* file_close: is there a page left to report? *)
DirtyLeft(c, i) == i < call[c].size

close(c) ==
  LET k == call[c]
      i == k.i + BY2BLK
  IN  /\ Back(c, "close")
      /\ IF k.req.type = "FSREQ_DIRTY"
         THEN Ask(c, IF DirtyLeft(c, i) THEN By("FSREQ_DIRTY", c, k.fd, i)
                     ELSE By("FSREQ_CLOSE", c, k.fd, 0), i)
         ELSE /\ Done(c)
              /\ fds' = [fds EXCEPT ![c][k.fd] = NoFd]
              /\ opened' = [opened EXCEPT ![c][k.fd] = NULL]
              /\ data' = [data EXCEPT ![c][k.fd] =
                            [n \in DOMAIN @ |-> IF k.r = 0 /\ n * BY2BLK < k.size THEN NoPage
                                                ELSE @[n]]]
              /\ UNCHANGED <<server, alive, calls>>

(* Slip: the pages of a file that became shorter stay. *)
Unmapped_Kept(pages, from, to) == pages

(* The pages from one offset to another are unmapped. *)
Unmapped(pages, from, to) ==
  [n \in DOMAIN pages |-> IF n * BY2BLK >= from /\ n * BY2BLK < to THEN NoPage ELSE pages[n]]

(* memcpy of a word to the pages of the client, at the offset x that write    *)
(* has passed on, and the step of fd_offset, which may have moved since.  A  *)
(* page that is not there is allocated by the kernel on the first touch.     *)
Store(c, fd, x, pages) ==
  LET i == fds[c][fd]
      n == x \div BY2BLK
      b == pages[n]
  IN  /\ filefd' = [filefd EXCEPT ![i].fd_offset = @ + 1]
      /\ fs' = IF b > 0 THEN [fs EXCEPT !.cache[b][x % BY2BLK] = Word] ELSE fs
      /\ data' = [data EXCEPT ![c][fd] = IF b = NoPage THEN [pages EXCEPT ![n] = Private] ELSE pages]

(* ftruncate, and file_write where it grows the file: the size, then the     *)
(* pages that are new; if one cannot be had, the old size again.             *)
ftruncate(c, op) ==
  LET k     == call[c]
      i     == IF k.req.type = "FSREQ_MAP" THEN k.i + BY2BLK ELSE Round(k.old)
      pages == Unmapped(data[c][k.fd], Round(k.size), Round(k.old))
  IN  /\ Back(c, op)
      /\ IF k.req.type = "FSREQ_SET_SIZE" /\ (k.r < 0 \/ k.req.arg # k.size) THEN Return(c)
         ELSE IF k.r < 0 THEN Ask(c, By("FSREQ_SET_SIZE", c, k.fd, k.old), k.i)
         ELSE IF i < Round(k.size) THEN Ask(c, By("FSREQ_MAP", c, k.fd, i), i)
         ELSE /\ Done(c)
              /\ IF op = "write" THEN Store(c, k.fd, k.size - 1, pages)
                 ELSE /\ data' = [data EXCEPT ![c][k.fd] = pages]
                      /\ UNCHANGED <<fs, filefd>>
              /\ UNCHANGED <<opentab, spc, srv, alive, fds, opened, calls>>

(* remove and sync return what the server says. *)
Simple(c, op) == Back(c, op) /\ Return(c)

----------------------------------------------------------------------------
(* The start of a call *)

FileOf(path) == walk_path(fs, path, TRUE).file

(* The files that a client has open or is opening, and the one it changes.   *)
Using(c) ==
  {opentab[fds[c][fd]].o_file : fd \in {k \in Fds : fds[c][k] # NoFd}}
  \cup (IF call[c].op \in {"open", "remove"} THEN {FileOf(call[c].req.path)} ELSE {})
Changing(c) ==
  CASE call[c].op \in {"ftruncate", "write"} -> {opened[c][call[c].fd]}
    [] call[c].op = "remove" -> {FileOf(call[c].req.path)}
    [] OTHER -> {}

Start(c) == c \in alive /\ pc[c] = "idle" /\ calls < MaxCalls /\ calls' = calls + 1

Begin(c, op, fd, size, old, rq) ==
  /\ pc' = [pc EXCEPT ![c] = "send"]
  /\ call' = [call EXCEPT ![c] = [NoCall EXCEPT !.op = op, !.fd = fd, !.size = size,
                                                !.old = old, !.req = rq]]

fd_alloc(c) == {fd \in 0..(MAXFD - 2) : fds[c][fd] = NoFd}

CallOpen(c, path, mode) ==
  /\ Start(c) /\ fd_alloc(c) # {}
  /\ SharedChanges \/ \A d \in Clients \ {c} : FileOf(path) \notin Changing(d)
  /\ Begin(c, "open", Min(fd_alloc(c)), 0, 0, Req("FSREQ_OPEN", path, 0, mode))
  /\ UNCHANGED <<server, alive, fds, data, opened>>

CallClose(c, fd) ==
  LET size == filefd[fds[c][fd]].f_size
  IN  /\ Start(c) /\ fds[c][fd] # NoFd
      /\ Begin(c, "close", fd, size, 0,
               By(IF size > 0 THEN "FSREQ_DIRTY" ELSE "FSREQ_CLOSE", c, fd, 0))
      /\ UNCHANGED <<server, alive, fds, data, opened>>

(* The file is not open anywhere else. *)
Alone(c, fd) ==
  SharedChanges \/ /\ \A d \in Clients \ {c} : opened[c][fd] \notin Using(d)
                   /\ \A k \in Fds \ {fd} : opened[c][k] # opened[c][fd]

(* The local size is set before the server is asked. *)
Resize(c, fd, op, size) ==
  LET i == fds[c][fd]
  IN  /\ Alone(c, fd)
      /\ Begin(c, op, fd, size, filefd[i].f_size, By("FSREQ_SET_SIZE", c, fd, size))
      /\ filefd' = [filefd EXCEPT ![i].f_size = size]
      /\ UNCHANGED <<fs, opentab, spc, srv, alive, fds, data, opened>>

CallFtruncate(c, fd, size) ==
  /\ Start(c) /\ fds[c][fd] # NoFd
  /\ size <= MAXFILESIZE
  /\ Resize(c, fd, "ftruncate", size)

CallWrite(c, fd) ==
  LET f   == filefd[fds[c][fd]]
      tot == f.fd_offset + 1
  IN  /\ Start(c) /\ fds[c][fd] # NoFd
      /\ f.fd_omode # O_RDONLY /\ tot <= MAXFILESIZE
      /\ IF tot > f.f_size THEN Resize(c, fd, "write", tot)
         ELSE /\ Store(c, fd, f.fd_offset, data[c][fd])
              /\ UNCHANGED <<opentab, spc, srv, alive, fds, pc, call, opened>>

(* read: nothing past the end of the file. *)
CallRead(c, fd) ==
  LET i == fds[c][fd]
  IN  /\ c \in alive /\ pc[c] = "idle" /\ i # NoFd
      /\ filefd[i].fd_offset < filefd[i].f_size
      /\ filefd' = [filefd EXCEPT ![i].fd_offset = @ + 1]
      /\ UNCHANGED <<fs, opentab, spc, srv, clients>>

seek(c, fd, offset) ==
  LET i == fds[c][fd]
  IN  /\ c \in alive /\ pc[c] = "idle" /\ i # NoFd
      /\ filefd' = [filefd EXCEPT ![i].fd_offset = offset]
      /\ UNCHANGED <<fs, opentab, spc, srv, clients>>

CallRemove(c, path) ==
  /\ Start(c)
  /\ SharedChanges \/ \A d \in Clients : FileOf(path) \notin Using(d) \ {Root}
  /\ FileOf(path) # Root
  /\ Begin(c, "remove", 0, 0, 0, Req("FSREQ_REMOVE", path, 0, 0))
  /\ UNCHANGED <<server, alive, fds, data, opened>>

CallSync(c) ==
  /\ Start(c)
  /\ Begin(c, "sync", 0, 0, 0, Req("FSREQ_SYNC", <<>>, 0, 0))
  /\ UNCHANGED <<server, alive, fds, data, opened>>

(* dup to a descriptor that is not open (if it is, dup closes it first). *)
dup(c, old, new) ==
  /\ Start(c) /\ fds[c][old] # NoFd /\ fds[c][new] = NoFd
  /\ fds' = [fds EXCEPT ![c][new] = fds[c][old]]
  /\ data' = [data EXCEPT ![c][new] = data[c][old]]
  /\ opened' = [opened EXCEPT ![c][new] = opened[c][old]]
  /\ UNCHANGED <<server, alive, pc, call>>

(* The pages of descriptors and files are PTE_LIBRARY: a child shares them. *)
fork(c, d) ==
  /\ Start(c) /\ d \notin alive
  /\ alive' = alive \cup {d}
  /\ fds' = [fds EXCEPT ![d] = fds[c]]
  /\ data' = [data EXCEPT ![d] = data[c]]
  /\ opened' = [opened EXCEPT ![d] = opened[c]]
  /\ UNCHANGED <<server, pc, call>>

env_destroy(c) ==
  /\ c \in alive
  /\ pc[c] = "idle" \/ KillWaiting
  /\ alive' = alive \ {c}
  /\ fds' = [fds EXCEPT ![c] = [fd \in Fds |-> NoFd]]
  /\ data' = [data EXCEPT ![c] = [fd \in Fds |-> NoData]]
  /\ opened' = [opened EXCEPT ![c] = [fd \in Fds |-> NULL]]
  /\ Done(c)
  /\ UNCHANGED <<server, calls>>

Step(c) ==
  \/ Recv(c) \/ open(c) \/ close(c)
  \/ ftruncate(c, "ftruncate") \/ ftruncate(c, "write")
  \/ Simple(c, "remove") \/ Simple(c, "sync")

Choice(c) ==
  \/ \E path \in Paths : CallRemove(c, path) \/ \E mode \in Modes : CallOpen(c, path, mode)
  \/ \E fd \in Fds :
       \/ CallClose(c, fd) \/ CallWrite(c, fd) \/ CallRead(c, fd) \/ seek(c, fd, 0)
       \/ \E size \in Sizes : CallFtruncate(c, fd, size)
       \/ \E new \in Fds : dup(c, fd, new)
  \/ CallSync(c)
  \/ \E d \in Clients : fork(c, d)
  \/ env_destroy(c)

Next == Serve \/ Reply \/ \E c \in Clients : Send(c) \/ Step(c) \/ Choice(c)

Spec == Init /\ [][Next]_vars

(* The server and the clients are scheduled, and a client that keeps trying  *)
(* to send finds the server receiving at last: the server's reply puts the   *)
(* client it answers behind the others in the run queue.  The steps are      *)
(* given by the moves of the program counters, which no other step makes.    *)
Moves(c) ==
  /\ c \in alive
  /\ \/ pc[c] = "sent" /\ pc' = [pc EXCEPT ![c] = "recv"]
     \/ pc[c] = "back" /\ \E x \in {"send", "idle"} : pc' = [pc EXCEPT ![c] = x]

FairSpec ==
  /\ Spec
  /\ WF_spc(spc = "busy" /\ fs.panic = "no" /\ spc' = "reply")
  /\ WF_spc(spc = "reply" /\ fs.panic = "no" /\ pc[srv.whom] = "recv" /\ spc' = "recv")
  /\ \A c \in Clients :
       /\ WF_pc(Moves(c))
       /\ SF_pc(c \in alive /\ pc[c] = "send" /\ spc = "recv" /\ pc' = [pc EXCEPT ![c] = "sent"])

----------------------------------------------------------------------------
(* Properties *)

(* The tables have their types, and an id leads to the slot it was given     *)
(* for (open_lookup finds the slot as fileid % MAXOPEN).                     *)
TypeOK ==
  /\ fs.panic = "no"
  /\ \A i \in Opens : opentab[i].o_fileid % MAXOPEN = i /\ filefd[i].f_size \in 0..MAXFILESIZE
  /\ spc \in {"recv", "busy", "reply"} /\ srv.whom \in Clients
  /\ alive \subseteq Clients
  /\ fds \in [Clients -> [Fds -> Opens \cup {NoFd}]]
  /\ \A c \in Clients : pc[c] \in {"idle", "send", "sent", "recv", "back"}
  /\ calls \in 0..MaxCalls

(* As long as a client has a descriptor, whoever else opens and closes       *)
(* files, it stands for the file it was opened for, and the server knows its *)
(* id (open_alloc and open_lookup tell who has a page by its reference       *)
(* count).                                                                   *)
HandlesResolve ==
  \A c \in alive, fd \in Fds : fds[c][fd] # NoFd =>
    /\ opentab[fds[c][fd]].o_file = opened[c][fd]
    /\ open_lookup(filefd[fds[c][fd]].f_fileid) = fds[c][fd]

(* Between calls, the pages of an open file are, from its first word to its  *)
(* last, the pages of the blocks that the file has in the server, and there  *)
(* are no others (open, ftruncate and file_write against file_get_block and  *)
(* file_truncate).                                                           *)
PagesMatch ==
  \A c \in alive, fd \in Fds : pc[c] = "idle" /\ fds[c][fd] # NoFd =>
    \A n \in 0..(NINDIRECT - 1) :
      data[c][fd][n] = IF n * BY2BLK < filefd[fds[c][fd]].f_size
                       THEN Ptr(fs, opened[c][fd], n) ELSE NoPage

(* When the server has served a close, everything written to the file is on  *)
(* the disk (the dirty requests of file_close, then file_flush).             *)
CloseSaves ==
  [][spc = "busy" /\ spc' = "reply" /\ srv.req.type = "FSREQ_CLOSE" /\ srv'.r = 0 =>
       LET p == opentab[srv.req.fileid % MAXOPEN].o_file
       IN  \A n \in 0..(Round(File(fs, p).f_size) \div BY2BLK - 1) :
             fs'.disk[Ptr(fs, p, n)] = fs'.cache[Ptr(fs, p, n)]]_vars

(* Every call comes back: no request is left without a reply, whatever the   *)
(* other clients ask for (every path of the handlers ends in ipc_send).      *)
CallsReturn == \A c \in Clients : pc[c] = "send" ~> pc[c] = "idle"
=============================================================================
