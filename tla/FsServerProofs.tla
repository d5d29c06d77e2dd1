--------------------------- MODULE FsServerProofs ---------------------------
(* The proof that the handles of the file system server resolve (module       *)
(* FsServer), whatever the operations of module Fs do to the blocks.          *)
EXTENDS FsServer, CommonLemmas

----------------------------------------------------------------------------
(* The inductive invariant *)

(* The fields that the tables have. *)
Shapes ==
  /\ DOMAIN opentab = Opens /\ DOMAIN filefd = Opens
  /\ \A i \in Opens : /\ DOMAIN opentab[i] = {"o_fileid", "o_file", "page"}
                      /\ DOMAIN filefd[i] = {"f_fileid", "f_size", "fd_omode", "fd_offset"}
  /\ DOMAIN srv = {"whom", "req", "r", "page"} /\ DOMAIN pc = Clients /\ DOMAIN call = Clients
  /\ \A c \in Clients : DOMAIN call[c] = {"op", "fd", "i", "size", "old", "req", "r"}
  /\ alive \subseteq Clients
  /\ fds \in [Clients -> [Fds -> Opens \cup {NoFd}]]
  /\ DOMAIN opened = Clients /\ \A c \in Clients : DOMAIN opened[c] = Fds

(* An id leads to the slot it was given for. *)
Ids == \A i \in Opens : opentab[i].o_fileid \in Nat /\ opentab[i].o_fileid % MAXOPEN = i

(* The fd page of a slot is there and carries the id of the slot. *)
Paged(i) == opentab[i].page = TRUE /\ filefd[i].f_fileid = opentab[i].o_fileid

(* What a client has mapped. *)
Handles ==
  \A c \in Clients, fd \in Fds : fds[c][fd] # NoFd =>
    Paged(fds[c][fd]) /\ opentab[fds[c][fd]].o_file = opened[c][fd]

(* What the server is about to map for a client. *)
Replying == spc = "reply" /\ srv.page[1] = "fd" => srv.page[2] \in Opens /\ Paged(srv.page[2])

(* A request is one of those the server has a handler for. *)
Types == {"FSREQ_OPEN", "FSREQ_MAP", "FSREQ_SET_SIZE", "FSREQ_CLOSE", "FSREQ_DIRTY",
          "FSREQ_REMOVE", "FSREQ_SYNC"}

Requests ==
  /\ \A c \in Clients : pc[c] = "send" => call[c].req.type \in Types
  /\ spc = "busy" => srv.req.type \in Types

IInv == Shapes /\ Ids /\ Handles /\ Replying /\ Requests

----------------------------------------------------------------------------
(* The numbers *)

(* The sets are finite, and there is a slot. *)
LEMMA TableSizes ==
  /\ IsFiniteSet(Clients) /\ MAXFD \in Nat /\ MAXFD > 0 /\ MAXOPEN \in Nat /\ MAXOPEN > 0
  /\ IsFiniteSet(Fds) /\ IsFiniteSet(Clients \X Fds) /\ NoFd \notin Opens /\ Opens \subseteq Nat
<1>1. /\ IsFiniteSet(Clients) /\ First \in Clients /\ MAXFD \in Nat /\ MAXFD > 0 /\ MAXOPEN \in Nat
      /\ MAXOPEN >= Cardinality(Clients) * MAXFD
  BY FsServerAssumption
<1>2. Cardinality(Clients) \in Nat /\ Cardinality(Clients) # 0
  BY <1>1, FS_CardinalityType, FS_EmptySet
<1>3. MAXOPEN > 0
  BY <1>1, <1>2
<1>4. IsFiniteSet(Fds)
  BY <1>1, FS_Interval DEF Fds
<1>5. IsFiniteSet(Clients \X Fds)
  BY <1>1, <1>4, FS_Product
<1> QED
  BY <1>1, <1>3, <1>4, <1>5 DEF NoFd, Opens

(* The id that serve_open gives leads back to the slot. *)
LEMMA NextId ==
  ASSUME NEW a \in Nat
  PROVE  a + MAXOPEN \in Nat /\ (a + MAXOPEN) % MAXOPEN = a % MAXOPEN
<1>1. MAXOPEN \in Nat /\ MAXOPEN > 0
  BY TableSizes
<1>2. (a + MAXOPEN) % MAXOPEN = a % MAXOPEN
  BY ONLY <1>1, ModAdd, Zenon
<1>3. a + MAXOPEN \in Nat
  BY <1>1
<1> QED
  BY <1>2, <1>3

(* A slot whose page is there has one reference more than it has holders. *)
LEMMA Referenced ==
  ASSUME NEW i
  PROVE  /\ pageref(i) \in Nat
         /\ opentab[i].page = TRUE /\ pageref(i) <= 1 => Holders(i) = {}
         /\ opentab[i].page = TRUE /\ Holders(i) # {} => pageref(i) > 1
<1>1. IsFiniteSet(Holders(i)) /\ Cardinality(Holders(i)) \in Nat
  BY TableSizes, FS_Subset, FS_CardinalityType DEF Holders
<1>2. Holders(i) # {} => Cardinality(Holders(i)) # 0
  BY <1>1, FS_EmptySet
<1> QED
  BY <1>1, <1>2 DEF pageref

(* Everything but a handler leaves the ids of the tables alone, and takes the *)
(* descriptors of a client from another, or from the reply of the server.     *)
LEMMA TablesStay ==
  ASSUME IInv, opentab' = opentab, DOMAIN filefd' = Opens,
         \A i \in Opens : DOMAIN filefd'[i] = DOMAIN filefd[i] /\ filefd'[i].f_fileid = filefd[i].f_fileid,
         alive' \subseteq Clients, fds' \in [Clients -> [Fds -> Opens \cup {NoFd}]],
         DOMAIN opened' = Clients, \A c \in Clients : DOMAIN opened'[c] = Fds,
         \A c \in Clients, fd \in Fds : fds'[c][fd] # NoFd =>
           \/ \E d \in Clients, k \in Fds : fds'[c][fd] = fds[d][k] /\ opened'[c][fd] = opened[d][k]
           \/ /\ spc = "reply" /\ srv.page[1] = "fd" /\ fds'[c][fd] = srv.page[2]
              /\ opened'[c][fd] = opentab[srv.page[2]].o_file,
         DOMAIN srv' = DOMAIN srv,
         spc' = "reply" => spc = "reply" /\ srv'.page = srv.page,
         spc' = "busy" => srv'.req.type \in Types,
         DOMAIN pc' = Clients, DOMAIN call' = Clients,
         \A c \in Clients : DOMAIN call'[c] = DOMAIN call[c],
         \A c \in Clients : pc'[c] = "send" => call'[c].req.type \in Types
  PROVE  IInv'
<1>1. Shapes'
  BY DEF IInv, Shapes
<1>2. Ids'
  BY DEF IInv, Ids
<1>3. \A i \in Opens : Paged(i)' = Paged(i)
  BY DEF Paged
<1>4. Handles'
  <2> SUFFICES ASSUME NEW c \in Clients, NEW fd \in Fds, fds'[c][fd] # NoFd
               PROVE  Paged(fds[c][fd])' /\ opentab'[fds'[c][fd]].o_file = opened'[c][fd]
    BY DEF Handles
  <2>1. fds'[c][fd] \in Opens
    OBVIOUS
  <2>2. Paged(fds'[c][fd]) /\ opentab[fds'[c][fd]].o_file = opened'[c][fd]
    BY DEF IInv, Handles, Replying
  <2>3. filefd'[fds'[c][fd]].f_fileid = filefd[fds'[c][fd]].f_fileid
    BY <2>1
  <2> QED
    BY <2>2, <2>3 DEF Paged
<1>5. Replying'
  BY <1>3 DEF IInv, Replying, Paged
<1>6. Requests'
  BY DEF Requests
<1> QED
  BY <1>1, <1>2, <1>4, <1>5, <1>6 DEF IInv

----------------------------------------------------------------------------
(* The handlers *)

(* serve_open takes a slot that open_alloc offers, in which there is a page   *)
(* with the new id when the reply has one; every other handler leaves the     *)
(* tables alone.                                                              *)
OpenTakes(h, i) ==
  /\ i \in open_alloc
  /\ DOMAIN h.opentab = Opens /\ DOMAIN h.filefd = Opens
  /\ \A j \in Opens : j # i => h.opentab[j] = opentab[j] /\ h.filefd[j] = filefd[j]
  /\ DOMAIN h.opentab[i] = DOMAIN opentab[i] /\ DOMAIN h.filefd[i] = DOMAIN filefd[i]
  /\ h.opentab[i].o_fileid = NewId(i) /\ h.opentab[i].page = TRUE
  /\ h.page[1] = "fd" => h.page[2] = i /\ h.filefd[i].f_fileid = NewId(i)

(* serve_open, on each of its paths. *)
LEMMA OpenIs ==
  ASSUME IInv, NEW rq
  PROVE  LET h == serve_open(rq)
         IN  \/ h.opentab = opentab /\ h.filefd = filefd /\ h.page[1] # "fd"
             \/ \E i \in Opens : OpenTakes(h, i)
<1> DEFINE h == serve_open(rq)
<1> SUFFICES ASSUME open_alloc # {} PROVE \E i \in Opens : OpenTakes(h, i)
  BY DEF serve_open, Result
<1> DEFINE i == Min(open_alloc)
           w == file_open(fs, rq.path, TRUE)
           o == [opentab EXCEPT ![i].o_fileid = NewId(i), ![i].page = TRUE]
           ff == [f_fileid |-> 0, f_size |-> 0, fd_omode |-> O_RDONLY, fd_offset |-> 0]
           gg == [f_fileid |-> NewId(i), f_size |-> File(w.fs, w.file).f_size,
                  fd_omode |-> rq.arg, fd_offset |-> 0]
<1>1. i \in open_alloc /\ i \in Opens
  <2>1. open_alloc \subseteq Nat
    BY TableSizes DEF open_alloc
  <2>2. \E x \in open_alloc : \A y \in open_alloc : x <= y
    BY <2>1, SmallestNat
  <2> QED
    BY <2>2 DEF Min, open_alloc
<1>2. h = IF w.r < 0 THEN [Result(w.fs, w.r) EXCEPT !.opentab = o, !.filefd[i] = ff]
          ELSE [Result(w.fs, w.r) EXCEPT !.opentab = [o EXCEPT ![i].o_file = w.file],
                                         !.filefd[i] = gg, !.page = <<"fd", i>>]
  BY DEF serve_open
<1>3. /\ DOMAIN opentab = Opens /\ DOMAIN filefd = Opens
      /\ DOMAIN opentab[i] = {"o_fileid", "o_file", "page"}
      /\ DOMAIN filefd[i] = {"f_fileid", "f_size", "fd_omode", "fd_offset"}
  BY <1>1 DEF IInv, Shapes
<1> HIDE DEF i, h, w
<1>4. /\ DOMAIN o = Opens /\ \A j \in Opens : j # i => o[j] = opentab[j]
      /\ DOMAIN o[i] = DOMAIN opentab[i] /\ o[i].o_fileid = NewId(i) /\ o[i].page = TRUE
  BY <1>1, <1>3
<1> HIDE DEF o
<1>5. w.r < 0 => OpenTakes(h, i)
  <2> SUFFICES ASSUME w.r < 0 PROVE OpenTakes(h, i)
    OBVIOUS
  <2>1. /\ h.opentab = o /\ h.filefd = [filefd EXCEPT ![i] = ff] /\ h.page = <<"none", 0>>
    BY <1>2 DEF Result
  <2> QED
    BY <1>1, <1>3, <1>4, <2>1 DEF OpenTakes
<1>6. ~(w.r < 0) => OpenTakes(h, i)
  <2> SUFFICES ASSUME ~(w.r < 0) PROVE OpenTakes(h, i)
    OBVIOUS
  <2>1. /\ h.opentab = [o EXCEPT ![i].o_file = w.file] /\ h.filefd = [filefd EXCEPT ![i] = gg]
        /\ h.page = <<"fd", i>>
    BY <1>2 DEF Result
  <2> QED
    BY <1>1, <1>3, <1>4, <2>1 DEF OpenTakes
<1> QED
  BY <1>1, <1>5, <1>6

(* Every handler. *)
LEMMA HandlerIs ==
  ASSUME IInv, NEW rq, rq.type \in Types
  PROVE  LET h == Handler(rq)
         IN  \/ h.opentab = opentab /\ h.filefd = filefd /\ h.page[1] # "fd"
             \/ \E i \in Opens : OpenTakes(h, i)
<1> DEFINE Same(h) == h.opentab = opentab /\ h.filefd = filefd /\ h.page[1] # "fd"
<1>0. \A s, r : Same(Result(s, r))
  BY DEF Result
<1>1. CASE rq.type = "FSREQ_OPEN"
  <2>1. Handler(rq) = serve_open(rq)
    BY <1>1 DEF Handler
  <2> QED
    BY <2>1, OpenIs
<1>2. CASE rq.type = "FSREQ_MAP"
  <2>1. Handler(rq) = serve_map(rq)
    BY <1>2 DEF Handler
  <2>2. Same(serve_map(rq))
    BY DEF serve_map, Result
  <2> QED
    BY <2>1, <2>2
<1>3. CASE rq.type = "FSREQ_SET_SIZE"
  <2>1. Handler(rq) = serve_set_size(rq)
    BY <1>3 DEF Handler
  <2> QED
    BY <1>0, <2>1 DEF serve_set_size
<1>4. CASE rq.type = "FSREQ_CLOSE"
  <2>1. Handler(rq) = serve_close(rq)
    BY <1>4 DEF Handler
  <2> QED
    BY <1>0, <2>1 DEF serve_close
<1>5. CASE rq.type = "FSREQ_DIRTY"
  <2>1. Handler(rq) = serve_dirty(rq)
    BY <1>5 DEF Handler
  <2> QED
    BY <1>0, <2>1 DEF serve_dirty, Given
<1>6. CASE rq.type = "FSREQ_REMOVE"
  <2>1. Handler(rq) = serve_remove(rq)
    BY <1>6 DEF Handler
  <2> QED
    BY <1>0, <2>1 DEF serve_remove, Given
<1>7. CASE rq.type = "FSREQ_SYNC"
  <2>1. Handler(rq) = serve_sync
    BY <1>7 DEF Handler
  <2> QED
    BY <1>0, <2>1 DEF serve_sync
<1> QED
  BY <1>1, <1>2, <1>3, <1>4, <1>5, <1>6, <1>7 DEF Types

----------------------------------------------------------------------------
(* The steps *)

(* The slot that open_alloc finds is nobody's. *)
LEMMA SlotIsFree ==
  ASSUME IInv, NEW i \in open_alloc, NEW c \in Clients, NEW fd \in Fds
  PROVE  fds[c][fd] # i
<1> SUFFICES ASSUME fds[c][fd] = i PROVE FALSE
  OBVIOUS
<1>1. i \in Opens /\ pageref(i) <= 1
  BY DEF open_alloc
<1>2. opentab[i].page = TRUE
  BY <1>1, TableSizes DEF IInv, Handles, Paged
<1>3. <<c, fd>> \in Holders(i)
  BY DEF Holders
<1> QED
  BY <1>1, <1>2, <1>3, Referenced

(* The server takes the request to a reply. *)
LEMMA ServeStep ==
  ASSUME IInv, Serve
  PROVE  IInv'
<1>1. srv.req.type \in Types
  BY DEF Serve, IInv, Requests
<1>2. PICK h : /\ h = Handler(srv.req) /\ opentab' = h.opentab /\ filefd' = h.filefd
               /\ spc' = "reply" /\ srv' = [srv EXCEPT !.r = h.r, !.page = h.page]
  BY DEF Serve
<1>3. UNCHANGED <<alive, fds, opened, pc, call>>
  BY DEF Serve, clients
<1>4. DOMAIN srv' = DOMAIN srv /\ srv'.page = h.page
  BY <1>2 DEF IInv, Shapes
<1>5. \/ h.opentab = opentab /\ h.filefd = filefd /\ h.page[1] # "fd"
      \/ \E i \in Opens : OpenTakes(h, i)
  BY <1>1, <1>2, HandlerIs
<1>6. Requests'
  BY <1>2, <1>3 DEF IInv, Requests
<1>7. CASE h.opentab = opentab /\ h.filefd = filefd /\ h.page[1] # "fd"
  <2>1. opentab' = opentab /\ filefd' = filefd /\ srv'.page[1] # "fd"
    BY <1>2, <1>4, <1>7
  <2>2. Shapes' /\ Ids'
    BY <1>3, <1>4, <2>1 DEF IInv, Shapes, Ids
  <2>3. Handles' /\ Replying'
    BY <1>3, <2>1 DEF IInv, Handles, Replying, Paged
  <2> QED
    BY <1>6, <2>2, <2>3 DEF IInv
<1>8. CASE \E i \in Opens : OpenTakes(h, i)
  <2>1. PICK i \in Opens : OpenTakes(h, i)
    BY <1>8
  <2>2. /\ i \in open_alloc /\ DOMAIN opentab' = Opens /\ DOMAIN filefd' = Opens
        /\ \A j \in Opens : j # i => opentab'[j] = opentab[j] /\ filefd'[j] = filefd[j]
        /\ DOMAIN opentab'[i] = DOMAIN opentab[i] /\ DOMAIN filefd'[i] = DOMAIN filefd[i]
        /\ opentab'[i].o_fileid = NewId(i) /\ opentab'[i].page = TRUE
    BY <1>2, <2>1 DEF OpenTakes
  <2>3. srv'.page[1] = "fd" => srv'.page[2] = i /\ filefd'[i].f_fileid = NewId(i)
    BY <1>2, <1>4, <2>1 DEF OpenTakes
  <2>4. Shapes'
    BY <1>3, <1>4, <2>2 DEF IInv, Shapes
  <2>5. Ids'
    <3>1. opentab[i].o_fileid \in Nat /\ opentab[i].o_fileid % MAXOPEN = i
      BY DEF IInv, Ids
    <3>2. NewId(i) \in Nat /\ NewId(i) % MAXOPEN = i
      BY <3>1, NextId DEF NewId
    <3> QED
      BY <2>2, <3>2 DEF IInv, Ids
  <2>6. Handles'
    <3> SUFFICES ASSUME NEW c \in Clients, NEW fd \in Fds, fds[c][fd] # NoFd
                 PROVE  Paged(fds[c][fd])' /\ opentab'[fds[c][fd]].o_file = opened[c][fd]
      BY <1>3 DEF Handles
    <3>1. fds[c][fd] \in Opens /\ fds[c][fd] # i
      BY <2>2, SlotIsFree DEF IInv, Shapes
    <3>2. opentab'[fds[c][fd]] = opentab[fds[c][fd]] /\ filefd'[fds[c][fd]] = filefd[fds[c][fd]]
      BY <2>2, <3>1
    <3> QED
      BY <1>3, <3>2 DEF IInv, Handles, Paged
  <2>7. Replying'
    BY <2>2, <2>3 DEF Replying, Paged
  <2> QED
    BY <1>6, <2>4, <2>5, <2>6, <2>7 DEF IInv
<1> QED
  BY <1>5, <1>7, <1>8

(* The page of the reply appears at the client. *)
LEMMA ReplyStep ==
  ASSUME IInv, Reply
  PROVE  IInv'
<1> DEFINE c == srv.whom
           k == call[c].fd
<1>0. /\ DOMAIN srv' = DOMAIN srv /\ spc' = "recv" /\ spc = "reply"
      /\ UNCHANGED <<opentab, filefd, alive>>
  BY DEF Reply, Idle, IInv, Shapes
<1>1. CASE c \notin alive
  <2>1. UNCHANGED <<fds, opened, pc, call>>
    BY <1>1 DEF Reply
  <2>2. Shapes' /\ Requests'
    BY <1>0, <2>1 DEF IInv, Shapes, Requests
  <2> QED
    BY <1>0, <2>1, <2>2 DEF IInv, Ids, Handles, Replying, Paged
<1>2. CASE c \in alive
  <2>1. c \in Clients
    BY <1>2 DEF IInv, Shapes
  <2>2. /\ pc' = [pc EXCEPT ![c] = "back"] /\ call' = [call EXCEPT ![c].r = srv.r]
    BY <1>2 DEF Reply
  <2> HIDE DEF c
  <2>3. /\ DOMAIN pc' = Clients /\ DOMAIN call' = Clients
        /\ \A d \in Clients : DOMAIN call'[d] = DOMAIN call[d]
        /\ \A d \in Clients : pc'[d] = "send" => call'[d].req.type \in Types
    BY <2>1, <2>2 DEF IInv, Shapes, Requests
  <2>4. \/ /\ srv.page[1] = "fd" /\ fds' = [fds EXCEPT ![c][k] = srv.page[2]]
           /\ opened' = [opened EXCEPT ![c][k] = opentab[srv.page[2]].o_file]
        \/ UNCHANGED <<fds, opened>>
    BY <1>2 DEF Reply, c
  <2>5. srv.page[1] = "fd" => srv.page[2] \in Opens
    BY <1>0 DEF IInv, Replying
  <2> HIDE DEF k
  <2>6. /\ fds' \in [Clients -> [Fds -> Opens \cup {NoFd}]]
        /\ DOMAIN opened' = Clients /\ \A d \in Clients : DOMAIN opened'[d] = Fds
    BY <2>4, <2>5 DEF IInv, Shapes
  <2>7. ASSUME NEW d \in Clients, NEW fd \in Fds
        PROVE  \/ fds'[d][fd] = fds[d][fd] /\ opened'[d][fd] = opened[d][fd]
               \/ /\ srv.page[1] = "fd" /\ fds'[d][fd] = srv.page[2]
                  /\ opened'[d][fd] = opentab[srv.page[2]].o_file
    BY <2>4 DEF IInv, Shapes
  <2>8. filefd' = filefd /\ DOMAIN filefd' = Opens /\ alive' \subseteq Clients
    BY <1>0 DEF IInv, Shapes
  <2> QED
    BY <1>0, <2>3, <2>6, <2>7, <2>8, TablesStay
<1> QED
  BY <1>1, <1>2

(* Where the clients are, after a step. *)
Moved ==
  /\ DOMAIN pc' = Clients /\ DOMAIN call' = Clients
  /\ \A c \in Clients : DOMAIN call'[c] = DOMAIN call[c]
  /\ \A c \in Clients : pc'[c] = "send" => call'[c].req.type \in Types

(* The ways in which they move. *)
LEMMA StayMoved ==
  ASSUME IInv, UNCHANGED <<pc, call>>
  PROVE  Moved
  BY DEF IInv, Shapes, Requests, Moved

(* A client that waits goes on without a new request. *)
LEMMA GoMoved ==
  ASSUME IInv, NEW c \in Clients, NEW x, x # "send", pc' = [pc EXCEPT ![c] = x], call' = call
  PROVE  Moved
  BY DEF IInv, Shapes, Requests, Moved

(* The next request of a call. *)
LEMMA AskMoved ==
  ASSUME IInv, NEW c \in Clients, NEW rq, NEW i, rq.type \in Types, Ask(c, rq, i)
  PROVE  Moved
  BY DEF Ask, IInv, Shapes, Requests, Moved

(* The end of a call. *)
LEMMA DoneMoved ==
  ASSUME IInv, NEW c \in Clients, Done(c)
  PROVE  Moved
  BY DEF Done, NoCall, IInv, Shapes, Requests, Moved

(* The first request of a call. *)
LEMMA BeginMoved ==
  ASSUME IInv, NEW c \in Clients, NEW op, NEW fd, NEW size, NEW old, NEW rq, rq.type \in Types,
         Begin(c, op, fd, size, old, rq)
  PROVE  Moved
<1> DEFINE new == [NoCall EXCEPT !.op = op, !.fd = fd, !.size = size, !.old = old, !.req = rq]
<1>1. DOMAIN new = {"op", "fd", "i", "size", "old", "req", "r"} /\ new.req = rq
  BY DEF NoCall
<1> HIDE DEF new
<1>2. pc' = [pc EXCEPT ![c] = "send"] /\ call' = [call EXCEPT ![c] = new]
  BY DEF Begin, new
<1> QED
  BY <1>1, <1>2 DEF IInv, Shapes, Requests, Moved

(* The requests of the client library. *)
LEMMA RequestTypes ==
  /\ \A type \in Types : \A path, fileid, arg : Req(type, path, fileid, arg).type \in Types
  /\ \A type \in Types : \A c, fd, arg : By(type, c, fd, arg).type \in Types
  /\ {"FSREQ_OPEN", "FSREQ_MAP", "FSREQ_SET_SIZE", "FSREQ_CLOSE", "FSREQ_DIRTY",
       "FSREQ_REMOVE", "FSREQ_SYNC"} \subseteq Types
  BY DEF Req, By, Types

(* The id in the fd page of a slot stays. *)
PagesStay ==
  /\ DOMAIN filefd' = Opens
  /\ \A i \in Opens : DOMAIN filefd'[i] = DOMAIN filefd[i] /\ filefd'[i].f_fileid = filefd[i].f_fileid

(* A field of a page that is not the id changes. *)
LEMMA FieldPages ==
  ASSUME IInv, NEW i, NEW v,
         \/ filefd' = filefd
         \/ filefd' = [filefd EXCEPT ![i].fd_offset = v]
         \/ filefd' = [filefd EXCEPT ![i].f_size = v]
  PROVE  PagesStay
  BY DEF IInv, Shapes, PagesStay

(* A step of a client that keeps the descriptors. *)
LEMMA Quiet ==
  ASSUME IInv, UNCHANGED <<opentab, spc, srv, alive, fds, opened>>, PagesStay, Moved
  PROVE  IInv'
<1>1. /\ alive' \subseteq Clients /\ fds' \in [Clients -> [Fds -> Opens \cup {NoFd}]]
      /\ DOMAIN opened' = Clients /\ \A c \in Clients : DOMAIN opened'[c] = Fds
  BY DEF IInv, Shapes
<1>2. spc' = "busy" => srv'.req.type \in Types
  BY DEF IInv, Requests
<1>3. \A c \in Clients, fd \in Fds :
        \E d \in Clients, k \in Fds : fds'[c][fd] = fds[d][k] /\ opened'[c][fd] = opened[d][k]
  OBVIOUS
<1>4. srv' = srv /\ spc' = spc /\ opentab' = opentab
  OBVIOUS
<1> QED
  BY <1>1, <1>2, <1>3, <1>4, TablesStay DEF Moved, PagesStay

(* A step that changes descriptors, where each is NoFd or one there was. *)
LEMMA Shared ==
  ASSUME IInv, UNCHANGED <<opentab, filefd, spc, srv>>, Moved, alive' \subseteq Clients,
         fds' \in [Clients -> [Fds -> Opens \cup {NoFd}]],
         DOMAIN opened' = Clients, \A c \in Clients : DOMAIN opened'[c] = Fds,
         \A c \in Clients, fd \in Fds : fds'[c][fd] # NoFd =>
           \E d \in Clients, k \in Fds : fds'[c][fd] = fds[d][k] /\ opened'[c][fd] = opened[d][k]
  PROVE  IInv'
<1>1. DOMAIN filefd' = Opens
  BY DEF IInv, Shapes
<1>2. spc' = "busy" => srv'.req.type \in Types
  BY DEF IInv, Requests
<1>3. srv' = srv /\ spc' = spc /\ opentab' = opentab /\ filefd' = filefd
  OBVIOUS
<1> QED
  BY <1>1, <1>2, <1>3, TablesStay DEF Moved

(* The server has the request. *)
LEMMA SendStep ==
  ASSUME IInv, NEW c \in Clients, Send(c)
  PROVE  IInv'
<1>1. Moved
  BY GoMoved DEF Send
<1>2. /\ DOMAIN srv' = DOMAIN srv /\ srv'.req = call[c].req /\ spc' = "busy"
      /\ call[c].req.type \in Types
  BY DEF Send, IInv, Shapes, Requests
<1>3. UNCHANGED <<opentab, filefd, alive, fds, opened>>
  BY DEF Send
<1>4. Shapes' /\ Requests'
  BY <1>1, <1>2, <1>3 DEF Moved, IInv, Shapes, Requests
<1> QED
  BY <1>2, <1>3, <1>4 DEF IInv, Ids, Handles, Replying, Paged

(* The replies: the call goes on, or ends. *)
LEMMA AskStep ==
  ASSUME IInv, NEW c \in Clients, NEW rq, NEW i, rq.type \in Types, Ask(c, rq, i)
  PROVE  IInv'
<1>1. UNCHANGED <<opentab, filefd, spc, srv, alive, fds, opened>>
  BY DEF Ask, server
<1>2. PagesStay
  BY <1>1, FieldPages
<1> QED
  BY <1>1, <1>2, AskMoved, Quiet

(* The call ends. *)
LEMMA ReturnStep ==
  ASSUME IInv, NEW c \in Clients, Return(c)
  PROVE  IInv'
<1>1. UNCHANGED <<opentab, filefd, spc, srv, alive, fds, opened>> /\ Done(c)
  BY DEF Return, server
<1>2. PagesStay
  BY <1>1, FieldPages
<1> QED
  BY <1>1, <1>2, DoneMoved, Quiet

(* The client is ready for the reply. *)
LEMMA RecvStep ==
  ASSUME IInv, NEW c \in Clients, Recv(c)
  PROVE  IInv'
<1>1. UNCHANGED <<opentab, filefd, spc, srv, alive, fds, opened>>
  BY DEF Recv, server
<1>2. PagesStay
  BY <1>1, FieldPages
<1>3. Moved
  BY GoMoved DEF Recv
<1> QED
  BY <1>1, <1>2, <1>3, Quiet

(* open asks for the pages, one after another. *)
LEMMA OpenStep ==
  ASSUME IInv, NEW c \in Clients, open(c)
  PROVE  IInv'
<1>1. PICK i : Return(c) \/ Ask(c, By("FSREQ_MAP", c, call[c].fd, i), i)
  BY DEF open
<1>2. By("FSREQ_MAP", c, call[c].fd, i).type \in Types
  BY RequestTypes
<1> QED
  BY <1>1, <1>2, AskStep, ReturnStep

(* close reports the pages, then closes, then drops the descriptor. *)
LEMMA CloseStep ==
  ASSUME IInv, NEW c \in Clients, close(c)
  PROVE  IInv'
<1>1. CASE call[c].req.type = "FSREQ_DIRTY"
  <2>1. PICK i, rq : /\ Ask(c, rq, i)
                     /\ rq \in {By("FSREQ_DIRTY", c, call[c].fd, i), By("FSREQ_CLOSE", c, call[c].fd, 0)}
    BY <1>1 DEF close
  <2>2. rq.type \in Types
    BY <2>1, RequestTypes
  <2> QED
    BY <2>1, <2>2, AskStep
<1>2. CASE call[c].req.type # "FSREQ_DIRTY"
  <2> DEFINE k == call[c].fd
  <2>1. /\ Done(c) /\ UNCHANGED <<opentab, filefd, spc, srv, alive>>
        /\ fds' = [fds EXCEPT ![c][k] = NoFd] /\ opened' = [opened EXCEPT ![c][k] = NULL]
    BY <1>2 DEF close, server
  <2>2. Moved
    BY <2>1, DoneMoved
  <2> HIDE DEF k
  <2>3. /\ fds' \in [Clients -> [Fds -> Opens \cup {NoFd}]] /\ alive' \subseteq Clients
        /\ DOMAIN opened' = Clients /\ \A d \in Clients : DOMAIN opened'[d] = Fds
    BY <2>1 DEF IInv, Shapes
  <2>4. \A d \in Clients, fd \in Fds :
          fds'[d][fd] # NoFd => fds'[d][fd] = fds[d][fd] /\ opened'[d][fd] = opened[d][fd]
    BY <2>1 DEF IInv, Shapes
  <2> QED
    BY <2>1, <2>2, <2>3, <2>4, Shared
<1> QED
  BY <1>1, <1>2

(* ftruncate and write, on each of their paths. *)
LEMMA FtruncateStep ==
  ASSUME IInv, NEW c \in Clients, NEW op, ftruncate(c, op)
  PROVE  IInv'
<1> DEFINE k == call[c]
<1>1. \/ Return(c)
      \/ Ask(c, By("FSREQ_SET_SIZE", c, k.fd, k.old), k.i)
      \/ \E i : Ask(c, By("FSREQ_MAP", c, k.fd, i), i)
      \/ /\ Done(c) /\ UNCHANGED <<opentab, spc, srv, alive, fds, opened>>
         /\ \/ \E x, pages : Store(c, k.fd, x, pages)
            \/ UNCHANGED filefd
  BY DEF ftruncate
<1>2. CASE Return(c)
  BY <1>2, ReturnStep
<1>3. CASE Ask(c, By("FSREQ_SET_SIZE", c, k.fd, k.old), k.i)
  <2>1. By("FSREQ_SET_SIZE", c, k.fd, k.old).type \in Types
    BY RequestTypes
  <2> QED
    BY <1>3, <2>1, AskStep
<1>4. CASE \E i : Ask(c, By("FSREQ_MAP", c, k.fd, i), i)
  <2>1. PICK i : Ask(c, By("FSREQ_MAP", c, k.fd, i), i)
    BY <1>4
  <2>2. By("FSREQ_MAP", c, k.fd, i).type \in Types
    BY RequestTypes
  <2> QED
    BY <2>1, <2>2, AskStep
<1>5. CASE /\ Done(c) /\ UNCHANGED <<opentab, spc, srv, alive, fds, opened>>
           /\ \/ \E x, pages : Store(c, k.fd, x, pages)
              \/ UNCHANGED filefd
  <2>1. PagesStay
    BY <1>5, FieldPages DEF Store
  <2> QED
    BY <1>5, <2>1, DoneMoved, Quiet
<1> QED
  BY <1>1, <1>2, <1>3, <1>4, <1>5

(* The calls: a new request, or nothing but a field of the fd page. *)
LEMMA BeginStep ==
  ASSUME IInv, NEW c \in Clients, NEW op, NEW fd, NEW size, NEW old, NEW rq, rq.type \in Types,
         Begin(c, op, fd, size, old, rq), UNCHANGED <<opentab, spc, srv, alive, fds, opened>>, PagesStay
  PROVE  IInv'
  BY BeginMoved, Quiet

(* The local size is set. *)
LEMMA ResizeStep ==
  ASSUME IInv, NEW c \in Clients, NEW fd, NEW op, NEW size, Resize(c, fd, op, size)
  PROVE  IInv'
<1> DEFINE rq == By("FSREQ_SET_SIZE", c, fd, size)
<1>1. rq.type \in Types
  BY RequestTypes
<1>2. /\ Begin(c, op, fd, size, filefd[fds[c][fd]].f_size, rq)
      /\ UNCHANGED <<opentab, spc, srv, alive, fds, opened>>
      /\ filefd' = [filefd EXCEPT ![fds[c][fd]].f_size = size]
  BY DEF Resize
<1>3. PagesStay
  BY <1>2, FieldPages
<1> HIDE DEF rq
<1> QED
  BY <1>1, <1>2, <1>3, BeginStep

(* open starts with the path. *)
LEMMA CallOpenStep ==
  ASSUME IInv, NEW c \in Clients, NEW path, NEW mode, CallOpen(c, path, mode)
  PROVE  IInv'
<1> DEFINE rq == Req("FSREQ_OPEN", path, 0, mode)
<1>1. rq.type \in Types
  BY RequestTypes
<1>2. /\ Begin(c, "open", Min(fd_alloc(c)), 0, 0, rq)
      /\ UNCHANGED <<opentab, filefd, spc, srv, alive, fds, opened>>
  BY DEF CallOpen, server
<1>3. PagesStay
  BY <1>2, FieldPages
<1> HIDE DEF rq
<1> QED
  BY <1>1, <1>2, <1>3, BeginStep

(* close starts with its first page. *)
LEMMA CallCloseStep ==
  ASSUME IInv, NEW c \in Clients, NEW fd, CallClose(c, fd)
  PROVE  IInv'
<1>1. PICK size, rq : /\ Begin(c, "close", fd, size, 0, rq)
                      /\ rq \in {By("FSREQ_DIRTY", c, fd, 0), By("FSREQ_CLOSE", c, fd, 0)}
  BY DEF CallClose
<1>2. rq.type \in Types
  BY <1>1, RequestTypes
<1>3. UNCHANGED <<opentab, filefd, spc, srv, alive, fds, opened>>
  BY DEF CallClose, server
<1>4. PagesStay
  BY <1>3, FieldPages
<1> QED
  BY <1>1, <1>2, <1>3, <1>4, BeginStep

(* remove and sync. *)
LEMMA SimpleCallStep ==
  ASSUME IInv, NEW c \in Clients, NEW path, CallRemove(c, path) \/ CallSync(c)
  PROVE  IInv'
<1> DEFINE rm == Req("FSREQ_REMOVE", path, 0, 0)
           sy == Req("FSREQ_SYNC", <<>>, 0, 0)
<1>1. rm.type \in Types /\ sy.type \in Types
  BY RequestTypes
<1>2. /\ Begin(c, "remove", 0, 0, 0, rm) \/ Begin(c, "sync", 0, 0, 0, sy)
      /\ UNCHANGED <<opentab, filefd, spc, srv, alive, fds, opened>>
  BY DEF CallRemove, CallSync, server
<1>3. PagesStay
  BY <1>2, FieldPages
<1> HIDE DEF rm, sy
<1> QED
  BY <1>1, <1>2, <1>3, BeginStep

(* write within the file, read and seek move the offset. *)
LEMMA TransferStep ==
  ASSUME IInv, NEW c \in Clients, NEW fd \in Fds, CallWrite(c, fd) \/ CallRead(c, fd) \/ seek(c, fd, 0)
  PROVE  IInv'
<1>1. CASE \E tot : Resize(c, fd, "write", tot)
  BY <1>1, ResizeStep
<1>2. CASE ~ \E tot : Resize(c, fd, "write", tot)
  <2>1. UNCHANGED <<opentab, spc, srv, alive, fds, pc, call, opened>>
    BY <1>2 DEF CallWrite, CallRead, seek, clients
  <2>2. \E v : filefd' = [filefd EXCEPT ![fds[c][fd]].fd_offset = v]
    BY <1>2 DEF CallWrite, CallRead, seek, Store
  <2>3. PagesStay
    BY <2>2, FieldPages
  <2> QED
    BY <2>1, <2>3, StayMoved, Quiet
<1> QED
  BY <1>1, <1>2

(* dup makes a second holder of the page. *)
LEMMA DupStep ==
  ASSUME IInv, NEW c \in Clients, NEW old \in Fds, NEW new \in Fds, dup(c, old, new)
  PROVE  IInv'
<1>1. /\ fds' = [fds EXCEPT ![c][new] = fds[c][old]]
      /\ opened' = [opened EXCEPT ![c][new] = opened[c][old]]
      /\ UNCHANGED <<opentab, filefd, spc, srv, alive, pc, call>>
  BY DEF dup, server
<1>2. /\ fds' \in [Clients -> [Fds -> Opens \cup {NoFd}]] /\ alive' \subseteq Clients
      /\ DOMAIN opened' = Clients /\ \A d \in Clients : DOMAIN opened'[d] = Fds
  BY <1>1 DEF IInv, Shapes
<1>3. \A d \in Clients, fd \in Fds :
        \/ fds'[d][fd] = fds[d][fd] /\ opened'[d][fd] = opened[d][fd]
        \/ fds'[d][fd] = fds[c][old] /\ opened'[d][fd] = opened[c][old]
  BY <1>1 DEF IInv, Shapes
<1>4. Moved
  BY <1>1, StayMoved
<1> QED
  BY <1>1, <1>2, <1>3, <1>4, Shared

(* fork makes the child a holder of every page. *)
LEMMA ForkStep ==
  ASSUME IInv, NEW c \in Clients, NEW d \in Clients, fork(c, d)
  PROVE  IInv'
<1>1. /\ fds' = [fds EXCEPT ![d] = fds[c]] /\ opened' = [opened EXCEPT ![d] = opened[c]]
      /\ alive' = alive \cup {d} /\ UNCHANGED <<opentab, filefd, spc, srv, pc, call>>
  BY DEF fork, server
<1>2. /\ fds' \in [Clients -> [Fds -> Opens \cup {NoFd}]] /\ alive' \subseteq Clients
      /\ DOMAIN opened' = Clients /\ \A e \in Clients : DOMAIN opened'[e] = Fds
  BY <1>1 DEF IInv, Shapes
<1>3. \A e \in Clients, fd \in Fds :
        \/ fds'[e][fd] = fds[e][fd] /\ opened'[e][fd] = opened[e][fd]
        \/ fds'[e][fd] = fds[c][fd] /\ opened'[e][fd] = opened[c][fd]
  BY <1>1 DEF IInv, Shapes
<1>4. Moved
  BY <1>1, StayMoved
<1> QED
  BY <1>1, <1>2, <1>3, <1>4, Shared

(* A destroyed client holds nothing. *)
LEMMA DestroyStep ==
  ASSUME IInv, NEW c \in Clients, env_destroy(c)
  PROVE  IInv'
<1> DEFINE none == [fd \in Fds |-> NoFd]
           null == [fd \in Fds |-> NULL]
<1>1. /\ fds' = [fds EXCEPT ![c] = none] /\ opened' = [opened EXCEPT ![c] = null]
      /\ alive' = alive \ {c} /\ Done(c) /\ UNCHANGED <<opentab, filefd, spc, srv>>
  BY DEF env_destroy, server
<1>2. /\ none \in [Fds -> Opens \cup {NoFd}] /\ DOMAIN null = Fds
      /\ \A fd \in Fds : none[fd] = NoFd
  OBVIOUS
<1> HIDE DEF none, null
<1>3. /\ fds' \in [Clients -> [Fds -> Opens \cup {NoFd}]] /\ alive' \subseteq Clients
      /\ DOMAIN opened' = Clients /\ \A e \in Clients : DOMAIN opened'[e] = Fds
  BY <1>1, <1>2 DEF IInv, Shapes
<1>4. \A e \in Clients, fd \in Fds :
        fds'[e][fd] # NoFd => fds'[e][fd] = fds[e][fd] /\ opened'[e][fd] = opened[e][fd]
  BY <1>1, <1>2 DEF IInv, Shapes
<1>5. Moved
  BY <1>1, DoneMoved
<1> QED
  BY <1>1, <1>3, <1>4, <1>5, Shared

----------------------------------------------------------------------------
(* The theorem *)

(* The invariant holds when the server starts. *)
LEMMA HandlesInit == Init => IInv
<1> SUFFICES ASSUME Init PROVE IInv
  OBVIOUS
<1>1. MAXOPEN \in Nat /\ MAXOPEN > 0 /\ Opens = 0..(MAXOPEN - 1) /\ First \in Clients
  BY TableSizes, FsServerAssumption DEF Opens
<1>2. Shapes
  BY <1>1 DEF Init, serve_init, Idle, NoCall, Shapes
<1>3. Ids
  <2> SUFFICES ASSUME NEW i \in Opens
               PROVE  opentab[i].o_fileid \in Nat /\ opentab[i].o_fileid % MAXOPEN = i
    BY DEF Ids
  <2>1. opentab[i].o_fileid = i
    BY DEF Init, serve_init
  <2>2. i \in Nat /\ i < MAXOPEN
    BY <1>1
  <2>3. i % MAXOPEN = i
    BY ONLY <1>1, <2>2, ModSmall
  <2> QED
    BY <2>1, <2>2, <2>3
<1>4. Handles
  BY DEF Init, Handles
<1>5. Replying /\ Requests
  BY DEF Init, Replying, Requests
<1> QED
  BY <1>2, <1>3, <1>4, <1>5 DEF IInv

(* Every step keeps it. *)
LEMMA HandlesStep == IInv /\ [Next]_vars => IInv'
<1> SUFFICES ASSUME IInv, [Next]_vars PROVE IInv'
  OBVIOUS
<1>1. CASE UNCHANGED vars
  <2>1. UNCHANGED <<opentab, filefd, spc, srv, alive, fds, opened, pc, call>>
    BY <1>1 DEF vars, server, clients
  <2> QED
    BY <2>1, StayMoved, FieldPages, Quiet
<1>2. CASE Serve \/ Reply
  BY <1>2, ServeStep, ReplyStep
<1>3. ASSUME NEW c \in Clients, Send(c) \/ Step(c) PROVE IInv'
  <2>1. CASE Send(c)
    BY <2>1, SendStep
  <2>2. CASE Recv(c) \/ open(c) \/ close(c)
    BY <2>2, RecvStep, OpenStep, CloseStep
  <2>3. CASE ftruncate(c, "ftruncate") \/ ftruncate(c, "write")
    BY <2>3, FtruncateStep
  <2>4. CASE Simple(c, "remove") \/ Simple(c, "sync")
    BY <2>4, ReturnStep DEF Simple
  <2> QED
    BY <1>3, <2>1, <2>2, <2>3, <2>4 DEF Step
<1>4. ASSUME NEW c \in Clients, Choice(c) PROVE IInv'
  <2>1. CASE \E path \in Paths : CallRemove(c, path) \/ \E mode \in Modes : CallOpen(c, path, mode)
    BY <2>1, CallOpenStep, SimpleCallStep
  <2>2. CASE \E fd \in Fds : CallClose(c, fd)
    BY <2>2, CallCloseStep
  <2>3. CASE \E fd \in Fds : CallWrite(c, fd) \/ CallRead(c, fd) \/ seek(c, fd, 0)
    BY <2>3, TransferStep
  <2>4. CASE \E fd \in Fds, size \in Sizes : CallFtruncate(c, fd, size)
    BY <2>4, ResizeStep DEF CallFtruncate
  <2>5. CASE \E fd \in Fds, new \in Fds : dup(c, fd, new)
    BY <2>5, DupStep
  <2>6. CASE CallSync(c)
    BY <2>6, SimpleCallStep
  <2>7. CASE \E d \in Clients : fork(c, d)
    BY <2>7, ForkStep
  <2>8. CASE env_destroy(c)
    BY <2>8, DestroyStep
  <2> QED
    BY <1>4, <2>1, <2>2, <2>3, <2>4, <2>5, <2>6, <2>7, <2>8 DEF Choice
<1> QED
  BY <1>1, <1>2, <1>3, <1>4 DEF Next

(* A slot that is held is found by its id. *)
LEMMA HandlesHold == IInv => HandlesResolve
<1> SUFFICES ASSUME IInv, NEW c \in alive, NEW fd \in Fds, fds[c][fd] # NoFd
             PROVE  /\ opentab[fds[c][fd]].o_file = opened[c][fd]
                    /\ open_lookup(filefd[fds[c][fd]].f_fileid) = fds[c][fd]
  BY DEF HandlesResolve
<1>1. PICK i \in Opens : i = fds[c][fd]
  BY DEF IInv, Shapes
<1>2. c \in Clients
  BY DEF IInv, Shapes
<1>3. /\ opentab[i].page = TRUE /\ filefd[i].f_fileid = opentab[i].o_fileid
      /\ opentab[i].o_file = opened[c][fd]
  BY <1>1, <1>2 DEF IInv, Handles, Paged
<1>4. opentab[i].o_fileid % MAXOPEN = i
  BY DEF IInv, Ids
<1>5. <<c, fd>> \in Holders(i)
  BY <1>1, <1>2 DEF Holders
<1>6. pageref(i) # 1
  <2>1. Holders(i) # {}
    BY <1>5
  <2>2. pageref(i) \in Nat /\ pageref(i) > 1
    BY <1>3, <2>1, Referenced
  <2> QED
    BY <2>2
<1> QED
  BY <1>1, <1>3, <1>4, <1>6 DEF open_lookup

(* For any number of clients, descriptors and slots, whatever files are       *)
(* opened, resized, removed or lost with a destroyed client in between: a     *)
(* descriptor that a client has stands for the file it was opened for, and    *)
(* the server finds its slot by the id in the fd page.                        *)
THEOREM HandlesCorrect == Spec => []HandlesResolve
<1>1. Init => IInv
  BY HandlesInit
<1>2. IInv /\ [Next]_vars => IInv'
  BY HandlesStep
<1>3. IInv => HandlesResolve
  BY HandlesHold
<1> QED
  BY <1>1, <1>2, <1>3, PTL DEF Spec
=============================================================================
