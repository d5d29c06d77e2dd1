-------------------------------- MODULE Pipe --------------------------------
(***************************************************************************)
(* A pipe (user/lib/pipe.c) shared by several envs through fork, dup and   *)
(* close (user/lib/fork.c, user/lib/fd.c).                                 *)
(*                                                                         *)
(* A pipe is three pages: the struct Fd of its read end ("r"), that of its *)
(* write end ("w") and the struct Pipe.  Descriptor s of an env maps one   *)
(* of the Fd pages at INDEX2FD(s) and the Pipe page at INDEX2DATA(s).  The *)
(* envs learn whether the other end is closed only by comparing the        *)
(* reference counts of these pages, which other envs change one system     *)
(* call at a time.                                                         *)
(*                                                                         *)
(* Library code is preemptible: one action is one system call, or the code *)
(* between two accesses to shared memory.                                  *)
(***************************************************************************)
EXTENDS Integers, Sequences, FiniteSets

CONSTANTS
  Envs,      \* the envs that may come to share the pipe
  Creator,   \* the env that calls pipe()
  NFD,       \* number of descriptors of an env
  NONE,      \* no page is mapped
  BY2PIPE,   \* size of p_buf
  POS_MOD,   \* number of values of the u_int positions p_rpos and p_wpos
  Readers, Writers, Dupers, \* the envs that call read, write and dup
  MaxCount,  \* bound: largest n of read and write
  MaxBytes,  \* bound: how many bytes are ever written
  LateFork   \* does an env fork while others hold the ends it holds?

ASSUME PipeAssumption ==
  /\ IsFiniteSet(Envs) /\ Creator \in Envs
  /\ NFD \in Nat /\ NFD >= 2
  /\ NONE \notin {"r", "w"}
  /\ BY2PIPE \in Nat \ {0} /\ POS_MOD \in Nat /\ POS_MOD > BY2PIPE
  /\ POS_MOD % BY2PIPE = 0
  /\ Readers \subseteq Envs /\ Writers \subseteq Envs /\ Dupers \subseteq Envs
  /\ MaxCount \in Nat /\ MaxBytes \in Nat
  /\ LateFork \in BOOLEAN

Ends  == {"r", "w"}
Slots == 0..(NFD - 1)

VARIABLES
  fdmap,    \* fdmap[e][s]: the Fd page mapped at INDEX2FD(s), or NONE
  data,     \* data[e]: the s with the Pipe page mapped at INDEX2DATA(s)
  state,    \* "free", "forked" (not yet runnable), "alive" or "dead"
  frame,    \* the library call an env is in, with its local variables
  curenv,   \* the env that has the CPU
  p_rpos, p_wpos, p_buf,
  sent, received  \* history: number of bytes written and read

maps == <<fdmap, data, state>>
pipe == <<p_rpos, p_wpos, p_buf, sent, received>>
vars == <<maps, frame, curenv, pipe>>

(* fd and new are descriptors, i counts the bytes transferred, of n.  pos  *)
(* is the position a transfer has loaded, byte the byte it moves; fd_ref   *)
(* what _pipe_is_closed has read; rerun tells that env_runs has changed    *)
(* since it was read.  cut is history: an interrupt has come between the   *)
(* store of the position and the access to the byte, in this read or in    *)
(* the write of the byte it reads.                                         *)
Idle == [op |-> "none", pc |-> "idle", fd |-> 0, new |-> 0, child |-> Creator, n |-> 0,
         i |-> 0, pos |-> 0, byte |-> 0, cut |-> FALSE, fd_ref |-> 0, rerun |-> FALSE]

(* After pipe() has returned 0 and 1, the lowest descriptors, to Creator. *)
Init ==
  /\ fdmap = [e \in Envs |-> [s \in Slots |->
                IF e = Creator THEN CASE s = 0 -> "r" [] s = 1 -> "w" [] OTHER -> NONE
                ELSE NONE]]
  /\ data = [e \in Envs |-> IF e = Creator THEN {0, 1} ELSE {}]
  /\ state = [e \in Envs |-> IF e = Creator THEN "alive" ELSE "free"]
  /\ frame = [e \in Envs |-> Idle]
  /\ curenv = Creator
  /\ p_rpos = 0 /\ p_wpos = 0 /\ p_buf = [k \in 0..(BY2PIPE - 1) |-> 0]
  /\ sent = 0 /\ received = 0

----------------------------------------------------------------------------
(* Running *)

Alive == {e \in Envs : state[e] = "alive"}

(* e executes the statement at pc of its call. *)
At(e, pc) == curenv = e /\ state[e] = "alive" /\ frame[e].pc = pc

Goto(e, pc) == frame' = [frame EXCEPT ![e].pc = pc]

Call(e, op, pc, fd, new, n) ==
  /\ At(e, "idle")
  /\ frame' = [frame EXCEPT ![e] = [Idle EXCEPT !.op = op, !.pc = pc, !.fd = fd,
                                                !.new = new, !.n = n]]

Return(e) == frame' = [frame EXCEPT ![e] = Idle]

(* env_run(e), called when the frames are fr: e runs, and its env_runs is   *)
(* incremented, which only _pipe_is_closed looks at.                        *)
env_run(e, fr) ==
  /\ curenv' = e
  /\ frame' = [fr EXCEPT ![e].rerun = fr[e].pc = "check_pipe"]

(* schedule(1), called by e: another env runs, unless there is none. *)
Yield(e, fr) == \E f \in IF Alive \subseteq {e} THEN {e} ELSE Alive \ {e} : env_run(f, fr)

(* e has advanced p_rpos past a byte it is yet to read: to let another env  *)
(* run now cuts the transfer.                                               *)
Exposed(e) == frame[e].op = "read" /\ frame[e].pc = "byte"

Interrupted(e) == [frame EXCEPT ![curenv].cut = @ \/ (e # curenv /\ Exposed(curenv))]

(* A timer interrupt, after which e runs. *)
timer_irq(e) ==
  /\ state[e] = "alive"
  /\ env_run(e, Interrupted(e))
  /\ UNCHANGED <<maps, pipe>>

----------------------------------------------------------------------------
(* Closing and duplicating descriptors *)

(* pipe_close unmaps the Fd page, then the Pipe page. *)
close(e, s) ==
  /\ fdmap[e][s] # NONE
  /\ Call(e, "close", "close_fd", s, s, 0)
  /\ UNCHANGED <<maps, curenv, pipe>>

close_fd(e) ==
  /\ At(e, "close_fd")
  /\ fdmap' = [fdmap EXCEPT ![e][frame[e].new] = NONE]
  /\ Goto(e, "close_data")
  /\ UNCHANGED <<data, state, curenv, pipe>>

(* Slip: the Pipe page stays mapped. *)
close_data_Leaks(e) ==
  /\ At(e, "close_data")
  /\ \/ frame[e].op = "close" /\ Return(e)
     \/ frame[e].op = "dup" /\ Goto(e, "dup_data")
     \/ frame[e].op = "exit" /\ Goto(e, "exit")
  /\ UNCHANGED <<maps, curenv, pipe>>

close_data(e) ==
  /\ At(e, "close_data")
  /\ data' = [data EXCEPT ![e] = @ \ {frame[e].new}]
  /\ \/ frame[e].op = "close" /\ Return(e)
     \/ frame[e].op = "dup" /\ Goto(e, "dup_data")
     \/ frame[e].op = "exit" /\ Goto(e, "exit")
  /\ UNCHANGED <<fdmap, state, curenv, pipe>>

(* dup closes new if it is open, maps the Pipe page, then the Fd page. *)
dup(e, old, new) ==
  /\ fdmap[e][old] # NONE
  /\ Call(e, "dup", IF fdmap[e][new] # NONE THEN "close_fd" ELSE "dup_data", old, new, 0)
  /\ UNCHANGED <<maps, curenv, pipe>>

dup_data(e) ==
  /\ At(e, "dup_data")
  /\ data' = [data EXCEPT ![e] = IF frame[e].fd \in @ THEN @ \cup {frame[e].new} ELSE @]
  /\ Goto(e, "dup_fd")
  /\ UNCHANGED <<fdmap, state, curenv, pipe>>

dup_fd(e) ==
  /\ At(e, "dup_fd")
  /\ fdmap' = [fdmap EXCEPT ![e][frame[e].new] = fdmap[e][frame[e].fd]]
  /\ Return(e)
  /\ UNCHANGED <<data, state, curenv, pipe>>

----------------------------------------------------------------------------
(* Processes *)

(* No other env holds an end that e holds. *)
SoleHolder(e) ==
  \A f \in Envs \ {e}, s, t \in Slots : fdmap[e][s] # NONE => fdmap[f][t] # fdmap[e][s]

(* fork maps the pages of e into the child c in the order of their          *)
(* addresses: the Fd pages lie below the Pipe pages.  spawn shares the      *)
(* descriptors in the same order.                                           *)
fork(e, c) ==
  /\ state[c] = "free"
  /\ LateFork \/ SoleHolder(e)
  /\ At(e, "idle")
  /\ frame' = [frame EXCEPT ![e] = [Idle EXCEPT !.op = "fork", !.pc = "fork", !.child = c]]
  /\ state' = [state EXCEPT ![c] = "forked"]
  /\ UNCHANGED <<fdmap, data, curenv, pipe>>

FdsLeft(e)   == {s \in Slots : fdmap[e][s] # NONE /\ fdmap[frame[e].child][s] = NONE}
DataLeft(e)  == data[e] \ data[frame[e].child]
First(s, ss) == s \in ss /\ \A t \in ss : s <= t

fork_fd(e) ==
  /\ At(e, "fork")
  /\ \E s \in Slots :
       /\ First(s, FdsLeft(e))
       /\ fdmap' = [fdmap EXCEPT ![frame[e].child][s] = fdmap[e][s]]
  /\ UNCHANGED <<data, state, frame, curenv, pipe>>

fork_data(e) ==
  /\ At(e, "fork")
  /\ FdsLeft(e) = {}
  /\ \E s \in Slots :
       /\ First(s, DataLeft(e))
       /\ data' = [data EXCEPT ![frame[e].child] = @ \cup {s}]
  /\ UNCHANGED <<fdmap, state, frame, curenv, pipe>>

fork_start(e) ==
  /\ At(e, "fork")
  /\ FdsLeft(e) = {} /\ DataLeft(e) = {}
  /\ state' = [state EXCEPT ![frame[e].child] = "alive"]
  /\ Return(e)
  /\ UNCHANGED <<fdmap, data, curenv, pipe>>

(* exit closes every descriptor, the lowest first, then destroys the env. *)
exit(e) ==
  /\ Call(e, "exit", "exit", 0, 0, 0)
  /\ UNCHANGED <<maps, curenv, pipe>>

exit_close(e) ==
  /\ At(e, "exit")
  /\ \E s \in Slots :
       /\ First(s, {t \in Slots : fdmap[e][t] # NONE})
       /\ frame' = [frame EXCEPT ![e].pc = "close_fd", ![e].new = s]
  /\ UNCHANGED <<maps, curenv, pipe>>

exit_destroy(e) ==
  /\ At(e, "exit")
  /\ \A s \in Slots : fdmap[e][s] = NONE
  /\ state' = [state EXCEPT ![e] = "dead"]
  /\ data' = [data EXCEPT ![e] = {}]
  /\ Yield(e, [frame EXCEPT ![e] = Idle])
  /\ UNCHANGED <<fdmap, pipe>>

----------------------------------------------------------------------------
(* _pipe_is_closed *)

pageref(page) ==
  Cardinality(IF page = "pipe" THEN {x \in Envs \X Slots : x[2] \in data[x[1]]}
              ELSE {x \in Envs \X Slots : fdmap[x[1]][x[2]] = page})

pipe_is_closed(e, s) ==
  /\ fdmap[e][s] # NONE
  /\ Call(e, "is_closed", "check_fd", s, s, 0)
  /\ UNCHANGED <<maps, curenv, pipe>>

(* 'runs = env->env_runs; fd_ref = pageref(fd);' *)
check_fd(e) ==
  /\ At(e, "check_fd")
  /\ frame' = [frame EXCEPT ![e].pc = "check_pipe", ![e].rerun = FALSE,
                            ![e].fd_ref = pageref(fdmap[e][frame[e].fd])]
  /\ UNCHANGED <<maps, curenv, pipe>>

(* _pipe_is_closed goes on at pc, its locals are of no use any more. *)
Checked(e, pc) == frame' = [frame EXCEPT ![e].pc = pc, ![e].fd_ref = 0, ![e].rerun = FALSE]

(* Slip: the counts are used although env_runs has changed. *)
check_pipe_NoRetry(e) ==
  /\ At(e, "check_pipe")
  /\ Checked(e, IF frame[e].fd_ref = pageref("pipe") THEN "closed" ELSE "open")
  /\ UNCHANGED <<maps, curenv, pipe>>

(* 'pipe_ref = pageref(p);' and the test of the loop. *)
check_pipe(e) ==
  /\ At(e, "check_pipe")
  /\ Checked(e, IF frame[e].rerun THEN "check_fd"
                ELSE IF frame[e].fd_ref = pageref("pipe") THEN "closed" ELSE "open")
  /\ UNCHANGED <<maps, curenv, pipe>>

(* The caller is told that the pipe is closed: it returns. *)
closed(e) ==
  /\ At(e, "closed")
  /\ Return(e)
  /\ UNCHANGED <<maps, curenv, pipe>>

(* The pipe is open: pipe_is_closed returns 0, read and write yield. *)
open(e) ==
  /\ At(e, "open")
  /\ IF frame[e].op = "is_closed"
       THEN Return(e) /\ UNCHANGED curenv
       ELSE Yield(e, [frame EXCEPT ![e].pc = "loop"])
  /\ UNCHANGED <<maps, pipe>>

----------------------------------------------------------------------------
(* read and write *)

read(e, s, n) ==
  /\ fdmap[e][s] = "r"
  /\ Call(e, "read", "loop", s, s, n)
  /\ UNCHANGED <<maps, curenv, pipe>>

write(e, s, n) ==
  /\ fdmap[e][s] = "w"
  /\ sent + n <= MaxBytes
  /\ Call(e, "write", "loop", s, s, n)
  /\ UNCHANGED <<maps, curenv, pipe>>

(* Slip: the test is off by one. *)
Full_OffByOne == (p_wpos - p_rpos) % POS_MOD > BY2PIPE

Empty == p_rpos >= p_wpos
Full  == (p_wpos - p_rpos) % POS_MOD >= BY2PIPE

(* Slip: the loop transfers one byte too many. *)
loop_write_OffByOne(e) ==
  /\ At(e, "loop") /\ frame[e].op = "write"
  /\ IF frame[e].i > frame[e].n
       THEN Return(e)
       ELSE Goto(e, IF Full THEN "check_fd" ELSE "copy")
  /\ UNCHANGED <<maps, curenv, pipe>>

(* The head of the loops of pipe_read and pipe_write. *)
loop_read(e) ==
  /\ At(e, "loop") /\ frame[e].op = "read"
  /\ IF frame[e].i = frame[e].n \/ (Empty /\ frame[e].i > 0)
       THEN Return(e)
       ELSE Goto(e, IF Empty THEN "check_fd" ELSE "copy")
  /\ UNCHANGED <<maps, curenv, pipe>>

loop_write(e) ==
  /\ At(e, "loop") /\ frame[e].op = "write"
  /\ IF frame[e].i = frame[e].n
       THEN Return(e)
       ELSE Goto(e, IF Full THEN "check_fd" ELSE "copy")
  /\ UNCHANGED <<maps, curenv, pipe>>

(* 'rbuf[i++] = p->p_buf[(p->p_rpos++) % BY2PIPE]' (pipe_read), and the same *)
(* in pipe_write: C does not say which comes first, the access to the byte   *)
(* or the store of the position, and compilers differ; so either may.  The   *)
(* position is loaded by a step of its own, and the one stored is that + 1.  *)
fetch_read(e) ==
  /\ At(e, "copy") /\ frame[e].op = "read"
  /\ frame' = [frame EXCEPT ![e].pc = "move", ![e].pos = p_rpos, ![e].byte = 0, ![e].cut = FALSE]
  /\ UNCHANGED <<maps, curenv, pipe>>

fetch_write(e) ==
  /\ At(e, "copy") /\ frame[e].op = "write"
  /\ frame' = [frame EXCEPT ![e].pc = "move", ![e].pos = p_wpos, ![e].byte = sent]
  /\ UNCHANGED <<maps, curenv, pipe>>

(* Position first: the access to the byte is left.  Byte first: the position. *)
Advanced(pc) == IF pc = "move" THEN "byte" ELSE "loop"
Accessed(pc) == IF pc = "move" THEN "advance" ELSE "loop"

advance_read(e) ==
  /\ At(e, "move") \/ At(e, "advance")
  /\ frame[e].op = "read"
  /\ p_rpos' = (frame[e].pos + 1) % POS_MOD
  /\ received' = received + 1
  /\ frame' = [frame EXCEPT ![e].pc = Advanced(@), ![e].i = @ + 1]
  /\ UNCHANGED <<maps, curenv, p_wpos, p_buf, sent>>

advance_write(e) ==
  /\ At(e, "move") \/ At(e, "advance")
  /\ frame[e].op = "write"
  /\ p_wpos' = (frame[e].pos + 1) % POS_MOD
  /\ sent' = sent + 1
  /\ frame' = [frame EXCEPT ![e].pc = Advanced(@), ![e].i = @ + 1]
  /\ UNCHANGED <<maps, curenv, p_rpos, p_buf, received>>

(* The writers that have stored a position past pos, and not yet its byte. *)
Storing(pos) ==
  {f \in Envs : frame[f].op = "write" /\ frame[f].pc = "byte" /\ frame[f].pos = pos}

(* Slip: '++p->p_rpos' for 'p->p_rpos++'. *)
load_byte_PreIncrement(e) ==
  /\ At(e, "move") \/ At(e, "byte")
  /\ frame[e].op = "read"
  /\ frame' = [frame EXCEPT ![e].pc = Accessed(@),
                            ![e].byte = p_buf[(frame[e].pos + 1) % BY2PIPE],
                            ![e].cut = @ \/ Storing(frame[e].pos) # {}]
  /\ UNCHANGED <<maps, curenv, pipe>>

load_byte(e) ==
  /\ At(e, "move") \/ At(e, "byte")
  /\ frame[e].op = "read"
  /\ frame' = [frame EXCEPT ![e].pc = Accessed(@),
                            ![e].byte = p_buf[frame[e].pos % BY2PIPE],
                            ![e].cut = @ \/ Storing(frame[e].pos) # {}]
  /\ UNCHANGED <<maps, curenv, pipe>>

store_byte(e) ==
  /\ At(e, "move") \/ At(e, "byte")
  /\ frame[e].op = "write"
  /\ p_buf' = [p_buf EXCEPT ![frame[e].pos % BY2PIPE] = frame[e].byte]
  /\ Goto(e, Accessed(frame[e].pc))
  /\ UNCHANGED <<maps, curenv, p_rpos, p_wpos, sent, received>>

----------------------------------------------------------------------------
(* What a program may call, and the steps of the call it is in. *)
Program(e) ==
  \/ \E s \in Slots : close(e, s) \/ pipe_is_closed(e, s)
  \/ e \in Dupers /\ \E s, t \in Slots : dup(e, s, t)
  \/ \E c \in Envs : fork(e, c)
  \/ exit(e)
  \/ \E s \in Slots, n \in 1..MaxCount :
       (e \in Readers /\ read(e, s, n)) \/ (e \in Writers /\ write(e, s, n))

Step(e) ==
  \/ close_fd(e) \/ close_data(e) \/ dup_data(e) \/ dup_fd(e)
  \/ fork_fd(e) \/ fork_data(e) \/ fork_start(e) \/ exit_close(e) \/ exit_destroy(e)
  \/ check_fd(e) \/ check_pipe(e) \/ closed(e) \/ open(e)
  \/ loop_read(e) \/ loop_write(e) \/ fetch_read(e) \/ fetch_write(e)
  \/ advance_read(e) \/ advance_write(e) \/ load_byte(e) \/ store_byte(e)

Next == \E e \in Envs : timer_irq(e) \/ Program(e) \/ Step(e)

Spec == Init /\ [][Next]_vars

(* The scheduler runs every env again and again (EnvSched!NoStarvation), a  *)
(* time slice is long enough to make progress, and not every round of the   *)
(* loop of _pipe_is_closed is interrupted.                                  *)
Fairness ==
  \A e \in Envs :
    /\ WF_vars(timer_irq(e))
    /\ SF_vars(Step(e))
    /\ SF_vars(check_pipe(e) /\ ~frame[e].rerun)

FairSpec == Spec /\ Fairness

----------------------------------------------------------------------------
(* Properties *)

Ops == {"none", "close", "dup", "fork", "exit", "is_closed", "read", "write"}
PCs == {"idle", "close_fd", "close_data", "dup_data", "dup_fd", "fork", "exit",
        "check_fd", "check_pipe", "closed", "open", "loop", "copy", "move", "byte", "advance"}

(* Every variable keeps its type; a call never transfers more bytes than it *)
(* was asked to.                                                            *)
TypeOK ==
  /\ fdmap \in [Envs -> [Slots -> Ends \cup {NONE}]]
  /\ data \in [Envs -> SUBSET Slots]
  /\ state \in [Envs -> {"free", "forked", "alive", "dead"}]
  /\ frame \in [Envs -> [op : Ops, pc : PCs, fd : Slots, new : Slots, child : Envs,
                         n : 0..MaxCount, i : 0..MaxCount, pos : 0..(POS_MOD - 1),
                         byte : Nat, cut : BOOLEAN, fd_ref : Nat, rerun : BOOLEAN]]
  /\ \A e \in Envs : frame[e].i <= frame[e].n
  /\ curenv \in Envs
  /\ p_rpos \in 0..(POS_MOD - 1) /\ p_wpos \in 0..(POS_MOD - 1)
  /\ p_buf \in [0..(BY2PIPE - 1) -> Nat]
  /\ sent \in Nat /\ received \in Nat

Holders(end) == {x \in Envs \X Slots : fdmap[x[1]][x[2]] = end}
Peer(end)    == IF end = "r" THEN "w" ELSE "r"

(* 'Return 1 if pipe is closed. Return 0 if pipe isn't closed.' (user/lib/ *)
(* pipe.c): when _pipe_is_closed has found equal reference counts, no env  *)
(* holds the other end, however the dups, closes and forks of all envs     *)
(* interleave with its two reads.  testpiperace.c looks for this race.     *)
ClosedMeansNoPeer ==
  \A e \in Envs : frame[e].pc = "closed" => Holders(Peer(fdmap[e][frame[e].fd])) = {}

(* The last byte e has read is the next one of the stream: received counts  *)
(* it already.                                                              *)
InOrder(e) ==
  frame[e].op = "read" /\ frame[e].pc = "loop" /\ frame[e].i > 0
    => frame[e].byte = received - 1

(* A reader takes the bytes as they were written: none is lost, repeated,   *)
(* reordered or overwritten before it is read, wherever the reader and the  *)
(* writer interrupt each other, but in one place: between the store of the  *)
(* position and the access to the byte, if the compiler puts them in this   *)
(* order (cut).                                                             *)
BytesInOrder == \A e \in Envs : frame[e].cut \/ InOrder(e)

(* Without the exception: the reader gets what the writer has written,      *)
(* which user/testpipe.c takes for granted ('if (strcmp(buf, msg) == 0)').  *)
EveryByteInOrder == \A e \in Envs : InOrder(e)

(* 'The return value must be greater than 0, unless the pipe is closed and  *)
(* nothing has been written since the last read' (pipe_read): a read that   *)
(* returns 0 leaves nothing behind in the buffer.                           *)
EofMeansDrained ==
  \A e \in Envs :
    frame[e].op = "read" /\ frame[e].pc = "closed" /\ frame[e].i = 0 => p_rpos = p_wpos

(* The bytes between the two positions: the one at pos is in p_buf, or      *)
(* still in the hand of the writer that has advanced p_wpos past it.        *)
ByteAt(pos) ==
  IF Storing(pos) # {} THEN frame[CHOOSE f \in Storing(pos) : TRUE].byte
                       ELSE p_buf[pos % BY2PIPE]

Buffered ==
  [k \in 1..((p_wpos - p_rpos) % POS_MOD) |-> ByteAt((p_rpos + k - 1) % POS_MOD)]

Stream == INSTANCE Channel WITH Capacity <- BY2PIPE, chan <- Buffered

(* Seen by one writer and one reader, the two positions, the circular       *)
(* buffer and the byte being stored are a queue of at most BY2PIPE bytes,   *)
(* in either order of the stores: no byte in the queue is overwritten, and  *)
(* one leaves it for each that is read.  Whether the reader finds it in     *)
(* p_buf already, or still, is for BytesInOrder to say.                     *)
IsChannel == Stream!Spec

(* A read returns once there are bytes to read or the last writer is gone,  *)
(* a write once the last reader is gone: 'keep yielding until the buffer    *)
(* isn't full or the pipe is closed', and no longer.                        *)
BlockedCallsReturn ==
  /\ \A e \in Readers :
       (frame[e].op = "read" /\ (p_rpos # p_wpos \/ Holders("w") = {}))
         ~> frame[e].op # "read"
  /\ \A e \in Writers :
       (frame[e].op = "write" /\ Holders("r") = {}) ~> frame[e].op # "write"

=============================================================================
