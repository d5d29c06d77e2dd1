----------------------------- MODULE ShellProofs -----------------------------
(* Proofs about module Shell: the types, the descriptors that a program       *)
(* starts with, who waits for whom, and what the ELF loader loads.            *)
EXTENDS Shell, CommonLemmas

----------------------------------------------------------------------------
(* The types *)

Sts     == {"FREE", "NOT_RUNNABLE", "RUNNABLE"}
Pcs     == {"none", "prompt", "wait", "parse", "plumb", "parsed", "open", "header", "exofork", "stack",
            "load", "close", "share", "status", "err", "err1", "err2", "close_all", "wait1", "wait2",
            "exit", "main", "read", "write", "down"}
Fd(k)   == [dev : Devs, n : 0..k]
Table(k) == [Fdnum -> Fd(k)]
Op      == [op : {"dup", "close"}, f : Fdnum, g : Fdnum]
Todo    == Seq(Op)
Toks    == Seq(STRING)
Args    == 0..MAXARGS
Progs   == STRING \cup {""}
Right   == 0..NPROC
Kid     == -1..NPROC

(* A process, when k pipes have been made. *)
Rec(k) ==
  [st : Sts, pc : Pcs, fds : Table(k), toks : Toks, todo : Todo, argc : Args, prog : Progs,
   fd : Fdnum, right : Right, kid : Kid, n : Nat]

Used == [proc : Procs, lines : 0..NLINE]

Types ==
  /\ proc \in [Procs -> Rec(Len(pipes))]
  /\ pipes \in Seq(0..CAP)
  /\ used \in Used

----------------------------------------------------------------------------
(* The descriptors, and the env that spawn makes *)

(* Nothing is open but 0 and 1. *)
Std(fds) == \A f \in Fdnum : f \notin {0, 1} => fds[f] = None

StdPcs   == {"none", "prompt", "wait", "parse", "parsed", "open", "share", "status", "err2", "close_all",
             "wait1", "main", "read", "write"}
FilePcs  == {"header", "exofork", "stack", "load", "close", "err1", "err"}
SpawnPcs == {"stack", "load", "close", "share", "status", "err1", "err2"}

(* Both ends of the new pipe will be closed. *)
Plumbing(r) ==
  /\ \A f \in Fdnum : f \notin {0, 1} /\ r.fds[f] # None => \E j \in 1..Len(r.todo) : r.todo[j] = Close(f)
  /\ \A j \in 1..Len(r.todo) : r.todo[j].op = "dup" => r.todo[j].g \in {0, 1}

Local(r) ==
  /\ r.st # "RUNNABLE" => r.pc = "none"
  /\ r.pc \in StdPcs => Std(r.fds)
  /\ r.pc \in FilePcs => \A f \in Fdnum : f \notin {0, 1} /\ r.fds[f] # None => f = r.fd
  /\ r.pc = "plumb" => Plumbing(r)
  /\ r.pc \in SpawnPcs => r.kid >= 0 /\ (r.pc # "err1" => r.kid > 0)
  /\ r.pc = "write" /\ r.prog = "echo" => r.n > 0
  /\ r.pc = "read" => r.prog # "echo"

(* The env that spawn is making does not run, and is nobody else's. *)
Kids ==
  \A p \in Procs : proc[p].pc \in SpawnPcs /\ proc[p].kid > 0 => proc[proc[p].kid].st = "NOT_RUNNABLE"

Distinct ==
  \A p, q \in Procs :
    proc[p].pc \in SpawnPcs /\ proc[p].kid > 0 /\ proc[q].pc \in SpawnPcs /\ proc[q].kid = proc[p].kid
      => p = q

Unused == \A p \in Procs : p > used.proc => proc[p].st = "FREE"

IInv == Types /\ (\A p \in Procs : Local(proc[p])) /\ Kids /\ Distinct /\ Unused

----------------------------------------------------------------------------
(* The constants *)

(* The types of the constants. *)
LEMMA Numbers ==
  /\ NLINE \in Nat /\ NPROC \in Nat /\ NPROC > 0 /\ MAXARGS \in Nat /\ MAXARGS > 0 /\ CAP \in Nat /\ CAP > 0
  /\ NOUT \in Nat /\ NOUT > 0 /\ FLEN \in Nat /\ MAXFD \in Nat /\ MAXFD > 3
  /\ Fdnum = 0..(MAXFD - 1) /\ Fdnum \subseteq Nat /\ {0, 1, 2, 3} \subseteq Fdnum
  /\ Procs = 1..NPROC /\ 1 \in Procs
  BY ShellAssumption DEF Fdnum, Procs

(* The types of the descriptors. *)
LEMMA Devices ==
  ASSUME NEW k \in Nat
  PROVE  /\ None \in Fd(k) /\ Console \in Fd(k) /\ File \in Fd(k) /\ Console # None /\ File # None
         /\ \A j \in 1..k : Rd(j) \in Fd(k) /\ Wr(j) \in Fd(k) /\ Rd(j) # None /\ Wr(j) # None
  BY DEF None, Console, File, Rd, Wr, Fd, Devs

(* A table stays one when there are more pipes. *)
LEMMA TableGrows ==
  ASSUME NEW k \in Nat, NEW l \in Nat, k <= l
  PROVE  Table(k) \subseteq Table(l) /\ Rec(k) \subseteq Rec(l)
<1>1. Fd(k) \subseteq Fd(l)
  BY DEF Fd
<1>2. Table(k) \subseteq Table(l)
  BY <1>1 DEF Table
<1> QED
  BY <1>2 DEF Rec

(* Where a process can be. *)
LEMMA PcsFacts == StdPcs \cup FilePcs \cup SpawnPcs \cup {"plumb", "wait2", "exit"} \subseteq Pcs
  BY DEF StdPcs, FilePcs, SpawnPcs, Pcs

(* What the types say of one process. *)
LEMMA RecFacts ==
  ASSUME NEW k \in Nat, NEW r \in Rec(k)
  PROVE  /\ r.st \in Sts /\ r.pc \in Pcs /\ r.fds \in [Fdnum -> Fd(k)] /\ r.toks \in Seq(STRING)
         /\ r.todo \in Seq(Op) /\ r.argc \in 0..MAXARGS /\ r.prog \in Progs /\ r.fd \in Fdnum
         /\ r.right \in 0..NPROC /\ r.kid \in -1..NPROC /\ r.n \in Nat
<1>1. /\ r.st \in Sts /\ r.pc \in Pcs /\ r.fds \in Table(k) /\ r.toks \in Toks
      /\ r.todo \in Todo /\ r.argc \in Args /\ r.prog \in Progs /\ r.fd \in Fdnum
      /\ r.right \in Right /\ r.kid \in Kid /\ r.n \in Nat
  BY DEF Rec
<1> QED
  BY <1>1 DEF Table, Toks, Todo, Args, Right, Kid

(* A process that is not there. *)
LEMMA FreeFacts ==
  ASSUME NEW k \in Nat
  PROVE  Free \in Rec(k) /\ Local(Free)
<1>1. NoFds \in Table(k) /\ \A f \in Fdnum : NoFds[f] = None
  BY Devices DEF NoFds, Table
<1>2. /\ <<>> \in Toks /\ <<>> \in Todo /\ 0 \in Args /\ 0 \in Right /\ 0 \in Kid /\ 0 \in Fdnum
      /\ "FREE" \in Sts /\ "none" \in Pcs
  BY Numbers DEF Toks, Todo, Args, Right, Kid, Sts, Pcs
<1>3. Free \in Rec(k)
  <2>1. "" \in Progs
    BY DEF Progs
  <2>2. PICK e \in Progs, s \in Toks, t \in Todo : e = "" /\ s = <<>> /\ t = <<>>
    BY <1>2, <2>1
  <2>3. Free = [st |-> "FREE", pc |-> "none", fds |-> NoFds, toks |-> s, todo |-> t, argc |-> 0,
                prog |-> e, fd |-> 0, right |-> 0, kid |-> 0, n |-> 0]
    BY <2>2 DEF Free
  <2> QED
    BY <1>1, <1>2, <2>3 DEF Rec
<1>4. Free.st = "FREE" /\ Free.pc = "none" /\ Free.fds = NoFds
  BY DEF Free
<1> QED
  BY <1>1, <1>3, <1>4 DEF Local, Std, StdPcs, FilePcs, SpawnPcs

(* fd_alloc finds a descriptor while one is left. *)
LEMMA Allocated ==
  ASSUME NEW fds, NEW g \in Fdnum, fds[g] = None
  PROVE  fd_alloc(fds) \in Fdnum /\ fds[fd_alloc(fds)] = None
<1> DEFINE S == {f \in Fdnum : fds[f] = None}
<1>1. S \subseteq Nat /\ S # {}
  BY Numbers
<1>2. \E x \in S : \A y \in S : x <= y
  BY <1>1, SmallestNat
<1>3. \E f \in Fdnum : fds[f] = None /\ \A h \in Fdnum : fds[h] = None => f <= h
  BY <1>2
<1> QED
  BY <1>3 DEF fd_alloc

----------------------------------------------------------------------------
(* Steps *)

(* What the invariant says of one process. *)
LEMMA ProcFacts ==
  ASSUME IInv, NEW p \in Procs
  PROVE  /\ Len(pipes) \in Nat /\ proc[p] \in Rec(Len(pipes)) /\ Local(proc[p])
         /\ proc[p].st \in Sts /\ proc[p].pc \in Pcs /\ proc[p].fds \in [Fdnum -> Fd(Len(pipes))]
         /\ proc[p].toks \in Seq(STRING) /\ proc[p].todo \in Seq(Op) /\ proc[p].argc \in 0..MAXARGS
         /\ proc[p].prog \in Progs /\ proc[p].fd \in Fdnum /\ proc[p].right \in 0..NPROC
         /\ proc[p].kid \in -1..NPROC /\ proc[p].n \in Nat
         /\ used.proc \in Procs /\ used.lines \in 0..NLINE
         /\ p \in Int /\ used.proc \in Int /\ (proc[p].kid > 0 => proc[p].kid \in Procs)
         /\ proc[p].st # "FREE" => p <= used.proc
<1>1. Len(pipes) \in Nat /\ proc[p] \in Rec(Len(pipes)) /\ Local(proc[p])
  BY DEF IInv, Types
<1>2. used.proc \in Procs /\ used.lines \in 0..NLINE
  BY DEF IInv, Types, Used
<1>3. p \in Int /\ used.proc \in Int
  BY <1>2, Numbers
<1>4. ~(p > used.proc) => p <= used.proc
  BY <1>3
<1>5. proc[p].st # "FREE" => p <= used.proc
  BY <1>4 DEF IInv, Unused
<1>6. proc[p].kid > 0 => proc[p].kid \in Procs
  <2>1. proc[p].kid \in -1..NPROC
    BY <1>1, RecFacts
  <2> QED
    BY <2>1, Numbers
<1> QED
  BY <1>1, <1>2, <1>3, <1>5, <1>6, RecFacts

(* One process, which runs, changes. *)
LEMMA OneChanges ==
  ASSUME IInv, NEW p \in Procs, proc[p].st = "RUNNABLE", NEW r \in Rec(Len(pipes)), Local(r),
         proc' = [proc EXCEPT ![p] = r], used' = used, pipes' \in Seq(0..CAP), Len(pipes') = Len(pipes),
         r.pc \in SpawnPcs /\ r.kid > 0 => proc[p].pc \in SpawnPcs /\ proc[p].kid = r.kid
  PROVE  IInv'
<1>1. Types'
  BY DEF IInv, Types
<1>2. proc'[p] = r /\ \A q \in Procs : q # p => proc'[q] = proc[q]
  BY DEF IInv, Types
<1>3. \A q \in Procs : Local(proc'[q])
  BY <1>2 DEF IInv
<1>4. p <= used.proc
  BY ProcFacts
<1>5. Unused'
  BY <1>2, <1>4, Numbers, ProcFacts DEF IInv, Unused
<1>6. ASSUME NEW q \in Procs, proc'[q].pc \in SpawnPcs, proc'[q].kid > 0
      PROVE  proc[q].pc \in SpawnPcs /\ proc[q].kid = proc'[q].kid
  BY <1>2, <1>6
<1>7. Kids'
  <2> SUFFICES ASSUME NEW q \in Procs, proc'[q].pc \in SpawnPcs, proc'[q].kid > 0
               PROVE  proc'[proc'[q].kid].st = "NOT_RUNNABLE"
    BY DEF Kids
  <2>1. proc[q].pc \in SpawnPcs /\ proc[q].kid = proc'[q].kid
    BY <1>6
  <2>2. proc[proc[q].kid].st = "NOT_RUNNABLE" /\ proc[q].kid \in Procs
    BY <2>1, ProcFacts, Numbers DEF IInv, Kids
  <2> QED
    BY <1>2, <2>1, <2>2
<1>8. Distinct'
  BY <1>6 DEF IInv, Distinct
<1> QED
  BY <1>1, <1>3, <1>5, <1>7, <1>8 DEF IInv

(* So does a second one, which is new or the env that spawn is making. *)
LEMMA TwoChange ==
  ASSUME IInv, NEW p \in Procs, NEW q \in Procs, p # q, proc[p].st = "RUNNABLE",
         pipes' \in Seq(0..CAP), Len(pipes) <= Len(pipes'),
         NEW r \in Rec(Len(pipes')), NEW s \in Rec(Len(pipes')), Local(r), Local(s),
         proc' = [proc EXCEPT ![p] = r, ![q] = s], used' \in Used, used.proc <= used'.proc,
         q <= used'.proc,
         proc[q].st = "FREE" \/ (proc[p].pc \in SpawnPcs /\ proc[p].kid = q),
         r.pc \in SpawnPcs /\ r.kid > 0 => r.kid = q /\ s.st = "NOT_RUNNABLE",
         s.pc \notin SpawnPcs
  PROVE  IInv'
<1>0. Rec(Len(pipes)) \subseteq Rec(Len(pipes'))
  BY TableGrows, ProcFacts
<1>1. Types'
  BY <1>0 DEF IInv, Types
<1>2. proc'[p] = r /\ proc'[q] = s /\ \A x \in Procs : x \notin {p, q} => proc'[x] = proc[x]
  BY DEF IInv, Types
<1>3. \A x \in Procs : Local(proc'[x])
  BY <1>2 DEF IInv
<1>4. p <= used.proc /\ used.proc \in Int /\ used'.proc \in Int
  <2>1. p <= used.proc /\ used.proc \in Int
    BY ProcFacts
  <2>2. used'.proc \in Procs
    BY DEF Used
  <2> QED
    BY <2>1, <2>2, Numbers
<1>5. Unused'
  <2> SUFFICES ASSUME NEW x \in Procs, x > used'.proc PROVE proc'[x].st = "FREE"
    BY DEF Unused
  <2>1. x \notin {p, q} /\ x > used.proc
    BY <1>4, Numbers
  <2> QED
    BY <1>2, <2>1 DEF IInv, Unused
<1>6. ASSUME NEW x \in Procs, x # p, proc'[x].pc \in SpawnPcs, proc'[x].kid > 0
      PROVE  /\ x # q /\ proc[x].pc \in SpawnPcs /\ proc[x].kid = proc'[x].kid
             /\ proc[x].kid # q /\ proc[x].kid # p /\ proc[x].kid \in Procs
             /\ proc[proc[x].kid].st = "NOT_RUNNABLE"
  <2>1. x # q /\ proc'[x] = proc[x]
    BY <1>2, <1>6
  <2>2. proc[proc[x].kid].st = "NOT_RUNNABLE" /\ proc[x].kid \in Procs
    BY <1>6, <2>1, ProcFacts DEF IInv, Kids
  <2>3. proc[x].kid # q
    BY <1>6, <2>1, <2>2 DEF IInv, Distinct
  <2> QED
    BY <1>6, <2>1, <2>2, <2>3
<1>7. Kids'
  <2> SUFFICES ASSUME NEW x \in Procs, proc'[x].pc \in SpawnPcs, proc'[x].kid > 0
               PROVE  proc'[proc'[x].kid].st = "NOT_RUNNABLE"
    BY DEF Kids
  <2>1. CASE x = p
    BY <1>2, <2>1
  <2>2. CASE x # p
    <3>1. /\ proc[x].kid = proc'[x].kid /\ proc[x].kid \notin {p, q} /\ proc[x].kid \in Procs
          /\ proc[proc[x].kid].st = "NOT_RUNNABLE"
      BY <1>6, <2>2
    <3> QED
      BY <1>2, <3>1
  <2> QED
    BY <2>1, <2>2
<1>8. Distinct'
  <2> SUFFICES ASSUME NEW x \in Procs, NEW y \in Procs, proc'[x].pc \in SpawnPcs, proc'[x].kid > 0,
                      proc'[y].pc \in SpawnPcs, proc'[y].kid = proc'[x].kid
               PROVE  x = y
    BY DEF Distinct
  <2>1. CASE x # p /\ y # p
    BY <1>6, <2>1 DEF IInv, Distinct
  <2>2. CASE x = p /\ y # p
    <3>1. proc'[x].kid = q
      BY <1>2, <2>2
    <3> QED
      BY <1>6, <2>2, <3>1
  <2>3. CASE y = p /\ x # p
    <3>1. proc'[y].kid = q
      BY <1>2, <2>3
    <3> QED
      BY <1>6, <2>3, <3>1
  <2> QED
    BY <2>1, <2>2, <2>3
<1> QED
  BY <1>1, <1>3, <1>5, <1>7, <1>8 DEF IInv

(* A process goes on with nothing changed but where it is. *)
LEMMA Goes ==
  ASSUME IInv, NEW p \in Procs, NEW x \in Pcs, proc[p].st = "RUNNABLE", Goto(p, x), used' = used,
         pipes' \in Seq(0..CAP), Len(pipes') = Len(pipes),
         x \in StdPcs => Std(proc[p].fds),
         x \in FilePcs => proc[p].pc \in FilePcs,
         x \in SpawnPcs => proc[p].pc \in SpawnPcs /\ (x # "err1" => proc[p].pc # "err1"),
         x # "plumb", x \in {"read", "write"} => proc[p].prog # "echo"
  PROVE  IInv'
<1>1. PICK r : r = [proc[p] EXCEPT !.pc = x]
  OBVIOUS
<1>2. proc[p] \in Rec(Len(pipes)) /\ Local(proc[p])
  BY ProcFacts
<1>3. /\ r \in Rec(Len(pipes)) /\ r.pc = x /\ r.st = proc[p].st /\ r.fds = proc[p].fds /\ r.fd = proc[p].fd
      /\ r.kid = proc[p].kid /\ r.prog = proc[p].prog
  BY <1>1, <1>2 DEF Rec
<1>4. proc' = [proc EXCEPT ![p] = r]
  BY <1>1 DEF Goto, IInv, Types
<1>5. Local(r)
  BY <1>2, <1>3 DEF Local
<1> QED
  BY <1>3, <1>4, <1>5, OneChanges

(* Which descriptors are open where. *)
LEMMA PcIn ==
  /\ {"prompt", "wait", "parse", "parsed", "open", "share", "status", "close_all", "wait1", "main", "read",
      "write", "err2"} \subseteq StdPcs
  /\ \A x \in {"exit", "wait2", "plumb", "down"} : x \notin StdPcs /\ x \notin FilePcs /\ x \notin SpawnPcs
  /\ \A x \in {"prompt", "wait", "parse", "parsed", "open", "close_all", "wait1", "main", "read", "write"} :
       x \notin FilePcs /\ x \notin SpawnPcs
  /\ \A x \in {"header", "exofork", "err"} : x \in FilePcs /\ x \notin SpawnPcs /\ x \notin StdPcs
  /\ \A x \in {"stack", "load", "close", "err1"} : x \in FilePcs /\ x \in SpawnPcs /\ x \notin StdPcs
  /\ \A x \in {"share", "status", "err2"} : x \in SpawnPcs /\ x \notin FilePcs
  BY DEF StdPcs, FilePcs, SpawnPcs

(* The descriptors where a process is. *)
LEMMA StdAt ==
  ASSUME IInv, NEW p \in Procs, NEW x \in StdPcs, At(p, x)
  PROVE  Std(proc[p].fds)
  BY ProcFacts DEF At, Local

(* The steps that only move. *)
LEMMA MoveSteps ==
  ASSUME IInv, NEW p \in Procs,
         \/ EndOfInput(p) \/ ParseEnd(p) \/ Parsed(p)
         \/ SpawnLoad(p, "stack", "load") \/ SpawnLoad(p, "load", "close")
         \/ WaitChild(p) \/ WaitRight(p)
  PROVE  IInv'
<1>1. pipes' \in Seq(0..CAP) /\ Len(pipes') = Len(pipes) /\ used' = used /\ proc[p].st = "RUNNABLE"
  BY DEF EndOfInput, ParseEnd, Parsed, SpawnLoad, WaitChild, WaitRight, IInv, Types, At
<1>2. CASE \/ Goto(p, "exit") \/ Goto(p, "wait2")
  <2>1. "exit" \in Pcs /\ "wait2" \in Pcs
    BY DEF Pcs
  <2> QED
    BY <1>1, <1>2, <2>1, PcIn, Goes
<1>3. CASE /\ At(p, "parse") \/ At(p, "parsed")
           /\ \/ Goto(p, "parsed") \/ Goto(p, "open")
  <2>1. "parsed" \in Pcs /\ "open" \in Pcs
    BY DEF Pcs
  <2>2. Std(proc[p].fds)
    BY <1>3, StdAt, PcIn
  <2> QED
    BY <1>1, <1>3, <2>1, <2>2, PcIn, Goes
<1>4. CASE \/ At(p, "stack") /\ (Goto(p, "load") \/ Goto(p, "err1"))
           \/ At(p, "load") /\ (Goto(p, "close") \/ Goto(p, "err1"))
  <2>1. "load" \in Pcs /\ "err1" \in Pcs /\ "close" \in Pcs
    BY DEF Pcs
  <2>2. proc[p].pc \in {"stack", "load"}
    BY <1>4 DEF At
  <2> QED
    BY <1>1, <1>4, <2>1, <2>2, PcIn, Goes
<1> QED
  BY <1>2, <1>3, <1>4 DEF EndOfInput, ParseEnd, Parsed, SpawnLoad, WaitChild, WaitRight

(* wait in the shell. *)
LEMMA WaitStep ==
  ASSUME IInv, NEW p \in Procs, Wait(p)
  PROVE  IInv'
<1>1. PICK r : r = [proc[p] EXCEPT !.pc = "prompt", !.kid = 0]
  OBVIOUS
<1>2. proc[p] \in Rec(Len(pipes)) /\ Local(proc[p]) /\ proc[p].st = "RUNNABLE" /\ Std(proc[p].fds)
  BY ProcFacts, StdAt, PcIn DEF Wait, At
<1>3. "prompt" \in Pcs /\ 0 \in Kid
  BY Numbers DEF Pcs, Kid
<1>4. /\ r \in Rec(Len(pipes)) /\ r.pc = "prompt" /\ r.st = proc[p].st /\ r.fds = proc[p].fds
      /\ r.kid = 0
  BY <1>1, <1>2, <1>3 DEF Rec
<1>5. proc' = [proc EXCEPT ![p] = r] /\ used' = used /\ pipes' = pipes
  BY <1>1 DEF Wait, IInv, Types
<1>6. Local(r)
  BY <1>2, <1>4, PcIn DEF Local
<1>7. pipes' \in Seq(0..CAP) /\ Len(pipes') = Len(pipes)
  BY <1>5 DEF IInv, Types
<1> QED
  BY <1>2, <1>4, <1>5, <1>6, <1>7, PcIn, OneChanges

(* A sequence that is not empty, in parts. *)
LEMMA SeqParts ==
  ASSUME NEW S, NEW s \in Seq(S), s # <<>>
  PROVE  /\ Len(s) \in Nat /\ Len(s) > 0 /\ Head(s) = s[1] /\ s[1] \in S
         /\ Tail(s) \in Seq(S) /\ Len(Tail(s)) = Len(s) - 1
         /\ \A j \in 1..(Len(s) - 1) : Tail(s)[j] = s[j + 1]
<1>1. Len(s) \in Nat /\ Len(s) > 0
  OBVIOUS
<1>2. Head(s) = s[1] /\ s[1] \in S
  BY <1>1
<1>3. Tail(s) \in Seq(S) /\ Len(Tail(s)) = Len(s) - 1
  BY <1>1
<1>4. \A j \in 1..(Len(s) - 1) : Tail(s)[j] = s[j + 1]
  BY <1>1
<1> QED
  BY <1>1, <1>2, <1>3, <1>4

(* A token that is there is the first. *)
LEMMA Token ==
  ASSUME NEW toks \in Seq(STRING), gettoken(toks) # ""
  PROVE  /\ toks # <<>> /\ Len(toks) > 0 /\ gettoken(toks) = toks[1] /\ toks[1] \in STRING
         /\ Tail(toks) \in Seq(STRING) /\ Len(Tail(toks)) = Len(toks) - 1
         /\ \A j \in 1..(Len(toks) - 1) : Tail(toks)[j] = toks[j + 1]
<1>1. toks # <<>>
  BY DEF gettoken
<1>2. gettoken(toks) = Head(toks)
  BY <1>1 DEF gettoken
<1> QED
  BY <1>1, <1>2, SeqParts

(* parsecmd: a word, a redirection, a symbol. *)
LEMMA ParseSteps ==
  ASSUME IInv, NEW p \in Procs, ParseWord(p) \/ ParseRedirect(p) \/ ParseOther(p)
  PROVE  IInv'
<1>1. /\ pipes' \in Seq(0..CAP) /\ Len(pipes') = Len(pipes) /\ used' = used /\ At(p, "parse")
      /\ proc[p].st = "RUNNABLE" /\ proc[p].pc = "parse"
  BY DEF ParseWord, ParseRedirect, ParseOther, IInv, Types, At
<1>2. /\ proc[p] \in Rec(Len(pipes)) /\ Local(proc[p]) /\ Std(proc[p].fds) /\ Len(pipes) \in Nat
      /\ proc[p].toks \in Seq(STRING) /\ proc[p].argc \in 0..MAXARGS
      /\ proc[p].fds \in [Fdnum -> Fd(Len(pipes))]
  BY <1>1, ProcFacts, StdAt, PcIn
<1>3. CASE Goto(p, "exit")
  <2>1. "exit" \in Pcs
    BY DEF Pcs
  <2> QED
    BY <1>1, <1>3, <2>1, PcIn, Goes
<1>4. CASE ParseWord(p) /\ ~Goto(p, "exit")
  <2>1. PICK t : t = gettoken(proc[p].toks)
    OBVIOUS
  <2>2. /\ t # "" /\ ~(proc[p].argc >= MAXARGS)
        /\ proc' = [proc EXCEPT ![p].toks = Tail(@), ![p].argc = @ + 1,
                                ![p].prog = IF proc[p].argc = 0 THEN t ELSE @]
    BY <1>4, <2>1 DEF ParseWord, IsWord
  <2>3. t \in STRING /\ Tail(proc[p].toks) \in Seq(STRING)
    BY <1>2, <2>1, <2>2, Token
  <2>4. PICK tl \in Toks, a \in Args, pr \in Progs :
          /\ tl = Tail(proc[p].toks) /\ a = proc[p].argc + 1
          /\ pr = IF proc[p].argc = 0 THEN t ELSE proc[p].prog
    <3>1. proc[p].argc + 1 \in Args
      <4>1. PICK a \in 0..MAXARGS : a = proc[p].argc
        BY <1>2
      <4>2. MAXARGS \in Nat /\ ~(a >= MAXARGS)
        BY <2>2, <4>1, Numbers
      <4>3. a + 1 \in 0..MAXARGS
        BY <4>2
      <4> QED
        BY <4>1, <4>3 DEF Args
    <3>2. (IF proc[p].argc = 0 THEN t ELSE proc[p].prog) \in Progs
      BY <2>3, ProcFacts DEF Progs
    <3> QED
      BY <2>3, <3>1, <3>2 DEF Toks
  <2>5. PICK r : r = [proc[p] EXCEPT !.toks = tl, !.argc = a, !.prog = pr]
    OBVIOUS
  <2>6. r \in Rec(Len(pipes)) /\ r.pc = "parse" /\ r.st = proc[p].st /\ r.fds = proc[p].fds
    BY <1>1, <1>2, <2>5 DEF Rec
  <2>7. proc' = [proc EXCEPT ![p] = r]
    BY <2>2, <2>4, <2>5 DEF IInv, Types
  <2>8. Local(r)
    BY <1>1, <1>2, <2>6, PcIn DEF Local
  <2> QED
    BY <1>1, <2>6, <2>7, <2>8, PcIn, OneChanges
<1>5. CASE ParseRedirect(p) /\ ~Goto(p, "exit")
  <2>1. PICK t, w : t = gettoken(proc[p].toks) /\ w = gettoken(Tail(proc[p].toks))
    OBVIOUS
  <2>2. PICK x : x = IF t = "<" THEN 0 ELSE 1
    OBVIOUS
  <2>3. /\ t \in {"<", ">"} /\ w # ""
        /\ proc' = [proc EXCEPT ![p].toks = Tail(Tail(@)), ![p].fds[x] = File]
    BY <1>5, <2>1, <2>2 DEF ParseRedirect, IsWord
  <2>4. t # ""
    BY <2>3
  <2>5. Tail(proc[p].toks) \in Seq(STRING)
    BY <1>2, <2>1, <2>4, Token
  <2>6. Tail(Tail(proc[p].toks)) \in Seq(STRING)
    BY <2>1, <2>3, <2>5, Token
  <2>7. PICK tl \in Toks, fs \in Table(Len(pipes)) :
          tl = Tail(Tail(proc[p].toks)) /\ fs = [proc[p].fds EXCEPT ![x] = File]
    <3>1. [proc[p].fds EXCEPT ![x] = File] \in Table(Len(pipes))
      BY <1>2, Devices DEF Table
    <3> QED
      BY <2>6, <3>1 DEF Toks
  <2>8. Std(fs)
    <3>1. x \in {0, 1}
      BY <2>2
    <3> QED
      BY <1>2, <2>7, <3>1 DEF Std
  <2>9. PICK r : r = [proc[p] EXCEPT !.toks = tl, !.fds = fs]
    OBVIOUS
  <2>10. r \in Rec(Len(pipes)) /\ r.pc = "parse" /\ r.st = proc[p].st /\ r.fds = fs
    BY <1>1, <1>2, <2>9 DEF Rec
  <2>11. proc' = [proc EXCEPT ![p] = r]
    BY <1>2, <2>3, <2>7, <2>9 DEF IInv, Types, Rec
  <2>12. Local(r)
    BY <1>1, <2>8, <2>10, PcIn DEF Local
  <2> QED
    BY <1>1, <2>10, <2>11, <2>12, PcIn, OneChanges
<1>6. CASE ParseOther(p)
  <2>1. gettoken(proc[p].toks) # "" /\ proc' = [proc EXCEPT ![p].toks = Tail(@)]
    BY <1>6 DEF ParseOther, Symbols
  <2>2. PICK tl \in Toks : tl = Tail(proc[p].toks)
    BY <1>2, <2>1, Token DEF Toks
  <2>3. PICK r : r = [proc[p] EXCEPT !.toks = tl]
    OBVIOUS
  <2>4. r \in Rec(Len(pipes)) /\ r.pc = "parse" /\ r.st = proc[p].st /\ r.fds = proc[p].fds
    BY <1>1, <1>2, <2>3 DEF Rec
  <2>5. proc' = [proc EXCEPT ![p] = r]
    BY <2>1, <2>2, <2>3 DEF IInv, Types
  <2>6. Local(r)
    BY <1>1, <1>2, <2>4, PcIn DEF Local
  <2> QED
    BY <1>1, <2>4, <2>5, <2>6, PcIn, OneChanges
<1> QED
  BY <1>3, <1>4, <1>5, <1>6

(* dup and close on the side of a pipe. *)
LEMMA PlumbStep ==
  ASSUME IInv, NEW p \in Procs, Plumb(p)
  PROVE  IInv'
<1>1. /\ pipes' \in Seq(0..CAP) /\ Len(pipes') = Len(pipes) /\ used' = used
      /\ proc[p].st = "RUNNABLE" /\ proc[p].pc = "plumb"
  BY DEF Plumb, IInv, Types, At
<1>2. /\ proc[p] \in Rec(Len(pipes)) /\ Local(proc[p]) /\ Len(pipes) \in Nat
      /\ proc[p].todo \in Seq(Op) /\ proc[p].fds \in [Fdnum -> Fd(Len(pipes))]
  BY ProcFacts
<1>3. Plumbing(proc[p])
  BY <1>1, <1>2 DEF Local
<1>4. CASE proc[p].todo = <<>>
  <2>1. Std(proc[p].fds)
    BY <1>2, <1>3, <1>4 DEF Plumbing, Std
  <2>2. Goto(p, "parse") \/ Goto(p, "parsed")
    BY <1>4 DEF Plumb
  <2>3. "parse" \in Pcs /\ "parsed" \in Pcs
    BY DEF Pcs
  <2> QED
    BY <1>1, <2>1, <2>2, <2>3, PcIn, Goes
<1>5. CASE proc[p].todo # <<>>
  <2>1. PICK t \in Todo, x \in Op, tl \in Todo :
          /\ t = proc[p].todo /\ x = Head(t) /\ tl = Tail(t) /\ x = t[1] /\ Len(t) > 0
          /\ Len(tl) = Len(t) - 1 /\ \A j \in 1..(Len(t) - 1) : tl[j] = t[j + 1]
    <3>1. PICK t \in Seq(Op) : t = proc[p].todo /\ t # <<>>
      BY <1>2, <1>5
    <3>2. /\ Len(t) \in Nat /\ Len(t) > 0 /\ Head(t) = t[1] /\ t[1] \in Op
          /\ Tail(t) \in Seq(Op) /\ Len(Tail(t)) = Len(t) - 1
          /\ \A j \in 1..(Len(t) - 1) : Tail(t)[j] = t[j + 1]
      BY <3>1, SeqParts
    <3> QED
      BY <3>1, <3>2, Zenon DEF Todo
  <2>2. x.op \in {"dup", "close"} /\ x.f \in Fdnum /\ x.g \in Fdnum
    BY DEF Op
  <2>3. PICK v \in Fd(Len(pipes)) : v = IF x.op = "dup" THEN proc[p].fds[x.f] ELSE None
    BY <1>2, <2>2, Devices
  <2>4. proc' = [proc EXCEPT ![p].todo = Tail(@), ![p].fds[x.g] = v]
    BY <1>5, <2>1, <2>3 DEF Plumb
  <2>5. PICK fs \in Table(Len(pipes)) : fs = [proc[p].fds EXCEPT ![x.g] = v]
    BY <1>2, <2>2 DEF Table
  <2>6. PICK r : r = [proc[p] EXCEPT !.todo = tl, !.fds = fs]
    OBVIOUS
  <2>7. r \in Rec(Len(pipes)) /\ r.pc = "plumb" /\ r.st = proc[p].st /\ r.fds = fs /\ r.todo = tl
    BY <1>1, <1>2, <2>6 DEF Rec
  <2>8. proc' = [proc EXCEPT ![p] = r]
    BY <2>1, <2>4, <2>5, <2>6 DEF IInv, Types, Rec
  <2>9. Plumbing(r)
    <3>1. ASSUME NEW f \in Fdnum, f \notin {0, 1}, fs[f] # None
          PROVE  \E j \in 1..Len(tl) : tl[j] = Close(f)
      <4>1. f # x.g
        <5>1. CASE x.op = "dup"
          <6>1. x.g \in {0, 1}
            BY <1>3, <2>1, <5>1 DEF Plumbing
          <6> QED
            BY <3>1, <6>1
        <5>2. CASE x.op # "dup"
          BY <1>2, <2>2, <2>3, <2>5, <3>1, <5>2
        <5> QED
          BY <5>1, <5>2
      <4>2. fs[f] = proc[p].fds[f]
        BY <1>2, <2>5, <4>1
      <4>3. PICK j \in 1..Len(t) : t[j] = Close(f)
        BY <1>3, <2>1, <3>1, <4>2 DEF Plumbing
      <4>4. Close(f).g = f
        BY DEF Close
      <4>5. j # 1
        BY <2>1, <4>1, <4>3, <4>4
      <4>6. Len(t) \in Nat /\ j - 1 \in 1..(Len(t) - 1) /\ (j - 1) + 1 = j
        BY <1>2, <2>1, <4>5
      <4>7. tl[j - 1] = t[j]
        BY <2>1, <4>6
      <4> QED
        BY <2>1, <4>3, <4>6, <4>7
    <3>2. ASSUME NEW j \in 1..Len(tl), tl[j].op = "dup" PROVE tl[j].g \in {0, 1}
      <4>1. Len(t) \in Nat /\ j \in 1..(Len(t) - 1) /\ j + 1 \in 1..Len(t)
        BY <1>2, <2>1
      <4>2. tl[j] = t[j + 1]
        BY <2>1, <4>1
      <4> QED
        BY <1>3, <2>1, <3>2, <4>1, <4>2 DEF Plumbing
    <3> QED
      BY <2>7, <3>1, <3>2 DEF Plumbing
  <2>10. Local(r)
    BY <1>1, <2>7, <2>9, PcIn DEF Local
  <2> QED
    BY <1>1, <2>7, <2>8, <2>10, PcIn, OneChanges
<1> QED
  BY <1>4, <1>5

(* open(prog) in spawn. *)
LEMMA SpawnOpenStep ==
  ASSUME IInv, NEW p \in Procs, SpawnOpen(p)
  PROVE  IInv'
<1>1. /\ pipes' \in Seq(0..CAP) /\ Len(pipes') = Len(pipes) /\ used' = used
      /\ proc[p].st = "RUNNABLE" /\ proc[p].pc = "open" /\ At(p, "open")
  BY DEF SpawnOpen, IInv, Types, At
<1>2. /\ proc[p] \in Rec(Len(pipes)) /\ Std(proc[p].fds) /\ Len(pipes) \in Nat
      /\ proc[p].fds \in [Fdnum -> Fd(Len(pipes))]
  BY <1>1, ProcFacts, StdAt, PcIn
<1>3. {"header", "close_all"} \subseteq Pcs /\ -1 \in Kid
  BY Numbers DEF Pcs, Kid
<1>4. CASE Return(p, -1)
  <2>1. PICK r : r = [proc[p] EXCEPT !.pc = "close_all", !.kid = -1]
    OBVIOUS
  <2>2. r \in Rec(Len(pipes)) /\ r.pc = "close_all" /\ r.st = proc[p].st /\ r.fds = proc[p].fds
    BY <1>2, <1>3, <2>1 DEF Rec
  <2>3. proc' = [proc EXCEPT ![p] = r]
    BY <1>4, <2>1 DEF Return, IInv, Types
  <2>4. Local(r)
    BY <1>1, <1>2, <2>2, PcIn DEF Local
  <2> QED
    BY <1>1, <2>2, <2>3, <2>4, PcIn, OneChanges
<1>5. CASE ~Return(p, -1)
  <2>1. PICK x : x = fd_alloc(proc[p].fds)
    OBVIOUS
  <2>2. proc' = [proc EXCEPT ![p].pc = "header", ![p].fd = x, ![p].fds = [@ EXCEPT ![x] = File]]
    BY <1>5, <2>1 DEF SpawnOpen, OpenFds
  <2>3. x \in Fdnum
    <3>1. 2 \in Fdnum /\ proc[p].fds[2] = None
      BY <1>2, Numbers DEF Std
    <3> QED
      BY <2>1, <3>1, Allocated
  <2>4. PICK fs \in Table(Len(pipes)) : fs = [proc[p].fds EXCEPT ![x] = File]
    BY <1>2, Devices DEF Table
  <2>5. \A f \in Fdnum : f \notin {0, 1} /\ fs[f] # None => f = x
    BY <1>2, <2>4 DEF Std
  <2>6. PICK r : r = [proc[p] EXCEPT !.pc = "header", !.fd = x, !.fds = fs]
    OBVIOUS
  <2>7. r \in Rec(Len(pipes)) /\ r.pc = "header" /\ r.st = proc[p].st /\ r.fds = fs /\ r.fd = x
    BY <1>2, <1>3, <2>3, <2>6 DEF Rec
  <2>8. proc' = [proc EXCEPT ![p] = r]
    BY <2>2, <2>4, <2>6 DEF IInv, Types
  <2>9. Local(r)
    BY <1>1, <2>5, <2>7, PcIn DEF Local
  <2> QED
    BY <1>1, <2>7, <2>8, <2>9, PcIn, OneChanges
<1> QED
  BY <1>4, <1>5

(* The result of spawn is set while its file is open. *)
LEMMA FileResult ==
  ASSUME IInv, NEW p \in Procs, proc[p].st = "RUNNABLE", proc[p].pc \in FilePcs,
         NEW x \in {"err", "err1"}, NEW k \in {-1, 0}, x = "err1" => k = 0,
         proc' = [proc EXCEPT ![p].pc = x, ![p].kid = k], UNCHANGED <<pipes, used>>
  PROVE  IInv'
<1>1. PICK r : r = [proc[p] EXCEPT !.pc = x, !.kid = k]
  OBVIOUS
<1>0. x \in Pcs /\ k \in Kid
  BY Numbers DEF Pcs, Kid
<1>2. proc[p] \in Rec(Len(pipes)) /\ Local(proc[p]) /\ x \in Pcs /\ k \in Kid
  BY <1>0, ProcFacts
<1>3. /\ r \in Rec(Len(pipes)) /\ r.pc = x /\ r.st = proc[p].st /\ r.fds = proc[p].fds
      /\ r.kid = k /\ r.fd = proc[p].fd
  BY <1>1, <1>2 DEF Rec
<1>4. proc' = [proc EXCEPT ![p] = r]
  BY <1>1 DEF IInv, Types
<1>5. Local(r)
  BY <1>2, <1>3, PcIn DEF Local
<1>6. pipes' \in Seq(0..CAP) /\ Len(pipes') = Len(pipes) /\ used' = used /\ ~(r.kid > 0)
  BY <1>3 DEF IInv, Types
<1> QED
  BY <1>3, <1>4, <1>5, <1>6, OneChanges

(* The header of the file. *)
LEMMA SpawnHeaderStep ==
  ASSUME IInv, NEW p \in Procs, SpawnHeader(p)
  PROVE  IInv'
<1>1. /\ proc[p].st = "RUNNABLE" /\ proc[p].pc = "header" /\ UNCHANGED <<pipes, used>>
      /\ proc[p].pc \in FilePcs
  BY PcIn DEF SpawnHeader, At
<1>2. CASE Goto(p, "exofork")
  <2>1. "exofork" \in Pcs /\ pipes' \in Seq(0..CAP) /\ Len(pipes') = Len(pipes)
    BY <1>1 DEF Pcs, IInv, Types
  <2> QED
    BY <1>1, <1>2, <2>1, PcIn, Goes
<1>3. CASE ~Goto(p, "exofork")
  <2>1. \E k \in {-1, 0} : proc' = [proc EXCEPT ![p].pc = "err", ![p].kid = k]
    BY <1>3 DEF SpawnHeader
  <2> QED
    BY <1>1, <2>1, FileResult
<1> QED
  BY <1>2, <1>3

(* The file of the program is closed, on the way to the end or after an error. *)
LEMMA FileClosed ==
  ASSUME IInv, NEW p \in Procs, SpawnClose(p) \/ SpawnErr(p)
  PROVE  IInv'
<1>1. PICK x \in {"share", "close_all"} :
        /\ proc' = [proc EXCEPT ![p].fds[proc[p].fd] = None, ![p].pc = x]
        /\ proc[p].st = "RUNNABLE" /\ proc[p].pc \in FilePcs
        /\ x = "share" => proc[p].pc = "close"
  BY PcIn DEF SpawnClose, SpawnErr, At
<1>2. /\ pipes' \in Seq(0..CAP) /\ Len(pipes') = Len(pipes) /\ used' = used
  BY DEF SpawnClose, SpawnErr, IInv, Types
<1>3. /\ proc[p] \in Rec(Len(pipes)) /\ Local(proc[p]) /\ Len(pipes) \in Nat
      /\ proc[p].fds \in [Fdnum -> Fd(Len(pipes))] /\ x \in Pcs /\ x \in StdPcs
  BY ProcFacts, PcIn DEF Pcs
<1>4. PICK fs \in Table(Len(pipes)) : fs = [proc[p].fds EXCEPT ![proc[p].fd] = None]
  BY <1>3, Devices DEF Table
<1>5. Std(fs)
  BY <1>1, <1>3, <1>4 DEF Local, Std
<1>6. PICK r : r = [proc[p] EXCEPT !.fds = fs, !.pc = x]
  OBVIOUS
<1>7. r \in Rec(Len(pipes)) /\ r.pc = x /\ r.st = proc[p].st /\ r.fds = fs /\ r.kid = proc[p].kid
  BY <1>3, <1>6 DEF Rec
<1>8. proc' = [proc EXCEPT ![p] = r]
  BY <1>1, <1>3, <1>4, <1>6 DEF IInv, Types, Rec
<1>9. Local(r)
  BY <1>1, <1>3, <1>5, <1>7, PcIn DEF Local
<1>10. /\ proc[p].st = "RUNNABLE"
       /\ r.pc \in SpawnPcs /\ r.kid > 0 => proc[p].pc \in SpawnPcs /\ proc[p].kid = r.kid
  BY <1>1, <1>7, PcIn
<1> QED
  BY <1>2, <1>7, <1>8, <1>9, <1>10, OneChanges

(* One descriptor of close_all, or its end. *)
LEMMA CloseNextStep ==
  ASSUME IInv, NEW p \in Procs, proc[p].st = "RUNNABLE",
         \/ proc[p].pc = "close_all" /\ CloseNext(p, "wait1")
         \/ proc[p].pc = "exit" /\ CloseNext(p, "exit"),
         UNCHANGED <<pipes, used>>
  PROVE  IInv'
<1>1. /\ pipes' \in Seq(0..CAP) /\ Len(pipes') = Len(pipes) /\ used' = used
  BY DEF IInv, Types
<1>2. /\ proc[p] \in Rec(Len(pipes)) /\ Local(proc[p]) /\ Len(pipes) \in Nat
      /\ proc[p].fds \in [Fdnum -> Fd(Len(pipes))]
  BY ProcFacts
<1>3. CASE {f \in Fdnum : proc[p].fds[f] # None} = {}
  <2>1. Goto(p, "wait1") \/ Goto(p, "exit")
    BY <1>3 DEF CloseNext
  <2>2. Std(proc[p].fds) /\ "wait1" \in Pcs /\ "exit" \in Pcs
    BY <1>3 DEF Std, Pcs
  <2> QED
    BY <1>1, <2>1, <2>2, PcIn, Goes
<1>4. CASE {f \in Fdnum : proc[p].fds[f] # None} # {}
  <2>1. PICK x : proc' = [proc EXCEPT ![p].fds[x] = None]
    BY <1>4 DEF CloseNext
  <2>2. PICK fs \in Table(Len(pipes)) : fs = [proc[p].fds EXCEPT ![x] = None]
    BY <1>2, Devices DEF Table
  <2>3. Std(proc[p].fds) => Std(fs)
    BY <1>2, <2>2 DEF Std
  <2>4. PICK r : r = [proc[p] EXCEPT !.fds = fs]
    OBVIOUS
  <2>5. r \in Rec(Len(pipes)) /\ r.pc = proc[p].pc /\ r.st = proc[p].st /\ r.fds = fs
    BY <1>2, <2>4 DEF Rec
  <2>6. proc' = [proc EXCEPT ![p] = r]
    BY <1>2, <2>1, <2>2, <2>4 DEF IInv, Types, Rec
  <2>7. Local(r)
    BY <1>2, <2>3, <2>5, PcIn DEF Local
  <2> QED
    BY <1>1, <2>5, <2>6, <2>7, PcIn, OneChanges
<1> QED
  BY <1>3, <1>4

(* close_all, and exit. *)
LEMMA CloseSteps ==
  ASSUME IInv, NEW p \in Procs, CloseAll(p) \/ Exit(p)
  PROVE  IInv'
<1>1. CASE CloseAll(p)
  BY <1>1, CloseNextStep DEF CloseAll, At
<1>2. CASE Exit(p) /\ proc[p].fds # NoFds
  BY <1>2, CloseNextStep DEF Exit, At
<1>3. CASE Exit(p) /\ proc[p].fds = NoFds
  <2>1. /\ proc' = [proc EXCEPT ![p] = Free] /\ proc[p].st = "RUNNABLE" /\ used' = used
        /\ pipes' \in Seq(0..CAP) /\ Len(pipes') = Len(pipes)
    BY <1>3 DEF Exit, Destroyed, At, IInv, Types
  <2>2. Free \in Rec(Len(pipes)) /\ Local(Free)
    BY ProcFacts, FreeFacts
  <2>3. Free.pc \notin SpawnPcs
    BY DEF Free, SpawnPcs
  <2> QED
    BY <2>1, <2>2, <2>3, OneChanges
<1> QED
  BY <1>1, <1>2, <1>3

(* A program goes on, with n and its place changed. *)
LEMMA ProgramStep ==
  ASSUME IInv, NEW p \in Procs, proc[p].st = "RUNNABLE", proc[p].pc \in {"main", "read", "write"},
         NEW x \in {"read", "write", "exit"}, NEW n \in Nat,
         x = "write" /\ proc[p].prog = "echo" => n > 0, x = "read" => proc[p].prog # "echo",
         proc' = [proc EXCEPT ![p].pc = x, ![p].n = n], used' = used,
         pipes' \in Seq(0..CAP), Len(pipes') = Len(pipes)
  PROVE  IInv'
<1>1. PICK r : r = [proc[p] EXCEPT !.pc = x, !.n = n]
  OBVIOUS
<1>2. proc[p] \in Rec(Len(pipes)) /\ Local(proc[p]) /\ Std(proc[p].fds) /\ x \in Pcs
  BY ProcFacts, PcIn DEF Local, Pcs
<1>3. /\ r \in Rec(Len(pipes)) /\ r.pc = x /\ r.st = proc[p].st /\ r.fds = proc[p].fds
      /\ r.n = n /\ r.prog = proc[p].prog
  BY <1>1, <1>2 DEF Rec
<1>4. proc' = [proc EXCEPT ![p] = r]
  BY <1>1 DEF IInv, Types
<1>5. Local(r)
  BY <1>2, <1>3, PcIn DEF Local
<1>6. r.pc \notin SpawnPcs
  BY <1>3, PcIn
<1> QED
  BY <1>3, <1>4, <1>5, <1>6, OneChanges

(* main of a program. *)
LEMMA MainStep ==
  ASSUME IInv, NEW p \in Procs, Main(p)
  PROVE  IInv'
<1>1. PICK x \in {"read", "write"}, n \in Nat :
        /\ proc' = [proc EXCEPT ![p].pc = x, ![p].n = n]
        /\ proc[p].prog = "echo" => n > 0 /\ x = "write"
  <2>1. NOUT \in Nat /\ NOUT > 0 /\ FLEN \in Nat
    BY Numbers
  <2> QED
    BY <2>1 DEF Main
<1>2. /\ proc[p].st = "RUNNABLE" /\ proc[p].pc = "main" /\ used' = used
      /\ pipes' \in Seq(0..CAP) /\ Len(pipes') = Len(pipes)
  BY DEF Main, At, IInv, Types
<1> QED
  BY <1>1, <1>2, ProgramStep

(* A sequence with one element replaced, if it is there. *)
LEMMA SeqReplace ==
  ASSUME NEW S, NEW s \in Seq(S), NEW k, NEW v, k \in 1..Len(s) => v \in S
  PROVE  [s EXCEPT ![k] = v] \in Seq(S) /\ Len([s EXCEPT ![k] = v]) = Len(s)
<1>1. PICK n \in Nat : n = Len(s)
  OBVIOUS
<1>2. s \in [1..n -> S]
  BY <1>1
<1>3. PICK t : t = [s EXCEPT ![k] = v]
  OBVIOUS
<1>4. DOMAIN t = 1..n /\ \A j \in 1..n : t[j] = IF j = k THEN v ELSE s[j]
  BY <1>2, <1>3
<1>5. t \in [1..n -> S]
  BY <1>1, <1>2, <1>3, <1>4
<1>6. t \in Seq(S) /\ Len(t) = n
  BY <1>5, FunctionIsSeq
<1> QED
  BY <1>1, <1>3, <1>6

(* A pipe has one byte more or less. *)
LEMMA PipeBytes ==
  ASSUME IInv, NEW k \in Int,
         \/ pipes[k] > 0 /\ pipes' = [pipes EXCEPT ![k] = @ - 1]
         \/ pipes[k] < CAP /\ pipes' = [pipes EXCEPT ![k] = @ + 1]
  PROVE  pipes' \in Seq(0..CAP) /\ Len(pipes') = Len(pipes)
<1>1. pipes \in Seq(0..CAP) /\ CAP \in Nat
  BY Numbers DEF IInv, Types
<1>2. k \in 1..Len(pipes) => pipes[k] \in 0..CAP
  BY <1>1
<1>3. PICK v : /\ pipes' = [pipes EXCEPT ![k] = v]
               /\ (pipes[k] > 0 /\ v = pipes[k] - 1) \/ (pipes[k] < CAP /\ v = pipes[k] + 1)
  OBVIOUS
<1>4. k \in 1..Len(pipes) => v \in 0..CAP
  BY <1>1, <1>2, <1>3
<1> QED
  BY <1>1, <1>3, <1>4, SeqReplace

(* cat reads. *)
LEMMA ReadStep ==
  ASSUME IInv, NEW p \in Procs, Read(p)
  PROVE  IInv'
<1>1. /\ proc[p].st = "RUNNABLE" /\ proc[p].pc = "read" /\ used' = used /\ At(p, "read")
  BY DEF Read, At
<1>2. /\ pipes \in Seq(0..CAP) /\ proc[p].n \in Nat /\ Std(proc[p].fds)
      /\ proc[p] \in Rec(Len(pipes)) /\ "exit" \in Pcs /\ "write" \in Pcs
  BY <1>1, ProcFacts, StdAt, PcIn DEF IInv, Types, Pcs
<1>0. proc[p].prog # "echo"
  BY <1>1, ProcFacts DEF Local
<1>3. PICK k \in Int : k = proc[p].fds[0].n
  <2>1. proc[p].fds[0] \in Fd(Len(pipes))
    BY ProcFacts, Numbers
  <2> QED
    BY <2>1 DEF Fd
<1>4. pipes' \in Seq(0..CAP) /\ Len(pipes') = Len(pipes)
  <2>1. \/ pipes' = pipes
        \/ pipes[k] > 0 /\ pipes' = [pipes EXCEPT ![k] = @ - 1]
    BY <1>3 DEF Read
  <2> QED
    BY <1>2, <2>1, PipeBytes
<1>5. CASE Goto(p, "exit")
  BY <1>1, <1>2, <1>4, <1>5, PcIn, Goes
<1>6. CASE proc[p].n > 0 /\ proc' = [proc EXCEPT ![p].pc = "write", ![p].n = @ - 1]
  <2>1. PICK n \in Nat : n = proc[p].n - 1
    BY <1>2, <1>6
  <2>2. proc' = [proc EXCEPT ![p].pc = "write", ![p].n = n]
    BY <1>6, <2>1
  <2> QED
    BY <1>0, <1>1, <1>4, <2>2, ProgramStep
<1>7. CASE Goto(p, "write")
  BY <1>0, <1>1, <1>2, <1>4, <1>7, PcIn, Goes
<1> QED
  BY <1>5, <1>6, <1>7 DEF Read

(* A program writes. *)
LEMMA WriteStep ==
  ASSUME IInv, NEW p \in Procs, Write(p)
  PROVE  IInv'
<1>1. /\ proc[p].st = "RUNNABLE" /\ proc[p].pc = "write" /\ used' = used
  BY DEF Write, At
<1>2. /\ pipes \in Seq(0..CAP) /\ proc[p].n \in Nat /\ proc \in [Procs -> Rec(Len(pipes))]
      /\ (proc[p].prog = "echo" => proc[p].n > 0) /\ "exit" \in Pcs
  BY <1>1, ProcFacts DEF IInv, Types, Pcs, Local
<1>3. PICK k \in Int : k = proc[p].fds[1].n
  <2>1. proc[p].fds[1] \in Fd(Len(pipes))
    BY ProcFacts, Numbers
  <2> QED
    BY <2>1 DEF Fd
<1>4. pipes' \in Seq(0..CAP) /\ Len(pipes') = Len(pipes)
  <2>1. \/ pipes' = pipes
        \/ pipes[k] < CAP /\ pipes' = [pipes EXCEPT ![k] = @ + 1]
    BY <1>3 DEF Write
  <2> QED
    BY <1>2, <2>1, PipeBytes
<1>5. CASE Goto(p, "exit")
  BY <1>1, <1>2, <1>4, <1>5, PcIn, Goes
<1>6. CASE ~Goto(p, "exit")
  <2>1. PICK x \in {"read", "write", "exit"}, n \in Nat :
          /\ x = IF proc[p].prog = "cat" THEN "read" ELSE IF proc[p].n = 1 THEN "exit" ELSE "write"
          /\ n = IF proc[p].prog = "echo" THEN proc[p].n - 1 ELSE proc[p].n
    BY <1>2
  <2>2. proc' = [proc EXCEPT ![p].n = IF proc[p].prog = "echo" THEN @ - 1 ELSE @,
                             ![p].pc = IF proc[p].prog = "cat" THEN "read"
                                       ELSE IF proc[p].n = 1 THEN "exit" ELSE "write"]
    BY <1>6 DEF Write
  <2>3. proc' = [proc EXCEPT ![p].n = n, ![p].pc = x]
    BY <2>1, <2>2
  <2>4. proc' = [proc EXCEPT ![p].pc = x, ![p].n = n]
    BY <2>3, <1>2 DEF Rec
  <2>5. /\ x = "write" /\ proc[p].prog = "echo" => n > 0
        /\ x = "read" => proc[p].prog # "echo"
    BY <1>2, <2>1
  <2> QED
    BY <1>1, <1>4, <2>4, <2>5, ProgramStep
<1> QED
  BY <1>5, <1>6

----------------------------------------------------------------------------
(* The steps that change two processes *)

(* The next envid, while one is left. *)
LEMMA NextId ==
  ASSUME IInv, NEW p \in Procs, proc[p].st = "RUNNABLE", used.proc < NPROC
  PROVE  /\ used.proc + 1 \in Procs /\ used.proc + 1 # p /\ proc[used.proc + 1].st = "FREE"
         /\ used.proc <= used.proc + 1
         /\ \A l \in 0..NLINE : [proc |-> used.proc + 1, lines |-> l] \in Used
<1>1. PICK u \in Int : u = used.proc /\ p <= u /\ u \in Procs /\ p \in Int
  BY ProcFacts
<1>2. u + 1 \in Procs /\ u + 1 # p /\ u + 1 > u /\ u <= u + 1
  BY <1>1, Numbers
<1>3. proc[u + 1].st = "FREE"
  BY <1>1, <1>2 DEF IInv, Unused
<1> QED
  BY <1>1, <1>2, <1>3 DEF Used

(* The shell forks: the child parses the line, the shell waits. *)
LEMMA PromptStep ==
  ASSUME IInv, NEW p \in Procs, Prompt(p)
  PROVE  IInv'
<1>1. PICK line \in Lines, q \in Procs :
        /\ q = used.proc + 1
        /\ proc' = [proc EXCEPT ![p].pc = "wait", ![p].kid = q,
                                ![q] = [proc[p] EXCEPT !.pc = "parse", !.toks = line]]
  <2>1. used.proc + 1 \in Procs
    BY NextId DEF Prompt, At
  <2> QED
    BY <2>1 DEF Prompt
<1>2. At(p, "prompt") /\ proc[p].st = "RUNNABLE" /\ proc[p].pc = "prompt" /\ used.proc < NPROC /\ pipes' = pipes
  BY DEF Prompt, At
<1>3. /\ proc[p] \in Rec(Len(pipes)) /\ Std(proc[p].fds) /\ proc[p].fds \in [Fdnum -> Fd(Len(pipes))]
      /\ Len(pipes) \in Nat
  BY <1>2, ProcFacts, StdAt, PcIn
<1>4. used' \in Used /\ used'.proc = q
  <2>1. used.lines + 1 \in 0..NLINE
    <3>1. PICK l \in 0..NLINE : l = used.lines
      BY ProcFacts
    <3>2. l < NLINE
      BY <3>1 DEF Prompt
    <3> QED
      BY <3>1, <3>2, Numbers
  <2> QED
    BY <1>1, <1>2, <2>1, NextId DEF Prompt
<1>5. p # q /\ proc[q].st = "FREE" /\ used.proc <= q /\ q <= q
  BY <1>1, <1>2, NextId, Numbers
<1>6. line \in Toks /\ "wait" \in Pcs /\ "parse" \in Pcs /\ q \in Kid
  <2>1. line \in Toks
    BY ShellAssumption DEF Toks
  <2>2. q \in Kid
    BY Numbers DEF Kid
  <2> QED
    BY <2>1, <2>2 DEF Pcs
<1>7. PICK r, s : r = [proc[p] EXCEPT !.pc = "wait", !.kid = q] /\ s = [proc[p] EXCEPT !.pc = "parse", !.toks = line]
  OBVIOUS
<1>8. /\ r \in Rec(Len(pipes)) /\ r.pc = "wait" /\ r.st = "RUNNABLE" /\ r.fds = proc[p].fds
      /\ s \in Rec(Len(pipes)) /\ s.pc = "parse" /\ s.st = "RUNNABLE" /\ s.fds = proc[p].fds
  BY <1>2, <1>3, <1>6, <1>7 DEF Rec
<1>9. proc' = [proc EXCEPT ![p] = r, ![q] = s]
  BY <1>1, <1>5, <1>7 DEF IInv, Types
<1>10. Local(r) /\ Local(s)
  BY <1>3, <1>8, PcIn DEF Local
<1>11. pipes' \in Seq(0..CAP) /\ Len(pipes) <= Len(pipes') /\ Len(pipes') = Len(pipes)
  BY <1>2, <1>3 DEF IInv, Types
<1>12. r.pc \notin SpawnPcs /\ s.pc \notin SpawnPcs
  BY <1>8, PcIn
<1> QED
  BY <1>2, <1>4, <1>5, <1>8, <1>9, <1>10, <1>11, <1>12, TwoChange

Closing(t, r, w) ==
  /\ \E j \in 1..Len(t) : t[j] = Close(r)
  /\ \E j \in 1..Len(t) : t[j] = Close(w)
  /\ \A j \in 1..Len(t) : t[j].op = "dup" => t[j].g \in {0, 1}

(* What either side does with the ends of the pipe closes both. *)
LEMMA Sides ==
  ASSUME NEW r \in Fdnum, NEW w \in Fdnum
  PROVE  /\ LeftSide(r, w) \in Todo /\ RightSide(r, w) \in Todo
         /\ Closing(LeftSide(r, w), r, w) /\ Closing(RightSide(r, w), r, w)
<1>1. /\ Dup(w, 1) \in Op /\ Dup(r, 0) \in Op /\ Close(r) \in Op /\ Close(w) \in Op
      /\ Dup(w, 1).g = 1 /\ Dup(r, 0).g = 0 /\ Close(r).op = "close" /\ Close(w).op = "close"
  BY Numbers DEF Dup, Close, Op
<1>2. PICK a \in Op, b \in Op, c \in Op, d \in Op : a = Dup(w, 1) /\ b = Dup(r, 0) /\ c = Close(r) /\ d = Close(w)
  BY <1>1
<1>3. PICK t, u : t = <<a, d, c>> /\ u = <<b, c, d>>
  OBVIOUS
<1>4. t \in Seq(Op) /\ Len(t) = 3 /\ t[1] = a /\ t[2] = d /\ t[3] = c
  BY <1>3
<1>5. u \in Seq(Op) /\ Len(u) = 3 /\ u[1] = b /\ u[2] = c /\ u[3] = d
  BY <1>3
<1>6. LeftSide(r, w) = t /\ RightSide(r, w) = u
  BY <1>2, <1>3 DEF LeftSide, RightSide
<1>7. \A j \in 1..3 : j \in {1, 2, 3}
  OBVIOUS
<1>8. 1 \in 1..3 /\ 2 \in 1..3 /\ 3 \in 1..3
  OBVIOUS
<1>9. a.g = 1 /\ b.g = 0 /\ c.op # "dup" /\ d.op # "dup" /\ c = Close(r) /\ d = Close(w)
  BY <1>1, <1>2
<1>10. Closing(t, r, w)
  BY <1>4, <1>7, <1>8, <1>9 DEF Closing
<1>11. Closing(u, r, w)
  BY <1>5, <1>7, <1>8, <1>9 DEF Closing
<1> QED
  BY <1>4, <1>5, <1>6, <1>10, <1>11 DEF Todo

(* | in parsecmd: pipe, and fork. *)
LEMMA ParsePipeStep ==
  ASSUME IInv, NEW p \in Procs, ParsePipe(p)
  PROVE  IInv'
<1>1. /\ At(p, "parse") /\ proc[p].st = "RUNNABLE" /\ proc[p].pc = "parse" /\ used.proc < NPROC
      /\ gettoken(proc[p].toks) = "|"
  BY DEF ParsePipe, At
<1>2. /\ proc[p] \in Rec(Len(pipes)) /\ Std(proc[p].fds) /\ proc[p].fds \in [Fdnum -> Fd(Len(pipes))]
      /\ proc[p].toks \in Seq(STRING) /\ Len(pipes) \in Nat /\ pipes \in Seq(0..CAP) /\ used \in Used
  BY <1>1, ProcFacts, StdAt, PcIn DEF IInv, Types
<1>3. PICK k \in Nat : k = Len(pipes) + 1 /\ Len(pipes) <= k /\ k \in 1..k
  BY <1>2
<1>4. PICK c \in Procs : c = used.proc + 1
  BY <1>1, NextId
<1>5. PICK r \in Fdnum : r = fd_alloc(proc[p].fds)
  <2>1. 2 \in Fdnum /\ proc[p].fds[2] = None
    BY <1>2, Numbers DEF Std
  <2> QED
    BY <2>1, Allocated
<1>6. PICK w \in Fdnum : w = fd_alloc([proc[p].fds EXCEPT ![r] = Rd(k)])
  <2>1. PICK fs : fs = [proc[p].fds EXCEPT ![r] = Rd(k)]
    OBVIOUS
  <2>2. 2 \in Fdnum /\ 3 \in Fdnum /\ proc[p].fds[2] = None /\ proc[p].fds[3] = None
    BY <1>2, Numbers DEF Std
  <2>3. fs[2] = None \/ fs[3] = None
    BY <1>2, <2>1, <2>2
  <2> QED
    BY <2>1, <2>2, <2>3, Allocated
<1>7. PICK fs \in Table(k) : fs = [proc[p].fds EXCEPT ![r] = Rd(k), ![w] = Wr(k)]
  <2>1. proc[p].fds \in Table(k)
    BY <1>2, <1>3, TableGrows DEF Table
  <2> QED
    BY <1>3, <2>1, Devices DEF Table
<1>8. \A f \in Fdnum : f \notin {0, 1} /\ fs[f] # None => f = r \/ f = w
  BY <1>2, <1>7 DEF Std
<1>9. PICK left \in Todo, right \in Todo, tl \in Toks, e \in Toks, no \in Progs :
        left = LeftSide(r, w) /\ right = RightSide(r, w) /\ tl = Tail(proc[p].toks) /\ e = <<>> /\ no = ""
  <2>1. Tail(proc[p].toks) \in Toks /\ <<>> \in Toks
    <3>1. gettoken(proc[p].toks) # ""
      BY <1>1
    <3>2. PICK ts \in Seq(STRING) : ts = proc[p].toks
      BY <1>2
    <3>3. Tail(ts) \in Seq(STRING)
      BY <3>1, <3>2, Token
    <3>4. <<>> \in Seq(STRING)
      OBVIOUS
    <3> QED
      BY <3>2, <3>3, <3>4 DEF Toks
  <2>2. "" \in Progs
    BY DEF Progs
  <2> QED
    BY <2>1, <2>2, Sides
<1>10. PICK x : x = [proc[p] EXCEPT !.fds = fs, !.pc = "plumb", !.right = c, !.toks = e, !.todo = left]
  OBVIOUS
<1>11. PICK y : y = [proc[p] EXCEPT !.fds = fs, !.pc = "plumb", !.right = 0, !.toks = tl, !.todo = right,
                                    !.argc = 0, !.prog = no]
  OBVIOUS
<1>12. /\ proc[p] \in Rec(k) /\ "plumb" \in Pcs /\ c \in Right /\ 0 \in Right /\ 0 \in Args
  BY <1>2, <1>3, TableGrows, Numbers DEF Pcs, Right, Args
<1>13. /\ x \in Rec(k) /\ x.pc = "plumb" /\ x.st = "RUNNABLE" /\ x.fds = fs /\ x.todo = left
  BY <1>1, <1>10, <1>12 DEF Rec
<1>14. /\ y \in Rec(k) /\ y.pc = "plumb" /\ y.st = "RUNNABLE" /\ y.fds = fs /\ y.todo = right
  BY <1>1, <1>11, <1>12 DEF Rec
<1>15. p # c /\ proc[c].st = "FREE" /\ used.proc <= c /\ c <= c
  BY <1>1, <1>4, NextId, Numbers
<1>16. proc' = [proc EXCEPT ![p] = x, ![c] = y] /\ pipes' = Append(pipes, 0) /\ used' = [used EXCEPT !.proc = c]
  <2>1. PICK me : me = [proc[p] EXCEPT !.fds = fs, !.pc = "plumb"]
    OBVIOUS
  <2>2. me.toks = proc[p].toks
    BY <1>2, <2>1 DEF Rec
  <2>3. /\ proc' = [proc EXCEPT ![p] = [me EXCEPT !.right = c, !.toks = e, !.todo = left],
                                ![c] = [me EXCEPT !.right = 0, !.toks = Tail(@), !.todo = right,
                                                  !.argc = 0, !.prog = no]]
        /\ pipes' = Append(pipes, 0) /\ used' = [used EXCEPT !.proc = c]
    BY <1>3, <1>4, <1>5, <1>6, <1>7, <1>9, <2>1 DEF ParsePipe
  <2>4. x = [me EXCEPT !.right = c, !.toks = e, !.todo = left]
    BY <1>2, <1>10, <2>1 DEF Rec
  <2>5. y = [me EXCEPT !.right = 0, !.toks = Tail(@), !.todo = right, !.argc = 0, !.prog = no]
    BY <1>2, <1>9, <1>11, <2>1, <2>2 DEF Rec
  <2> QED
    BY <2>3, <2>4, <2>5
<1>17. pipes' \in Seq(0..CAP) /\ Len(pipes') = k /\ Len(pipes) <= Len(pipes')
  BY <1>2, <1>3, <1>16, Numbers
<1>18. used' \in Used /\ used'.proc = c
  BY <1>2, <1>16 DEF Used
<1>19. Plumbing(x) /\ Plumbing(y)
  <2>1. Closing(left, r, w) /\ Closing(right, r, w)
    BY <1>9, Sides
  <2> QED
    BY <1>8, <1>13, <1>14, <2>1 DEF Plumbing, Closing
<1>20. Local(x) /\ Local(y)
  BY <1>13, <1>14, <1>19, PcIn DEF Local
<1>21. x.pc \notin SpawnPcs /\ y.pc \notin SpawnPcs
  BY <1>13, <1>14, PcIn
<1> QED
  BY <1>1, <1>13, <1>14, <1>15, <1>16, <1>17, <1>18, <1>20, <1>21, TwoChange

(* The env that spawn is making, seen from its maker. *)
LEMMA KidFacts ==
  ASSUME IInv, NEW p \in Procs, proc[p].st = "RUNNABLE", proc[p].pc \in SpawnPcs, proc[p].kid # 0
  PROVE  /\ proc[p].kid \in Procs /\ proc[p].kid # p /\ proc[proc[p].kid].st = "NOT_RUNNABLE"
         /\ proc[proc[p].kid].pc = "none" /\ proc[p].kid <= used.proc
         /\ used' = used => used' \in Used /\ used.proc <= used'.proc /\ proc[p].kid <= used'.proc
         /\ pipes' = pipes => pipes' \in Seq(0..CAP) /\ Len(pipes) <= Len(pipes') /\ Len(pipes') = Len(pipes)
<1>1. proc[p].kid > 0 /\ proc[p].kid \in Procs
  <2>1. proc[p].kid \in -1..NPROC /\ proc[p].kid >= 0
    BY ProcFacts DEF Local
  <2> QED
    BY <2>1, ProcFacts
<1>2. proc[proc[p].kid].st = "NOT_RUNNABLE"
  BY <1>1 DEF IInv, Kids
<1>3. proc[proc[p].kid].pc = "none" /\ proc[p].kid <= used.proc
  BY <1>1, <1>2, ProcFacts DEF Local
<1>4. used \in Used /\ used.proc \in Int /\ pipes \in Seq(0..CAP) /\ Len(pipes) \in Nat
  BY ProcFacts DEF IInv, Types
<1> QED
  BY <1>1, <1>2, <1>3, <1>4

(* syscall_exofork in spawn. *)
LEMMA SpawnExoforkStep ==
  ASSUME IInv, NEW p \in Procs, SpawnExofork(p)
  PROVE  IInv'
<1>1. At(p, "exofork") /\ proc[p].st = "RUNNABLE" /\ proc[p].pc = "exofork" /\ proc[p].pc \in FilePcs /\ pipes' = pipes
  BY PcIn DEF SpawnExofork, At
<1>2. CASE proc' = [proc EXCEPT ![p].pc = "err1", ![p].kid = 0] /\ UNCHANGED used
  BY <1>1, <1>2, FileResult
<1>3. CASE ~(proc' = [proc EXCEPT ![p].pc = "err1", ![p].kid = 0] /\ UNCHANGED used)
  <2>0. used.proc < NPROC
    BY <1>3 DEF SpawnExofork
  <2>1. PICK q \in Procs :
          /\ q = used.proc + 1 /\ used' = [used EXCEPT !.proc = q]
          /\ proc' = [proc EXCEPT ![p].pc = "stack", ![p].kid = q,
                                  ![q] = [Free EXCEPT !.st = "NOT_RUNNABLE", !.prog = proc[p].prog]]
    <3>1. used.proc + 1 \in Procs
      BY <1>1, <2>0, NextId
    <3> QED
      BY <1>3, <3>1 DEF SpawnExofork
  <2>2. /\ p # q /\ proc[q].st = "FREE" /\ used.proc <= q /\ q <= q /\ q > 0
    BY <1>1, <2>0, <2>1, NextId, Numbers
  <2>3. used' \in Used /\ used'.proc = q
    BY <2>1 DEF IInv, Types, Used
  <2>4. /\ proc[p] \in Rec(Len(pipes)) /\ Local(proc[p]) /\ Len(pipes) \in Nat /\ proc[p].prog \in Progs
    BY ProcFacts
  <2>5. Free \in Rec(Len(pipes)) /\ Local(Free)
    BY <2>4, FreeFacts
  <2>6. "stack" \in Pcs /\ q \in Kid /\ "NOT_RUNNABLE" \in Sts
    BY Numbers DEF Pcs, Kid, Sts
  <2>7. PICK r, s, g : /\ r = [proc[p] EXCEPT !.pc = "stack", !.kid = q]
                       /\ g = proc[p].prog /\ s = [Free EXCEPT !.st = "NOT_RUNNABLE", !.prog = g]
    OBVIOUS
  <2>8. /\ r \in Rec(Len(pipes)) /\ r.pc = "stack" /\ r.st = "RUNNABLE" /\ r.fds = proc[p].fds
        /\ r.fd = proc[p].fd /\ r.kid = q
    BY <1>1, <2>4, <2>6, <2>7 DEF Rec
  <2>9. Free.pc = "none"
    BY DEF Free
  <2>10. /\ s \in Rec(Len(pipes)) /\ s.pc = "none" /\ s.st = "NOT_RUNNABLE" /\ s.fds = Free.fds
    BY <2>4, <2>5, <2>6, <2>7, <2>9 DEF Rec
  <2>11. Local(r)
    <3>1. q >= 0
      BY Numbers
    <3> QED
      BY <1>1, <2>2, <2>4, <2>8, <3>1, PcIn DEF Local
  <2>12. Local(s)
    BY <2>5, <2>9, <2>10 DEF Local, StdPcs, FilePcs, SpawnPcs
  <2>13. proc' = [proc EXCEPT ![p] = r, ![q] = s]
    BY <2>1, <2>2, <2>7 DEF IInv, Types
  <2>14. pipes' \in Seq(0..CAP) /\ Len(pipes) <= Len(pipes') /\ Len(pipes') = Len(pipes)
    BY <1>1, <2>4 DEF IInv, Types
  <2>15. s.pc \notin SpawnPcs
    BY <2>10 DEF SpawnPcs
  <2> QED
    BY <1>1, <2>2, <2>3, <2>8, <2>10, <2>11, <2>12, <2>13, <2>14, <2>15, TwoChange
<1> QED
  BY <1>2, <1>3

(* The descriptors are shared with the new env. *)
LEMMA SpawnShareStep ==
  ASSUME IInv, NEW p \in Procs, SpawnShare(p)
  PROVE  IInv'
<1>1. /\ At(p, "share") /\ proc[p].st = "RUNNABLE" /\ proc[p].pc = "share" /\ proc[p].pc \in SpawnPcs
      /\ pipes' = pipes /\ used' = used
  BY PcIn DEF SpawnShare, At
<1>2. /\ proc[p] \in Rec(Len(pipes)) /\ Local(proc[p]) /\ Std(proc[p].fds) /\ Len(pipes) \in Nat
      /\ pipes' \in Seq(0..CAP)
  BY <1>1, ProcFacts, StdAt, PcIn DEF IInv, Types
<1>3. CASE Goto(p, "err2")
  <2>1. "err2" \in Pcs /\ Len(pipes') = Len(pipes)
    BY <1>1 DEF Pcs
  <2> QED
    BY <1>1, <1>2, <1>3, <2>1, PcIn, Goes
<1>4. CASE ~Goto(p, "err2")
  <2>0. proc[p].kid # 0 /\ proc[p].kid > 0
    BY <1>1, <1>2, ProcFacts DEF Local
  <2>1. PICK q \in Procs :
          /\ q = proc[p].kid /\ q # p /\ proc[q].st = "NOT_RUNNABLE" /\ proc[q].pc = "none"
          /\ used' \in Used /\ used.proc <= used'.proc /\ q <= used'.proc
          /\ Len(pipes) <= Len(pipes') /\ Len(pipes') = Len(pipes)
    BY <1>1, <2>0, KidFacts
  <2>2. PICK fs : fs = proc[p].fds
    OBVIOUS
  <2>3. proc' = [proc EXCEPT ![q].fds = fs, ![p].pc = "status"]
    BY <1>4, <2>1, <2>2 DEF SpawnShare
  <2>4. proc[q] \in Rec(Len(pipes)) /\ fs \in Table(Len(pipes)) /\ "status" \in Pcs
    BY <1>2, <2>2, ProcFacts DEF Pcs, Table
  <2>5. PICK r, s : r = [proc[p] EXCEPT !.pc = "status"] /\ s = [proc[q] EXCEPT !.fds = fs]
    OBVIOUS
  <2>6. /\ r \in Rec(Len(pipes)) /\ r.pc = "status" /\ r.st = "RUNNABLE" /\ r.fds = proc[p].fds /\ r.kid = q
    BY <1>1, <1>2, <2>1, <2>4, <2>5 DEF Rec
  <2>7. /\ s \in Rec(Len(pipes)) /\ s.pc = "none" /\ s.st = "NOT_RUNNABLE" /\ s.fds = fs
    BY <2>1, <2>4, <2>5 DEF Rec
  <2>8. Local(r)
    <3>1. q >= 0
      BY Numbers
    <3> QED
      BY <1>2, <2>0, <2>1, <2>6, <3>1, PcIn DEF Local
  <2>9. Local(s)
    BY <1>2, <2>2, <2>7 DEF Local, StdPcs, FilePcs, SpawnPcs
  <2>10. proc' = [proc EXCEPT ![p] = r, ![q] = s]
    BY <2>1, <2>3, <2>5 DEF IInv, Types
  <2>11. s.pc \notin SpawnPcs
    BY <2>7 DEF SpawnPcs
  <2> QED
    BY <1>1, <1>2, <2>1, <2>6, <2>7, <2>8, <2>9, <2>10, <2>11, TwoChange
<1> QED
  BY <1>3, <1>4

(* The new env runs. *)
LEMMA SpawnStatusStep ==
  ASSUME IInv, NEW p \in Procs, SpawnStatus(p)
  PROVE  IInv'
<1>1. /\ At(p, "status") /\ proc[p].st = "RUNNABLE" /\ proc[p].pc = "status" /\ proc[p].pc \in SpawnPcs
      /\ pipes' = pipes /\ used' = used
  BY PcIn DEF SpawnStatus, At
<1>2. /\ proc[p] \in Rec(Len(pipes)) /\ Local(proc[p]) /\ Std(proc[p].fds) /\ pipes' \in Seq(0..CAP)
  BY <1>1, ProcFacts, StdAt, PcIn DEF IInv, Types
<1>3. proc[p].kid # 0
  BY <1>1, <1>2, ProcFacts DEF Local
<1>4. PICK q \in Procs :
        /\ q = proc[p].kid /\ q # p /\ proc[q].st = "NOT_RUNNABLE" /\ proc[q].pc = "none"
        /\ used' \in Used /\ used.proc <= used'.proc /\ q <= used'.proc
        /\ Len(pipes) <= Len(pipes') /\ Len(pipes') = Len(pipes)
  BY <1>1, <1>3, KidFacts
<1>5. proc[q] \in Rec(Len(pipes)) /\ Local(proc[q]) /\ {"main", "close_all"} \subseteq Pcs /\ "RUNNABLE" \in Sts
  BY ProcFacts DEF Pcs, Sts
<1>6. PICK r, s : r = [proc[p] EXCEPT !.pc = "close_all"] /\ s = [proc[q] EXCEPT !.st = "RUNNABLE", !.pc = "main"]
  OBVIOUS
<1>7. /\ r \in Rec(Len(pipes)) /\ r.pc = "close_all" /\ r.st = "RUNNABLE" /\ r.fds = proc[p].fds
      /\ s \in Rec(Len(pipes)) /\ s.pc = "main" /\ s.st = "RUNNABLE" /\ s.fds = proc[q].fds
  BY <1>1, <1>2, <1>5, <1>6 DEF Rec
<1>8. Std(proc[q].fds)
  BY <1>4, <1>5 DEF Local, StdPcs
<1>9. Local(r) /\ Local(s)
  BY <1>2, <1>7, <1>8, PcIn DEF Local
<1>10. proc' = [proc EXCEPT ![p] = r, ![q] = s]
  BY <1>4, <1>6 DEF SpawnStatus, IInv, Types
<1>11. r.pc \notin SpawnPcs /\ s.pc \notin SpawnPcs
  BY <1>7, PcIn
<1> QED
  BY <1>1, <1>2, <1>4, <1>7, <1>9, <1>10, <1>11, TwoChange

(* The errors of spawn, which destroy the env it was making. *)
LEMMA SpawnFailStep ==
  ASSUME IInv, NEW p \in Procs, SpawnFail(p)
  PROVE  IInv'
<1>1. /\ proc[p].st = "RUNNABLE" /\ proc[p].pc \in {"err1", "err2"} /\ proc[p].pc \in SpawnPcs
      /\ pipes' = pipes /\ used' = used
  BY PcIn DEF SpawnFail, At
<1>2. /\ proc[p] \in Rec(Len(pipes)) /\ Local(proc[p]) /\ Len(pipes) \in Nat /\ pipes' \in Seq(0..CAP)
      /\ Len(pipes') = Len(pipes)
  BY <1>1, ProcFacts DEF IInv, Types
<1>3. CASE At(p, "err1") /\ proc[p].kid = 0 /\ Goto(p, "err")
  <2>1. "err" \in Pcs /\ proc[p].pc \in FilePcs
    BY <1>3, PcIn DEF Pcs, At
  <2> QED
    BY <1>1, <1>2, <1>3, <2>1, PcIn, Goes
<1>4. CASE ~(At(p, "err1") /\ proc[p].kid = 0 /\ Goto(p, "err"))
  <2>1. proc[p].kid # 0
    <3>1. CASE proc[p].pc = "err2"
      <4>1. proc[p].kid > 0
        BY <1>1, <1>2, <3>1 DEF Local
      <4> QED
        BY <4>1
    <3>2. CASE proc[p].pc # "err2"
      BY <1>4, <3>2 DEF SpawnFail, At
    <3> QED
      BY <3>1, <3>2
  <2>2. PICK q \in Procs :
          /\ q = proc[p].kid /\ q # p /\ proc[q].st = "NOT_RUNNABLE"
          /\ used' \in Used /\ used.proc <= used'.proc /\ q <= used'.proc
          /\ Len(pipes) <= Len(pipes')
    BY <1>1, <2>1, KidFacts
  <2>3. PICK x \in {"close_all", "err", "down"}, k \in {-1, 0} :
          /\ proc' = [[proc EXCEPT ![q] = Free] EXCEPT ![p].pc = x, ![p].kid = k]
          /\ x = "close_all" => proc[p].pc = "err2"
          /\ x = "err" => proc[p].pc = "err1"
    BY <1>4, <2>2 DEF SpawnFail, At, Destroyed
  <2>4. x \in Pcs /\ k \in Kid /\ x \notin SpawnPcs
    BY Numbers, PcIn DEF Pcs, Kid
  <2>5. PICK r : r = [proc[p] EXCEPT !.pc = x, !.kid = k]
    OBVIOUS
  <2>6. /\ r \in Rec(Len(pipes)) /\ r.pc = x /\ r.st = "RUNNABLE" /\ r.fds = proc[p].fds /\ r.fd = proc[p].fd
    BY <1>1, <1>2, <2>4, <2>5 DEF Rec
  <2>7. proc' = [proc EXCEPT ![p] = r, ![q] = Free]
    BY <2>2, <2>3, <2>5 DEF IInv, Types
  <2>8. Local(r)
    BY <1>2, <2>3, <2>4, <2>6, PcIn DEF Local
  <2>9. Free \in Rec(Len(pipes)) /\ Local(Free) /\ Free.pc \notin SpawnPcs
    BY <1>2, FreeFacts DEF Free, SpawnPcs
  <2> QED
    BY <1>1, <1>2, <2>2, <2>4, <2>6, <2>7, <2>8, <2>9, TwoChange
<1> QED
  BY <1>3, <1>4

----------------------------------------------------------------------------
(* The theorems about types and descriptors *)

(* The shell is the only process, with the console. *)
LEMMA InitIInv == Init => IInv
<1> SUFFICES ASSUME Init PROVE IInv
  OBVIOUS
<1>1. pipes = <<>> /\ pipes \in Seq(0..CAP) /\ Len(pipes) = 0
  BY DEF Init
<1>2. Free \in Rec(0) /\ Local(Free) /\ Free.st = "FREE" /\ Free.pc = "none"
  BY FreeFacts DEF Free
<1>3. PICK fs \in Table(0) : fs = [NoFds EXCEPT ![0] = Console, ![1] = Console]
  BY Devices DEF NoFds, Table
<1>4. Std(fs)
  BY <1>3, Numbers DEF Std, NoFds
<1>5. PICK r : r = [Free EXCEPT !.st = "RUNNABLE", !.pc = "prompt", !.fds = fs]
  OBVIOUS
<1>6. "RUNNABLE" \in Sts /\ "prompt" \in Pcs
  BY DEF Sts, Pcs
<1>7. r \in Rec(0) /\ r.st = "RUNNABLE" /\ r.pc = "prompt" /\ r.fds = fs
  BY <1>2, <1>5, <1>6 DEF Rec
<1>8. Local(r)
  BY <1>4, <1>7, PcIn DEF Local
<1>9. \A q \in Procs : proc[q] = IF q = 1 THEN r ELSE Free
  BY <1>3, <1>5 DEF Init
<1>10. proc \in [Procs -> Rec(0)]
  BY <1>2, <1>3, <1>5, <1>7 DEF Init
<1>11. used \in Used /\ used.proc = 1
  BY Numbers DEF Init, Used
<1>12. \A q \in Procs : proc[q].pc \notin SpawnPcs
  BY <1>2, <1>7, <1>9, PcIn DEF SpawnPcs
<1>13. Unused
  BY <1>2, <1>9, <1>11, Numbers DEF Unused
<1> QED
  BY <1>1, <1>2, <1>8, <1>9, <1>10, <1>11, <1>12, <1>13 DEF IInv, Types, Kids, Distinct

(* Every step keeps the invariant. *)
LEMMA NextIInv ==
  ASSUME IInv, [Next]_vars
  PROVE  IInv'
<1>1. CASE UNCHANGED vars
  BY <1>1 DEF vars, IInv, Types, Kids, Distinct, Unused
<1>2. CASE \E p \in Procs : Prompt(p) \/ EndOfInput(p) \/ Run(p)
  <2>1. PICK p \in Procs : Prompt(p) \/ EndOfInput(p) \/ Run(p)
    BY <1>2
  <2>2. CASE \/ EndOfInput(p) \/ ParseEnd(p) \/ Parsed(p)
             \/ SpawnLoad(p, "stack", "load") \/ SpawnLoad(p, "load", "close")
             \/ WaitChild(p) \/ WaitRight(p)
    BY <2>2, MoveSteps
  <2>3. CASE ParseWord(p) \/ ParseRedirect(p) \/ ParseOther(p)
    BY <2>3, ParseSteps
  <2>4. CASE Prompt(p) \/ Wait(p) \/ ParsePipe(p) \/ Plumb(p)
    BY <2>4, PromptStep, WaitStep, ParsePipeStep, PlumbStep
  <2>5. CASE SpawnOpen(p) \/ SpawnHeader(p) \/ SpawnExofork(p) \/ SpawnClose(p) \/ SpawnErr(p)
    BY <2>5, SpawnOpenStep, SpawnHeaderStep, SpawnExoforkStep, FileClosed
  <2>6. CASE SpawnShare(p) \/ SpawnStatus(p) \/ SpawnFail(p)
    BY <2>6, SpawnShareStep, SpawnStatusStep, SpawnFailStep
  <2>7. CASE CloseAll(p) \/ Exit(p)
    BY <2>7, CloseSteps
  <2>8. CASE Main(p) \/ Read(p) \/ Write(p)
    BY <2>8, MainStep, ReadStep, WriteStep
  <2> QED
    BY <2>1, <2>2, <2>3, <2>4, <2>5, <2>6, <2>7, <2>8 DEF Run
<1> QED
  BY <1>1, <1>2 DEF Next, Yield

(* The invariant holds always: types, descriptors, and the envs that spawn makes. *)
THEOREM ShellInvariance == Spec => []IInv
<1>1. Init => IInv
  BY InitIInv
<1>2. IInv /\ [Next]_vars => IInv'
  BY NextIInv
<1> QED
  BY <1>1, <1>2, PTL DEF Spec

(* The types, for any lines and any number of processes. *)
THEOREM ShellTypes == Spec => []TypeOK
<1>1. IInv => TypeOK
  <2> SUFFICES ASSUME IInv PROVE TypeOK
    OBVIOUS
  <2>1. \A p \in Procs :
          /\ proc[p].st \in Sts /\ proc[p].fds \in [Fdnum -> Fd(Len(pipes))]
          /\ proc[p].argc \in 0..MAXARGS /\ proc[p].kid \in -1..NPROC
          /\ proc[p].right \in 0..NPROC /\ proc[p].n \in Nat
    BY ProcFacts
  <2>2. pipes \in Seq(0..CAP) /\ used \in [proc : Procs, lines : 0..NLINE]
    BY DEF IInv, Types, Used
  <2> QED
    BY <2>1, <2>2 DEF TypeOK, Sts, Fd
<1> QED
  BY <1>1, ShellInvariance, PTL

(* A program starts with its standard input and output and nothing else, on every *)
(* path of spawn (user/lib/spawn.c), of the pipeline and of its failures.          *)
THEOREM OnlyStdioCorrect == Spec => []OnlyStdio
<1>1. IInv => OnlyStdio
  <2> SUFFICES ASSUME IInv, NEW p \in Procs, proc[p].pc \in {"main", "read", "write", "wait1", "prompt"},
                      NEW f \in Fdnum, proc[p].fds[f] # None
               PROVE  f \in {0, 1}
    BY DEF OnlyStdio
  <2>1. Std(proc[p].fds)
    BY ProcFacts, PcIn DEF Local
  <2> QED
    BY <2>1 DEF Std
<1> QED
  BY <1>1, ShellInvariance, PTL

----------------------------------------------------------------------------
(* Who waits for whom *)

(* Where the process or the env of kid is waited for, and the right side of the pipe. *)
KidPcs   == SpawnPcs \cup {"wait", "close_all", "wait1"}
RightPcs == SpawnPcs \cup {"plumb", "parsed", "open", "header", "exofork", "err", "close_all", "wait1", "wait2",
                         "down"}

Waits(p, q) ==
  \/ proc[p].pc \in KidPcs /\ proc[p].kid = q
  \/ proc[p].pc \in RightPcs /\ proc[p].right = q

(* Every process but the shell has an older one that waits for it, or will. *)
Parented ==
  \A q \in Procs : proc[q].st # "FREE" /\ q # 1 =>
    \E p \in Procs : p < q /\ proc[p].st = "RUNNABLE" /\ Waits(p, q)

(* Who waits where. *)
LEMMA WaitPcs ==
  /\ SpawnPcs \subseteq KidPcs /\ SpawnPcs \subseteq RightPcs
  /\ {"wait", "close_all", "wait1"} \subseteq KidPcs
  /\ {"plumb", "parsed", "open", "header", "exofork", "err", "close_all", "wait1", "wait2", "down"} \subseteq RightPcs
  /\ {"stack", "load", "close", "share", "status", "err1", "err2"} \subseteq SpawnPcs
  /\ \A x \in {"none", "prompt", "parse", "main", "read", "write", "exit"} : x \notin KidPcs /\ x \notin RightPcs
  /\ \A x \in {"plumb", "parsed", "open", "header", "exofork", "err", "wait2", "down"} : x \notin KidPcs
  /\ "wait" \notin RightPcs
  BY DEF SpawnPcs, KidPcs, RightPcs

(* What a step of p must keep: the processes that run, and whom p waits for. *)
LEMMA Keeps ==
  ASSUME Parented, NEW p \in Procs,
         \A x \in Procs : x # p /\ proc[x].st = "RUNNABLE" => proc'[x] = proc[x],
         \A q \in Procs : proc[q].st = "FREE" /\ proc'[q].st # "FREE" =>
           p < q /\ proc'[p].st = "RUNNABLE" /\ Waits(p, q)',
         \A q \in Procs : proc[q].st # "FREE" /\ Waits(p, q) /\ proc'[q].st # "FREE" =>
           proc'[p].st = "RUNNABLE" /\ Waits(p, q)'
  PROVE  Parented'
<1> SUFFICES ASSUME NEW q \in Procs, proc'[q].st # "FREE", q # 1
             PROVE  \E x \in Procs : x < q /\ proc'[x].st = "RUNNABLE" /\ Waits(x, q)'
  BY DEF Parented
<1>1. CASE proc[q].st = "FREE"
  BY <1>1
<1>2. CASE proc[q].st # "FREE"
  <2>1. PICK x \in Procs : x < q /\ proc[x].st = "RUNNABLE" /\ Waits(x, q)
    BY <1>2 DEF Parented
  <2>2. CASE x = p
    BY <1>2, <2>1, <2>2
  <2>3. CASE x # p
    <3>1. proc'[x] = proc[x]
      BY <2>1, <2>3
    <3>2. Waits(x, q)'
      BY <2>1, <3>1 DEF Waits
    <3> QED
      BY <2>1, <3>1, <3>2
  <2> QED
    BY <2>2, <2>3
<1> QED
  BY <1>1, <1>2

(* The case of a step of p alone. *)
LEMMA Stays ==
  ASSUME Parented, NEW p \in Procs, proc[p].st = "RUNNABLE",
         \A x \in Procs : x # p => proc'[x] = proc[x],
         proc[p].pc \in KidPcs /\ ~Gone(proc[p].kid) =>
           proc'[p].st = "RUNNABLE" /\ proc'[p].pc \in KidPcs /\ proc'[p].kid = proc[p].kid,
         proc[p].pc \in RightPcs /\ ~Gone(proc[p].right) =>
           proc'[p].st = "RUNNABLE" /\ proc'[p].pc \in RightPcs /\ proc'[p].right = proc[p].right
  PROVE  Parented'
<1>1. \A q \in Procs : proc[q].st = "FREE" => proc'[q].st = "FREE"
  OBVIOUS
<1>2. ASSUME NEW q \in Procs, proc[q].st # "FREE", Waits(p, q)
      PROVE  proc'[p].st = "RUNNABLE" /\ Waits(p, q)'
  <2>1. ~Gone(q)
    BY <1>2 DEF Gone
  <2> QED
    BY <1>2, <2>1 DEF Waits
<1> QED
  BY <1>1, <1>2, Keeps

(* The steps of a process that waits for nobody. *)
LEMMA AloneSteps ==
  ASSUME IInv, Parented, NEW p \in Procs,
         \/ EndOfInput(p) \/ ParseEnd(p) \/ ParseWord(p) \/ ParseRedirect(p) \/ ParseOther(p)
         \/ Exit(p) \/ Main(p) \/ Read(p) \/ Write(p)
  PROVE  Parented'
<1>1. proc[p].st = "RUNNABLE" /\ proc[p].pc \in {"prompt", "parse", "main", "read", "write", "exit"}
  BY DEF EndOfInput, ParseEnd, ParseWord, ParseRedirect, ParseOther, Exit, Main, Read, Write, At
<1>2. proc \in [Procs -> Rec(Len(pipes))]
  BY DEF IInv, Types
<1>3. \A x \in Procs : x # p => proc'[x] = proc[x]
  <2>1. CASE EndOfInput(p) \/ ParseEnd(p) \/ ParseWord(p) \/ ParseRedirect(p) \/ ParseOther(p)
    BY <1>2, <2>1 DEF EndOfInput, ParseEnd, ParseWord, ParseRedirect, ParseOther, Goto
  <2>2. CASE Exit(p) \/ Main(p) \/ Read(p)
    BY <1>2, <2>2 DEF Exit, Main, Read, Goto, CloseNext, Destroyed
  <2>3. CASE Write(p)
    BY <1>2, <2>3 DEF Write, Goto
  <2> QED
    BY <2>1, <2>2, <2>3
<1>4. proc[p].pc \notin KidPcs /\ proc[p].pc \notin RightPcs
  BY <1>1, WaitPcs
<1> QED
  BY <1>1, <1>3, <1>4, Stays

(* A step that changes nothing but where the process is. *)
LEMMA GoesOn ==
  ASSUME IInv, Parented, NEW p \in Procs, proc[p].st = "RUNNABLE", NEW x, Goto(p, x),
         proc[p].pc \in KidPcs /\ ~Gone(proc[p].kid) => x \in KidPcs,
         proc[p].pc \in RightPcs /\ ~Gone(proc[p].right) => x \in RightPcs
  PROVE  Parented'
<1>1. proc \in [Procs -> Rec(Len(pipes))]
  BY DEF IInv, Types
<1>2. /\ \A q \in Procs : q # p => proc'[q] = proc[q]
      /\ proc'[p].st = "RUNNABLE" /\ proc'[p].pc = x /\ proc'[p].kid = proc[p].kid /\ proc'[p].right = proc[p].right
  BY <1>1 DEF Goto, Rec
<1> QED
  BY <1>2, Stays

(* An error or nothing is waited for by nobody. *)
LEMMA GoneNone == Gone(0) /\ Gone(-1)
  BY Numbers DEF Gone

(* An empty stage is the one that runcmd returns from without waiting. *)
NoEmptyStage == \A p \in Procs : proc[p].pc = "parsed" /\ proc[p].right # 0 => proc[p].argc > 0

(* The steps that only move. *)
LEMMA MovesOn ==
  ASSUME IInv, Parented, NoEmptyStage, NEW p \in Procs,
         \/ Parsed(p) \/ SpawnLoad(p, "stack", "load") \/ SpawnLoad(p, "load", "close")
         \/ WaitChild(p) \/ WaitRight(p)
  PROVE  Parented'
<1>1. proc[p].st = "RUNNABLE" /\ proc[p].pc \in {"parsed", "stack", "load", "wait1", "wait2"}
  BY DEF Parsed, SpawnLoad, WaitChild, WaitRight, At
<1>2. CASE Parsed(p)
  <2>1. PICK x : Goto(p, x) /\ x = IF proc[p].argc = 0 THEN "exit" ELSE "open"
    BY <1>2 DEF Parsed
  <2>2. proc[p].pc = "parsed"
    BY <1>2 DEF Parsed, At
  <2>3. CASE proc[p].right = 0
    BY <1>1, <2>1, <2>2, <2>3, GoneNone, WaitPcs, GoesOn
  <2>4. CASE proc[p].right # 0
    <3>1. proc[p].argc # 0
      BY <2>2, <2>4, ProcFacts DEF NoEmptyStage
    <3> QED
      BY <1>1, <2>1, <2>2, <3>1, WaitPcs, GoesOn
  <2> QED
    BY <2>3, <2>4
<1>3. CASE SpawnLoad(p, "stack", "load") \/ SpawnLoad(p, "load", "close")
  <2>1. PICK x \in {"load", "close", "err1"} : Goto(p, x)
    BY <1>3 DEF SpawnLoad
  <2>2. x \in KidPcs /\ x \in RightPcs
    BY WaitPcs
  <2> QED
    BY <1>1, <2>1, <2>2, GoesOn
<1>4. CASE WaitChild(p)
  <2>1. Goto(p, "wait2") /\ Gone(proc[p].kid)
    BY <1>4 DEF WaitChild
  <2> QED
    BY <1>1, <2>1, WaitPcs, GoesOn
<1>5. CASE WaitRight(p)
  <2>1. Goto(p, "exit") /\ Gone(proc[p].right) /\ proc[p].pc = "wait2"
    BY <1>5 DEF WaitRight, At
  <2> QED
    BY <1>1, <2>1, WaitPcs, GoesOn
<1> QED
  BY <1>2, <1>3, <1>4, <1>5

(* The steps of one process that set its descriptors or its result. *)
LEMMA SetsOn ==
  ASSUME IInv, Parented, NEW p \in Procs,
         \/ Wait(p) \/ Plumb(p) \/ SpawnOpen(p) \/ SpawnHeader(p) \/ SpawnClose(p) \/ SpawnErr(p) \/ CloseAll(p)
  PROVE  Parented'
<1>1. proc \in [Procs -> Rec(Len(pipes))]
  BY DEF IInv, Types
<1>2. CASE Wait(p)
  <2>1. /\ proc[p].st = "RUNNABLE" /\ proc[p].pc = "wait" /\ Gone(proc[p].kid)
        /\ \A x \in Procs : x # p => proc'[x] = proc[x]
    BY <1>1, <1>2 DEF Wait, At
  <2> QED
    BY <2>1, WaitPcs, Stays
<1>3. CASE Plumb(p)
  <2>1. proc[p].st = "RUNNABLE" /\ proc[p].pc = "plumb"
    BY <1>3 DEF Plumb, At
  <2>2. CASE proc[p].todo = <<>>
    <3>1. PICK x : Goto(p, x) /\ x = IF proc[p].right = 0 THEN "parse" ELSE "parsed"
      BY <1>3, <2>2 DEF Plumb
    <3> QED
      BY <2>1, <3>1, GoneNone, WaitPcs, GoesOn
  <2>3. CASE proc[p].todo # <<>>
    <3>1. PICK g, v : proc' = [proc EXCEPT ![p].todo = Tail(@), ![p].fds[g] = v]
      BY <1>3, <2>3 DEF Plumb
    <3>2. /\ \A x \in Procs : x # p => proc'[x] = proc[x]
          /\ proc'[p].st = proc[p].st /\ proc'[p].pc = proc[p].pc /\ proc'[p].kid = proc[p].kid
          /\ proc'[p].right = proc[p].right
      BY <1>1, <3>1 DEF Rec
    <3> QED
      BY <2>1, <3>2, Stays
  <2> QED
    BY <2>2, <2>3
<1>4. CASE SpawnOpen(p) \/ SpawnHeader(p)
  <2>1. /\ proc[p].st = "RUNNABLE" /\ proc[p].pc \in {"open", "header"}
    BY <1>4 DEF SpawnOpen, SpawnHeader, At
  <2>2. CASE SpawnOpen(p)
    <3>1. /\ \A x \in Procs : x # p => proc'[x] = proc[x]
          /\ proc'[p].st = proc[p].st /\ proc'[p].pc \in {"header", "close_all"} /\ proc'[p].right = proc[p].right
      BY <1>1, <2>2 DEF SpawnOpen, Return, Rec
    <3> QED
      BY <2>1, <3>1, WaitPcs, Stays
  <2>3. CASE SpawnHeader(p)
    <3>1. /\ \A x \in Procs : x # p => proc'[x] = proc[x]
          /\ proc'[p].st = proc[p].st /\ proc'[p].pc \in {"exofork", "err"} /\ proc'[p].right = proc[p].right
      BY <1>1, <2>3 DEF SpawnHeader, Goto, Rec
    <3> QED
      BY <2>1, <3>1, WaitPcs, Stays
  <2> QED
    BY <1>4, <2>2, <2>3
<1>5. CASE SpawnClose(p) \/ SpawnErr(p)
  <2>0. PICK g : g = proc[p].fd
    OBVIOUS
  <2>1. PICK x \in {"share", "close_all"} : proc' = [proc EXCEPT ![p].fds[g] = None, ![p].pc = x]
    BY <1>5, <2>0 DEF SpawnClose, SpawnErr
  <2>2. proc[p].st = "RUNNABLE"
    BY <1>5 DEF SpawnClose, SpawnErr, At
  <2>3. /\ \A q \in Procs : q # p => proc'[q] = proc[q]
        /\ proc'[p].st = proc[p].st /\ proc'[p].pc = x /\ proc'[p].kid = proc[p].kid
        /\ proc'[p].right = proc[p].right
    BY <1>1, <2>1 DEF Rec
  <2>4. x \in KidPcs /\ x \in RightPcs
    BY WaitPcs
  <2> QED
    BY <2>2, <2>3, <2>4, Stays
<1>6. CASE CloseAll(p)
  <2>1. proc[p].st = "RUNNABLE" /\ proc[p].pc = "close_all" /\ CloseNext(p, "wait1")
    BY <1>6 DEF CloseAll, At
  <2>2. CASE Goto(p, "wait1")
    BY <2>1, <2>2, WaitPcs, GoesOn
  <2>3. CASE ~Goto(p, "wait1")
    <3>1. PICK g : proc' = [proc EXCEPT ![p].fds[g] = None]
      BY <2>1, <2>3 DEF CloseNext
    <3>2. /\ \A x \in Procs : x # p => proc'[x] = proc[x]
          /\ proc'[p].st = proc[p].st /\ proc'[p].pc = proc[p].pc /\ proc'[p].kid = proc[p].kid
          /\ proc'[p].right = proc[p].right
      BY <1>1, <3>1 DEF Rec
    <3> QED
      BY <2>1, <3>2, Stays
  <2> QED
    BY <2>2, <2>3
<1> QED
  BY <1>2, <1>3, <1>4, <1>5, <1>6

(* A new process, for which its maker waits. *)
LEMMA NewOn ==
  ASSUME IInv, Parented, NEW p \in Procs, Prompt(p) \/ ParsePipe(p) \/ SpawnExofork(p)
  PROVE  Parented'
<1>1. proc \in [Procs -> Rec(Len(pipes))]
  BY DEF IInv, Types
<1>2. proc[p].st = "RUNNABLE" /\ proc[p].pc \in {"prompt", "parse", "exofork"}
  BY DEF Prompt, ParsePipe, SpawnExofork, At
<1>3. CASE proc' = [proc EXCEPT ![p].pc = "err1", ![p].kid = 0] /\ proc[p].pc = "exofork"
  <2>1. /\ \A x \in Procs : x # p => proc'[x] = proc[x]
        /\ proc'[p].st = proc[p].st /\ proc'[p].pc = "err1" /\ proc'[p].right = proc[p].right
    BY <1>1, <1>3 DEF Rec
  <2> QED
    BY <1>2, <1>3, <2>1, WaitPcs, Stays
<1>4. CASE ~(proc' = [proc EXCEPT ![p].pc = "err1", ![p].kid = 0] /\ proc[p].pc = "exofork")
  <2>1. used.proc < NPROC
    BY <1>4 DEF Prompt, ParsePipe, SpawnExofork, At
  <2>2. PICK c \in Procs : c = used.proc + 1 /\ c # p /\ proc[c].st = "FREE" /\ p < c
    <3>1. used.proc + 1 \in Procs /\ used.proc + 1 # p /\ proc[used.proc + 1].st = "FREE"
      BY <1>2, <2>1, NextId
    <3>2. p <= used.proc /\ p \in Int /\ used.proc \in Int
      BY <1>2, ProcFacts
    <3>3. p < used.proc + 1
      BY <3>2
    <3> QED
      BY <3>1, <3>3
  <2>3. /\ \A x \in Procs : x \notin {p, c} => proc'[x] = proc[x]
        /\ proc'[p].st = "RUNNABLE" /\ Waits(p, c)'
        /\ proc[p].pc = "exofork" => proc'[p].pc \in RightPcs /\ proc'[p].right = proc[p].right
    <3>1. CASE Prompt(p)
      <4>1. PICK s : proc' = [proc EXCEPT ![p].pc = "wait", ![p].kid = c, ![c] = s]
        BY <2>2, <3>1 DEF Prompt
      <4>2. /\ \A x \in Procs : x \notin {p, c} => proc'[x] = proc[x]
            /\ proc'[p].st = proc[p].st /\ proc'[p].pc = "wait" /\ proc'[p].kid = c
        BY <1>1, <2>2, <4>1 DEF Rec
      <4>3. proc[p].pc = "prompt"
        BY <3>1 DEF Prompt, At
      <4> QED
        BY <1>2, <4>2, <4>3, WaitPcs DEF Waits
    <3>2. CASE ParsePipe(p)
      <4>1. PICK fs, l, y :
              proc' = [proc EXCEPT ![p] = [[proc[p] EXCEPT !.fds = fs, !.pc = "plumb"]
                                             EXCEPT !.right = c, !.toks = <<>>, !.todo = l],
                                   ![c] = y]
        BY <2>2, <3>2 DEF ParsePipe
      <4>2. /\ \A x \in Procs : x \notin {p, c} => proc'[x] = proc[x]
            /\ proc'[p].st = proc[p].st /\ proc'[p].pc = "plumb" /\ proc'[p].right = c
        BY <1>1, <2>2, <4>1 DEF Rec
      <4>3. proc[p].pc = "parse"
        BY <3>2 DEF ParsePipe, At
      <4> QED
        BY <1>2, <4>2, <4>3, WaitPcs DEF Waits
    <3>3. CASE SpawnExofork(p)
      <4>1. PICK s : proc' = [proc EXCEPT ![p].pc = "stack", ![p].kid = c, ![c] = s]
        BY <1>4, <2>2, <3>3 DEF SpawnExofork, At
      <4>2. /\ \A x \in Procs : x \notin {p, c} => proc'[x] = proc[x]
            /\ proc'[p].st = proc[p].st /\ proc'[p].pc = "stack" /\ proc'[p].kid = c
            /\ proc'[p].right = proc[p].right
        BY <1>1, <2>2, <4>1 DEF Rec
      <4> QED
        BY <1>2, <4>2, WaitPcs DEF Waits
    <3> QED
      BY <3>1, <3>2, <3>3
  <2>4. \A x \in Procs : x # p /\ proc[x].st = "RUNNABLE" => proc'[x] = proc[x]
    BY <2>2, <2>3
  <2>5. \A q \in Procs : proc[q].st = "FREE" /\ proc'[q].st # "FREE" =>
          p < q /\ proc'[p].st = "RUNNABLE" /\ Waits(p, q)'
    BY <1>2, <2>2, <2>3
  <2>6. ASSUME NEW q \in Procs, Waits(p, q)
        PROVE  proc'[p].st = "RUNNABLE" /\ Waits(p, q)'
    <3>1. proc[p].pc = "exofork" /\ proc[p].right = q
      BY <1>2, <2>6, WaitPcs DEF Waits
    <3> QED
      BY <2>3, <3>1 DEF Waits
  <2> QED
    BY <2>4, <2>5, <2>6, Keeps
<1> QED
  BY <1>3, <1>4

(* The steps that change the env that spawn is making. *)
LEMMA KidOn ==
  ASSUME IInv, Parented, NEW p \in Procs, SpawnShare(p) \/ SpawnStatus(p) \/ SpawnFail(p)
  PROVE  Parented'
<1>1. proc \in [Procs -> Rec(Len(pipes))] /\ Local(proc[p])
  BY DEF IInv, Types
<1>2. proc[p].st = "RUNNABLE" /\ proc[p].pc \in {"share", "status", "err1", "err2"} /\ proc[p].pc \in SpawnPcs
  BY PcIn DEF SpawnShare, SpawnStatus, SpawnFail, At
<1>3. CASE Goto(p, "err2") \/ (proc[p].kid = 0 /\ Goto(p, "err"))
  BY <1>2, <1>3, GoneNone, WaitPcs, GoesOn
<1>4. CASE ~(Goto(p, "err2") \/ (proc[p].kid = 0 /\ Goto(p, "err")))
  <2>1. proc[p].kid # 0
    <3>1. proc[p].pc # "err1" => proc[p].kid # 0
      BY <1>1, <1>2, ProcFacts DEF Local
    <3>2. proc[p].pc = "err1" => proc[p].kid # 0
      BY <1>4 DEF SpawnShare, SpawnStatus, SpawnFail, At
    <3> QED
      BY <3>1, <3>2
  <2>2. PICK q \in Procs : q = proc[p].kid /\ q # p /\ proc[q].st = "NOT_RUNNABLE"
    BY <1>2, <2>1, KidFacts
  <2>3. /\ \A x \in Procs : x \notin {p, q} => proc'[x] = proc[x]
        /\ proc'[p].st = "RUNNABLE" /\ proc'[p].pc \in RightPcs /\ proc'[p].right = proc[p].right
        /\ proc'[q].st # "FREE" => proc'[p].pc \in KidPcs /\ proc'[p].kid = q
    <3>1. CASE SpawnShare(p)
      <4>1. PICK fs : proc' = [proc EXCEPT ![q].fds = fs, ![p].pc = "status"]
        BY <1>4, <2>2, <3>1 DEF SpawnShare
      <4>2. /\ \A x \in Procs : x \notin {p, q} => proc'[x] = proc[x]
            /\ proc'[p].st = proc[p].st /\ proc'[p].pc = "status" /\ proc'[p].right = proc[p].right
            /\ proc'[p].kid = proc[p].kid
        BY <1>1, <2>2, <4>1 DEF Rec
      <4> QED
        BY <1>2, <2>2, <4>2, WaitPcs
    <3>2. CASE SpawnStatus(p)
      <4>1. proc' = [proc EXCEPT ![q].st = "RUNNABLE", ![q].pc = "main", ![p].pc = "close_all"]
        BY <2>2, <3>2 DEF SpawnStatus
      <4>2. /\ \A x \in Procs : x \notin {p, q} => proc'[x] = proc[x]
            /\ proc'[p].st = proc[p].st /\ proc'[p].pc = "close_all" /\ proc'[p].right = proc[p].right
            /\ proc'[p].kid = proc[p].kid
        BY <1>1, <2>2, <4>1 DEF Rec
      <4> QED
        BY <1>2, <2>2, <4>2, WaitPcs
    <3>3. CASE SpawnFail(p)
      <4>1. PICK x \in {"close_all", "err", "down"}, k \in {-1, 0} :
              proc' = [[proc EXCEPT ![q] = Free] EXCEPT ![p].pc = x, ![p].kid = k]
        BY <1>4, <2>2, <3>3 DEF SpawnFail, Destroyed
      <4>2. /\ \A y \in Procs : y \notin {p, q} => proc'[y] = proc[y]
            /\ proc'[p].st = proc[p].st /\ proc'[p].pc = x /\ proc'[p].right = proc[p].right
            /\ proc'[q] = Free
        BY <1>1, <2>2, <4>1 DEF Rec
      <4>3. Free.st = "FREE"
        BY DEF Free
      <4> QED
        BY <1>2, <2>2, <4>2, <4>3, WaitPcs
    <3> QED
      BY <3>1, <3>2, <3>3
  <2>4. \A x \in Procs : x # p /\ proc[x].st = "RUNNABLE" => proc'[x] = proc[x]
    BY <2>2, <2>3
  <2>5. \A x \in Procs : proc[x].st = "FREE" => proc'[x].st = "FREE"
    BY <1>2, <2>2, <2>3
  <2>6. ASSUME NEW x \in Procs, Waits(p, x), proc'[x].st # "FREE"
        PROVE  Waits(p, x)'
    BY <2>2, <2>3, <2>6 DEF Waits
  <2> QED
    BY <2>3, <2>4, <2>5, <2>6, Keeps
<1> QED
  BY <1>3, <1>4

(* Every step keeps a waiter for every process, unless a stage is empty. *)
LEMMA NextParented ==
  ASSUME IInv, Parented, NoEmptyStage, [Next]_vars
  PROVE  Parented'
<1>1. CASE UNCHANGED vars
  BY <1>1 DEF vars, Parented, Waits
<1>2. CASE \E p \in Procs : Prompt(p) \/ EndOfInput(p) \/ Run(p)
  <2>1. PICK p \in Procs : Prompt(p) \/ EndOfInput(p) \/ Run(p)
    BY <1>2
  <2>2. CASE \/ EndOfInput(p) \/ ParseEnd(p) \/ ParseWord(p) \/ ParseRedirect(p) \/ ParseOther(p)
             \/ Exit(p) \/ Main(p) \/ Read(p) \/ Write(p)
    BY <2>2, AloneSteps
  <2>3. CASE \/ Parsed(p) \/ SpawnLoad(p, "stack", "load") \/ SpawnLoad(p, "load", "close")
             \/ WaitChild(p) \/ WaitRight(p)
    BY <2>3, MovesOn
  <2>4. CASE \/ Wait(p) \/ Plumb(p) \/ SpawnOpen(p) \/ SpawnHeader(p) \/ SpawnClose(p) \/ SpawnErr(p) \/ CloseAll(p)
    BY <2>4, SetsOn
  <2>5. CASE Prompt(p) \/ ParsePipe(p) \/ SpawnExofork(p)
    BY <2>5, NewOn
  <2>6. CASE SpawnShare(p) \/ SpawnStatus(p) \/ SpawnFail(p)
    BY <2>6, KidOn
  <2> QED
    BY <2>1, <2>2, <2>3, <2>4, <2>5, <2>6 DEF Run
<1> QED
  BY <1>1, <1>2 DEF Next, Yield

(* The oldest process that is left is waited for by the shell. *)
LEMMA ParentedAlone ==
  ASSUME IInv, Parented
  PROVE  PromptAlone
<1> SUFFICES ASSUME proc[1].pc = "prompt", NEW q \in Procs \ {1}, proc[q].st # "FREE"
             PROVE  FALSE
  BY DEF PromptAlone
<1>1. PICK S : S = {x \in Procs \ {1} : proc[x].st # "FREE"}
  OBVIOUS
<1>2. S \subseteq Nat /\ S # {}
  BY <1>1, Numbers
<1>3. PICK x \in S : \A y \in S : x <= y
  BY <1>2, SmallestNat
<1>4. x \in Procs /\ x # 1 /\ proc[x].st # "FREE"
  BY <1>1, <1>3
<1>5. PICK p \in Procs : p < x /\ proc[p].st = "RUNNABLE" /\ Waits(p, x)
  BY <1>4 DEF Parented
<1>6. ~(x <= p)
  BY <1>4, <1>5, Numbers
<1>7. p = 1
  BY <1>1, <1>3, <1>5, <1>6
<1> QED
  BY <1>5, <1>7, WaitPcs DEF Waits

(* There is only the shell. *)
LEMMA InitParented == Init => Parented
<1> SUFFICES ASSUME Init, NEW q \in Procs, q # 1 PROVE proc[q].st = "FREE"
  BY DEF Parented
<1> QED
  BY DEF Init, Free

(* When the shell prompts again everything the line started is gone: only an empty *)
(* stage of a pipeline, from which runcmd returns at once (user/sh.c), could leave  *)
(* the stages to its right behind.                                                  *)
THEOREM PromptAloneUnlessEmpty == Spec /\ []NoEmptyStage => []PromptAlone
<1>1. Init => Parented
  BY InitParented
<1>2. IInv /\ Parented /\ NoEmptyStage /\ [Next]_vars => Parented'
  BY NextParented
<1>3. IInv /\ Parented => PromptAlone
  BY ParentedAlone
<1> QED
  BY <1>1, <1>2, <1>3, ShellInvariance, PTL DEF Spec

----------------------------------------------------------------------------
(* Lines in which every stage starts with its command have no empty stage *)

Words(toks) == \A j \in 2..Len(toks) : toks[j - 1] = "|" => IsWord(toks[j])

(* The stage has its command, or begins with it. *)
Ready(r) == Words(r.toks) /\ (r.argc > 0 \/ r.toks = <<>> \/ IsWord(r.toks[1]))

StagePcs == {"prompt", "wait", "parse", "plumb", "parsed"}

Stage(r) ==
  /\ r.pc \in {"prompt", "wait", "parse"} => r.right = 0
  /\ r.pc = "parse" => Ready(r)
  /\ r.pc = "plumb" => IF r.right = 0 THEN Ready(r) ELSE r.argc > 0
  /\ r.pc = "parsed" => r.right = 0 \/ r.argc > 0

Stages == \A p \in Procs : Stage(proc[p])

(* Outside the parsing of a line there is nothing to say. *)
LEMMA Elsewhere == \A r : r.pc \notin StagePcs => Stage(r)
  BY DEF Stage, StagePcs

(* The rest of a line. *)
LEMMA SeqTailWords ==
  ASSUME NEW S, NEW toks \in Seq(S), toks # <<>>, Words(toks)
  PROVE  Words(Tail(toks)) /\ (toks[1] = "|" => Tail(toks) = <<>> \/ IsWord(Tail(toks)[1]))
<1>0. PICK t : t = Tail(toks)
  OBVIOUS
<1>1. PICK n \in Nat : t = Tail(toks) /\ n = Len(toks)
  BY <1>0
<1>2. /\ t \in Seq(S) /\ n > 0 /\ Len(t) = n - 1
      /\ \A j \in 1..(n - 1) : t[j] = toks[j + 1]
  BY <1>1, SeqParts
<1>3. \A j \in 2..n : toks[j - 1] = "|" => IsWord(toks[j])
  BY <1>1 DEF Words
<1>4. Words(t)
  <2> SUFFICES ASSUME NEW j \in 2..(n - 1), t[j - 1] = "|" PROVE IsWord(t[j])
    BY <1>2 DEF Words
  <2>1. j - 1 \in 1..(n - 1) /\ j \in 1..(n - 1) /\ (j - 1) + 1 = j /\ j + 1 \in 2..n /\ (j + 1) - 1 = j
    OBVIOUS
  <2>2. t[j - 1] = toks[j] /\ t[j] = toks[j + 1]
    BY <1>2, <2>1
  <2> QED
    BY <1>3, <2>1, <2>2
<1>5. ASSUME toks[1] = "|" PROVE t = <<>> \/ IsWord(t[1])
  <2>1. CASE n = 1
    BY <1>2, <2>1
  <2>2. CASE n # 1
    <3>1. 1 \in 1..(n - 1) /\ 2 \in 2..n /\ 2 - 1 = 1 /\ 1 + 1 = 2
      BY <1>2, <2>2
    <3>2. t[1] = toks[2]
      BY <1>2, <3>1
    <3> QED
      BY <1>3, <1>5, <3>1, <3>2
  <2> QED
    BY <2>1, <2>2
<1> QED
  BY <1>1, <1>4, <1>5

(* The same for the tokens of a line. *)
LEMMA TailWords ==
  ASSUME NEW toks \in Seq(STRING), gettoken(toks) # "", Words(toks)
  PROVE  /\ Words(Tail(toks)) /\ Tail(toks) \in Seq(STRING)
         /\ gettoken(toks) = "|" => Tail(toks) = <<>> \/ IsWord(Tail(toks)[1])
         /\ ~IsWord(gettoken(toks)) => toks # <<>> /\ ~IsWord(toks[1])
<1>1. toks # <<>> /\ gettoken(toks) = toks[1] /\ Tail(toks) \in Seq(STRING)
  BY Token
<1>2. Words(Tail(toks)) /\ (toks[1] = "|" => Tail(toks) = <<>> \/ IsWord(Tail(toks)[1]))
  BY <1>1, SeqTailWords
<1> QED
  BY <1>1, <1>2, Zenon

(* A step of p that leaves the parsing of the line. *)
LEMMA LeavesStage ==
  ASSUME IInv, NEW p \in Procs,
         \/ EndOfInput(p) \/ Parsed(p) \/ SpawnOpen(p) \/ SpawnHeader(p) \/ SpawnExofork(p)
         \/ SpawnLoad(p, "stack", "load") \/ SpawnLoad(p, "load", "close") \/ SpawnClose(p) \/ SpawnShare(p)
         \/ SpawnStatus(p) \/ SpawnFail(p) \/ SpawnErr(p) \/ CloseAll(p) \/ WaitChild(p) \/ WaitRight(p)
         \/ Exit(p) \/ Main(p) \/ Read(p) \/ Write(p)
  PROVE  \A x \in Procs : proc'[x] = proc[x] \/ proc'[x].pc \notin StagePcs
<1>1. proc \in [Procs -> Rec(Len(pipes))]
  BY DEF IInv, Types
<1>2. Free.pc = "none"
  BY DEF Free
<1>3. CASE \E x \in Pcs \ StagePcs : Goto(p, x)
  BY <1>1, <1>3 DEF Goto, Rec
<1>4. {"none", "exit", "open", "header", "exofork", "stack", "load", "close", "share", "status", "err", "err1", "err2",
       "close_all", "wait1", "wait2", "main", "read", "write", "down"} \subseteq Pcs \ StagePcs
  BY DEF Pcs, StagePcs
<1>5. CASE EndOfInput(p) \/ Parsed(p) \/ WaitChild(p) \/ WaitRight(p)
  <2>1. Goto(p, "exit") \/ Goto(p, "open") \/ Goto(p, "wait2")
    BY <1>5 DEF EndOfInput, Parsed, WaitChild, WaitRight
  <2> QED
    BY <1>3, <1>4, <2>1
<1>6. CASE SpawnLoad(p, "stack", "load") \/ SpawnLoad(p, "load", "close")
  <2>1. Goto(p, "load") \/ Goto(p, "close") \/ Goto(p, "err1")
    BY <1>6 DEF SpawnLoad
  <2> QED
    BY <1>3, <1>4, <2>1
<1>7. CASE SpawnOpen(p) \/ SpawnHeader(p)
  BY <1>1, <1>7 DEF SpawnOpen, SpawnHeader, Return, Goto, StagePcs, Rec
<1>8. CASE SpawnExofork(p)
  <2>1. PICK g, f : g = proc[p].prog /\ f = [Free EXCEPT !.st = "NOT_RUNNABLE", !.prog = g]
    OBVIOUS
  <2>2. f.pc = "none"
    BY <2>1 DEF Free
  <2>3. CASE proc' = [proc EXCEPT ![p].pc = "err1", ![p].kid = 0]
    BY <1>1, <2>3 DEF StagePcs, Rec
  <2>4. CASE \E c : proc' = [proc EXCEPT ![p].pc = "stack", ![p].kid = c, ![c] = f]
    <3>1. PICK c : proc' = [proc EXCEPT ![p].pc = "stack", ![p].kid = c, ![c] = f]
      BY <2>4
    <3>2. \A x \in Procs : /\ x = c => proc'[x].pc = "none"
                           /\ x # c /\ x = p => proc'[x].pc = "stack"
                           /\ x # c /\ x # p => proc'[x] = proc[x]
      BY <1>1, <2>2, <3>1 DEF Rec
    <3> QED
      BY <1>4, <3>2
  <2> QED
    BY <1>8, <2>1, <2>3, <2>4 DEF SpawnExofork
<1>9. CASE SpawnClose(p) \/ SpawnErr(p)
  BY <1>1, <1>9 DEF SpawnClose, SpawnErr, StagePcs, Rec
<1>10. CASE SpawnShare(p)
  <2>1. CASE Goto(p, "err2")
    BY <1>3, <1>4, <2>1
  <2>2. CASE ~Goto(p, "err2")
    <3>1. PICK q \in Procs : q = proc[p].kid /\ q # p /\ proc[q].pc = "none"
      <4>1. proc[p].kid # 0 /\ proc[p].st = "RUNNABLE" /\ proc[p].pc \in SpawnPcs
        BY <1>10, ProcFacts, PcIn DEF SpawnShare, At, Local
      <4> QED
        BY <4>1, KidFacts
    <3>2. PICK fs : proc' = [proc EXCEPT ![q].fds = fs, ![p].pc = "status"]
      BY <1>10, <2>2, <3>1 DEF SpawnShare
    <3>3. /\ \A x \in Procs : x \notin {p, q} => proc'[x] = proc[x]
          /\ proc'[p].pc = "status" /\ proc'[q].pc = "none"
      BY <1>1, <3>1, <3>2 DEF Rec
    <3> QED
      BY <1>4, <3>3
  <2> QED
    BY <2>1, <2>2
<1>11. CASE SpawnStatus(p)
  <2>1. PICK q : q = proc[p].kid
    OBVIOUS
  <2>2. proc' = [proc EXCEPT ![q].st = "RUNNABLE", ![q].pc = "main", ![p].pc = "close_all"]
    BY <1>11, <2>1 DEF SpawnStatus
  <2>3. \A x \in Procs : proc'[x] = proc[x] \/ proc'[x].pc = "main" \/ proc'[x].pc = "close_all"
    BY <1>1, <2>2 DEF Rec
  <2> QED
    BY <1>4, <2>3
<1>12. CASE SpawnFail(p)
  <2>1. CASE Goto(p, "err")
    BY <1>3, <1>4, <2>1
  <2>2. CASE ~Goto(p, "err")
    <3>0. PICK q : q = proc[p].kid
      OBVIOUS
    <3>1. PICK x \in {"close_all", "err", "down"}, k \in {-1, 0} :
            proc' = [[proc EXCEPT ![q] = Free] EXCEPT ![p].pc = x, ![p].kid = k]
      BY <1>12, <2>2, <3>0 DEF SpawnFail, Destroyed
    <3> QED
      BY <1>1, <1>2, <3>1 DEF StagePcs, Rec
  <2> QED
    BY <2>1, <2>2
<1>13. CASE CloseAll(p) \/ Exit(p)
  <2>1. proc[p].pc \in {"close_all", "exit"}
    BY <1>13 DEF CloseAll, Exit, At
  <2>2. CASE Goto(p, "wait1") \/ Goto(p, "exit")
    BY <1>3, <1>4, <2>2
  <2>3. CASE proc' = [proc EXCEPT ![p] = Free]
    BY <1>1, <1>2, <1>4, <2>3
  <2>4. CASE \E g : proc' = [proc EXCEPT ![p].fds[g] = None]
    <3>1. PICK g : proc' = [proc EXCEPT ![p].fds[g] = None]
      BY <2>4
    <3>2. (\A x \in Procs : x # p => proc'[x] = proc[x]) /\ proc'[p].pc = proc[p].pc
      BY <1>1, <3>1 DEF Rec
    <3> QED
      BY <1>4, <2>1, <3>2
  <2> QED
    BY <1>13, <2>2, <2>3, <2>4 DEF CloseAll, Exit, CloseNext, Destroyed
<1>14. CASE Main(p) \/ Read(p)
  BY <1>1, <1>14 DEF Main, Read, Goto, StagePcs, Rec
<1>15. CASE Write(p)
  <2>1. CASE Goto(p, "exit")
    BY <1>3, <1>4, <2>1
  <2>2. CASE ~Goto(p, "exit")
    <3>1. PICK n, x : /\ proc' = [proc EXCEPT ![p].n = n, ![p].pc = x]
                      /\ x \in {"read", "exit", "write"}
      BY <1>15, <2>2 DEF Write
    <3> QED
      BY <1>1, <1>4, <3>1 DEF Rec
  <2> QED
    BY <2>1, <2>2
<1> QED
  BY <1>5, <1>6, <1>7, <1>8, <1>9, <1>10, <1>11, <1>12, <1>13, <1>14, <1>15

(* The steps that parse a line. *)
LEMMA ParseStages ==
  ASSUME IInv, Stages, NEW p \in Procs,
         ParseEnd(p) \/ ParseWord(p) \/ ParseRedirect(p) \/ ParseOther(p)
  PROVE  Stages'
<1>1. proc \in [Procs -> Rec(Len(pipes))] /\ proc[p].pc = "parse"
  BY DEF IInv, Types, ParseEnd, ParseWord, ParseRedirect, ParseOther, At
<1>2. proc[p].right = 0 /\ Ready(proc[p]) /\ proc[p].toks \in Seq(STRING) /\ proc[p].argc \in Nat
  BY <1>1, ProcFacts, Numbers DEF Stages, Stage
<1>3. ASSUME \A x \in Procs : x # p => proc'[x] = proc[x], Stage(proc'[p]) PROVE Stages'
  BY <1>3 DEF Stages
<1>4. CASE Goto(p, "exit") \/ Goto(p, "parsed")
  <2>1. /\ \A x \in Procs : x # p => proc'[x] = proc[x]
        /\ proc'[p].pc \in {"exit", "parsed"} /\ proc'[p].right = proc[p].right
    BY <1>1, <1>4 DEF Goto, Rec
  <2>2. Stage(proc'[p])
    BY <1>2, <2>1 DEF Stage
  <2> QED
    BY <1>3, <2>1, <2>2
<1>5. CASE ~(Goto(p, "exit") \/ Goto(p, "parsed"))
  <2>1. PICK t : t = gettoken(proc[p].toks)
    OBVIOUS
  <2>2. t # "" /\ ~ParseEnd(p)
    BY <1>5, <2>1 DEF ParseEnd, ParseWord, ParseRedirect, ParseOther, IsWord, Symbols
  <2>3. /\ Words(Tail(proc[p].toks)) /\ Tail(proc[p].toks) \in Seq(STRING)
        /\ ~IsWord(t) => proc[p].toks # <<>> /\ ~IsWord(proc[p].toks[1])
    BY <1>2, <2>1, <2>2, TailWords DEF Ready
  <2>4. ~IsWord(t) => proc[p].argc > 0
    BY <1>2, <2>3 DEF Ready
  <2>5. /\ \A x \in Procs : x # p => proc'[x] = proc[x]
        /\ proc'[p].pc = "parse" /\ proc'[p].right = 0 /\ Words(proc'[p].toks) /\ proc'[p].argc > 0
    <3>1. CASE ParseWord(p)
      <4>1. PICK tl, a, g : /\ proc' = [proc EXCEPT ![p].toks = tl, ![p].argc = a, ![p].prog = g]
                            /\ tl = Tail(proc[p].toks) /\ a = proc[p].argc + 1
        BY <1>5, <3>1 DEF ParseWord
      <4>2. a > 0
        BY <1>2, <4>1
      <4> QED
        BY <1>1, <1>2, <2>3, <4>1, <4>2 DEF Rec
    <3>2. CASE ParseRedirect(p)
      <4>1. PICK tl, g : /\ proc' = [proc EXCEPT ![p].toks = tl, ![p].fds[g] = File]
                         /\ tl = Tail(Tail(proc[p].toks)) /\ t \in {"<", ">"}
                         /\ gettoken(Tail(proc[p].toks)) # ""
        BY <1>5, <2>1, <3>2 DEF ParseRedirect, IsWord
      <4>2. Words(tl)
        BY <2>3, <4>1, TailWords
      <4>3. proc[p].argc > 0
        BY <2>4, <4>1 DEF IsWord, Symbols
      <4> QED
        BY <1>1, <1>2, <4>1, <4>2, <4>3 DEF Rec
    <3>3. CASE ParseOther(p)
      <4>1. PICK tl : proc' = [proc EXCEPT ![p].toks = tl] /\ tl = Tail(proc[p].toks) /\ t \in Symbols
        BY <2>1, <3>3 DEF ParseOther
      <4>2. proc[p].argc > 0
        BY <2>4, <4>1 DEF IsWord
      <4> QED
        BY <1>1, <1>2, <2>3, <4>1, <4>2 DEF Rec
    <3> QED
      BY <2>2, <3>1, <3>2, <3>3
  <2>6. Stage(proc'[p])
    BY <2>5 DEF Stage, Ready
  <2> QED
    BY <1>3, <2>5, <2>6
<1> QED
  BY <1>4, <1>5

(* The shell, and the two sides of a pipe. *)
LEMMA ForkStages ==
  ASSUME IInv, Stages, NEW p \in Procs, Prompt(p) \/ Wait(p) \/ ParsePipe(p) \/ Plumb(p),
         \A line \in Lines : Staged(line)
  PROVE  Stages'
<1>1. proc \in [Procs -> Rec(Len(pipes))] /\ proc[p].st = "RUNNABLE"
  BY DEF IInv, Types, Prompt, Wait, ParsePipe, Plumb, At
<1>2. Stage(proc[p]) /\ proc[p].toks \in Seq(STRING)
  BY ProcFacts DEF Stages
<1>3. CASE Prompt(p)
  <2>1. PICK c \in Procs : c = used.proc + 1 /\ c # p
    BY <1>1, <1>3, NextId DEF Prompt
  <2>2. PICK line \in Lines :
          proc' = [proc EXCEPT ![p].pc = "wait", ![p].kid = c,
                               ![c] = [proc[p] EXCEPT !.pc = "parse", !.toks = line]]
    BY <1>3, <2>1 DEF Prompt
  <2>3. /\ \A x \in Procs : x \notin {p, c} => proc'[x] = proc[x]
        /\ proc'[p].pc = "wait" /\ proc'[p].right = proc[p].right
        /\ proc'[c].pc = "parse" /\ proc'[c].right = proc[p].right /\ proc'[c].toks = line
    BY <1>1, <2>1, <2>2 DEF Rec
  <2>4. proc[p].right = 0
    BY <1>2, <1>3 DEF Stage, Prompt, At
  <2>5. Ready(proc'[c])
    <3>1. Staged(line)
      OBVIOUS
    <3> QED
      BY <2>3, <3>1 DEF Ready, Words, Staged
  <2>6. Stage(proc'[p]) /\ Stage(proc'[c])
    BY <2>3, <2>4, <2>5 DEF Stage
  <2> QED
    BY <2>3, <2>6 DEF Stages
<1>4. CASE Wait(p)
  <2>1. /\ \A x \in Procs : x # p => proc'[x] = proc[x]
        /\ proc'[p].pc = "prompt" /\ proc'[p].right = proc[p].right /\ proc[p].pc = "wait"
    BY <1>1, <1>4 DEF Wait, At, Rec
  <2>2. Stage(proc'[p])
    BY <1>2, <2>1 DEF Stage
  <2> QED
    BY <2>1, <2>2 DEF Stages
<1>5. CASE ParsePipe(p)
  <2>1. PICK c \in Procs : c = used.proc + 1 /\ c # p
    BY <1>1, <1>5, NextId DEF ParsePipe
  <2>2. PICK fs, l, m, tl :
          /\ tl = Tail([proc[p] EXCEPT !.fds = fs, !.pc = "plumb"].toks)
          /\ proc' = [proc EXCEPT ![p] = [[proc[p] EXCEPT !.fds = fs, !.pc = "plumb"]
                                           EXCEPT !.right = c, !.toks = <<>>, !.todo = l],
                                  ![c] = [[proc[p] EXCEPT !.fds = fs, !.pc = "plumb"]
                                           EXCEPT !.right = 0, !.toks = tl, !.todo = m, !.argc = 0, !.prog = ""]]
    BY <1>5, <2>1 DEF ParsePipe
  <2>3. tl = Tail(proc[p].toks)
    BY <1>1, <2>2 DEF Rec
  <2>4. /\ \A x \in Procs : x \notin {p, c} => proc'[x] = proc[x]
        /\ proc'[p].pc = "plumb" /\ proc'[p].right = c /\ proc'[p].argc = proc[p].argc
        /\ proc'[c].pc = "plumb" /\ proc'[c].right = 0 /\ proc'[c].toks = tl
    BY <1>1, <2>1, <2>2 DEF Rec
  <2>5. proc[p].pc = "parse" /\ gettoken(proc[p].toks) = "|" /\ Ready(proc[p])
    BY <1>2, <1>5 DEF ParsePipe, At, Stage
  <2>6. gettoken(proc[p].toks) # "" /\ ~IsWord(gettoken(proc[p].toks)) /\ Words(proc[p].toks)
    BY <2>5 DEF IsWord, Symbols, Ready
  <2>7. /\ Words(tl) /\ (tl = <<>> \/ IsWord(tl[1]))
        /\ proc[p].toks # <<>> /\ ~IsWord(proc[p].toks[1])
    BY <1>2, <2>3, <2>5, <2>6, TailWords
  <2>8. proc[p].argc > 0
    BY <2>5, <2>7 DEF Ready
  <2>9. c # 0
    BY Numbers
  <2>10. Stage(proc'[p])
    BY <2>4, <2>8, <2>9 DEF Stage
  <2>11. Ready(proc'[c])
    BY <2>4, <2>7 DEF Ready
  <2>12. Stage(proc'[c])
    BY <2>4, <2>11 DEF Stage
  <2> QED
    BY <2>4, <2>10, <2>12 DEF Stages
<1>6. CASE Plumb(p)
  <2>1. proc[p].pc = "plumb"
    BY <1>6 DEF Plumb, At
  <2>2. /\ \A x \in Procs : x # p => proc'[x] = proc[x]
        /\ proc'[p].pc \in {"plumb", IF proc[p].right = 0 THEN "parse" ELSE "parsed"}
        /\ proc'[p].right = proc[p].right /\ proc'[p].argc = proc[p].argc /\ proc'[p].toks = proc[p].toks
    <3>1. CASE proc[p].todo = <<>>
      <4>1. PICK x : Goto(p, x) /\ x = IF proc[p].right = 0 THEN "parse" ELSE "parsed"
        BY <1>6, <3>1 DEF Plumb
      <4>2. /\ \A y \in Procs : y # p => proc'[y] = proc[y]
            /\ proc'[p].pc = x
            /\ proc'[p].right = proc[p].right /\ proc'[p].argc = proc[p].argc /\ proc'[p].toks = proc[p].toks
        BY <1>1, <4>1 DEF Goto, Rec
      <4> QED
        BY <4>1, <4>2
    <3>2. CASE proc[p].todo # <<>>
      <4>1. PICK tl, g, v : proc' = [proc EXCEPT ![p].todo = tl, ![p].fds[g] = v]
        BY <1>6, <3>2 DEF Plumb
      <4>2. /\ \A y \in Procs : y # p => proc'[y] = proc[y]
            /\ proc'[p].pc = proc[p].pc
            /\ proc'[p].right = proc[p].right /\ proc'[p].argc = proc[p].argc /\ proc'[p].toks = proc[p].toks
        BY <1>1, <4>1 DEF Rec
      <4> QED
        BY <2>1, <4>2
    <3> QED
      BY <3>1, <3>2
  <2>3. IF proc[p].right = 0 THEN Ready(proc[p]) ELSE proc[p].argc > 0
    BY <1>2, <2>1 DEF Stage
  <2>4. Ready(proc[p]) => Ready(proc'[p])
    BY <2>2 DEF Ready
  <2>5. Stage(proc'[p])
    BY <2>2, <2>3, <2>4 DEF Stage
  <2> QED
    BY <2>2, <2>5 DEF Stages
<1> QED
  BY <1>3, <1>4, <1>5, <1>6

(* Every step keeps what is left to parse in stages. *)
LEMMA NextStages ==
  ASSUME IInv, Stages, [Next]_vars, \A line \in Lines : Staged(line)
  PROVE  Stages'
<1>1. CASE UNCHANGED vars
  BY <1>1 DEF vars, Stages
<1>2. CASE \E p \in Procs : Prompt(p) \/ EndOfInput(p) \/ Run(p)
  <2>1. PICK p \in Procs : Prompt(p) \/ EndOfInput(p) \/ Run(p)
    BY <1>2
  <2>2. CASE ParseEnd(p) \/ ParseWord(p) \/ ParseRedirect(p) \/ ParseOther(p)
    BY <2>2, ParseStages
  <2>3. CASE Prompt(p) \/ Wait(p) \/ ParsePipe(p) \/ Plumb(p)
    BY <2>3, ForkStages
  <2>4. CASE \/ EndOfInput(p) \/ Parsed(p) \/ SpawnOpen(p) \/ SpawnHeader(p) \/ SpawnExofork(p)
             \/ SpawnLoad(p, "stack", "load") \/ SpawnLoad(p, "load", "close") \/ SpawnClose(p) \/ SpawnShare(p)
             \/ SpawnStatus(p) \/ SpawnFail(p) \/ SpawnErr(p) \/ CloseAll(p) \/ WaitChild(p) \/ WaitRight(p)
             \/ Exit(p) \/ Main(p) \/ Read(p) \/ Write(p)
    <3>1. \A x \in Procs : proc'[x] = proc[x] \/ proc'[x].pc \notin StagePcs
      BY <2>4, LeavesStage
    <3> QED
      BY <3>1, Elsewhere DEF Stages
  <2> QED
    BY <2>1, <2>2, <2>3, <2>4 DEF Run
<1> QED
  BY <1>1, <1>2 DEF Next, Yield

(* No line is parsed yet. *)
LEMMA InitStages == Init => Stages
<1> SUFFICES ASSUME Init, NEW p \in Procs PROVE Stage(proc[p])
  BY DEF Stages
<1>1. CASE p = 1
  <2>1. proc[p].pc = "prompt" /\ proc[p].right = 0
    BY <1>1 DEF Init, Free
  <2> QED
    BY <2>1 DEF Stage
<1>2. CASE p # 1
  <2>1. proc[p].pc = "none"
    BY <1>2 DEF Init, Free
  <2> QED
    BY <2>1, Elsewhere DEF StagePcs
<1> QED
  BY <1>1, <1>2

(* When every stage of every line starts with its command, the shell never prompts *)
(* again while anything the line started is left, whatever fails in spawn.          *)
THEOREM PromptAloneCorrect ==
  ASSUME \A line \in Lines : Staged(line)
  PROVE  Spec => []PromptAlone
<1>1. Init => Stages
  BY InitStages
<1>2. IInv /\ Stages /\ [Next]_vars => Stages'
  BY NextStages
<1>3. Stages => NoEmptyStage
  BY DEF Stages, Stage, NoEmptyStage
<1> QED
  BY <1>1, <1>2, <1>3, ShellInvariance, PromptAloneUnlessEmpty, PTL DEF Spec

----------------------------------------------------------------------------
(* What elf_load_seg loads *)

(* The page p of the segment: the file from its offset on, and zeroes. *)
SegWord(ph, p, w) ==
  IF p * BY2PG + w - ph.va \in 0..(ph.filesz - 1) THEN p * BY2PG + w - ph.va + 1 ELSE 0
SegPage(ph, p)    == [w \in 0..(BY2PG - 1) |-> SegWord(ph, p, w)]
Image(ph, a, b)   == [p \in a..b |-> SegPage(ph, p)]

(* spawn_mapper puts the next page behind the ones that are there. *)
LEMMA MapperAdds ==
  ASSUME NEW ph, NEW a \in Nat, NEW b \in Nat, a <= b,
         NEW va, NEW offset, NEW bin, NEW len, PageOf(va) = b,
         \A w \in 0..(BY2PG - 1) :
           (IF w - offset \in 0..(len - 1) THEN bin + (w - offset) + 1 ELSE 0) = SegWord(ph, b, w)
  PROVE  spawn_mapper(Image(ph, a, b - 1), va, offset, bin, len) = Image(ph, a, b)
<1> DEFINE page == [w \in 0..(BY2PG - 1) |->
                      IF w - offset \in 0..(len - 1) THEN bin + (w - offset) + 1 ELSE 0]
           old == Image(ph, a, b - 1)
<1>1. page = SegPage(ph, b)
  BY DEF SegPage
<1>2. DOMAIN old = a..(b - 1) /\ \A p \in a..(b - 1) : old[p] = SegPage(ph, p)
  BY DEF Image
<1>3. spawn_mapper(old, va, offset, bin, len)
        = [p \in DOMAIN old \cup {b} |-> IF p = b THEN page ELSE old[p]]
  BY DEF spawn_mapper
<1> HIDE DEF page, old
<1>4. (a..(b - 1)) \cup {b} = a..b
  OBVIOUS
<1>5. \A p \in a..b : p # b => p \in a..(b - 1)
  OBVIOUS
<1>6. spawn_mapper(old, va, offset, bin, len) = [p \in a..b |-> SegPage(ph, p)]
  BY <1>1, <1>2, <1>3, <1>4, <1>5
<1> QED
  BY <1>6 DEF old, Image

(* After k steps of the loops, the first of which is about page f, the image is *)
(* that of the pages up to f + k - 1.                                           *)
LEMMA SegmentLoads ==
  ASSUME NEW ph, ph.va \in Nat, ph.filesz \in Nat, ph.memsz \in Nat, ph.filesz <= ph.memsz, Loadable(ph)
  PROVE  elf_load_seg(ph) = Reference(ph)
<1> DEFINE B      == BY2PG
           va     == ph.va
           q      == va \div B
           offset == va % B
           first  == Min2(ph.filesz, B - offset)
           start  == IF offset = 0 THEN 0 ELSE first
           pages  == PageSteps(start, ph.memsz)
           head   == IF offset = 0 THEN NoPages ELSE spawn_mapper(NoPages, va, offset, 0, first)
           Len1(i) == IF i < ph.filesz THEN Min2(ph.filesz - i, B) ELSE 0
           Page(image, i) == spawn_mapper(image, va + i, 0, i, Len1(i))
           f      == IF offset = 0 THEN q ELSE q + 1
           Loads(g) == g = [k \in 0..pages |-> IF k = 0 THEN head ELSE Page(g[k - 1], start + (k - 1) * B)]
           F      == CHOOSE g : Loads(g)
<1>1. elf_load_seg(ph) = F[pages]
  BY DEF elf_load_seg
<1>2. B \in Nat /\ B > 0 /\ va \in Nat /\ ph.filesz \in Nat /\ ph.memsz \in Nat /\ ph.filesz <= ph.memsz
  BY ShellAssumption
<1>3. q \in Nat /\ offset \in 0..(B - 1) /\ va = q * B + offset
  BY <1>2, DivMod
<1>4. offset # 0 => first = B - offset /\ ph.filesz >= B - offset
  BY <1>2, <1>3 DEF Loadable, Min2
<1>5. start \in Nat /\ f \in Nat /\ start <= ph.memsz /\ (offset # 0 => start <= ph.filesz)
  BY <1>2, <1>3, <1>4
<1>6. va + start = f * B
  <2>1. CASE offset = 0
    <3>1. start = 0 /\ f = q
      BY <2>1
    <3> HIDE DEF q, offset, start, f
    <3> QED
      BY <1>2, <1>3, <2>1, <3>1
  <2>2. CASE offset # 0
    <3>1. (q + 1) * B = q * B + B
      BY <1>2, <1>3
    <3> QED
      BY <1>2, <1>3, <1>4, <2>2, <3>1
  <2> QED
    BY <2>1, <2>2
<1>7. q <= f /\ (offset # 0 => f = q + 1) /\ (offset = 0 => f = q /\ start = 0)
  BY <1>3
<1>h. head = Image(ph, q, f - 1)
  <2>1. CASE offset = 0
    <3>1. q..(f - 1) = {}
      BY <1>3, <1>7, <2>1
    <3> QED
      BY <2>1, <3>1 DEF NoPages, Image
  <2>2. CASE offset # 0
    <3>1. q..(q - 1) = {}
      BY <1>3
    <3>2. NoPages = Image(ph, q, q - 1)
      BY <3>1 DEF NoPages, Image
    <3>3. PageOf(va) = q
      BY DEF PageOf
    <3>4. ASSUME NEW w \in 0..(B - 1)
          PROVE  (IF w - offset \in 0..(first - 1) THEN 0 + (w - offset) + 1 ELSE 0) = SegWord(ph, q, w)
      <4>1. q * B \in Int /\ q * B + w - va = w - offset
        <5> HIDE DEF q, offset, va, B
        <5>1. q * B \in Int
          BY <1>2, <1>3
        <5> QED
          BY <1>2, <1>3, <5>1
      <4>2. first = B - offset /\ ph.filesz >= B - offset
        BY <1>4, <2>2
      <4> DEFINE x == q * B
      <4> HIDE DEF x, q, offset, first, B, va
      <4> QED
        BY <1>2, <1>3, <4>1, <4>2 DEF SegWord, B, va
    <3>5. spawn_mapper(Image(ph, q, q - 1), va, offset, 0, first) = Image(ph, q, q)
      <4> HIDE DEF q, offset, first
      <4> QED
        BY <1>3, <3>3, <3>4, MapperAdds
    <3> QED
      BY <1>7, <1>3, <2>2, <3>2, <3>5
  <2> QED
    BY <2>1, <2>2
<1> DEFINE G == [k \in 0..pages |-> Image(ph, q, f + k - 1)]
<1> HIDE DEF q, offset, first, start, head, f
<1>8. pages \in Nat /\ (start >= ph.memsz => pages = 0)
      /\ (start < ph.memsz => pages >= 1 /\ (pages - 1) * B <= ph.memsz - start - 1
                                         /\ ph.memsz - start - 1 < pages * B)
  <2>1. CASE start < ph.memsz
    <3> DEFINE d == ph.memsz - start
               r == (d + B - 1) % B
    <3>1. d \in Nat /\ d >= 1
      BY <1>2, <1>5, <2>1
    <3>2. pages = (d + B - 1) \div B
      BY <2>1 DEF PageSteps
    <3> HIDE DEF d, pages
    <3>3. pages \in Int /\ r \in 0..(B - 1) /\ d + B - 1 = B * pages + r
      BY <1>2, <3>1, <3>2
    <3> HIDE DEF r
    <3>4. pages <= 0 => B * pages <= 0
      BY <1>2, <3>3
    <3>5. pages >= 1
      BY <1>2, <3>1, <3>3, <3>4
    <3>6. (pages - 1) * B = B * pages - B /\ pages * B = B * pages /\ B * pages \in Int
      BY <1>2, <3>3
    <3>7. (pages - 1) * B <= d - 1 /\ d - 1 < pages * B
      BY <1>2, <3>1, <3>3, <3>6
    <3> QED
      BY <1>2, <1>5, <2>1, <3>1, <3>3, <3>5, <3>7 DEF d
  <2>2. CASE ~(start < ph.memsz)
    BY <1>2, <1>5, <2>2 DEF PageSteps
  <2> QED
    BY <1>2, <1>5, <2>1, <2>2
<1> HIDE DEF pages
<1>9. ASSUME NEW k \in 1..pages
      PROVE  Page(Image(ph, q, f + (k - 1) - 1), start + (k - 1) * B) = Image(ph, q, f + k - 1)
  <2> DEFINE j == k - 1
             i == start + j * B
             p == f + j
  <2>0. k \in Nat /\ j \in Nat /\ j * B \in Nat
    BY <1>2, <1>8
  <2>1. i \in Nat /\ p \in Nat /\ q <= p
    BY <1>2, <1>3, <1>5, <1>7, <2>0
  <2>2. va + i = p * B
    <3>1. p * B = f * B + j * B
      BY <1>2, <1>5, <2>0
    <3> QED
      BY <1>2, <1>5, <1>6, <2>0, <3>1
  <2>3. PageOf(va + i) = p
    <3>1. p * B + 0 = p * B /\ 0 < B
      BY <1>2, <2>1
    <3>2. (p * B + 0) \div B = p
      BY <1>2, <2>1, DivUnique
    <3> HIDE DEF p, i, va
    <3> QED
      BY <2>2, <3>1, <3>2 DEF PageOf
  <2> DEFINE m == p * B
  <2>4. m \in Nat /\ va + i = m
    BY <1>2, <2>1, <2>2
  <2> HIDE DEF i, p, j, B, va, m
  <2>5. ASSUME NEW w \in 0..(B - 1)
        PROVE  (IF w - 0 \in 0..(Len1(i) - 1) THEN i + (w - 0) + 1 ELSE 0) = SegWord(ph, p, w)
    <3>1. SegWord(ph, p, w) = IF m + w - va \in 0..(ph.filesz - 1) THEN m + w - va + 1 ELSE 0
      BY DEF SegWord, m, B, va
    <3>2. m + w - va = i + w
      BY <1>2, <2>1, <2>4
    <3>3. CASE i < ph.filesz
      <4>1. Len1(i) = IF ph.filesz - i < B THEN ph.filesz - i ELSE B
        BY <3>3 DEF Min2
      <4> HIDE DEF Len1
      <4> QED
        BY <1>2, <2>1, <3>1, <3>2, <3>3, <4>1
    <3>4. CASE ~(i < ph.filesz)
      <4>1. Len1(i) = 0
        BY <3>4
      <4> HIDE DEF Len1
      <4> QED
        BY <1>2, <2>1, <3>1, <3>2, <3>4, <4>1
    <3> QED
      BY <3>3, <3>4
  <2> HIDE DEF Len1
  <2>6. spawn_mapper(Image(ph, q, p - 1), va + i, 0, i, Len1(i)) = Image(ph, q, p)
    BY <1>3, <2>1, <2>3, <2>5, MapperAdds DEF B
  <2>7. f + (k - 1) - 1 = p - 1 /\ f + k - 1 = p
    BY <1>5, <2>0 DEF p, j
  <2>8. start + (k - 1) * B = i
    BY DEF i, j
  <2> QED
    BY <2>6, <2>7, <2>8
<1> HIDE DEF Page
<1>10. Loads(G)
  <2>1. ASSUME NEW k \in 0..pages
        PROVE  G[k] = IF k = 0 THEN head ELSE Page(G[k - 1], start + (k - 1) * B)
    <3>1. CASE k = 0
      <4>1. G[0] = Image(ph, q, f - 1)
        BY <1>5, <1>8, <3>1
      <4> QED
        BY <1>h, <3>1, <4>1
    <3>2. CASE k # 0
      <4>1. k \in 1..pages /\ k - 1 \in 0..pages
        BY <1>8, <3>2
      <4>2. G[k - 1] = Image(ph, q, f + (k - 1) - 1) /\ G[k] = Image(ph, q, f + k - 1)
        BY <4>1
      <4> HIDE DEF G
      <4> QED
        BY <1>9, <3>2, <4>1, <4>2
    <3> QED
      BY <3>1, <3>2
  <2>2. G = [k \in 0..pages |-> G[k]]
    OBVIOUS
  <2> HIDE DEF G
  <2> QED
    BY <2>1, <2>2
<1>11. Loads(F)
  <2> HIDE DEF G, Loads
  <2> QED
    BY <1>10
<1> HIDE DEF F
<1>12. F[pages] = G[pages]
  <2> DEFINE P == {k \in 0..pages : F[k] = G[k]}
  <2>1. 0 \in P
    <3>1. 0 \in 0..pages
      BY <1>8
    <3>2. F[0] = head
      BY <1>11, <3>1
    <3>3. G[0] = head
      <4> HIDE DEF G
      <4> QED
        BY <1>10, <3>1
    <3> HIDE DEF G
    <3> QED
      BY <3>1, <3>2, <3>3
  <2>2. ASSUME NEW k \in 1..pages, k - 1 \in P PROVE k \in P
    <3>1. k \in 0..pages /\ k # 0 /\ k - 1 \in 0..pages
      BY <1>8
    <3>2. F[k] = Page(F[k - 1], start + (k - 1) * B)
      BY <1>11, <3>1
    <3>3. G[k] = Page(G[k - 1], start + (k - 1) * B)
      <4> HIDE DEF G
      <4> QED
        BY <1>10, <3>1
    <3> HIDE DEF G, Loads
    <3> QED
      BY <2>2, <3>1, <3>2, <3>3
  <2> HIDE DEF P
  <2>3. \A k \in 0..pages : k \in P
    BY <1>8, <2>1, <2>2, Induct
  <2>4. pages \in 0..pages
    BY <1>8
  <2> QED
    BY <2>3, <2>4 DEF P
<1>13. G[pages] = Image(ph, q, f + pages - 1)
  BY <1>8
<1> HIDE DEF G, Loads
<1>14. {PageOf(va + k) : k \in 0..(ph.memsz - 1)} = q..(f + pages - 1)
  <2> DEFINE S == {PageOf(va + k) : k \in 0..(ph.memsz - 1)}
  <2>q. va = q * B + offset /\ offset \in 0..(B - 1)
    BY <1>3
  <2>1. ASSUME NEW k \in 0..(ph.memsz - 1) PROVE PageOf(va + k) \in q..(f + pages - 1)
    <3> DEFINE a == va + k
               p == a \div B
               r == a % B
    <3>1. a \in Nat /\ k \in Nat
      BY <1>2
    <3> HIDE DEF a
    <3>2. p \in Int /\ r \in 0..(B - 1) /\ a = B * p + r
      BY <1>2, <3>1
    <3> HIDE DEF p, r, va, B
    <3>3. p >= q
      <4>1. p <= q - 1 => B * p <= B * (q - 1)
        BY <1>2, <1>3, <3>2
      <4>2. B * (q - 1) = q * B - B
        BY <1>2, <1>3
      <4> QED
        BY <1>2, <1>3, <2>q, <3>1, <3>2, <4>1, <4>2 DEF a
    <3>4. p <= f + pages - 1
      <4>1. a <= f * B + (ph.memsz - start - 1)
        BY <1>2, <1>5, <1>6, <3>1 DEF a
      <4>2. p >= f + pages => B * p >= B * (f + pages)
        BY <1>2, <1>5, <1>8, <3>2
      <4>3. B * (f + pages) = f * B + pages * B /\ pages * B \in Int /\ f * B \in Int
        BY <1>2, <1>5, <1>8
      <4>4. ph.memsz - start - 1 < pages * B
        <5>1. CASE start < ph.memsz
          BY <1>8, <5>1
        <5>2. CASE ~(start < ph.memsz)
          <6>1. pages = 0 /\ start = ph.memsz
            BY <1>2, <1>5, <1>8, <5>2
          <6>2. pages * B = 0
            BY <1>2, <6>1
          <6> QED
            BY <1>2, <1>5, <6>1, <6>2
        <5> QED
          BY <5>1, <5>2
      <4> QED
        BY <1>2, <1>5, <1>8, <3>1, <3>2, <4>1, <4>2, <4>3, <4>4
    <3>5. PageOf(va + k) = p
      BY DEF PageOf, p, a, B
    <3> QED
      BY <1>3, <1>5, <1>8, <3>2, <3>3, <3>4, <3>5
  <2>2. ASSUME NEW p \in q..(f + pages - 1) PROVE \E k \in 0..(ph.memsz - 1) : PageOf(va + k) = p
    <3>0. p \in Nat /\ p >= q
      BY <1>3, <1>5, <1>8
    <3>1. CASE p = q
      <4>1. ph.memsz >= 1
        <5>1. CASE offset = 0
          BY <1>2, <1>3, <1>5, <1>7, <1>8, <3>1, <5>1
        <5>2. CASE offset # 0
          BY <1>2, <1>3, <1>4, <5>2
        <5> QED
          BY <5>1, <5>2
      <4>2. 0 \in 0..(ph.memsz - 1) /\ va + 0 = va
        BY <1>2, <4>1
      <4>3. PageOf(va + 0) = q
        BY <4>2 DEF PageOf, q
      <4> QED
        BY <3>1, <4>2, <4>3
    <3>2. CASE p # q
      <4> DEFINE k == p * B - va
      <4>1. p >= q + 1 /\ p * B \in Nat
        BY <1>2, <1>3, <3>0, <3>2
      <4>2. p * B >= (q + 1) * B /\ (q + 1) * B = q * B + B
        BY <1>2, <1>3, <3>0, <4>1
      <4>3. k \in Nat
        BY <1>2, <1>3, <4>1, <4>2
      <4>4. pages >= 1 /\ (p - f) * B <= (pages - 1) * B
        <5>1. pages >= 1
          BY <1>3, <1>5, <1>7, <1>8, <3>0, <4>1
        <5>2. p - f <= pages - 1 /\ p - f \in Int
          BY <1>5, <1>8, <3>0
        <5> QED
          BY <1>2, <1>8, <5>1, <5>2
      <4>5. (p - f) * B = p * B - f * B /\ f * B \in Int /\ (pages - 1) * B \in Int
        BY <1>2, <1>5, <1>8, <3>0
      <4>6. start < ph.memsz
        BY <1>2, <1>5, <1>8, <4>4
      <4>7. (pages - 1) * B <= ph.memsz - start - 1
        BY <1>8, <4>6
      <4>8. p * B - va <= ph.memsz - 1
        BY <1>2, <1>5, <1>6, <4>1, <4>4, <4>5, <4>7
      <4>9. k \in 0..(ph.memsz - 1) /\ va + k = p * B + 0
        BY <1>2, <4>1, <4>3, <4>8
      <4>10. (p * B + 0) \div B = p
        BY <1>2, <3>0, DivUnique
      <4> HIDE DEF k, va
      <4>11. PageOf(va + k) = p
        BY <4>9, <4>10 DEF PageOf
      <4> QED
        BY <4>9, <4>11
    <3> QED
      BY <3>1, <3>2
  <2>3. S \subseteq q..(f + pages - 1)
    BY <2>1
  <2>4. q..(f + pages - 1) \subseteq S
    BY <2>2
  <2> HIDE DEF S
  <2>5. S = q..(f + pages - 1)
    BY <2>3, <2>4
  <2> QED
    BY <2>5 DEF S
<1>15. Reference(ph) = [p \in {PageOf(va + k) : k \in 0..(ph.memsz - 1)} |-> SegPage(ph, p)]
  BY DEF Reference, SegPage, SegWord
<1> QED
  BY <1>1, <1>12, <1>13, <1>14, <1>15 DEF Image

(* Whatever a linker makes, the pages that spawn gives the child before it      *)
(* runs are the segment (elf_load_seg and spawn_mapper): for every page size and *)
(* every program header.                                                         *)
THEOREM ImageCorrect == Spec => []ImageExact
<1>1. Misloaded = {}
  <2> SUFFICES ASSUME NEW ph \in Segments, Loadable(ph) PROVE elf_load_seg(ph) = Reference(ph)
    BY DEF Misloaded
  <2>1. ph.va \in Nat /\ ph.filesz \in Nat /\ ph.memsz \in Nat /\ ph.filesz <= ph.memsz
    BY ShellAssumption
  <2> QED
    BY <2>1, SegmentLoads
<1>2. ImageExact
  BY <1>1 DEF ImageExact
<1> QED
  BY <1>2, PTL
==============================================================================
