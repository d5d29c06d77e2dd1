-------------------------------- MODULE Shell --------------------------------
(***************************************************************************)
(* The shell (user/sh.c) and what it stands on: spawn with its ELF loader, *)
(* wait, exit, and programs that copy their standard input to their        *)
(* standard output.  It composes fork, descriptors and pipes, each here at *)
(* the level other modules establish: fork copies the descriptors (module  *)
(* Memory), a pipe is closed for an end when no env holds the other one    *)
(* (module Pipe), a file is read to its end (module FsServer).             *)
(*                                                                         *)
(* A command line is a sequence of tokens.  A process is its envid, which  *)
(* is never used again (EnvIdsIncrease of module EnvSched).                *)
(***************************************************************************)
EXTENDS Integers, Sequences, FiniteSets, SequencesExt

CONSTANTS
  Lines,     \* the command lines typed, sets of token sequences
  NLINE,     \* bound: lines typed
  NPROC,     \* bound: processes in all
  MAXFD, MAXARGS,
  CAP,       \* bytes a pipe holds
  NOUT,      \* bytes echo prints
  FLEN,      \* bytes of a file
  Programs,  \* the files that can be opened
  Fails,     \* the steps of spawn that may fail
  BY2PG,     \* words of a page, for the ELF loader
  Segments   \* program headers [va, filesz, memsz], as a linker makes them

Symbols == {"<", "|", ">", "&", ";", "(", ")"}

ASSUME ShellAssumption ==
  /\ {NLINE, NPROC, MAXARGS, CAP, NOUT, FLEN, BY2PG} \subseteq Nat \ {0} /\ MAXFD \in Nat /\ MAXFD > 3
  /\ \A l \in Lines : l \in Seq(STRING)
  /\ Fails \subseteq {"header", "exofork", "stack", "load", "share"}
  /\ \A ph \in Segments : {ph.va, ph.filesz, ph.memsz} \subseteq Nat /\ ph.filesz <= ph.memsz

Procs == 1..NPROC
Fdnum == 0..(MAXFD - 1)

None    == [dev |-> "none", n |-> 0]
Console == [dev |-> "cons", n |-> 0]
File    == [dev |-> "file", n |-> 0]
Rd(k)   == [dev |-> "rd", n |-> k]
Wr(k)   == [dev |-> "wr", n |-> k]

----------------------------------------------------------------------------
(* lib/elfloader.c, and spawn_mapper as its callback.  An image maps each   *)
(* page of the child to its words; the file holds k + 1 at the offset k.    *)

PageOf(va) == va \div BY2PG

(* sys_mem_alloc of the page of va, then the copy of len words from the file. *)
spawn_mapper(image, va, offset, bin, len) ==
  LET page == [w \in 0..(BY2PG - 1) |-> IF w - offset \in 0..(len - 1) THEN bin + (w - offset) + 1 ELSE 0]
  IN [p \in DOMAIN image \cup {PageOf(va)} |-> IF p = PageOf(va) THEN page ELSE image[p]]

Min2(a, b) == IF a < b THEN a ELSE b

NoPages == [p \in {} |-> 0]

(* How many of a, a + BY2PG, ... are below b. *)
PageSteps(a, b) == IF a < b THEN (b - a + BY2PG - 1) \div BY2PG ELSE 0

(* A slip: the last page is copied in full, past the end of the segment. *)
elf_load_seg_Past(ph) ==
  LET offset == ph.va % BY2PG
      first  == Min2(ph.filesz, BY2PG - offset)
      start  == IF offset = 0 THEN 0 ELSE first
      pages  == PageSteps(start, ph.memsz)
      Page(image, i) == spawn_mapper(image, ph.va + i, 0, i, IF i < ph.filesz THEN BY2PG ELSE 0)
      Loaded[k \in 0..pages] ==
        IF k = 0 THEN IF offset = 0 THEN NoPages ELSE spawn_mapper(NoPages, ph.va, offset, 0, first)
        ELSE Page(Loaded[k - 1], start + (k - 1) * BY2PG)
  IN Loaded[pages]

(* Both loops have the same i: it runs through the file part, from which its   *)
(* pages are copied, and then up to memsz, where they stay empty.              *)
elf_load_seg(ph) ==
  LET offset == ph.va % BY2PG
      first  == Min2(ph.filesz, BY2PG - offset)
      start  == IF offset = 0 THEN 0 ELSE first
      pages  == PageSteps(start, ph.memsz)
      Page(image, i) ==
        spawn_mapper(image, ph.va + i, 0, i, IF i < ph.filesz THEN Min2(ph.filesz - i, BY2PG) ELSE 0)
      Loaded[k \in 0..pages] ==
        IF k = 0 THEN IF offset = 0 THEN NoPages ELSE spawn_mapper(NoPages, ph.va, offset, 0, first)
        ELSE Page(Loaded[k - 1], start + (k - 1) * BY2PG)
  IN Loaded[pages]

(* The segments the linker makes: one that starts inside a page fills it from *)
(* the file.                                                                  *)
Loadable(ph) == ph.va % BY2PG = 0 \/ ph.filesz >= BY2PG - (ph.va % BY2PG)

(* Pages va..va+memsz-1 hold the file and then zeroes. *)
Reference(ph) ==
  [p \in {PageOf(ph.va + k) : k \in 0..(ph.memsz - 1)} |->
     [w \in 0..(BY2PG - 1) |->
        LET k == p * BY2PG + w - ph.va IN IF k \in 0..(ph.filesz - 1) THEN k + 1 ELSE 0]]

----------------------------------------------------------------------------
VARIABLES
  proc,   \* every process: its env, its descriptors and where it is
  pipes,  \* bytes in each pipe ever made
  used    \* [proc, lines]: envids given out and lines read

vars == <<proc, pipes, used>>

NoFds == [f \in Fdnum |-> None]
Free  == [st |-> "FREE", pc |-> "none", fds |-> NoFds, toks |-> <<>>, todo |-> <<>>, argc |-> 0,
          prog |-> "", fd |-> 0, right |-> 0, kid |-> 0, n |-> 0]

(* init has opened the console as 0 and 1 and spawned the shell. *)
Init ==
  /\ proc = [p \in Procs |->
               IF p = 1 THEN [Free EXCEPT !.st = "RUNNABLE", !.pc = "prompt",
                                          !.fds = [NoFds EXCEPT ![0] = Console, ![1] = Console]]
               ELSE Free]
  /\ pipes = <<>>
  /\ used = [proc |-> 1, lines |-> 0]

(* env_sched_list is broken, or the kernel has faulted in it: nobody goes on. *)
Down == \E p \in Procs : proc[p].pc = "down"

At(p, pc)   == proc[p].st = "RUNNABLE" /\ proc[p].pc = pc /\ ~Down
Goto(p, pc) == proc' = [proc EXCEPT ![p].pc = pc]
Holds(x)    == \E q \in Procs, f \in Fdnum : proc[q].fds[f] = x

(* fd_alloc: the least descriptor that is not open. *)
fd_alloc(fds) == CHOOSE f \in Fdnum : fds[f] = None /\ \A g \in Fdnum : fds[g] = None => f <= g

(* The program file on one descriptor: spawn's open(prog). *)
OpenFds(fds) == [fds EXCEPT ![fd_alloc(fds)] = File]

----------------------------------------------------------------------------
(* The main loop of sh.                                                     *)

(* readline, then fork: the child runs the line, the shell waits for it. *)
Prompt(p) ==
  /\ At(p, "prompt") /\ used.lines < NLINE /\ used.proc < NPROC
  /\ \E line \in Lines :
       proc' = [proc EXCEPT
                  ![p].pc = "wait", ![p].kid = used.proc + 1,
                  ![used.proc + 1] = [proc[p] EXCEPT !.pc = "parse", !.toks = line]]
  /\ used' = [proc |-> used.proc + 1, lines |-> used.lines + 1]
  /\ UNCHANGED pipes

(* The end of the input: readline exits. *)
EndOfInput(p) ==
  /\ At(p, "prompt") /\ used.lines = NLINE
  /\ Goto(p, "exit")
  /\ UNCHANGED <<pipes, used>>

(* wait: the env of the slot is another one, or free. *)
Gone(q) == q \notin {x \in Procs : proc[x].st # "FREE"}

Wait(p) ==
  /\ At(p, "wait") /\ Gone(proc[p].kid)
  /\ proc' = [proc EXCEPT ![p].pc = "prompt", ![p].kid = 0]
  /\ UNCHANGED <<pipes, used>>

----------------------------------------------------------------------------
(* parsecmd, one token at a time.                                           *)

gettoken(toks) == IF toks = <<>> THEN "" ELSE Head(toks)
IsWord(t) == t # "" /\ t \notin Symbols

ParseEnd(p) ==
  /\ At(p, "parse") /\ gettoken(proc[p].toks) = ""
  /\ Goto(p, "parsed")
  /\ UNCHANGED <<pipes, used>>

(* A slip: the number of arguments is not checked. *)
ParseWord_Unchecked(p) ==
  LET t == gettoken(proc[p].toks)
  IN /\ At(p, "parse") /\ IsWord(t)
     /\ proc' = [proc EXCEPT ![p].toks = Tail(@), ![p].argc = @ + 1,
                             ![p].prog = IF proc[p].argc = 0 THEN t ELSE @]
     /\ UNCHANGED <<pipes, used>>

ParseWord(p) ==
  LET t == gettoken(proc[p].toks)
  IN /\ At(p, "parse") /\ IsWord(t)
     /\ IF proc[p].argc >= MAXARGS THEN Goto(p, "exit")
        ELSE proc' = [proc EXCEPT ![p].toks = Tail(@), ![p].argc = @ + 1,
                                  ![p].prog = IF proc[p].argc = 0 THEN t ELSE @]
     /\ UNCHANGED <<pipes, used>>

(* < and >: open the file, dup it onto 0 or 1, close it.  Anything else exits. *)
ParseRedirect(p) ==
  LET t == gettoken(proc[p].toks)
      w == gettoken(Tail(proc[p].toks))
  IN /\ At(p, "parse") /\ t \in {"<", ">"}
     /\ IF IsWord(w) /\ w \in Programs
        THEN proc' = [proc EXCEPT ![p].toks = Tail(Tail(@)),
                                  ![p].fds[IF t = "<" THEN 0 ELSE 1] = File]
        ELSE Goto(p, "exit")
     /\ UNCHANGED <<pipes, used>>

(* The symbols parsecmd has no case for. *)
ParseOther(p) ==
  /\ At(p, "parse") /\ gettoken(proc[p].toks) \in Symbols \ {"<", ">", "|"}
  /\ proc' = [proc EXCEPT ![p].toks = Tail(@)]
  /\ UNCHANGED <<pipes, used>>

(* What each side does with the ends r and w of its pipe. *)
Dup(f, g) == [op |-> "dup", f |-> f, g |-> g]
Close(f)  == [op |-> "close", f |-> f, g |-> f]

(* A slip: the left side keeps the read end. *)
LeftSide_Keeps(r, w) == <<Dup(w, 1), Close(w)>>

LeftSide(r, w) == <<Dup(w, 1), Close(w), Close(r)>>

RightSide(r, w) == <<Dup(r, 0), Close(r), Close(w)>>

(* | : pipe and fork.  The child goes on with the rest of the line. *)
ParsePipe(p) ==
  /\ At(p, "parse") /\ gettoken(proc[p].toks) = "|" /\ used.proc < NPROC
  /\ LET k   == Len(pipes) + 1
         c   == used.proc + 1
         r   == fd_alloc(proc[p].fds)
         w   == fd_alloc([proc[p].fds EXCEPT ![r] = Rd(k)])
         me  == [proc[p] EXCEPT !.fds = [@ EXCEPT ![r] = Rd(k), ![w] = Wr(k)], !.pc = "plumb"]
     IN /\ proc' = [proc EXCEPT
                      ![p] = [me EXCEPT !.right = c, !.toks = <<>>, !.todo = LeftSide(r, w)],
                      ![c] = [me EXCEPT !.right = 0, !.toks = Tail(@), !.todo = RightSide(r, w),
                                        !.argc = 0, !.prog = ""]]
        /\ pipes' = Append(pipes, 0)
        /\ used' = [used EXCEPT !.proc = c]

(* dup closes the descriptor it replaces. *)
Plumb(p) ==
  /\ At(p, "plumb")
  /\ LET t == proc[p].todo
     IN IF t = <<>> THEN Goto(p, IF proc[p].right = 0 THEN "parse" ELSE "parsed")
        ELSE proc' = [proc EXCEPT ![p].todo = Tail(@),
                                  ![p].fds[Head(t).g] = IF Head(t).op = "dup" THEN proc[p].fds[Head(t).f] ELSE None]
  /\ UNCHANGED <<pipes, used>>

----------------------------------------------------------------------------
(* runcmd after parsecmd, with spawn.  kid is what spawn returns: an envid, *)
(* -1 for a negative error, 0 for a number that is neither.                 *)

Parsed(p) ==
  /\ At(p, "parsed")
  /\ Goto(p, IF proc[p].argc = 0 THEN "exit" ELSE "open")
  /\ UNCHANGED <<pipes, used>>

Return(p, r) == proc' = [proc EXCEPT ![p].pc = "close_all", ![p].kid = r]

SpawnOpen(p) ==
  /\ At(p, "open")
  /\ IF proc[p].prog \in Programs
     THEN proc' = [proc EXCEPT ![p].pc = "header", ![p].fd = fd_alloc(proc[p].fds),
                               ![p].fds = OpenFds(@)]
     ELSE Return(p, -1)
  /\ UNCHANGED <<pipes, used>>

(* A file that is too short returns its length, a file that is no program -1. *)
SpawnHeader(p) ==
  /\ At(p, "header")
  /\ \/ proc[p].prog \in {"cat", "echo"} /\ Goto(p, "exofork")
     \/ proc[p].prog \notin {"cat", "echo"}
          /\ proc' = [proc EXCEPT ![p].pc = "err", ![p].kid = -1]
     \/ "header" \in Fails /\ proc' = [proc EXCEPT ![p].pc = "err", ![p].kid = 0]
  /\ UNCHANGED <<pipes, used>>

(* child is unsigned, so a failure is not seen here but by init_stack, which *)
(* cannot map its page into an env that does not exist.                      *)
SpawnExofork(p) ==
  /\ At(p, "exofork")
  /\ LET c == used.proc + 1
     IN \/ /\ used.proc < NPROC
           /\ proc' = [proc EXCEPT ![p].pc = "stack", ![p].kid = c,
                                   ![c] = [Free EXCEPT !.st = "NOT_RUNNABLE", !.prog = proc[p].prog]]
           /\ used' = [used EXCEPT !.proc = c]
        \/ /\ "exofork" \in Fails
           /\ proc' = [proc EXCEPT ![p].pc = "err1", ![p].kid = 0] /\ UNCHANGED used
  /\ UNCHANGED pipes

(* init_stack, and the segments: memory may run out in either. *)
SpawnLoad(p, pc, next) ==
  /\ At(p, pc)
  /\ \/ Goto(p, next)
     \/ pc \in Fails /\ Goto(p, "err1")
  /\ UNCHANGED <<pipes, used>>

(* close(fd), before the descriptors are shared. *)
SpawnClose(p) ==
  /\ At(p, "close")
  /\ proc' = [proc EXCEPT ![p].fds[proc[p].fd] = None, ![p].pc = "share"]
  /\ UNCHANGED <<pipes, used>>

(* The PTE_LIBRARY pages: err2 when one cannot be mapped. *)
SpawnShare(p) ==
  /\ At(p, "share")
  /\ \/ proc' = [proc EXCEPT ![proc[p].kid].fds = proc[p].fds, ![p].pc = "status"]
     \/ "share" \in Fails /\ Goto(p, "err2")
  /\ UNCHANGED <<pipes, used>>

SpawnStatus(p) ==
  /\ At(p, "status")
  /\ proc' = [proc EXCEPT ![proc[p].kid].st = "RUNNABLE", ![proc[p].kid].pc = "main",
                          ![p].pc = "close_all"]
  /\ UNCHANGED <<pipes, used>>

Destroyed(q) == [proc EXCEPT ![q] = Free]

(* err2 returns the error of sys_mem_map; err1 an r that still holds the length *)
(* of what was read last, whatever failed.  The child they destroy was never in  *)
(* env_sched_list, and env_free removes it from there all the same (EnvSched,    *)
(* run spawn_destroy): the links its slot was left with may happen to do no      *)
(* harm, or the list breaks, and with it the kernel.                             *)
SpawnFail(p) ==
  /\ \/ At(p, "err2")
        /\ proc' = [Destroyed(proc[p].kid) EXCEPT ![p].pc = "close_all", ![p].kid = -1]
     \/ At(p, "err1") /\ proc[p].kid # 0
        /\ proc' = [Destroyed(proc[p].kid) EXCEPT ![p].pc = "err", ![p].kid = 0]
     \/ At(p, "err1") /\ proc[p].kid = 0 /\ Goto(p, "err")
     \/ /\ At(p, "err1") \/ At(p, "err2")
        /\ proc[p].kid # 0
        /\ proc' = [Destroyed(proc[p].kid) EXCEPT ![p].pc = "down", ![p].kid = 0]
  /\ UNCHANGED <<pipes, used>>

SpawnErr(p) ==
  /\ At(p, "err")
  /\ proc' = [proc EXCEPT ![p].fds[proc[p].fd] = None, ![p].pc = "close_all"]
  /\ UNCHANGED <<pipes, used>>

(* close_all closes one descriptor after another. *)
CloseNext(p, next) ==
  LET open == {f \in Fdnum : proc[p].fds[f] # None}
  IN IF open = {} THEN Goto(p, next)
     ELSE proc' = [proc EXCEPT ![p].fds[CHOOSE f \in open : \A g \in open : f <= g] = None]

(* A slip: the descriptors stay open while the command runs. *)
CloseAll_Skips(p) ==
  /\ At(p, "close_all")
  /\ Goto(p, "wait1")
  /\ UNCHANGED <<pipes, used>>

CloseAll(p) ==
  /\ At(p, "close_all")
  /\ CloseNext(p, "wait1")
  /\ UNCHANGED <<pipes, used>>

(* wait(child) unless spawn failed. *)
WaitChild(p) ==
  /\ At(p, "wait1") /\ Gone(proc[p].kid)
  /\ Goto(p, "wait2")
  /\ UNCHANGED <<pipes, used>>

(* A slip: the right side of the pipe is not waited for. *)
WaitRight_Not(p) ==
  /\ At(p, "wait2")
  /\ Goto(p, "exit")
  /\ UNCHANGED <<pipes, used>>

WaitRight(p) ==
  /\ At(p, "wait2") /\ Gone(proc[p].right)
  /\ Goto(p, "exit")
  /\ UNCHANGED <<pipes, used>>

(* exit: close_all, then sys_env_destroy. *)
Exit(p) ==
  /\ At(p, "exit")
  /\ IF proc[p].fds = NoFds THEN proc' = Destroyed(p) ELSE CloseNext(p, "exit")
  /\ UNCHANGED <<pipes, used>>

----------------------------------------------------------------------------
(* The programs.  n is what echo or the file still has to give.             *)

Main(p) ==
  /\ At(p, "main")
  /\ proc' = [proc EXCEPT ![p].pc = IF proc[p].prog = "echo" THEN "write" ELSE "read",
                          ![p].n = IF proc[p].prog = "echo" THEN NOUT ELSE FLEN]
  /\ UNCHANGED <<pipes, used>>

(* cat reads descriptor 0.  The console gives the end of file (ctl-d), a pipe *)
(* when it is empty and nobody holds its write end.                           *)
Read(p) ==
  /\ At(p, "read")
  /\ LET in == proc[p].fds[0]
     IN \/ /\ in.dev = "file" /\ proc[p].n > 0
           /\ proc' = [proc EXCEPT ![p].pc = "write", ![p].n = @ - 1] /\ UNCHANGED pipes
        \/ /\ in.dev = "rd" /\ pipes[in.n] > 0
           /\ Goto(p, "write") /\ pipes' = [pipes EXCEPT ![in.n] = @ - 1]
        \/ /\ \/ in.dev = "cons"
              \/ in.dev = "file" /\ proc[p].n = 0
              \/ in.dev = "rd" /\ pipes[in.n] = 0 /\ ~Holds(Wr(in.n))
           /\ Goto(p, "exit") /\ UNCHANGED pipes
  /\ UNCHANGED used

(* A byte to descriptor 1.  A full pipe without readers ends cat with user_panic; *)
(* echo does not look at the result.                                              *)
Write(p) ==
  /\ At(p, "write")
  /\ LET out  == proc[p].fds[1]
         done == [proc EXCEPT ![p].n = IF proc[p].prog = "echo" THEN @ - 1 ELSE @,
                              ![p].pc = IF proc[p].prog = "cat" THEN "read"
                                        ELSE IF proc[p].n = 1 THEN "exit" ELSE "write"]
     IN \/ out.dev # "wr" /\ proc' = done /\ UNCHANGED pipes
        \/ /\ out.dev = "wr" /\ pipes[out.n] < CAP
           /\ proc' = done /\ pipes' = [pipes EXCEPT ![out.n] = @ + 1]
        \/ /\ out.dev = "wr" /\ pipes[out.n] = CAP /\ ~Holds(Rd(out.n))
           /\ IF proc[p].prog = "cat" THEN Goto(p, "exit") ELSE proc' = done
           /\ UNCHANGED pipes
  /\ UNCHANGED used

Run(p) ==
  \/ Wait(p)
  \/ ParseEnd(p) \/ ParseWord(p) \/ ParseRedirect(p) \/ ParseOther(p) \/ ParsePipe(p) \/ Plumb(p)
  \/ Parsed(p) \/ SpawnOpen(p) \/ SpawnHeader(p) \/ SpawnExofork(p)
  \/ SpawnLoad(p, "stack", "load") \/ SpawnLoad(p, "load", "close")
  \/ SpawnClose(p) \/ SpawnShare(p) \/ SpawnStatus(p) \/ SpawnFail(p) \/ SpawnErr(p)
  \/ CloseAll(p) \/ WaitChild(p) \/ WaitRight(p) \/ Exit(p)
  \/ Main(p) \/ Read(p) \/ Write(p)

(* wait and the loops of a pipe spin with sys_yield; so may everybody, for ever. *)
Yield == UNCHANGED vars

Next == (\E p \in Procs : Prompt(p) \/ EndOfInput(p) \/ Run(p)) \/ Yield

Spec == Init /\ [][Next]_vars

(* The scheduler is fair to every runnable env (NoStarvation of EnvSched). *)
FairSpec == Spec /\ \A p \in Procs : WF_vars(Run(p))

----------------------------------------------------------------------------
Devs == {"none", "cons", "file", "rd", "wr"}

(* The fields keep their types: descriptors and arguments stay in their tables, *)
(* and every pipe between empty and full.                                       *)
TypeOK ==
  /\ \A p \in Procs :
       /\ proc[p].st \in {"FREE", "NOT_RUNNABLE", "RUNNABLE"}
       /\ proc[p].fds \in [Fdnum -> [dev : Devs, n : 0..Len(pipes)]]
       /\ proc[p].argc \in 0..MAXARGS /\ proc[p].kid \in -1..NPROC
       /\ proc[p].right \in 0..NPROC /\ proc[p].n \in Nat
  /\ pipes \in Seq(0..CAP)
  /\ used \in [proc : Procs, lines : 0..NLINE]

(* A program starts with its standard input and output and nothing else: no end of any *)
(* pipe of the line, and not the file it was loaded from, so that the end of file that *)
(* the other side waits for depends on its two ends only.  spawn leaves the descriptors *)
(* of its caller as they were, on every path.                                           *)
OnlyStdio ==
  \A p \in Procs :
    (proc[p].st # "FREE" /\ proc[p].pc \in {"main", "read", "write", "wait1", "prompt"})
      => \A f \in Fdnum : proc[p].fds[f] # None => f \in {0, 1}

(* Every stage of a line starts with its command. *)
Staged(line) ==
  /\ line = <<>> \/ IsWord(line[1])
  /\ \A j \in 2..Len(line) : line[j - 1] = "|" => IsWord(line[j])

(* When the shell prompts again, everything the line started is gone: every stage of  *)
(* the pipeline has been waited for, and no failed spawn has left an env behind.       *)
PromptAlone ==
  proc[1].pc = "prompt" => \A p \in Procs \ {1} : proc[p].st = "FREE"

Misloaded == {ph \in Segments : Loadable(ph) /\ elf_load_seg(ph) # Reference(ph)}

(* What elf_load_seg and spawn_mapper leave in the pages of the child is the segment: *)
(* each page once, the file where it belongs, and zeroes up to memsz.                  *)
ImageExact ==
  \A p \in Procs : proc[p].pc = "load" => Misloaded = {}

(* Every line ends, unless it breaks the kernel, which a spawn may that fails when its   *)
(* child exists: no reader waits for an end of file that a waiting shell keeps from it,  *)
(* no writer for a reader that is gone, and no wait for an env that cannot finish.       *)
PromptReturns == proc[1].pc = "wait" ~> (proc[1].pc = "prompt" \/ Down)
=============================================================================
