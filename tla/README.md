# Verification of the MOS kernel and its user library

This directory holds TLA+ models of the teaching kernel in `src/` (a MIPS
microkernel in C: `kern/`, `include/`, `lib/`; a user-level file system server:
`fs/`; a user library and programs: `user/`), the TLC configurations that check
them on small instances, and TLAPS proofs for instances of any size.

`tlc -config X.cfg M` checks a run, `tlapm M.tla` checks the proofs of a module.
`PROJECT.json` lists runs, properties, mutants, findings, hazards and theorems,
and maps every definition to the lines it translates.

## 1. The system

| Component | State | Operations | Talks to |
|---|---|---|---|
| Envs and scheduler (`kern/env.c`, `kern/sched.c`) | `envs[]`, `env_free_list`, `env_sched_list`, `asid_bitmap`, `curenv`, the static `count` and `mkenvid` counters | `env_alloc`, `env_create`, `env_free`, `env_destroy`, `env_run`, `schedule` | every system call, the timer |
| Env and IPC calls (`kern/syscall_all.c`) | `env_status`, `env_ipc_*` | `sys_yield`, `sys_env_destroy`, `sys_exofork`, `sys_set_env_status`, `sys_ipc_recv`, `sys_ipc_try_send` | scheduler, memory |
| Signals (`kern/signal.c`, signal calls, `user/lib/signal.c`) | pending list, mask and handler table of an env; the shared pool of `signo_node`s; handlers in progress on the user stack | `sys_kill`, `sys_sigaction`, `sys_sigprocmask`, `sys_set_sig_entry`, `_do_signal`, `do_signal`, `sys_back_do_signal` | every return to user mode, page faults (`passive_alloc`) |
| Pipes and descriptors (`user/lib/pipe.c`, `fd.c`, `pageref.c`) | three shared pages per pipe and their reference counts, positions and buffer | `pipe`, `read`, `write`, `close`, `dup`, `pipe_is_closed` | fork and spawn share descriptors; `env_runs` of the kernel |
| Memory (`kern/pmap.c`, `tlbex.c`, memory calls) | `pages[]` with `pp_ref`, page tables, TLB | `page_alloc`, `page_insert`, `page_remove`, `sys_mem_alloc/map/unmap`, TLB refill | everything |
| fork and copy on write (`user/lib/fork.c`) | `PTE_COW`, `PTE_LIBRARY` bits | `duppage`, `fork`, `cow_entry` | memory, exceptions |
| spawn, ELF (`user/lib/spawn.c`, `lib/elfloader.c`) | the child under construction | `spawn`, `init_stack`, segment loading | files, memory, envs |
| File server (`fs/fs.c`, `fs/serv.c`, `fs/ide.c`) | super block, bitmap, block cache, directories, `opentab` | `file_open/create/remove/truncate/flush`, `serve_*` | clients by IPC, the disk |
| File client (`user/lib/fsipc.c`, `file.c`) | one request page, descriptors of open files | `open`, `read`, `write`, `close`, `remove`, `sync` | server by IPC |
| Console, printing, boot, tools, shell, tests | - | - | - |

The kernel runs with interrupts disabled, on one CPU: a system call or an
exception is atomic. What interleaves is user code: the library is preempted
anywhere, and shares memory (pipes, descriptors, file pages, copy-on-write
pages), reference counts and kernel tables. The file server is a user env too:
it serves one request at a time, but a client's call is several requests.

What is hard in it: links that are stale when they are used (a `TAILQ` element
keeps its links after removal); two reads of counts that others change in
between (`_pipe_is_closed`); the order in which a descriptor's two pages are
mapped, or a page is marked copy on write in child and parent; checks that are
separated from what they guard (`pipe_read`); signals delivered on every return
to user mode, nested, with a mask to restore; counters that wrap around; pools
that run out; TLB entries that must not outlive their mapping; a machine that
stops between two disk writes; a spawn that fails half-way; and an IPC protocol
whose two halves are separate calls. `PROJECT.json` lists these hazards one by
one, with the line and the property that would catch it; smaller edges, and
the ones outside of the models, are in sections 5 and 6.

## 2. Modules

| Module | Models | Used by |
|---|---|---|
| `Tailq` | the `TAILQ` macros of `include/queue.h`, store by store | `EnvSched` |
| `EnvSched` | envs, ids, ASIDs, run queue, IPC blocking | `MCEnvSched` |
| `RunQueue` | abstract: one FIFO of runnable envs whose head runs | `EnvSched!IsRunQueue` |
| `EnvSchedProofs` | what the macros of `Tailq` do to the sequence a queue represents; types and safety of `EnvSched`, and that it implements `RunQueue`, for any size | |
| `Pipe` | a pipe shared through fork, dup, close and exit | `MCPipe` |
| `PipeProofs` | types of `Pipe`, that `_pipe_is_closed` is right, and that `Pipe` implements `Channel`, for any size | |
| `Channel` | abstract: a FIFO of at most `Capacity` bytes | `Pipe!IsChannel` |
| `Signal` | signals, masks, handlers, the node pool | `MCSignal` |
| `SignalProofs` | types, the pool and the masks of `Signal` for any size | |
| `Memory` | physical pages, page tables, TLB, `fork` and copy on write | `MCMemory` |
| `MemoryProofs` | all the properties of `Memory` for any size | |
| `CommonLemmas` | facts about numbers, finite sets, sequences and loops | the other proofs |
| `Fs` | the functions of `fs/fs.c`, the transfers of `fs/ide.c`, the image `tools/fsformat.c` makes (operators, no state) | `FsDisk`, `FsServer` |
| `FsDisk` | the server's files under requests, crashes and boots | `FsTree` |
| `FsTree` | what the file system looks like while all is well: the tree of directories, files and block owners (definitions, and the assumption that the image is one) | `MCFsDisk`, `FsDiskProofs` |
| `FsDiskProofs` | types, blocks and panics of `FsDisk`, for any image and any size | |
| `FsServer` | `fs/serv.c` and its clients: requests, replies, open files, shared pages | `MCFsServer` |
| `FsServerProofs` | that the handles of `FsServer` resolve, for any size | |
| `Shell` | `user/sh.c`, `spawn`, the ELF loader, `wait`, `exit`, `cat`, `echo` | `MCShell` |
| `ShellProofs` | types, descriptors, waits and the loaded images of `Shell` for any lines, segments and sizes | |
| `MC*` | model values and bounds | the runs |

The operators that a comment calls a slip are not part of the models: each
is a definition with one plausible mistake in it, and the mutants of
`PROJECT.json` put it in the place of the right one to show that a property
notices.

The models meet at the facts one establishes and the next relies on: `Memory`
gives every env the ASID of its slot because of `AsidsExclusive`; `Shell` names
processes by ids that do not come back because of `EnvIdsIncrease`, and lets a
reader see the end of file exactly when no env holds the write end because of
`ClosedMeansNoPeer`; `FsServer` runs on the `Fs` that `FsDisk` checks; and the
fairness of all of them is `NoStarvation`.

### EnvSched and Tailq

A state is what the kernel's tables hold between two traps. Each action is one
system call or one timer interrupt *including* the `schedule` it ends in. The
run queue is kept pointer by pointer (`tqh_first`, `tqh_last`, `tqe_next`,
`tqe_prev`), because the question is precisely whether `TAILQ_REMOVE` is ever
applied to links that are stale: a sequence would answer it by construction.
A store through a null link sets `fault`; the kernel has then crashed, and
`panicked` is set, as it is by `panic` in `schedule` (empty list) and by the
assertion in `env_run`. (A null store in kernel mode really ends in
`passive_alloc`, which sends SIGSEGV to `curenv` and returns into the kernel or
panics; the model stops there.)

Ids are computed as `mkenvid` does, modulo the size of the `u_int` (`ENVID_MOD`).
`asid_alloc` picks the lowest clear bit, and its failure leaves the slot's old
ASID, as in the code.

The kernel relies on programs for some of its invariants. Three constants say
what programs do, and `Disciplined` is what the programs of this repository do
(error paths of `spawn` apart): they destroy only runnable envs, set only
`ENV_RUNNABLE`, and never on an env that is receiving. The passing runs and the
theorems assume it. `spawn_destroy` drops the first part, which the error paths
of `spawn` really do not keep to. The other two delimit what the kernel leaves
to programs: with `SetStatuses <- AnyStatus` an env that stops itself is taken
out of the queue twice, and with `WakeReceivers = TRUE` a receiver is queued
twice.

### Pipe

A pipe is three pages: two `struct Fd` (one per end) and the `struct Pipe`.
Descriptor `s` of an env maps an Fd page at `INDEX2FD(s)` and the Pipe page at
`INDEX2DATA(s)`. `fdmap` and `data` say which are mapped, `pageref` counts them.
Library code is cut at every system call and at every access to shared memory;
`frame[e]` is the call an env is in, with its program counter and locals.

`p_buf[(p_wpos++) % BY2PIPE] = wbuf[i++]` leaves it to the compiler whether the
byte or the incremented position is stored first, and likewise for the reader;
`mk/profiles.mk` builds with `-O0` or `-O2`. So after `fetch_*` has loaded the
position, `advance_*` (the store of the position) and `load_byte` or `store_byte`
(the access to the byte) are two steps in either order, anew for each byte. With
the position first, an env that is interrupted between the two exposes the slot:
the reader takes a byte that is not there yet, or the writer overwrites one that
is yet to be read. `cut` records that a byte's transfer was interrupted there, and
`BytesInOrder` promises the right byte for all others; `EveryByteInOrder` is the
promise without the exception, and it does not hold (section 5). `IsChannel`
takes the position as the moment a byte enters or leaves the queue: a byte still
in the writer's hand belongs to it.

`env_runs` is reduced to what `_pipe_is_closed` can see of it: has it changed
since it was read (`rerun`).

`fork` maps pages in the order of their addresses, and the descriptors' Fd
pages lie below all data pages. `LateFork` says whether an env may fork while
another env holds an end that it holds too.

### Signal

Every return to user mode goes through `_do_signal`, so every action ends in
it. A list of `signo_node`s is the sequence of its signals and the free list its
length; a node that is neither free nor in a list is lost, which is what
`PoolAccounted` notices. The nodes of an env that has exited stay in its list
(`env_free` does not return them), and `PoolAccounted` counts them there: it says
that no node is lost, not that enough are left for the envs that still run. The frames that handlers push on the user stack are
`frames`: signal, whether there is a handler, the mask to restore, and whether
the interrupted `$v0` is negative. `fork` is one step here: signals that arrive
while `fork` copies pages are not distinguished from earlier ones. Signals are
1..63: bit 64 lies outside `sigset_t`.

`ManyPending`, `ReuseSlots` and `NegativeResults` say what the programs do; with
all of them `FALSE` the properties hold. `signal_lost` turns on the first. With
`ReuseSlots = TRUE` the nodes of the signals pending for an env that has exited
are lost when `env_alloc` clears the slot (`PoolAccounted` fails); with
`NegativeResults = TRUE` a handler that interrupts code with a negative `$v0`
leaves its own mask behind (`MaskSurvivesHandlers` fails).

### Memory

`m` is the kernel's memory: `pp_ref`, `page_free_list` as a sequence, directories,
tables, entries, and per ASID the TLB, which also holds the KSEG2 addresses
through which `tlb_miss_entry` reads the tables. A page has two halves, so that
the `memcpy` of `cow_entry` can be interrupted in the middle. A system call or
an exception is one step; `fork` is a step per page it looks at and per
`sys_mem_map` of `duppage`; `cow_entry` is a step per system call and half page.
A store happens only through a valid TLB entry with `PTE_D`; otherwise it goes
through the fast refill (`tlb_miss_entry`), which loads what the table holds,
valid or not, the general refill (`handle_tlb`, with `passive_alloc`) or
`do_tlb_mod`. `Evict` is what `tlbwr` does to the entry it replaces.

`want` is the specification: what a program has stored, or inherited when
`duppage` had shared the page. `Library` lets programs map shared pages, too.
`Handlers = TRUE` lets a signal handler store to a page between the moment
`duppage` reads its permissions and the moment it maps it: `MemoryIsPrivate`
then fails, because the page is mapped with permissions that are out of date.
Memory that runs out is not survived by the code (`passive_alloc` panics,
`env_alloc` ignores `env_setup_vm`'s failure, `sys_mem_alloc` keeps the page when
there is none for the table): the run has pages enough, and with `NPAGE = 7` TLC
finds `RefsExact` violated by the last of these.

`env_free` is written as its loops are: `UnmapTable` is the inner loop as a
recursive function of the number of entries it has passed, `FreeTable` what is
done for one table.

### Fs and FsDisk

`Fs` translates `fs.c` function by function. Its state `s` has the disk, the
pages of the block cache, which blocks have a page (`mapped`), which are
`PTE_DIRTY`, and a panic message. Sizes are in words, so that an indirect block
is a function from numbers to numbers; the bitmap is the set of its 1 bits.
`Try(call, Then)` is `if ((r = call) < 0) return r;` and what follows.
`mem` says whether a page could be had. A loop of the code is `Loop`, a recursive
function of the rounds that are over, and its body an operator of its own
(`SearchBlock`, `WalkElement`, `FlushBlock`, ...). A page of zeroes that is taken
for a block of a directory is a page of empty Files (`AsFiles`). The first disk is `Formatted`, computed
by the functions of `fsformat.c`, so the server starts from a state the tool
really makes.

`FsDisk` calls these functions as requests do, boots (`check_write_block`
overwrites the super block on the disk and puts it back: two steps) and crashes
between requests. The histories `unsaved`, `changed`, `shrunk` and `target` say
what a crash may cost; `KeepsContents` is stated with them. `file_create` and
`unmap_block` are reached by no request; they are called as their tests do.

Five constants say what may happen, and are `FALSE` in `fs_disk`:

- `CrashAfterShrink`: the machine may stop after blocks were freed. The bitmap
  with the free bits reaches the disk with the next allocation, the directory
  that names the blocks does not; after the next boot `BlocksAccounted` fails.
- `CrashInBoot`: it may stop inside `check_write_block`. The disk then does not
  boot any more (`NoPanic` fails).
- `DirtyReuse`: the page of a freed block, which `map_block` keeps as it is, may
  become an indirect or directory block. Its old words are then read as block
  numbers (`BlocksAccounted` fails; to see it, let `CreatePaths` be empty, as the
  model has no Files for the words of a data page). While it is `FALSE`,
  `alloc_meta` ends a request that comes there with `OldPage`, and `Becomes` leaves
  out that request. It is a constant of `Fs`; `fs_server` has it `TRUE`.
- `RemoveDirs`: `file_remove` may be called on a directory. It frees the blocks of
  the directory and not those of the files in it, which are lost
  (`BlocksAccounted` fails, with `RemovePaths <- SomePaths`).
- `SyncSaves`: programs rely on `sync`. That is run `fs_sync`.

### FsServer

A client's call is a sequence of requests; `pc` says where in `fsipc` a client
is, `spc` where the server is in `serve`. The fd page of a slot of `opentab` is
shared by the server and every descriptor made from it by `dup` and `fork`
(`fds`), the pages of a file by the server's cache and the clients (`data`).
`pageref` is computed from these maps, as the kernel's counts are exact
(`RefsExact`). A handler is one step, its reply another.

`SharedChanges = TRUE` lets a file be resized or removed that is open elsewhere:
the others keep pages of blocks that are free or another file's, and
`PagesMatch` fails. `KillWaiting = TRUE` lets a client be destroyed while it
waits: the assertion in `ipc_send` then ends the server (`TypeOK` fails). When
no slot is left `serve_open` goes on with a pointer it never set;
`FsServerAssumption` asks for slots enough.

### Shell

A process is an envid with its descriptors, its program counter and its locals.
A command line is a sequence of tokens. `parsecmd` is one step per token, and
the `dup`s and `close`s on both sides of a pipe are steps of their own; `spawn`
is one step per call that can fail, and each step in `Fails` may. When `spawn`
fails after its child exists, it destroys an env that was never queued, and
`env_free` removes that env from `env_sched_list` all the same (`spawn_destroy`).
`Shell` has no links, so `SpawnFail` has both outcomes: the stale links do no harm,
or the kernel breaks (`Down`) and nobody runs any more. `PromptReturns` promises
that a line ends unless that happens; the safety properties hold either way.
`cat` and `echo` stand for the programs. `elf_load_seg` and `spawn_mapper` are operators,
their loops recursive functions, compared with `Reference`; the comparison is
what `spawn` runs when it loads.

Segments are `Loadable`, as the linker script makes them: for a segment that
starts inside a page and whose file part does not fill it, `elf_load_seg`
allocates that page a second time and loses what it copied. Lines are `Staged`:
each stage starts with its command, as the first token and after each `|`. A
stage without words, as in `| cat`, makes `runcmd` return without waiting for
the right side (`PromptAlone` fails); section 4 proves that nothing else does.
`NPROC` bounds the processes ever made: `fork` and `syscall_exofork` wait when they
are used up, which the lines of the run never do.

## 3. Runs

| Run | Bounds | Result |
|---|---|---|
| `env_sched` | 3 slots, 3 ASIDs, 4 allocations, priorities 1 and 2 | 40 000 states; nine safety properties, `NoStarvation`, and refinement of `RunQueue` with its fairness |
| `spawn_destroy` | targets of destroy may be blocked | violated: `env_free` removes an env that is not queued |
| `pipe_race` | 2 envs, 3 descriptors, both dup, close, fork, exit | 1.4 million states; a pipe reported closed is closed |
| `pipe_data` | one writer, one reader, buffer of 2, 3 bytes, counts up to 2 | 107 000 states, either order of byte and position; bytes in order unless the transfer is cut, refinement of `Channel`, waiting calls return |
| `pipe_eof` | the same | violated: end of file with bytes left |
| `signal` | 2 envs, signals 2 and 11, pool of 1, 3 signals sent | 68 000 states; nothing lost, masks restored, fatal signals end the env |
| `signal_lost` | more than one signal pending | violated: the others are dropped |
| `memory` | 2 envs, 11 pages, 1 address besides `UCOW`, 3 calls, 1 eviction | 952 000 states; counts exact, TLB coherent, private memory private |
| `fs_disk` | 11 blocks of 2 words, 1 direct pointer, a directory and 2 files, 2 changes, 1 crash | 160 000 states; every block has one owner, no panic, contents kept |
| `fs_sync` | the same, programs rely on `sync` | violated: the size on the disk is the old one |
| `fs_server` | 2 clients, 2 files, 2 descriptors each, 4 calls | 111 000 states; handles resolve, pages match, close saves, calls return |
| `shell` | 8 lines of up to 3 stages, pipes of 1 byte, any step of `spawn` failing | 155 000 states; no descriptor leaks, nothing left at the prompt, every line ends unless a failed `spawn` breaks the kernel |

Why these bounds are enough to be interesting. Three slots give a queue with a
head, a middle and a tail, so removal meets every case of the macros, and the
fourth allocation uses a slot a second time, after it was freed while running or
queued. In `pipe_race` two envs and three descriptors let each env have a
spare descriptor to dup onto while the other is between its two reads. In
`pipe_data` a buffer of two bytes wraps around and fills up. In `signal` three signals
nest handlers three deep, and the pool runs out when the two envs each have a
signal pending, which panics the kernel as in the code. In `memory` three calls
are a fork, an exit and another fork into the same slot, with the same ASID, or
a page that becomes shared before a fork; the copies in parent and child
overlap. In `fs_disk` the file with an indirect block loses it, or shrinks and
grows again; the other gets one; a directory gets a second block; and two free
blocks are not enough for two of these, so that the disk fills up in the middle
of a request. The crash comes between any two steps. In `fs_server` four calls are, for example, two opens
of two clients, a resize and a close, whose requests interleave; a slot is used
again when its descriptors are gone. In `shell` three stages give a process that
is reader and writer, a pipe of one byte makes writers wait, and each failure of
`spawn` meets each place in the line.

`memory` and `shell` check for deadlock: somebody can always run in `memory`, and
in `shell` waiting is a loop around `sys_yield` (`Yield`), so it is
`PromptReturns` that speaks about processes that wait for each other. The other
passing runs say `CHECK_DEADLOCK FALSE`: the kernel stops when no env is left
(`panic` in `schedule`), all pipe users and clients may exit, all envs may exit
in `Signal`, and in `FsDisk` and `FsServer` the calls are used up.

The values scaled down are `NENV` (1024), `NASID` (64), the width of envids,
`BY2PIPE` (32), the width of the positions (2^32) and `MAX_SIG_NUM` (1024).
`BY2BLK` (1024 words), `NDIRECT` (10), `FILE2BLK` (16), `MAXOPEN` (1024), `MAXFD`
(32) and `MAXARGS` (128) are scaled, too. `MaxAllocs`, `MaxBytes`, `MaxCount`, `MaxKills`,
`NCALL`, `NEVICT`, `MaxChanges`, `MaxHeld`, `MaxCrashes`, `MaxCalls`, `NLINE` and `NPROC`
bound the histories.

### Fairness

- `EnvSched!FairSpec`: weak fairness of the timer interrupt; the clock runs as
  long as the kernel does.
- `Pipe!FairSpec`: every live env is run again and again (that is
  `NoStarvation`); an env that runs again and again makes its next step, that
  is, a time slice is longer than a step; and `_pipe_is_closed` is not
  interrupted in every single round of its retry loop, a handful of
  instructions against a slice of thousands. `pipe_data` has no env that dups:
  an env that dups for ever can make every comparison of the counts fail.
- `Signal!FairSpec`: the env keeps running, handlers return, and `exit()` once
  entered is not interrupted for ever (the signals sent are finitely many).
- `FsServer!FairSpec`: the server and the clients are scheduled (weak fairness
  of the moves of their program counters). Strong fairness of `Send`: a client
  retries until it finds the server receiving, which it is again and again, and
  the reply puts the client that was answered at the tail of the run queue,
  behind the ones that retry. Nothing makes a client start or end a call.
- `Shell!FairSpec`: weak fairness of every process. Nothing makes anybody type a
  line. The console gives its end of file when it is read.

## 4. Proofs

| Theorem | States | Assumes |
|---|---|---|
| `EnvSchedProofs!TypeCorrect` | `TypeOK` | |
| `EnvSchedProofs!QueueCorrect`, `RunningCorrect`, `ReceiversCorrect`, `FreeListCorrect`, `NeverHaltsBusy` | `RunnableIffListed`, `RunningIsHead`, `ReceiversSleep`, `FreeListExact`, `HaltsOnlyWhenIdle` | `Disciplined` |
| `EnvSchedProofs!AsidsCorrect` | `AsidsExclusive` | `Disciplined`, never more live envs than ASIDs |
| `EnvSchedProofs!IdsIncrease` | `EnvIdsIncrease` | `NoWrap` |
| `EnvSchedProofs!YieldCorrect` | `YieldPasses` | `Disciplined` |
| `EnvSchedProofs!ImplementsRunQueue` | the safety part of `IsRunQueue` | `Disciplined` |
| `PipeProofs!PipeTypes` | `TypeOK` | |
| `PipeProofs!ClosedIsClosed` | `ClosedMeansNoPeer` | `~LateFork` |
| `PipeProofs!BytesCorrect`, `ImplementsChannel` | `BytesInOrder`, `IsChannel` | `OneStream` |
| `SignalProofs!TypesKept` | `TypeOK` | |
| `SignalProofs!PoolIsAccounted` | `PoolAccounted` | `~ManyPending`, `~ReuseSlots` |
| `SignalProofs!MaskIsRestored` | `MaskSurvivesHandlers` | `~NegativeResults` |
| `MemoryProofs!MemoryTypes`, `RefsCorrect`, `TlbCorrect`, `MemoryCorrect` | `TypeOK`, `RefsExact`, `TlbCoherent`, `MemoryIsPrivate` | `Enough`, `~Handlers` |
| `FsServerProofs!HandlesCorrect` | `HandlesResolve` | |
| `ShellProofs!ShellTypes`, `OnlyStdioCorrect` | `TypeOK`, `OnlyStdio` | |
| `FsDiskProofs!DiskInvariance`, `DiskTypes`, `NoPanicCorrect`, `BlocksCorrect` | the inductive invariant, `TypeOK`, `NoPanic`, `BlocksAccounted` | `BuiltFor` |
| `ShellProofs!ImageCorrect` | `ImageExact` | |
| `ShellProofs!PromptAloneUnlessEmpty` | `PromptAlone` | `[]NoEmptyStage` |
| `ShellProofs!PromptAloneCorrect` | `PromptAlone` | every line is `Staged` |

They hold for any number of envs, ASIDs, priorities, allocations, descriptors,
signals, `signo_node`s, pages and addresses, blocks, files and directories, clients
and open files, command lines, segments and processes, any buffer and any of the
bounds.
Besides the named `ASSUME`s of the modules (`PointersAssumption`,
`SizesAssumption`, `ProgramsAssumption`, `PipeAssumption`, `SignalAssumption`,
`MemoryAssumption`, `FsAssumption`, `FsDiskAssumption`, `ImageAssumption`,
`FsServerAssumption`, `ShellAssumption`), the third column is what they need of
programs, machines and sizes.
The passing runs satisfy it, and where it fails the property fails, too
(sections 2 and 5 say how): each is a limit of the code, not of the argument.

- `Disciplined`: section 2. `LateFork`, `ManyPending`, `ReuseSlots`,
  `NegativeResults`, `Handlers`: section 2.
- Live envs: 64 ASIDs serve 1024 slots and the failure of `asid_alloc` is ignored.
  It is a condition on behaviours, not on `NENV`.
- `NoWrap`: the counter of `mkenvid` fits the `u_int` for all the allocations made.
- `OneStream`: one reader and one writer (two readers can take the same byte),
  and fewer bytes than a `u_int` counts.
- `Enough`: `NPAGE > NENV * (Cardinality(Addr) + 3)`, a page for every mapping,
  two tables and a directory of every env.
- `BuiltFor`: `~CrashAfterShrink`, `~CrashInBoot`, `~DirtyReuse`, `~RemoveDirs` of
  section 2.
- `ImageAssumption`: `Formatted`, the disk that `fsformat` makes of `Image`, is a tree
  in the sense of `FsTree`. That is a fact about one constant, which TLC evaluates
  for the image of the run; that `fsformat` makes a tree of every image that fits
  is not proved.
- `NoEmptyStage`: no process that has forked the right side of a pipe comes out of
  `parsecmd` with `argc = 0`. It is a condition on behaviours; that every line is
  `Staged` is the condition on `Lines` that implies it, and `MCShell` assumes it of
  its lines, so that TLC evaluates it.

### Scheduler

`RunnableIffListed` is not inductive: `schedule` removes `curenv`, so one needs
that `curenv` is queued and runnable; a send inserts the receiver, so one needs
that receivers sleep; a new env must not be queued or receiving already, so one
needs the free list to be exact. `IInv` is the conjunction of these, with the
queue stated as "some sequence is represented by the links" (`Holds`).
The first part of `EnvSchedProofs` supplies what each macro does to that sequence,
stated at the level of links: `InsertHolds` and `RemoveHolds` need the element to be absent,
respectively present, which is where `IInv` is used. `ScheduleCorrect` treats
`schedule` once for all its callers.

`AsidsExclusive` is inductive as long as a bit is clear when `env_alloc` looks for
one: the live envs have different ASIDs, so if all bits are set there are as
many of them as ASIDs before the new one. `EnvIdsIncrease` needs `IdsBelow`: no id
exceeds the one that the present value of the counter gives.

`ImplementsRunQueue` maps the links to the sequence they spell (`RunList`): there
is exactly one such sequence, so what `Holds` says of some sequence is said of
`RunList`. Every action is then followed through `schedule` to a step of
`RunQueue` or a stuttering one.

### Pipes

`PipeTypes` has `InTransfer` (a call that moves a byte has bytes left to move) as
the strengthening. `ClosedMeansNoPeer` speaks of the moment after the comparison;
the argument is about the counts. `IInv` has three parts. `Maps`: a descriptor
with its Fd page has its Pipe page, outside of a child under construction, which
is what the orders in `close` and `dup` are for. `Forks`: such a child has exactly
one parent, in `fork`, holds a part of what the parent holds, and nobody else
holds that. `Checks`: if `env_runs` has not changed, the first count is still
right when the second is read. `EqualCounts` concludes: the descriptors of this
end are a subset of those with a Pipe page, and two finite sets one inside the
other with equal cardinality are equal, so no descriptor is left for the other
end. Three lemmas cover the steps: `QuietStep` (no map changes), `OwnStep` (an
env changes its own maps) and the three steps of `fork`.

For the bytes, `DInv` says that the positions count what was sent and received,
that each of the bytes between them is in its slot of `p_buf` or in the hand of the
writer that has stored the position already (`Held`), and what each call may rely
on at each place although it was interrupted since it tested it (`InStream`): a
reader that has seen a byte still has one, as nobody else reads; a writer that has
seen room still has it. A reader past its position but before its byte is either
`cut`, or still has the CPU and the byte it is to load (`Loading`), because whatever
takes the CPU from it marks it (`Marked`). A write changes one residue, and two
positions less than `BY2PIPE` apart have different ones (`NoWrap`). `Buffered`, the
bytes between the positions, is what `Channel` calls its content: it grows and
shrinks with the positions, and a byte that goes from the writer's hand to its slot
leaves it as it is.

### Signals

`_do_signal` walks the pending list, drops what it passes and stops at the first
signal that it can deliver. The walk is a recursive function; that it exists and
what it returns is proved by taking the smallest number of nodes for which it
would not hold (`SmallestNat`), as is done for the loops of `env_free`. The pool is
a cardinality over pairs of env and position; `PoolKept` says how each list
operation moves it. For `TypesKept` the nodes only have to be no more than there
are, which holds even where signals are dropped; for `PoolIsAccounted` lists have
at most one node (`OneSignal`), so nothing is dropped. For the masks, `Base` is
the mask below the lowest handler, and every step either keeps it or is made by
the program itself.

### Memory

`IInv` is the conjunction of

- `Sound`: types, exact counts, an exact free list, a coherent TLB, and `Tabled`,
  that a mapping is in a table. It takes the set of pages that are allocated and
  not yet mapped, so that it can be stated of the memories between two calls
  inside a system call. A lemma per function of `pmap.c` says what it does to a
  sound memory (`RemoveSound`, `WalkSound`, `InsertSound`, ...); `FreeMemory` turns
  `Enough` into a free page: the pages in use are the image of the mappings,
  tables and directories.
- `Dirs`, `Kinds`, `Handled`: which envs have a directory, which permissions there
  are (private, copy on write, shared), and that who has a copy-on-write page
  has `cow_entry`, so that `do_tlb_mod` does not panic.
- `Forks` and `Cows`: where each env is in `fork` and in `cow_entry`. What `duppage`
  has read of a page is still true when it maps it; the child is nobody else's
  and has none of the pages to come; the page `cow_entry` copies does not change
  and what it has copied is equal.
- `Exclusive`: two mappings of the same page are both copy on write, or both
  shared, or the page is between the two `sys_mem_map`s of a `duppage`, or between
  the last two calls of a `cow_entry`. This is the heart: a store goes to a page
  with `PTE_D`, which then nobody else sees, except in the third case, where the
  parent's store is still one the child is to inherit.
- `Private`: `MemoryIsPrivate` for the children under construction as well, except
  for that page.

The steps are covered by what they change: nothing in use (`Quiet`), no mapping
(`TablesStay`), one slot (`SlotStep`), one slot in the middle of `fork` (`DupStep`),
the place in `fork` (`ForkMove`); `ForkBegin`, `ForkStatus` and `sys_env_destroy` have
proofs of their own.

### File system server

A handle is a descriptor of a client, the fd page it maps, the slot of `opentab`
that page belongs to and the id in it. `HandlesResolve` follows from `Handles`
(whoever maps the fd page of a slot finds the slot's id in it and has the slot's
file) and `Ids` (an id is its slot modulo `MAXOPEN`, also after `open_alloc` has added
`MAXOPEN` to it), because `open_lookup` and `open_alloc` tell a slot that is in use by
the references to its page: `Referenced` shows that a page a client maps counts
at least two, so `open_alloc` never gives its slot away. `Replying` covers the time
between the handler, which has filled the slot, and the reply, which maps its
page: the page then has one reference only, and no other request is served in
between. The operators of `Fs` are opaque: the proof holds whatever they return,
also with `SharedChanges` and `KillWaiting`.

### File system on the disk

Blocks are numbers in Files and in indirect blocks, and `BlocksAccounted` counts
them; no function of `fs.c` counts anything. The invariant (`FsTree`) therefore
names the owner of every block: a File and the pointer of it that leads there.

- `Tree`: owners are Files, and Files are in the super block or in a block that
  the owners say belongs to a directory (`OwnOk`); every such block holds Files,
  every indirect block holds block numbers (`Shape`); a pointer leads to a block
  that it owns (`Links`), and every owned block hangs at its owner's pointer
  (`Exact`); the size of a file covers its blocks (`Sized`), which is what makes
  `file_truncate` find all of them with `f_size / BY2BLK + 1`. Since an owner is one
  pointer, no block has two.
- `Good`: `Tree` holds of what a reader of the running server finds (`Seen`: the page
  if there is one, the disk otherwise), free blocks have no owner (`FreeOk`), and
  before the first crash the others have one (`Full`). A block that is neither
  owned nor free is what a crash may leave behind.
- `DiskOk`: what the disk holds while nothing has been freed since the boot. Each
  block on it is right by itself, for the owners of the running server, whether
  the disk's tree leads to it yet or not; its bitmap frees no block that is taken;
  the free ones are zeroes. When the machine stops, the owners that are left are
  those whose pointer reached the disk (`Surviving`), and `Stopped` shows that they
  make a tree again. `CrashAfterShrink` would need `DiskOk` after blocks have been
  freed, where it is false.
- `DepthOk`: every directory has a depth, one more than that of its parent.
  `FilePtrs` collects the Files level by level; that these are all the Files of the
  tree (`Files`) needs that no directory is deeper than there are levels.

An allocation gives a free block an owner (`Widens`), `file_clear_block` takes it
away (`Drops`), and most other steps change nothing of what a reader finds
(`Quiet`); all of them keep the Files that a caller holds (`Grows`). Between the two halves of an operation the tree is not always whole:
`file_truncate` holds blocks that the new size no longer covers, and
`file_block_walk` has an indirect block that no pointer uses, so the lemmas about
these state what holds in between. A loop is a recursive function of the rounds
that are over, and what its rounds keep holds of all of them by `Induct` and
`LoopExists` of `CommonLemmas`. The requests (`Runs`) and the steps of the boot then
follow function by function.

### Shell

`IInv` says of every process which descriptors are open at each place (`Local`):
0 and 1 only (`StdPcs`); these and the file that `spawn` reads (`FilePcs`); or,
between `|` and the end of the `dup`s and `close`s, descriptors that a `close` still
to come will close (`Plumbing`). `OnlyStdio` needs it of the places in between, and
of the env `spawn` makes, which gets its descriptors from another process: `Kids` and
`Distinct` say that this env does not run and that one process only makes it, so
no step of another process comes between `share` and `status`. `OneChanges` and
`TwoChange` carry this over the steps of one and of two processes.

`PromptAlone` needs `Parented`: each process but the shell has an older one that
runs and will still wait for it, as its child from `spawn` or `fork` (`KidPcs`) or as
the right side of its pipe (`RightPcs`). A step of the waiting process may leave
these places only when what it waits for is gone; the one that does not is
`runcmd`'s return with `argc = 0`. At the prompt the oldest process that is left
would have to be waited for by the shell, which waits for nobody there. `Stages`
adds that in `Staged` lines the tokens that are left start with a command
whenever there is none yet.

`ImageExact` is about the pages that `elf_load_seg` hands to `spawn_mapper`: for any
`Loadable` segment, address, size and page size, each word of the child's memory
is the one `Reference` says, from the file, or zero. The loop over the pages is a
recursive function of the rounds; after each round the pages up to the present
one are those of the segment (`Image`), the first of them split off when the
segment starts inside a page. The facts about `\div` and `%` of `CommonLemmas`
(`DivMod`, `DivUnique`) give each address its page and each round the next one.

### Only model-checked

- Liveness (`NoStarvation`, `BlockedCallsReturn`, `FatalEndsEnv`, `CallsReturn`,
  `PromptReturns`) and the fairness in `IsRunQueue`, which TLAPS does not reach.
- `KeepsContents` of `FsDisk`. It speaks of the words in the blocks of the files a
  request is not about, over a boot and a stop; the invariant of the proofs speaks
  of owners and pointers only, and would have to say of every page and every
  block of the disk, too, which of the two a file's words are in.
- `TypeOK`, `PagesMatch` and `CloseSaves` of `FsServer`. Their part about `Fs` (`TypeOK` says
  that `fs.c` does not panic) is `NoPanic` and `BlocksAccounted` under other requests:
  clients share pages with the server and keep Files of descriptors over several
  requests, so the invariant of `FsDisk` would have to be carried through `Serve`
  once more, with the clients' pages in it.
- That `fsformat` makes a tree of every image (`ImageAssumption`).

## 5. Findings

Each violation run shows a disagreement between the code and a comment of the
repository; `PROJECT.json` quotes both sides.

- `spawn_destroy`: `env_free` removes envs that are not queued, as `spawn`'s error
  paths make it do.
- `pipe_eof`: `pipe_read` can take the last bytes for the end of file.
- `signal_lost`: `_do_signal` drops all pending signals when it delivers one.
- `fs_sync`: `fs_sync` does not write sizes and block pointers.

The passing runs hold for programs and machines that keep to a discipline, which
the constants in section 2 name. What TLC finds when one is changed:

- `NASID = 2` with `NENV = 3`: two live envs share an ASID, as `asid_alloc`'s
  failure is ignored (`AsidsExclusive`).
- `LateFork = TRUE` with three envs: while `fork` has mapped Fd pages and not yet
  Pipe pages, a shared pipe looks closed (`ClosedMeansNoPeer`).
- `POS_MOD = 4`, `MaxBytes = 4`: when `p_wpos` wraps around before `p_rpos`, a
  buffer with bytes looks empty (`BlockedCallsReturn`).
- `INVARIANT EveryByteInOrder` in `PipeData.cfg`: when the position is stored
  before the byte, a preemption in between makes the reader take a byte that has
  not been written, where `user/testpipe.c` expects what was written.
- `ReuseSlots`, `NegativeResults`, `Handlers`, `NPAGE`, `CrashAfterShrink`,
  `CrashInBoot`, `DirtyReuse`, `RemoveDirs`, `SharedChanges`, `KillWaiting`, a line `| cat`: see
  section 2.

Seen while translating, and not the subject of a property: the filter `0x40100`
of `sigprocmask` clears bits 8 and 18, so SIGKILL can be masked; a child whose
parent is destroyed inside `fork` stays `ENV_NOT_RUNNABLE` for ever; `spawn`
returns a positive number that is no envid when `init_stack`, `read_map` or
`elf_load_seg` fails, and compares the unsigned result of `syscall_exofork` with
0; with `MAXARGS` arguments the shell stores behind `argv`; backspace at the
start of a line makes `readline` index before its buffer; `open` keeps the
descriptor when a page of the file cannot be mapped.

## 6. Not modelled

- console and formatted output, `ls`, `num`, `stat` and `fstat`, `read_map`:
  they look and print, and change nothing that others see;
- the characters of a line (`readline`, the words of `gettoken`), the layout of
  arguments on a new stack (`init_stack`), byte order: layout without a protocol;
- the boot sequence, `mips_vm_init`, `load_icode`: straight-line code before
  anything interleaves; the models start in the states it produces;
- registers, the IDE registers, the console and device calls, `bintoc`: outside
  of what the modules abstract to; a block is transferred in one step, so a
  crash inside a block is not modelled;
- exceptions inside the kernel (kernel code that faults on user memory and so
  runs `_do_signal` with the kernel's trap frame): a system call is one step;
- a `sys_exofork` that fails inside `fork` (no env or no memory left): `ForkBegin`
  of `Memory` is the one that succeeds;
- the length checks of `fsipc_open` and `fsipc_remove`, which return before
  anything is sent;
- the TLB entries of `UVPT` and the zones that `passive_alloc` refuses: programs
  of the repository read the former only in `fork` and `pageref`, which the
  models let see the tables as they are.
