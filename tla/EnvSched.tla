------------------------------ MODULE EnvSched ------------------------------
(***************************************************************************)
(* The environments (processes) of the kernel and their scheduler:         *)
(* kern/env.c, kern/sched.c and the system calls of kern/syscall_all.c     *)
(* that create, destroy, block and wake environments.                      *)
(*                                                                         *)
(* The kernel runs with interrupts disabled, so a system call or a timer   *)
(* interrupt is one step.  Memory (page tables, page_insert), signals and  *)
(* the contents of an IPC message are not state of this module; env_runs   *)
(* is state of module Pipe, its only reader.  A call that fails changes    *)
(* nothing here, so only successful calls are steps.                       *)
(***************************************************************************)
EXTENDS Tailq, Integers, Sequences, FiniteSets, FiniteSetsExt

CONSTANTS
  NENV,       \* size of envs[]
  NASID,      \* number of address space identifiers
  ENVID_MOD,  \* number of values of the u_int that holds an envid
  Priorities, \* priorities given to env_create
  MaxAllocs,  \* bound: how many times env_alloc succeeds
  (* What the programs ask for.  The user library destroys only the caller *)
  (* (exit) or, on an error path of spawn, a child that is not runnable;   *)
  (* it sets only ENV_RUNNABLE, and only on a child it has just built.     *)
  DestroyStatuses, \* the states of the targets of sys_env_destroy
  SetStatuses,     \* the values given to sys_set_env_status
  WakeReceivers    \* is it used on a child that waits in sys_ipc_recv?

ENV_FREE         == "ENV_FREE"
ENV_RUNNABLE     == "ENV_RUNNABLE"
ENV_NOT_RUNNABLE == "ENV_NOT_RUNNABLE"
Statuses         == {ENV_FREE, ENV_RUNNABLE, ENV_NOT_RUNNABLE}

ASSUME SizesAssumption ==
  /\ NENV \in Nat \ {0} /\ Envs = 0..(NENV - 1)
  /\ NASID \in Nat \ {0}
  /\ ENVID_MOD \in Nat /\ ENVID_MOD > 2 * NENV /\ ENVID_MOD % (2 * NENV) = 0
  /\ Priorities \subseteq Nat \ {0}
  /\ MaxAllocs \in Nat

ASSUME ProgramsAssumption ==
  /\ DestroyStatuses \subseteq {ENV_RUNNABLE, ENV_NOT_RUNNABLE}
  /\ SetStatuses \subseteq {ENV_RUNNABLE, ENV_NOT_RUNNABLE}
  /\ WakeReceivers \in BOOLEAN

(* What the programs of this repository keep to, spawn's error paths apart. *)
Disciplined ==
  /\ DestroyStatuses \subseteq {ENV_RUNNABLE}
  /\ SetStatuses \subseteq {ENV_RUNNABLE}
  /\ ~WakeReceivers

ASIDs  == 0..(NASID - 1)
EnvIds == 0..(ENVID_MOD - 1)

VARIABLES
  env_status, env_id, env_parent_id, env_asid, env_pri,
  env_ipc_recving,
  env_free_list,   \* sequence of envs
  env_sched_list,  \* queue of module Tailq, threaded by env_sched_link
  asid_bitmap,     \* the set of ASIDs whose bit is set
  mkenvid_i,       \* static counter of mkenvid
  curenv,          \* the running env or NULL
  count,           \* static counter of schedule: time slices left
  panicked         \* the kernel has halted in panic(), or has stored through NULL

idVars  == <<env_id, env_parent_id, env_asid, asid_bitmap, mkenvid_i, env_pri>>
runVars == <<env_sched_list, curenv, count, panicked>>
vars    == <<idVars, runVars, env_status, env_ipc_recving, env_free_list>>

(* Static storage after env_init: envs[0] is first in the free list. *)
Init ==
  /\ env_status      = [e \in Envs |-> ENV_FREE]
  /\ env_id          = [e \in Envs |-> 0]
  /\ env_parent_id   = [e \in Envs |-> 0]
  /\ env_asid        = [e \in Envs |-> 0]
  /\ env_pri         = [e \in Envs |-> 0]
  /\ env_ipc_recving = [e \in Envs |-> FALSE]
  /\ env_free_list   = [i \in 1..NENV |-> i - 1]
  /\ env_sched_list  = TAILQ_INIT
  /\ asid_bitmap     = {}
  /\ mkenvid_i       = 0
  /\ curenv          = NULL
  /\ count           = 0
  /\ panicked        = FALSE

----------------------------------------------------------------------------
(* Identifiers *)

ENVX(envid) == envid % NENV

(* Slip: the counter has a single bit. *)
mkenvid_Narrow(i, e) == (i % 2) * (2 * NENV) + e

(* The identifier of slot e at the i-th call. *)
mkenvid(i, e) == (i * (2 * NENV) + e) % ENVID_MOD

(* envid2env(envid, &e, checkperm) returns 0 with this e. *)
envid2env(envid, e, checkperm) ==
  \/ envid = 0 /\ e = curenv
  \/ /\ envid # 0
     /\ e = ENVX(envid)
     /\ env_status[e] # ENV_FREE
     /\ env_id[e] = envid
     /\ checkperm => e = curenv \/ env_parent_id[e] = env_id[curenv]

(* Slip: the search runs from 1 to NASID. *)
asid_alloc_FromOne(old) ==
  IF (1..NASID) \subseteq asid_bitmap THEN old ELSE Min((1..NASID) \ asid_bitmap)

(* The ASID asid_alloc stores in *asid, which holds 'old' before: its error *)
(* return leaves *asid alone.                                               *)
asid_alloc(old) == IF ASIDs \subseteq asid_bitmap THEN old ELSE Min(ASIDs \ asid_bitmap)

----------------------------------------------------------------------------
(* Life cycle *)

(* env_alloc gives the slot e to a child of parent_id.  It ignores the      *)
(* result of asid_alloc, and it does not reset env_ipc_recving.             *)
env_alloc(e, parent_id) ==
  /\ mkenvid_i < MaxAllocs
  /\ env_free_list # <<>>
  /\ e = Head(env_free_list)
  /\ env_free_list' = Tail(env_free_list)
  /\ env_parent_id' = [env_parent_id EXCEPT ![e] = parent_id]
  /\ LET asid == asid_alloc(env_asid[e])
     IN  /\ env_asid' = [env_asid EXCEPT ![e] = asid]
         /\ asid_bitmap' = asid_bitmap \cup {asid}
  /\ mkenvid_i' = mkenvid_i + 1
  /\ env_id' = [env_id EXCEPT ![e] = mkenvid(mkenvid_i + 1, e)]

(* ENV_CREATE in mips_init: before the first env is scheduled. *)
env_create(priority) ==
  /\ curenv = NULL /\ ~panicked
  /\ \E e \in Envs :
       /\ env_alloc(e, 0)
       /\ env_pri' = [env_pri EXCEPT ![e] = priority]
       /\ env_status' = [env_status EXCEPT ![e] = ENV_RUNNABLE]
       /\ env_sched_list' = TAILQ_INSERT_HEAD(env_sched_list, e)
  /\ UNCHANGED <<env_ipc_recving, curenv, count, panicked>>

(* env_run(e), called when curenv is cur; it asserts that e is runnable. *)
env_run(e, status, cur) ==
  IF status[e] = ENV_RUNNABLE
    THEN curenv' = e /\ UNCHANGED panicked
    ELSE panicked' = TRUE /\ curenv' = cur

(* The state of the machine after schedule(yield), called when the queue,  *)
(* the statuses and curenv are q, status and cur.                          *)
schedule(yield, q, status, cur) ==
  LET switch  == cur = NULL \/ yield \/ count = 0 \/ status[cur] # ENV_RUNNABLE
      removed == IF cur # NULL THEN TAILQ_REMOVE(q, cur) ELSE q
      rotated == IF cur # NULL /\ status[cur] = ENV_RUNNABLE
                   THEN TAILQ_INSERT_TAIL(removed, cur) ELSE removed
      list    == IF switch THEN rotated ELSE q
      next    == IF switch THEN TAILQ_FIRST(list) ELSE cur
      slices  == IF switch THEN env_pri[next] ELSE count
  IN  /\ env_sched_list' = list
      /\ IF list.fault \/ next = NULL
           THEN panicked' = TRUE /\ curenv' = cur /\ UNCHANGED count
           ELSE /\ count' = IF slices > 0 THEN slices - 1 ELSE slices
                /\ env_run(next, status, cur)

(* handle_int: the timer interrupt, in user mode or while the kernel waits *)
(* for the first one.                                                      *)
timer_irq ==
  /\ ~panicked
  /\ schedule(FALSE, env_sched_list, env_status, curenv)
  /\ UNCHANGED <<idVars, env_status, env_ipc_recving, env_free_list>>

----------------------------------------------------------------------------
(* System calls: made by curenv *)

InSyscall == curenv # NULL /\ ~panicked

(* Slip: sys_yield behaves like a timer interrupt. *)
sys_yield_Tick ==
  /\ InSyscall
  /\ schedule(FALSE, env_sched_list, env_status, curenv)
  /\ UNCHANGED <<idVars, env_status, env_ipc_recving, env_free_list>>

sys_yield ==
  /\ InSyscall
  /\ schedule(TRUE, env_sched_list, env_status, curenv)
  /\ UNCHANGED <<idVars, env_status, env_ipc_recving, env_free_list>>

(* Slips: the ASID is not freed; the slot is not returned. *)
env_free_KeepsAsid(e) ==
  /\ env_status' = [env_status EXCEPT ![e] = ENV_FREE]
  /\ env_free_list' = <<e>> \o env_free_list
  /\ UNCHANGED <<idVars, env_ipc_recving>>
env_free_LosesSlot(e) ==
  /\ env_status' = [env_status EXCEPT ![e] = ENV_FREE]
  /\ asid_bitmap' = asid_bitmap \ {env_asid[e]}
  /\ UNCHANGED <<env_id, env_parent_id, env_asid, mkenvid_i, env_pri, env_ipc_recving,
                 env_free_list>>

(* env_free: the part of it that is not memory; the TAILQ_REMOVE that ends *)
(* it is in env_destroy, its only caller.                                  *)
env_free(e) ==
  /\ env_status' = [env_status EXCEPT ![e] = ENV_FREE]
  /\ asid_bitmap' = asid_bitmap \ {env_asid[e]}
  /\ env_free_list' = <<e>> \o env_free_list
  /\ UNCHANGED <<env_id, env_parent_id, env_asid, mkenvid_i, env_pri, env_ipc_recving>>

(* env_destroy(e), from env_free's last statement on. *)
env_destroy(e) ==
  LET list == TAILQ_REMOVE(env_sched_list, e)
  IN  /\ env_free(e)
      /\ CASE list.fault ->
                 /\ env_sched_list' = list /\ panicked' = TRUE
                 /\ UNCHANGED <<curenv, count>>
           [] ~list.fault /\ curenv = e ->
                 schedule(TRUE, list, env_status', NULL)
           [] OTHER ->
                 env_sched_list' = list /\ UNCHANGED <<curenv, count, panicked>>

sys_env_destroy(envid) ==
  /\ InSyscall
  /\ \E e \in Envs :
       /\ envid2env(envid, e, TRUE)
       /\ env_status[e] \in DestroyStatuses
       /\ env_destroy(e)

sys_exofork ==
  /\ InSyscall
  /\ \E e \in Envs :
       /\ env_alloc(e, env_id[curenv])
       /\ env_status' = [env_status EXCEPT ![e] = ENV_NOT_RUNNABLE]
       /\ env_pri' = [env_pri EXCEPT ![e] = env_pri[curenv]]
  /\ UNCHANGED <<env_ipc_recving, runVars>>

sys_set_env_status(envid, status) ==
  /\ InSyscall
  /\ \E e \in Envs :
       /\ envid2env(envid, e, TRUE)
       /\ env_ipc_recving[e] => WakeReceivers
       /\ LET list == CASE env_status[e] = ENV_RUNNABLE /\ status = ENV_NOT_RUNNABLE ->
                             TAILQ_REMOVE(env_sched_list, e)
                        [] env_status[e] = ENV_NOT_RUNNABLE /\ status = ENV_RUNNABLE ->
                             TAILQ_INSERT_TAIL(env_sched_list, e)
                        [] OTHER -> env_sched_list
          IN  /\ env_sched_list' = list
              /\ panicked' = list.fault
              /\ env_status' = IF list.fault THEN env_status
                               ELSE [env_status EXCEPT ![e] = status]
  /\ UNCHANGED <<idVars, env_ipc_recving, env_free_list, curenv, count>>

(* Slip: the receiver is not put to sleep. *)
sys_ipc_recv_Awake ==
  /\ InSyscall
  /\ env_ipc_recving' = [env_ipc_recving EXCEPT ![curenv] = TRUE]
  /\ schedule(TRUE, env_sched_list, env_status, curenv)
  /\ UNCHANGED <<idVars, env_status, env_free_list>>

sys_ipc_recv ==
  /\ InSyscall
  /\ env_ipc_recving' = [env_ipc_recving EXCEPT ![curenv] = TRUE]
  /\ env_status' = [env_status EXCEPT ![curenv] = ENV_NOT_RUNNABLE]
  /\ schedule(TRUE, env_sched_list, env_status', curenv)
  /\ UNCHANGED <<idVars, env_free_list>>

sys_ipc_try_send(envid) ==
  /\ InSyscall
  /\ \E e \in Envs :
       /\ envid2env(envid, e, FALSE)
       /\ env_ipc_recving[e]
       /\ env_ipc_recving' = [env_ipc_recving EXCEPT ![e] = FALSE]
       /\ env_status' = [env_status EXCEPT ![e] = ENV_RUNNABLE]
       /\ LET list == TAILQ_INSERT_TAIL(env_sched_list, e)
          IN  env_sched_list' = list /\ panicked' = list.fault
  /\ UNCHANGED <<idVars, env_free_list, curenv, count>>

Next ==
  \/ \E priority \in Priorities : env_create(priority)
  \/ timer_irq
  \/ sys_yield
  \/ sys_exofork
  \/ sys_ipc_recv
  \/ \E envid \in EnvIds : sys_env_destroy(envid) \/ sys_ipc_try_send(envid)
  \/ \E envid \in EnvIds, status \in SetStatuses : sys_set_env_status(envid, status)

Spec == Init /\ [][Next]_vars

(* The clock never stops: as long as the kernel has not halted it delivers *)
(* another timer interrupt.                                                *)
FairSpec == Spec /\ WF_vars(timer_irq)

----------------------------------------------------------------------------
(* Properties *)

RunnableIn(status) == {e \in Envs : status[e] = ENV_RUNNABLE}
Runnable == RunnableIn(env_status)
Live     == {e \in Envs : env_status[e] # ENV_FREE}

(* Every variable keeps its type: pointers of the scheduling queue and of  *)
(* curenv are slots of envs[] or null, ids fit the u_int that holds them.  *)
TypeOK ==
  /\ env_status \in [Envs -> Statuses]
  /\ env_id \in [Envs -> EnvIds]
  /\ env_parent_id \in [Envs -> EnvIds]
  /\ env_asid \in [Envs -> ASIDs]
  /\ env_pri \in [Envs -> Nat]
  /\ env_ipc_recving \in [Envs -> BOOLEAN]
  /\ env_free_list \in Seq(Envs)
  /\ env_sched_list \in Queues
  /\ asid_bitmap \in SUBSET ASIDs
  /\ mkenvid_i \in 0..MaxAllocs
  /\ curenv \in Envs \cup {NULL}
  /\ count \in Nat
  /\ panicked \in BOOLEAN

(* 'env' in 'env_sched_list' iff. 'env->env_status' is 'RUNNABLE' (the      *)
(* comment of kern/env.c on env_sched_list): the links of the queue spell   *)
(* out a sequence of distinct envs, and they are the runnable ones.         *)
RunnableIffListed ==
  \E n \in 0..NENV : \E s \in [1..n -> Envs] :
    /\ Represents(env_sched_list, n, s)
    /\ {s[i] : i \in 1..n} = Runnable

(* The env whose context is on the CPU is the runnable env at the head of   *)
(* the queue, where schedule left it: no system call moves another one in   *)
(* front of it.                                                             *)
RunningIsHead ==
  curenv # NULL /\ ~panicked =>
    /\ env_status[curenv] = ENV_RUNNABLE
    /\ TAILQ_FIRST(env_sched_list) = curenv

(* An env marked as receiving is blocked in sys_ipc_recv: a send to it      *)
(* wakes an env that sleeps, never one that runs or a slot that was freed   *)
(* or given to another env.                                                 *)
ReceiversSleep ==
  \A e \in Envs : env_ipc_recving[e] => env_status[e] = ENV_NOT_RUNNABLE

(* env_free_list holds every free slot once and no slot in use, so          *)
(* env_alloc never hands out a slot that is alive.                          *)
FreeListExact ==
  /\ \A i, j \in DOMAIN env_free_list : env_free_list[i] = env_free_list[j] => i = j
  /\ {env_free_list[i] : i \in DOMAIN env_free_list} = Envs \ Live

(* Two envs that are alive have different ASIDs, so that no TLB entry of    *)
(* one can be used by the other, and asid_bitmap has exactly their bits.    *)
AsidsExclusive ==
  /\ \A e, f \in Live : env_asid[e] = env_asid[f] => e = f
  /\ asid_bitmap = {env_asid[e] : e \in Live}

(* The kernel halts only where schedule says it does ('Panic if that list   *)
(* is empty'), and then really no env can run: it never loses a runnable    *)
(* env, and it never trips over env_run's assertion or a null link.         *)
HaltsOnlyWhenIdle == panicked => Runnable = {}

(* mkenvid makes 'a unique ID for every env': an id that env_alloc hands    *)
(* out is above every id any slot still carries, alive or dead, so an id    *)
(* kept after its env died never names a later env.                         *)
EnvIdsIncrease ==
  [][\A e \in Envs : env_id'[e] # env_id[e] =>
        \A f \in Envs : env_id'[e] > env_id[f]]_vars

(* 'If yield is set, curenv should not be scheduled again unless it is the  *)
(* only runnable env' (kern/sched.c).                                       *)
YieldPasses ==
  [][sys_yield /\ ~panicked' => curenv' # curenv \/ Runnable = {curenv}]_vars

(* Round robin starves nobody: an env that is runnable runs, or stops being *)
(* runnable because it is destroyed, or the kernel halts.                   *)
NoStarvation ==
  \A e \in Envs :
    env_status[e] = ENV_RUNNABLE ~>
      (curenv = e \/ env_status[e] # ENV_RUNNABLE \/ panicked)

(* The sequence of envs in env_sched_list. *)
RunList ==
  LET n == Cardinality(Runnable)
  IN  CHOOSE s \in [1..n -> Runnable] : Represents(env_sched_list, n, s)

Abstract == INSTANCE RunQueue WITH
              runq <- RunList, started <- curenv # NULL \/ panicked

(* The kernel's scheduler implements the first-come, first-served queue of  *)
(* module RunQueue, its fairness included: every system call and every      *)
(* timer interrupt is one of its steps or leaves the queue alone.           *)
IsRunQueue == Abstract!Spec

=============================================================================
