------------------------------- MODULE Signal -------------------------------
(***************************************************************************)
(* Signals: kern/signal.c, the signal system calls of kern/syscall_all.c   *)
(* and user/lib/signal.c.                                                  *)
(*                                                                         *)
(* The kernel is not preempted, and every way back to user mode runs       *)
(* _do_signal for the env it returns to; so one action is one system call  *)
(* or exception of an env, followed by _do_signal.  A linked list of       *)
(* signo_nodes is the sequence of its signals, the free list its length; a *)
(* sigset_t is the set of the signals whose bit is set.                    *)
(***************************************************************************)
EXTENDS Naturals, Sequences, FiniteSets, FiniteSetsExt

CONSTANTS
  Envs,
  First,        \* the env that exists at the start
  Signals,      \* the signals that are used
  Masks,        \* the sigset_t the programs pass to sigprocmask
  Actions,      \* the struct sigaction they install, with the signal they are for
  MAX_SIG_NUM,  \* number of signo_nodes
  MaxKills,     \* bound: how many signals are sent
  (* What the programs do.  FALSE is what the kernel handles well. *)
  ManyPending,      \* is an env sent a signal while another one is pending?
  ReuseSlots,       \* is the slot of a dead env used again?
  NegativeResults   \* may $v0 be negative where a handler interrupts?

SIGKILL == 9
SIGSEGV == 11
SIGTERM == 15
Fatal   == {SIGKILL, SIGSEGV, SIGTERM}

ASSUME SignalAssumption ==
  /\ IsFiniteSet(Envs) /\ First \in Envs
  /\ Signals \subseteq 1..63 /\ Masks \subseteq SUBSET Signals
  /\ Actions \subseteq [signo : Signals, handler : BOOLEAN, mask : SUBSET Signals]
  /\ MAX_SIG_NUM \in Nat /\ MaxKills \in Nat
  /\ {ManyPending, ReuseSlots, NegativeResults} \subseteq BOOLEAN

VARIABLES
  alive,            \* the slot is in use
  do_signal_entry,  \* do_signal_entry is set (to the library's do_signal)
  signoHeader,      \* the pending signals
  env_sigprocmask,
  sa_handler,       \* sa_handler[e][s]: sighandler_table has a function for s
  sa_mask,
  frames,           \* the handlers in progress, on the env's user stack
  signo_free,       \* length of signo_free_list
  panicked,         \* the message of the panic that stopped the kernel, or "no"
  kills             \* history: number of signals sent

perEnv == <<alive, do_signal_entry, signoHeader, env_sigprocmask, sa_handler, sa_mask,
            frames>>
vars == <<perEnv, signo_free, panicked, kills>>

Init ==
  /\ alive = [e \in Envs |-> e = First]
  /\ do_signal_entry = [e \in Envs |-> FALSE]
  /\ signoHeader = [e \in Envs |-> <<>>]
  /\ env_sigprocmask = [e \in Envs |-> {}]
  /\ sa_handler = [e \in Envs |-> [s \in Signals |-> FALSE]]
  /\ sa_mask = [e \in Envs |-> [s \in Signals |-> {}]]
  /\ frames = [e \in Envs |-> <<>>]
  /\ signo_free = MAX_SIG_NUM
  /\ panicked = "no"
  /\ kills = 0

----------------------------------------------------------------------------
(* sigset_add and sigset_set clear the bits 8 and 18 (0x40100) of the mask. *)

Filtered == {8, 18}

SIG_BLOCK == "SIG_BLOCK"
SIG_UNBLOCK == "SIG_UNBLOCK"
SIG_SETMASK == "SIG_SETMASK"

NewMask(how, old, set) ==
  CASE how = SIG_BLOCK   -> (old \cup set) \ Filtered
    [] how = SIG_UNBLOCK -> old \ set
    [] how = SIG_SETMASK -> set \ Filtered

----------------------------------------------------------------------------
(* The way back to user mode *)

(* The first signal of the list p that _do_signal hands to do_signal, and    *)
(* the end of the list if there is none.                                     *)
Handled(s, h)     == h[s] \/ s \in Fatal
Ready(p, m, h)    == {k \in DOMAIN p : p[k] \notin m /\ Handled(p[k], h)}
Stop(p, m, h)     == IF Ready(p, m, h) = {} THEN Len(p) ELSE Min(Ready(p, m, h))

(* The nodes up to there whose signal is not blocked are freed: the last one *)
(* is delivered, the others are ignored.                                     *)
Skipped(p, m, h) ==
  LET Blocked[k \in 0..Len(p)] ==
        IF k = 0 THEN <<>>
        ELSE IF p[k] \in m THEN Append(Blocked[k - 1], p[k]) ELSE Blocked[k - 1]
  IN  Blocked[Stop(p, m, h)]

(* Slip: the nodes that are passed over are freed as well. *)
Freed_Blocked(p, m, h) == Stop(p, m, h)

Freed(p, m, h)    == Stop(p, m, h) - Len(Skipped(p, m, h))

(* Slip: the node that is delivered stays in the list. *)
Left_NotRemoved(p, m, h) == p

(* The list that is left.  Taking out its first node sets signoHeader to     *)
(* NULL.                                                                     *)
Left(p, m, h) ==
  IF p # <<>> /\ p[1] \notin m THEN <<>>
  ELSE Skipped(p, m, h) \o SubSeq(p, Stop(p, m, h) + 1, Len(p))

(* _do_signal in the env e, called when the pending signals, the masks, the  *)
(* frames and the number of free nodes are p, m, fr and n.                   *)
_do_signal(e, p, m, fr, n) ==
  LET h     == sa_handler'[e]
      ready == Ready(p[e], m[e], h)
      s     == p[e][Stop(p[e], m[e], h)]
  IN  /\ signoHeader' = [p EXCEPT ![e] = Left(p[e], m[e], h)]
      /\ signo_free' = n + Freed(p[e], m[e], h)
      /\ IF ready = {} \/ ~do_signal_entry'[e]
           THEN /\ env_sigprocmask' = m /\ frames' = fr
                /\ panicked' = IF ready = {} THEN panicked
                               ELSE IF s # SIGSEGV THEN "only SIGSEGV can exit in kern"
                               ELSE "address too low"
           ELSE \E negative \in {FALSE, NegativeResults} :
                /\ env_sigprocmask' = [m EXCEPT ![e] = sa_mask'[e][s]]
                /\ frames' = [fr EXCEPT ![e] = Append(@,
                     [signo |-> s, handler |-> h[s], mask |-> m[e], negative |-> negative])]
                /\ UNCHANGED panicked

(* _do_signal after a call that has left these alone. *)
Back(e) == _do_signal(e, signoHeader, env_sigprocmask, frames, signo_free)

----------------------------------------------------------------------------
(* The calls of a program *)

(* Slip: do_signal forgets SIGSEGV. *)
Dying_NotSegv(e) ==
  /\ frames[e] # <<>> /\ ~frames[e][Len(frames[e])].handler
  /\ frames[e][Len(frames[e])].signo # SIGSEGV

(* do_signal has no handler to call: the env is in exit(). *)
Dying(e) == frames[e] # <<>> /\ ~frames[e][Len(frames[e])].handler

Running(e) == panicked = "no" /\ alive[e]

(* The library's calls set the caller's entry first. *)
Calls(e) == Running(e) /\ ~Dying(e)

(* A timer interrupt, or any other exception or call. *)
timer_irq(e) ==
  /\ Running(e)
  /\ UNCHANGED <<alive, do_signal_entry, sa_handler, sa_mask, kills>>
  /\ Back(e)

sys_set_sig_entry(e, t) ==
  /\ Calls(e) /\ ~do_signal_entry[e] /\ alive[t]
  /\ do_signal_entry' = [do_signal_entry EXCEPT ![t] = TRUE]
  /\ UNCHANGED <<alive, sa_handler, sa_mask, kills>>
  /\ Back(e)

sys_sigaction(e, act) ==
  /\ Calls(e) /\ do_signal_entry[e]
  /\ sa_handler' = [sa_handler EXCEPT ![e][act.signo] = act.handler]
  /\ sa_mask' = [sa_mask EXCEPT ![e][act.signo] = act.mask]
  /\ UNCHANGED <<alive, do_signal_entry, kills>>
  /\ Back(e)

sys_sigprocmask(e, how, set) ==
  /\ Calls(e) /\ do_signal_entry[e]
  /\ UNCHANGED <<alive, do_signal_entry, sa_handler, sa_mask, kills>>
  /\ _do_signal(e, signoHeader, [env_sigprocmask EXCEPT ![e] = NewMask(how, @, set)],
                frames, signo_free)

(* sys_kill, called by e: t is sent the signal s, in front of the others. *)
Send(e, t, s) ==
  /\ kills < MaxKills /\ kills' = kills + 1
  /\ UNCHANGED <<alive, do_signal_entry, sa_handler, sa_mask>>
  /\ IF signo_free = 0
       THEN /\ panicked' = "add signo fail"
            /\ UNCHANGED <<signoHeader, env_sigprocmask, frames, signo_free>>
       ELSE _do_signal(e, [signoHeader EXCEPT ![t] = <<s>> \o @], env_sigprocmask, frames,
                       signo_free - 1)

(* kill(): it has set the entry of t if e itself has none. *)
sys_kill(e, t, s) ==
  /\ Calls(e) /\ alive[t]
  /\ do_signal_entry[e] \/ do_signal_entry[t]
  /\ signoHeader[t] # <<>> => ManyPending
  /\ Send(e, t, s)

(* passive_alloc: the program has used an address below UTEMP. *)
passive_alloc(e) ==
  /\ Running(e) /\ SIGSEGV \in Signals
  /\ signoHeader[e] # <<>> => ManyPending
  /\ Send(e, e, SIGSEGV)

(* Slip: the mask is not restored. *)
sys_back_do_signal_KeepsMask(e) ==
  /\ Calls(e) /\ frames[e] # <<>>
  /\ UNCHANGED <<alive, do_signal_entry, sa_handler, sa_mask, kills>>
  /\ _do_signal(e, signoHeader, env_sigprocmask,
                [frames EXCEPT ![e] = SubSeq(@, 1, Len(@) - 1)], signo_free)

(* The handler has returned to do_signal.  A negative value of the saved $v0 *)
(* is taken for an error of sys_set_trapframe.                               *)
sys_back_do_signal(e) ==
  /\ Calls(e) /\ frames[e] # <<>>
  /\ UNCHANGED <<alive, do_signal_entry, sa_handler, sa_mask, kills>>
  /\ LET d   == Len(frames[e])
         top == frames[e][d]
     IN  _do_signal(e, signoHeader,
                    [env_sigprocmask EXCEPT ![e] = IF top.negative THEN @ ELSE top.mask],
                    [frames EXCEPT ![e] = SubSeq(@, 1, d - 1)], signo_free)

(* sys_exofork and the rest of fork: the child has the parent's table, mask  *)
(* and user stack, no pending signal, and the do_signal_entry of its slot.   *)
fork(e, c) ==
  /\ Calls(e) /\ ~alive[c]
  /\ signoHeader[c] # <<>> => ReuseSlots
  /\ alive' = [alive EXCEPT ![c] = TRUE]
  /\ sa_handler' = [sa_handler EXCEPT ![c] = sa_handler[e]]
  /\ sa_mask' = [sa_mask EXCEPT ![c] = sa_mask[e]]
  /\ UNCHANGED <<do_signal_entry, kills>>
  /\ _do_signal(e, [signoHeader EXCEPT ![c] = <<>>],
                [env_sigprocmask EXCEPT ![c] = env_sigprocmask[e]],
                [frames EXCEPT ![c] = frames[e]], signo_free)

(* exit(): env_free leaves the signal fields of the slot alone. *)
exit(e) ==
  /\ Running(e)
  /\ alive' = [alive EXCEPT ![e] = FALSE]
  /\ frames' = [frames EXCEPT ![e] = <<>>]
  /\ UNCHANGED <<do_signal_entry, signoHeader, env_sigprocmask, sa_handler, sa_mask,
                 signo_free, panicked, kills>>

Next ==
  \E e \in Envs :
    \/ timer_irq(e) \/ sys_back_do_signal(e) \/ exit(e) \/ passive_alloc(e)
    \/ \E t \in Envs : sys_set_sig_entry(e, t) \/ fork(e, t)
    \/ \E t \in Envs, s \in Signals : sys_kill(e, t, s)
    \/ \E act \in Actions : sys_sigaction(e, act)
    \/ \E how \in {SIG_BLOCK, SIG_UNBLOCK, SIG_SETMASK}, set \in Masks :
         sys_sigprocmask(e, how, set)

Spec == Init /\ [][Next]_vars

(* Every env keeps running, and its handlers and exit() come to an end. *)
Fairness ==
  \A e \in Envs : WF_vars(timer_irq(e)) /\ SF_vars(Dying(e) /\ exit(e))
                  /\ SF_vars(sys_back_do_signal(e))

FairSpec == Spec /\ Fairness

----------------------------------------------------------------------------
(* Properties *)

Frames == [signo : Signals, handler : BOOLEAN, mask : SUBSET Signals, negative : BOOLEAN]

(* Every variable keeps its type; no more nodes are free than there are.    *)
TypeOK ==
  /\ alive \in [Envs -> BOOLEAN] /\ do_signal_entry \in [Envs -> BOOLEAN]
  /\ signoHeader \in [Envs -> Seq(Signals)]
  /\ env_sigprocmask \in [Envs -> SUBSET Signals]
  /\ sa_handler \in [Envs -> [Signals -> BOOLEAN]]
  /\ sa_mask \in [Envs -> [Signals -> SUBSET Signals]]
  /\ frames \in [Envs -> Seq(Frames)]
  /\ signo_free \in 0..MAX_SIG_NUM
  /\ panicked \in {"no", "add signo fail", "only SIGSEGV can exit in kern",
                   "address too low"}
  /\ kills \in 0..MaxKills

(* The signo_nodes in the lists p, as pairs of an env and a position. *)
Nodes(p) == UNION {{e} \X DOMAIN p[e] : e \in Envs}

Pending == Cardinality(Nodes(signoHeader))

(* Every signo_node is free or in the list of one env: a signal that was    *)
(* sent stays there until it is delivered or ignored, and no node is lost   *)
(* on the way.  The list of an env that has exited counts, as env_free      *)
(* leaves its nodes in it: of a pool held by dead envs this says nothing.   *)
PoolAccounted == signo_free + Pending = MAX_SIG_NUM

(* The mask the program itself has set, handlers apart. *)
BaseMask(e) == IF frames[e] = <<>> THEN env_sigprocmask[e] ELSE frames[e][1].mask

(* Handlers, however deep they nest and whatever masks they run with or     *)
(* set, leave the mask of the interrupted program as it was: only the       *)
(* program itself changes it, outside of any handler.                       *)
MaskSurvivesHandlers ==
  [][\A e \in Envs :
       alive[e] /\ alive'[e] /\ BaseMask(e)' # BaseMask(e) => frames[e] = <<>>]_vars

(* A fatal signal without a handler ends the env, even if other handlers    *)
(* interrupt its exit().                                                    *)
FatalEndsEnv ==
  \A e \in Envs :
    (\E k \in DOMAIN frames[e] : ~frames[e][k].handler) ~> (~alive[e] \/ panicked # "no")

=============================================================================
