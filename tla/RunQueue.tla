------------------------------ MODULE RunQueue ------------------------------
(***************************************************************************)
(* What the scheduler promises: the runnable envs wait in one first-come,  *)
(* first-served queue whose head has the CPU.  The head keeps the CPU,     *)
(* goes to the back or leaves; it never keeps it forever while others      *)
(* wait.  EnvSched implements this specification.                          *)
(***************************************************************************)
EXTENDS Naturals, Sequences, SequencesExt

CONSTANT Envs

VARIABLES
  runq,    \* the runnable envs, the running one first
  started  \* the first env has been scheduled

vars == <<runq, started>>

InQueue(e) == \E i \in DOMAIN runq : runq[i] = e

Init == runq = <<>> /\ started = FALSE

(* Envs made while the kernel boots: the last one made runs first. *)
Boot(e) ==
  /\ ~started /\ ~InQueue(e)
  /\ runq' = <<e>> \o runq
  /\ UNCHANGED started

Start == ~started /\ started' = TRUE /\ UNCHANGED runq

Running == started /\ runq # <<>>

(* The running env starts or wakes another one. *)
Wake(e) ==
  /\ Running /\ ~InQueue(e)
  /\ runq' = Append(runq, e)
  /\ UNCHANGED started

(* It yields, or its time is over. *)
Rotate ==
  /\ Running
  /\ runq' = Append(Tail(runq), Head(runq))
  /\ UNCHANGED started

(* It blocks or exits. *)
Leave ==
  /\ Running
  /\ runq' = Tail(runq)
  /\ UNCHANGED started

(* It destroys a child that waits in the queue. *)
Kill(i) ==
  /\ Running /\ i \in 2..Len(runq)
  /\ runq' = RemoveAt(runq, i)
  /\ UNCHANGED started

Next ==
  \/ \E e \in Envs : Boot(e) \/ Wake(e)
  \/ Start \/ Rotate \/ Leave
  \/ \E i \in DOMAIN runq : Kill(i)

Pass == Len(runq) > 1 /\ (Rotate \/ Leave)

Spec == Init /\ [][Next]_vars /\ WF_vars(Pass)

=============================================================================
