------------------------------- MODULE Tailq -------------------------------
(***************************************************************************)
(* The tail queue macros of include/queue.h, at the level of the pointers  *)
(* they store.  A queue is the record                                      *)
(*   first   tqh_first, an element or NULL                                 *)
(*   last    tqh_last, the address of the link that ends the queue         *)
(*   next    tqe_next of every element                                     *)
(*   prev    tqe_prev of every element, the address of the link to it      *)
(*   fault   a store through a null pointer has happened                   *)
(* The address of a link is HEAD for &head->tqh_first and the element e    *)
(* for &e->tqe_next.  The links of an element that is not queued keep the  *)
(* values they had: TAILQ_REMOVE does not clear them.                      *)
(***************************************************************************)
EXTENDS Naturals

CONSTANTS
  Envs,   \* what is queued: the struct Env of envs[]
  NULL,   \* the null pointer
  HEAD    \* the address of the queue's tqh_first

ASSUME PointersAssumption ==
  NULL \notin Envs /\ HEAD \notin Envs /\ NULL # HEAD

Pointers  == Envs \cup {NULL}
Addresses == Envs \cup {HEAD, NULL}

Queues == [first : Pointers, last : Addresses, next : [Envs -> Pointers],
           prev : [Envs -> Addresses], fault : BOOLEAN]

(* '*addr = v'. *)
Store(q, addr, v) ==
  [q EXCEPT !.first = IF addr = HEAD THEN v ELSE @,
            !.next  = IF addr \in Envs THEN [@ EXCEPT ![addr] = v] ELSE @,
            !.fault = @ \/ addr = NULL]

(* A static queue after TAILQ_INIT: the elements' links are still zero. *)
TAILQ_INIT ==
  [first |-> NULL, last |-> HEAD, next |-> [e \in Envs |-> NULL],
   prev |-> [e \in Envs |-> NULL], fault |-> FALSE]

TAILQ_EMPTY(q) == q.first = NULL
TAILQ_FIRST(q) == q.first

TAILQ_INSERT_HEAD(q, e) ==
  [q EXCEPT !.first = e,
            !.last  = IF q.first = NULL THEN e ELSE @,
            !.next  = [@ EXCEPT ![e] = q.first],
            !.prev  = [x \in Envs |-> IF x = e THEN HEAD
                                       ELSE IF x = q.first THEN e ELSE @[x]]]

TAILQ_INSERT_TAIL(q, e) ==
  LET linked == [q EXCEPT !.next[e] = NULL, !.prev[e] = q.last]
  IN  [Store(linked, q.last, e) EXCEPT !.last = e]

(* Slips of TAILQ_REMOVE the properties must notice: tqh_last is left       *)
(* pointing into the removed element; the rest of the queue is cut off.     *)
TAILQ_REMOVE_KeepsLast(q, e) ==
  Store(IF q.next[e] # NULL THEN [q EXCEPT !.prev[q.next[e]] = q.prev[e]] ELSE q,
        q.prev[e], q.next[e])
TAILQ_REMOVE_CutsOff(q, e) == Store(q, q.prev[e], NULL)

TAILQ_REMOVE(q, e) ==
  LET skipped == IF q.next[e] # NULL
                   THEN [q EXCEPT !.prev[q.next[e]] = q.prev[e]]
                   ELSE [q EXCEPT !.last = q.prev[e]]
  IN  Store(skipped, q.prev[e], q.next[e])

(* The queue q holds s[1], ..., s[n] in this order, and nothing else. *)
Represents(q, n, s) ==
  /\ s \in [1..n -> Envs]
  /\ \A i, j \in 1..n : s[i] = s[j] => i = j
  /\ q.first = IF n = 0 THEN NULL ELSE s[1]
  /\ q.last  = IF n = 0 THEN HEAD ELSE s[n]
  /\ \A i \in 1..n : q.next[s[i]] = IF i = n THEN NULL ELSE s[i + 1]
  /\ \A i \in 1..n : q.prev[s[i]] = IF i = 1 THEN HEAD ELSE s[i - 1]
  /\ ~q.fault

=============================================================================
