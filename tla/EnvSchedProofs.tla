--------------------------- MODULE EnvSchedProofs ---------------------------
(* Proofs about the scheduler, for any number of envs and of ASIDs. *)
EXTENDS EnvSched, CommonLemmas

----------------------------------------------------------------------------
(* What the tail queue macros do to the sequence a queue represents. *)

(* The queue q holds the envs of S, each once, in some order. *)
Holds(q, S) ==
  \E n \in Nat : \E s \in [1..n -> Envs] :
    Represents(q, n, s) /\ {s[i] : i \in 1..n} = S

(* Every macro yields a queue of pointers. *)
LEMMA StoreType ==
  ASSUME NEW q \in Queues, NEW a \in Addresses, NEW v \in Pointers
  PROVE  /\ Store(q, a, v) \in Queues
         /\ Store(q, a, v).last = q.last
         /\ Store(q, a, v).prev = q.prev
         /\ Store(q, a, v).first = IF a = HEAD THEN v ELSE q.first
         /\ Store(q, a, v).next = IF a \in Envs THEN [q.next EXCEPT ![a] = v] ELSE q.next
         /\ Store(q, a, v).fault = (q.fault \/ a = NULL)
  BY PointersAssumption DEF Store, Queues, Pointers, Addresses

(* TAILQ_INSERT_HEAD puts a new element in front of the sequence. *)
LEMMA InsertHeadRepresents ==
  ASSUME NEW q \in Queues, NEW n \in Nat, NEW s \in [1..n -> Envs],
         Represents(q, n, s), NEW e \in Envs, \A i \in 1..n : s[i] # e
  PROVE  /\ TAILQ_INSERT_HEAD(q, e) \in Queues
         /\ Represents(TAILQ_INSERT_HEAD(q, e), n + 1,
                       [i \in 1..(n + 1) |-> IF i = 1 THEN e ELSE s[i - 1]])
<1> DEFINE r == TAILQ_INSERT_HEAD(q, e)
           t == [i \in 1..(n + 1) |-> IF i = 1 THEN e ELSE s[i - 1]]
<1>1. /\ r \in Queues
      /\ r.first = e
      /\ r.last = IF q.first = NULL THEN e ELSE q.last
      /\ r.next = [q.next EXCEPT ![e] = q.first]
      /\ r.prev = [x \in Envs |-> IF x = e THEN HEAD
                                  ELSE IF x = q.first THEN e ELSE q.prev[x]]
      /\ r.fault = q.fault
  BY PointersAssumption DEF TAILQ_INSERT_HEAD, Queues, Pointers, Addresses
<1> HIDE DEF r
<1>2. t \in [1..(n + 1) -> Envs]
  OBVIOUS
<1>3. \A i, j \in 1..(n + 1) : t[i] = t[j] => i = j
  BY DEF Represents
<1>4. r.first = t[1] /\ r.last = t[n + 1]
  BY <1>1, PointersAssumption DEF Represents
<1>5. \A i \in 1..(n + 1) : r.next[t[i]] = IF i = n + 1 THEN NULL ELSE t[i + 1]
  BY <1>1, PointersAssumption DEF Represents, Queues
<1>6. \A i \in 1..(n + 1) : r.prev[t[i]] = IF i = 1 THEN HEAD ELSE t[i - 1]
  BY <1>1, PointersAssumption DEF Represents, Queues
<1>7. ~r.fault
  BY <1>1 DEF Represents
<1>8. n + 1 # 0
  OBVIOUS
<1> HIDE DEF t
<1>9. Represents(r, n + 1, t)
  BY <1>2, <1>3, <1>4, <1>5, <1>6, <1>7, <1>8 DEF Represents
<1> QED
  BY <1>1, <1>9 DEF r, t

(* TAILQ_INSERT_TAIL puts a new element behind the sequence. *)
LEMMA InsertTailRepresents ==
  ASSUME NEW q \in Queues, NEW n \in Nat, NEW s \in [1..n -> Envs],
         Represents(q, n, s), NEW e \in Envs, \A i \in 1..n : s[i] # e
  PROVE  /\ TAILQ_INSERT_TAIL(q, e) \in Queues
         /\ Represents(TAILQ_INSERT_TAIL(q, e), n + 1,
                       [i \in 1..(n + 1) |-> IF i = n + 1 THEN e ELSE s[i]])
<1> DEFINE r == TAILQ_INSERT_TAIL(q, e)
           t == [i \in 1..(n + 1) |-> IF i = n + 1 THEN e ELSE s[i]]
           m == [q EXCEPT !.next[e] = NULL, !.prev[e] = q.last]
<1>1. /\ m \in Queues
      /\ m.first = q.first /\ m.last = q.last /\ m.fault = q.fault
      /\ m.next = [q.next EXCEPT ![e] = NULL]
      /\ m.prev = [q.prev EXCEPT ![e] = q.last]
  BY DEF Queues, Pointers, Addresses
<1>2. q.last \in Addresses \ {NULL} /\ q.last # e /\ e \in Pointers
  BY PointersAssumption DEF Represents, Addresses, Pointers
<1> HIDE DEF m
<1>3. /\ r \in Queues
      /\ r.first = IF q.last = HEAD THEN e ELSE q.first
      /\ r.last = e
      /\ r.next = IF q.last \in Envs THEN [m.next EXCEPT ![q.last] = e] ELSE m.next
      /\ r.prev = m.prev
      /\ r.fault = q.fault
  <2>1. r = [Store(m, q.last, e) EXCEPT !.last = e]
    BY DEF TAILQ_INSERT_TAIL, m
  <2> QED
    BY <1>1, <1>2, <2>1, StoreType DEF Queues, Addresses
<1> HIDE DEF r
<1>4. t \in [1..(n + 1) -> Envs]
  OBVIOUS
<1>5. \A i, j \in 1..(n + 1) : t[i] = t[j] => i = j
  BY DEF Represents
<1>6. r.first = t[1] /\ r.last = t[n + 1]
  BY <1>3, PointersAssumption DEF Represents
<1>7. \A i \in 1..(n + 1) : r.next[t[i]] = IF i = n + 1 THEN NULL ELSE t[i + 1]
  BY <1>1, <1>3, PointersAssumption DEF Represents, Queues
<1>8. \A i \in 1..(n + 1) : r.prev[t[i]] = IF i = 1 THEN HEAD ELSE t[i - 1]
  BY <1>1, <1>3, PointersAssumption DEF Represents, Queues
<1>9. ~r.fault
  BY <1>3 DEF Represents
<1> QED
  BY <1>3, <1>4, <1>5, <1>6, <1>7, <1>8, <1>9 DEF Represents, r

(* TAILQ_REMOVE takes the k-th element out of the sequence. *)
LEMMA RemoveRepresents ==
  ASSUME NEW q \in Queues, NEW n \in Nat, NEW s \in [1..n -> Envs],
         Represents(q, n, s), NEW k \in 1..n
  PROVE  /\ TAILQ_REMOVE(q, s[k]) \in Queues
         /\ Represents(TAILQ_REMOVE(q, s[k]), n - 1,
                       [i \in 1..(n - 1) |-> IF i < k THEN s[i] ELSE s[i + 1]])
<1> DEFINE e == s[k]
           r == TAILQ_REMOVE(q, e)
           t == [i \in 1..(n - 1) |-> IF i < k THEN s[i] ELSE s[i + 1]]
           m == IF q.next[e] # NULL THEN [q EXCEPT !.prev[q.next[e]] = q.prev[e]]
                                    ELSE [q EXCEPT !.last = q.prev[e]]
<1>0. n - 1 \in Nat /\ e \in Envs
  OBVIOUS
<1>1. /\ q.next[e] = IF k = n THEN NULL ELSE s[k + 1]
      /\ q.prev[e] = IF k = 1 THEN HEAD ELSE s[k - 1]
      /\ q.next[e] # NULL <=> k # n
  BY PointersAssumption DEF Represents
<1>2. q.prev[e] \in Addresses \ {NULL} /\ q.next[e] \in Pointers
  BY <1>0, <1>1, PointersAssumption DEF Queues, Addresses
<1>3. /\ m \in Queues
      /\ m.first = q.first /\ m.next = q.next /\ m.fault = q.fault
      /\ m.last = IF k = n THEN q.prev[e] ELSE q.last
      /\ m.prev = IF k = n THEN q.prev ELSE [q.prev EXCEPT ![s[k + 1]] = q.prev[e]]
  BY <1>0, <1>1, <1>2 DEF Queues, Pointers
<1> HIDE DEF m
<1>4. /\ r \in Queues
      /\ r.last = m.last /\ r.prev = m.prev /\ r.fault = q.fault
      /\ r.first = IF k = 1 THEN q.next[e] ELSE q.first
      /\ r.next = IF k = 1 THEN q.next ELSE [q.next EXCEPT ![s[k - 1]] = q.next[e]]
  <2>1. r = Store(m, q.prev[e], q.next[e])
    BY DEF TAILQ_REMOVE, m
  <2> DEFINE a == q.prev[e]
             v == q.next[e]
  <2>2. a \in Addresses /\ a # NULL /\ v \in Pointers
    BY <1>2
  <2>3. a = HEAD <=> k = 1
    BY <1>1, PointersAssumption
  <2>4. a \in Envs <=> k # 1
    BY <1>1, PointersAssumption
  <2>5. k # 1 => a = s[k - 1]
    BY <1>1
  <2> HIDE DEF a, v
  <2>6. /\ r \in Queues
        /\ r.last = m.last /\ r.prev = m.prev
        /\ r.first = IF a = HEAD THEN v ELSE m.first
        /\ r.next = IF a \in Envs THEN [m.next EXCEPT ![a] = v] ELSE m.next
        /\ r.fault = (m.fault \/ a = NULL)
    BY <1>3, <2>1, <2>2, StoreType DEF a, v
  <2>7. r.fault = q.fault
    BY <1>3, <2>2, <2>6 DEF Queues
  <2>8. r.first = IF k = 1 THEN v ELSE q.first
    BY <1>3, <2>3, <2>6
  <2>9. r.next = IF k = 1 THEN q.next ELSE [q.next EXCEPT ![s[k - 1]] = v]
    BY <1>3, <2>4, <2>5, <2>6
  <2> QED
    BY <2>6, <2>7, <2>8, <2>9 DEF v
<1> HIDE DEF r
<1>5. t \in [1..(n - 1) -> Envs]
  OBVIOUS
<1>6. \A i, j \in 1..(n - 1) : t[i] = t[j] => i = j
  BY DEF Represents
<1>7. /\ r.first = IF n - 1 = 0 THEN NULL ELSE t[1]
      /\ r.last = IF n - 1 = 0 THEN HEAD ELSE t[n - 1]
  BY <1>1, <1>3, <1>4, PointersAssumption DEF Represents
<1>8. \A i \in 1..(n - 1) : r.next[t[i]] = IF i = n - 1 THEN NULL ELSE t[i + 1]
  BY <1>1, <1>4, PointersAssumption DEF Represents, Queues
<1>9. \A i \in 1..(n - 1) : r.prev[t[i]] = IF i = 1 THEN HEAD ELSE t[i - 1]
  BY <1>1, <1>3, <1>4, PointersAssumption DEF Represents, Queues
<1>10. ~r.fault
  BY <1>4 DEF Represents
<1> QED
  BY <1>0, <1>4, <1>5, <1>6, <1>7, <1>8, <1>9, <1>10 DEF Represents, r

----------------------------------------------------------------------------
(* The same facts about the set of queued elements and the first of them. *)

(* An empty queue holds nothing. *)
LEMMA InitHolds == TAILQ_INIT \in Queues /\ Holds(TAILQ_INIT, {})
<1>1. TAILQ_INIT \in Queues
  BY DEF TAILQ_INIT, Queues, Pointers, Addresses
<1> DEFINE s == [i \in 1..0 |-> NULL]
<1>2. s \in [1..0 -> Envs] /\ {s[i] : i \in 1..0} = {}
  OBVIOUS
<1>3. Represents(TAILQ_INIT, 0, s)
  BY <1>2 DEF Represents, TAILQ_INIT
<1> QED
  BY <1>1, <1>2, <1>3 DEF Holds

(* TAILQ_FIRST is null exactly when the queue holds nothing. *)
LEMMA FirstHolds ==
  ASSUME NEW q \in Queues, NEW S, Holds(q, S)
  PROVE  /\ S \subseteq Envs /\ ~q.fault
         /\ TAILQ_FIRST(q) = NULL <=> S = {}
         /\ TAILQ_FIRST(q) # NULL => TAILQ_FIRST(q) \in S
<1>0. PICK n \in Nat : \E s \in [1..n -> Envs] :
             Represents(q, n, s) /\ {s[i] : i \in 1..n} = S
  BY DEF Holds
<1>1. PICK s \in [1..n -> Envs] :
             Represents(q, n, s) /\ {s[i] : i \in 1..n} = S
  BY <1>0
<1>2. CASE n = 0
  BY <1>1, <1>2 DEF Represents, TAILQ_FIRST
<1>3. CASE n # 0
  <2>1. 1 \in 1..n /\ q.first = s[1]
    BY <1>1, <1>3 DEF Represents
  <2>2. s[1] \in S /\ s[1] \in Envs
    BY <1>1, <2>1
  <2> QED
    BY <1>1, <2>1, <2>2, PointersAssumption DEF Represents, TAILQ_FIRST
<1> QED
  BY <1>2, <1>3

(* Inserting an element that is not queued adds it, at the right end. *)
LEMMA InsertHolds ==
  ASSUME NEW q \in Queues, NEW S, Holds(q, S), NEW e \in Envs, e \notin S
  PROVE  /\ TAILQ_INSERT_HEAD(q, e) \in Queues
         /\ Holds(TAILQ_INSERT_HEAD(q, e), S \cup {e})
         /\ TAILQ_FIRST(TAILQ_INSERT_HEAD(q, e)) = e
         /\ TAILQ_INSERT_TAIL(q, e) \in Queues
         /\ Holds(TAILQ_INSERT_TAIL(q, e), S \cup {e})
         /\ TAILQ_FIRST(TAILQ_INSERT_TAIL(q, e)) = IF S = {} THEN e ELSE TAILQ_FIRST(q)
<1>0. PICK n \in Nat : \E s \in [1..n -> Envs] :
             Represents(q, n, s) /\ {s[i] : i \in 1..n} = S
  BY DEF Holds
<1>1. PICK s \in [1..n -> Envs] :
             Represents(q, n, s) /\ {s[i] : i \in 1..n} = S
  BY <1>0
<1>2. \A i \in 1..n : s[i] # e
  BY <1>1
<1> DEFINE h == [i \in 1..(n + 1) |-> IF i = 1 THEN e ELSE s[i - 1]]
           t == [i \in 1..(n + 1) |-> IF i = n + 1 THEN e ELSE s[i]]
<1>3. /\ TAILQ_INSERT_HEAD(q, e) \in Queues
      /\ Represents(TAILQ_INSERT_HEAD(q, e), n + 1, h)
  BY <1>1, <1>2, InsertHeadRepresents
<1>4. /\ TAILQ_INSERT_TAIL(q, e) \in Queues
      /\ Represents(TAILQ_INSERT_TAIL(q, e), n + 1, t)
  BY <1>1, <1>2, InsertTailRepresents
<1>5. n + 1 \in Nat /\ n + 1 # 0 /\ h \in [1..(n + 1) -> Envs] /\ t \in [1..(n + 1) -> Envs]
  OBVIOUS
<1>6. {h[i] : i \in 1..(n + 1)} = S \cup {e}
  <2>1. ASSUME NEW x \in S PROVE \E i \in 1..(n + 1) : h[i] = x
    <3>1. PICK i \in 1..n : s[i] = x
      BY <1>1
    <3>2. i + 1 \in 1..(n + 1) /\ h[i + 1] = x
      BY <3>1
    <3> QED
      BY <3>2
  <2>2. 1 \in 1..(n + 1) /\ h[1] = e
    OBVIOUS
  <2>3. ASSUME NEW i \in 1..(n + 1) PROVE h[i] \in S \cup {e}
    <3>1. CASE i = 1
      BY <3>1
    <3>2. CASE i # 1
      <4>1. i - 1 \in 1..n /\ h[i] = s[i - 1]
        BY <3>2
      <4> QED
        BY <4>1, <1>1
    <3> QED
      BY <3>1, <3>2
  <2> HIDE DEF h
  <2> QED
    BY <2>1, <2>2, <2>3
<1>7. {t[i] : i \in 1..(n + 1)} = S \cup {e}
  <2>1. ASSUME NEW x \in S PROVE \E i \in 1..(n + 1) : t[i] = x
    <3>1. PICK i \in 1..n : s[i] = x
      BY <1>1
    <3>2. i \in 1..(n + 1) /\ t[i] = x
      BY <3>1
    <3> QED
      BY <3>2
  <2>2. n + 1 \in 1..(n + 1) /\ t[n + 1] = e
    OBVIOUS
  <2>3. ASSUME NEW i \in 1..(n + 1) PROVE t[i] \in S \cup {e}
    <3>1. CASE i = n + 1
      BY <3>1
    <3>2. CASE i # n + 1
      <4>1. i \in 1..n /\ t[i] = s[i]
        BY <3>2
      <4> QED
        BY <4>1, <1>1
    <3> QED
      BY <3>1, <3>2
  <2> HIDE DEF t
  <2> QED
    BY <2>1, <2>2, <2>3
<1>8. h[1] = e /\ t[1] = (IF n = 0 THEN e ELSE s[1])
  OBVIOUS
<1>9. S = {} <=> n = 0
  BY <1>1
<1> HIDE DEF h, t
<1>10. TAILQ_INSERT_HEAD(q, e).first = h[1] /\ TAILQ_INSERT_TAIL(q, e).first = t[1]
  BY <1>3, <1>4, <1>5 DEF Represents
<1>11. n # 0 => q.first = s[1]
  BY <1>1 DEF Represents
<1> QED
  BY <1>3, <1>4, <1>5, <1>6, <1>7, <1>8, <1>9, <1>10, <1>11 DEF Holds, TAILQ_FIRST

(* Removing an element that is queued takes it out, and leaves the first    *)
(* one alone unless it is the one removed.                                  *)
LEMMA RemoveHolds ==
  ASSUME NEW q \in Queues, NEW S, Holds(q, S), NEW e \in S
  PROVE  /\ TAILQ_REMOVE(q, e) \in Queues
         /\ Holds(TAILQ_REMOVE(q, e), S \ {e})
         /\ e # TAILQ_FIRST(q) => TAILQ_FIRST(TAILQ_REMOVE(q, e)) = TAILQ_FIRST(q)
<1>0. PICK n \in Nat : \E s \in [1..n -> Envs] :
             Represents(q, n, s) /\ {s[i] : i \in 1..n} = S
  BY DEF Holds
<1>1. PICK s \in [1..n -> Envs] :
             Represents(q, n, s) /\ {s[i] : i \in 1..n} = S
  BY <1>0
<1>2. PICK k \in 1..n : s[k] = e
  BY <1>1
<1> DEFINE t == [i \in 1..(n - 1) |-> IF i < k THEN s[i] ELSE s[i + 1]]
<1>3. TAILQ_REMOVE(q, e) \in Queues /\ Represents(TAILQ_REMOVE(q, e), n - 1, t)
  BY <1>1, <1>2, RemoveRepresents
<1>4. n - 1 \in Nat /\ t \in [1..(n - 1) -> Envs]
  OBVIOUS
<1>5. {t[i] : i \in 1..(n - 1)} = S \ {e}
  <2>1. ASSUME NEW x \in S, x # e PROVE \E i \in 1..(n - 1) : t[i] = x
    <3>1. PICK i \in 1..n : s[i] = x
      BY <1>1
    <3>2. i # k
      BY <1>2, <2>1, <3>1
    <3>3. CASE i < k
      <4>1. i \in 1..(n - 1) /\ t[i] = x
        BY <3>1, <3>3
      <4> QED
        BY <4>1
    <3>4. CASE i > k
      <4>1. i - 1 \in 1..(n - 1) /\ t[i - 1] = s[(i - 1) + 1] /\ (i - 1) + 1 = i
        BY <3>4
      <4>2. t[i - 1] = x
        BY <3>1, <4>1
      <4> QED
        BY <4>1, <4>2
    <3> QED
      BY <3>2, <3>3, <3>4
  <2>2. ASSUME NEW i \in 1..(n - 1) PROVE t[i] \in S \ {e}
    <3>1. CASE i < k
      <4>1. i \in 1..n /\ t[i] = s[i] /\ i # k
        BY <3>1
      <4> QED
        BY <4>1, <1>1, <1>2 DEF Represents
    <3>2. CASE ~(i < k)
      <4>1. i + 1 \in 1..n /\ t[i] = s[i + 1] /\ i + 1 # k
        BY <3>2
      <4> QED
        BY <4>1, <1>1, <1>2 DEF Represents
    <3> QED
      BY <3>1, <3>2
  <2> HIDE DEF t
  <2> QED
    BY <2>1, <2>2
<1>6. e # q.first => k # 1 /\ 1 \in 1..(n - 1) /\ t[1] = s[1] /\ q.first = s[1]
  <2>1. q.first = s[1]
    BY <1>1 DEF Represents
  <2> QED
    BY <1>2, <2>1
<1> HIDE DEF t
<1>7. e # q.first => TAILQ_REMOVE(q, e).first = q.first
  BY <1>3, <1>4, <1>6 DEF Represents
<1> QED
  BY <1>3, <1>4, <1>5, <1>7 DEF Holds, TAILQ_FIRST

----------------------------------------------------------------------------
(* The helpers of the scheduler *)

(* mkenvid makes an id that fits the u_int. *)
LEMMA MkenvidType ==
  ASSUME NEW i \in Nat, NEW e \in Envs
  PROVE  mkenvid(i, e) \in EnvIds
<1>1. e \in Nat /\ 2 * NENV \in Nat /\ ENVID_MOD \in Nat /\ ENVID_MOD > 0
  BY SizesAssumption
<1>2. i * (2 * NENV) \in Nat
  BY <1>1
<1>3. i * (2 * NENV) + e \in Nat
  BY <1>1, <1>2
<1> QED
  BY <1>1, <1>3, ModBound DEF mkenvid, EnvIds

(* A non-empty set of naturals has a minimum. *)
LEMMA MinExists ==
  ASSUME NEW S, S \subseteq Nat, S # {}
  PROVE  Min(S) \in S
<1>1. PICK x \in S : \A y \in S : x <= y
  BY SmallestNat
<1> QED
  BY <1>1 DEF Min

(* asid_alloc yields an ASID. *)
LEMMA AsidAllocType ==
  ASSUME NEW old \in ASIDs
  PROVE  asid_alloc(old) \in ASIDs
<1>1. CASE ASIDs \subseteq asid_bitmap
  BY <1>1 DEF asid_alloc
<1>2. CASE ~(ASIDs \subseteq asid_bitmap)
  <2>1. ASIDs \ asid_bitmap \subseteq Nat /\ ASIDs \ asid_bitmap # {}
    BY <1>2, SizesAssumption DEF ASIDs
  <2>2. Min(ASIDs \ asid_bitmap) \in ASIDs \ asid_bitmap
    BY <2>1, MinExists
  <2> QED
    BY <1>2, <2>2 DEF asid_alloc
<1> QED
  BY <1>1, <1>2

----------------------------------------------------------------------------
(* Types *)

(* Every macro keeps the pointers of a queue in their type, also on a queue *)
(* whose links are not consistent.                                          *)
LEMMA QueueOpTypes ==
  ASSUME NEW q \in Queues, NEW e \in Envs
  PROVE  /\ TAILQ_INSERT_HEAD(q, e) \in Queues
         /\ TAILQ_INSERT_TAIL(q, e) \in Queues
         /\ TAILQ_REMOVE(q, e) \in Queues
         /\ TAILQ_FIRST(q) \in Envs \cup {NULL}
<1>1. TAILQ_INSERT_HEAD(q, e) \in Queues
  BY PointersAssumption DEF TAILQ_INSERT_HEAD, Queues, Pointers, Addresses
<1>2. TAILQ_INSERT_TAIL(q, e) \in Queues
  <2> DEFINE m == [q EXCEPT !.next[e] = NULL, !.prev[e] = q.last]
  <2>1. m \in Queues /\ q.last \in Addresses /\ e \in Pointers
    BY DEF Queues, Pointers, Addresses
  <2> HIDE DEF m
  <2>2. Store(m, q.last, e) \in Queues
    BY <2>1, StoreType
  <2>3. [Store(m, q.last, e) EXCEPT !.last = e] \in Queues
    BY <2>2 DEF Queues, Addresses
  <2> QED
    BY <2>3 DEF TAILQ_INSERT_TAIL, m
<1>3. TAILQ_REMOVE(q, e) \in Queues
  <2> DEFINE m == IF q.next[e] # NULL THEN [q EXCEPT !.prev[q.next[e]] = q.prev[e]]
                                      ELSE [q EXCEPT !.last = q.prev[e]]
  <2>1. m \in Queues /\ q.prev[e] \in Addresses /\ q.next[e] \in Pointers
    BY DEF Queues, Pointers
  <2> HIDE DEF m
  <2>2. Store(m, q.prev[e], q.next[e]) \in Queues
    BY <2>1, StoreType
  <2> QED
    BY <2>2 DEF TAILQ_REMOVE, m
<1> QED
  BY <1>1, <1>2, <1>3 DEF TAILQ_FIRST, Queues, Pointers

(* schedule keeps the types of what it changes. *)
LEMMA ScheduleType ==
  ASSUME TypeOK, NEW yield \in BOOLEAN, NEW q \in Queues,
         NEW status \in [Envs -> Statuses], NEW cur \in Envs \cup {NULL},
         schedule(yield, q, status, cur)
  PROVE  /\ env_sched_list' \in Queues
         /\ curenv' \in Envs \cup {NULL}
         /\ count' \in Nat
         /\ panicked' \in BOOLEAN
<1> DEFINE switch  == cur = NULL \/ yield \/ count = 0 \/ status[cur] # ENV_RUNNABLE
           removed == IF cur # NULL THEN TAILQ_REMOVE(q, cur) ELSE q
           rotated == IF cur # NULL /\ status[cur] = ENV_RUNNABLE
                        THEN TAILQ_INSERT_TAIL(removed, cur) ELSE removed
           list    == IF switch THEN rotated ELSE q
           next    == IF switch THEN TAILQ_FIRST(list) ELSE cur
           slices  == IF switch THEN env_pri[next] ELSE count
<1>1. removed \in Queues
  BY QueueOpTypes
<1>2. rotated \in Queues
  BY <1>1, QueueOpTypes
<1>3. list \in Queues /\ next \in Envs \cup {NULL}
  <2>1. list \in Queues
    BY <1>2
  <2>2. TAILQ_FIRST(list) \in Envs \cup {NULL}
    BY <2>1 DEF TAILQ_FIRST, Queues, Pointers
  <2> QED
    BY <2>1, <2>2
<1>4. next # NULL => slices \in Nat
  BY <1>3 DEF TypeOK
<1>5. /\ env_sched_list' = list
      /\ IF list.fault \/ next = NULL
           THEN panicked' = TRUE /\ curenv' = cur /\ UNCHANGED count
           ELSE /\ count' = IF slices > 0 THEN slices - 1 ELSE slices
                /\ IF status[next] = ENV_RUNNABLE
                     THEN curenv' = next /\ UNCHANGED panicked
                     ELSE panicked' = TRUE /\ curenv' = cur
  BY DEF schedule, env_run
<1> HIDE DEF list, next, slices
<1>6. CASE list.fault \/ next = NULL
  BY <1>3, <1>5, <1>6 DEF TypeOK
<1>7. CASE ~(list.fault \/ next = NULL)
  <2>1. slices \in Nat /\ count' = IF slices > 0 THEN slices - 1 ELSE slices
    BY <1>4, <1>5, <1>7
  <2>2. count' \in Nat
    BY <2>1
  <2> QED
    BY <1>3, <1>5, <1>7, <2>2 DEF TypeOK
<1> QED
  BY <1>6, <1>7

(* What env_alloc changes keeps its type. *)
LEMMA EnvAllocType ==
  ASSUME TypeOK, NEW e \in Envs, NEW parent \in EnvIds, env_alloc(e, parent)
  PROVE  /\ env_free_list' \in Seq(Envs)
         /\ env_parent_id' \in [Envs -> EnvIds]
         /\ env_asid' \in [Envs -> ASIDs]
         /\ asid_bitmap' \in SUBSET ASIDs
         /\ mkenvid_i' \in 0..MaxAllocs
         /\ env_id' \in [Envs -> EnvIds]
<1> DEFINE asid == asid_alloc(env_asid[e])
           id   == mkenvid(mkenvid_i + 1, e)
<1>1. asid \in ASIDs
  <2>1. env_asid[e] \in ASIDs
    BY DEF TypeOK
  <2> QED
    BY <2>1, AsidAllocType
<1>2. mkenvid_i + 1 \in Nat /\ mkenvid_i + 1 \in 0..MaxAllocs
  <2>1. mkenvid_i < MaxAllocs
    BY DEF env_alloc
  <2>2. mkenvid_i \in 0..MaxAllocs /\ MaxAllocs \in Nat
    BY SizesAssumption DEF TypeOK
  <2> QED
    BY <2>1, <2>2
<1>3. id \in EnvIds
  BY <1>2, MkenvidType
<1> HIDE DEF asid, id
<1>4. /\ env_free_list # <<>>
      /\ env_free_list' = Tail(env_free_list)
      /\ env_parent_id' = [env_parent_id EXCEPT ![e] = parent]
      /\ env_asid' = [env_asid EXCEPT ![e] = asid]
      /\ asid_bitmap' = asid_bitmap \cup {asid}
      /\ mkenvid_i' = mkenvid_i + 1
      /\ env_id' = [env_id EXCEPT ![e] = id]
  BY DEF env_alloc, asid, id
<1> QED
  BY <1>1, <1>2, <1>3, <1>4 DEF TypeOK

(* What env_free changes keeps its type. *)
LEMMA EnvFreeType ==
  ASSUME TypeOK, NEW e \in Envs, env_free(e)
  PROVE  /\ env_status' \in [Envs -> Statuses]
         /\ asid_bitmap' \in SUBSET ASIDs
         /\ env_free_list' \in Seq(Envs)
  BY DEF TypeOK, env_free, Statuses

(* Every system call and interrupt keeps every variable in its type: every  *)
(* pointer of the scheduling queue stays a slot or null even when programs  *)
(* are not disciplined and its links become inconsistent.                   *)
THEOREM TypeCorrect == Spec => []TypeOK
<1> USE SizesAssumption
<1>1. Init => TypeOK
  <2> SUFFICES ASSUME Init PROVE TypeOK
    OBVIOUS
  <2>1. env_sched_list \in Queues
    BY InitHolds DEF Init
  <2>2. env_free_list \in Seq(Envs)
    BY DEF Init
  <2>3. 0 \in EnvIds /\ 0 \in ASIDs /\ 0 \in 0..MaxAllocs
    BY DEF EnvIds, ASIDs
  <2> QED
    BY <2>1, <2>2, <2>3 DEF Init, TypeOK, Statuses
<1>2. TypeOK /\ [Next]_vars => TypeOK'
  <2> SUFFICES ASSUME TypeOK, [Next]_vars PROVE TypeOK'
    OBVIOUS
  <2>0. 0 \in EnvIds
    BY DEF EnvIds
  <2>1. ASSUME NEW priority \in Priorities, env_create(priority) PROVE TypeOK'
    <3>1. PICK e \in Envs :
            /\ env_alloc(e, 0)
            /\ env_pri' = [env_pri EXCEPT ![e] = priority]
            /\ env_status' = [env_status EXCEPT ![e] = ENV_RUNNABLE]
            /\ env_sched_list' = TAILQ_INSERT_HEAD(env_sched_list, e)
      BY <2>1 DEF env_create
    <3>2. env_sched_list' \in Queues
      BY <3>1, QueueOpTypes DEF TypeOK
    <3>3. env_pri' \in [Envs -> Nat] /\ env_status' \in [Envs -> Statuses]
      BY <3>1 DEF TypeOK, Statuses
    <3>4. UNCHANGED <<env_ipc_recving, curenv, count, panicked>>
      BY <2>1 DEF env_create
    <3> QED
      BY <2>0, <3>1, <3>2, <3>3, <3>4, EnvAllocType DEF TypeOK
  <2>2. ASSUME timer_irq PROVE TypeOK'
    <3>1. /\ schedule(FALSE, env_sched_list, env_status, curenv)
          /\ UNCHANGED <<idVars, env_status, env_ipc_recving, env_free_list>>
      BY <2>2 DEF timer_irq
    <3>2. env_sched_list' \in Queues /\ curenv' \in Envs \cup {NULL} /\ count' \in Nat
            /\ panicked' \in BOOLEAN
      BY <3>1, ScheduleType DEF TypeOK
    <3> QED
      BY <3>1, <3>2 DEF TypeOK, idVars
  <2>3. ASSUME sys_yield PROVE TypeOK'
    <3>1. /\ schedule(TRUE, env_sched_list, env_status, curenv)
          /\ UNCHANGED <<idVars, env_status, env_ipc_recving, env_free_list>>
      BY <2>3 DEF sys_yield
    <3>2. env_sched_list' \in Queues /\ curenv' \in Envs \cup {NULL} /\ count' \in Nat
            /\ panicked' \in BOOLEAN
      BY <3>1, ScheduleType DEF TypeOK
    <3> QED
      BY <3>1, <3>2 DEF TypeOK, idVars
  <2>4. ASSUME sys_exofork PROVE TypeOK'
    <3>1. curenv \in Envs
      BY <2>4 DEF sys_exofork, InSyscall, TypeOK
    <3>2. PICK e \in Envs :
            /\ env_alloc(e, env_id[curenv])
            /\ env_status' = [env_status EXCEPT ![e] = ENV_NOT_RUNNABLE]
            /\ env_pri' = [env_pri EXCEPT ![e] = env_pri[curenv]]
      BY <2>4 DEF sys_exofork
    <3>3. env_id[curenv] \in EnvIds /\ env_pri[curenv] \in Nat
      BY <3>1 DEF TypeOK
    <3>4. env_pri' \in [Envs -> Nat] /\ env_status' \in [Envs -> Statuses]
      BY <3>2, <3>3 DEF TypeOK, Statuses
    <3>5. UNCHANGED <<env_ipc_recving, runVars>>
      BY <2>4 DEF sys_exofork
    <3> QED
      BY <3>2, <3>3, <3>4, <3>5, EnvAllocType DEF TypeOK, runVars
  <2>5. ASSUME sys_ipc_recv PROVE TypeOK'
    <3>1. /\ curenv \in Envs
          /\ env_ipc_recving' = [env_ipc_recving EXCEPT ![curenv] = TRUE]
          /\ env_status' = [env_status EXCEPT ![curenv] = ENV_NOT_RUNNABLE]
          /\ schedule(TRUE, env_sched_list, env_status', curenv)
          /\ UNCHANGED <<idVars, env_free_list>>
      BY <2>5 DEF sys_ipc_recv, InSyscall, TypeOK
    <3>2. env_status' \in [Envs -> Statuses] /\ env_ipc_recving' \in [Envs -> BOOLEAN]
      BY <3>1 DEF TypeOK, Statuses
    <3>3. env_sched_list' \in Queues /\ curenv' \in Envs \cup {NULL} /\ count' \in Nat
            /\ panicked' \in BOOLEAN
      BY <3>1, <3>2, ScheduleType DEF TypeOK
    <3> QED
      BY <3>1, <3>2, <3>3 DEF TypeOK, idVars
  <2>6. ASSUME NEW envid \in EnvIds, sys_env_destroy(envid) PROVE TypeOK'
    <3> DEFINE list(e) == TAILQ_REMOVE(env_sched_list, e)
    <3>1. PICK e \in Envs :
            /\ env_free(e)
            /\ \/ /\ env_sched_list' = list(e) /\ panicked' = TRUE
                  /\ UNCHANGED <<curenv, count>>
               \/ schedule(TRUE, list(e), env_status', NULL)
               \/ env_sched_list' = list(e) /\ UNCHANGED <<curenv, count, panicked>>
      BY <2>6 DEF sys_env_destroy, env_destroy
    <3>2. list(e) \in Queues
      BY QueueOpTypes DEF TypeOK
    <3> HIDE DEF list
    <3>3. /\ env_status' \in [Envs -> Statuses]
          /\ asid_bitmap' \in SUBSET ASIDs
          /\ env_free_list' \in Seq(Envs)
      BY <3>1, EnvFreeType
    <3>4. env_sched_list' \in Queues /\ curenv' \in Envs \cup {NULL} /\ count' \in Nat
            /\ panicked' \in BOOLEAN
      BY <3>1, <3>2, <3>3, ScheduleType DEF TypeOK
    <3>5. UNCHANGED <<env_id, env_parent_id, env_asid, mkenvid_i, env_pri, env_ipc_recving>>
      BY <3>1 DEF env_free
    <3> QED
      BY <3>3, <3>4, <3>5 DEF TypeOK
  <2>7. ASSUME NEW envid \in EnvIds, sys_ipc_try_send(envid) PROVE TypeOK'
    <3>1. PICK e \in Envs :
            /\ env_ipc_recving' = [env_ipc_recving EXCEPT ![e] = FALSE]
            /\ env_status' = [env_status EXCEPT ![e] = ENV_RUNNABLE]
            /\ env_sched_list' = TAILQ_INSERT_TAIL(env_sched_list, e)
            /\ panicked' = TAILQ_INSERT_TAIL(env_sched_list, e).fault
      BY <2>7 DEF sys_ipc_try_send
    <3>2. env_sched_list' \in Queues
      BY <3>1, QueueOpTypes DEF TypeOK
    <3>3. panicked' \in BOOLEAN
      BY <3>1, <3>2 DEF Queues
    <3>4. env_status' \in [Envs -> Statuses] /\ env_ipc_recving' \in [Envs -> BOOLEAN]
      BY <3>1 DEF TypeOK, Statuses
    <3>5. UNCHANGED <<idVars, env_free_list, curenv, count>>
      BY <2>7 DEF sys_ipc_try_send
    <3> QED
      BY <3>2, <3>3, <3>4, <3>5 DEF TypeOK, idVars
  <2>8. ASSUME NEW envid \in EnvIds, NEW status \in SetStatuses,
               sys_set_env_status(envid, status)
        PROVE  TypeOK'
    <3>1. PICK e \in Envs :
            /\ \/ env_sched_list' = TAILQ_REMOVE(env_sched_list, e)
               \/ env_sched_list' = TAILQ_INSERT_TAIL(env_sched_list, e)
               \/ env_sched_list' = env_sched_list
            /\ panicked' = env_sched_list'.fault
            /\ \/ env_status' = env_status
               \/ env_status' = [env_status EXCEPT ![e] = status]
      BY <2>8 DEF sys_set_env_status
    <3>2. env_sched_list' \in Queues
      BY <3>1, QueueOpTypes, SMTT(40) DEF TypeOK
    <3>3. panicked' \in BOOLEAN
      BY <3>1, <3>2 DEF Queues
    <3>4. env_status' \in [Envs -> Statuses]
      BY <3>1, ProgramsAssumption DEF TypeOK, Statuses
    <3>5. UNCHANGED <<idVars, env_ipc_recving, env_free_list, curenv, count>>
      BY <2>8 DEF sys_set_env_status
    <3> QED
      BY <3>2, <3>3, <3>4, <3>5 DEF TypeOK, idVars
  <2>9. CASE UNCHANGED vars
    BY <2>9 DEF vars, idVars, runVars, TypeOK
  <2> QED
    BY <2>1, <2>2, <2>3, <2>4, <2>5, <2>6, <2>7, <2>8, <2>9 DEF Next
<1> QED
  BY <1>1, <1>2, PTL DEF Spec

----------------------------------------------------------------------------
(* The scheduling queue *)

(* The inductive invariant behind RunnableIffListed.  The queue alone is    *)
(* not enough: env_alloc needs the free list to be exact so that a new      *)
(* env is not queued yet, sys_ipc_try_send needs receivers to sleep for     *)
(* the same reason, and schedule needs the running env to be queued before  *)
(* it removes it.                                                           *)
IInv ==
  /\ TypeOK
  /\ Holds(env_sched_list, Runnable)
  /\ RunningIsHead
  /\ ReceiversSleep
  /\ FreeListExact
  /\ HaltsOnlyWhenIdle

(* schedule, called with the envs of S queued, where S are the runnable     *)
(* ones and the caller if it has just blocked: it leaves the runnable ones  *)
(* queued, and runs the first of them unless there is none.                 *)
LEMMA ScheduleCorrect ==
  ASSUME TypeOK, ~panicked,
         NEW yield \in BOOLEAN, NEW q \in Queues, NEW S,
         NEW status \in [Envs -> Statuses], NEW cur \in Envs \cup {NULL},
         Holds(q, S),
         cur = NULL => S = RunnableIn(status),
         cur # NULL => cur \in S /\ S \ {cur} = RunnableIn(status) \ {cur},
         cur # NULL => TAILQ_FIRST(q) = cur,
         schedule(yield, q, status, cur)
  PROVE  /\ Holds(env_sched_list', RunnableIn(status))
         /\ panicked' => RunnableIn(status) = {}
         /\ ~panicked' => /\ curenv' \in Envs
                          /\ status[curenv'] = ENV_RUNNABLE
                          /\ TAILQ_FIRST(env_sched_list') = curenv'
<1> DEFINE switch  == cur = NULL \/ yield \/ count = 0 \/ status[cur] # ENV_RUNNABLE
           removed == IF cur # NULL THEN TAILQ_REMOVE(q, cur) ELSE q
           rotated == IF cur # NULL /\ status[cur] = ENV_RUNNABLE
                        THEN TAILQ_INSERT_TAIL(removed, cur) ELSE removed
           list    == IF switch THEN rotated ELSE q
           next    == IF switch THEN TAILQ_FIRST(list) ELSE cur
           slices  == IF switch THEN env_pri[next] ELSE count
<1>1. removed \in Queues /\ Holds(removed, RunnableIn(status) \ {cur})
  <2>1. CASE cur = NULL
    <3>1. S \subseteq Envs
      BY FirstHolds
    <3>2. S = RunnableIn(status) \ {cur}
      BY <2>1, <3>1, PointersAssumption
    <3> QED
      BY <2>1, <3>2
  <2>2. CASE cur # NULL
    BY <2>2, RemoveHolds
  <2> QED
    BY <2>1, <2>2
<1> HIDE DEF removed
<1>2. rotated \in Queues /\ Holds(rotated, RunnableIn(status))
  <2>1. CASE cur # NULL /\ status[cur] = ENV_RUNNABLE
    <3>1. cur \in Envs /\ cur \notin RunnableIn(status) \ {cur}
      BY <2>1
    <3>2. (RunnableIn(status) \ {cur}) \cup {cur} = RunnableIn(status)
      BY <2>1 DEF RunnableIn
    <3>3. /\ TAILQ_INSERT_TAIL(removed, cur) \in Queues
          /\ Holds(TAILQ_INSERT_TAIL(removed, cur), (RunnableIn(status) \ {cur}) \cup {cur})
      BY <1>1, <3>1, InsertHolds
    <3> QED
      BY <2>1, <3>2, <3>3
  <2>2. CASE ~(cur # NULL /\ status[cur] = ENV_RUNNABLE)
    <3>1. RunnableIn(status) \ {cur} = RunnableIn(status)
      BY <2>2, PointersAssumption DEF RunnableIn
    <3> QED
      BY <1>1, <2>2, <3>1
  <2> QED
    BY <2>1, <2>2
<1> HIDE DEF rotated
<1>3. ~switch => S = RunnableIn(status)
  BY DEF RunnableIn
<1>4. list \in Queues /\ Holds(list, RunnableIn(status))
  BY <1>2, <1>3
<1>5. ~switch => next \in RunnableIn(status) /\ TAILQ_FIRST(list) = next
  BY DEF RunnableIn
<1>6. switch => next = TAILQ_FIRST(list)
  OBVIOUS
<1>7. /\ env_sched_list' = list
      /\ IF list.fault \/ next = NULL
           THEN panicked' = TRUE /\ curenv' = cur /\ UNCHANGED count
           ELSE /\ count' = IF slices > 0 THEN slices - 1 ELSE slices
                /\ IF status[next] = ENV_RUNNABLE
                     THEN curenv' = next /\ UNCHANGED panicked
                     ELSE panicked' = TRUE /\ curenv' = cur
  BY DEF schedule, env_run, removed, rotated
<1> HIDE DEF list, next, slices, switch
<1>8. /\ ~list.fault
      /\ TAILQ_FIRST(list) = NULL <=> RunnableIn(status) = {}
      /\ TAILQ_FIRST(list) # NULL => TAILQ_FIRST(list) \in RunnableIn(status)
  BY <1>4, FirstHolds
<1>9. next = TAILQ_FIRST(list)
  BY <1>5, <1>6
<1>10. CASE next = NULL
  BY <1>4, <1>7, <1>8, <1>9, <1>10
<1>11. CASE next # NULL
  <2>1. next \in Envs /\ status[next] = ENV_RUNNABLE
    BY <1>8, <1>9, <1>11 DEF RunnableIn
  <2>2. curenv' = next /\ ~panicked'
    BY <1>7, <1>8, <1>11, <2>1
  <2> QED
    BY <1>4, <1>7, <1>9, <2>1, <2>2
<1> QED
  BY <1>10, <1>11

(* env_alloc takes a slot that is free, and the free list stays exact when  *)
(* its caller marks the slot as used.                                       *)
LEMMA AllocFreeList ==
  ASSUME TypeOK, FreeListExact, NEW e \in Envs, NEW parent, env_alloc(e, parent),
         NEW st \in {ENV_RUNNABLE, ENV_NOT_RUNNABLE},
         env_status' = [env_status EXCEPT ![e] = st]
  PROVE  env_status[e] = ENV_FREE /\ FreeListExact'
<1> DEFINE f == env_free_list
           n == Len(f)
<1>1. f \in Seq(Envs) /\ f # <<>> /\ f' = Tail(f) /\ e = f[1]
  BY DEF TypeOK, env_alloc
<1>2. n \in Nat /\ n > 0 /\ DOMAIN f = 1..n /\ \A i \in 1..n : f[i] \in Envs
  BY <1>1
<1>3. DOMAIN f' = 1..(n - 1) /\ \A i \in 1..(n - 1) : f'[i] = f[i + 1]
  BY <1>1, <1>2
<1>4. /\ \A i, j \in 1..n : f[i] = f[j] => i = j
      /\ {f[i] : i \in 1..n} = Envs \ Live
  BY <1>2 DEF FreeListExact
<1>5. e \in Envs \ Live
  BY <1>1, <1>2, <1>4
<1>6. env_status[e] = ENV_FREE
  BY <1>5 DEF Live
<1>7. Envs \ Live' = (Envs \ Live) \ {e}
  BY DEF Live, TypeOK, ENV_FREE, ENV_RUNNABLE, ENV_NOT_RUNNABLE
<1> HIDE DEF f, n
<1>8. \A i, j \in 1..(n - 1) : f'[i] = f'[j] => i = j
  BY <1>2, <1>3, <1>4
<1>9. {f'[i] : i \in 1..(n - 1)} = (Envs \ Live) \ {e}
  <2>1. ASSUME NEW i \in 1..(n - 1) PROVE f'[i] \in (Envs \ Live) \ {e}
    <3>1. i + 1 \in 1..n /\ 1 \in 1..n /\ f'[i] = f[i + 1] /\ i + 1 # 1
      BY <1>2, <1>3
    <3> QED
      BY <1>1, <1>4, <3>1
  <2>2. ASSUME NEW x \in (Envs \ Live) \ {e} PROVE \E i \in 1..(n - 1) : f'[i] = x
    <3>1. PICK i \in 1..n : f[i] = x
      BY <1>4
    <3>2. i # 1
      BY <1>1, <3>1
    <3>3. i - 1 \in 1..(n - 1) /\ (i - 1) + 1 = i
      BY <1>2, <3>2
    <3>4. f'[i - 1] = x
      BY <1>3, <3>1, <3>3
    <3> QED
      BY <3>3, <3>4
  <2> QED
    BY <2>1, <2>2
<1>10. (\A i, j \in DOMAIN f' : f'[i] = f'[j] => i = j)
        /\ {f'[i] : i \in DOMAIN f'} = Envs \ Live'
  BY <1>3, <1>7, <1>8, <1>9
<1> QED
  BY <1>6, <1>10 DEF FreeListExact, f

(* env_free returns a slot in use to the free list, which stays exact. *)
LEMMA FreeFreeList ==
  ASSUME TypeOK, FreeListExact, NEW e \in Envs, env_free(e), env_status[e] # ENV_FREE
  PROVE  FreeListExact'
<1> DEFINE f == env_free_list
           n == Len(f)
<1>1. f \in Seq(Envs) /\ f' = <<e>> \o f
  BY DEF TypeOK, env_free
<1>2. n \in Nat /\ DOMAIN f = 1..n
  BY <1>1
<1>3. DOMAIN f' = 1..(n + 1) /\ f'[1] = e /\ \A i \in 1..n : f'[i + 1] = f[i]
  BY <1>1, <1>2
<1>4. /\ \A i, j \in 1..n : f[i] = f[j] => i = j
      /\ {f[i] : i \in 1..n} = Envs \ Live
  BY <1>2 DEF FreeListExact
<1>5. e \in Live
  BY DEF Live
<1>6. Envs \ Live' = (Envs \ Live) \cup {e}
  BY DEF Live, TypeOK, env_free
<1> HIDE DEF f, n
<1>7. \A i \in 1..(n + 1) : i # 1 => i - 1 \in 1..n /\ f'[i] = f[i - 1]
  <2> SUFFICES ASSUME NEW i \in 1..(n + 1), i # 1 PROVE i - 1 \in 1..n /\ f'[i] = f[i - 1]
    OBVIOUS
  <2>1. i - 1 \in 1..n /\ (i - 1) + 1 = i
    BY <1>2
  <2> QED
    BY <1>3, <2>1
<1>8. \A i \in 1..n : f[i] # e
  BY <1>4, <1>5
<1>9. \A i, j \in 1..(n + 1) : f'[i] = f'[j] => i = j
  BY <1>2, <1>3, <1>4, <1>7, <1>8
<1>10. {f'[i] : i \in 1..(n + 1)} = (Envs \ Live) \cup {e}
  <2>1. ASSUME NEW i \in 1..(n + 1) PROVE f'[i] \in (Envs \ Live) \cup {e}
    BY <1>3, <1>4, <1>7
  <2>2. ASSUME NEW x \in (Envs \ Live) \cup {e} PROVE \E i \in 1..(n + 1) : f'[i] = x
    <3>1. CASE x = e
      <4>1. 1 \in 1..(n + 1)
        BY <1>2
      <4> QED
        BY <1>3, <3>1, <4>1
    <3>2. CASE x # e
      <4>1. PICK i \in 1..n : f[i] = x
        BY <1>4, <3>2
      <4>2. i + 1 \in 1..(n + 1) /\ f'[i + 1] = x
        BY <1>2, <1>3, <4>1
      <4> QED
        BY <4>2
    <3> QED
      BY <3>1, <3>2
  <2> QED
    BY <2>1, <2>2
<1>11. (\A i, j \in DOMAIN f' : f'[i] = f'[j] => i = j)
        /\ {f'[i] : i \in DOMAIN f'} = Envs \ Live'
  BY <1>3, <1>6, <1>9, <1>10
<1> QED
  BY <1>11 DEF FreeListExact, f

(* A step that changes neither the statuses nor the free list keeps it exact. *)
LEMMA SameFreeList ==
  ASSUME FreeListExact, UNCHANGED env_free_list,
         \A x \in Envs : env_status'[x] = ENV_FREE <=> env_status[x] = ENV_FREE
  PROVE  FreeListExact'
<1>1. Live' = Live
  BY DEF Live
<1> QED
  BY <1>1 DEF FreeListExact

(* The invariant holds after env_init. *)
LEMMA IInvInit == Init => IInv
<1> SUFFICES ASSUME Init PROVE IInv
  OBVIOUS
<1>1. TypeOK
  <2>1. env_sched_list \in Queues
    BY InitHolds DEF Init
  <2>2. env_free_list \in Seq(Envs)
    BY SizesAssumption DEF Init
  <2>3. 0 \in EnvIds /\ 0 \in ASIDs /\ 0 \in 0..MaxAllocs
    BY SizesAssumption DEF EnvIds, ASIDs
  <2> QED
    BY <2>1, <2>2, <2>3 DEF Init, TypeOK, Statuses
<1>2. Runnable = {} /\ Live = {}
  BY DEF Init, Runnable, RunnableIn, Live, ENV_FREE, ENV_RUNNABLE
<1>3. Holds(env_sched_list, Runnable)
  BY <1>2, InitHolds DEF Init
<1>4. FreeListExact
  <2>1. DOMAIN env_free_list = 1..NENV /\ \A i \in 1..NENV : env_free_list[i] = i - 1
    BY DEF Init
  <2>2. \A i, j \in 1..NENV : env_free_list[i] = env_free_list[j] => i = j
    BY <2>1, SizesAssumption
  <2>3. {env_free_list[i] : i \in 1..NENV} = Envs
    <3>1. ASSUME NEW x \in Envs PROVE \E i \in 1..NENV : env_free_list[i] = x
      <4>1. x + 1 \in 1..NENV /\ (x + 1) - 1 = x
        BY SizesAssumption
      <4> QED
        BY <2>1, <4>1
    <3>2. ASSUME NEW i \in 1..NENV PROVE env_free_list[i] \in Envs
      BY <2>1, SizesAssumption
    <3> QED
      BY <3>1, <3>2
  <2> QED
    BY <1>2, <2>1, <2>2, <2>3 DEF FreeListExact
<1> QED
  BY <1>1, <1>2, <1>3, <1>4
     DEF IInv, Init, RunningIsHead, ReceiversSleep, HaltsOnlyWhenIdle

(* Every step of disciplined programs keeps the inductive invariant. *)
LEMMA IInvStep ==
  ASSUME Disciplined, IInv, TypeOK', [Next]_vars
  PROVE  IInv'
<1> USE DEF ENV_FREE, ENV_RUNNABLE, ENV_NOT_RUNNABLE
<1>a. /\ TypeOK /\ Holds(env_sched_list, Runnable) /\ RunningIsHead
      /\ ReceiversSleep /\ FreeListExact /\ HaltsOnlyWhenIdle
  BY DEF IInv
<1>b. env_sched_list \in Queues /\ curenv \in Envs \cup {NULL}
  BY <1>a DEF TypeOK
<1>c. curenv # NULL /\ ~panicked =>
        curenv \in Envs /\ curenv \in Runnable /\ TAILQ_FIRST(env_sched_list) = curenv
  BY <1>a, <1>b DEF RunningIsHead, Runnable, RunnableIn
<1>1. ASSUME NEW priority \in Priorities, env_create(priority) PROVE IInv'
  <2>1. PICK e \in Envs :
          /\ env_alloc(e, 0)
          /\ env_status' = [env_status EXCEPT ![e] = ENV_RUNNABLE]
          /\ env_sched_list' = TAILQ_INSERT_HEAD(env_sched_list, e)
    BY <1>1 DEF env_create
  <2>2. env_status[e] = ENV_FREE /\ FreeListExact'
    BY <1>a, <2>1, AllocFreeList
  <2>3. e \notin Runnable /\ Runnable' = Runnable \cup {e}
    BY <1>a, <2>1, <2>2 DEF Runnable, RunnableIn, TypeOK
  <2>4. Holds(env_sched_list', Runnable')
    BY <1>a, <1>b, <2>1, <2>3, InsertHolds
  <2>5. curenv' = NULL /\ ~panicked' /\ env_ipc_recving' = env_ipc_recving
    BY <1>1 DEF env_create
  <2>6. ReceiversSleep'
    BY <1>a, <2>1, <2>2, <2>5 DEF ReceiversSleep, TypeOK
  <2> QED
    BY <2>2, <2>4, <2>5, <2>6 DEF IInv, RunningIsHead, HaltsOnlyWhenIdle
<1>2. ASSUME NEW yield \in BOOLEAN, ~panicked,
             schedule(yield, env_sched_list, env_status, curenv),
             UNCHANGED <<idVars, env_status, env_ipc_recving, env_free_list>>
      PROVE  IInv'
  <2>1. /\ Holds(env_sched_list', Runnable)
        /\ panicked' => Runnable = {}
        /\ ~panicked' => /\ curenv' \in Envs
                         /\ env_status[curenv'] = ENV_RUNNABLE
                         /\ TAILQ_FIRST(env_sched_list') = curenv'
    <3>1. env_status \in [Envs -> Statuses]
      BY <1>a DEF TypeOK
    <3> QED
      BY <1>a, <1>b, <1>c, <1>2, <3>1, ScheduleCorrect DEF Runnable
  <2>2. Runnable' = Runnable /\ FreeListExact' /\ ReceiversSleep'
    BY <1>a, <1>2 DEF Runnable, RunnableIn, FreeListExact, Live, ReceiversSleep
  <2> QED
    BY <1>2, <2>1, <2>2 DEF IInv, RunningIsHead, HaltsOnlyWhenIdle
<1>3. ASSUME timer_irq PROVE IInv'
  BY <1>2, <1>3 DEF timer_irq
<1>4. ASSUME sys_yield PROVE IInv'
  BY <1>2, <1>4 DEF sys_yield, InSyscall
<1>5. ASSUME sys_exofork PROVE IInv'
  <2>1. PICK e \in Envs :
          /\ env_alloc(e, env_id[curenv])
          /\ env_status' = [env_status EXCEPT ![e] = ENV_NOT_RUNNABLE]
    BY <1>5 DEF sys_exofork
  <2>2. env_status[e] = ENV_FREE /\ FreeListExact'
    BY <1>a, <2>1, AllocFreeList
  <2>3. Runnable' = Runnable
    BY <1>a, <2>1, <2>2 DEF Runnable, RunnableIn, TypeOK
  <2>4. UNCHANGED <<env_ipc_recving, env_sched_list, curenv, panicked>>
    BY <1>5 DEF sys_exofork, runVars
  <2>5. ReceiversSleep'
    BY <1>a, <2>1, <2>2, <2>4 DEF ReceiversSleep, TypeOK
  <2>6. RunningIsHead'
    BY <1>a, <1>b, <2>1, <2>2, <2>4 DEF RunningIsHead, TypeOK
  <2> QED
    BY <1>a, <2>2, <2>3, <2>4, <2>5, <2>6 DEF IInv, HaltsOnlyWhenIdle
<1>6. ASSUME sys_ipc_recv PROVE IInv'
  <2>1. /\ curenv # NULL /\ ~panicked
        /\ env_ipc_recving' = [env_ipc_recving EXCEPT ![curenv] = TRUE]
        /\ env_status' = [env_status EXCEPT ![curenv] = ENV_NOT_RUNNABLE]
        /\ schedule(TRUE, env_sched_list, env_status', curenv)
        /\ UNCHANGED <<idVars, env_free_list>>
    BY <1>6 DEF sys_ipc_recv, InSyscall
  <2>2. curenv \in Runnable /\ curenv \in Envs /\ TAILQ_FIRST(env_sched_list) = curenv
    BY <1>c, <2>1
  <2>3. env_status' \in [Envs -> Statuses]
    BY DEF TypeOK
  <2>4. Runnable \ {curenv} = RunnableIn(env_status') \ {curenv}
    BY <1>a, <2>1 DEF Runnable, RunnableIn, TypeOK
  <2>5. /\ Holds(env_sched_list', RunnableIn(env_status'))
        /\ panicked' => RunnableIn(env_status') = {}
        /\ ~panicked' => /\ curenv' \in Envs
                         /\ env_status'[curenv'] = ENV_RUNNABLE
                         /\ TAILQ_FIRST(env_sched_list') = curenv'
    BY <1>a, <1>b, <2>1, <2>2, <2>3, <2>4, ScheduleCorrect
  <2>6. Runnable' = RunnableIn(env_status')
    BY DEF Runnable, RunnableIn
  <2>7. FreeListExact'
    <3>1. \A x \in Envs : env_status'[x] = ENV_FREE <=> env_status[x] = ENV_FREE
      BY <1>a, <2>1, <2>2 DEF TypeOK, Runnable, RunnableIn
    <3> QED
      BY <1>a, <2>1, <3>1, SameFreeList
  <2>8. ReceiversSleep'
    BY <1>a, <2>1 DEF ReceiversSleep, TypeOK
  <2> QED
    BY <2>5, <2>6, <2>7, <2>8 DEF IInv, RunningIsHead, HaltsOnlyWhenIdle
<1>7. ASSUME NEW envid \in EnvIds, sys_env_destroy(envid) PROVE IInv'
  <2> DEFINE list(e) == TAILQ_REMOVE(env_sched_list, e)
  <2>1. PICK e \in Envs :
          /\ env_status[e] \in DestroyStatuses
          /\ env_free(e)
          /\ CASE list(e).fault ->
                    /\ env_sched_list' = list(e) /\ panicked' = TRUE
                    /\ UNCHANGED <<curenv, count>>
               [] ~list(e).fault /\ curenv = e ->
                    schedule(TRUE, list(e), env_status', NULL)
               [] OTHER ->
                    env_sched_list' = list(e) /\ UNCHANGED <<curenv, count, panicked>>
    BY <1>7 DEF sys_env_destroy, env_destroy
  <2>2. curenv # NULL /\ ~panicked
    BY <1>7 DEF sys_env_destroy, InSyscall
  <2>3. env_status[e] = ENV_RUNNABLE /\ e \in Runnable
    BY <2>1 DEF Disciplined, Runnable, RunnableIn
  <2>4. /\ list(e) \in Queues /\ Holds(list(e), Runnable \ {e})
        /\ e # curenv => TAILQ_FIRST(list(e)) = curenv
    BY <1>a, <1>b, <1>c, <2>2, <2>3, RemoveHolds
  <2>5. ~list(e).fault
    BY <2>4, FirstHolds
  <2> HIDE DEF list
  <2>6. env_status' = [env_status EXCEPT ![e] = ENV_FREE] /\ env_ipc_recving' = env_ipc_recving
    BY <2>1 DEF env_free
  <2>7. Runnable \ {e} = RunnableIn(env_status') /\ Runnable' = RunnableIn(env_status')
    BY <1>a, <2>6 DEF Runnable, RunnableIn, TypeOK
  <2>8. FreeListExact'
    BY <1>a, <2>1, <2>3, FreeFreeList
  <2>9. ReceiversSleep'
    BY <1>a, <2>3, <2>6 DEF ReceiversSleep, TypeOK
  <2>10. CASE curenv = e
    <3>1. schedule(TRUE, list(e), env_status', NULL)
      BY <2>1, <2>5, <2>10
    <3>2. env_status' \in [Envs -> Statuses]
      BY DEF TypeOK
    <3>3. /\ Holds(env_sched_list', RunnableIn(env_status'))
          /\ panicked' => RunnableIn(env_status') = {}
          /\ ~panicked' => /\ curenv' \in Envs
                           /\ env_status'[curenv'] = ENV_RUNNABLE
                           /\ TAILQ_FIRST(env_sched_list') = curenv'
      BY <1>a, <2>2, <2>4, <2>7, <3>1, <3>2, ScheduleCorrect
    <3> QED
      BY <2>7, <2>8, <2>9, <3>3 DEF IInv, RunningIsHead, HaltsOnlyWhenIdle
  <2>11. CASE curenv # e
    <3>1. env_sched_list' = list(e) /\ UNCHANGED <<curenv, count, panicked>>
      BY <2>1, <2>5, <2>11
    <3>2. RunningIsHead'
      BY <1>a, <1>c, <2>2, <2>4, <2>6, <2>11, <3>1 DEF RunningIsHead, TypeOK
    <3> QED
      BY <2>2, <2>4, <2>7, <2>8, <2>9, <3>1, <3>2 DEF IInv, HaltsOnlyWhenIdle
  <2> QED
    BY <2>10, <2>11
<1>8. ASSUME NEW e \in Envs, env_status[e] = ENV_NOT_RUNNABLE,
             curenv # NULL, ~panicked,
             env_status' = [env_status EXCEPT ![e] = ENV_RUNNABLE],
             env_ipc_recving' = [env_ipc_recving EXCEPT ![e] = FALSE],
             env_sched_list' = TAILQ_INSERT_TAIL(env_sched_list, e),
             panicked' = TAILQ_INSERT_TAIL(env_sched_list, e).fault,
             UNCHANGED <<env_free_list, curenv>>
      PROVE  IInv'
  <2>1. e \notin Runnable /\ Runnable' = Runnable \cup {e}
    BY <1>a, <1>8 DEF Runnable, RunnableIn, TypeOK
  <2>2. /\ env_sched_list' \in Queues /\ Holds(env_sched_list', Runnable')
        /\ TAILQ_FIRST(env_sched_list') = curenv
    <3>1. Runnable # {}
      BY <1>c, <1>8
    <3> QED
      BY <1>a, <1>b, <1>c, <1>8, <2>1, <3>1, InsertHolds
  <2>3. ~panicked'
    BY <1>8, <2>2, FirstHolds
  <2>4. FreeListExact'
    <3>1. \A x \in Envs : env_status'[x] = ENV_FREE <=> env_status[x] = ENV_FREE
      BY <1>a, <1>8 DEF TypeOK
    <3> QED
      BY <1>a, <1>8, <3>1, SameFreeList
  <2>5. ReceiversSleep'
    BY <1>a, <1>8 DEF ReceiversSleep, TypeOK
  <2>6. RunningIsHead'
    <3>1. curenv \in Envs /\ curenv \in Runnable
      BY <1>c, <1>8
    <3>2. env_status'[curenv] = ENV_RUNNABLE
      BY <1>8, <2>1, <3>1 DEF Runnable, RunnableIn
    <3> QED
      BY <1>8, <2>2, <3>2 DEF RunningIsHead
  <2> QED
    BY <2>2, <2>3, <2>4, <2>5, <2>6 DEF IInv, HaltsOnlyWhenIdle
<1>9. ASSUME NEW envid \in EnvIds, sys_ipc_try_send(envid) PROVE IInv'
  <2>1. PICK e \in Envs :
          /\ env_ipc_recving[e]
          /\ env_ipc_recving' = [env_ipc_recving EXCEPT ![e] = FALSE]
          /\ env_status' = [env_status EXCEPT ![e] = ENV_RUNNABLE]
          /\ env_sched_list' = TAILQ_INSERT_TAIL(env_sched_list, e)
          /\ panicked' = TAILQ_INSERT_TAIL(env_sched_list, e).fault
    BY <1>9 DEF sys_ipc_try_send
  <2>2. env_status[e] = ENV_NOT_RUNNABLE
    BY <1>a, <2>1 DEF ReceiversSleep
  <2>3. curenv # NULL /\ ~panicked /\ UNCHANGED <<env_free_list, curenv>>
    BY <1>9 DEF sys_ipc_try_send, InSyscall
  <2> QED
    BY <1>8, <2>1, <2>2, <2>3
<1>10. ASSUME NEW envid \in EnvIds, NEW status \in SetStatuses,
              sys_set_env_status(envid, status)
       PROVE  IInv'
  <2> DEFINE list(e) == CASE env_status[e] = ENV_RUNNABLE /\ status = ENV_NOT_RUNNABLE ->
                               TAILQ_REMOVE(env_sched_list, e)
                          [] env_status[e] = ENV_NOT_RUNNABLE /\ status = ENV_RUNNABLE ->
                               TAILQ_INSERT_TAIL(env_sched_list, e)
                          [] OTHER -> env_sched_list
  <2>1. PICK e \in Envs :
          /\ envid2env(envid, e, TRUE)
          /\ env_ipc_recving[e] => WakeReceivers
          /\ env_sched_list' = list(e)
          /\ panicked' = list(e).fault
          /\ env_status' = IF list(e).fault THEN env_status
                           ELSE [env_status EXCEPT ![e] = status]
    BY <1>10 DEF sys_set_env_status
  <2>2. status = ENV_RUNNABLE /\ ~env_ipc_recving[e]
    BY <1>a, <2>1 DEF Disciplined, TypeOK
  <2>3. curenv # NULL /\ ~panicked
        /\ UNCHANGED <<idVars, env_ipc_recving, env_free_list, curenv, count>>
    BY <1>10 DEF sys_set_env_status, InSyscall
  <2>4. env_status[e] \in {ENV_RUNNABLE, ENV_NOT_RUNNABLE}
    <3>1. env_status[e] # ENV_FREE
      BY <1>c, <2>1, <2>3 DEF envid2env, Runnable, RunnableIn
    <3> QED
      BY <1>a, <3>1 DEF TypeOK, Statuses
  <2>5. CASE env_status[e] = ENV_NOT_RUNNABLE
    <3>1. list(e) = TAILQ_INSERT_TAIL(env_sched_list, e)
      BY <2>2, <2>5
    <3>2. ~list(e).fault
      <4>1. e \notin Runnable
        BY <2>5 DEF Runnable, RunnableIn
      <4>2. /\ TAILQ_INSERT_TAIL(env_sched_list, e) \in Queues
            /\ Holds(TAILQ_INSERT_TAIL(env_sched_list, e), Runnable \cup {e})
        BY <1>a, <1>b, <4>1, InsertHolds
      <4>3. ~TAILQ_INSERT_TAIL(env_sched_list, e).fault
        BY <4>2, FirstHolds
      <4> QED
        BY <3>1, <4>3
    <3>3. env_status' = [env_status EXCEPT ![e] = ENV_RUNNABLE]
      BY <2>1, <2>2, <3>2
    <3>4. env_ipc_recving' = [env_ipc_recving EXCEPT ![e] = FALSE]
      BY <1>a, <2>2, <2>3 DEF TypeOK
    <3> HIDE DEF list
    <3> QED
      BY <1>8, <2>1, <2>3, <2>5, <3>1, <3>3, <3>4
  <2>6. CASE env_status[e] = ENV_RUNNABLE
    <3>1. list(e) = env_sched_list
      BY <2>2, <2>6
    <3> HIDE DEF list
    <3>2. ~env_sched_list.fault
      BY <1>a, <1>b, FirstHolds
    <3>3. env_status' = env_status
      BY <1>a, <2>1, <2>2, <2>6, <3>1, <3>2 DEF TypeOK
    <3>4. UNCHANGED <<env_sched_list, env_status, env_ipc_recving, env_free_list, curenv>>
      BY <2>1, <2>3, <3>1, <3>3
    <3>5. ~panicked'
      BY <2>1, <3>1, <3>2
    <3> QED
      BY <1>a, <2>3, <3>4, <3>5 DEF IInv, RunningIsHead, ReceiversSleep, FreeListExact,
         HaltsOnlyWhenIdle, Live, Runnable, RunnableIn
  <2> QED
    BY <2>4, <2>5, <2>6
<1>11. CASE UNCHANGED vars
  BY <1>a, <1>11 DEF vars, idVars, runVars, IInv, RunningIsHead, ReceiversSleep,
     FreeListExact, HaltsOnlyWhenIdle, Live, Runnable, RunnableIn
<1> QED
  BY <1>1, <1>3, <1>4, <1>5, <1>6, <1>7, <1>9, <1>10, <1>11 DEF Next

(* The inductive invariant holds in every state disciplined programs reach. *)
THEOREM Invariance == ASSUME Disciplined PROVE Spec => []IInv
<1>1. IInv /\ TypeOK' /\ [Next]_vars => IInv'
  BY IInvStep
<1> QED
  BY <1>1, IInvInit, TypeCorrect, PTL DEF Spec

(* A queue never represents more envs than there are slots. *)
LEMMA HoldsIsListed ==
  ASSUME Holds(env_sched_list, Runnable)
  PROVE  RunnableIffListed
<1>1. PICK n \in Nat : \E s \in [1..n -> Envs] :
             Represents(env_sched_list, n, s) /\ {s[i] : i \in 1..n} = Runnable
  BY DEF Holds
<1>2. PICK s \in [1..n -> Envs] :
             Represents(env_sched_list, n, s) /\ {s[i] : i \in 1..n} = Runnable
  BY <1>1
<1>3. s \in Injection(1..n, Envs)
  BY <1>2 DEF Represents, Injection, IsInjective
<1>4. IsFiniteSet(Envs) /\ Cardinality(Envs) = NENV
  <2>1. 0 \in Int /\ NENV - 1 \in Int /\ ~(0 > NENV - 1) /\ (NENV - 1) - 0 + 1 = NENV
    BY SizesAssumption
  <2>2. IsFiniteSet(0..(NENV - 1)) /\ Cardinality(0..(NENV - 1)) = NENV
    BY <2>1, FS_Interval
  <2> QED
    BY <2>2, SizesAssumption
<1>5. Cardinality(1..n) <= NENV
  BY <1>3, <1>4, FS_Injection
<1>6. Cardinality(1..n) = n
  <2>1. Cardinality(1..n) = IF 1 > n THEN 0 ELSE n - 1 + 1
    BY FS_Interval
  <2> QED
    BY <2>1
<1>7. n \in 0..NENV
  BY <1>5, <1>6, SizesAssumption
<1> QED
  BY <1>2, <1>7 DEF RunnableIffListed

(* The comment of kern/env.c on env_sched_list, for any number of envs: as  *)
(* long as programs destroy only runnable envs and set only ENV_RUNNABLE,   *)
(* and not on a receiver, the queue holds exactly the runnable envs.        *)
THEOREM QueueCorrect == ASSUME Disciplined PROVE Spec => []RunnableIffListed
<1>1. IInv => RunnableIffListed
  BY HoldsIsListed DEF IInv
<1> QED
  BY <1>1, Invariance, PTL

(* The running env is runnable and at the head of the queue. *)
THEOREM RunningCorrect == ASSUME Disciplined PROVE Spec => []RunningIsHead
<1>1. IInv => RunningIsHead
  BY DEF IInv
<1> QED
  BY <1>1, Invariance, PTL

(* No send ever wakes an env that does not sleep in sys_ipc_recv, also when *)
(* slots are reused although env_alloc does not reset env_ipc_recving.      *)
THEOREM ReceiversCorrect == ASSUME Disciplined PROVE Spec => []ReceiversSleep
<1>1. IInv => ReceiversSleep
  BY DEF IInv
<1> QED
  BY <1>1, Invariance, PTL

(* The free list is exact: no slot is handed out twice. *)
THEOREM FreeListCorrect == ASSUME Disciplined PROVE Spec => []FreeListExact
<1>1. IInv => FreeListExact
  BY DEF IInv
<1> QED
  BY <1>1, Invariance, PTL

(* The kernel panics only when no env is runnable. *)
THEOREM NeverHaltsBusy == ASSUME Disciplined PROVE Spec => []HaltsOnlyWhenIdle
<1>1. IInv => HaltsOnlyWhenIdle
  BY DEF IInv
<1> QED
  BY <1>1, Invariance, PTL


----------------------------------------------------------------------------
(* Address space identifiers *)

(* As many envs as there are ASIDs are alive at most. *)
FewLive == Cardinality(Live) <= NASID

LEMMA LiveFinite == IsFiniteSet(Live) /\ Cardinality(Live) \in Nat
<1>1. IsFiniteSet(Envs)
  BY SizesAssumption, FS_Interval
<1>2. Live \in SUBSET Envs
  BY DEF Live
<1> QED
  BY <1>1, <1>2, FS_Subset, FS_CardinalityType

(* While fewer envs are alive than there are ASIDs, asid_alloc finds one    *)
(* whose bit is not set.                                                    *)
LEMMA AsidIsFree ==
  ASSUME TypeOK, AsidsExclusive, Cardinality(Live) < NASID, NEW old
  PROVE  asid_alloc(old) \in ASIDs \ asid_bitmap
<1>1. IsFiniteSet(ASIDs) /\ Cardinality(ASIDs) = NASID
  <2>1. NASID - 1 \in Int /\ ~(0 > NASID - 1) /\ NASID - 1 - 0 + 1 = NASID
    BY SizesAssumption
  <2> QED
    BY <2>1, FS_Interval DEF ASIDs
<1>2. ~(ASIDs \subseteq asid_bitmap)
  <2> SUFFICES ASSUME ASIDs \subseteq asid_bitmap PROVE FALSE
    OBVIOUS
  <2> DEFINE f == [e \in Live |-> env_asid[e]]
  <2>1. asid_bitmap = ASIDs
    BY DEF TypeOK
  <2>2. f \in Surjection(Live, ASIDs)
    BY <2>1 DEF AsidsExclusive, Surjection
  <2>3. Cardinality(ASIDs) <= Cardinality(Live)
    BY <2>2, LiveFinite, FS_Surjection
  <2> QED
    BY <1>1, <2>3, LiveFinite, SizesAssumption
<1>3. ASIDs \ asid_bitmap \subseteq Nat /\ ASIDs \ asid_bitmap # {}
  BY <1>2, SizesAssumption DEF ASIDs
<1> QED
  BY <1>2, <1>3, MinExists DEF asid_alloc

(* env_alloc keeps the ASIDs exclusive. *)
LEMMA AllocAsids ==
  ASSUME TypeOK, FreeListExact, AsidsExclusive, NEW e \in Envs, NEW parent_id,
         NEW status \in {ENV_RUNNABLE, ENV_NOT_RUNNABLE},
         env_alloc(e, parent_id), env_status' = [env_status EXCEPT ![e] = status], FewLive'
  PROVE  AsidsExclusive'
<1> USE DEF ENV_FREE, ENV_RUNNABLE, ENV_NOT_RUNNABLE
<1>1. env_status[e] = ENV_FREE
  BY AllocFreeList
<1>2. e \notin Live /\ Live' = Live \cup {e}
  BY <1>1 DEF Live, TypeOK
<1>3. Cardinality(Live) < NASID
  <2>1. Cardinality(Live \cup {e}) = Cardinality(Live) + 1
    BY <1>2, LiveFinite, FS_AddElement
  <2> QED
    BY <1>2, <2>1, LiveFinite, SizesAssumption DEF FewLive
<1> DEFINE asid == asid_alloc(env_asid[e])
<1>4. asid \in ASIDs \ asid_bitmap
  BY <1>3, AsidIsFree
<1>5. env_asid' = [env_asid EXCEPT ![e] = asid] /\ asid_bitmap' = asid_bitmap \cup {asid}
  BY DEF env_alloc
<1> HIDE DEF asid
<1>6. env_asid'[e] = asid /\ \A x \in Live : env_asid'[x] = env_asid[x]
  BY <1>2, <1>5 DEF TypeOK, Live
<1>7. \A x \in Live : env_asid[x] # asid
  BY <1>4 DEF AsidsExclusive
<1>8. \A x, y \in Live' : env_asid'[x] = env_asid'[y] => x = y
  BY <1>2, <1>6, <1>7 DEF AsidsExclusive
<1>9. asid_bitmap' = {env_asid'[x] : x \in Live'}
  BY <1>2, <1>5, <1>6 DEF AsidsExclusive
<1> QED
  BY <1>8, <1>9 DEF AsidsExclusive

(* A step that makes no env and frees none leaves the ASIDs alone. *)
LEMMA SameAsids ==
  ASSUME TypeOK, AsidsExclusive, UNCHANGED <<env_asid, asid_bitmap>>,
         \A x \in Envs : env_status'[x] = ENV_FREE <=> env_status[x] = ENV_FREE
  PROVE  AsidsExclusive'
<1>1. Live' = Live
  BY DEF Live
<1> QED
  BY <1>1 DEF AsidsExclusive

(* Every step of disciplined programs keeps the ASIDs exclusive, as long as *)
(* it does not make more envs than there are ASIDs.                         *)
LEMMA AsidsStep ==
  ASSUME Disciplined, IInv, AsidsExclusive, FewLive', [Next]_vars
  PROVE  AsidsExclusive'
<1> USE DEF ENV_FREE, ENV_RUNNABLE, ENV_NOT_RUNNABLE
<1>a. TypeOK /\ FreeListExact /\ RunningIsHead /\ ReceiversSleep
  BY DEF IInv
<1>b. env_status \in [Envs -> Statuses] /\ curenv \in Envs \cup {NULL}
  BY <1>a DEF TypeOK
<1>1. ASSUME NEW priority \in Priorities, env_create(priority) PROVE AsidsExclusive'
  BY <1>a, <1>1, AllocAsids DEF env_create
<1>2. ASSUME UNCHANGED <<idVars, env_status>> PROVE AsidsExclusive'
  BY <1>a, <1>2, SameAsids DEF idVars
<1>3. ASSUME timer_irq \/ sys_yield PROVE AsidsExclusive'
  BY <1>2, <1>3 DEF timer_irq, sys_yield
<1>4. ASSUME sys_exofork PROVE AsidsExclusive'
  BY <1>a, <1>4, AllocAsids DEF sys_exofork
<1>5. ASSUME sys_ipc_recv PROVE AsidsExclusive'
  <2>1. /\ curenv \in Envs /\ env_status[curenv] = ENV_RUNNABLE
        /\ env_status' = [env_status EXCEPT ![curenv] = ENV_NOT_RUNNABLE]
        /\ UNCHANGED <<env_asid, asid_bitmap>>
    BY <1>a, <1>b, <1>5 DEF sys_ipc_recv, InSyscall, RunningIsHead, idVars
  <2>2. \A x \in Envs : env_status'[x] = ENV_FREE <=> env_status[x] = ENV_FREE
    BY <1>b, <2>1
  <2> QED
    BY <1>a, <2>1, <2>2, SameAsids
<1>6. ASSUME NEW envid \in EnvIds, sys_env_destroy(envid) PROVE AsidsExclusive'
  <2>1. PICK e \in Envs : env_status[e] \in DestroyStatuses /\ env_free(e)
    BY <1>6 DEF sys_env_destroy, env_destroy
  <2>2. e \in Live /\ Live' = Live \ {e}
    BY <1>b, <2>1 DEF Disciplined, env_free, Live
  <2>3. asid_bitmap' = asid_bitmap \ {env_asid[e]} /\ env_asid' = env_asid
    BY <2>1 DEF env_free
  <2> QED
    BY <2>2, <2>3 DEF AsidsExclusive
<1>7. ASSUME NEW envid \in EnvIds, sys_ipc_try_send(envid) PROVE AsidsExclusive'
  <2>1. PICK e \in Envs :
          env_ipc_recving[e] /\ env_status' = [env_status EXCEPT ![e] = ENV_RUNNABLE]
    BY <1>7 DEF sys_ipc_try_send
  <2>2. env_status[e] = ENV_NOT_RUNNABLE /\ UNCHANGED <<env_asid, asid_bitmap>>
    BY <1>a, <1>7, <2>1 DEF ReceiversSleep, sys_ipc_try_send, idVars
  <2>3. \A x \in Envs : env_status'[x] = ENV_FREE <=> env_status[x] = ENV_FREE
    BY <1>b, <2>1, <2>2
  <2> QED
    BY <1>a, <2>2, <2>3, SameAsids
<1>8. ASSUME NEW envid \in EnvIds, NEW status \in SetStatuses,
             sys_set_env_status(envid, status)
      PROVE  AsidsExclusive'
  <2>1. PICK e \in Envs :
          /\ envid2env(envid, e, TRUE)
          /\ env_status' = env_status \/ env_status' = [env_status EXCEPT ![e] = status]
    BY <1>8 DEF sys_set_env_status
  <2>2. env_status[e] # ENV_FREE /\ status # ENV_FREE
    <3>1. curenv # NULL /\ ~panicked
      BY <1>8 DEF sys_set_env_status, InSyscall
    <3>2. env_status[curenv] = ENV_RUNNABLE
      BY <1>a, <3>1 DEF RunningIsHead
    <3> QED
      BY <2>1, <3>2 DEF envid2env, Disciplined
  <2>3. \A x \in Envs : env_status'[x] = ENV_FREE <=> env_status[x] = ENV_FREE
    BY <1>b, <2>1, <2>2
  <2>4. UNCHANGED <<env_asid, asid_bitmap>>
    BY <1>8 DEF sys_set_env_status, idVars
  <2> QED
    BY <1>a, <2>3, <2>4, SameAsids
<1>9. CASE UNCHANGED vars
  BY <1>2, <1>9 DEF vars
<1> QED
  BY <1>1, <1>3, <1>4, <1>5, <1>6, <1>7, <1>8, <1>9 DEF Next

(* env_alloc ignores the error of asid_alloc, which the code meets as soon  *)
(* as more envs are alive than there are ASIDs (NENV is 1024, NASID 64).    *)
(* Until then no two envs that are alive share an ASID, and asid_bitmap has *)
(* exactly their bits, however slots and ASIDs are used again.              *)
THEOREM AsidsCorrect ==
  ASSUME Disciplined
  PROVE  Spec /\ [](Cardinality(Live) <= NASID) => []AsidsExclusive
<1>1. Init => AsidsExclusive
  BY DEF Init, AsidsExclusive, Live
<1>2. IInv /\ AsidsExclusive /\ FewLive' /\ [Next]_vars => AsidsExclusive'
  BY AsidsStep
<1> QED
  BY <1>1, <1>2, Invariance, PTL DEF Spec, FewLive

----------------------------------------------------------------------------
(* Identifiers *)

(* The counter of mkenvid leaves room in the u_int for every env made. *)
NoWrap == (MaxAllocs + 1) * (2 * NENV) <= ENVID_MOD

(* Every id is at most what the present value of mkenvid's counter gives. *)
IdsBelow == \A e \in Envs : env_id[e] <= mkenvid_i * (2 * NENV) + e

(* Multiplication is monotonic. *)
LEMMA MultMono ==
  ASSUME NEW a \in Nat, NEW b \in Nat, NEW c \in Nat, a <= b
  PROVE  a * c <= b * c
  OBVIOUS

(* While the counter does not wrap, mkenvid makes larger and larger ids. *)
LEMMA MkenvidGrows ==
  ASSUME NoWrap, NEW i \in Nat, i < MaxAllocs, NEW e \in Envs
  PROVE  /\ mkenvid(i + 1, e) = (i + 1) * (2 * NENV) + e
         /\ \A f \in Envs : i * (2 * NENV) + f < mkenvid(i + 1, e)
<1> DEFINE k == 2 * NENV
<1>1. k \in Nat /\ NENV \in Nat /\ k = NENV + NENV /\ e \in Nat /\ e < NENV /\ MaxAllocs \in Nat
      /\ ENVID_MOD \in Nat
  BY SizesAssumption
<1> HIDE DEF k
<1>2. (i + 1) * k = i * k + k /\ i * k \in Nat
  BY <1>1
<1>3. (i + 2) * k = (i + 1) * k + k /\ (i + 1) * k \in Nat
  BY <1>1
<1>4. (i + 2) * k <= (MaxAllocs + 1) * k
  <2>1. i + 2 \in Nat /\ MaxAllocs + 1 \in Nat /\ i + 2 <= MaxAllocs + 1
    BY <1>1
  <2> QED
    BY <1>1, <2>1, MultMono
<1>5. (MaxAllocs + 1) * k <= ENVID_MOD /\ (MaxAllocs + 1) * k \in Nat
  BY <1>1 DEF NoWrap, k
<1>6. (i + 1) * k + e < ENVID_MOD /\ (i + 1) * k + e \in Nat
  BY <1>1, <1>3, <1>4, <1>5
<1>7. ((i + 1) * k + e) % ENVID_MOD = (i + 1) * k + e
  BY <1>1, <1>6
<1>8. mkenvid(i + 1, e) = (i + 1) * k + e
  BY <1>7 DEF mkenvid, k
<1>9. ASSUME NEW f \in Envs PROVE i * k + f < (i + 1) * k + e
  <2>1. f \in Nat /\ f < NENV
    BY SizesAssumption
  <2> QED
    BY <1>1, <1>2, <2>1
<1> QED
  BY <1>8, <1>9 DEF k

(* One step of EnvIdsIncrease. *)
NewIdsAbove ==
  \A e \in Envs : env_id'[e] # env_id[e] => \A f \in Envs : env_id'[e] > env_id[f]

(* env_alloc gives its slot an id above all others. *)
LEMMA AllocIds ==
  ASSUME NoWrap, TypeOK, IdsBelow, NEW e \in Envs, NEW parent_id, env_alloc(e, parent_id)
  PROVE  IdsBelow' /\ NewIdsAbove
<1> DEFINE id == mkenvid(mkenvid_i + 1, e)
           k  == 2 * NENV
<1>1. mkenvid_i \in Nat /\ mkenvid_i < MaxAllocs /\ k \in Nat
  BY SizesAssumption DEF TypeOK, env_alloc
<1>2. /\ id = (mkenvid_i + 1) * (2 * NENV) + e
      /\ \A f \in Envs : mkenvid_i * (2 * NENV) + f < id
  BY <1>1, MkenvidGrows
<1>3. mkenvid_i' = mkenvid_i + 1 /\ env_id' = [env_id EXCEPT ![e] = id]
  BY DEF env_alloc
<1>4. id \in EnvIds
  BY <1>1, MkenvidType
<1> HIDE DEF id
<1>5. id \in Nat /\ \A f \in Envs : env_id[f] \in Nat /\ f \in Nat
  BY <1>4, SizesAssumption DEF TypeOK, EnvIds
<1>6. \A f \in Envs : env_id[f] < id
  <2> SUFFICES ASSUME NEW f \in Envs PROVE env_id[f] < id
    OBVIOUS
  <2>1. mkenvid_i * k \in Nat
    BY <1>1
  <2>2. env_id[f] <= mkenvid_i * k + f /\ mkenvid_i * k + f < id
    BY <1>2 DEF IdsBelow
  <2> HIDE DEF k
  <2>3. mkenvid_i * k + f \in Nat
    BY <1>5, <2>1
  <2> QED
    BY <1>5, <2>2, <2>3
<1>7. env_id'[e] = id /\ \A x \in Envs : x # e => env_id'[x] = env_id[x]
  BY <1>3 DEF TypeOK
<1>8. NewIdsAbove
  BY <1>5, <1>6, <1>7 DEF NewIdsAbove
<1>9. ASSUME NEW x \in Envs PROVE env_id'[x] <= mkenvid_i' * (2 * NENV) + x
  <2>1. CASE x = e
    <3>1. mkenvid_i' * (2 * NENV) + x = id /\ env_id'[x] = id
      BY <1>2, <1>3, <1>7, <2>1
    <3> QED
      BY <1>5, <3>1
  <2>2. CASE x # e
    <3>1. env_id'[x] = env_id[x] /\ env_id[x] <= mkenvid_i * k + x
      BY <1>7, <2>2 DEF IdsBelow
    <3> HIDE DEF k
    <3>2. mkenvid_i * k \in Nat /\ (mkenvid_i + 1) * k = mkenvid_i * k + k
      BY <1>1
    <3>3. env_id[x] <= (mkenvid_i + 1) * k + x
      BY <1>1, <1>5, <3>1, <3>2
    <3> QED
      BY <1>3, <3>1, <3>3 DEF k
  <2> QED
    BY <2>1, <2>2
<1> QED
  BY <1>8, <1>9 DEF IdsBelow

(* No other step changes an id. *)
LEMMA IdsStep ==
  ASSUME NoWrap, TypeOK, IdsBelow, [Next]_vars
  PROVE  IdsBelow' /\ [NewIdsAbove]_vars
<1>1. ASSUME UNCHANGED <<env_id, mkenvid_i>> PROVE IdsBelow' /\ NewIdsAbove
  BY <1>1 DEF IdsBelow, NewIdsAbove
<1>2. ASSUME NEW priority \in Priorities, env_create(priority) PROVE IdsBelow' /\ NewIdsAbove
  BY <1>2, AllocIds DEF env_create
<1>3. ASSUME sys_exofork PROVE IdsBelow' /\ NewIdsAbove
  BY <1>3, AllocIds DEF sys_exofork
<1>4. ASSUME timer_irq \/ sys_yield \/ sys_ipc_recv PROVE IdsBelow' /\ NewIdsAbove
  BY <1>1, <1>4 DEF timer_irq, sys_yield, sys_ipc_recv, idVars
<1>5. ASSUME NEW envid \in EnvIds, sys_env_destroy(envid) PROVE IdsBelow' /\ NewIdsAbove
  BY <1>1, <1>5 DEF sys_env_destroy, env_destroy, env_free
<1>6. ASSUME NEW envid \in EnvIds, sys_ipc_try_send(envid) PROVE IdsBelow' /\ NewIdsAbove
  BY <1>1, <1>6 DEF sys_ipc_try_send, idVars
<1>7. ASSUME NEW envid \in EnvIds, NEW status \in SetStatuses,
             sys_set_env_status(envid, status)
      PROVE  IdsBelow' /\ NewIdsAbove
  BY <1>1, <1>7 DEF sys_set_env_status, idVars
<1>8. CASE UNCHANGED vars
  BY <1>1, <1>8 DEF vars, idVars
<1> QED
  BY <1>2, <1>3, <1>4, <1>5, <1>6, <1>7, <1>8 DEF Next

(* mkenvid's promise: until its counter has wrapped around the u_int an id  *)
(* that env_alloc hands out is larger than every id any slot carries, so an *)
(* id is never given twice.  This needs nothing of the programs.            *)
THEOREM IdsIncrease == ASSUME NoWrap PROVE Spec => EnvIdsIncrease
<1>1. Init => IdsBelow
  BY SizesAssumption DEF Init, IdsBelow
<1>2. TypeOK /\ IdsBelow /\ [Next]_vars => IdsBelow' /\ [NewIdsAbove]_vars
  BY IdsStep
<1>3. [NewIdsAbove]_vars =>
        [\A e \in Envs : env_id'[e] # env_id[e] => \A f \in Envs : env_id'[e] > env_id[f]]_vars
  BY DEF NewIdsAbove
<1> QED
  BY <1>1, <1>2, <1>3, TypeCorrect, PTL DEF Spec, EnvIdsIncrease

----------------------------------------------------------------------------
(* sys_yield *)

(* What sys_yield leaves at the head of the queue is not the caller, unless *)
(* the caller is alone.                                                     *)
LEMMA YieldStep ==
  ASSUME IInv, sys_yield, ~panicked'
  PROVE  curenv' # curenv \/ Runnable = {curenv}
<1> USE DEF ENV_FREE, ENV_RUNNABLE, ENV_NOT_RUNNABLE
<1> DEFINE removed == TAILQ_REMOVE(env_sched_list, curenv)
           list    == TAILQ_INSERT_TAIL(removed, curenv)
<1>1. /\ curenv \in Envs /\ curenv \in Runnable /\ env_status[curenv] = ENV_RUNNABLE
      /\ env_sched_list \in Queues /\ Holds(env_sched_list, Runnable)
      /\ ~panicked /\ curenv # NULL
  BY DEF sys_yield, InSyscall, IInv, RunningIsHead, TypeOK, Runnable, RunnableIn
<1>2. removed \in Queues /\ Holds(removed, Runnable \ {curenv})
  BY <1>1, RemoveHolds
<1>3. schedule(TRUE, env_sched_list, env_status, curenv)
  BY DEF sys_yield
<1>4. curenv' = TAILQ_FIRST(list)
  BY <1>1, <1>3 DEF schedule, env_run
<1>5. CASE Runnable \ {curenv} = {}
  BY <1>1, <1>5
<1>6. CASE Runnable \ {curenv} # {}
  <2> HIDE DEF removed
  <2>1. TAILQ_FIRST(list) = TAILQ_FIRST(removed)
    BY <1>1, <1>2, <1>6, InsertHolds
  <2>2. TAILQ_FIRST(removed) \in Runnable \ {curenv}
    BY <1>2, <1>6, FirstHolds
  <2> QED
    BY <1>4, <2>1, <2>2
<1> QED
  BY <1>5, <1>6

(* 'If yield is set, curenv should not be scheduled again unless it is the  *)
(* only runnable env': the head of kern/sched.c, for any number of envs.    *)
THEOREM YieldCorrect == ASSUME Disciplined PROVE Spec => YieldPasses
<1>1. IInv /\ [Next]_vars =>
        [sys_yield /\ ~panicked' => curenv' # curenv \/ Runnable = {curenv}]_vars
  BY YieldStep
<1> QED
  BY <1>1, Invariance, PTL DEF Spec, YieldPasses

----------------------------------------------------------------------------
(* The refinement of RunQueue *)

(* The links of a queue spell out one sequence only. *)
LEMMA RepresentsUnique ==
  ASSUME NEW q \in Queues, NEW n \in Nat, NEW s, Represents(q, n, s),
         NEW m \in Nat, NEW t, Represents(q, m, t), n <= m
  PROVE  n = m /\ s = t
<1>0. s \in [1..n -> Envs] /\ t \in [1..m -> Envs]
  BY DEF Represents
<1>1. ASSUME NEW k \in 1..n PROVE s[k] = t[k]
  <2> DEFINE Bad == {i \in 1..n : s[i] # t[i]}
  <2>1. SUFFICES ASSUME Bad # {} PROVE FALSE
    OBVIOUS
  <2>2. PICK i \in Bad : \A j \in Bad : i <= j
    <3>1. Bad \subseteq Nat
      OBVIOUS
    <3> HIDE DEF Bad
    <3> QED
      BY <2>1, <3>1, SmallestNat
  <2>3. i \in 1..n /\ i \in 1..m /\ s[i] # t[i]
    BY <2>2
  <2>4. CASE i = 1
    <3>1. n # 0 /\ m # 0
      BY <2>3
    <3> QED
      BY <2>3, <2>4, <3>1 DEF Represents
  <2>5. CASE i # 1
    <3>1. i - 1 \in 1..n /\ i - 1 \in 1..m /\ i - 1 # n /\ i - 1 # m /\ (i - 1) + 1 = i
      BY <2>3, <2>5
    <3>2. i - 1 \notin Bad
      BY <2>2, <2>3
    <3>3. s[i - 1] = t[i - 1]
      BY <3>1, <3>2
    <3>4. q.next[s[i - 1]] = s[i] /\ q.next[t[i - 1]] = t[i]
      BY <3>1 DEF Represents
    <3> QED
      BY <2>3, <3>3, <3>4
  <2> QED
    BY <2>4, <2>5
<1>2. n = m
  <2>1. SUFFICES ASSUME n < m PROVE FALSE
    OBVIOUS
  <2>2. CASE n = 0
    <3>1. 1 \in 1..m /\ m # 0
      BY <2>1, <2>2
    <3>2. q.first = NULL /\ q.first = t[1] /\ t[1] \in Envs
      BY <1>0, <2>2, <3>1 DEF Represents
    <3> QED
      BY <3>2, PointersAssumption
  <2>3. CASE n # 0
    <3>1. n \in 1..n /\ n \in 1..m /\ n # m /\ n + 1 \in 1..m
      BY <2>1, <2>3
    <3>2. q.next[s[n]] = NULL /\ q.next[t[n]] = t[n + 1] /\ t[n + 1] \in Envs /\ s[n] = t[n]
      BY <1>0, <1>1, <3>1 DEF Represents
    <3> QED
      BY <3>2, PointersAssumption
  <2> QED
    BY <2>2, <2>3
<1> QED
  BY <1>0, <1>1, <1>2

(* RunList, for the queue q and the runnable envs R. *)
ListOf(q, R) ==
  LET n == Cardinality(R)
  IN  CHOOSE s \in [1..n -> R] : Represents(q, n, s)

(* It is the sequence the links spell out. *)
LEMMA ListOfIs ==
  ASSUME NEW q \in Queues, NEW R, Holds(q, R), NEW n \in Nat, NEW s, Represents(q, n, s)
  PROVE  ListOf(q, R) = s /\ s \in [1..n -> Envs] /\ s \in [1..n -> R]
         /\ {s[i] : i \in 1..n} = R
<1>1. PICK m \in Nat : \E t \in [1..m -> Envs] :
        Represents(q, m, t) /\ {t[i] : i \in 1..m} = R
  BY DEF Holds
<1>2. PICK t \in [1..m -> Envs] : Represents(q, m, t) /\ {t[i] : i \in 1..m} = R
  BY <1>1
<1>3. n <= m \/ m <= n
  OBVIOUS
<1>4. n = m /\ s = t
  BY <1>2, <1>3, RepresentsUnique
<1>5. s \in [1..n -> R] /\ {s[i] : i \in 1..n} = R
  BY <1>2, <1>4
<1>6. Cardinality(R) = n
  <2>1. s \in Bijection(1..n, R)
    BY <1>2, <1>4, <1>5 DEF Represents, Bijection, Injection, IsInjective, Surjection
  <2>2. IsFiniteSet(1..n) /\ Cardinality(1..n) = IF 1 > n THEN 0 ELSE n - 1 + 1
    BY FS_Interval
  <2>3. Cardinality(R) = Cardinality(1..n)
    BY <2>1, <2>2, FS_Bijection DEF ExistsBijection
  <2> QED
    BY <2>2, <2>3
<1>7. \A u \in [1..n -> R] : Represents(q, n, u) => u = s
  BY RepresentsUnique
<1> QED
  BY <1>4, <1>5, <1>6, <1>7 DEF ListOf

(* Every queue of the kernel has such a sequence. *)
LEMMA HoldsSeq ==
  ASSUME NEW q, NEW R, Holds(q, R)
  PROVE  \E n \in Nat : \E s \in [1..n -> Envs] : Represents(q, n, s)
  BY DEF Holds

(* Where the running env is in the sequence. *)
LEMMA FirstIsHead ==
  ASSUME NEW q \in Queues, NEW n \in Nat, NEW s, Represents(q, n, s),
         NEW e \in Envs, TAILQ_FIRST(q) = e
  PROVE  n # 0 /\ s[1] = e
  BY PointersAssumption DEF Represents, TAILQ_FIRST

(* schedule leaves the sequence alone, moves its head to the end, or takes  *)
(* the head out if it can not run any more; afterwards an env runs or the   *)
(* kernel has halted.                                                       *)
LEMMA ScheduleList ==
  ASSUME NEW yield \in BOOLEAN, NEW q \in Queues, NEW status, NEW cur \in Envs \cup {NULL},
         NEW n \in Nat, NEW s, Represents(q, n, s), cur # NULL => TAILQ_FIRST(q) = cur,
         panicked \in BOOLEAN, schedule(yield, q, status, cur)
  PROVE  /\ curenv' # NULL \/ panicked'
         /\ cur = NULL => env_sched_list' = q
         /\ cur # NULL =>
              \/ env_sched_list' = q /\ status[cur] = ENV_RUNNABLE
              \/ status[cur] = ENV_RUNNABLE /\ Represents(env_sched_list', n, Append(Tail(s), Head(s)))
              \/ status[cur] # ENV_RUNNABLE /\ Represents(env_sched_list', n - 1, Tail(s))
<1> DEFINE switch  == cur = NULL \/ yield \/ count = 0 \/ status[cur] # ENV_RUNNABLE
           removed == IF cur # NULL THEN TAILQ_REMOVE(q, cur) ELSE q
           rotated == IF cur # NULL /\ status[cur] = ENV_RUNNABLE
                        THEN TAILQ_INSERT_TAIL(removed, cur) ELSE removed
           list    == IF switch THEN rotated ELSE q
           next    == IF switch THEN TAILQ_FIRST(list) ELSE cur
           slices  == IF switch THEN env_pri[next] ELSE count
<1>1. /\ env_sched_list' = list
      /\ IF list.fault \/ next = NULL
           THEN panicked' = TRUE /\ curenv' = cur /\ UNCHANGED count
           ELSE /\ count' = IF slices > 0 THEN slices - 1 ELSE slices
                /\ IF status[next] = ENV_RUNNABLE
                     THEN curenv' = next /\ UNCHANGED panicked
                     ELSE panicked' = TRUE /\ curenv' = cur
  BY DEF schedule, env_run
<1>2. curenv' # NULL \/ panicked'
  <2> HIDE DEF list, next, slices
  <2> QED
    BY <1>1
<1>3. cur = NULL => env_sched_list' = q
  BY <1>1
<1>4. ASSUME cur # NULL
      PROVE  /\ removed \in Queues /\ n # 0 /\ Represents(removed, n - 1, Tail(s))
             /\ Represents(TAILQ_INSERT_TAIL(removed, cur), n, Append(Tail(s), Head(s)))
  <2> DEFINE t == [i \in 1..(n - 1) |-> IF i < 1 THEN s[i] ELSE s[i + 1]]
  <2>1. n # 0 /\ s[1] = cur /\ cur \in Envs /\ s \in [1..n -> Envs]
    <3>1. cur \in Envs /\ TAILQ_FIRST(q) = cur
      BY <1>4
    <3>2. n # 0 /\ s[1] = cur
      BY <3>1, FirstIsHead
    <3>3. s \in [1..n -> Envs]
      BY DEF Represents
    <3> QED
      BY <3>1, <3>2, <3>3
  <2>2. 1 \in 1..n
    BY <2>1
  <2>3. /\ removed \in Queues /\ Represents(removed, n - 1, t)
    BY <1>4, <2>1, <2>2, RemoveRepresents
  <2>4. /\ s \in Seq(Envs) /\ Len(s) = n /\ s # <<>> /\ Head(s) = s[1]
        /\ n - 1 \in Nat /\ Tail(s) \in Seq(Envs) /\ Len(Tail(s)) = n - 1
        /\ [i \in 1..(n - 1) |-> s[i + 1]] = Tail(s)
    BY <2>1, HeadAndTail
  <2>5. t = Tail(s)
    <3>1. t = [i \in 1..(n - 1) |-> s[i + 1]]
      OBVIOUS
    <3> HIDE DEF t
    <3> QED
      BY <2>4, <3>1
  <2> HIDE DEF t, removed
  <2>6. \A i \in 1..(n - 1) : Tail(s)[i] # cur
    <3> SUFFICES ASSUME NEW i \in 1..(n - 1) PROVE Tail(s)[i] # cur
      OBVIOUS
    <3>1. i + 1 \in 1..n /\ i + 1 # 1 /\ Tail(s)[i] = s[i + 1]
      BY <2>4
    <3> QED
      BY <2>1, <2>2, <3>1 DEF Represents
  <2> DEFINE m == n - 1
             r == Tail(s)
  <2>7. /\ m \in Nat /\ r \in [1..m -> Envs] /\ Represents(removed, m, r)
        /\ \A i \in 1..m : r[i] # cur
    BY <2>3, <2>4, <2>5, <2>6
  <2>8. m + 1 = n
    OBVIOUS
  <2> HIDE DEF m, r
  <2>9. Represents(TAILQ_INSERT_TAIL(removed, cur), m + 1,
                   [i \in 1..(m + 1) |-> IF i = m + 1 THEN cur ELSE r[i]])
    BY <2>1, <2>3, <2>7, InsertTailRepresents
  <2>10. [i \in 1..(m + 1) |-> IF i = m + 1 THEN cur ELSE r[i]] = Append(r, cur)
    BY <2>1, <2>7, PushBack
  <2>11. Represents(TAILQ_INSERT_TAIL(removed, cur), n, Append(Tail(s), Head(s)))
    BY <2>1, <2>4, <2>8, <2>9, <2>10 DEF r
  <2> QED
    BY <2>1, <2>3, <2>5, <2>11
<1>5. ASSUME cur # NULL
      PROVE  \/ env_sched_list' = q /\ status[cur] = ENV_RUNNABLE
             \/ status[cur] = ENV_RUNNABLE /\ Represents(env_sched_list', n, Append(Tail(s), Head(s)))
             \/ status[cur] # ENV_RUNNABLE /\ Represents(env_sched_list', n - 1, Tail(s))
  <2>1. env_sched_list' = IF switch
                            THEN IF status[cur] = ENV_RUNNABLE
                                   THEN TAILQ_INSERT_TAIL(removed, cur) ELSE removed
                            ELSE q
    BY <1>1, <1>5
  <2>2. ~switch => status[cur] = ENV_RUNNABLE
    OBVIOUS
  <2> HIDE DEF switch, removed
  <2> QED
    BY <1>4, <1>5, <2>1, <2>2
<1> QED
  BY <1>2, <1>3, <1>5

(* The queue before a step as a sequence: its length, its elements, and     *)
(* what RunQueue says of it.                                                *)
LEMMA MappedQueue ==
  ASSUME IInv
  PROVE  \E n \in Nat : \E s \in [1..n -> Envs] :
           /\ Represents(env_sched_list, n, s)
           /\ RunList = s /\ s \in Seq(Envs) /\ Len(s) = n /\ DOMAIN s = 1..n
           /\ \A e : Abstract!InQueue(e) <=> e \in Runnable
           /\ curenv # NULL /\ ~panicked =>
                n # 0 /\ s[1] = curenv /\ curenv \in Envs /\ Abstract!Running
<1>1. env_sched_list \in Queues /\ Holds(env_sched_list, Runnable) /\ curenv \in Envs \cup {NULL}
  BY DEF IInv, TypeOK
<1>2. PICK n \in Nat : \E s \in [1..n -> Envs] : Represents(env_sched_list, n, s)
  BY <1>1, HoldsSeq
<1>3. PICK s \in [1..n -> Envs] : Represents(env_sched_list, n, s)
  BY <1>2
<1>4. ListOf(env_sched_list, Runnable) = s /\ {s[i] : i \in 1..n} = Runnable
  BY <1>1, <1>3, ListOfIs
<1>5. RunList = s
  BY <1>4 DEF RunList, ListOf
<1>6. s \in Seq(Envs) /\ Len(s) = n /\ DOMAIN s = 1..n
  BY FunctionIsSeq
<1>7. ASSUME NEW e PROVE Abstract!InQueue(e) <=> e \in Runnable
  BY <1>4, <1>5, <1>6 DEF Abstract!InQueue
<1>8. ASSUME curenv # NULL, ~panicked
      PROVE  n # 0 /\ s[1] = curenv /\ curenv \in Envs /\ Abstract!Running
  <2>1. curenv \in Envs /\ TAILQ_FIRST(env_sched_list) = curenv
    BY <1>1, <1>8 DEF IInv, RunningIsHead
  <2>2. n # 0 /\ s[1] = curenv
    BY <1>1, <1>3, <2>1, FirstIsHead
  <2>3. s # <<>>
    BY <1>6, <2>2
  <2> QED
    BY <1>5, <1>8, <2>1, <2>2, <2>3 DEF Abstract!Running
<1> QED
  BY <1>3, <1>5, <1>6, <1>7, <1>8

(* The queue after a step: it is enough to know what its links spell out. *)
LEMMA MappedQueueNext ==
  ASSUME IInv', NEW n \in Nat, NEW s, Represents(env_sched_list', n, s)
  PROVE  RunList' = s
<1>1. env_sched_list' \in Queues /\ Holds(env_sched_list', Runnable')
  BY DEF IInv, TypeOK
<1>2. ListOf(env_sched_list', Runnable') = s
  BY <1>1, ListOfIs
<1> QED
  BY <1>2 DEF RunList, ListOf

(* A step that leaves the queue and what started means alone is a stutter   *)
(* of RunQueue.                                                             *)
LEMMA MappedStutter ==
  ASSUME IInv, IInv', env_sched_list' = env_sched_list,
         (curenv' # NULL \/ panicked') = (curenv # NULL \/ panicked)
  PROVE  UNCHANGED Abstract!vars
<1>1. PICK n \in Nat : \E s \in [1..n -> Envs] : Represents(env_sched_list, n, s) /\ RunList = s
  BY MappedQueue
<1>2. PICK s \in [1..n -> Envs] : Represents(env_sched_list, n, s) /\ RunList = s
  BY <1>1
<1>3. RunList' = s
  BY <1>2, MappedQueueNext
<1> QED
  BY <1>2, <1>3 DEF Abstract!vars

(* An env that is not runnable is put at the end of the queue: Wake. *)
LEMMA MappedWake ==
  ASSUME IInv, IInv', NEW e \in Envs, e \notin Runnable, curenv # NULL, ~panicked,
         env_sched_list' = TAILQ_INSERT_TAIL(env_sched_list, e), curenv' = curenv
  PROVE  Abstract!Wake(e)
<1>1. PICK n \in Nat : \E s \in [1..n -> Envs] :
           /\ Represents(env_sched_list, n, s)
           /\ RunList = s /\ s \in Seq(Envs) /\ Len(s) = n /\ DOMAIN s = 1..n
           /\ \A x : Abstract!InQueue(x) <=> x \in Runnable
           /\ Abstract!Running
  BY MappedQueue
<1>2. PICK s \in [1..n -> Envs] :
           /\ Represents(env_sched_list, n, s)
           /\ RunList = s /\ s \in Seq(Envs) /\ Len(s) = n /\ DOMAIN s = 1..n
           /\ \A x : Abstract!InQueue(x) <=> x \in Runnable
           /\ Abstract!Running
  BY <1>1
<1>3. \A i \in 1..n : s[i] # e
  BY <1>2 DEF Abstract!InQueue
<1>4. env_sched_list \in Queues
  BY DEF IInv, TypeOK
<1>5. Represents(env_sched_list', n + 1, [i \in 1..(n + 1) |-> IF i = n + 1 THEN e ELSE s[i]])
  BY <1>2, <1>3, <1>4, InsertTailRepresents
<1>6. [i \in 1..(n + 1) |-> IF i = n + 1 THEN e ELSE s[i]] = Append(s, e)
  BY PushBack
<1>7. RunList' = Append(RunList, e)
  <2> DEFINE m == n + 1
             t == [i \in 1..m |-> IF i = m THEN e ELSE s[i]]
  <2>1. m \in Nat /\ Represents(env_sched_list', m, t) /\ t = Append(s, e)
    BY <1>5, <1>6
  <2> HIDE DEF m, t
  <2> QED
    BY <1>2, <2>1, MappedQueueNext
<1> QED
  BY <1>2, <1>7 DEF Abstract!Wake

(* schedule, called by the running env: it goes to the end of the queue,    *)
(* leaves it, or goes on running; or nothing was running yet.               *)
LEMMA MappedSchedule ==
  ASSUME IInv, IInv', ~panicked, NEW yield \in BOOLEAN, NEW status,
         schedule(yield, env_sched_list, status, curenv)
  PROVE  [Abstract!Next]_(Abstract!vars)
<1>1. PICK n \in Nat : \E s \in [1..n -> Envs] :
           /\ Represents(env_sched_list, n, s)
           /\ RunList = s /\ s \in Seq(Envs) /\ Len(s) = n
           /\ curenv # NULL => n # 0 /\ s[1] = curenv /\ curenv \in Envs /\ Abstract!Running
  BY MappedQueue
<1>2. PICK s \in [1..n -> Envs] :
           /\ Represents(env_sched_list, n, s)
           /\ RunList = s /\ s \in Seq(Envs) /\ Len(s) = n
           /\ curenv # NULL => n # 0 /\ s[1] = curenv /\ curenv \in Envs /\ Abstract!Running
  BY <1>1
<1>3. /\ env_sched_list \in Queues /\ curenv \in Envs \cup {NULL} /\ panicked \in BOOLEAN
      /\ curenv # NULL => TAILQ_FIRST(env_sched_list) = curenv
  BY DEF IInv, TypeOK, RunningIsHead
<1>4. /\ curenv' # NULL \/ panicked'
      /\ curenv = NULL => env_sched_list' = env_sched_list
      /\ curenv # NULL =>
           \/ env_sched_list' = env_sched_list
           \/ Represents(env_sched_list', n, Append(Tail(s), Head(s)))
           \/ Represents(env_sched_list', n - 1, Tail(s))
  BY <1>2, <1>3, ScheduleList
<1>5. CASE curenv = NULL
  <2>1. RunList' = RunList
    BY <1>2, <1>4, <1>5, MappedQueueNext
  <2> QED
    BY <1>4, <1>5, <2>1 DEF Abstract!Start, Abstract!Next
<1>6. CASE curenv # NULL
  <2>1. CASE env_sched_list' = env_sched_list
    BY <1>4, <1>6, <2>1, MappedStutter
  <2>2. CASE Represents(env_sched_list', n, Append(Tail(s), Head(s)))
    <3>1. RunList' = Append(Tail(RunList), Head(RunList))
      BY <1>2, <2>2, MappedQueueNext
    <3> QED
      BY <1>2, <1>4, <1>6, <3>1 DEF Abstract!Rotate, Abstract!Next
  <2>3. CASE Represents(env_sched_list', n - 1, Tail(s))
    <3>0. n - 1 \in Nat
      BY <1>2, <1>6
    <3>1. RunList' = Tail(RunList)
      BY <1>2, <2>3, <3>0, MappedQueueNext
    <3> QED
      BY <1>2, <1>4, <1>6, <3>1 DEF Abstract!Leave, Abstract!Next
  <2> QED
    BY <1>4, <1>6, <2>1, <2>2, <2>3
<1> QED
  BY <1>5, <1>6

(* An env made while the kernel boots is put in front: Boot. *)
LEMMA MappedBoot ==
  ASSUME IInv, IInv', NEW e \in Envs, e \notin Runnable, curenv = NULL, ~panicked,
         env_sched_list' = TAILQ_INSERT_HEAD(env_sched_list, e),
         UNCHANGED <<curenv, panicked>>
  PROVE  Abstract!Boot(e)
<1>1. PICK n \in Nat : \E s \in [1..n -> Envs] :
           /\ Represents(env_sched_list, n, s)
           /\ RunList = s /\ DOMAIN s = 1..n
           /\ \A x : Abstract!InQueue(x) <=> x \in Runnable
  BY MappedQueue
<1>2. PICK s \in [1..n -> Envs] :
           /\ Represents(env_sched_list, n, s)
           /\ RunList = s /\ DOMAIN s = 1..n
           /\ \A x : Abstract!InQueue(x) <=> x \in Runnable
  BY <1>1
<1>3. \A i \in 1..n : s[i] # e
  BY <1>2 DEF Abstract!InQueue
<1>4. env_sched_list \in Queues
  BY DEF IInv, TypeOK
<1>5. Represents(env_sched_list', n + 1, [i \in 1..(n + 1) |-> IF i = 1 THEN e ELSE s[i - 1]])
  BY <1>2, <1>3, <1>4, InsertHeadRepresents
<1>6. [i \in 1..(n + 1) |-> IF i = 1 THEN e ELSE s[i - 1]] = <<e>> \o s
  BY PushFront
<1>7. RunList' = <<e>> \o RunList
  <2> DEFINE m == n + 1
             t == [i \in 1..m |-> IF i = 1 THEN e ELSE s[i - 1]]
  <2>1. m \in Nat /\ Represents(env_sched_list', m, t) /\ t = <<e>> \o s
    BY <1>5, <1>6
  <2> HIDE DEF m, t
  <2> QED
    BY <1>2, <2>1, MappedQueueNext
<1> QED
  BY <1>2, <1>7 DEF Abstract!Boot

(* A runnable env is destroyed: Leave if it is the caller, Kill otherwise. *)
LEMMA MappedDestroy ==
  ASSUME IInv, IInv', NEW e \in Envs, e \in Runnable, curenv # NULL, ~panicked,
         env_destroy(e)
  PROVE  Abstract!Next
<1> DEFINE list == TAILQ_REMOVE(env_sched_list, e)
<1>1. PICK n \in Nat : \E s \in [1..n -> Envs] :
           /\ Represents(env_sched_list, n, s)
           /\ RunList = s /\ s \in Seq(Envs) /\ Len(s) = n /\ DOMAIN s = 1..n
           /\ \A x : Abstract!InQueue(x) <=> x \in Runnable
           /\ n # 0 /\ s[1] = curenv /\ curenv \in Envs /\ Abstract!Running
  BY MappedQueue
<1>2. PICK s \in [1..n -> Envs] :
           /\ Represents(env_sched_list, n, s)
           /\ RunList = s /\ s \in Seq(Envs) /\ Len(s) = n /\ DOMAIN s = 1..n
           /\ \A x : Abstract!InQueue(x) <=> x \in Runnable
           /\ n # 0 /\ s[1] = curenv /\ curenv \in Envs /\ Abstract!Running
  BY <1>1
<1>3. PICK k \in 1..n : s[k] = e
  BY <1>2 DEF Abstract!InQueue
<1> DEFINE m == n - 1
           t == [i \in 1..m |-> IF i < k THEN s[i] ELSE s[i + 1]]
<1>4. list \in Queues /\ Represents(list, m, t)
  <2>1. env_sched_list \in Queues
    BY DEF IInv, TypeOK
  <2> QED
    BY <1>2, <1>3, <2>1, RemoveRepresents
<1>5. m \in Nat /\ t = SubSeq(s, 1, k - 1) \o SubSeq(s, k + 1, Len(s))
  <2>1. m \in Nat
    BY <1>2
  <2>2. [i \in 1..(n - 1) |-> IF i < k THEN s[i] ELSE s[i + 1]]
          = SubSeq(s, 1, k - 1) \o SubSeq(s, k + 1, Len(s))
    BY TakeOut, ZenonT(60)
  <2> QED
    BY <2>1, <2>2
<1>6. ~list.fault
  BY <1>4 DEF Represents
<1>7. k = 1 => t = Tail(s)
  <2> SUFFICES ASSUME k = 1 PROVE t = Tail(s)
    OBVIOUS
  <2>1. [i \in 1..(n - 1) |-> s[i + 1]] = Tail(s)
    BY <1>2, HeadAndTail
  <2>2. t = [i \in 1..(n - 1) |-> s[i + 1]]
    OBVIOUS
  <2> HIDE DEF t
  <2> QED
    BY <2>1, <2>2
<1> HIDE DEF list, m, t
<1>8. CASE curenv = e
  <2>1. schedule(TRUE, list, env_status', NULL)
    BY <1>6, <1>8 DEF env_destroy, list
  <2>2. panicked \in BOOLEAN
    BY DEF IInv, TypeOK
  <2>3. (curenv' # NULL \/ panicked') /\ env_sched_list' = list
    BY <1>4, <1>5, <2>1, <2>2, ScheduleList
  <2>4. k = 1
    BY <1>2, <1>3, <1>8 DEF Represents
  <2>5. RunList' = Tail(RunList)
    BY <1>2, <1>4, <1>5, <1>7, <2>3, <2>4, MappedQueueNext
  <2>6. Abstract!Leave
    BY <1>2, <2>3, <2>5 DEF Abstract!Leave
  <2> QED
    BY <2>6 DEF Abstract!Next
<1>9. CASE curenv # e
  <2>1. env_sched_list' = list /\ UNCHANGED <<curenv, panicked>>
    BY <1>6, <1>9 DEF env_destroy, list
  <2>2. k \in 2..Len(s) /\ k \in DOMAIN s
    BY <1>2, <1>3, <1>9
  <2>3. RunList' = SubSeq(s, 1, k - 1) \o SubSeq(s, k + 1, Len(s))
    BY <1>4, <1>5, <2>1, MappedQueueNext
  <2>4. Abstract!Kill(k)
    BY <1>2, <2>1, <2>2, <2>3 DEF Abstract!Kill, Abstract!RemoveAt
  <2> QED
    BY <1>2, <2>2, <2>4 DEF Abstract!Next
<1> QED
  BY <1>8, <1>9

(* Every system call and every timer interrupt is a step of RunQueue or     *)
(* leaves its queue alone.                                                  *)
LEMMA MappedStep ==
  ASSUME Disciplined, IInv, IInv', [Next]_vars
  PROVE  [Abstract!Next]_(Abstract!vars)
<1> USE DEF ENV_FREE, ENV_RUNNABLE, ENV_NOT_RUNNABLE
<1>a. /\ TypeOK /\ ReceiversSleep /\ FreeListExact /\ RunningIsHead
      /\ env_sched_list \in Queues /\ Holds(env_sched_list, Runnable)
  BY DEF IInv, TypeOK
<1>1. ASSUME NEW priority \in Priorities, env_create(priority)
      PROVE  Abstract!Next
  <2>1. PICK e \in Envs :
          /\ env_alloc(e, 0)
          /\ env_status' = [env_status EXCEPT ![e] = ENV_RUNNABLE]
          /\ env_sched_list' = TAILQ_INSERT_HEAD(env_sched_list, e)
    BY <1>1 DEF env_create
  <2>2. e \notin Runnable
    BY <1>a, <2>1, AllocFreeList DEF Runnable, RunnableIn
  <2>3. curenv = NULL /\ ~panicked /\ UNCHANGED <<curenv, panicked>>
    BY <1>1 DEF env_create
  <2>4. Abstract!Boot(e)
    BY <2>1, <2>2, <2>3, MappedBoot
  <2> QED
    BY <2>4 DEF Abstract!Next
<1>2. ASSUME timer_irq \/ sys_yield \/ sys_ipc_recv
      PROVE  [Abstract!Next]_(Abstract!vars)
  <2>1. PICK yield \in BOOLEAN :
          ~panicked /\ (\/ schedule(yield, env_sched_list, env_status, curenv)
                        \/ schedule(yield, env_sched_list, env_status', curenv))
    BY <1>2 DEF timer_irq, sys_yield, sys_ipc_recv, InSyscall
  <2> QED
    BY <2>1, MappedSchedule
<1>3. ASSUME sys_exofork PROVE UNCHANGED Abstract!vars
  BY <1>3, MappedStutter DEF sys_exofork, runVars
<1>4. ASSUME NEW envid \in EnvIds, sys_env_destroy(envid) PROVE Abstract!Next
  <2>1. PICK e \in Envs : env_status[e] \in DestroyStatuses /\ env_destroy(e)
    BY <1>4 DEF sys_env_destroy
  <2>2. curenv # NULL /\ ~panicked
    BY <1>4 DEF sys_env_destroy, InSyscall
  <2>3. e \in Runnable
    BY <2>1 DEF Disciplined, Runnable, RunnableIn
  <2> QED
    BY <2>1, <2>2, <2>3, MappedDestroy
<1>5. ASSUME NEW envid \in EnvIds, sys_ipc_try_send(envid) PROVE Abstract!Next
  <2>1. PICK e \in Envs :
          env_ipc_recving[e] /\ env_sched_list' = TAILQ_INSERT_TAIL(env_sched_list, e)
    BY <1>5 DEF sys_ipc_try_send
  <2>2. curenv # NULL /\ ~panicked /\ curenv' = curenv
    BY <1>5 DEF sys_ipc_try_send, InSyscall
  <2>3. e \notin Runnable
    BY <1>a, <2>1 DEF ReceiversSleep, Runnable, RunnableIn
  <2>4. Abstract!Wake(e)
    BY <2>1, <2>2, <2>3, MappedWake
  <2> QED
    BY <2>4 DEF Abstract!Next
<1>6. ASSUME NEW envid \in EnvIds, NEW status \in SetStatuses,
             sys_set_env_status(envid, status)
      PROVE  [Abstract!Next]_(Abstract!vars)
  <2> DEFINE list(e) == CASE env_status[e] = ENV_RUNNABLE /\ status = ENV_NOT_RUNNABLE ->
                               TAILQ_REMOVE(env_sched_list, e)
                          [] env_status[e] = ENV_NOT_RUNNABLE /\ status = ENV_RUNNABLE ->
                               TAILQ_INSERT_TAIL(env_sched_list, e)
                          [] OTHER -> env_sched_list
  <2>1. PICK e \in Envs : env_sched_list' = list(e)
    BY <1>6 DEF sys_set_env_status
  <2>2. curenv # NULL /\ ~panicked /\ curenv' = curenv
    BY <1>6 DEF sys_set_env_status, InSyscall
  <2>3. status = ENV_RUNNABLE
    BY DEF Disciplined
  <2>4. CASE env_status[e] = ENV_NOT_RUNNABLE
    <3>1. env_sched_list' = TAILQ_INSERT_TAIL(env_sched_list, e)
      BY <2>1, <2>3, <2>4
    <3>2. e \notin Runnable
      BY <2>4 DEF Runnable, RunnableIn
    <3>3. Abstract!Wake(e)
      BY <2>2, <3>1, <3>2, MappedWake
    <3> QED
      BY <3>3 DEF Abstract!Next
  <2>5. CASE env_status[e] # ENV_NOT_RUNNABLE
    <3>1. env_sched_list' = env_sched_list
      BY <2>1, <2>3, <2>5
    <3> QED
      BY <2>2, <3>1, MappedStutter
  <2> QED
    BY <2>4, <2>5
<1>7. CASE UNCHANGED vars
  BY <1>7, MappedStutter DEF vars, runVars
<1> QED
  BY <1>1, <1>2, <1>3, <1>4, <1>5, <1>6, <1>7 DEF Next

(* Nothing is queued and nothing runs when the kernel starts. *)
LEMMA MappedInit == Init => Abstract!Init
<1> SUFFICES ASSUME Init PROVE Abstract!Init
  OBVIOUS
<1>1. IInv
  BY IInvInit
<1>2. PICK n \in Nat : \E s \in [1..n -> Envs] : Represents(env_sched_list, n, s) /\ RunList = s
  BY <1>1, MappedQueue
<1>3. PICK s \in [1..n -> Envs] : Represents(env_sched_list, n, s) /\ RunList = s
  BY <1>2
<1>4. n = 0
  <2>1. env_sched_list.first = NULL
    BY DEF Init, TAILQ_INIT
  <2> QED
    BY <1>3, <2>1, PointersAssumption DEF Represents
<1>5. RunList = <<>>
  BY <1>3, <1>4
<1> QED
  BY <1>5 DEF Init, Abstract!Init

(* The kernel's linked queue, its statuses and curenv implement the         *)
(* first-come, first-served queue of RunQueue, as long as programs are      *)
(* disciplined: whatever the interleaving of system calls and interrupts,   *)
(* the envs run in the order in which they became runnable.  The fairness   *)
(* RunQueue also promises rests on the clock and is checked by TLC.         *)
THEOREM ImplementsRunQueue ==
  ASSUME Disciplined
  PROVE  Spec => Abstract!Init /\ [][Abstract!Next]_(Abstract!vars)
<1>1. Init => Abstract!Init
  BY MappedInit
<1>2. IInv /\ IInv' /\ [Next]_vars => [Abstract!Next]_(Abstract!vars)
  BY MappedStep
<1>3. Spec => []IInv
  BY Invariance
<1> QED
  BY <1>1, <1>2, <1>3, PTL DEF Spec
=============================================================================
