---------------------------- MODULE SignalProofs ----------------------------
(* Proofs about signals, for any number of envs, signals and signo_nodes. *)
EXTENDS Signal, CommonLemmas

----------------------------------------------------------------------------
(* The walk of _do_signal along the pending signals *)

(* The walk stops at a node of the list, or at its end. *)
LEMMA StopType ==
  ASSUME NEW p \in Seq(Signals), NEW m, NEW h
  PROVE  /\ Stop(p, m, h) \in 0..Len(p)
         /\ Ready(p, m, h) # {} => Stop(p, m, h) \in Ready(p, m, h)
<1>1. CASE Ready(p, m, h) = {}
  BY <1>1 DEF Stop
<1>2. CASE Ready(p, m, h) # {}
  <2>1. Ready(p, m, h) \subseteq DOMAIN p
    BY DEF Ready
  <2>2. DOMAIN p = 1..Len(p) /\ Len(p) \in Nat
    OBVIOUS
  <2> HIDE DEF Ready
  <2>3. PICK x \in Ready(p, m, h) : \A y \in Ready(p, m, h) : x <= y
    BY <1>2, <2>1, <2>2, SmallestNat
  <2>4. Min(Ready(p, m, h)) \in Ready(p, m, h)
    BY <2>3 DEF Min
  <2> QED
    BY <1>2, <2>1, <2>2, <2>4 DEF Stop
<1> QED
  BY <1>1, <1>2

(* The nodes that the walk leaves in place: the definition of Skipped, with *)
(* the walk as a function of the number of nodes it has passed.             *)
WalkStep(p, m, g, k) ==
  IF k = 0 THEN <<>> ELSE IF p[k] \in m THEN Append(g[k - 1], p[k]) ELSE g[k - 1]
IsWalk(p, m, n, g) ==
  /\ g \in [0..n -> Seq(Signals)]
  /\ \A k \in 0..n : g[k] = WalkStep(p, m, g, k)

(* The walk is defined for every number of nodes. *)
LEMMA WalkExists ==
  ASSUME NEW p \in Seq(Signals), NEW m
  PROVE  \E g : IsWalk(p, m, Len(p), g)
<1> DEFINE Bad == {n \in 0..Len(p) : \A g : ~IsWalk(p, m, n, g)}
<1>1. SUFFICES ASSUME Bad # {} PROVE FALSE
  <2>1. Len(p) \in 0..Len(p)
    OBVIOUS
  <2> QED
    BY <2>1
<1>2. PICK n \in Bad : \A y \in Bad : n <= y
  <2>1. Bad \subseteq Nat
    OBVIOUS
  <2> HIDE DEF Bad
  <2> QED
    BY <1>1, <2>1, SmallestNat
<1>3. CASE n = 0
  <2> DEFINE g == [k \in 0..0 |-> <<>>]
  <2>1. IsWalk(p, m, 0, g)
    BY DEF IsWalk, WalkStep
  <2> QED
    BY <1>2, <1>3, <2>1
<1>4. CASE n # 0
  <2>1. n \in 1..Len(p) /\ n - 1 \in 0..Len(p) /\ n - 1 < n
    BY <1>4
  <2>2. PICK g : IsWalk(p, m, n - 1, g)
    BY <1>2, <2>1
  <2> DEFINE f == [k \in 0..n |-> IF k = n THEN WalkStep(p, m, g, n) ELSE g[k]]
  <2>3. p[n] \in Signals /\ g[n - 1] \in Seq(Signals)
    BY <2>1, <2>2 DEF IsWalk
  <2>4. WalkStep(p, m, g, n) \in Seq(Signals)
    BY <1>4, <2>3 DEF WalkStep
  <2>5. f \in [0..n -> Seq(Signals)]
    BY <2>1, <2>2, <2>4 DEF IsWalk
  <2>6. ASSUME NEW k \in 0..n PROVE f[k] = WalkStep(p, m, f, k)
    <3>1. CASE k = 0
      BY <1>4, <2>1, <2>2, <3>1 DEF IsWalk, WalkStep
    <3>2. CASE k # 0
      <4>1. k - 1 \in 0..n /\ k - 1 # n /\ k - 1 \in 0..(n - 1)
        BY <2>1, <3>2
      <4>2. f[k - 1] = g[k - 1]
        BY <4>1
      <4>3. WalkStep(p, m, f, k) = WalkStep(p, m, g, k)
        BY <4>2 DEF WalkStep
      <4>4. k # n => k \in 0..(n - 1) /\ g[k] = WalkStep(p, m, g, k)
        BY <2>1, <2>2 DEF IsWalk
      <4> QED
        BY <4>3, <4>4
    <3> QED
      BY <3>1, <3>2
  <2>7. IsWalk(p, m, n, f)
    BY <2>5, <2>6 DEF IsWalk
  <2> QED
    BY <1>2, <2>7
<1> QED
  BY <1>3, <1>4

(* What the walk leaves in place is a list of signals, no longer than the   *)
(* part it has passed; it is empty if the only node is not blocked.         *)
LEMMA SkippedType ==
  ASSUME NEW p \in Seq(Signals), NEW m, NEW h
  PROVE  /\ Skipped(p, m, h) \in Seq(Signals)
         /\ Len(Skipped(p, m, h)) <= Stop(p, m, h)
         /\ Len(p) = 1 /\ p[1] \notin m => Skipped(p, m, h) = <<>>
<1> DEFINE F == CHOOSE g : g = [k \in 0..Len(p) |->
                  IF k = 0 THEN <<>>
                  ELSE IF p[k] \in m THEN Append(g[k - 1], p[k]) ELSE g[k - 1]]
<1>1. PICK g : IsWalk(p, m, Len(p), g)
  BY WalkExists
<1>2. g = [k \in 0..Len(p) |->
             IF k = 0 THEN <<>>
             ELSE IF p[k] \in m THEN Append(g[k - 1], p[k]) ELSE g[k - 1]]
  BY <1>1 DEF IsWalk, WalkStep
<1>3. F = [k \in 0..Len(p) |->
             IF k = 0 THEN <<>>
             ELSE IF p[k] \in m THEN Append(F[k - 1], p[k]) ELSE F[k - 1]]
  BY <1>2
<1>4. Skipped(p, m, h) = F[Stop(p, m, h)]
  BY DEF Skipped
<1> HIDE DEF F
<1>5. ASSUME NEW k \in 0..Len(p)
      PROVE  F[k] \in Seq(Signals) /\ Len(F[k]) <= k
  <2> DEFINE Bad == {i \in 0..Len(p) : ~(F[i] \in Seq(Signals) /\ Len(F[i]) <= i)}
  <2>1. SUFFICES ASSUME Bad # {} PROVE FALSE
    OBVIOUS
  <2>2. PICK n \in Bad : \A y \in Bad : n <= y
    <3>1. Bad \subseteq Nat
      OBVIOUS
    <3> HIDE DEF Bad
    <3> QED
      BY <2>1, <3>1, SmallestNat
  <2>3. n # 0
    BY <1>3, <2>2
  <2>4. n \in 1..Len(p) /\ n - 1 \in 0..Len(p) /\ n - 1 \notin Bad
    BY <2>2, <2>3
  <2>5. F[n - 1] \in Seq(Signals) /\ Len(F[n - 1]) <= n - 1 /\ p[n] \in Signals
    BY <2>4
  <2>6. F[n] = IF p[n] \in m THEN Append(F[n - 1], p[n]) ELSE F[n - 1]
    BY <1>3, <2>3, <2>4
  <2>7. F[n] \in Seq(Signals) /\ Len(F[n]) <= n
    BY <2>4, <2>5, <2>6
  <2> QED
    BY <2>2, <2>7
<1>6. Stop(p, m, h) \in 0..Len(p)
  BY StopType
<1>7. Len(p) = 1 /\ p[1] \notin m => F[0] = <<>> /\ F[1] = <<>>
  BY <1>3
<1>8. Len(p) = 1 => Stop(p, m, h) \in {0, 1}
  BY <1>6
<1>9. F[Stop(p, m, h)] \in Seq(Signals) /\ Len(F[Stop(p, m, h)]) <= Stop(p, m, h)
  BY <1>5, <1>6
<1> QED
  BY <1>4, <1>7, <1>8, <1>9

(* _do_signal frees no more nodes than it takes out of the list, and frees  *)
(* all it takes out if the list has one node.                               *)
LEMMA WalkAccounted ==
  ASSUME NEW p \in Seq(Signals), NEW m, NEW h
  PROVE  /\ Left(p, m, h) \in Seq(Signals) /\ Freed(p, m, h) \in Nat
         /\ Freed(p, m, h) + Len(Left(p, m, h)) <= Len(p)
         /\ Len(p) <= 1 => Freed(p, m, h) + Len(Left(p, m, h)) = Len(p)
<1> DEFINE k == Stop(p, m, h)
           l == Skipped(p, m, h)
           r == SubSeq(p, k + 1, Len(p))
<1>1. k \in 0..Len(p) /\ Len(p) \in Nat
  BY StopType
<1>2. /\ l \in Seq(Signals) /\ Len(l) \in Nat /\ Len(l) <= k
      /\ Len(p) = 1 /\ p[1] \notin m => l = <<>>
  BY SkippedType
<1>3. Freed(p, m, h) = k - Len(l)
  BY DEF Freed
<1>4. Left(p, m, h) = IF p # <<>> /\ p[1] \notin m THEN <<>> ELSE l \o r
  BY DEF Left
<1>5. Len(p) = 1 /\ p[1] \notin m => k = 1
  <2> SUFFICES ASSUME Len(p) = 1, p[1] \notin m PROVE k = 1
    OBVIOUS
  <2>1. CASE Ready(p, m, h) = {}
    BY <2>1 DEF Stop
  <2>2. CASE Ready(p, m, h) # {}
    <3>1. k \in Ready(p, m, h)
      BY <2>2, StopType
    <3> QED
      BY <1>1, <3>1 DEF Ready
  <2> QED
    BY <2>1, <2>2
<1> HIDE DEF k, l
<1>6. r \in Seq(Signals) /\ Len(r) = Len(p) - k
  BY <1>1
<1> HIDE DEF r
<1>7. l \o r \in Seq(Signals) /\ Len(l \o r) = Len(l) + Len(p) - k
  BY <1>1, <1>2, <1>6
<1>8. CASE p # <<>> /\ p[1] \notin m
  <2>0. Len(p) \in Nat /\ Len(p) # 0
    BY <1>8
  <2>1. Len(<<>>) = 0 /\ <<>> \in Seq(Signals)
    OBVIOUS
  <2>2. Left(p, m, h) = <<>>
    BY <1>4, <1>8
  <2>3. Freed(p, m, h) \in Nat /\ Freed(p, m, h) <= Len(p)
    BY <1>1, <1>2, <1>3
  <2>4. Len(p) <= 1 => Freed(p, m, h) = 1 /\ Len(p) = 1
    <3> SUFFICES ASSUME Len(p) <= 1 PROVE Freed(p, m, h) = 1 /\ Len(p) = 1
      OBVIOUS
    <3>1. Len(p) = 1 /\ p[1] \notin m
      <4> DEFINE n == Len(p)
      <4>0. n \in Nat /\ n # 0 /\ n <= 1
        BY <2>0
      <4> HIDE DEF n
      <4>1. n = 1
        BY <4>0
      <4>2. p[1] \notin m
        BY <1>8
      <4> QED
        BY <4>1, <4>2 DEF n
    <3>2. k = 1 /\ l = <<>>
      BY <1>2, <1>5, <3>1
    <3>3. k = 1 /\ Len(l) = 0
      BY <2>1, <3>2
    <3> QED
      BY <1>3, <3>1, <3>3
  <2> QED
    BY <1>1, <2>1, <2>2, <2>3, <2>4
<1>9. CASE ~(p # <<>> /\ p[1] \notin m)
  BY <1>1, <1>2, <1>3, <1>4, <1>7, <1>9
<1> QED
  BY <1>8, <1>9

----------------------------------------------------------------------------
(* The nodes that are in use *)

Lists == [Envs -> Seq(Signals)]

(* There are finitely many. *)
LEMMA NodesFinite ==
  ASSUME NEW p \in Lists
  PROVE  IsFiniteSet(Nodes(p)) /\ Cardinality(Nodes(p)) \in Nat
<1> DEFINE f == [e \in Envs |-> {e} \X DOMAIN p[e]]
<1>1. ASSUME NEW e \in Envs PROVE IsFiniteSet(f[e])
  <2>1. IsFiniteSet({e})
    BY FS_Singleton
  <2>2. DOMAIN p[e] = 1..Len(p[e]) /\ Len(p[e]) \in Nat
    BY DEF Lists
  <2>3. IsFiniteSet(DOMAIN p[e])
    BY <2>2, FS_Interval
  <2> QED
    BY <2>1, <2>3, FS_Product
<1>2. DOMAIN f = Envs /\ IsFiniteSet(Envs)
  BY SignalAssumption
<1>3. Nodes(p) = UNION {f[e] : e \in Envs}
  BY DEF Nodes
<1> HIDE DEF f
<1>4. IsFiniteSet(UNION {f[e] : e \in Envs})
  BY <1>1, <1>2, FiniteUnion
<1> QED
  BY <1>3, <1>4, FS_CardinalityType

(* Without the list of an env the nodes are those of the other envs. *)
LEMMA NodesSplit ==
  ASSUME NEW p \in Lists, NEW e \in Envs
  PROVE  LET Others == {x \in Nodes(p) : x[1] # e}
         IN  /\ IsFiniteSet(Others) /\ Cardinality(Others) \in Nat
             /\ Cardinality(Nodes(p)) = Cardinality(Others) + Len(p[e])
<1> DEFINE Others == {x \in Nodes(p) : x[1] # e}
           Row    == {e} \X DOMAIN p[e]
<1>1. IsFiniteSet(Others) /\ Cardinality(Others) \in Nat
  BY NodesFinite, FS_Subset, FS_CardinalityType
<1>2. DOMAIN p[e] = 1..Len(p[e]) /\ Len(p[e]) \in Nat
  BY DEF Lists
<1>3. IsFiniteSet(1..Len(p[e])) /\ Cardinality(1..Len(p[e])) = Len(p[e])
  BY <1>2, FS_Interval
<1>4. IsFiniteSet({e}) /\ Cardinality({e}) = 1
  BY FS_Singleton
<1>5. IsFiniteSet(Row) /\ Cardinality(Row) = Len(p[e])
  <2>1. Row = {e} \X (1..Len(p[e]))
    BY <1>2
  <2>2. /\ IsFiniteSet({e} \X (1..Len(p[e])))
        /\ Cardinality({e} \X (1..Len(p[e]))) = Cardinality({e}) * Cardinality(1..Len(p[e]))
    BY <1>3, <1>4, FS_Product
  <2>3. 1 * Len(p[e]) = Len(p[e])
    BY <1>2
  <2> QED
    BY <1>3, <1>4, <2>1, <2>2, <2>3
<1>6. Nodes(p) = Others \cup Row /\ Others \cap Row = {}
  BY DEF Nodes
<1> HIDE DEF Others, Row
<1>7. Cardinality(Others \cup Row) = Cardinality(Others) + Cardinality(Row) - Cardinality(Others \cap Row)
  BY <1>1, <1>5, FS_Union
<1>8. Cardinality(Others \cap Row) = 0
  BY <1>6, FS_EmptySet
<1>9. Cardinality(Nodes(p)) = Cardinality(Others) + Len(p[e])
  BY <1>1, <1>2, <1>5, <1>6, <1>7, <1>8
<1> QED
  BY <1>1, <1>9 DEF Others

(* Another list for one env changes the number of nodes by the difference of *)
(* the lengths.                                                              *)
LEMMA NodesExcept ==
  ASSUME NEW p \in Lists, NEW e \in Envs, NEW l \in Seq(Signals)
  PROVE  /\ [p EXCEPT ![e] = l] \in Lists
         /\ Cardinality(Nodes([p EXCEPT ![e] = l])) + Len(p[e])
              = Cardinality(Nodes(p)) + Len(l)
<1> DEFINE q == [p EXCEPT ![e] = l]
           O(r) == {x \in Nodes(r) : x[1] # e}
<1>1. q \in Lists /\ q[e] = l
  BY DEF Lists
<1>2. O(p) = O(q)
  BY DEF Nodes, Lists
<1> HIDE DEF q
<1>3. Cardinality(O(p)) \in Nat /\ Cardinality(Nodes(p)) = Cardinality(O(p)) + Len(p[e])
  BY NodesSplit
<1>4. Cardinality(Nodes(q)) = Cardinality(O(q)) + Len(l)
  BY <1>1, NodesSplit
<1>5. Len(l) \in Nat /\ Len(p[e]) \in Nat
  BY DEF Lists
<1> HIDE DEF O
<1>6. Cardinality(Nodes(q)) + Len(p[e]) = Cardinality(Nodes(p)) + Len(l)
  BY <1>2, <1>3, <1>4, <1>5
<1> QED
  BY <1>1, <1>6 DEF q

----------------------------------------------------------------------------
(* Types and the pool of signo_nodes *)

Masked   == [Envs -> SUBSET Signals]
Stacks   == [Envs -> Seq(Frames)]
Messages == {"no", "add signo fail", "only SIGSEGV can exit in kern", "address too low"}

(* The type of every variable, without the bound on signo_free. *)
Types ==
  /\ alive \in [Envs -> BOOLEAN] /\ do_signal_entry \in [Envs -> BOOLEAN]
  /\ signoHeader \in Lists
  /\ env_sigprocmask \in Masked
  /\ sa_handler \in [Envs -> [Signals -> BOOLEAN]]
  /\ sa_mask \in [Envs -> [Signals -> SUBSET Signals]]
  /\ frames \in Stacks
  /\ signo_free \in Nat
  /\ panicked \in Messages
  /\ kills \in 0..MaxKills

(* No env has two pending signals. *)
OneSignal == \A e \in Envs : Len(signoHeader[e]) <= 1

(* The step gains no node, and loses none where no env has two pending      *)
(* signals.                                                                  *)
PoolKept ==
  /\ signo_free' + Pending' <= signo_free + Pending
  /\ ~ManyPending /\ ~ReuseSlots /\ OneSignal
       => signo_free' + Pending' = signo_free + Pending /\ OneSignal'

(* _do_signal keeps the types, takes nodes out of the list of the env it is *)
(* run for only, and puts them back in the pool.                             *)
LEMMA DoSignalStep ==
  ASSUME NEW e \in Envs, NEW p \in Lists, NEW m \in Masked, NEW fr \in Stacks, NEW n \in Nat,
         sa_handler' \in [Envs -> [Signals -> BOOLEAN]],
         sa_mask' \in [Envs -> [Signals -> SUBSET Signals]],
         panicked \in Messages,
         _do_signal(e, p, m, fr, n)
  PROVE  /\ signoHeader' \in Lists /\ signo_free' \in Nat
         /\ signo_free' + Pending' <= n + Cardinality(Nodes(p))
         /\ Len(p[e]) <= 1
              => /\ signo_free' + Pending' = n + Cardinality(Nodes(p))
                 /\ \A x \in Envs : Len(p[x]) <= 1 => Len(signoHeader'[x]) <= 1
         /\ env_sigprocmask' \in Masked /\ frames' \in Stacks /\ panicked' \in Messages
<1> DEFINE h == sa_handler'[e]
           l == Left(p[e], m[e], h)
           f == Freed(p[e], m[e], h)
           s == p[e][Stop(p[e], m[e], h)]
<1>1. p[e] \in Seq(Signals)
  BY DEF Lists
<1>2. /\ l \in Seq(Signals) /\ f \in Nat /\ f + Len(l) <= Len(p[e])
      /\ Len(p[e]) <= 1 => f + Len(l) = Len(p[e])
  BY <1>1, WalkAccounted
<1>3. signoHeader' = [p EXCEPT ![e] = l] /\ signo_free' = n + f
  BY DEF _do_signal
<1>4. Pending' = Cardinality(Nodes(signoHeader'))
  BY DEF Pending, Nodes
<1>5. Ready(p[e], m[e], h) # {} => s \in Signals
  <2> SUFFICES ASSUME Ready(p[e], m[e], h) # {} PROVE s \in Signals
    OBVIOUS
  <2>1. Stop(p[e], m[e], h) \in Ready(p[e], m[e], h)
    BY <1>1, StopType
  <2>2. Stop(p[e], m[e], h) \in DOMAIN p[e]
    BY <2>1 DEF Ready
  <2> QED
    BY <1>1, <2>2
<1>6. env_sigprocmask' \in Masked /\ frames' \in Stacks /\ panicked' \in Messages
  <2>1. CASE Ready(p[e], m[e], h) = {} \/ ~do_signal_entry'[e]
    BY <2>1 DEF _do_signal, Messages
  <2>2. CASE ~(Ready(p[e], m[e], h) = {} \/ ~do_signal_entry'[e])
    <3>1. s \in Signals
      BY <1>5, <2>2
    <3>2. PICK negative \in {FALSE, NegativeResults} :
            /\ env_sigprocmask' = [m EXCEPT ![e] = sa_mask'[e][s]]
            /\ frames' = [fr EXCEPT ![e] = Append(@,
                 [signo |-> s, handler |-> h[s], mask |-> m[e], negative |-> negative])]
            /\ UNCHANGED panicked
      BY <2>2 DEF _do_signal
    <3> HIDE DEF s
    <3>3. sa_mask'[e][s] \in SUBSET Signals /\ h[s] \in BOOLEAN /\ m[e] \in SUBSET Signals
      BY <3>1 DEF Masked
    <3>4. negative \in BOOLEAN
      BY SignalAssumption
    <3>5. [signo |-> s, handler |-> h[s], mask |-> m[e], negative |-> negative] \in Frames
      BY <3>1, <3>3, <3>4 DEF Frames
    <3> DEFINE frame == [signo |-> s, handler |-> h[s], mask |-> m[e], negative |-> negative]
    <3>6. frames' = [fr EXCEPT ![e] = Append(@, frame)] /\ frame \in Frames
      BY <3>2, <3>5
    <3> HIDE DEF frame
    <3>7. fr[e] \in Seq(Frames)
      BY DEF Stacks
    <3>8. Append(fr[e], frame) \in Seq(Frames)
      BY <3>6, <3>7
    <3>9. frames' \in Stacks
      BY <3>6, <3>8 DEF Stacks
    <3> QED
      BY <3>2, <3>3, <3>9 DEF Masked
  <2> QED
    BY <2>1, <2>2
<1> HIDE DEF l, f, h
<1>7. /\ signoHeader' \in Lists
      /\ Cardinality(Nodes(signoHeader')) + Len(p[e]) = Cardinality(Nodes(p)) + Len(l)
  BY <1>2, <1>3, NodesExcept
<1>8. Cardinality(Nodes(p)) \in Nat /\ Cardinality(Nodes(signoHeader')) \in Nat
  BY <1>7, NodesFinite
<1>9. Len(l) \in Nat /\ Len(p[e]) \in Nat
  BY <1>1, <1>2
<1>10. /\ signo_free' \in Nat
       /\ signo_free' + Pending' <= n + Cardinality(Nodes(p))
       /\ Len(p[e]) <= 1 => signo_free' + Pending' = n + Cardinality(Nodes(p))
  <2> DEFINE a == Cardinality(Nodes(p))
             b == Cardinality(Nodes(signoHeader'))
             c == Len(l)
             d == Len(p[e])
  <2>1. /\ a \in Nat /\ b \in Nat /\ c \in Nat /\ d \in Nat /\ f \in Nat
        /\ b + d = a + c /\ f + c <= d /\ (d <= 1 => f + c = d)
    BY <1>2, <1>7, <1>8, <1>9
  <2> HIDE DEF a, b, c, d
  <2>2. n + f \in Nat /\ n + f + b <= n + a /\ (d <= 1 => n + f + b = n + a)
    BY <2>1
  <2> QED
    BY <1>3, <1>4, <2>2 DEF a, b, d
<1>11. ASSUME Len(p[e]) <= 1, NEW x \in Envs, Len(p[x]) <= 1 PROVE Len(signoHeader'[x]) <= 1
  <2>1. CASE x = e
    <3>1. signoHeader'[x] = l
      BY <1>3, <2>1 DEF Lists
    <3> QED
      BY <1>2, <1>9, <1>11, <3>1
  <2>2. CASE x # e
    BY <1>3, <1>11, <2>2 DEF Lists
  <2> QED
    BY <2>1, <2>2
<1> QED
  BY <1>6, <1>7, <1>10, <1>11

(* A call that ends in _do_signal with the pending signals as they were. *)
LEMMA BackStep ==
  ASSUME Types, NEW e \in Envs, NEW m \in Masked, NEW fr \in Stacks,
         sa_handler' \in [Envs -> [Signals -> BOOLEAN]],
         sa_mask' \in [Envs -> [Signals -> SUBSET Signals]],
         _do_signal(e, signoHeader, m, fr, signo_free)
  PROVE  /\ signoHeader' \in Lists /\ signo_free' \in Nat
         /\ env_sigprocmask' \in Masked /\ frames' \in Stacks /\ panicked' \in Messages
         /\ PoolKept
<1> USE DEF Types
<1>1. /\ signoHeader' \in Lists /\ signo_free' \in Nat
      /\ env_sigprocmask' \in Masked /\ frames' \in Stacks /\ panicked' \in Messages
      /\ signo_free' + Pending' <= signo_free + Cardinality(Nodes(signoHeader))
      /\ Len(signoHeader[e]) <= 1
           => /\ signo_free' + Pending' = signo_free + Cardinality(Nodes(signoHeader))
              /\ \A x \in Envs : Len(signoHeader[x]) <= 1 => Len(signoHeader'[x]) <= 1
  BY DoSignalStep
<1>2. PoolKept
  BY <1>1 DEF PoolKept, Pending, OneSignal
<1> QED
  BY <1>1, <1>2

(* A signal is sent: a node goes from the pool to the front of a list. *)
LEMMA SendStep ==
  ASSUME Types, NEW e \in Envs, NEW t \in Envs, NEW s \in Signals,
         signoHeader[t] # <<>> => ManyPending,
         Send(e, t, s)
  PROVE  Types' /\ PoolKept
<1> USE DEF Types
<1>1. /\ kills' \in 0..MaxKills
      /\ UNCHANGED <<alive, do_signal_entry, sa_handler, sa_mask>>
  <2>1. /\ kills < MaxKills /\ kills' = kills + 1
        /\ UNCHANGED <<alive, do_signal_entry, sa_handler, sa_mask>>
    BY DEF Send
  <2>2. MaxKills \in Nat /\ kills \in 0..MaxKills
    BY SignalAssumption
  <2>3. kills' \in 0..MaxKills
    BY <2>1, <2>2
  <2> QED
    BY <2>1, <2>3
<1>2. CASE signo_free = 0
  <2>1. panicked' \in Messages /\ UNCHANGED <<signoHeader, env_sigprocmask, frames, signo_free>>
    BY <1>2 DEF Send, Messages
  <2>2. Pending' = Pending
    BY <2>1 DEF Pending, Nodes
  <2>3. Pending \in Nat
    BY NodesFinite DEF Pending
  <2> QED
    BY <1>1, <2>1, <2>2, <2>3 DEF PoolKept, OneSignal
<1>3. CASE signo_free # 0
  <2> DEFINE p == [signoHeader EXCEPT ![t] = <<s>> \o @]
             l == <<s>> \o signoHeader[t]
  <2>1. signoHeader[t] \in Seq(Signals)
    BY DEF Lists
  <2>2. l \in Seq(Signals) /\ Len(l) = Len(signoHeader[t]) + 1
    BY <2>1
  <2>3. p = [signoHeader EXCEPT ![t] = l]
    BY DEF Lists
  <2> HIDE DEF l
  <2>4. p \in Lists /\ Cardinality(Nodes(p)) + Len(signoHeader[t]) = Pending + Len(l)
    BY <2>2, <2>3, NodesExcept DEF Pending
  <2>5. Cardinality(Nodes(p)) \in Nat /\ Pending \in Nat /\ Len(signoHeader[t]) \in Nat
    BY <2>1, <2>4, NodesFinite DEF Pending
  <2>6. Cardinality(Nodes(p)) = Pending + 1
    BY <2>2, <2>4, <2>5
  <2>7. _do_signal(e, p, env_sigprocmask, frames, signo_free - 1)
    BY <1>3 DEF Send
  <2>8. signo_free - 1 \in Nat
    BY <1>3
  <2>9. ~ManyPending /\ OneSignal => \A x \in Envs : Len(p[x]) <= 1
    <3> SUFFICES ASSUME ~ManyPending, OneSignal, NEW x \in Envs PROVE Len(p[x]) <= 1
      OBVIOUS
    <3>1. CASE x = t
      <4>1. signoHeader[t] = <<>>
        OBVIOUS
      <4>2. p[x] = l /\ Len(signoHeader[t]) = 0
        BY <2>3, <3>1, <4>1 DEF Lists
      <4>3. Len(l) = 1
        BY <2>2, <4>2
      <4> HIDE DEF p, Types
      <4> QED
        BY <4>2, <4>3
    <3>2. CASE x # t
      BY <2>3, <3>2 DEF Lists, OneSignal
    <3> QED
      BY <3>1, <3>2
  <2> HIDE DEF p
  <2>10. /\ signoHeader' \in Lists /\ signo_free' \in Nat
         /\ env_sigprocmask' \in Masked /\ frames' \in Stacks /\ panicked' \in Messages
         /\ signo_free' + Pending' <= signo_free - 1 + Cardinality(Nodes(p))
         /\ Len(p[e]) <= 1
              => /\ signo_free' + Pending' = signo_free - 1 + Cardinality(Nodes(p))
                 /\ \A x \in Envs : Len(p[x]) <= 1 => Len(signoHeader'[x]) <= 1
    BY <1>1, <2>4, <2>7, <2>8, DoSignalStep
  <2>11. signo_free - 1 + Cardinality(Nodes(p)) = signo_free + Pending
    BY <2>5, <2>6
  <2>12. PoolKept
    BY <2>9, <2>10, <2>11 DEF PoolKept, OneSignal
  <2> QED
    BY <1>1, <2>10, <2>12
<1> QED
  BY <1>2, <1>3

(* fork: the child starts with an empty list. *)
LEMMA ForkStep ==
  ASSUME Types, NEW e \in Envs, NEW c \in Envs, fork(e, c)
  PROVE  Types' /\ PoolKept
<1> USE DEF Types
<1> DEFINE p  == [signoHeader EXCEPT ![c] = <<>>]
           m  == [env_sigprocmask EXCEPT ![c] = env_sigprocmask[e]]
           fr == [frames EXCEPT ![c] = frames[e]]
<1>1. /\ alive' \in [Envs -> BOOLEAN] /\ do_signal_entry' \in [Envs -> BOOLEAN]
      /\ sa_handler' \in [Envs -> [Signals -> BOOLEAN]]
      /\ sa_mask' \in [Envs -> [Signals -> SUBSET Signals]]
      /\ kills' \in 0..MaxKills
  BY DEF fork
<1>2. m \in Masked /\ fr \in Stacks
  BY DEF Masked, Stacks
<1>3. <<>> \in Seq(Signals) /\ Len(<<>>) = 0
  OBVIOUS
<1>4. p \in Lists /\ Cardinality(Nodes(p)) + Len(signoHeader[c]) = Pending + 0
  BY <1>3, NodesExcept DEF Pending
<1>5. Cardinality(Nodes(p)) \in Nat /\ Pending \in Nat /\ Len(signoHeader[c]) \in Nat
  <2>1. signoHeader[c] \in Seq(Signals)
    BY DEF Lists
  <2> HIDE DEF p
  <2> QED
    BY <1>4, <2>1, NodesFinite DEF Pending
<1>6. /\ Cardinality(Nodes(p)) <= Pending
      /\ Len(signoHeader[c]) = 0 => Cardinality(Nodes(p)) = Pending
  BY <1>4, <1>5
<1>7. ~ReuseSlots => Len(signoHeader[c]) = 0
  BY <1>3 DEF fork
<1>8. OneSignal => \A x \in Envs : Len(p[x]) <= 1
  <2> SUFFICES ASSUME OneSignal, NEW x \in Envs PROVE Len(p[x]) <= 1
    OBVIOUS
  <2>1. p[x] = IF x = c THEN <<>> ELSE signoHeader[x]
    BY DEF Lists
  <2> QED
    BY <1>3, <2>1 DEF OneSignal
<1>9. _do_signal(e, p, m, fr, signo_free)
  BY DEF fork
<1> HIDE DEF p, m, fr
<1>10. /\ signoHeader' \in Lists /\ signo_free' \in Nat
       /\ env_sigprocmask' \in Masked /\ frames' \in Stacks /\ panicked' \in Messages
       /\ signo_free' + Pending' <= signo_free + Cardinality(Nodes(p))
       /\ Len(p[e]) <= 1
            => /\ signo_free' + Pending' = signo_free + Cardinality(Nodes(p))
               /\ \A x \in Envs : Len(p[x]) <= 1 => Len(signoHeader'[x]) <= 1
  BY <1>1, <1>2, <1>4, <1>9, DoSignalStep
<1>11. Pending' \in Nat
  BY <1>10, NodesFinite DEF Pending
<1>12. PoolKept
  <2>1. \A f1, f, a, b, q \in Nat : f1 + q <= f + a /\ a <= b => f1 + q <= f + b
    OBVIOUS
  <2>2. signo_free' + Pending' <= signo_free + Pending
    BY <1>5, <1>6, <1>10, <1>11, <2>1
  <2>3. ASSUME ~ManyPending, ~ReuseSlots, OneSignal
        PROVE  signo_free' + Pending' = signo_free + Pending /\ OneSignal'
    <3>1. Cardinality(Nodes(p)) = Pending
      BY <1>6, <1>7, <2>3
    <3> QED
      BY <1>8, <1>10, <2>3, <3>1 DEF OneSignal
  <2> QED
    BY <2>2, <2>3 DEF PoolKept
<1> QED
  BY <1>1, <1>10, <1>12

(* Every step keeps the types and the nodes. *)
LEMMA StepPool ==
  ASSUME Types, Next
  PROVE  Types' /\ PoolKept
<1> USE DEF Types
<1>1. PICK e \in Envs :
        \/ timer_irq(e) \/ sys_back_do_signal(e) \/ exit(e) \/ passive_alloc(e)
        \/ \E t \in Envs : sys_set_sig_entry(e, t) \/ fork(e, t)
        \/ \E t \in Envs, s \in Signals : sys_kill(e, t, s)
        \/ \E act \in Actions : sys_sigaction(e, act)
        \/ \E how \in {SIG_BLOCK, SIG_UNBLOCK, SIG_SETMASK}, set \in Masks :
             sys_sigprocmask(e, how, set)
  BY DEF Next
<1>2. CASE timer_irq(e)
  BY <1>2, BackStep DEF timer_irq, Back
<1>3. CASE sys_back_do_signal(e)
  <2> DEFINE d  == Len(frames[e])
             m  == [env_sigprocmask EXCEPT ![e] =
                      IF frames[e][d].negative THEN @ ELSE frames[e][d].mask]
             fr == [frames EXCEPT ![e] = SubSeq(@, 1, d - 1)]
  <2>1. frames[e] \in Seq(Frames) /\ frames[e] # <<>>
    BY <1>3 DEF sys_back_do_signal, Stacks
  <2>2. d \in 1..d /\ d \in Nat
    BY <2>1
  <2>3. frames[e][d] \in Frames
    BY <2>1, <2>2
  <2>4. m \in Masked
    BY <2>3 DEF Masked, Frames
  <2>5. SubSeq(frames[e], 1, d - 1) \in Seq(Frames)
    BY <2>1, <2>2
  <2>6. fr \in Stacks
    BY <2>5 DEF Stacks
  <2>7. /\ UNCHANGED <<alive, do_signal_entry, sa_handler, sa_mask, kills>>
        /\ _do_signal(e, signoHeader, m, fr, signo_free)
    BY <1>3 DEF sys_back_do_signal
  <2> HIDE DEF m, fr
  <2> QED
    BY <2>4, <2>6, <2>7, BackStep
<1>4. CASE exit(e)
  <2>1. UNCHANGED <<signoHeader, signo_free>>
    BY <1>4 DEF exit
  <2>2. Pending' = Pending /\ Pending \in Nat
    BY <2>1, NodesFinite DEF Pending, Nodes
  <2>3. PoolKept
    BY <2>1, <2>2 DEF PoolKept, OneSignal
  <2> QED
    BY <1>4, <2>3 DEF exit, Stacks
<1>5. CASE passive_alloc(e)
  BY <1>5, SendStep DEF passive_alloc
<1>6. ASSUME NEW t \in Envs, sys_set_sig_entry(e, t)
      PROVE  Types' /\ PoolKept
  BY <1>6, BackStep DEF sys_set_sig_entry, Back
<1>7. ASSUME NEW c \in Envs, fork(e, c)
      PROVE  Types' /\ PoolKept
  <2> HIDE DEF Types
  <2> QED
    BY <1>7, ForkStep
<1>8. ASSUME NEW t \in Envs, NEW s \in Signals, sys_kill(e, t, s)
      PROVE  Types' /\ PoolKept
  BY <1>8, SendStep DEF sys_kill
<1>9. ASSUME NEW act \in Actions, sys_sigaction(e, act)
      PROVE  Types' /\ PoolKept
  <2>1. act.signo \in Signals /\ act.handler \in BOOLEAN /\ act.mask \in SUBSET Signals
    BY SignalAssumption
  <2>2. /\ sa_handler' \in [Envs -> [Signals -> BOOLEAN]]
        /\ sa_mask' \in [Envs -> [Signals -> SUBSET Signals]]
    BY <1>9, <2>1 DEF sys_sigaction
  <2> QED
    BY <1>9, <2>2, BackStep DEF sys_sigaction, Back
<1>10. ASSUME NEW how \in {SIG_BLOCK, SIG_UNBLOCK, SIG_SETMASK}, NEW set \in Masks,
              sys_sigprocmask(e, how, set)
       PROVE  Types' /\ PoolKept
  <2> DEFINE m == [env_sigprocmask EXCEPT ![e] = NewMask(how, @, set)]
  <2>1. set \in SUBSET Signals /\ env_sigprocmask[e] \in SUBSET Signals
    BY SignalAssumption DEF Masked
  <2>2. NewMask(how, env_sigprocmask[e], set) \in SUBSET Signals
    BY <2>1 DEF NewMask, SIG_BLOCK, SIG_UNBLOCK, SIG_SETMASK
  <2>3. m \in Masked
    BY <2>2 DEF Masked
  <2>4. /\ UNCHANGED <<alive, do_signal_entry, sa_handler, sa_mask, kills>>
        /\ _do_signal(e, signoHeader, m, frames, signo_free)
    BY <1>10 DEF sys_sigprocmask
  <2> HIDE DEF m
  <2> QED
    BY <2>3, <2>4, BackStep
<1> QED
  BY <1>1, <1>2, <1>3, <1>4, <1>5, <1>6, <1>7, <1>8, <1>9, <1>10

(* No more nodes are free or in use than there are. *)
PoolBound == signo_free + Pending <= MAX_SIG_NUM

(* At the start all nodes are free. *)
LEMMA InitPool == Init => Types /\ OneSignal /\ PoolAccounted
<1> SUFFICES ASSUME Init PROVE Types /\ OneSignal /\ PoolAccounted
  OBVIOUS
<1>1. <<>> \in Seq(Signals) /\ <<>> \in Seq(Frames) /\ Len(<<>>) = 0 /\ DOMAIN <<>> = {}
  OBVIOUS
<1>2. Types
  BY <1>1, SignalAssumption DEF Init, Types, Lists, Masked, Stacks, Messages
<1>3. OneSignal
  BY <1>1 DEF Init, OneSignal
<1>4. Nodes(signoHeader) = {}
  BY <1>1 DEF Init, Nodes
<1>5. Pending = 0
  BY <1>4, FS_EmptySet DEF Pending
<1> QED
  BY <1>2, <1>3, <1>5, SignalAssumption DEF PoolAccounted, Init

(* Every variable keeps its type, and no more signo_nodes are free than     *)
(* kern/signal.c has, whatever the programs do: _do_signal frees no node     *)
(* twice, even where it loses some.                                          *)
THEOREM TypesKept == Spec => []TypeOK
<1> DEFINE Inv == Types /\ PoolBound
<1>1. Init => Inv
  BY InitPool, SignalAssumption DEF PoolAccounted, PoolBound
<1>2. Inv /\ [Next]_vars => Inv'
  <2> SUFFICES ASSUME Inv, [Next]_vars PROVE Inv'
    OBVIOUS
  <2>1. CASE Next
    <3>1. Types' /\ signo_free' + Pending' <= signo_free + Pending
      BY <2>1, StepPool DEF PoolKept
    <3>2. Pending \in Nat /\ Pending' \in Nat /\ signo_free \in Nat /\ signo_free' \in Nat
      BY <3>1, NodesFinite DEF Pending, Types
    <3>3. \A a, b, c, d, m \in Nat : a + b <= c + d /\ c + d <= m => a + b <= m
      OBVIOUS
    <3> QED
      BY <3>1, <3>2, <3>3, SignalAssumption DEF PoolBound
  <2>2. CASE UNCHANGED vars
    BY <2>2 DEF vars, perEnv, Types, PoolBound, Pending, Nodes
  <2> QED
    BY <2>1, <2>2
<1>3. Inv => TypeOK
  <2> SUFFICES ASSUME Inv PROVE TypeOK
    OBVIOUS
  <2>1. Pending \in Nat /\ signo_free \in Nat
    BY NodesFinite DEF Pending, Types
  <2>2. signo_free \in 0..MAX_SIG_NUM
    BY <2>1, SignalAssumption DEF PoolBound
  <2> QED
    BY <2>2 DEF Types, TypeOK, Lists, Masked, Stacks, Messages
<1> QED
  BY <1>1, <1>2, <1>3, PTL DEF Spec

(* Where no env is sent a signal while another one is pending, and no slot  *)
(* is used again with a signal pending, every signo_node is free or in the  *)
(* list of one env, which may have exited: kern/signal.c loses no signal of *)
(* a live env and no node.                                                  *)
THEOREM PoolIsAccounted ==
  ASSUME ~ManyPending, ~ReuseSlots
  PROVE  Spec => []PoolAccounted
<1> DEFINE Inv == Types /\ OneSignal /\ PoolAccounted
<1>1. Init => Inv
  BY InitPool
<1>2. Inv /\ [Next]_vars => Inv'
  <2> SUFFICES ASSUME Inv, [Next]_vars PROVE Inv'
    OBVIOUS
  <2>1. CASE Next
    BY <2>1, StepPool DEF PoolKept, PoolAccounted
  <2>2. CASE UNCHANGED vars
    BY <2>2 DEF vars, perEnv, Types, OneSignal, PoolAccounted, Pending, Nodes
  <2> QED
    BY <2>1, <2>2
<1> QED
  BY <1>1, <1>2, PTL DEF Spec

----------------------------------------------------------------------------
(* The mask under the handlers *)

(* The mask of the interrupted program, for the masks m and the frames fr. *)
Base(m, fr, x) == IF fr[x] = <<>> THEN m[x] ELSE fr[x][1].mask

(* No handler has interrupted its env where $v0 was negative. *)
AllPositive(fr) == \A x \in Envs : \A k \in DOMAIN fr[x] : ~fr[x][k].negative

(* The first and the other elements of a stack with one more on top. *)
LEMMA PushFacts ==
  ASSUME NEW S, NEW q \in Seq(S), NEW f
  PROVE  /\ Append(q, f) # <<>>
         /\ Append(q, f)[1] = IF q = <<>> THEN f ELSE q[1]
         /\ \A k \in DOMAIN Append(q, f) :
              Append(q, f)[k] = f \/ (k \in DOMAIN q /\ Append(q, f)[k] = q[k])
<1>1. Len(q) \in Nat /\ DOMAIN q = 1..Len(q) /\ (q = <<>> <=> Len(q) = 0)
  OBVIOUS
<1>2. /\ DOMAIN Append(q, f) = 1..(Len(q) + 1)
      /\ \A k \in 1..(Len(q) + 1) : Append(q, f)[k] = IF k = Len(q) + 1 THEN f ELSE q[k]
  OBVIOUS
<1>3. DOMAIN <<>> = {}
  OBVIOUS
<1>4. 1 \in DOMAIN Append(q, f)
  BY <1>1, <1>2
<1>5. Append(q, f) # <<>>
  BY <1>3, <1>4
<1>6. Append(q, f)[1] = IF q = <<>> THEN f ELSE q[1]
  BY <1>1, <1>2
<1>7. ASSUME NEW k \in DOMAIN Append(q, f)
      PROVE  Append(q, f)[k] = f \/ (k \in DOMAIN q /\ Append(q, f)[k] = q[k])
  BY <1>1, <1>2
<1> QED
  BY <1>5, <1>6, <1>7

(* The elements of a stack without the one on top. *)
LEMMA PopFacts ==
  ASSUME NEW S, NEW q \in Seq(S), q # <<>>
  PROVE  LET r == SubSeq(q, 1, Len(q) - 1)
         IN  /\ r \in Seq(S)
             /\ q[1] = IF r = <<>> THEN q[Len(q)] ELSE r[1]
             /\ \A k \in DOMAIN r : k \in DOMAIN q /\ r[k] = q[k]
<1> DEFINE d == Len(q)
           r == SubSeq(q, 1, d - 1)
<1>1. d \in Nat /\ d # 0
  OBVIOUS
<1>2. r \in Seq(S) /\ DOMAIN q = 1..d
  BY <1>1
<1>3. Len(r) = d - 1 /\ DOMAIN r = 1..(d - 1) /\ \A k \in 1..(d - 1) : r[k] = q[k]
  <2> DEFINE n == d - 1
  <2>1. n \in Nat /\ n <= Len(q) /\ r = SubSeq(q, 1, n)
    BY <1>1
  <2> HIDE DEF n, r
  <2>2. Len(r) = n
    BY <2>1
  <2>3. DOMAIN r = 1..n
    BY <1>2, <2>2
  <2>4. \A k \in 1..n : r[k] = q[k]
    BY <2>1
  <2> QED
    BY <2>2, <2>3, <2>4 DEF n
<1> HIDE DEF d, r
<1>4. r = <<>> <=> Len(r) = 0
  BY <1>2
<1>5. r = <<>> <=> d = 1
  BY <1>1, <1>3, <1>4
<1>6. d # 1 => 1 \in 1..(d - 1)
  BY <1>1
<1>7. q[1] = IF r = <<>> THEN q[d] ELSE r[1]
  BY <1>3, <1>5, <1>6
<1>8. \A k \in 1..(d - 1) : k \in 1..d
  BY <1>1
<1>9. \A k \in DOMAIN r : k \in DOMAIN q /\ r[k] = q[k]
  BY <1>2, <1>3, <1>8
<1> QED
  BY <1>2, <1>7, <1>9 DEF r, d

(* _do_signal puts a frame on top that remembers the mask it replaces: what *)
(* is under the frames stays.                                                *)
LEMMA DoSignalBase ==
  ASSUME ~NegativeResults,
         NEW e \in Envs, NEW p, NEW m \in Masked, NEW fr \in Stacks, NEW n,
         _do_signal(e, p, m, fr, n)
  PROVE  /\ AllPositive(fr) => AllPositive(frames')
         /\ \A x \in Envs : Base(env_sigprocmask', frames', x) = Base(m, fr, x)
<1> DEFINE h == sa_handler'[e]
           s == p[e][Stop(p[e], m[e], h)]
           frame == [signo |-> s, handler |-> h[s], mask |-> m[e], negative |-> FALSE]
<1>1. CASE env_sigprocmask' = m /\ frames' = fr
  BY <1>1
<1>2. CASE ~(env_sigprocmask' = m /\ frames' = fr)
  <2>1. /\ env_sigprocmask' = [m EXCEPT ![e] = sa_mask'[e][s]]
        /\ frames' = [fr EXCEPT ![e] = Append(@, frame)]
    <3>1. ~(Ready(p[e], m[e], h) = {} \/ ~do_signal_entry'[e])
      BY <1>2 DEF _do_signal
    <3>2. PICK negative \in {FALSE, NegativeResults} :
            /\ env_sigprocmask' = [m EXCEPT ![e] = sa_mask'[e][s]]
            /\ frames' = [fr EXCEPT ![e] = Append(@,
                 [signo |-> s, handler |-> h[s], mask |-> m[e], negative |-> negative])]
      BY <3>1 DEF _do_signal
    <3>3. negative = FALSE
      BY SignalAssumption
    <3> QED
      BY <3>2, <3>3
  <2>2. frame.mask = m[e] /\ frame.negative = FALSE
    OBVIOUS
  <2> HIDE DEF frame
  <2>3. fr[e] \in Seq(Frames)
    BY DEF Stacks
  <2>4. frames'[e] = Append(fr[e], frame)
    BY <2>1 DEF Stacks
  <2>5. \A x \in Envs : x # e => frames'[x] = fr[x] /\ env_sigprocmask'[x] = m[x]
    BY <2>1 DEF Stacks, Masked
  <2> DEFINE q == fr[e]
  <2>6. q \in Seq(Frames)
    BY <2>3
  <2> HIDE DEF q
  <2>7. /\ Append(q, frame) # <<>>
        /\ Append(q, frame)[1] = IF q = <<>> THEN frame ELSE q[1]
        /\ \A k \in DOMAIN Append(q, frame) :
             Append(q, frame)[k] = frame \/ (k \in DOMAIN q /\ Append(q, frame)[k] = q[k])
    BY <2>6, PushFacts
  <2>8. ASSUME NEW x \in Envs
        PROVE  Base(env_sigprocmask', frames', x) = Base(m, fr, x)
    <3>1. CASE x = e
      BY <2>2, <2>4, <2>7, <3>1 DEF Base, q
    <3>2. CASE x # e
      BY <2>5, <3>2 DEF Base
    <3> QED
      BY <3>1, <3>2
  <2>9. ASSUME AllPositive(fr), NEW x \in Envs, NEW k \in DOMAIN frames'[x]
        PROVE  ~frames'[x][k].negative
    <3>1. CASE x = e
      BY <2>2, <2>4, <2>7, <2>9, <3>1 DEF AllPositive, q
    <3>2. CASE x # e
      BY <2>5, <2>9, <3>2 DEF AllPositive
    <3> QED
      BY <3>1, <3>2
  <2> QED
    BY <2>8, <2>9 DEF AllPositive
<1> QED
  BY <1>1, <1>2

(* One step of MaskSurvivesHandlers. *)
MaskKept ==
  \A x \in Envs : alive[x] /\ alive'[x] /\ BaseMask(x)' # BaseMask(x) => frames[x] = <<>>

(* The step after which _do_signal runs for e: it is enough to look at what *)
(* the call itself has done to the masks and the frames.                     *)
LEMMA BaseStep ==
  ASSUME ~NegativeResults,
         NEW e \in Envs, NEW p, NEW m \in Masked, NEW fr \in Stacks, NEW n,
         _do_signal(e, p, m, fr, n),
         AllPositive(fr),
         \A x \in Envs : alive[x] /\ frames[x] # <<>>
                           => Base(m, fr, x) = Base(env_sigprocmask, frames, x)
  PROVE  AllPositive(frames)' /\ MaskKept
<1>1. AllPositive(frames') /\ \A x \in Envs : Base(env_sigprocmask', frames', x) = Base(m, fr, x)
  BY DoSignalBase
<1>2. \A x \in Envs : /\ BaseMask(x) = Base(env_sigprocmask, frames, x)
                      /\ BaseMask(x)' = Base(env_sigprocmask', frames', x)
  BY DEF BaseMask, Base
<1> QED
  BY <1>1, <1>2 DEF MaskKept, AllPositive

(* Every step, but one that handles a return with a negative $v0, keeps the *)
(* mask under the handlers.                                                  *)
LEMMA StepMask ==
  ASSUME ~NegativeResults, Types, AllPositive(frames), Next
  PROVE  AllPositive(frames)' /\ MaskKept
<1>1. PICK e \in Envs :
        \/ timer_irq(e) \/ sys_back_do_signal(e) \/ exit(e) \/ passive_alloc(e)
        \/ \E t \in Envs : sys_set_sig_entry(e, t) \/ fork(e, t)
        \/ \E t \in Envs, s \in Signals : sys_kill(e, t, s)
        \/ \E act \in Actions : sys_sigaction(e, act)
        \/ \E how \in {SIG_BLOCK, SIG_UNBLOCK, SIG_SETMASK}, set \in Masks :
             sys_sigprocmask(e, how, set)
  BY DEF Next
<1>0. env_sigprocmask \in Masked /\ frames \in Stacks /\ alive \in [Envs -> BOOLEAN]
  BY DEF Types
<1>2. ASSUME NEW p, NEW n, _do_signal(e, p, env_sigprocmask, frames, n)
      PROVE  AllPositive(frames)' /\ MaskKept
  BY <1>0, <1>2, BaseStep
<1>3. CASE timer_irq(e)
  BY <1>2, <1>3 DEF timer_irq, Back
<1>4. CASE sys_back_do_signal(e)
  <2> DEFINE d  == Len(frames[e])
             m  == [env_sigprocmask EXCEPT ![e] =
                      IF frames[e][d].negative THEN @ ELSE frames[e][d].mask]
             fr == [frames EXCEPT ![e] = SubSeq(@, 1, d - 1)]
             q  == frames[e]
  <2>1. q \in Seq(Frames) /\ q # <<>> /\ d = Len(q)
    BY <1>0, <1>4 DEF sys_back_do_signal, Stacks
  <2>2. d \in 1..d /\ d \in Nat
    BY <2>1
  <2>3. q[d] \in Frames /\ ~q[d].negative
    BY <2>1, <2>2 DEF AllPositive
  <2>4. m = [env_sigprocmask EXCEPT ![e] = q[d].mask] /\ m \in Masked
    BY <1>0, <2>3 DEF Masked, Frames
  <2>5. fr = [frames EXCEPT ![e] = SubSeq(q, 1, d - 1)] /\ SubSeq(q, 1, d - 1) \in Seq(Frames)
    BY <2>1, <2>2
  <2>6. fr \in Stacks
    BY <1>0, <2>5 DEF Stacks
  <2>7. _do_signal(e, signoHeader, m, fr, signo_free)
    BY <1>4 DEF sys_back_do_signal
  <2>8. /\ fr[e] = SubSeq(q, 1, d - 1) /\ m[e] = q[d].mask
        /\ \A x \in Envs : x # e => fr[x] = frames[x] /\ m[x] = env_sigprocmask[x]
    BY <1>0, <2>4, <2>5 DEF Stacks, Masked
  <2>9. q[1].mask = IF SubSeq(q, 1, d - 1) = <<>> THEN q[d].mask
                    ELSE SubSeq(q, 1, d - 1)[1].mask
    BY <2>1, PopFacts
  <2>10. \A k \in DOMAIN SubSeq(q, 1, d - 1) : k \in DOMAIN q /\ SubSeq(q, 1, d - 1)[k] = q[k]
    BY <2>1, PopFacts
  <2>11. AllPositive(fr)
    BY <2>8, <2>10 DEF AllPositive
  <2> HIDE DEF m, fr
  <2>12. \A x \in Envs : frames[x] # <<>> => Base(m, fr, x) = Base(env_sigprocmask, frames, x)
    BY <2>1, <2>8, <2>9 DEF Base
  <2> QED
    BY <2>4, <2>6, <2>7, <2>11, <2>12, BaseStep
<1>5. CASE exit(e)
  <2>1. /\ frames' = [frames EXCEPT ![e] = <<>>] /\ env_sigprocmask' = env_sigprocmask
        /\ ~alive'[e]
    BY <1>0, <1>5 DEF exit
  <2>2. frames'[e] = <<>> /\ \A x \in Envs : x # e => frames'[x] = frames[x]
    BY <1>0, <2>1 DEF Stacks
  <2>3. DOMAIN <<>> = {}
    OBVIOUS
  <2>4. AllPositive(frames)'
    BY <2>2, <2>3 DEF AllPositive
  <2> QED
    BY <2>1, <2>2, <2>4 DEF MaskKept, BaseMask
<1>6. ASSUME NEW t, NEW s, Send(e, t, s)
      PROVE  AllPositive(frames)' /\ MaskKept
  <2>1. CASE signo_free = 0
    <3>1. UNCHANGED <<env_sigprocmask, frames>>
      BY <1>6, <2>1 DEF Send
    <3> QED
      BY <3>1 DEF AllPositive, MaskKept, BaseMask
  <2>2. CASE signo_free # 0
    BY <1>2, <1>6, <2>2 DEF Send
  <2> QED
    BY <2>1, <2>2
<1>7. CASE passive_alloc(e)
  BY <1>6, <1>7 DEF passive_alloc
<1>8. ASSUME NEW t \in Envs, sys_set_sig_entry(e, t)
      PROVE  AllPositive(frames)' /\ MaskKept
  BY <1>2, <1>8 DEF sys_set_sig_entry, Back
<1>9. ASSUME NEW c \in Envs, fork(e, c)
      PROVE  AllPositive(frames)' /\ MaskKept
  <2> DEFINE m  == [env_sigprocmask EXCEPT ![c] = env_sigprocmask[e]]
             fr == [frames EXCEPT ![c] = frames[e]]
  <2>1. m \in Masked /\ fr \in Stacks
    BY <1>0 DEF Masked, Stacks
  <2>2. \A x \in Envs : /\ x # c => fr[x] = frames[x] /\ m[x] = env_sigprocmask[x]
                        /\ x = c => fr[x] = frames[e]
    BY <1>0 DEF Masked, Stacks
  <2>3. ~alive[c] /\ _do_signal(e, [signoHeader EXCEPT ![c] = <<>>], m, fr, signo_free)
    BY <1>9 DEF fork
  <2> HIDE DEF m, fr
  <2>4. AllPositive(fr)
    BY <2>2 DEF AllPositive
  <2>5. \A x \in Envs : alive[x] => Base(m, fr, x) = Base(env_sigprocmask, frames, x)
    BY <2>2, <2>3 DEF Base
  <2> QED
    BY <2>1, <2>3, <2>4, <2>5, BaseStep
<1>10. ASSUME NEW t \in Envs, NEW s \in Signals, sys_kill(e, t, s)
       PROVE  AllPositive(frames)' /\ MaskKept
  BY <1>6, <1>10 DEF sys_kill
<1>11. ASSUME NEW act \in Actions, sys_sigaction(e, act)
       PROVE  AllPositive(frames)' /\ MaskKept
  BY <1>2, <1>11 DEF sys_sigaction, Back
<1>12. ASSUME NEW how \in {SIG_BLOCK, SIG_UNBLOCK, SIG_SETMASK}, NEW set \in Masks,
              sys_sigprocmask(e, how, set)
       PROVE  AllPositive(frames)' /\ MaskKept
  <2> DEFINE m == [env_sigprocmask EXCEPT ![e] = NewMask(how, @, set)]
  <2>1. set \in SUBSET Signals /\ env_sigprocmask[e] \in SUBSET Signals
    BY <1>0, SignalAssumption DEF Masked
  <2>2. NewMask(how, env_sigprocmask[e], set) \in SUBSET Signals
    BY <2>1 DEF NewMask, SIG_BLOCK, SIG_UNBLOCK, SIG_SETMASK
  <2>3. m \in Masked
    BY <1>0, <2>2 DEF Masked
  <2>4. _do_signal(e, signoHeader, m, frames, signo_free)
    BY <1>12 DEF sys_sigprocmask
  <2>5. \A x \in Envs : frames[x] # <<>> => Base(m, frames, x) = Base(env_sigprocmask, frames, x)
    BY DEF Base
  <2> HIDE DEF m
  <2> QED
    BY <1>0, <2>3, <2>4, <2>5, BaseStep
<1> QED
  BY <1>1, <1>3, <1>4, <1>5, <1>7, <1>8, <1>9, <1>10, <1>11, <1>12

(* However deep handlers nest and whatever masks they set, the mask of the  *)
(* interrupted program survives them, where $v0 is not negative on entry:   *)
(* sys_back_do_signal restores what _do_signal has saved.                    *)
THEOREM MaskIsRestored ==
  ASSUME ~NegativeResults
  PROVE  Spec => MaskSurvivesHandlers
<1> DEFINE Inv == Types /\ AllPositive(frames)
<1>1. Init => Inv
  <2> SUFFICES ASSUME Init PROVE Inv
    OBVIOUS
  <2>1. DOMAIN <<>> = {}
    OBVIOUS
  <2> QED
    BY <2>1, InitPool DEF Init, AllPositive
<1>2. Inv /\ [Next]_vars => Inv' /\ [MaskKept]_vars
  <2> SUFFICES ASSUME Inv, [Next]_vars PROVE Inv' /\ [MaskKept]_vars
    OBVIOUS
  <2>1. CASE Next
    BY <2>1, StepPool, StepMask
  <2>2. CASE UNCHANGED vars
    BY <2>2 DEF vars, perEnv, Types, AllPositive
  <2> QED
    BY <2>1, <2>2
<1>3. [MaskKept]_vars =>
        [\A e \in Envs : alive[e] /\ alive'[e] /\ BaseMask(e)' # BaseMask(e)
                           => frames[e] = <<>>]_vars
  BY DEF MaskKept
<1> QED
  BY <1>1, <1>2, <1>3, PTL DEF Spec, MaskSurvivesHandlers
=============================================================================
