---------------------------- MODULE CommonLemmas ----------------------------
(* Facts about numbers, finite sets and sequences that the proofs of several *)
(* components rest on.                                                       *)
EXTENDS Integers, Sequences, FiniteSets, FiniteSetTheorems, WellFoundedInduction, TLAPS

(* A non-empty set of naturals has a smallest element: what is proved about *)
(* a loop is proved by its first iteration that would go wrong.             *)
LEMMA SmallestNat ==
  ASSUME NEW S, S \subseteq Nat, S # {}
  PROVE  \E x \in S : \A y \in S : x <= y
<1>1. PICK x \in S : \A y \in S : <<y, x>> \notin OpToRel(<, Nat)
  BY NatLessThanWellFounded, WFMin
<1>2. ASSUME NEW y \in S PROVE x <= y
  <2>1. x \in Nat /\ y \in Nat
    OBVIOUS
  <2>2. <<y, x>> \notin OpToRel(<, Nat)
    BY <1>1
  <2>3. ~(y < x)
    BY <2>1, <2>2, Zenon DEF OpToRel
  <2> QED
    BY <2>1, <2>3
<1> QED
  BY <1>2

(* The union of finitely many finite sets, given as a function. *)
LEMMA FiniteUnion ==
  ASSUME NEW S, IsFiniteSet(S), NEW f, DOMAIN f = S, \A x \in S : IsFiniteSet(f[x])
  PROVE  IsFiniteSet(UNION {f[x] : x \in S})
<1> DEFINE T == {f[x] : x \in S}
           g == [x \in S |-> f[x]]
<1>1. g \in Surjection(S, T)
  BY DEF Surjection
<1>2. IsFiniteSet(T)
  BY <1>1, FS_Surjection
<1>3. \A t \in T : IsFiniteSet(t)
  OBVIOUS
<1> HIDE DEF T
<1>4. IsFiniteSet(UNION T)
  BY <1>2, <1>3, FS_UNION
<1> QED
  BY <1>4 DEF T

(* A function on 1..n is a sequence. *)
LEMMA FunctionIsSeq ==
  ASSUME NEW S, NEW n \in Nat, NEW s \in [1..n -> S]
  PROVE  s \in Seq(S) /\ Len(s) = n
  OBVIOUS

(* Two sequences with the same elements are the same. *)
LEMMA SameSeq ==
  ASSUME NEW S, NEW n \in Nat, NEW s \in [1..n -> S],
         NEW t \in Seq(S), Len(t) = n, \A i \in 1..n : t[i] = s[i]
  PROVE  s = t
<1>1. s \in Seq(S) /\ Len(s) = n
  BY FunctionIsSeq
<1>2. DOMAIN t = 1..n /\ t \in [1..n -> S]
  OBVIOUS
<1> QED
  BY <1>2

(* One more element in front. *)
LEMMA PushFront ==
  ASSUME NEW S, NEW n \in Nat, NEW s \in [1..n -> S], NEW e \in S
  PROVE  [i \in 1..(n + 1) |-> IF i = 1 THEN e ELSE s[i - 1]] = <<e>> \o s
<1>1. s \in Seq(S) /\ Len(s) = n
  BY FunctionIsSeq
<1>2. <<e>> \o s \in Seq(S) /\ Len(<<e>> \o s) = n + 1
  BY <1>1
<1>3. \A i \in 1..(n + 1) : (<<e>> \o s)[i] = IF i = 1 THEN e ELSE s[i - 1]
  BY <1>1
<1> QED
  BY <1>2, <1>3

(* One more element at the end. *)
LEMMA PushBack ==
  ASSUME NEW S, NEW n \in Nat, NEW s \in [1..n -> S], NEW e \in S
  PROVE  [i \in 1..(n + 1) |-> IF i = n + 1 THEN e ELSE s[i]] = Append(s, e)
<1>1. s \in Seq(S) /\ Len(s) = n
  BY FunctionIsSeq
<1>2. Append(s, e) \in Seq(S) /\ Len(Append(s, e)) = n + 1
  BY <1>1
<1>3. \A i \in 1..(n + 1) : Append(s, e)[i] = IF i = n + 1 THEN e ELSE s[i]
  BY <1>1
<1> DEFINE t == [i \in 1..(n + 1) |-> IF i = n + 1 THEN e ELSE s[i]]
<1>4. n + 1 \in Nat /\ t \in [1..(n + 1) -> S] /\ \A i \in 1..(n + 1) : Append(s, e)[i] = t[i]
  BY <1>3
<1> HIDE DEF t
<1>5. t = Append(s, e)
  BY <1>2, <1>4, SameSeq
<1> QED
  BY <1>5 DEF t

(* The k-th element taken out. *)
LEMMA TakeOut ==
  ASSUME NEW S, NEW n \in Nat, NEW s \in [1..n -> S], NEW k \in 1..n
  PROVE  [i \in 1..(n - 1) |-> IF i < k THEN s[i] ELSE s[i + 1]]
           = SubSeq(s, 1, k - 1) \o SubSeq(s, k + 1, Len(s))
<1> DEFINE f == SubSeq(s, 1, k - 1)
           g == SubSeq(s, k + 1, n)
           t == [i \in 1..(n - 1) |-> IF i < k THEN s[i] ELSE s[i + 1]]
<1>1. s \in Seq(S) /\ Len(s) = n
  BY FunctionIsSeq
<1>2. f \in Seq(S) /\ Len(f) = k - 1 /\ \A i \in 1..(k - 1) : f[i] = s[i]
  BY <1>1
<1>3. g \in Seq(S) /\ Len(g) = n - k /\ \A i \in 1..(n - k) : g[i] = s[k + i]
  <2>1. g \in Seq(S)
    BY <1>1
  <2>2. Len(g) = n - k
    BY <1>1
  <2>3. ASSUME NEW i \in 1..(n - k) PROVE g[i] = s[k + i]
    BY <1>1
  <2> QED
    BY <2>1, <2>2, <2>3
<1> HIDE DEF f, g
<1>4. f \o g \in Seq(S) /\ Len(f \o g) = n - 1
  <2>0. \A a, b \in Seq(S) : a \o b \in Seq(S) /\ Len(a \o b) = Len(a) + Len(b)
    OBVIOUS
  <2>1. f \o g \in Seq(S) /\ Len(f \o g) = Len(f) + Len(g)
    BY <1>2, <1>3, <2>0
  <2>2. (k - 1) + (n - k) = n - 1
    OBVIOUS
  <2> QED
    BY <1>2, <1>3, <2>1, <2>2
<1>5. ASSUME NEW i \in 1..(n - 1) PROVE (f \o g)[i] = t[i]
  <2>1. CASE i < k
    BY <1>2, <1>3, <2>1
  <2>2. CASE ~(i < k)
    <3>1. i - (k - 1) \in 1..(n - k) /\ k + (i - (k - 1)) = i + 1 /\ ~(i <= k - 1)
      BY <2>2
    <3>2. (f \o g)[i] = g[i - (k - 1)]
      BY <1>2, <1>3, <2>2
    <3> QED
      BY <1>3, <2>2, <3>1, <3>2
  <2> QED
    BY <2>1, <2>2
<1>6. n - 1 \in Nat /\ t \in [1..(n - 1) -> S]
  OBVIOUS
<1> HIDE DEF t
<1>7. t = f \o g
  BY <1>4, <1>5, <1>6, SameSeq
<1> QED
  BY <1>1, <1>7 DEF f, g, t

(* The first element and the others. *)
LEMMA HeadAndTail ==
  ASSUME NEW S, NEW n \in Nat, NEW s \in [1..n -> S], n # 0
  PROVE  /\ s \in Seq(S) /\ Len(s) = n /\ s # <<>> /\ Head(s) = s[1]
         /\ n - 1 \in Nat /\ Tail(s) \in Seq(S) /\ Len(Tail(s)) = n - 1
         /\ [i \in 1..(n - 1) |-> s[i + 1]] = Tail(s)
<1> DEFINE t == [i \in 1..(n - 1) |-> s[i + 1]]
<1>1. s \in Seq(S) /\ Len(s) = n
  BY FunctionIsSeq
<1>2. s # <<>> /\ Head(s) = s[1]
  BY <1>1
<1>3. Tail(s) \in Seq(S) /\ Len(Tail(s)) = n - 1 /\ n - 1 \in Nat
  BY <1>1
<1>4. t \in [1..(n - 1) -> S] /\ \A i \in 1..(n - 1) : Tail(s)[i] = t[i]
  BY <1>1
<1> HIDE DEF t
<1>5. t = Tail(s)
  BY <1>3, <1>4, SameSeq
<1> QED
  BY <1>1, <1>2, <1>3, <1>5 DEF t

(* Remainders *)

(* The remainder of a division is smaller than the divisor. *)
LEMMA ModBound ==
  ASSUME NEW a \in Nat, NEW m \in Nat, m > 0
  PROVE  a % m \in 0..(m - 1)
  OBVIOUS

(* Fewer than m numbers in a row have different remainders. *)
LEMMA ResiduesDiffer ==
  ASSUME NEW j \in Nat, NEW k \in Nat, NEW m \in Nat, m > 0, j < k, k - j < m
  PROVE  j % m # k % m
<1> SUFFICES ASSUME j % m = k % m PROVE FALSE
  OBVIOUS
<1> DEFINE a == j \div m
           b == k \div m
<1>1. a \in Int /\ b \in Int
  OBVIOUS
<1>2. j = m * a + (j % m) /\ k = m * b + (k % m)
  OBVIOUS
<1> HIDE DEF a, b
<1>3. k - j = m * b - m * a
  BY <1>1, <1>2
<1>4. m * b - m * a = m * (b - a)
  BY <1>1
<1>5. b - a >= 1 => m * (b - a) >= m
  BY <1>1
<1>6. b - a <= 0 => m * (b - a) <= 0
  BY <1>1
<1> QED
  BY <1>1, <1>3, <1>4, <1>5, <1>6

(* The modulus does not count. *)
LEMMA ModAdd ==
  ASSUME NEW a \in Nat, NEW m \in Nat, m > 0
  PROVE  (a + m) % m = a % m
<1> DEFINE p == a \div m
           q == (a + m) \div m
           r == a % m
           s == (a + m) % m
<1>1. p \in Int /\ q \in Int /\ r \in 0..(m - 1) /\ s \in 0..(m - 1)
  OBVIOUS
<1>2. a = m * p + r /\ a + m = m * q + s
  OBVIOUS
<1> HIDE DEF p, q, r, s
<1>3. r - s = m * (q - p - 1)
  <2>1. m * (q - p - 1) = m * q - m * p - m
    BY <1>1
  <2> QED
    BY <1>1, <1>2, <2>1
<1>4. q - p - 1 >= 1 => m * (q - p - 1) >= m
  BY <1>1
<1>5. q - p - 1 <= -1 => m * (q - p - 1) <= -m
  BY <1>1
<1>6. q - p - 1 = 0
  BY <1>1, <1>3, <1>4, <1>5
<1>7. r = s
  <2>1. m * 0 = 0
    OBVIOUS
  <2> QED
    BY <1>1, <1>3, <1>6, <2>1
<1> QED
  BY <1>7 DEF r, s

(* Nor does it change what is below it. *)
LEMMA ModSmall ==
  ASSUME NEW a \in Nat, NEW m \in Nat, a < m
  PROVE  a % m = a
<1> DEFINE q == a \div m
           r == a % m
<1>1. q \in Int /\ r \in 0..(m - 1) /\ a = m * q + r
  OBVIOUS
<1> HIDE DEF q, r
<1>2. q >= 1 => m * q >= m
  BY <1>1
<1>3. q <= -1 => m * q <= -m
  BY <1>1
<1>4. q = 0
  BY <1>1, <1>2, <1>3
<1>5. a = r
  <2>1. m * 0 = 0
    OBVIOUS
  <2> QED
    BY <1>1, <1>4, <2>1
<1> QED
  BY <1>5 DEF r

(* Loops *)

(* Induction up to n, on the set of the numbers for which something holds. *)
LEMMA Induct ==
  ASSUME NEW n \in Nat, NEW P, 0 \in P, \A k \in 1..n : k - 1 \in P => k \in P
  PROVE  \A k \in 0..n : k \in P
<1> DEFINE Bad == {k \in 0..n : k \notin P}
<1>1. SUFFICES ASSUME Bad # {} PROVE FALSE
  OBVIOUS
<1>2. Bad \subseteq Nat
  OBVIOUS
<1>3. PICK k \in Bad : \A y \in Bad : k <= y
  <2> HIDE DEF Bad
  <2> QED
    BY <1>1, <1>2, SmallestNat
<1>4. k # 0 /\ k \in 1..n /\ k - 1 \in 0..n /\ ~(k <= k - 1)
  BY <1>3
<1>5. k - 1 \in P
  BY <1>3, <1>4
<1> QED
  BY <1>3, <1>4, <1>5

(* A loop of n steps that stays in T: step[<<a, k>>] is what the k-th makes of a. *)
LEMMA LoopExists ==
  ASSUME NEW n \in Nat, NEW T, NEW s \in T, NEW step \in [T \X (1..n) -> T]
  PROVE  \E g \in [0..n -> T] : g[0] = s /\ \A k \in 1..n : g[k] = step[<<g[k - 1], k>>]
<1> DEFINE Runs(m, g) == g \in [0..m -> T] /\ g[0] = s /\ \A k \in 1..m : g[k] = step[<<g[k - 1], k>>]
           P == {m \in 0..n : \E g : Runs(m, g)}
<1>1. 0 \in P
  <2> DEFINE g == [i \in 0..0 |-> s]
  <2>1. g \in [0..0 -> T] /\ g[0] = s /\ 1..0 = {}
    OBVIOUS
  <2>2. Runs(0, g)
    BY <2>1
  <2> HIDE DEF g
  <2>3. 0 \in 0..n
    OBVIOUS
  <2> QED
    BY <2>2, <2>3
<1>2. ASSUME NEW m \in 1..n, m - 1 \in P PROVE m \in P
  <2>1. PICK h : Runs(m - 1, h)
    BY <1>2
  <2>2. m \in Nat /\ m - 1 \in 0..(m - 1)
    OBVIOUS
  <2>3. h[m - 1] \in T
    BY <2>1, <2>2
  <2>4. step[<<h[m - 1], m>>] \in T
    BY <2>3
  <2> DEFINE g == [i \in 0..m |-> IF i = m THEN step[<<h[m - 1], m>>] ELSE h[i]]
  <2>5. g \in [0..m -> T]
    BY <2>1, <2>2, <2>4
  <2>6. g[0] = s
    BY <2>1, <2>2
  <2>7. ASSUME NEW k \in 1..m PROVE g[k] = step[<<g[k - 1], k>>]
    <3>1. k - 1 \in 0..m /\ k - 1 # m /\ k \in 0..m
      OBVIOUS
    <3>2. g[k - 1] = h[k - 1]
      BY <3>1
    <3>3. CASE k = m
      <4>1. g[m] = step[<<h[m - 1], m>>]
        BY <2>2
      <4> HIDE DEF g
      <4> QED
        BY <3>2, <3>3, <4>1
    <3>4. CASE k # m
      <4>1. k \in 1..(m - 1) /\ g[k] = h[k]
        BY <3>1, <3>4
      <4>2. h[k] = step[<<h[k - 1], k>>]
        BY <2>1, <4>1
      <4> HIDE DEF g
      <4> QED
        BY <3>2, <4>1, <4>2
    <3> QED
      BY <3>3, <3>4
  <2> HIDE DEF g
  <2>8. Runs(m, g)
    BY <2>5, <2>6, <2>7
  <2> QED
    BY <2>8
<1> HIDE DEF P
<1>3. \A k \in 0..n : k \in P
  BY <1>1, <1>2, Induct
<1>4. n \in 0..n
  OBVIOUS
<1> QED
  BY <1>3, <1>4 DEF P

(* The page of an address, given as the start of the page and a word of it. *)
LEMMA DivUnique ==
  ASSUME NEW p \in Nat, NEW m \in Nat, NEW w \in Nat, w < m
  PROVE  (p * m + w) \div m = p /\ (p * m + w) % m = w
<1> DEFINE a == p * m + w
           q == a \div m
           r == a % m
<1>0. a \in Nat /\ a = p * m + w /\ m > 0
  OBVIOUS
<1> HIDE DEF a
<1>1. q \in Int /\ r \in 0..(m - 1) /\ a = m * q + r
  BY <1>0
<1> HIDE DEF q, r
<1>2. m * (q - p) = w - r
  <2>1. m * (q - p) = m * q - m * p
    BY <1>1
  <2>2. m * p = p * m
    OBVIOUS
  <2> QED
    BY <1>0, <1>1, <2>1, <2>2
<1>3. q - p >= 1 => m * (q - p) >= m
  BY <1>1
<1>4. q - p <= -1 => m * (q - p) <= -m
  BY <1>1
<1>5. q - p = 0
  BY <1>1, <1>2, <1>3, <1>4
<1>6. q = p
  BY <1>1, <1>5
<1>7. m * 0 = 0
  OBVIOUS
<1>8. w = r
  BY <1>1, <1>2, <1>5, <1>7
<1> QED
  BY <1>6, <1>8 DEF a, q, r

(* A number is so many times the divisor, and a remainder. *)
LEMMA DivMod ==
  ASSUME NEW a \in Nat, NEW m \in Nat, m > 0
  PROVE  a \div m \in Nat /\ a % m \in 0..(m - 1) /\ a = (a \div m) * m + (a % m)
<1> DEFINE q == a \div m
           r == a % m
<1>1. q \in Int /\ r \in 0..(m - 1) /\ a = m * q + r
  OBVIOUS
<1> HIDE DEF q, r
<1>2. q <= -1 => m * q <= -m
  BY <1>1
<1>3. q >= 0
  BY <1>1, <1>2
<1>4. m * q = q * m
  BY <1>1
<1> QED
  BY <1>1, <1>3, <1>4 DEF q, r
=============================================================================
