---------------------------- MODULE OverlayProofs ----------------------------
(***************************************************************************)
(* Proofs about the arithmetic of Overlay and PathFinder, on which those   *)
(* about the protocols and about the walk through the overlay rest: what   *)
(* the loop of mod_pow computes, that log2n is a number of rounds, that    *)
(* gossip_predecessor inverts gossip_target, that 2 generates the groups   *)
(* of the moduli, and the bounds of the aggregation groups.                *)
(*                                                                         *)
(* Recursive functions are reasoned about by induction over sets of        *)
(* numbers (lemmas Induction and UpTo).                                    *)
(***************************************************************************)
EXTENDS PathFinder, FiniteSetTheorems, SequenceTheorems, TLAPS

------------------------------------------------------------------------------
(* Induction over the natural numbers, for sets of them. *)

\* A set that holds 0, and with a number its successor, holds every number:
\* by well-founded induction on the subsets of 1..n.
LEMMA Induction ==
  ASSUME NEW P, 0 \in P, \A k \in Nat : k \in P => k + 1 \in P
  PROVE  Nat \subseteq P
<1> SUFFICES ASSUME NEW n \in Nat, n \notin P PROVE FALSE
  OBVIOUS
<1> DEFINE T == {1..k : k \in (0..n) \ P}
<1>1. T \subseteq SUBSET (1..n)
  OBVIOUS
<1>2. 1..n \in T
  OBVIOUS
<1>3. IsWellFoundedOn(StrictSubsetOrdering(1..n), SUBSET (1..n))
  <2>1. IsFiniteSet(1..n)
    BY FS_Interval
  <2>2. FiniteSubsetsOf(1..n) = SUBSET (1..n)
    BY <2>1, FS_FiniteSubsetsOfFinite
  <2>3. IsWellFoundedOn(StrictSubsetOrdering(1..n), FiniteSubsetsOf(1..n))
    BY FS_StrictSubsetOrderingWellFounded
  <2> QED
    BY <2>2, <2>3
<1>4. PICK x \in T : \A y \in T : <<y, x>> \notin StrictSubsetOrdering(1..n)
  BY <1>1, <1>2, <1>3, WFMin
<1>5. PICK k \in (0..n) \ P : x = 1..k
  BY <1>4
<1>6. k - 1 \in (0..n) \ P
  BY <1>5
<1>7. 1..(k - 1) \in T
  BY <1>6
<1>8. 1..(k - 1) \subseteq x /\ k \in x /\ k \notin 1..(k - 1)
  BY <1>5, <1>6
<1>9. <<1..(k - 1), x>> \in StrictSubsetOrdering(1..n)
  BY <1>1, <1>4, <1>7, <1>8 DEF StrictSubsetOrdering
<1> QED
  BY <1>4, <1>7, <1>9

\* The same up to N, for recursive definitions that are given up to N only.
LEMMA UpTo ==
  ASSUME NEW N \in Nat, NEW P, 0 \in P, \A k \in 0..(N - 1) : k \in P => k + 1 \in P
  PROVE  0..N \subseteq P
<1> DEFINE Q == {k \in Nat : k <= N => k \in P}
<1>1. 0 \in Q
  OBVIOUS
<1>2. ASSUME NEW k \in Nat, k \in Q PROVE k + 1 \in Q
  <2>1. CASE k + 1 <= N
    <3>1. k \in 0..(N - 1) /\ k \in P
      BY <1>2, <2>1
    <3> QED
      BY <3>1
  <2> QED
    BY <2>1
<1> HIDE DEF Q
<1>3. Nat \subseteq Q
  BY <1>1, <1>2, Induction
<1> QED
  BY <1>3 DEF Q

------------------------------------------------------------------------------
(* Recursive functions of 0..N. *)

\* f is the recursive function of 0..N that starts at base and makes these steps.
Iterates(f, N, D, base, step) ==
  /\ f \in [0..N -> D]
  /\ f[0] = base
  /\ \A k \in 0..(N - 1) : f[k + 1] = step[k][f[k]]

\* Such a function exists.
LEMMA Recursion ==
  ASSUME NEW N \in Nat, NEW D, NEW base \in D, NEW step \in [0..(N - 1) -> [D -> D]]
  PROVE  \E f : Iterates(f, N, D, base, step)
<1> SUFFICES \E f \in [0..N -> D] :
               f[0] = base /\ \A k \in 0..(N - 1) : f[k + 1] = step[k][f[k]]
  BY DEF Iterates
<1> DEFINE Good(f, n) == f[0] = base /\ \A k \in 0..(n - 1) : f[k + 1] = step[k][f[k]]
           P == {n \in 0..N : \E f \in [0..N -> D] : Good(f, n)}
<1>1. 0 \in P
  <2> DEFINE f == [k \in 0..N |-> base]
  <2>1. f \in [0..N -> D] /\ Good(f, 0)
    OBVIOUS
  <2> HIDE DEF f, Good
  <2> QED
    BY <2>1
<1>2. ASSUME NEW n \in 0..(N - 1), n \in P PROVE n + 1 \in P
  <2>1. PICK f \in [0..N -> D] : Good(f, n)
    BY <1>2
  <2> DEFINE g == [k \in 0..N |-> IF k = n + 1 THEN step[n][f[n]] ELSE f[k]]
  <2>2. n + 1 \in 0..N /\ n \in 0..N
    OBVIOUS
  <2>3. step[n][f[n]] \in D
    BY <2>2
  <2>4. g \in [0..N -> D]
    BY <2>3
  <2>5. ASSUME NEW k \in 0..n PROVE g[k + 1] = step[k][g[k]]
    <3>1. k \in 0..N /\ k + 1 \in 0..N /\ k # n + 1
      OBVIOUS
    <3>2. g[k] = f[k]
      BY <3>1
    <3>3. CASE k = n
      <4>1. g[k + 1] = step[n][f[n]]
        BY <3>1, <3>3
      <4> QED
        BY <3>2, <3>3, <4>1
    <3>4. CASE k # n
      <4>1. k \in 0..(n - 1) /\ g[k + 1] = f[k + 1]
        BY <3>1, <3>4
      <4> QED
        BY <2>1, <3>2, <4>1
    <3> QED
      BY <3>3, <3>4
  <2>6. g[0] = base
    BY <2>1
  <2> HIDE DEF g
  <2>7. Good(g, n + 1)
    <3>1. 0..(n + 1 - 1) = 0..n
      OBVIOUS
    <3> QED
      BY <2>5, <2>6, <3>1
  <2> HIDE DEF Good
  <2> QED
    BY <2>2, <2>4, <2>7
<1> HIDE DEF P
<1>3. 0..N \subseteq P
  BY <1>1, <1>2, UpTo
<1> QED
  BY <1>3 DEF P

\* A function that iterates steps has this recursive definition ...
LEMMA Iteration ==
  ASSUME NEW N \in Nat, NEW D, NEW base, NEW step, NEW f, Iterates(f, N, D, base, step)
  PROVE  f = [k \in 0..N |-> IF k = 0 THEN base ELSE step[k-1][f[k-1]]]
         /\ f \in [0..N -> D]
<1> SUFFICES ASSUME NEW k \in 0..N
             PROVE  f[k] = IF k = 0 THEN base ELSE step[k-1][f[k-1]]
  BY DEF Iterates
<1>1. CASE k = 0
  BY <1>1 DEF Iterates
<1>2. CASE k # 0
  <2>1. k - 1 \in 0..(N - 1) /\ (k - 1) + 1 = k
    BY <1>2
  <2> QED
    BY <1>2, <2>1 DEF Iterates
<1> QED
  BY <1>1, <1>2

\* ... and one whose steps stay in a set has its values there.
LEMMA Typed ==
  ASSUME NEW N \in Nat, NEW D, NEW f, f = [k \in 0..N |-> f[k]], f[0] \in D,
         \A k \in 0..(N - 1) : f[k] \in D => f[k + 1] \in D
  PROVE  f \in [0..N -> D]
<1> DEFINE P == {k \in 0..N : f[k] \in D}
<1>1. 0 \in P
  OBVIOUS
<1>2. ASSUME NEW k \in 0..(N - 1), k \in P PROVE k + 1 \in P
  <2>1. k + 1 \in 0..N /\ f[k] \in D
    BY <1>2
  <2>2. f[k + 1] \in D
    BY <2>1
  <2> QED
    BY <2>1, <2>2
<1> HIDE DEF P
<1>3. 0..N \subseteq P
  BY <1>1, <1>2, UpTo
<1>4. \A k \in 0..N : f[k] \in D
  BY <1>3 DEF P
<1> QED
  BY <1>4

------------------------------------------------------------------------------
(* Division. *)

\* Division rounds down.
LEMMA Quotient ==
  ASSUME NEW m \in Nat, NEW s \in Nat \ {0}
  PROVE  m \div s \in Nat /\ (m \div s) * s <= m /\ m < (m \div s + 1) * s
OBVIOUS

\* Multiplication by s keeps the order.
LEMMA Multiples ==
  ASSUME NEW a \in Nat, NEW b \in Nat, a <= b, NEW s \in Nat
  PROVE  a * s \in Nat /\ b * s \in Nat /\ a * s <= b * s
OBVIOUS

\* A quotient is below k as long as the number is below k times the divisor.
LEMMA QuotientBelow ==
  ASSUME NEW m \in Nat, NEW s \in Nat \ {0}, NEW k \in Nat
  PROVE  m \div s < k <=> m < k * s
<1> DEFINE q == m \div s
<1>1. q \in Nat /\ q * s <= m /\ m < (q + 1) * s
  BY Quotient
<1> HIDE DEF q
<1>2. q * s \in Nat /\ (q + 1) * s \in Nat /\ k * s \in Nat
  BY <1>1, Multiples
<1>3. CASE q < k
  <2>1. (q + 1) * s <= k * s
    BY <1>1, <1>3, Multiples
  <2> QED
    BY <1>1, <1>2, <1>3, <2>1
<1>4. CASE k <= q
  <2>1. k * s <= q * s
    BY <1>1, <1>4, Multiples
  <2> QED
    BY <1>1, <1>2, <1>4, <2>1
<1>5. q < k <=> m < k * s
  BY <1>1, <1>3, <1>4
<1> QED
  BY <1>5 DEF q

\* Division leaves a remainder ...
LEMMA Division ==
  ASSUME NEW m \in Nat, NEW s \in Nat \ {0}
  PROVE  \E q \in Nat, r \in 0..(s - 1) : q = m \div s /\ r = m % s /\ m = q * s + r
<1>1. PICK q : q = m \div s
  OBVIOUS
<1>2. PICK r : r = m % s
  OBVIOUS
<1>3. q \in Nat /\ r \in 0..(s - 1)
  BY <1>1, <1>2
<1>4. m = q * s + r
  BY <1>1, <1>2, <1>3
<1> QED
  BY <1>1, <1>2, <1>3, <1>4, Zenon

\* ... in one way.
LEMMA Remainder ==
  ASSUME NEW m \in Nat, NEW s \in Nat \ {0}, NEW k \in Nat, NEW r \in 0..(s - 1),
         m = k * s + r
  PROVE  m % s = r
OBVIOUS

\* A factor may be replaced by its remainder.
LEMMA RemainderOfProduct ==
  ASSUME NEW a \in Nat, NEW b \in Nat, NEW s \in Nat \ {0}
  PROVE  ((a % s) * b) % s = (a * b) % s
<1>1. PICK q \in Nat, r \in 0..(s - 1) : q = a \div s /\ r = a % s /\ a = q * s + r
  BY Division, Zenon
<1> DEFINE c == r * b
<1>2. c \in Nat
  BY <1>1
<1>3. PICK p \in Nat, y \in 0..(s - 1) : p = c \div s /\ y = c % s /\ c = p * s + y
  <2> HIDE DEF c
  <2>1. c \in Nat
    BY <1>2
  <2> QED
    BY <2>1, Division, Zenon
<1>4. q * b + p \in Nat /\ a * b = (q * b + p) * s + y
  <2>1. s \in Nat /\ r \in Nat /\ y \in Nat
    BY <1>1, <1>3
  <2>2. r * b = p * s + y
    BY <1>3
  <2>3. (q * s + r) * b = (q * s) * b + r * b
    BY <2>1
  <2>4. (q * s) * b = (q * b) * s
    BY <2>1
  <2>5. (q * b + p) * s = (q * b) * s + p * s
    BY <2>1
  <2>6. (q * b) * s \in Nat /\ p * s \in Nat /\ q * b + p \in Nat /\ r * b \in Nat
    BY <2>1
  <2>7. (q * s + r) * b = (q * b + p) * s + y
    BY <2>1, <2>2, <2>3, <2>4, <2>5, <2>6
  <2> QED
    BY <1>1, <2>6, <2>7, Zenon
<1>5. a * b \in Nat
  OBVIOUS
<1>6. (a * b) % s = y
  <2> DEFINE m == a * b
             k == q * b + p
  <2>1. m \in Nat /\ k \in Nat /\ m = k * s + y
    BY <1>4, <1>5
  <2> HIDE DEF m, k
  <2>2. m % s = y
    BY <1>3, <2>1, Remainder
  <2> QED
    BY <2>2 DEF m
<1>7. (r * b) % s = y
  BY <1>3
<1> HIDE DEF c
<1> QED
  BY <1>1, <1>6, <1>7, Zenon

------------------------------------------------------------------------------
(* PathFinder's log2n. *)

\* ceil(log2(n)) is a number of rounds.
LEMMA Log2Positive ==
  ASSUME NEW n \in Nat \ {0, 1}
  PROVE  log2n(n) \in Nat \ {0}
<1> DEFINE power[k \in 0..n] == IF k = 0 THEN 1 ELSE 2 * power[k-1]
           Least(k) == power[k] >= n /\ \A j \in 0..(k - 1) : power[j] < n
<1>1. /\ power \in [0..n -> Nat] /\ power[0] = 1
      /\ \A k \in 0..(n - 1) : power[k + 1] = 2 * power[k]
  <2> DEFINE step == [k \in 0..(n - 1) |-> [x \in Nat |-> 2 * x]]
  <2>1. step \in [0..(n - 1) -> [Nat -> Nat]]
    OBVIOUS
  <2> HIDE DEF step
  <2>2. PICK f : Iterates(f, n, Nat, 1, step)
    BY 1 \in Nat, <2>1, Recursion
  <2>3. /\ f \in [0..n -> Nat] /\ f[0] = 1
        /\ \A k \in 0..(n - 1) : f[k + 1] = 2 * f[k]
    <3>1. /\ f \in [0..n -> Nat] /\ f[0] = 1
          /\ \A k \in 0..(n - 1) : f[k + 1] = step[k][f[k]]
      BY <2>2 DEF Iterates
    <3>2. ASSUME NEW k \in 0..(n - 1) PROVE step[k][f[k]] = 2 * f[k]
      <4>1. f[k] \in Nat
        BY <3>1
      <4> QED
        BY <4>1 DEF step
    <3> QED
      BY <3>1, <3>2
  <2>4. f = [k \in 0..n |-> IF k = 0 THEN 1 ELSE 2 * f[k-1]]
    <3> SUFFICES ASSUME NEW k \in 0..n
                 PROVE  f[k] = IF k = 0 THEN 1 ELSE 2 * f[k-1]
      BY <2>3
    <3>1. CASE k = 0
      BY <2>3, <3>1
    <3>2. CASE k # 0
      <4>1. k - 1 \in 0..(n - 1) /\ (k - 1) + 1 = k
        BY <3>2
      <4> QED
        BY <2>3, <3>2, <4>1
    <3> QED
      BY <3>1, <3>2
  <2>5. power = [k \in 0..n |-> IF k = 0 THEN 1 ELSE 2 * power[k-1]]
    BY <2>4
  <2> HIDE DEF power
  <2>6. power[0] = 1 /\ \A k \in 0..(n - 1) : power[k + 1] = 2 * power[k]
    <3>1. ASSUME NEW k \in 0..(n - 1) PROVE power[k + 1] = 2 * power[k]
      <4>1. k + 1 \in 0..n /\ k + 1 # 0 /\ (k + 1) - 1 = k
        OBVIOUS
      <4> QED
        BY <2>5, <4>1
    <3> QED
      BY <2>5, <3>1
  <2>7. power \in [0..n -> Nat]
    <3> DEFINE P == {k \in 0..n : power[k] \in Nat}
    <3>1. 0 \in P
      BY <2>6
    <3>2. ASSUME NEW k \in 0..(n - 1), k \in P PROVE k + 1 \in P
      BY <2>6, <3>2
    <3> HIDE DEF P
    <3>3. 0..n \subseteq P
      BY <3>1, <3>2, UpTo
    <3>4. \A k \in 0..n : power[k] \in Nat
      BY <3>3 DEF P
    <3> QED
      BY <2>5, <3>4
  <2> QED
    BY <2>6, <2>7
<1>2. log2n(n) = CHOOSE k \in 0..n : Least(k)
  BY DEF log2n
<1> HIDE DEF power
<1>3. \E k \in 0..n : power[k] >= n
  <2> DEFINE P == {k \in 0..n : power[k] >= k + 1}
  <2>1. 0 \in P
    BY <1>1
  <2>2. ASSUME NEW k \in 0..(n - 1), k \in P PROVE k + 1 \in P
    <3>1. power[k + 1] = 2 * power[k] /\ power[k] \in Nat
      BY <1>1
    <3> QED
      BY <2>2, <3>1
  <2> HIDE DEF P
  <2>3. 0..n \subseteq P
    BY <2>1, <2>2, UpTo
  <2>4. power[n] >= n + 1 /\ power[n] \in Nat
    BY <1>1, <2>3 DEF P
  <2> QED
    BY <2>4
<1>4. \E k \in 0..n : Least(k)
  <2> SUFFICES ASSUME \A k \in 0..n : ~Least(k) PROVE FALSE
    OBVIOUS
  <2> DEFINE P == {k \in 0..n : \A j \in 0..k : power[j] < n}
  <2>1. 0 \in P
    BY <1>1
  <2>2. ASSUME NEW k \in 0..(n - 1), k \in P PROVE k + 1 \in P
    <3>1. \A j \in 0..k : power[j] < n
      BY <2>2
    <3>2. k + 1 \in 0..n /\ (k + 1) - 1 = k
      OBVIOUS
    <3>3. power[k + 1] \in Nat
      BY <1>1, <3>2
    <3>4. ~Least(k + 1)
      BY <3>2
    <3>5. ~(power[k + 1] >= n)
      BY <3>1, <3>2, <3>4
    <3>6. \A j \in 0..(k + 1) : power[j] < n
      BY <3>1, <3>3, <3>5
    <3> QED
      BY <3>2, <3>6
  <2> HIDE DEF P
  <2>3. 0..n \subseteq P
    BY <2>1, <2>2, UpTo
  <2>4. ASSUME NEW k \in 0..n PROVE power[k] < n /\ power[k] \in Nat
    <3>1. k \in P
      BY <2>3
    <3>2. k \in 0..k
      OBVIOUS
    <3> QED
      BY <1>1, <3>1, <3>2 DEF P
  <2> QED
    BY <1>3, <2>4
<1>5. ~Least(0)
  BY <1>1
<1> HIDE DEF Least
<1> QED
  BY <1>2, <1>4, <1>5

------------------------------------------------------------------------------
(* mod_pow. *)

\* p[k] is the k-th power of b, every product reduced modulo mod.
Powers(p, b, mod, N) ==
  /\ p \in [0..N -> Nat]
  /\ p[0] = 1
  /\ \A k \in 0..(N - 1) : p[k + 1] = (p[k] * b) % mod

LEMMA PowersExist ==
  ASSUME NEW N \in Nat, NEW b \in Nat, NEW mod \in Nat \ {0}
  PROVE  \E p : Powers(p, b, mod, N)
<1> DEFINE step == [k \in 0..(N - 1) |-> [x \in Nat |-> (x * b) % mod]]
<1>1. step \in [0..(N - 1) -> [Nat -> Nat]]
  <2>1. \A x \in Nat : x * b \in Nat /\ (x * b) % mod \in Nat
    OBVIOUS
  <2> QED
    BY <2>1
<1>2. \A k \in 0..(N - 1), x \in Nat : step[k][x] = (x * b) % mod
  OBVIOUS
<1> HIDE DEF step
<1>3. PICK p : Iterates(p, N, Nat, 1, step)
  BY 1 \in Nat, <1>1, Recursion
<1>4. /\ p \in [0..N -> Nat] /\ p[0] = 1
      /\ \A k \in 0..(N - 1) : p[k + 1] = step[k][p[k]]
  BY <1>3 DEF Iterates
<1>5. ASSUME NEW k \in 0..(N - 1) PROVE p[k + 1] = (p[k] * b) % mod
  <2>1. p[k] \in Nat
    BY <1>4
  <2> QED
    BY <1>2, <1>4, <2>1
<1> QED
  BY <1>4, <1>5 DEF Powers

\* There is one such function, and its values are reduced.
LEMMA PowersUnique ==
  ASSUME NEW N \in Nat, NEW b \in Nat, NEW mod \in Nat \ {0, 1},
         NEW p, Powers(p, b, mod, N), NEW q, Powers(q, b, mod, N)
  PROVE  \A k \in 0..N : p[k] = q[k] /\ p[k] \in 0..(mod - 1)
<1> DEFINE P == {k \in 0..N : p[k] = q[k] /\ p[k] \in 0..(mod - 1)}
<1>1. 0 \in P
  BY DEF Powers
<1>2. ASSUME NEW k \in 0..(N - 1), k \in P PROVE k + 1 \in P
  <2>1. p[k + 1] = (p[k] * b) % mod /\ q[k + 1] = (p[k] * b) % mod /\ k + 1 \in 0..N
    BY <1>2 DEF Powers
  <2>2. p[k] * b \in Nat
    BY <1>2
  <2>3. (p[k] * b) % mod \in 0..(mod - 1)
    BY <2>2
  <2> QED
    BY <2>1, <2>3
<1> HIDE DEF P
<1>3. 0..N \subseteq P
  BY <1>1, <1>2, UpTo
<1> QED
  BY <1>3 DEF P

\* Two factors are one square.
LEMMA TwoFactors ==
  ASSUME NEW x \in Nat, NEW b \in Nat, NEW mod \in Nat \ {0}
  PROVE  (((x * b) % mod) * b) % mod = (x * ((b * b) % mod)) % mod
<1> DEFINE a == x * b
           c == b * b
           e == c % mod
<1>1. a \in Nat /\ c \in Nat
  OBVIOUS
<1>2. a * b = c * x
  OBVIOUS
<1>3. e \in Nat
  <2> HIDE DEF c
  <2> QED
    BY <1>1
<1>4. x * e = e * x
  <2> HIDE DEF e
  <2> QED
    BY <1>3
<1> HIDE DEF a, c
<1>5. ((a % mod) * b) % mod = (a * b) % mod
  BY <1>1, RemainderOfProduct, Zenon
<1>6. (e * x) % mod = (c * x) % mod
  BY <1>1, RemainderOfProduct, Zenon
<1> QED
  BY <1>2, <1>4, <1>5, <1>6, Zenon DEF a, c

LEMMA Squares ==
  ASSUME NEW N \in Nat, NEW b \in Nat, NEW mod \in Nat \ {0}, NEW s, s = (b * b) % mod,
         NEW p, Powers(p, b, mod, N), NEW q, Powers(q, s, mod, N)
  PROVE  \A k \in 0..N : 2 * k <= N => p[2 * k] = q[k]
<1> DEFINE P == {k \in 0..N : 2 * k <= N => p[2 * k] = q[k]}
<1>1. 0 \in P
  BY DEF Powers
<1>2. ASSUME NEW k \in 0..(N - 1), k \in P PROVE k + 1 \in P
  <2> SUFFICES ASSUME 2 * (k + 1) <= N PROVE p[2 * (k + 1)] = q[k + 1]
    OBVIOUS
  <2>1. 2 * k \in 0..(N - 1) /\ 2 * k + 1 \in 0..(N - 1) /\ 2 * (k + 1) = (2 * k + 1) + 1
    OBVIOUS
  <2>2. p[2 * k] = q[k]
    BY <1>2, <2>1
  <2>3. p[2 * k + 1] = (q[k] * b) % mod
    BY <2>1, <2>2 DEF Powers
  <2>4. p[(2 * k + 1) + 1] = (p[2 * k + 1] * b) % mod
    BY <2>1 DEF Powers
  <2>5. q[k + 1] = (q[k] * s) % mod /\ q[k] \in Nat
    <3>1. q \in [0..N -> Nat] /\ \A j \in 0..(N - 1) : q[j + 1] = (q[j] * s) % mod
      BY Zenon DEF Powers
    <3> QED
      BY <3>1
  <2>6. (((q[k] * b) % mod) * b) % mod = (q[k] * ((b * b) % mod)) % mod
    BY <2>5, TwoFactors, Zenon
  <2> QED
    BY <2>1, <2>3, <2>4, <2>5, <2>6, Zenon
<1> HIDE DEF P
<1>3. 0..N \subseteq P
  BY <1>1, <1>2, UpTo
<1> QED
  BY <1>3 DEF P

\* One turn of mod_pow's loop: y is result before, z after it.
LEMMA Turn ==
  ASSUME NEW N \in Nat, NEW b \in Nat, NEW mod \in Nat \ {0}, NEW s, s = (b * b) % mod,
         NEW p, Powers(p, b, mod, N), NEW q, Powers(q, s, mod, N),
         NEW l \in 0..N, NEW h, h = l \div 2,
         NEW y \in Nat, NEW z, z = IF l % 2 = 1 THEN (y * b) % mod ELSE y
  PROVE  (z * q[h]) % mod = (y * p[l]) % mod
<1>1. h \in 0..N /\ 2 * h <= N /\ 2 * h \in 0..N /\ (l % 2 = 1 => l = 2 * h + 1)
      /\ (l % 2 # 1 => l = 2 * h)
  OBVIOUS
<1>2. p[2 * h] = q[h]
  BY <1>1, Squares
<1>3. q[h] \in Nat
  BY <1>1 DEF Powers
<1>4. CASE l % 2 # 1
  BY <1>1, <1>2, <1>4
<1>5. CASE l % 2 = 1
  <2>1. 2 * h \in 0..(N - 1) /\ l = 2 * h + 1
    BY <1>1, <1>5
  <2>2. \A k \in 0..(N - 1) : p[k + 1] = (p[k] * b) % mod
    BY Zenon DEF Powers
  <2>3. p[l] = (q[h] * b) % mod
    BY <1>2, <2>1, <2>2, Zenon
  <2> DEFINE x == q[h]
             c == y * b
             d == x * b
             e == d % mod
  <2>4. x \in Nat
    BY <1>3
  <2> HIDE DEF x
  <2>5. c \in Nat /\ d \in Nat
    BY <2>4
  <2>6. c * x = d * y
    BY <2>4
  <2>7. e \in Nat
    <3> HIDE DEF d
    <3> QED
      BY <2>5
  <2>8. y * e = e * y
    <3> HIDE DEF e
    <3> QED
      BY <2>7
  <2> HIDE DEF c, d
  <2>9. ((c % mod) * x) % mod = (c * x) % mod
    BY <2>4, <2>5, RemainderOfProduct
  <2>10. (e * y) % mod = (d * y) % mod
    BY <2>5, RemainderOfProduct
  <2>11. z = c % mod /\ p[l] = e
    BY <1>5, <2>3, Zenon DEF c, d, x
  <2> HIDE DEF e
  <2>12. ((c % mod) * x) % mod = (y * e) % mod
    BY <2>6, <2>8, <2>9, <2>10, Zenon
  <2> QED
    BY <2>11, <2>12, Zenon DEF x
<1> QED
  BY <1>4, <1>5

\* mod_pow's loop, which halves left and squares square, leaves in result what
\* repeated multiplication gives.
THEOREM ModPow ==
  ASSUME NEW N \in Nat, NEW num \in Nat, NEW mod \in Nat \ {0, 1},
         NEW p, Powers(p, num, mod, N)
  PROVE  mod_pow(num, N, mod) = p[N]
<1> DEFINE
      left[turns \in 0..N] == IF turns = 0 THEN N ELSE left[turns-1] \div 2
      square[turns \in 0..N] ==
        IF turns = 0 THEN num
        ELSE LET q == square[turns-1] IN (q * q) % mod
      result[turns \in 0..N] ==
        IF turns = 0 THEN 1
        ELSE IF left[turns-1] % 2 = 1
             THEN (result[turns-1] * square[turns-1]) % mod
             ELSE result[turns-1]
      last == CHOOSE turns \in 0..N : left[turns] = 0
<1>1. mod_pow(num, N, mod) = result[last]
  BY DEF mod_pow
<1>2. /\ left \in [0..N -> Nat] /\ left[0] = N
      /\ \A k \in 0..(N - 1) : left[k + 1] = left[k] \div 2
  <2> DEFINE step == [k \in 0..(N - 1) |-> [x \in Nat |-> x \div 2]]
  <2>1. ASSUME NEW k \in 0..(N - 1), NEW x \in Nat PROVE x \div 2 \in Nat
    OBVIOUS
  <2>2. step \in [0..(N - 1) -> [Nat -> Nat]]
    BY <2>1
  <2>3. \A k \in 0..(N - 1), x \in Nat : step[k][x] = x \div 2
    OBVIOUS
  <2> HIDE DEF step
  <2>4. PICK f : Iterates(f, N, Nat, N, step)
    <3>1. N \in Nat
      OBVIOUS
    <3> QED
      BY <2>2, <3>1, Recursion, Zenon
  <2>5. f = [turns \in 0..N |-> IF turns = 0 THEN N ELSE step[turns-1][f[turns-1]]]
        /\ f \in [0..N -> Nat]
    BY <2>4, Iteration
  <2>6. f = [turns \in 0..N |-> IF turns = 0 THEN N ELSE f[turns-1] \div 2]
    <3>1. ASSUME NEW turns \in 0..N, turns # 0
          PROVE  step[turns-1][f[turns-1]] = f[turns-1] \div 2
      <4>1. turns - 1 \in 0..(N - 1) /\ turns - 1 \in 0..N
        BY <3>1
      <4>2. f[turns-1] \in Nat
        BY <2>5, <4>1
      <4> QED
        BY <2>3, <4>1, <4>2, Zenon
    <3> QED
      BY <2>5, <3>1
  <2>7. left = [turns \in 0..N |-> IF turns = 0 THEN N ELSE left[turns-1] \div 2]
    BY <2>6
  <2> HIDE DEF left
  <2>8. \A k \in 0..(N - 1) : left[k + 1] = left[k] \div 2
    <3> SUFFICES ASSUME NEW k \in 0..(N - 1) PROVE left[k + 1] = left[k] \div 2
      OBVIOUS
    <3>1. k + 1 \in 0..N /\ k + 1 # 0 /\ (k + 1) - 1 = k
      OBVIOUS
    <3> QED
      BY <2>7, <3>1
  <2>9. left \in [0..N -> Nat]
    <3>1. left[0] \in Nat /\ DOMAIN left = 0..N /\ left = [k \in 0..N |-> left[k]]
      BY <2>7
    <3>2. \A k \in 0..(N - 1) : left[k] \in Nat => left[k + 1] \in Nat
      BY <2>1, <2>8, Zenon
    <3> QED
      BY <3>1, <3>2, Typed
  <2> QED
    BY <2>7, <2>8, <2>9
<1> HIDE DEF left
<1>3. /\ square \in [0..N -> Nat] /\ square[0] = num
      /\ \A k \in 0..(N - 1) : square[k + 1] = (square[k] * square[k]) % mod
  <2> DEFINE step == [k \in 0..(N - 1) |-> [x \in Nat |-> (x * x) % mod]]
  <2>1. ASSUME NEW k \in 0..(N - 1), NEW x \in Nat PROVE (x * x) % mod \in Nat
    <3>1. x * x \in Nat
      OBVIOUS
    <3> QED
      BY <3>1
  <2>2. step \in [0..(N - 1) -> [Nat -> Nat]]
    BY <2>1
  <2>3. \A k \in 0..(N - 1), x \in Nat : step[k][x] = (x * x) % mod
    OBVIOUS
  <2> HIDE DEF step
  <2>4. PICK f : Iterates(f, N, Nat, num, step)
    <3>1. num \in Nat
      OBVIOUS
    <3> QED
      BY <2>2, <3>1, Recursion, Zenon
  <2>5. f = [turns \in 0..N |-> IF turns = 0 THEN num ELSE step[turns-1][f[turns-1]]]
        /\ f \in [0..N -> Nat]
    BY <2>4, Iteration
  <2>6. f = [turns \in 0..N |-> IF turns = 0 THEN num ELSE (f[turns-1] * f[turns-1]) % mod]
    <3>1. ASSUME NEW turns \in 0..N, turns # 0
          PROVE  step[turns-1][f[turns-1]] = (f[turns-1] * f[turns-1]) % mod
      <4>1. turns - 1 \in 0..(N - 1) /\ turns - 1 \in 0..N
        BY <3>1
      <4>2. f[turns-1] \in Nat
        BY <2>5, <4>1
      <4> QED
        BY <2>3, <4>1, <4>2, Zenon
    <3> QED
      BY <2>5, <3>1
  <2>7. square = [turns \in 0..N |-> IF turns = 0 THEN num ELSE (square[turns-1] * square[turns-1]) % mod]
    BY <2>6
  <2> HIDE DEF square
  <2>8. \A k \in 0..(N - 1) : square[k + 1] = (square[k] * square[k]) % mod
    <3> SUFFICES ASSUME NEW k \in 0..(N - 1) PROVE square[k + 1] = (square[k] * square[k]) % mod
      OBVIOUS
    <3>1. k + 1 \in 0..N /\ k + 1 # 0 /\ (k + 1) - 1 = k
      OBVIOUS
    <3> QED
      BY <2>7, <3>1
  <2>9. square \in [0..N -> Nat]
    <3>1. square[0] \in Nat /\ DOMAIN square = 0..N /\ square = [k \in 0..N |-> square[k]]
      BY <2>7
    <3>2. \A k \in 0..(N - 1) : square[k] \in Nat => square[k + 1] \in Nat
      BY <2>1, <2>8, Zenon
    <3> QED
      BY <3>1, <3>2, Typed
  <2> QED
    BY <2>7, <2>8, <2>9
<1> HIDE DEF square
<1>4. /\ result \in [0..N -> (0..(mod - 1))] /\ result[0] = 1
      /\ \A k \in 0..(N - 1) : result[k + 1] = (IF left[k] % 2 = 1 THEN (result[k] * square[k]) % mod ELSE result[k])
  <2> DEFINE step == [k \in 0..(N - 1) |-> [x \in (0..(mod - 1)) |-> (IF left[k] % 2 = 1 THEN (x * square[k]) % mod ELSE x)]]
  <2>1. ASSUME NEW k \in 0..(N - 1), NEW x \in (0..(mod - 1)) PROVE (IF left[k] % 2 = 1 THEN (x * square[k]) % mod ELSE x) \in (0..(mod - 1))
    <3>1. square[k] \in Nat
      BY <1>3
    <3>2. x * square[k] \in Nat
      BY <3>1
    <3> QED
      BY <3>2
  <2>2. step \in [0..(N - 1) -> [(0..(mod - 1)) -> (0..(mod - 1))]]
    BY <2>1
  <2>3. \A k \in 0..(N - 1), x \in (0..(mod - 1)) : step[k][x] = (IF left[k] % 2 = 1 THEN (x * square[k]) % mod ELSE x)
    OBVIOUS
  <2> HIDE DEF step
  <2>4. PICK f : Iterates(f, N, (0..(mod - 1)), 1, step)
    <3>1. 1 \in (0..(mod - 1))
      OBVIOUS
    <3> QED
      BY <2>2, <3>1, Recursion, Zenon
  <2>5. f = [turns \in 0..N |-> IF turns = 0 THEN 1 ELSE step[turns-1][f[turns-1]]]
        /\ f \in [0..N -> (0..(mod - 1))]
    BY <2>4, Iteration
  <2>6. f = [turns \in 0..N |-> IF turns = 0 THEN 1 ELSE (IF left[turns-1] % 2 = 1 THEN (f[turns-1] * square[turns-1]) % mod ELSE f[turns-1])]
    <3>1. ASSUME NEW turns \in 0..N, turns # 0
          PROVE  step[turns-1][f[turns-1]] = (IF left[turns-1] % 2 = 1 THEN (f[turns-1] * square[turns-1]) % mod ELSE f[turns-1])
      <4>1. turns - 1 \in 0..(N - 1) /\ turns - 1 \in 0..N
        BY <3>1
      <4>2. f[turns-1] \in (0..(mod - 1))
        BY <2>5, <4>1
      <4> QED
        BY <2>3, <4>1, <4>2, Zenon
    <3> QED
      BY <2>5, <3>1
  <2>7. result = [turns \in 0..N |-> IF turns = 0 THEN 1 ELSE (IF left[turns-1] % 2 = 1 THEN (result[turns-1] * square[turns-1]) % mod ELSE result[turns-1])]
    BY <2>6
  <2> HIDE DEF result
  <2>8. \A k \in 0..(N - 1) : result[k + 1] = (IF left[k] % 2 = 1 THEN (result[k] * square[k]) % mod ELSE result[k])
    <3> SUFFICES ASSUME NEW k \in 0..(N - 1) PROVE result[k + 1] = (IF left[k] % 2 = 1 THEN (result[k] * square[k]) % mod ELSE result[k])
      OBVIOUS
    <3>1. k + 1 \in 0..N /\ k + 1 # 0 /\ (k + 1) - 1 = k
      OBVIOUS
    <3> QED
      BY <2>7, <3>1
  <2>9. result \in [0..N -> (0..(mod - 1))]
    <3>1. result[0] \in (0..(mod - 1)) /\ DOMAIN result = 0..N /\ result = [k \in 0..N |-> result[k]]
      BY <2>7
    <3>2. \A k \in 0..(N - 1) : result[k] \in (0..(mod - 1)) => result[k + 1] \in (0..(mod - 1))
      BY <2>1, <2>8, Zenon
    <3> QED
      BY <3>1, <3>2, Typed
  <2> QED
    BY <2>7, <2>8, <2>9
<1> HIDE DEF result
<1>5. left[N] = 0
  <2> DEFINE P == {k \in 0..N : left[k] <= N - k}
  <2>1. 0 \in P
    BY <1>2
  <2>2. ASSUME NEW k \in 0..(N - 1), k \in P PROVE k + 1 \in P
    <3>1. left[k + 1] = left[k] \div 2 /\ left[k] \in Nat
      BY <1>2
    <3> QED
      BY <2>2, <3>1
  <2> HIDE DEF P
  <2>3. 0..N \subseteq P
    BY <2>1, <2>2, UpTo
  <2>4. N \in P /\ left[N] \in Nat
    BY <1>2, <2>3
  <2> QED
    BY <2>4 DEF P
<1>6. last \in 0..N /\ left[last] = 0
  BY <1>5
<1> HIDE DEF last
<1>7. \A k \in 0..N : left[k] \in 0..N
  <2> DEFINE P == {k \in 0..N : left[k] \in 0..N}
  <2>1. 0 \in P
    BY <1>2
  <2>2. ASSUME NEW k \in 0..(N - 1), k \in P PROVE k + 1 \in P
    <3>1. left[k + 1] = left[k] \div 2 /\ left[k] \in Nat
      BY <1>2
    <3> QED
      BY <2>2, <3>1
  <2> HIDE DEF P
  <2>3. 0..N \subseteq P
    BY <2>1, <2>2, UpTo
  <2> QED
    BY <2>3 DEF P
\* What the loop has still to do: multiply result by the power of square that
\* left asks for.
<1> DEFINE Done(k) == \A q : Powers(q, square[k], mod, N) =>
                                (result[k] * q[left[k]]) % mod = p[N]
           P == {k \in 0..N : Done(k)}
<1>8. 0 \in P
  <2> SUFFICES ASSUME NEW q, Powers(q, num, mod, N) PROVE (1 * q[N]) % mod = p[N]
    BY <1>2, <1>3, <1>4
  <2>1. q[N] = p[N] /\ q[N] \in 0..(mod - 1)
    BY PowersUnique
  <2> QED
    BY <2>1
<1>9. ASSUME NEW k \in 0..(N - 1), k \in P PROVE k + 1 \in P
  <2> SUFFICES ASSUME NEW q, Powers(q, square[k + 1], mod, N)
               PROVE  (result[k + 1] * q[left[k + 1]]) % mod = p[N]
    OBVIOUS
  <2>1. k \in 0..N /\ square[k] \in Nat /\ result[k] \in Nat /\ left[k] \in 0..N
    BY <1>3, <1>4, <1>7
  <2>2. PICK r : Powers(r, square[k], mod, N)
    BY <2>1, PowersExist
  <2>3. (result[k] * r[left[k]]) % mod = p[N]
    BY <1>9, <2>2
  <2>4. /\ left[k + 1] = left[k] \div 2
        /\ square[k + 1] = (square[k] * square[k]) % mod
        /\ result[k + 1] = IF left[k] % 2 = 1 THEN (result[k] * square[k]) % mod ELSE result[k]
    BY <1>2, <1>3, <1>4
  <2>5. (result[k + 1] * q[left[k + 1]]) % mod = (result[k] * r[left[k]]) % mod
    <3> DEFINE l == left[k]
               b == square[k]
               y == result[k]
               h == left[k + 1]
               s == square[k + 1]
               z == result[k + 1]
    <3>1. l \in 0..N /\ b \in Nat /\ y \in Nat
      BY <2>1
    <3>2. h = l \div 2 /\ s = (b * b) % mod
      BY <2>4
    <3>3. z = IF l % 2 = 1 THEN (y * b) % mod ELSE y
      BY <2>4
    <3>4. Powers(r, b, mod, N) /\ Powers(q, s, mod, N)
      BY <2>2
    <3> HIDE DEF l, b, y, h, s, z
    <3>5. (z * q[h]) % mod = (y * r[l]) % mod
      BY <3>1, <3>2, <3>3, <3>4, Turn
    <3> QED
      BY <3>5 DEF l, y, h, z
  <2> QED
    BY <2>3, <2>5
<1> HIDE DEF P
<1>10. last \in P
  <2>1. 0..N \subseteq P
    BY <1>8, <1>9, UpTo
  <2> QED
    BY <1>6, <2>1
<1>11. square[last] \in Nat /\ result[last] \in 0..(mod - 1)
  BY <1>3, <1>4, <1>6
<1>12. PICK q : Powers(q, square[last], mod, N)
  BY <1>11, PowersExist
<1>13. (result[last] * q[0]) % mod = p[N] /\ q[0] = 1
  <2>1. q[0] = 1
    BY <1>12 DEF Powers
  <2> QED
    BY <1>6, <1>10, <1>12, <2>1 DEF P
<1> QED
  BY <1>1, <1>11, <1>13

\* mod_pow computes powers: 1 to begin with ...
LEMMA FirstPower ==
  ASSUME NEW num \in Nat, NEW mod \in Nat \ {0, 1}
  PROVE  mod_pow(num, 0, mod) = 1
<1>1. PICK p : Powers(p, num, mod, 0)
  BY PowersExist
<1>2. mod_pow(num, 0, mod) = p[0]
  BY <1>1, ModPow
<1> QED
  BY <1>1, <1>2 DEF Powers

\* ... and one factor more for one more in pow.
LEMMA NextPower ==
  ASSUME NEW N \in Nat, NEW num \in Nat, NEW mod \in Nat \ {0, 1}
  PROVE  /\ mod_pow(num, N, mod) \in 0..(mod - 1)
         /\ mod_pow(num, N + 1, mod) = (mod_pow(num, N, mod) * num) % mod
<1>1. N + 1 \in Nat
  OBVIOUS
<1>2. PICK p : Powers(p, num, mod, N + 1)
  BY <1>1, PowersExist
<1>3. /\ p \in [0..(N + 1) -> Nat] /\ p[0] = 1
      /\ \A k \in 0..N : p[k + 1] = (p[k] * num) % mod
  <2>1. (N + 1) - 1 = N
    OBVIOUS
  <2> QED
    BY <1>2, <2>1, Zenon DEF Powers
<1> DEFINE q == [k \in 0..N |-> p[k]]
<1>4. Powers(q, num, mod, N)
  <2>1. q \in [0..N -> Nat] /\ q[0] = 1
    BY <1>3
  <2>2. ASSUME NEW k \in 0..(N - 1) PROVE q[k + 1] = (q[k] * num) % mod
    <3>1. k \in 0..N /\ k + 1 \in 0..N
      OBVIOUS
    <3>2. q[k] = p[k] /\ q[k + 1] = p[k + 1]
      BY <3>1
    <3> QED
      BY <1>3, <3>1, <3>2, Zenon
  <2> HIDE DEF q
  <2> QED
    BY <2>1, <2>2 DEF Powers
<1>5. q[N] = p[N]
  OBVIOUS
<1> HIDE DEF q
<1>6. mod_pow(num, N, mod) = p[N]
  BY <1>4, <1>5, ModPow
<1>7. mod_pow(num, N + 1, mod) = p[N + 1]
  BY <1>1, <1>2, ModPow
<1>8. p[N] \in 0..(mod - 1)
  BY <1>4, <1>5, PowersUnique
<1>9. N \in 0..N
  OBVIOUS
<1> QED
  BY <1>3, <1>6, <1>7, <1>8, <1>9, Zenon

\* gossip_target is a meter, and gossip_predecessor inverts it.
LEMMA OffsetInverse ==
  ASSUME NEW n \in Nat \ {0, 1}, NEW id \in 0..(n - 1), NEW h \in 0..(n - 1)
  PROVE  /\ (id + h) % n = IF id + h < n THEN id + h ELSE id + h - n
         /\ (id + h) % n \in 0..(n - 1)
         /\ mod_subtract((id + h) % n, h, n) = id
<1>1. (id + h) % n = IF id + h < n THEN id + h ELSE id + h - n
  OBVIOUS
<1>2. (id + h) % n \in 0..(n - 1)
  OBVIOUS
<1> DEFINE t == (id + h) % n
<1> HIDE DEF t
<1>3. mod_subtract(t, h, n) = id
  <2>1. t = IF id + h < n THEN id + h ELSE id + h - n
    BY <1>1 DEF t
  <2> QED
    BY <2>1 DEF mod_subtract
<1> QED
  BY <1>1, <1>2, <1>3 DEF t

------------------------------------------------------------------------------
(* The moduli.  Each lemma goes through the powers of 2 and finds every     *)
(* number but 0 among them.                                                 *)

LEMMA PowersOfTwo3 ==
  ASSUME NEW h, h[0] = 1, \A t \in Nat : h[t + 1] = (h[t] * 2) % 3
  PROVE  h[2] = 1 /\ {h[t] : t \in 0..1} = 1..2
<1>1. /\ h[0] = 1 /\ h[1] = 2 /\ h[2] = 1
  OBVIOUS
<1>2. \A t \in 0..1 : h[t] \in 1..2
  BY <1>1
<1>3. \A d \in 1..2 : \E t \in 0..1 : h[t] = d
  BY <1>1
<1> QED
  BY <1>1, <1>2, <1>3

LEMMA PowersOfTwo5 ==
  ASSUME NEW h, h[0] = 1, \A t \in Nat : h[t + 1] = (h[t] * 2) % 5
  PROVE  h[4] = 1 /\ {h[t] : t \in 0..3} = 1..4
<1>1. /\ h[0] = 1 /\ h[1] = 2 /\ h[2] = 4 /\ h[3] = 3 /\ h[4] = 1
  OBVIOUS
<1>2. \A t \in 0..3 : h[t] \in 1..4
  BY <1>1
<1>3. \A d \in 1..4 : \E t \in 0..3 : h[t] = d
  BY <1>1
<1> QED
  BY <1>1, <1>2, <1>3

LEMMA PowersOfTwo11 ==
  ASSUME NEW h, h[0] = 1, \A t \in Nat : h[t + 1] = (h[t] * 2) % 11
  PROVE  h[10] = 1 /\ {h[t] : t \in 0..9} = 1..10
<1>1. /\ h[0] = 1 /\ h[1] = 2 /\ h[2] = 4 /\ h[3] = 8 /\ h[4] = 5 /\ h[5] = 10
      /\ h[6] = 9 /\ h[7] = 7 /\ h[8] = 3 /\ h[9] = 6 /\ h[10] = 1
  OBVIOUS
<1>2. \A t \in 0..9 : h[t] \in 1..10
  BY <1>1
<1>3. \A d \in 1..10 : \E t \in 0..9 : h[t] = d
  BY <1>1
<1> QED
  BY <1>1, <1>2, <1>3

LEMMA PowersOfTwo13 ==
  ASSUME NEW h, h[0] = 1, \A t \in Nat : h[t + 1] = (h[t] * 2) % 13
  PROVE  h[12] = 1 /\ {h[t] : t \in 0..11} = 1..12
<1>1. /\ h[0] = 1 /\ h[1] = 2 /\ h[2] = 4 /\ h[3] = 8 /\ h[4] = 3 /\ h[5] = 6
      /\ h[6] = 12 /\ h[7] = 11 /\ h[8] = 9 /\ h[9] = 5 /\ h[10] = 10 /\ h[11] = 7
      /\ h[12] = 1
  OBVIOUS
<1>2. \A t \in 0..11 : h[t] \in 1..12
  BY <1>1
<1>3. \A d \in 1..12 : \E t \in 0..11 : h[t] = d
  BY <1>1
<1> QED
  BY <1>1, <1>2, <1>3

LEMMA PowersOfTwo19 ==
  ASSUME NEW h, h[0] = 1, \A t \in Nat : h[t + 1] = (h[t] * 2) % 19
  PROVE  h[18] = 1 /\ {h[t] : t \in 0..17} = 1..18
<1>1. /\ h[0] = 1 /\ h[1] = 2 /\ h[2] = 4 /\ h[3] = 8 /\ h[4] = 16 /\ h[5] = 13
      /\ h[6] = 7 /\ h[7] = 14 /\ h[8] = 9 /\ h[9] = 18 /\ h[10] = 17 /\ h[11] = 15
      /\ h[12] = 11 /\ h[13] = 3 /\ h[14] = 6 /\ h[15] = 12 /\ h[16] = 5 /\ h[17] = 10
      /\ h[18] = 1
  OBVIOUS
<1>2. \A t \in 0..17 : h[t] \in 1..18
  BY <1>1
<1>3. \A d \in 1..18 : \E t \in 0..17 : h[t] = d
  BY <1>1
<1> QED
  BY <1>1, <1>2, <1>3

LEMMA PowersOfTwo29 ==
  ASSUME NEW h, h[0] = 1, \A t \in Nat : h[t + 1] = (h[t] * 2) % 29
  PROVE  h[28] = 1 /\ {h[t] : t \in 0..27} = 1..28
<1>1. /\ h[0] = 1 /\ h[1] = 2 /\ h[2] = 4 /\ h[3] = 8 /\ h[4] = 16 /\ h[5] = 3
      /\ h[6] = 6 /\ h[7] = 12 /\ h[8] = 24 /\ h[9] = 19 /\ h[10] = 9 /\ h[11] = 18
      /\ h[12] = 7 /\ h[13] = 14 /\ h[14] = 28 /\ h[15] = 27 /\ h[16] = 25
      /\ h[17] = 21 /\ h[18] = 13 /\ h[19] = 26 /\ h[20] = 23 /\ h[21] = 17
      /\ h[22] = 5 /\ h[23] = 10 /\ h[24] = 20 /\ h[25] = 11 /\ h[26] = 22
      /\ h[27] = 15 /\ h[28] = 1
  OBVIOUS
<1>2. \A t \in 0..27 : h[t] \in 1..28
  BY <1>1
<1>3. \A d \in 1..28 : \E t \in 0..27 : h[t] = d
  BY <1>1
<1> QED
  BY <1>1, <1>2, <1>3

LEMMA PowersOfTwo37 ==
  ASSUME NEW h, h[0] = 1, \A t \in Nat : h[t + 1] = (h[t] * 2) % 37
  PROVE  h[36] = 1 /\ {h[t] : t \in 0..35} = 1..36
<1>1. /\ h[0] = 1 /\ h[1] = 2 /\ h[2] = 4 /\ h[3] = 8 /\ h[4] = 16 /\ h[5] = 32
      /\ h[6] = 27 /\ h[7] = 17 /\ h[8] = 34 /\ h[9] = 31 /\ h[10] = 25 /\ h[11] = 13
      /\ h[12] = 26 /\ h[13] = 15 /\ h[14] = 30 /\ h[15] = 23 /\ h[16] = 9
      /\ h[17] = 18 /\ h[18] = 36 /\ h[19] = 35 /\ h[20] = 33 /\ h[21] = 29
      /\ h[22] = 21 /\ h[23] = 5 /\ h[24] = 10 /\ h[25] = 20 /\ h[26] = 3 /\ h[27] = 6
      /\ h[28] = 12 /\ h[29] = 24 /\ h[30] = 11 /\ h[31] = 22 /\ h[32] = 7
      /\ h[33] = 14 /\ h[34] = 28 /\ h[35] = 19 /\ h[36] = 1
  OBVIOUS
<1>2. \A t \in 0..35 : h[t] \in 1..36
  BY <1>1
<1>3. \A d \in 1..36 : \E t \in 0..35 : h[t] = d
  BY <1>1
<1> QED
  BY <1>1, <1>2, <1>3

\* Over any n - 1 rounds in a row the offset of gossip_target takes every value
\* but 0, for n of PrimeModuli.h: the next window of rounds loses the first
\* power of this one and gains an equal one.
THEOREM EveryOffset ==
  ASSUME NEW n \in valid_prime_moduli, NEW round \in Nat
  PROVE  {mod_pow(2, t, n) : t \in round..(round + n - 2)} = 1..(n - 1)
<1> DEFINE h == [t \in Nat |-> mod_pow(2, t, n)]
           Window(r) == {h[t] : t \in r..(r + n - 2)}
           P == {r \in Nat : Window(r) = 1..(n - 1)}
<1>1. n \in Nat \ {0, 1} /\ n >= 3
  BY DEF valid_prime_moduli
<1>2. h[0] = 1 /\ \A t \in Nat : h[t + 1] = (h[t] * 2) % n
  <2>1. mod_pow(2, 0, n) = 1
    BY <1>1, FirstPower
  <2>2. ASSUME NEW t \in Nat PROVE mod_pow(2, t + 1, n) = (mod_pow(2, t, n) * 2) % n
    BY <1>1, NextPower
  <2> QED
    BY <2>1, <2>2
<1>3. \A t \in Nat : h[t] = mod_pow(2, t, n)
  OBVIOUS
<1> HIDE DEF h
<1>4. h[n - 1] = 1 /\ {h[t] : t \in 0..(n - 2)} = 1..(n - 1)
  <2>1. n = 3 \/ n = 5 \/ n = 11 \/ n = 13 \/ n = 19 \/ n = 29 \/ n = 37
    BY DEF valid_prime_moduli
  <2>2. CASE n = 3
    <3>1. h[0] = 1 /\ \A t \in Nat : h[t + 1] = (h[t] * 2) % 3
      BY <1>2, <2>2
    <3>2. h[2] = 1 /\ {h[t] : t \in 0..1} = 1..2
      BY <3>1, PowersOfTwo3, Zenon
    <3>3. n - 1 = 2 /\ n - 2 = 1
      BY <2>2
    <3> QED
      BY <3>2, <3>3, Zenon
  <2>3. CASE n = 5
    <3>1. h[0] = 1 /\ \A t \in Nat : h[t + 1] = (h[t] * 2) % 5
      BY <1>2, <2>3
    <3>2. h[4] = 1 /\ {h[t] : t \in 0..3} = 1..4
      BY <3>1, PowersOfTwo5, Zenon
    <3>3. n - 1 = 4 /\ n - 2 = 3
      BY <2>3
    <3> QED
      BY <3>2, <3>3, Zenon
  <2>4. CASE n = 11
    <3>1. h[0] = 1 /\ \A t \in Nat : h[t + 1] = (h[t] * 2) % 11
      BY <1>2, <2>4
    <3>2. h[10] = 1 /\ {h[t] : t \in 0..9} = 1..10
      BY <3>1, PowersOfTwo11, Zenon
    <3>3. n - 1 = 10 /\ n - 2 = 9
      BY <2>4
    <3> QED
      BY <3>2, <3>3, Zenon
  <2>5. CASE n = 13
    <3>1. h[0] = 1 /\ \A t \in Nat : h[t + 1] = (h[t] * 2) % 13
      BY <1>2, <2>5
    <3>2. h[12] = 1 /\ {h[t] : t \in 0..11} = 1..12
      BY <3>1, PowersOfTwo13, Zenon
    <3>3. n - 1 = 12 /\ n - 2 = 11
      BY <2>5
    <3> QED
      BY <3>2, <3>3, Zenon
  <2>6. CASE n = 19
    <3>1. h[0] = 1 /\ \A t \in Nat : h[t + 1] = (h[t] * 2) % 19
      BY <1>2, <2>6
    <3>2. h[18] = 1 /\ {h[t] : t \in 0..17} = 1..18
      BY <3>1, PowersOfTwo19, Zenon
    <3>3. n - 1 = 18 /\ n - 2 = 17
      BY <2>6
    <3> QED
      BY <3>2, <3>3, Zenon
  <2>7. CASE n = 29
    <3>1. h[0] = 1 /\ \A t \in Nat : h[t + 1] = (h[t] * 2) % 29
      BY <1>2, <2>7
    <3>2. h[28] = 1 /\ {h[t] : t \in 0..27} = 1..28
      BY <3>1, PowersOfTwo29, Zenon
    <3>3. n - 1 = 28 /\ n - 2 = 27
      BY <2>7
    <3> QED
      BY <3>2, <3>3, Zenon
  <2>8. CASE n = 37
    <3>1. h[0] = 1 /\ \A t \in Nat : h[t + 1] = (h[t] * 2) % 37
      BY <1>2, <2>8
    <3>2. h[36] = 1 /\ {h[t] : t \in 0..35} = 1..36
      BY <3>1, PowersOfTwo37, Zenon
    <3>3. n - 1 = 36 /\ n - 2 = 35
      BY <2>8
    <3> QED
      BY <3>2, <3>3, Zenon
  <2> QED
    BY <2>1, <2>2, <2>3, <2>4, <2>5, <2>6, <2>7, <2>8
<1>5. \A r \in Nat : h[r + (n - 1)] = h[r]
  <2> DEFINE Q == {r \in Nat : h[r + (n - 1)] = h[r]}
  <2>1. 0 \in Q
    BY <1>1, <1>2, <1>4
  <2>2. ASSUME NEW r \in Nat, r \in Q PROVE r + 1 \in Q
    <3>1. r + (n - 1) \in Nat /\ (r + 1) + (n - 1) = (r + (n - 1)) + 1
      BY <1>1
    <3>2. h[(r + (n - 1)) + 1] = (h[r + (n - 1)] * 2) % n /\ h[r + 1] = (h[r] * 2) % n
      BY <1>2, <3>1
    <3> QED
      BY <2>2, <3>1, <3>2
  <2> HIDE DEF Q
  <2>3. Nat \subseteq Q
    BY <2>1, <2>2, Induction
  <2> QED
    BY <2>3 DEF Q
<1>6. 0 \in P
  BY <1>1, <1>4
<1>7. ASSUME NEW r \in Nat, r \in P PROVE r + 1 \in P
  <2> DEFINE Common == {h[t] : t \in (r + 1)..(r + n - 2)}
  <2>1. r..(r + n - 2) = {r} \cup ((r + 1)..(r + n - 2))
    BY <1>1
  <2>2. (r + 1)..(r + 1 + n - 2) = ((r + 1)..(r + n - 2)) \cup {r + (n - 1)}
    BY <1>1
  <2>3. Window(r) = {h[r]} \cup Common
    BY <2>1
  <2>4. Window(r + 1) = Common \cup {h[r + (n - 1)]}
    BY <2>2
  <2> HIDE DEF Common, Window
  <2>5. Window(r + 1) = Window(r)
    BY <1>5, <2>3, <2>4
  <2> QED
    BY <1>7, <2>5
<1>8. round \in P
  <2> HIDE DEF P
  <2> QED
    BY <1>6, <1>7, Induction
<1>9. \A t \in round..(round + n - 2) : t \in Nat
  BY <1>1
<1> QED
  BY <1>3, <1>8, <1>9

------------------------------------------------------------------------------
(* Groups are intervals of meters (pick_proxies and aggregation_group_for). *)

\* The numbers of groups and meters that pick_proxies accepts.
Sizes(groups, meters) ==
  /\ groups \in Nat \ {0, 1} /\ meters \in Nat
  /\ pick_proxies_defined(groups, meters)

\* Groups are intervals: group_begin and group_size_of are the bounds of what
\* aggregation_group_for puts into a group, also for the last group, which
\* takes over the meters of a remainder that is too small for one.
LEMMA GroupBounds ==
  ASSUME NEW groups, NEW meters, Sizes(groups, meters),
         NEW group \in 0..(groups - 1)
  PROVE  LET begin == group_begin(group, groups, meters)
             size == group_size_of(group, groups, meters)
         IN /\ begin \in Nat /\ size \in Nat /\ size >= 2 /\ begin + size <= meters
            /\ \A m \in Nat : m < meters =>
                 (aggregation_group_for(m, groups, meters) = group <=> begin <= m /\ m < begin + size)
<1> DEFINE s == standard_group_size(groups, meters)
           r == second_last_group_size(groups, meters)
           b == (groups - 2) * s
           begin == group_begin(group, groups, meters)
           size == group_size_of(group, groups, meters)
           In(m) == aggregation_group_for(m, groups, meters) = group
           Bounds == /\ begin \in Nat /\ size \in Nat /\ size >= 2 /\ begin + size <= meters
                     /\ \A m \in Nat : m < meters =>
                          (In(m) <=> begin <= m /\ m < begin + size)
<1>0. SUFFICES Bounds
  OBVIOUS
<1>1. s \in Nat /\ s >= 2 /\ groups * s <= meters
  <2>1. s \in Nat /\ s >= 2
    BY Quotient DEF Sizes, pick_proxies_defined, standard_group_size
  <2>2. s * groups <= meters
    BY Quotient DEF Sizes, standard_group_size
  <2> QED
    BY <2>1, <2>2 DEF Sizes
<1>2. r = (s + (meters - (groups - 1) * s)) \div 2
  BY DEF second_last_group_size
<1>3. \A m : aggregation_group_for(m, groups, meters) =
        IF m \div s < groups - 2 THEN m \div s
        ELSE IF m >= s * (groups - 2) /\ m < s * (groups - 2) + r THEN groups - 2 ELSE groups - 1
  BY DEF aggregation_group_for
<1>4. /\ begin = IF group = groups - 1 THEN b + r ELSE group * s
      /\ group < groups - 2 => size = s
      /\ group = groups - 2 => size = r
      /\ group = groups - 1 => size = meters - begin
  BY DEF group_begin, group_size_of, Sizes
<1> HIDE DEF s, r, begin, size
<1>5. b \in Nat /\ s * (groups - 2) = b /\ (groups - 2) * s = b
      /\ (groups - 1) * s = b + s /\ groups * s = b + s + s
  BY <1>1 DEF Sizes
<1> HIDE DEF b
<1>6. r \in Nat /\ r >= 2 /\ b + r + 2 <= meters
  <2>1. r = (meters - b) \div 2 /\ meters - b \in Nat /\ meters - b >= 4
    BY <1>1, <1>2, <1>5 DEF Sizes
  <2> QED
    BY <1>5, <2>1 DEF Sizes
<1>7. CASE group < groups - 2
  <2>1. group + 1 <= groups - 2 /\ group \in Nat /\ group + 1 \in Nat /\ groups - 2 \in Nat
    BY <1>7 DEF Sizes
  <2>2. group * s \in Nat /\ (group + 1) * s = group * s + s
    BY <1>1, <2>1
  <2>3. group * s + s <= b
    BY <1>1, <1>5, <2>1, <2>2, Multiples
  <2>4. \A m \in Nat : m \div s = group <=> group * s <= m /\ m < group * s + s
    <3> SUFFICES ASSUME NEW m \in Nat
                 PROVE  m \div s = group <=> group * s <= m /\ m < group * s + s
      OBVIOUS
    <3>1. m \div s \in Nat
      BY <1>1, Quotient
    <3>2. (m \div s < group <=> m < group * s) /\ (m \div s < group + 1 <=> m < group * s + s)
      BY <1>1, <2>1, <2>2, QuotientBelow
    <3> QED
      BY <1>1, <2>1, <2>2, <3>1, <3>2
  <2>5. \A m \in Nat : aggregation_group_for(m, groups, meters) = group <=> m \div s = group
    <3> SUFFICES ASSUME NEW m \in Nat
                 PROVE aggregation_group_for(m, groups, meters) = group <=> m \div s = group
      OBVIOUS
    <3>1. m \div s \in Nat
      BY <1>1, Quotient
    <3> QED
      BY <1>3, <1>7, <2>1, <3>1 DEF Sizes
  <2>6. begin = group * s /\ size = s
    BY <1>4, <1>7, <2>1 DEF Sizes
  <2>7. size \in Nat /\ size >= 2 /\ begin \in Nat /\ begin + size <= meters
    BY <1>1, <1>5, <1>6, <2>2, <2>3, <2>6 DEF Sizes
  <2>8. \A m \in Nat : In(m) <=> begin <= m /\ m < begin + size
    BY <2>4, <2>5, <2>6
  <2> QED
    BY <2>7, <2>8
<1>8. CASE group >= groups - 2
  <2>1. groups - 2 \in Nat /\ (group = groups - 2 \/ group = groups - 1)
    BY <1>8 DEF Sizes
  <2>2. ASSUME NEW m \in Nat
        PROVE  aggregation_group_for(m, groups, meters) =
                 IF m < b THEN m \div s ELSE IF m < b + r THEN groups - 2 ELSE groups - 1
    <3>1. m \div s < groups - 2 <=> m < (groups - 2) * s
      BY <1>1, <2>1, QuotientBelow
    <3> QED
      BY <1>3, <1>5, <1>6, <3>1
  <2>3. ASSUME NEW m \in Nat, m < b PROVE m \div s < groups - 2
    <3>1. m \div s < groups - 2 <=> m < (groups - 2) * s
      BY <1>1, <2>1, QuotientBelow
    <3> QED
      BY <1>5, <2>3, <3>1
  <2>4. ASSUME NEW m \in Nat
        PROVE  /\ aggregation_group_for(m, groups, meters) = groups - 2 <=> m >= b /\ m < b + r
               /\ aggregation_group_for(m, groups, meters) = groups - 1 <=> m >= b + r
    <3>1. m \div s \in Nat
      BY <1>1, Quotient
    <3> QED
      BY <1>5, <1>6, <2>1, <2>2, <2>3, <3>1 DEF Sizes
  <2>5. CASE group = groups - 2
    <3>1. begin = b /\ size = r
      BY <1>1, <1>4, <1>5, <2>1, <2>5 DEF Sizes
    <3>2. size \in Nat /\ size >= 2 /\ begin \in Nat /\ begin + size <= meters
      BY <1>5, <1>6, <3>1 DEF Sizes
    <3>3. \A m \in Nat : In(m) <=> begin <= m /\ m < begin + size
      BY <2>4, <2>5, <3>1
    <3> QED
      BY <3>2, <3>3
  <2>6. CASE group = groups - 1
    <3>1. begin = b + r /\ size = meters - (b + r)
      BY <1>4, <2>6
    <3>2. size \in Nat /\ size >= 2 /\ begin \in Nat /\ begin + size = meters
      BY <1>5, <1>6, <3>1 DEF Sizes
    <3>3. \A m \in Nat : In(m) <=> b + r <= m
      BY <1>5, <1>6, <2>4, <2>6
    <3>4. \A m \in Nat : m < meters => (In(m) <=> begin <= m /\ m < begin + size)
      BY <3>1, <3>2, <3>3
    <3> QED
      BY <3>2, <3>4 DEF Sizes
  <2> QED
    BY <2>1, <2>5, <2>6
<1>9. Bounds
  <2>1. group \in Nat /\ groups \in Nat /\ (group < groups - 2 \/ group >= groups - 2)
    BY DEF Sizes
  <2> QED
    BY <1>7, <1>8, <2>1
<1> QED
  BY <1>9

\* Every meter is in a group, and the groups follow one another.
LEMMA GroupsInOrder ==
  ASSUME NEW groups, NEW meters, Sizes(groups, meters)
  PROVE  /\ \A m \in Nat : m < meters => aggregation_group_for(m, groups, meters) \in 0..(groups - 1)
         /\ \A g1, g2 \in 0..(groups - 1) :
              g1 <= g2 => group_begin(g1, groups, meters) <= group_begin(g2, groups, meters)
<1> DEFINE s == standard_group_size(groups, meters)
           r == second_last_group_size(groups, meters)
           b == (groups - 2) * s
<1>1. s \in Nat /\ s >= 2 /\ groups * s <= meters
  <2>1. s \in Nat /\ s >= 2
    BY Quotient DEF Sizes, pick_proxies_defined, standard_group_size
  <2>2. s * groups <= meters
    BY Quotient DEF Sizes, standard_group_size
  <2> QED
    BY <2>1, <2>2 DEF Sizes
<1>2. r \in Nat
  <2>1. r = (s + (meters - (groups - 1) * s)) \div 2
    BY DEF second_last_group_size
  <2> HIDE DEF s, r
  <2>2. (groups - 1) * s \in Nat /\ groups * s = (groups - 1) * s + s
    BY <1>1 DEF Sizes
  <2>3. s + (meters - (groups - 1) * s) \in Nat
    BY <1>1, <2>2 DEF Sizes
  <2> QED
    BY <2>1, <2>3
<1>3. \A g : group_begin(g, groups, meters) = IF g = groups - 1 THEN b + r ELSE g * s
  BY DEF group_begin
<1>4. ASSUME NEW m \in Nat, m < meters
      PROVE  aggregation_group_for(m, groups, meters) \in 0..(groups - 1)
  <2>1. \/ aggregation_group_for(m, groups, meters) = m \div s /\ m \div s < groups - 2
        \/ aggregation_group_for(m, groups, meters) \in {groups - 2, groups - 1}
    BY DEF aggregation_group_for
  <2>2. m \div s \in Nat
    <3> HIDE DEF s
    <3> QED
      BY <1>1, Quotient
  <2> QED
    BY <2>1, <2>2 DEF Sizes
<1> HIDE DEF s, r
<1>5. ASSUME NEW g1 \in 0..(groups - 1), NEW g2 \in 0..(groups - 1), g1 <= g2
      PROVE  group_begin(g1, groups, meters) <= group_begin(g2, groups, meters)
  <2>1. groups \in Nat /\ groups - 2 \in Nat /\ g1 \in Nat /\ g2 \in Nat
    BY DEF Sizes
  <2>2. CASE g2 # groups - 1
    <3>1. g1 # groups - 1
      BY <1>5, <2>1, <2>2
    <3>2. g1 * s <= g2 * s
      BY <1>1, <1>5, <2>1, Multiples
    <3> QED
      BY <1>3, <2>2, <3>1, <3>2
  <2>3. CASE g2 = groups - 1 /\ g1 # groups - 1
    <3>1. g1 <= groups - 2
      BY <2>1, <2>3
    <3>2. g1 * s <= b /\ g1 * s \in Nat /\ b \in Nat
      BY <1>1, <2>1, <3>1, Multiples
    <3> HIDE DEF b
    <3>3. g1 * s <= b + r
      BY <1>2, <3>2
    <3> QED
      BY <1>3, <2>3, <3>3
  <2>4. CASE g1 = groups - 1
    <3>1. g1 = g2
      BY <1>5, <2>1, <2>4
    <3>2. b \in Nat
      BY <1>1, <2>1, Multiples
    <3> HIDE DEF b
    <3>3. b + r \in Nat
      BY <1>2, <3>2
    <3> QED
      BY <1>3, <2>4, <3>1, <3>3
  <2> QED
    BY <2>2, <2>3, <2>4
<1> QED
  BY <1>4, <1>5

\* Each group ends before the next one begins, also where a group has so few
\* members that pick_proxies throws.
LEMMA GroupsApart ==
  ASSUME NEW groups \in Nat \ {0}, NEW meters \in Nat,
         NEW g \in 0..(groups - 1), NEW h \in 0..(groups - 1), g < h
  PROVE  /\ group_begin(g, groups, meters) \in Nat /\ group_begin(h, groups, meters) \in Nat
         /\ group_size_of(g, groups, meters) \in Nat
         /\ group_begin(g, groups, meters) + group_size_of(g, groups, meters)
              <= group_begin(h, groups, meters)
<1> DEFINE s == standard_group_size(groups, meters)
           r == second_last_group_size(groups, meters)
           b == (groups - 2) * s
<1>1. s \in Nat /\ s * groups <= meters
  BY Quotient DEF standard_group_size
<1>2. groups - 2 \in Nat /\ groups - 1 \in Nat
  OBVIOUS
<1>3. r = (s + (meters - (groups - 1) * s)) \div 2
  BY DEF second_last_group_size
<1>4. /\ group_begin(h, groups, meters) = IF h = groups - 1 THEN b + r ELSE h * s
      /\ group_begin(g, groups, meters) = g * s
      /\ group_size_of(g, groups, meters) = IF g = groups - 2 THEN r ELSE s
  <2>1. g # groups - 1
    OBVIOUS
  <2> QED
    BY <2>1 DEF group_begin, group_size_of
<1> HIDE DEF s, r
<1>5. r \in Nat
  <2>1. (groups - 1) * s \in Nat /\ s * groups = (groups - 1) * s + s
    BY <1>1, <1>2
  <2>2. s + (meters - (groups - 1) * s) \in Nat
    BY <1>1, <2>1
  <2> QED
    BY <1>3, <2>2
<1>6. g * s \in Nat /\ h * s \in Nat /\ b \in Nat /\ (g + 1) * s = g * s + s
  BY <1>1, <1>2, Multiples
<1>7. CASE g = groups - 2
  <2>1. h = groups - 1
    BY <1>7
  <2>2. g * s = b
    BY <1>7
  <2> HIDE DEF b
  <2> QED
    BY <1>4, <1>5, <1>6, <1>7, <2>1, <2>2
<1>8. CASE g # groups - 2 /\ h = groups - 1
  <2>1. g + 1 <= groups - 2
    BY <1>8
  <2>2. (g + 1) * s <= b
    BY <1>1, <1>2, <2>1, Multiples
  <2> HIDE DEF b
  <2> QED
    BY <1>1, <1>4, <1>5, <1>6, <1>8, <2>2
<1>9. CASE g # groups - 2 /\ h # groups - 1
  <2>1. (g + 1) * s <= h * s
    BY <1>1, Multiples
  <2> HIDE DEF b
  <2> QED
    BY <1>1, <1>4, <1>6, <1>9, <2>1
<1> QED
  BY <1>7, <1>8, <1>9

\* So the proxies that a meter picks in two groups are two meters.
LEMMA ProxiesDiffer ==
  ASSUME NEW groups \in Nat \ {0}, NEW meters \in Nat, NEW m \in Int,
         NEW g \in 0..(groups - 1), NEW h \in 0..(groups - 1), g < h,
         NEW p \in proxy_candidates(m, g, groups, meters),
         NEW q \in proxy_candidates(m, h, groups, meters),
         p \in Int, q \in Int
  PROVE  p # q
<1> DEFINE first(k) == group_begin(k, groups, meters)
           end(k) == first(k) + group_size_of(k, groups, meters) - 1
<1>1. /\ first(g) \in Nat /\ first(h) \in Nat /\ end(g) \in Int /\ end(g) < first(h)
  BY GroupsApart
<1>2. p <= end(g)
  <2>1. p \in IF m \in first(g)..end(g) THEN random_int_exclude(first(g), end(g), m)
              ELSE first(g)..end(g)
    BY DEF proxy_candidates
  <2> HIDE DEF first, end
  <2>2. CASE m \in first(g)..end(g)
    <3>1. PICK choice \in first(g)..(end(g) - 1) : p = IF choice = m THEN end(g) ELSE choice
      BY <2>1, <2>2 DEF random_int_exclude
    <3> QED
      BY <1>1, <3>1
  <2> QED
    BY <1>1, <2>1, <2>2
<1>3. first(h) <= q
  <2>1. q \in IF m \in first(h)..end(h) THEN random_int_exclude(first(h), end(h), m)
              ELSE first(h)..end(h)
    BY DEF proxy_candidates
  <2> HIDE DEF first, end
  <2>2. CASE m \in first(h)..end(h)
    <3>1. PICK choice \in first(h)..(end(h) - 1) : q = IF choice = m THEN end(h) ELSE choice
      BY <2>1, <2>2 DEF random_int_exclude
    <3> QED
      BY <1>1, <2>2, <3>1
  <2> QED
    BY <1>1, <2>1, <2>2
<1> QED
  BY <1>1, <1>2, <1>3

------------------------------------------------------------------------------
(* The search for paths. *)

\* A set of rounds has a first one.
LEMMA Least ==
  ASSUME NEW a \in Int, NEW S, S # {}, \A x \in S : x \in Int /\ a <= x
  PROVE  \E x \in S : \A y \in S : x <= y
<1> SUFFICES ASSUME \A x \in S : \E y \in S : y < x PROVE FALSE
  <2>1. ASSUME NEW x \in S, \A y \in S : ~ (y < x) PROVE \A y \in S : x <= y
    BY <2>1
  <2> QED
    BY <2>1
<1> DEFINE P == {k \in Nat : \A x \in S : a + k <= x}
<1>1. 0 \in P
  OBVIOUS
<1>2. ASSUME NEW k \in Nat, k \in P PROVE k + 1 \in P
  <2> SUFFICES ASSUME NEW x \in S PROVE a + (k + 1) <= x
    OBVIOUS
  <2>1. PICK y \in S : y < x
    OBVIOUS
  <2>2. a + k <= y /\ y \in Int /\ x \in Int
    BY <1>2
  <2> QED
    BY <2>1, <2>2
<1> HIDE DEF P
<1>3. Nat \subseteq P
  BY <1>1, <1>2, Induction
<1>4. PICK x \in S : x \in Int /\ a <= x
  OBVIOUS
<1>5. (x - a) + 1 \in P
  BY <1>3, <1>4
<1> QED
  BY <1>4, <1>5 DEF P

\* The elements of a sequence with one more.
LEMMA RangeOfAppend ==
  ASSUME NEW S, NEW s \in Seq(S), NEW x
  PROVE  Range(Append(s, x)) = Range(s) \cup {x}
<1>1. /\ DOMAIN Append(s, x) = 1..(Len(s) + 1) /\ DOMAIN s = 1..Len(s) /\ Len(s) \in Nat
      /\ Append(s, x)[Len(s) + 1] = x
      /\ \A i \in 1..Len(s) : Append(s, x)[i] = s[i]
  OBVIOUS
<1>2. 1..(Len(s) + 1) = 1..Len(s) \cup {Len(s) + 1}
  BY <1>1
<1> QED
  BY <1>1, <1>2 DEF Range

\* The paths that start at source and lead on through nodes of free ...
FreePaths(source, free) ==
  {path \in Seq(free \cup {source}) : path # <<>> /\ Range(Tail(path)) \subseteq free}

\* ... and the infections along such paths.
Infections(source, free) ==
  {nodes \in UNION {[S -> [path : FreePaths(source, free), infected_on_round : Int]] :
                      S \in SUBSET (free \cup {source})} : source \in DOMAIN nodes}

\* Appending leaves the front of a longer sequence as it is.
LEMMA TailOfAppend ==
  ASSUME NEW S, NEW seq \in Seq(S), seq # <<>>, NEW x
  PROVE  Tail(Append(seq, x)) = Append(Tail(seq), x) /\ Tail(seq) \in Seq(S)
<1>1. Tail(Append(seq, x)) = Append(Tail(seq), x)
  BY HeadTailAppend
<1>2. Tail(seq) \in Seq(S)
  OBVIOUS
<1> QED
  BY <1>1, <1>2

\* A free path with one more free node is one.
LEMMA LongerPath ==
  ASSUME NEW source, NEW free, NEW path \in FreePaths(source, free), NEW x \in free
  PROVE  Append(path, x) \in FreePaths(source, free)
<1>1. path \in Seq(free \cup {source}) /\ path # <<>> /\ Range(Tail(path)) \subseteq free
  BY DEF FreePaths
<1>2. /\ Append(path, x) \in Seq(free \cup {source}) /\ Append(path, x) # <<>>
      /\ Tail(path) \in Seq(free \cup {source})
      /\ Tail(Append(path, x)) = Append(Tail(path), x)
  <2>1. /\ Tail(path) \in Seq(free \cup {source})
        /\ Tail(Append(path, x)) = Append(Tail(path), x)
    BY <1>1, TailOfAppend
  <2> QED
    BY <1>1, <2>1, AppendProperties
<1>3. Range(Tail(Append(path, x))) = Range(Tail(path)) \cup {x}
  BY <1>2, RangeOfAppend
<1> QED
  BY <1>1, <1>2, <1>3 DEF FreePaths

\* gossip_predecessor inverts gossip_target.
LEMMA PredecessorInverse ==
  ASSUME NEW n \in Nat \ {0, 1}, NEW x \in 0..(n - 1), NEW time \in Nat
  PROVE  /\ gossip_target(x, time, n) \in 0..(n - 1)
         /\ gossip_predecessor(gossip_target(x, time, n), time, n) = x
<1>1. mod_pow(2, time, n) \in 0..(n - 1)
  BY NextPower
<1> QED
  BY <1>1, OffsetInverse DEF gossip_target, gossip_predecessor

\* The nodes that find_path may infect.
Free(source, target, n, exclude) == (0..(n - 1)) \ (exclude \cup {source, target})

\* A turn of find_path's loop infects no others.
LEMMA InfectKeeps ==
  ASSUME NEW n \in Nat \ {0, 1}, NEW source \in 0..(n - 1), NEW target, NEW exclude,
         NEW time \in Nat,
         NEW known \in Infections(source, Free(source, target, n, exclude))
  PROVE  infect(known, target, time, n, exclude)
           \in Infections(source, Free(source, target, n, exclude))
<1> DEFINE free == Free(source, target, n, exclude)
           Entry == [path : FreePaths(source, free), infected_on_round : Int]
           reached == {gossip_target(x, time, n) : x \in DOMAIN known}
                        \ (exclude \cup {target} \cup DOMAIN known)
           all == DOMAIN known \cup reached
           new(x) == [path |-> Append(known[gossip_predecessor(x, time, n)].path, x),
                      infected_on_round |-> time + 1]
           nodes == [x \in all |-> IF x \in DOMAIN known THEN known[x] ELSE new(x)]
<1>1. /\ DOMAIN known \subseteq free \cup {source} /\ source \in DOMAIN known
      /\ \A x \in DOMAIN known : known[x] \in Entry
  BY DEF Infections
<1>2. free \cup {source} \subseteq 0..(n - 1)
  BY DEF Free
<1>3. infect(known, target, time, n, exclude) = nodes
  BY DEF infect
<1>4. ASSUME NEW x \in reached PROVE x \in free /\ new(x) \in Entry
  <2>1. PICK y \in DOMAIN known : x = gossip_target(y, time, n)
    OBVIOUS
  <2>2. x \in 0..(n - 1) /\ gossip_predecessor(x, time, n) = y
    BY <1>1, <1>2, <2>1, PredecessorInverse
  <2>3. x \in free
    BY <1>1, <2>2 DEF Free
  <2>4. known[y].path \in FreePaths(source, free)
    BY <1>1
  <2>5. Append(known[y].path, x) \in FreePaths(source, free)
    <3> HIDE DEF free
    <3> QED
      BY <2>3, <2>4, LongerPath
  <2> QED
    BY <2>2, <2>3, <2>5
<1> HIDE DEF free, Entry, reached, new
<1>5. \A x \in all : nodes[x] \in Entry
  BY <1>1, <1>4
<1>6. nodes \in [all -> Entry] /\ all \in SUBSET (free \cup {source}) /\ source \in all
  BY <1>1, <1>4, <1>5
<1> HIDE DEF all, nodes
<1>7. nodes \in Infections(source, free)
  BY <1>6 DEF Infections, Entry
<1> QED
  BY <1>3, <1>7 DEF free

\* So find_path infects free nodes, along paths through free nodes.
LEMMA InfectedAreFree ==
  ASSUME NEW n \in Nat \ {0, 1}, NEW source \in 0..(n - 1), NEW target, NEW exclude,
         NEW start \in Nat, NEW last \in Nat, start <= last
  PROVE  infected(source, target, n, start, last, exclude)
           \in Infections(source, Free(source, target, n, exclude))
<1> DEFINE D == Infections(source, Free(source, target, n, exclude))
           N == last - start
           base == [x \in {source} |-> [path |-> <<x>>, infected_on_round |-> start]]
           step == [k \in 0..(N - 1) |-> [known \in D |-> infect(known, target, start + k, n, exclude)]]
           after[rounds \in 0..(last - start)] ==
             IF rounds = 0 THEN [x \in {source} |-> [path |-> <<x>>, infected_on_round |-> start]]
             ELSE infect(after[rounds-1], target, start + rounds - 1, n, exclude)
<1>1. N \in Nat
  OBVIOUS
<1>2. base \in D
  <2> DEFINE free == Free(source, target, n, exclude)
  <2>1. <<source>> \in FreePaths(source, free)
    <3>1. <<source>> \in Seq(free \cup {source}) /\ Tail(<<source>>) = <<>>
      OBVIOUS
    <3>2. Range(<<>>) = {}
      BY DEF Range
    <3> QED
      BY <3>1, <3>2 DEF FreePaths
  <2>2. base[source] \in [path : FreePaths(source, free), infected_on_round : Int]
    BY <2>1
  <2>3. base \in [{source} -> [path : FreePaths(source, free), infected_on_round : Int]]
    BY <2>2
  <2> HIDE DEF base, free
  <2> QED
    BY <2>3 DEF Infections, free
<1>3. \A k \in 0..(N - 1) : \A known \in D :
        infect(known, target, start + k, n, exclude) \in D
  BY InfectKeeps
<1>4. infected(source, target, n, start, last, exclude) = after[N]
  BY DEF infected
<1>5. \E f : /\ f = [k \in 0..N |-> IF k = 0 THEN base
                                    ELSE infect(f[k-1], target, start + k - 1, n, exclude)]
             /\ f \in [0..N -> D]
  <2> HIDE DEF D, base, N
  <2>1. step \in [0..(N - 1) -> [D -> D]]
    BY <1>3
  <2> HIDE DEF step
  <2>2. PICK f : Iterates(f, N, D, base, step)
    BY <1>1, <1>2, <2>1, Recursion
  <2>3. /\ f = [k \in 0..N |-> IF k = 0 THEN base ELSE step[k-1][f[k-1]]]
        /\ f \in [0..N -> D]
    BY <1>1, <2>2, Iteration
  <2>4. ASSUME NEW k \in 0..N, k # 0
        PROVE  step[k-1][f[k-1]] = infect(f[k-1], target, start + k - 1, n, exclude)
    <3>1. k - 1 \in 0..(N - 1) /\ k - 1 \in 0..N /\ start + (k - 1) = start + k - 1
      BY <1>1, <2>4
    <3>2. f[k-1] \in D
      BY <2>3, <3>1
    <3> QED
      BY <3>1, <3>2 DEF step
  <2>5. f = [k \in 0..N |-> IF k = 0 THEN base
                            ELSE infect(f[k-1], target, start + k - 1, n, exclude)]
    BY <2>3, <2>4
  <2> QED
    BY <2>3, <2>5
<1>6. after = [k \in 0..N |-> IF k = 0 THEN base
                              ELSE infect(after[k-1], target, start + k - 1, n, exclude)]
  <2> HIDE DEF D
  <2>1. PICK f : f = [k \in 0..N |-> IF k = 0 THEN base
                                     ELSE infect(f[k-1], target, start + k - 1, n, exclude)]
    BY <1>5
  <2> QED
    BY <2>1, Zenon
<1> HIDE DEF after, base, D, N
<1>7. after \in [0..N -> D]
  <2>1. after = [k \in 0..N |-> after[k]]
    BY <1>6
  <2>2. after[0] \in D
    BY <1>1, <1>2, <1>6
  <2>3. \A k \in 0..(N - 1) : after[k] \in D => after[k + 1] \in D
    <3> SUFFICES ASSUME NEW k \in 0..(N - 1), after[k] \in D PROVE after[k + 1] \in D
      OBVIOUS
    <3>1. k + 1 \in 0..N /\ k + 1 # 0 /\ (k + 1) - 1 = k /\ start + (k + 1) - 1 = start + k
      BY <1>1
    <3>2. after[k + 1] = infect(after[k], target, start + k, n, exclude)
      BY <1>6, <3>1
    <3> QED
      BY <1>3, <3>2
  <2> QED
    BY <1>1, <2>1, <2>2, <2>3, Typed
<1>8. after[N] \in D
  BY <1>1, <1>7
<1> QED
  BY <1>4, <1>8 DEF D

\* find_path's path leads to the target through free nodes.
LEMMA PathIsFree ==
  ASSUME NEW n \in Nat \ {0, 1}, NEW source \in 0..(n - 1), NEW target \in 0..(n - 1),
         NEW exclude, NEW start \in Nat, NEW last \in Nat, start <= last
  PROVE  LET path == find_path(source, target, n, start, last, exclude)
         IN path # NoPath =>
              /\ Tail(path) \in Seq(0..(n - 1)) /\ Tail(path) # <<>>
              /\ Last(Tail(path)) = target
              /\ Range(Tail(path)) \subseteq Free(source, target, n, exclude) \cup {target}
<1> DEFINE path == find_path(source, target, n, start, last, exclude)
<1> SUFFICES ASSUME path # NoPath
             PROVE  /\ Tail(path) \in Seq(0..(n - 1)) /\ Tail(path) # <<>>
                    /\ Last(Tail(path)) = target
                    /\ Range(Tail(path)) \subseteq Free(source, target, n, exclude) \cup {target}
  OBVIOUS
<1> DEFINE nodes == infected(source, target, n, start, last, exclude)
           free == Free(source, target, n, exclude)
           hits == {time \in (start + MIN_PATH_LENGTH)..(last - 1) :
                      \E x \in DOMAIN nodes :
                        nodes[x].infected_on_round <= time /\ gossip_target(x, time, n) = target}
           hit == CHOOSE time \in hits : \A other \in hits : time <= other
           way == nodes[gossip_predecessor(target, hit, n)].path
<1>1. /\ DOMAIN nodes \subseteq free \cup {source}
      /\ \A x \in DOMAIN nodes : nodes[x].path \in FreePaths(source, free)
  <2>1. nodes \in Infections(source, free)
    BY InfectedAreFree
  <2> HIDE DEF nodes, free
  <2> QED
    BY <2>1 DEF Infections
<1>2. free \cup {source} \subseteq 0..(n - 1)
  BY DEF Free
<1>3. path = Append(way, target) /\ hits # {}
  BY DEF find_path
<1> HIDE DEF path
<1>4. hits \subseteq Nat
  BY DEF MIN_PATH_LENGTH
<1> HIDE DEF nodes
<1>5. hit \in hits
  <2>1. \E x \in hits : \A y \in hits : x <= y
    <3> HIDE DEF hits
    <3>1. 0 \in Int /\ hits # {} /\ \A x \in hits : x \in Int /\ 0 <= x
      BY <1>3, <1>4
    <3> QED
      BY <3>1, Least, Zenon
  <2> HIDE DEF hits
  <2> QED
    BY <2>1
<1> HIDE DEF hit
<1>6. way \in FreePaths(source, free)
  <2>1. PICK x \in DOMAIN nodes : gossip_target(x, hit, n) = target
    BY <1>5
  <2>2. gossip_predecessor(target, hit, n) = x
    BY <1>1, <1>2, <1>4, <1>5, <2>1, PredecessorInverse
  <2> QED
    BY <1>1, <2>2
<1> HIDE DEF hits, way, free
<1>7. /\ way \in Seq(0..(n - 1)) /\ way # <<>> /\ Range(Tail(way)) \subseteq free
  BY <1>2, <1>6 DEF FreePaths
<1>8. Tail(path) = Append(Tail(way), target) /\ Tail(way) \in Seq(0..(n - 1))
  BY ONLY <1>3, <1>7, TailOfAppend
<1>9. Range(Tail(path)) = Range(Tail(way)) \cup {target}
  BY <1>8, RangeOfAppend
<1>10. /\ Tail(path) \in Seq(0..(n - 1)) /\ Tail(path) # <<>>
       /\ Last(Tail(path)) = target
  <2> DEFINE M == 0..(n - 1)
             rest == Tail(way)
  <2> HIDE DEF M, rest
  <2>1. rest \in Seq(M) /\ target \in M
    BY <1>8 DEF M, rest
  <2>2. /\ Append(rest, target) \in Seq(M) /\ Append(rest, target) # <<>>
        /\ Len(Append(rest, target)) = Len(rest) + 1
        /\ Append(rest, target)[Len(rest) + 1] = target
    BY <2>1, AppendProperties
  <2> QED
    BY <1>8, <2>2 DEF Last, M, rest
<1> QED
  BY <1>7, <1>9, <1>10 DEF free

\* Different targets, the source not among them.
OtherTargets(source, targets, n) ==
  /\ targets \in Seq((0..(n - 1)) \ {source})
  /\ \A i, j \in DOMAIN targets : i # j => targets[i] # targets[j]

\* The path to each of targets[1..k], if there is one, leads there past the
\* source, the other targets and the nodes of the other paths.
DisjointUpTo(source, targets, n, paths, k) ==
  /\ paths \in Seq(Seq(0..(n - 1)))
  /\ Len(paths) = k
  /\ \A i \in 1..k :
       /\ paths[i] # NoPath => Last(paths[i]) = targets[i]
       /\ source \notin Range(paths[i])
       /\ Range(paths[i]) \cap Range(targets) \subseteq {targets[i]}
       /\ \A j \in 1..k : i # j => Range(paths[i]) \cap Range(paths[j]) = {}

LEMMA RoundsLimit ==
  ASSUME NEW n \in Nat \ {0, 1}, NEW k \in Nat
  PROVE  rounds_limit(k, n) \in Nat
<1> DEFINE l == log2n(n)
<1>1. l \in Nat
  BY Log2Positive
<1>2. rounds_limit(k, n) = l * k + MIN_PATH_LENGTH
  BY DEF rounds_limit
<1> HIDE DEF l
<1>3. l * k \in Nat
  BY <1>1, Multiples
<1> QED
  BY <1>2, <1>3 DEF MIN_PATH_LENGTH

\* find_another adds a path that keeps clear of the others.
LEMMA AnotherIsDisjoint ==
  ASSUME NEW n \in Nat \ {0, 1}, NEW source \in 0..(n - 1), NEW start \in Nat,
         NEW targets, OtherTargets(source, targets, n),
         NEW k \in 0..(Len(targets) - 1),
         NEW paths, DisjointUpTo(source, targets, n, paths, k)
  PROVE  DisjointUpTo(source, targets, n,
           Append(paths, find_another(source, targets[k+1], paths, targets, n, start)), k + 1)
<1> DEFINE M == 0..(n - 1)
           target == targets[k+1]
           used == Range(targets) \cup UNION {Range(path) : path \in Range(paths)}
           last == start + rounds_limit(Len(targets), n)
           path == find_path(source, target, n, start, last, used)
           new == find_another(source, target, paths, targets, n, start)
           longer == Append(paths, new)
<1>1. /\ targets \in Seq(M \ {source}) /\ Len(targets) \in Nat /\ DOMAIN targets = 1..Len(targets)
      /\ \A i, j \in DOMAIN targets : i # j => targets[i] # targets[j]
      /\ k + 1 \in 1..Len(targets) /\ k \in Nat
      /\ target \in M \ {source} /\ target \in Range(targets) /\ source \notin Range(targets)
  <2>1. /\ targets \in Seq(M \ {source}) /\ Len(targets) \in Nat /\ DOMAIN targets = 1..Len(targets)
        /\ \A i, j \in DOMAIN targets : i # j => targets[i] # targets[j]
    BY DEF OtherTargets
  <2>2. k + 1 \in 1..Len(targets) /\ k \in Nat
    BY <2>1
  <2>3. \A i \in DOMAIN targets : targets[i] \in M \ {source}
    BY <2>1
  <2> QED
    BY <2>1, <2>2, <2>3 DEF Range
<1>2. /\ paths \in Seq(Seq(M)) /\ Len(paths) = k /\ DOMAIN paths = 1..k
      /\ \A i \in 1..k :
           /\ paths[i] # NoPath => Last(paths[i]) = targets[i]
           /\ source \notin Range(paths[i])
           /\ Range(paths[i]) \cap Range(targets) \subseteq {targets[i]}
           /\ \A j \in 1..k : i # j => Range(paths[i]) \cap Range(paths[j]) = {}
  BY DEF DisjointUpTo
<1>3. last \in Nat /\ start <= last
  <2>1. rounds_limit(Len(targets), n) \in Nat
    BY <1>1, RoundsLimit
  <2> QED
    BY <2>1
<1>4. new = IF path = NoPath THEN NoPath ELSE Tail(path)
  BY DEF find_another
<1> HIDE DEF last, new
<1>5. /\ new \in Seq(M)
      /\ new # NoPath => Last(new) = target
      /\ Range(new) \subseteq Free(source, target, n, used) \cup {target}
  <2>1. CASE path = NoPath
    <3>1. new = <<>> /\ Range(<<>>) = {} /\ NoPath = <<>>
      BY <1>4, <2>1 DEF NoPath, Range
    <3> QED
      BY <3>1
  <2>2. CASE path # NoPath
    <3>1. target \in 0..(n - 1)
      BY <1>1
    <3> HIDE DEF used, target
    <3>2. /\ Tail(path) \in Seq(0..(n - 1)) /\ Tail(path) # <<>>
          /\ Last(Tail(path)) = target
          /\ Range(Tail(path)) \subseteq Free(source, target, n, used) \cup {target}
      BY <1>3, <2>2, <3>1, PathIsFree
    <3> HIDE DEF path
    <3> QED
      BY <1>4, <2>2, <3>2
  <2> QED
    BY <2>1, <2>2
<1>6. source \notin Range(new) /\ Range(new) \cap Range(targets) \subseteq {target}
  BY <1>1, <1>5 DEF Free
<1>7. ASSUME NEW i \in 1..k PROVE Range(paths[i]) \cap Range(new) = {}
  <2>1. target \notin Range(paths[i])
    <3>1. i \in DOMAIN targets /\ k + 1 \in DOMAIN targets /\ i # k + 1
      BY <1>1
    <3>2. targets[i] # target
      BY <1>1, <3>1
    <3> QED
      BY <1>1, <1>2, <3>2
  <2>2. Range(paths[i]) \subseteq used
    <3>1. paths[i] \in Range(paths)
      BY <1>2 DEF Range
    <3> QED
      BY <3>1
  <2> QED
    BY <1>5, <2>1, <2>2 DEF Free
<1> HIDE DEF target, used, path
<1>8. /\ longer \in Seq(Seq(M)) /\ Len(longer) = k + 1
      /\ longer[k+1] = new
      /\ \A i \in 1..k : longer[i] = paths[i]
  BY <1>2, <1>5, AppendProperties
<1>9. 1..(k + 1) = 1..k \cup {k + 1} /\ k + 1 \notin 1..k
  BY <1>1
<1> HIDE DEF longer
<1>10. target = targets[k+1]
  BY DEF target
<1>11. ASSUME NEW i \in 1..(k + 1)
       PROVE  /\ longer[i] # NoPath => Last(longer[i]) = targets[i]
              /\ source \notin Range(longer[i])
              /\ Range(longer[i]) \cap Range(targets) \subseteq {targets[i]}
              /\ \A j \in 1..(k + 1) : i # j => Range(longer[i]) \cap Range(longer[j]) = {}
  <2>1. CASE i = k + 1
    BY <1>5, <1>6, <1>7, <1>8, <1>9, <1>10, <2>1
  <2>2. CASE i \in 1..k
    BY <1>2, <1>7, <1>8, <1>9, <2>2
  <2> QED
    BY <1>9, <2>1, <2>2
<1>12. DisjointUpTo(source, targets, n, longer, k + 1)
  BY <1>8, <1>11 DEF DisjointUpTo
<1> QED
  BY <1>12 DEF longer, new, target

\* The paths that find_paths finds, whether or not it finds all of them, are
\* "node-disjoint" (PathFinder.h:17).
THEOREM NodeDisjoint ==
  ASSUME NEW n \in Nat \ {0, 1}, NEW source \in 0..(n - 1), NEW start \in Nat,
         NEW targets, OtherTargets(source, targets, n)
  PROVE  DisjointUpTo(source, targets, n, find_paths(source, targets, n, start), Len(targets))
<1> DEFINE N == Len(targets)
           D == Seq(Seq(0..(n - 1)))
           add(paths, target) ==
             Append(paths, find_another(source, target, paths, targets, n, start))
           Good(paths, k) == DisjointUpTo(source, targets, n, paths, k)
           found[i \in 0..Len(targets)] ==
             IF i = 0 THEN <<>> ELSE add(found[i-1], targets[i])
<1>1. N \in Nat
  BY DEF OtherTargets
<1>2. find_paths(source, targets, n, start) = found[N]
  BY DEF find_paths
<1>3. Good(<<>>, 0)
  BY DEF DisjointUpTo
<1>4. ASSUME NEW k \in 0..(N - 1), NEW paths, Good(paths, k)
      PROVE  Good(add(paths, targets[k+1]), k + 1)
  BY <1>4, AnotherIsDisjoint
<1>5. \E f : f = [i \in 0..N |-> IF i = 0 THEN <<>> ELSE add(f[i-1], targets[i])]
  <2> DEFINE step == [k \in 0..(N - 1) |-> [paths \in D |->
                       IF Good(paths, k) THEN add(paths, targets[k+1]) ELSE paths]]
  <2>1. step \in [0..(N - 1) -> [D -> D]]
    <3> SUFFICES ASSUME NEW k \in 0..(N - 1), NEW paths \in D, Good(paths, k)
                 PROVE  add(paths, targets[k+1]) \in D
      OBVIOUS
    <3>1. Good(add(paths, targets[k+1]), k + 1)
      BY <1>4
    <3> QED
      BY <3>1 DEF DisjointUpTo
  <2>2. <<>> \in D
    OBVIOUS
  <2> HIDE DEF D, N, step
  <2>3. PICK f : Iterates(f, N, D, <<>>, step)
    BY <1>1, <2>1, <2>2, Recursion
  <2>4. f \in [0..N -> D] /\ f[0] = <<>> /\ \A k \in 0..(N - 1) : f[k + 1] = step[k][f[k]]
    BY <2>3 DEF Iterates
  <2> HIDE DEF Good, add
  <2> DEFINE Q == {k \in 0..N : Good(f[k], k)}
  <2>5. ASSUME NEW k \in 0..(N - 1), Good(f[k], k)
        PROVE  f[k + 1] = add(f[k], targets[k+1])
    <3>1. f[k] \in D
      BY <1>1, <2>4
    <3>2. step[k][f[k]] = add(f[k], targets[k+1])
      BY <2>5, <3>1 DEF step
    <3> QED
      BY <2>4, <3>2
  <2>6. 0 \in Q
    BY <1>1, <1>3, <2>4
  <2>7. \A k \in 0..(N - 1) : k \in Q => k + 1 \in Q
    BY <1>1, <1>4, <2>5
  <2> HIDE DEF Q
  <2>8. 0..N \subseteq Q
    BY <1>1, <2>6, <2>7, UpTo
  <2>9. ASSUME NEW i \in 0..N
        PROVE  f[i] = IF i = 0 THEN <<>> ELSE add(f[i-1], targets[i])
    <3>1. CASE i = 0
      BY <2>4, <3>1
    <3>2. CASE i # 0
      <4>1. i - 1 \in 0..(N - 1) /\ i - 1 \in 0..N /\ (i - 1) + 1 = i
        BY <1>1, <3>2
      <4>2. Good(f[i-1], i - 1)
        BY <2>8, <4>1 DEF Q
      <4> QED
        BY <2>5, <3>2, <4>1, <4>2
    <3> QED
      BY <3>1, <3>2
  <2>10. f = [i \in 0..N |-> f[i]]
    BY <2>4
  <2>11. f = [i \in 0..N |-> IF i = 0 THEN <<>> ELSE add(f[i-1], targets[i])]
    BY <2>9, <2>10, Zenon
  <2> QED
    BY <2>11
<1>6. found = [i \in 0..N |-> IF i = 0 THEN <<>> ELSE add(found[i-1], targets[i])]
  <2> HIDE DEF add
  <2>1. PICK f : f = [i \in 0..N |-> IF i = 0 THEN <<>> ELSE add(f[i-1], targets[i])]
    BY <1>5
  <2> QED
    BY <2>1, Zenon
<1> HIDE DEF found, add, N, Good
<1> DEFINE P == {k \in 0..N : Good(found[k], k)}
<1>7. 0 \in P
  BY <1>1, <1>3, <1>6
<1>8. ASSUME NEW k \in 0..(N - 1), k \in P PROVE k + 1 \in P
  <2>1. k + 1 \in 0..N /\ k + 1 # 0 /\ (k + 1) - 1 = k
    BY <1>1
  <2>2. found[k + 1] = add(found[k], targets[k+1])
    BY <1>6, <2>1
  <2> QED
    BY <1>4, <1>8, <2>1, <2>2
<1> HIDE DEF P
<1>9. 0..N \subseteq P
  BY <1>1, <1>7, <1>8, UpTo
<1>10. Good(found[N], N)
  BY <1>1, <1>9 DEF P
<1> QED
  BY <1>2, <1>10 DEF Good, N

\* A sequence without one of its elements, which it has once.
LEMMA RemoveKeepsOthers ==
  ASSUME NEW S, NEW s \in Seq(S), NEW e,
         \A i, j \in DOMAIN s : i # j => s[i] # s[j]
  PROVE  /\ RemoveFirst(s, e) \in Seq(S)
         /\ Range(RemoveFirst(s, e)) = Range(s) \ {e}
         /\ LET others == RemoveFirst(s, e)
            IN \A i, j \in DOMAIN others : i # j => others[i] # others[j]
<1>1. DOMAIN s = 1..Len(s) /\ Len(s) \in Nat
  OBVIOUS
<1>2. CASE \A i \in 1..Len(s) : s[i] # e
  <2>1. RemoveFirst(s, e) = s
    BY <1>2 DEF RemoveFirst
  <2>2. e \notin Range(s)
    BY <1>1, <1>2 DEF Range
  <2> QED
    BY <2>1, <2>2
<1>3. CASE \E i \in 1..Len(s) : s[i] = e
  <2> DEFINE I == {i \in 1..Len(s) : s[i] = e}
             i == SelectInSeq(s, LAMBDA v : v = e)
             before == SubSeq(s, 1, i - 1)
             behind == SubSeq(s, i + 1, Len(s))
             others == before \o behind
  <2>1. i \in 1..Len(s) /\ s[i] = e
    <3>1. PICK x \in I : \A y \in I : x <= y
      BY <1>1, <1>3, Least
    <3>2. i = Min(I)
      BY <1>3 DEF SelectInSeq
    <3>3. Min(I) \in I
      <4> HIDE DEF I
      <4> QED
        BY <3>1 DEF Min
    <3> QED
      BY <3>2, <3>3
  <2>2. RemoveFirst(s, e) = others
    BY <1>3 DEF RemoveFirst, RemoveAt
  <2> HIDE DEF i
  <2>3. /\ before \in Seq(S) /\ Len(before) = i - 1 /\ \A x \in 1..(i - 1) : before[x] = s[x]
        /\ behind \in Seq(S) /\ Len(behind) = Len(s) - i
        /\ \A x \in 1..(Len(s) - i) : behind[x] = s[i + x]
    <3>1. /\ before \in Seq(S) /\ Len(before) = i - 1
          /\ \A x \in 1..(i - 1) : before[x] = s[x]
      BY <1>1, <2>1, SubSeqProperties
    <3>2. /\ behind \in Seq(S) /\ Len(behind) = Len(s) - i
          /\ \A x \in 1..(Len(s) - i) : behind[x] = s[i + x]
      <4>1. /\ i + 1 \in Int /\ Len(s) \in Int
            /\ \A x \in (i + 1)..Len(s) : s[x] \in S
        BY <1>1, <2>1
      <4>2. /\ behind \in Seq(S)
            /\ Len(behind) = IF i + 1 <= Len(s) THEN Len(s) - (i + 1) + 1 ELSE 0
            /\ \A x \in 1..(Len(s) - (i + 1) + 1) : behind[x] = s[i + 1 + x - 1]
        BY <4>1, SubSeqProperties
      <4> HIDE DEF behind
      <4>3. Len(s) - (i + 1) + 1 = Len(s) - i
        BY <1>1, <2>1
      <4>4. ASSUME NEW x \in 1..(Len(s) - i) PROVE behind[x] = s[i + x]
        <5>1. i + 1 + x - 1 = i + x
          BY <1>1, <2>1
        <5> QED
          BY <4>2, <4>3, <5>1
      <4>5. Len(behind) = Len(s) - i
        <5>1. i \in 1..Len(s) /\ Len(s) \in Nat
          BY <1>1, <2>1
        <5>2. CASE i + 1 <= Len(s)
          <6>1. Len(behind) = Len(s) - (i + 1) + 1
            BY <4>2, <5>2
          <6> QED
            BY <4>3, <6>1
        <5>3. CASE ~ (i + 1 <= Len(s))
          <6>1. Len(behind) = 0
            BY <4>2, <5>3
          <6> QED
            BY <5>1, <5>3, <6>1
        <5> QED
          BY <5>2, <5>3
      <4> QED
        BY <4>2, <4>4, <4>5
    <3> QED
      BY <3>1, <3>2
  <2> HIDE DEF before, behind
  <2>4. /\ others \in Seq(S) /\ Len(others) = Len(s) - 1 /\ DOMAIN others = 1..(Len(s) - 1)
        /\ \A x \in 1..(Len(s) - 1) : others[x] = IF x < i THEN s[x] ELSE s[x + 1]
    <3>1. /\ others \in Seq(S) /\ Len(others) = Len(s) - 1
          /\ \A x \in 1..(Len(s) - 1) :
               others[x] = IF x <= i - 1 THEN before[x] ELSE behind[x - (i - 1)]
      <4>1. /\ others \in Seq(S) /\ Len(others) = Len(before) + Len(behind)
            /\ \A x \in 1..(Len(before) + Len(behind)) :
                 others[x] = IF x <= Len(before) THEN before[x] ELSE behind[x - Len(before)]
        <5>1. before \in Seq(S) /\ behind \in Seq(S)
          BY <2>3
        <5> QED
          BY <5>1, ConcatProperties, Zenon
      <4> HIDE DEF others
      <4>2. Len(before) + Len(behind) = Len(s) - 1
        BY <1>1, <2>1, <2>3
      <4> QED
        BY <2>3, <4>1, <4>2
    <3>2. ASSUME NEW x \in 1..(Len(s) - 1)
          PROVE  others[x] = IF x < i THEN s[x] ELSE s[x + 1]
      <4>1. CASE x < i
        BY <1>1, <2>1, <2>3, <3>1, <4>1
      <4>2. CASE ~ (x < i)
        <5>1. x - (i - 1) \in 1..(Len(s) - i) /\ i + (x - (i - 1)) = x + 1
          BY <1>1, <2>1, <4>2
        <5> QED
          BY <1>1, <2>1, <2>3, <3>1, <4>2, <5>1
      <4> QED
        BY <4>1, <4>2
    <3> HIDE DEF others
    <3>3. DOMAIN others = 1..Len(others)
      BY <3>1
    <3> QED
      BY <3>1, <3>2, <3>3
  <2> HIDE DEF others
  <2>5. ASSUME NEW x \in 1..(Len(s) - 1)
        PROVE  \E y \in DOMAIN s : y # i /\ y = (IF x < i THEN x ELSE x + 1) /\ others[x] = s[y]
    BY <1>1, <2>1, <2>4
  <2>6. ASSUME NEW y \in DOMAIN s, y # i
        PROVE  \E x \in 1..(Len(s) - 1) : others[x] = s[y]
    <3>1. CASE y < i
      BY <1>1, <2>1, <2>4, <3>1
    <3>2. CASE y > i
      <4>1. y - 1 \in 1..(Len(s) - 1) /\ ~ (y - 1 < i) /\ (y - 1) + 1 = y
        BY <1>1, <2>1, <3>2
      <4> QED
        BY <2>4, <4>1
    <3> QED
      BY <1>1, <2>1, <2>6, <3>1, <3>2
  <2>7. \A x, y \in DOMAIN others : x # y => others[x] # others[y]
    <3> SUFFICES ASSUME NEW x \in 1..(Len(s) - 1), NEW y \in 1..(Len(s) - 1), x # y
                 PROVE  others[x] # others[y]
      BY <2>4
    <3>1. (IF x < i THEN x ELSE x + 1) # (IF y < i THEN y ELSE y + 1)
      BY <1>1, <2>1
    <3> QED
      BY <2>5, <3>1
  <2>8. Range(others) \subseteq Range(s) \ {e}
    <3> SUFFICES ASSUME NEW x \in 1..(Len(s) - 1) PROVE others[x] \in Range(s) \ {e}
      BY <2>4 DEF Range
    <3>1. PICK y \in DOMAIN s : y # i /\ others[x] = s[y]
      BY <2>5
    <3> QED
      BY <1>1, <2>1, <3>1 DEF Range
  <2>9. Range(s) \ {e} \subseteq Range(others)
    <3> SUFFICES ASSUME NEW y \in DOMAIN s, s[y] # e PROVE s[y] \in Range(others)
      BY DEF Range
    <3>1. PICK x \in 1..(Len(s) - 1) : others[x] = s[y]
      BY <2>1, <2>6
    <3> QED
      BY <2>4, <3>1 DEF Range
  <2> QED
    BY <2>2, <2>4, <2>7, <2>8, <2>9
<1> QED
  BY <1>1, <1>2, <1>3

\* So the paths to a meter's targets other than itself share no node.
LEMMA PathsToOthers ==
  ASSUME NEW n \in Nat \ {0, 1}, NEW source \in 0..(n - 1), NEW start \in Nat,
         NEW targets \in Seq(0..(n - 1)),
         \A i, j \in DOMAIN targets : i # j => targets[i] # targets[j],
         NEW paths, paths = find_paths(source, RemoveFirst(targets, source), n, start)
  PROVE  /\ \A i, j \in DOMAIN paths :
              /\ source \notin Range(paths[i])
              /\ i # j => Range(paths[i]) \cap Range(paths[j]) = {}
         /\ \A path, other \in Range(paths) :
              path # NoPath /\ other # NoPath /\ Last(path) # Last(other)
                => Range(path) \cap Range(other) = {}
<1> DEFINE others == RemoveFirst(targets, source)
           N == Len(others)
<1>1. OtherTargets(source, others, n)
  <2>1. /\ others \in Seq(0..(n - 1)) /\ Range(others) = Range(targets) \ {source}
        /\ \A i, j \in DOMAIN others : i # j => others[i] # others[j]
    BY RemoveKeepsOthers
  <2> HIDE DEF others
  <2>2. others \in Seq(Range(others)) /\ Range(others) \subseteq (0..(n - 1)) \ {source}
    BY <2>1, SeqOfRange, RangeOfSeq
  <2>3. others \in Seq((0..(n - 1)) \ {source})
    BY <2>2, SeqMonotonic
  <2> QED
    BY <2>1, <2>3 DEF OtherTargets
<1> HIDE DEF others
<1>2. DisjointUpTo(source, others, n, paths, N)
  <2>1. paths = find_paths(source, others, n, start)
    BY DEF others
  <2> QED
    BY <1>1, <2>1, NodeDisjoint
<1> HIDE DEF N
<1>3. DOMAIN paths = 1..N
  <2>1. paths \in Seq(Seq(0..(n - 1))) /\ Len(paths) = N
    BY <1>2, Zenon DEF DisjointUpTo
  <2> QED
    BY <2>1, LenProperties
<1>4. \A i \in 1..N :
        /\ paths[i] # NoPath => Last(paths[i]) = others[i]
        /\ source \notin Range(paths[i])
        /\ \A j \in 1..N : i # j => Range(paths[i]) \cap Range(paths[j]) = {}
  BY <1>2, Zenon DEF DisjointUpTo
<1>5. ASSUME NEW path \in Range(paths), NEW other \in Range(paths),
             path # NoPath, other # NoPath, Last(path) # Last(other)
      PROVE  Range(path) \cap Range(other) = {}
  <2>1. PICK i \in 1..N, j \in 1..N : path = paths[i] /\ other = paths[j]
    BY <1>3 DEF Range
  <2>2. Last(path) = others[i] /\ Last(other) = others[j]
    BY <1>4, <1>5, <2>1
  <2>3. i # j
    BY <1>5, <2>2
  <2> QED
    BY <1>4, <2>1, <2>3
<1> QED
  BY <1>3, <1>4, <1>5

==============================================================================
