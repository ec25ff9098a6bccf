-------------------------- MODULE Recursion_proofs --------------------------
(***************************************************************************)
(* Facts about numbers, induction and recursion that the proofs about the  *)
(* components share. The induction theorems of the library take a           *)
(* predicate as a parameter; these take a set in its place.                *)
(***************************************************************************)
EXTENDS Integers, WellFoundedInduction, TLAPS

(* Every element of a bounded set of integers is below a greatest one, and     *)
(* above a least one.                                                        *)
LEMMA Greatest ==
  ASSUME NEW T, T \subseteq Int, T # {}, NEW b \in Int, \A x \in T : x <= b
  PROVE  \E u \in T : \A v \in T : v <= u
<1> DEFINE D == {b - x : x \in T}
<1>1. D \subseteq Nat
  <2>1. ASSUME NEW x \in T PROVE b - x \in Nat
    <3>1. x \in Int /\ x <= b
      OBVIOUS
    <3> QED BY <3>1
  <2> QED BY <2>1
<1>2. D # {}
  OBVIOUS
<1>3. PICK d \in D : \A y \in D : ~(<<y, d>> \in OpToRel(<, Nat))
  <2> HIDE DEF D
  <2> QED BY <1>1, <1>2, NatLessThanWellFounded, WFMin
<1>4. PICK u \in T : d = b - u
  OBVIOUS
<1>5. ASSUME NEW v \in T PROVE v <= u
  <2>1. b - v \in D /\ b - v \in Nat /\ d \in Nat
    BY <1>1
  <2>2. ~(b - v < d)
    BY <1>3, <2>1 DEF OpToRel
  <2>3. v \in Int /\ u \in Int
    OBVIOUS
  <2> QED BY <1>4, <2>2, <2>3
<1> QED BY <1>5

LEMMA Least ==
  ASSUME NEW T, T \subseteq Int, T # {}, NEW b \in Int, \A x \in T : b <= x
  PROVE  \E u \in T : \A v \in T : u <= v
<1> DEFINE N == {0 - x : x \in T}
<1>1. N \subseteq Int /\ N # {}
  OBVIOUS
<1>2. \A y \in N : y <= 0 - b
  OBVIOUS
<1>3. PICK n \in N : \A y \in N : y <= n
  <2> HIDE DEF N
  <2>1. 0 - b \in Int
    OBVIOUS
  <2> QED BY <1>1, <1>2, <2>1, Greatest
<1>4. PICK u \in T : n = 0 - u
  OBVIOUS
<1>5. ASSUME NEW v \in T PROVE u <= v
  <2>1. 0 - v <= n
    BY <1>3
  <2>2. v \in Int /\ u \in Int
    OBVIOUS
  <2> QED BY <1>4, <2>1, <2>2
<1> QED BY <1>5

(* A set of numbers that has one has a least one.                            *)
LEMMA LeastNumber ==
  ASSUME NEW T, T \subseteq Nat, T # {}
  PROVE  \E n \in T : \A m \in T : n <= m
  <1>1. IsWellFoundedOn(OpToRel(<, Nat), Nat)
    BY ONLY NatLessThanWellFounded
  <1>2. PICK n \in T : \A m \in T : ~(<<m, n>> \in OpToRel(<, Nat))
    BY ONLY <1>1, WFMin, T \subseteq Nat, T # {}
  <1>3. \A m \in T : ~(m < n)
    BY <1>2 DEF OpToRel
  <1> QED
    BY <1>3

(* Induction up to N, for a set in place of a predicate.                     *)
LEMMA InductionUpTo ==
  ASSUME NEW N \in Nat, NEW T, 0 \in T, \A m \in 0 .. N - 1 : m \in T => m + 1 \in T
  PROVE  \A n \in 0 .. N : n \in T
  <1> DEFINE Bad == {n \in 0 .. N : n \notin T}
  <1> SUFFICES ASSUME Bad # {} PROVE FALSE
    OBVIOUS
  <1>1. PICK n \in Bad : \A m \in Bad : n <= m
    <2>1. Bad \subseteq Nat
      OBVIOUS
    <2> HIDE DEF Bad
    <2> QED
      BY <2>1, LeastNumber
  <1>2. n \in 0 .. N /\ n \notin T /\ n # 0
    BY <1>1
  <1>3. n - 1 \in 0 .. N - 1 /\ n - 1 \in 0 .. N /\ ~(n <= n - 1) /\ n - 1 + 1 = n
    BY <1>2
  <1>4. n - 1 \in T
    BY <1>1, <1>3
  <1> QED
    BY <1>2, <1>3, <1>4

IsRecursion(N, v, G, f) == f = [n \in 0 .. N |-> IF n = 0 THEN v ELSE G[<<n, f[n - 1]>>]]

(* A function defined by recursion on 0 .. N exists.                         *)
LEMMA RecursionUpTo ==
  ASSUME NEW N \in Nat, NEW V, NEW v \in V, NEW G \in [(1 .. N) \X V -> V]
  PROVE  \E f \in [0 .. N -> V] : IsRecursion(N, v, G, f)
  <1> DEFINE Good(m) == \E f \in [0 .. m -> V] :
                          f[0] = v /\ \A n \in 1 .. m : f[n] = G[<<n, f[n - 1]>>]
             T       == {m \in 0 .. N : Good(m)}
  <1>1. Good(0)
    <2>1. [n \in 0 .. 0 |-> v] \in [0 .. 0 -> V]
      OBVIOUS
    <2>2. [n \in 0 .. 0 |-> v][0] = v
      OBVIOUS
    <2>3. \A n \in 1 .. 0 : FALSE
      OBVIOUS
    <2> QED
      BY <2>1, <2>2, <2>3
  <1>2. ASSUME NEW m \in 0 .. N - 1, Good(m)
        PROVE  Good(m + 1)
    <2>1. PICK f \in [0 .. m -> V] : f[0] = v /\ \A n \in 1 .. m : f[n] = G[<<n, f[n - 1]>>]
      BY <1>2
    <2>2. m \in Nat /\ m + 1 \in 1 .. N /\ m \in 0 .. m /\ m + 1 - 1 = m
      OBVIOUS
    <2> DEFINE g == [n \in 0 .. m + 1 |-> IF n = m + 1 THEN G[<<m + 1, f[m]>>] ELSE f[n]]
    <2>3. G[<<m + 1, f[m]>>] \in V
      BY <2>1, <2>2
    <2>4. g \in [0 .. m + 1 -> V]
      BY <2>1, <2>2, <2>3
    <2>5. g[0] = v
      BY <2>1, <2>2
    <2>6. ASSUME NEW n \in 1 .. m + 1
          PROVE  g[n] = G[<<n, g[n - 1]>>]
      <3>1. n \in 0 .. m + 1 /\ n - 1 \in 0 .. m + 1 /\ n - 1 # m + 1
        BY <2>2
      <3>2. CASE n = m + 1
        BY <2>2, <3>1, <3>2
      <3>3. CASE n # m + 1
        <4>1. n \in 1 .. m
          BY <2>2, <3>3
        <4> QED
          BY <2>1, <3>1, <3>3, <4>1
      <3> QED
        BY <3>2, <3>3
    <2> QED
      BY <2>4, <2>5, <2>6
  <1> HIDE DEF Good
  <1>3. Good(N)
    <2>1. \A m \in 0 .. N - 1 : m \in T => m + 1 \in T
      BY <1>2
    <2>2. 0 \in T /\ N \in 0 .. N
      BY <1>1
    <2>3. T = T
      OBVIOUS
    <2> HIDE DEF T
    <2>4. N \in T
      BY <2>1, <2>2, InductionUpTo
    <2> QED
      BY <2>4 DEF T
  <1>4. PICK f \in [0 .. N -> V] : f[0] = v /\ \A n \in 1 .. N : f[n] = G[<<n, f[n - 1]>>]
    BY <1>3 DEF Good
  <1>5. \A n \in 0 .. N : n # 0 => n \in 1 .. N
    OBVIOUS
  <1>6. f = [n \in 0 .. N |-> IF n = 0 THEN v ELSE G[<<n, f[n - 1]>>]]
    BY <1>4, <1>5
  <1> QED
    BY <1>6 DEF IsRecursion

(* Induction over all natural numbers.                                     *)
LEMMA InductionOnNat ==
  ASSUME NEW T, 0 \in T, \A m \in Nat : m \in T => m + 1 \in T
  PROVE  \A n \in Nat : n \in T
  <1>1. SUFFICES ASSUME NEW n \in Nat PROVE n \in T
    OBVIOUS
  <1>2. \A m \in 0 .. n - 1 : m \in T => m + 1 \in T
    OBVIOUS
  <1>3. n \in 0 .. n
    OBVIOUS
  <1> QED
    BY <1>2, <1>3, InductionUpTo

(* Induction on a measure.                                                 *)
LEMMA MeasureInduction ==
  ASSUME NEW S, NEW m \in [S -> Nat], NEW T,
         \A x \in S : (\A y \in S : m[y] < m[x] => y \in T) => x \in T
  PROVE  \A x \in S : x \in T
  <1> DEFINE Bad == {m[x] : x \in {y \in S : y \notin T}}
  <1> SUFFICES ASSUME Bad # {} PROVE FALSE
    OBVIOUS
  <1>1. Bad \subseteq Nat
    OBVIOUS
  <1>2. PICK n \in Bad : \A k \in Bad : n <= k
    <2> HIDE DEF Bad
    <2> QED
      BY <1>1, LeastNumber
  <1>3. PICK x \in S : x \notin T /\ m[x] = n
    OBVIOUS
  <1>4. \A y \in S : m[y] < m[x] => y \in T
    <2>1. SUFFICES ASSUME NEW y \in S, m[y] < m[x], y \notin T PROVE FALSE
      OBVIOUS
    <2>2. m[y] \in Bad /\ m[y] \in Nat /\ n \in Nat
      BY <2>1, <1>1
    <2>3. n <= m[y] /\ m[y] < n
      BY <2>1, <2>2, <1>2, <1>3
    <2> HIDE DEF Bad
    <2> QED
      BY <2>2, <2>3
  <1> QED
    BY <1>3, <1>4

IsTailRecursion(S, D, out, next, f) ==
  f = [x \in S |-> IF x \in D THEN out[x] ELSE f[next[x]]]

(* A function that is defined by tail recursion exists, if a measure falls. *)
LEMMA TailRecursion ==
  ASSUME NEW S, NEW R, NEW r \in R, NEW D, NEW out \in [S -> R], NEW next \in [S -> S],
         NEW N \in Nat, NEW m \in [S -> 0 .. N],
         \A x \in S : x \notin D => m[next[x]] < m[x]
  PROVE  \E f \in [S -> R] : IsTailRecursion(S, D, out, next, f)
  <1> DEFINE Step(f, x) == IF x \in D THEN out[x] ELSE f[next[x]]
             Good(n) == \E f \in [S -> R] : \A x \in S : m[x] < n => f[x] = Step(f, x)
             T == {n \in 0 .. N + 1 : Good(n)}
  <1>1. Good(0)
    <2>1. [x \in S |-> r] \in [S -> R]
      OBVIOUS
    <2>2. \A x \in S : ~(m[x] < 0)
      OBVIOUS
    <2> QED
      BY <2>1, <2>2
  <1>2. ASSUME NEW n \in 0 .. N, Good(n)
        PROVE  Good(n + 1)
    <2>1. PICK f \in [S -> R] : \A x \in S : m[x] < n => f[x] = Step(f, x)
      BY <1>2
    <2> DEFINE g == [x \in S |-> IF m[x] < n THEN f[x] ELSE Step(f, x)]
    <2>2. g \in [S -> R]
      OBVIOUS
    <2>3. ASSUME NEW x \in S, m[x] < n + 1
          PROVE  g[x] = Step(g, x)
      <3>1. g[x] = Step(f, x)
        BY <2>1
      <3>2. CASE x \in D
        BY <3>1, <3>2
      <3>3. CASE x \notin D
        <4>1. next[x] \in S /\ m[next[x]] < n
          BY <2>3, <3>3
        <4>2. g[next[x]] = f[next[x]]
          BY <4>1
        <4> QED
          BY <3>1, <3>3, <4>2
      <3> QED
        BY <3>2, <3>3
    <2> HIDE DEF g
    <2> QED
      BY <2>2, <2>3
  <1>3. Good(N + 1)
    <2>1. \A n \in 0 .. (N + 1) - 1 : n \in T => n + 1 \in T
      <3> HIDE DEF Good
      <3> QED
        BY <1>2
    <2>2. 0 \in T /\ N + 1 \in 0 .. N + 1 /\ N + 1 \in Nat
      BY <1>1
    <2> HIDE DEF T
    <2>3. N + 1 \in T
      BY <2>1, <2>2, InductionUpTo
    <2> QED
      BY <2>3 DEF T
  <1>4. PICK f \in [S -> R] : \A x \in S : m[x] < N + 1 => f[x] = Step(f, x)
    BY <1>3
  <1>5. \A x \in S : f[x] = Step(f, x)
    BY <1>4
  <1>6. f = [x \in S |-> Step(f, x)]
    BY <1>5
  <1> QED
    BY <1>6 DEF IsTailRecursion

(* Division. The next multiples of n, and what is between them.            *)
LEMMA DivMod ==
  ASSUME NEW n \in Nat \ {0}, NEW x \in Nat
  PROVE  (x \div n) \in Nat /\ (x % n) \in 0 .. n - 1 /\ x = n * (x \div n) + (x % n)
<1>1. x = n * (x \div n) + (x % n)
  OBVIOUS
<1>2. (x % n) \in 0 .. n - 1
  OBVIOUS
<1>3. (x \div n) \in Nat
  OBVIOUS
<1> QED BY <1>1, <1>2, <1>3

LEMMA ModUnique ==
  ASSUME NEW n \in Nat \ {0}, NEW a \in Nat, NEW r \in 0 .. n - 1, NEW x, x = n * a + r
  PROVE  x % n = r
OBVIOUS

LEMMA ModAround ==
  ASSUME NEW n \in Nat \ {0}, NEW x \in Nat
  PROVE  (x + n) % n = x % n
<1> DEFINE q == x \div n
           r == x % n
           y == x + n
<1>1. q \in Nat /\ r \in 0 .. n - 1 /\ x = n * q + r
  BY DivMod
<1> HIDE DEF q, r
<1>2. y = n * (q + 1) + r /\ q + 1 \in Nat
  BY <1>1
<1> HIDE DEF y
<1>3. y % n = r
  BY <1>1, <1>2, ModUnique
<1> QED BY <1>3 DEF r, y

LEMMA ModOffset ==
  ASSUME NEW n \in Nat \ {0}, NEW x \in Nat, x % n = 0, NEW k \in 0 .. n - 1
  PROVE  (x + k) % n = k
<1> DEFINE q == x \div n
           y == x + k
<1>1. q \in Nat /\ x = n * q + 0
  BY DivMod
<1> HIDE DEF q
<1>2. y = n * q + k
  BY <1>1
<1> HIDE DEF y
<1>3. y % n = k
  BY <1>1, <1>2, ModUnique
<1> QED BY <1>3 DEF y

LEMMA ModApart ==
  ASSUME NEW n \in Nat \ {0}, NEW x \in Nat, NEW y \in Nat, x < y, y < x + n
  PROVE  x % n # y % n
<1> SUFFICES ASSUME x % n = y % n PROVE FALSE
  OBVIOUS
<1> DEFINE a == x \div n
           b == y \div n
           r == x % n
<1>1. a \in Nat /\ b \in Nat /\ r \in Nat /\ x = n * a + r /\ y = n * b + r
  <2>1. a \in Nat /\ r \in Nat /\ x = n * a + r
    BY ONLY n \in Nat \ {0}, x \in Nat, DivMod
  <2>2. b \in Nat /\ y = n * b + (y % n)
    BY DivMod
  <2> HIDE DEF a, b
  <2> QED BY <2>1, <2>2
<1> HIDE DEF a, b, r
<1> DEFINE d == b - a
<1>2. d \in Int /\ b = a + d
  BY <1>1
<1> HIDE DEF d
<1>3. n * b = n * a + n * d /\ n * a \in Nat /\ n * b \in Nat /\ n * d \in Int
  BY <1>1, <1>2
<1>4. d > 0 => n * d >= n
  BY <1>2
<1>5. ~(d > 0) => n * d <= 0
  BY <1>2
<1> QED BY <1>1, <1>3, <1>4, <1>5
=============================================================================
