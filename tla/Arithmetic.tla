----------------------------- MODULE Arithmetic -----------------------------
(***************************************************************************)
(* What the proofs about the loops and the counters rest on: induction     *)
(* over a set of naturals, the existence of the functions defined by       *)
(* f[0] = x0, f[n + 1] = G[n][f[n]], and numbers known only up to a        *)
(* modulus, the slots of a ring or a counter that wraps.                   *)
(***************************************************************************)
EXTENDS Integers, TLAPS, WellFoundedInduction

LOCAL Smaller == {ss \in Nat \X Nat : ss[1] < ss[2]}

\* The order of the naturals is well founded, as a set of pairs.
LEMMA SmallerIsWellFounded == IsWellFoundedOn(Smaller, Nat)
  BY NatLessThanWellFounded DEF OpToRel, Smaller

\* A set that holds 0 and the successor of each of its naturals holds them all.
LEMMA SetInduction ==
  ASSUME NEW S, 0 \in S, \A n \in Nat : n \in S => n + 1 \in S
  PROVE  Nat \subseteq S
<1> SUFFICES ASSUME Nat \ S # {} PROVE FALSE
  OBVIOUS
<1> DEFINE T == Nat \ S
<1>1. \E x \in T : \A y \in T : ~ (<<y, x>> \in Smaller)
  BY WFMin, SmallerIsWellFounded
<1>2. PICK x \in T : \A y \in T : ~ (y < x)
  BY <1>1 DEF Smaller
<1>3. x - 1 \in Nat \ S
  BY <1>2
<1> QED
  BY <1>2, <1>3

\* A set of naturals that is not empty has a least element.
LEMMA LeastExists ==
  ASSUME NEW S \in SUBSET Nat, S # {}
  PROVE  \E s \in S : \A r \in S : s <= r
<1> SUFFICES ASSUME \A s \in S : \E r \in S : r < s PROVE FALSE
  OBVIOUS
<1> DEFINE A == {n \in Nat : \A s \in S : n < s}
<1>1. 0 \in A
  OBVIOUS
<1>2. ASSUME NEW n \in Nat, n \in A PROVE n + 1 \in A
  <2> SUFFICES ASSUME NEW s \in S PROVE n + 1 < s
    OBVIOUS
  <2>1. PICK r \in S : r < s
    OBVIOUS
  <2>2. n < r /\ s \in Nat /\ r \in Nat
    BY <1>2
  <2> QED BY <2>1, <2>2
<1>3. Nat \subseteq A
  <2> HIDE DEF A
  <2> QED BY <1>1, <1>2, SetInduction
<1>4. PICK s \in S : s \in Nat /\ s \in A
  BY <1>3
<1>5. s < s
  BY <1>4
<1> QED BY <1>4, <1>5

\* f starts at x0 in S and moves on by G.
Recurs(f, S, x0, G) ==
  /\ f \in [Nat -> S]
  /\ f[0] = x0
  /\ \A n \in Nat : f[n + 1] = G[n][f[n]]

\* Primitive recursion defines a function on the naturals.
LEMMA RecursionExists ==
  ASSUME NEW S, NEW x0 \in S, NEW G \in [Nat -> [S -> S]]
  PROVE  \E f : Recurs(f, S, x0, G)
<1> DEFINE Partial(n) ==
      {f \in [0 .. n -> S] : f[0] = x0 /\ \A m \in 0 .. n - 1 : f[m + 1] = G[m][f[m]]}
<1>1. \A n \in Nat : Partial(n) # {}
  <2> DEFINE A == {n \in Nat : Partial(n) # {}}
  <2>1. 0 \in A
    <3>1. [i \in 0 .. 0 |-> x0] \in Partial(0)
      OBVIOUS
    <3> QED BY <3>1
  <2>2. ASSUME NEW n \in Nat, n \in A PROVE n + 1 \in A
    <3>1. PICK f \in Partial(n) : TRUE
      BY <2>2
    <3> DEFINE g == [i \in 0 .. n + 1 |-> IF i = n + 1 THEN G[n][f[n]] ELSE f[i]]
    <3>2. G[n][f[n]] \in S
      BY <3>1
    <3>3. g \in [0 .. n + 1 -> S]
      BY <3>1, <3>2
    <3>4. g[0] = x0
      BY <3>1
    <3>5. ASSUME NEW m \in 0 .. n PROVE g[m + 1] = G[m][g[m]]
      <4>1. CASE m = n
        BY <4>1, <3>1
      <4>2. CASE m # n
        BY <4>2, <3>1
      <4> QED BY <4>1, <4>2
    <3>6. g \in Partial(n + 1)
      BY <3>3, <3>4, <3>5
    <3> QED BY <3>6, SMTT(30)
  <2>3. Nat \subseteq A
    <3> HIDE DEF A
    <3> QED BY <2>1, <2>2, SetInduction
  <2> QED BY <2>3
<1>2. ASSUME NEW n \in Nat, NEW k \in Nat, NEW f \in Partial(n), NEW g \in Partial(k)
      PROVE  \A i \in Nat : i <= n /\ i <= k => f[i] = g[i]
  <2> DEFINE D == {i \in Nat : i <= n /\ i <= k => f[i] = g[i]}
  <2>1. 0 \in D
    OBVIOUS
  <2>2. ASSUME NEW i \in Nat, i \in D PROVE i + 1 \in D
    <3> SUFFICES ASSUME i + 1 <= n, i + 1 <= k PROVE f[i + 1] = g[i + 1]
      OBVIOUS
    <3>1. f[i] = g[i]
      BY <2>2
    <3> QED BY <3>1
  <2>3. Nat \subseteq D
    <3> HIDE DEF D
    <3> QED BY <2>1, <2>2, SetInduction
  <2> QED BY <2>3
<1> DEFINE Part(n) == CHOOSE f : f \in Partial(n)
           F == [n \in Nat |-> Part(n)[n]]
<1>3. \A n \in Nat : Part(n) \in Partial(n)
  <2> HIDE DEF Partial
  <2> QED BY <1>1
<1> HIDE DEF Part
<1>4. F \in [Nat -> S]
  BY <1>3
<1>5. F[0] = x0
  BY <1>3
<1>6. ASSUME NEW n \in Nat PROVE F[n + 1] = G[n][F[n]]
  <2>1. Part(n + 1)[n] = Part(n)[n]
    <3> HIDE DEF Partial
    <3>1. Part(n + 1) \in Partial(n + 1) /\ Part(n) \in Partial(n) /\ n + 1 \in Nat
      BY <1>3
    <3>2. n <= n + 1 /\ n <= n
      OBVIOUS
    <3> QED BY <1>2, <3>1, <3>2
  <2>2. Part(n + 1)[n + 1] = G[n][Part(n + 1)[n]]
    <3>1. Part(n + 1) \in Partial(n + 1) /\ n + 1 \in Nat
      BY <1>3
    <3>2. n \in 0 .. (n + 1) - 1
      OBVIOUS
    <3> QED BY <3>1, <3>2
  <2> QED BY <2>1, <2>2
<1> HIDE DEF F
<1>7. Recurs(F, S, x0, G)
  BY <1>4, <1>5, <1>6 DEF Recurs
<1> QED
  BY <1>7

-----------------------------------------------------------------------------
(* Rings and wrapping counters.                                            *)

\* Every number has a slot of the ring.
LEMMA ModRange ==
  ASSUME NEW x \in Int, NEW h \in Nat \ {0}
  PROVE  x % h \in 0 .. h - 1
  OBVIOUS

\* Two numbers that share a slot of the ring are a whole ring apart.
LEMMA ModGap ==
  ASSUME NEW x \in Nat, NEW y \in Nat, NEW h \in Nat \ {0},
         x % h = y % h, x < y
  PROVE  y >= x + h
<1> DEFINE a == x \div h
           b == y \div h
<1>1. /\ a \in Int /\ b \in Int
      /\ x = a * h + (x % h)
      /\ y = b * h + (y % h)
  OBVIOUS
<1>2. y - x = (b - a) * h
  BY <1>1
<1> HIDE DEF a, b
<1>3. b - a >= 1
  BY <1>1, <1>2
<1>4. (b - a) * h >= h
  BY <1>1, <1>3
<1> QED BY <1>2, <1>4

\* What is left of a number of whole ranges and a rest is the rest.
LEMMA Remainder ==
  ASSUME NEW m \in Nat \ {0}, NEW q \in Int, NEW r \in 0 .. m - 1, NEW a \in Int,
         a = m * q + r
  PROVE  a % m = r
  OBVIOUS

\* The difference of two numbers less than a range apart, read off a counter of
\* that range, is right or a range too small.
LEMMA Unwrapped ==
  ASSUME NEW a \in Int, NEW b \in Int, NEW m \in Nat \ {0}, a - b \in 0 .. m - 1
  PROVE  (a % m) - (b % m) \in {a - b, a - b - m}
<1> DEFINE q == a \div m
           r == b \div m
<1>1. /\ q \in Int /\ r \in Int
      /\ a = q * m + (a % m) /\ a % m \in 0 .. m - 1
      /\ b = r * m + (b % m) /\ b % m \in 0 .. m - 1
  OBVIOUS
<1>2. (q - r) * m = (a - b) - ((a % m) - (b % m))
  BY <1>1
<1> HIDE DEF q, r
<1> DEFINE d == q - r
<1>3. d \in Int /\ d * m < 2 * m /\ d * m > 0 - m
  BY <1>1, <1>2
<1> HIDE DEF d
<1>4. d \in {0, 1}
  <2>1. d >= 2 => d * m >= 2 * m
    BY <1>3
  <2>2. d <= -1 => d * m <= 0 - m
    BY <1>3
  <2> QED  BY <1>3, <2>1, <2>2
<1>5. d * m = (a - b) - ((a % m) - (b % m))
  BY <1>2 DEF d
<1> QED  BY <1>1, <1>4, <1>5

\* The distance to an older number, across a wrap.
LEMMA WrappedGap ==
  ASSUME NEW a \in Int, NEW b \in Int, NEW m \in Nat \ {0}, a - b \in 0 .. m - 1
  PROVE  ((a % m) - (b % m)) % m = a - b
<1>1. (a % m) - (b % m) \in {a - b, a - b - m}
  BY Unwrapped
<1>2. a % m \in 0 .. m - 1 /\ b % m \in 0 .. m - 1
  BY ModRange
<1>3. (a - b) % m = a - b
  OBVIOUS
<1>4. (a - b - m) % m = a - b
  <2> DEFINE x == a - b - m
             r == a - b
  <2>1. x \in Int /\ r \in 0 .. m - 1 /\ x = m * (-1) + r
    OBVIOUS
  <2> HIDE DEF x, r
  <2>2. x % m = r
    BY <2>1, Remainder, -1 \in Int
  <2> QED  BY <2>2 DEF x, r
<1> QED  BY <1>1, <1>3, <1>4

\* Of two numbers less than half a range apart, which is the newer can be read
\* off the counter.
LEMMA WrappedOrder ==
  ASSUME NEW a \in Int, NEW b \in Int, NEW m \in Nat \ {0}, NEW k \in Nat, m = 2 * k,
         a - b < k, b - a < k
  PROVE  a > b <=> \/ (a % m) > (b % m) /\ (a % m) - (b % m) <= k
                   \/ (b % m) > (a % m) /\ (b % m) - (a % m) > k
<1>1. a % m \in 0 .. m - 1 /\ b % m \in 0 .. m - 1
  BY ModRange
<1>2. ASSUME a >= b PROVE (a % m) - (b % m) \in {a - b, a - b - m}
  <2>1. a - b \in 0 .. m - 1
    BY <1>2
  <2> QED  BY <2>1, Unwrapped
<1>3. ASSUME b >= a PROVE (b % m) - (a % m) \in {b - a, b - a - m}
  <2>1. b - a \in 0 .. m - 1
    BY <1>3
  <2> QED  BY <2>1, Unwrapped
<1> QED  BY <1>1, <1>2, <1>3

\* Numbers less than a range apart are told apart by the counter.
LEMMA WrappedApart ==
  ASSUME NEW a \in Int, NEW b \in Int, NEW m \in Nat \ {0},
         a - b < m, b - a < m, a % m = b % m
  PROVE  a = b
<1>1. a % m \in 0 .. m - 1 /\ b % m \in 0 .. m - 1
  BY ModRange
<1>2. ASSUME a >= b PROVE (a % m) - (b % m) \in {a - b, a - b - m}
  <2>1. a - b \in 0 .. m - 1
    BY <1>2
  <2> QED  BY <2>1, Unwrapped
<1>3. ASSUME b >= a PROVE (b % m) - (a % m) \in {b - a, b - a - m}
  <2>1. b - a \in 0 .. m - 1
    BY <1>3
  <2> QED  BY <2>1, Unwrapped
<1> QED  BY <1>1, <1>2, <1>3

\* A counter that wraps goes on counting.
LEMMA WrappedNext ==
  ASSUME NEW a \in Nat, NEW m \in Nat \ {0}
  PROVE  ((a % m) + 1) % m = (a + 1) % m
<1> DEFINE q == a \div m
           r == a % m
           n == a + 1
<1>1. q \in Int /\ a = q * m + r /\ r \in 0 .. m - 1
  BY ModRange
<1>2. CASE r + 1 < m
  <2> DEFINE t == r + 1
  <2>1. t \in 0 .. m - 1 /\ n \in Int /\ n = m * q + t
    BY <1>1, <1>2
  <2>2. t % m = t
    <3> HIDE DEF t
    <3> QED  BY <2>1
  <2> HIDE DEF t, n, q
  <2>3. n % m = t
    BY <1>1, <2>1, Remainder
  <2> QED  BY <2>2, <2>3 DEF n, t
<1>3. CASE r + 1 = m
  <2> DEFINE p == q + 1
  <2>1. m % m = 0
    <3>1. m = m * 1 + 0 /\ 0 \in 0 .. m - 1
      OBVIOUS
    <3> QED  BY <3>1, Remainder
  <2>2. p \in Int /\ n \in Int /\ n = m * p + 0 /\ 0 \in 0 .. m - 1
    BY <1>1, <1>3
  <2> HIDE DEF p, n
  <2>3. n % m = 0
    BY <2>2, Remainder
  <2> QED  BY <1>3, <2>1, <2>3 DEF n
<1> QED  BY <1>1, <1>2, <1>3
=============================================================================
