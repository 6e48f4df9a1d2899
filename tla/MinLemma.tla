------------------------------ MODULE MinLemma ------------------------------
\* What the proofs need to know of numbers: the least element of a set, induction
\* up to a number, functions defined step by step, and positions on a ring.
EXTENDS Integers, FiniteSetsExt, TLAPS, WellFoundedInduction

\* A set of numbers that is not empty has a smallest one, and Min is it.
LEMMA MinInSet ==
  ASSUME NEW S \in SUBSET Nat, S # {}
  PROVE  Min(S) \in S /\ \A x \in S: Min(S) <= x
<1>1. PICK m \in S: \A y \in S: ~ (<<y, m>> \in OpToRel(<, Nat))
  BY WFMin, NatLessThanWellFounded
<1>2. ASSUME NEW y \in S PROVE m <= y
  <2>1. <<y, m>> \in Nat \X Nat
    OBVIOUS
  <2>2. ~ (y < m)
    BY <1>1, <2>1, Zenon DEF OpToRel
  <2>3. QED  BY <2>2
<1>3. QED  BY <1>2 DEF Min

\* What holds of 0 and is handed on from each number below n to the next holds up to n.
LEMMA UpTo ==
  ASSUME NEW n \in Nat, NEW S, 0 \in S, \A k \in 0 .. n - 1: k \in S => k + 1 \in S
  PROVE  0 .. n \subseteq S
<1> DEFINE T == {k \in 0 .. n: k \notin S}
<1>1. SUFFICES ASSUME T # {} PROVE FALSE
  OBVIOUS
<1>2. T \in SUBSET Nat
  OBVIOUS
<1>3. Min(T) \in T /\ \A x \in T: Min(T) <= x
  BY <1>1, <1>2, MinInSet
<1> DEFINE m == Min(T)
<1> HIDE DEF m
<1>4. m \in 0 .. n /\ m \notin S /\ \A x \in T: m <= x
  BY <1>3 DEF m
<1>5. m - 1 \in 0 .. n - 1 /\ m - 1 \notin T
  BY <1>4
<1>6. QED  BY <1>4, <1>5

\* g lists what becomes of a when the steps of f are applied one after the other.
Iteration(g, n, a, f) == g[0] = a /\ \A k \in 1 .. n: g[k] = f[k][g[k - 1]]

LEMMA Iterates ==
  ASSUME NEW n \in Nat, NEW S, NEW a \in S, NEW f \in [1 .. n -> [S -> S]]
  PROVE  \E g \in [0 .. n -> S]: Iteration(g, n, a, f)
<1> DEFINE Good(k, g) == g[0] = a /\ \A j \in 1 .. k: g[j] = f[j][g[j - 1]]
           D == {k \in 0 .. n: \E g \in [0 .. k -> S]: Good(k, g)}
<1>1. 0 \in D
  <2>1. [i \in 0 .. 0 |-> a] \in [0 .. 0 -> S] /\ Good(0, [i \in 0 .. 0 |-> a])
    OBVIOUS
  <2>2. \E g \in [0 .. 0 -> S]: Good(0, g)
    BY <2>1
  <2>3. 0 \in 0 .. n
    OBVIOUS
  <2>4. QED  BY <2>2, <2>3, Zenon
<1>2. ASSUME NEW k \in 0 .. n - 1, k \in D
      PROVE  k + 1 \in D
  <2>1. PICK g \in [0 .. k -> S]: Good(k, g)
    BY <1>2
  <2> DEFINE h == [i \in 0 .. k + 1 |-> IF i <= k THEN g[i] ELSE f[k + 1][g[k]]]
  <2>2. f[k + 1][g[k]] \in S
    <3>1. f[k + 1] \in [S -> S] /\ g[k] \in S
      OBVIOUS
    <3>2. QED  BY <3>1
  <2>3. h \in [0 .. k + 1 -> S]
    BY <2>2
  <2>4. \A i \in 0 .. k: h[i] = g[i]
    OBVIOUS
  <2>5. h[k + 1] = f[k + 1][g[k]]
    OBVIOUS
  <2> HIDE DEF h
  <2>6. Good(k + 1, h)
    BY <2>1, <2>4, <2>5
  <2>7. QED  BY <2>3, <2>6
<1> HIDE DEF D
<1>3. \A k \in 0 .. n - 1: k \in D => k + 1 \in D
  BY <1>2
<1>4. 0 .. n \subseteq D
  BY <1>1, <1>3, UpTo
<1>5. n \in D
  BY <1>4
<1>6. QED  BY <1>5 DEF D, Iteration

\* g lists what comes out when the steps of f are applied from n downwards, each to what
\* came out at some next[a] above it.
Descent(g, n, z, f, next) == \A a \in 0 .. n: g[a] = IF a = n THEN z ELSE f[a][g[next[a]]]

LEMMA Descends ==
  ASSUME NEW n \in Nat, NEW S, NEW z \in S, NEW f \in [0 .. n - 1 -> [S -> S]],
         NEW next, \A a \in 0 .. n - 1: next[a] \in a + 1 .. n
  PROVE  \E g \in [0 .. n -> S]: Descent(g, n, z, f, next)
<1> DEFINE Good(k, g) ==
             \A a \in n - k .. n: g[a] = IF a = n THEN z ELSE f[a][g[next[a]]]
           D == {k \in 0 .. n: \E g \in [n - k .. n -> S]: Good(k, g)}
<1>1. 0 \in D
  <2> DEFINE g == [a \in n .. n |-> z]
  <2>1. g \in [n - 0 .. n -> S] /\ \A a \in n - 0 .. n: a = n /\ g[a] = z
    OBVIOUS
  <2> HIDE DEF g
  <2>2. Good(0, g)
    BY <2>1
  <2>3. QED  BY <2>1, <2>2
<1>2. ASSUME NEW k \in 0 .. n - 1, k \in D
      PROVE  k + 1 \in D
  <2>1. PICK g \in [n - k .. n -> S]: Good(k, g)
    BY <1>2
  <2> DEFINE m == n - (k + 1)
             h == [a \in m .. n |-> IF a = m THEN f[m][g[next[m]]] ELSE g[a]]
  <2>2. m \in 0 .. n - 1 /\ m + 1 = n - k /\ m # n
    OBVIOUS
  <2>3. next[m] \in n - k .. n
    BY <2>2
  <2>4. f[m][g[next[m]]] \in S
    <3>1. f[m] \in [S -> S] /\ g[next[m]] \in S
      BY <2>2, <2>3
    <3>2. QED  BY <3>1
  <2>5. \A a \in m .. n: a = m \/ a \in n - k .. n
    BY <2>2
  <2>6. h \in [m .. n -> S]
    BY <2>4, <2>5
  <2>7. \A a \in n - k .. n: h[a] = g[a] /\ a # m
    BY <2>2
  <2>8. h[m] = f[m][g[next[m]]]
    BY <2>2
  <2> HIDE DEF h
  <2>9. ASSUME NEW a \in m .. n
        PROVE  h[a] = IF a = n THEN z ELSE f[a][h[next[a]]]
    <3>1. CASE a = m
      BY <2>2, <2>3, <2>7, <2>8, <3>1
    <3>2. CASE a # m
      <4>1. a \in n - k .. n /\ h[a] = g[a]
        BY <2>5, <2>7, <3>2
      <4>2. a # n => next[a] \in n - k .. n
        <5>1. a # n => a \in 0 .. n - 1 /\ a >= n - k
          BY <4>1
        <5>2. a # n => next[a] \in a + 1 .. n
          BY <5>1
        <5>3. QED  BY <5>1, <5>2
      <4>3. QED  BY <2>1, <2>7, <4>1, <4>2
    <3>3. QED  BY <3>1, <3>2
  <2>10. Good(k + 1, h)
    BY <2>9
  <2>11. k + 1 \in 0 .. n
    OBVIOUS
  <2> HIDE DEF m, Good
  <2>12. h \in [n - (k + 1) .. n -> S]
    BY <2>6 DEF m
  <2>13. QED  BY <2>10, <2>11, <2>12
<1> HIDE DEF D
<1>3. 0 .. n \subseteq D
  BY <1>1, <1>2, UpTo
<1>4. n \in D /\ n - n = 0
  BY <1>3
<1>5. QED  BY <1>4 DEF D, Descent

-----------------------------------------------------------------------------
(* Sums *)

\* c[1] + ... + c[n]
Total(n, c) ==
  LET upTo[k \in 0 .. n] == IF k = 0 THEN 0 ELSE upTo[k - 1] + c[k]
  IN  upTo[n]

\* A running sum ends at the total.
LEMMA RunningSum ==
  ASSUME NEW n \in Nat, NEW c \in [1 .. n -> Nat], NEW g \in [0 .. n -> Nat],
         g[0] = 0, \A k \in 1 .. n: g[k] = g[k - 1] + c[k]
  PROVE  Total(n, c) = g[n]
<1> DEFINE Q(u) == u = [k \in 0 .. n |-> IF k = 0 THEN 0 ELSE u[k - 1] + c[k]]
           t == CHOOSE u: Q(u)
<1>1. Q(g)
  <2>1. \A k \in 0 .. n: g[k] = IF k = 0 THEN 0 ELSE g[k - 1] + c[k]
    OBVIOUS
  <2>2. QED  BY <2>1
<1>2. Q(t)
  <2> HIDE DEF Q
  <2>1. QED  BY <1>1
<1>3. Total(n, c) = t[n]
  BY DEF Total
<1> HIDE DEF t
<1>4. t[0] = 0 /\ \A k \in 1 .. n: t[k] = t[k - 1] + c[k]
  <2>1. \A k \in 0 .. n: t[k] = IF k = 0 THEN 0 ELSE t[k - 1] + c[k]
    BY <1>2
  <2>2. QED  BY <2>1
<1> DEFINE S == {k \in 0 .. n: t[k] = g[k]}
<1>5. 0 \in S
  BY <1>4
<1>6. \A k \in 0 .. n - 1: k \in S => k + 1 \in S
  <2>1. SUFFICES ASSUME NEW k \in 0 .. n - 1, t[k] = g[k]
                 PROVE  t[k + 1] = g[k + 1]
    OBVIOUS
  <2>2. k + 1 \in 1 .. n /\ (k + 1) - 1 = k
    OBVIOUS
  <2>3. t[k + 1] = t[k] + c[k + 1] /\ g[k + 1] = g[k] + c[k + 1]
    BY <1>4, <2>2
  <2>4. QED  BY <2>1, <2>3
<1> HIDE DEF S
<1>7. 0 .. n \subseteq S
  BY <1>5, <1>6, UpTo
<1>8. n \in S
  BY <1>7
<1>9. QED  BY <1>3, <1>8 DEF S

LEMMA RunningSumExists ==
  ASSUME NEW n \in Nat, NEW c \in [1 .. n -> Nat]
  PROVE  \E g \in [0 .. n -> Nat]:
           g[0] = 0 /\ (\A k \in 1 .. n: g[k] = g[k - 1] + c[k]) /\ Total(n, c) = g[n]
<1> DEFINE f == [k \in 1 .. n |-> [x \in Nat |-> x + c[k]]]
<1>1. f \in [1 .. n -> [Nat -> Nat]]
  OBVIOUS
<1>2. \A k \in 1 .. n, x \in Nat: f[k][x] = x + c[k]
  OBVIOUS
<1> HIDE DEF f
<1>3. PICK g \in [0 .. n -> Nat]: Iteration(g, n, 0, f)
  <2>1. 0 \in Nat
    OBVIOUS
  <2>2. QED  BY <1>1, <2>1, Iterates, Zenon
<1>4. \A k \in 1 .. n: g[k - 1] \in Nat
  OBVIOUS
<1>5. g[0] = 0 /\ \A k \in 1 .. n: g[k] = g[k - 1] + c[k]
  BY <1>2, <1>3, <1>4 DEF Iteration
<1>6. QED  BY <1>5, RunningSum

\* One more number at the end, and at the front.
LEMMA TotalLast ==
  ASSUME NEW n \in Nat, NEW c \in [1 .. n -> Nat], NEW d \in [1 .. n + 1 -> Nat],
         \A k \in 1 .. n: d[k] = c[k]
  PROVE  Total(n + 1, d) = Total(n, c) + d[n + 1]
<1>1. PICK g \in [0 .. n -> Nat]:
        g[0] = 0 /\ (\A k \in 1 .. n: g[k] = g[k - 1] + c[k]) /\ Total(n, c) = g[n]
  BY RunningSumExists
<1> DEFINE h == [k \in 0 .. n + 1 |-> IF k <= n THEN g[k] ELSE g[n] + d[n + 1]]
<1>2. h \in [0 .. n + 1 -> Nat]
  OBVIOUS
<1>3. (\A k \in 0 .. n: h[k] = g[k]) /\ h[n + 1] = g[n] + d[n + 1]
  OBVIOUS
<1> HIDE DEF h
<1>4. h[0] = 0
  BY <1>1, <1>3
<1>5. \A k \in 1 .. n + 1: h[k] = h[k - 1] + d[k]
  <2>1. SUFFICES ASSUME NEW k \in 1 .. n + 1
                 PROVE  h[k] = h[k - 1] + d[k]
    OBVIOUS
  <2>2. h[k - 1] = g[k - 1]
    BY <1>3
  <2>3. CASE k = n + 1
    BY <1>3, <2>2, <2>3
  <2>4. CASE k # n + 1
    <3>1. k \in 1 .. n
      BY <2>4
    <3>2. QED  BY <1>1, <1>3, <2>2, <3>1, SMTT(30)
  <2>5. QED  BY <2>3, <2>4
<1> n + 1 \in Nat
  OBVIOUS
<1>6. Total(n + 1, d) = h[n + 1]
  BY <1>2, <1>4, <1>5, RunningSum
<1>7. QED  BY <1>1, <1>3, <1>6

LEMMA TotalFirst ==
  ASSUME NEW n \in Nat, NEW c \in [1 .. n -> Nat], NEW d \in [1 .. n + 1 -> Nat],
         \A k \in 1 .. n: d[k + 1] = c[k]
  PROVE  Total(n + 1, d) = d[1] + Total(n, c)
<1>1. PICK g \in [0 .. n -> Nat]:
        g[0] = 0 /\ (\A k \in 1 .. n: g[k] = g[k - 1] + c[k]) /\ Total(n, c) = g[n]
  BY RunningSumExists
<1> DEFINE h == [k \in 0 .. n + 1 |-> IF k = 0 THEN 0 ELSE d[1] + g[k - 1]]
<1>2. h \in [0 .. n + 1 -> Nat]
  OBVIOUS
<1>3. h[0] = 0 /\ \A k \in 1 .. n + 1: h[k] = d[1] + g[k - 1]
  OBVIOUS
<1> HIDE DEF h
<1>4. \A k \in 1 .. n + 1: h[k] = h[k - 1] + d[k]
  <2>1. SUFFICES ASSUME NEW k \in 1 .. n + 1
                 PROVE  h[k] = h[k - 1] + d[k]
    OBVIOUS
  <2>2. CASE k = 1
    BY <1>1, <1>3, <2>2
  <2>3. CASE k # 1
    <3>1. k - 1 \in 1 .. n /\ k - 1 \in 1 .. n + 1 /\ (k - 1) + 1 = k
      BY <2>3
    <3>2. g[k - 1] = g[(k - 1) - 1] + c[k - 1] /\ c[k - 1] = d[k]
      BY <1>1, <3>1
    <3>3. h[k] = d[1] + g[k - 1] /\ h[k - 1] = d[1] + g[(k - 1) - 1]
      BY <1>3, <3>1
    <3>4. g[k - 1] \in Nat /\ g[(k - 1) - 1] \in Nat /\ d[1] \in Nat /\ d[k] \in Nat
      BY <3>1
    <3>5. QED  BY <3>2, <3>3, <3>4, SMTT(30)
  <2>4. QED  BY <2>2, <2>3
<1> n + 1 \in Nat
  OBVIOUS
<1>5. Total(n + 1, d) = h[n + 1]
  BY <1>2, <1>3, <1>4, RunningSum
<1>6. h[n + 1] = d[1] + g[n]
  BY <1>3
<1>7. QED  BY <1>1, <1>5, <1>6

-----------------------------------------------------------------------------
(* Positions on a ring of n cells *)

LEMMA Wrap ==
  ASSUME NEW n \in Nat \ {0}, NEW x \in 0 .. 2 * n - 1
  PROVE  x % n = IF x < n THEN x ELSE x - n
OBVIOUS
=============================================================================
