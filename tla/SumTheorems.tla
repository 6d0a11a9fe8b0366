---------------------------- MODULE SumTheorems ----------------------------
(***************************************************************************)
(* What the sums of module Sums satisfy, for every number of accounts and  *)
(* every finite set, and the selections of module Selections.              *)
(* The inductions are over a set of natural numbers, with the library's    *)
(* minimal-element theorem.                                                *)
(***************************************************************************)
EXTENDS Sums, Selections, Integers, FiniteSets, TLAPS, NaturalsInduction, WellFoundedInduction, FiniteSetTheorems

\* A set of naturals that holds 0 and is closed under successor holds them all.
LEMMA SetInduction ==
  ASSUME NEW T \in SUBSET Nat,
         0 \in T,
         \A n \in Nat : n \in T => n + 1 \in T
  PROVE  \A n \in Nat : n \in T
<1> DEFINE R == {ss \in Nat \X Nat : ss[1] < ss[2]}
<1> DEFINE Missing == Nat \ T
<1>1. IsWellFoundedOn(R, Nat)
  BY NatLessThanWellFounded DEF OpToRel
<1>2. SUFFICES ASSUME Missing # {} PROVE FALSE
  OBVIOUS
<1>3. \E m \in Missing : \A k \in Missing : <<k, m>> \notin R
  <2> HIDE DEF R
  <2> QED BY <1>1, <1>2, WFMin
<1>4. PICK m \in Missing : \A k \in Missing : <<k, m>> \notin R
  BY <1>3
<1>5. m # 0 /\ m - 1 \in Nat /\ m - 1 < m
  OBVIOUS
<1>6. m - 1 \in T
  <2>1. SUFFICES ASSUME m - 1 \notin T PROVE FALSE
    OBVIOUS
  <2>2. <<m - 1, m>> \in R
    BY <1>5
  <2> QED BY <2>1, <2>2, <1>4, <1>5
<1> QED
  BY <1>5, <1>6

\* The recursive definition has a solution, so Partial satisfies it.
LEMMA PartialDef ==
  ASSUME NEW n \in Nat, NEW f \in [1 .. n -> Nat]
  PROVE  Partial(f, n) = [k \in 0 .. n |->
           IF k = 0 THEN 0 ELSE Partial(f, n)[k - 1] + f[k]]
<1> DEFINE Solves(g, m) ==
      /\ g[0] = 0
      /\ \A k \in 1 .. m : g[k] = g[k - 1] + f[k]
<1> DEFINE Solvable(m) == \E g \in [0 .. m -> Nat] : Solves(g, m)
<1> DEFINE T == {m \in Nat : m <= n => Solvable(m)}
<1>1. 0 \in T
  <2>1. [k \in 0 .. 0 |-> 0] \in [0 .. 0 -> Nat] /\ Solves([k \in 0 .. 0 |-> 0], 0)
    OBVIOUS
  <2> QED BY <2>1
<1>2. ASSUME NEW m \in Nat, m \in T PROVE m + 1 \in T
  <2>1. SUFFICES ASSUME m + 1 <= n PROVE Solvable(m + 1)
    <3> HIDE DEF Solvable
    <3> QED OBVIOUS
  <2>2. m <= n /\ f[m + 1] \in Nat
    BY <2>1
  <2>3. PICK g \in [0 .. m -> Nat] : Solves(g, m)
    BY <1>2, <2>2
  <2> DEFINE h == [k \in 0 .. m + 1 |-> IF k = m + 1 THEN g[m] + f[m + 1] ELSE g[k]]
  <2>4. h \in [0 .. m + 1 -> Nat]
    BY <2>2
  <2>5. h[0] = 0
    BY <2>3
  <2>6. ASSUME NEW k \in 1 .. m + 1 PROVE h[k] = h[k - 1] + f[k]
    <3>1. CASE k = m + 1
      BY <3>1
    <3>2. CASE k \in 1 .. m
      BY <3>2, <2>3
    <3> QED BY <3>1, <3>2
  <2> HIDE DEF h
  <2> QED BY <2>4, <2>5, <2>6
<1>3. \A m \in Nat : m \in T
  <2>1. T \in SUBSET Nat
    OBVIOUS
  <2> HIDE DEF T
  <2> QED BY <1>1, <1>2, <2>1, SetInduction
<1>4. PICK g \in [0 .. n -> Nat] : Solves(g, n)
  <2>1. Solvable(n)
    <3> HIDE DEF Solvable
    <3> QED BY <1>3
  <2> QED BY <2>1
<1>5. g = [k \in 0 .. n |-> IF k = 0 THEN 0 ELSE g[k - 1] + f[k]]
  BY <1>4
<1> QED
  BY <1>5 DEF Partial

\* Partial sums are naturals, start at zero and grow by one entry at a time.
LEMMA PartialStep ==
  ASSUME NEW n \in Nat, NEW f \in [1 .. n -> Nat]
  PROVE  /\ Partial(f, n) \in [0 .. n -> Nat]
         /\ Partial(f, n)[0] = 0
         /\ \A k \in 1 .. n : Partial(f, n)[k] = Partial(f, n)[k - 1] + f[k]
<1> DEFINE p == Partial(f, n)
<1>1. p = [k \in 0 .. n |-> IF k = 0 THEN 0 ELSE p[k - 1] + f[k]]
  BY PartialDef
<1> HIDE DEF p
<1>2. p[0] = 0 /\ \A k \in 1 .. n : p[k] = p[k - 1] + f[k]
  BY <1>1
<1> DEFINE T == {k \in Nat : k <= n => p[k] \in Nat}
<1>3. 0 \in T
  BY <1>2
<1>4. ASSUME NEW k \in Nat, k \in T PROVE k + 1 \in T
  <2>1. SUFFICES ASSUME k + 1 <= n PROVE p[k + 1] \in Nat
    OBVIOUS
  <2>2. p[k] \in Nat /\ f[k + 1] \in Nat /\ p[k + 1] = p[k] + f[k + 1]
    BY <1>2, <1>4, <2>1
  <2> QED BY <2>2
<1>5. \A k \in Nat : k \in T
  <2>1. T \in SUBSET Nat
    OBVIOUS
  <2> HIDE DEF T
  <2> QED BY <1>3, <1>4, <2>1, SetInduction
<1>6. p \in [0 .. n -> Nat]
  <2>1. \A k \in 0 .. n : p[k] \in Nat
    BY <1>5
  <2> QED BY <2>1, <1>1
<1> QED
  BY <1>2, <1>6 DEF p

LEMMA TotalNat ==
  ASSUME NEW n \in Nat, NEW f \in [1 .. n -> Nat]
  PROVE  Total(f, n) \in Nat
BY PartialStep DEF Total

\* The sum of a pointwise sum of two tables.
LEMMA TotalPlus ==
  ASSUME NEW n \in Nat, NEW f, NEW g, NEW h
  PROVE  /\ f \in [1 .. n -> Nat] /\ g \in [1 .. n -> Nat] /\ h \in [1 .. n -> Nat]
         /\ \A u \in 1 .. n : h[u] = f[u] + g[u]
         => Total(h, n) = Total(f, n) + Total(g, n)
<1>1. SUFFICES
        ASSUME f \in [1 .. n -> Nat] /\ g \in [1 .. n -> Nat] /\ h \in [1 .. n -> Nat],
               \A u \in 1 .. n : h[u] = f[u] + g[u]
        PROVE  Total(h, n) = Total(f, n) + Total(g, n)
  OBVIOUS
<1>2. PICK p, q, r : p = Partial(f, n) /\ q = Partial(g, n) /\ r = Partial(h, n)
  OBVIOUS
<1>3. p \in [0 .. n -> Nat] /\ p[0] = 0 /\ \A k \in 1 .. n : p[k] = p[k - 1] + f[k]
  BY <1>1, <1>2, PartialStep
<1>4. q \in [0 .. n -> Nat] /\ q[0] = 0 /\ \A k \in 1 .. n : q[k] = q[k - 1] + g[k]
  BY <1>1, <1>2, PartialStep
<1>5. r \in [0 .. n -> Nat] /\ r[0] = 0 /\ \A k \in 1 .. n : r[k] = r[k - 1] + h[k]
  BY <1>1, <1>2, PartialStep
<1> DEFINE T == {k \in Nat : k <= n => r[k] = p[k] + q[k]}
<1>6. 0 \in T
  BY <1>3, <1>4, <1>5
<1>7. ASSUME NEW k \in Nat, k \in T PROVE k + 1 \in T
  <2>1. SUFFICES ASSUME k + 1 <= n PROVE r[k + 1] = p[k + 1] + q[k + 1]
    OBVIOUS
  <2>2. k \in 0 .. n /\ k + 1 \in 1 .. n /\ (k + 1) - 1 = k
    BY <2>1
  <2>3. r[k] = p[k] + q[k] /\ p[k] \in Nat /\ q[k] \in Nat
    BY <1>3, <1>4, <1>7, <2>2
  <2>4. f[k + 1] \in Nat /\ g[k + 1] \in Nat /\ h[k + 1] = f[k + 1] + g[k + 1]
    BY <1>1, <2>2
  <2>5. /\ p[k + 1] = p[k] + f[k + 1]
        /\ q[k + 1] = q[k] + g[k + 1]
        /\ r[k + 1] = r[k] + h[k + 1]
    BY <1>3, <1>4, <1>5, <2>2
  <2> QED BY <2>3, <2>4, <2>5
<1>8. \A k \in Nat : k \in T
  <2>1. T \in SUBSET Nat
    OBVIOUS
  <2> HIDE DEF T
  <2> QED BY <1>6, <1>7, <2>1, SetInduction
<1> QED
  BY <1>2, <1>8 DEF Total

\* A table that is zero everywhere but at u.
LEMMA TotalSingle ==
  ASSUME NEW n \in Nat, NEW f \in [1 .. n -> Nat], NEW u \in 1 .. n,
         \A v \in 1 .. n : v # u => f[v] = 0
  PROVE  Total(f, n) = f[u]
<1> DEFINE p == Partial(f, n)
           T == {k \in Nat : k <= n => p[k] = IF k < u THEN 0 ELSE f[u]}
<1>1. /\ p \in [0 .. n -> Nat] /\ p[0] = 0 /\ \A k \in 1 .. n : p[k] = p[k - 1] + f[k]
  BY PartialStep
<1> HIDE DEF p
<1>2. 0 \in T
  BY <1>1
<1>3. ASSUME NEW k \in Nat, k \in T PROVE k + 1 \in T
  <2>1. SUFFICES ASSUME k + 1 <= n
                 PROVE  p[k + 1] = IF k + 1 < u THEN 0 ELSE f[u]
    OBVIOUS
  <2>2. /\ p[k + 1] = p[k] + f[k + 1]
        /\ p[k] = IF k < u THEN 0 ELSE f[u]
        /\ k + 1 # u => f[k + 1] = 0
    BY <1>1, <1>3, <2>1
  <2>3. f[u] \in Nat
    OBVIOUS
  <2> QED BY <2>2, <2>3
<1>4. \A k \in Nat : k \in T
  <2>1. T \in SUBSET Nat
    OBVIOUS
  <2> HIDE DEF T
  <2> QED BY <1>2, <1>3, <2>1, SetInduction
<1> QED
  BY <1>4 DEF Total, p

LEMMA TotalZero ==
  ASSUME NEW n \in Nat \ {0}, NEW f \in [1 .. n -> Nat],
         \A v \in 1 .. n : f[v] = 0
  PROVE  Total(f, n) = 0
BY TotalSingle

\* An entry is at most the total.
LEMMA TotalAtLeast ==
  ASSUME NEW n \in Nat, NEW f \in [1 .. n -> Nat], NEW u \in 1 .. n
  PROVE  f[u] <= Total(f, n)
<1> DEFINE g == [v \in 1 .. n |-> IF v = u THEN f[u] ELSE 0]
           h == [v \in 1 .. n |-> IF v = u THEN 0 ELSE f[v]]
<1>1. g \in [1 .. n -> Nat] /\ h \in [1 .. n -> Nat]
  OBVIOUS
<1>2. \A v \in 1 .. n : f[v] = g[v] + h[v]
  OBVIOUS
<1>3. Total(g, n) = f[u]
  <2>1. \A v \in 1 .. n : v # u => g[v] = 0
    OBVIOUS
  <2>2. g[u] = f[u]
    OBVIOUS
  <2> HIDE DEF g
  <2> QED BY <1>1, <2>1, <2>2, TotalSingle
<1>4. Total(f, n) = Total(g, n) + Total(h, n)
  <2> HIDE DEF g, h
  <2> QED BY <1>1, <1>2, TotalPlus
<1>5. Total(h, n) \in Nat
  BY <1>1, TotalNat
<1> HIDE DEF g, h
<1> QED
  BY <1>3, <1>4, <1>5

\* Changing one entry changes the total by the difference.
LEMMA TotalUpdate ==
  ASSUME NEW n \in Nat, NEW f \in [1 .. n -> Nat], NEW g \in [1 .. n -> Nat],
         NEW u \in 1 .. n,
         \A v \in 1 .. n : v # u => g[v] = f[v]
  PROVE  Total(g, n) + f[u] = Total(f, n) + g[u]
<1> DEFINE b == [v \in 1 .. n |-> IF v = u THEN 0 ELSE f[v]]
           x == [v \in 1 .. n |-> IF v = u THEN f[u] ELSE 0]
           y == [v \in 1 .. n |-> IF v = u THEN g[u] ELSE 0]
<1>1. b \in [1 .. n -> Nat] /\ x \in [1 .. n -> Nat] /\ y \in [1 .. n -> Nat]
  OBVIOUS
<1>2. /\ \A v \in 1 .. n : f[v] = b[v] + x[v]
      /\ \A v \in 1 .. n : g[v] = b[v] + y[v]
      /\ \A v \in 1 .. n : v # u => x[v] = 0 /\ y[v] = 0
      /\ x[u] = f[u] /\ y[u] = g[u]
  OBVIOUS
<1> HIDE DEF b, x, y
<1>3. Total(x, n) = f[u] /\ Total(y, n) = g[u]
  BY <1>1, <1>2, TotalSingle
<1>4. Total(f, n) = Total(b, n) + Total(x, n)
  <2>1. \A v \in 1 .. n : f[v] = b[v] + x[v]
    BY <1>2
  <2> QED BY <1>1, <2>1, TotalPlus
<1>5. Total(g, n) = Total(b, n) + Total(y, n)
  <2>1. \A v \in 1 .. n : g[v] = b[v] + y[v]
    BY <1>2
  <2> QED BY <1>1, <2>1, TotalPlus
<1>6. Total(b, n) \in Nat /\ f[u] \in Nat /\ g[u] \in Nat
  BY <1>1, TotalNat
<1> QED
  BY <1>3, <1>4, <1>5, <1>6

\* A table that is smaller everywhere has a smaller total.
LEMMA TotalMonotone ==
  ASSUME NEW n \in Nat, NEW f \in [1 .. n -> Nat], NEW g \in [1 .. n -> Nat],
         \A v \in 1 .. n : f[v] <= g[v]
  PROVE  Total(f, n) <= Total(g, n)
<1> DEFINE h == [v \in 1 .. n |-> g[v] - f[v]]
<1>1. h \in [1 .. n -> Nat] /\ \A v \in 1 .. n : g[v] = f[v] + h[v]
  OBVIOUS
<1> HIDE DEF h
<1>2. Total(g, n) = Total(f, n) + Total(h, n)
  BY <1>1, TotalPlus
<1>3. Total(f, n) \in Nat /\ Total(h, n) \in Nat
  BY <1>1, TotalNat
<1> QED
  BY <1>2, <1>3

\* Entries of at most b add up to at most n times b.
LEMMA TotalAtMost ==
  ASSUME NEW n \in Nat, NEW b \in Nat, NEW f \in [1 .. n -> Nat],
         \A v \in 1 .. n : f[v] <= b
  PROVE  Total(f, n) <= n * b
<1> DEFINE p == Partial(f, n)
           T == {k \in Nat : k <= n => p[k] <= k * b}
<1>1. p \in [0 .. n -> Nat] /\ p[0] = 0 /\ \A k \in 1 .. n : p[k] = p[k - 1] + f[k]
  BY PartialStep
<1> HIDE DEF p
<1>2. 0 \in T
  BY <1>1
<1>3. ASSUME NEW k \in Nat, k \in T PROVE k + 1 \in T
  <2>1. SUFFICES ASSUME k + 1 <= n PROVE p[k + 1] <= (k + 1) * b
    OBVIOUS
  <2>2. /\ p[k + 1] = p[k] + f[k + 1] /\ p[k] \in Nat /\ f[k + 1] \in Nat
        /\ p[k] <= k * b /\ f[k + 1] <= b
    BY <1>1, <1>3, <2>1
  <2>3. (k + 1) * b = k * b + b
    OBVIOUS
  <2> QED BY <2>2, <2>3
<1>4. \A k \in Nat : k \in T
  <2>1. T \in SUBSET Nat
    OBVIOUS
  <2> HIDE DEF T
  <2> QED BY <1>2, <1>3, <2>1, SetInduction
<1> QED
  BY <1>4 DEF Total, p

\* The entries of one table are b times those of another.
LEMMA TotalTimes ==
  ASSUME NEW n \in Nat, NEW b \in Nat, NEW f \in [1 .. n -> Nat], NEW g \in [1 .. n -> Nat],
         \A v \in 1 .. n : g[v] = b * f[v]
  PROVE  Total(g, n) = b * Total(f, n)
<1> DEFINE p == Partial(f, n)
           q == Partial(g, n)
           T == {k \in Nat : k <= n => q[k] = b * p[k]}
<1>1. /\ p \in [0 .. n -> Nat] /\ p[0] = 0 /\ \A k \in 1 .. n : p[k] = p[k - 1] + f[k]
      /\ q \in [0 .. n -> Nat] /\ q[0] = 0 /\ \A k \in 1 .. n : q[k] = q[k - 1] + g[k]
  BY PartialStep
<1> HIDE DEF p, q
<1>2. 0 \in T
  BY <1>1
<1>3. ASSUME NEW k \in Nat, k \in T PROVE k + 1 \in T
  <2>1. SUFFICES ASSUME k + 1 <= n PROVE q[k + 1] = b * p[k + 1]
    OBVIOUS
  <2>2. /\ p[k + 1] = p[k] + f[k + 1] /\ q[k + 1] = q[k] + g[k + 1]
        /\ p[k] \in Nat /\ f[k + 1] \in Nat /\ q[k] = b * p[k] /\ g[k + 1] = b * f[k + 1]
    <3>1. k + 1 \in 1 .. n /\ k \in 0 .. n /\ (k + 1) - 1 = k
      BY <2>1
    <3>2. p[k + 1] = p[k] + f[k + 1] /\ q[k + 1] = q[k] + g[k + 1] /\ p[k] \in Nat
      BY <1>1, <3>1
    <3>3. f[k + 1] \in Nat /\ g[k + 1] = b * f[k + 1]
      BY <3>1
    <3>4. q[k] = b * p[k]
      BY <1>3, <2>1
    <3> QED BY <3>2, <3>3, <3>4
  <2>3. \A x, y \in Nat : b * (x + y) = b * x + b * y
    OBVIOUS
  <2> QED BY <2>2, <2>3
<1>4. \A k \in Nat : k \in T
  <2>1. T \in SUBSET Nat
    OBVIOUS
  <2> HIDE DEF T
  <2> QED BY <1>2, <1>3, <2>1, SetInduction
<1> QED
  BY <1>4 DEF Total, p, q

\* One entry, and b for each of the others.
LEMMA TotalOthers ==
  ASSUME NEW n \in Nat, NEW b \in Nat, NEW f \in [1 .. n -> Nat], NEW u \in 1 .. n,
         \A v \in 1 .. n : f[v] <= b
  PROVE  Total(f, n) <= f[u] + (n - 1) * b
<1> DEFINE g == [f EXCEPT ![u] = b]
<1>1. /\ g \in [1 .. n -> Nat] /\ g[u] = b
      /\ \A v \in 1 .. n : g[v] <= b /\ (v # u => g[v] = f[v])
  OBVIOUS
<1> HIDE DEF g
<1>2. Total(g, n) + f[u] = Total(f, n) + g[u]
  BY <1>1, TotalUpdate
<1>3. Total(g, n) <= n * b
  BY <1>1, TotalAtMost
<1>4. n * b = (n - 1) * b + b
  OBVIOUS
<1>5. Total(g, n) \in Nat /\ Total(f, n) \in Nat /\ f[u] \in Nat /\ (n - 1) * b \in Int
  BY <1>1, TotalNat
<1> QED
  BY <1>1, <1>2, <1>3, <1>4, <1>5

\* Rounded-down division, w times over, misses less than w.
LEMMA FloorBounds ==
  ASSUME NEW a \in Nat, NEW w \in Nat \ {0}
  PROVE  /\ a \div w \in Nat
         /\ (a \div w) * w <= a
         /\ a <= (a \div w) * w + (w - 1)
OBVIOUS

LEMMA ShareStep ==
  ASSUME NEW w \in Nat \ {0}, NEW x \in Nat, NEW k \in Nat,
         NEW p \in Nat, NEW q \in Nat, NEW s \in Nat, NEW t \in Nat,
         q * w <= p * x, t * w <= s * x,
         p * x <= q * w + k * (w - 1), s * x <= t * w + (w - 1)
  PROVE  /\ (q + t) * w <= (p + s) * x
         /\ (p + s) * x <= (q + t) * w + (k + 1) * (w - 1)
OBVIOUS

LEMMA ShareBounds ==
  ASSUME NEW w \in Nat \ {0}, NEW x \in Nat, NEW n \in Nat \ {0}, NEW q \in Nat,
         q * w <= w * x, w * x <= q * w + n * (w - 1)
  PROVE  q <= x /\ x < q + n
OBVIOUS

\* Dividing x among the entries of f in proportion, each share rounded down,
\* hands out at most x and leaves fewer than n units behind.
LEMMA TotalShare ==
  ASSUME NEW n \in Nat \ {0}, NEW x \in Nat, NEW f, NEW g
  PROVE  /\ f \in [1 .. n -> Nat] /\ g \in [1 .. n -> Nat]
         /\ Total(f, n) > 0
         /\ \A u \in 1 .. n : g[u] = (f[u] * x) \div Total(f, n)
         => Total(g, n) <= x /\ x < Total(g, n) + n
<1>1. SUFFICES
        ASSUME f \in [1 .. n -> Nat] /\ g \in [1 .. n -> Nat],
               Total(f, n) > 0,
               \A u \in 1 .. n : g[u] = (f[u] * x) \div Total(f, n)
        PROVE  Total(g, n) <= x /\ x < Total(g, n) + n
  OBVIOUS
<1>2. PICK p, q, w : p = Partial(f, n) /\ q = Partial(g, n) /\ w = Total(f, n)
  OBVIOUS
<1>3. p \in [0 .. n -> Nat] /\ p[0] = 0 /\ \A k \in 1 .. n : p[k] = p[k - 1] + f[k]
  BY <1>1, <1>2, PartialStep
<1>4. q \in [0 .. n -> Nat] /\ q[0] = 0 /\ \A k \in 1 .. n : q[k] = q[k - 1] + g[k]
  BY <1>1, <1>2, PartialStep
<1>5. w \in Nat \ {0} /\ p[n] = w /\ q[n] = Total(g, n)
  <2>1. Total(f, n) \in Nat
    BY <1>1, TotalNat
  <2>2. w \in Nat \ {0}
    BY <1>1, <1>2, <2>1
  <2>3. p[n] = w /\ q[n] = Total(g, n)
    BY <1>2 DEF Total
  <2> QED BY <2>2, <2>3
<1> DEFINE Close(k) == q[k] * w <= p[k] * x /\ p[k] * x <= q[k] * w + k * (w - 1)
<1> DEFINE T == {k \in Nat : k <= n => Close(k)}
<1>6. 0 \in T
  BY <1>3, <1>4, <1>5
<1>7. ASSUME NEW k \in Nat, k \in T PROVE k + 1 \in T
  <2>1. SUFFICES ASSUME k + 1 <= n PROVE Close(k + 1)
    <3> HIDE DEF Close
    <3> QED OBVIOUS
  <2>2. k \in 0 .. n /\ k + 1 \in 1 .. n /\ (k + 1) - 1 = k
    BY <2>1
  <2>3. Close(k)
    <3> HIDE DEF Close
    <3> QED BY <1>7, <2>2
  <2>4. p[k] \in Nat /\ q[k] \in Nat
    BY <1>3, <1>4, <2>2
  <2>5. f[k + 1] \in Nat /\ g[k + 1] \in Nat
    BY <1>1, <2>2
  <2>6. g[k + 1] * w <= f[k + 1] * x /\ f[k + 1] * x <= g[k + 1] * w + (w - 1)
    <3>1. g[k + 1] = (f[k + 1] * x) \div w
      BY <1>1, <1>2, <2>2
    <3>2. f[k + 1] * x \in Nat
      BY <2>5
    <3> QED BY <1>5, <3>1, <3>2, FloorBounds
  <2>7. p[k + 1] = p[k] + f[k + 1] /\ q[k + 1] = q[k] + g[k + 1]
    BY <1>3, <1>4, <2>2
  <2> QED BY <1>5, <2>3, <2>4, <2>5, <2>6, <2>7, ShareStep
<1>8. \A k \in Nat : k \in T
  <2>1. T \in SUBSET Nat
    OBVIOUS
  <2> HIDE DEF T
  <2> QED BY <1>6, <1>7, <2>1, SetInduction
<1>9. Close(n)
  <2> HIDE DEF Close
  <2> QED BY <1>8
<1> QED
  <2>1. q[n] \in Nat
    BY <1>4
  <2>2. q[n] * w <= w * x /\ w * x <= q[n] * w + n * (w - 1)
    BY <1>5, <1>9
  <2>3. q[n] <= x /\ x < q[n] + n
    BY <1>5, <2>1, <2>2, ShareBounds
  <2> QED BY <1>5, <2>3

-----------------------------------------------------------------------------
(* Sums over a finite set *)

\* One step of SumOver.
Descend(g, T, f) == IF T = {} THEN 0 ELSE f[CHOOSE x \in T : TRUE] + g[T \ {CHOOSE x \in T : TRUE}]

LEMMA SubsetFacts ==
  ASSUME NEW S, IsFiniteSet(S), NEW T \in SUBSET S
  PROVE  /\ IsFiniteSet(T) /\ Cardinality(T) \in Nat
         /\ T # {} => /\ (CHOOSE x \in T : TRUE) \in T
                      /\ T \ {CHOOSE x \in T : TRUE} \in SUBSET S
                      /\ Cardinality(T \ {CHOOSE x \in T : TRUE}) = Cardinality(T) - 1
         /\ Cardinality(T) = 0 => T = {}
         /\ Cardinality(T) <= Cardinality(S)
<1>1. IsFiniteSet(T) /\ Cardinality(T) <= Cardinality(S)
  BY FS_Subset
<1>2. Cardinality(T) \in Nat /\ (Cardinality(T) = 0 <=> T = {})
  BY <1>1, FS_CardinalityType, FS_EmptySet
<1>3. ASSUME T # {}
      PROVE  /\ (CHOOSE x \in T : TRUE) \in T /\ T \ {CHOOSE x \in T : TRUE} \in SUBSET S
             /\ Cardinality(T \ {CHOOSE x \in T : TRUE}) = Cardinality(T) - 1
  <2>1. PICK x : x = CHOOSE y \in T : TRUE
    OBVIOUS
  <2>2. x \in T
    BY <2>1, <1>3
  <2>3. T \ {x} \in SUBSET S /\ Cardinality(T \ {x}) = Cardinality(T) - 1
    BY <1>1, <2>2, FS_RemoveElement
  <2> QED BY <2>1, <2>2, <2>3
<1> QED BY <1>1, <1>2, <1>3

\* The recursive definition of a fold of numbers over a finite set has a solution.
LEMMA FoldSolution ==
  ASSUME NEW S, IsFiniteSet(S), NEW f, \A x \in S : f[x] \in Int
  PROVE  \E g \in [SUBSET S -> Int] : \A T \in SUBSET S : g[T] = Descend(g, T, f)
<1> DEFINE Upto(n)  == {T \in SUBSET S : Cardinality(T) <= n}
           Solves(g, D) == \A T \in D : g[T] = Descend(g, T, f)
           Solvable(n) == \E g \in [Upto(n) -> Int] : Solves(g, Upto(n))
           N == {n \in Nat : Solvable(n)}
<1>2. 0 \in N
  <2>1. ASSUME NEW T \in Upto(0) PROVE T = {}
    <3>1. T \in SUBSET S /\ Cardinality(T) <= 0
      OBVIOUS
    <3>2. Cardinality(T) \in Nat /\ (Cardinality(T) = 0 => T = {})
      BY SubsetFacts
    <3> QED BY <3>1, <3>2
  <2>2. PICK g : g = [T \in Upto(0) |-> 0]
    OBVIOUS
  <2>3. g \in [Upto(0) -> Int] /\ Solves(g, Upto(0))
    <3> HIDE DEF Upto
    <3> QED BY <2>1, <2>2 DEF Descend
  <2> QED BY <2>3
<1>3. ASSUME NEW n \in Nat, n \in N PROVE n + 1 \in N
  <2>1. PICK g \in [Upto(n) -> Int] : Solves(g, Upto(n))
    BY <1>3
  <2>2. PICK h : h = [T \in Upto(n + 1) |-> Descend(g, T, f)]
    OBVIOUS
  <2>3. ASSUME NEW T \in Upto(n + 1), T # {}
        PROVE  /\ T \ {CHOOSE x \in T : TRUE} \in Upto(n)
               /\ f[CHOOSE x \in T : TRUE] \in Int
    <3>1. T \in SUBSET S /\ Cardinality(T) <= n + 1
      OBVIOUS
    <3>2. /\ (CHOOSE x \in T : TRUE) \in T
          /\ T \ {CHOOSE x \in T : TRUE} \in SUBSET S
          /\ Cardinality(T \ {CHOOSE x \in T : TRUE}) = Cardinality(T) - 1
          /\ Cardinality(T) \in Nat
      BY <3>1, <2>3, SubsetFacts
    <3>3. Cardinality(T \ {CHOOSE x \in T : TRUE}) <= n
      BY <3>1, <3>2
    <3> QED BY <3>1, <3>2, <3>3
  <2>4. \A T \in Upto(n) : T \in Upto(n + 1)
    <3>1. ASSUME NEW T \in Upto(n) PROVE T \in Upto(n + 1)
      <4>1. Cardinality(T) \in Nat
        BY SubsetFacts
      <4> QED BY <4>1
    <3> QED BY <3>1
  <2> HIDE DEF Upto
  <2>5. h \in [Upto(n + 1) -> Int]
    <3>1. ASSUME NEW T \in Upto(n + 1) PROVE Descend(g, T, f) \in Int
      <4>1. T # {} => g[T \ {CHOOSE x \in T : TRUE}] \in Int /\ f[CHOOSE x \in T : TRUE] \in Int
        BY <2>1, <2>3
      <4> QED BY <4>1 DEF Descend
    <3> QED BY <3>1, <2>2
  <2>6. \A T \in Upto(n) : h[T] = g[T]
    BY <2>1, <2>2, <2>4
  <2>7. ASSUME NEW T \in Upto(n + 1) PROVE h[T] = Descend(h, T, f)
    <3>1. h[T] = Descend(g, T, f)
      BY <2>2
    <3>2. T # {} => g[T \ {CHOOSE x \in T : TRUE}] = h[T \ {CHOOSE x \in T : TRUE}]
      BY <2>3, <2>6
    <3> QED BY <3>1, <3>2 DEF Descend
  <2>8. Solvable(n + 1)
    BY <2>5, <2>7
  <2> HIDE DEF Solvable
  <2> QED BY <2>8
<1>4. \A n \in Nat : n \in N
  <2> HIDE DEF Solvable
  <2>1. N \in SUBSET Nat
    OBVIOUS
  <2> HIDE DEF N
  <2> QED BY <1>2, <1>3, <2>1, SetInduction
<1>5. Cardinality(S) \in Nat /\ S \in SUBSET S
  BY FS_CardinalityType
<1>6. Solvable(Cardinality(S))
  <2> HIDE DEF Solvable
  <2> QED BY <1>4, <1>5
<1>7. PICK g \in [Upto(Cardinality(S)) -> Int] : Solves(g, Upto(Cardinality(S)))
  BY <1>6
<1>8. Upto(Cardinality(S)) = SUBSET S
  BY SubsetFacts
<1> HIDE DEF Upto
<1> QED BY <1>7, <1>8

\* The sum of numbers over a finite set is a number.
LEMMA SumOverInt ==
  ASSUME NEW S, IsFiniteSet(S), NEW f, \A x \in S : f[x] \in Int
  PROVE  SumOver(f, S) \in Int
<1> DEFINE Solution(g) == g = [T \in SUBSET S |-> Descend(g, T, f)]
<1>1. PICK h \in [SUBSET S -> Int] : \A T \in SUBSET S : h[T] = Descend(h, T, f)
  BY FoldSolution
<1>0. Solution(h)
  BY <1>1
<1>2. PICK fold : fold = CHOOSE g : Solution(g)
  OBVIOUS
<1> HIDE DEF Solution
<1>3. Solution(fold)
  BY <1>0, <1>2
<1>4. \A T \in SUBSET S : fold[T] = Descend(fold, T, f)
  BY <1>3 DEF Solution
<1> DEFINE M == {n \in Nat : \A T \in SUBSET S : Cardinality(T) <= n => fold[T] \in Int}
<1>5. ASSUME NEW T \in SUBSET S, T = {} PROVE fold[T] \in Int
  <2>1. fold[T] = Descend(fold, T, f)
    BY <1>4
  <2>2. Descend(fold, T, f) = 0
    BY <1>5 DEF Descend
  <2> QED BY <2>1, <2>2
<1>6. 0 \in M
  <2>1. ASSUME NEW T \in SUBSET S, Cardinality(T) <= 0 PROVE fold[T] \in Int
    <3>1. Cardinality(T) \in Nat /\ (Cardinality(T) = 0 => T = {})
      BY SubsetFacts
    <3>2. T = {}
      BY <2>1, <3>1
    <3> QED BY <3>2, <1>5
  <2> QED BY <2>1
<1>7. ASSUME NEW n \in Nat, n \in M PROVE n + 1 \in M
  <2>1. ASSUME NEW T \in SUBSET S, Cardinality(T) <= n + 1, T # {} PROVE fold[T] \in Int
    <3>1. PICK x, Q : x = (CHOOSE y \in T : TRUE) /\ Q = T \ {CHOOSE y \in T : TRUE}
      OBVIOUS
    <3>2. fold[T] = f[x] + fold[Q]
      BY <1>4, <2>1, <3>1 DEF Descend
    <3>3. x \in S /\ Q \in SUBSET S /\ Cardinality(Q) = Cardinality(T) - 1 /\ Cardinality(T) \in Nat
      BY <2>1, <3>1, SubsetFacts
    <3>4. Cardinality(Q) <= n
      BY <2>1, <3>3
    <3>5. fold[Q] \in Int /\ f[x] \in Int
      BY <1>7, <3>3, <3>4
    <3> QED BY <3>2, <3>5
  <2> QED BY <2>1, <1>5
<1>8. \A n \in Nat : n \in M
  <2>1. M \in SUBSET Nat
    OBVIOUS
  <2> HIDE DEF M
  <2> QED BY <1>6, <1>7, <2>1, SetInduction
<1>9. Cardinality(S) \in M
  BY <1>8, FS_CardinalityType
<1>10. fold[S] \in Int
  BY <1>9, SubsetFacts
<1> QED BY <1>2, <1>10 DEF Solution, SumOver, Descend

-----------------------------------------------------------------------------
(* Selections *)

\* The recursive definition of Picked is what it says.
LEMMA PickedDef ==
  ASSUME NEW X, NEW seq \in Seq(X), NEW S
  PROVE  /\ Picked(seq, S) \in [0 .. Len(seq) -> Seq(X)]
         /\ Picked(seq, S)[0] = <<>>
         /\ \A k \in 1 .. Len(seq) :
              Picked(seq, S)[k] = IF seq[k] \in S THEN Append(Picked(seq, S)[k - 1], seq[k]) ELSE Picked(seq, S)[k - 1]
<1> DEFINE n == Len(seq)
           Next(before, k) == IF seq[k] \in S THEN Append(before, seq[k]) ELSE before
           Solves(g, m) == g[0] = <<>> /\ \A k \in 1 .. m : g[k] = Next(g[k - 1], k)
           Solvable(m) == \E g \in [0 .. m -> Seq(X)] : Solves(g, m)
           T == {m \in Nat : m <= n => Solvable(m)}
<1>0. n \in Nat /\ \A k \in 1 .. n : seq[k] \in X
  OBVIOUS
<1>1. 0 \in T
  <2>1. [k \in 0 .. 0 |-> <<>>] \in [0 .. 0 -> Seq(X)] /\ Solves([k \in 0 .. 0 |-> <<>>], 0)
    OBVIOUS
  <2> QED BY <2>1
<1>2. ASSUME NEW m \in Nat, m \in T PROVE m + 1 \in T
  <2>1. SUFFICES ASSUME m + 1 <= n PROVE Solvable(m + 1)
    <3> HIDE DEF Solvable
    <3> QED OBVIOUS
  <2>2. m <= n /\ seq[m + 1] \in X
    BY <1>0, <2>1
  <2>3. PICK g \in [0 .. m -> Seq(X)] : Solves(g, m)
    BY <1>2, <2>2
  <2>4. PICK l : l = Next(g[m], m + 1)
    OBVIOUS
  <2>5. l \in Seq(X)
    <3>1. g[m] \in Seq(X)
      BY <2>3
    <3>2. Append(g[m], seq[m + 1]) \in Seq(X)
      BY <2>2, <3>1
    <3> QED BY <2>4, <3>1, <3>2
  <2> DEFINE h == [k \in 0 .. m + 1 |-> IF k = m + 1 THEN l ELSE g[k]]
  <2>6. h \in [0 .. m + 1 -> Seq(X)]
    BY <2>3, <2>5
  <2>7. h[0] = <<>> /\ h[m + 1] = l /\ \A k \in 0 .. m : h[k] = g[k]
    BY <2>3
  <2>8. ASSUME NEW k \in 1 .. m + 1 PROVE h[k] = Next(h[k - 1], k)
    <3> HIDE DEF h, Next
    <3>1. CASE k = m + 1
      <4>1. k - 1 = m /\ m \in 0 .. m
        BY <3>1
      <4>2. h[m] = g[m]
        BY <2>7, <4>1
      <4> QED BY <2>4, <2>7, <3>1, <4>1, <4>2
    <3>2. CASE k \in 1 .. m
      <4>1. h[k] = g[k] /\ h[k - 1] = g[k - 1]
        BY <2>7, <3>2
      <4> QED BY <2>3, <3>2, <4>1
    <3>3. k = m + 1 \/ k \in 1 .. m
      OBVIOUS
    <3> QED BY <3>1, <3>2, <3>3
  <2> HIDE DEF h, Next
  <2> QED BY <2>6, <2>7, <2>8
<1>3. \A m \in Nat : m \in T
  <2>1. T \in SUBSET Nat
    OBVIOUS
  <2> HIDE DEF T
  <2> QED BY <1>1, <1>2, <2>1, SetInduction
<1>4. PICK g \in [0 .. n -> Seq(X)] : Solves(g, n)
  <2>1. Solvable(n)
    <3> HIDE DEF Solvable
    <3> QED BY <1>0, <1>3
  <2> QED BY <2>1
<1> DEFINE Solution(g1) == g1 = [k \in 0 .. Len(seq) |-> IF k = 0 THEN <<>>
                                  ELSE IF seq[k] \in S THEN Append(g1[k - 1], seq[k])
                                  ELSE g1[k - 1]]
<1>5. Solution(g)
  <2>1. g = [k \in 0 .. n |-> g[k]]
    BY <1>4
  <2>2. ASSUME NEW k \in 0 .. n
        PROVE  g[k] = IF k = 0 THEN <<>> ELSE IF seq[k] \in S THEN Append(g[k - 1], seq[k]) ELSE g[k - 1]
    <3>1. k = 0 \/ k \in 1 .. n
      BY <1>0
    <3> QED BY <1>4, <3>1
  <2> HIDE DEF n, Next, Solves
  <2>3. [k \in 0 .. n |-> g[k]] = [k \in 0 .. n |-> IF k = 0 THEN <<>>
                                  ELSE IF seq[k] \in S THEN Append(g[k - 1], seq[k])
                                  ELSE g[k - 1]]
    BY <2>2
  <2> QED BY <2>1, <2>3 DEF n
<1>6. Picked(seq, S) = CHOOSE g1 : Solution(g1)
  BY DEF Picked
<1>7. Solution(Picked(seq, S))
  <2> HIDE DEF Solution
  <2> QED BY <1>5, <1>6
<1>8. ASSUME NEW g1, Solution(g1)
      PROVE  /\ g1[0] = <<>> /\ DOMAIN g1 = 0 .. n
             /\ \A k \in 1 .. n : g1[k] = Next(g1[k - 1], k)
             /\ g1 = [k \in 0 .. n |-> g1[k]]
  <2>1. g1 = [k \in 0 .. Len(seq) |-> IF k = 0 THEN <<>>
                                  ELSE IF seq[k] \in S THEN Append(g1[k - 1], seq[k])
                                  ELSE g1[k - 1]]
    BY <1>8
  <2>2. DOMAIN g1 = 0 .. n
    BY <2>1
  <2>3. ASSUME NEW k \in 0 .. n
        PROVE  g1[k] = IF k = 0 THEN <<>> ELSE IF seq[k] \in S THEN Append(g1[k - 1], seq[k]) ELSE g1[k - 1]
    BY <2>1
  <2>4. 0 \in 0 .. n /\ \A k \in 1 .. n : k \in 0 .. n /\ k # 0
    BY <1>0
  <2>5. g1[0] = <<>>
    BY <2>3, <2>4
  <2>6. g1 = [k \in 0 .. n |-> g1[k]]
    BY <2>1
  <2> QED BY <2>2, <2>3, <2>4, <2>5, <2>6
<1>9. PICK u : u = Picked(seq, S)
  OBVIOUS
<1>10. /\ u[0] = <<>> /\ u = [k \in 0 .. n |-> u[k]]
       /\ \A k \in 1 .. n : u[k] = Next(u[k - 1], k)
  <2> HIDE DEF Solution, Next
  <2> QED BY <1>7, <1>8, <1>9
<1>11. \A k \in Nat : k \in {j \in Nat : j <= n => u[j] = g[j]}
  <2> DEFINE U == {j \in Nat : j <= n => u[j] = g[j]}
  <2>1. 0 \in U
    BY <1>4, <1>10
  <2>2. ASSUME NEW k \in Nat, k \in U PROVE k + 1 \in U
    <3>1. SUFFICES ASSUME k + 1 <= n PROVE u[k + 1] = g[k + 1]
      OBVIOUS
    <3>2. k + 1 \in 1 .. n /\ (k + 1) - 1 = k /\ u[k] = g[k]
      BY <1>0, <2>2, <3>1
    <3> HIDE DEF Next
    <3>3. u[k + 1] = Next(u[k], k + 1) /\ g[k + 1] = Next(g[k], k + 1)
      BY <1>4, <1>10, <3>2
    <3> QED BY <3>2, <3>3
  <2>3. U \in SUBSET Nat
    OBVIOUS
  <2> HIDE DEF U
  <2> QED BY <2>1, <2>2, <2>3, SetInduction DEF U
<1>12. \A k \in 0 .. n : u[k] \in Seq(X)
  BY <1>0, <1>4, <1>11
<1>13. u \in [0 .. n -> Seq(X)]
  <2>1. [k \in 0 .. n |-> u[k]] \in [0 .. n -> Seq(X)]
    BY <1>12
  <2> QED BY <1>10, <2>1
<1> QED BY <1>9, <1>10, <1>13

\* What is kept is in S and comes from the sequence, nothing twice that was there once.
LEMMA KeepIs ==
  ASSUME NEW X, NEW seq \in Seq(X), NEW S
  PROVE  /\ Keep(seq, S) \in Seq(X)
         /\ \A k \in 1 .. Len(Keep(seq, S)) : Keep(seq, S)[k] \in S /\ \E i \in 1 .. Len(seq) : Keep(seq, S)[k] = seq[i]
         /\ (\A i, j \in 1 .. Len(seq) : seq[i] = seq[j] => i = j)
            => \A i, j \in 1 .. Len(Keep(seq, S)) : Keep(seq, S)[i] = Keep(seq, S)[j] => i = j
<1> DEFINE n == Len(seq)
           From(l, m) == \A k \in 1 .. Len(l) : l[k] \in S /\ \E i \in 1 .. m : l[k] = seq[i]
           Once(l) == \A i, j \in 1 .. Len(l) : l[i] = l[j] => i = j
           Unique == \A i, j \in 1 .. Len(seq) : seq[i] = seq[j] => i = j
           u == Picked(seq, S)
           T == {m \in Nat : m <= n => From(u[m], m) /\ (Unique => Once(u[m]))}
<1>1. /\ n \in Nat /\ u \in [0 .. n -> Seq(X)] /\ u[0] = <<>>
      /\ \A k \in 1 .. n : u[k] = IF seq[k] \in S THEN Append(u[k - 1], seq[k]) ELSE u[k - 1]
  BY PickedDef
<1> HIDE DEF u
<1>2. 0 \in T
  <2>1. u[0] = <<>>
    BY <1>1
  <2> QED BY <2>1
<1>3. ASSUME NEW m \in Nat, m \in T PROVE m + 1 \in T
  <2>1. SUFFICES ASSUME m + 1 <= n PROVE From(u[m + 1], m + 1) /\ (Unique => Once(u[m + 1]))
    <3> HIDE DEF From, Once, Unique
    <3> QED OBVIOUS
  <2>2. m + 1 \in 1 .. n /\ (m + 1) - 1 = m /\ m \in 0 .. n
    BY <1>1, <2>1
  <2>3. u[m + 1] = IF seq[m + 1] \in S THEN Append(u[m], seq[m + 1]) ELSE u[m]
    BY <1>1, <2>2
  <2>4. PICK l \in Seq(X) : l = u[m]
    BY <1>1, <2>2
  <2>5. From(l, m) /\ (Unique => Once(l))
    <3> HIDE DEF From, Once, Unique
    <3> QED BY <1>3, <2>1, <2>4
  <2>6. CASE seq[m + 1] \notin S
    <3>1. u[m + 1] = l
      BY <2>3, <2>4, <2>6
    <3>2. From(l, m + 1)
      BY <2>5
    <3> HIDE DEF From, Once, Unique
    <3> QED BY <2>5, <3>1, <3>2
  <2>7. CASE seq[m + 1] \in S
    <3>1. PICK a \in Seq(X) : a = Append(l, seq[m + 1])
      <4>1. seq[m + 1] \in X
        BY <2>2
      <4> HIDE DEF From, Once, Unique, T
      <4>2. \A x \in X : Append(l, x) \in Seq(X)
        OBVIOUS
      <4> QED BY <4>1, <4>2
    <3>2. u[m + 1] = a
      BY <2>3, <2>4, <2>7, <3>1
    <3>3. /\ Len(a) = Len(l) + 1 /\ a[Len(l) + 1] = seq[m + 1] /\ \A k \in 1 .. Len(l) : a[k] = l[k]
          /\ Len(l) \in Nat
      BY <3>1
    <3>4. From(a, m + 1)
      <4>1. SUFFICES ASSUME NEW k \in 1 .. Len(a) PROVE a[k] \in S /\ \E i \in 1 .. m + 1 : a[k] = seq[i]
        OBVIOUS
      <4>2. CASE k = Len(l) + 1
        BY <2>7, <3>3, <4>2
      <4>3. CASE k \in 1 .. Len(l)
        <5>1. l[k] \in S /\ \E i \in 1 .. m : l[k] = seq[i]
          BY <2>5, <4>3
        <5> QED BY <3>3, <4>3, <5>1
      <4> QED BY <3>3, <4>2, <4>3
    <3>5. ASSUME Unique PROVE Once(a)
      <4>1. \A k \in 1 .. Len(l) : l[k] # seq[m + 1]
        <5>1. SUFFICES ASSUME NEW k \in 1 .. Len(l), l[k] = seq[m + 1] PROVE FALSE
          OBVIOUS
        <5>2. PICK i \in 1 .. m : l[k] = seq[i]
          BY <2>5
        <5>3. i \in 1 .. Len(seq) /\ m + 1 \in 1 .. Len(seq)
          BY <2>2
        <5>4. i = m + 1
          BY <3>5, <5>1, <5>2, <5>3
        <5> QED BY <5>4
      <4>2. SUFFICES ASSUME NEW i \in 1 .. Len(a), NEW j \in 1 .. Len(a), a[i] = a[j] PROVE i = j
        OBVIOUS
      <4>3. Once(l)
        BY <2>5, <3>5
      <4>4. (i = Len(l) + 1 \/ i \in 1 .. Len(l)) /\ (j = Len(l) + 1 \/ j \in 1 .. Len(l))
        BY <3>3
      <4> QED BY <3>3, <4>1, <4>2, <4>3, <4>4
    <3> HIDE DEF From, Once, Unique
    <3> QED BY <3>2, <3>4, <3>5
  <2> QED BY <2>6, <2>7
<1>4. \A m \in Nat : m \in T
  <2>1. T \in SUBSET Nat
    OBVIOUS
  <2> HIDE DEF T
  <2> QED BY <1>2, <1>3, <2>1, SetInduction
<1>5. From(u[n], n) /\ (Unique => Once(u[n]))
  <2> HIDE DEF From, Once, Unique
  <2> QED BY <1>1, <1>4
<1>6. Keep(seq, S) = u[n] /\ u[n] \in Seq(X)
  BY <1>1 DEF Keep, u
<1> QED BY <1>5, <1>6

=============================================================================
