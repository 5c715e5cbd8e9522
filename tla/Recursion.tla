------------------------------ MODULE Recursion ------------------------------
(***************************************************************************)
(* Induction and recursion for proofs about data.  The principles are      *)
(* about sets and functions, not about operators, so that a proof can use  *)
(* them by naming the set or the function.                                 *)
(***************************************************************************)
EXTENDS Integers, WellFoundedInduction, TLAPS

-----------------------------------------------------------------------------
(* Induction.                                                              *)

LessThan == {pair \in Nat \X Nat : pair[1] < pair[2]}

\* A set of natural numbers that is not empty has a least element.
LEMMA LeastNumber ==
  ASSUME NEW T \in SUBSET Nat, T # {}
  PROVE  \E n \in T : \A m \in T : n <= m
<1>1. IsWellFoundedOn(LessThan, Nat)
  BY NatLessThanWellFounded DEF OpToRel, LessThan
<1>2. PICK n \in T : \A m \in T : ~ (<<m, n>> \in LessThan)
  BY <1>1, WFMin
<1>3. \A m \in T : ~ (m < n)
  BY <1>2 DEF LessThan
<1> QED
  BY <1>3

\* A set with 0 and the successor of each of its elements has all numbers.
LEMMA SetInduction ==
  ASSUME NEW T \in SUBSET Nat, 0 \in T, \A n \in T : n + 1 \in T
  PROVE  T = Nat
<1> SUFFICES ASSUME T # Nat PROVE FALSE
  OBVIOUS
<1>1. PICK n \in Nat \ T : \A m \in Nat \ T : n <= m
  BY LeastNumber
<1>2. n - 1 \in Nat /\ n - 1 \in T
  BY <1>1
<1>3. (n - 1) + 1 = n
  OBVIOUS
<1> QED
  BY <1>2, <1>3

\* A set with each number all of whose predecessors it has has all numbers.
LEMMA StrongInduction ==
  ASSUME NEW T \in SUBSET Nat,
         \A n \in Nat : (\A m \in Nat : m < n => m \in T) => n \in T
  PROVE  T = Nat
<1> SUFFICES ASSUME T # Nat PROVE FALSE
  OBVIOUS
<1>1. PICK n \in Nat \ T : \A m \in Nat \ T : n <= m
  BY LeastNumber
<1>2. \A m \in Nat : m < n => m \in T
  BY <1>1
<1> QED
  BY <1>1, <1>2

\* Induction up to n.
LEMMA BoundedInduction ==
  ASSUME NEW T, NEW n \in Nat, 0 \in T, \A k \in 1 .. n : k - 1 \in T => k \in T
  PROVE  \A k \in 0 .. n : k \in T
<1> DEFINE U == {k \in Nat : k <= n => k \in T}
<1>1. 0 \in U
  OBVIOUS
<1>2. ASSUME NEW k \in U PROVE k + 1 \in U
  <2>1. CASE k + 1 <= n
    <3>1. k \in T /\ k + 1 \in 1 .. n /\ (k + 1) - 1 = k
      BY <2>1
    <3> QED
      BY <3>1
  <2> QED
    BY <2>1
<1> HIDE DEF U
<1>3. U = Nat
  <2>1. U \in SUBSET Nat
    BY DEF U
  <2> QED
    BY <1>1, <1>2, <2>1, SetInduction
<1> QED
  BY <1>3 DEF U

-----------------------------------------------------------------------------
(* Recursion.                                                              *)

\* How to go on from the n-th value.
Steps(S) == [Nat -> [S -> S]]

\* The first values, up to n, of a function that starts with a and goes on
\* from each value as G says.
Starts(S, a, G, n) ==
  {g \in [0 .. n -> S] : g[0] = a /\ \A i \in 0 .. n - 1 : g[i + 1] = G[i][g[i]]}

LEMMA StartsExist ==
  ASSUME NEW S, NEW a \in S, NEW G \in Steps(S)
  PROVE  \A n \in Nat : Starts(S, a, G, n) # {}
<1> DEFINE T == {n \in Nat : Starts(S, a, G, n) # {}}
<1>1. 0 \in T
  <2> DEFINE g == [i \in 0 .. 0 |-> a]
  <2>1. g \in Starts(S, a, G, 0)
    BY DEF Starts
  <2> QED
    BY <2>1
<1>2. ASSUME NEW n \in T PROVE n + 1 \in T
  <2>1. PICK g : g \in Starts(S, a, G, n)
    OBVIOUS
  <2> DEFINE h == [i \in 0 .. n + 1 |-> IF i = n + 1 THEN G[n][g[n]] ELSE g[i]]
  <2>2. g \in [0 .. n -> S] /\ g[0] = a /\ \A i \in 0 .. n - 1 : g[i + 1] = G[i][g[i]]
    BY <2>1 DEF Starts
  <2>3. n \in Nat /\ g[n] \in S /\ G[n][g[n]] \in S
    BY <2>2 DEF Steps
  <2>4. h \in [0 .. n + 1 -> S] /\ h[0] = a
    BY <2>2, <2>3
  <2>5. ASSUME NEW i \in 0 .. n PROVE h[i + 1] = G[i][h[i]]
    BY <2>2, <2>3
  <2>6. h \in Starts(S, a, G, n + 1)
    <3>1. (n + 1) - 1 = n
      BY <2>3
    <3> HIDE DEF h
    <3> QED
      BY <2>4, <2>5, <3>1 DEF Starts
  <2> QED
    BY <2>3, <2>6
<1> HIDE DEF T
<1>3. T = Nat
  <2>1. T \in SUBSET Nat
    BY DEF T
  <2> QED
    BY <1>1, <1>2, <2>1, SetInduction
<1> QED
  BY <1>3 DEF T

LEMMA StartsAgree ==
  ASSUME NEW S, NEW a \in S, NEW G \in Steps(S), NEW n \in Nat, NEW m \in Nat,
         NEW g \in Starts(S, a, G, n), NEW h \in Starts(S, a, G, m),
         NEW k \in Nat, k <= n, k <= m
  PROVE  g[k] = h[k]
<1> DEFINE T == {i \in Nat : i <= n /\ i <= m => g[i] = h[i]}
<1>1. /\ g \in [0 .. n -> S] /\ g[0] = a /\ \A i \in 0 .. n - 1 : g[i + 1] = G[i][g[i]]
      /\ h \in [0 .. m -> S] /\ h[0] = a /\ \A i \in 0 .. m - 1 : h[i + 1] = G[i][h[i]]
  BY DEF Starts
<1>2. 0 \in T
  BY <1>1
<1>3. ASSUME NEW i \in T PROVE i + 1 \in T
  BY <1>1
<1> HIDE DEF T
<1>4. T = Nat
  <2>1. T \in SUBSET Nat
    BY DEF T
  <2> QED
    BY <1>2, <1>3, <2>1, SetInduction
<1> QED
  BY <1>4 DEF T

\* There is a function of all numbers that does so.
Iterations(S, a, G) ==
  {f \in [Nat -> S] : f[0] = a /\ \A n \in Nat : f[n + 1] = G[n][f[n]]}

LEMMA PrimitiveRecursion ==
  ASSUME NEW S, NEW a \in S, NEW G \in Steps(S)
  PROVE  Iterations(S, a, G) # {}
<1> DEFINE start(n) == CHOOSE g : g \in Starts(S, a, G, n)
           f == [n \in Nat |-> start(n)[n]]
<1>1. \A n \in Nat : start(n) \in Starts(S, a, G, n)
  BY StartsExist
<1> HIDE DEF start
<1>2. \A n \in Nat : start(n) \in [0 .. n -> S] /\ start(n)[0] = a
  BY <1>1 DEF Starts
<1>3. f \in [Nat -> S] /\ f[0] = a
  BY <1>2
<1>4. ASSUME NEW n \in Nat PROVE f[n + 1] = G[n][f[n]]
  <2>1. start(n + 1)[n + 1] = G[n][start(n + 1)[n]]
    <3>1. start(n + 1) \in Starts(S, a, G, n + 1) /\ n \in 0 .. (n + 1) - 1
      BY <1>1
    <3> QED
      BY <3>1 DEF Starts
  <2>2. start(n + 1)[n] = start(n)[n]
    <3>1. start(n + 1) \in Starts(S, a, G, n + 1) /\ start(n) \in Starts(S, a, G, n)
      BY <1>1
    <3>2. n + 1 \in Nat /\ n <= n + 1 /\ n <= n
      OBVIOUS
    <3>3. ASSUME NEW g \in Starts(S, a, G, n + 1), NEW h \in Starts(S, a, G, n)
          PROVE  g[n] = h[n]
      BY <3>2, StartsAgree
    <3> QED
      BY <3>1, <3>3
  <2> QED
    BY <2>1, <2>2
<1>5. f \in Iterations(S, a, G)
  BY <1>3, <1>4 DEF Iterations
<1> QED
  BY <1>5

\* A recursive function from X to S that is B at the elements of D and at
\* the others calls itself once, on an argument of lower rank.
IsRecursion(X, S, D, B, G, next, rank) ==
  /\ B \in [X -> S] /\ G \in [X -> [S -> S]]
  /\ next \in [X -> X] /\ rank \in [X -> Nat]
  /\ \A x \in X : x \notin D => rank[next[x]] < rank[x]

Solutions(X, S, D, B, G, next) ==
  {f \in [X -> S] : \A x \in X : f[x] = IF x \in D THEN B[x] ELSE G[x][f[next[x]]]}

\* Such a function exists.
LEMMA RankedRecursion ==
  ASSUME NEW X, NEW S, NEW D, NEW B, NEW G, NEW next, NEW rank,
         IsRecursion(X, S, D, B, G, next, rank)
  PROVE  Solutions(X, S, D, B, G, next) # {}
<1> USE DEF IsRecursion
<1> DEFINE once(h) == [x \in X |-> IF x \in D THEN B[x] ELSE G[x][h[next[x]]]]
           step == [n \in Nat |-> [h \in [X -> S] |-> once(h)]]
<1>1. \A h \in [X -> S] : once(h) \in [X -> S]
  OBVIOUS
<1>2. step \in [Nat -> [[X -> S] -> [X -> S]]]
  BY <1>1
<1>3. PICK h \in [Nat -> [X -> S]] : h[0] = B /\ \A n \in Nat : h[n + 1] = step[n][h[n]]
  <2> DEFINE XS == [X -> S]
  <2>1. B \in XS /\ step \in Steps(XS)
    BY <1>2 DEF Steps
  <2> HIDE DEF step, XS
  <2>2. PICK h : h \in Iterations(XS, B, step)
    BY <2>1, PrimitiveRecursion
  <2> QED
    BY <2>2 DEF XS, Iterations
<1>4. ASSUME NEW n \in Nat PROVE h[n + 1] = once(h[n])
  <2>1. h[n] \in [X -> S] /\ h[n + 1] = step[n][h[n]]
    BY <1>3
  <2> HIDE DEF once
  <2> QED
    BY <2>1
<1>5. \A n \in Nat : \A x \in X :
        h[n + 1][x] = IF x \in D THEN B[x] ELSE G[x][h[n][next[x]]]
  <2> SUFFICES ASSUME NEW n \in Nat, NEW x \in X
               PROVE  h[n + 1][x] = IF x \in D THEN B[x] ELSE G[x][h[n][next[x]]]
    OBVIOUS
  <2>1. h[n + 1] = once(h[n])
    BY <1>4
  <2> QED
    BY <2>1
<1> HIDE DEF once, step
<1> DEFINE T == {n \in Nat : \A x \in X : rank[x] <= n => h[n + 1][x] = h[n][x]}
<1>6. 0 \in T
  <2> SUFFICES ASSUME NEW x \in X, rank[x] <= 0 PROVE h[0 + 1][x] = h[0][x]
    OBVIOUS
  <2>1. x \in D
    OBVIOUS
  <2> QED
    BY <1>3, <1>5, <2>1
<1>7. ASSUME NEW n \in T PROVE n + 1 \in T
  <2> SUFFICES ASSUME NEW x \in X, rank[x] <= n + 1
               PROVE  h[(n + 1) + 1][x] = h[n + 1][x]
    OBVIOUS
  <2>1. CASE x \in D
    <3>1. n \in Nat /\ n + 1 \in Nat
      OBVIOUS
    <3>2. h[n + 1][x] = B[x] /\ h[(n + 1) + 1][x] = B[x]
      BY <1>5, <2>1, <3>1
    <3> QED
      BY <3>2
  <2>2. CASE x \notin D
    <3>1. next[x] \in X /\ rank[next[x]] <= n
      BY <2>2
    <3>2. h[n + 1][next[x]] = h[n][next[x]]
      BY <3>1
    <3> QED
      BY <1>5, <2>2, <3>2
  <2> QED
    BY <2>1, <2>2
<1> HIDE DEF T
<1>8. T = Nat
  <2>1. T \in SUBSET Nat
    BY DEF T
  <2> QED
    BY <1>6, <1>7, <2>1, SetInduction
<1>9. \A n \in Nat : \A x \in X : rank[x] <= n => h[n + 1][x] = h[n][x]
  BY <1>8 DEF T
<1> DEFINE U == {n \in Nat : \A x \in X : h[rank[x] + n][x] = h[rank[x]][x]}
<1>10. 0 \in U
  OBVIOUS
<1>11. ASSUME NEW n \in U PROVE n + 1 \in U
  <2> SUFFICES ASSUME NEW x \in X PROVE h[rank[x] + (n + 1)][x] = h[rank[x]][x]
    OBVIOUS
  <2>1. rank[x] + n \in Nat /\ rank[x] <= rank[x] + n /\ (rank[x] + n) + 1 = rank[x] + (n + 1)
    OBVIOUS
  <2>2. h[(rank[x] + n) + 1][x] = h[rank[x] + n][x]
    BY <1>9, <2>1
  <2> QED
    BY <2>1, <2>2
<1> HIDE DEF U
<1>12. U = Nat
  <2>1. U \in SUBSET Nat
    BY DEF U
  <2> QED
    BY <1>10, <1>11, <2>1, SetInduction
<1> DEFINE f == [x \in X |-> h[rank[x]][x]]
<1>13. f \in [X -> S]
  BY <1>3
<1>14. ASSUME NEW x \in X PROVE f[x] = IF x \in D THEN B[x] ELSE G[x][f[next[x]]]
  <2>1. f[x] = IF x \in D THEN B[x] ELSE G[x][h[rank[x]][next[x]]]
    <3>1. rank[x] \in Nat /\ f[x] = h[rank[x]][x]
      OBVIOUS
    <3>2. h[rank[x] + 1][x] = h[rank[x]][x]
      BY <1>9, <3>1, rank[x] <= rank[x]
    <3> QED
      BY <1>5, <3>1, <3>2
  <2>2. ASSUME x \notin D PROVE h[rank[x]][next[x]] = f[next[x]]
    <3>1. next[x] \in X /\ rank[x] - rank[next[x]] \in Nat
      BY <2>2
    <3>2. rank[x] - rank[next[x]] \in U
      BY <1>12, <3>1
    <3>3. rank[next[x]] + (rank[x] - rank[next[x]]) = rank[x]
      BY <3>1
    <3> QED
      BY <3>1, <3>2, <3>3 DEF U
  <2> QED
    BY <2>1, <2>2
<1>15. f \in Solutions(X, S, D, B, G, next)
  BY <1>13, <1>14 DEF Solutions
<1> QED
  BY <1>15

\* A function of 0 .. n that starts with a and goes on as G says.
Countings(S, a, G, n) ==
  {f \in [0 .. n -> S] : f[0] = a /\ \A k \in 1 .. n : f[k] = G[k][f[k - 1]]}

LEMMA CountingRecursion ==
  ASSUME NEW S, NEW a \in S, NEW n \in Nat, NEW G, G \in [1 .. n -> [S -> S]]
  PROVE  Countings(S, a, G, n) # {}
<1> DEFINE X == 0 .. n
           D == {0}
           B == [k \in X |-> a]
           H == [k \in X |-> IF k = 0 THEN [v \in S |-> v] ELSE G[k]]
           next == [k \in X |-> IF k = 0 THEN 0 ELSE k - 1]
           rank == [k \in X |-> k]
<1>1. IsRecursion(X, S, D, B, H, next, rank)
  <2>1. B \in [X -> S] /\ next \in [X -> X] /\ rank \in [X -> Nat]
    OBVIOUS
  <2>2. H \in [X -> [S -> S]]
    OBVIOUS
  <2>3. \A k \in X : k \notin D => rank[next[k]] < rank[k]
    OBVIOUS
  <2> HIDE DEF X, D, B, H, next, rank
  <2> QED
    BY <2>1, <2>2, <2>3 DEF IsRecursion
<1>2. PICK f : f \in Solutions(X, S, D, B, H, next)
  <2> HIDE DEF X, D, B, H, next, rank
  <2> QED
    BY <1>1, RankedRecursion
<1>3. f \in [X -> S] /\ \A k \in X : f[k] = IF k \in D THEN B[k] ELSE H[k][f[next[k]]]
  BY <1>2 DEF Solutions
<1>4. f[0] = a
  BY <1>3
<1>5. ASSUME NEW k \in 1 .. n PROVE f[k] = G[k][f[k - 1]]
  <2>1. k \in X /\ k \notin D /\ H[k] = G[k] /\ next[k] = k - 1
    OBVIOUS
  <2> HIDE DEF X, D, B, H, next
  <2> QED
    BY <1>3, <2>1
<1>6. f \in Countings(S, a, G, n)
  BY <1>3, <1>4, <1>5 DEF Countings
<1> QED
  BY <1>6
=============================================================================
