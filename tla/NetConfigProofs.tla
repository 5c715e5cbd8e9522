--------------------------- MODULE NetConfigProofs ---------------------------
(***************************************************************************)
(* Proofs about NetConfig, for every list of options, every address, every *)
(* netmask and any number of DNS servers: what sendRawUdp puts on the wire *)
(* verifies and is read as it was meant, what configureDhcp reads is what  *)
(* the server put into the reply, the interface describes the subnet of    *)
(* the netmask, and a lease is set up completely.                          *)
(*                                                                         *)
(* The loops of the code are recursive functions of the model; the module  *)
(* Recursion gives the induction that says what they compute.              *)
(***************************************************************************)
EXTENDS NetConfig, Recursion, TLAPS

-----------------------------------------------------------------------------
(* The checksum of socket.cpp.  FoldCarries and addChecksum are loops; what they *)
(* add up to is shown by induction, modulo 65535.                          *)

\* One turn of the loop that folds the carries takes away 65535 for each.
LEMMA CarriesOnce ==
  ASSUME NEW c \in Nat
  PROVE  /\ (c % 65536) + (c \div 65536) \in Nat
         /\ c = (c % 65536) + (c \div 65536) + 65535 * (c \div 65536)
         /\ c \div 65536 \in Nat
         /\ c >= 65536 => (c % 65536) + (c \div 65536) < c
OBVIOUS

\* The loop that folds the carries ends, and is what its body says.
LEMMA FoldCarriesStep ==
  ASSUME NEW c \in Nat
  PROVE  FoldCarries[c] = IF c < 65536 THEN c ELSE FoldCarries[(c % 65536) + (c \div 65536)]
<1> DEFINE once(x) == (x % 65536) + (x \div 65536)
           D == {x \in Nat : x < 65536}
           B == [x \in Nat |-> x]
           G == [x \in Nat |-> [v \in Nat |-> v]]
           next == [x \in Nat |-> once(x)]
           Body(f) == [x \in Nat |-> IF x < 65536 THEN x ELSE f[once(x)]]
<1>1. \A x \in Nat : once(x) \in Nat /\ (x >= 65536 => once(x) < x)
  BY CarriesOnce
<1> HIDE DEF once
<1>2. IsRecursion(Nat, Nat, D, B, G, next, B)
  BY <1>1 DEF IsRecursion
<1>3. PICK f : f \in Solutions(Nat, Nat, D, B, G, next)
  <2> HIDE DEF D, B, G, next
  <2> QED
    BY <1>2, RankedRecursion
<1>4. f = Body(f)
  <2>1. f \in [Nat -> Nat] /\ \A x \in Nat : f[x] = IF x \in D THEN B[x] ELSE G[x][f[next[x]]]
    BY <1>3 DEF Solutions
  <2>2. ASSUME NEW x \in Nat PROVE f[x] = IF x < 65536 THEN x ELSE f[once(x)]
    <3>1. /\ x \in D <=> x < 65536
          /\ B[x] = x /\ next[x] = once(x) /\ f[once(x)] \in Nat
      BY <1>1, <2>1
    <3>2. G[x][f[once(x)]] = f[once(x)]
      BY <3>1
    <3> HIDE DEF D, B, next, G
    <3> QED
      BY <2>1, <3>1, <3>2
  <2> QED
    BY <2>1, <2>2
<1>5. FoldCarries = Body(FoldCarries)
  <2>1. \E g : g = [x \in Nat |-> IF x < 65536 THEN x ELSE g[(x % 65536) + (x \div 65536)]]
    BY <1>4 DEF once
  <2> QED
    BY <2>1, SMT DEF FoldCarries, once
<1>6. FoldCarries[c] = IF c < 65536 THEN c ELSE FoldCarries[once(c)]
  BY <1>5
<1> QED
  BY <1>6 DEF once

\* Folding the carries leaves a sum of 16 bits that is the same to a checksum.
LEMMA FoldCarriesValue ==
  ASSUME NEW c \in Nat
  PROVE  /\ FoldCarries[c] \in Nat /\ FoldCarries[c] < 65536
         /\ FoldCarries[c] % 65535 = c % 65535
<1> DEFINE P(x) == /\ FoldCarries[x] \in Nat /\ FoldCarries[x] < 65536
                   /\ FoldCarries[x] % 65535 = x % 65535
           T == {x \in Nat : P(x)}
<1>1. ASSUME NEW x \in Nat, \A m \in Nat : m < x => P(m)
      PROVE  P(x)
  <2>1. CASE x < 65536
    <3>1. FoldCarries[x] = x
      BY <2>1, FoldCarriesStep, SMT
    <3> QED
      BY <2>1, <3>1, SMT
  <2>2. CASE x >= 65536
    <3> DEFINE y == (x % 65536) + (x \div 65536)
               d == x \div 65536
    <3>1. y \in Nat /\ d \in Nat /\ x = y + 65535 * d /\ y < x
      BY <2>2, CarriesOnce, SMT
    <3>2. FoldCarries[x] = FoldCarries[y]
      BY <2>2, FoldCarriesStep, SMT
    <3> HIDE DEF y, d
    <3>3. P(y)
      BY <1>1, <3>1, SMT
    <3>4. y % 65535 = x % 65535
      BY <3>1, SMT
    <3> QED
      BY <3>2, <3>3, <3>4, SMT
  <2> QED
    BY <2>1, <2>2, SMT
<1> HIDE DEF P
<1>2. T \in SUBSET Nat
  OBVIOUS
<1>3. \A n \in Nat : (\A m \in Nat : m < n => m \in T) => n \in T
  BY <1>1
<1> HIDE DEF T
<1>4. T = Nat
  BY <1>2, <1>3, StrongInduction
<1>5. P(c)
  BY <1>4 DEF T
<1> QED
  BY <1>5, SMT DEF P

\* The sums of the first differences, from a on.
RunningSums(a, d, n) ==
  {f \in [0 .. n -> Int] : f[0] = a /\ \A k \in 1 .. n : f[k] = f[k - 1] + d[k]}

\* Such sums exist, so the loop that adds the words has a result.
LEMMA RunningSumsExist ==
  ASSUME NEW a \in Int, NEW n \in Nat, NEW d, \A k \in 1 .. n : d[k] \in Int
  PROVE  \E f : f \in RunningSums(a, d, n)
<1> DEFINE G == [k \in 1 .. n |-> [v \in Int |-> v + d[k]]]
<1>1. G \in [1 .. n -> [Int -> Int]]
  OBVIOUS
<1>2. PICK f : f \in Countings(Int, a, G, n)
  <2> HIDE DEF G
  <2>1. Countings(Int, a, G, n) # {}
    BY <1>1, CountingRecursion
  <2> QED
    BY <2>1
<1>3. f \in [0 .. n -> Int] /\ f[0] = a /\ \A k \in 1 .. n : f[k] = G[k][f[k - 1]]
  BY <1>2 DEF Countings
<1>4. ASSUME NEW k \in 1 .. n PROVE f[k] = f[k - 1] + d[k]
  <2>1. f[k - 1] \in Int
    BY <1>3
  <2>2. G[k][f[k - 1]] = f[k - 1] + d[k]
    BY <2>1
  <2> QED
    BY <1>3, <2>2
<1> QED
  BY <1>3, <1>4 DEF RunningSums

\* A function that is defined as such a recursion is such a sequence of sums.
LEMMA RunningSumsByRecursion ==
  ASSUME NEW a \in Int, NEW n \in Nat, NEW d, \A k \in 1 .. n : d[k] \in Int
  PROVE  /\ \E f : f = [k \in 0 .. n |-> IF k = 0 THEN a ELSE f[k - 1] + d[k]]
         /\ \A f : f = [k \in 0 .. n |-> IF k = 0 THEN a ELSE f[k - 1] + d[k]]
                   => f \in RunningSums(a, d, n)
<1>1. \E f : f = [k \in 0 .. n |-> IF k = 0 THEN a ELSE f[k - 1] + d[k]]
  <2>1. PICK f : f \in RunningSums(a, d, n)
    BY RunningSumsExist
  <2>2. /\ f \in [0 .. n -> Int] /\ f[0] = a
        /\ \A k \in 1 .. n : f[k] = f[k - 1] + d[k]
    BY <2>1 DEF RunningSums
  <2>3. ASSUME NEW k \in 0 .. n PROVE f[k] = IF k = 0 THEN a ELSE f[k - 1] + d[k]
    BY <2>2
  <2> QED
    BY <2>2, <2>3
<1>2. ASSUME NEW f, f = [k \in 0 .. n |-> IF k = 0 THEN a ELSE f[k - 1] + d[k]]
      PROVE  f \in RunningSums(a, d, n)
  <2>1. f[0] = a
    BY <1>2
  <2>2. ASSUME NEW k \in 1 .. n PROVE f[k] = f[k - 1] + d[k]
    <3>1. k \in 0 .. n /\ k # 0
      OBVIOUS
    <3> QED
      BY <1>2, <3>1
  <2> DEFINE T == {k \in 0 .. n : f[k] \in Int}
  <2>3. 0 \in T
    BY <2>1
  <2>4. ASSUME NEW k \in 1 .. n, k - 1 \in T PROVE k \in T
    <3>1. k \in 0 .. n /\ f[k - 1] \in Int /\ d[k] \in Int /\ f[k] = f[k - 1] + d[k]
      BY <2>2, <2>4
    <3> QED
      BY <3>1
  <2> HIDE DEF T
  <2>5. \A k \in 0 .. n : k \in T
    BY <2>3, <2>4, BoundedInduction
  <2>6. f \in [0 .. n -> Int]
    BY <1>2, <2>5 DEF T
  <2> QED
    BY <2>1, <2>2, <2>6 DEF RunningSums
<1> QED
  BY <1>1, <1>2

\* What each byte adds to a sum of 16-bit words.
Weighted(bytes, odd, even) ==
  [n \in DOMAIN bytes |-> (IF n % 2 = 1 THEN odd ELSE even) * bytes[n]]

\* WeightedSums, what a receiver adds, is what its recursion says.
LEMMA WeightedSumsStep ==
  ASSUME NEW bytes \in Seq(Int), NEW odd \in Int, NEW even \in Int
  PROVE  WeightedSums(bytes, odd, even)
           \in RunningSums(0, Weighted(bytes, odd, even), Len(bytes))
<1> DEFINE d == Weighted(bytes, odd, even)
           w(k) == (IF k % 2 = 1 THEN odd ELSE even) * bytes[k]
<1>1. DOMAIN bytes = 1 .. Len(bytes) /\ Len(bytes) \in Nat
  OBVIOUS
<1>2. \A k \in 1 .. Len(bytes) : d[k] = w(k) /\ d[k] \in Int
  BY <1>1 DEF Weighted
<1> HIDE DEF d, w
<1>3. \A f : [k \in 0 .. Len(bytes) |-> IF k = 0 THEN 0 ELSE f[k - 1] + w(k)]
               = [k \in 0 .. Len(bytes) |-> IF k = 0 THEN 0 ELSE f[k - 1] + d[k]]
  BY <1>1, <1>2
<1>4. \E f : f = [k \in 0 .. Len(bytes) |-> IF k = 0 THEN 0 ELSE f[k - 1] + w(k)]
  <2>1. PICK f : f = [k \in 0 .. Len(bytes) |-> IF k = 0 THEN 0 ELSE f[k - 1] + d[k]]
    BY <1>1, <1>2, 0 \in Int, RunningSumsByRecursion, ZenonT(30)
  <2>2. f = [k \in 0 .. Len(bytes) |-> IF k = 0 THEN 0 ELSE f[k - 1] + w(k)]
    BY <1>3, <2>1, Zenon
  <2> QED
    BY <2>2, Zenon
<1> DEFINE s == WeightedSums(bytes, odd, even)
<1>5. s = [k \in 0 .. Len(bytes) |-> IF k = 0 THEN 0 ELSE s[k - 1] + w(k)]
  BY <1>4 DEF WeightedSums, w
<1> HIDE DEF s
<1>6. s = [k \in 0 .. Len(bytes) |-> IF k = 0 THEN 0 ELSE s[k - 1] + d[k]]
  BY <1>3, <1>5
<1>7. s \in RunningSums(0, d, Len(bytes))
  BY <1>1, <1>2, <1>6, 0 \in Int, RunningSumsByRecursion, Zenon
<1> QED
  BY <1>7 DEF s, d

\* The differences of the sums over the words.
Words(bytes) == [n \in 1 .. Len(bytes) \div 2 |-> bytes[2 * n - 1] + 256 * bytes[2 * n]]

\* addChecksum's loop over the words adds one word in each turn.
LEMMA AddWordsStep ==
  ASSUME NEW bytes \in Seq(Int), NEW c \in Int
  PROVE  AddWords(bytes, c) \in RunningSums(c, Words(bytes), Len(bytes) \div 2)
<1> DEFINE N == Len(bytes) \div 2
           d == Words(bytes)
           w(k) == bytes[2 * k - 1] + 256 * bytes[2 * k]
<1>1. DOMAIN bytes = 1 .. Len(bytes) /\ Len(bytes) \in Nat
  OBVIOUS
<1>2. N \in Nat /\ \A k \in 1 .. N : 2 * k - 1 \in 1 .. Len(bytes) /\ 2 * k \in 1 .. Len(bytes)
  BY <1>1
<1>3. \A k \in 1 .. N : d[k] = w(k) /\ d[k] \in Int
  BY <1>2, SMTT(30) DEF Words
<1> HIDE DEF N, d, w
<1>4. \A f : [k \in 0 .. N |-> IF k = 0 THEN c ELSE f[k - 1] + w(k)]
               = [k \in 0 .. N |-> IF k = 0 THEN c ELSE f[k - 1] + d[k]]
  BY <1>2, <1>3
<1>5. \E f : f = [k \in 0 .. N |-> IF k = 0 THEN c ELSE f[k - 1] + w(k)]
  <2>1. PICK f : f = [k \in 0 .. N |-> IF k = 0 THEN c ELSE f[k - 1] + d[k]]
    <3>1. N \in Nat /\ \A k \in 1 .. N : d[k] \in Int
      BY <1>2, <1>3
    <3> QED
      BY <3>1, c \in Int, RunningSumsByRecursion, ZenonT(60)
  <2>2. f = [k \in 0 .. N |-> IF k = 0 THEN c ELSE f[k - 1] + w(k)]
    BY <1>4, <2>1, Zenon
  <2> QED
    BY <2>2, Zenon
<1> DEFINE s == AddWords(bytes, c)
<1>6. s = [k \in 0 .. N |-> IF k = 0 THEN c ELSE s[k - 1] + w(k)]
  BY <1>5 DEF AddWords, w, N
<1> HIDE DEF s
<1>7. s = [k \in 0 .. N |-> IF k = 0 THEN c ELSE s[k - 1] + d[k]]
  BY <1>4, <1>6
<1>8. s \in RunningSums(c, d, N)
  BY <1>2, <1>3, <1>7, RunningSumsByRecursion, Zenon
<1> QED
  BY <1>8 DEF s, d, N

\* The sum of the words as the machine reads them.
MachineSum(bytes) == WeightedSum(bytes, 1, 256)

\* The sums a receiver forms, byte by byte.
LEMMA WeightedSumsFacts ==
  ASSUME NEW bytes \in Seq(Int), NEW odd \in Int, NEW even \in Int
  PROVE  /\ Len(bytes) \in Nat /\ DOMAIN bytes = 1 .. Len(bytes)
         /\ \A n \in 0 .. Len(bytes) : WeightedSums(bytes, odd, even)[n] \in Int
         /\ WeightedSums(bytes, odd, even)[0] = 0
         /\ \A n \in 1 .. Len(bytes) :
              /\ bytes[n] \in Int
              /\ n % 2 = 1 => WeightedSums(bytes, odd, even)[n]
                               = WeightedSums(bytes, odd, even)[n - 1] + odd * bytes[n]
              /\ n % 2 # 1 => WeightedSums(bytes, odd, even)[n]
                               = WeightedSums(bytes, odd, even)[n - 1] + even * bytes[n]
         /\ WeightedSum(bytes, odd, even) \in Int
<1> DEFINE s == WeightedSums(bytes, odd, even)
           d == Weighted(bytes, odd, even)
<1>1. DOMAIN bytes = 1 .. Len(bytes) /\ Len(bytes) \in Nat
  OBVIOUS
<1>2. s \in RunningSums(0, d, Len(bytes))
  BY WeightedSumsStep
<1>3. \A n \in 1 .. Len(bytes) : d[n] = (IF n % 2 = 1 THEN odd ELSE even) * bytes[n]
  BY <1>1 DEF Weighted
<1> HIDE DEF s, d
<1>4. /\ s \in [0 .. Len(bytes) -> Int] /\ s[0] = 0
      /\ \A n \in 1 .. Len(bytes) : s[n] = s[n - 1] + d[n]
  BY <1>2 DEF RunningSums
<1>5. s[Len(bytes)] \in Int
  BY <1>1, <1>4
<1>6. \A n \in 1 .. Len(bytes) :
        /\ bytes[n] \in Int
        /\ n % 2 = 1 => s[n] = s[n - 1] + odd * bytes[n]
        /\ n % 2 # 1 => s[n] = s[n - 1] + even * bytes[n]
  BY <1>3, <1>4
<1>7. \A n \in 0 .. Len(bytes) : s[n] \in Int
  BY <1>4
<1> QED
  BY <1>1, <1>4, <1>5, <1>6, <1>7 DEF s, WeightedSum

\* The same for the order in which addChecksum reads a word.
LEMMA MachineSumsFacts ==
  ASSUME NEW bytes \in Seq(Int)
  PROVE  /\ Len(bytes) \in Nat
         /\ \A n \in 0 .. Len(bytes) : WeightedSums(bytes, 1, 256)[n] \in Int
         /\ WeightedSums(bytes, 1, 256)[0] = 0
         /\ \A n \in 1 .. Len(bytes) :
              /\ n % 2 = 1 => WeightedSums(bytes, 1, 256)[n]
                               = WeightedSums(bytes, 1, 256)[n - 1] + bytes[n]
              /\ n % 2 # 1 => WeightedSums(bytes, 1, 256)[n]
                               = WeightedSums(bytes, 1, 256)[n - 1] + 256 * bytes[n]
<1> DEFINE s == WeightedSums(bytes, 1, 256)
<1>1. /\ Len(bytes) \in Nat
      /\ \A n \in 0 .. Len(bytes) : s[n] \in Int
      /\ s[0] = 0
      /\ \A n \in 1 .. Len(bytes) :
           /\ bytes[n] \in Int
           /\ n % 2 = 1 => s[n] = s[n - 1] + 1 * bytes[n]
           /\ n % 2 # 1 => s[n] = s[n - 1] + 256 * bytes[n]
  BY WeightedSumsFacts, 1 \in Int, 256 \in Int
<1> HIDE DEF s
<1>2. \A n \in 1 .. Len(bytes) : 1 * bytes[n] = bytes[n]
  BY <1>1
<1>3. \A n \in 1 .. Len(bytes) : n % 2 = 1 => s[n] = s[n - 1] + bytes[n]
  BY <1>1, <1>2
<1> QED
  BY <1>1, <1>3 DEF s

\* After each number of words the loop has added the bytes of these.
LEMMA AddWordsValue ==
  ASSUME NEW bytes \in Seq(Int), NEW c \in Int, NEW n \in 0 .. Len(bytes) \div 2
  PROVE  AddWords(bytes, c)[n] = c + WeightedSums(bytes, 1, 256)[2 * n]
<1> DEFINE N == Len(bytes) \div 2
           a == AddWords(bytes, c)
           s == WeightedSums(bytes, 1, 256)
           d == Words(bytes)
<1>1. Len(bytes) \in Nat /\ N \in Nat /\ 2 * N <= Len(bytes)
  OBVIOUS
<1>2. a \in RunningSums(c, d, N)
  BY AddWordsStep
<1>3. \A k \in 1 .. N : d[k] = bytes[2 * k - 1] + 256 * bytes[2 * k]
  BY DEF Words
<1>4. /\ \A k \in 0 .. Len(bytes) : s[k] \in Int
      /\ s[0] = 0
      /\ \A k \in 1 .. Len(bytes) : /\ k % 2 = 1 => s[k] = s[k - 1] + bytes[k]
                                    /\ k % 2 # 1 => s[k] = s[k - 1] + 256 * bytes[k]
  BY MachineSumsFacts
<1>5. \A k \in 1 .. Len(bytes) : bytes[k] \in Int
  OBVIOUS
<1> HIDE DEF N, a, s, d
<1>6. a[0] = c /\ \A k \in 1 .. N : a[k] = a[k - 1] + d[k]
  BY <1>2 DEF RunningSums
<1> DEFINE T == {k \in 0 .. N : a[k] = c + s[2 * k]}
<1>7. 0 \in T
  BY <1>1, <1>4, <1>6
<1>8. ASSUME NEW k \in 1 .. N, k - 1 \in T PROVE k \in T
  <2>1. k \in 0 .. N /\ a[k - 1] = c + s[2 * k - 2]
    BY <1>1, <1>8
  <2>2. /\ 2 * k - 1 \in 1 .. Len(bytes) /\ 2 * k \in 1 .. Len(bytes)
        /\ (2 * k - 1) % 2 = 1 /\ (2 * k) % 2 = 0
        /\ (2 * k - 1) - 1 = 2 * k - 2
        /\ 2 * k - 2 \in 0 .. Len(bytes)
    BY <1>1
  <2>3. s[2 * k - 1] = s[2 * k - 2] + bytes[2 * k - 1]
    BY <1>4, <1>5, <2>2
  <2>4. s[2 * k] = s[2 * k - 1] + 256 * bytes[2 * k]
    BY <1>4, <2>2
  <2>5. a[k] = a[k - 1] + (bytes[2 * k - 1] + 256 * bytes[2 * k])
    BY <1>3, <1>6
  <2>6. s[2 * k - 2] \in Int /\ bytes[2 * k - 1] \in Int /\ bytes[2 * k] \in Int
    <3>1. s[2 * k - 2] \in Int
      BY <1>4, <2>2, Zenon
    <3>2. bytes[2 * k - 1] \in Int /\ bytes[2 * k] \in Int
      BY <1>5, <2>2, Zenon
    <3> QED
      BY <3>1, <3>2
  <2>7. a[k] = c + s[2 * k]
    <3> DEFINE s0 == s[2 * k - 2]
               s1 == s[2 * k - 1]
               b1 == bytes[2 * k - 1]
               b2 == bytes[2 * k]
    <3>1. s0 \in Int /\ b1 \in Int /\ b2 \in Int
      BY <2>6
    <3>2. a[k - 1] = c + s0 /\ s1 = s0 + b1 /\ s[2 * k] = s1 + 256 * b2
      BY <2>1, <2>3, <2>4
    <3>3. a[k] = a[k - 1] + (b1 + 256 * b2)
      BY <2>5
    <3> HIDE DEF s0, s1, b1, b2
    <3> QED
      BY <3>1, <3>2, <3>3
  <2> QED
    BY <2>1, <2>7
<1> HIDE DEF T
<1>9. \A k \in 0 .. N : k \in T
  BY <1>1, <1>7, <1>8, BoundedInduction
<1>10. n \in T
  BY <1>9 DEF N
<1> QED
  BY <1>10 DEF T, a, s

\* No sum is negative: addChecksum adds unsigned words.
LEMMA SumsArePositive ==
  ASSUME NEW bytes \in Seq(Nat)
  PROVE  \A n \in 0 .. Len(bytes) : WeightedSums(bytes, 1, 256)[n] \in Nat
<1> DEFINE s == WeightedSums(bytes, 1, 256)
           T == {k \in 0 .. Len(bytes) : s[k] \in Nat}
<1>0. bytes \in Seq(Int)
  OBVIOUS
<1>1. /\ Len(bytes) \in Nat /\ s[0] = 0
      /\ \A k \in 1 .. Len(bytes) : /\ k % 2 = 1 => s[k] = s[k - 1] + bytes[k]
                                    /\ k % 2 # 1 => s[k] = s[k - 1] + 256 * bytes[k]
  BY <1>0, MachineSumsFacts
<1> HIDE DEF s
<1>2. 0 \in T
  BY <1>1
<1>3. ASSUME NEW k \in 1 .. Len(bytes), k - 1 \in T PROVE k \in T
  <2>1. k \in 0 .. Len(bytes) /\ s[k - 1] \in Nat /\ bytes[k] \in Nat
    BY <1>3
  <2>2. s[k] = s[k - 1] + bytes[k] \/ s[k] = s[k - 1] + 256 * bytes[k]
    BY <1>1, <2>1
  <2> QED
    BY <2>1, <2>2
<1> HIDE DEF T
<1>4. \A k \in 0 .. Len(bytes) : k \in T
  BY <1>1, <1>2, <1>3, BoundedInduction
<1> QED
  BY <1>4 DEF T, s

\* What addChecksum returns: 16 bits that are, to a checksum, the sum of the
\* bytes as the machine reads them and of what there was.
LEMMA AddChecksumValue ==
  ASSUME NEW bytes \in Seq(Nat), NEW c \in Nat
  PROVE  /\ MachineSum(bytes) \in Nat
         /\ AddChecksum(bytes, c) \in Nat /\ AddChecksum(bytes, c) < 65536
         /\ AddChecksum(bytes, c) % 65535 = (c + MachineSum(bytes)) % 65535
<1> DEFINE N == Len(bytes) \div 2
           s == WeightedSums(bytes, 1, 256)
           last == IF Len(bytes) % 2 = 1 THEN bytes[Len(bytes)] ELSE 0
<1>1. bytes \in Seq(Int)
  OBVIOUS
<1>2. /\ Len(bytes) \in Nat
      /\ \A k \in 1 .. Len(bytes) : /\ k % 2 = 1 => s[k] = s[k - 1] + bytes[k]
                                    /\ k % 2 # 1 => s[k] = s[k - 1] + 256 * bytes[k]
  BY <1>1, MachineSumsFacts
<1>3. N \in Nat /\ 2 * N \in 0 .. Len(bytes) /\ N \in 0 .. N
  BY <1>2
<1>4. AddWords(bytes, c)[N] = c + s[2 * N]
  BY <1>1, <1>3, AddWordsValue
<1>5. s[2 * N] \in Nat /\ s[Len(bytes)] \in Nat
  BY <1>2, <1>3, SumsArePositive
<1> HIDE DEF s
<1>6. last \in Nat /\ s[Len(bytes)] = s[2 * N] + last
  <2>1. CASE Len(bytes) % 2 = 1
    <3>1. Len(bytes) \in 1 .. Len(bytes) /\ 2 * N = Len(bytes) - 1 /\ bytes[Len(bytes)] \in Nat
      BY <1>2, <2>1
    <3>2. s[Len(bytes)] = s[Len(bytes) - 1] + bytes[Len(bytes)]
      BY <1>2, <2>1, <3>1
    <3> QED
      BY <2>1, <3>1, <3>2
  <2>2. CASE Len(bytes) % 2 # 1
    <3>1. 2 * N = Len(bytes)
      BY <1>2, <2>2
    <3> QED
      BY <1>5, <2>2, <3>1
  <2> QED
    BY <2>1, <2>2
<1>7. MachineSum(bytes) = s[Len(bytes)]
  BY DEF MachineSum, WeightedSum, s
<1> DEFINE t == AddWords(bytes, c)[N] + last
<1>8. t \in Nat /\ t = c + MachineSum(bytes)
  BY <1>4, <1>5, <1>6, <1>7, SMTT(30)
<1>9. AddChecksum(bytes, c) = FoldCarries[t]
  BY DEF AddChecksum
<1> HIDE DEF t
<1>10. /\ FoldCarries[t] \in Nat /\ FoldCarries[t] < 65536
       /\ FoldCarries[t] % 65535 = t % 65535
  BY <1>8, FoldCarriesValue, SMT
<1> QED
  BY <1>5, <1>7, <1>8, <1>9, <1>10, SMT

\* One byte more keeps one sum 256 times the other: 256 * 256 is 1 modulo 65535.
LEMMA SwappedStep ==
  ASSUME NEW s \in Int, NEW t \in Int, NEW b \in Int, t % 65535 = (256 * s) % 65535
  PROVE  /\ (t + 256 * b) % 65535 = (256 * (s + b)) % 65535
         /\ (t + 1 * b) % 65535 = (256 * (s + 256 * b)) % 65535
<1>1. (t + 256 * b) % 65535 = (256 * (s + b)) % 65535
  BY SMT
<1>2. 256 * (s + 256 * b) = 256 * s + b + 65535 * b
  BY SMT
<1>3. (t + 1 * b) % 65535 = (256 * s + b) % 65535
  BY SMT
<1>4. (256 * s + b + 65535 * b) % 65535 = (256 * s + b) % 65535
  BY SMT
<1> QED
  BY <1>1, <1>2, <1>3, <1>4, SMT

\* The sums in the two orders of bytes: one is 256 times the other.
LEMMA SwappedSum ==
  ASSUME NEW bytes \in Seq(Int)
  PROVE  NetworkSum(bytes) % 65535 = (256 * MachineSum(bytes)) % 65535
<1> DEFINE s == WeightedSums(bytes, 1, 256)
           t == WeightedSums(bytes, 256, 1)
           L == Len(bytes)
<1>1. /\ L \in Nat /\ \A n \in 0 .. L : s[n] \in Int
      /\ s[0] = 0
      /\ \A n \in 1 .. L : /\ n % 2 = 1 => s[n] = s[n - 1] + bytes[n]
                           /\ n % 2 # 1 => s[n] = s[n - 1] + 256 * bytes[n]
  BY MachineSumsFacts
<1>2. /\ \A n \in 0 .. L : t[n] \in Int
      /\ t[0] = 0
      /\ \A n \in 1 .. L : /\ bytes[n] \in Int
                           /\ n % 2 = 1 => t[n] = t[n - 1] + 256 * bytes[n]
                           /\ n % 2 # 1 => t[n] = t[n - 1] + 1 * bytes[n]
  BY WeightedSumsFacts, 1 \in Int, 256 \in Int
<1> HIDE DEF s, t, L
<1> DEFINE T == {n \in 0 .. L : t[n] % 65535 = (256 * s[n]) % 65535}
<1>3. 0 \in T
  BY <1>1, <1>2, SMT
<1>4. ASSUME NEW n \in 1 .. L, n - 1 \in T PROVE n \in T
  <2> DEFINE s0 == s[n - 1]
             t0 == t[n - 1]
             b == bytes[n]
  <2>1. s0 \in Int /\ t0 \in Int /\ b \in Int /\ t0 % 65535 = (256 * s0) % 65535 /\ n \in 0 .. L
    BY <1>1, <1>2, <1>4, SMT
  <2>2. \/ s[n] = s0 + b /\ t[n] = t0 + 256 * b
        \/ s[n] = s0 + 256 * b /\ t[n] = t0 + 1 * b
    BY <1>1, <1>2, SMT
  <2> HIDE DEF s0, t0, b
  <2>3. /\ (t0 + 256 * b) % 65535 = (256 * (s0 + b)) % 65535
        /\ (t0 + 1 * b) % 65535 = (256 * (s0 + 256 * b)) % 65535
    BY <2>1, SwappedStep, SMT
  <2>4. t[n] % 65535 = (256 * s[n]) % 65535
    <3>1. CASE s[n] = s0 + b /\ t[n] = t0 + 256 * b
      BY <2>3, <3>1, SMT
    <3>2. CASE s[n] = s0 + 256 * b /\ t[n] = t0 + 1 * b
      BY <2>3, <3>2, SMT
    <3> QED
      BY <2>2, <3>1, <3>2, SMT
  <2> QED
    BY <2>1, <2>4, SMT
<1> HIDE DEF T
<1>5. \A n \in 0 .. L : n \in T
  BY <1>1, <1>3, <1>4, BoundedInduction
<1>6. L \in T
  BY <1>1, <1>5
<1> QED
  BY <1>6, SMT DEF T, NetworkSum, MachineSum, WeightedSum, s, t, L

\* The sum of two pieces one after the other, the first of whole words.
LEMMA ConcatSum ==
  ASSUME NEW a \in Seq(Int), NEW b \in Seq(Int), Len(a) % 2 = 0
  PROVE  MachineSum(a \o b) = MachineSum(a) + MachineSum(b)
<1> DEFINE c == a \o b
           r == WeightedSums(a, 1, 256)
           s == WeightedSums(b, 1, 256)
           t == WeightedSums(c, 1, 256)
           L == Len(a)
           M == Len(b)
<1>1. c \in Seq(Int) /\ L \in Nat /\ M \in Nat /\ L % 2 = 0 /\ Len(c) = L + M
  OBVIOUS
<1>2. \A n \in 1 .. L : c[n] = a[n]
  <2>1. \A n \in 1 .. Len(a) : (a \o b)[n] = a[n]
    OBVIOUS
  <2> QED
    BY <2>1
<1>3. \A n \in 1 .. M : c[L + n] = b[n] /\ b[n] \in Int
  OBVIOUS
<1>4. /\ r[0] = 0 /\ \A n \in 0 .. L : r[n] \in Int
      /\ \A n \in 1 .. L : /\ n % 2 = 1 => r[n] = r[n - 1] + a[n]
                           /\ n % 2 # 1 => r[n] = r[n - 1] + 256 * a[n]
  BY MachineSumsFacts
<1>5. /\ s[0] = 0 /\ \A n \in 0 .. M : s[n] \in Int
      /\ \A n \in 1 .. M : /\ n % 2 = 1 => s[n] = s[n - 1] + b[n]
                           /\ n % 2 # 1 => s[n] = s[n - 1] + 256 * b[n]
  BY MachineSumsFacts
<1>6. /\ t[0] = 0 /\ \A n \in 0 .. Len(c) : t[n] \in Int
      /\ \A n \in 1 .. Len(c) : /\ n % 2 = 1 => t[n] = t[n - 1] + c[n]
                                /\ n % 2 # 1 => t[n] = t[n - 1] + 256 * c[n]
  <2>1. c \in Seq(Int)
    BY <1>1
  <2> HIDE DEF c
  <2> QED
    BY <2>1, MachineSumsFacts
<1> HIDE DEF c, r, s, t, L, M
<1> DEFINE T == {n \in 0 .. L : t[n] = r[n]}
<1>7. 0 \in T
  BY <1>1, <1>4, <1>6
<1>8. ASSUME NEW n \in 1 .. L, n - 1 \in T PROVE n \in T
  <2>1. n \in 0 .. L /\ n \in 1 .. Len(c) /\ t[n - 1] = r[n - 1] /\ c[n] = a[n]
    BY <1>1, <1>2, <1>8
  <2>2. CASE n % 2 = 1
    <3>1. t[n] = t[n - 1] + c[n] /\ r[n] = r[n - 1] + a[n]
      BY <1>4, <1>6, <2>1, <2>2
    <3> QED
      BY <2>1, <3>1
  <2>3. CASE n % 2 # 1
    <3>1. t[n] = t[n - 1] + 256 * c[n] /\ r[n] = r[n - 1] + 256 * a[n]
      BY <1>4, <1>6, <2>1, <2>3
    <3> QED
      BY <2>1, <3>1
  <2> QED
    BY <2>2, <2>3
<1> HIDE DEF T
<1>9. \A n \in 0 .. L : n \in T
  BY <1>1, <1>7, <1>8, BoundedInduction
<1>10. t[L] = r[L]
  <2>1. L \in T
    BY <1>1, <1>9
  <2> QED
    BY <2>1 DEF T
<1> DEFINE U == {n \in 0 .. M : t[L + n] = r[L] + s[n]}
<1>11. 0 \in U
  <2>1. L + 0 = L /\ 0 \in 0 .. M /\ L \in 0 .. L
    BY <1>1
  <2>2. r[L] \in Int
    BY <1>4, <2>1
  <2> QED
    BY <1>5, <1>10, <2>1, <2>2
<1>12. ASSUME NEW n \in 1 .. M, n - 1 \in U PROVE n \in U
  <2> DEFINE s0 == s[n - 1]
             t0 == t[L + n - 1]
             x == c[L + n]
  <2>1. n \in 0 .. M /\ t0 = r[L] + s0 /\ x = b[n] /\ x \in Int
    <3>1. L + (n - 1) = L + n - 1
      BY <1>1
    <3> QED
      BY <1>1, <1>3, <1>12, <3>1
  <2>2. s0 \in Int /\ r[L] \in Int
    BY <1>1, <1>4, <1>5
  <2> DEFINE k == L + n
  <2>5. k \in 1 .. Len(c) /\ k % 2 = n % 2 /\ k - 1 = L + n - 1
    <3>1. L \in Nat /\ M \in Nat /\ L % 2 = 0 /\ Len(c) = L + M /\ n \in 1 .. M
      BY <1>1
    <3>2. k \in 1 .. Len(c)
      BY <3>1
    <3>3. k % 2 = n % 2
      BY <3>1, SMTT(30)
    <3> QED
      BY <3>1, <3>2, <3>3
  <2> HIDE DEF k
  <2>3. CASE n % 2 = 1
    <3>1. t[k] = t[k - 1] + c[k] /\ s[n] = s0 + b[n]
      BY <1>5, <1>6, <2>5, <2>3, SMTT(30)
    <3>2. t[k - 1] = t0 /\ c[k] = x
      BY <2>5 DEF k
    <3> HIDE DEF s0, t0, x
    <3>3. t[k] = r[L] + s[n]
      <4> DEFINE r0 == r[L]
      <4>1. r0 \in Int /\ s0 \in Int /\ x \in Int /\ t0 = r0 + s0 /\ b[n] = x
        BY <2>1, <2>2
      <4> HIDE DEF r0
      <4>2. t[k] = r0 + s[n]
        BY <3>1, <3>2, <4>1
      <4> QED
        BY <4>2 DEF r0
    <3> QED
      BY <2>1, <3>3 DEF k
  <2>4. CASE n % 2 # 1
    <3>1. t[k] = t[k - 1] + 256 * c[k] /\ s[n] = s0 + 256 * b[n]
      BY <1>5, <1>6, <2>5, <2>4, SMTT(30)
    <3>2. t[k - 1] = t0 /\ c[k] = x
      BY <2>5 DEF k
    <3> HIDE DEF s0, t0, x
    <3>3. t[k] = r[L] + s[n]
      <4> DEFINE r0 == r[L]
      <4>1. r0 \in Int /\ s0 \in Int /\ x \in Int /\ t0 = r0 + s0 /\ b[n] = x
        BY <2>1, <2>2
      <4> HIDE DEF r0
      <4>2. t[k] = r0 + s[n]
        BY <3>1, <3>2, <4>1
      <4> QED
        BY <4>2 DEF r0
    <3> QED
      BY <2>1, <3>3 DEF k
  <2> QED
    BY <2>3, <2>4
<1> HIDE DEF U
<1>13. \A n \in 0 .. M : n \in U
  BY <1>1, <1>11, <1>12, BoundedInduction
<1>14. t[L + M] = r[L] + s[M]
  <2>1. M \in U
    BY <1>1, <1>13
  <2> QED
    BY <2>1 DEF U
<1> QED
  BY <1>1, <1>14 DEF MachineSum, WeightedSum, r, s, t, c, L, M

\* The sums of bytes in the order of the machine, and that of one word.
Summed(b, s) ==
  /\ s[0] = 0
  /\ \A n \in 1 .. Len(b) : /\ n % 2 = 1 => s[n] = s[n - 1] + b[n]
                            /\ n % 2 # 1 => s[n] = s[n - 1] + 256 * b[n]

LEMMA MachineSummed ==
  ASSUME NEW b \in Seq(Int)
  PROVE  Summed(b, WeightedSums(b, 1, 256))
BY MachineSumsFacts DEF Summed

LEMMA WordSum ==
  ASSUME NEW x \in Int, NEW y \in Int
  PROVE  MachineSum(<<x, y>>) = x + 256 * y
<1> DEFINE b == <<x, y>>
           s == WeightedSums(b, 1, 256)
<1>1. b \in Seq(Int) /\ Len(b) = 2 /\ b[1] = x /\ b[2] = y
  OBVIOUS
<1> HIDE DEF b
<1>0. b \in Seq(Int)
  BY <1>1
<1>2. Summed(b, s)
  BY <1>0, MachineSummed, Zenon
<1> HIDE DEF s
<1>3. 1 \in 1 .. 2 /\ 2 \in 1 .. 2 /\ 1 % 2 = 1 /\ 2 % 2 # 1 /\ 1 - 1 = 0 /\ 2 - 1 = 1
  OBVIOUS
<1>4. s[1] = x
  BY <1>1, <1>2, <1>3 DEF Summed
<1>5. s[2] = x + 256 * y
  BY <1>1, <1>2, <1>3, <1>4 DEF Summed
<1> QED
  BY <1>1, <1>5 DEF MachineSum, WeightedSum, s, b

-----------------------------------------------------------------------------
(* The frames that sendRawUdp builds.                                      *)

\* c is a and b one after the other.
Joined(c, a, b) ==
  /\ c \in Seq(Nat) /\ Len(c) = Len(a) + Len(b)
  /\ \A i \in 1 .. Len(a) : c[i] = a[i]
  /\ \A i \in 1 .. Len(b) : c[Len(a) + i] = b[i]

\* The concatenation of two pieces, byte by byte.
LEMMA ConcatJoins ==
  ASSUME NEW a \in Seq(Nat), NEW b \in Seq(Nat)
  PROVE  Joined(a \o b, a, b)
<1>1. a \o b \in Seq(Nat) /\ Len(a \o b) = Len(a) + Len(b)
  OBVIOUS
<1>2. \A i \in 1 .. Len(a) : (a \o b)[i] = a[i]
  OBVIOUS
<1>3. \A i \in 1 .. Len(b) : (a \o b)[Len(a) + i] = b[i]
  OBVIOUS
<1> QED
  BY <1>1, <1>2, <1>3, Zenon DEF Joined

\* The sum of a header and what follows it, as a sum of unsigned words.
LEMMA ConcatSums ==
  ASSUME NEW a \in Seq(Nat), NEW b \in Seq(Nat), Len(a) % 2 = 0
  PROVE  /\ MachineSum(a \o b) = MachineSum(a) + MachineSum(b)
         /\ MachineSum(a) \in Nat /\ MachineSum(b) \in Nat
<1>1. a \in Seq(Int) /\ b \in Seq(Int)
  OBVIOUS
<1>2. MachineSum(a \o b) = MachineSum(a) + MachineSum(b)
  BY <1>1, ConcatSum
<1>3. MachineSum(a) \in Nat /\ MachineSum(b) \in Nat
  BY 0 \in Nat, AddChecksumValue
<1> QED
  BY <1>2, <1>3

\* A field of a frame is found where its bytes were put.
LEMMA CutOut ==
  ASSUME NEW m \in Nat, NEW n \in Nat, NEW a \in Seq(Nat), NEW b \in Seq(Nat),
         Len(b) = n, n >= 1, m + n <= Len(a), \A i \in 1 .. n : a[m + i] = b[i]
  PROVE  SubSeq(a, m + 1, m + n) = b
<1> DEFINE s == SubSeq(a, m + 1, m + n)
<1>2. s \in Seq(Nat) /\ Len(s) = n
  OBVIOUS
<1>3. \A i \in 1 .. n : s[i] = a[m + i]
  OBVIOUS
<1> HIDE DEF s
<1>4. \A i \in 1 .. n : s[i] = b[i]
  BY <1>3
<1>5. s = b
  BY <1>2, <1>4
<1> QED
  BY <1>5 DEF s

\* htons and a stored checksum make two bytes; the stored ones sum to the checksum.
LEMMA WordFacts ==
  ASSUME NEW n \in Nat
  PROVE  /\ Word(n) \in Seq(Nat) /\ Len(Word(n)) = 2
         /\ Stored(n) \in Seq(Nat) /\ Len(Stored(n)) = 2
         /\ MachineSum(Stored(n)) = n
<1> DEFINE x == n % 256
           y == n \div 256
<1>1. x \in Nat /\ y \in Nat /\ x + 256 * y = n
  OBVIOUS
<1> HIDE DEF x, y
<1>2. Stored(n) = <<x, y>> /\ Word(n) = <<y, x>>
  BY DEF Stored, Word, x, y
<1>3. MachineSum(<<x, y>>) = n
  BY <1>1, WordSum
<1>4. /\ <<x, y>> \in Seq(Nat) /\ Len(<<x, y>>) = 2
      /\ <<y, x>> \in Seq(Nat) /\ Len(<<y, x>>) = 2
  BY <1>1
<1> QED
  BY <1>2, <1>3, <1>4

\* The pieces of the IP header one after the other.
LEMMA IpHeaderPieces ==
  ASSUME NEW source, NEW destination, NEW size \in Nat
  PROVE  \E b \in Seq(Nat) :
           /\ Len(b) = 10 /\ b[1] = 69 /\ b[10] = IPPROTO_UDP
           /\ \A i \in 1 .. 2 : b[2 + i] = Word(size)[i]
           /\ \A check \in Nat :
                IpHeader(source, destination, size, check)
                  = b \o Stored(check) \o source \o destination
<1> DEFINE w == Word(size)
           f == <<69, 0>>
           a == f \o w
           rest == <<0, 0, 0, 0, IPDEFTTL, IPPROTO_UDP>>
           b == a \o rest
<1>1. w \in Seq(Nat) /\ Len(w) = 2
  BY WordFacts
<1>2. f \in Seq(Nat) /\ Len(f) = 2 /\ f[1] = 69
  OBVIOUS
<1>3. rest \in Seq(Nat) /\ Len(rest) = 6 /\ rest[6] = IPPROTO_UDP
  BY DEF IPDEFTTL, IPPROTO_UDP
<1>4. \A check \in Nat :
        IpHeader(source, destination, size, check) = b \o Stored(check) \o source \o destination
  BY DEF IpHeader
<1> HIDE DEF w, f, rest
<1>5. Joined(a, f, w)
  BY <1>1, <1>2, ConcatJoins
<1> HIDE DEF a
<1>6. a \in Seq(Nat) /\ Len(a) = 4
  BY <1>1, <1>2, <1>5 DEF Joined
<1>7. Joined(b, a, rest)
  BY <1>3, <1>6, ConcatJoins
<1> HIDE DEF b
<1>8. b \in Seq(Nat) /\ Len(b) = 10
  BY <1>3, <1>6, <1>7 DEF Joined
<1>9. b[1] = 69
  <2>1. a[1] = 69
    BY <1>1, <1>2, <1>5 DEF Joined
  <2> QED
    BY <1>6, <1>7, <2>1 DEF Joined
<1>10. b[10] = IPPROTO_UDP
  <2>1. b[4 + 6] = rest[6]
    BY <1>3, <1>6, <1>7 DEF Joined
  <2> QED
    BY <1>3, <2>1
<1>11. ASSUME NEW i \in 1 .. 2 PROVE b[2 + i] = w[i]
  <2>1. a[2 + i] = w[i]
    BY <1>1, <1>2, <1>5 DEF Joined
  <2>2. b[2 + i] = a[2 + i]
    BY <1>6, <1>7 DEF Joined
  <2> QED
    BY <2>1, <2>2
<1> QED
  BY <1>4, <1>8, <1>9, <1>10, <1>11 DEF w

\* An IP header: its length and its fields.
IsIpHeader(h, source, destination, size) ==
  /\ h \in Seq(Nat) /\ Len(h) = 20 /\ h[1] = 69 /\ h[10] = IPPROTO_UDP
  /\ SubSeq(h, 3, 4) = Word(size)
  /\ SubSeq(h, 13, 20) = source \o destination

\* The IP header that sendRawUdp builds has its fields in their places.
LEMMA IpHeaderFacts ==
  ASSUME NEW source \in Seq(Nat), NEW destination \in Seq(Nat),
         Len(source) = 4, Len(destination) = 4, NEW size \in Nat, NEW check \in Nat
  PROVE  IsIpHeader(IpHeader(source, destination, size, check), source, destination, size)
<1>1. PICK b \in Seq(Nat) :
           /\ Len(b) = 10 /\ b[1] = 69 /\ b[10] = IPPROTO_UDP
           /\ \A i \in 1 .. 2 : b[2 + i] = Word(size)[i]
           /\ \A n \in Nat :
                IpHeader(source, destination, size, n) = b \o Stored(n) \o source \o destination
  BY IpHeaderPieces
<1> DEFINE w == Stored(check)
           c == b \o w
           d == c \o source
           h == d \o destination
<1>2. w \in Seq(Nat) /\ Len(w) = 2
  BY WordFacts
<1> HIDE DEF w
<1>3. Joined(c, b, w)
  BY <1>1, <1>2, ConcatJoins
<1> HIDE DEF c
<1>4. c \in Seq(Nat) /\ Len(c) = 12 /\ \A i \in 1 .. 10 : c[i] = b[i]
  BY <1>1, <1>2, <1>3 DEF Joined
<1>5. Joined(d, c, source)
  BY <1>4, ConcatJoins
<1> HIDE DEF d
<1>6. d \in Seq(Nat) /\ Len(d) = 16
      /\ (\A i \in 1 .. 12 : d[i] = c[i]) /\ (\A i \in 1 .. 4 : d[12 + i] = source[i])
  BY <1>4, <1>5 DEF Joined
<1>7. Joined(h, d, destination)
  BY <1>6, ConcatJoins
<1> HIDE DEF h
<1>8. h \in Seq(Nat) /\ Len(h) = 20
      /\ (\A i \in 1 .. 16 : h[i] = d[i]) /\ (\A i \in 1 .. 4 : h[16 + i] = destination[i])
  BY <1>6, <1>7 DEF Joined
<1>9. \A i \in 1 .. 10 : h[i] = b[i]
  <2> SUFFICES ASSUME NEW i \in 1 .. 10 PROVE h[i] = b[i]
    OBVIOUS
  <2>1. i \in 1 .. 12 /\ i \in 1 .. 16
    OBVIOUS
  <2>2. h[i] = d[i] /\ d[i] = c[i] /\ c[i] = b[i]
    BY <1>4, <1>6, <1>8, <2>1
  <2> QED
    BY <2>2
<1>10. h[1] = 69 /\ h[10] = IPPROTO_UDP
  BY <1>1, <1>9
<1>11. SubSeq(h, 3, 4) = Word(size)
  <2>1. ASSUME NEW i \in 1 .. 2 PROVE h[2 + i] = Word(size)[i]
    <3>1. 2 + i \in 1 .. 10
      OBVIOUS
    <3> QED
      BY <1>1, <1>9, <3>1
  <2>2. Word(size) \in Seq(Nat) /\ Len(Word(size)) = 2
    BY WordFacts
  <2>3. SubSeq(h, 2 + 1, 2 + 2) = Word(size)
    BY <1>8, <2>1, <2>2, CutOut
  <2> QED
    BY <2>3
<1>12. SubSeq(h, 13, 20) = source \o destination
  <2> DEFINE t == source \o destination
  <2>1. Joined(t, source, destination)
    BY ConcatJoins
  <2> HIDE DEF t
  <2>2. t \in Seq(Nat) /\ Len(t) = 8
        /\ (\A i \in 1 .. 4 : t[i] = source[i]) /\ (\A i \in 1 .. 4 : t[4 + i] = destination[i])
    BY <2>1 DEF Joined
  <2>3. ASSUME NEW i \in 1 .. 8 PROVE h[12 + i] = t[i]
    <3>1. CASE i \in 1 .. 4
      <4>1. 12 + i \in 1 .. 16
        BY <3>1
      <4>2. h[12 + i] = d[12 + i] /\ d[12 + i] = source[i] /\ t[i] = source[i]
        BY <1>6, <1>8, <2>2, <3>1, <4>1
      <4> QED
        BY <4>2
    <3>2. CASE i \notin 1 .. 4
      <4>1. PICK j \in 1 .. 4 : i = 4 + j /\ 12 + i = 16 + j
        BY <3>2, i - 4 \in 1 .. 4
      <4> QED
        BY <1>8, <2>2, <4>1, ZenonT(60)
    <3> QED
      BY <3>1, <3>2
  <2>4. SubSeq(h, 12 + 1, 12 + 8) = t
    BY <1>8, <2>2, <2>3, CutOut
  <2>5. SubSeq(h, 13, 20) = t
    BY <2>4
  <2> QED
    BY <2>5 DEF t
<1>13. IpHeader(source, destination, size, check) = h
  BY <1>1 DEF h, d, c, w
<1> QED
  BY <1>8, <1>10, <1>11, <1>12, <1>13 DEF IsIpHeader

\* Storing the checksum adds just it to the header's sum.
LEMMA IpHeaderSum ==
  ASSUME NEW source \in Seq(Nat), NEW destination \in Seq(Nat),
         Len(source) = 4, Len(destination) = 4, NEW size \in Nat, NEW check \in Nat
  PROVE  /\ MachineSum(IpHeader(source, destination, size, 0)) \in Nat
         /\ MachineSum(IpHeader(source, destination, size, check))
              = MachineSum(IpHeader(source, destination, size, 0)) + check
<1>1. PICK b \in Seq(Nat) :
           /\ Len(b) = 10
           /\ \A n \in Nat :
                IpHeader(source, destination, size, n) = b \o Stored(n) \o source \o destination
  BY IpHeaderPieces, ZenonT(60)
<1> DEFINE mb == MachineSum(b)
           ms == MachineSum(source)
           md == MachineSum(destination)
<1>2. ASSUME NEW n \in Nat
      PROVE  /\ mb \in Nat /\ ms \in Nat /\ md \in Nat
             /\ MachineSum(b \o Stored(n) \o source \o destination) = (mb + ms + md) + n
  <2> DEFINE w == Stored(n)
             c == b \o w
             d == c \o source
             h == d \o destination
  <2>1. w \in Seq(Nat) /\ Len(w) = 2 /\ MachineSum(w) = n
    BY WordFacts
  <2> HIDE DEF w
  <2>2. MachineSum(c) = mb + n /\ mb \in Nat
    BY <1>1, <2>1, 10 % 2 = 0, ConcatSums
  <2>3. Joined(c, b, w)
    BY <1>1, <2>1, ConcatJoins
  <2> HIDE DEF c, mb
  <2>4. c \in Seq(Nat) /\ Len(c) = 12 /\ Len(c) % 2 = 0
    BY <1>1, <2>1, <2>3 DEF Joined
  <2>5. MachineSum(d) = MachineSum(c) + ms /\ ms \in Nat
    BY <2>4, ConcatSums
  <2>6. Joined(d, c, source)
    BY <2>4, ConcatJoins
  <2> HIDE DEF d, ms
  <2>7. d \in Seq(Nat) /\ Len(d) = 16 /\ Len(d) % 2 = 0
    BY <2>4, <2>6 DEF Joined
  <2>8. MachineSum(h) = MachineSum(d) + md /\ md \in Nat
    BY <2>7, ConcatSums
  <2> HIDE DEF h, md
  <2>9. MachineSum(h) = (mb + ms + md) + n
    BY <2>2, <2>5, <2>8
  <2> QED
    BY <2>2, <2>5, <2>8, <2>9 DEF h, d, c, w
<1> DEFINE base == mb + ms + md
<1>3. base \in Nat
  <2>1. mb \in Nat /\ ms \in Nat /\ md \in Nat
    BY <1>2, 0 \in Nat
  <2> HIDE DEF mb, ms, md
  <2> QED
    BY <2>1
<1>4. \A n \in Nat : MachineSum(IpHeader(source, destination, size, n)) = base + n
  BY <1>1, <1>2
<1> HIDE DEF base
<1>5. /\ MachineSum(IpHeader(source, destination, size, 0)) = base + 0
      /\ MachineSum(IpHeader(source, destination, size, check)) = base + check
  BY <1>4, 0 \in Nat
<1> QED
  BY <1>3, <1>5

\* A UDP header: its length, its port and its size.
IsUdpHeader(u, dp, size) ==
  /\ u \in Seq(Nat) /\ Len(u) = 8
  /\ SubSeq(u, 3, 4) = Word(dp) /\ SubSeq(u, 5, 6) = Word(size)

\* The UDP header that sendRawUdp builds has its fields in their places, and
\* storing the checksum adds just it to the sum.
LEMMA UdpHeaderFacts ==
  ASSUME NEW sp \in Nat, NEW dp \in Nat, NEW size \in Nat, NEW check \in Nat
  PROVE  /\ IsUdpHeader(UdpHeader(sp, dp, size, check), dp, size)
         /\ MachineSum(UdpHeader(sp, dp, size, 0)) \in Nat
         /\ MachineSum(UdpHeader(sp, dp, size, check))
              = MachineSum(UdpHeader(sp, dp, size, 0)) + check
<1> DEFINE s == Word(sp)
           p == Word(dp)
           z == Word(size)
           a == s \o p
           b == a \o z
<1>1. /\ s \in Seq(Nat) /\ Len(s) = 2
      /\ p \in Seq(Nat) /\ Len(p) = 2
      /\ z \in Seq(Nat) /\ Len(z) = 2
  BY WordFacts
<1> HIDE DEF s, p, z
<1>2. Joined(a, s, p)
  BY <1>1, ConcatJoins
<1> HIDE DEF a
<1>3. /\ a \in Seq(Nat) /\ Len(a) = 4
      /\ \A i \in 1 .. 2 : a[2 + i] = p[i]
  BY <1>1, <1>2 DEF Joined
<1>4. Joined(b, a, z)
  BY <1>1, <1>3, ConcatJoins
<1> HIDE DEF b
<1>5. /\ b \in Seq(Nat) /\ Len(b) = 6 /\ Len(b) % 2 = 0
      /\ \A i \in 1 .. 4 : b[i] = a[i]
      /\ \A i \in 1 .. 2 : b[4 + i] = z[i]
  BY <1>1, <1>3, <1>4 DEF Joined
<1>6. \A n \in Nat : UdpHeader(sp, dp, size, n) = b \o Stored(n)
  BY DEF UdpHeader, b, a, s, p, z
<1>7. ASSUME NEW n \in Nat
      PROVE  /\ IsUdpHeader(UdpHeader(sp, dp, size, n), dp, size)
             /\ MachineSum(UdpHeader(sp, dp, size, n)) = MachineSum(b) + n
             /\ MachineSum(b) \in Nat
  <2> DEFINE w == Stored(n)
             u == b \o w
  <2>1. w \in Seq(Nat) /\ Len(w) = 2 /\ MachineSum(w) = n
    BY WordFacts
  <2> HIDE DEF w
  <2>2. MachineSum(u) = MachineSum(b) + n /\ MachineSum(b) \in Nat
    BY <1>5, <2>1, ConcatSums
  <2>3. Joined(u, b, w)
    BY <1>5, <2>1, ConcatJoins
  <2> HIDE DEF u
  <2>4. u \in Seq(Nat) /\ Len(u) = 8 /\ \A i \in 1 .. 6 : u[i] = b[i]
    BY <1>5, <2>1, <2>3 DEF Joined
  <2>5. SubSeq(u, 3, 4) = p
    <3>1. ASSUME NEW i \in 1 .. 2 PROVE u[2 + i] = p[i]
      <4>1. 2 + i \in 1 .. 6 /\ 2 + i \in 1 .. 4
        OBVIOUS
      <4> QED
        BY <1>3, <1>5, <2>4, <4>1
    <3>2. SubSeq(u, 2 + 1, 2 + 2) = p
      BY <1>1, <2>4, <3>1, CutOut
    <3> QED
      BY <3>2
  <2>6. SubSeq(u, 5, 6) = z
    <3>1. ASSUME NEW i \in 1 .. 2 PROVE u[4 + i] = z[i]
      <4>1. 4 + i \in 1 .. 6
        OBVIOUS
      <4> QED
        BY <1>5, <2>4, <4>1
    <3>2. SubSeq(u, 4 + 1, 4 + 2) = z
      BY <1>1, <2>4, <3>1, CutOut
    <3> QED
      BY <3>2
  <2>7. UdpHeader(sp, dp, size, n) = u
    BY <1>6 DEF u, w
  <2> QED
    BY <2>2, <2>4, <2>5, <2>6, <2>7 DEF IsUdpHeader, p, z
<1>8. /\ MachineSum(b) \in Nat
      /\ MachineSum(UdpHeader(sp, dp, size, 0)) = MachineSum(b) + 0
      /\ MachineSum(UdpHeader(sp, dp, size, check)) = MachineSum(b) + check
  BY <1>7, 0 \in Nat
<1>9. /\ MachineSum(UdpHeader(sp, dp, size, 0)) \in Nat
      /\ MachineSum(UdpHeader(sp, dp, size, check))
              = MachineSum(UdpHeader(sp, dp, size, 0)) + check
  BY <1>8
<1> QED
  BY <1>7, <1>9

\* A checksum of 16 bits that stands for the sum m.
Sums(c, m) == c \in Nat /\ c < 65536 /\ m \in Nat /\ c % 65535 = m % 65535

\* A receiver that adds the words of bytes finds no error.
Checks(bytes) == NetworkSum(bytes) % 65535 = 0

\* sendRawUdp starts each checksum at 0.
LEMMA SumsStart == Sums(0, 0)
BY SMT DEF Sums

\* addChecksum keeps a checksum standing for the sum of what was added.
LEMMA SumsNext ==
  ASSUME NEW bytes \in Seq(Nat), NEW c, NEW m, Sums(c, m)
  PROVE  MachineSum(bytes) \in Nat /\ Sums(AddChecksum(bytes, c), m + MachineSum(bytes))
<1> DEFINE a == AddChecksum(bytes, c)
           s == MachineSum(bytes)
<1>1. c \in Nat /\ m \in Nat /\ c % 65535 = m % 65535
  BY SMT DEF Sums
<1>2. s \in Nat /\ a \in Nat /\ a < 65536 /\ a % 65535 = (c + s) % 65535
  <2> HIDE DEF a, s
  <2>1. c \in Nat
    BY <1>1
  <2> QED
    BY <2>1, AddChecksumValue DEF a, s
<1> HIDE DEF a, s
<1>3. (c + s) % 65535 = (m + s) % 65535
  BY <1>1, <1>2, SMT
<1>4. m + s \in Nat
  BY <1>1, <1>2, SMT
<1>5. Sums(a, m + s)
  BY <1>2, <1>3, <1>4, SMT DEF Sums
<1> QED
  BY <1>2, <1>5, SMT DEF a, s

\* The complement that finishChecksum stores makes the whole sum check.
LEMMA SumsEnd ==
  ASSUME NEW a, NEW m, Sums(a, m), NEW bytes \in Seq(Nat),
         MachineSum(bytes) = m + FinishChecksum(a)
  PROVE  Checks(bytes)
<1> DEFINE t == MachineSum(bytes)
<1>1. a \in Nat /\ m \in Nat /\ a < 65536 /\ a % 65535 = m % 65535 /\ t = m + (65535 - a)
  BY SMT DEF Sums, FinishChecksum
<1> HIDE DEF t
<1>2. t \in Int /\ t % 65535 = 0
  BY <1>1, SMT
<1>3. (256 * t) % 65535 = 0
  BY <1>2, SMT
<1>4. bytes \in Seq(Int)
  OBVIOUS
<1>5. NetworkSum(bytes) % 65535 = (256 * t) % 65535
  BY <1>4, SwappedSum DEF t
<1> QED
  BY <1>3, <1>5, SMT DEF Checks

\* finishChecksum gives a number that can be stored.
LEMMA FinishNat ==
  ASSUME NEW a, NEW m, Sums(a, m)
  PROVE  FinishChecksum(a) \in Nat
BY SMT DEF Sums, FinishChecksum

\* A frame with a message for a port that verifies.
Delivers(f, dp, message) ==
  /\ f = [ip |-> f.ip, udp |-> f.udp, data |-> f.data] /\ f.data = message
  /\ f.ip \in Seq(Nat) /\ Len(f.ip) = 20
  /\ f.udp \in Seq(Nat) /\ Len(f.udp) = 8 /\ SubSeq(f.udp, 3, 4) = Word(dp)
  /\ Verifies(f)

\* The frame of sendRawUdp does.
LEMMA RawFrameDelivers ==
  ASSUME NEW source \in Seq(Nat), NEW destination \in Seq(Nat),
         Len(source) = 4, Len(destination) = 4, NEW sp \in Nat, NEW dp \in Nat,
         NEW message \in Seq(Nat)
  PROVE  Delivers(RawFrame(source, sp, destination, dp, message), dp, message)
<1> DEFINE f == RawFrame(source, sp, destination, dp, message)
           long == 28 + Len(message)
           size == 8 + Len(message)
           w == Word(size)
           proto == Word(IPPROTO_UDP)
           ip(n) == IpHeader(source, destination, long, n)
           udp(n) == UdpHeader(sp, dp, size, n)
           i0 == ip(0)
           u0 == udp(0)
           a == AddChecksum(i0, 0)
           p1 == AddChecksum(source, 0)
           p2 == AddChecksum(destination, p1)
           p3 == AddChecksum(proto, p2)
           p4 == AddChecksum(w, p3)
           p5 == AddChecksum(u0, p4)
           p6 == AddChecksum(message, p5)
<1>1. size \in Nat /\ long \in Nat
  OBVIOUS
<1>2. f = [ip |-> ip(FinishChecksum(a)), udp |-> udp(FinishChecksum(p6)), data |-> message]
  BY DEF RawFrame
<1> HIDE DEF f, long, size
<1>3. \A n \in Nat : IsIpHeader(ip(n), source, destination, long)
  BY <1>1, IpHeaderFacts
<1>4. \A n \in Nat : MachineSum(ip(0)) \in Nat /\ MachineSum(ip(n)) = MachineSum(ip(0)) + n
  BY <1>1, IpHeaderSum
<1>5. \A n \in Nat : IsUdpHeader(udp(n), dp, size)
  BY <1>1, UdpHeaderFacts
<1>6. \A n \in Nat : MachineSum(udp(0)) \in Nat /\ MachineSum(udp(n)) = MachineSum(udp(0)) + n
  BY <1>1, UdpHeaderFacts, ZenonT(60)
<1>7. /\ proto \in Seq(Nat) /\ Len(proto) = 2
      /\ w \in Seq(Nat) /\ Len(w) = 2
  <2>1. IPPROTO_UDP \in Nat
    BY DEF IPPROTO_UDP
  <2> QED
    BY <1>1, <2>1, WordFacts
<1>8. proto = <<0, IPPROTO_UDP>>
  BY DEF Word, IPPROTO_UDP
<1> HIDE DEF ip, udp, w, proto
<1> DEFINE bi == MachineSum(i0)
           bu == MachineSum(u0)
<1>9. i0 \in Seq(Nat) /\ u0 \in Seq(Nat) /\ bi \in Nat /\ bu \in Nat
  BY <1>3, <1>4, <1>5, <1>6, 0 \in Nat DEF IsIpHeader, IsUdpHeader
<1> HIDE DEF i0, u0
<1> DEFINE ms == MachineSum(source)
           md == MachineSum(destination)
           mp == MachineSum(proto)
           mz == MachineSum(w)
           mm == MachineSum(message)
           m2 == (0 + ms) + md
           m3 == m2 + mp
           m4 == m3 + mz
           m5 == m4 + bu
           m6 == m5 + mm
           cu == FinishChecksum(p6)
           ci == FinishChecksum(a)
<1>10. Sums(a, 0 + MachineSum(i0))
  BY <1>9, SumsStart, SumsNext, Zenon
<1>11. Sums(p1, 0 + ms) /\ ms \in Nat
  BY SumsStart, SumsNext, Zenon
<1>12. Sums(p2, m2) /\ md \in Nat
  BY <1>11, SumsNext, Zenon
<1> HIDE DEF m2, p2, p1
<1>13. Sums(p3, m3) /\ mp \in Nat
  BY <1>7, <1>12, SumsNext, Zenon
<1> HIDE DEF m3, p3
<1>14. Sums(p4, m4) /\ mz \in Nat
  BY <1>7, <1>13, SumsNext, Zenon
<1> HIDE DEF m4, p4
<1>15. Sums(p5, m5)
  BY <1>9, <1>14, SumsNext, Zenon
<1> HIDE DEF m5, p5
<1>16. Sums(p6, m6) /\ mm \in Nat
  BY <1>15, SumsNext, Zenon
<1> HIDE DEF m6, p6, a
<1>17. ci \in Nat /\ cu \in Nat
  BY <1>10, <1>16, FinishNat, Zenon
<1>18. Checks(ip(ci))
  <2>1. ip(ci) \in Seq(Nat) /\ MachineSum(ip(ci)) = bi + ci
    BY <1>3, <1>4, <1>17 DEF i0, IsIpHeader
  <2>2. MachineSum(ip(ci)) = (0 + MachineSum(i0)) + FinishChecksum(a)
    BY <1>9, <2>1
  <2> QED
    BY <1>10, <2>1, <2>2, SumsEnd
<1> HIDE DEF cu, ci, ms, md, mp, mz, mm
<1> DEFINE g == source \o destination
           h == g \o proto
           i == h \o w
           j == i \o udp(cu)
           k == j \o message
<1>19. k \in Seq(Nat) /\ MachineSum(k) = m6 + cu
  <2>1. udp(cu) \in Seq(Nat) /\ Len(udp(cu)) = 8 /\ MachineSum(udp(cu)) = bu + cu
    BY <1>5, <1>6, <1>17 DEF u0, IsUdpHeader
  <2>2. Joined(g, source, destination)
    BY ConcatJoins
  <2>3. MachineSum(g) = ms + md
    BY ConcatSums, 4 % 2 = 0 DEF ms, md
  <2> HIDE DEF g
  <2>4. g \in Seq(Nat) /\ Len(g) = 8 /\ Len(g) % 2 = 0
    BY <2>2 DEF Joined
  <2>5. Joined(h, g, proto)
    BY <1>7, <2>4, ConcatJoins
  <2>6. MachineSum(h) = MachineSum(g) + mp
    BY <1>7, <2>4, ConcatSums DEF mp
  <2> HIDE DEF h
  <2>7. h \in Seq(Nat) /\ Len(h) = 10 /\ Len(h) % 2 = 0
    BY <1>7, <2>4, <2>5 DEF Joined
  <2>8. Joined(i, h, w)
    BY <1>7, <2>7, ConcatJoins
  <2>9. MachineSum(i) = MachineSum(h) + mz
    BY <1>7, <2>7, ConcatSums DEF mz
  <2> HIDE DEF i
  <2>10. i \in Seq(Nat) /\ Len(i) = 12 /\ Len(i) % 2 = 0
    BY <1>7, <2>7, <2>8 DEF Joined
  <2>11. Joined(j, i, udp(cu))
    BY <2>1, <2>10, ConcatJoins
  <2>12. MachineSum(j) = MachineSum(i) + (bu + cu)
    BY <2>1, <2>10, ConcatSums
  <2> HIDE DEF j
  <2>13. j \in Seq(Nat) /\ Len(j) = 20 /\ Len(j) % 2 = 0
    BY <2>1, <2>10, <2>11 DEF Joined
  <2>14. Joined(k, j, message)
    BY <2>13, ConcatJoins
  <2>15. MachineSum(k) = MachineSum(j) + mm
    BY <2>13, ConcatSums DEF mm
  <2> HIDE DEF k
  <2>16. k \in Seq(Nat)
    BY <2>14 DEF Joined
  <2>17. m6 = ((((0 + ms) + md) + mp) + mz + bu) + mm
    BY <1>9, <1>11, <1>12, <1>13, <1>14, <1>16 DEF m6, m5, m4, m3, m2
  <2> HIDE DEF bu
  <2>18. MachineSum(k) = m6 + cu
    BY <1>9, <1>11, <1>12, <1>13, <1>14, <1>16, <1>17, <2>3, <2>6, <2>9, <2>12, <2>15, <2>17
  <2> QED
    BY <2>16, <2>18
<1>20. Checks(k)
  <2> HIDE DEF k
  <2> QED
    BY <1>16, <1>19, SumsEnd DEF cu
<1>21. f.ip = ip(ci) /\ f.udp = udp(cu) /\ f.data = message
  BY <1>2 DEF cu, ci
<1>22. SubSeq(f.ip, 3, 4) = Word(long) /\ SubSeq(f.ip, 13, 20) = g /\ SubSeq(f.udp, 5, 6) = w
  BY <1>3, <1>5, <1>17, <1>21, ZenonT(60) DEF IsIpHeader, IsUdpHeader, w
<1>23. w = Word(8 + Len(f.data)) /\ Word(long) = Word(28 + Len(f.data))
  BY <1>21 DEF w, size, long
<1>24. SubSeq(f.ip, 13, 20) \o <<0, IPPROTO_UDP>> \o w \o f.udp \o f.data = k
  BY <1>8, <1>21, <1>22, Zenon
<1> HIDE DEF k, g
<1>25. /\ Checks(f.ip)
       /\ Checks(SubSeq(f.ip, 13, 20) \o <<0, IPPROTO_UDP>> \o w \o f.udp \o f.data)
  BY <1>18, <1>20, <1>21, <1>24, Zenon
<1>26. Verifies(f)
  BY <1>22, <1>23, <1>25, SMT DEF Verifies, Checks
<1>27. /\ f = [ip |-> f.ip, udp |-> f.udp, data |-> f.data] /\ f.data = message
       /\ f.ip \in Seq(Nat) /\ Len(f.ip) = 20
       /\ f.udp \in Seq(Nat) /\ Len(f.udp) = 8 /\ SubSeq(f.udp, 3, 4) = Word(dp)
  BY <1>2, <1>3, <1>5, <1>17, <1>21 DEF IsIpHeader, IsUdpHeader
<1> QED
  BY <1>26, <1>27 DEF Delivers, f

-----------------------------------------------------------------------------
(* Messages: the bytes, and the options one after the other.               *)

\* The messages that Message can hold, with the cookie before the options.
Messages ==
  {m \in [op : Nat, htype : Nat, hlen : Nat, xid : Nat, yiaddr : Address, options : Seq(Nat)] :
     Len(m.options) >= 4}

\* An address is four bytes.
LEMMA AddressFacts ==
  ASSUME NEW a \in Address
  PROVE  a \in Seq(Nat) /\ Len(a) = 4
<1>1. a \in Seq(Byte) /\ Len(a) = 4
  BY DEF Address
<1>2. Byte \subseteq Nat
  BY DEF Byte
<1>3. \A i \in 1 .. Len(a) : a[i] \in Byte
  <2>1. a \in Seq(Byte)
    BY <1>1
  <2> QED
    BY <2>1
<1>4. \A i \in 1 .. Len(a) : a[i] \in Nat
  BY <1>2, <1>3
<1>5. a = [i \in 1 .. Len(a) |-> a[i]] /\ Len(a) \in Nat
  BY <1>1
<1>6. [i \in 1 .. Len(a) |-> a[i]] \in Seq(Nat)
  BY <1>4, <1>5
<1> QED
  BY <1>1, <1>5, <1>6

\* INADDR_ANY is an address.
LEMMA ZeroAddress == Zero \in Address
BY DEF Address, Byte, Zero

\* INADDR_BROADCAST is an address.
LEMMA BroadcastAddress == Broadcast \in Address
BY DEF Address, Byte, Broadcast

\* The byte of the options at an offset; what recv did not fill is zero.
LEMMA AtFacts ==
  ASSUME NEW m \in Messages, NEW i \in Nat
  PROVE  At(m, i) \in Nat /\ (i < Len(m.options) => At(m, i) = m.options[i + 1])
BY DEF Messages, At

\* The value of an option has as many bytes as its length byte says.
LEMMA ValueAtFacts ==
  ASSUME NEW m \in Messages, NEW i \in Nat
  PROVE  /\ ValueAt(m, i) \in Seq(Nat) /\ Len(ValueAt(m, i)) = At(m, i + 1)
         /\ \A k \in 1 .. At(m, i + 1) : ValueAt(m, i)[k] = At(m, i + 1 + k)
<1> DEFINE n == At(m, i + 1)
<1>1. n \in Nat /\ \A k \in 1 .. n : At(m, i + 1 + k) \in Nat
  BY AtFacts, SMTT(30)
<1> HIDE DEF n
<1>2. ValueAt(m, i) = [k \in 1 .. n |-> At(m, i + 1 + k)]
  BY DEF ValueAt, n
<1>3. ValueAt(m, i) \in Seq(Nat) /\ Len(ValueAt(m, i)) = n
  BY <1>1, <1>2
<1>4. \A k \in 1 .. n : ValueAt(m, i)[k] = At(m, i + 1 + k)
  BY <1>2
<1> QED
  BY <1>3, <1>4 DEF n

\* getOption's loop ends, and one turn of it is what its body says: each turn
\* comes nearer to the end of the options.
LEMMA GetOptionStep ==
  ASSUME NEW m \in Messages, NEW code, NEW i \in Nat
  PROVE  GetOptionFrom(m, code)[i] =
           IF i + 2 >= Len(m.options) \/ At(m, i) = OPT_END THEN <<>>
           ELSE IF At(m, i) = code THEN ValueAt(m, i)
           ELSE GetOptionFrom(m, code)[i + 2 + At(m, i + 1)]
<1> DEFINE L == Len(m.options)
           stop(x) == x + 2 >= L \/ At(m, x) = OPT_END
           S == Seq(Nat)
           D == {x \in Nat : stop(x) \/ At(m, x) = code}
           B == [x \in Nat |-> IF stop(x) THEN <<>> ELSE ValueAt(m, x)]
           G == [x \in Nat |-> [v \in S |-> v]]
           next == [x \in Nat |-> x + 2 + At(m, x + 1)]
           rank == [x \in Nat |-> IF x < L THEN L - x ELSE 0]
           f == GetOptionFrom(m, code)
<1>1. L \in Nat
  BY DEF Messages
<1>2. \A x \in Nat : ValueAt(m, x) \in S /\ At(m, x + 1) \in Nat
  <2> SUFFICES ASSUME NEW x \in Nat PROVE ValueAt(m, x) \in S /\ At(m, x + 1) \in Nat
    OBVIOUS
  <2>1. x + 1 \in Nat
    OBVIOUS
  <2>2. At(m, x + 1) \in Nat
    BY <2>1, AtFacts, Zenon
  <2>3. ValueAt(m, x) \in S
    BY ValueAtFacts, Zenon
  <2> QED
    BY <2>2, <2>3, Zenon
<1>9. \A x \in Nat : x + 2 + At(m, x + 1) \in Nat /\ x + 2 + At(m, x + 1) > x
  <2> SUFFICES ASSUME NEW x \in Nat
               PROVE  x + 2 + At(m, x + 1) \in Nat /\ x + 2 + At(m, x + 1) > x
    OBVIOUS
  <2> DEFINE a == At(m, x + 1)
  <2>1. a \in Nat
    BY <1>2
  <2> HIDE DEF a
  <2>2. x + 2 + a \in Nat /\ x + 2 + a > x
    BY <2>1
  <2> QED
    BY <2>2 DEF a
<1> HIDE DEF L
<1>3. IsRecursion(Nat, S, D, B, G, next, rank)
  <2>1. B \in [Nat -> S] /\ G \in [Nat -> [S -> S]]
    BY <1>2
  <2>2. next \in [Nat -> Nat] /\ rank \in [Nat -> Nat]
    <3>1. next \in [Nat -> Nat]
      BY <1>9
    <3>2. rank \in [Nat -> Nat]
      BY <1>1
    <3> QED
      BY <3>1, <3>2
  <2>3. ASSUME NEW x \in Nat, x \notin D PROVE rank[next[x]] < rank[x]
    <3>1. x + 2 < L
      BY <1>1, <2>3
    <3>2. next[x] \in Nat /\ next[x] > x
      BY <1>9
    <3> HIDE DEF next
    <3> QED
      BY <1>1, <3>1, <3>2
  <2> QED
    BY <2>1, <2>2, <2>3, Zenon DEF IsRecursion
<1>4. PICK g : g \in Solutions(Nat, S, D, B, G, next)
  <2> HIDE DEF S, D, B, G, next, rank
  <2> QED
    BY <1>3, RankedRecursion
<1>5. g \in [Nat -> S] /\ \A x \in Nat : g[x] = IF x \in D THEN B[x] ELSE G[x][g[next[x]]]
  BY <1>4 DEF Solutions
<1> DEFINE body(h, x) == IF stop(x) THEN <<>>
                         ELSE IF At(m, x) = code THEN ValueAt(m, x)
                         ELSE h[x + 2 + At(m, x + 1)]
<1>6. g = [x \in Nat |-> body(g, x)]
  <2>1. ASSUME NEW x \in Nat PROVE g[x] = body(g, x)
    <3>1. next[x] = x + 2 + At(m, x + 1) /\ next[x] \in Nat /\ g[next[x]] \in S
      BY <1>5, <1>9
    <3>2. G[x][g[next[x]]] = g[next[x]]
      BY <3>1
    <3>3. (x \in D <=> stop(x) \/ At(m, x) = code) /\ B[x] = IF stop(x) THEN <<>> ELSE ValueAt(m, x)
      OBVIOUS
    <3> HIDE DEF D, B, G, next, S, stop
    <3> QED
      BY <1>5, <3>1, <3>2, <3>3
  <2> QED
    BY <1>5, <2>1
<1>7. f = [x \in Nat |-> body(f, x)]
  <2>1. \E h : h = [x \in Nat |-> body(h, x)]
    BY <1>6
  <2> QED
    BY <2>1 DEF GetOptionFrom, L
<1> HIDE DEF f
<1>8. f[i] = body(f, i)
  BY <1>7
<1> QED
  BY <1>8 DEF f, L

\* A message is the record of its fields.
LEMMA MessageFields ==
  ASSUME NEW m \in Messages
  PROVE  /\ m = [op |-> m.op, htype |-> m.htype, hlen |-> m.hlen, xid |-> m.xid,
                 yiaddr |-> m.yiaddr, options |-> m.options]
         /\ m.op \in Nat /\ m.htype \in Nat /\ m.hlen \in Nat /\ m.xid \in Nat
         /\ m.yiaddr \in Address /\ m.options \in Seq(Nat)
         /\ Len(m.options) \in Nat /\ Len(m.options) >= 4
BY DEF Messages

\* A record of such fields is a message.
LEMMA MakeMessage ==
  ASSUME NEW r, NEW op \in Nat, NEW htype \in Nat, NEW hlen \in Nat, NEW xid \in Nat,
         NEW y \in Address, NEW o \in Seq(Nat), Len(o) >= 4,
         r = [op |-> op, htype |-> htype, hlen |-> hlen, xid |-> xid, yiaddr |-> y, options |-> o]
  PROVE  r \in Messages
BY DEF Messages

\* The bytes that are sent for a message are read as the same message.
LEMMA BytesFacts ==
  ASSUME NEW m \in Messages
  PROVE  /\ Bytes(m) \in Seq(Nat) /\ Len(Bytes(m)) = 8 + Len(m.options)
         /\ MessageOf(Bytes(m)) = m
<1> DEFINE a == <<m.op, m.htype, m.hlen, m.xid>>
           y == m.yiaddr
           o == m.options
           b == a \o y
           c == b \o o
<1>1. /\ m = [op |-> m.op, htype |-> m.htype, hlen |-> m.hlen, xid |-> m.xid,
              yiaddr |-> y, options |-> o]
      /\ m.op \in Nat /\ m.htype \in Nat /\ m.hlen \in Nat /\ m.xid \in Nat
  BY MessageFields
<1>2. a \in Seq(Nat) /\ Len(a) = 4 /\ a[1] = m.op /\ a[2] = m.htype /\ a[3] = m.hlen /\ a[4] = m.xid
  BY <1>1
<1>3. y \in Seq(Nat) /\ Len(y) = 4
  BY MessageFields, AddressFacts
<1>4. o \in Seq(Nat) /\ Len(o) \in Nat /\ Len(o) >= 4
  BY MessageFields
<1>5. Bytes(m) = c
  BY DEF Bytes
<1> HIDE DEF a, y, o
<1>6. Joined(b, a, y)
  BY <1>2, <1>3, ConcatJoins
<1> HIDE DEF b
<1>7. /\ b \in Seq(Nat) /\ Len(b) = 8
      /\ \A i \in 1 .. 4 : b[i] = a[i]
      /\ \A i \in 1 .. 4 : b[4 + i] = y[i]
  BY <1>2, <1>3, <1>6 DEF Joined
<1>8. Joined(c, b, o)
  BY <1>4, <1>7, ConcatJoins
<1> HIDE DEF c
<1>9. /\ c \in Seq(Nat) /\ Len(c) = 8 + Len(o)
      /\ \A i \in 1 .. 8 : c[i] = b[i]
      /\ \A i \in 1 .. Len(o) : c[8 + i] = o[i]
  BY <1>7, <1>8 DEF Joined
<1>10. c[1] = m.op /\ c[2] = m.htype /\ c[3] = m.hlen /\ c[4] = m.xid
  <2>1. c[1] = b[1] /\ c[2] = b[2] /\ c[3] = b[3] /\ c[4] = b[4]
    <3>1. 1 \in 1 .. 8 /\ 2 \in 1 .. 8 /\ 3 \in 1 .. 8 /\ 4 \in 1 .. 8
      OBVIOUS
    <3> QED
      BY <1>9, <3>1, Zenon
  <2>2. b[1] = a[1] /\ b[2] = a[2] /\ b[3] = a[3] /\ b[4] = a[4]
    <3>1. 1 \in 1 .. 4 /\ 2 \in 1 .. 4 /\ 3 \in 1 .. 4 /\ 4 \in 1 .. 4
      OBVIOUS
    <3> QED
      BY <1>7, <3>1, Zenon
  <2> QED
    BY <1>2, <2>1, <2>2, Zenon
<1>11. SubSeq(c, 5, 8) = y
  <2>1. \A i \in 1 .. 4 : c[4 + i] = y[i]
    <3>1. \A i \in 1 .. 4 : 4 + i \in 1 .. 8
      OBVIOUS
    <3> QED
      BY <1>7, <1>9, <3>1
  <2>2. SubSeq(c, 4 + 1, 4 + 4) = y
    BY <1>3, <1>4, <1>9, <2>1, CutOut
  <2> QED
    BY <2>2
<1>12. SubSeq(c, 9, Len(c)) = o
  <2>1. SubSeq(c, 8 + 1, 8 + Len(o)) = o
    BY <1>4, <1>9, CutOut
  <2> QED
    BY <1>9, <2>1
<1>13. MessageOf(c) = m
  BY <1>1, <1>10, <1>11, <1>12 DEF MessageOf
<1> QED
  BY <1>5, <1>9, <1>13 DEF o

\* r is m with more bytes at the end of its options.
Extended(r, m, n) ==
  /\ r \in Messages /\ Len(r.options) = Len(m.options) + n
  /\ r.op = m.op /\ r.htype = m.htype /\ r.hlen = m.hlen /\ r.xid = m.xid /\ r.yiaddr = m.yiaddr
  /\ \A i \in 0 .. Len(m.options) - 1 : At(r, i) = At(m, i)

\* Bytes added at the end of the options leave the others where they were.
LEMMA ExtendOptions ==
  ASSUME NEW m \in Messages, NEW more \in Seq(Nat), NEW r,
         r = [m EXCEPT !.options = m.options \o more]
  PROVE  /\ Extended(r, m, Len(more))
         /\ \A k \in 1 .. Len(more) : At(r, Len(m.options) - 1 + k) = more[k]
<1> DEFINE o == m.options
           p == o \o more
<1>1. o \in Seq(Nat) /\ Len(o) \in Nat /\ Len(o) >= 4
  BY MessageFields
<1>2. r.op = m.op /\ r.htype = m.htype /\ r.hlen = m.hlen /\ r.xid = m.xid /\ r.yiaddr = m.yiaddr
      /\ r.options = p
  BY DEF Messages
<1>3. r = [op |-> m.op, htype |-> m.htype, hlen |-> m.hlen, xid |-> m.xid,
                 yiaddr |-> m.yiaddr, options |-> p]
  BY DEF Messages
<1> HIDE DEF o
<1>4. Joined(p, o, more)
  BY <1>1, ConcatJoins
<1> HIDE DEF p
<1>5. /\ p \in Seq(Nat) /\ Len(p) = Len(o) + Len(more) /\ Len(more) \in Nat
      /\ \A i \in 1 .. Len(o) : p[i] = o[i]
      /\ \A i \in 1 .. Len(more) : p[Len(o) + i] = more[i]
  BY <1>4 DEF Joined
<1>6. r \in Messages
  <2>1. Len(p) >= 4
    <3> DEFINE L == Len(o)
               M == Len(more)
    <3>1. L \in Nat /\ M \in Nat /\ L >= 4 /\ Len(p) = L + M
      BY <1>1, <1>5
    <3> HIDE DEF L, M
    <3> QED
      BY <3>1
  <2>2. /\ m.op \in Nat /\ m.htype \in Nat /\ m.hlen \in Nat /\ m.xid \in Nat
        /\ m.yiaddr \in Address
    BY MessageFields
  <2>3. p \in Seq(Nat)
    BY <1>5
  <2> QED
    BY <1>3, <2>1, <2>2, <2>3, MakeMessage
<1>7. ASSUME NEW i \in 0 .. Len(o) - 1 PROVE At(r, i) = At(m, i)
  <2>1. i + 1 \in 1 .. Len(o) /\ i < Len(o) /\ i < Len(p)
    <3> DEFINE L == Len(o)
               M == Len(more)
    <3>1. L \in Nat /\ M \in Nat /\ Len(p) = L + M /\ i \in 0 .. L - 1
      BY <1>1, <1>5
    <3> HIDE DEF L, M
    <3>2. i + 1 \in 1 .. L /\ i < L /\ i < Len(p)
      BY <3>1
    <3> QED
      BY <3>2 DEF L
  <2> QED
    BY <1>2, <1>5, <2>1 DEF At, o
<1>8. ASSUME NEW k \in 1 .. Len(more) PROVE At(r, Len(o) - 1 + k) = more[k]
  <2>1. Len(o) - 1 + k < Len(p) /\ Len(o) - 1 + k + 1 = Len(o) + k
    <3> DEFINE L == Len(o)
               M == Len(more)
    <3>1. L \in Nat /\ M \in Nat /\ Len(p) = L + M /\ k \in 1 .. M
      BY <1>1, <1>5
    <3> HIDE DEF L, M
    <3>2. L - 1 + k < Len(p) /\ L - 1 + k + 1 = L + k
      BY <3>1
    <3> QED
      BY <3>2 DEF L
  <2> QED
    BY <1>2, <1>5, <2>1 DEF At
<1>9. Extended(r, m, Len(more))
  BY <1>2, <1>5, <1>6, <1>7 DEF Extended, o
<1> QED
  BY <1>8, <1>9 DEF o

\* r is m with one more option.
Added(r, m, code, value) ==
  /\ Extended(r, m, 2 + Len(value))
  /\ At(r, Len(m.options)) = code
  /\ At(r, Len(m.options) + 1) = Len(value)
  /\ \A k \in 1 .. Len(value) : At(r, Len(m.options) + 1 + k) = value[k]

\* addOption adds the option's code, length and value at the end.
LEMMA AddOptionAdds ==
  ASSUME NEW m \in Messages, NEW code \in Nat, NEW value \in Seq(Nat)
  PROVE  Added(AddOption(m, code, value), m, code, value)
<1> DEFINE head == <<code, Len(value)>>
           more == head \o value
           r == AddOption(m, code, value)
           o == m.options
           L == Len(o)
<1>1. o \in Seq(Nat) /\ L \in Nat /\ L >= 4
  BY MessageFields
<1>2. /\ head \in Seq(Nat) /\ Len(head) = 2 /\ head[1] = code /\ head[2] = Len(value)
      /\ Len(value) \in Nat
  OBVIOUS
<1> HIDE DEF L
<1>3. r = [m EXCEPT !.options = o \o head \o value]
  BY DEF AddOption
<1> HIDE DEF r, o, head
<1>4. (o \o head) \o value = o \o more
  BY <1>1, <1>2, SMTT(30)
<1>5. Joined(more, head, value)
  BY <1>2, ConcatJoins
<1> HIDE DEF more
<1>6. /\ more \in Seq(Nat) /\ Len(more) = 2 + Len(value)
      /\ more[1] = code /\ more[2] = Len(value)
      /\ \A k \in 1 .. Len(value) : more[2 + k] = value[k]
  BY <1>2, <1>5 DEF Joined
<1>7. r = [m EXCEPT !.options = m.options \o more]
  BY <1>3, <1>4 DEF o
<1>8. /\ Extended(r, m, Len(more))
      /\ \A k \in 1 .. Len(more) : At(r, Len(m.options) - 1 + k) = more[k]
  BY <1>6, <1>7, ExtendOptions
<1>9. \A k \in 1 .. Len(more) : At(r, L - 1 + k) = more[k]
  BY <1>8 DEF L, o
<1>10. At(r, L) = code /\ At(r, L + 1) = Len(value)
  <2>1. 1 \in 1 .. Len(more) /\ 2 \in 1 .. Len(more) /\ L - 1 + 1 = L /\ L - 1 + 2 = L + 1
    BY <1>1, <1>2, <1>6
  <2> QED
    BY <1>6, <1>9, <2>1
<1>11. ASSUME NEW k \in 1 .. Len(value) PROVE At(r, L + 1 + k) = value[k]
  <2>1. 2 + k \in 1 .. Len(more) /\ L - 1 + (2 + k) = L + 1 + k
    BY <1>1, <1>2, <1>6
  <2> QED
    BY <1>6, <1>9, <2>1
<1> QED
  BY <1>6, <1>8, <1>10, <1>11 DEF Added, L, o, r

\* endOptions adds OPT_END.
LEMMA EndOptionsAdds ==
  ASSUME NEW m \in Messages
  PROVE  Extended(EndOptions(m), m, 1) /\ At(EndOptions(m), Len(m.options)) = OPT_END
<1> DEFINE more == <<OPT_END>>
           r == EndOptions(m)
<1>1. more \in Seq(Nat) /\ Len(more) = 1 /\ more[1] = OPT_END
  BY DEF OPT_END
<1>2. m.options \in Seq(Nat) /\ Len(m.options) \in Nat
  BY MessageFields
<1>3. r = [m EXCEPT !.options = m.options \o more]
  <2>1. Append(m.options, OPT_END) = m.options \o <<OPT_END>>
    BY <1>2, SMTT(30) DEF OPT_END
  <2> QED
    BY <2>1 DEF EndOptions
<1> HIDE DEF more, r
<1>4. /\ Extended(r, m, Len(more))
      /\ \A k \in 1 .. Len(more) : At(r, Len(m.options) - 1 + k) = more[k]
  BY <1>1, <1>3, ExtendOptions
<1>5. At(r, Len(m.options) - 1 + 1) = OPT_END
  BY <1>1, <1>4
<1> QED
  BY <1>1, <1>2, <1>4, <1>5 DEF r

\* The message that the constructor makes.
IsNew(r, op, xid, type) ==
  /\ r \in Messages /\ Len(r.options) = 7
  /\ r.op = op /\ r.htype = HTYPE_ETHER /\ r.hlen = ETH_ALEN /\ r.xid = xid
  /\ r.yiaddr = Zero
  /\ At(r, 0) = 99 /\ At(r, 1) = 130 /\ At(r, 2) = 83 /\ At(r, 3) = 99
  /\ At(r, 4) = OPT_MESSAGE_TYPE /\ At(r, 5) = 1 /\ At(r, 6) = type

\* The Message constructor's message: the header, the cookie and the type.
LEMMA NewMessageFacts ==
  ASSUME NEW op \in Nat, NEW xid \in Nat, NEW type \in Nat, NEW r, r = NewMessage(op, xid, type)
  PROVE  IsNew(r, op, xid, type)
<1> DEFINE t == <<OPT_MESSAGE_TYPE, 1, type>>
           o == Cookie \o t
<1>1. /\ Cookie \in Seq(Nat) /\ Len(Cookie) = 4
      /\ Cookie[1] = 99 /\ Cookie[2] = 130 /\ Cookie[3] = 83 /\ Cookie[4] = 99
  BY DEF Cookie
<1>0. /\ t \in Seq(Nat) /\ Len(t) = 3
      /\ t[1] = OPT_MESSAGE_TYPE /\ t[2] = 1 /\ t[3] = type
  BY DEF OPT_MESSAGE_TYPE
<1> HIDE DEF t
<1>2. /\ o \in Seq(Nat) /\ Len(o) = 7
      /\ o[1] = 99 /\ o[2] = 130 /\ o[3] = 83 /\ o[4] = 99
      /\ o[5] = OPT_MESSAGE_TYPE /\ o[6] = 1 /\ o[7] = type
  <2>1. Joined(o, Cookie, t)
    BY <1>0, <1>1, ConcatJoins
  <2> HIDE DEF o
  <2>2. /\ o \in Seq(Nat) /\ Len(o) = 7
        /\ \A i \in 1 .. 4 : o[i] = Cookie[i]
        /\ \A i \in 1 .. 3 : o[4 + i] = t[i]
    BY <1>0, <1>1, <2>1 DEF Joined
  <2>3. o[4 + 1] = t[1] /\ o[4 + 2] = t[2] /\ o[4 + 3] = t[3]
    BY <2>2
  <2>4. o[5] = t[1] /\ o[6] = t[2] /\ o[7] = t[3]
    BY <2>3
  <2>5. o[1] = 99 /\ o[2] = 130 /\ o[3] = 83 /\ o[4] = 99
    BY <1>1, <2>2
  <2> QED
    BY <1>0, <2>2, <2>4, <2>5
<1>3. r = [op |-> op, htype |-> HTYPE_ETHER, hlen |-> ETH_ALEN, xid |-> xid, yiaddr |-> Zero,
           options |-> o]
  BY DEF NewMessage, t
<1> HIDE DEF o
<1>4. r \in Messages
  <2>1. HTYPE_ETHER \in Nat /\ ETH_ALEN \in Nat /\ Len(o) >= 4
    BY <1>2 DEF HTYPE_ETHER, ETH_ALEN
  <2> QED
    <3>1. o \in Seq(Nat)
      BY <1>2
    <3> QED
      BY <1>3, <2>1, <3>1, ZeroAddress, MakeMessage
<1>5. r.options = o
  BY <1>3
<1>6. /\ At(r, 0) = 99 /\ At(r, 1) = 130 /\ At(r, 2) = 83 /\ At(r, 3) = 99
      /\ At(r, 4) = OPT_MESSAGE_TYPE /\ At(r, 5) = 1 /\ At(r, 6) = type
  <2>1. \A i \in 0 .. 6 : At(r, i) = o[i + 1]
    <3>1. Len(r.options) = 7 /\ \A i \in 0 .. 6 : i < 7
      BY <1>2, <1>5
    <3> QED
      BY <1>5, <3>1 DEF At
  <2>2. /\ At(r, 0) = o[0 + 1] /\ At(r, 1) = o[1 + 1] /\ At(r, 2) = o[2 + 1]
        /\ At(r, 3) = o[3 + 1] /\ At(r, 4) = o[4 + 1] /\ At(r, 5) = o[5 + 1]
        /\ At(r, 6) = o[6 + 1]
    BY <2>1
  <2> QED
    BY <1>2, <2>2
<1> QED
  BY <1>2, <1>3, <1>4, <1>5, <1>6 DEF IsNew

\* The option with a code and a value is at offset i.
Holds(m, i, code, value) ==
  /\ i \in Nat /\ value \in Seq(Nat) /\ i + 2 + Len(value) <= Len(m.options)
  /\ At(m, i) = code /\ At(m, i + 1) = Len(value)
  /\ \A k \in 1 .. Len(value) : At(m, i + 1 + k) = value[k]

\* The value of an option is what was put there.
LEMMA HoldsValue ==
  ASSUME NEW m \in Messages, NEW i, NEW code, NEW value, Holds(m, i, code, value)
  PROVE  ValueAt(m, i) = value
<1> DEFINE v == ValueAt(m, i)
           n == Len(value)
<1>1. i \in Nat /\ value \in Seq(Nat) /\ At(m, i + 1) = n
  BY DEF Holds
<1>2. \A k \in 1 .. n : At(m, i + 1 + k) = value[k]
  BY DEF Holds
<1>3. v \in Seq(Nat) /\ Len(v) = n /\ \A k \in 1 .. n : v[k] = At(m, i + 1 + k)
  BY <1>1, ValueAtFacts
<1> HIDE DEF v
<1>4. \A k \in 1 .. n : v[k] = value[k]
  BY <1>2, <1>3
<1>5. v = value
  BY <1>1, <1>3, <1>4, SMTT(30)
<1> QED
  BY <1>5 DEF v

\* An option that was added is held at the old end.
LEMMA HoldsAdded ==
  ASSUME NEW m \in Messages, NEW code, NEW value \in Seq(Nat), NEW r, Added(r, m, code, value)
  PROVE  Holds(r, Len(m.options), code, value)
<1> DEFINE L == Len(m.options)
           n == Len(value)
<1>1. L \in Nat /\ n \in Nat
  BY MessageFields
<1>2. Len(r.options) = L + (2 + n)
  BY DEF Added, Extended
<1>3. At(r, L) = code /\ At(r, L + 1) = n /\ \A k \in 1 .. n : At(r, L + 1 + k) = value[k]
  BY DEF Added
<1> HIDE DEF L, n
<1>4. L + 2 + n <= Len(r.options)
  BY <1>1, <1>2
<1> QED
  BY <1>1, <1>3, <1>4 DEF Holds, L, n

\* An option stays where it is when more is added.
LEMMA HoldsStays ==
  ASSUME NEW m \in Messages, NEW i, NEW code, NEW value, Holds(m, i, code, value),
         NEW r, NEW n \in Nat, Extended(r, m, n)
  PROVE  Holds(r, i, code, value)
<1> DEFINE L == Len(m.options)
           v == Len(value)
           R == Len(r.options)
<1>1. L \in Nat
  BY MessageFields
<1>2. i \in Nat /\ value \in Seq(Nat) /\ v \in Nat /\ i + 2 + v <= L
  BY DEF Holds
<1>3. At(m, i) = code /\ At(m, i + 1) = v /\ \A k \in 1 .. v : At(m, i + 1 + k) = value[k]
  BY DEF Holds
<1>4. R = L + n /\ \A k \in 0 .. L - 1 : At(r, k) = At(m, k)
  BY DEF Extended
<1> HIDE DEF L, v, R
<1>5. i \in 0 .. L - 1 /\ i + 1 \in 0 .. L - 1 /\ (\A k \in 1 .. v : i + 1 + k \in 0 .. L - 1)
  BY <1>1, <1>2
<1>6. i + 2 + v <= R
  BY <1>1, <1>2, <1>4
<1>7. At(r, i) = code /\ At(r, i + 1) = v
  BY <1>3, <1>4, <1>5
<1>8. \A k \in 1 .. v : At(r, i + 1 + k) = value[k]
  BY <1>3, <1>4, <1>5
<1> QED
  BY <1>2, <1>6, <1>7, <1>8 DEF Holds, v, R

\* getOption at an option it looks for, at another one, and at the end.
LEMMA GetOptionHit ==
  ASSUME NEW m \in Messages, NEW i, NEW code, NEW value, Holds(m, i, code, value),
         i + 2 < Len(m.options), code # OPT_END
  PROVE  GetOptionFrom(m, code)[i] = value
<1>1. i \in Nat /\ At(m, i) = code /\ Len(m.options) \in Nat
  BY MessageFields DEF Holds
<1>2. ValueAt(m, i) = value
  BY HoldsValue
<1>3. ~ (i + 2 >= Len(m.options))
  BY <1>1
<1> QED
  BY <1>1, <1>2, <1>3, GetOptionStep

\* An option at i, with its code c, that another one follows at j.
Leads(m, i, j, c) ==
  /\ i \in Nat /\ j \in Nat /\ i + 2 < Len(m.options)
  /\ At(m, i) = c /\ j = i + 2 + At(m, i + 1)

\* At another option getOption goes on behind it.
LEMMA GetOptionSkip ==
  ASSUME NEW m \in Messages, NEW i, NEW j, NEW c, Leads(m, i, j, c), c # OPT_END,
         NEW code, c # code
  PROVE  GetOptionFrom(m, code)[i] = GetOptionFrom(m, code)[j]
<1>1. i \in Nat /\ At(m, i) = c /\ Len(m.options) \in Nat /\ i + 2 < Len(m.options)
  BY MessageFields DEF Leads
<1>2. ~ (i + 2 >= Len(m.options))
  BY <1>1
<1>3. GetOptionFrom(m, code)[i] = GetOptionFrom(m, code)[i + 2 + At(m, i + 1)]
  BY <1>1, <1>2, GetOptionStep
<1>4. i + 2 + At(m, i + 1) = j
  BY DEF Leads
<1> QED
  BY <1>3, <1>4, Zenon

\* An option that another one follows is one that getOption passes.
LEMMA HoldsLeads ==
  ASSUME NEW m \in Messages, NEW i, NEW j \in Nat, NEW c, NEW value, Holds(m, i, c, value),
         j = i + 2 + Len(value), j < Len(m.options)
  PROVE  Leads(m, i, j, c)
<1> DEFINE L == Len(m.options)
           n == Len(value)
<1>1. i \in Nat /\ At(m, i) = c /\ At(m, i + 1) = n /\ n \in Nat
  BY DEF Holds
<1>2. L \in Nat /\ j = i + 2 + n /\ j < L
  BY MessageFields
<1> HIDE DEF L, n
<1>3. i + 2 < L
  BY <1>1, <1>2
<1> QED
  BY <1>1, <1>2, <1>3 DEF Leads, L

\* At OPT_END getOption has found nothing.
LEMMA GetOptionEnd ==
  ASSUME NEW m \in Messages, NEW i \in Nat, At(m, i) = OPT_END, NEW code
  PROVE  GetOptionFrom(m, code)[i] = <<>>
BY GetOptionStep

\* A message that begins with the cookie and its type, as the constructor
\* leaves it.
Begins(m, op, xid, y, type) ==
  /\ m \in Messages /\ m.op = op /\ m.htype = HTYPE_ETHER /\ m.hlen = ETH_ALEN /\ m.xid = xid
  /\ m.yiaddr = y
  /\ At(m, 0) = 99 /\ At(m, 1) = 130 /\ At(m, 2) = 83 /\ At(m, 3) = 99
  /\ Holds(m, 4, OPT_MESSAGE_TYPE, <<type>>)

\* A new message begins with the cookie and its type.
LEMMA NewBegins ==
  ASSUME NEW op \in Nat, NEW xid \in Nat, NEW type \in Nat
  PROVE  /\ Begins(NewMessage(op, xid, type), op, xid, Zero, type)
         /\ Len(NewMessage(op, xid, type).options) = 7
<1> DEFINE r == NewMessage(op, xid, type)
           v == <<type>>
<1>1. /\ r \in Messages /\ Len(r.options) = 7
      /\ r.op = op /\ r.htype = HTYPE_ETHER /\ r.hlen = ETH_ALEN /\ r.xid = xid
      /\ r.yiaddr = Zero
      /\ At(r, 0) = 99 /\ At(r, 1) = 130 /\ At(r, 2) = 83 /\ At(r, 3) = 99
      /\ At(r, 4) = OPT_MESSAGE_TYPE /\ At(r, 5) = 1 /\ At(r, 6) = type
  <2>1. IsNew(r, op, xid, type)
    <3>1. r = NewMessage(op, xid, type)
      OBVIOUS
    <3> HIDE DEF r
    <3> QED
      BY <3>1, NewMessageFacts
  <2> HIDE DEF r
  <2> QED
    BY <2>1 DEF IsNew
<1> HIDE DEF r
<1>2. v \in Seq(Nat) /\ Len(v) = 1 /\ v[1] = type
  OBVIOUS
<1> HIDE DEF v
<1>3. Holds(r, 4, OPT_MESSAGE_TYPE, v)
  <2>1. 4 \in Nat /\ 4 + 2 + Len(v) <= Len(r.options) /\ 4 + 1 = 5
    BY <1>1, <1>2
  <2>2. ASSUME NEW k \in 1 .. Len(v) PROVE At(r, 4 + 1 + k) = v[k]
    <3>1. k = 1 /\ 4 + 1 + k = 6
      BY <1>2
    <3> QED
      BY <1>1, <1>2, <3>1
  <2> QED
    BY <1>1, <1>2, <2>1, <2>2 DEF Holds
<1> QED
  BY <1>1, <1>3 DEF Begins, r, v

\* Adding options does not change how a message begins.
LEMMA BeginsStays ==
  ASSUME NEW m, NEW op, NEW xid, NEW y, NEW type, Begins(m, op, xid, y, type),
         NEW r, NEW n \in Nat, Extended(r, m, n)
  PROVE  Begins(r, op, xid, y, type)
<1>1. m \in Messages /\ Holds(m, 4, OPT_MESSAGE_TYPE, <<type>>)
  BY DEF Begins
<1>2. Holds(r, 4, OPT_MESSAGE_TYPE, <<type>>)
  BY <1>1, HoldsStays
<1>3. /\ r \in Messages
      /\ r.op = op /\ r.htype = HTYPE_ETHER /\ r.hlen = ETH_ALEN /\ r.xid = xid /\ r.yiaddr = y
  BY DEF Begins, Extended
<1>4. \A i \in 0 .. 3 : At(r, i) = At(m, i)
  <2>1. \A i \in 0 .. 3 : i \in 0 .. Len(m.options) - 1
    BY <1>1, MessageFields
  <2> QED
    BY <2>1 DEF Extended
<1>5. At(r, 0) = 99 /\ At(r, 1) = 130 /\ At(r, 2) = 83 /\ At(r, 3) = 99
  BY <1>4 DEF Begins
<1> QED
  BY <1>2, <1>3, <1>5 DEF Begins

\* Such a message passes isValidDhcpMessage and has its type.
LEMMA BeginsValid ==
  ASSUME NEW m, NEW op, NEW xid, NEW y, NEW type \in Nat, Begins(m, op, xid, y, type)
  PROVE  IsValidDhcpMessage(m, op, xid) /\ Type(m) = type
<1>1. m \in Messages /\ Holds(m, 4, OPT_MESSAGE_TYPE, <<type>>)
  BY DEF Begins
<1>2. m.options \in Seq(Nat) /\ Len(m.options) \in Nat /\ Len(m.options) >= 4
  BY <1>1, MessageFields
<1>3. SubSeq(m.options, 1, 4) = Cookie
  <2> DEFINE o == m.options
             c == Cookie
  <2>1. c \in Seq(Nat) /\ Len(c) = 4 /\ c[1] = 99 /\ c[2] = 130 /\ c[3] = 83 /\ c[4] = 99
    BY DEF Cookie
  <2>2. /\ At(m, 0) = o[0 + 1] /\ At(m, 1) = o[1 + 1] /\ At(m, 2) = o[2 + 1] /\ At(m, 3) = o[3 + 1]
    BY <1>2 DEF At
  <2>3. o[1] = 99 /\ o[2] = 130 /\ o[3] = 83 /\ o[4] = 99
    BY <2>2 DEF Begins
  <2> HIDE DEF o, c
  <2>4. \A i \in 1 .. 4 : o[0 + i] = c[i]
    <3>1. \A i \in 1 .. 4 : i \in {1, 2, 3, 4} /\ 0 + i = i
      OBVIOUS
    <3> QED
      BY <2>1, <2>3, <3>1
  <2>5. SubSeq(o, 0 + 1, 0 + 4) = c
    <3>1. o \in Seq(Nat) /\ 0 + 4 <= Len(o)
      BY <1>2 DEF o
    <3> QED
      BY <2>1, <2>4, <3>1, CutOut, SMTT(30)
  <2>6. SubSeq(o, 1, 4) = c
    BY <2>5
  <2> QED
    BY <2>6 DEF o, c
<1>4. IsValidDhcpMessage(m, op, xid)
  BY <1>2, <1>3 DEF IsValidDhcpMessage, Begins
<1>5. GetOption(m, OPT_MESSAGE_TYPE) = <<type>>
  <2>1. 4 + 2 < Len(m.options)
    <3>1. Len(<<type>>) = 1
      OBVIOUS
    <3>2. 4 + 2 + Len(<<type>>) <= Len(m.options)
      BY <1>1, Zenon DEF Holds
    <3> QED
      BY <1>2, <3>1, <3>2
  <2>2. OPT_MESSAGE_TYPE # OPT_END
    BY DEF OPT_MESSAGE_TYPE, OPT_END
  <2> QED
    BY <1>1, <2>1, <2>2, GetOptionHit DEF GetOption
<1>6. Type(m) = type
  BY <1>5 DEF Type
<1> QED
  BY <1>4, <1>6

\* The list of the parameters a request asks for is eight bytes.
LEMMA Parameters == kRequestParameters \in Seq(Nat) /\ Len(kRequestParameters) = 8
BY DEF kRequestParameters, OPT_SUBNET_MASK, OPT_GATEWAY, OPT_DNS, OPT_BROADCAST_ADDR,
       OPT_LEASE_TIME, OPT_T1, OPT_T2, OPT_MTU

\* The options of requests have different codes, and none is OPT_END.
LEMMA Codes ==
  /\ OPT_MESSAGE_TYPE \in Nat /\ OPT_PARAMETER_LIST \in Nat /\ OPT_REQUESTED_IP \in Nat
  /\ OPT_SERVER_ID \in Nat
  /\ OPT_MESSAGE_TYPE # OPT_END /\ OPT_PARAMETER_LIST # OPT_END /\ OPT_REQUESTED_IP # OPT_END
  /\ OPT_SERVER_ID # OPT_END
  /\ OPT_MESSAGE_TYPE # OPT_REQUESTED_IP /\ OPT_PARAMETER_LIST # OPT_REQUESTED_IP
  /\ OPT_MESSAGE_TYPE # OPT_SERVER_ID /\ OPT_PARAMETER_LIST # OPT_SERVER_ID
  /\ OPT_REQUESTED_IP # OPT_SERVER_ID
BY DEF OPT_MESSAGE_TYPE, OPT_PARAMETER_LIST, OPT_REQUESTED_IP, OPT_SERVER_ID, OPT_END

\* The beginning that DISCOVER and REQUEST share.
LEMMA RequestBegins ==
  ASSUME NEW type \in Nat, NEW xid \in Nat, NEW m,
         m = AddOption(NewMessage(OP_BOOTREQUEST, xid, type), OPT_PARAMETER_LIST,
                       kRequestParameters)
  PROVE  /\ Begins(m, OP_BOOTREQUEST, xid, Zero, type) /\ Len(m.options) = 17
         /\ Holds(m, 7, OPT_PARAMETER_LIST, kRequestParameters)
<1> DEFINE a == NewMessage(OP_BOOTREQUEST, xid, type)
           v == kRequestParameters
           c == OPT_PARAMETER_LIST
<1>1. v \in Seq(Nat) /\ Len(v) = 8 /\ c \in Nat
  BY Parameters, Codes
<1>2. Begins(a, OP_BOOTREQUEST, xid, Zero, type) /\ Len(a.options) = 7
  <2>1. OP_BOOTREQUEST \in Nat
    BY DEF OP_BOOTREQUEST
  <2> QED
    BY <2>1, NewBegins
<1>3. m = AddOption(a, c, v)
  OBVIOUS
<1> HIDE DEF a, v, c
<1>4. a \in Messages
  BY <1>2 DEF Begins
<1>5. Added(m, a, c, v)
  BY <1>1, <1>3, <1>4, AddOptionAdds
<1>6. Extended(m, a, 2 + Len(v)) /\ 2 + Len(v) \in Nat
  BY <1>1, <1>5 DEF Added
<1>7. Begins(m, OP_BOOTREQUEST, xid, Zero, type)
  BY <1>2, <1>6, BeginsStays
<1>8. Len(m.options) = 17
  BY <1>1, <1>2, <1>6 DEF Extended
<1>9. Holds(m, 7, c, v)
  <2>1. Holds(m, Len(a.options), c, v)
    BY <1>1, <1>4, <1>5, HoldsAdded
  <2> QED
    BY <1>2, <2>1
<1> QED
  BY <1>7, <1>8, <1>9 DEF c, v

\* A server that parses a DISCOVER reads what Message::discover put there.
LEMMA DiscoverReads ==
  ASSUME NEW xid \in Nat
  PROVE  /\ Discover(xid) \in Messages
         /\ IsValidDhcpMessage(Discover(xid), OP_BOOTREQUEST, xid)
         /\ Type(Discover(xid)) = DHCPDISCOVER
         /\ RequestedIp(Discover(xid)) = Zero /\ ServerId(Discover(xid)) = Zero
<1> DEFINE a == AddOption(NewMessage(OP_BOOTREQUEST, xid, DHCPDISCOVER),
                          OPT_PARAMETER_LIST, kRequestParameters)
           m == EndOptions(a)
           t == <<DHCPDISCOVER>>
<1>1. DHCPDISCOVER \in Nat
  BY DEF DHCPDISCOVER
<1>2. /\ Begins(a, OP_BOOTREQUEST, xid, Zero, DHCPDISCOVER) /\ Len(a.options) = 17
      /\ Holds(a, 7, OPT_PARAMETER_LIST, kRequestParameters)
  <2>1. a = AddOption(NewMessage(OP_BOOTREQUEST, xid, DHCPDISCOVER),
                          OPT_PARAMETER_LIST, kRequestParameters)
    OBVIOUS
  <2> HIDE DEF a
  <2> QED
    BY <1>1, <2>1, RequestBegins
<1>3. Discover(xid) = m
  BY DEF Discover
<1> HIDE DEF a
<1>4. a \in Messages
  BY <1>2 DEF Begins
<1>5. Extended(m, a, 1) /\ At(m, 17) = OPT_END
  BY <1>2, <1>4, EndOptionsAdds
<1> HIDE DEF m
<1>6. Begins(m, OP_BOOTREQUEST, xid, Zero, DHCPDISCOVER)
  BY <1>2, <1>5, 1 \in Nat, BeginsStays
<1>7. Holds(m, 7, OPT_PARAMETER_LIST, kRequestParameters)
  BY <1>2, <1>4, <1>5, 1 \in Nat, HoldsStays
<1>8. m \in Messages /\ Len(m.options) = 18 /\ Holds(m, 4, OPT_MESSAGE_TYPE, t)
  BY <1>2, <1>5, <1>6 DEF Extended, Begins
<1>9. Len(t) = 1 /\ Len(kRequestParameters) = 8
  BY Parameters
<1> HIDE DEF t
<1>10. ASSUME NEW code, OPT_MESSAGE_TYPE # code, OPT_PARAMETER_LIST # code
       PROVE  AddressOption(m, code) = Zero
  <2>1. GetOptionFrom(m, code)[4] = GetOptionFrom(m, code)[7]
    <3>1. 7 < Len(m.options) /\ 7 = 4 + 2 + Len(t) /\ 7 \in Nat
      BY <1>8, <1>9
    <3>2. Leads(m, 4, 7, OPT_MESSAGE_TYPE)
      BY <1>8, <1>10, <3>1, HoldsLeads
    <3> QED
      BY <1>8, <1>10, <3>2, Codes, GetOptionSkip
  <2>2. GetOptionFrom(m, code)[7] = GetOptionFrom(m, code)[17]
    <3>1. 17 < Len(m.options) /\ 17 = 7 + 2 + Len(kRequestParameters) /\ 17 \in Nat
      BY <1>8, <1>9
    <3>2. Leads(m, 7, 17, OPT_PARAMETER_LIST)
      BY <1>7, <1>8, <1>10, <3>1, HoldsLeads
    <3> QED
      BY <1>7, <1>8, <1>10, <3>2, Codes, GetOptionSkip
  <2>3. GetOptionFrom(m, code)[17] = <<>>
    BY <1>5, <1>8, 17 \in Nat, GetOptionEnd
  <2>4. GetOption(m, code) = <<>>
    BY <2>1, <2>2, <2>3 DEF GetOption
  <2> QED
    BY <2>4 DEF AddressOption
<1>11. RequestedIp(m) = Zero /\ ServerId(m) = Zero
  BY <1>10, Codes DEF RequestedIp, ServerId
<1>12. IsValidDhcpMessage(m, OP_BOOTREQUEST, xid) /\ Type(m) = DHCPDISCOVER
  BY <1>1, <1>6, BeginsValid
<1> QED
  BY <1>3, <1>8, <1>11, <1>12

\* A server that parses a REQUEST reads the address and the server identifier
\* that Message::request put there.
LEMMA RequestReads ==
  ASSUME NEW xid \in Nat, NEW address \in Address, NEW server \in Address
  PROVE  /\ Request(xid, address, server) \in Messages
         /\ IsValidDhcpMessage(Request(xid, address, server), OP_BOOTREQUEST, xid)
         /\ Type(Request(xid, address, server)) = DHCPREQUEST
         /\ RequestedIp(Request(xid, address, server)) = address
         /\ ServerId(Request(xid, address, server)) = server
<1> DEFINE a == AddOption(NewMessage(OP_BOOTREQUEST, xid, DHCPREQUEST),
                          OPT_PARAMETER_LIST, kRequestParameters)
           b == AddOption(a, OPT_REQUESTED_IP, address)
           c == AddOption(b, OPT_SERVER_ID, server)
           m == EndOptions(c)
           t == <<DHCPREQUEST>>
<1>1. DHCPREQUEST \in Nat
  BY DEF DHCPREQUEST
<1>2. /\ Begins(a, OP_BOOTREQUEST, xid, Zero, DHCPREQUEST) /\ Len(a.options) = 17
      /\ Holds(a, 7, OPT_PARAMETER_LIST, kRequestParameters)
  <2>1. a = AddOption(NewMessage(OP_BOOTREQUEST, xid, DHCPREQUEST),
                          OPT_PARAMETER_LIST, kRequestParameters)
    OBVIOUS
  <2> HIDE DEF a
  <2> QED
    BY <1>1, <2>1, RequestBegins
<1>3. Request(xid, address, server) = m
  BY DEF Request
<1>4. /\ address \in Seq(Nat) /\ Len(address) = 4
      /\ server \in Seq(Nat) /\ Len(server) = 4
  BY AddressFacts
<1> HIDE DEF a
<1>5. a \in Messages
  BY <1>2 DEF Begins
<1>6. Added(b, a, OPT_REQUESTED_IP, address)
  BY <1>4, <1>5, Codes, AddOptionAdds
<1> HIDE DEF b
<1>7. Extended(b, a, 6)
  BY <1>4, <1>6 DEF Added
<1>8. b \in Messages /\ Len(b.options) = 23
  BY <1>2, <1>7 DEF Extended
<1>9. Holds(b, 17, OPT_REQUESTED_IP, address)
  <2>1. Holds(b, Len(a.options), OPT_REQUESTED_IP, address)
    BY <1>4, <1>5, <1>6, HoldsAdded
  <2> QED
    BY <1>2, <2>1
<1>10. Added(c, b, OPT_SERVER_ID, server)
  BY <1>4, <1>8, Codes, AddOptionAdds
<1> HIDE DEF c
<1>11. Extended(c, b, 6)
  BY <1>4, <1>10 DEF Added
<1>12. c \in Messages /\ Len(c.options) = 29
  BY <1>8, <1>11 DEF Extended
<1>13. Holds(c, 23, OPT_SERVER_ID, server)
  <2>1. Holds(c, Len(b.options), OPT_SERVER_ID, server)
    BY <1>4, <1>8, <1>10, HoldsAdded
  <2> QED
    BY <1>8, <2>1
<1>14. Extended(m, c, 1)
  BY <1>12, EndOptionsAdds
<1> HIDE DEF m
<1>15. m \in Messages /\ Len(m.options) = 30
  BY <1>12, <1>14 DEF Extended
<1>16. 1 \in Nat /\ 6 \in Nat
  OBVIOUS
<1>17. Begins(m, OP_BOOTREQUEST, xid, Zero, DHCPREQUEST)
  <2>1. Begins(b, OP_BOOTREQUEST, xid, Zero, DHCPREQUEST)
    BY <1>2, <1>7, <1>16, BeginsStays
  <2>2. Begins(c, OP_BOOTREQUEST, xid, Zero, DHCPREQUEST)
    BY <1>11, <1>16, <2>1, BeginsStays
  <2> QED
    BY <1>14, <1>16, <2>2, BeginsStays
<1>18. Holds(m, 7, OPT_PARAMETER_LIST, kRequestParameters)
  <2>1. Holds(b, 7, OPT_PARAMETER_LIST, kRequestParameters)
    BY <1>2, <1>5, <1>7, <1>16, HoldsStays
  <2>2. Holds(c, 7, OPT_PARAMETER_LIST, kRequestParameters)
    BY <1>8, <1>11, <1>16, <2>1, HoldsStays
  <2> QED
    BY <1>12, <1>14, <1>16, <2>2, HoldsStays
<1>19. Holds(m, 17, OPT_REQUESTED_IP, address)
  <2>1. Holds(c, 17, OPT_REQUESTED_IP, address)
    BY <1>8, <1>9, <1>11, <1>16, HoldsStays
  <2> QED
    BY <1>12, <1>14, <1>16, <2>1, HoldsStays
<1>20. Holds(m, 23, OPT_SERVER_ID, server)
  BY <1>12, <1>13, <1>14, <1>16, HoldsStays
<1>21. Holds(m, 4, OPT_MESSAGE_TYPE, t)
  BY <1>17 DEF Begins
<1>22. Len(t) = 1 /\ Len(kRequestParameters) = 8
  BY Parameters
<1> HIDE DEF t
<1>23. ASSUME NEW code, OPT_MESSAGE_TYPE # code, OPT_PARAMETER_LIST # code
       PROVE  GetOption(m, code) = GetOptionFrom(m, code)[17]
  <2>1. GetOptionFrom(m, code)[4] = GetOptionFrom(m, code)[7]
    <3>1. 7 < Len(m.options) /\ 7 = 4 + 2 + Len(t) /\ 7 \in Nat
      BY <1>15, <1>22
    <3>2. Leads(m, 4, 7, OPT_MESSAGE_TYPE)
      BY <1>15, <1>21, <1>23, <3>1, HoldsLeads
    <3> QED
      BY <1>15, <1>21, <1>23, <3>2, Codes, GetOptionSkip
  <2>2. GetOptionFrom(m, code)[7] = GetOptionFrom(m, code)[17]
    <3>1. 17 < Len(m.options) /\ 17 = 7 + 2 + Len(kRequestParameters) /\ 17 \in Nat
      BY <1>15, <1>22
    <3>2. Leads(m, 7, 17, OPT_PARAMETER_LIST)
      BY <1>15, <1>18, <1>23, <3>1, HoldsLeads
    <3> QED
      BY <1>15, <1>18, <1>23, <3>2, Codes, GetOptionSkip
  <2> QED
    BY <2>1, <2>2 DEF GetOption
<1>24. RequestedIp(m) = address
  <2>1. GetOptionFrom(m, OPT_REQUESTED_IP)[17] = address
    <3>1. 17 + 2 < Len(m.options)
      BY <1>15
    <3> QED
      BY <1>15, <1>19, <3>1, Codes, GetOptionHit
  <2>2. GetOption(m, OPT_REQUESTED_IP) = address
    BY <1>23, <2>1, Codes
  <2> QED
    BY <1>4, <2>2 DEF RequestedIp, AddressOption
<1>25. ServerId(m) = server
  <2>1. GetOptionFrom(m, OPT_SERVER_ID)[17] = GetOptionFrom(m, OPT_SERVER_ID)[23]
    <3>1. 23 < Len(m.options) /\ 23 = 17 + 2 + Len(address) /\ 23 \in Nat
      BY <1>4, <1>15
    <3>2. Leads(m, 17, 23, OPT_REQUESTED_IP)
      BY <1>15, <1>19, <3>1, HoldsLeads
    <3> QED
      BY <1>15, <1>19, <3>2, Codes, GetOptionSkip
  <2>2. GetOptionFrom(m, OPT_SERVER_ID)[23] = server
    <3>1. 23 + 2 < Len(m.options)
      BY <1>15
    <3> QED
      BY <1>15, <1>20, <3>1, Codes, GetOptionHit
  <2>3. GetOption(m, OPT_SERVER_ID) = server
    BY <1>23, <2>1, <2>2, Codes
  <2> QED
    BY <1>4, <2>3 DEF ServerId, AddressOption
<1>26. IsValidDhcpMessage(m, OP_BOOTREQUEST, xid) /\ Type(m) = DHCPREQUEST
  BY <1>1, <1>17, BeginsValid
<1> QED
  BY <1>3, <1>15, <1>24, <1>25, <1>26

-----------------------------------------------------------------------------
(* Replies: any list of options, and the loop of configureDhcp that reads it. *)

\* The options of a reply: a code that is not OPT_END and bytes.
LEMMA OptionFacts ==
  ASSUME NEW list \in Seq(Option), NEW k \in 1 .. Len(list)
  PROVE  /\ list[k].code \in Nat /\ list[k].code # OPT_END
         /\ list[k].value \in Seq(Nat)
<1> DEFINE o == list[k]
           v == o.value
<1>1. o \in Option
  OBVIOUS
<1> HIDE DEF o
<1>2. o.code \in 0 .. OPT_END - 1 /\ v \in Seq(Byte)
  BY <1>1 DEF Option
<1>3. o.code \in Nat /\ o.code # OPT_END
  <2> DEFINE c == o.code
  <2>1. c \in 0 .. 255 - 1
    BY <1>2 DEF OPT_END
  <2> HIDE DEF c
  <2>2. c \in Nat /\ c # 255
    BY <2>1
  <2> QED
    BY <2>2 DEF c, OPT_END
<1> HIDE DEF v
<1>4. v \in Seq(Byte)
  BY <1>2
<1>5. \A i \in 1 .. Len(v) : v[i] \in Byte
  BY <1>4
<1>6. \A i \in 1 .. Len(v) : v[i] \in Nat
  <2>1. Byte \subseteq Nat
    BY DEF Byte
  <2> QED
    BY <1>5, <2>1
<1>7. v = [i \in 1 .. Len(v) |-> v[i]] /\ Len(v) \in Nat
  BY <1>4
<1>8. [i \in 1 .. Len(v) |-> v[i]] \in Seq(Nat)
  BY <1>6, <1>7
<1>9. v \in Seq(Nat)
  BY <1>7, <1>8
<1> QED
  BY <1>3, <1>9 DEF o, v

\* A reply is made by adding one option after the other.
LEMMA AddOptionsStep ==
  ASSUME NEW m \in Messages, NEW list \in Seq(Option)
  PROVE  /\ AddOptions(m, list)[0] = m
         /\ \A k \in 0 .. Len(list) : AddOptions(m, list)[k] \in Messages
         /\ \A k \in 1 .. Len(list) :
              Added(AddOptions(m, list)[k], AddOptions(m, list)[k - 1], list[k].code, list[k].value)
<1> DEFINE N == Len(list)
           G == [k \in 1 .. N |-> [v \in Messages |-> AddOption(v, list[k].code, list[k].value)]]
           body(h, k) == IF k = 0 THEN m ELSE AddOption(h[k - 1], list[k].code, list[k].value)
           f == AddOptions(m, list)
<1>0. N \in Nat
  OBVIOUS
<1>1. \A k \in 1 .. N : \A v \in Messages :
        /\ Added(AddOption(v, list[k].code, list[k].value), v, list[k].code, list[k].value)
        /\ AddOption(v, list[k].code, list[k].value) \in Messages
  <2> SUFFICES ASSUME NEW k \in 1 .. N, NEW v \in Messages
               PROVE /\ Added(AddOption(v, list[k].code, list[k].value), v,
                              list[k].code, list[k].value)
                     /\ AddOption(v, list[k].code, list[k].value) \in Messages
    OBVIOUS
  <2> DEFINE c == list[k].code
             w == list[k].value
  <2>1. c \in Nat /\ w \in Seq(Nat)
    BY OptionFacts
  <2> HIDE DEF c, w
  <2>2. Added(AddOption(v, c, w), v, c, w)
    BY <2>1, AddOptionAdds
  <2>3. AddOption(v, c, w) \in Messages
    BY <2>2 DEF Added, Extended
  <2> QED
    BY <2>2, <2>3 DEF c, w
<1>2. G \in [1 .. N -> [Messages -> Messages]]
  <2> HIDE DEF N
  <2> QED
    BY <1>1
<1>3. PICK g : g \in Countings(Messages, m, G, N)
  <2> HIDE DEF G, N
  <2>1. Countings(Messages, m, G, N) # {}
    BY <1>0, <1>2, CountingRecursion
  <2> QED
    BY <2>1
<1> HIDE DEF N
<1>4. g \in [0 .. N -> Messages] /\ g[0] = m /\ \A k \in 1 .. N : g[k] = G[k][g[k - 1]]
  <2> HIDE DEF G
  <2> QED
    BY <1>3 DEF Countings
<1>5. g = [k \in 0 .. N |-> body(g, k)]
  <2>1. ASSUME NEW k \in 0 .. N PROVE g[k] = body(g, k)
    <3>1. CASE k = 0
      BY <1>4, <3>1
    <3>2. CASE k # 0
      <4>1. k \in 1 .. N /\ k - 1 \in 0 .. N
        BY <1>0, <3>2
      <4>2. g[k - 1] \in Messages
        BY <1>4, <4>1
      <4>3. G[k][g[k - 1]] = AddOption(g[k - 1], list[k].code, list[k].value)
        BY <4>1, <4>2
      <4> QED
        BY <1>4, <3>2, <4>1, <4>3
    <3> QED
      BY <3>1, <3>2
  <2> HIDE DEF body
  <2> QED
    BY <1>4, <2>1
<1>6. f = [k \in 0 .. N |-> body(f, k)]
  <2>1. \E h : h = [k \in 0 .. N |-> body(h, k)]
    BY <1>5
  <2> QED
    BY <2>1, Zenon DEF AddOptions, N
<1> HIDE DEF f
<1>7. f[0] = m
  BY <1>0, <1>6
<1>8. \A k \in 1 .. N : f[k] = AddOption(f[k - 1], list[k].code, list[k].value)
  <2> SUFFICES ASSUME NEW k \in 1 .. N
               PROVE  f[k] = AddOption(f[k - 1], list[k].code, list[k].value)
    OBVIOUS
  <2>1. k \in 0 .. N /\ k # 0
    BY <1>0
  <2>2. f[k] = body(f, k)
    <3> HIDE DEF body
    <3> QED
      BY <1>6, <2>1
  <2> QED
    BY <2>1, <2>2
<1> DEFINE T == {k \in 0 .. N : f[k] \in Messages}
<1>9. 0 \in T
  BY <1>0, <1>7
<1>10. ASSUME NEW k \in 1 .. N, k - 1 \in T PROVE k \in T
  <2>1. f[k - 1] \in Messages
    BY <1>10
  <2>2. f[k] \in Messages
    BY <1>1, <1>8, <2>1
  <2> QED
    BY <1>0, <2>2
<1>11. \A k \in 0 .. N : k \in T
  <2> HIDE DEF T
  <2> QED
    BY <1>0, <1>9, <1>10, BoundedInduction
<1>12. \A k \in 0 .. N : f[k] \in Messages
  BY <1>11
<1>13. ASSUME NEW k \in 1 .. N
       PROVE  Added(f[k], f[k - 1], list[k].code, list[k].value)
  <2>1. k - 1 \in 0 .. N
    BY <1>0
  <2>2. f[k - 1] \in Messages
    BY <1>12, <2>1
  <2> QED
    BY <1>1, <1>8, <2>2
<1> QED
  BY <1>7, <1>12, <1>13 DEF f, N

\* The reply before its options.
Empty(xid, type, address) == [NewMessage(OP_BOOTREPLY, xid, type) EXCEPT !.yiaddr = address]

\* The reply before its options begins as every message does.
LEMMA EmptyBegins ==
  ASSUME NEW xid \in Nat, NEW type \in Nat, NEW address \in Address
  PROVE  /\ Begins(Empty(xid, type, address), OP_BOOTREPLY, xid, address, type)
         /\ Len(Empty(xid, type, address).options) = 7
<1> DEFINE a == NewMessage(OP_BOOTREPLY, xid, type)
           r == Empty(xid, type, address)
           t == <<type>>
<1>1. Begins(a, OP_BOOTREPLY, xid, Zero, type) /\ Len(a.options) = 7
  <2>1. OP_BOOTREPLY \in Nat
    BY DEF OP_BOOTREPLY
  <2> QED
    BY <2>1, NewBegins
<1>2. r = [a EXCEPT !.yiaddr = address]
  BY DEF Empty
<1> HIDE DEF a, r, t
<1>3. a \in Messages
  BY <1>1 DEF Begins
<1>4. /\ r.options = a.options /\ r.op = a.op /\ r.htype = a.htype /\ r.hlen = a.hlen
      /\ r.xid = a.xid /\ r.yiaddr = address
      /\ r = [op |-> a.op, htype |-> a.htype, hlen |-> a.hlen, xid |-> a.xid,
              yiaddr |-> address, options |-> a.options]
  BY <1>2, <1>3 DEF Messages
<1>5. r \in Messages
  <2>1. /\ a.op \in Nat /\ a.htype \in Nat /\ a.hlen \in Nat /\ a.xid \in Nat
        /\ Len(a.options) >= 4
    BY <1>3, MessageFields
  <2>2. a.options \in Seq(Nat)
    BY <1>3, MessageFields
  <2> QED
    BY <1>4, <2>1, <2>2, MakeMessage
<1>6. \A i : At(r, i) = At(a, i)
  BY <1>4 DEF At
<1>7. Holds(a, 4, OPT_MESSAGE_TYPE, t)
  BY <1>1 DEF Begins, t
<1>8. Holds(r, 4, OPT_MESSAGE_TYPE, t)
  BY <1>4, <1>6, <1>7 DEF Holds
<1> QED
  BY <1>1, <1>4, <1>5, <1>6, <1>8 DEF Begins, r, t

\* The options of a message are those with the codes and values of 0 .. n,
\* one after the other at the offsets e, and the end.
Laid(m, e, n, code, value) ==
  /\ m \in Messages /\ n \in Nat /\ e \in [0 .. n + 1 -> Nat] /\ e[0] = 4
  /\ \A k \in 0 .. n : Holds(m, e[k], code[k], value[k])
  /\ \A k \in 0 .. n : code[k] # OPT_END
  /\ \A k \in 0 .. n : e[k + 1] = e[k] + 2 + Len(value[k])
  /\ At(m, e[n + 1]) = OPT_END /\ Len(m.options) = e[n + 1] + 1

\* The options of a reply, the type first.
CodesOf(list) == [k \in 0 .. Len(list) |-> IF k = 0 THEN OPT_MESSAGE_TYPE ELSE list[k].code]

\* Their values.
ValuesOf(type, list) == [k \in 0 .. Len(list) |-> IF k = 0 THEN <<type>> ELSE list[k].value]

\* The options of a reply lie one after the other, up to OPT_END.
LEMMA ReplyLaid ==
  ASSUME NEW xid \in Nat, NEW type \in Nat, NEW address \in Address, NEW list \in Seq(Option)
  PROVE  /\ Begins(Reply(xid, type, address, list), OP_BOOTREPLY, xid, address, type)
         /\ \E e : Laid(Reply(xid, type, address, list), e, Len(list), CodesOf(list),
                        ValuesOf(type, list))
<1> DEFINE N == Len(list)
           m == Empty(xid, type, address)
           A == AddOptions(m, list)
           r == Reply(xid, type, address, list)
           code == CodesOf(list)
           value == ValuesOf(type, list)
           e == [k \in 0 .. N + 1 |-> IF k = 0 THEN 4 ELSE Len(A[k - 1].options)]
           t == <<type>>
<1>0. N \in Nat
  OBVIOUS
<1>1. Begins(m, OP_BOOTREPLY, xid, address, type) /\ Len(m.options) = 7
  BY EmptyBegins
<1>2. r = EndOptions(A[N])
  BY DEF Reply, Empty
<1>t. Len(t) = 1
  OBVIOUS
<1> HIDE DEF m, r, t
<1>3. m \in Messages
  BY <1>1 DEF Begins
<1>4. /\ A[0] = m
      /\ \A k \in 0 .. N : A[k] \in Messages
      /\ \A k \in 1 .. N : Added(A[k], A[k - 1], list[k].code, list[k].value)
  BY <1>3, AddOptionsStep
<1> HIDE DEF A
<1>5. \A k \in 1 .. N : /\ list[k].code \in Nat /\ list[k].code # OPT_END
                        /\ list[k].value \in Seq(Nat)
  BY OptionFacts
<1>6. /\ code[0] = OPT_MESSAGE_TYPE /\ value[0] = t
      /\ \A k \in 1 .. N : code[k] = list[k].code /\ value[k] = list[k].value
  BY <1>0 DEF CodesOf, ValuesOf, t
<1> HIDE DEF N, code, value
<1>7. \A k \in 0 .. N : Len(A[k].options) \in Nat
  BY <1>4, MessageFields
<1>8. /\ e \in [0 .. N + 1 -> Nat] /\ e[0] = 4
      /\ \A k \in 0 .. N : e[k + 1] = Len(A[k].options)
  <2>1. \A k \in 0 .. N + 1 : k # 0 => k - 1 \in 0 .. N
    BY <1>0
  <2>2. \A k \in 0 .. N : k + 1 \in 0 .. N + 1 /\ k + 1 # 0 /\ (k + 1) - 1 = k
    BY <1>0
  <2>3. 0 \in 0 .. N + 1
    BY <1>0
  <2>4. e[0] = 4
    BY <2>3
  <2>5. e \in [0 .. N + 1 -> Nat]
    BY <1>7, <2>1
  <2>6. \A k \in 0 .. N : e[k + 1] = Len(A[k].options)
    BY <2>2
  <2> QED
    BY <2>4, <2>5, <2>6
<1> HIDE DEF e
<1>9. \A k \in 1 .. N : e[k] = Len(A[k - 1].options) /\ e[k] \in Nat
  <2>1. \A k \in 1 .. N : k - 1 \in 0 .. N /\ (k - 1) + 1 = k /\ k \in 0 .. N + 1
    BY <1>0
  <2> QED
    BY <1>8, <2>1
<1> DEFINE all(j) == /\ Begins(A[j], OP_BOOTREPLY, xid, address, type)
                     /\ \A k \in 1 .. j : Holds(A[j], e[k], list[k].code, list[k].value)
           T == {j \in 0 .. N : all(j)}
<1>10. 0 \in T
  BY <1>0, <1>1, <1>4
<1>11. ASSUME NEW j \in 1 .. N, j - 1 \in T PROVE j \in T
  <2> DEFINE a == A[j - 1]
             b == A[j]
             c == list[j].code
             v == list[j].value
             n == 2 + Len(v)
  <2>1. a \in Messages /\ b \in Messages
    BY <1>0, <1>4
  <2>2. Added(b, a, c, v) /\ v \in Seq(Nat)
    BY <1>4, <1>5
  <2>3. e[j] = Len(a.options)
    BY <1>9
  <2>4. Begins(a, OP_BOOTREPLY, xid, address, type)
    BY <1>11
  <2>5. \A k \in 1 .. j - 1 : Holds(a, e[k], list[k].code, list[k].value)
    BY <1>11
  <2> HIDE DEF a, b, c, v
  <2>6. Extended(b, a, n) /\ n \in Nat
    BY <2>2 DEF Added
  <2> HIDE DEF n
  <2>7. Begins(b, OP_BOOTREPLY, xid, address, type)
    BY <2>4, <2>6, BeginsStays
  <2>8. \A k \in 1 .. j - 1 : Holds(b, e[k], list[k].code, list[k].value)
    BY <2>1, <2>5, <2>6, HoldsStays
  <2>9. Holds(b, e[j], c, v)
    BY <2>1, <2>2, <2>3, HoldsAdded
  <2>10. \A k \in 1 .. j : k \in 1 .. j - 1 \/ k = j
    OBVIOUS
  <2>11. \A k \in 1 .. j : Holds(b, e[k], list[k].code, list[k].value)
    BY <2>8, <2>9, <2>10 DEF c, v
  <2> QED
    BY <1>0, <2>7, <2>11 DEF b
<1>12. \A j \in 0 .. N : j \in T
  <2> HIDE DEF T
  <2> QED
    BY <1>0, <1>10, <1>11, BoundedInduction
<1> DEFINE z == A[N]
<1>13. N \in T /\ z \in Messages
  BY <1>0, <1>4, <1>12
<1>14. Begins(z, OP_BOOTREPLY, xid, address, type)
  BY <1>13
<1>15. \A k \in 1 .. N : Holds(z, e[k], list[k].code, list[k].value)
  BY <1>13
<1>16. e[N + 1] = Len(z.options)
  BY <1>0, <1>8
<1> HIDE DEF z, T, all
<1>17. Extended(r, z, 1) /\ At(r, e[N + 1]) = OPT_END
  BY <1>2, <1>13, <1>16, EndOptionsAdds DEF z
<1>18. r \in Messages /\ Len(r.options) = e[N + 1] + 1
  BY <1>16, <1>17 DEF Extended
<1>19. 1 \in Nat
  OBVIOUS
<1>20. Begins(r, OP_BOOTREPLY, xid, address, type)
  BY <1>14, <1>17, <1>19, BeginsStays
<1>21. \A k \in 1 .. N : Holds(r, e[k], list[k].code, list[k].value)
  BY <1>13, <1>15, <1>17, <1>19, HoldsStays
<1>22. Holds(r, 4, OPT_MESSAGE_TYPE, t)
  BY <1>20 DEF Begins, t
<1>23. \A k \in 0 .. N : k = 0 \/ k \in 1 .. N
  BY <1>0
<1>24. \A k \in 0 .. N : Holds(r, e[k], code[k], value[k])
  BY <1>6, <1>8, <1>21, <1>22, <1>23
<1>25. \A k \in 0 .. N : code[k] # OPT_END
  BY <1>5, <1>6, <1>23, Codes
<1>26. ASSUME NEW k \in 0 .. N PROVE e[k + 1] = e[k] + 2 + Len(value[k])
  <2>1. CASE k = 0
    <3>1. e[0 + 1] = Len(A[0].options)
      BY <1>0, <1>8
    <3>2. k + 1 = 0 + 1 /\ e[k] = 4 /\ value[k] = t
      BY <1>6, <1>8, <2>1
    <3>3. e[k + 1] = 7 /\ Len(value[k]) = 1
      BY <1>1, <1>4, <1>t, <3>1, <3>2
    <3> QED
      BY <3>2, <3>3
  <2>2. CASE k \in 1 .. N
    <3> DEFINE a == A[k - 1]
               b == A[k]
               v == list[k].value
               L == Len(a.options)
    <3>1. Added(b, a, list[k].code, v) /\ v \in Seq(Nat)
      BY <1>4, <1>5, <2>2
    <3>2. e[k] = L /\ e[k + 1] = Len(b.options) /\ L \in Nat
      BY <1>8, <1>9, <2>2
    <3> HIDE DEF a, b, v
    <3>3. Len(b.options) = L + (2 + Len(v)) /\ Len(v) \in Nat
      BY <3>1 DEF Added, Extended
    <3> HIDE DEF L
    <3>4. Len(b.options) = L + 2 + Len(v)
      BY <3>2, <3>3
    <3> QED
      BY <1>6, <2>2, <3>2, <3>4 DEF v
  <2> QED
    BY <1>23, <2>1, <2>2
<1>27. Laid(r, e, N, code, value)
  BY <1>0, <1>8, <1>17, <1>18, <1>24, <1>25, <1>26 DEF Laid
<1> QED
  BY <1>20, <1>27 DEF r, N, code, value

\* configureDhcp's loop over the options ends, and one turn of it is what its
\* body says.
LEMMA OffsetsStep ==
  ASSUME NEW m \in Messages, NEW i \in Nat
  PROVE  OffsetsFrom(m)[i] =
           IF i + 1 >= Len(m.options) \/ At(m, i) = OPT_END THEN {}
           ELSE {i} \cup OffsetsFrom(m)[i + 2 + At(m, i + 1)]
<1> DEFINE L == Len(m.options)
           stop(x) == x + 1 >= L \/ At(m, x) = OPT_END
           S == SUBSET Nat
           D == {x \in Nat : stop(x)}
           B == [x \in Nat |-> {}]
           G == [x \in Nat |-> [v \in S |-> {x} \cup v]]
           next == [x \in Nat |-> x + 2 + At(m, x + 1)]
           rank == [x \in Nat |-> IF x < L THEN L - x ELSE 0]
           f == OffsetsFrom(m)
<1>1. L \in Nat
  BY DEF Messages
<1>2. \A x \in Nat : At(m, x + 1) \in Nat
  BY AtFacts
<1>3. \A x \in Nat : x + 2 + At(m, x + 1) \in Nat /\ x + 2 + At(m, x + 1) > x
  <2> SUFFICES ASSUME NEW x \in Nat
               PROVE  x + 2 + At(m, x + 1) \in Nat /\ x + 2 + At(m, x + 1) > x
    OBVIOUS
  <2> DEFINE a == At(m, x + 1)
  <2>1. a \in Nat
    BY <1>2
  <2> HIDE DEF a
  <2>2. x + 2 + a \in Nat /\ x + 2 + a > x
    BY <2>1
  <2> QED
    BY <2>2 DEF a
<1> HIDE DEF L
<1>4. IsRecursion(Nat, S, D, B, G, next, rank)
  <2>1. B \in [Nat -> S] /\ G \in [Nat -> [S -> S]]
    OBVIOUS
  <2>2. next \in [Nat -> Nat] /\ rank \in [Nat -> Nat]
    <3>1. next \in [Nat -> Nat]
      BY <1>3
    <3>2. rank \in [Nat -> Nat]
      BY <1>1
    <3> QED
      BY <3>1, <3>2
  <2>3. ASSUME NEW x \in Nat, x \notin D PROVE rank[next[x]] < rank[x]
    <3>1. x + 1 < L
      BY <1>1, <2>3
    <3>2. next[x] \in Nat /\ next[x] > x
      BY <1>3
    <3> HIDE DEF next
    <3> QED
      BY <1>1, <3>1, <3>2
  <2> QED
    BY <2>1, <2>2, <2>3, Zenon DEF IsRecursion
<1>5. PICK g : g \in Solutions(Nat, S, D, B, G, next)
  <2> HIDE DEF S, D, B, G, next, rank
  <2> QED
    BY <1>4, RankedRecursion
<1>6. g \in [Nat -> S] /\ \A x \in Nat : g[x] = IF x \in D THEN B[x] ELSE G[x][g[next[x]]]
  BY <1>5 DEF Solutions
<1> DEFINE body(h, x) == IF stop(x) THEN {} ELSE {x} \cup h[x + 2 + At(m, x + 1)]
<1>7. g = [x \in Nat |-> body(g, x)]
  <2>1. ASSUME NEW x \in Nat PROVE g[x] = body(g, x)
    <3>1. next[x] = x + 2 + At(m, x + 1) /\ next[x] \in Nat /\ g[next[x]] \in S
      BY <1>3, <1>6
    <3>2. G[x][g[next[x]]] = {x} \cup g[next[x]]
      BY <3>1
    <3>3. (x \in D <=> stop(x)) /\ B[x] = {}
      OBVIOUS
    <3> HIDE DEF D, B, G, next, S, stop
    <3> QED
      BY <1>6, <3>1, <3>2, <3>3
  <2> QED
    BY <1>6, <2>1
<1>8. f = [x \in Nat |-> body(f, x)]
  <2>1. \E h : h = [x \in Nat |-> body(h, x)]
    BY <1>7
  <2> QED
    BY <2>1 DEF OffsetsFrom, L
<1> HIDE DEF f
<1>9. f[i] = body(f, i)
  BY <1>8
<1> QED
  BY <1>9 DEF f, L

\* What follows from a layout, in terms of the offsets.
LEMMA LaidFacts ==
  ASSUME NEW m, NEW e, NEW n, NEW code, NEW value, Laid(m, e, n, code, value)
  PROVE  /\ m \in Messages /\ n \in Nat /\ e \in [0 .. n + 1 -> Nat] /\ e[0] = 4
         /\ \A k \in 0 .. n + 1 : e[k] \in Nat
         /\ \A k \in 0 .. n : /\ e[k + 1] \in Nat /\ e[k] < e[k + 1] /\ e[k] \in Nat
                              /\ At(m, e[k]) = code[k] /\ code[k] # OPT_END
                              /\ At(m, e[k] + 1) = Len(value[k])
                              /\ ValueAt(m, e[k]) = value[k]
                              /\ e[k + 1] = e[k] + 2 + At(m, e[k] + 1)
                              /\ Len(value[k]) \in Nat
         /\ At(m, e[n + 1]) = OPT_END /\ Len(m.options) = e[n + 1] + 1
<1>1. /\ m \in Messages /\ n \in Nat /\ e \in [0 .. n + 1 -> Nat] /\ e[0] = 4
      /\ At(m, e[n + 1]) = OPT_END /\ Len(m.options) = e[n + 1] + 1
  BY DEF Laid
<1>2. \A k \in 0 .. n + 1 : e[k] \in Nat
  BY <1>1
<1>3. ASSUME NEW k \in 0 .. n
      PROVE  /\ e[k + 1] \in Nat /\ e[k] < e[k + 1] /\ e[k] \in Nat
             /\ At(m, e[k]) = code[k] /\ code[k] # OPT_END
             /\ At(m, e[k] + 1) = Len(value[k])
             /\ ValueAt(m, e[k]) = value[k]
             /\ e[k + 1] = e[k] + 2 + At(m, e[k] + 1)
             /\ Len(value[k]) \in Nat
  <2> DEFINE i == e[k]
             j == e[k + 1]
             c == code[k]
             v == value[k]
  <2>1. k + 1 \in 0 .. n + 1 /\ k \in 0 .. n + 1
    BY <1>1
  <2>2. i \in Nat /\ j \in Nat
    BY <1>2, <2>1
  <2>3. Holds(m, i, c, v) /\ c # OPT_END /\ j = i + 2 + Len(v)
    BY DEF Laid
  <2> HIDE DEF i, j, c, v
  <2>4. ValueAt(m, i) = v
    BY <1>1, <2>3, HoldsValue
  <2>5. At(m, i) = c /\ At(m, i + 1) = Len(v) /\ Len(v) \in Nat
    BY <2>3 DEF Holds
  <2>6. i < j
    BY <2>2, <2>3, <2>5
  <2> QED
    BY <2>2, <2>3, <2>4, <2>5, <2>6 DEF i, j, c, v
<1> QED
  BY <1>1, <1>2, <1>3

\* The offsets grow.
LEMMA LaidGrows ==
  ASSUME NEW m, NEW e, NEW n, NEW code, NEW value, Laid(m, e, n, code, value)
  PROVE  \A k \in 0 .. n + 1 : \A j \in 0 .. n + 1 : j < k => e[j] < e[k]
<1>1. n \in Nat /\ (\A k \in 0 .. n + 1 : e[k] \in Nat) /\ \A k \in 0 .. n : e[k] < e[k + 1]
  BY LaidFacts
<1> DEFINE N == n + 1
           T == {k \in 0 .. N : \A j \in 0 .. N : j < k => e[j] < e[k]}
<1>2. 0 \in T
  BY <1>1
<1>3. ASSUME NEW k \in 1 .. N, k - 1 \in T PROVE k \in T
  <2>1. k - 1 \in 0 .. n /\ (k - 1) + 1 = k /\ k - 1 \in 0 .. N /\ k \in 0 .. N
    BY <1>1
  <2>2. e[k - 1] < e[k] /\ e[k - 1] \in Nat /\ e[k] \in Nat
    BY <1>1, <2>1
  <2>3. ASSUME NEW j \in 0 .. N, j < k PROVE e[j] < e[k]
    <3>1. CASE j = k - 1
      BY <2>2, <3>1
    <3>2. CASE j < k - 1
      <4>1. e[j] < e[k - 1] /\ e[j] \in Nat
        BY <1>1, <1>3, <3>2
      <4> DEFINE x == e[j]
                 y == e[k - 1]
                 w == e[k]
      <4>2. x \in Nat /\ y \in Nat /\ w \in Nat /\ x < y /\ y < w
        BY <2>2, <4>1
      <4> HIDE DEF x, y, w
      <4>3. x < w
        BY <4>2
      <4> QED
        BY <4>3 DEF x, w
    <3> QED
      BY <2>3, <3>1, <3>2
  <2> QED
    BY <2>1, <2>3
<1>4. N \in Nat
  BY <1>1
<1>5. \A k \in 0 .. N : k \in T
  <2> HIDE DEF T, N
  <2> QED
    BY <1>2, <1>3, <1>4, BoundedInduction
<1> QED
  BY <1>5

\* The loop visits the offsets of the options.
LEMMA LaidOffsets ==
  ASSUME NEW m, NEW e, NEW n, NEW code, NEW value, Laid(m, e, n, code, value)
  PROVE  OptionOffsets(m) = {e[k] : k \in 0 .. n}
<1> DEFINE N == n + 1
           f == OffsetsFrom(m)
           here(d) == f[e[N - d]] = {e[k] : k \in N - d .. n}
           T == {d \in 0 .. N : here(d)}
<1>1. m \in Messages /\ n \in Nat /\ N \in Nat /\ e[0] = 4 /\ (\A k \in 0 .. N : e[k] \in Nat)
  BY LaidFacts
<1>2. 0 \in T
  <2>1. At(m, e[N]) = OPT_END /\ e[N] \in Nat
    BY <1>1, LaidFacts
  <2>2. f[e[N]] = {}
    BY <1>1, <2>1, OffsetsStep
  <2>3. N - 0 = N /\ N - 0 .. n = {}
    BY <1>1
  <2>4. 0 \in 0 .. N
    BY <1>1
  <2> HIDE DEF f, N
  <2> QED
    BY <2>2, <2>3, <2>4
<1>3. ASSUME NEW d \in 1 .. N, d - 1 \in T PROVE d \in T
  <2> DEFINE k == N - d
             i == e[k]
             j == e[k + 1]
             L == Len(m.options)
  <2>1. k \in 0 .. n /\ k + 1 = N - (d - 1) /\ N \in 0 .. N /\ k \in 0 .. N /\ k < N
    BY <1>1
  <2>2. /\ i \in Nat /\ j \in Nat /\ i < j /\ At(m, i) # OPT_END
        /\ j = i + 2 + At(m, i + 1)
    <3>1. k \in 0 .. n
      BY <2>1
    <3> HIDE DEF k
    <3> QED
      BY <3>1, LaidFacts
  <2>3. L = e[N] + 1 /\ e[N] \in Nat
    BY <1>1, LaidFacts
  <2>4. i < e[N]
    <3> HIDE DEF k
    <3> QED
      BY <2>1, LaidGrows
  <2>5. ~ (i + 1 >= L)
    <3> DEFINE z == e[N]
    <3>1. z \in Nat /\ L = z + 1 /\ i < z /\ i \in Nat
      BY <2>2, <2>3, <2>4
    <3> HIDE DEF z, i, L
    <3> QED
      BY <3>1
  <2>6. f[i] = {i} \cup f[j]
    <3> HIDE DEF i, j, f
    <3> QED
      BY <1>1, <2>2, <2>5, OffsetsStep DEF f
  <2>7. f[j] = {e[x] : x \in k + 1 .. n}
    BY <1>3, <2>1
  <2>8. k .. n = {k} \cup (k + 1 .. n)
    BY <1>1, <2>1
  <2>9. {e[x] : x \in k .. n} = {i} \cup {e[x] : x \in k + 1 .. n}
    <3> HIDE DEF k
    <3> QED
      BY <2>8
  <2>10. f[e[k]] = {e[x] : x \in k .. n}
    <3> HIDE DEF k, f
    <3> QED
      BY <2>6, <2>7, <2>9
  <2> QED
    BY <1>1, <2>10
<1>4. \A d \in 0 .. N : d \in T
  <2> HIDE DEF T, N
  <2> QED
    BY <1>1, <1>2, <1>3, BoundedInduction
<1>5. N \in T /\ N - N = 0
  <2> HIDE DEF T, N
  <2>1. N \in 0 .. N /\ N - N = 0
    BY <1>1
  <2> QED
    BY <1>4, <2>1
<1>6. f[e[0]] = {e[k] : k \in 0 .. n}
  <2> HIDE DEF f, N
  <2> QED
    BY <1>5
<1> QED
  BY <1>1, <1>6 DEF OptionOffsets

\* A bounded set of numbers that is not empty has a greatest member.
LEMMA GreatestNumber ==
  ASSUME NEW n \in Nat, NEW T, T \subseteq 0 .. n, T # {}
  PROVE  \E x \in T : \A y \in T : y <= x
<1> DEFINE U == {d \in Nat : n - d \in T}
<1>1. \A y \in T : y \in 0 .. n /\ n - y \in U
  <2> SUFFICES ASSUME NEW y \in T PROVE y \in 0 .. n /\ n - y \in U
    OBVIOUS
  <2>1. y \in 0 .. n
    OBVIOUS
  <2>2. n - y \in Nat /\ n - (n - y) = y
    BY <2>1
  <2> QED
    BY <2>1, <2>2
<1>2. U # {} /\ U \in SUBSET Nat
  BY <1>1
<1> HIDE DEF U
<1>3. PICK d \in U : \A b \in U : d <= b
  BY <1>2, LeastNumber
<1>4. n - d \in T /\ d \in Nat
  BY DEF U
<1>5. ASSUME NEW y \in T PROVE y <= n - d
  <2>1. y \in Int /\ n - y \in U
    BY <1>1
  <2>2. d <= n - y
    BY <1>3, <2>1
  <2> QED
    BY <1>4, <2>1, <2>2
<1> QED
  BY <1>4, <1>5

\* Max is the greatest member.
LEMMA MaxIs ==
  ASSUME NEW S \in SUBSET Nat, NEW x \in S, \A y \in S : y <= x
  PROVE  Max(S) = x
<1>1. \A y \in S : x >= y
  OBVIOUS
<1>2. /\ Max(S) \in S
      /\ \A y \in S : Max(S) >= y
  <2>1. \E z \in S : \A y \in S : z >= y
    BY <1>1
  <2> QED
    BY <2>1 DEF Max
<1>3. Max(S) >= x /\ x >= Max(S) /\ Max(S) \in Nat
  BY <1>1, <1>2
<1> QED
  BY <1>3

\* The options of 0 .. n with a code and one of some lengths, and the value
\* of the last one.
Positions(n, code, value, c, lengths) ==
  {k \in 0 .. n : code[k] = c /\ Len(value[k]) \in lengths}

\* Of several options with one code the last one of an accepted length counts.
LEMMA LaidLast ==
  ASSUME NEW m, NEW e, NEW n, NEW code, NEW value, Laid(m, e, n, code, value),
         NEW c, NEW lengths, NEW P, P = Positions(n, code, value, c, lengths)
  PROVE  /\ P = {} => LastValue(m, c, lengths) = <<>>
         /\ P # {} => Max(P) \in P /\ LastValue(m, c, lengths) = value[Max(P)]
<1> DEFINE W == {i \in OptionOffsets(m) : At(m, i) = c /\ At(m, i + 1) \in lengths}
<1>1. /\ n \in Nat
      /\ \A k \in 0 .. n : /\ e[k] \in Nat /\ At(m, e[k]) = code[k]
                           /\ At(m, e[k] + 1) = Len(value[k]) /\ ValueAt(m, e[k]) = value[k]
  BY LaidFacts
<1>2. W = {e[k] : k \in P}
  BY <1>1, LaidOffsets DEF Positions
<1>3. LastValue(m, c, lengths) = IF W = {} THEN <<>> ELSE ValueAt(m, Max(W))
  BY DEF LastValue
<1>4. P \subseteq 0 .. n
  BY DEF Positions
<1> HIDE DEF W
<1>5. CASE P = {}
  BY <1>2, <1>3, <1>5
<1>6. CASE P # {}
  <2>1. PICK x \in P : \A y \in P : y <= x
    BY <1>1, <1>4, <1>6, GreatestNumber
  <2>2. P \in SUBSET Nat /\ W \in SUBSET Nat
    BY <1>1, <1>2, <1>4
  <2>3. Max(P) = x
    BY <2>1, <2>2, MaxIs
  <2>4. e[x] \in W /\ e[x] \in Nat
    BY <1>1, <1>2, <1>4
  <2>5. ASSUME NEW w \in W PROVE w <= e[x]
    <3>1. PICK y \in P : w = e[y]
      BY <1>2
    <3>2. x \in 0 .. n + 1 /\ y \in 0 .. n + 1 /\ y <= x
      BY <1>1, <1>4, <2>1
    <3>3. y < x => e[y] < e[x]
      BY <3>2, LaidGrows
    <3>4. y < x \/ y = x
      BY <3>2
    <3> DEFINE a == e[x]
    <3>5. a \in Nat /\ w \in Nat /\ (w < a \/ w = a)
      BY <2>2, <2>4, <3>1, <3>3, <3>4
    <3> HIDE DEF a
    <3>6. w <= a
      BY <3>5
    <3> QED
      BY <3>6 DEF a
  <2>6. Max(W) = e[x]
    BY <2>2, <2>4, <2>5, MaxIs
  <2>7. LastValue(m, c, lengths) = value[x]
    BY <1>1, <1>3, <1>4, <2>4, <2>6
  <2> QED
    BY <1>6, <2>3, <2>7
<1> QED
  BY <1>5, <1>6

\* configureDhcp's loop finds no option that does not fit.
LEMMA LaidFits ==
  ASSUME NEW m, NEW e, NEW n, NEW code, NEW value, Laid(m, e, n, code, value)
  PROVE  OptionsFit(m)
<1> DEFINE L == Len(m.options)
<1>1. /\ m \in Messages /\ n \in Nat
      /\ L = e[n + 1] + 1
      /\ \A k \in 0 .. n : /\ e[k + 1] \in Nat /\ e[k] \in Nat /\ At(m, e[k] + 1) \in Nat
                           /\ e[k + 1] = e[k] + 2 + At(m, e[k] + 1)
  <2>1. m \in Messages /\ n \in Nat /\ L = e[n + 1] + 1
    BY LaidFacts
  <2>2. ASSUME NEW k \in 0 .. n
        PROVE  /\ e[k + 1] \in Nat /\ e[k] \in Nat /\ At(m, e[k] + 1) \in Nat
               /\ e[k + 1] = e[k] + 2 + At(m, e[k] + 1)
    <3>1. /\ e[k + 1] \in Nat /\ e[k] \in Nat /\ At(m, e[k] + 1) = Len(value[k])
          /\ e[k + 1] = e[k] + 2 + At(m, e[k] + 1) /\ Len(value[k]) \in Nat
      BY LaidFacts
    <3> QED
      BY <3>1
  <2> QED
    BY <2>1, <2>2
<1>2. L >= 4
  BY <1>1, MessageFields
<1> HIDE DEF L
<1>3. ASSUME NEW k \in 0 .. n PROVE e[k] + At(m, e[k] + 1) < L
  <2> DEFINE i == e[k]
             s == At(m, e[k] + 1)
             j == e[k + 1]
             z == e[n + 1]
  <2>1. i \in Nat /\ s \in Nat /\ j = i + 2 + s
    BY <1>1
  <2>2. z \in Nat /\ j <= z
    <3>1. n \in 0 .. n /\ k + 1 \in 0 .. n + 1 /\ n + 1 \in 0 .. n + 1 /\ (k + 1 < n + 1 \/ k = n)
      BY <1>1
    <3>2. z \in Nat /\ j \in Nat
      BY <1>1, <3>1
    <3>3. j < z \/ j = z
      BY <3>1, LaidGrows
    <3> HIDE DEF j, z
    <3> QED
      BY <3>2, <3>3
  <2>3. L = z + 1
    BY <1>1
  <2> HIDE DEF i, s, j, z
  <2>4. i + s < L
    BY <2>1, <2>2, <2>3
  <2> QED
    BY <2>4 DEF i, s
<1>4. \A i \in OptionOffsets(m) : i + At(m, i + 1) < L
  BY <1>3, LaidOffsets
<1> QED
  BY <1>2, <1>4 DEF OptionsFit, L

\* What the last option of a list gives, and what configureDhcp reads.
LEMMA GivenRead ==
  ASSUME NEW m, NEW e, NEW type, NEW list \in Seq(Option),
         Laid(m, e, Len(list), CodesOf(list), ValuesOf(type, list)),
         NEW c, c # OPT_MESSAGE_TYPE, NEW lengths
  PROVE  /\ LastValue(m, c, lengths) = Given(list, c, lengths)
         /\ Given(list, c, lengths) = <<>>
              \/ (Given(list, c, lengths) \in Seq(Nat) /\ Len(Given(list, c, lengths)) \in lengths)
<1> DEFINE n == Len(list)
           code == CodesOf(list)
           value == ValuesOf(type, list)
           P == Positions(n, code, value, c, lengths)
           Q == {i \in DOMAIN list : list[i].code = c /\ Len(list[i].value) \in lengths}
<1>1. n \in Nat /\ DOMAIN list = 1 .. n
  OBVIOUS
<1>2. \A k \in 0 .. n : k = 0 \/ k \in 1 .. n
  BY <1>1
<1>3. code[0] = OPT_MESSAGE_TYPE
  BY <1>1 DEF CodesOf
<1>4. \A k \in 1 .. n : k \in 0 .. n /\ code[k] = list[k].code /\ value[k] = list[k].value
  BY <1>1 DEF CodesOf, ValuesOf
<1>5. Laid(m, e, n, code, value)
  OBVIOUS
<1>6. \A k \in 1 .. n : list[k].value \in Seq(Nat)
  BY OptionFacts
<1> HIDE DEF n, code, value
<1>7. P = Q
  BY <1>1, <1>2, <1>3, <1>4 DEF Positions
<1>8. Given(list, c, lengths) = IF Q = {} THEN <<>> ELSE list[Max(Q)].value
  BY DEF Given
<1>9. \A k \in Q : k \in 1 .. n /\ Len(list[k].value) \in lengths
  BY <1>1
<1> HIDE DEF Q
<1>10. /\ Q = {} => LastValue(m, c, lengths) = <<>>
       /\ Q # {} => Max(Q) \in Q /\ LastValue(m, c, lengths) = value[Max(Q)]
  BY <1>5, <1>7, LaidLast
<1>11. CASE Q = {}
  BY <1>8, <1>10, <1>11
<1>12. CASE Q # {}
  BY <1>4, <1>6, <1>8, <1>9, <1>10, <1>12
<1> QED
  BY <1>11, <1>12

\* No option that configureDhcp reads has the code of the type.
LEMMA CodesDiffer ==
  /\ OPT_LEASE_TIME # OPT_MESSAGE_TYPE /\ OPT_T1 # OPT_MESSAGE_TYPE /\ OPT_T2 # OPT_MESSAGE_TYPE
  /\ OPT_SUBNET_MASK # OPT_MESSAGE_TYPE /\ OPT_SERVER_ID # OPT_MESSAGE_TYPE
  /\ OPT_GATEWAY # OPT_MESSAGE_TYPE /\ OPT_MTU # OPT_MESSAGE_TYPE /\ OPT_DNS # OPT_MESSAGE_TYPE
BY DEF OPT_LEASE_TIME, OPT_T1, OPT_T2, OPT_SUBNET_MASK, OPT_SERVER_ID, OPT_GATEWAY, OPT_MTU,
       OPT_DNS, OPT_MESSAGE_TYPE

\* configureDhcp reads the list.
LEMMA LaidRead ==
  ASSUME NEW m, NEW e, NEW type, NEW t, t.list \in Seq(Option), m.yiaddr = t.address,
         Laid(m, e, Len(t.list), CodesOf(t.list), ValuesOf(type, t.list))
  PROVE  DhcpInfo(m, numDns) = Lease(t)
<1> DEFINE list == t.list
           address(code) == LET value == LastValue(m, code, {4})
                            IN IF value = <<>> THEN Zero ELSE value
           lengths(i) == 4 * i .. 255
           info == DhcpInfo(m, numDns)
           lease == Lease(t)
<1>1. ASSUME NEW c, c # OPT_MESSAGE_TYPE, NEW ls
      PROVE  /\ LastValue(m, c, ls) = Given(list, c, ls)
             /\ Given(list, c, ls) = <<>>
                 \/ (Given(list, c, ls) \in Seq(Nat) /\ Len(Given(list, c, ls)) \in ls)
  BY <1>1, GivenRead
<1> HIDE DEF list
<1>2. ASSUME NEW c, c # OPT_MESSAGE_TYPE PROVE address(c) = GivenAddress(list, c, 1, {4})
  <2> DEFINE v == Given(list, c, {4})
  <2>1. LastValue(m, c, {4}) = v /\ (v = <<>> \/ (v \in Seq(Nat) /\ Len(v) \in {4}))
    BY <1>1, <1>2
  <2>2. GivenAddress(list, c, 1, {4}) = IF v = <<>> THEN Zero ELSE SubSeq(v, 4 * 1 - 3, 4 * 1)
    BY DEF GivenAddress
  <2> HIDE DEF v
  <2>3. v \in Seq(Nat) /\ Len(v) = 4 => SubSeq(v, 4 * 1 - 3, 4 * 1) = v
    OBVIOUS
  <2> QED
    BY <2>1, <2>2, <2>3
<1>3. ASSUME NEW i, NEW c, c # OPT_MESSAGE_TYPE
      PROVE  NthAddress(m, c, i) = GivenAddress(list, c, i, lengths(i))
  <2> DEFINE ls == lengths(i)
  <2> HIDE DEF ls
  <2>1. LastValue(m, c, ls) = Given(list, c, ls)
    BY <1>1, <1>3
  <2> QED
    BY <2>1, Zenon DEF NthAddress, GivenAddress, ls
<1>4. NthAddress(m, OPT_GATEWAY, 1) = GivenAddress(list, OPT_GATEWAY, 1, 4 .. 255)
  <2>1. lengths(1) = 4 .. 255
    OBVIOUS
  <2>2. NthAddress(m, OPT_GATEWAY, 1) = GivenAddress(list, OPT_GATEWAY, 1, lengths(1))
    BY <1>3, CodesDiffer, Zenon
  <2> HIDE DEF lengths
  <2> QED
    BY <2>1, <2>2
<1>5. [i \in 1 .. numDns |-> NthAddress(m, OPT_DNS, i)]
        = [i \in 1 .. numDns |-> GivenAddress(list, OPT_DNS, i, 4 * i .. 255)]
  <2>1. \A i \in 1 .. numDns :
          NthAddress(m, OPT_DNS, i) = GivenAddress(list, OPT_DNS, i, 4 * i .. 255)
    BY <1>3, CodesDiffer, Zenon
  <2> QED
    BY <2>1, Zenon
<1>6. /\ LastValue(m, OPT_LEASE_TIME, {4}) = Given(list, OPT_LEASE_TIME, {4})
      /\ LastValue(m, OPT_T1, {4}) = Given(list, OPT_T1, {4})
      /\ LastValue(m, OPT_T2, {4}) = Given(list, OPT_T2, {4})
      /\ LastValue(m, OPT_MTU, {2}) = Given(list, OPT_MTU, {2})
  BY <1>1, CodesDiffer, Zenon
<1>7. /\ address(OPT_SUBNET_MASK) = GivenAddress(list, OPT_SUBNET_MASK, 1, {4})
      /\ address(OPT_SERVER_ID) = GivenAddress(list, OPT_SERVER_ID, 1, {4})
  BY <1>2, CodesDiffer, Zenon
<1>8. info = [leaseTime |-> Number(LastValue(m, OPT_LEASE_TIME, {4})),
              t1 |-> Number(LastValue(m, OPT_T1, {4})),
              t2 |-> Number(LastValue(m, OPT_T2, {4})),
              subnetMask |-> address(OPT_SUBNET_MASK), serverId |-> address(OPT_SERVER_ID),
              gateway |-> NthAddress(m, OPT_GATEWAY, 1),
              mtu |-> Number(LastValue(m, OPT_MTU, {2})),
              dns |-> [i \in 1 .. numDns |-> NthAddress(m, OPT_DNS, i)],
              offeredAddress |-> m.yiaddr]
  BY DEF DhcpInfo
<1>9. lease = [leaseTime |-> Number(Given(list, OPT_LEASE_TIME, {4})),
               t1 |-> Number(Given(list, OPT_T1, {4})),
               t2 |-> Number(Given(list, OPT_T2, {4})),
               subnetMask |-> GivenAddress(list, OPT_SUBNET_MASK, 1, {4}),
               serverId |-> GivenAddress(list, OPT_SERVER_ID, 1, {4}),
               gateway |-> GivenAddress(list, OPT_GATEWAY, 1, 4 .. 255),
               mtu |-> Number(Given(list, OPT_MTU, {2})),
               dns |-> [i \in 1 .. numDns |-> GivenAddress(list, OPT_DNS, i, 4 * i .. 255)],
               offeredAddress |-> t.address]
  BY DEF Lease, list
<1> HIDE DEF info, lease, address
<1>10. info = lease
  BY <1>4, <1>5, <1>6, <1>7, <1>8, <1>9, Zenon
<1> QED
  BY <1>10 DEF info, lease

\* What a client reads from a reply.
LEMMA ReplyReads ==
  ASSUME NEW xid \in Nat, NEW type \in Nat, NEW address \in Address,
         NEW list \in Seq(Option), NEW t, t.list = list, t.address = address, NEW m,
         m = Reply(xid, type, address, list)
  PROVE  /\ m \in Messages /\ Type(m) = type
         /\ OptionsFit(m) /\ DhcpInfo(m, numDns) = Lease(t)
<1>3. /\ Begins(m, OP_BOOTREPLY, xid, address, type)
      /\ \E e : Laid(m, e, Len(list), CodesOf(list), ValuesOf(type, list))
  BY ReplyLaid
<1>4. PICK e : Laid(m, e, Len(list), CodesOf(list), ValuesOf(type, list))
  BY <1>3
<1>5. m \in Messages /\ m.yiaddr = t.address
  BY <1>3 DEF Begins
<1>6. Type(m) = type
  BY <1>3, BeginsValid
<1>7. OptionsFit(m)
  BY <1>4, LaidFits
<1>8. DhcpInfo(m, numDns) = Lease(t)
  BY <1>4, <1>5, LaidRead
<1> QED
  BY <1>5, <1>6, <1>7, <1>8

-----------------------------------------------------------------------------
(* The inductive invariant of the wire.                                    *)

\* The frame of a DISCOVER on the wire.
SentDiscover(w) ==
  w = [to |-> "server", type |-> DHCPDISCOVER, address |-> Zero, server |-> Zero,
       frame |-> RawFrame(Zero, 68, Broadcast, 67, Bytes(Discover(1)))]

\* The frame of a REQUEST on the wire.
SentRequest(w) ==
  \E address \in OfferedAddresses :
    w = [to |-> "server", type |-> DHCPREQUEST, address |-> address, server |-> ServerAddress,
         frame |-> RawFrame(Zero, 68, Broadcast, 67, Bytes(Request(1, address, ServerAddress)))]

\* The frame of a reply on the wire, complete or cut.
Replied(w) == \E r \in Replies, address \in OfferedAddresses : w = ReplyFrame(r, address)

\* A frame of other traffic, which isValidFrame refuses.
Foreign(w) == w.to = "client" /\ w.type = 0 /\ ~IsValidFrame(w.frame, 68)

\* What can be on the wire: the frames of the client, of the server and of others.
WireInv == \/ wire = None
           \/ SentDiscover(wire) \/ SentRequest(wire) \/ Replied(wire) \/ Foreign(wire)

\* The frame of a request is for the server's port and verifies.
LEMMA RequestDelivers ==
  ASSUME NEW m \in Messages
  PROVE  Delivers(RawFrame(Zero, 68, Broadcast, 67, Bytes(m)), 67, Bytes(m))
<1> DEFINE z == Zero
           b == Broadcast
           s == 68
           d == 67
           bytes == Bytes(m)
<1>1. /\ z \in Seq(Nat) /\ Len(z) = 4 /\ b \in Seq(Nat) /\ Len(b) = 4
  BY AddressFacts, ZeroAddress, BroadcastAddress
<1>2. s \in Nat /\ d \in Nat
  OBVIOUS
<1>3. bytes \in Seq(Nat)
  BY BytesFacts
<1> HIDE DEF z, b, s, d, bytes
<1>4. Delivers(RawFrame(z, s, b, d, bytes), d, bytes)
  BY <1>1, <1>2, <1>3, RawFrameDelivers
<1> QED
  BY <1>4 DEF z, b, s, d, bytes

\* A request on the wire.
Requested(w, m) ==
  /\ w.to = "server" /\ m \in Messages /\ Delivers(w.frame, 67, Bytes(m))
  /\ IsValidDhcpMessage(m, OP_BOOTREQUEST, 1) /\ Type(m) = w.type
  /\ RequestedIp(m) = w.address /\ ServerId(m) = w.server

\* The server reads a DISCOVER as it was sent.
LEMMA DiscoverRequested ==
  ASSUME NEW w, SentDiscover(w)
  PROVE  Requested(w, Discover(1))
<1> DEFINE m == Discover(1)
<1>1. 1 \in Nat
  OBVIOUS
<1>2. /\ m \in Messages /\ IsValidDhcpMessage(m, OP_BOOTREQUEST, 1)
      /\ Type(m) = DHCPDISCOVER /\ RequestedIp(m) = Zero /\ ServerId(m) = Zero
  BY <1>1, DiscoverReads
<1> HIDE DEF m
<1>3. /\ w.to = "server" /\ w.type = DHCPDISCOVER /\ w.address = Zero /\ w.server = Zero
      /\ w.frame = RawFrame(Zero, 68, Broadcast, 67, Bytes(m))
  BY DEF SentDiscover, m
<1>4. Delivers(w.frame, 67, Bytes(m))
  BY <1>2, <1>3, RequestDelivers
<1> QED
  BY <1>2, <1>3, <1>4 DEF Requested, m

\* The server reads a REQUEST as it was sent.
LEMMA RequestRequested ==
  ASSUME NEW w, SentRequest(w)
  PROVE  \E m : Requested(w, m)
<1>1. PICK address \in OfferedAddresses :
        w = [to |-> "server", type |-> DHCPREQUEST, address |-> address, server |-> ServerAddress,
             frame |-> RawFrame(Zero, 68, Broadcast, 67, Bytes(Request(1, address, ServerAddress)))]
  BY DEF SentRequest
<1> DEFINE m == Request(1, address, ServerAddress)
<1>2. 1 \in Nat /\ address \in Address /\ ServerAddress \in Address
  BY NetConfigAssumption
<1>3. /\ m \in Messages /\ IsValidDhcpMessage(m, OP_BOOTREQUEST, 1)
      /\ Type(m) = DHCPREQUEST /\ RequestedIp(m) = address /\ ServerId(m) = ServerAddress
  BY <1>2, RequestReads
<1>4. /\ w.to = "server" /\ w.type = DHCPREQUEST /\ w.address = address
      /\ w.server = ServerAddress /\ w.frame = RawFrame(Zero, 68, Broadcast, 67, Bytes(m))
  BY <1>1
<1> HIDE DEF m
<1>5. Delivers(w.frame, 67, Bytes(m))
  BY <1>3, <1>4, RequestDelivers
<1> QED
  BY <1>3, <1>4, <1>5 DEF Requested

\* A reply on the wire: what configureDhcp makes of it, when it is complete.
Answered(w) ==
  /\ w.to = "client" /\ Verifies(w.frame)
  /\ w.cut = 0 =>
       LET m == MessageOf(w.frame.data)
       IN OptionsFit(m) /\ DhcpInfo(m, numDns) = Lease(w)

\* What is left of a message whose last bytes are missing.
LEMMA CutFacts ==
  ASSUME NEW s \in Seq(Nat), NEW cut \in Nat
  PROVE  /\ SubSeq(s, 1, Len(s) - cut) \in Seq(Nat)
         /\ cut = 0 => SubSeq(s, 1, Len(s) - cut) = s
OBVIOUS

\* The frame of a reply verifies; when it is complete configureDhcp reads what the
\* server put there.
LEMMA ReplyAnswered ==
  ASSUME NEW w, Replied(w)
  PROVE  Answered(w)
<1>1. PICK r \in Replies, address \in OfferedAddresses : w = ReplyFrame(r, address)
  BY DEF Replied
<1> DEFINE m == Reply(r.xid, r.type, address, r.list)
           bytes == Bytes(m)
           data == SubSeq(bytes, 1, Len(bytes) - r.cut)
<1>2. r.xid \in Byte /\ r.type \in Byte /\ r.cut \in Nat /\ r.list \in Seq(Option)
  BY NetConfigAssumption
<1>3. address \in Address /\ ServerAddress \in Address
  BY NetConfigAssumption
<1>4. /\ w.to = "client" /\ w.list = r.list /\ w.address = address /\ w.cut = r.cut
      /\ w.frame = RawFrame(ServerAddress, 67, address, 68, data)
  BY <1>1 DEF ReplyFrame
<1>5. /\ m \in Messages /\ OptionsFit(m) /\ DhcpInfo(m, numDns) = Lease(w)
  <2> DEFINE x == r.xid
             y == r.type
             l == r.list
  <2>1. x \in Nat /\ y \in Nat
    <3>1. Byte \subseteq Nat
      BY DEF Byte
    <3> QED
      BY <1>2, <3>1
  <2>2. m = Reply(x, y, address, l) /\ l \in Seq(Option) /\ w.list = l /\ w.address = address
    BY <1>2, <1>4
  <2> HIDE DEF x, y, l, m
  <2> QED
    BY <1>3, <2>1, <2>2, ReplyReads
<1> HIDE DEF m
<1>6. bytes \in Seq(Nat) /\ MessageOf(bytes) = m
  BY <1>5, BytesFacts
<1> HIDE DEF bytes
<1>7. data \in Seq(Nat) /\ (r.cut = 0 => data = bytes)
  <2> DEFINE c == r.cut
  <2>1. c \in Nat
    BY <1>2
  <2> HIDE DEF c
  <2>2. SubSeq(bytes, 1, Len(bytes) - c) \in Seq(Nat)
        /\ (c = 0 => SubSeq(bytes, 1, Len(bytes) - c) = bytes)
    BY <1>6, <2>1, CutFacts
  <2> QED
    BY <2>2 DEF c
<1> HIDE DEF data
<1>8. Delivers(w.frame, 68, data)
  <2> DEFINE s == ServerAddress
             a == 67
             b == 68
  <2>1. /\ s \in Seq(Nat) /\ Len(s) = 4 /\ address \in Seq(Nat) /\ Len(address) = 4
    BY <1>3, AddressFacts
  <2>2. a \in Nat /\ b \in Nat
    OBVIOUS
  <2> HIDE DEF s, a, b
  <2>3. Delivers(RawFrame(s, a, address, b, data), b, data)
    BY <1>7, <2>1, <2>2, RawFrameDelivers
  <2> QED
    BY <1>4, <2>3 DEF s, a, b
<1>9. Verifies(w.frame) /\ w.frame.data = data
  BY <1>8 DEF Delivers
<1> QED
  BY <1>4, <1>5, <1>6, <1>7, <1>9 DEF Answered

\* The frames that are not for the client are not taken.
LEMMA OtherForeign ==
  ASSUME NEW f, NEW data, Delivers(f, 67, data),
         NEW g \in {[f EXCEPT !.ip[1] = 70], [f EXCEPT !.ip[10] = 6], f, [f EXCEPT !.udp = <<>>]}
  PROVE  ~IsValidFrame(g, 68)
<1>1. /\ f = [ip |-> f.ip, udp |-> f.udp, data |-> f.data]
      /\ f.ip \in Seq(Nat) /\ Len(f.ip) = 20 /\ SubSeq(f.udp, 3, 4) = Word(67)
  BY DEF Delivers
<1>2. CASE g = [f EXCEPT !.ip[1] = 70]
  <2> DEFINE p == f.ip
  <2>1. g.ip = [p EXCEPT ![1] = 70]
    BY <1>1, <1>2
  <2> HIDE DEF p
  <2>2. 1 \in DOMAIN p
    BY <1>1 DEF p
  <2>3. g.ip[1] = 70
    BY <2>1, <2>2
  <2> QED
    BY <2>3 DEF IsValidFrame
<1>3. CASE g = [f EXCEPT !.ip[10] = 6]
  <2> DEFINE p == f.ip
  <2>1. g.ip = [p EXCEPT ![10] = 6]
    BY <1>1, <1>3
  <2> HIDE DEF p
  <2>2. 10 \in DOMAIN p
    BY <1>1 DEF p
  <2>3. g.ip[10] = 6
    BY <2>1, <2>2
  <2> QED
    BY <2>3 DEF IsValidFrame, IPPROTO_UDP
<1>4. CASE g = f
  <2>1. Word(67) # Word(68)
    BY DEF Word
  <2> QED
    BY <1>1, <1>4, <2>1 DEF IsValidFrame
<1>5. CASE g = [f EXCEPT !.udp = <<>>]
  <2>1. g.udp = <<>>
    BY <1>1, <1>5
  <2>2. Len(g.udp) = 0
    BY <2>1
  <2> QED
    BY <2>2 DEF IsValidFrame
<1> QED
  BY <1>2, <1>3, <1>4, <1>5

\* Whatever is on the way to the server is a request that it can read.
LEMMA RequestOnWire ==
  ASSUME WireInv, wire # None, wire.to = "server"
  PROVE  \E m : Requested(wire, m)
<1>1. CASE SentDiscover(wire)
  BY <1>1, DiscoverRequested
<1>2. CASE SentRequest(wire)
  BY <1>2, RequestRequested
<1>3. CASE Replied(wire)
  <2>1. wire.to = "client"
    BY <1>3, ReplyAnswered DEF Answered
  <2> QED
    BY <2>1
<1>4. CASE Foreign(wire)
  BY <1>4 DEF Foreign
<1> QED
  BY <1>1, <1>2, <1>3, <1>4 DEF WireInv

\* Every step keeps the wire to these frames.
LEMMA WireInvNext == WireInv /\ [Next]_vars => WireInv'
<1> SUFFICES ASSUME WireInv, [Next]_vars PROVE WireInv'
  OBVIOUS
<1>1. CASE Send
  <2>1. CASE SendMessage(DHCPDISCOVER, Zero, Zero)
    BY <2>1 DEF SendMessage, WireInv, SentDiscover
  <2>2. ASSUME NEW address \in OfferedAddresses, SendMessage(DHCPREQUEST, address, ServerAddress)
        PROVE  WireInv'
    <3>1. DHCPREQUEST # DHCPDISCOVER
      BY DEF DHCPREQUEST, DHCPDISCOVER
    <3>2. wire' = None \/ SentRequest(wire')
      BY <2>2, <3>1 DEF SendMessage, SentRequest
    <3> QED
      BY <3>2 DEF WireInv, SentRequest
  <2> QED
    BY <1>1, <2>1, <2>2 DEF Send
<1>2. CASE ServerReply
  BY <1>2 DEF ServerReply, WireInv, Replied, ReplyFrame
<1>3. CASE OtherFrame
  <2>1. PICK m : Requested(wire, m)
    BY <1>3, RequestOnWire DEF OtherFrame
  <2>2. Delivers(wire.frame, 67, Bytes(m))
    BY <2>1 DEF Requested
  <2>3. PICK f \in {[wire.frame EXCEPT !.ip[1] = 70], [wire.frame EXCEPT !.ip[10] = 6],
                    wire.frame, [wire.frame EXCEPT !.udp = <<>>]} :
          wire' = [to |-> "client", frame |-> f, type |-> 0, address |-> Zero, list |-> <<>>,
                   cut |-> 0]
    BY <1>3 DEF OtherFrame
  <2>4. ~IsValidFrame(f, 68)
    <3> DEFINE a == wire.frame
               data == Bytes(m)
    <3> HIDE DEF a, data
    <3>1. f \in {[a EXCEPT !.ip[1] = 70], [a EXCEPT !.ip[10] = 6], a, [a EXCEPT !.udp = <<>>]}
      BY <2>3 DEF a
    <3> QED
      BY <2>2, <3>1, OtherForeign DEF a, data
  <2>5. wire'.to = "client" /\ wire'.type = 0 /\ wire'.frame = f
    BY <2>3
  <2> QED
    BY <2>4, <2>5 DEF WireInv, Foreign
<1>4. CASE Lose \/ Receive
  BY <1>4 DEF Lose, Receive, WireInv
<1>5. CASE ConfigureDhcp \/ Crash \/ Restart \/ UNCHANGED vars
  <2>1. UNCHANGED wire
    BY <1>5 DEF ConfigureDhcp, BringUp, SetMtu, SetGw, SetDns, SetAddress, SetDefaultGateway,
       Crash, Restart, vars
  <2> QED
    BY <2>1 DEF WireInv, SentDiscover, SentRequest, Replied, Foreign, ReplyFrame
<1> QED
  BY <1>1, <1>2, <1>3, <1>4, <1>5 DEF Next

\* The frames on the wire verify and say what was sent.
LEMMA WireArrives == WireInv => SentMessagesArrive
<1> SUFFICES ASSUME WireInv PROVE SentMessagesArrive
  OBVIOUS
<1>1. ASSUME NEW m, wire # None, Requested(wire, m)
      PROVE  SentMessagesArrive
  <2>1. /\ wire.frame.data = Bytes(m) /\ Verifies(wire.frame) /\ m \in Messages
    BY <1>1 DEF Requested, Delivers
  <2>2. MessageOf(wire.frame.data) = m
    BY <2>1, BytesFacts
  <2>3. RequestReadsBack
    BY <1>1, <2>2 DEF RequestReadsBack, Requested
  <2> QED
    BY <2>1, <2>3 DEF SentMessagesArrive, FrameVerifies
<1>2. CASE wire = None
  BY <1>2 DEF SentMessagesArrive, FrameVerifies, RequestReadsBack
<1>3. CASE wire # None /\ SentDiscover(wire)
  BY <1>1, <1>3, DiscoverRequested
<1>4. CASE wire # None /\ SentRequest(wire)
  BY <1>1, <1>4, RequestRequested
<1>5. CASE Replied(wire)
  <2>1. wire.to = "client" /\ Verifies(wire.frame)
    BY <1>5, ReplyAnswered DEF Answered
  <2> QED
    BY <2>1 DEF SentMessagesArrive, FrameVerifies, RequestReadsBack
<1>6. CASE Foreign(wire)
  BY <1>6 DEF Foreign, SentMessagesArrive, FrameVerifies, RequestReadsBack
<1> QED
  BY <1>2, <1>3, <1>4, <1>5, <1>6 DEF WireInv

\* The wire is empty at the start.
LEMMA WireInvInit == Init => WireInv
BY DEF Init, WireInv

\* Every DISCOVER and REQUEST that sendRawUdp puts on the wire passes the checks
\* of a receiver (lengths, IP and UDP checksum, port), and parsing it gives the
\* type, the address and the server that the client meant, for every address.
THEOREM SentMessagesArriveAlways == Spec => []SentMessagesArrive
BY WireInvInit, WireInvNext, WireArrives, PTL DEF Spec

\* A message that is taken is a reply; what was put into it is what
\* configureDhcp reads.
LEMMA ParsedNext == WireInv /\ ParsedAsSent /\ [Next]_vars => ParsedAsSent'
<1> SUFFICES ASSUME WireInv, ParsedAsSent, [Next]_vars PROVE ParsedAsSent'
  OBVIOUS
<1>1. CASE UNCHANGED <<mDhcpInfo, told>>
  BY <1>1 DEF ParsedAsSent, Lease
<1>2. CASE Crash
  BY <1>2 DEF Crash, ParsedAsSent
<1>3. CASE Receive
  <2> DEFINE m == MessageOf(wire.frame.data)
             type == IF Received THEN Type(m) ELSE 0
  <2>1. CASE type = DHCPACK
    <3>1. Received
      BY <2>1 DEF DHCPACK
    <3>2. wire # None /\ wire.to = "client" /\ ~Foreign(wire)
      BY <1>3, <3>1 DEF Receive, Received, Foreign
    <3>3. Answered(wire)
      <4>1. ~SentDiscover(wire) /\ ~SentRequest(wire)
        BY <3>2 DEF SentDiscover, SentRequest
      <4> QED
        BY <3>2, <4>1, ReplyAnswered DEF WireInv
    <3>4. /\ mDhcpInfo' = IF OptionsFit(m) THEN DhcpInfo(m, numDns) ELSE NoInfo
          /\ told' = [address |-> wire.address, list |-> wire.list, cut |-> wire.cut]
      BY <1>3, <2>1 DEF Receive, DHCPACK, DHCPNAK
    <3>5. Lease(told') = Lease(wire) /\ told'.cut = wire.cut
      BY <3>4 DEF Lease
    <3>6. wire.cut = 0 => mDhcpInfo' = Lease(told')
      BY <3>3, <3>4, <3>5 DEF Answered
    <3> QED
      BY <3>5, <3>6 DEF ParsedAsSent, Lease
  <2>2. CASE type # DHCPACK
    <3>1. UNCHANGED <<mDhcpInfo, told>>
      BY <1>3, <2>2 DEF Receive, history
    <3> QED
      BY <1>1, <3>1
  <2> QED
    BY <2>1, <2>2
<1>4. CASE ~ (Crash \/ Receive)
  <2>1. UNCHANGED <<mDhcpInfo, told>>
    BY <1>4 DEF Next, Send, SendMessage, ServerReply, OtherFrame, Lose, ConfigureDhcp, BringUp,
       SetMtu, SetGw, SetDns, SetAddress, SetDefaultGateway, Restart, vars, client, history
  <2> QED
    BY <1>1, <2>1
<1> QED
  BY <1>2, <1>3, <1>4

\* What configureDhcp takes from a complete reply is what the server put there: of
\* every option the last one with an accepted length, for all lists of options.
THEOREM ParsedAsSentAlways == Spec => []ParsedAsSent
<1>1. Init => ParsedAsSent
  BY DEF Init, ParsedAsSent
<1> QED
  BY <1>1, WireInvInit, WireInvNext, ParsedNext, PTL DEF Spec

-----------------------------------------------------------------------------
(* Netmasks: popcount and the broadcast address, bit by bit.               *)

\* The bits of a byte as quotients.
LEMMA BitFacts ==
  ASSUME NEW b \in Nat
  PROVE  /\ Bit(b, 0) = b % 2 /\ Bit(b, 1) = (b \div 2) % 2
         /\ Bit(b, 2) = (b \div 4) % 2 /\ Bit(b, 3) = (b \div 8) % 2
         /\ Bit(b, 4) = (b \div 16) % 2 /\ Bit(b, 5) = (b \div 32) % 2
         /\ Bit(b, 6) = (b \div 64) % 2 /\ Bit(b, 7) = (b \div 128) % 2
<1> DEFINE p == <<1, 2, 4, 8, 16, 32, 64, 128>>
<1>1. /\ p[0 + 1] = 1 /\ p[1 + 1] = 2 /\ p[2 + 1] = 4 /\ p[3 + 1] = 8
      /\ p[4 + 1] = 16 /\ p[5 + 1] = 32 /\ p[6 + 1] = 64 /\ p[7 + 1] = 128
  OBVIOUS
<1>2. \A i : Bit(b, i) = (b \div p[i + 1]) % 2
  BY DEF Bit
<1> HIDE DEF p
<1>3. b \div 1 = b
  OBVIOUS
<1> QED
  BY <1>1, <1>2, <1>3

\* A bit is 0 or 1.
LEMMA BitIsBinary ==
  ASSUME NEW b \in Nat, NEW i \in 0 .. 7
  PROVE  Bit(b, i) \in {0, 1}
<1>2. i \in {0, 1, 2, 3, 4, 5, 6, 7}
  OBVIOUS
<1>3. /\ b % 2 \in {0, 1} /\ (b \div 2) % 2 \in {0, 1} /\ (b \div 4) % 2 \in {0, 1}
      /\ (b \div 8) % 2 \in {0, 1} /\ (b \div 16) % 2 \in {0, 1} /\ (b \div 32) % 2 \in {0, 1}
      /\ (b \div 64) % 2 \in {0, 1} /\ (b \div 128) % 2 \in {0, 1}
  OBVIOUS
<1>4. /\ Bit(b, 0) \in {0, 1} /\ Bit(b, 1) \in {0, 1} /\ Bit(b, 2) \in {0, 1}
      /\ Bit(b, 3) \in {0, 1} /\ Bit(b, 4) \in {0, 1} /\ Bit(b, 5) \in {0, 1}
      /\ Bit(b, 6) \in {0, 1} /\ Bit(b, 7) \in {0, 1}
  <2> DEFINE S == {0, 1}
  <2> HIDE DEF S
  <2>1. /\ b % 2 \in S /\ (b \div 2) % 2 \in S /\ (b \div 4) % 2 \in S /\ (b \div 8) % 2 \in S
        /\ (b \div 16) % 2 \in S /\ (b \div 32) % 2 \in S /\ (b \div 64) % 2 \in S
        /\ (b \div 128) % 2 \in S
    BY <1>3, Zenon DEF S
  <2>2. /\ Bit(b, 0) \in S /\ Bit(b, 1) \in S /\ Bit(b, 2) \in S /\ Bit(b, 3) \in S
        /\ Bit(b, 4) \in S /\ Bit(b, 5) \in S /\ Bit(b, 6) \in S /\ Bit(b, 7) \in S
    BY <2>1, BitFacts
  <2> QED
    BY <2>2, Zenon DEF S
<1> QED
  BY <1>2, <1>4

\* ByteOf puts the bits where Bit finds them.
LEMMA BitsOfByte ==
  ASSUME NEW bits, \A i \in 0 .. 7 : bits[i] \in {0, 1}
  PROVE  /\ ByteOf(bits) \in Nat
         /\ \A i \in 0 .. 7 : Bit(ByteOf(bits), i) = bits[i]
<1> DEFINE b0 == bits[0]
           b1 == bits[1]
           b2 == bits[2]
           b3 == bits[3]
           b4 == bits[4]
           b5 == bits[5]
           b6 == bits[6]
           b7 == bits[7]
           b == ByteOf(bits)
<1>1. /\ b0 \in 0 .. 1 /\ b1 \in 0 .. 1 /\ b2 \in 0 .. 1 /\ b3 \in 0 .. 1
      /\ b4 \in 0 .. 1 /\ b5 \in 0 .. 1 /\ b6 \in 0 .. 1 /\ b7 \in 0 .. 1
  OBVIOUS
<1>2. b = b0 + 2 * b1 + 4 * b2 + 8 * b3 + 16 * b4 + 32 * b5 + 64 * b6 + 128 * b7
  BY DEF ByteOf
<1> HIDE DEF b0, b1, b2, b3, b4, b5, b6, b7, b
<1>3. b \in Nat
  BY <1>1, <1>2
<1>4. b % 2 = b0 /\ b \div 2 = b1 + 2 * (b2 + 2 * b3 + 4 * b4 + 8 * b5 + 16 * b6 + 32 * b7)
  BY <1>1, <1>2
<1>5. (b \div 2) % 2 = b1
  BY <1>1, <1>4
<1>6. b \div 4 = b2 + 2 * (b3 + 2 * b4 + 4 * b5 + 8 * b6 + 16 * b7)
  BY <1>1, <1>2
<1>7. (b \div 4) % 2 = b2
  BY <1>1, <1>6
<1>8. b \div 8 = b3 + 2 * (b4 + 2 * b5 + 4 * b6 + 8 * b7)
  BY <1>1, <1>2
<1>9. (b \div 8) % 2 = b3
  BY <1>1, <1>8
<1>10. b \div 16 = b4 + 2 * (b5 + 2 * b6 + 4 * b7)
  BY <1>1, <1>2
<1>11. (b \div 16) % 2 = b4
  BY <1>1, <1>10
<1>12. b \div 32 = b5 + 2 * (b6 + 2 * b7)
  BY <1>1, <1>2
<1>13. (b \div 32) % 2 = b5
  BY <1>1, <1>12
<1>14. b \div 64 = b6 + 2 * b7
  BY <1>1, <1>2
<1>15. (b \div 64) % 2 = b6
  BY <1>1, <1>14
<1>16. (b \div 128) = b7 /\ b7 % 2 = b7
  BY <1>1, <1>2
<1>17. /\ Bit(b, 0) = b0 /\ Bit(b, 1) = b1 /\ Bit(b, 2) = b2 /\ Bit(b, 3) = b3
       /\ Bit(b, 4) = b4 /\ Bit(b, 5) = b5 /\ Bit(b, 6) = b6 /\ Bit(b, 7) = b7
  BY <1>3, <1>4, <1>5, <1>7, <1>9, <1>11, <1>13, <1>15, <1>16, BitFacts, ZenonT(60)
<1>18. \A i \in 0 .. 7 : i \in {0, 1, 2, 3, 4, 5, 6, 7}
  OBVIOUS
<1>19. \A i \in 0 .. 7 : Bit(b, i) = bits[i]
  BY <1>17, <1>18 DEF b0, b1, b2, b3, b4, b5, b6, b7
<1> QED
  BY <1>3, <1>19 DEF b

\* The mask has ones up to p and then zeros.
Masks(mask, p) ==
  p \in 0 .. 32 /\ \A n \in 0 .. 31 : AddressBit(mask, n) = IF n < p THEN 1 ELSE 0

\* The place of a bit of an address.
LEMMA BitPlace ==
  ASSUME NEW x \in 1 .. 4, NEW i \in 0 .. 7, NEW a
  PROVE  /\ 8 * x - 1 - i \in 0 .. 31
         /\ AddressBit(a, 8 * x - 1 - i) = Bit(a[x], i)
<1> DEFINE n == 8 * x - 1 - i
<1>1. n \in 0 .. 31 /\ n \div 8 = x - 1 /\ n % 8 = 7 - i
  <2>1. n = 8 * (x - 1) + (7 - i) /\ x - 1 \in Nat /\ 7 - i \in 0 .. 7
    OBVIOUS
  <2> QED
    BY <2>1
<1> HIDE DEF n
<1>2. n \div 8 + 1 = x /\ 7 - (n % 8) = i
  BY <1>1
<1>3. AddressBit(a, n) = Bit(a[x], i)
  BY <1>2, Zenon DEF AddressBit
<1> QED
  BY <1>1, <1>3 DEF n

\* __builtin_popcount counts, in each byte of a netmask, the part of the prefix
\* that lies in it.
LEMMA OnesOfByte ==
  ASSUME NEW mask, NEW p, Masks(mask, p), NEW x \in 1 .. 4
  PROVE  Ones(mask[x]) = IF p <= 8 * x - 8 THEN 0 ELSE IF p >= 8 * x THEN 8 ELSE p - (8 * x - 8)
<1> DEFINE one(i) == IF 8 * x - 1 - i < p THEN 1 ELSE 0
           b == mask[x]
<1>1. p \in 0 .. 32
  BY DEF Masks
<1>2. \A i \in 0 .. 7 : Bit(b, i) = one(i)
  BY BitPlace DEF Masks
<1> HIDE DEF b
<1>3. /\ Bit(b, 0) = one(0) /\ Bit(b, 1) = one(1) /\ Bit(b, 2) = one(2) /\ Bit(b, 3) = one(3)
      /\ Bit(b, 4) = one(4) /\ Bit(b, 5) = one(5) /\ Bit(b, 6) = one(6) /\ Bit(b, 7) = one(7)
  BY <1>2
<1>4. Ones(b) = one(0) + one(1) + one(2) + one(3) + one(4) + one(5) + one(6) + one(7)
  BY <1>3 DEF Ones
<1>5. Ones(b) = IF p <= 8 * x - 8 THEN 0 ELSE IF p >= 8 * x THEN 8 ELSE p - (8 * x - 8)
  BY <1>1, <1>4
<1> QED
  BY <1>5 DEF b

\* The number of ones is the length of the prefix.
LEMMA PrefixOfMask ==
  ASSUME NEW mask, NEW p, Masks(mask, p)
  PROVE  PrefixLength(mask) = p
<1> DEFINE ones(x) == IF p <= 8 * x - 8 THEN 0 ELSE IF p >= 8 * x THEN 8 ELSE p - (8 * x - 8)
<1>1. p \in 0 .. 32
  BY DEF Masks
<1>2. \A x \in 1 .. 4 : Ones(mask[x]) = ones(x)
  BY OnesOfByte
<1>3. /\ Ones(mask[1]) = ones(1) /\ Ones(mask[2]) = ones(2)
      /\ Ones(mask[3]) = ones(3) /\ Ones(mask[4]) = ones(4)
  BY <1>2
<1>4. PrefixLength(mask) = ones(1) + ones(2) + ones(3) + ones(4)
  BY <1>3 DEF PrefixLength
<1> QED
  BY <1>1, <1>4

\* What setAddress sets describes one subnet.
LEMMA SubnetOfMask ==
  ASSUME NEW address \in Address, NEW mask, NEW p, Masks(mask, p), NEW n \in 0 .. 31
  PROVE  AddressBit(BroadcastFromNetmask(address, mask), n) =
           IF n < PrefixLength(mask) THEN AddressBit(address, n) ELSE 1
<1> DEFINE x == n \div 8 + 1
           i == 7 - (n % 8)
           bits(y) == [j \in 0 .. 7 |-> IF Bit(address[y], j) = 1 \/ Bit(mask[y], j) = 0
                                        THEN 1 ELSE 0]
           c == BroadcastFromNetmask(address, mask)
<1>1. x \in 1 .. 4 /\ i \in 0 .. 7
  OBVIOUS
<1>2. \A a : AddressBit(a, n) = Bit(a[x], i)
  BY DEF AddressBit
<1> HIDE DEF x, i
<1>3. c[x] = ByteOf(bits(x))
  BY <1>1 DEF BroadcastFromNetmask
<1>4. \A j \in 0 .. 7 : bits(x)[j] \in {0, 1}
  OBVIOUS
<1>5. bits(x)[i] = IF Bit(address[x], i) = 1 \/ Bit(mask[x], i) = 0 THEN 1 ELSE 0
  BY <1>1
<1> HIDE DEF bits, c
<1>6. Bit(c[x], i) = bits(x)[i]
  BY <1>1, <1>3, <1>4, BitsOfByte
<1>7. Bit(mask[x], i) = IF n < p THEN 1 ELSE 0
  BY <1>2 DEF Masks
<1>8. Bit(address[x], i) \in {0, 1}
  <2>1. address \in Seq(Nat) /\ Len(address) = 4
    BY AddressFacts
  <2>2. address[x] \in Nat
    <3>1. address \in Seq(Nat) /\ x \in 1 .. Len(address)
      BY <1>1, <2>1
    <3> QED
      BY <3>1
  <2> QED
    BY <1>1, <2>2, BitIsBinary
<1>9. PrefixLength(mask) = p
  BY PrefixOfMask
<1>10. AddressBit(c, n) = bits(x)[i] /\ AddressBit(address, n) = Bit(address[x], i)
  BY <1>2, <1>6
<1> QED
  BY <1>5, <1>7, <1>8, <1>9, <1>10 DEF c

-----------------------------------------------------------------------------
(* Replies that were cut: a netmask without its last bytes is a netmask.   *)

\* c is what is left of m when bytes are missing at its end.
Cut(c, m) ==
  /\ c \in Messages /\ c.yiaddr = m.yiaddr /\ Len(c.options) <= Len(m.options)
  /\ \A i \in Nat : At(c, i) = IF i < Len(c.options) THEN At(m, i) ELSE 0

\* The first bytes of a sequence.
LEMMA PrefixFacts ==
  ASSUME NEW s \in Seq(Nat), NEW n \in Int, n <= Len(s), NEW data, data = SubSeq(s, 1, n)
  PROVE  data \in Seq(Nat) /\ Len(data) <= Len(s) /\ \A i \in 1 .. Len(data) : data[i] = s[i]
<1>1. CASE n < 1
  <2>1. data = <<>>
    BY <1>1
  <2> QED
    BY <2>1
<1>2. CASE n >= 1
  <2>1. n \in 1 .. Len(s)
    BY <1>2
  <2>2. Len(data) = n /\ data \in Seq(Nat) /\ \A i \in 1 .. n : data[i] = s[i]
    BY <2>1
  <2> QED
    BY <2>1, <2>2
<1> QED
  BY <1>1, <1>2

\* A reply that was cut is read as the message without its last bytes.
LEMMA CutMessage ==
  ASSUME NEW m \in Messages, NEW cut \in Nat, NEW data,
         data = SubSeq(Bytes(m), 1, Len(Bytes(m)) - cut),
         Len(MessageOf(data).options) >= 4
  PROVE  Cut(MessageOf(data), m)
<1> DEFINE s == Bytes(m)
           L == Len(s)
           c == MessageOf(data)
           K == Len(data)
           o == m.options
           y == SubSeq(data, 5, 8)
           d == SubSeq(data, 9, K)
<1>1. s \in Seq(Nat) /\ L = 8 + Len(o) /\ MessageOf(s) = m /\ L \in Nat
  BY BytesFacts
<1>2. o \in Seq(Nat) /\ Len(o) \in Nat /\ m.yiaddr \in Address
  BY MessageFields
<1>3. o = SubSeq(s, 9, L) /\ m.yiaddr = SubSeq(s, 5, 8)
  <2> HIDE DEF s
  <2> QED
    BY <1>1 DEF MessageOf
<1>4. /\ c = [op |-> data[1], htype |-> data[2], hlen |-> data[3], xid |-> data[4],
              yiaddr |-> y, options |-> d]
      /\ c.yiaddr = y /\ c.options = d
  BY DEF MessageOf
<1>5. data = SubSeq(s, 1, L - cut)
  OBVIOUS
<1> HIDE DEF s, c, o, y, d
<1>6. data \in Seq(Nat) /\ K \in Nat /\ K <= L /\ \A i \in 1 .. K : data[i] = s[i]
  <2>1. data \in Seq(Nat) /\ Len(data) <= L /\ \A i \in 1 .. K : data[i] = s[i]
    <3> DEFINE n == L - cut
    <3>1. n \in Int /\ n <= Len(s)
      BY <1>1
    <3>2. data = SubSeq(s, 1, n)
      BY <1>5
    <3>3. s \in Seq(Nat)
      BY <1>1
    <3> HIDE DEF n, L, K
    <3>4. data \in Seq(Nat) /\ Len(data) <= Len(s) /\ \A i \in 1 .. Len(data) : data[i] = s[i]
      BY <3>1, <3>2, <3>3, PrefixFacts, ZenonT(60)
    <3> QED
      BY <3>4 DEF L, K
  <2>2. K \in Nat
    BY <2>1
  <2> QED
    BY <2>1, <2>2, Zenon
<1>7. d \in Seq(Nat) /\ Len(d) >= 4
  BY <1>4, <1>6, SMTT(30) DEF c, d
<1>8. K >= 12 /\ Len(d) = K - 8 /\ \A i \in 1 .. K - 8 : d[i] = data[8 + i]
  <2>1. K >= 12
    BY <1>6, <1>7 DEF d
  <2> QED
    BY <1>6, <2>1 DEF d
<1>9. \A i \in 1 .. L - 8 : o[i] = s[8 + i]
  <2>1. L >= 8
    BY <1>1, <1>2
  <2> QED
    BY <1>1, <1>3, <2>1
<1>10. y = m.yiaddr
  <2>1. \A i \in 1 .. 8 : data[i] = s[i]
    BY <1>6, <1>8
  <2> DEFINE z == m.yiaddr
  <2>2. z \in Seq(Nat) /\ Len(z) = 4
    BY <1>2, AddressFacts
  <2>3. z = SubSeq(s, 5, 8) /\ 8 <= L
    BY <1>1, <1>2, <1>3
  <2> HIDE DEF z
  <2>4. \A i \in 1 .. 4 : z[i] = s[4 + i]
    BY <1>1, <2>3
  <2>5. \A i \in 1 .. 4 : data[4 + i] = z[i]
    <3>1. \A i \in 1 .. 4 : 4 + i \in 1 .. 8
      OBVIOUS
    <3> QED
      BY <2>1, <2>4, <3>1
  <2>6. SubSeq(data, 4 + 1, 4 + 4) = z
    <3> DEFINE k == 4
    <3>1. data \in Seq(Nat) /\ k + k <= Len(data) /\ k \in Nat /\ k >= 1 /\ Len(z) = k
      BY <1>6, <1>8, <2>2
    <3>2. \A i \in 1 .. k : data[k + i] = z[i]
      BY <2>5
    <3> HIDE DEF k
    <3>3. SubSeq(data, k + 1, k + k) = z
      BY <2>2, <3>1, <3>2, CutOut
    <3> QED
      BY <3>3 DEF k
  <2>7. SubSeq(data, 5, 8) = z
    <3>1. 4 + 1 = 5 /\ 4 + 4 = 8
      OBVIOUS
    <3> QED
      BY <2>6, <3>1, Zenon
  <2> QED
    BY <2>7 DEF y, z
<1>11. c \in Messages
  <2>1. data[1] \in Nat /\ data[2] \in Nat /\ data[3] \in Nat /\ data[4] \in Nat
    BY <1>6, <1>8, SMTT(30)
  <2>2. y \in Address
    BY <1>2, <1>10
  <2>3. d \in Seq(Nat)
    BY <1>7
  <2>4. Len(d) >= 4
    BY <1>7
  <2> QED
    BY <1>4, <2>1, <2>2, <2>3, <2>4, MakeMessage
<1>12. Len(d) <= Len(o)
  BY <1>1, <1>2, <1>6, <1>8
<1>13. ASSUME NEW i \in Nat PROVE At(c, i) = IF i < Len(d) THEN At(m, i) ELSE 0
  <2>1. CASE i < Len(d)
    <3>1. i + 1 \in 1 .. K - 8 /\ i + 1 \in 1 .. L - 8 /\ 8 + (i + 1) \in 1 .. K /\ i < Len(o)
      <4> DEFINE D == Len(d)
                 O == Len(o)
      <4>1. D = K - 8 /\ L = 8 + O /\ O \in Nat /\ K \in Nat /\ K <= L /\ K >= 12 /\ i < D
        BY <1>1, <1>2, <1>6, <1>8, <2>1
      <4> HIDE DEF D, O, K, L
      <4>2. i + 1 \in 1 .. K - 8 /\ i + 1 \in 1 .. L - 8 /\ 8 + (i + 1) \in 1 .. K /\ i < O
        BY <4>1
      <4> QED
        BY <4>2 DEF O
    <3>2. d[i + 1] = data[8 + (i + 1)] /\ o[i + 1] = s[8 + (i + 1)]
      BY <1>8, <1>9, <3>1
    <3>3. d[i + 1] = o[i + 1]
      BY <1>6, <3>1, <3>2
    <3> QED
      BY <1>4, <2>1, <3>1, <3>3 DEF At, o
  <2>2. CASE ~ (i < Len(d))
    BY <1>4, <2>2 DEF At
  <2> QED
    BY <2>1, <2>2
<1> QED
  BY <1>4, <1>10, <1>11, <1>12, <1>13 DEF Cut, c, o

\* The loop visits offsets of options whose code and length are there.
LEMMA CutOffsets ==
  ASSUME NEW m, NEW e, NEW n, NEW code, NEW value, Laid(m, e, n, code, value),
         NEW c, Cut(c, m)
  PROVE  \A i \in OptionOffsets(c) : \E k \in 0 .. n : i = e[k] /\ i + 1 < Len(c.options)
<1> DEFINE N == n + 1
           L == Len(c.options)
           E == {i \in Nat : i + 1 < L /\ \E k \in 0 .. n : i = e[k]}
           f == OffsetsFrom(c)
           T == {d \in 0 .. N : f[e[N - d]] \subseteq E}
<1>1. /\ n \in Nat /\ N \in Nat /\ e[0] = 4 /\ (\A k \in 0 .. N : e[k] \in Nat)
      /\ Len(m.options) = e[N] + 1 /\ m \in Messages
  BY LaidFacts
<1>2. c \in Messages /\ L \in Nat /\ L <= Len(m.options)
  BY MessageFields DEF Cut
<1>3. 0 \in T
  <2> DEFINE z == e[N]
  <2>1. N \in 0 .. N
    BY <1>1
  <2>2. z \in Nat /\ Len(m.options) = z + 1
    BY <1>1, <2>1
  <2> HIDE DEF z, L
  <2>3. z + 1 >= L
    BY <1>2, <2>2
  <2>4. f[z] = {}
    BY <1>2, <2>2, <2>3, OffsetsStep DEF L
  <2>5. N - 0 = N /\ 0 \in 0 .. N
    BY <1>1
  <2> HIDE DEF N, f
  <2> QED
    BY <2>4, <2>5 DEF z
<1>4. ASSUME NEW d \in 1 .. N, d - 1 \in T PROVE d \in T
  <2> DEFINE k == N - d
             i == e[k]
             j == e[k + 1]
  <2>1. k \in 0 .. n /\ k + 1 = N - (d - 1) /\ d \in 0 .. N
    BY <1>1
  <2>2. /\ i \in Nat /\ j \in Nat /\ j = i + 2 + At(m, i + 1)
    <3>1. k \in 0 .. n
      BY <2>1
    <3> HIDE DEF k
    <3> QED
      BY <3>1, LaidFacts
  <2>3. f[j] \subseteq E
    BY <1>4, <2>1
  <2> HIDE DEF f, L
  <2>4. CASE i + 1 >= L \/ At(c, i) = OPT_END
    <3>1. f[i] = {}
      <4> HIDE DEF i
      <4> QED
        BY <1>2, <2>2, <2>4, OffsetsStep DEF f, L
    <3> QED
      BY <2>1, <3>1
  <2>5. CASE ~ (i + 1 >= L \/ At(c, i) = OPT_END)
    <3>1. f[i] = {i} \cup f[i + 2 + At(c, i + 1)]
      <4> HIDE DEF i
      <4> QED
        BY <1>2, <2>2, <2>5, OffsetsStep DEF f, L
    <3>2. i + 1 \in Nat /\ i + 1 < L
      <4> HIDE DEF i
      <4> QED
        BY <1>2, <2>2, <2>5
    <3>3. At(c, i + 1) = At(m, i + 1)
      <4> HIDE DEF i
      <4> QED
        BY <3>2 DEF Cut, L
    <3>4. f[i] = {i} \cup f[j]
      BY <2>2, <3>1, <3>3, Zenon
    <3>5. i \in E
      <4> HIDE DEF k
      <4> QED
        BY <2>1, <2>2, <3>2
    <3> HIDE DEF i, j, E
    <3>6. f[i] \subseteq E
      BY <2>3, <3>4, <3>5
    <3> QED
      BY <2>1, <3>6 DEF i
  <2> QED
    BY <2>4, <2>5
<1>5. \A d \in 0 .. N : d \in T
  <2> HIDE DEF T, N
  <2> QED
    BY <1>1, <1>3, <1>4, BoundedInduction
<1>6. N \in T /\ N - N = 0
  <2> HIDE DEF T, N
  <2>1. N \in 0 .. N /\ N - N = 0
    BY <1>1
  <2> QED
    BY <1>5, <2>1
<1>7. f[4] \subseteq E
  <2> HIDE DEF f, N, E
  <2> QED
    BY <1>1, <1>6
<1> QED
  BY <1>7 DEF OptionOffsets

\* A mask of which the first q bytes are there.
BeginsAs(v, mask, q) == q \in Nat /\ \A x \in 1 .. 4 : v[x] = IF x <= q THEN mask[x] ELSE 0

\* A netmask whose last bytes are missing is one.
LEMMA CutMask ==
  ASSUME NEW mask, NEW p, Masks(mask, p), NEW q, NEW v, BeginsAs(v, mask, q)
  PROVE  \E r : Masks(v, r)
<1>0. q \in Nat /\ \A x \in 1 .. 4 : v[x] = IF x <= q THEN mask[x] ELSE 0
  BY DEF BeginsAs
<1> DEFINE r == IF p < 8 * q THEN p ELSE 8 * q
<1>1. p \in 0 .. 32
  BY DEF Masks
<1>2. r \in 0 .. 32
  BY <1>0, <1>1
<1>3. ASSUME NEW n \in 0 .. 31 PROVE AddressBit(v, n) = IF n < r THEN 1 ELSE 0
  <2> DEFINE x == n \div 8 + 1
             i == 7 - (n % 8)
  <2>1. x \in 1 .. 4 /\ i \in 0 .. 7 /\ (x <= q <=> n < 8 * q)
    BY <1>0
  <2>2. \A a : AddressBit(a, n) = Bit(a[x], i)
    BY DEF AddressBit
  <2>3. AddressBit(mask, n) = IF n < p THEN 1 ELSE 0
    BY DEF Masks
  <2> HIDE DEF x, i
  <2>4. CASE x <= q
    <3>1. AddressBit(v, n) = AddressBit(mask, n)
      BY <1>0, <2>1, <2>2, <2>4
    <3>2. n < r <=> n < p
      BY <1>0, <1>1, <2>1, <2>4
    <3> QED
      BY <2>3, <3>1, <3>2
  <2>5. CASE ~ (x <= q)
    <3>1. v[x] = 0
      BY <1>0, <2>1, <2>5
    <3>2. Bit(0, i) = 0
      <4>1. /\ Bit(0, 0) = 0 /\ Bit(0, 1) = 0 /\ Bit(0, 2) = 0 /\ Bit(0, 3) = 0
            /\ Bit(0, 4) = 0 /\ Bit(0, 5) = 0 /\ Bit(0, 6) = 0 /\ Bit(0, 7) = 0
        BY DEF Bit
      <4>2. i \in {0, 1, 2, 3, 4, 5, 6, 7}
        BY <2>1
      <4> QED
        BY <4>1, <4>2
    <3>3. AddressBit(v, n) = 0
      BY <2>2, <3>1, <3>2
    <3>4. ~ (n < r)
      BY <1>0, <1>1, <2>1, <2>5
    <3> QED
      BY <3>3, <3>4
  <2> QED
    BY <2>4, <2>5
<1> HIDE DEF r
<1>4. Masks(v, r)
  BY <1>2, <1>3 DEF Masks
<1> QED
  BY <1>4

\* Without an option for it the mask is 0.0.0.0, with no prefix.
LEMMA ZeroMasks == Masks(Zero, 0)
<1>1. ASSUME NEW n \in 0 .. 31 PROVE AddressBit(Zero, n) = 0
  <2> DEFINE x == n \div 8 + 1
             i == 7 - (n % 8)
  <2>1. x \in 1 .. 4 /\ i \in 0 .. 7
    OBVIOUS
  <2>2. AddressBit(Zero, n) = Bit(Zero[x], i)
    BY DEF AddressBit
  <2> HIDE DEF x, i
  <2>3. Zero[x] = 0
    <3>1. x \in {1, 2, 3, 4}
      BY <2>1
    <3> QED
      BY <3>1 DEF Zero
  <2>4. Bit(0, i) = 0
    <3>1. /\ Bit(0, 0) = 0 /\ Bit(0, 1) = 0 /\ Bit(0, 2) = 0 /\ Bit(0, 3) = 0
          /\ Bit(0, 4) = 0 /\ Bit(0, 5) = 0 /\ Bit(0, 6) = 0 /\ Bit(0, 7) = 0
      BY DEF Bit
    <3>2. i \in {0, 1, 2, 3, 4, 5, 6, 7}
      BY <2>1
    <3> QED
      BY <3>1, <3>2
  <2> QED
    BY <2>2, <2>3, <2>4
<1>2. ASSUME NEW n \in 0 .. 31 PROVE AddressBit(Zero, n) = IF n < 0 THEN 1 ELSE 0
  BY <1>1
<1> QED
  BY <1>2 DEF Masks

-----------------------------------------------------------------------------
(* The inductive invariant of the subnet.                                  *)

\* The mask that configureDhcp reads from a reply, complete or not.
LEMMA MaskRead ==
  ASSUME NEW m, NEW e, NEW type, NEW list \in Seq(Option),
         Laid(m, e, Len(list), CodesOf(list), ValuesOf(type, list)),
         NEW c, Cut(c, m),
         \A k \in 1 .. Len(list) :
           list[k].code = OPT_SUBNET_MASK /\ Len(list[k].value) = 4 => IsNetmask(list[k].value)
  PROVE  \E r : Masks(DhcpInfo(c, numDns).subnetMask, r)
<1> DEFINE v == LastValue(c, OPT_SUBNET_MASK, {4})
           W == {i \in OptionOffsets(c) : At(c, i) = OPT_SUBNET_MASK /\ At(c, i + 1) \in {4}}
           n == Len(list)
           L == Len(c.options)
           code == CodesOf(list)
           value == ValuesOf(type, list)
<1>1. DhcpInfo(c, numDns).subnetMask = IF v = <<>> THEN Zero ELSE v
  BY DEF DhcpInfo
<1>2. v = IF W = {} THEN <<>> ELSE ValueAt(c, Max(W))
  BY DEF LastValue
<1>3. n \in Nat
  OBVIOUS
<1>4. code[0] = OPT_MESSAGE_TYPE
  BY <1>3 DEF CodesOf
<1>5. \A k \in 1 .. n : code[k] = list[k].code /\ value[k] = list[k].value
  BY <1>3 DEF CodesOf, ValuesOf
<1>6. \A i \in OptionOffsets(c) : \E k \in 0 .. n : i = e[k] /\ i + 1 < L
  BY CutOffsets
<1>7. m \in Messages /\ \A k \in 0 .. n : /\ e[k] \in Nat /\ At(m, e[k]) = code[k]
                                          /\ At(m, e[k] + 1) = Len(value[k])
  BY LaidFacts
<1>8. \A k \in 0 .. n : Holds(m, e[k], code[k], value[k])
  BY DEF Laid
<1>9. c \in Messages /\ L \in Nat
  BY MessageFields DEF Cut
<1> HIDE DEF v, W, n, L, code, value
<1>10. CASE W = {}
  BY <1>1, <1>2, <1>10, ZeroMasks
<1>11. CASE W # {}
  <2>1. \A i \in W : i \in 0 .. L
    <3> SUFFICES ASSUME NEW i \in W PROVE i \in 0 .. L
      OBVIOUS
    <3>1. i \in Nat /\ i + 1 < L
      BY <1>6, <1>7 DEF W
    <3> QED
      BY <1>9, <3>1
  <2>2. PICK i \in W : \A y \in W : y <= i
    BY <1>9, <1>11, <2>1, GreatestNumber
  <2>3. W \in SUBSET Nat
    BY <2>1
  <2>4. Max(W) = i
    BY <2>2, <2>3, MaxIs
  <2>5. PICK k \in 0 .. n : i = e[k] /\ i + 1 < L
    BY <1>6 DEF W
  <2>6. i \in Nat /\ At(c, i) = OPT_SUBNET_MASK /\ At(c, i + 1) = 4
    BY <2>3 DEF W
  <2>7. At(c, i) = At(m, i) /\ At(c, i + 1) = At(m, i + 1)
    <3>1. i + 1 \in Nat /\ i < L
      BY <1>9, <2>5, <2>6
    <3> QED
      BY <2>5, <2>6, <3>1 DEF Cut, L
  <2>8. code[k] = OPT_SUBNET_MASK /\ Len(value[k]) = 4
    BY <1>7, <2>5, <2>6, <2>7
  <2>9. k \in 1 .. n
    <3>1. k # 0
      BY <1>4, <2>8, CodesDiffer
    <3> QED
      BY <1>3, <3>1
  <2> DEFINE mask == list[k].value
             w == ValueAt(c, i)
             q == L - (i + 2)
  <2>10. mask = value[k] /\ IsNetmask(mask)
    <3>1. list[k].code = OPT_SUBNET_MASK /\ Len(list[k].value) = 4
      BY <1>5, <2>8, <2>9
    <3> QED
      BY <1>5, <2>9, <3>1 DEF n
  <2> HIDE DEF mask
  <2>11. PICK p : Masks(mask, p)
    BY <2>10 DEF IsNetmask, Masks
  <2>12. Holds(m, i, code[k], mask) /\ Len(mask) = 4
    BY <1>8, <2>5, <2>8, <2>10
  <2>13. \A x \in 1 .. 4 : At(m, i + 1 + x) = mask[x]
    BY <2>12 DEF Holds
  <2>14. Len(w) = 4 /\ w \in Seq(Nat) /\ \A x \in 1 .. 4 : w[x] = At(c, i + 1 + x)
    BY <1>9, <2>6, ValueAtFacts
  <2> HIDE DEF w
  <2>15. q \in Nat
    BY <1>9, <2>5, <2>6
  <2>16. ASSUME NEW x \in 1 .. 4 PROVE w[x] = IF x <= q THEN mask[x] ELSE 0
    <3>1. i + 1 + x \in Nat /\ (i + 1 + x < L <=> x <= q)
      BY <1>9, <2>6, SMTT(30)
    <3> HIDE DEF q
    <3>2. At(c, i + 1 + x) = IF i + 1 + x < L THEN At(m, i + 1 + x) ELSE 0
      BY <3>1 DEF Cut, L
    <3> QED
      BY <2>13, <2>14, <3>1, <3>2
  <2> HIDE DEF q
  <2>17. \E r : Masks(w, r)
    <3>1. BeginsAs(w, mask, q)
      BY <2>15, <2>16 DEF BeginsAs
    <3> QED
      BY <2>11, <3>1, CutMask
  <2>18. w # <<>> /\ v = w
    BY <1>2, <1>11, <2>4, <2>14 DEF w
  <2> QED
    BY <1>1, <2>17, <2>18
<1> QED
  BY <1>10, <1>11

\* What configureDhcp takes from a reply describes a subnet.
Usable(info) == info.offeredAddress \in Address /\ \E p : Masks(info.subnetMask, p)

\* The data of a frame is the message.
LEMMA RawFrameData ==
  ASSUME NEW source, NEW sp, NEW destination, NEW dp, NEW message
  PROVE  RawFrame(source, sp, destination, dp, message).data = message
BY DEF RawFrame

\* configureDhcp takes an address and a netmask from every reply, cut or not.
LEMMA ReplyUsable ==
  ASSUME NEW w, Replied(w), NEW c, c = MessageOf(w.frame.data), Len(c.options) >= 4
  PROVE  Usable(DhcpInfo(c, numDns))
<1>1. PICK r \in Replies, address \in OfferedAddresses : w = ReplyFrame(r, address)
  BY DEF Replied
<1> DEFINE x == r.xid
           y == r.type
           list == r.list
           cut == r.cut
           m == Reply(x, y, address, list)
           bytes == Bytes(m)
           data == SubSeq(bytes, 1, Len(bytes) - cut)
<1>2. x \in Nat /\ y \in Nat
  <2>1. Byte \subseteq Nat
    BY DEF Byte
  <2>2. r.xid \in Byte /\ r.type \in Byte
    BY NetConfigAssumption
  <2> QED
    BY <2>1, <2>2
<1>3. cut \in Nat /\ list \in Seq(Option) /\ address \in Address
  BY NetConfigAssumption
<1>4. w.frame.data = data
  <2>1. w.frame = RawFrame(ServerAddress, 67, address, 68, data)
    BY <1>1 DEF ReplyFrame
  <2> DEFINE a == 67
             b == 68
  <2>2. w.frame = RawFrame(ServerAddress, a, address, b, data)
    BY <2>1
  <2> HIDE DEF a, b, data
  <2> QED
    BY <2>2, RawFrameData
<1>5. \A k \in 1 .. Len(list) :
        list[k].code = OPT_SUBNET_MASK /\ Len(list[k].value) = 4 => IsNetmask(list[k].value)
  BY <1>3, NetmaskAssumption
<1> HIDE DEF x, y, list, cut
<1>6. /\ Begins(m, OP_BOOTREPLY, x, address, y)
      /\ \E e : Laid(m, e, Len(list), CodesOf(list), ValuesOf(y, list))
  BY <1>2, <1>3, ReplyLaid
<1> HIDE DEF m
<1>7. m \in Messages /\ m.yiaddr = address
  BY <1>6 DEF Begins
<1>8. Cut(c, m)
  <2>1. data = SubSeq(Bytes(m), 1, Len(Bytes(m)) - cut)
    OBVIOUS
  <2>2. c = MessageOf(data) /\ Len(MessageOf(data).options) >= 4
    BY <1>4
  <2> HIDE DEF data
  <2>3. Cut(MessageOf(data), m)
    BY <1>3, <1>7, <2>1, <2>2, CutMessage
  <2> QED
    BY <2>2, <2>3
<1>9. PICK e : Laid(m, e, Len(list), CodesOf(list), ValuesOf(y, list))
  BY <1>6
<1>10. \E p : Masks(DhcpInfo(c, numDns).subnetMask, p)
  BY <1>3, <1>5, <1>8, <1>9, MaskRead
<1>11. DhcpInfo(c, numDns).offeredAddress = c.yiaddr
  BY DEF DhcpInfo
<1>12. c.yiaddr = address
  BY <1>7, <1>8 DEF Cut
<1> QED
  BY <1>3, <1>10, <1>11, <1>12 DEF Usable

\* So it is before the first reply.
LEMMA NoInfoUsable == Usable(NoInfo)
<1> DEFINE list == <<>>
           t == [address |-> Zero, list |-> <<>>]
           z == 0
           m == Reply(z, z, Zero, list)
<1>1. z \in Nat /\ list \in Seq(Option) /\ t.list = list /\ t.address = Zero
  OBVIOUS
<1>2. NoInfo = DhcpInfo(m, numDns)
  BY DEF NoInfo
<1>3. t.address = Zero /\ DOMAIN t.list = {}
  OBVIOUS
<1> HIDE DEF z, list, t, m
<1>4. DhcpInfo(m, numDns) = Lease(t)
  BY <1>1, ZeroAddress, ReplyReads DEF m
<1>5. Lease(t).offeredAddress = Zero
  BY <1>3 DEF Lease
<1>6. Given(t.list, OPT_SUBNET_MASK, {4}) = <<>>
  BY <1>3 DEF Given
<1>7. Lease(t).subnetMask = Zero
  BY <1>6 DEF Lease, GivenAddress
<1> QED
  BY <1>2, <1>4, <1>5, <1>7, ZeroAddress, ZeroMasks DEF Usable

\* The interface describes a subnet.
Describes(a) ==
  \A n \in 0 .. 31 :
    AddressBit(a.broadcast, n) = IF n < a.prefix THEN AddressBit(a.local, n) ELSE 1

\* So it is when no address has been set.
LEMMA NoAddressDescribes == Describes(NoAddress)
<1> SUFFICES ASSUME NEW n \in 0 .. 31 PROVE AddressBit(Broadcast, n) = 1 /\ ~ (n < 0)
  BY DEF Describes, NoAddress
<1> DEFINE x == n \div 8 + 1
           i == 7 - (n % 8)
<1>1. x \in 1 .. 4 /\ i \in 0 .. 7
  OBVIOUS
<1>2. AddressBit(Broadcast, n) = Bit(Broadcast[x], i)
  BY DEF AddressBit
<1> HIDE DEF x, i
<1>3. Broadcast[x] = 255
  <2>1. x \in {1, 2, 3, 4}
    BY <1>1
  <2> QED
    BY <2>1 DEF Broadcast
<1>4. Bit(255, i) = 1
  <2>1. i \in {0, 1, 2, 3, 4, 5, 6, 7}
    BY <1>1
  <2>2. /\ Bit(255, 0) = 1 /\ Bit(255, 1) = 1 /\ Bit(255, 2) = 1 /\ Bit(255, 3) = 1
        /\ Bit(255, 4) = 1 /\ Bit(255, 5) = 1 /\ Bit(255, 6) = 1 /\ Bit(255, 7) = 1
    BY BitFacts
  <2> QED
    BY <2>1, <2>2
<1> QED
  BY <1>2, <1>3, <1>4

\* setAddress sets the prefix and the broadcast address of one subnet.
LEMMA AddressDescribes ==
  ASSUME NEW info, Usable(info)
  PROVE  Describes(AddressOf(info.offeredAddress, info.subnetMask))
<1> DEFINE a == info.offeredAddress
           b == info.subnetMask
<1>1. PICK p : Masks(b, p)
  BY DEF Usable
<1>2. a \in Address
  BY DEF Usable
<1> HIDE DEF a, b
<1>3. \A n \in 0 .. 31 : AddressBit(BroadcastFromNetmask(a, b), n) =
                           IF n < PrefixLength(b) THEN AddressBit(a, n) ELSE 1
  BY <1>1, <1>2, SubnetOfMask
<1> DEFINE d == AddressOf(a, b)
<1>4. d.local = a /\ d.prefix = PrefixLength(b) /\ d.broadcast = BroadcastFromNetmask(a, b)
  BY DEF AddressOf
<1> HIDE DEF d
<1>5. Describes(d)
  BY <1>3, <1>4 DEF Describes
<1> QED
  BY <1>5 DEF a, b, d

\* The inductive invariant: the lease that is being configured describes a subnet,
\* as does what the interface has.
SubnetInv == Describes(ifAddr) /\ Usable(mDhcpInfo)

\* Nothing is configured at the start.
LEMMA SubnetInit == Init => SubnetInv
BY NoInfoUsable, NoAddressDescribes DEF Init, SubnetInv

\* A reply that is taken, complete or cut, and each step of configureDhcp keep it.
LEMMA SubnetNext == WireInv /\ SubnetInv /\ [Next]_vars => SubnetInv'
<1> SUFFICES ASSUME WireInv, SubnetInv, [Next]_vars PROVE SubnetInv'
  OBVIOUS
<1>1. ASSUME Usable(mDhcpInfo'), ifAddr' \in {ifAddr, NoAddress} PROVE SubnetInv'
  <2>1. Describes(ifAddr')
    BY <1>1, NoAddressDescribes DEF SubnetInv
  <2> QED
    BY <1>1, <2>1 DEF SubnetInv, Usable, Describes, Masks
<1>2. CASE SetAddress
  <2>1. Describes(AddressOf(mDhcpInfo.offeredAddress, mDhcpInfo.subnetMask))
    BY AddressDescribes DEF SubnetInv
  <2>2. Describes(ifAddr') /\ mDhcpInfo' = mDhcpInfo
    BY <1>2, <2>1 DEF SetAddress, SubnetInv
  <2> QED
    BY <2>2 DEF SubnetInv, Usable, Describes, Masks
<1>3. CASE Receive
  <2> DEFINE m == MessageOf(wire.frame.data)
             type == IF Received THEN Type(m) ELSE 0
  <2>1. CASE type = DHCPACK
    <3>1. Received
      BY <2>1 DEF DHCPACK
    <3>2. wire # None /\ wire.to = "client" /\ ~Foreign(wire) /\ Len(m.options) >= 4
      BY <1>3, <3>1 DEF Receive, Received, Foreign, IsValidDhcpMessage
    <3>3. Replied(wire)
      <4>1. ~SentDiscover(wire) /\ ~SentRequest(wire)
        BY <3>2 DEF SentDiscover, SentRequest
      <4> QED
        BY <3>2, <4>1 DEF WireInv
    <3>4. Usable(DhcpInfo(m, numDns))
      BY <3>2, <3>3, ReplyUsable
    <3>5. /\ mDhcpInfo' = IF OptionsFit(m) THEN DhcpInfo(m, numDns) ELSE NoInfo
          /\ UNCHANGED interface
      BY <1>3, <2>1 DEF Receive, DHCPACK, DHCPNAK
    <3>6. Usable(mDhcpInfo')
      BY <3>4, <3>5, NoInfoUsable
    <3> QED
      BY <1>1, <3>5, <3>6 DEF interface
  <2>2. CASE type # DHCPACK
    <3>1. mDhcpInfo' = mDhcpInfo /\ ifAddr' \in {ifAddr, NoAddress}
      BY <1>3, <2>2 DEF Receive, interface
    <3> QED
      BY <1>1, <3>1 DEF SubnetInv
  <2> QED
    BY <2>1, <2>2
<1>4. CASE ~ (SetAddress \/ Receive)
  <2>1. mDhcpInfo' \in {mDhcpInfo, NoInfo} /\ ifAddr' \in {ifAddr, NoAddress}
    BY <1>4 DEF Next, Send, SendMessage, ServerReply, OtherFrame, Lose, ConfigureDhcp, BringUp,
       SetMtu, SetGw, SetDns, SetDefaultGateway, Crash, Restart, vars, client, interface
  <2>2. Usable(mDhcpInfo')
    BY <2>1, NoInfoUsable DEF SubnetInv
  <2> QED
    BY <1>1, <2>1, <2>2
<1> QED
  BY <1>2, <1>3, <1>4

\* The broadcast address that setAddress computes from the netmask, and the prefix
\* that it counts, are of the same subnet, whatever server sent the netmask and
\* wherever the reply was cut.
THEOREM BroadcastOfSubnetAlways == Spec => []BroadcastOfSubnet
<1>1. SubnetInv => BroadcastOfSubnet
  BY DEF SubnetInv, Describes, BroadcastOfSubnet
<1> QED
  BY <1>1, WireInvInit, WireInvNext, SubnetInit, SubnetNext, PTL DEF Spec

-----------------------------------------------------------------------------
(* The inductive invariant of the set-up: what the steps have done so far. *)

MtuSet == "mtu" \notin skipped => ifMtu = mDhcpInfo.mtu \/ mDhcpInfo.mtu = 0

GwSet == "gw" \notin skipped => gw = mDhcpInfo.gateway

DnsSet ==
  "dns" \notin skipped =>
    \A i \in 1 .. numDns : dns[i] = IF mDhcpInfo.dns[i] = Zero THEN None
                                    ELSE mDhcpInfo.dns[i]

AddressSet == ifAddr.local = mDhcpInfo.offeredAddress

RouteSet == NoGateway \/ "route" \in skipped \/ mDhcpInfo.gateway \in routes

\* The steps of configureDhcp that follow each one.
AfterAddress == {"setDefaultGateway"}
AfterDns == {"setAddress"} \cup AfterAddress
AfterGw == {"setDns"} \cup AfterDns
AfterMtu == {"setGw"} \cup AfterGw
AfterUp == {"setMtu"} \cup AfterMtu

\* At each step all earlier ones have taken effect, and the call has not
\* returned; so it has not in a dead process.
IInv ==
  /\ pc \in AfterUp \cup {"bringUp", "dead"} => ~configured
  /\ pc \in AfterUp \/ configured => ifUp
  /\ pc \in AfterMtu \/ configured => MtuSet
  /\ pc \in AfterGw \/ configured => GwSet
  /\ pc \in AfterDns \/ configured => DnsSet
  /\ pc \in AfterAddress \/ configured => AddressSet
  /\ configured => RouteSet

-----------------------------------------------------------------------------
(* Every step preserves the invariant.                                     *)

\* Nothing has been configured at the start.
LEMMA IInvInit == Init => IInv
BY DEF Init, IInv, AfterUp, AfterMtu, AfterGw, AfterDns, AfterAddress

\* Messages come and go without it.
LEMMA IInvSame ==
  ASSUME IInv, UNCHANGED <<client, interface, routes, properties, history>>
  PROVE  IInv'
BY DEF IInv, MtuSet, GwSet, DnsSet, AddressSet, RouteSet, client, interface, properties, history

\* A reply that is read ends what was configured.
LEMMA IInvReceive == ASSUME IInv, Receive PROVE IInv'
<1>1. CASE UNCHANGED <<pc, mDhcpInfo, interface, routes, history>>
  BY <1>1, IInvSame DEF Receive, client
<1>2. CASE configured' = FALSE /\ pc' \in {"idle", "bringUp"}
  BY <1>2 DEF IInv, AfterUp, AfterMtu, AfterGw, AfterDns, AfterAddress
<1>3. CASE configured' = FALSE /\ pc' = pc
  <2>1. pc' = "idle"
    BY <1>3 DEF Receive
  <2> QED
    BY <1>3, <2>1 DEF IInv, AfterUp, AfterMtu, AfterGw, AfterDns, AfterAddress
<1> QED
  BY <1>1, <1>2, <1>3 DEF Receive

\* A process that has died configures nothing, and a new one starts over.
LEMMA IInvCrash == ASSUME IInv, Crash \/ Restart PROVE IInv'
<1>1. configured' = FALSE \/ (configured' = configured /\ pc = "dead")
  BY DEF Crash, Restart, history
<1>2. pc' \in {"dead", "idle"} /\ ~configured'
  BY <1>1 DEF IInv, Crash, Restart
<1> QED
  BY <1>2 DEF IInv, AfterUp, AfterMtu, AfterGw, AfterDns, AfterAddress

\* bringUp: the interface is up, or the attempt has ended.
LEMMA IInvBringUp == ASSUME IInv, BringUp PROVE IInv'
<1>1. ~configured' /\ pc' \in {"setMtu", "idle"} /\ (pc' = "setMtu" => ifUp')
  BY DEF IInv, BringUp, Fail, history
<1> QED
  BY <1>1 DEF IInv, AfterUp, AfterMtu, AfterGw, AfterDns, AfterAddress

\* setMtu: set, logged as failed, or none was given.
LEMMA IInvSetMtu == ASSUME IInv, SetMtu PROVE IInv'
<1>1. ~configured' /\ pc' = "setGw" /\ ifUp'
  BY DEF IInv, SetMtu, AfterUp
<1>2. MtuSet'
  BY DEF SetMtu, MtuSet, Skip
<1> QED
  BY <1>1, <1>2 DEF IInv, AfterUp, AfterMtu, AfterGw, AfterDns, AfterAddress

\* The gateway property.
LEMMA IInvSetGw == ASSUME IInv, SetGw PROVE IInv'
<1>1. ~configured' /\ pc' = "setDns" /\ ifUp'
  BY DEF IInv, SetGw, AfterUp, AfterMtu, interface
<1>2. MtuSet'
  BY DEF IInv, SetGw, AfterMtu, MtuSet, Skip, interface
<1>3. GwSet'
  BY DEF SetGw, GwSet, Skip
<1> QED
  BY <1>1, <1>2, <1>3 DEF IInv, AfterUp, AfterMtu, AfterGw, AfterDns, AfterAddress

\* The DNS properties, each of which may fail.
LEMMA IInvSetDns == ASSUME IInv, SetDns PROVE IInv'
<1>1. ~configured' /\ pc' = "setAddress" /\ ifUp'
  BY DEF IInv, SetDns, AfterUp, AfterMtu, AfterGw, interface
<1>2. MtuSet' /\ GwSet'
  BY DEF IInv, SetDns, AfterMtu, AfterGw, MtuSet, GwSet, Skip, interface
<1>3. DnsSet'
  <2>1. PICK failed \in SUBSET (1 .. numDns) :
          /\ dns' = [i \in 1 .. numDns |-> IF i \in failed THEN dns[i]
                                           ELSE IF mDhcpInfo.dns[i] # Zero THEN mDhcpInfo.dns[i]
                                           ELSE None]
          /\ IF failed = {} THEN UNCHANGED skipped ELSE Skip("dns")
    BY DEF SetDns
  <2>2. CASE failed = {}
    BY <2>1, <2>2 DEF SetDns, DnsSet
  <2>3. CASE failed # {}
    BY <2>1, <2>3 DEF DnsSet, Skip
  <2> QED
    BY <2>2, <2>3
<1> QED
  BY <1>1, <1>2, <1>3 DEF IInv, AfterUp, AfterMtu, AfterGw, AfterDns, AfterAddress

\* setAddress: without a gateway it is the last step.
LEMMA IInvSetAddress == ASSUME IInv, SetAddress PROVE IInv'
<1>1. ifUp' /\ MtuSet' /\ GwSet' /\ DnsSet'
  BY DEF IInv, SetAddress, AfterUp, AfterMtu, AfterGw, AfterDns, MtuSet, GwSet, DnsSet,
     properties
<1>2. CASE Fail /\ UNCHANGED configured
  <2>1. pc' = "idle" /\ ~configured'
    BY <1>2 DEF Fail, IInv, SetAddress, AfterUp, AfterMtu, AfterGw, AfterDns
  <2> QED
    BY <2>1 DEF IInv, AfterUp, AfterMtu, AfterGw, AfterDns, AfterAddress
<1>3. CASE /\ ifAddr' = AddressOf(mDhcpInfo.offeredAddress, mDhcpInfo.subnetMask)
           /\ pc' = IF NoGateway THEN "idle" ELSE "setDefaultGateway"
           /\ configured' = NoGateway
  <2>1. AddressSet'
    BY <1>3 DEF SetAddress, AddressSet, AddressOf
  <2>2. CASE NoGateway
    BY <1>1, <1>3, <2>1, <2>2 DEF IInv, RouteSet, AfterUp, AfterMtu, AfterGw, AfterDns,
       AfterAddress
  <2>3. CASE ~NoGateway
    BY <1>1, <1>3, <2>1, <2>3 DEF IInv, AfterUp, AfterMtu, AfterGw, AfterDns, AfterAddress
  <2> QED
    BY <2>2, <2>3
<1> QED
  BY <1>2, <1>3 DEF SetAddress

\* setDefaultGateway is the last step.
LEMMA IInvSetDefaultGateway == ASSUME IInv, SetDefaultGateway PROVE IInv'
<1>1. ifUp' /\ MtuSet' /\ GwSet' /\ DnsSet' /\ AddressSet' /\ pc' = "idle"
  BY DEF IInv, SetDefaultGateway, AfterUp, AfterMtu, AfterGw, AfterDns, AfterAddress,
     MtuSet, GwSet, DnsSet, AddressSet, KernelAddsRoute, Skip, interface, properties
<1>2. configured' => RouteSet'
  BY DEF IInv, SetDefaultGateway, AfterUp, AfterMtu, AfterGw, AfterDns, AfterAddress, RouteSet,
     KernelAddsRoute, Skip
<1> QED
  BY <1>1, <1>2 DEF IInv, AfterUp, AfterMtu, AfterGw, AfterDns, AfterAddress

\* So every step preserves it.
LEMMA IInvNext == IInv /\ [Next]_vars => IInv'
<1> SUFFICES ASSUME IInv, [Next]_vars PROVE IInv'
  OBVIOUS
<1>1. CASE Send \/ ServerReply \/ OtherFrame \/ Lose \/ UNCHANGED vars
  <2>1. UNCHANGED <<client, interface, routes, properties, history>>
    BY <1>1 DEF Send, SendMessage, ServerReply, OtherFrame, Lose, vars, client
  <2> QED
    BY <2>1, IInvSame
<1>2. CASE ConfigureDhcp
  BY <1>2, IInvBringUp, IInvSetMtu, IInvSetGw, IInvSetDns, IInvSetAddress,
     IInvSetDefaultGateway DEF ConfigureDhcp
<1>3. CASE Receive \/ Crash \/ Restart
  BY <1>3, IInvReceive, IInvCrash
<1> QED
  BY <1>1, <1>2, <1>3 DEF Next

\* Once configureDhcp has returned true the interface, the properties and
\* one of the default routes are as mDhcpInfo has them, except what was
\* logged as failed and a route that the kernel refused, whatever crashes and failed attempts came before.
THEOREM ConfiguredAsLeasedAlways == Spec => []ConfiguredAsLeased
<1>1. IInv => ConfiguredAsLeased
  BY DEF IInv, ConfiguredAsLeased, MtuSet, GwSet, DnsSet, AddressSet, RouteSet
<1> QED
  BY <1>1, IInvInit, IInvNext, PTL DEF Spec
==============================================================================
