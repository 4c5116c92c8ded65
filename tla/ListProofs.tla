------------------------------- MODULE ListProofs -------------------------------
(***************************************************************************)
(* What the operators of Lists return, for sequences and sets of any size. *)
(***************************************************************************)
EXTENDS Lists, SequenceTheorems, FiniteSetTheorems, WellFoundedInduction, TLAPS

\* A set of numbers that is not empty has a least one.
LEMMA LeastNatural ==
    ASSUME NEW T \in SUBSET Nat, T # {}
    PROVE  \E m \in T : \A n \in T : m <= n
<1>1. IsWellFoundedOn(OpToRel(<,Nat), Nat)
  BY NatLessThanWellFounded
<1>2. PICK m \in T : \A n \in T : <<n, m>> \notin OpToRel(<,Nat)
  BY <1>1, WFMin, Zenon
<1>3. \A n \in T : n \in Nat /\ m \in Nat /\ ~(n < m)
  BY <1>2 DEF OpToRel
<1> QED
  BY <1>3

-----------------------------------------------------------------------------
(* Sums and orders.                                                        *)

\* A set that has 0 and, with each number up to N, the next has them all.
LEMMA UpTo ==
    ASSUME NEW N \in Nat, NEW S, 0 \in S, \A n \in 1..N : n - 1 \in S => n \in S
    PROVE  \A n \in 0..N : n \in S
<1> DEFINE T == {n \in 0..N : n \notin S}
<1> SUFFICES ASSUME T # {} PROVE FALSE
  OBVIOUS
<1>1. PICK m \in T : \A n \in T : m <= n
  <2>1. T \in SUBSET Nat
    OBVIOUS
  <2> HIDE DEF T
  <2> QED
    BY <2>1, LeastNatural
<1>2. m # 0 /\ m \in 1..N /\ m - 1 \in 0..N /\ m - 1 < m
  BY <1>1
<1> QED
  BY <1>1, <1>2

\* A sum so far: the first n of the numbers.
Sums(c, n, f) ==
    /\ f \in [0..n -> Nat] /\ f[0] = 0
    /\ \A m \in 1..n : f[m] = f[m - 1] + c[m]

LEMMA SumsExist ==
    ASSUME NEW c \in Seq(Nat), NEW n \in 0..Len(c) PROVE \E f : Sums(c, n, f)
<1> DEFINE S == {m \in 0..Len(c) : \E f : Sums(c, m, f)}
<1>0. Len(c) \in Nat
  OBVIOUS
<1>1. 0 \in S
  <2> DEFINE f == [m \in 0..0 |-> 0]
  <2>1. Sums(c, 0, f)
    BY DEF Sums
  <2> QED
    BY <1>0, <2>1
<1>2. ASSUME NEW m \in 1..Len(c), m - 1 \in S PROVE m \in S
  <2>1. PICK f : Sums(c, m - 1, f)
    BY <1>2
  <2> DEFINE g == [k \in 0..m |-> IF k = m THEN f[m - 1] + c[m] ELSE f[k]]
  <2>2. c[m] \in Nat /\ f[m - 1] \in Nat
    BY <1>0, <2>1 DEF Sums
  <2>3. \A k \in 0..m : k # m => k \in 0..m - 1
    BY <1>0
  <2>4. g \in [0..m -> Nat] /\ g[0] = 0
    BY <2>1, <2>2, <2>3 DEF Sums
  <2>5. ASSUME NEW k \in 1..m PROVE g[k] = g[k - 1] + c[k]
    <3>1. k \in 0..m /\ k - 1 \in 0..m /\ k - 1 # m /\ (k # m => k \in 1..m - 1)
      BY <1>0
    <3> QED
      BY <2>1, <3>1 DEF Sums
  <2> HIDE DEF g
  <2>6. Sums(c, m, g)
    BY <2>4, <2>5 DEF Sums
  <2>7. m \in 0..Len(c)
    BY <1>0
  <2> QED
    BY <2>6, <2>7
<1> HIDE DEF S
<1>3. n \in S
  BY <1>0, <1>1, <1>2, UpTo
<1> QED
  BY <1>3 DEF S

LEMMA TotalIs ==
    ASSUME NEW c \in Seq(Nat)
    PROVE  \E f : Sums(c, Len(c), f) /\ Total(c) = f[Len(c)]
<1> DEFINE N == Len(c)
<1>1. N \in Nat
  OBVIOUS
<1>2. PICK g : Sums(c, N, g)
  BY <1>1, SumsExist
<1> DEFINE E(f) == [n \in 0..N |-> IF n = 0 THEN 0 ELSE f[n - 1] + c[n]]
<1>3. g = E(g)
  <2>1. \A n \in 0..N : n # 0 => n \in 1..N
    BY <1>1
  <2> HIDE DEF N
  <2>2. \A n \in 0..N : g[n] = IF n = 0 THEN 0 ELSE g[n - 1] + c[n]
    BY <1>2, <2>1, Zenon DEF Sums
  <2>3. g = [n \in 0..N |-> g[n]]
    BY <1>2 DEF Sums
  <2> QED
    BY <2>2, <2>3, Zenon
<1> DEFINE f == CHOOSE x : x = E(x)
<1>4. f = E(f)
  BY <1>3, Zenon
<1>5. Total(c) = f[N]
  BY Zenon DEF Total
<1> HIDE DEF f
<1>6. f[0] = 0
  BY <1>1, <1>4
<1>7. ASSUME NEW n \in 1..N PROVE f[n] = f[n - 1] + c[n]
  <2>1. n \in 0..N /\ n # 0
    BY <1>1
  <2>2. E(f)[n] = f[n - 1] + c[n]
    BY <2>1, Zenon
  <2> QED
    BY <1>4, <2>2, Zenon
<1>8. \A n \in 0..N : f[n] \in Nat
  <2> DEFINE S == {k \in 0..N : f[k] \in Nat}
  <2>1. 0 \in S
    BY <1>1, <1>6
  <2>2. ASSUME NEW n \in 1..N, n - 1 \in S PROVE n \in S
    <3>1. c[n] \in Nat /\ n \in 0..N
      BY <1>1
    <3> QED
      BY <1>7, <2>2, <3>1
  <2> HIDE DEF S
  <2>3. \A n \in 0..N : n \in S
    BY <1>1, <2>1, <2>2, UpTo, Zenon
  <2> QED
    BY <2>3 DEF S
<1>9. f \in [0..N -> Nat]
  <2>1. f = [n \in 0..N |-> f[n]]
    BY <1>4
  <2> QED
    BY <1>8, <2>1
<1>10. Sums(c, N, f)
  BY <1>6, <1>7, <1>9 DEF Sums
<1> QED
  BY <1>5, <1>10

LEMMA Sum3 ==
    ASSUME NEW a \in Nat, NEW b \in Nat, NEW x \in Nat
    PROVE  a + (b + x) = (a + b) + x /\ (a + x) + b = (a + b) + x
OBVIOUS

\* One number more, one number higher.
LEMMA TotalAdds ==
    ASSUME NEW c \in Seq(Nat), NEW d \in Seq(Nat), Len(d) = Len(c), NEW i \in 1..Len(c),
           NEW x \in Nat, d[i] = c[i] + x, \A k \in 1..Len(c) : k # i => d[k] = c[k]
    PROVE  Total(d) = Total(c) + x
<1> DEFINE N == Len(c)
<1>1. N \in Nat /\ i \in Nat /\ i <= N /\ i # 0
  OBVIOUS
<1>2. PICK f : Sums(c, N, f) /\ Total(c) = f[N]
  BY TotalIs
<1>3. PICK g : Sums(d, N, g) /\ Total(d) = g[N]
  BY TotalIs
<1> DEFINE S == {n \in 0..N : /\ n < i => g[n] = f[n]
                              /\ ~(n < i) => g[n] = f[n] + x}
<1>4. 0 \in S
  BY <1>1, <1>2, <1>3 DEF Sums
<1>5. ASSUME NEW n \in 1..N, n - 1 \in S PROVE n \in S
  <2>1. /\ n \in 0..N /\ n - 1 \in 0..N /\ n \in Nat
        /\ f[n - 1] \in Nat /\ c[n] \in Nat /\ d[n] \in Nat /\ g[n - 1] \in Nat
    <3>1. n \in 0..N /\ n - 1 \in 0..N /\ n \in Nat
      BY <1>1
    <3>2. f[n - 1] \in Nat /\ g[n - 1] \in Nat
      BY <1>2, <1>3, <3>1 DEF Sums
    <3>3. c[n] \in Nat /\ d[n] \in Nat
      BY ElementOfSeq
    <3> QED
      BY <3>1, <3>2, <3>3
  <2>2. f[n] = f[n - 1] + c[n] /\ g[n] = g[n - 1] + d[n]
    BY <1>2, <1>3 DEF Sums
  <2>3. /\ n - 1 < i => g[n - 1] = f[n - 1]
        /\ ~(n - 1 < i) => g[n - 1] = f[n - 1] + x
    BY <1>5
  <2>4. CASE n < i
    <3>1. n - 1 < i /\ d[n] = c[n]
      BY <1>1, <2>1, <2>4
    <3>2. g[n - 1] = f[n - 1]
      BY <2>1, <2>3, <3>1
    <3>3. g[n] = f[n]
      BY <2>2, <3>1, <3>2, Zenon
    <3> QED
      BY <2>1, <2>4, <3>3
  <2>5. CASE n = i
    <3>1. n - 1 < i /\ ~(n < i) /\ d[n] = c[n] + x
      BY <1>1, <2>1, <2>5
    <3>2. g[n - 1] = f[n - 1]
      BY <2>1, <2>3, <3>1
    <3>3. f[n - 1] + (c[n] + x) = (f[n - 1] + c[n]) + x
      <4> DEFINE a == f[n - 1]
                 b == c[n]
      <4>1. a \in Nat /\ b \in Nat
        BY <2>1
      <4> HIDE DEF a, b
      <4>2. a + (b + x) = (a + b) + x
        BY <4>1
      <4> QED
        BY <4>2 DEF a, b
    <3>4. g[n] = f[n - 1] + (c[n] + x)
      BY <2>2, <3>1, <3>2, Zenon
    <3>5. g[n] = f[n] + x
      BY <2>2, <3>3, <3>4, Zenon
    <3> QED
      BY <2>1, <3>1, <3>5
  <2>6. CASE ~(n < i) /\ n # i
    <3>1. ~(n - 1 < i) /\ d[n] = c[n]
      BY <1>1, <2>1, <2>6
    <3>2. g[n - 1] = f[n - 1] + x
      BY <2>1, <2>3, <3>1
    <3>3. (f[n - 1] + x) + c[n] = (f[n - 1] + c[n]) + x
      BY <2>1, Sum3, Zenon
    <3>4. g[n] = (f[n - 1] + x) + c[n]
      BY <2>2, <3>1, <3>2, Zenon
    <3>5. g[n] = f[n] + x
      BY <2>2, <3>3, <3>4, Zenon
    <3> QED
      BY <2>1, <2>6, <3>5
  <2> QED
    BY <2>4, <2>5, <2>6
<1> HIDE DEF S
<1>6. N \in S
  <2>1. \A n \in 0..N : n \in S
    BY <1>1, <1>4, <1>5, UpTo, Zenon
  <2> QED
    BY <1>1, <2>1
<1>7. ~(N < i) => g[N] = f[N] + x
  BY <1>6 DEF S
<1> QED
  BY <1>1, <1>2, <1>3, <1>7

\* No number lower.
LEMMA TotalGrows ==
    ASSUME NEW c \in Seq(Nat), NEW d \in Seq(Nat), Len(d) = Len(c),
           \A k \in 1..Len(c) : c[k] <= d[k]
    PROVE  Total(c) <= Total(d) /\ Total(c) \in Nat /\ Total(d) \in Nat
<1> DEFINE N == Len(c)
<1>1. N \in Nat
  OBVIOUS
<1>2. PICK f : Sums(c, N, f) /\ Total(c) = f[N]
  BY TotalIs
<1>3. PICK g : Sums(d, N, g) /\ Total(d) = g[N]
  BY TotalIs
<1> DEFINE S == {n \in 0..N : f[n] <= g[n]}
<1>4. 0 \in S
  BY <1>1, <1>2, <1>3 DEF Sums
<1>5. ASSUME NEW n \in 1..N, n - 1 \in S PROVE n \in S
  <2>1. /\ n \in 0..N /\ n - 1 \in 0..N /\ n \in Nat
        /\ f[n - 1] \in Nat /\ c[n] \in Nat /\ d[n] \in Nat /\ g[n - 1] \in Nat
    <3>1. n \in 0..N /\ n - 1 \in 0..N /\ n \in Nat
      BY <1>1
    <3>2. f[n - 1] \in Nat /\ g[n - 1] \in Nat
      BY <1>2, <1>3, <3>1 DEF Sums
    <3>3. c[n] \in Nat /\ d[n] \in Nat
      BY ElementOfSeq
    <3> QED
      BY <3>1, <3>2, <3>3
  <2>2. f[n] = f[n - 1] + c[n] /\ g[n] = g[n - 1] + d[n]
    BY <1>2, <1>3 DEF Sums
  <2> QED
    BY <1>5, <2>1, <2>2
<1> HIDE DEF S
<1>6. N \in S
  <2>1. \A n \in 0..N : n \in S
    BY <1>1, <1>4, <1>5, UpTo, Zenon
  <2> QED
    BY <1>1, <2>1
<1>7. f[N] \in Nat /\ g[N] \in Nat
  BY <1>1, <1>2, <1>3 DEF Sums
<1> QED
  BY <1>2, <1>3, <1>6, <1>7 DEF S

-----------------------------------------------------------------------------
(* Orders.                                                                 *)

\* One of any two is ahead of the other, and what is ahead of it too.
TotalOrder(S, ahead) ==
    /\ \A a, b \in S : a = b \/ <<a, b>> \in ahead \/ <<b, a>> \in ahead
    /\ \A a, b, c \in S : <<a, b>> \in ahead /\ <<b, c>> \in ahead => <<a, c>> \in ahead

InOrder(S, ahead, s) ==
    /\ s \in [1..Cardinality(S) -> S] /\ ToSet(s) = S
    /\ \A m, n \in DOMAIN s : m < n => <<s[m], s[n]>> \in ahead

\* A finite set in an order has a last element.
LEMMA LastElement ==
    ASSUME NEW S, IsFiniteSet(S), NEW ahead, TotalOrder(S, ahead), S # {}
    PROVE  \E x \in S : \A y \in S \ {x} : <<y, x>> \in ahead
<1> DEFINE P(T) == \E x \in T : \A y \in T \ {x} : <<y, x>> \in ahead
           Q == {n \in 0..Cardinality(S) :
                   \A T \in SUBSET S : Cardinality(T) = n /\ T # {} => P(T)}
<1>1. Cardinality(S) \in Nat
  BY FS_CardinalityType
<1>2. 0 \in Q
  <2>1. ASSUME NEW T \in SUBSET S, Cardinality(T) = 0 PROVE T = {}
    <3>1. IsFiniteSet(T)
      BY FS_Subset
    <3> QED
      BY <2>1, <3>1, FS_EmptySet
  <2> HIDE DEF P
  <2> QED
    BY <1>1, <2>1
<1>3. ASSUME NEW n \in 1..Cardinality(S), n - 1 \in Q PROVE n \in Q
  <2>1. ASSUME NEW T \in SUBSET S, Cardinality(T) = n, T # {} PROVE P(T)
    <3>1. PICK x \in T : TRUE
      BY <2>1
    <3> DEFINE R == T \ {x}
    <3>2. IsFiniteSet(T) /\ Cardinality(R) = n - 1 /\ R \in SUBSET S
      <4>1. IsFiniteSet(T)
        BY FS_Subset
      <4>2. Cardinality(R) = Cardinality(T) - 1
        BY <4>1, FS_RemoveElement
      <4> QED
        BY <2>1, <4>1, <4>2
    <3>3. CASE R = {}
      BY <3>1, <3>3
    <3>4. CASE R # {}
      <4>1. P(R)
        <5> HIDE DEF P, R
        <5> QED
          BY <1>3, <3>2, <3>4
      <4>2. PICK y \in R : \A z \in R \ {y} : <<z, y>> \in ahead
        BY <4>1
      <4>3. y \in T /\ y # x /\ \A z \in T : z = x \/ z = y \/ z \in R \ {y}
        BY <3>1
      <4>4. CASE <<x, y>> \in ahead
        <5>1. \A z \in T \ {y} : <<z, y>> \in ahead
          BY <4>2, <4>3, <4>4
        <5> QED
          BY <4>3, <5>1
      <4>5. CASE <<y, x>> \in ahead
        <5>1. ASSUME NEW z \in T \ {x} PROVE <<z, x>> \in ahead
          <6>1. CASE z = y
            BY <4>5, <6>1
          <6>2. CASE z # y
            <7>1. <<z, y>> \in ahead
              BY <4>2, <4>3, <6>2
            <7> QED
              BY <3>1, <4>3, <4>5, <7>1 DEF TotalOrder
          <6> QED
            BY <6>1, <6>2
        <5> QED
          BY <3>1, <5>1
      <4> QED
        BY <3>1, <4>3, <4>4, <4>5 DEF TotalOrder
    <3> QED
      BY <3>3, <3>4
  <2> HIDE DEF P
  <2> QED
    BY <1>1, <2>1
<1> HIDE DEF Q
<1>4. Cardinality(S) \in Q
  BY <1>1, <1>2, <1>3, UpTo
<1> QED
  BY <1>4 DEF Q

LEMMA OrderLonger ==
    ASSUME NEW S, IsFiniteSet(S), NEW x, x \notin S, NEW ahead, NEW s, InOrder(S, ahead, s),
           \A y \in S : <<y, x>> \in ahead
    PROVE  \E t : InOrder(S \cup {x}, ahead, t)
<1> DEFINE N == Cardinality(S)
           U == S \cup {x}
           t == [k \in 1..N + 1 |-> IF k = N + 1 THEN x ELSE s[k]]
<1>1. N \in Nat /\ Cardinality(U) = N + 1
  BY FS_CardinalityType, FS_AddElement
<1>2. /\ s \in [1..N -> S] /\ ToSet(s) = S /\ DOMAIN s = 1..N
      /\ \A m, n \in 1..N : m < n => <<s[m], s[n]>> \in ahead
  BY DEF InOrder
<1> HIDE DEF N
<1>3. \A k \in 1..N + 1 : k = N + 1 \/ k \in 1..N
  BY <1>1
<1>4. /\ DOMAIN t = 1..N + 1 /\ t[N + 1] = x
      /\ \A k \in 1..N : t[k] = s[k] /\ k \in 1..N + 1 /\ k # N + 1
  BY <1>1
<1>5. t \in [1..N + 1 -> U]
  BY <1>2, <1>3
<1> HIDE DEF t
<1>6. ASSUME NEW k \in 1..N + 1, NEW l \in 1..N + 1, k < l PROVE <<t[k], t[l]>> \in ahead
  <2>1. k \in 1..N
    BY <1>1, <1>6
  <2>2. CASE l = N + 1
    BY <1>2, <1>4, <2>1, <2>2
  <2>3. CASE l \in 1..N
    BY <1>2, <1>4, <1>6, <2>1, <2>3
  <2> QED
    BY <1>3, <2>2, <2>3
<1>7. ToSet(t) = U
  <2>1. ASSUME NEW y \in ToSet(t) PROVE y \in U
    <3>1. PICK k \in 1..N + 1 : y = t[k]
      BY <1>4, <2>1 DEF ToSet
    <3> QED
      BY <1>5, <3>1
  <2>2. x \in ToSet(t)
    BY <1>1, <1>4 DEF ToSet
  <2>3. ASSUME NEW y \in S PROVE y \in ToSet(t)
    <3>1. PICK k \in 1..N : y = s[k]
      BY <1>2, <2>3 DEF ToSet
    <3> QED
      BY <1>4, <3>1 DEF ToSet
  <2> QED
    BY <2>1, <2>2, <2>3
<1>8. InOrder(U, ahead, t)
  BY <1>1, <1>4, <1>5, <1>6, <1>7 DEF InOrder
<1> QED
  BY <1>8

LEMMA OrderExists ==
    ASSUME NEW S, IsFiniteSet(S), NEW ahead, TotalOrder(S, ahead)
    PROVE  \E s : InOrder(S, ahead, s)
<1> DEFINE P(T) == \E s : InOrder(T, ahead, s)
           Q == {n \in 0..Cardinality(S) :
                   \A T \in SUBSET S : Cardinality(T) = n => P(T)}
<1>1. Cardinality(S) \in Nat
  BY FS_CardinalityType
<1>2. 0 \in Q
  <2>1. ASSUME NEW T \in SUBSET S, Cardinality(T) = 0 PROVE P(T)
    <3>1. IsFiniteSet(T)
      BY FS_Subset
    <3>2. T = {}
      BY <2>1, <3>1, FS_EmptySet
    <3>3. Cardinality({}) = 0
      BY FS_EmptySet
    <3> DEFINE s == << >>
    <3>4. s \in [1..0 -> {}] /\ DOMAIN s = {} /\ ToSet(s) = {}
      BY DEF ToSet
    <3>5. InOrder({}, ahead, s)
      BY <3>3, <3>4 DEF InOrder
    <3> QED
      BY <3>2, <3>5
  <2> HIDE DEF P
  <2> QED
    BY <1>1, <2>1
<1>3. ASSUME NEW n \in 1..Cardinality(S), n - 1 \in Q PROVE n \in Q
  <2>1. ASSUME NEW T \in SUBSET S, Cardinality(T) = n PROVE P(T)
    <3>1. IsFiniteSet(T) /\ T # {} /\ TotalOrder(T, ahead)
      <4>1. IsFiniteSet(T) /\ TotalOrder(T, ahead)
        BY FS_Subset DEF TotalOrder
      <4>2. T # {}
        BY <1>1, <2>1, FS_EmptySet
      <4> QED
        BY <4>1, <4>2
    <3>2. PICK x \in T : \A y \in T \ {x} : <<y, x>> \in ahead
      BY <3>1, LastElement
    <3> DEFINE R == T \ {x}
    <3>3. IsFiniteSet(R) /\ Cardinality(R) = n - 1 /\ R \in SUBSET S /\ T = R \cup {x} /\ x \notin R
      <4>1. IsFiniteSet(R) /\ Cardinality(R) = Cardinality(T) - 1
        BY <3>1, FS_RemoveElement
      <4> QED
        BY <2>1, <4>1
    <3>4. P(R)
      <4> HIDE DEF P, R
      <4> QED
        BY <1>3, <3>3
    <3>5. PICK s : InOrder(R, ahead, s)
      BY <3>4
    <3>6. \A y \in R : <<y, x>> \in ahead
      BY <3>2
    <3> HIDE DEF R
    <3> QED
      BY <3>3, <3>5, <3>6, OrderLonger
  <2> HIDE DEF P
  <2> QED
    BY <1>1, <2>1
<1> HIDE DEF Q
<1>4. Cardinality(S) \in Q
  BY <1>1, <1>2, <1>3, UpTo
<1> QED
  BY <1>4 DEF Q

LEMMA SortedIs ==
    ASSUME NEW S, IsFiniteSet(S), NEW ahead, TotalOrder(S, ahead)
    PROVE  /\ InOrder(S, ahead, Sorted(S, ahead))
           /\ Sorted(S, ahead) \in Seq(S) /\ Len(Sorted(S, ahead)) = Cardinality(S)
<1>1. PICK s : InOrder(S, ahead, s)
  BY OrderExists
<1>2. \E t \in [1..Cardinality(S) -> S] :
         /\ ToSet(t) = S
         /\ \A m, n \in DOMAIN t : m < n => <<t[m], t[n]>> \in ahead
  BY <1>1 DEF InOrder
<1> DEFINE t == Sorted(S, ahead)
<1>3. InOrder(S, ahead, t)
  BY <1>2, Zenon DEF Sorted, InOrder
<1> HIDE DEF t
<1>4. t \in Seq(S) /\ Len(t) = Cardinality(S)
  <2>1. Cardinality(S) \in Nat
    BY FS_CardinalityType
  <2> QED
    BY <1>3, <2>1 DEF InOrder
<1> QED
  BY <1>3, <1>4 DEF t

-----------------------------------------------------------------------------
(* Sequences.                                                              *)

LEMMA ToSetIs ==
    ASSUME NEW A, NEW s \in Seq(A)
    PROVE  /\ ToSet(s) \subseteq A
           /\ \A e : e \in ToSet(s) <=> \E n \in 1..Len(s) : s[n] = e
BY DEF ToSet

LEMMA ToSetAppended ==
    ASSUME NEW A, NEW s \in Seq(A), NEW e \in A
    PROVE  ToSet(Append(s, e)) = ToSet(s) \cup {e}
<1>1. /\ Len(s) \in Nat /\ Append(s, e) \in Seq(A) /\ Len(Append(s, e)) = Len(s) + 1
      /\ Append(s, e)[Len(s) + 1] = e /\ \A n \in 1..Len(s) : Append(s, e)[n] = s[n]
  BY AppendProperties
<1>2. DOMAIN s = 1..Len(s) /\ DOMAIN Append(s, e) = 1..Len(s) + 1
  BY <1>1
<1>3. \A n \in 1..Len(s) + 1 : n = Len(s) + 1 \/ n \in 1..Len(s)
  BY <1>1
<1> QED
  BY <1>1, <1>2, <1>3 DEF ToSet

LEMMA ToSetJoined ==
    ASSUME NEW A, NEW s \in Seq(A), NEW t \in Seq(A)
    PROVE  /\ s \o t \in Seq(A) /\ Len(s \o t) = Len(s) + Len(t)
           /\ ToSet(s \o t) = ToSet(s) \cup ToSet(t)
<1> DEFINE u == s \o t
<1>1. /\ u \in Seq(A) /\ Len(u) = Len(s) + Len(t) /\ Len(s) \in Nat /\ Len(t) \in Nat
      /\ \A n \in 1..Len(s) : u[n] = s[n]
      /\ \A n \in 1..Len(t) : u[Len(s) + n] = t[n]
  BY ConcatProperties
<1> HIDE DEF u
<1>2. ASSUME NEW e \in ToSet(u) PROVE e \in ToSet(s) \cup ToSet(t)
  <2>1. PICK n \in 1..Len(u) : u[n] = e
    BY <1>1, <1>2, ToSetIs
  <2>2. CASE n \in 1..Len(s)
    BY <1>1, <2>1, <2>2, ToSetIs
  <2>3. CASE n \notin 1..Len(s)
    <3>1. PICK k \in 1..Len(t) : n = Len(s) + k
      <4>1. n - Len(s) \in 1..Len(t) /\ n = Len(s) + (n - Len(s))
        BY <1>1, <2>3
      <4> QED
        BY <4>1
    <3>2. t[k] = e
      BY <1>1, <2>1, <3>1
    <3> QED
      BY <3>2, ToSetIs
  <2> QED
    BY <2>2, <2>3
<1>3. ASSUME NEW e \in ToSet(s) PROVE e \in ToSet(u)
  <2>1. PICK n \in 1..Len(s) : s[n] = e
    BY <1>3, ToSetIs
  <2>2. n \in 1..Len(u)
    BY <1>1
  <2> QED
    BY <1>1, <2>1, <2>2, ToSetIs
<1>4. ASSUME NEW e \in ToSet(t) PROVE e \in ToSet(u)
  <2>1. PICK n \in 1..Len(t) : t[n] = e
    BY <1>4, ToSetIs
  <2>2. Len(s) + n \in 1..Len(u)
    BY <1>1
  <2> QED
    BY <1>1, <2>1, <2>2, ToSetIs
<1> QED
  BY <1>1, <1>2, <1>3, <1>4 DEF u

\* What is joined so far.
Joins(seqs, N, f) ==
    /\ f[0] = << >>
    /\ \A n \in 1..N : f[n] = f[n - 1] \o seqs[n]

\* The joins of each length solve the recursion.
JoinsUpTo(seqs, N, f) ==
    f = [n \in 0..N |-> IF n = 0 THEN << >> ELSE f[n - 1] \o seqs[n]]

LEMMA JoinsExist ==
    ASSUME NEW seqs, NEW N \in Nat
    PROVE  \E f : JoinsUpTo(seqs, N, f)
<1> DEFINE G(f, m) == [n \in 0..m |-> IF n = 0 THEN << >> ELSE f[n - 1] \o seqs[n]]
           Q == {m \in 0..N : \E f : f = G(f, m)}
<1>2. 0 \in Q
  <2> DEFINE f == [n \in 0..0 |-> << >>]
  <2>1. f = G(f, 0)
    OBVIOUS
  <2> HIDE DEF f, G
  <2> QED
    BY <2>1
<1>3. ASSUME NEW m \in 1..N, m - 1 \in Q PROVE m \in Q
  <2>1. PICK f : f = G(f, m - 1)
    BY <1>3
  <2> DEFINE last == f[m - 1] \o seqs[m]
             g == [n \in 0..m |-> IF n = m THEN last ELSE f[n]]
  <2>2. ASSUME NEW n \in 0..m
        PROVE  g[n] = IF n = 0 THEN << >> ELSE g[n - 1] \o seqs[n]
    <3>1. CASE n = 0
      <4>1. 0 \in 0..m - 1 /\ 0 # m /\ 0 \in 0..m
        OBVIOUS
      <4>2. g[0] = f[0]
        BY <4>1
      <4>3. f[0] = << >>
        BY <2>1, <4>1
      <4> QED
        BY <3>1, <4>2, <4>3
    <3>2. CASE n = m
      <4>1. m - 1 \in 0..m /\ m - 1 # m /\ m # 0
        OBVIOUS
      <4>2. g[m] = last /\ g[m - 1] = f[m - 1]
        BY <4>1
      <4> HIDE DEF g
      <4> QED
        BY <3>2, <4>1, <4>2
    <3>3. CASE n # 0 /\ n # m
      <4>1. n \in 0..m - 1 /\ n - 1 \in 0..m /\ n - 1 # m
        BY <3>3
      <4>2. g[n] = f[n] /\ g[n - 1] = f[n - 1]
        BY <3>3, <4>1
      <4> HIDE DEF g
      <4>3. G(f, m - 1)[n] = f[n - 1] \o seqs[n]
        BY <3>3, <4>1
      <4> HIDE DEF G
      <4> QED
        BY <2>1, <3>3, <4>2, <4>3, Zenon
    <3> QED
      BY <3>1, <3>2, <3>3
  <2>3. g = [n \in 0..m |-> g[n]]
    OBVIOUS
  <2> HIDE DEF g
  <2>4. g = G(g, m)
    BY <2>2, <2>3, Zenon
  <2>5. m \in 0..N
    OBVIOUS
  <2> HIDE DEF G
  <2> QED
    BY <2>4, <2>5
<1> HIDE DEF Q
<1>4. N \in Q
  BY <1>2, <1>3, UpTo
<1> QED
  BY <1>4, Zenon DEF Q, JoinsUpTo

LEMMA JoinedJoins ==
    ASSUME NEW A, NEW seqs \in Seq(A)
    PROVE  \E f : Joins(seqs, Len(seqs), f) /\ Joined(seqs) = f[Len(seqs)]
<1> DEFINE E(f) == [n \in 0..Len(seqs) |-> IF n = 0 THEN << >> ELSE f[n - 1] \o seqs[n]]
<1>1. Len(seqs) \in Nat
  OBVIOUS
<1>2. PICK g : g = E(g)
  <2>1. \E g : JoinsUpTo(seqs, Len(seqs), g)
    BY <1>1, JoinsExist
  <2> QED
    BY <2>1, Zenon DEF JoinsUpTo
<1> DEFINE f == CHOOSE x : x = E(x)
<1>3. f = E(f)
  BY <1>2, Zenon
<1>4. Joined(seqs) = f[Len(seqs)]
  BY Zenon DEF Joined
<1> HIDE DEF f
<1>5. f[0] = << >>
  BY <1>1, <1>3
<1>6. ASSUME NEW n \in 1..Len(seqs) PROVE f[n] = f[n - 1] \o seqs[n]
  <2>1. n \in 0..Len(seqs) /\ n # 0
    BY <1>1
  <2>2. E(f)[n] = f[n - 1] \o seqs[n]
    BY <2>1, Zenon
  <2> QED
    BY <1>3, <2>2, Zenon
<1>7. Joins(seqs, Len(seqs), f)
  BY <1>5, <1>6, Zenon DEF Joins
<1> QED
  BY <1>4, <1>7

LEMMA JoinedIs ==
    ASSUME NEW A, NEW seqs \in Seq(Seq(A))
    PROVE  /\ Joined(seqs) \in Seq(A)
           /\ \A e : e \in ToSet(Joined(seqs)) <=> \E n \in 1..Len(seqs) : e \in ToSet(seqs[n])
<1> DEFINE N == Len(seqs)
<1>1. N \in Nat
  OBVIOUS
<1>2. PICK f : Joins(seqs, N, f) /\ Joined(seqs) = f[N]
  BY JoinedJoins
<1> DEFINE Good(n) == /\ f[n] \in Seq(A)
                      /\ \A e : e \in ToSet(f[n]) <=> \E m \in 1..n : e \in ToSet(seqs[m])
           Q == {n \in 0..N : Good(n)}
<1>3. 0 \in Q
  <2>1. f[0] = << >> /\ << >> \in Seq(A)
    BY <1>2 DEF Joins
  <2>2. ToSet(<< >>) = {}
    BY DEF ToSet
  <2>3. Good(0)
    BY <2>1, <2>2
  <2> HIDE DEF Good
  <2> QED
    BY <1>1, <2>3
<1>4. ASSUME NEW n \in 1..N, n - 1 \in Q PROVE n \in Q
  <2>1. Good(n - 1) /\ n \in 0..N /\ seqs[n] \in Seq(A)
    BY <1>1, <1>4
  <2>2. \A m \in 1..n : m = n \/ m \in 1..n - 1
    BY <1>1
  <2>3. n \in 1..n /\ \A m \in 1..n - 1 : m \in 1..n
    BY <1>1
  <2>4. f[n] = f[n - 1] \o seqs[n]
    BY <1>2 DEF Joins
  <2>5. f[n] \in Seq(A) /\ ToSet(f[n]) = ToSet(f[n - 1]) \cup ToSet(seqs[n])
    BY <2>1, <2>4, ToSetJoined
  <2>6. Good(n)
    BY <2>1, <2>2, <2>3, <2>5
  <2> HIDE DEF Good
  <2> QED
    BY <2>1, <2>6
<1> HIDE DEF Q
<1>5. N \in Q
  <2>1. \A n \in 0..N : n \in Q
    BY <1>1, <1>3, <1>4, UpTo, Zenon
  <2> QED
    BY <1>1, <2>1
<1>6. Good(N)
  BY <1>5 DEF Q
<1> QED
  BY <1>2, <1>6

\* A filter so far.
Filters(s, set, f) ==
    /\ f[0] = << >>
    /\ \A n \in 1..Len(s) :
          f[n] = IF s[n] \in set THEN Append(f[n - 1], s[n]) ELSE f[n - 1]

\* The filters of each length solve the recursion.
Filtered(s, set, N, f) ==
    f = [n \in 0..N |-> IF n = 0 THEN << >>
                        ELSE IF s[n] \in set THEN Append(f[n - 1], s[n]) ELSE f[n - 1]]

LEMMA FiltersExist ==
    ASSUME NEW s, NEW set, NEW N \in Nat
    PROVE  \E f : Filtered(s, set, N, f)
<1> DEFINE G(f, m) == [n \in 0..m |-> IF n = 0 THEN << >>
                          ELSE IF s[n] \in set THEN Append(f[n - 1], s[n]) ELSE f[n - 1]]
           Q == {m \in 0..N : \E f : f = G(f, m)}
<1>2. 0 \in Q
  <2> DEFINE f == [n \in 0..0 |-> << >>]
  <2>1. f = G(f, 0)
    OBVIOUS
  <2> HIDE DEF f, G
  <2> QED
    BY <2>1
<1>3. ASSUME NEW m \in 1..N, m - 1 \in Q PROVE m \in Q
  <2>1. PICK f : f = G(f, m - 1)
    BY <1>3
  <2> DEFINE last == IF s[m] \in set THEN Append(f[m - 1], s[m]) ELSE f[m - 1]
             g == [n \in 0..m |-> IF n = m THEN last ELSE f[n]]
  <2>2. ASSUME NEW n \in 0..m
        PROVE  g[n] = IF n = 0 THEN << >>
                      ELSE IF s[n] \in set THEN Append(g[n - 1], s[n]) ELSE g[n - 1]
    <3>1. CASE n = 0
      <4>1. 0 \in 0..m - 1 /\ 0 # m /\ 0 \in 0..m
        OBVIOUS
      <4>2. g[0] = f[0]
        BY <4>1
      <4>3. f[0] = << >>
        BY <2>1, <4>1
      <4> QED
        BY <3>1, <4>2, <4>3
    <3>2. CASE n = m
      <4>1. m - 1 \in 0..m /\ m - 1 # m /\ m # 0
        OBVIOUS
      <4>2. g[m] = last /\ g[m - 1] = f[m - 1]
        BY <4>1
      <4> HIDE DEF g
      <4> QED
        BY <3>2, <4>1, <4>2
    <3>3. CASE n # 0 /\ n # m
      <4>1. n \in 0..m - 1 /\ n - 1 \in 0..m /\ n - 1 # m
        BY <3>3
      <4>2. g[n] = f[n] /\ g[n - 1] = f[n - 1]
        BY <3>3, <4>1
      <4> HIDE DEF g
      <4>3. G(f, m - 1)[n] = IF s[n] \in set THEN Append(f[n - 1], s[n]) ELSE f[n - 1]
        BY <3>3, <4>1
      <4> HIDE DEF G
      <4> QED
        BY <2>1, <3>3, <4>2, <4>3, Zenon
    <3> QED
      BY <3>1, <3>2, <3>3
  <2>3. g = [n \in 0..m |-> g[n]]
    OBVIOUS
  <2> HIDE DEF g
  <2>4. g = G(g, m)
    BY <2>2, <2>3, Zenon
  <2>5. m \in 0..N
    OBVIOUS
  <2> HIDE DEF G
  <2> QED
    BY <2>4, <2>5
<1> HIDE DEF Q
<1>4. N \in Q
  BY <1>2, <1>3, UpTo
<1> QED
  BY <1>4, Zenon DEF Q, Filtered

LEMMA ThoseFilter ==
    ASSUME NEW A, NEW s \in Seq(A), NEW set
    PROVE  \E f : Filters(s, set, f) /\ Those(s, set) = f[Len(s)]
<1> DEFINE N == Len(s)
           E(f) == [n \in 0..N |-> IF n = 0 THEN << >>
                        ELSE IF s[n] \in set THEN Append(f[n - 1], s[n]) ELSE f[n - 1]]
<1>1. N \in Nat
  OBVIOUS
<1>2. PICK g : g = E(g)
  <2>1. \E g : Filtered(s, set, N, g)
    BY <1>1, FiltersExist
  <2> QED
    BY <2>1, Zenon DEF Filtered
<1> DEFINE f == CHOOSE x : x = E(x)
<1>3. f = E(f)
  BY <1>2, Zenon
<1>4. Those(s, set) = f[N]
  BY Zenon DEF Those
<1> HIDE DEF f
<1>5. f[0] = << >>
  BY <1>1, <1>3
<1>6. ASSUME NEW n \in 1..N
      PROVE  f[n] = IF s[n] \in set THEN Append(f[n - 1], s[n]) ELSE f[n - 1]
  <2>1. n \in 0..N /\ n # 0
    BY <1>1
  <2>2. E(f)[n] = IF s[n] \in set THEN Append(f[n - 1], s[n]) ELSE f[n - 1]
    BY <2>1, Zenon
  <2> QED
    BY <1>3, <2>2, Zenon
<1>7. Filters(s, set, f)
  BY <1>5, <1>6, Zenon DEF Filters
<1> QED
  BY <1>4, <1>7

LEMMA ThoseTyped ==
    ASSUME NEW A, NEW s \in Seq(A), NEW set
    PROVE  Those(s, set) \in Seq(A) /\ ToSet(Those(s, set)) = ToSet(s) \cap set
<1> DEFINE N == Len(s)
<1>1. N \in Nat
  OBVIOUS
<1>2. PICK f : Filters(s, set, f) /\ Those(s, set) = f[N]
  BY ThoseFilter
<1> DEFINE Good(n) == /\ f[n] \in Seq(A)
                      /\ \A e : e \in ToSet(f[n]) <=> e \in set /\ \E m \in 1..n : s[m] = e
           Q == {n \in 0..N : Good(n)}
<1>3. 0 \in Q
  <2>1. f[0] = << >> /\ << >> \in Seq(A)
    BY <1>2 DEF Filters
  <2>2. ToSet(<< >>) = {}
    BY DEF ToSet
  <2>3. Good(0)
    BY <2>1, <2>2
  <2> HIDE DEF Good
  <2> QED
    BY <1>1, <2>3
<1>4. ASSUME NEW n \in 1..N, n - 1 \in Q PROVE n \in Q
  <2>1. Good(n - 1) /\ n \in 0..N /\ s[n] \in A
    BY <1>1, <1>4
  <2>2. \A m \in 1..n : m = n \/ m \in 1..n - 1
    BY <1>1
  <2>3. n \in 1..n /\ \A m \in 1..n - 1 : m \in 1..n
    BY <1>1
  <2>4. CASE s[n] \in set
    <3>1. f[n] = Append(f[n - 1], s[n])
      BY <1>2, <2>4 DEF Filters
    <3>2. f[n] \in Seq(A) /\ ToSet(f[n]) = ToSet(f[n - 1]) \cup {s[n]}
      BY <2>1, <3>1, ToSetAppended
    <3>3. Good(n)
      BY <2>1, <2>2, <2>3, <2>4, <3>2
    <3> HIDE DEF Good
    <3> QED
      BY <2>1, <3>3
  <2>5. CASE s[n] \notin set
    <3>1. f[n] = f[n - 1]
      BY <1>2, <2>5 DEF Filters
    <3>2. Good(n)
      BY <2>1, <2>2, <2>3, <2>5, <3>1
    <3> HIDE DEF Good
    <3> QED
      BY <2>1, <3>2
  <2> QED
    BY <2>4, <2>5
<1> HIDE DEF Q
<1>5. N \in Q
  <2>1. \A n \in 0..N : n \in Q
    BY <1>1, <1>3, <1>4, UpTo, Zenon
  <2> QED
    BY <1>1, <2>1
<1>6. Good(N)
  BY <1>5 DEF Q
<1>7. \A e : e \in ToSet(s) <=> \E m \in 1..N : s[m] = e
  BY ToSetIs
<1> QED
  BY <1>2, <1>6, <1>7

\* A sequence is what two complementary filters make of it.
LEMMA ThoseSplit ==
    ASSUME NEW A, NEW s \in Seq(A), NEW S, NEW T,
           \A n \in 1..Len(s) : s[n] \in T <=> s[n] \notin S
    PROVE  Len(Those(s, S)) + Len(Those(s, T)) = Len(s)
<1> DEFINE N == Len(s)
<1>1. N \in Nat
  OBVIOUS
<1>2. PICK f : Filters(s, S, f) /\ Those(s, S) = f[N]
  BY ThoseFilter
<1>3. PICK g : Filters(s, T, g) /\ Those(s, T) = g[N]
  BY ThoseFilter
<1> DEFINE Good(n) == f[n] \in Seq(A) /\ g[n] \in Seq(A) /\ Len(f[n]) + Len(g[n]) = n
           Q == {n \in 0..N : Good(n)}
<1>4. 0 \in Q
  <2>1. f[0] = << >> /\ g[0] = << >> /\ << >> \in Seq(A) /\ Len(<< >>) = 0
    BY <1>2, <1>3 DEF Filters
  <2>2. Good(0)
    BY <2>1
  <2> HIDE DEF Good
  <2> QED
    BY <1>1, <2>2
<1>5. ASSUME NEW n \in 1..N, n - 1 \in Q PROVE n \in Q
  <2>1. Good(n - 1) /\ n \in 0..N /\ s[n] \in A /\ n \in Nat
    <3>1. Good(n - 1)
      <4> HIDE DEF Good
      <4> QED
        BY <1>5
    <3>2. n \in 0..N /\ n \in Nat
      BY <1>1
    <3>3. s[n] \in A
      BY ElementOfSeq
    <3> HIDE DEF Good, N
    <3> QED
      BY <3>1, <3>2, <3>3
  <2> DEFINE a == Len(f[n - 1])
             b == Len(g[n - 1])
  <2>4. a \in Nat /\ b \in Nat /\ a + b = n - 1
    <3>1. f[n - 1] \in Seq(A) /\ g[n - 1] \in Seq(A) /\ a + b = n - 1
      BY <2>1, Zenon
    <3> QED
      BY <3>1, LenProperties
  <2>5. (a + 1) + b = n /\ a + (b + 1) = n
    <3> HIDE DEF a, b
    <3> QED
      BY <2>1, <2>4
  <2>2. CASE s[n] \in S
    <3>1. f[n] = Append(f[n - 1], s[n]) /\ g[n] = g[n - 1]
      BY <1>2, <1>3, <2>2 DEF Filters
    <3>2. f[n] \in Seq(A) /\ Len(f[n]) = Len(f[n - 1]) + 1
      BY <2>1, <3>1, AppendProperties
    <3>3. Good(n)
      BY <2>1, <2>5, <3>1, <3>2, Zenon
    <3> HIDE DEF Good
    <3> QED
      BY <2>1, <3>3
  <2>3. CASE s[n] \notin S
    <3>1. g[n] = Append(g[n - 1], s[n]) /\ f[n] = f[n - 1]
      BY <1>2, <1>3, <2>3 DEF Filters
    <3>2. g[n] \in Seq(A) /\ Len(g[n]) = Len(g[n - 1]) + 1
      BY <2>1, <3>1, AppendProperties
    <3>3. Good(n)
      BY <2>1, <2>5, <3>1, <3>2, Zenon
    <3> HIDE DEF Good
    <3> QED
      BY <2>1, <3>3
  <2> QED
    BY <2>2, <2>3
<1> HIDE DEF Q
<1>6. N \in Q
  <2>1. \A n \in 0..N : n \in Q
    BY <1>1, <1>4, <1>5, UpTo, Zenon
  <2> QED
    BY <1>1, <2>1
<1>7. Good(N)
  BY <1>6 DEF Q
<1> QED
  BY <1>2, <1>3, <1>7

LEMMA PrefixIs ==
    ASSUME NEW A, NEW s \in Seq(A), NEW k \in 0..Len(s)
    PROVE  /\ SubSeq(s, 1, k) \in Seq(A) /\ Len(SubSeq(s, 1, k)) = k
           /\ \A n \in 1..k : SubSeq(s, 1, k)[n] = s[n]
OBVIOUS

\* What keeps a prefix and nothing after it makes that prefix.
LEMMA ThosePrefix ==
    ASSUME NEW A, NEW s \in Seq(A), NEW set, NEW k \in 0..Len(s),
           \A n \in 1..Len(s) : s[n] \in set <=> n <= k
    PROVE  Those(s, set) = SubSeq(s, 1, k)
<1> DEFINE N == Len(s)
           UpToK(n) == IF n <= k THEN n ELSE k
<1>1. N \in Nat /\ k \in Nat /\ k <= N
  OBVIOUS
<1>2. PICK f : Filters(s, set, f) /\ Those(s, set) = f[N]
  BY ThoseFilter
<1> DEFINE Q == {n \in 0..N : f[n] = SubSeq(s, 1, UpToK(n))}
<1>3. 0 \in Q
  <2>1. f[0] = << >> /\ UpToK(0) = 0
    BY <1>1, <1>2 DEF Filters
  <2>2. SubSeq(s, 1, 0) = << >>
    OBVIOUS
  <2> HIDE DEF UpToK
  <2>3. f[0] = SubSeq(s, 1, UpToK(0))
    BY <2>1, <2>2, Zenon
  <2> QED
    BY <1>1, <2>3
<1>4. ASSUME NEW n \in 1..N, n - 1 \in Q PROVE n \in Q
  <2>1. n \in 0..N /\ n \in Nat /\ f[n - 1] = SubSeq(s, 1, UpToK(n - 1))
    BY <1>1, <1>4
  <2>2. CASE n <= k
    <3>1. UpToK(n - 1) = n - 1 /\ UpToK(n) = n
      BY <1>1, <2>1, <2>2
    <3>2. f[n] = Append(SubSeq(s, 1, n - 1), s[n])
      BY <1>2, <2>1, <2>2, <3>1 DEF Filters
    <3>3. Append(SubSeq(s, 1, n - 1), s[n]) = SubSeq(s, 1, n)
      <4> DEFINE t == SubSeq(s, 1, n - 1)
                 u == SubSeq(s, 1, n)
                 v == Append(t, s[n])
      <4>1. /\ t \in Seq(A) /\ Len(t) = n - 1 /\ \A m \in 1..n - 1 : t[m] = s[m]
        <5>1. n - 1 \in 0..Len(s)
          BY <1>1
        <5> QED
          BY <5>1, PrefixIs
      <4>2. /\ u \in Seq(A) /\ Len(u) = n /\ \A m \in 1..n : u[m] = s[m]
        BY <1>1, PrefixIs
      <4>3. s[n] \in A
        BY ElementOfSeq
      <4> HIDE DEF t, u
      <4>4. /\ v \in Seq(A) /\ Len(v) = n /\ v[n] = s[n] /\ \A m \in 1..n - 1 : v[m] = s[m]
        BY <1>1, <4>1, <4>3, AppendProperties
      <4> HIDE DEF v
      <4>5. \A m \in 1..n : m = n \/ m \in 1..n - 1
        BY <1>1
      <4>6. \A m \in 1..n : v[m] = u[m]
        BY <4>2, <4>4, <4>5
      <4>7. v = u
        BY <4>2, <4>4, <4>6, SeqEqual
      <4> QED
        BY <4>7 DEF t, u, v
    <3> QED
      BY <2>1, <3>1, <3>2, <3>3
  <2>3. CASE ~(n <= k)
    <3>1. UpToK(n - 1) = k /\ UpToK(n) = k
      BY <1>1, <2>1, <2>3
    <3>2. f[n] = f[n - 1]
      BY <1>2, <2>3 DEF Filters
    <3> QED
      BY <2>1, <3>1, <3>2
  <2> QED
    BY <2>2, <2>3
<1>5. UpToK(N) = k
  BY <1>1
<1> HIDE DEF Q
<1>6. N \in Q
  <2>1. \A n \in 0..N : n \in Q
    BY <1>1, <1>3, <1>4, UpTo, Zenon
  <2> QED
    BY <1>1, <2>1
<1>7. f[N] = SubSeq(s, 1, UpToK(N))
  BY <1>6 DEF Q
<1> QED
  BY <1>2, <1>5, <1>7

\* A sum of a prefix is the sum so far, which never falls.
LEMMA TotalPrefix ==
    ASSUME NEW c \in Seq(Nat)
    PROVE  \E f : /\ \A k \in 0..Len(c) : Total(SubSeq(c, 1, k)) = f[k] /\ f[k] \in Nat
                  /\ f[0] = 0
                  /\ \A k \in 1..Len(c) : f[k] = f[k - 1] + c[k] /\ f[k - 1] <= f[k]
<1> DEFINE N == Len(c)
<1>1. N \in Nat
  OBVIOUS
<1>2. PICK f : Sums(c, N, f)
  BY <1>1, SumsExist
<1>3. ASSUME NEW k \in 0..N PROVE Total(SubSeq(c, 1, k)) = f[k] /\ f[k] \in Nat
  <2> DEFINE d == SubSeq(c, 1, k)
  <2>1. d \in Seq(Nat) /\ Len(d) = k /\ \A n \in 1..k : d[n] = c[n]
    BY PrefixIs
  <2> HIDE DEF d
  <2>2. PICK g : Sums(d, k, g) /\ Total(d) = g[k]
    BY <2>1, TotalIs
  <2> DEFINE Q == {n \in 0..k : g[n] = f[n]}
  <2>3. 0 \in Q
    BY <1>1, <1>2, <2>2 DEF Sums
  <2>4. ASSUME NEW n \in 1..k, n - 1 \in Q PROVE n \in Q
    <3>1. n \in 1..N /\ n \in 0..k
      BY <1>1
    <3>2. g[n] = g[n - 1] + d[n] /\ f[n] = f[n - 1] + c[n]
      BY <1>2, <2>2, <3>1 DEF Sums
    <3>3. g[n - 1] = f[n - 1] /\ d[n] = c[n]
      BY <2>1, <2>4
    <3>4. g[n] = f[n]
      BY <3>2, <3>3, Zenon
    <3> QED
      BY <3>1, <3>4
  <2> HIDE DEF Q
  <2>5. k \in Q
    <3>1. k \in Nat
      BY <1>1
    <3>2. \A n \in 0..k : n \in Q
      BY <2>3, <2>4, <3>1, UpTo, Zenon
    <3> QED
      BY <3>1, <3>2
  <2>6. f[k] \in Nat
    BY <1>2 DEF Sums
  <2> QED
    BY <2>2, <2>5, <2>6 DEF Q, d
<1>4. ASSUME NEW k \in 1..N PROVE f[k] = f[k - 1] + c[k] /\ f[k - 1] <= f[k]
  <2>1. f[k] = f[k - 1] + c[k]
    BY <1>2 DEF Sums
  <2>2. c[k] \in Nat /\ f[k - 1] \in Nat
    <3>1. k - 1 \in 0..N
      BY <1>1
    <3>2. c[k] \in Nat
      BY ElementOfSeq
    <3> QED
      BY <1>3, <3>1, <3>2
  <2> QED
    BY <2>1, <2>2
<1>5. f[0] = 0
  BY <1>2 DEF Sums
<1> QED
  BY <1>3, <1>4, <1>5
=============================================================================
