-------------------------- MODULE DataPath_sequences --------------------------
(***************************************************************************)
(* What DataPath's operators on files do: numbers put in order, rows of    *)
(* chunks side by side, and texts joined into one.  The induction these    *)
(* need is that on the members of a set of numbers.                        *)
(***************************************************************************)
EXTENDS DataPath, FiniteSetTheorems, WellFoundedInduction, TLAPS

\* Among natural numbers there is a least.
LEMMA LeastNat ==
  ASSUME NEW T \in SUBSET Nat, T # {}
  PROVE  \E m \in T : \A i \in T : m <= i
<1> DEFINE R == {ss \in Nat \X Nat : ss[1] < ss[2]}
<1>1. IsWellFoundedOn(R, Nat)
  BY NatLessThanWellFounded DEF OpToRel
<1>2. \A x, y \in T : <<y, x>> \notin R => x <= y
  OBVIOUS
<1> HIDE DEF R
<1>3. \E x \in T : \A y \in T : ~ (<<y, x>> \in R)
  BY <1>1, WFMin
<1>4. QED  BY <1>2, <1>3

\* Induction from 1 to n, for the numbers of a set.
LEMMA UpTo ==
  ASSUME NEW n \in Nat, NEW S, n >= 1 => 1 \in S,
         \A i \in 1 .. n - 1 : i \in S => i + 1 \in S
  PROVE  \A i \in 1 .. n : i \in S
<1> DEFINE T == {i \in 1 .. n : i \notin S}
<1> SUFFICES ASSUME T # {}  PROVE FALSE
  OBVIOUS
<1>0. T \in SUBSET Nat
  OBVIOUS
<1> HIDE DEF T
<1>1. PICK m \in T : \A i \in T : m <= i
  BY <1>0, LeastNat
<1> USE DEF T
<1>2. m \in 1 .. n /\ m # 1 /\ m - 1 \in 1 .. n - 1
  BY <1>1
<1>3. m - 1 \in S
  BY <1>1, <1>2
<1>4. QED  BY <1>1, <1>2, <1>3
-----------------------------------------------------------------------------
(* Texts joined into one *)

\* FlattenSeq puts the texts behind one another; f has what it has so far.
Flattening(f, T, n) ==
  /\ FlattenSeq(T) = f[n] /\ f[1] = T[1]
  /\ \A i \in 1 .. n - 1 : f[i + 1] = f[i] \o T[i + 1]

LEMMA FlattenUnfolds ==
  ASSUME NEW n \in Nat \ {0}, NEW T, DOMAIN T = 1 .. n, Len(T) = n
  PROVE  \E f : Flattening(f, T, n)
<1> DEFINE IsFlat(f, m) == /\ DOMAIN f = 1 .. m /\ f = [i \in DOMAIN f |-> f[i]]
                           /\ \A i \in 1 .. m : f[i] = IF i = 1 THEN T[i] ELSE f[i - 1] \o T[i]
           S == {m \in 1 .. n : \E f : IsFlat(f, m)}
<1>1. 1 \in S
  <2> DEFINE f == [i \in 1 .. 1 |-> T[i]]
  <2>1. 1 \in 1 .. n /\ IsFlat(f, 1)
    OBVIOUS
  <2> HIDE DEF f
  <2>2. QED  BY <2>1
<1>2. ASSUME NEW m \in 1 .. n - 1, m \in S  PROVE m + 1 \in S
  <2>1. PICK f : IsFlat(f, m)
    BY <1>2
  <2> DEFINE g == [i \in 1 .. m + 1 |-> IF i <= m THEN f[i] ELSE f[m] \o T[m + 1]]
  <2>2. ASSUME NEW i \in 1 .. m + 1
        PROVE  g[i] = IF i = 1 THEN T[i] ELSE g[i - 1] \o T[i]
    <3>1. CASE i = m + 1
      <4>1. i # 1 /\ m \in 1 .. m + 1 /\ i - 1 = m /\ ~(i <= m) /\ m <= m
        BY <3>1
      <4>2. g[i] = f[m] \o T[m + 1] /\ g[m] = f[m]
        BY <4>1
      <4>3. QED  BY <3>1, <4>1, <4>2
    <3>2. CASE i = 1
      <4>1. g[1] = f[1] /\ 1 \in 1 .. m
        BY <3>2
      <4>2. QED  BY <2>1, <3>2, <4>1
    <3>3. CASE i \in 2 .. m
      <4>1. i \in 1 .. m /\ i - 1 \in 1 .. m /\ i # 1 /\ i - 1 \in 1 .. m + 1
        BY <3>3
      <4>2. g[i] = f[i] /\ g[i - 1] = f[i - 1]
        BY <4>1
      <4>3. f[i] = f[i - 1] \o T[i]
        BY <2>1, <4>1
      <4>4. QED  BY <4>1, <4>2, <4>3
    <3>4. QED  BY <3>1, <3>2, <3>3
  <2>3. DOMAIN g = 1 .. m + 1 /\ g = [i \in DOMAIN g |-> g[i]]
    OBVIOUS
  <2> HIDE DEF g
  <2>4. m + 1 \in 1 .. n
    OBVIOUS
  <2>5. IsFlat(g, m + 1)
    BY <2>2, <2>3, Zenon
  <2>6. QED  BY <2>4, <2>5
<1> HIDE DEF S
<1>3. n \in S
  <2>1. \A i \in 1 .. n : i \in S
    BY <1>1, <1>2, UpTo
  <2>2. QED  BY <2>1
<1>4. \E f : f = [i \in 1 .. n |-> IF i = 1 THEN T[i] ELSE f[i - 1] \o T[i]]
  <2>1. PICK f : IsFlat(f, n)
    BY <1>3 DEF S
  <2>2. f = [i \in 1 .. n |-> IF i = 1 THEN T[i] ELSE f[i - 1] \o T[i]]
    BY <2>1
  <2>3. QED  BY <2>2, Zenon
<1> DEFINE h == CHOOSE flatten :
             flatten = [i \in 1 .. Len(T) |-> IF i = 1 THEN T[i] ELSE flatten[i - 1] \o T[i]]
<1>5. h = [i \in 1 .. n |-> IF i = 1 THEN T[i] ELSE h[i - 1] \o T[i]]
  BY <1>4
<1>6. FlattenSeq(T) = h[n]
  BY DEF FlattenSeq
<1> HIDE DEF h
<1>7. h[1] = T[1]
  BY <1>5
<1>8. ASSUME NEW i \in 1 .. n - 1  PROVE h[i + 1] = h[i] \o T[i + 1]
  <2>1. i + 1 \in 1 .. n /\ i + 1 # 1 /\ (i + 1) - 1 = i
    OBVIOUS
  <2>2. QED  BY <1>5, <2>1
<1>9. QED  BY <1>6, <1>7, <1>8 DEF Flattening

\* Who knows every stage of the joining knows the result.
LEMMA FlattenIs ==
  ASSUME NEW n \in Nat \ {0}, NEW T, DOMAIN T = 1 .. n, Len(T) = n, NEW G,
         G[1] = T[1], \A i \in 1 .. n - 1 : G[i + 1] = G[i] \o T[i + 1]
  PROVE  FlattenSeq(T) = G[n]
<1>0. PICK f : Flattening(f, T, n)
  BY FlattenUnfolds
<1>1. /\ FlattenSeq(T) = f[n] /\ f[1] = T[1]
      /\ \A i \in 1 .. n - 1 : f[i + 1] = f[i] \o T[i + 1]
  BY <1>0 DEF Flattening
<1> DEFINE S == {i \in 1 .. n : f[i] = G[i]}
<1>2. 1 \in S
  BY <1>1
<1>3. ASSUME NEW i \in 1 .. n - 1, i \in S  PROVE i + 1 \in S
  <2>1. /\ f[i] = G[i] /\ f[i + 1] = f[i] \o T[i + 1] /\ G[i + 1] = G[i] \o T[i + 1]
        /\ i + 1 \in 1 .. n
    <3>1. f[i] = G[i] /\ i + 1 \in 1 .. n
      BY <1>3
    <3>2. f[i + 1] = f[i] \o T[i + 1]
      BY <1>1
    <3>3. G[i + 1] = G[i] \o T[i + 1]
      OBVIOUS
    <3>4. QED  BY <3>1, <3>2, <3>3
  <2>2. QED  BY <2>1
<1> HIDE DEF S
<1>4. \A i \in 1 .. n : i \in S
  BY <1>2, <1>3, UpTo
<1>5. QED  BY <1>1, <1>4 DEF S

\* Lines where a heading may stand anywhere and rows are in their order.
Before(a, b) == a.item = -1 \/ b.item = -1 \/ a.item < b.item
Sorted(lines) == \A j, k \in 1 .. Len(lines) : j < k => Before(lines[j], lines[k])
LinesIn(text) == {text[j] : j \in 1 .. Len(text)}

\* Sorted texts, each before the next, join into a sorted text of their lines.
InTurn(T, n, L) ==
  /\ \A k \in 1 .. n : T[k] \in Seq(L) /\ Sorted(T[k])
  /\ \A j, k \in 1 .. n : j < k => \A a \in LinesIn(T[j]), b \in LinesIn(T[k]) : Before(a, b)

LEMMA FlattenSorted ==
  ASSUME NEW n \in Nat \ {0}, NEW L, NEW T, DOMAIN T = 1 .. n, Len(T) = n,
         InTurn(T, n, L)
  PROVE  /\ FlattenSeq(T) \in Seq(L) /\ Sorted(FlattenSeq(T))
         /\ LinesIn(FlattenSeq(T)) = UNION {LinesIn(T[k]) : k \in 1 .. n}
<1>0. PICK f : Flattening(f, T, n)
  BY FlattenUnfolds
<1>1. /\ FlattenSeq(T) = f[n] /\ f[1] = T[1]
      /\ \A i \in 1 .. n - 1 : f[i + 1] = f[i] \o T[i + 1]
  BY <1>0 DEF Flattening
<1> DEFINE S == {i \in 1 .. n : /\ f[i] \in Seq(L) /\ Sorted(f[i])
                                /\ LinesIn(f[i]) = UNION {LinesIn(T[k]) : k \in 1 .. i}}
<1>2. 1 \in S
  <2>1. UNION {LinesIn(T[k]) : k \in 1 .. 1} = LinesIn(T[1]) /\ 1 \in 1 .. n
    OBVIOUS
  <2>2. QED  BY <1>1, <2>1 DEF InTurn
<1>3. ASSUME NEW i \in 1 .. n - 1, i \in S  PROVE i + 1 \in S
  <2> DEFINE a == f[i]
             b == T[i + 1]
             c == f[i + 1]
  <2>1. /\ a \in Seq(L) /\ b \in Seq(L) /\ c = a \o b /\ Sorted(a) /\ Sorted(b)
        /\ LinesIn(a) = UNION {LinesIn(T[k]) : k \in 1 .. i}
    <3>1. i \in 1 .. n /\ i + 1 \in 1 .. n /\ T[i + 1] \in Seq(L) /\ Sorted(T[i + 1])
      BY DEF InTurn
    <3>2. QED  BY <1>1, <1>3, <3>1
  <2>2. ASSUME NEW x \in LinesIn(a), NEW y \in LinesIn(b)  PROVE Before(x, y)
    <3>1. PICK k \in 1 .. i : x \in LinesIn(T[k])
      BY <2>1
    <3>2. k \in 1 .. n /\ i + 1 \in 1 .. n /\ k < i + 1
      OBVIOUS
    <3>3. QED  BY <3>1, <3>2 DEF InTurn
  <2> HIDE DEF a, b, c
  <2>3. /\ c \in Seq(L) /\ Len(c) = Len(a) + Len(b) /\ Len(a) \in Nat /\ Len(b) \in Nat
        /\ \A j \in 1 .. Len(c) : c[j] = IF j <= Len(a) THEN a[j] ELSE b[j - Len(a)]
    BY <2>1
  <2>4. Sorted(c)
    <3>1. SUFFICES ASSUME NEW j \in 1 .. Len(c), NEW k \in 1 .. Len(c), j < k
                   PROVE  Before(c[j], c[k])
      BY DEF Sorted
    <3>2. CASE k <= Len(a)
      BY <2>1, <2>3, <3>1, <3>2 DEF Sorted
    <3>3. CASE j > Len(a)
      <4>1. /\ c[j] = b[j - Len(a)] /\ c[k] = b[k - Len(a)] /\ j - Len(a) \in 1 .. Len(b)
            /\ k - Len(a) \in 1 .. Len(b) /\ j - Len(a) < k - Len(a)
        BY <2>3, <3>1, <3>3
      <4>2. QED  BY <2>1, <4>1 DEF Sorted
    <3>4. CASE j <= Len(a) /\ k > Len(a)
      <4>1. c[j] = a[j] /\ c[k] = b[k - Len(a)] /\ j \in 1 .. Len(a)
            /\ k - Len(a) \in 1 .. Len(b)
        BY <2>3, <3>1, <3>4
      <4>2. QED  BY <2>2, <4>1 DEF LinesIn
    <3>5. QED  BY <2>3, <3>2, <3>3, <3>4
  <2>5. LinesIn(c) = LinesIn(a) \union LinesIn(b)
    <3>1. ASSUME NEW j \in 1 .. Len(c)  PROVE c[j] \in LinesIn(a) \union LinesIn(b)
      <4>1. CASE j <= Len(a)
        BY <2>3, <4>1 DEF LinesIn
      <4>2. CASE j > Len(a)
        <5>1. j - Len(a) \in 1 .. Len(b) /\ c[j] = b[j - Len(a)]
          BY <2>3, <4>2
        <5>2. QED  BY <5>1 DEF LinesIn
      <4>3. QED  BY <2>3, <4>1, <4>2
    <3>2. ASSUME NEW j \in 1 .. Len(a)  PROVE a[j] \in LinesIn(c)
      <4>1. j \in 1 .. Len(c) /\ j <= Len(a)
        BY <2>3
      <4>2. c[j] = a[j]
        BY <2>3, <4>1
      <4>3. QED  BY <4>1, <4>2 DEF LinesIn
    <3>3. ASSUME NEW j \in 1 .. Len(b)  PROVE b[j] \in LinesIn(c)
      <4>1. j + Len(a) \in 1 .. Len(c) /\ ~(j + Len(a) <= Len(a)) /\ (j + Len(a)) - Len(a) = j
        BY <2>3
      <4>2. c[j + Len(a)] = b[j]
        BY <2>3, <4>1
      <4>3. QED  BY <4>1, <4>2 DEF LinesIn
    <3>4. QED  BY <3>1, <3>2, <3>3 DEF LinesIn
  <2>6. LinesIn(c) = UNION {LinesIn(T[k]) : k \in 1 .. i + 1}
    <3>1. 1 .. i + 1 = (1 .. i) \union {i + 1}
      OBVIOUS
    <3>2. QED  BY <2>1, <2>5, <3>1 DEF b
  <2>7. QED  BY <2>3, <2>4, <2>6 DEF c
<1> HIDE DEF S
<1>4. \A i \in 1 .. n : i \in S
  BY <1>2, <1>3, UpTo
<1>5. n \in S
  BY <1>4
<1>6. QED  BY <1>1, <1>5 DEF S
-----------------------------------------------------------------------------
(* Numbers in order *)

\* s has the members of K from the least to the greatest.
Ascends(s, n, K) ==
  /\ s \in [1 .. n -> K] /\ \A k \in K : \E i \in 1 .. n : s[i] = k
  /\ \A i, j \in 1 .. n : i < j => s[i] < s[j]

Rank(K, k) == Cardinality({j \in K : j <= k})

LEMMA Ranks ==
  ASSUME NEW K \in SUBSET Nat, IsFiniteSet(K)
  PROVE  /\ Cardinality(K) \in Nat
         /\ \A k \in K : Rank(K, k) \in 1 .. Cardinality(K)
         /\ \A j, k \in K : j < k => Rank(K, j) < Rank(K, k)
<1> DEFINE Upto(k) == {j \in K : j <= k}
<1>1. Cardinality(K) \in Nat
  BY FS_CardinalityType
<1>2. ASSUME NEW k \in K
      PROVE  IsFiniteSet(Upto(k)) /\ Cardinality(Upto(k)) \in 1 .. Cardinality(K)
  <2>1. Upto(k) \in SUBSET K /\ k \in Upto(k)
    OBVIOUS
  <2> HIDE DEF Upto
  <2>2. IsFiniteSet(Upto(k)) /\ Cardinality(Upto(k)) <= Cardinality(K)
    BY <2>1, FS_Subset
  <2>3. Cardinality(Upto(k)) \in Nat /\ Cardinality(Upto(k)) # 0
    BY <2>1, <2>2, FS_CardinalityType, FS_EmptySet
  <2>4. QED  BY <1>1, <2>2, <2>3
<1>3. ASSUME NEW j \in K, NEW k \in K, j < k
      PROVE  Cardinality(Upto(j)) < Cardinality(Upto(k))
  <2>0. j \in Nat /\ k \in Nat /\ ~(k <= j) /\ \A i \in K : i \in Nat /\ (i <= j => i <= k)
    BY <1>3
  <2>1. Upto(j) \in SUBSET Upto(k) /\ k \in Upto(k) /\ k \notin Upto(j)
    <3>1. k <= k
      BY <2>0
    <3>2. QED  BY <2>0, <3>1, Zenon
  <2>2. /\ IsFiniteSet(Upto(k)) /\ Cardinality(Upto(k)) \in Nat
        /\ Cardinality(Upto(j)) \in Nat
    BY <1>1, <1>2
  <2> HIDE DEF Upto
  <2>3. /\ Cardinality(Upto(j)) <= Cardinality(Upto(k))
        /\ Cardinality(Upto(k)) = Cardinality(Upto(j)) => Upto(k) = Upto(j)
    BY <2>1, <2>2, FS_Subset
  <2>4. QED  BY <2>1, <2>2, <2>3
<1>4. QED  BY <1>1, <1>2, <1>3 DEF Rank

\* A finite set of numbers can be put in order.
LEMMA InOrderAscends ==
  ASSUME NEW K \in SUBSET Nat, IsFiniteSet(K)
  PROVE  Cardinality(K) \in Nat /\ Ascends(InOrder(K), Cardinality(K), K)
<1> DEFINE n == Cardinality(K)
           r == [k \in K |-> Rank(K, k)]
           s == InOrder(K)
<1>1. /\ n \in Nat /\ \A k \in K : Rank(K, k) \in 1 .. n
      /\ \A j, k \in K : j < k => Rank(K, j) < Rank(K, k)
  BY Ranks
<1>2. s = [i \in 1 .. n |-> CHOOSE k \in K : Rank(K, k) = i]
  BY DEF InOrder, Rank
<1> HIDE DEF n, s
<1>3. \A i \in 1 .. n : \E k \in K : Rank(K, k) = i
  <2>1. r \in [K -> 1 .. n]
    BY <1>1
  <2>2. \A j, k \in K : j # k => r[j] # r[k]
    <3>1. SUFFICES ASSUME NEW j \in K, NEW k \in K, j < k  PROVE r[j] # r[k]
      OBVIOUS
    <3>2. r[j] < r[k] /\ r[j] \in Nat /\ r[k] \in Nat
      BY <1>1, <3>1
    <3>3. QED  BY <3>2
  <2> HIDE DEF r
  <2>3. r \in Injection(K, 1 .. n)
    BY <2>1, <2>2 DEF Injection, IsInjective
  <2>4. IsFiniteSet(1 .. n) /\ Cardinality(1 .. n) = n
    BY <1>1, FS_Interval
  <2>5. r \in Surjection(K, 1 .. n)
    BY <2>3, <2>4, FS_Injection DEF n
  <2>6. \A i \in 1 .. n : \E k \in K : r[k] = i
    BY <2>5 DEF Surjection
  <2>7. QED  BY <2>6 DEF r
<1>4. ASSUME NEW i \in 1 .. n  PROVE s[i] \in K /\ Rank(K, s[i]) = i
  BY <1>2, <1>3
<1>5. ASSUME NEW k \in K  PROVE \E i \in 1 .. n : s[i] = k
  <2> DEFINE i == Rank(K, k)
  <2>1. i \in 1 .. n
    BY <1>1
  <2>2. s[i] \in K /\ Rank(K, s[i]) = Rank(K, k)
    BY <1>4, <2>1
  <2>3. \A x, y \in K : Rank(K, x) = Rank(K, y) => x = y
    <3>1. SUFFICES ASSUME NEW x \in K, NEW y \in K, x < y  PROVE Rank(K, x) # Rank(K, y)
      OBVIOUS
    <3>2. Rank(K, x) < Rank(K, y) /\ Rank(K, x) \in Nat /\ Rank(K, y) \in Nat
      BY <1>1, <3>1
    <3>3. QED  BY <3>2
  <2>4. QED  BY <2>1, <2>2, <2>3
<1>6. ASSUME NEW i \in 1 .. n, NEW j \in 1 .. n, i < j  PROVE s[i] < s[j]
  <2>1. s[i] \in K /\ s[j] \in K /\ Rank(K, s[i]) = i /\ Rank(K, s[j]) = j
    BY <1>4
  <2>2. s[i] # s[j] /\ s[i] \in Nat /\ s[j] \in Nat
    <3>1. i # j
      BY <1>6
    <3>2. QED  BY <2>1, <3>1
  <2>3. s[j] < s[i] => Rank(K, s[j]) < Rank(K, s[i])
    BY <1>1, <2>1
  <2>4. ~(s[j] < s[i])
    BY <1>6, <2>1, <2>3
  <2>5. QED  BY <2>2, <2>4
<1>7. s \in [1 .. n -> K]
  BY <1>2, <1>4
<1>8. QED  BY <1>1, <1>5, <1>6, <1>7 DEF Ascends, n, s

\* There is one order.
LEMMA InOrderIs ==
  ASSUME NEW K \in SUBSET Nat, NEW n \in Nat, NEW t, Ascends(t, n, K)
  PROVE  IsFiniteSet(K) /\ Cardinality(K) = n /\ InOrder(K) = t
<1>1. /\ t \in [1 .. n -> K] /\ \A k \in K : \E i \in 1 .. n : t[i] = k
      /\ \A i, j \in 1 .. n : i < j => t[i] < t[j]
  BY DEF Ascends
<1>2. \A i, j \in 1 .. n : i # j => t[i] # t[j]
  <2>1. SUFFICES ASSUME NEW i \in 1 .. n, NEW j \in 1 .. n, i < j  PROVE t[i] # t[j]
    OBVIOUS
  <2>2. t[i] < t[j] /\ t[i] \in Nat /\ t[j] \in Nat
    BY <1>1, <2>1
  <2>3. QED  BY <2>2
<1>3. ASSUME NEW m \in 0 .. n, NEW S, S = {t[i] : i \in 1 .. m}
      PROVE  IsFiniteSet(S) /\ Cardinality(S) = m
  <2> DEFINE u == [i \in 1 .. m |-> t[i]]
  <2>1. /\ u \in [1 .. m -> S] /\ \A i, j \in 1 .. m : i # j => u[i] # u[j]
        /\ \A k \in S : \E i \in 1 .. m : u[i] = k
    BY <1>2, <1>3
  <2> HIDE DEF u
  <2>2. u \in Injection(1 .. m, S) /\ u \in Surjection(1 .. m, S)
    BY <2>1 DEF Injection, IsInjective, Surjection
  <2>3. ExistsBijection(1 .. m, S)
    BY <2>2 DEF ExistsBijection, Bijection
  <2>4. IsFiniteSet(1 .. m) /\ Cardinality(1 .. m) = m
    BY FS_Interval
  <2>5. QED  BY <2>3, <2>4, FS_Bijection
<1>4. IsFiniteSet(K) /\ Cardinality(K) = n
  <2>1. K = {t[i] : i \in 1 .. n}
    BY <1>1
  <2>2. QED  BY <1>3, <2>1
<1>5. ASSUME NEW m \in 1 .. n  PROVE Rank(K, t[m]) = m
  <2>1. ASSUME NEW i \in 1 .. n  PROVE t[i] <= t[m] <=> i <= m
    <3>1. /\ t[i] \in Nat /\ t[m] \in Nat /\ (i < m => t[i] < t[m])
          /\ (m < i => t[m] < t[i])
      BY <1>1
    <3>2. QED  BY <3>1
  <2>2. {k \in K : k <= t[m]} = {t[i] : i \in 1 .. m}
    <3>1. ASSUME NEW k \in K, k <= t[m]  PROVE k \in {t[i] : i \in 1 .. m}
      BY <1>1, <2>1, <3>1
    <3>2. ASSUME NEW i \in 1 .. m  PROVE t[i] \in K /\ t[i] <= t[m]
      BY <1>1, <2>1
    <3>3. QED  BY <3>1, <3>2
  <2>3. QED  BY <1>3, <2>2 DEF Rank
<1>6. ASSUME NEW m \in 1 .. n  PROVE (CHOOSE k \in K : Rank(K, k) = m) = t[m]
  <2>1. t[m] \in K /\ Rank(K, t[m]) = m
    BY <1>1, <1>5
  <2>2. ASSUME NEW k \in K, Rank(K, k) = m  PROVE k = t[m]
    BY <1>1, <1>5, <2>2
  <2>3. QED  BY <2>1, <2>2
<1>7. InOrder(K) = [m \in 1 .. n |-> CHOOSE k \in K : Rank(K, k) = m]
  BY <1>4 DEF InOrder, Rank
<1>8. t = [m \in 1 .. n |-> t[m]]
  BY <1>1
<1>9. QED  BY <1>4, <1>6, <1>7, <1>8

\* Numbers below others come before them.
LEMMA InOrderJoins ==
  ASSUME NEW A \in SUBSET Nat, NEW B \in SUBSET Nat, IsFiniteSet(A), IsFiniteSet(B),
         \A a \in A, b \in B : a < b
  PROVE  InOrder(A \union B) = InOrder(A) \o InOrder(B)
<1> DEFINE m == Cardinality(A)
           n == Cardinality(B)
           s == InOrder(A)
           t == InOrder(B)
           u == s \o t
<1>1. m \in Nat /\ n \in Nat /\ Ascends(s, m, A) /\ Ascends(t, n, B)
  BY InOrderAscends
<1> HIDE DEF m, n, s, t
<1>2. s \in Seq(A) /\ t \in Seq(B) /\ Len(s) = m /\ Len(t) = n
  BY <1>1 DEF Ascends
<1>3. /\ DOMAIN u = 1 .. m + n /\ u = [i \in 1 .. m + n |-> u[i]]
      /\ \A i \in 1 .. m + n : u[i] = IF i <= m THEN s[i] ELSE t[i - m]
  <2>1. s \in Seq(A \union B) /\ t \in Seq(A \union B)
    BY <1>1, <1>2 DEF Ascends
  <2>2. u \in Seq(A \union B) /\ Len(u) = m + n
    BY <1>2, <2>1
  <2>3. \A i \in 1 .. m + n : u[i] = IF i <= m THEN s[i] ELSE t[i - m]
    BY <1>1, <1>2, <2>1
  <2> HIDE DEF u
  <2>4. u \in [1 .. m + n -> A \union B]
    BY <2>2
  <2>5. QED  BY <2>3, <2>4
<1> HIDE DEF u
<1>4. ASSUME NEW i \in 1 .. m + n
      PROVE  /\ (i <= m => u[i] = s[i] /\ i \in 1 .. m /\ u[i] \in A)
             /\ (i > m => u[i] = t[i - m] /\ i - m \in 1 .. n /\ u[i] \in B)
  BY <1>1, <1>3 DEF Ascends
<1>5. u \in [1 .. m + n -> A \union B]
  BY <1>1, <1>3, <1>4
<1>6. ASSUME NEW k \in A \union B  PROVE \E i \in 1 .. m + n : u[i] = k
  <2>1. CASE k \in A
    <3>1. PICK i \in 1 .. m : s[i] = k
      BY <1>1, <2>1 DEF Ascends
    <3>2. i \in 1 .. m + n /\ i <= m
      BY <1>1
    <3>3. QED  BY <1>4, <3>1, <3>2
  <2>2. CASE k \in B
    <3>1. PICK i \in 1 .. n : t[i] = k
      BY <1>1, <2>2 DEF Ascends
    <3>2. i + m \in 1 .. m + n /\ i + m > m /\ (i + m) - m = i
      BY <1>1
    <3>3. QED  BY <1>4, <3>1, <3>2
  <2>3. QED  BY <2>1, <2>2
<1>7. ASSUME NEW i \in 1 .. m + n, NEW j \in 1 .. m + n, i < j  PROVE u[i] < u[j]
  <2>1. CASE j <= m
    <3>1. i \in 1 .. m /\ j \in 1 .. m /\ u[i] = s[i] /\ u[j] = s[j]
      BY <1>1, <1>4, <1>7, <2>1
    <3>2. QED  BY <1>1, <1>7, <3>1 DEF Ascends
  <2>2. CASE i > m
    <3>1. /\ i - m \in 1 .. n /\ j - m \in 1 .. n /\ u[i] = t[i - m] /\ u[j] = t[j - m]
          /\ i - m < j - m
      BY <1>1, <1>4, <1>7, <2>2
    <3>2. QED  BY <1>1, <3>1 DEF Ascends
  <2>3. CASE i <= m /\ j > m
    BY <1>4, <2>3
  <2>4. QED  BY <1>1, <2>1, <2>2, <2>3
<1>8. m + n \in Nat /\ A \union B \in SUBSET Nat /\ Ascends(u, m + n, A \union B)
  BY <1>1, <1>5, <1>6, <1>7 DEF Ascends
<1>9. QED  BY <1>8, InOrderIs DEF u, s, t
-----------------------------------------------------------------------------
(* The rows of a chunk *)

Line == [item : Nat \union {-1}, mappings : Versions, fields : Versions]

\* The rows a chunk's items get, and those that are not blank on a sheet.
RowSet(c, t)     == {RowOf(i, t) : i \in Converted(c, t)}
ShownOn(s, rows) == {r \in rows : ~Blank(s, r)}

\* A row or a heading before a text.
LEMMA Prefixed ==
  ASSUME NEW L, NEW h \in L, NEW R \in Seq(L)
  PROVE  /\ <<h>> \o R \in Seq(L) /\ <<h>> \o R # <<>> /\ Len(<<h>> \o R) = Len(R) + 1
         /\ \A j \in 1 .. Len(R) + 1 : (<<h>> \o R)[j] = IF j = 1 THEN h ELSE R[j - 1]
         /\ Head(<<h>> \o R) = h /\ Tail(<<h>> \o R) = R
<1> DEFINE s == <<h>> \o R
<1>1. /\ <<h>> \in Seq(L) /\ Len(<<h>>) = 1 /\ <<h>>[1] = h /\ Len(R) \in Nat
  OBVIOUS
<1>2. s \in Seq(L) /\ Len(s) = Len(R) + 1
  BY <1>1
<1>3. \A j \in 1 .. Len(R) + 1 : s[j] = IF j = 1 THEN h ELSE R[j - 1]
  BY <1>1
<1> HIDE DEF s
<1>4. s # <<>> /\ Head(s) = h
  BY <1>1, <1>2, <1>3
<1>5. Tail(s) = R
  <2>1. Tail(s) \in Seq(L) /\ Len(Tail(s)) = Len(R)
    BY <1>1, <1>2, <1>4
  <2>2. \A j \in 1 .. Len(R) : Tail(s)[j] = R[j]
    BY <1>1, <1>2, <1>3, <1>4
  <2>3. QED  BY <2>1, <2>2
<1>6. QED  BY <1>2, <1>3, <1>4, <1>5 DEF s

LEMMA KeptAscends ==
  ASSUME NEW c, c.start \in Nat, c.end \in Nat, NEW t
  PROVE  /\ Kept(c, t) \in Seq(Converted(c, t)) /\ Converted(c, t) \in SUBSET Nat
         /\ IsFiniteSet(Converted(c, t))
         /\ Converted(c, t) \in SUBSET (c.start .. c.end)
         /\ Ascends(Kept(c, t), Len(Kept(c, t)), Converted(c, t))
<1> DEFINE K == Converted(c, t)
           s == Kept(c, t)
<1>1. K \in SUBSET Nat /\ K \in SUBSET (c.start .. c.end)
  BY DEF Converted
<1>2. IsFiniteSet(K)
  <2>1. IsFiniteSet(c.start .. c.end)
    BY FS_Interval
  <2>2. QED  BY <1>1, <2>1, FS_Subset
<1>3. s = InOrder(K)
  BY DEF Kept
<1> DEFINE n == Cardinality(K)
<1> HIDE DEF K, s
<1>4. n \in Nat /\ Ascends(s, n, K)
  BY <1>1, <1>2, <1>3, InOrderAscends
<1> HIDE DEF n
<1>5. s \in Seq(K) /\ Len(s) = n
  BY <1>4 DEF Ascends
<1>6. QED  BY <1>1, <1>2, <1>4, <1>5 DEF K, s

\* A text has only headings and lines of A, in order, and every line of D.
Holds(p, A, D) ==
  /\ p \in Seq(Line) /\ Sorted(p)
  /\ \A a \in LinesIn(p) : a.item = -1 \/ a \in A
  /\ D \subseteq LinesIn(p)

\* A chunk's rows are those of its items that convert, in order.
LEMMA RowsFacts ==
  ASSUME NEW c, c.start \in Nat, c.end \in Nat, NEW t \in Template
  PROVE  /\ Rows(c, t) \in Seq(Line)
         /\ Holds(Rows(c, t), RowSet(c, t), RowSet(c, t))
         /\ \A r \in RowSet(c, t) : r.item \in c.start .. c.end /\ r.item # -1
         /\ Rows(c, t) = <<>> <=> Converted(c, t) = {}
<1> DEFINE s == Kept(c, t)
           n == Len(s)
           R == Rows(c, t)
           K == Converted(c, t)
<1>1. /\ s \in Seq(K) /\ K \in SUBSET Nat /\ n \in Nat /\ K \in SUBSET (c.start .. c.end)
      /\ \A i \in 1 .. n : s[i] \in K
      /\ \A k \in K : \E i \in 1 .. n : s[i] = k
      /\ \A i, j \in 1 .. n : i < j => s[i] < s[j]
  BY KeptAscends DEF Ascends
<1>2. R = [k \in 1 .. n |-> RowOf(s[k], t)]
  BY DEF Rows
<1> HIDE DEF s, n, R, K
<1>3. t["mappings"] \in Versions /\ t["fields"] \in Versions
  BY DEF Template, Parts
<1>4. \A k \in 1 .. n : /\ R[k] \in Line /\ R[k].item = s[k] /\ R[k].item \in Nat
                        /\ R[k] = RowOf(s[k], t)
  BY <1>1, <1>2, <1>3 DEF RowOf, Line
<1>5. R \in Seq(Line) /\ Len(R) = n
  BY <1>1, <1>2, <1>4
<1>6. Sorted(R)
  BY <1>1, <1>4, <1>5 DEF Sorted, Before
<1>7. RowSet(c, t) = {RowOf(i, t) : i \in K}
  BY DEF RowSet, K
<1>8. LinesIn(R) = RowSet(c, t)
  <2>1. LinesIn(R) = {RowOf(s[k], t) : k \in 1 .. n}
    BY <1>4, <1>5 DEF LinesIn
  <2>2. QED  BY <1>1, <1>7, <2>1
<1>9. R = <<>> <=> K = {}
  <2>1. R = <<>> <=> n = 0
    BY <1>1, <1>5
  <2>2. n = 0 => K = {}
    <3>1. ASSUME n = 0  PROVE 1 .. n = {}
      BY <3>1
    <3>2. QED  BY <1>1, <3>1, Zenon
  <2>3. n # 0 => 1 \in 1 .. n
    BY <1>1
  <2>4. n # 0 => K # {}
    BY <1>1, <2>3, Zenon
  <2>5. QED  BY <2>1, <2>2, <2>4
<1>10. \A i \in K : RowOf(i, t).item = i /\ i \in c.start .. c.end /\ i # -1
  BY <1>1 DEF RowOf
<1>11. QED  BY <1>5, <1>6, <1>7, <1>8, <1>9, <1>10 DEF Holds, R, K

\* A heading before a text leaves what it holds.
LEMMA HeadingAdded ==
  ASSUME NEW h \in Line, h.item = -1, NEW R, NEW A, NEW D, Holds(R, A, D)
  PROVE  Holds(<<h>> \o R, A, D)
<1> DEFINE p == <<h>> \o R
<1>0. R \in Seq(Line) /\ Sorted(R)
  BY DEF Holds
<1>1. /\ p \in Seq(Line) /\ Len(p) = Len(R) + 1 /\ Len(R) \in Nat
      /\ \A j \in 1 .. Len(R) + 1 : p[j] = IF j = 1 THEN h ELSE R[j - 1]
  BY <1>0, Prefixed
<1> HIDE DEF p
<1>2. \A j \in 2 .. Len(R) + 1 : j - 1 \in 1 .. Len(R) /\ p[j] = R[j - 1]
  BY <1>1
<1>3. Sorted(p)
  <2>1. SUFFICES ASSUME NEW j \in 1 .. Len(p), NEW k \in 1 .. Len(p), j < k
                 PROVE  Before(p[j], p[k])
    BY DEF Sorted
  <2>2. CASE j = 1
    BY <1>1, <2>2 DEF Before
  <2>3. CASE j # 1
    <3>1. j \in 2 .. Len(R) + 1 /\ k \in 2 .. Len(R) + 1 /\ j - 1 < k - 1
      BY <1>1, <2>1, <2>3
    <3>2. Before(R[j - 1], R[k - 1])
      BY <1>0, <1>2, <3>1 DEF Sorted
    <3>3. QED  BY <1>2, <3>1, <3>2
  <2>4. QED  BY <2>2, <2>3
<1>4. LinesIn(p) = {h} \union LinesIn(R)
  <2>1. \A j \in 1 .. Len(p) : p[j] \in {h} \union LinesIn(R)
    <3>1. SUFFICES ASSUME NEW j \in 1 .. Len(p)  PROVE p[j] \in {h} \union LinesIn(R)
      OBVIOUS
    <3>2. CASE j = 1
      BY <1>1, <3>2
    <3>3. CASE j # 1
      <4>1. j \in 2 .. Len(R) + 1
        BY <1>1, <3>3
      <4>2. QED  BY <1>2, <4>1 DEF LinesIn
    <3>4. QED  BY <3>2, <3>3
  <2>2. \A j \in 1 .. Len(R) : R[j] \in LinesIn(p)
    <3>1. SUFFICES ASSUME NEW j \in 1 .. Len(R)  PROVE R[j] \in LinesIn(p)
      OBVIOUS
    <3>2. j + 1 \in 2 .. Len(R) + 1 /\ j + 1 \in 1 .. Len(p) /\ (j + 1) - 1 = j
      BY <1>1
    <3>3. R[j] = p[j + 1]
      BY <1>2, <3>2
    <3>4. QED  BY <3>2, <3>3 DEF LinesIn
  <2>3. 1 \in 1 .. Len(p) /\ p[1] = h
    BY <1>1
  <2>4. QED  BY <2>1, <2>2, <2>3 DEF LinesIn
<1>5. QED  BY <1>1, <1>3, <1>4 DEF Holds, p

\* Without its heading a text has the same rows.
LEMMA HeadingTaken ==
  ASSUME NEW p, p # <<>>, p[1].item = -1, NEW A, NEW D, Holds(p, A, D),
         \A d \in D : d.item # -1
  PROVE  Holds(Tail(p), A, D)
<1> DEFINE q == Tail(p)
<1>1. /\ p \in Seq(Line) /\ Sorted(p) /\ D \subseteq LinesIn(p)
      /\ \A a \in LinesIn(p) : a.item = -1 \/ a \in A
  BY DEF Holds
<1>2. /\ q \in Seq(Line) /\ Len(p) \in Nat \ {0} /\ Len(q) = Len(p) - 1
      /\ \A j \in 1 .. Len(q) : q[j] = p[j + 1]
  <2>1. p \in Seq(Line) /\ Len(p) \in Nat \ {0}
    <3>1. p \in Seq(Line) /\ Len(p) \in Nat
      BY <1>1
    <3>2. Len(p) # 0
      BY <3>1
    <3>3. QED  BY <3>1, <3>2
  <2>2. q \in Seq(Line) /\ Len(q) = Len(p) - 1
    BY <2>1
  <2>3. \A j \in 1 .. Len(p) - 1 : q[j] = p[j + 1]
    BY <2>1
  <2> HIDE DEF q
  <2>4. QED  BY <2>1, <2>2, <2>3
<1> HIDE DEF q
<1>3. \A j \in 1 .. Len(q) : j + 1 \in 1 .. Len(p)
  BY <1>2
<1>4. Sorted(q)
  BY <1>1, <1>2, <1>3 DEF Sorted
<1>5. LinesIn(q) \subseteq LinesIn(p)
  BY <1>2, <1>3 DEF LinesIn
<1>6. ASSUME NEW d \in D  PROVE d \in LinesIn(q)
  <2>1. PICK j \in 1 .. Len(p) : d = p[j]
    BY <1>1 DEF LinesIn
  <2>2. j - 1 \in 1 .. Len(q) /\ (j - 1) + 1 = j
    BY <1>2, <2>1
  <2>3. QED  BY <1>2, <2>1, <2>2 DEF LinesIn
<1>7. QED  BY <1>1, <1>2, <1>4, <1>5, <1>6 DEF Holds, q
-----------------------------------------------------------------------------
(* What a merger reads of a text *)

\* q is p up to some line, after which all is blank.
CutShort(s, q, p) ==
  \E m \in 0 .. Len(p) : /\ q = SubSeq(p, 1, m)
                         /\ \A j \in m + 1 .. Len(p) : Blank(s, p[j])

LEMMA ReadBackCuts ==
  ASSUME NEW L, NEW p \in Seq(L), NEW s
  PROVE  CutShort(s, ReadBack(s, p), p)
<1> DEFINE T == {k \in 0 .. Len(p) : \A j \in k + 1 .. Len(p) : Blank(s, p[j])}
           IsLast(k) == /\ k = 0 \/ ~Blank(s, p[k])
                        /\ \A j \in k + 1 .. Len(p) : Blank(s, p[j])
           last == LastShown(s, p)
<1>0. Len(p) \in Nat
  OBVIOUS
<1>1. T \in SUBSET Nat /\ Len(p) \in T
  BY <1>0
<1> HIDE DEF T
<1>2. PICK m \in T : \A i \in T : m <= i
  BY <1>1, LeastNat
<1> USE DEF T
<1>3. m = 0 \/ ~Blank(s, p[m])
  <2>1. SUFFICES ASSUME m # 0, Blank(s, p[m])  PROVE FALSE
    OBVIOUS
  <2>2. m - 1 \in 0 .. Len(p) /\ (m - 1) + 1 = m
    BY <1>2, <2>1
  <2>3. \A j \in (m - 1) + 1 .. Len(p) : Blank(s, p[j])
    <3>1. SUFFICES ASSUME NEW j \in m .. Len(p)  PROVE Blank(s, p[j])
      BY <2>2
    <3>2. j = m \/ j \in m + 1 .. Len(p)
      OBVIOUS
    <3>3. QED  BY <2>1, <3>2
  <2>4. m - 1 \in T
    BY <2>2, <2>3
  <2>5. m <= m - 1
    <3> HIDE DEF T
    <3>1. QED  BY <1>2, <2>4
  <2>6. m \in Nat
    BY <1>0
  <2>7. QED  BY <2>5, <2>6
<1>4. m \in 0 .. Len(p) /\ IsLast(m)
  BY <1>3
<1>5. last = CHOOSE k \in 0 .. Len(p) : IsLast(k)
  BY DEF LastShown
<1> HIDE DEF IsLast, last
<1>6. last \in 0 .. Len(p) /\ IsLast(last)
  BY <1>4, <1>5
<1>7. \A j \in last + 1 .. Len(p) : Blank(s, p[j])
  BY <1>6 DEF IsLast
<1> DEFINE n == IF format = "xlsx" THEN last ELSE IF last < Len(p) THEN Len(p) - 1 ELSE Len(p)
<1>8. ReadBack(s, p) = SubSeq(p, 1, n)
  BY DEF ReadBack, last
<1>9. n \in 0 .. Len(p) /\ n >= last
  BY <1>0, <1>6
<1> HIDE DEF n
<1>10. \A j \in n + 1 .. Len(p) : Blank(s, p[j])
  BY <1>0, <1>6, <1>7, <1>9
<1>11. QED  BY <1>8, <1>9, <1>10 DEF CutShort

\* A shortened text is a prefix; one that begins with a heading keeps it.
LEMMA CutShortFacts ==
  ASSUME NEW L, NEW p \in Seq(L), NEW s, NEW q, CutShort(s, q, p)
  PROVE  /\ q \in Seq(L) /\ Len(q) <= Len(p) /\ Len(q) \in Nat /\ Len(p) \in Nat
         /\ \A j \in 1 .. Len(q) : q[j] = p[j]
         /\ \A j \in Len(q) + 1 .. Len(p) : Blank(s, p[j])
         /\ p = <<>> => q = <<>>
         /\ p # <<>> /\ p[1].item = -1 => q # <<>> /\ q[1] = p[1]
<1>1. PICK m \in 0 .. Len(p) : /\ q = SubSeq(p, 1, m)
                               /\ \A j \in m + 1 .. Len(p) : Blank(s, p[j])
  BY DEF CutShort
<1>2. Len(p) \in Nat /\ m \in Nat /\ m <= Len(p)
  OBVIOUS
<1>3. q \in Seq(L) /\ Len(q) = m /\ \A j \in 1 .. m : q[j] = p[j]
  BY <1>1, <1>2
<1>4. p = <<>> => q = <<>>
  BY <1>2, <1>3
<1>5. ASSUME p # <<>>, p[1].item = -1  PROVE q # <<>> /\ q[1] = p[1]
  <2>1. ~Blank(s, p[1])
    BY <1>5 DEF Blank
  <2>2. Len(p) # 0
    BY <1>5
  <2>3. m # 0
    <3>1. m = 0 => 1 \in m + 1 .. Len(p)
      BY <1>2, <2>2
    <3>2. QED  BY <1>1, <2>1, <3>1
  <2>4. 1 \in 1 .. m /\ Len(q) # 0
    BY <1>2, <1>3, <2>3
  <2>5. q # <<>>
    BY <2>4
  <2>6. QED  BY <1>3, <2>4, <2>5
<1>6. QED  BY <1>1, <1>2, <1>3, <1>4, <1>5

\* Read back a text has all its rows but blank ones.
LEMMA ReadBackHolds ==
  ASSUME NEW p, NEW A, NEW D, Holds(p, A, D), NEW s
  PROVE  Holds(ReadBack(s, p), A, ShownOn(s, D))
<1> DEFINE q == ReadBack(s, p)
<1>1. /\ p \in Seq(Line) /\ Sorted(p) /\ D \subseteq LinesIn(p)
      /\ \A a \in LinesIn(p) : a.item = -1 \/ a \in A
  BY DEF Holds
<1>2. CutShort(s, q, p)
  BY <1>1, ReadBackCuts
<1> HIDE DEF q
<1>3. /\ q \in Seq(Line) /\ Len(q) <= Len(p) /\ Len(q) \in Nat /\ Len(p) \in Nat
      /\ \A j \in 1 .. Len(q) : q[j] = p[j]
      /\ \A j \in Len(q) + 1 .. Len(p) : Blank(s, p[j])
  BY <1>1, <1>2, CutShortFacts
<1>4. \A j \in 1 .. Len(q) : j \in 1 .. Len(p)
  BY <1>3
<1>5. Sorted(q)
  BY <1>1, <1>3, <1>4 DEF Sorted
<1>6. LinesIn(q) \subseteq LinesIn(p)
  BY <1>3, <1>4 DEF LinesIn
<1>7. ASSUME NEW d \in D, ~Blank(s, d)  PROVE d \in LinesIn(q)
  <2>1. PICK j \in 1 .. Len(p) : d = p[j]
    BY <1>1 DEF LinesIn
  <2>2. j \in 1 .. Len(q)
    BY <1>3, <1>7, <2>1
  <2>3. QED  BY <1>3, <2>1, <2>2 DEF LinesIn
<1>8. QED  BY <1>1, <1>3, <1>5, <1>6, <1>7 DEF Holds, ShownOn, q
-----------------------------------------------------------------------------
(* Chunks that follow one another *)

\* cs cuts the source into n chunks.
Cut(cs, n) ==
  /\ cs[1].start = 0 /\ cs[n].end = Len(source) - 1
  /\ \A k \in 1 .. n : cs[k].start \in Nat /\ cs[k].end \in Nat /\ cs[k].start <= cs[k].end
  /\ \A k \in 1 .. n - 1 : cs[k + 1].start = cs[k].end + 1

Whole == [start |-> 0, end |-> Len(source) - 1]

\* No item is in two chunks, none is in no chunk.
LEMMA CutFacts ==
  ASSUME NEW n \in Nat \ {0}, NEW cs, Cut(cs, n)
  PROVE  /\ \A j, k \in 1 .. n : j < k => cs[j].end < cs[k].start
         /\ \A t : Converted(Whole, t) = UNION {Converted(cs[k], t) : k \in 1 .. n}
<1>1. /\ cs[1].start = 0 /\ cs[n].end = Len(source) - 1
      /\ \A k \in 1 .. n : cs[k].start \in Nat /\ cs[k].end \in Nat /\ cs[k].start <= cs[k].end
      /\ \A k \in 1 .. n - 1 : cs[k + 1].start = cs[k].end + 1
  BY DEF Cut
<1>2. ASSUME NEW k \in 1 .. n  PROVE \A j \in 1 .. k - 1 : cs[j].end < cs[k].start
  <2> DEFINE S == {i \in 1 .. n : \A j \in 1 .. i - 1 : cs[j].end < cs[i].start}
  <2>1. 1 \in S
    OBVIOUS
  <2>2. ASSUME NEW i \in 1 .. n - 1, i \in S  PROVE i + 1 \in S
    <3>1. ASSUME NEW j \in 1 .. (i + 1) - 1  PROVE cs[j].end < cs[i + 1].start
      <4>1. /\ i \in 1 .. n /\ j \in 1 .. n /\ i + 1 \in 1 .. n /\ cs[i + 1].start = cs[i].end + 1
            /\ cs[i].start \in Nat /\ cs[i].end \in Nat /\ cs[j].end \in Nat
            /\ cs[i].start <= cs[i].end
        BY <1>1
      <4>2. j # i => j \in 1 .. i - 1
        OBVIOUS
      <4>3. j # i => cs[j].end < cs[i].start
        BY <2>2, <4>2
      <4>4. QED  BY <4>1, <4>3
    <3>2. QED  BY <3>1
  <2> HIDE DEF S
  <2>3. \A i \in 1 .. n : i \in S
    BY <2>1, <2>2, UpTo
  <2>4. QED  BY <2>3 DEF S
<1>3. \A j, k \in 1 .. n : j < k => cs[j].end < cs[k].start
  BY <1>2
<1>4. ASSUME NEW k \in 1 .. n  PROVE cs[k].end <= Len(source) - 1
  <2>1. k = n \/ k < n
    OBVIOUS
  <2>2. k < n => cs[k].end < cs[n].start
    BY <1>3
  <2>3. n \in 1 .. n
    OBVIOUS
  <2>4. QED  BY <1>1, <2>1, <2>2, <2>3
<1>5. ASSUME NEW i \in 0 .. Len(source) - 1
      PROVE  \E k \in 1 .. n : i \in cs[k].start .. cs[k].end
  <2> DEFINE S == {k \in 1 .. n : i <= cs[k].end => \E j \in 1 .. n : i \in cs[j].start .. cs[j].end}
  <2>1. 1 \in S
    <3>1. 1 \in 1 .. n /\ cs[1].start = 0 /\ cs[1].end \in Nat
      BY <1>1
    <3>2. i <= cs[1].end => i \in cs[1].start .. cs[1].end
      BY <3>1
    <3>3. QED  BY <3>1, <3>2
  <2>2. ASSUME NEW k \in 1 .. n - 1, k \in S  PROVE k + 1 \in S
    <3>1. k \in 1 .. n /\ k + 1 \in 1 .. n
      OBVIOUS
    <3>2. cs[k + 1].start = cs[k].end + 1 /\ cs[k].end \in Nat /\ cs[k + 1].end \in Nat
      BY <1>1, <3>1
    <3>3. i > cs[k].end /\ i <= cs[k + 1].end => i \in cs[k + 1].start .. cs[k + 1].end
      BY <3>2
    <3>4. QED  BY <2>2, <3>1, <3>2, <3>3
  <2> HIDE DEF S
  <2>3. \A k \in 1 .. n : k \in S
    BY <2>1, <2>2, UpTo
  <2>4. n \in S
    BY <2>3
  <2>5. QED  BY <1>1, <2>4 DEF S
<1>6. Whole.start .. Whole.end = UNION {cs[k].start .. cs[k].end : k \in 1 .. n}
  <2>1. Whole.start .. Whole.end = 0 .. Len(source) - 1
    BY DEF Whole
  <2>2. ASSUME NEW k \in 1 .. n, NEW i \in cs[k].start .. cs[k].end
        PROVE  i \in 0 .. Len(source) - 1
    <3>1. cs[k].start \in Nat /\ cs[k].end \in Nat /\ cs[k].end <= Len(source) - 1
      BY <1>1, <1>4
    <3>2. n \in 1 .. n /\ Len(source) - 1 \in Nat
      BY <1>1
    <3>3. QED  BY <2>2, <3>1, <3>2
  <2>3. QED  BY <1>5, <2>1, <2>2
<1>7. ASSUME NEW t  PROVE Converted(Whole, t) = UNION {Converted(cs[k], t) : k \in 1 .. n}
  <2>1. \A c, i : i \in Converted(c, t) <=>
                   i \in c.start .. c.end /\ Fate(i, t) \notin {"bad", "odd", "alien"}
    BY DEF Converted
  <2>2. ASSUME NEW i  PROVE i \in Converted(Whole, t) <=> \E k \in 1 .. n : i \in Converted(cs[k], t)
    <3>1. i \in Whole.start .. Whole.end <=> \E k \in 1 .. n : i \in cs[k].start .. cs[k].end
      BY <1>6
    <3>2. QED  BY <2>1, <3>1, Zenon
  <2>3. QED  BY <2>2
<1>8. QED  BY <1>3, <1>7

\* Of each chunk, a text that holds only lines of A and all of D.
InChunk(lines, c) == {r \in LinesIn(lines) : r.item \in c.start .. c.end}

Pieces(P, cs, A, D, n) ==
  \A k \in 1 .. n : Holds(P[k], A[k], D[k]) /\ \A a \in A[k] : a.item \in cs[k].start .. cs[k].end

\* What there is of each chunk in a text.
Text(text, cs, A, D, n) ==
  /\ text \in Seq(Line) /\ Sorted(text)
  /\ \A k \in 1 .. n : InChunk(text, cs[k]) \subseteq A[k] /\ D[k] \subseteq LinesIn(text)

\* Chunks' pieces, in the order of the chunks, make a sorted text.
LEMMA Joined ==
  ASSUME NEW n \in Nat \ {0}, NEW cs, Cut(cs, n), NEW P, DOMAIN P = 1 .. n, Len(P) = n,
         NEW A, NEW D, Pieces(P, cs, A, D, n)
  PROVE  Text(FlattenSeq(P), cs, A, D, n)
<1> DEFINE text == FlattenSeq(P)
<1>1. ASSUME NEW k \in 1 .. n
      PROVE  /\ P[k] \in Seq(Line) /\ Sorted(P[k]) /\ D[k] \subseteq LinesIn(P[k])
             /\ \A a \in LinesIn(P[k]) : a.item = -1 \/ a \in A[k]
             /\ \A a \in A[k] : a.item \in cs[k].start .. cs[k].end
  BY DEF Pieces, Holds
<1>2. ASSUME NEW j \in 1 .. n, NEW k \in 1 .. n, j < k
      PROVE  /\ cs[j].end < cs[k].start /\ cs[j].end \in Nat /\ cs[k].start \in Nat
             /\ cs[j].start \in Nat /\ cs[k].end \in Nat
  BY <1>2, CutFacts DEF Cut
<1>3. InTurn(P, n, Line)
  <2>1. ASSUME NEW j \in 1 .. n, NEW k \in 1 .. n, j < k,
               NEW a \in LinesIn(P[j]), NEW b \in LinesIn(P[k])
        PROVE  Before(a, b)
    <3>1. /\ a.item = -1 \/ a.item \in cs[j].start .. cs[j].end
          /\ b.item = -1 \/ b.item \in cs[k].start .. cs[k].end
      BY <1>1
    <3>2. QED  BY <1>2, <2>1, <3>1 DEF Before
  <2>2. QED  BY <1>1, <2>1 DEF InTurn
<1>4. /\ text \in Seq(Line) /\ Sorted(text)
      /\ LinesIn(text) = UNION {LinesIn(P[k]) : k \in 1 .. n}
  BY <1>3, FlattenSorted
<1> HIDE DEF text
<1>5. ASSUME NEW k \in 1 .. n, NEW r \in InChunk(text, cs[k])  PROVE r \in A[k]
  <2>1. r \in LinesIn(text) /\ r.item \in cs[k].start .. cs[k].end
    BY DEF InChunk
  <2>2. PICK j \in 1 .. n : r \in LinesIn(P[j])
    BY <1>4, <2>1
  <2>3. r.item # -1
    BY <2>1 DEF Cut
  <2>4. r \in A[j] /\ r.item \in cs[j].start .. cs[j].end
    BY <1>1, <2>2, <2>3
  <2>5. j = k
    <3>1. ~(j < k)
      BY <1>2, <2>1, <2>4
    <3>2. ~(k < j)
      BY <1>2, <2>1, <2>4
    <3>3. QED  BY <3>1, <3>2
  <2>6. QED  BY <2>4, <2>5
<1>6. ASSUME NEW k \in 1 .. n  PROVE D[k] \subseteq LinesIn(text)
  BY <1>1, <1>4
<1>7. QED  BY <1>4, <1>5, <1>6 DEF Text, text
-----------------------------------------------------------------------------
(* The merged file *)

LEMMA HeadingIsLine ==
  ASSUME NEW m \in Versions
  PROVE  Heading(m) \in Line /\ Heading(m).item = -1
BY DEF Heading, Line

\* Join drops headings, never a row, and keeps the order.
LEMMA JoinInOrder ==
  ASSUME NEW n \in Nat \ {0}, NEW cs, Cut(cs, n),
         NEW texts, DOMAIN texts = 1 .. n, Len(texts) = n,
         NEW A, NEW D, Pieces(texts, cs, A, D, n),
         \A k \in 1 .. n : /\ texts[k] = <<>> \/ texts[k][1].item = -1
                           /\ \A d \in D[k] : d.item # -1
  PROVE  Text(Join(texts), cs, A, D, n)
<1> DEFINE P == [k \in 1 .. n |-> IF \A j \in 1 .. k - 1 : texts[j] = <<>>
                                  THEN texts[k] ELSE Body(texts[k])]
<1>1. Join(texts) = FlattenSeq(P) /\ DOMAIN P = 1 .. n /\ Len(P) = n
  BY DEF Join
<1>2. ASSUME NEW k \in 1 .. n  PROVE P[k] = texts[k] \/ P[k] = Body(texts[k])
  OBVIOUS
<1> HIDE DEF P
<1>3. ASSUME NEW k \in 1 .. n  PROVE Holds(P[k], A[k], D[k])
  <2>1. Holds(texts[k], A[k], D[k])
    BY DEF Pieces
  <2>2. CASE texts[k] = <<>>
    BY <1>2, <2>1, <2>2 DEF Body
  <2>3. CASE texts[k] # <<>>
    <3>1. texts[k][1].item = -1 /\ \A d \in D[k] : d.item # -1
      BY <2>3
    <3>2. Holds(Tail(texts[k]), A[k], D[k])
      BY <2>1, <2>3, <3>1, HeadingTaken
    <3>3. QED  BY <1>2, <2>1, <2>3, <3>2 DEF Body
  <2>4. QED  BY <2>2, <2>3
<1>4. Pieces(P, cs, A, D, n)
  BY <1>3 DEF Pieces
<1>5. QED  BY <1>1, <1>4, Joined

\* What the merger reads of a chunk's sheet s, and the rows that are due there.
TextRead(s, c, t) ==
  IF s \in DOMAIN File(c, t) THEN ReadBack(s, File(c, t)[s]) ELSE <<>>
RowsOn(s, c, t) == IF s \in SheetsOf(t) THEN RowSet(c, t) ELSE {}

LEMMA TextHolds ==
  ASSUME NEW c, c.start \in Nat, c.end \in Nat, NEW t \in Template, NEW s,
         format \in {"csv", "xlsx"}
  PROVE  /\ Holds(TextRead(s, c, t), RowsOn(s, c, t), ShownOn(s, RowsOn(s, c, t)))
         /\ TextRead(s, c, t) = <<>> \/ TextRead(s, c, t)[1].item = -1
         /\ \A r \in RowsOn(s, c, t) : r.item \in c.start .. c.end /\ r.item # -1
         /\ s \notin DOMAIN File(c, t) => RowsOn(s, c, t) = {}
<1> DEFINE R == Rows(c, t)
           A == RowSet(c, t)
           f == File(c, t)
<1>1. /\ R \in Seq(Line) /\ Holds(R, A, A) /\ (R = <<>> => A = {})
      /\ \A r \in A : r.item \in c.start .. c.end /\ r.item # -1
  <2>1. R = <<>> => A = {}
    BY RowsFacts DEF RowSet
  <2>2. QED  BY <2>1, RowsFacts
<1>2. t["mappings"] \in Versions /\ t["metadata"] \in Versions
  BY DEF Template, Parts
<1>3. \/ s \notin DOMAIN f /\ RowsOn(s, c, t) = {}
      \/ s \in DOMAIN f /\ f[s] = <<>> /\ RowsOn(s, c, t) = {}
      \/ s \in DOMAIN f /\ RowsOn(s, c, t) = A /\ \E v \in Versions : f[s] = <<Heading(v)>> \o R
  <2>1. CASE format = "csv"
    <3>1. f = [x \in {"text"} |-> <<Heading(t["metadata"])>> \o R] /\ SheetsOf(t) = {"text"}
      BY <2>1 DEF File, SheetsOf
    <3> HIDE DEF f, R, A
    <3>2. CASE s = "text"
      <4>1. s \in DOMAIN f /\ f[s] = <<Heading(t["metadata"])>> \o R
        BY <3>1, <3>2
      <4>2. RowsOn(s, c, t) = A
        BY <3>1, <3>2 DEF RowsOn, A
      <4>3. QED  BY <1>2, <4>1, <4>2
    <3>3. CASE s # "text"
      BY <3>1, <3>3 DEF RowsOn
    <3>4. QED  BY <3>2, <3>3
  <2>2. CASE format = "xlsx" /\ R = <<>>
    <3>1. f = [x \in {"Export"} |-> <<>>]
      BY <2>2 DEF File
    <3>2. RowSet(c, t) = {}
      BY <1>1, <2>2
    <3>3. RowsOn(s, c, t) = {}
      BY <3>2 DEF RowsOn
    <3> HIDE DEF f, R, A
    <3>4. QED  BY <3>1, <3>3
  <2>3. CASE format = "xlsx" /\ R # <<>> /\ Sheets[t["mappings"]] = {}
    <3>1. f = [x \in {"Sheet"} |-> <<>>]
      BY <2>3 DEF File
    <3>2. RowsOn(s, c, t) = {}
      BY <2>3 DEF RowsOn, SheetsOf
    <3> HIDE DEF f, R, A
    <3>3. QED  BY <3>1, <3>2
  <2>4. CASE format = "xlsx" /\ R # <<>> /\ Sheets[t["mappings"]] # {}
    <3>1. /\ f = [x \in Sheets[t["mappings"]] |-> <<Heading(t["mappings"])>> \o R]
          /\ SheetsOf(t) = Sheets[t["mappings"]]
      BY <2>4 DEF File, SheetsOf
    <3> HIDE DEF f, R, A
    <3>2. CASE s \in SheetsOf(t)
      <4>1. s \in DOMAIN f /\ f[s] = <<Heading(t["mappings"])>> \o R
        BY <3>1, <3>2
      <4>2. RowsOn(s, c, t) = A
        BY <3>2 DEF RowsOn, A
      <4>3. QED  BY <1>2, <4>1, <4>2
    <3>3. CASE s \notin SheetsOf(t)
      BY <3>1, <3>3 DEF RowsOn
    <3>4. QED  BY <3>2, <3>3
  <2>5. QED  BY <2>1, <2>2, <2>3, <2>4
<1> DEFINE text == TextRead(s, c, t)
           on == RowsOn(s, c, t)
<1>4. text = IF s \in DOMAIN f THEN ReadBack(s, f[s]) ELSE <<>>
  BY DEF TextRead
<1> HIDE DEF f, R, A, text, on
<1>5. <<>> \in Seq(Line) /\ Holds(<<>>, {}, ShownOn(s, {}))
  BY DEF Holds, Sorted, LinesIn, ShownOn
<1>6. CASE s \notin DOMAIN f /\ on = {}
  BY <1>4, <1>5, <1>6 DEF text, on, f
<1>7. CASE s \in DOMAIN f /\ f[s] = <<>> /\ on = {}
  <2> DEFINE e == <<>>
             q == ReadBack(s, e)
  <2>0. e \in Seq(Line)
    OBVIOUS
  <2>1. CutShort(s, q, e)
    BY <2>0, ReadBackCuts
  <2> HIDE DEF e, q
  <2>2. e = <<>> => q = <<>>
    <3>1. q \in Seq(Line) /\ Len(q) <= Len(e) /\ Len(q) \in Nat
      BY <2>0, <2>1, CutShortFacts
    <3>2. ASSUME e = <<>>  PROVE Len(q) = 0
      BY <3>1, <3>2
    <3>3. QED  BY <3>1, <3>2
  <2> USE DEF e, q
  <2>3. text = <<>>
    BY <1>4, <1>7, <2>2
  <2>4. QED  BY <1>5, <1>7, <2>3 DEF text, on, f
<1>8. CASE s \in DOMAIN f /\ on = A /\ \E v \in Versions : f[s] = <<Heading(v)>> \o R
  <2>1. PICK v \in Versions : f[s] = <<Heading(v)>> \o R
    BY <1>8
  <2> DEFINE h == Heading(v)
             p == <<h>> \o R
  <2>2. h \in Line /\ h.item = -1
    BY HeadingIsLine
  <2> HIDE DEF h
  <2>3. p \in Seq(Line) /\ p # <<>> /\ p[1] = h
    <3>1. R \in Seq(Line) /\ Len(R) \in Nat
      BY <1>1
    <3>2. 1 \in 1 .. Len(R) + 1
      BY <3>1
    <3>3. p \in Seq(Line) /\ p # <<>>
      BY <2>2, <3>1, Prefixed
    <3>4. p[1] = h
      BY <2>2, <3>1, <3>2, Prefixed
    <3>5. QED  BY <3>3, <3>4
  <2>4. Holds(p, A, A)
    <3>1. Holds(R, A, A)
      BY <1>1
    <3>2. QED  BY <2>2, <3>1, HeadingAdded
  <2> HIDE DEF p
  <2>5. text = ReadBack(s, p)
    BY <1>4, <1>8, <2>1 DEF p, h
  <2>6. Holds(text, A, ShownOn(s, A))
    BY <2>4, <2>5, ReadBackHolds
  <2>7. CutShort(s, text, p)
    BY <2>3, <2>5, ReadBackCuts
  <2>8. text[1] = p[1]
    BY <2>2, <2>3, <2>7, CutShortFacts
  <2>9. QED  BY <1>1, <1>8, <2>2, <2>3, <2>6, <2>8 DEF text, on, f
<1>9. QED  BY <1>3, <1>6, <1>7, <1>8 DEF text, on

LEMMA RowsInAre ==
  ASSUME NEW c, c.start \in Nat, NEW F, \A s \in DOMAIN F : F[s] \in Seq(Line)
  PROVE  RowsIn(F, c) =
           UNION {{<<s, r>> : r \in ShownOn(s, InChunk(F[s], c))} : s \in DOMAIN F}
<1>1. ASSUME NEW s \in DOMAIN F
      PROVE  {<<s, F[s][k]>> : k \in {j \in RowsOf(F[s]) : /\ ~Blank(s, F[s][j])
                                                          /\ F[s][j].item \in c.start .. c.end}}
               = {<<s, r>> : r \in ShownOn(s, InChunk(F[s], c))}
  <2> DEFINE p == F[s]
  <2>1. DOMAIN p = 1 .. Len(p)
    BY <1>1
  <2>2. \A k \in 1 .. Len(p) : p[k].item \in c.start .. c.end => p[k].item # -1
    OBVIOUS
  <2> HIDE DEF p
  <2>3. {j \in RowsOf(p) : ~Blank(s, p[j]) /\ p[j].item \in c.start .. c.end}
          = {j \in 1 .. Len(p) : ~Blank(s, p[j]) /\ p[j].item \in c.start .. c.end}
    BY <2>1, <2>2 DEF RowsOf
  <2>4. ShownOn(s, InChunk(p, c)) = {p[j] : j \in {k \in 1 .. Len(p) :
                                       ~Blank(s, p[k]) /\ p[k].item \in c.start .. c.end}}
    BY DEF ShownOn, InChunk, LinesIn
  <2>5. QED  BY <2>3, <2>4 DEF p
<1>2. QED  BY <1>1 DEF RowsIn

LEMMA RowsDueAre ==
  ASSUME NEW c, NEW t
  PROVE  RowsDue(c, t) = UNION {{<<s, r>> : r \in ShownOn(s, RowSet(c, t))} : s \in SheetsOf(t)}
<1>1. ASSUME NEW s
      PROVE  {<<s, RowOf(i, t)>> : i \in {j \in Converted(c, t) : ~Blank(s, RowOf(j, t))}}
               = {<<s, r>> : r \in ShownOn(s, RowSet(c, t))}
  BY DEF ShownOn, RowSet
<1>2. QED  BY <1>1 DEF RowsDue

\* A file whose sheets hold what a chunk's template calls for has its rows.
LEMMA RowsMatch ==
  ASSUME NEW c, c.start \in Nat, NEW F, \A s \in DOMAIN F : F[s] \in Seq(Line), NEW t,
         \A s \in DOMAIN F : /\ InChunk(F[s], c) \subseteq RowsOn(s, c, t)
                             /\ ShownOn(s, RowsOn(s, c, t)) \subseteq LinesIn(F[s]),
         \A s : \A r \in RowsOn(s, c, t) : r.item \in c.start .. c.end,
         \A s : s \notin DOMAIN F => RowsOn(s, c, t) = {}
  PROVE  RowsIn(F, c) = RowsDue(c, t)
<1>1. ASSUME NEW s \in DOMAIN F
      PROVE  ShownOn(s, InChunk(F[s], c)) = ShownOn(s, RowsOn(s, c, t))
  BY DEF ShownOn, InChunk
<1>2. RowsIn(F, c) = UNION {{<<s, r>> : r \in ShownOn(s, RowsOn(s, c, t))} : s \in DOMAIN F}
  BY <1>1, RowsInAre
<1>3. \A s : s \notin DOMAIN F => ShownOn(s, RowsOn(s, c, t)) = {}
  BY DEF ShownOn
<1>4. \A s : s \notin SheetsOf(t) => ShownOn(s, RowsOn(s, c, t)) = {}
  BY DEF ShownOn, RowsOn
<1>5. \A s \in SheetsOf(t) : RowsOn(s, c, t) = RowSet(c, t)
  BY DEF RowsOn
<1>6. RowsDue(c, t) = UNION {{<<s, r>> : r \in ShownOn(s, RowsOn(s, c, t))} : s \in SheetsOf(t)}
  BY <1>5, RowsDueAre
<1> DEFINE X(s) == ShownOn(s, RowsOn(s, c, t))
           Y(s) == {<<s, r>> : r \in X(s)}
<1>7. \A s : X(s) = {} => Y(s) = {}
  OBVIOUS
<1> HIDE DEF X
<1>8. \A s : s \notin DOMAIN F \/ s \notin SheetsOf(t) => Y(s) = {}
  BY <1>3, <1>4, <1>7 DEF X
<1>9. RowsIn(F, c) = UNION {Y(s) : s \in DOMAIN F} /\ RowsDue(c, t) = UNION {Y(s) : s \in SheetsOf(t)}
  BY <1>2, <1>6 DEF X
<1> HIDE DEF Y
<1>10. UNION {Y(s) : s \in DOMAIN F} = UNION {Y(s) : s \in SheetsOf(t)}
  <2>1. ASSUME NEW z, NEW s \in DOMAIN F, z \in Y(s)  PROVE s \in SheetsOf(t)
    BY <1>8, <2>1
  <2>2. ASSUME NEW z, NEW s \in SheetsOf(t), z \in Y(s)  PROVE s \in DOMAIN F
    BY <1>8, <2>2
  <2>3. QED  BY <2>1, <2>2, Zenon
<1>11. QED  BY <1>9, <1>10

\* The files of chunks cs, each converted with its ts.
Files(cs, ts, n) == [k \in 1 .. n |-> File(cs[k], ts[k])]

\* Whatever each chunk was converted with, the sheets of the merged file are in
\* order and have each chunk's rows.
LEMMA MergedInOrder ==
  ASSUME NEW n \in Nat \ {0}, NEW cs, Cut(cs, n), NEW ts \in [1 .. n -> Template],
         NEW m \in Versions, format \in Formats,
         NEW F, F = Merged(Files(cs, ts, n), m)
  PROVE  /\ \A s \in DOMAIN F : F[s] \in Seq(Line) /\ Sorted(F[s])
         /\ \A k \in 1 .. n : RowsIn(F, cs[k]) = RowsDue(cs[k], ts[k])
<1> DEFINE R(k) == Rows(cs[k], ts[k])
           files == [k \in 1 .. n |-> File(cs[k], ts[k])]
           inner == [k \in 1 .. n |-> Unwrap(files[k]["text"], m)]
<1>1. ASSUME NEW k \in 1 .. n
      PROVE  /\ cs[k].start \in Nat /\ cs[k].end \in Nat /\ ts[k] \in Template
             /\ ts[k]["mappings"] \in Versions /\ ts[k]["metadata"] \in Versions
  BY DEF Cut, Template, Parts
<1>2. /\ DOMAIN files = 1 .. n /\ Len(files) = n /\ \A k \in 1 .. n : files[k] = File(cs[k], ts[k])
      /\ F = Merged(files, m)
  BY DEF Files
<1> DEFINE A(s) == [k \in 1 .. n |-> RowsOn(s, cs[k], ts[k])]
           D(s) == [k \in 1 .. n |-> ShownOn(s, RowsOn(s, cs[k], ts[k]))]
<1>3. ASSUME \A s \in DOMAIN F : Text(F[s], cs, A(s), D(s), n),
             \A s : \A k \in 1 .. n :
               /\ \A r \in RowsOn(s, cs[k], ts[k]) : r.item \in cs[k].start .. cs[k].end
               /\ s \notin DOMAIN F => RowsOn(s, cs[k], ts[k]) = {}
      PROVE  /\ \A s \in DOMAIN F : F[s] \in Seq(Line) /\ Sorted(F[s])
             /\ \A k \in 1 .. n : RowsIn(F, cs[k]) = RowsDue(cs[k], ts[k])
  <2>1. ASSUME NEW s \in DOMAIN F
        PROVE  /\ F[s] \in Seq(Line) /\ Sorted(F[s])
               /\ \A k \in 1 .. n : /\ InChunk(F[s], cs[k]) \subseteq RowsOn(s, cs[k], ts[k])
                                    /\ ShownOn(s, RowsOn(s, cs[k], ts[k])) \subseteq LinesIn(F[s])
    <3>1. Text(F[s], cs, A(s), D(s), n)
      BY <1>3
    <3>2. \A k \in 1 .. n : /\ A(s)[k] = RowsOn(s, cs[k], ts[k])
                            /\ D(s)[k] = ShownOn(s, RowsOn(s, cs[k], ts[k]))
      OBVIOUS
    <3> HIDE DEF A, D
    <3>3. QED  BY <3>1, <3>2 DEF Text
  <2>2. ASSUME NEW k \in 1 .. n  PROVE RowsIn(F, cs[k]) = RowsDue(cs[k], ts[k])
    BY <1>1, <1>3, <2>1, RowsMatch
  <2>3. QED  BY <2>1, <2>2
<1>4. CASE format \in {"csv", "xlsx"}
  <2> DEFINE texts(s) == [k \in 1 .. n |->
                           IF s \in DOMAIN files[k] THEN ReadBack(s, files[k][s]) ELSE <<>>]
  <2>1. F = [s \in UNION {DOMAIN files[k] : k \in 1 .. n} |-> Join(texts(s))]
    BY <1>2, <1>4 DEF Merged
  <2>2. ASSUME NEW s  PROVE Text(Join(texts(s)), cs, A(s), D(s), n)
    <3> DEFINE tx == texts(s)
               a == A(s)
               d == D(s)
    <3>1. DOMAIN tx = 1 .. n /\ Len(tx) = n
      OBVIOUS
    <3>2. ASSUME NEW k \in 1 .. n
          PROVE  /\ tx[k] = TextRead(s, cs[k], ts[k]) /\ a[k] = RowsOn(s, cs[k], ts[k])
                 /\ d[k] = ShownOn(s, RowsOn(s, cs[k], ts[k]))
      BY <1>2 DEF TextRead
    <3> HIDE DEF tx, a, d
    <3>3. ASSUME NEW k \in 1 .. n
          PROVE  /\ Holds(tx[k], a[k], d[k]) /\ (tx[k] = <<>> \/ tx[k][1].item = -1)
                 /\ \A r \in a[k] : r.item \in cs[k].start .. cs[k].end
                 /\ \A r \in d[k] : r.item # -1
      <4>1. /\ Holds(tx[k], a[k], d[k]) /\ (tx[k] = <<>> \/ tx[k][1].item = -1)
            /\ \A r \in a[k] : r.item \in cs[k].start .. cs[k].end /\ r.item # -1
        BY <1>1, <1>4, <3>2, TextHolds
      <4>2. d[k] \subseteq a[k]
        BY <3>2 DEF ShownOn
      <4>3. QED  BY <4>1, <4>2
    <3>4. Pieces(tx, cs, a, d, n)
      BY <3>3 DEF Pieces
    <3>5. Text(Join(tx), cs, a, d, n)
      BY <3>1, <3>3, <3>4, JoinInOrder
    <3>6. QED  BY <3>5 DEF tx, a, d
  <2>3. ASSUME NEW s, NEW k \in 1 .. n
        PROVE  /\ \A r \in RowsOn(s, cs[k], ts[k]) : r.item \in cs[k].start .. cs[k].end
               /\ s \notin DOMAIN files[k] => RowsOn(s, cs[k], ts[k]) = {}
    <3>1. files[k] = File(cs[k], ts[k])
      OBVIOUS
    <3> HIDE DEF files
    <3>2. QED  BY <1>1, <1>4, <3>1, TextHolds
  <2> HIDE DEF texts, files, A, D
  <2>4. DOMAIN F = UNION {DOMAIN files[k] : k \in 1 .. n} /\ \A s \in DOMAIN F : F[s] = Join(texts(s))
    BY <2>1
  <2>5. \A s \in DOMAIN F : Text(F[s], cs, A(s), D(s), n)
    BY <2>2, <2>4
  <2>6. \A s : \A k \in 1 .. n :
           /\ \A r \in RowsOn(s, cs[k], ts[k]) : r.item \in cs[k].start .. cs[k].end
           /\ s \notin DOMAIN F => RowsOn(s, cs[k], ts[k]) = {}
    BY <2>3, <2>4
  <2>7. QED  BY <1>3, <2>5, <2>6
<1>5. CASE format \notin {"csv", "xlsx"}
  <2> DEFINE h == Heading(m)
             a == A("text")
             d == D("text")
  <2>1. F = [s \in {"text"} |-> <<h>> \o FlattenSeq(inner)]
    BY <1>2, <1>5 DEF Merged
  <2>2. ASSUME NEW s, NEW k \in 1 .. n
        PROVE  RowsOn(s, cs[k], ts[k]) = IF s = "text" THEN RowSet(cs[k], ts[k]) ELSE {}
    BY <1>5 DEF RowsOn, SheetsOf
  <2>3. ASSUME NEW k \in 1 .. n
        PROVE  /\ Holds(inner[k], a[k], d[k])
               /\ \A r \in a[k] : r.item \in cs[k].start .. cs[k].end
    <3> DEFINE g == Heading(ts[k]["metadata"])
               r == R(k)
               S == RowSet(cs[k], ts[k])
    <3>1. files[k]["text"] = <<g>> \o r
      BY <1>2, <1>5 DEF File
    <3>2. inner[k] = Unwrap(files[k]["text"], m)
      OBVIOUS
    <3>3. a[k] = S /\ d[k] = ShownOn("text", S)
      BY <2>2
    <3> HIDE DEF inner, files, a, d
    <3>4. g \in Line /\ g.item = -1
      BY <1>1, HeadingIsLine
    <3>5. Holds(r, S, S) /\ \A x \in S : x.item \in cs[k].start .. cs[k].end /\ x.item # -1
      BY <1>1, RowsFacts
    <3>6. r \in Seq(Line)
      BY <1>1, RowsFacts
    <3> HIDE DEF g, r, S
    <3>7. Holds(<<g>> \o r, S, S)
      BY <3>4, <3>5, HeadingAdded
    <3>8. Tail(<<g>> \o r) = r
      BY <3>4, <3>6, Prefixed
    <3>9. inner[k] = r \/ inner[k] = <<g>> \o r
      BY <3>1, <3>2, <3>8 DEF Unwrap
    <3>10. Holds(inner[k], S, S)
      BY <3>5, <3>7, <3>9
    <3>11. Holds(inner[k], S, ShownOn("text", S))
      BY <3>10 DEF Holds, ShownOn
    <3>12. QED  BY <3>3, <3>5, <3>11
  <2>4. DOMAIN inner = 1 .. n /\ Len(inner) = n
    OBVIOUS
  <2> DEFINE text == FlattenSeq(inner)
             F1 == <<h>> \o text
  <2> HIDE DEF inner, a, d
  <2>5. Pieces(inner, cs, a, d, n)
    BY <2>3 DEF Pieces
  <2>6. Text(text, cs, a, d, n)
    BY <2>4, <2>5, Joined
  <2> HIDE DEF text
  <2>7. h \in Line /\ h.item = -1
    BY HeadingIsLine
  <2> HIDE DEF h
  <2>8. Text(F1, cs, a, d, n)
    <3>1. text \in Seq(Line) /\ Sorted(text)
      BY <2>6 DEF Text
    <3>2. Holds(text, LinesIn(text), LinesIn(text))
      BY <3>1 DEF Holds
    <3>3. Holds(F1, LinesIn(text), LinesIn(text))
      BY <2>7, <3>2, HeadingAdded
    <3> HIDE DEF F1
    <3>4. ASSUME NEW k \in 1 .. n  PROVE InChunk(F1, cs[k]) \subseteq InChunk(text, cs[k])
      <4>1. cs[k].start \in Nat /\ cs[k].end \in Nat
        BY <1>1
      <4>2. \A x \in LinesIn(F1) : x.item = -1 \/ x \in LinesIn(text)
        BY <3>3 DEF Holds
      <4>3. -1 \notin cs[k].start .. cs[k].end
        BY <4>1
      <4>4. QED  BY <4>2, <4>3 DEF InChunk
    <3>5. F1 \in Seq(Line) /\ Sorted(F1) /\ LinesIn(text) \subseteq LinesIn(F1)
      BY <3>3 DEF Holds
    <3>6. ASSUME NEW k \in 1 .. n
          PROVE  InChunk(F1, cs[k]) \subseteq a[k] /\ d[k] \subseteq LinesIn(F1)
      <4>1. InChunk(text, cs[k]) \subseteq a[k] /\ d[k] \subseteq LinesIn(text)
        BY <2>6 DEF Text
      <4>2. QED  BY <3>4, <3>5, <4>1
    <3>7. QED  BY <3>5, <3>6 DEF Text
  <2>9. DOMAIN F = {"text"} /\ F["text"] = F1
    BY <2>1 DEF text
  <2> HIDE DEF F1
  <2>10. \A s \in DOMAIN F : Text(F[s], cs, A(s), D(s), n)
    BY <2>8, <2>9 DEF a, d
  <2>11. ASSUME NEW s, NEW k \in 1 .. n
         PROVE  /\ \A r \in RowsOn(s, cs[k], ts[k]) : r.item \in cs[k].start .. cs[k].end
                /\ s \notin DOMAIN F => RowsOn(s, cs[k], ts[k]) = {}
    <3>1. \A x \in RowSet(cs[k], ts[k]) : x.item \in cs[k].start .. cs[k].end
      BY <1>1, RowsFacts
    <3>2. QED  BY <2>2, <2>9, <3>1
  <2> HIDE DEF A, D
  <2>12. QED  BY <1>3, <2>10, <2>11
<1>6. QED  BY <1>4, <1>5
-----------------------------------------------------------------------------
(* One version for all chunks: but for blank lines the cut leaves no trace *)

\* The rows of neighbours, side by side.
LEMMA RowsJoin ==
  ASSUME NEW a, a.start \in Nat, a.end \in Nat, NEW b, b.start \in Nat, b.end \in Nat,
         NEW c, c.start \in Nat, c.end \in Nat, NEW t \in Template,
         Converted(c, t) = Converted(a, t) \union Converted(b, t),
         \A i \in Converted(a, t), j \in Converted(b, t) : i < j
  PROVE  Rows(c, t) = Rows(a, t) \o Rows(b, t)
<1> DEFINE x == Kept(a, t)
           y == Kept(b, t)
           z == Kept(c, t)
<1>1. /\ x = InOrder(Converted(a, t)) /\ y = InOrder(Converted(b, t))
      /\ z = InOrder(Converted(c, t))
      /\ Converted(a, t) \in SUBSET Nat /\ IsFiniteSet(Converted(a, t)) /\ x \in Seq(Nat)
      /\ Converted(b, t) \in SUBSET Nat /\ IsFiniteSet(Converted(b, t)) /\ y \in Seq(Nat)
  <2>1. /\ Converted(a, t) \in SUBSET Nat /\ IsFiniteSet(Converted(a, t))
        /\ x \in Seq(Converted(a, t))
    BY KeptAscends
  <2>2. /\ Converted(b, t) \in SUBSET Nat /\ IsFiniteSet(Converted(b, t))
        /\ y \in Seq(Converted(b, t))
    BY KeptAscends
  <2>3. /\ x = InOrder(Converted(a, t)) /\ y = InOrder(Converted(b, t))
        /\ z = InOrder(Converted(c, t))
    BY DEF Kept
  <2> HIDE DEF x, y, z
  <2>4. x \in Seq(Nat) /\ y \in Seq(Nat)
    BY <2>1, <2>2
  <2>5. QED  BY <2>1, <2>2, <2>3, <2>4
<1>2. z = x \o y
  BY <1>1, InOrderJoins
<1> DEFINE p == Rows(a, t)
           q == Rows(b, t)
           r == Rows(c, t)
<1>3. /\ p = [k \in 1 .. Len(x) |-> RowOf(x[k], t)]
      /\ q = [k \in 1 .. Len(y) |-> RowOf(y[k], t)]
      /\ r = [k \in 1 .. Len(z) |-> RowOf(z[k], t)]
  BY DEF Rows
<1>4. p \in Seq(Line) /\ q \in Seq(Line) /\ r \in Seq(Line)
  BY RowsFacts
<1> HIDE DEF x, y, z, p, q, r
<1>5. x \in Seq(Nat) /\ y \in Seq(Nat) /\ Len(x) \in Nat /\ Len(y) \in Nat
  BY <1>1
<1>6. /\ Len(z) = Len(x) + Len(y)
      /\ \A k \in 1 .. Len(x) + Len(y) : z[k] = IF k <= Len(x) THEN x[k] ELSE y[k - Len(x)]
  BY <1>2, <1>5
<1>7. /\ Len(p) = Len(x) /\ Len(q) = Len(y) /\ Len(r) = Len(z)
      /\ \A k \in 1 .. Len(x) : p[k] = RowOf(x[k], t)
      /\ \A k \in 1 .. Len(y) : q[k] = RowOf(y[k], t)
      /\ \A k \in 1 .. Len(z) : r[k] = RowOf(z[k], t)
  BY <1>3, <1>5, <1>6
<1>8. /\ p \o q \in Seq(Line) /\ Len(p \o q) = Len(x) + Len(y)
      /\ \A k \in 1 .. Len(x) + Len(y) : (p \o q)[k] = IF k <= Len(x) THEN p[k] ELSE q[k - Len(x)]
  <2>1. p \o q \in Seq(Line) /\ Len(p \o q) = Len(p) + Len(q)
    BY <1>4
  <2>2. \A k \in 1 .. Len(p) + Len(q) : (p \o q)[k] = IF k <= Len(p) THEN p[k] ELSE q[k - Len(p)]
    BY <1>4
  <2>3. QED  BY <1>7, <2>1, <2>2
<1>9. ASSUME NEW k \in 1 .. Len(x) + Len(y)  PROVE (p \o q)[k] = r[k]
  <2>1. CASE k <= Len(x)
    <3>1. k \in 1 .. Len(x)
      BY <1>5, <2>1
    <3>2. (p \o q)[k] = p[k] /\ z[k] = x[k]
      BY <1>6, <1>8, <2>1
    <3>3. QED  BY <1>6, <1>7, <3>1, <3>2
  <2>2. CASE ~(k <= Len(x))
    <3>1. k - Len(x) \in 1 .. Len(y)
      BY <1>5, <2>2
    <3>2. (p \o q)[k] = q[k - Len(x)] /\ z[k] = y[k - Len(x)]
      BY <1>6, <1>8, <2>2
    <3>3. QED  BY <1>6, <1>7, <3>1, <3>2
  <2>3. QED  BY <2>1, <2>2
<1> DEFINE u == p \o q
<1>10. u \in Seq(Line) /\ Len(u) = Len(r) /\ \A k \in 1 .. Len(r) : u[k] = r[k]
  BY <1>6, <1>7, <1>8, <1>9
<1> HIDE DEF u
<1>11. u = r
  BY <1>4, <1>10
<1>12. QED  BY <1>11 DEF u, p, q, r

\* The rows up to a chunk, and those that the chunk adds.
Upto(c) == [start |-> 0, end |-> c.end]

LEMMA RowsUpto ==
  ASSUME NEW n \in Nat \ {0}, NEW cs, Cut(cs, n), NEW t \in Template
  PROVE  /\ Rows(Upto(cs[1]), t) = Rows(cs[1], t)
         /\ Rows(Upto(cs[n]), t) = Rows(Whole, t)
         /\ \A k \in 1 .. n - 1 : Rows(Upto(cs[k + 1]), t) = Rows(Upto(cs[k]), t) \o Rows(cs[k + 1], t)
         /\ \A k \in 1 .. n : Rows(Upto(cs[k]), t) \in Seq(Line) /\ Rows(cs[k], t) \in Seq(Line)
<1>1. /\ cs[1].start = 0 /\ cs[n].end = Len(source) - 1
      /\ \A k \in 1 .. n : cs[k].start \in Nat /\ cs[k].end \in Nat /\ cs[k].start <= cs[k].end
      /\ \A k \in 1 .. n - 1 : cs[k + 1].start = cs[k].end + 1
  BY DEF Cut
<1>2. \A a, b : a.start = b.start /\ a.end = b.end => Rows(a, t) = Rows(b, t)
  BY DEF Rows, Kept, Converted
<1>3. ASSUME NEW k \in 1 .. n - 1
      PROVE  Rows(Upto(cs[k + 1]), t) = Rows(Upto(cs[k]), t) \o Rows(cs[k + 1], t)
  <2> DEFINE a == Upto(cs[k])
             b == cs[k + 1]
             c == Upto(cs[k + 1])
  <2>1. k \in 1 .. n /\ k + 1 \in 1 .. n
    OBVIOUS
  <2>2. /\ a.start = 0 /\ a.end \in Nat /\ b.start = a.end + 1 /\ b.end \in Nat
        /\ c.start = 0 /\ c.end = b.end /\ b.start <= b.end
    BY <1>1, <2>1 DEF Upto
  <2> HIDE DEF a, b, c
  <2>3. c.start .. c.end = (a.start .. a.end) \union (b.start .. b.end)
    BY <2>2
  <2>4. Converted(c, t) = Converted(a, t) \union Converted(b, t)
    BY <2>3 DEF Converted
  <2>5. \A i \in Converted(a, t), j \in Converted(b, t) : i < j
    BY <2>2 DEF Converted
  <2>6. a.start \in Nat /\ b.start \in Nat /\ c.start \in Nat /\ c.end \in Nat
    BY <2>2
  <2>7. Rows(c, t) = Rows(a, t) \o Rows(b, t)
    BY <2>2, <2>4, <2>5, <2>6, RowsJoin
  <2>8. QED  BY <2>7 DEF a, b, c
<1>4. ASSUME NEW k \in 1 .. n  PROVE Rows(Upto(cs[k]), t) \in Seq(Line) /\ Rows(cs[k], t) \in Seq(Line)
  BY <1>1, RowsFacts DEF Upto
<1>5. QED  BY <1>1, <1>2, <1>3, <1>4 DEF Upto, Whole

\* Where in a text the lines are that are not blank.
ShownAt(s, p) == {k \in DOMAIN p : ~Blank(s, p[k])}

LEMMA ShownFacts ==
  ASSUME NEW L, NEW p \in Seq(L), NEW s
  PROVE  /\ ShownAt(s, p) \in SUBSET Nat /\ IsFiniteSet(ShownAt(s, p))
         /\ ShownAt(s, p) \in SUBSET (1 .. Len(p)) /\ Len(p) \in Nat
         /\ InOrder(ShownAt(s, p)) \in Seq(ShownAt(s, p))
         /\ Shown(s, p) = [k \in 1 .. Len(InOrder(ShownAt(s, p))) |-> p[InOrder(ShownAt(s, p))[k]]]
         /\ Shown(s, p) \in Seq(L) /\ Len(Shown(s, p)) = Len(InOrder(ShownAt(s, p)))
<1> DEFINE K == ShownAt(s, p)
           at == InOrder(K)
           q == Shown(s, p)
           n == Cardinality(K)
<1>1. K \in SUBSET (1 .. Len(p)) /\ Len(p) \in Nat
  BY DEF ShownAt
<1>2. q = [k \in 1 .. Len(at) |-> p[at[k]]]
  BY DEF Shown, ShownAt
<1> HIDE DEF K, q
<1>3. K \in SUBSET Nat /\ IsFiniteSet(K)
  <2>1. IsFiniteSet(1 .. Len(p)) /\ 1 .. Len(p) \in SUBSET Nat
    BY <1>1, FS_Interval
  <2>2. QED  BY <1>1, <2>1, FS_Subset
<1>4. n \in Nat /\ Ascends(at, n, K)
  BY <1>3, InOrderAscends
<1> HIDE DEF n, at
<1>5. at \in Seq(K) /\ Len(at) \in Nat
  BY <1>4 DEF Ascends
<1>6. \A k \in 1 .. Len(at) : p[at[k]] \in L
  BY <1>1, <1>5
<1>7. q \in Seq(L) /\ Len(q) = Len(at)
  BY <1>2, <1>5, <1>6
<1>8. QED  BY <1>1, <1>2, <1>3, <1>5, <1>7 DEF q, at, K

LEMMA SeqOfMore ==
  ASSUME NEW T, NEW S \in SUBSET T, NEW p \in Seq(S)
  PROVE  p \in Seq(T)
<1>1. p \in [1 .. Len(p) -> S] /\ Len(p) \in Nat
  OBVIOUS
<1>2. p \in [1 .. Len(p) -> T]
  BY <1>1
<1>3. QED  BY <1>1, <1>2

LEMMA SameLines ==
  ASSUME NEW L, NEW p \in Seq(L), NEW q \in Seq(L), Len(p) = Len(q),
         \A k \in 1 .. Len(p) : p[k] = q[k]
  PROVE  p = q
OBVIOUS

\* What shows of two texts behind one another.
LEMMA ShownJoins ==
  ASSUME NEW L, NEW x \in Seq(L), NEW y \in Seq(L), NEW s
  PROVE  Shown(s, x \o y) = Shown(s, x) \o Shown(s, y)
<1> DEFINE z == x \o y
           m == Len(x)
           X == ShownAt(s, x)
           Y == ShownAt(s, y)
           Y1 == {m + k : k \in Y}
           u == InOrder(X)
           v == InOrder(Y)
           v1 == [k \in 1 .. Len(v) |-> m + v[k]]
           w == InOrder(X \union Y1)
<1>1. /\ z \in Seq(L) /\ m \in Nat /\ Len(y) \in Nat /\ Len(z) = m + Len(y)
      /\ \A k \in 1 .. Len(z) : z[k] = IF k <= m THEN x[k] ELSE y[k - m]
  OBVIOUS
<1>2. /\ X \in SUBSET (1 .. m) /\ IsFiniteSet(X) /\ u \in Seq(X)
      /\ Y \in SUBSET (1 .. Len(y)) /\ IsFiniteSet(Y) /\ v \in Seq(Y)
  BY ShownFacts
<1> HIDE DEF z
<1>3. ShownAt(s, z) = X \union Y1
  <2>1. \A k : k \in X <=> k \in 1 .. m /\ ~Blank(s, x[k])
    BY DEF ShownAt
  <2>2. \A k : k \in Y <=> k \in 1 .. Len(y) /\ ~Blank(s, y[k])
    BY DEF ShownAt
  <2>3. \A k : k \in ShownAt(s, z) <=> k \in 1 .. Len(z) /\ ~Blank(s, z[k])
    BY <1>1 DEF ShownAt
  <2> HIDE DEF X, Y, m
  <2>4. ASSUME NEW k \in ShownAt(s, z)  PROVE k \in X \union Y1
    <3>1. CASE k <= m
      BY <1>1, <2>1, <2>3, <3>1
    <3>2. CASE ~(k <= m)
      <4>1. k - m \in 1 .. Len(y) /\ z[k] = y[k - m] /\ k = m + (k - m)
        BY <1>1, <2>3, <3>2
      <4>2. k - m \in Y
        BY <2>2, <2>3, <4>1
      <4>3. QED  BY <4>1, <4>2
    <3>3. QED  BY <3>1, <3>2
  <2>5. ASSUME NEW k \in X  PROVE k \in ShownAt(s, z)
    <3>1. k \in 1 .. Len(z) /\ k <= m
      BY <1>1, <2>1
    <3>2. QED  BY <1>1, <2>1, <2>3, <3>1
  <2>6. ASSUME NEW k \in Y  PROVE m + k \in ShownAt(s, z)
    <3>1. k \in 1 .. Len(y)
      BY <2>2
    <3>2. m + k \in 1 .. Len(z) /\ ~(m + k <= m) /\ (m + k) - m = k
      BY <1>1, <3>1
    <3>3. z[m + k] = y[k]
      BY <1>1, <3>2
    <3>4. QED  BY <2>2, <2>3, <3>2, <3>3
  <2>7. QED  BY <2>4, <2>5, <2>6
<1> HIDE DEF X, Y, m
<1>4. /\ X \in SUBSET Nat /\ Y \in SUBSET Nat /\ Y1 \in SUBSET Nat
      /\ \A a \in X, b \in Y1 : a < b
  BY <1>1, <1>2
<1>5. IsFiniteSet(Y1) /\ InOrder(Y1) = v1
  <2> DEFINE n == Cardinality(Y)
  <2>1. n \in Nat /\ Ascends(v, n, Y)
    BY <1>2, <1>4, InOrderAscends
  <2> HIDE DEF n, v
  <2>2. Len(v) = n /\ v \in [1 .. n -> Y]
    BY <2>1 DEF Ascends
  <2>3. Ascends(v1, n, Y1)
    <3>1. v1 \in [1 .. n -> Y1]
      BY <2>2
    <3>2. \A i \in 1 .. n : v1[i] = m + v[i] /\ v[i] \in Nat
      BY <1>4, <2>2
    <3>3. \A k \in Y1 : \E i \in 1 .. n : v1[i] = k
      <4>1. \A k \in Y : \E i \in 1 .. n : v[i] = k
        BY <2>1 DEF Ascends
      <4> HIDE DEF v1
      <4>2. QED  BY <3>2, <4>1
    <3>4. \A i, j \in 1 .. n : i < j => v1[i] < v1[j]
      <4>1. \A i, j \in 1 .. n : i < j => v[i] < v[j]
        BY <2>1 DEF Ascends
      <4>2. m \in Nat
        BY <1>1
      <4> HIDE DEF v1
      <4>3. ASSUME NEW i \in 1 .. n, NEW j \in 1 .. n, i < j  PROVE v1[i] < v1[j]
        <5>1. v[i] < v[j]
          BY <4>1, <4>3
        <5>2. QED  BY <3>2, <4>2, <5>1
      <4>4. QED  BY <4>3
    <3> HIDE DEF v1, Y1
    <3>5. QED  BY <3>1, <3>3, <3>4 DEF Ascends
  <2> HIDE DEF v1, Y1
  <2>4. QED  BY <1>4, <2>1, <2>3, InOrderIs
<1>6. w = u \o v1
  <2> HIDE DEF Y1, v1
  <2>1. QED  BY <1>2, <1>4, <1>5, InOrderJoins
<1>7. /\ v1 \in Seq(Y1) /\ Len(v1) = Len(v) /\ Len(v) \in Nat /\ Len(u) \in Nat
      /\ u \in Seq(X) /\ v \in Seq(Y)
      /\ \A k \in 1 .. Len(v) : v1[k] = m + v[k] /\ v[k] \in Y
  <2>1. u \in Seq(X) /\ v \in Seq(Y)
    BY <1>2
  <2> HIDE DEF u, v
  <2>2. \A k \in 1 .. Len(v) : v1[k] = m + v[k] /\ v[k] \in Y
    BY <2>1
  <2>3. v1 \in Seq(Y1) /\ Len(v1) = Len(v)
    BY <2>1
  <2>4. QED  BY <2>1, <2>2, <2>3
<1> DEFINE p == Shown(s, x)
           q == Shown(s, y)
           r == Shown(s, z)
<1>8. /\ p = [k \in 1 .. Len(u) |-> x[u[k]]] /\ p \in Seq(L) /\ Len(p) = Len(u)
      /\ q = [k \in 1 .. Len(v) |-> y[v[k]]] /\ q \in Seq(L) /\ Len(q) = Len(v)
      /\ r = [k \in 1 .. Len(w) |-> z[w[k]]] /\ r \in Seq(L) /\ Len(r) = Len(w)
  <2>1. p = [k \in 1 .. Len(u) |-> x[u[k]]] /\ p \in Seq(L) /\ Len(p) = Len(u)
    BY ShownFacts DEF X
  <2>2. q = [k \in 1 .. Len(v) |-> y[v[k]]] /\ q \in Seq(L) /\ Len(q) = Len(v)
    BY ShownFacts DEF Y
  <2>3. w = InOrder(ShownAt(s, z))
    BY <1>3
  <2>4. z \in Seq(L)
    BY <1>1
  <2> HIDE DEF w
  <2>5. r = [k \in 1 .. Len(w) |-> z[w[k]]] /\ r \in Seq(L) /\ Len(r) = Len(w)
    BY <2>3, <2>4, ShownFacts
  <2>6. QED  BY <2>1, <2>2, <2>5
<1> HIDE DEF u, v, w, v1, Y1, p, q, r
<1>9. /\ Len(w) = Len(u) + Len(v)
      /\ \A k \in 1 .. Len(u) : w[k] = u[k]
      /\ \A k \in 1 .. Len(v) : w[Len(u) + k] = v1[k]
  <2>1. u \in Seq(Nat) /\ v1 \in Seq(Nat)
    <3>1. u \in Seq(X) /\ X \in SUBSET Nat
      BY <1>4, <1>7
    <3>2. v1 \in Seq(Y1) /\ Y1 \in SUBSET Nat
      BY <1>4, <1>7
    <3>3. u \in Seq(Nat)
      BY <3>1, SeqOfMore
    <3>4. v1 \in Seq(Nat)
      BY <3>2, SeqOfMore
    <3>5. QED  BY <3>3, <3>4
  <2>2. /\ Len(w) = Len(u) + Len(v1)
        /\ \A k \in 1 .. Len(u) + Len(v1) : w[k] = IF k <= Len(u) THEN u[k] ELSE v1[k - Len(u)]
    BY <1>6, <2>1
  <2>3. ASSUME NEW k \in 1 .. Len(u)  PROVE w[k] = u[k]
    <3>1. k \in 1 .. Len(u) + Len(v1) /\ k <= Len(u)
      BY <1>7
    <3>2. QED  BY <2>2, <3>1
  <2>4. ASSUME NEW k \in 1 .. Len(v)  PROVE w[Len(u) + k] = v1[k]
    <3>1. /\ Len(u) + k \in 1 .. Len(u) + Len(v1) /\ ~(Len(u) + k <= Len(u))
          /\ (Len(u) + k) - Len(u) = k
      BY <1>7
    <3>2. QED  BY <2>2, <3>1
  <2>5. QED  BY <1>7, <2>2, <2>3, <2>4
<1> DEFINE pq == p \o q
<1>10. /\ pq \in Seq(L) /\ Len(pq) = Len(u) + Len(v)
       /\ \A k \in 1 .. Len(u) : pq[k] = p[k]
       /\ \A k \in 1 .. Len(v) : pq[Len(u) + k] = q[k]
  <2>1. /\ pq \in Seq(L) /\ Len(pq) = Len(p) + Len(q)
        /\ \A k \in 1 .. Len(p) + Len(q) : pq[k] = IF k <= Len(p) THEN p[k] ELSE q[k - Len(p)]
    BY <1>8
  <2> HIDE DEF pq
  <2>2. ASSUME NEW k \in 1 .. Len(u)  PROVE pq[k] = p[k]
    <3>1. k \in 1 .. Len(p) + Len(q) /\ k <= Len(p)
      BY <1>7, <1>8
    <3>2. QED  BY <2>1, <3>1
  <2>3. ASSUME NEW k \in 1 .. Len(v)  PROVE pq[Len(u) + k] = q[k]
    <3>1. /\ Len(u) + k \in 1 .. Len(p) + Len(q) /\ ~(Len(u) + k <= Len(p))
          /\ (Len(u) + k) - Len(p) = k
      BY <1>7, <1>8
    <3>2. QED  BY <2>1, <3>1
  <2>4. QED  BY <1>8, <2>1, <2>2, <2>3
<1> HIDE DEF pq
<1>11. ASSUME NEW k \in 1 .. Len(u)  PROVE r[k] = pq[k]
  <2>1. k \in 1 .. Len(w) /\ u[k] \in X
    BY <1>7, <1>9
  <2>2. r[k] = z[u[k]] /\ pq[k] = x[u[k]]
    BY <1>8, <1>9, <1>10, <2>1
  <2>3. u[k] \in 1 .. Len(z) /\ u[k] <= m
    <3>1. u[k] \in 1 .. m
      BY <1>2, <2>1
    <3>2. m \in Nat /\ Len(y) \in Nat /\ Len(z) = m + Len(y)
      BY <1>1
    <3>3. QED  BY <3>1, <3>2
  <2>4. QED  BY <1>1, <2>2, <2>3
<1>12. ASSUME NEW k \in 1 .. Len(v)  PROVE r[Len(u) + k] = pq[Len(u) + k]
  <2>1. Len(u) + k \in 1 .. Len(w) /\ v[k] \in Y
    BY <1>7, <1>9
  <2>2. r[Len(u) + k] = z[m + v[k]] /\ pq[Len(u) + k] = y[v[k]]
    BY <1>7, <1>8, <1>9, <1>10, <2>1
  <2>3. v[k] \in 1 .. Len(y)
    BY <1>2, <2>1
  <2>4. m + v[k] \in 1 .. Len(z) /\ ~(m + v[k] <= m) /\ (m + v[k]) - m = v[k]
    BY <1>1, <2>3
  <2>5. QED  BY <1>1, <2>2, <2>4
<1>13. ASSUME NEW i \in 1 .. Len(u) + Len(v)  PROVE r[i] = pq[i]
  <2>1. CASE i <= Len(u)
    <3>1. i \in 1 .. Len(u)
      BY <1>7, <2>1
    <3>2. QED  BY <1>11, <3>1
  <2>2. CASE ~(i <= Len(u))
    <3>1. i - Len(u) \in 1 .. Len(v) /\ Len(u) + (i - Len(u)) = i
      BY <1>7, <2>2
    <3>2. r[Len(u) + (i - Len(u))] = pq[Len(u) + (i - Len(u))]
      BY <1>12, <3>1
    <3>3. QED  BY <3>1, <3>2
  <2>3. QED  BY <2>1, <2>2
<1>14. r = pq
  <2>1. r \in Seq(L) /\ pq \in Seq(L) /\ Len(r) = Len(pq) /\ Len(r) = Len(u) + Len(v)
    BY <1>8, <1>9, <1>10
  <2>2. \A i \in 1 .. Len(r) : r[i] = pq[i]
    BY <1>13, <2>1
  <2>3. QED  BY <2>1, <2>2, SameLines
<1>15. QED  BY <1>14 DEF r, pq, p, q, z

\* A text that lost only blank lines shows the same.
LEMMA ShownCut ==
  ASSUME NEW L, NEW p \in Seq(L), NEW s, NEW q, CutShort(s, q, p)
  PROVE  Shown(s, q) = Shown(s, p)
<1>1. /\ q \in Seq(L) /\ Len(q) <= Len(p) /\ Len(q) \in Nat /\ Len(p) \in Nat
      /\ \A j \in 1 .. Len(q) : q[j] = p[j]
      /\ \A j \in Len(q) + 1 .. Len(p) : Blank(s, p[j])
  BY CutShortFacts
<1>2. ShownAt(s, q) = ShownAt(s, p)
  <2>1. \A k : k \in ShownAt(s, q) <=> k \in 1 .. Len(q) /\ ~Blank(s, q[k])
    BY <1>1 DEF ShownAt
  <2>2. \A k : k \in ShownAt(s, p) <=> k \in 1 .. Len(p) /\ ~Blank(s, p[k])
    BY DEF ShownAt
  <2>3. \A k \in 1 .. Len(p) : k \in 1 .. Len(q) \/ k \in Len(q) + 1 .. Len(p)
    BY <1>1
  <2>4. \A k \in 1 .. Len(q) : k \in 1 .. Len(p)
    BY <1>1
  <2>5. ASSUME NEW k  PROVE k \in ShownAt(s, q) <=> k \in ShownAt(s, p)
    BY <1>1, <2>1, <2>2, <2>3, <2>4
  <2>6. QED  BY <2>5
<1> DEFINE at == InOrder(ShownAt(s, q))
<1>3. /\ at \in Seq(ShownAt(s, q)) /\ ShownAt(s, q) \in SUBSET (1 .. Len(q))
      /\ Shown(s, q) = [k \in 1 .. Len(at) |-> q[at[k]]]
  BY <1>1, ShownFacts
<1>4. Shown(s, p) = [k \in 1 .. Len(at) |-> p[at[k]]]
  BY <1>2, ShownFacts
<1> HIDE DEF at
<1>5. \A k \in 1 .. Len(at) : at[k] \in 1 .. Len(q)
  BY <1>3
<1>6. \A k \in 1 .. Len(at) : q[at[k]] = p[at[k]]
  BY <1>1, <1>5
<1>7. QED  BY <1>3, <1>4, <1>6

\* A heading always shows; a text without lines shows none.
LEMMA ShownHeading ==
  ASSUME NEW L, NEW h \in L, h.item = -1, NEW p \in Seq(L), NEW s
  PROVE  Shown(s, <<h>> \o p) = <<h>> \o Shown(s, p)
<1> DEFINE one == <<h>>
           id == [k \in 1 .. 1 |-> 1]
<1>1. ~Blank(s, h)
  BY DEF Blank
<1>2. one \in Seq(L) /\ Len(one) = 1 /\ DOMAIN one = 1 .. 1 /\ one[1] = h
  OBVIOUS
<1> HIDE DEF one
<1>3. ShownAt(s, one) = {1}
  BY <1>1, <1>2 DEF ShownAt
<1>4. InOrder({1}) = id
  <2>1. Ascends(id, 1, {1})
    BY DEF Ascends
  <2> HIDE DEF id
  <2>2. QED  BY <2>1, InOrderIs
<1>5. Shown(s, one) = one
  <2> DEFINE q == Shown(s, one)
  <2>1. Len(id) = 1 /\ id[1] = 1
    OBVIOUS
  <2> DEFINE at == InOrder(ShownAt(s, one))
  <2>2. at = id
    BY <1>3, <1>4
  <2>3. /\ q = [k \in 1 .. Len(at) |-> one[at[k]]] /\ q \in Seq(L) /\ Len(q) = Len(at)
    BY <1>2, ShownFacts
  <2> HIDE DEF id, q, at
  <2>4. Len(q) = 1 /\ q[1] = h
    BY <1>2, <2>1, <2>2, <2>3
  <2>5. q = one
    <3>1. \A k \in 1 .. Len(q) : k = 1
      BY <2>4
    <3>2. \A k \in 1 .. Len(q) : q[k] = one[k]
      BY <1>2, <2>4, <3>1
    <3>3. QED  BY <1>2, <2>3, <2>4, <3>2, SameLines
  <2>6. QED  BY <2>5 DEF q
<1>6. Shown(s, one \o p) = Shown(s, one) \o Shown(s, p)
  BY <1>2, ShownJoins
<1>7. QED  BY <1>5, <1>6 DEF one

LEMMA ShownNothing ==
  ASSUME NEW s
  PROVE  Shown(s, <<>>) = <<>>
<1> DEFINE e == <<>>
           q == Shown(s, e)
<1>1. e \in Seq({}) /\ DOMAIN e = {}
  OBVIOUS
<1>2. q \in Seq({})
  <2> HIDE DEF e
  <2>1. QED  BY <1>1, ShownFacts
<1> HIDE DEF q
<1>3. q = <<>>
  BY <1>2
<1>4. QED  BY <1>3 DEF q

\* What shows of joined texts is what shows of each, joined.
Shows(G, T, n, s) ==
  /\ \A k \in 1 .. n : T[k] \in Seq(Line)
  /\ G[1] = Shown(s, T[1])
  /\ \A i \in 1 .. n - 1 : G[i + 1] = G[i] \o Shown(s, T[i + 1])

LEMMA FlattenShows ==
  ASSUME NEW n \in Nat \ {0}, NEW T, DOMAIN T = 1 .. n, Len(T) = n,
         NEW s, NEW G, Shows(G, T, n, s)
  PROVE  Shown(s, FlattenSeq(T)) = G[n]
<1>0. PICK f : Flattening(f, T, n)
  BY FlattenUnfolds
<1>1. /\ FlattenSeq(T) = f[n] /\ f[1] = T[1]
      /\ \A i \in 1 .. n - 1 : f[i + 1] = f[i] \o T[i + 1]
  BY <1>0 DEF Flattening
<1>2. /\ \A k \in 1 .. n : T[k] \in Seq(Line)
      /\ G[1] = Shown(s, T[1])
      /\ \A i \in 1 .. n - 1 : G[i + 1] = G[i] \o Shown(s, T[i + 1])
  BY DEF Shows
<1> DEFINE S == {i \in 1 .. n : f[i] \in Seq(Line) /\ Shown(s, f[i]) = G[i]}
<1>3. 1 \in S
  <2>1. 1 \in 1 .. n
    OBVIOUS
  <2>2. QED  BY <1>1, <1>2, <2>1
<1>4. ASSUME NEW i \in 1 .. n - 1, i \in S  PROVE i + 1 \in S
  <2> DEFINE a == f[i]
             b == T[i + 1]
  <2>1. i + 1 \in 1 .. n /\ a \in Seq(Line) /\ b \in Seq(Line) /\ Shown(s, a) = G[i]
    BY <1>4, <1>2
  <2>2. f[i + 1] = a \o b /\ G[i + 1] = G[i] \o Shown(s, b)
    BY <1>1, <1>2
  <2> HIDE DEF a, b
  <2>3. a \o b \in Seq(Line)
    BY <2>1
  <2>4. Shown(s, a \o b) = Shown(s, a) \o Shown(s, b)
    <3>1. a \in Seq(Line) /\ b \in Seq(Line)
      BY <2>1
    <3>2. QED  BY <3>1, ShownJoins
  <2>5. QED  BY <2>1, <2>2, <2>3, <2>4
<1> HIDE DEF S
<1>5. \A i \in 1 .. n : i \in S
  BY <1>3, <1>4, UpTo
<1>6. n \in S
  BY <1>5
<1>7. QED  BY <1>1, <1>6 DEF S

\* A text under a heading, read back, with and without it.
Under(h, lines) == <<h>> \o lines

LEMMA HeadedReadBack ==
  ASSUME NEW h \in Line, h.item = -1, NEW R \in Seq(Line), NEW s,
         NEW q, q = ReadBack(s, <<h>> \o R)
  PROVE  /\ q \in Seq(Line) /\ q # <<>> /\ Shown(s, q) = Under(h, Shown(s, R))
         /\ Body(q) \in Seq(Line) /\ Shown(s, Body(q)) = Shown(s, R)
<1> DEFINE p == <<h>> \o R
           b == Tail(q)
<1>1. p \in Seq(Line) /\ p # <<>> /\ Len(p) = Len(R) + 1 /\ Len(R) \in Nat /\ p[1] = h
  <2>1. Len(R) \in Nat
    OBVIOUS
  <2>2. 1 \in 1 .. Len(R) + 1
    BY <2>1
  <2>3. p \in Seq(Line) /\ p # <<>> /\ Len(p) = Len(R) + 1
    BY Prefixed
  <2>4. p[1] = h
    BY <2>2, Prefixed
  <2>5. QED  BY <2>1, <2>3, <2>4
<1>2. Shown(s, p) = <<h>> \o Shown(s, R)
  BY ShownHeading
<1>3. q = ReadBack(s, p)
  OBVIOUS
<1> HIDE DEF p
<1>4. CutShort(s, q, p)
  BY <1>1, <1>3, ReadBackCuts
<1>5. q \in Seq(Line) /\ q # <<>> /\ q[1] = h
  BY <1>1, <1>4, CutShortFacts
<1>6. Shown(s, q) = <<h>> \o Shown(s, R)
  BY <1>1, <1>2, <1>4, ShownCut
<1>7. Body(q) = b /\ b \in Seq(Line)
  <2>1. b \in Seq(Line)
    BY <1>5
  <2>2. QED  BY <1>5, <2>1 DEF Body
<1>8. q = <<h>> \o b
  <2>1. Len(q) \in Nat \ {0} /\ Len(b) = Len(q) - 1 /\ \A j \in 1 .. Len(q) - 1 : b[j] = q[j + 1]
    <3>1. Len(q) \in Nat
      BY <1>5
    <3>2. Len(q) # 0
      BY <1>5
    <3>3. QED  BY <1>5, <3>1, <3>2
  <2> DEFINE z == <<h>> \o b
  <2> HIDE DEF b
  <2>2. /\ z \in Seq(Line) /\ Len(z) = Len(b) + 1
        /\ \A j \in 1 .. Len(b) + 1 : z[j] = IF j = 1 THEN h ELSE b[j - 1]
    BY <1>7, Prefixed
  <2> HIDE DEF z
  <2>3. ASSUME NEW j \in 1 .. Len(q)  PROVE z[j] = q[j]
    <3>1. CASE j = 1
      BY <1>5, <2>1, <2>2, <3>1
    <3>2. CASE j # 1
      <4>1. j - 1 \in 1 .. Len(q) - 1 /\ (j - 1) + 1 = j
        BY <2>1, <3>2
      <4>2. b[j - 1] = q[j] /\ z[j] = b[j - 1]
        BY <2>1, <2>2, <3>2, <4>1
      <4>3. QED  BY <4>2
    <3>3. QED  BY <3>1, <3>2
  <2>4. z = q
    BY <1>5, <2>1, <2>2, <2>3, SameLines
  <2>5. QED  BY <2>4 DEF z
<1> HIDE DEF b
<1>9. Shown(s, q) = <<h>> \o Shown(s, b)
  <2>1. b \in Seq(Line)
    BY <1>7
  <2>2. Shown(s, <<h>> \o b) = <<h>> \o Shown(s, b)
    BY <2>1, ShownHeading
  <2>3. QED  BY <1>8, <2>2
<1>10. Shown(s, b) \in Seq(Line) /\ Shown(s, R) \in Seq(Line)
  BY <1>7, ShownFacts
<1>11. Tail(<<h>> \o Shown(s, b)) = Shown(s, b) /\ Tail(<<h>> \o Shown(s, R)) = Shown(s, R)
  BY <1>10, Prefixed
<1>12. Shown(s, b) = Shown(s, R)
  BY <1>6, <1>9, <1>11
<1>13. Shown(s, q) = Under(h, Shown(s, R))
  BY <1>6 DEF Under
<1>14. QED  BY <1>5, <1>7, <1>12, <1>13

\* What is read of the texts of chunks of one version under the heading h; only
\* an xlsx sheet is left out when it has no rows.
TextsOf(texts, cs, n, t, h, s) ==
  /\ DOMAIN texts = 1 .. n /\ Len(texts) = n
  /\ \A k \in 1 .. n : texts[k] = IF Rows(cs[k], t) = <<>> /\ format = "xlsx" THEN <<>>
                                   ELSE ReadBack(s, <<h>> \o Rows(cs[k], t))

LEMMA JoinIs ==
  ASSUME NEW n \in Nat \ {0}, NEW cs, Cut(cs, n), NEW t \in Template,
         NEW h \in Line, h.item = -1, NEW s, NEW texts, TextsOf(texts, cs, n, t, h, s)
  PROVE  Shown(s, Join(texts)) =
           IF Rows(Whole, t) = <<>> /\ format = "xlsx" THEN <<>>
           ELSE <<h>> \o Shown(s, Rows(Whole, t))
<1> DEFINE P == [k \in 1 .. n |-> IF \A j \in 1 .. k - 1 : texts[j] = <<>>
                                  THEN texts[k] ELSE Body(texts[k])]
           R(k) == Rows(cs[k], t)
           U(k) == Rows(Upto(cs[k]), t)
           W(k) == IF U(k) = <<>> /\ format = "xlsx" THEN <<>> ELSE <<h>> \o Shown(s, U(k))
           G == [k \in 1 .. n |-> W(k)]
<1>1. Join(texts) = FlattenSeq(P) /\ DOMAIN P = 1 .. n /\ Len(P) = n
  BY DEF Join, TextsOf
<1>2. /\ U(1) = R(1) /\ U(n) = Rows(Whole, t)
      /\ \A k \in 1 .. n - 1 : U(k + 1) = U(k) \o R(k + 1)
      /\ \A k \in 1 .. n : U(k) \in Seq(Line) /\ R(k) \in Seq(Line)
  BY RowsUpto
<1>3. \A k \in 1 .. n : texts[k] = IF R(k) = <<>> /\ format = "xlsx" THEN <<>>
                                    ELSE ReadBack(s, <<h>> \o R(k))
  BY DEF TextsOf
<1>4. \A k \in 1 .. n : P[k] = IF \A j \in 1 .. k - 1 : texts[j] = <<>>
                               THEN texts[k] ELSE Body(texts[k])
  OBVIOUS
<1> HIDE DEF P, R, U
<1>5. ASSUME NEW k \in 1 .. n
      PROVE  /\ Shown(s, U(k)) \in Seq(Line) /\ Shown(s, R(k)) \in Seq(Line)
             /\ W(k) = <<>> <=> U(k) = <<>> /\ format = "xlsx"
  <2>1. U(k) \in Seq(Line) /\ R(k) \in Seq(Line)
    BY <1>2
  <2>2. Shown(s, U(k)) \in Seq(Line) /\ Shown(s, R(k)) \in Seq(Line)
    BY <2>1, ShownFacts
  <2>3. <<h>> \o Shown(s, U(k)) # <<>>
    BY <2>2, Prefixed
  <2>4. QED  BY <2>2, <2>3
<1>6. ASSUME NEW k \in 1 .. n
      PROVE  /\ texts[k] = <<>> <=> R(k) = <<>> /\ format = "xlsx"
             /\ texts[k] \in Seq(Line) /\ Body(texts[k]) \in Seq(Line)
             /\ Shown(s, texts[k]) = IF texts[k] = <<>> THEN <<>> ELSE <<h>> \o Shown(s, R(k))
             /\ Shown(s, Body(texts[k])) = Shown(s, R(k))
  <2>1. R(k) \in Seq(Line)
    BY <1>2
  <2>2. CASE R(k) = <<>> /\ format = "xlsx"
    <3>1. texts[k] = <<>> /\ Body(texts[k]) = <<>> /\ <<>> \in Seq(Line)
      BY <1>3, <2>2 DEF Body
    <3>2. Shown(s, <<>>) = <<>>
      BY ShownNothing
    <3>3. QED  BY <2>2, <3>1, <3>2
  <2>3. CASE ~(R(k) = <<>> /\ format = "xlsx")
    <3> DEFINE q == texts[k]
    <3>1. q = ReadBack(s, <<h>> \o R(k))
      BY <1>3, <2>3
    <3> HIDE DEF q
    <3> DEFINE x == R(k)
    <3>2. x \in Seq(Line) /\ q = ReadBack(s, <<h>> \o x)
      BY <2>1, <3>1
    <3> HIDE DEF x
    <3>3. /\ q \in Seq(Line) /\ q # <<>> /\ Shown(s, q) = <<h>> \o Shown(s, x)
          /\ Body(q) \in Seq(Line) /\ Shown(s, Body(q)) = Shown(s, x)
      <4>1. x \in Seq(Line)
        BY <3>2
      <4>2. q = ReadBack(s, <<h>> \o x)
        BY <3>2
      <4>3. h \in Line /\ h.item = -1
        OBVIOUS
      <4>4. q \in Seq(Line) /\ q # <<>>
        BY <4>1, <4>2, <4>3, HeadedReadBack
      <4>5. Shown(s, q) = Under(h, Shown(s, x))
        BY <4>1, <4>2, <4>3, HeadedReadBack
      <4>6. Body(q) \in Seq(Line) /\ Shown(s, Body(q)) = Shown(s, x)
        BY <4>1, <4>2, <4>3, HeadedReadBack
      <4>7. QED  BY <4>4, <4>5, <4>6 DEF Under
    <3>4. QED  BY <2>3, <3>3 DEF q, x
  <2>4. QED  BY <2>2, <2>3
<1>7. ASSUME NEW k \in 1 .. n  PROVE W(k) = <<>> <=> \A j \in 1 .. k : texts[j] = <<>>
  <2> DEFINE S == {i \in 1 .. n : W(i) = <<>> <=> \A j \in 1 .. i : texts[j] = <<>>}
  <2>1. 1 \in S
    <3>1. 1 \in 1 .. n /\ 1 .. 1 = {1}
      OBVIOUS
    <3>2. W(1) = <<>> <=> texts[1] = <<>>
      BY <1>2, <1>5, <1>6, <3>1
    <3> HIDE DEF W
    <3>3. QED  BY <3>1, <3>2
  <2>2. ASSUME NEW i \in 1 .. n - 1, i \in S  PROVE i + 1 \in S
    <3>1. i \in 1 .. n /\ i + 1 \in 1 .. n /\ 1 .. i + 1 = (1 .. i) \union {i + 1}
      OBVIOUS
    <3>2. U(i + 1) = <<>> <=> U(i) = <<>> /\ R(i + 1) = <<>>
      BY <1>2, <3>1
    <3>3. W(i + 1) = <<>> <=> W(i) = <<>> /\ texts[i + 1] = <<>>
      BY <1>5, <1>6, <3>1, <3>2
    <3> HIDE DEF W
    <3>4. QED  BY <2>2, <3>1, <3>3
  <2> HIDE DEF S
  <2>3. \A i \in 1 .. n : i \in S
    BY <2>1, <2>2, UpTo
  <2>4. QED  BY <2>3 DEF S
<1>8. G[1] = Shown(s, P[1])
  <2>1. 1 \in 1 .. n /\ P[1] = texts[1] /\ G[1] = W(1)
    BY <1>4
  <2>2. Shown(s, texts[1]) = IF R(1) = <<>> /\ format = "xlsx" THEN <<>> ELSE <<h>> \o Shown(s, R(1))
    BY <1>6, <2>1
  <2>3. QED  BY <1>2, <2>1, <2>2
<1>9. ASSUME NEW k \in 1 .. n - 1  PROVE G[k + 1] = G[k] \o Shown(s, P[k + 1])
  <2>1. k \in 1 .. n /\ k + 1 \in 1 .. n /\ (k + 1) - 1 = k
    OBVIOUS
  <2>2. G[k] = W(k) /\ G[k + 1] = W(k + 1)
    BY <2>1
  <2> DEFINE a == Shown(s, U(k))
             b == Shown(s, R(k + 1))
  <2>3. U(k) \in Seq(Line) /\ R(k + 1) \in Seq(Line) /\ U(k + 1) = U(k) \o R(k + 1)
    BY <1>2, <2>1
  <2>4. a \in Seq(Line) /\ b \in Seq(Line) /\ Shown(s, U(k + 1)) = a \o b
    <3>1. a \in Seq(Line) /\ b \in Seq(Line)
      BY <1>5, <2>1
    <3> DEFINE x == U(k)
               y == R(k + 1)
    <3>2. x \in Seq(Line) /\ y \in Seq(Line) /\ U(k + 1) = x \o y
      BY <2>3
    <3>3. a = Shown(s, x) /\ b = Shown(s, y)
      OBVIOUS
    <3> HIDE DEF x, y, a, b
    <3>4. Shown(s, x \o y) = Shown(s, x) \o Shown(s, y)
      <4>1. x \in Seq(Line) /\ y \in Seq(Line)
        BY <3>2
      <4>2. QED  BY <4>1, ShownJoins
    <3>5. QED  BY <3>1, <3>2, <3>3, <3>4
  <2>5. CASE W(k) = <<>>
    <3>1. P[k + 1] = texts[k + 1]
      BY <1>4, <1>7, <2>1, <2>5
    <3>2. U(k) = <<>> /\ format = "xlsx"
      BY <1>5, <2>1, <2>5
    <3>3. U(k + 1) = R(k + 1)
      BY <2>3, <3>2
    <3>4. W(k + 1) = Shown(s, texts[k + 1])
      <4>1. texts[k + 1] = <<>> <=> R(k + 1) = <<>> /\ format = "xlsx"
        BY <1>6, <2>1
      <4>2. Shown(s, texts[k + 1]) =
              IF texts[k + 1] = <<>> THEN <<>> ELSE <<h>> \o Shown(s, R(k + 1))
        BY <1>6, <2>1
      <4>3. QED  BY <3>3, <4>1, <4>2
    <3>5. Shown(s, texts[k + 1]) \in Seq(Line)
      <4>1. texts[k + 1] \in Seq(Line)
        BY <1>6, <2>1
      <4>2. QED  BY <4>1, ShownFacts
    <3>6. <<>> \o Shown(s, texts[k + 1]) = Shown(s, texts[k + 1])
      BY <3>5
    <3> HIDE DEF W, G
    <3>7. QED  BY <2>2, <2>5, <3>1, <3>4, <3>6
  <2>6. CASE W(k) # <<>>
    <3>1. P[k + 1] = Body(texts[k + 1])
      BY <1>4, <1>7, <2>1, <2>6
    <3>2. Shown(s, P[k + 1]) = b
      BY <1>6, <2>1, <3>1
    <3>3. W(k) = <<h>> \o a /\ (U(k) # <<>> \/ format # "xlsx")
      BY <2>6
    <3>4. U(k + 1) # <<>> \/ format # "xlsx"
      BY <2>3, <3>3
    <3>5. W(k + 1) = <<h>> \o (a \o b)
      BY <2>4, <3>4
    <3> HIDE DEF a, b, W, G
    <3>6. <<h>> \o (a \o b) = (<<h>> \o a) \o b
      BY <2>4
    <3>7. QED  BY <2>2, <3>2, <3>3, <3>5, <3>6
  <2>7. QED  BY <2>5, <2>6
<1>10. G[n] = W(n)
  OBVIOUS
<1> HIDE DEF G
<1>11. \A k \in 1 .. n : P[k] \in Seq(Line)
  BY <1>4, <1>6
<1>12. Shown(s, FlattenSeq(P)) = G[n]
  <2>1. DOMAIN P = 1 .. n /\ Len(P) = n
    BY <1>1
  <2>2. G[1] = Shown(s, P[1]) /\ \A k \in 1 .. n - 1 : G[k + 1] = G[k] \o Shown(s, P[k + 1])
    BY <1>8, <1>9
  <2>3. Shows(G, P, n, s)
    BY <1>11, <2>2 DEF Shows
  <2>4. QED  BY <2>1, <2>3, FlattenShows
<1>13. QED  BY <1>1, <1>2, <1>10, <1>12

LEMMA JoinOfNothing ==
  ASSUME NEW n \in Nat \ {0}, NEW texts, DOMAIN texts = 1 .. n, Len(texts) = n,
         \A k \in 1 .. n : texts[k] = <<>>
  PROVE  Join(texts) = <<>>
<1> DEFINE P == [k \in 1 .. n |-> IF \A j \in 1 .. k - 1 : texts[j] = <<>>
                                  THEN texts[k] ELSE Body(texts[k])]
           G == [k \in 1 .. n |-> <<>>]
<1>1. Join(texts) = FlattenSeq(P) /\ DOMAIN P = 1 .. n /\ Len(P) = n
  BY DEF Join
<1>2. \A k \in 1 .. n : P[k] = <<>>
  BY DEF Body
<1> HIDE DEF P
<1>3. G[1] = P[1] /\ G[n] = <<>> /\ \A k \in 1 .. n - 1 : G[k + 1] = G[k] \o P[k + 1]
  <2>1. 1 \in 1 .. n /\ n \in 1 .. n /\ \A k \in 1 .. n - 1 : k \in 1 .. n /\ k + 1 \in 1 .. n
    OBVIOUS
  <2>2. <<>> \o <<>> = <<>>
    OBVIOUS
  <2>3. QED  BY <1>2, <2>1, <2>2
<1> HIDE DEF G
<1>4. FlattenSeq(P) = G[n]
  BY <1>1, <1>3, FlattenIs
<1>5. QED  BY <1>1, <1>3, <1>4

\* The content of a file made at once of all rows.
OneFile(t) ==
  IF format # "xlsx" THEN {<<"text", <<Heading(t["metadata"])>> \o Shown("text", Rows(Whole, t))>>}
  ELSE IF Rows(Whole, t) = <<>> THEN {}
  ELSE {<<s, <<Heading(t["mappings"])>> \o Shown(s, Rows(Whole, t))>> : s \in Sheets[t["mappings"]]}

LEMMA ContentOfText ==
  ASSUME NEW p, p # <<>>
  PROVE  Content([s \in {"text"} |-> p]) = {<<"text", Shown("text", p)>>}
<1> DEFINE F == [s \in {"text"} |-> p]
<1>1. {t \in DOMAIN F : F[t] # <<>>} = {"text"} /\ F["text"] = p
  OBVIOUS
<1> HIDE DEF F
<1>2. QED  BY <1>1 DEF Content, F

\* However the source is cut, and also when it is not, the merge of chunks of
\* one version has that content.
LEMMA MergedContent ==
  ASSUME NEW n \in Nat \ {0}, NEW cs, Cut(cs, n), NEW t \in Template, format \in Formats,
         Len(source) \in Nat \ {0},
         NEW F, F = Merged(Files(cs, [k \in 1 .. n |-> t], n), t["metadata"])
  PROVE  Content(F) = OneFile(t)
<1> DEFINE R(k) == Rows(cs[k], t)
           All == Rows(Whole, t)
           files == [k \in 1 .. n |-> File(cs[k], t)]
           texts(s) == [k \in 1 .. n |->
                         IF s \in DOMAIN files[k] THEN ReadBack(s, files[k][s]) ELSE <<>>]
           inner == [k \in 1 .. n |-> Unwrap(files[k]["text"], t["metadata"])]
           hm == Heading(t["metadata"])
           hx == Heading(t["mappings"])
<1>1. /\ Files(cs, [k \in 1 .. n |-> t], n) = files
      /\ DOMAIN files = 1 .. n /\ Len(files) = n /\ \A k \in 1 .. n : files[k] = File(cs[k], t)
      /\ 1 \in 1 .. n /\ n \in 1 .. n
  BY DEF Files
<1>2. F = Merged(files, t["metadata"])
  BY <1>1
<1>3. /\ hm \in Line /\ hx \in Line /\ hm.item = -1 /\ hx.item = -1
      /\ All \in Seq(Line)
      /\ \A k \in 1 .. n : R(k) \in Seq(Line)
  <2>1. t["metadata"] \in Versions /\ t["mappings"] \in Versions
    BY DEF Template, Parts
  <2>2. All \in Seq(Line)
    <3>1. Whole.start \in Nat /\ Whole.end \in Nat
      BY DEF Whole
    <3>2. QED  BY <3>1, RowsFacts
  <2>3. QED  BY <2>1, <2>2, HeadingIsLine, RowsUpto
<1>4. CASE format = "csv"
  <2> DEFINE tx == texts("text")
             whole == Join(tx)
  <2>1. \A k \in 1 .. n : files[k] = [s \in {"text"} |-> <<hm>> \o R(k)]
    BY <1>1, <1>4 DEF File
  <2>2. F = [s \in UNION {DOMAIN files[k] : k \in 1 .. n} |-> Join(texts(s))]
    BY <1>1, <1>2, <1>4 DEF Merged
  <2>3. UNION {DOMAIN files[k] : k \in 1 .. n} = {"text"}
    BY <1>1, <2>1
  <2>4. DOMAIN tx = 1 .. n /\ Len(tx) = n
    OBVIOUS
  <2>5. \A k \in 1 .. n : tx[k] = ReadBack("text", <<hm>> \o R(k))
    BY <2>1
  <2> HIDE DEF files, hm
  <2>6. F = [s \in {"text"} |-> whole]
    BY <2>2, <2>3
  <2> HIDE DEF tx
  <2>7. Shown("text", whole) = <<hm>> \o Shown("text", All)
    <3>1. TextsOf(tx, cs, n, t, hm, "text")
      BY <1>4, <2>4, <2>5 DEF TextsOf
    <3>2. Shown("text", Join(tx)) = IF Rows(Whole, t) = <<>> /\ format = "xlsx" THEN <<>>
                                    ELSE <<hm>> \o Shown("text", Rows(Whole, t))
      BY <1>3, <3>1, JoinIs
    <3>3. QED  BY <1>4, <3>2
  <2>8. whole # <<>>
    <3>1. Shown("text", All) \in Seq(Line)
      BY <1>3, ShownFacts
    <3>2. <<hm>> \o Shown("text", All) # <<>>
      BY <1>3, <3>1, Prefixed
    <3>3. Shown("text", <<>>) = <<>>
      BY ShownNothing
    <3> HIDE DEF whole
    <3>4. QED  BY <2>7, <3>2, <3>3
  <2> HIDE DEF whole
  <2>9. Content(F) = {<<"text", Shown("text", whole)>>}
    BY <2>6, <2>8, ContentOfText
  <2>10. QED  BY <1>4, <2>7, <2>9 DEF OneFile, hm
<1>5. CASE format \notin {"csv", "xlsx"}
  <2>1. \A k \in 1 .. n : files[k]["text"] = <<hm>> \o R(k)
    BY <1>1, <1>5 DEF File
  <2>2. F = [s \in {"text"} |-> <<hm>> \o FlattenSeq(inner)]
    BY <1>1, <1>2, <1>5 DEF Merged
  <2>3. \A k \in 1 .. n : inner[k] = R(k)
    <3>1. SUFFICES ASSUME NEW k \in 1 .. n  PROVE inner[k] = R(k)
      OBVIOUS
    <3>2. inner[k] = Unwrap(<<hm>> \o R(k), t["metadata"])
      BY <2>1
    <3>3. Head(<<hm>> \o R(k)) = hm /\ Tail(<<hm>> \o R(k)) = R(k)
      BY <1>3, Prefixed
    <3> HIDE DEF R, inner
    <3>4. QED  BY <3>2, <3>3 DEF Unwrap
  <2>4. DOMAIN inner = 1 .. n /\ Len(inner) = n
    OBVIOUS
  <2> HIDE DEF inner, files, hm
  <2>5. FlattenSeq(inner) = All
    <3> DEFINE G == [k \in 1 .. n |-> Rows(Upto(cs[k]), t)]
    <3>1. /\ G[1] = inner[1] /\ G[n] = All
          /\ \A k \in 1 .. n - 1 : G[k + 1] = G[k] \o inner[k + 1]
      <4>1. /\ G[1] = Rows(Upto(cs[1]), t) /\ G[n] = Rows(Upto(cs[n]), t)
            /\ \A k \in 1 .. n - 1 : /\ k + 1 \in 1 .. n /\ G[k + 1] = Rows(Upto(cs[k + 1]), t)
                                     /\ G[k] = Rows(Upto(cs[k]), t)
        BY <1>1
      <4> HIDE DEF G
      <4>2. /\ Rows(Upto(cs[1]), t) = R(1) /\ Rows(Upto(cs[n]), t) = All
            /\ \A k \in 1 .. n - 1 : Rows(Upto(cs[k + 1]), t) = Rows(Upto(cs[k]), t) \o R(k + 1)
        BY RowsUpto
      <4> HIDE DEF R, All
      <4>3. QED  BY <1>1, <2>3, <4>1, <4>2
    <3> HIDE DEF G
    <3>2. QED  BY <2>4, <3>1, FlattenIs
  <2> DEFINE whole == <<hm>> \o All
  <2>6. F = [s \in {"text"} |-> whole]
    BY <2>2, <2>5
  <2>7. whole # <<>>
    BY <1>3, Prefixed
  <2>8. Shown("text", whole) = <<hm>> \o Shown("text", All)
    BY <1>3, ShownHeading
  <2>9. Content(F) = {<<"text", Shown("text", whole)>>}
    <3> HIDE DEF whole
    <3>1. QED  BY <2>6, <2>7, ContentOfText
  <2>10. QED  BY <1>5, <2>8, <2>9 DEF OneFile, hm
<1>6. CASE format = "xlsx"
  <2> DEFINE X == Sheets[t["mappings"]]
             whole(s) == <<hx>> \o Shown(s, All)
  <2>1. \A k \in 1 .. n : files[k] = IF R(k) = <<>> THEN [s \in {"Export"} |-> <<>>]
                                   ELSE IF X = {} THEN [s \in {"Sheet"} |-> <<>>]
                                   ELSE [s \in X |-> <<hx>> \o R(k)]
    BY <1>1, <1>6 DEF File
  <2>2. F = [s \in UNION {DOMAIN files[k] : k \in 1 .. n} |-> Join(texts(s))]
    BY <1>1, <1>2, <1>6 DEF Merged
  <2>3. All = <<>> <=> \A k \in 1 .. n : R(k) = <<>>
    <3>1. Whole.start \in Nat /\ Whole.end \in Nat
      BY DEF Whole
    <3>2. All = <<>> <=> Converted(Whole, t) = {}
      BY <3>1, RowsFacts
    <3>3. \A k \in 1 .. n : R(k) = <<>> <=> Converted(cs[k], t) = {}
      BY RowsFacts DEF Cut
    <3>4. Converted(Whole, t) = UNION {Converted(cs[k], t) : k \in 1 .. n}
      BY CutFacts
    <3>5. Converted(Whole, t) = {} <=> \A k \in 1 .. n : Converted(cs[k], t) = {}
      <4> DEFINE K(k) == Converted(cs[k], t)
      <4>1. Converted(Whole, t) = UNION {K(k) : k \in 1 .. n}
        BY <3>4
      <4> HIDE DEF K
      <4>2. UNION {K(k) : k \in 1 .. n} = {} <=> \A k \in 1 .. n : K(k) = {}
        OBVIOUS
      <4>3. QED  BY <4>1, <4>2 DEF K
    <3> HIDE DEF R, All
    <3>6. QED  BY <3>2, <3>3, <3>5
  <2>4. ASSUME NEW s, NEW k \in 1 .. n
        PROVE  texts(s)[k] = IF s \in X /\ R(k) # <<>> THEN ReadBack(s, <<hx>> \o R(k)) ELSE <<>>
    <3>1. texts(s)[k] = IF s \in DOMAIN files[k] THEN ReadBack(s, files[k][s]) ELSE <<>>
      OBVIOUS
    <3>2. ReadBack(s, <<>>) = <<>>
      <4> DEFINE e == <<>>
                 q == ReadBack(s, e)
      <4>1. e \in Seq(Line)
        OBVIOUS
      <4>2. CutShort(s, q, e)
        BY <4>1, ReadBackCuts
      <4> HIDE DEF e, q
      <4>3. q \in Seq(Line) /\ Len(q) <= Len(e) /\ Len(q) \in Nat
        BY <4>1, <4>2, CutShortFacts
      <4> USE DEF e
      <4>4. Len(q) = 0
        BY <4>3
      <4>5. q = <<>>
        BY <4>3, <4>4
      <4>6. QED  BY <4>5 DEF q
    <3> HIDE DEF texts, files, R, X
    <3>3. CASE R(k) = <<>>
      BY <2>1, <3>1, <3>2, <3>3
    <3>4. CASE R(k) # <<>> /\ X = {}
      BY <2>1, <3>1, <3>2, <3>4
    <3>5. CASE R(k) # <<>> /\ X # {}
      BY <2>1, <3>1, <3>5
    <3>6. QED  BY <3>3, <3>4, <3>5
  <2>5. ASSUME NEW s, s \in X, All # <<>>
        PROVE  Shown(s, Join(texts(s))) = whole(s)
    <3> DEFINE tx == texts(s)
    <3>1. DOMAIN tx = 1 .. n /\ Len(tx) = n
      OBVIOUS
    <3>2. \A k \in 1 .. n : tx[k] = IF s \in X /\ R(k) # <<>> THEN ReadBack(s, <<hx>> \o R(k)) ELSE <<>>
      BY <2>4
    <3> HIDE DEF tx
    <3>3. TextsOf(tx, cs, n, t, hx, s)
      BY <1>6, <2>5, <3>1, <3>2 DEF TextsOf
    <3> HIDE DEF hx
    <3>4. Shown(s, Join(tx)) = IF Rows(Whole, t) = <<>> /\ format = "xlsx" THEN <<>>
                               ELSE <<hx>> \o Shown(s, Rows(Whole, t))
      BY <1>3, <3>3, JoinIs
    <3>5. QED  BY <1>6, <2>5, <3>4 DEF tx, hx
  <2>6. ASSUME NEW s, s \notin X \/ All = <<>>
        PROVE  Join(texts(s)) = <<>>
    <3> DEFINE tx == texts(s)
    <3>1. DOMAIN tx = 1 .. n /\ Len(tx) = n
      OBVIOUS
    <3>2. \A k \in 1 .. n : tx[k] = IF s \in X /\ R(k) # <<>> THEN ReadBack(s, <<hx>> \o R(k)) ELSE <<>>
      BY <2>4
    <3> HIDE DEF tx
    <3>3. \A k \in 1 .. n : tx[k] = <<>>
      BY <2>3, <2>6, <3>2
    <3>4. Join(tx) = <<>>
      BY <3>1, <3>3, JoinOfNothing
    <3>5. QED  BY <3>4 DEF tx
  <2>7. All # <<>> => X \subseteq UNION {DOMAIN files[k] : k \in 1 .. n}
    <3>1. SUFFICES ASSUME All # <<>>  PROVE \E k \in 1 .. n : X \subseteq DOMAIN files[k]
      OBVIOUS
    <3>2. PICK k \in 1 .. n : R(k) # <<>>
      BY <2>3, <3>1
    <3>3. X = {} \/ DOMAIN files[k] = X
      BY <2>1, <3>2
    <3>4. QED  BY <3>3
  <2>8. ASSUME NEW s  PROVE whole(s) # <<>> /\ Shown(s, <<>>) = <<>>
    <3>1. Shown(s, All) \in Seq(Line)
      BY <1>3, ShownFacts
    <3>2. <<hx>> \o Shown(s, All) # <<>>
      BY <1>3, <3>1, Prefixed
    <3>3. QED  BY <3>2, ShownNothing
  <2> DEFINE D == UNION {DOMAIN files[k] : k \in 1 .. n}
  <2> HIDE DEF D, texts, X, whole, All
  <2>9. DOMAIN F = D /\ \A s \in D : F[s] = Join(texts(s))
    BY <2>2 DEF D
  <2>10. ASSUME NEW s \in DOMAIN F
         PROVE  F[s] # <<>> <=> s \in X /\ All # <<>>
    <3>1. F[s] = Join(texts(s))
      BY <2>9
    <3>2. CASE s \in X /\ All # <<>>
      <4>1. Shown(s, F[s]) = whole(s)
        BY <2>5, <3>1, <3>2
      <4>2. QED  BY <2>8, <3>2, <4>1
    <3>3. CASE ~(s \in X /\ All # <<>>)
      BY <2>6, <3>1, <3>3
    <3>4. QED  BY <3>2, <3>3
  <2>11. {s \in DOMAIN F : F[s] # <<>>} = IF All # <<>> THEN X ELSE {}
    BY <2>7, <2>9, <2>10 DEF D
  <2>12. Content(F) = IF All # <<>> THEN {<<s, whole(s)>> : s \in X} ELSE {}
    <3>1. CASE All = <<>>
      BY <2>11, <3>1 DEF Content
    <3>2. CASE All # <<>>
      <4>1. Content(F) = {<<s, Shown(s, F[s])>> : s \in X}
        BY <2>11, <3>2 DEF Content
      <4>2. \A s \in X : F[s] = Join(texts(s))
        BY <2>7, <2>9, <3>2 DEF D
      <4>3. \A s \in X : Shown(s, F[s]) = whole(s)
        BY <2>5, <3>2, <4>2
      <4>4. QED  BY <3>2, <4>1, <4>3
    <3>3. QED  BY <3>1, <3>2
  <2>13. QED  BY <1>6, <2>12 DEF OneFile, whole, All, X, hx
<1>7. QED  BY <1>4, <1>5, <1>6
=============================================================================
