------------------------ MODULE FeedPipeline_proofs ------------------------
(***************************************************************************)
(* Proofs about FeedPipeline and PackSplit, for any runs, algorithms and   *)
(* digests: the pieces of a pack fit, `cat` puts them together again, and  *)
(* what stays of other runs in latest-feed does no harm.                   *)
(***************************************************************************)
EXTENDS FeedPipeline, SequenceTheorems, FiniteSetTheorems, TLAPS

-----------------------------------------------------------------------------
(* Numbers in order. *)

LEMMA Least ==
    ASSUME NEW T \in SUBSET Nat, T # {}
    PROVE \E x \in T : \A y \in T : x <= y
<1> DEFINE R == OpToRel(<, Nat)
<1>1. \A x, y \in Nat : <<x, y>> \in R <=> x < y BY DEF OpToRel
<1>2. IsWellFoundedOn(R, Nat) BY NatLessThanWellFounded
<1> HIDE DEF R
<1>3. \E x \in T : \A y \in T : <<y, x>> \notin R BY <1>2, WFMin, Zenon
<1>4. PICK x \in T : \A y \in T : <<y, x>> \notin R BY <1>3
<1>5. ASSUME NEW y \in T PROVE x <= y
  <2>1. x \in Nat /\ y \in Nat OBVIOUS
  <2>2. <<y, x>> \notin R BY <1>4
  <2>3. ~(y < x) BY <2>1, <2>2, <1>1
  <2>4. QED BY <2>1, <2>3
<1>6. QED BY <1>5

LEMMA MinIsLeast ==
    ASSUME NEW T \in SUBSET Nat, T # {}
    PROVE Min(T) \in T /\ \A y \in T : Min(T) <= y
  BY Least DEF Min

LEMMA MaxWithOne ==
    ASSUME NEW x \in Int
    PROVE Max({1, x}) = IF x >= 1 THEN x ELSE 1
<1>1. CASE x >= 1
  <2>1. \A z \in {1, x} : x >= z BY <1>1
  <2>2. \A z \in {1, x} : (\A y \in {1, x} : z >= y) => z = x BY <1>1
  <2>3. QED BY <1>1, <2>1, <2>2 DEF Max
<1>2. CASE ~(x >= 1)
  <2>1. \A z \in {1, x} : 1 >= z BY <1>2
  <2>2. \A z \in {1, x} : (\A y \in {1, x} : z >= y) => z = 1 BY <1>2
  <2>3. QED BY <1>2, <2>1, <2>2 DEF Max
<1>3. QED BY <1>1, <1>2

LEMMA MinOfTwo ==
    ASSUME NEW x \in Int, NEW z \in Int
    PROVE Min({x, z}) = IF x <= z THEN x ELSE z
<1>1. CASE x <= z
  <2>1. \A y \in {x, z} : x <= y BY <1>1
  <2>2. \A w \in {x, z} : (\A y \in {x, z} : w <= y) => w = x BY <1>1
  <2>3. QED BY <1>1, <2>1, <2>2 DEF Min
<1>2. CASE ~(x <= z)
  <2>1. \A y \in {x, z} : z <= y BY <1>2
  <2>2. \A w \in {x, z} : (\A y \in {x, z} : w <= y) => w = z BY <1>2
  <2>3. QED BY <1>2, <2>1, <2>2 DEF Min
<1>3. QED BY <1>1, <1>2

\* The quotient rounded up.
LEMMA CeilBounds ==
    ASSUME NEW a \in Nat, NEW b \in Nat \ {0}
    PROVE /\ Ceil(a, b) \in Nat
          /\ Ceil(a, b) * b >= a
          /\ Ceil(a, b) * b < a + b
  BY Z3T(20) DEF Ceil

\* The members of a set below a number, and the member with a given number of
\* members below it.
Below(D, k) == {j \in D : j < k}
Nth(D, i) == CHOOSE k \in D : Cardinality({j \in D : j < k}) = i - 1

LEMMA BelowCounts ==
    ASSUME NEW D \in SUBSET Nat, IsFiniteSet(D), NEW k \in Nat
    PROVE /\ IsFiniteSet(Below(D, k)) /\ Cardinality(Below(D, k)) \in Nat
          /\ Cardinality(Below(D, k)) <= Cardinality(D)
          /\ k \in D => Cardinality(Below(D, k)) < Cardinality(D)
          /\ \A m \in Nat : k \in D /\ k < m =>
                Cardinality(Below(D, k)) < Cardinality(Below(D, m))
<1>1. \A m \in Nat : /\ IsFiniteSet(Below(D, m)) /\ Cardinality(Below(D, m)) \in Nat
                     /\ Cardinality(Below(D, m)) <= Cardinality(D)
  <2>1. TAKE m \in Nat
  <2>2. Below(D, m) \in SUBSET D BY DEF Below
  <2>3. QED BY <2>2, FS_Subset, FS_CardinalityType
<1>2. Cardinality(D) \in Nat BY FS_CardinalityType
<1>3. ASSUME NEW E \in SUBSET D, Below(D, k) \subseteq E, k \in E
      PROVE Cardinality(Below(D, k)) < Cardinality(E)
  <2>1. IsFiniteSet(E) BY FS_Subset
  <2>2. k \notin Below(D, k) BY DEF Below
  <2>3. Below(D, k) \in SUBSET E BY <1>3
  <2>4. Cardinality(Below(D, k)) <= Cardinality(E)
        /\ (Cardinality(E) = Cardinality(Below(D, k)) => E = Below(D, k))
    BY <2>1, <2>3, FS_Subset
  <2>5. E # Below(D, k) BY <2>2, <1>3
  <2>6. Cardinality(E) \in Nat /\ Cardinality(Below(D, k)) \in Nat
    BY <1>1, <2>1, FS_CardinalityType
  <2>7. QED BY <2>4, <2>5, <2>6
<1>4. k \in D => Cardinality(Below(D, k)) < Cardinality(D)
  BY <1>3 DEF Below
<1>5. ASSUME NEW m \in Nat, k \in D, k < m
      PROVE Cardinality(Below(D, k)) < Cardinality(Below(D, m))
  <2>1. \A j \in Nat : j < k => j < m BY <1>5
  <2>2. Below(D, k) \subseteq Below(D, m) BY <2>1 DEF Below
  <2>3. k \in Below(D, m) /\ Below(D, m) \in SUBSET D BY <1>5 DEF Below
  <2>4. QED BY <2>2, <2>3, <1>3
<1>6. QED BY <1>1, <1>2, <1>4, <1>5

LEMMA NthOf ==
    ASSUME NEW D \in SUBSET Nat, IsFiniteSet(D), NEW k \in D, NEW i \in Int,
           Cardinality(Below(D, k)) = i - 1
    PROVE Nth(D, i) = k
<1>1. ASSUME NEW m \in D, Cardinality(Below(D, m)) = i - 1 PROVE m = k
  <2>1. m \in Nat /\ k \in Nat OBVIOUS
  <2>2. m < k => Cardinality(Below(D, m)) < Cardinality(Below(D, k))
    BY <2>1, BelowCounts
  <2>3. k < m => Cardinality(Below(D, k)) < Cardinality(Below(D, m))
    BY <2>1, BelowCounts
  <2>4. ~(m < k) /\ ~(k < m) BY <2>2, <2>3, <1>1
  <2>5. QED BY <2>1, <2>4
<1>2. QED BY <1>1 DEF Nth, Below

\* There is a member at every rank.
LEMMA NthIs ==
    ASSUME NEW D \in SUBSET Nat, IsFiniteSet(D), NEW i \in 1..Cardinality(D)
    PROVE /\ Nth(D, i) \in D
          /\ Cardinality(Below(D, Nth(D, i))) = i - 1
<1>c. Cardinality(D) \in Nat BY FS_CardinalityType
<1> DEFINE Has(n) == \E k \in D : Cardinality(Below(D, k)) = n - 1
           Bad == {n \in 1..Cardinality(D) : ~Has(n)}
<1>1. SUFFICES Bad = {}
  <2>1. Has(i) BY <1>1
  <2>2. PICK k \in D : Cardinality(Below(D, k)) = i - 1 BY <2>1
  <2>3. Nth(D, i) = k BY <2>2, NthOf
  <2>4. QED BY <2>2, <2>3
<1>2. SUFFICES ASSUME Bad # {} PROVE FALSE OBVIOUS
<1>3. Bad \in SUBSET Nat BY <1>c
<1>4. PICK n \in Bad : \A m \in Bad : n <= m BY <1>2, <1>3, Least
<1>n. n \in Nat /\ n >= 1 /\ n <= Cardinality(D) BY <1>4, <1>c
<1>5. CASE n = 1
  <2>1. D # {} BY <1>n, <1>5, FS_EmptySet
  <2>2. PICK k \in D : \A j \in D : k <= j BY <2>1, Least
  <2>3. ASSUME NEW j \in Below(D, k) PROVE FALSE
    <3>1. j \in D /\ j < k /\ k <= j /\ j \in Nat /\ k \in Nat BY <2>2 DEF Below
    <3>2. QED BY <3>1
  <2>4. Below(D, k) = {} BY <2>3
  <2>5. Cardinality(Below(D, k)) = n - 1 BY <2>4, FS_EmptySet, <1>5
  <2>6. QED BY <2>5
<1>6. CASE n > 1
  <2>1. n - 1 \in 1..Cardinality(D) /\ n - 1 < n BY <1>6, <1>n, <1>c
  <2>2. n - 1 \notin Bad BY <2>1, <1>4, <1>n
  <2>3. PICK k \in D : Cardinality(Below(D, k)) = (n - 1) - 1 BY <2>1, <2>2
  <2> DEFINE U == Below(D, k) \union {k}
  <2>4. k \notin Below(D, k) /\ U \in SUBSET D BY DEF Below
  <2>5. IsFiniteSet(Below(D, k)) BY BelowCounts
  <2>6. IsFiniteSet(U) /\ Cardinality(U) = n - 1
    BY <2>3, <2>4, <2>5, FS_AddElement, <1>n
  <2>7. U # D
    <3>1. \A c \in Nat : n <= c => n - 1 # c BY <1>n
    <3>2. Cardinality(U) # Cardinality(D) BY <2>6, <1>n, <1>c, <3>1
    <3>3. QED BY <3>2
  <2>8. D \ U \in SUBSET Nat /\ D \ U # {} BY <2>4, <2>7
  <2>9. PICK m \in D \ U : \A j \in D \ U : m <= j BY <2>8, Least
  <2>10. Below(D, m) = U
    <3>1. ASSUME NEW j \in D PROVE j < m <=> j \in U
      <4>1. j \in Nat /\ m \in Nat /\ k \in Nat BY <2>9
      <4>2. j \notin U => m <= j BY <2>9
      <4>3. ~(m < k) /\ m # k BY <2>9 DEF Below
      <4>4. j \in U => j <= k BY <4>1 DEF Below
      <4>5. QED BY <4>1, <4>2, <4>3, <4>4
    <3>2. U \subseteq D BY <2>4
    <3>3. QED BY <3>1, <3>2 DEF Below
  <2>11. QED BY <2>6, <2>10, <2>9
<1>7. QED BY <1>5, <1>6, <1>n

LEMMA NthZero ==
    ASSUME NEW D \in SUBSET Nat, IsFiniteSet(D), 0 \in D
    PROVE Nth(D, 1) = 0 /\ Cardinality(D) \in Nat \ {0}
<1>1. Below(D, 0) = {}
  <2>1. \A j \in Nat : ~(j < 0) OBVIOUS
  <2>2. QED BY <2>1 DEF Below
<1>2. Cardinality(Below(D, 0)) = 1 - 1 BY <1>1, FS_EmptySet
<1>3. Nth(D, 1) = 0 BY <1>2, NthOf
<1>4. QED BY <1>3, FS_EmptySet, FS_CardinalityType

\* The first numbers are at their own ranks.
LEMMA NthFirst ==
    ASSUME NEW D \in SUBSET Nat, IsFiniteSet(D), 0 \notin D,
           NEW m \in Nat, 1..m \subseteq D
    PROVE /\ Cardinality(D) \in Nat /\ m <= Cardinality(D)
          /\ \A i \in 1..m : Nth(D, i) = i
<1>1. IsFiniteSet(1..m) /\ Cardinality(1..m) = m BY FS_Interval
<1>2. m <= Cardinality(D) BY <1>1, FS_Subset
<1>3. ASSUME NEW i \in 1..m PROVE Nth(D, i) = i
  <2>1. \A j \in Nat : j # 0 => (j < i <=> j \in 1..(i - 1)) OBVIOUS
  <2>2. \A j \in 1..(i - 1) : j \in 1..m OBVIOUS
  <2>3. Below(D, i) = 1..(i - 1) BY <2>1, <2>2 DEF Below
  <2>4. i - 1 \in Int /\ i \in Int /\ (1 > i - 1 => i - 1 = 0) OBVIOUS
  <2>5. Cardinality(1..(i - 1)) = i - 1 BY <2>4, FS_Interval
  <2>6. QED BY <2>3, <2>4, <2>5, NthOf
<1>4. QED BY <1>2, <1>3, FS_CardinalityType

-----------------------------------------------------------------------------
(* `cat`. *)

\* f is what `cat` has written after each file.
Sums(f, s) == /\ DOMAIN f = 1..Len(s)
              /\ \A i \in 1..Len(s) : f[i] = IF i = 1 THEN s[i] ELSE f[i - 1] \o s[i]

\* The sums exist: the first number without one would have a sum after all.
LEMMA SumsExist ==
    ASSUME NEW s, NEW n \in Nat \ {0}, Len(s) = n
    PROVE \E f : f = [i \in 1..n |-> IF i = 1 THEN s[i] ELSE f[i - 1] \o s[i]]
<1> DEFINE Has(m) == \E f : f = [i \in 1..m |-> IF i = 1 THEN s[i] ELSE f[i - 1] \o s[i]]
           Bad == {m \in 1..n : ~Has(m)}
<1>1. SUFFICES ASSUME Bad # {} PROVE FALSE
  <2> HIDE DEF Has
  <2>1. n \in 1..n OBVIOUS
  <2>2. Bad = {} => Has(n) BY <2>1
  <2>3. QED BY <1>1, <2>2 DEF Has
<1>2. Bad \in SUBSET Nat
  <2> HIDE DEF Has
  <2>1. QED OBVIOUS
<1>3. PICK m \in Bad : \A k \in Bad : m <= k BY <1>1, <1>2, Least
<1>4. m \in 1..n /\ ~Has(m) BY <1>3
<1>5. CASE m = 1
  <2> DEFINE f == [i \in 1..1 |-> s[i]]
  <2>1. f = [i \in 1..1 |-> IF i = 1 THEN s[i] ELSE f[i - 1] \o s[i]] OBVIOUS
  <2>2. QED BY <2>1, <1>4, <1>5
<1>6. CASE m # 1
  <2>1. m - 1 \in 1..n /\ ~(m <= m - 1) BY <1>4, <1>6
  <2>2. m - 1 \notin Bad BY <2>1, <1>3
  <2>3. Has(m - 1) BY <2>1, <2>2
  <2>4. PICK f : f = [i \in 1..(m - 1) |-> IF i = 1 THEN s[i] ELSE f[i - 1] \o s[i]]
    BY <2>3
  <2> DEFINE g == [i \in 1..m |-> IF i < m THEN f[i] ELSE f[m - 1] \o s[m]]
             h == [i \in 1..m |-> IF i = 1 THEN s[i] ELSE g[i - 1] \o s[i]]
  <2>5. ASSUME NEW i \in 1..m PROVE g[i] = h[i]
    <3>1. CASE i = m
      <4>1. g[i] = f[m - 1] \o s[m] BY <3>1
      <4>2. m - 1 \in 1..m /\ m - 1 < m BY <1>4, <1>6
      <4>3. g[m - 1] = f[m - 1] BY <4>2
      <4>4. h[i] = g[m - 1] \o s[m] BY <3>1, <1>6
      <4>5. QED BY <4>1, <4>3, <4>4
    <3>2. CASE i # m
      <4>1. i < m /\ i \in 1..(m - 1) BY <3>2, <1>4
      <4>2. f[i] = IF i = 1 THEN s[i] ELSE f[i - 1] \o s[i] BY <2>4, <4>1
      <4>3. g[i] = f[i] BY <4>1
      <4>4. i # 1 => i - 1 \in 1..m /\ i - 1 < m BY <4>1, <1>4
      <4>5. i # 1 => g[i - 1] = f[i - 1] BY <4>4
      <4>6. h[i] = IF i = 1 THEN s[i] ELSE g[i - 1] \o s[i] OBVIOUS
      <4>7. QED BY <4>2, <4>3, <4>5, <4>6
    <3>3. QED BY <3>1, <3>2
  <2>6. g = h BY <2>5
  <2>7. g = [i \in 1..m |-> IF i = 1 THEN s[i] ELSE g[i - 1] \o s[i]] BY <2>6
  <2>8. Has(m)
    <3> HIDE DEF g, h
    <3>1. QED BY <2>7
  <2>9. QED BY <2>8, <1>4
<1>7. QED BY <1>5, <1>6

LEMMA FlattenSums ==
    ASSUME NEW s, NEW n \in Nat \ {0}, Len(s) = n
    PROVE \E f : Sums(f, s) /\ FlattenSeq(s) = f[n]
<1> DEFINE Is(f) == f = [i \in 1..n |-> IF i = 1 THEN s[i] ELSE f[i - 1] \o s[i]]
           flatten == CHOOSE f : Is(f)
<1>1. FlattenSeq(s) = flatten[n] BY DEF FlattenSeq
<1>2. \E f : Is(f) BY SumsExist
<1>3. Is(flatten)
  <2> HIDE DEF Is
  <2>1. QED BY <1>2
<1>4. Sums(flatten, s)
  <2> HIDE DEF flatten
  <2>1. QED BY <1>3 DEF Sums
<1>5. QED BY <1>1, <1>4

Begins(S, t, u) == \E rest \in Seq(S) : t = u \o rest

LEMMA JoinThree ==
    ASSUME NEW S, NEW t \in Seq(S), NEW u \in Seq(S), NEW v \in Seq(S)
    PROVE (t \o u) \o v = t \o (u \o v) /\ u \o v \in Seq(S)
<1>1. (t \o u) \o v = t \o (u \o v) BY ConcatAssociative
<1>2. u \o v \in Seq(S) BY ConcatProperties
<1>3. QED BY <1>1, <1>2

\* The sums are sequences, and a later one begins with each earlier one.
LEMMA SumsGrow ==
    ASSUME NEW S, NEW f, NEW s, NEW n \in Nat \ {0}, Len(s) = n, Sums(f, s),
           \A i \in 1..n : s[i] \in Seq(S)
    PROVE /\ \A i \in 1..n : f[i] \in Seq(S)
          /\ \A m \in 1..n : Begins(S, f[n], f[m])
<1> DEFINE Bad == {i \in 1..n : f[i] \notin Seq(S)}
<1>1. ASSUME Bad # {} PROVE FALSE
  <2>1. Bad \in SUBSET Nat OBVIOUS
  <2>2. PICK i \in Bad : \A j \in Bad : i <= j BY <1>1, <2>1, Least
  <2>3. i \in 1..n /\ f[i] \notin Seq(S) BY <2>2
  <2>4. f[i] = IF i = 1 THEN s[i] ELSE f[i - 1] \o s[i] BY <2>3 DEF Sums
  <2>5. i # 1 BY <2>3, <2>4
  <2>6. i - 1 \in 1..n /\ ~(i <= i - 1) BY <2>3, <2>5
  <2>7. f[i - 1] \in Seq(S) BY <2>2, <2>6
  <2>8. f[i - 1] \o s[i] \in Seq(S) BY <2>3, <2>7, ConcatProperties
  <2>9. QED BY <2>3, <2>4, <2>5, <2>8
<1>2. \A i \in 1..n : f[i] \in Seq(S) BY <1>1
<1>3. ASSUME NEW m \in 1..n PROVE Begins(S, f[n], f[m])
  <2> USE DEF Begins
  <2> DEFINE From(i) == \E rest \in Seq(S) : f[i] = f[m] \o rest
             Not == {i \in m..n : ~From(i)}
  <2>1. SUFFICES ASSUME Not # {} PROVE FALSE
    <3> HIDE DEF From
    <3>1. n \in m..n OBVIOUS
    <3>2. Not = {} => From(n) BY <3>1
    <3>3. QED BY <2>1, <3>2 DEF From
  <2>2. Not \in SUBSET Nat
    <3> HIDE DEF From
    <3>1. QED OBVIOUS
  <2>3. PICK i \in Not : \A j \in Not : i <= j BY <2>1, <2>2, Least
  <2>4. i \in m..n /\ ~From(i) BY <2>3
  <2>5. CASE i = m
    <3>1. f[m] \o <<>> = f[m] /\ <<>> \in Seq(S) BY <1>2, ConcatEmptySeq, EmptySeq
    <3>2. QED BY <3>1, <2>4, <2>5
  <2>6. CASE i # m
    <3>1. i - 1 \in m..n /\ ~(i <= i - 1) /\ i \in 1..n /\ i # 1 BY <2>4, <2>6
    <3>2. i - 1 \notin Not BY <2>3, <3>1
    <3>3. From(i - 1) BY <3>1, <3>2
    <3>4. PICK rest \in Seq(S) : f[i - 1] = f[m] \o rest BY <3>3
    <3>5. f[i] = f[i - 1] \o s[i] BY <3>1 DEF Sums
    <3>6. f[m] \in Seq(S) /\ s[i] \in Seq(S) BY <1>2, <3>1
    <3> DEFINE x == f[m]
               y == s[i]
    <3>7. x \in Seq(S) /\ y \in Seq(S) /\ f[i] = (x \o rest) \o y BY <3>4, <3>5, <3>6
    <3> HIDE DEF x, y
    <3>8. (x \o rest) \o y = x \o (rest \o y) /\ rest \o y \in Seq(S)
      BY <3>4, <3>7, JoinThree, ZenonT(30)
    <3>9. f[i] = f[m] \o (rest \o y) BY <3>7, <3>8 DEF x
    <3>10. QED BY <3>8, <3>9, <2>4
  <2>7. QED BY <2>5, <2>6
<1>4. QED BY <1>2, <1>3

\* Files with their numbers.
Numbered(files, S) == /\ DOMAIN files \in SUBSET Nat /\ IsFiniteSet(DOMAIN files)
                      /\ \A k \in DOMAIN files : files[k] \in Seq(S)

\* f is what `cat` has written after each of n files.
Written(f, files, n, S) ==
    /\ Cat(files) = f[n]
    /\ f[1] = files[Nth(DOMAIN files, 1)]
    /\ \A i \in 2..n : f[i] = f[i - 1] \o files[Nth(DOMAIN files, i)]
    /\ \A i \in 1..n : f[i] \in Seq(S)
    /\ \A m \in 1..n : Begins(S, f[n], f[m])

LEMMA CatSums ==
    ASSUME NEW S, NEW files, Numbered(files, S), DOMAIN files # {},
           NEW n, n = Cardinality(DOMAIN files)
    PROVE n \in Nat \ {0} /\ \E f : Written(f, files, n, S)
<1> DEFINE D == DOMAIN files
           s == [i \in 1..n |-> files[Nth(D, i)]]
<1>1. D \in SUBSET Nat /\ IsFiniteSet(D) BY DEF Numbered
<1>2. n \in Nat \ {0} BY <1>1, FS_CardinalityType, FS_EmptySet
<1>3. Cat(files) = FlattenSeq(s) BY DEF Cat, Nth
<1>4. Len(s) = n BY <1>2
<1>5. \A i \in 1..n : s[i] = files[Nth(D, i)] OBVIOUS
<1>6. \A i \in 1..n : Nth(D, i) \in D BY <1>1, NthIs
<1>7. \A i \in 1..n : s[i] \in Seq(S) BY <1>5, <1>6 DEF Numbered
<1> HIDE DEF s, D
<1>8. PICK f : Sums(f, s) /\ FlattenSeq(s) = f[n] BY <1>2, <1>4, FlattenSums
<1>9. /\ \A i \in 1..n : f[i] \in Seq(S)
      /\ \A m \in 1..n : Begins(S, f[n], f[m])
  <2>1. Sums(f, s) BY <1>8
  <2>2. \A i \in 1..n : f[i] \in Seq(S) BY <1>2, <1>4, <1>7, <2>1, SumsGrow
  <2>3. \A m \in 1..n : Begins(S, f[n], f[m])
    BY <1>2, <1>4, <1>7, <2>1, SumsGrow
  <2>4. QED BY <2>2, <2>3
<1>10. f[1] = files[Nth(D, 1)] BY <1>2, <1>4, <1>5, <1>8 DEF Sums
<1>11. \A i \in 2..n : f[i] = f[i - 1] \o files[Nth(D, i)]
  <2>1. TAKE i \in 2..n
  <2>2. i \in 1..Len(s) /\ i # 1 BY <1>2, <1>4
  <2>3. f[i] = f[i - 1] \o s[i] BY <2>2, <1>8 DEF Sums
  <2>4. QED BY <2>2, <2>3, <1>4, <1>5
<1>12. Written(f, files, n, S) BY <1>3, <1>8, <1>9, <1>10, <1>11 DEF D, Written
<1>13. QED BY <1>2, <1>12

\* What begins with a file numbered 0 is `cat`ed to what begins with that file.
LEMMA CatZero ==
    ASSUME NEW S, NEW files, Numbered(files, S), 0 \in DOMAIN files
    PROVE Begins(S, Cat(files), files[0])
<1> DEFINE n == Cardinality(DOMAIN files)
<1>1. Nth(DOMAIN files, 1) = 0 BY NthZero DEF Numbered
<1>2. DOMAIN files # {} OBVIOUS
<1> HIDE DEF n
<1>3. n \in Nat \ {0} BY <1>2, CatSums DEF n
<1>4. PICK f : Written(f, files, n, S) BY <1>2, CatSums DEF n
<1>5. 1 \in 1..n BY <1>3
<1>6. QED BY <1>1, <1>4, <1>5 DEF Written

LEMMA CatOfFiles ==
    ASSUME NEW S, NEW files, Numbered(files, S), DOMAIN files # {}
    PROVE Cat(files) \in Seq(S)
<1> DEFINE n == Cardinality(DOMAIN files)
<1> HIDE DEF n
<1>1. n \in Nat \ {0} BY CatSums DEF n
<1>2. PICK f : Written(f, files, n, S) BY CatSums DEF n
<1>3. n \in 1..n BY <1>1
<1>4. QED BY <1>2, <1>3 DEF Written

-----------------------------------------------------------------------------
(* The pieces of a file. *)

LEMMA HeadAndBody ==
    ASSUME NEW S, NEW file \in Seq(S)
    PROVE /\ Head1(file) \in Seq(S) /\ Body(file) \in Seq(S)
          /\ Head1(file) \o Body(file) = file
<1>1. CASE HasHeader(file)
  <2>1. file # <<>> BY <1>1 DEF HasHeader
  <2>2. Len(file) \in Nat \ {0} BY <2>1, EmptySeq
  <2>3. Body(file) = Tail(file) /\ Head1(file) = <<file[1]>>
    BY <1>1 DEF Body, Head1
  <2>4. /\ Tail(file) \in Seq(S) /\ Len(Tail(file)) = Len(file) - 1
        /\ \A i \in 1..Len(Tail(file)) : Tail(file)[i] = file[i + 1]
    BY <2>1, HeadTailProperties
  <2>5. file[1] \in S BY <2>2, ElementOfSeq
  <2>6. <<file[1]>> \in Seq(S) /\ Len(<<file[1]>>) = 1 /\ <<file[1]>>[1] = file[1]
    BY <2>5
  <2> DEFINE h == <<file[1]>>
  <2> HIDE DEF h
  <2>7. h \in Seq(S) /\ Len(h) = 1 /\ h[1] = file[1] BY <2>6 DEF h
  <2> DEFINE t == Tail(file)
  <2> HIDE DEF t
  <2>8. t \in Seq(S) /\ Len(t) = Len(file) - 1 /\ \A i \in 1..Len(t) : t[i] = file[i + 1]
    BY <2>4 DEF t
  <2>9. /\ h \o t \in Seq(S) /\ Len(h \o t) = Len(h) + Len(t)
        /\ \A i \in 1..(Len(h) + Len(t)) :
              (h \o t)[i] = IF i <= Len(h) THEN h[i] ELSE t[i - Len(h)]
    <3>1. \A u, v \in Seq(S) :
             /\ u \o v \in Seq(S) /\ Len(u \o v) = Len(u) + Len(v)
             /\ \A i \in 1..(Len(u) + Len(v)) :
                   (u \o v)[i] = IF i <= Len(u) THEN u[i] ELSE v[i - Len(u)]
      BY ConcatProperties
    <3>2. QED BY <2>7, <2>8, <3>1
  <2>10. Len(h \o t) = Len(file) BY <2>2, <2>7, <2>8, <2>9
  <2>11. ASSUME NEW i \in 1..Len(file) PROVE (h \o t)[i] = file[i]
    <3>1. i \in 1..(Len(h) + Len(t)) BY <2>2, <2>7, <2>8
    <3>2. i <= 1 => i = 1 BY <2>2
    <3>3. ~(i <= 1) => i - 1 \in 1..Len(t) /\ (i - 1) + 1 = i BY <2>2, <2>8
    <3>4. QED BY <3>1, <3>2, <3>3, <2>7, <2>8, <2>9
  <2>12. h \o t = file BY <2>9, <2>10, <2>11, SeqEqual
  <2>13. QED BY <2>3, <2>6, <2>4, <2>12 DEF h, t
<1>2. CASE ~HasHeader(file)
  <2>1. Body(file) = file /\ Head1(file) = <<>> BY <1>2 DEF Body, Head1
  <2>2. QED BY <2>1, EmptySeq, ConcatEmptySeq
<1>3. QED BY <1>1, <1>2

\* The k-th piece of a file of n units after the header, with per units in each.
Piece(file, per, k) ==
    (IF k = 1 THEN Head1(file) ELSE <<>>)
    \o SubSeq(Body(file), (k - 1) * per + 1, Min({k * per, Len(Body(file))}))

\* Products of numbers of pieces and units.
LEMMA PieceEnds ==
    ASSUME NEW per \in Nat \ {0}, NEW n \in Nat, NEW m \in Nat,
           m * per >= n, m * per < n + per, NEW k \in 1..m
    PROVE /\ k * per \in Nat /\ (k - 1) * per \in Nat
          /\ (k - 1) * per < n
          /\ k * per = (k - 1) * per + per
          /\ k = m => k * per >= n
          /\ k < m => k * per < n
<1>1. k * per \in Nat /\ (k - 1) * per \in Nat /\ m * per \in Nat BY Z3
<1>2. k * per = (k - 1) * per + per BY Z3
<1>3. k < m => k * per + per <= m * per BY Z3T(20)
<1>4. k <= m OBVIOUS
<1>5. k = m => k * per = m * per OBVIOUS
<1>6. QED BY <1>1, <1>2, <1>3, <1>4, <1>5

LEMMA PieceIsSeq ==
    ASSUME NEW S, NEW file \in Seq(S), NEW per \in Nat \ {0}, NEW m \in Nat,
           m * per >= Len(Body(file)), m * per < Len(Body(file)) + per, NEW k \in 1..m
    PROVE Piece(file, per, k) \in Seq(S)
<1> DEFINE body == Body(file)
           n == Len(body)
           from == (k - 1) * per + 1
           to == Min({k * per, n})
<1>1. body \in Seq(S) /\ Head1(file) \in Seq(S) BY HeadAndBody
<1>2. n \in Nat BY <1>1, LenProperties
<1>3. k * per \in Nat /\ (k - 1) * per \in Nat BY <1>2, PieceEnds
<1>4. to \in Int /\ to <= n /\ from \in Int /\ from >= 1
  <2>1. to = IF k * per <= n THEN k * per ELSE n BY <1>2, <1>3, MinOfTwo
  <2>2. QED BY <2>1, <1>2, <1>3
<1> HIDE DEF body, from, to
<1>5. \A i \in from..to : i \in 1..n BY <1>2, <1>4
<1>6. \A i \in from..to : body[i] \in S BY <1>1, <1>5, ElementOfSeq
<1>7. SubSeq(body, from, to) \in Seq(S) BY <1>4, <1>6, SubSeqProperties
<1>8. (IF k = 1 THEN Head1(file) ELSE <<>>) \in Seq(S) BY <1>1, EmptySeq
<1>9. QED BY <1>7, <1>8, ConcatProperties DEF Piece, body, from, to

\* P has the pieces of a file: the file itself, or m pieces of per units.
Cuts(P, file, per, m) ==
    /\ P = [k \in 1..m |-> Piece(file, per, k)]
    /\ m * per >= Len(Body(file)) /\ m * per < Len(Body(file)) + per
IsSplit(P, file) ==
    \/ P = [k \in {0} |-> file]
    \/ \E per \in Nat \ {0}, m \in Nat : Cuts(P, file, per, m)

LEMMA SplitShape ==
    ASSUME NEW S, NEW file \in Seq(S), NEW parts \in Int
    PROVE IsSplit(SplitInto(file, parts), file)
<1>1. CASE parts <= 1
  BY <1>1 DEF SplitInto, IsSplit
<1>2. CASE ~(parts <= 1)
  <2> DEFINE n == Len(Body(file))
             per == PerPart(n, parts)
             m == Ceil(n, per)
  <2>1. n \in Nat BY HeadAndBody, LenProperties
  <2>2. parts \in Nat \ {0} BY <1>2
  <2>3. Ceil(n, parts) \in Nat BY <2>1, <2>2, CeilBounds
  <2>4. per \in Nat \ {0} BY <2>3, MaxWithOne DEF PerPart
  <2> HIDE DEF n, per
  <2>5. m \in Nat /\ m * per >= n /\ m * per < n + per BY <2>1, <2>4, CeilBounds
  <2>6. SplitInto(file, parts) = [k \in 1..m |-> Piece(file, per, k)]
    BY <1>2 DEF SplitInto, Piece, n, per
  <2>7. Cuts(SplitInto(file, parts), file, per, m) BY <2>5, <2>6 DEF Cuts, n
  <2>8. QED BY <2>4, <2>5, <2>7 DEF IsSplit
<1>3. QED BY <1>1, <1>2

LEMMA SplitNumbered ==
    ASSUME NEW S, NEW file \in Seq(S), NEW P, IsSplit(P, file)
    PROVE Numbered(P, S)
<1>1. CASE P = [k \in {0} |-> file]
  <2>1. DOMAIN P = {0} /\ P[0] = file BY <1>1
  <2>2. {0} \in SUBSET Nat OBVIOUS
  <2>3. IsFiniteSet({0}) BY FS_Singleton
  <2>4. QED BY <2>1, <2>2, <2>3, Zenon DEF Numbered
<1>2. ASSUME NEW per \in Nat \ {0}, NEW m \in Nat, Cuts(P, file, per, m)
      PROVE Numbered(P, S)
  <2>1. DOMAIN P = 1..m /\ \A k \in 1..m : P[k] = Piece(file, per, k)
    BY <1>2 DEF Cuts
  <2>2. m * per >= Len(Body(file)) /\ m * per < Len(Body(file)) + per
    BY <1>2 DEF Cuts
  <2>3. \A k \in 1..m : P[k] \in Seq(S) BY <2>1, <2>2, PieceIsSeq
  <2>4. IsFiniteSet(1..m) /\ 1..m \in SUBSET Nat BY FS_Interval
  <2>5. DOMAIN P \in SUBSET Nat /\ IsFiniteSet(DOMAIN P) BY <2>1, <2>4, Zenon
  <2>6. \A k \in DOMAIN P : P[k] \in Seq(S) BY <2>1, <2>3, Zenon
  <2>7. QED BY <2>5, <2>6, Zenon DEF Numbered
<1>3. QED BY <1>1, <1>2 DEF IsSplit

\* A stretch of the body behind all before it.
LEMMA JoinNext ==
    ASSUME NEW S, NEW head \in Seq(S), NEW body \in Seq(S),
           NEW from \in 0..Len(body), NEW to \in from..Len(body)
    PROVE (head \o SubSeq(body, 1, from)) \o (<<>> \o SubSeq(body, from + 1, to))
          = head \o SubSeq(body, 1, to)
<1> DEFINE u == SubSeq(body, 1, from)
           v == SubSeq(body, from + 1, to)
<1>1. Len(body) \in Nat BY LenProperties
<1>2. 1 \in 1..(Len(body) + 1) /\ from \in (1 - 1)..Len(body) BY <1>1
<1>3. u \o v = SubSeq(body, 1, to) BY <1>2, ConcatAdjacentSubSeq
<1>4. /\ \A i \in 1..from : body[i] \in S
      /\ \A i \in (from + 1)..to : body[i] \in S
  BY <1>1, ElementOfSeq
<1>5. from \in Int /\ to \in Int /\ from + 1 \in Int /\ 1 \in Int BY <1>1
<1>6. u \in Seq(S) /\ v \in Seq(S) BY <1>4, <1>5, SubSeqProperties
<1> HIDE DEF u, v
<1>7. <<>> \o v = v BY <1>6, ConcatEmptySeq
<1>8. (head \o u) \o v = head \o (u \o v) BY SMTT(30), <1>6, ConcatAssociative
<1>9. QED BY <1>3, <1>7, <1>8 DEF u, v

\* The first pieces, one behind the other, up to each of them.
Piled(f, file, per, m) ==
    /\ f[1] = Piece(file, per, 1)
    /\ \A i \in 2..m : f[i] = f[i - 1] \o Piece(file, per, i)

LEMMA PiecesJoin ==
    ASSUME NEW S, NEW file \in Seq(S), NEW per \in Nat \ {0}, NEW m \in Nat \ {0},
           m * per >= Len(Body(file)), m * per < Len(Body(file)) + per,
           NEW f, Piled(f, file, per, m)
    PROVE f[m] = file
<1> DEFINE body == Body(file)
           n == Len(body)
           head == Head1(file)
           upto(k) == Min({k * per, n})
           Joined(k) == f[k] = head \o SubSeq(body, 1, upto(k))
           Bad == {k \in 1..m : ~Joined(k)}
<1>1. body \in Seq(S) /\ head \in Seq(S) /\ head \o body = file BY HeadAndBody
<1>2. n \in Nat BY <1>1, LenProperties
<1>3. \A k \in 1..m : /\ k * per \in Nat /\ (k - 1) * per \in Nat
                      /\ (k - 1) * per < n /\ k * per = (k - 1) * per + per
                      /\ k = m => k * per >= n
                      /\ k < m => k * per < n
  BY <1>2, PieceEnds
<1>4. \A k \in 1..m : upto(k) = IF k * per <= n THEN k * per ELSE n
  BY <1>2, <1>3, MinOfTwo
<1>5. upto(m) = n
  <2>1. m \in 1..m OBVIOUS
  <2>2. m * per >= n /\ m * per \in Nat BY <2>1, <1>3
  <2> DEFINE p == m * per
  <2> HIDE DEF p, n
  <2>3. p <= n => p = n BY <2>2, <1>2 DEF p
  <2>4. QED BY <2>1, <2>3, <1>4 DEF p
<1>6. ASSUME Bad # {} PROVE FALSE
  <2>1. Bad \in SUBSET Nat
    <3> HIDE DEF Joined
    <3>1. QED OBVIOUS
  <2>2. PICK k \in Bad : \A j \in Bad : k <= j BY <1>6, <2>1, Least
  <2>3. k \in 1..m /\ ~Joined(k) BY <2>2
  <2> HIDE DEF body, n, head
  <2>4. CASE k = 1
    <3>1. f[1] = head \o SubSeq(body, (1 - 1) * per + 1, Min({1 * per, n}))
      BY DEF Piled, Piece, head, body, n
    <3>2. (1 - 1) * per + 1 = 1 OBVIOUS
    <3>3. QED BY <3>1, <3>2, <2>3, <2>4
  <2>5. CASE k # 1
    <3>1. k \in 2..m /\ k - 1 \in 1..m /\ ~(k <= k - 1) /\ k - 1 < m BY <2>3, <2>5
    <3> DEFINE from == (k - 1) * per
               to == upto(k)
    <3>2. Joined(k - 1) BY <3>1, <2>2
    <3>3. upto(k - 1) = from
      <4>1. (k - 1) * per < n /\ (k - 1) * per \in Nat BY <3>1, <1>3
      <4>2. upto(k - 1) = IF (k - 1) * per <= n THEN (k - 1) * per ELSE n BY <3>1, <1>4
      <4>3. QED BY <4>1, <4>2, <1>2
    <3>4. f[k - 1] = head \o SubSeq(body, 1, from) BY <3>2, <3>3
    <3>5. f[k] = f[k - 1] \o (<<>> \o SubSeq(body, from + 1, to))
      BY <3>1, <2>5 DEF Piled, Piece, body, n
    <3>6. from \in 0..n /\ to \in from..n
      <4>1. from \in Nat /\ from < n /\ k * per \in Nat /\ k * per = from + per
        BY <2>3, <1>3
      <4>2. to = IF k * per <= n THEN k * per ELSE n BY <2>3, <1>4
      <4> DEFINE p == k * per
      <4> HIDE DEF p, from, to
      <4>3. p \in Nat /\ p = from + per /\ to = IF p <= n THEN p ELSE n
        BY <4>1, <4>2 DEF p
      <4>4. QED BY <4>1, <4>3, <1>2
    <3> HIDE DEF from, to
    <3>7. f[k] = head \o SubSeq(body, 1, to) 
      <4>1. head \in Seq(S) /\ body \in Seq(S) BY <1>1 DEF head, body
      <4>2. from \in 0..Len(body) /\ to \in from..Len(body) BY <3>6 DEF n
      <4>3. (head \o SubSeq(body, 1, from)) \o (<<>> \o SubSeq(body, from + 1, to))
            = head \o SubSeq(body, 1, to)
        BY <4>1, <4>2, JoinNext
      <4>4. QED BY <3>4, <3>5, <4>3
    <3>8. QED BY <3>7, <2>3 DEF to
  <2>6. QED BY <2>4, <2>5
<1>7. Joined(m)
  <2> HIDE DEF Joined
  <2>1. m \in 1..m OBVIOUS
  <2>2. QED BY <1>6, <2>1
<1>8. SubSeq(body, 1, n) = body BY <1>1, SubSeqFull
<1>9. f[m] = head \o SubSeq(body, 1, n) BY <1>5, <1>7
<1>10. QED BY <1>1, <1>8, <1>9

\* `cat` of numbered files, the pieces of a file P first among them, is that file
\* and the rest; without a rest it is the file.
LEMMA CatSplit ==
    ASSUME NEW S, NEW file \in Seq(S), NEW P, IsSplit(P, file), DOMAIN P # {},
           NEW files, Numbered(files, S), DOMAIN P \subseteq DOMAIN files,
           \A k \in DOMAIN P : files[k] = P[k],
           0 \in DOMAIN files => 0 \in DOMAIN P
    PROVE /\ Begins(S, Cat(files), file)
          /\ DOMAIN files = DOMAIN P => Cat(files) = file
<1> DEFINE D == DOMAIN files
           n == Cardinality(D)
<1>1. D \in SUBSET Nat /\ IsFiniteSet(D) /\ D # {} BY DEF Numbered
<1> HIDE DEF n
<1>2. n \in Nat \ {0} BY <1>1, CatSums DEF n
<1>3. PICK f : Written(f, files, n, S) BY <1>1, CatSums DEF n
<1>4. ASSUME NEW m \in 1..n, f[m] = file, D = DOMAIN P => n = m
      PROVE /\ Begins(S, Cat(files), file)
            /\ D = DOMAIN P => Cat(files) = file
  <2>1. Cat(files) = f[n] /\ Begins(S, f[n], f[m]) BY <1>3 DEF Written
  <2>2. QED BY <2>1, <1>4
<1>5. CASE P = [k \in {0} |-> file]
  <2>1. DOMAIN P = {0} /\ P[0] = file BY <1>5
  <2>2. 0 \in D /\ files[0] = file BY <2>1
  <2>3. Nth(D, 1) = 0 BY <1>1, <2>2, NthZero
  <2>4. f[1] = file BY <1>3, <2>2, <2>3 DEF Written
  <2>5. D = {0} => n = 1 BY FS_Singleton DEF n
  <2>6. 1 \in 1..n BY <1>2
  <2>7. QED BY <1>4, <2>1, <2>4, <2>5, <2>6
<1>6. ASSUME NEW per \in Nat \ {0}, NEW m \in Nat, Cuts(P, file, per, m)
      PROVE /\ Begins(S, Cat(files), file)
            /\ D = DOMAIN P => Cat(files) = file
  <2>1. DOMAIN P = 1..m /\ \A k \in 1..m : P[k] = Piece(file, per, k)
    BY <1>6 DEF Cuts
  <2>2. 0 \notin D BY <2>1
  <2>3. m # 0 BY <2>1
  <2>4. m <= n /\ \A i \in 1..m : Nth(D, i) = i BY <1>1, <2>1, <2>2, NthFirst DEF n
  <2>5. \A k \in 1..m : files[k] = Piece(file, per, k) BY <2>1
  <2>6. f[1] = Piece(file, per, 1)
    <3>1. 1 \in 1..m BY <2>3
    <3>2. f[1] = files[Nth(D, 1)] BY <1>3 DEF Written
    <3>3. QED BY <3>1, <3>2, <2>4, <2>5
  <2>7. ASSUME NEW i \in 2..m PROVE f[i] = f[i - 1] \o Piece(file, per, i)
    <3>1. i \in 1..m /\ i \in 2..n BY <1>2, <2>4
    <3>2. f[i] = f[i - 1] \o files[Nth(D, i)] BY <3>1, <1>3 DEF Written
    <3>3. QED BY <3>1, <3>2, <2>4, <2>5
  <2>8. Piled(f, file, per, m) BY <2>6, <2>7 DEF Piled
  <2>9. m * per >= Len(Body(file)) /\ m * per < Len(Body(file)) + per BY <1>6 DEF Cuts
  <2>10. f[m] = file BY <2>3, <2>8, <2>9, PiecesJoin
  <2>11. m \in 1..n BY <1>2, <2>3, <2>4
  <2>12. D = DOMAIN P => n = m BY <2>1, FS_Interval DEF n
  <2>13. QED BY <1>4, <2>10, <2>11, <2>12
<1>7. QED BY <1>5, <1>6 DEF IsSplit

LEMMA SizeIsNumber ==
    ASSUME NEW S, NEW file \in Seq(S), NEW size \in Nat
    PROVE FileSize(file, size) \in Int
<1> DEFINE H == {i \in DOMAIN file : file[i].kind = "header"}
<1>1. Len(file) \in Nat /\ DOMAIN file = 1..Len(file) BY LenProperties
<1>2. IsFiniteSet(DOMAIN file) BY <1>1, FS_Interval
<1>3. Cardinality(H) \in Nat BY <1>2, FS_Subset, FS_CardinalityType
<1>4. HeaderSize \in Nat BY SplitAssumption
<1> HIDE DEF H
<1>5. \A h, l, z, s \in Int : h * z + (l - h) * s \in Int OBVIOUS
<1>6. FileSize(file, size) = Cardinality(H) * HeaderSize + (Len(file) - Cardinality(H)) * size
  BY DEF FileSize, H
<1>7. QED BY <1>1, <1>3, <1>4, <1>5, <1>6

\* A file that can be split is: into pieces of it, none of them over the limit.
LEMMA SplitFits ==
    ASSUME NEW S, NEW file \in Seq(S), NEW size \in Nat \ {0}, CanSplit(file, size)
    PROVE /\ IsSplit(SplitFile(file, size), file)
          /\ \A k \in DOMAIN SplitFile(file, size) :
                FileSize(SplitFile(file, size)[k], size) <= Limit
<1> DEFINE F == Fitting(file, size)
           tries == 2^Min(F)
           first == FirstParts(file, size)
           n == Len(Body(file))
<1>1. F \in SUBSET Nat /\ F # {}
  <2>1. \A i \in 0..(MaxAttempts - 1) : i \in Nat OBVIOUS
  <2>2. QED BY <2>1 DEF Fitting, CanSplit
<1>2. Min(F) \in F BY <1>1, MinIsLeast
<1>3. tries \in Int BY <1>1, <1>2
<1>4. first \in Int
  <2> DEFINE usable == IF HasHeader(file) THEN Max({1, Limit - HeaderSize}) ELSE Limit
  <2>1. usable \in Nat \ {0}
    <3>1. Limit - HeaderSize \in Int /\ Limit \in Nat \ {0} BY SplitAssumption
    <3>2. Max({1, Limit - HeaderSize}) \in Nat \ {0} BY <3>1, MaxWithOne
    <3>3. QED BY <3>1, <3>2
  <2>2. n \in Nat BY HeadAndBody, LenProperties
  <2> HIDE DEF usable, n
  <2>3. n * size \in Nat BY <2>2
  <2>4. Ceil(n * size, usable) \in Nat BY <2>1, <2>3, CeilBounds
  <2>5. Max({1, Ceil(n * size, usable)}) \in Int BY <2>4, MaxWithOne
  <2>6. first = IF Body(file) = <<>> THEN 1 ELSE Max({1, Ceil(n * size, usable)})
    BY DEF FirstParts, n, usable
  <2>7. QED BY <2>5, <2>6
<1> HIDE DEF F, tries, first, n
<1>5. first * tries \in Int BY <1>3, <1>4
<1>6. SplitFile(file, size) = SplitInto(file, first * tries)
  BY DEF SplitFile, first, tries, F
<1>7. IsSplit(SplitFile(file, size), file) BY <1>5, <1>6, SplitShape
<1>8. \A k \in DOMAIN SplitFile(file, size) :
          ~Oversized(SplitFile(file, size)[k], size)
  BY <1>2, <1>6 DEF Fitting, F, first, tries
<1>9. ASSUME NEW k \in DOMAIN SplitFile(file, size)
      PROVE FileSize(SplitFile(file, size)[k], size) <= Limit
  <2> DEFINE x == FileSize(SplitFile(file, size)[k], size)
  <2>1. SplitFile(file, size)[k] \in Seq(S) BY <1>7, SplitNumbered DEF Numbered
  <2>2. x \in Int BY <2>1, SizeIsNumber
  <2>3. ~(x > Limit) BY <1>8 DEF Oversized
  <2> HIDE DEF x
  <2>4. x <= Limit BY <2>2, <2>3, SplitAssumption
  <2>5. QED BY <2>4 DEF x
<1>10. QED BY <1>7, <1>9

-----------------------------------------------------------------------------
(* Packs and texts. *)

Unit == [kind : {"header", "record"}, run : Run, n : Nat]

IsPack(file) == /\ file \in Seq(Unit) /\ file # <<>>
                /\ file[1].kind = "header" /\ file[1].n = Len(file) - 1

LEMMA DigestsFinite ==
    ASSUME NEW r \in Run, NEW a \in Algo, NEW ids \in SUBSET PartIds(r)
    PROVE Digests(r, a, ids) \in SUBSET Nat /\ IsFiniteSet(Digests(r, a, ids))
<1> DEFINE db == Db[r][a]
           All == UNION Range(db)
<1>1. db \in Seq(SUBSET Nat) /\ \A i \in DOMAIN db : IsFiniteSet(db[i])
  BY FeedAssumption
<1>2. DOMAIN db = 1..Len(db) /\ Len(db) \in Nat BY <1>1, LenProperties
<1>3. \A i \in DOMAIN db : db[i] \in SUBSET Nat BY <1>1, <1>2, ElementOfSeq
<1>4. IsFiniteSet(Range(db))
  <2>1. IsFiniteSet(DOMAIN db) BY <1>2, FS_Interval
  <2>2. db \in Surjection(DOMAIN db, Range(db)) BY <1>1 DEF Surjection, Range
  <2>3. QED BY <2>1, <2>2, FS_Surjection
<1> HIDE DEF db
<1>5. \A T \in Range(db) : IsFiniteSet(T) BY <1>1 DEF Range
<1>6. IsFiniteSet(All) BY <1>4, <1>5, FS_UNION
<1>7. All \in SUBSET Nat BY <1>3 DEF Range
<1>8. \A id \in ids : id[1] = a => id[2] \in DOMAIN db BY DEF PartIds, db
<1>9. Digests(r, a, ids) \in SUBSET All BY <1>8 DEF Digests, Range, db
<1>10. QED BY <1>6, <1>7, <1>9, FS_Subset

LEMMA PackIsPack ==
    ASSUME NEW r \in Run, NEW a \in Algo, NEW ids \in SUBSET PartIds(r)
    PROVE IsPack(Pack(r, a, ids))
<1> DEFINE S == Digests(r, a, ids)
           digests == Sorted(S)
           n == Cardinality(S)
           head == <<Header(r, n)>>
           records == [i \in 1..n |-> Record(r, digests[i])]
<1>1. S \in SUBSET Nat /\ IsFiniteSet(S) BY DigestsFinite
<1> HIDE DEF S
<1>2. n \in Nat BY <1>1, FS_CardinalityType
<1>3. \A i \in 1..n : digests[i] = Nth(S, i) BY DEF Sorted, Nth
<1>4. \A i \in 1..n : digests[i] \in Nat BY <1>1, <1>3, NthIs
<1>5. Len(digests) = n /\ DOMAIN digests = 1..n BY <1>2 DEF Sorted
<1> HIDE DEF n, digests
<1>6. Header(r, n) \in Unit /\ Header(r, n).kind = "header" /\ Header(r, n).n = n
  BY <1>2 DEF Header, Unit
<1>7. \A i \in 1..n : Record(r, digests[i]) \in Unit BY <1>4 DEF Record, Unit
<1>8. records \in Seq(Unit) /\ Len(records) = n BY <1>2, <1>7
<1>9. head \in Seq(Unit) /\ Len(head) = 1 /\ head[1] = Header(r, n) BY <1>6
<1>10. Pack(r, a, ids) = head \o records BY <1>5 DEF Pack, digests, S
<1> HIDE DEF head, records
<1>11. /\ head \o records \in Seq(Unit) /\ Len(head \o records) = 1 + n
       /\ (head \o records)[1] = Header(r, n)
  <2>1. /\ head \o records \in Seq(Unit)
        /\ Len(head \o records) = Len(head) + Len(records)
        /\ \A i \in 1..(Len(head) + Len(records)) :
              (head \o records)[i]
              = IF i <= Len(head) THEN head[i] ELSE records[i - Len(head)]
    BY <1>8, <1>9, ConcatProperties
  <2>2. 1 \in 1..(Len(head) + Len(records)) BY <1>2, <1>8, <1>9
  <2>3. QED BY <2>1, <2>2, <1>8, <1>9
<1>12. head \o records # <<>> BY <1>2, <1>11
<1>13. QED BY <1>2, <1>6, <1>10, <1>11, <1>12 DEF IsPack

\* What begins with a pack is read as that pack.
LEMMA PackIsRead ==
    ASSUME NEW file \in Seq(Unit), NEW pack, IsPack(pack), Begins(Unit, file, pack)
    PROVE Readable(file) /\ Lines(file) = Tail(pack)
<1>1. pack \in Seq(Unit) /\ pack # <<>> /\ Len(pack) \in Nat \ {0} BY EmptySeq DEF IsPack
<1>2. PICK rest \in Seq(Unit) : file = pack \o rest BY DEF Begins
<1>3. Len(rest) \in Nat BY LenProperties
<1>4. /\ Len(file) = Len(pack) + Len(rest)
      /\ \A i \in 1..Len(pack) : file[i] = pack[i]
  BY <1>1, <1>2, <1>3, ConcatProperties
<1>5. file # <<>> /\ file[1] = pack[1] BY <1>1, <1>3, <1>4
<1>6. HasHeader(file) /\ file[1].n = Len(pack) - 1 BY <1>5 DEF HasHeader, IsPack
<1> DEFINE body == Tail(file)
           tail == Tail(pack)
           n == Len(pack) - 1
<1>7. /\ body \in Seq(Unit) /\ Len(body) = Len(file) - 1
      /\ \A i \in 1..Len(body) : body[i] = file[i + 1]
  BY <1>5, HeadTailProperties
<1>8. /\ tail \in Seq(Unit) /\ Len(tail) = n
      /\ \A i \in 1..Len(tail) : tail[i] = pack[i + 1]
  BY <1>1, HeadTailProperties
<1>9. Body(file) = body BY <1>6 DEF Body
<1> HIDE DEF body, tail
<1>10. n \in Nat /\ n <= Len(body) /\ Len(body) \in Nat BY <1>1, <1>3, <1>4, <1>7
<1>11. Readable(file) BY <1>6, <1>9, <1>10 DEF Readable
<1>12. Lines(file) = SubSeq(body, 1, n) BY <1>6, <1>9 DEF Lines
<1>13. /\ SubSeq(body, 1, n) \in Seq(Unit) /\ Len(SubSeq(body, 1, n)) = n
       /\ \A i \in 1..n : SubSeq(body, 1, n)[i] = body[i]
  <2>1. \A i \in 1..n : i \in 1..Len(body) BY <1>10
  <2>2. \A i \in 1..n : body[i] \in Unit BY <2>1, <1>7, ElementOfSeq
  <2>3. 1 \in Int /\ n \in Int BY <1>10
  <2> HIDE DEF n
  <2>4. /\ SubSeq(body, 1, n) \in Seq(Unit)
        /\ Len(SubSeq(body, 1, n)) = IF 1 <= n THEN n - 1 + 1 ELSE 0
        /\ \A i \in 1..(n - 1 + 1) : SubSeq(body, 1, n)[i] = body[1 + i - 1]
    BY <2>2, <2>3, SubSeqProperties
  <2>5. n - 1 + 1 = n /\ \A i \in 1..n : 1 + i - 1 = i BY <1>10
  <2>6. Len(SubSeq(body, 1, n)) = n BY <2>4, <1>10
  <2>7. QED BY <2>4, <2>5, <2>6
<1>14. \A i \in 1..n : body[i] = tail[i]
  <2>1. TAKE i \in 1..n
  <2>2. i \in 1..Len(body) /\ i \in 1..Len(tail) /\ i + 1 \in 1..Len(pack)
    BY <1>1, <1>8, <1>10
  <2>3. QED BY <2>2, <1>4, <1>7, <1>8
<1>15. SubSeq(body, 1, n) = tail BY <1>8, <1>13, <1>14, SeqEqual
<1>16. QED BY <1>11, <1>12, <1>15 DEF tail

-----------------------------------------------------------------------------
(* The invariant. *)

SentAlgos(r) == {id[1] : id \in sent[r]}
SentPack(r, a) == Pack(r, a, sent[r])
SentSplit(r, a) == SplitFile(SentPack(r, a), DigestSize[a])

\* The assets of the parts a run uploaded; nothing else is ever made of them.
SentNames(r) == UNION {{Name(a, "bin", k) : k \in DOMAIN SentSplit(r, a)} :
                          a \in SentAlgos(r)}
IsMade(r) ==
    /\ \A a \in SentAlgos(r) : CanSplit(SentPack(r, a), DigestSize[a])
    /\ made[r] = [n \in SentNames(r) |-> SentSplit(r, n[1])[n[3]]]

\* What a run has uploaded stays as it is from its merge on.
Parts ==
    \A r \in Run :
        /\ sent[r] \subseteq PartIds(r)
        /\ scratch[r] = {} \/ {p.id : p \in scratch[r]} = sent[r]
        /\ scratch[r] # {} \/ stage[r] = "carving" => r \in releases
        /\ stage[r] \in {"waiting", "skipped", "carve", "carving", "carvefailed"} =>
              made[r] = None
        /\ made[r] = None \/ IsMade(r)
        /\ todo[r] \subseteq DOMAIN made[r]

\* A file is a piece some run made.
IsPiece(file, a, k) ==
    \E q \in Run : Name(a, "bin", k) \in DOMAIN made[q] /\ file = made[q][Name(a, "bin", k)]

\* A text asset that fits.
IsText(file, a) == file \in Seq(Unit) /\ FileSize(file, LineSize(a)) <= Limit

Feed ==
    /\ IsFiniteSet(DOMAIN feed)
    /\ \A n \in DOMAIN feed :
          /\ n \in Algo \X {"bin", "txt"} \X Nat
          /\ n[2] = "bin" => IsPiece(feed[n], n[1], n[3])
          /\ n[2] = "txt" => IsText(feed[n], n[1])

\* A download: pieces of one or more runs.
IsDownload(files, a) ==
    /\ DOMAIN files \in SUBSET Nat /\ IsFiniteSet(DOMAIN files) /\ DOMAIN files # {}
    /\ \A k \in DOMAIN files : IsPiece(files[k], a, k)

Loaded ==
    /\ DOMAIN loaded = Run /\ \A r \in Run : DOMAIN loaded[r] = Algo
    /\ \A r \in Run, a \in Algo :
          export[r][a] = "loaded" => IsDownload(loaded[r][a], a)

\* An asset a run made is in latest-feed.
Deployed(r, n) == n \in DOMAIN feed /\ feed[n] = made[r][n]

\* What a run that is alone has deployed is still there, and its exports have it.
Undisturbed ==
    \A r \in Run : alone[r] =>
        /\ stage[r] = "deploy" => \A n \in DOMAIN made[r] \ todo[r] : Deployed(r, n)
        /\ stage[r] \in {"exporting", "done"} => \A n \in DOMAIN made[r] : Deployed(r, n)
        /\ \A a \in Algo : export[r][a] = "loaded" =>
              \A k \in DOMAIN Made(r, a) :
                  k \in DOMAIN loaded[r][a] /\ loaded[r][a][k] = Made(r, a)[k]

Stages ==
    /\ stage \in [Run -> {"waiting", "skipped", "carve", "carving", "carvefailed",
                          "merge", "mergefailed", "deploy", "exporting", "done"}]
    /\ export \in [Run -> [Algo -> {"blocked", "ready", "loaded", "done", "failed"}]]
    /\ alone \in [Run -> BOOLEAN] /\ reruns \in 0..MaxReruns
    /\ DOMAIN scratch = Run /\ DOMAIN sent = Run /\ DOMAIN made = Run /\ DOMAIN todo = Run
    /\ \A r \in Run : (\E a \in Algo : export[r][a] # "blocked") =>
          stage[r] \in {"exporting", "done"}

FInv == Stages /\ Parts /\ Feed /\ Loaded /\ Undisturbed

-----------------------------------------------------------------------------
(* What runs make. *)

LEMMA SizesArePositive ==
    ASSUME NEW a \in Algo
    PROVE DigestSize[a] \in Nat \ {0} /\ LineSize(a) \in Nat \ {0}
<1>1. DigestSize[a] \in Nat \ {0} BY FeedAssumption
<1>2. QED BY <1>1 DEF LineSize

LEMMA SplitOfSent ==
    ASSUME Parts, NEW r \in Run, IsMade(r), NEW a \in SentAlgos(r)
    PROVE /\ a \in Algo
          /\ IsPack(SentPack(r, a))
          /\ IsSplit(SentSplit(r, a), SentPack(r, a))
          /\ Numbered(SentSplit(r, a), Unit)
          /\ \A k \in DOMAIN SentSplit(r, a) :
                FileSize(SentSplit(r, a)[k], DigestSize[a]) <= Limit
<1>1. sent[r] \in SUBSET PartIds(r) BY DEF Parts
<1>2. a \in Algo BY <1>1 DEF SentAlgos, PartIds
<1>3. IsPack(SentPack(r, a)) BY <1>1, <1>2, PackIsPack DEF SentPack
<1>4. SentPack(r, a) \in Seq(Unit) BY <1>3 DEF IsPack
<1>5. CanSplit(SentPack(r, a), DigestSize[a]) BY DEF IsMade
<1>6. DigestSize[a] \in Nat \ {0} BY <1>2, SizesArePositive
<1>7. /\ IsSplit(SentSplit(r, a), SentPack(r, a))
      /\ \A k \in DOMAIN SentSplit(r, a) :
            FileSize(SentSplit(r, a)[k], DigestSize[a]) <= Limit
  BY <1>4, <1>5, <1>6, SplitFits DEF SentSplit
<1>8. Numbered(SentSplit(r, a), Unit) BY <1>4, <1>7, SplitNumbered
<1>9. QED BY <1>2, <1>3, <1>7, <1>8

\* The names of the assets a run made, and what is in them.
LEMMA MadeAssets ==
    ASSUME Parts, NEW r \in Run, NEW n \in DOMAIN made[r]
    PROVE /\ IsMade(r) /\ n[1] \in SentAlgos(r) /\ n[3] \in DOMAIN SentSplit(r, n[1])
          /\ n = Name(n[1], "bin", n[3])
          /\ made[r][n] = SentSplit(r, n[1])[n[3]]
<1>1. made[r] # None BY DEF None
<1>2. IsMade(r) BY <1>1 DEF Parts
<1>3. n \in SentNames(r) /\ made[r][n] = SentSplit(r, n[1])[n[3]] BY <1>2 DEF IsMade
<1>4. PICK a \in SentAlgos(r) : \E k \in DOMAIN SentSplit(r, a) : n = Name(a, "bin", k)
  BY <1>3 DEF SentNames
<1>5. PICK k \in DOMAIN SentSplit(r, a) : n = Name(a, "bin", k) BY <1>4
<1>6. n[1] = a /\ n[3] = k BY <1>5 DEF Name
<1>7. QED BY <1>2, <1>3, <1>5, <1>6

LEMMA MadeFits ==
    ASSUME Parts, NEW r \in Run, NEW n \in DOMAIN made[r]
    PROVE /\ n[1] \in Algo /\ n[2] = "bin" /\ n[3] \in Nat
          /\ made[r][n] \in Seq(Unit)
          /\ FileSize(made[r][n], DigestSize[n[1]]) <= Limit
<1>1. /\ IsMade(r) /\ n[1] \in SentAlgos(r) /\ n[3] \in DOMAIN SentSplit(r, n[1])
      /\ n = Name(n[1], "bin", n[3]) /\ made[r][n] = SentSplit(r, n[1])[n[3]]
  BY MadeAssets
<1>2. /\ n[1] \in Algo /\ Numbered(SentSplit(r, n[1]), Unit)
      /\ \A k \in DOMAIN SentSplit(r, n[1]) :
            FileSize(SentSplit(r, n[1])[k], DigestSize[n[1]]) <= Limit
  BY <1>1, SplitOfSent
<1>3. n[2] = "bin" BY <1>1 DEF Name
<1>4. QED BY <1>1, <1>2, <1>3 DEF Numbered

\* The .bin assets of an algorithm: none, or the pieces of the run's pack.
LEMMA MadeIsSplit ==
    ASSUME Parts, NEW r \in Run, NEW a \in Algo, DOMAIN Made(r, a) # {}
    PROVE IsMade(r) /\ a \in SentAlgos(r) /\ Made(r, a) = SentSplit(r, a)
<1> DEFINE names == {m \in DOMAIN made[r] : m[1] = a /\ m[2] = "bin"}
           nums == {n[3] : n \in names}
<1>1. Made(r, a) = [k \in nums |-> made[r][Name(a, "bin", k)]] BY DEF Made, Files
<1>2. PICK n \in DOMAIN made[r] : n[1] = a BY <1>1
<1>3. IsMade(r) /\ a \in SentAlgos(r) BY <1>2, MadeAssets
<1>4. DOMAIN made[r] = SentNames(r) BY <1>3 DEF IsMade
<1>5. nums = DOMAIN SentSplit(r, a)
  <2>1. ASSUME NEW k \in nums PROVE k \in DOMAIN SentSplit(r, a)
    <3>1. PICK n1 \in names : k = n1[3] OBVIOUS
    <3>2. n1 \in DOMAIN made[r] /\ n1[1] = a OBVIOUS
    <3>3. QED BY <3>1, <3>2, MadeAssets
  <2>2. ASSUME NEW k \in DOMAIN SentSplit(r, a) PROVE k \in nums
    <3>1. Name(a, "bin", k) \in DOMAIN made[r] BY <1>3, <1>4 DEF SentNames
    <3>2. Name(a, "bin", k)[1] = a /\ Name(a, "bin", k)[2] = "bin"
          /\ Name(a, "bin", k)[3] = k
      BY DEF Name
    <3>3. QED BY <3>1, <3>2
  <2>3. QED BY <2>1, <2>2
<1>6. ASSUME NEW k \in DOMAIN SentSplit(r, a)
      PROVE made[r][Name(a, "bin", k)] = SentSplit(r, a)[k]
  <2>1. Name(a, "bin", k) \in SentNames(r) BY <1>3 DEF SentNames
  <2>2. Name(a, "bin", k)[1] = a /\ Name(a, "bin", k)[3] = k BY DEF Name
  <2>3. QED BY <1>3, <2>1, <2>2 DEF IsMade
<1>7. SentSplit(r, a) = [k \in DOMAIN SentSplit(r, a) |-> SentSplit(r, a)[k]]
  <2>1. IsSplit(SentSplit(r, a), SentPack(r, a)) BY <1>3, SplitOfSent
  <2> DEFINE P == SentSplit(r, a)
  <2> HIDE DEF P
  <2>2. CASE P = [k \in {0} |-> SentPack(r, a)] BY <2>2 DEF P
  <2>3. ASSUME NEW per \in Nat \ {0}, NEW m \in Nat, Cuts(P, SentPack(r, a), per, m)
        PROVE P = [k \in DOMAIN P |-> P[k]]
    BY <2>3 DEF Cuts
  <2>4. QED BY <2>1, <2>2, <2>3 DEF IsSplit, P
<1>8. QED BY <1>1, <1>3, <1>5, <1>6, <1>7

\* Whatever is put together of the parts a run made is its pack.
LEMMA PieceOfPack ==
    ASSUME Parts, NEW file, NEW a \in Algo, NEW k, IsPiece(file, a, k)
    PROVE /\ k \in Nat /\ file \in Seq(Unit)
          /\ FileSize(file, DigestSize[a]) <= Limit
          /\ k = 0 => \E q \in Run : /\ IsPack(SentPack(q, a)) /\ sent[q] \subseteq PartIds(q)
                                     /\ file = SentPack(q, a)
<1> DEFINE n == Name(a, "bin", k)
<1>1. PICK q \in Run : n \in DOMAIN made[q] /\ file = made[q][n] BY DEF IsPiece
<1>2. n[1] = a /\ n[3] = k BY DEF Name
<1> HIDE DEF n
<1>3. k \in Nat /\ file \in Seq(Unit) /\ FileSize(file, DigestSize[a]) <= Limit
  BY <1>1, <1>2, MadeFits
<1>4. /\ IsMade(q) /\ a \in SentAlgos(q) /\ k \in DOMAIN SentSplit(q, a)
      /\ file = SentSplit(q, a)[k]
  BY <1>1, <1>2, MadeAssets
<1>5. IsPack(SentPack(q, a)) /\ IsSplit(SentSplit(q, a), SentPack(q, a))
  BY <1>4, SplitOfSent
<1>6. ASSUME k = 0 PROVE file = SentPack(q, a)
  <2>1. CASE SentSplit(q, a) = [j \in {0} |-> SentPack(q, a)] BY <1>4, <1>6, <2>1
  <2>2. ASSUME NEW per \in Nat \ {0}, NEW m \in Nat,
               Cuts(SentSplit(q, a), SentPack(q, a), per, m)
        PROVE FALSE
    <3>1. DOMAIN SentSplit(q, a) = 1..m BY <2>2 DEF Cuts
    <3>2. QED BY <3>1, <1>4, <1>6
  <2>3. QED BY <2>1, <2>2, <1>5 DEF IsSplit
<1>7. sent[q] \subseteq PartIds(q) BY DEF Parts
<1>8. QED BY <1>3, <1>5, <1>6, <1>7

-----------------------------------------------------------------------------
(* What follows from the invariant. *)

LEMMA UnitsAreOfRuns ==
    ASSUME NEW file \in Seq(Unit) PROVE FileOf(file)
<1>1. \A i \in DOMAIN file : file[i] \in Unit BY LenProperties, ElementOfSeq
<1>2. QED BY <1>1 DEF FileOf, Unit

LEMMA InvTypes == FInv => TypeOK
<1> SUFFICES ASSUME FInv PROVE TypeOK
  OBVIOUS
<1>0. Stages /\ Parts /\ Feed BY DEF FInv
<1>1. ASSUME NEW r \in Run
      PROVE /\ \A p \in scratch[r] : r \in releases /\ p.id \in sent[r]
            /\ sent[r] \subseteq PartIds(r)
            /\ todo[r] \subseteq DOMAIN made[r]
            /\ (\E a \in Algo : export[r][a] # "blocked") => stage[r] \in {"exporting", "done"}
  <2>1. \A p \in scratch[r] : r \in releases /\ p.id \in sent[r]
    BY <1>0 DEF Parts
  <2>2. QED BY <1>0, <2>1 DEF Parts, Stages
<1>2. ASSUME NEW n \in DOMAIN feed
      PROVE n[1] \in Algo /\ n[2] \in {"bin", "txt"} /\ n[3] \in Nat /\ FileOf(feed[n])
  <2>1. n \in Algo \X {"bin", "txt"} \X Nat BY <1>0 DEF Feed
  <2>2. n[1] \in Algo /\ n[2] \in {"bin", "txt"} /\ n[3] \in Nat BY <2>1
  <2>3. feed[n] \in Seq(Unit)
    <3>1. CASE n[2] = "bin"
      <4>1. IsPiece(feed[n], n[1], n[3]) BY <1>0, <3>1 DEF Feed
      <4>2. QED BY <1>0, <2>2, <4>1, PieceOfPack
    <3>2. CASE n[2] = "txt" BY <1>0, <3>2 DEF Feed, IsText
    <3>3. QED BY <2>2, <3>1, <3>2
  <2>4. QED BY <2>2, <2>3, UnitsAreOfRuns
<1>3. QED BY <1>0, <1>1, <1>2 DEF TypeOK, Stages

LEMMA InvPieces == FInv => PiecesFit
<1> SUFFICES ASSUME FInv, NEW n \in DOMAIN feed
             PROVE FileSize(feed[n], IF n[2] = "bin" THEN DigestSize[n[1]] ELSE LineSize(n[1]))
                      <= Limit
  BY DEF PiecesFit
<1>0. Parts /\ Feed BY DEF FInv
<1>1. n[1] \in Algo /\ n[2] \in {"bin", "txt"} BY <1>0 DEF Feed
<1>2. CASE n[2] = "bin"
  <2>1. IsPiece(feed[n], n[1], n[3]) BY <1>0, <1>2 DEF Feed
  <2>2. QED BY <1>0, <1>1, <1>2, <2>1, PieceOfPack
<1>3. CASE n[2] # "bin"
  <2>1. IsText(feed[n], n[1]) BY <1>0, <1>1, <1>3 DEF Feed
  <2>2. QED BY <1>3, <2>1 DEF IsText
<1>4. QED BY <1>2, <1>3

LEMMA InvPacks == FInv => PacksExact
<1> SUFFICES ASSUME FInv, NEW r \in Run, NEW a \in Algo, DOMAIN Made(r, a) # {}
             PROVE Cat(Made(r, a)) = Pack(r, a, sent[r])
  BY DEF PacksExact
<1>0. Parts BY DEF FInv
<1>1. IsMade(r) /\ a \in SentAlgos(r) /\ Made(r, a) = SentSplit(r, a)
  BY <1>0, MadeIsSplit
<1>2. /\ IsPack(SentPack(r, a)) /\ IsSplit(SentSplit(r, a), SentPack(r, a))
      /\ Numbered(SentSplit(r, a), Unit)
  BY <1>0, <1>1, SplitOfSent
<1>3. SentPack(r, a) \in Seq(Unit) BY <1>2 DEF IsPack
<1>4. Cat(SentSplit(r, a)) = SentPack(r, a) BY <1>1, <1>2, <1>3, CatSplit
<1>5. QED BY <1>1, <1>4 DEF SentPack

LEMMA DownloadIsFile ==
    ASSUME Parts, NEW a \in Algo, NEW files, IsDownload(files, a)
    PROVE Cat(files) \in Seq(Unit)
<1>1. Numbered(files, Unit) BY PieceOfPack DEF IsDownload, Numbered
<1>2. QED BY <1>1, CatOfFiles DEF IsDownload

\* A file that begins with a pack is read as that pack.
LEMMA BeginningIsRead ==
    ASSUME NEW p \in Run, NEW a \in Algo, NEW file \in Seq(Unit), IsPack(SentPack(p, a)),
           Begins(Unit, file, SentPack(p, a))
    PROVE Readable(file) /\ Lines(file) = Tail(Pack(p, a, sent[p]))
  BY PackIsRead DEF SentPack

\* A download with all parts of a run's pack begins with that pack, unless an
\* unsplit file of another run is before them.
LEMMA OwnBegins ==
    ASSUME Parts, NEW q \in Run, NEW a \in Algo, NEW files, IsDownload(files, a),
           HasPack(files, q, a), ~Shadowed(files, q, a)
    PROVE IsPack(SentPack(q, a)) /\ Begins(Unit, Cat(files), SentPack(q, a))
<1>1. Numbered(files, Unit) BY PieceOfPack DEF IsDownload, Numbered
<1>2. DOMAIN Made(q, a) # {} /\ \A k \in DOMAIN Made(q, a) :
          k \in DOMAIN files /\ files[k] = Made(q, a)[k]
  BY DEF HasPack
<1>3. IsMade(q) /\ a \in SentAlgos(q) /\ Made(q, a) = SentSplit(q, a)
  BY <1>2, MadeIsSplit
<1> DEFINE P == SentSplit(q, a)
<1>4. IsPack(SentPack(q, a)) /\ IsSplit(P, SentPack(q, a)) BY <1>3, SplitOfSent
<1>5. SentPack(q, a) \in Seq(Unit) BY <1>4 DEF IsPack
<1>6. DOMAIN P # {} /\ DOMAIN P \subseteq DOMAIN files /\ \A k \in DOMAIN P : files[k] = P[k]
  BY <1>2, <1>3
<1>7. 0 \in DOMAIN files => 0 \in DOMAIN P BY <1>3 DEF Shadowed
<1> HIDE DEF P
<1>8. CASE 0 \in DOMAIN files
  <2>1. 0 \in DOMAIN P BY <1>7, <1>8
  <2>2. ASSUME NEW per \in Nat \ {0}, NEW m \in Nat, Cuts(P, SentPack(q, a), per, m)
        PROVE FALSE
    BY <2>1, <2>2 DEF Cuts
  <2>3. P = [k \in {0} |-> SentPack(q, a)] BY <1>4, <2>2 DEF IsSplit
  <2>4. files[0] = SentPack(q, a) BY <1>6, <2>1, <2>3
  <2>5. QED BY <1>1, <1>4, <1>8, <2>4, CatZero
<1>9. CASE 0 \notin DOMAIN files
  <2>1. Begins(Unit, Cat(files), SentPack(q, a)) BY <1>1, <1>4, <1>5, <1>6, <1>9, CatSplit
  <2>2. QED BY <1>4, <2>1
<1>10. QED BY <1>8, <1>9

LEMMA InvTexts == FInv => NoMixedText
<1> SUFFICES ASSUME FInv, NEW r \in Run, NEW a \in Algo, export[r][a] = "loaded",
                    NEW q \in Run, HasPack(loaded[r][a], q, a)
             PROVE /\ Readable(Whole(r, a))
                   /\ \E p \in Run : Lines(Whole(r, a)) = Tail(Pack(p, a, sent[p]))
                   /\ alone[r] /\ DOMAIN Made(r, a) # {} /\ ~Shadowed(loaded[r][a], r, a) =>
                         Lines(Whole(r, a)) = Tail(Pack(r, a, sent[r]))
  BY DEF NoMixedText
<1> DEFINE files == loaded[r][a]
<1>1. Parts /\ IsDownload(files, a) BY DEF FInv, Loaded
<1>2. Whole(r, a) = Cat(files) BY DEF Whole
<1>3. HasPack(files, q, a) OBVIOUS
<1>4. Cat(files) \in Seq(Unit) BY <1>1, DownloadIsFile
<1>5. alone[r] /\ DOMAIN Made(r, a) # {} => HasPack(files, r, a)
  BY DEF FInv, Undisturbed, HasPack
<1> HIDE DEF files
<1>6. \E p \in Run : IsPack(SentPack(p, a)) /\ Begins(Unit, Cat(files), SentPack(p, a))
  <2>1. CASE Shadowed(files, q, a)
    <3>1. 0 \in DOMAIN files BY <2>1 DEF Shadowed
    <3>2. Numbered(files, Unit) /\ IsPiece(files[0], a, 0)
      BY <1>1, <3>1, PieceOfPack DEF IsDownload, Numbered
    <3>3. PICK p \in Run : IsPack(SentPack(p, a)) /\ files[0] = SentPack(p, a)
      BY <1>1, <3>2, PieceOfPack
    <3>4. QED BY <3>1, <3>2, <3>3, CatZero
  <2>2. CASE ~Shadowed(files, q, a) BY <1>1, <1>3, <2>2, OwnBegins
  <2>3. QED BY <2>1, <2>2
<1>7. Readable(Cat(files)) /\ \E p \in Run : Lines(Cat(files)) = Tail(Pack(p, a, sent[p]))
  BY <1>4, <1>6, BeginningIsRead
<1>8. ASSUME alone[r], DOMAIN Made(r, a) # {}, ~Shadowed(files, r, a)
      PROVE Lines(Cat(files)) = Tail(Pack(r, a, sent[r]))
  <2>1. IsPack(SentPack(r, a)) /\ Begins(Unit, Cat(files), SentPack(r, a))
    BY <1>1, <1>5, <1>8, OwnBegins
  <2>2. QED BY <1>4, <2>1, BeginningIsRead
<1>9. QED BY <1>2, <1>7, <1>8 DEF files

LEMMA InvExports == FInv => ExportAfterDeploy
  BY DEF FInv, Undisturbed, ExportAfterDeploy, HasPack

-----------------------------------------------------------------------------
(* The initial states. *)

LEMMA InitFInv == Init => FInv
<1> SUFFICES ASSUME Init PROVE FInv
  OBVIOUS
<1>1. DOMAIN None = {} BY DEF None
<1>2. Stages BY FeedAssumption DEF Init, Stages
<1>3. Parts BY <1>1 DEF Init, Parts
<1>4. Feed BY <1>1, FS_EmptySet DEF Init, Feed
<1>5. Loaded BY DEF Init, Loaded
<1>6. Undisturbed BY DEF Init, Undisturbed
<1>7. QED BY <1>2, <1>3, <1>4, <1>5, <1>6 DEF FInv

-----------------------------------------------------------------------------
(* The steps: stages and exports. *)

LEMMA StagesStep ==
    ASSUME Stages, Next PROVE Stages'
<1> USE DEF Stages, mergeVars, scratchVars, exportVars
<1>1. ASSUME NEW r \in Run,
             \/ ProbeFits(r) \/ ProbeRefuses(r) \/ CreateScratch(r) \/ CarveEnds(r)
             \/ CarveFails(r) \/ MergeFails(r)
      PROVE Stages'
  <2>1. /\ UNCHANGED <<export, alone, reruns, made, todo>>
        /\ DOMAIN scratch' = Run /\ DOMAIN sent' = Run
        /\ stage[r] \in {"waiting", "carve", "carving", "merge"}
        /\ \E to \in {"carve", "skipped", "carving", "merge", "carvefailed",
                      "mergefailed"} : Go(r, to)
    BY <1>1 DEF ProbeFits, ProbeRefuses, CreateScratch, CarveEnds, CarveFails, MergeFails,
                DeleteScratch, Upload
  <2>2. PICK to \in {"carve", "skipped", "carving", "merge", "carvefailed",
                     "mergefailed"} : stage' = [stage EXCEPT ![r] = to]
    BY <2>1 DEF Go
  <2>3. \A a \in Algo : export[r][a] = "blocked" BY <2>1
  <2>4. QED BY <2>1, <2>2, <2>3
<1>2. ASSUME NEW r \in Run, MergeParts(r) PROVE Stages'
  <2>1. /\ UNCHANGED <<export, reruns, scratch, sent>>
        /\ DOMAIN made' = Run /\ DOMAIN todo' = Run /\ alone' \in [Run -> BOOLEAN]
        /\ stage[r] = "merge" /\ stage' = [stage EXCEPT ![r] = "deploy"]
    BY <1>2 DEF MergeParts, Go
  <2>2. \A a \in Algo : export[r][a] = "blocked" BY <2>1
  <2>3. QED BY <2>1, <2>2
<1>3. ASSUME NEW r \in Run, NEW n \in todo[r], Withdraw(r, n) \/ Deploy(r, n)
      PROVE Stages'
  <2>1. /\ UNCHANGED <<stage, export, reruns, scratch, sent, made>>
        /\ DOMAIN todo' = Run /\ alone' \in [Run -> BOOLEAN]
    BY <1>3 DEF Withdraw, Deploy, Others
  <2>2. QED BY <2>1
<1>4. ASSUME NEW r \in Run, DeployEnds(r) PROVE Stages'
  <2>1. /\ UNCHANGED <<alone, reruns, sent, made, todo>> /\ DOMAIN scratch' = Run
        /\ stage' = [stage EXCEPT ![r] = "exporting"]
        /\ export' = [export EXCEPT ![r] = [a \in Algo |-> "ready"]]
    BY <1>4 DEF DeployEnds, DeleteScratch, Go, Unblocked
  <2>2. QED BY <2>1
<1>5. ASSUME NEW r \in Run, DeployFails(r) PROVE Stages'
  <2>1. /\ UNCHANGED <<export, alone, reruns, sent, made, todo>> /\ DOMAIN scratch' = Run
        /\ stage[r] = "deploy" /\ stage' = [stage EXCEPT ![r] = "mergefailed"]
    BY <1>5 DEF DeployFails, DeleteScratch, Go, StillBlocked
  <2>2. \A a \in Algo : export[r][a] = "blocked" BY <2>1
  <2>3. QED BY <2>1, <2>2
<1>6. ASSUME NEW r \in Run, NEW a \in Algo,
             Download(r, a) \/ ExportText(r, a) \/ ExportFails(r, a)
      PROVE Stages'
  <2>1. /\ UNCHANGED <<stage, alone, reruns, sent, made, todo, scratch>>
        /\ export[r][a] \in {"ready", "loaded"}
        /\ \E to \in {"loaded", "done", "failed"} : export' = [export EXCEPT ![r][a] = to]
    BY <1>6 DEF Download, ExportText, ExportFails, At
  <2>2. PICK to \in {"loaded", "done", "failed"} : export' = [export EXCEPT ![r][a] = to]
    BY <2>1
  <2>3. export' \in [Run -> [Algo -> {"blocked", "ready", "loaded", "done", "failed"}]]
    BY <2>2
  <2>4. \A q \in Run, b \in Algo : export'[q][b] # "blocked" => export[q][b] # "blocked"
    BY <2>1, <2>2
  <2>5. QED BY <2>1, <2>3, <2>4
<1>7. ASSUME NEW r \in Run, PublishNotes(r) PROVE Stages'
  <2>1. /\ UNCHANGED <<export, alone, reruns, sent, made, todo, scratch>>
        /\ stage' = [stage EXCEPT ![r] = "done"]
    BY <1>7 DEF PublishNotes, Go
  <2>2. QED BY <2>1
<1>8. ASSUME NEW r \in Run, Rerun(r) PROVE Stages'
  <2>1. /\ UNCHANGED <<alone, sent, made, todo, scratch>> /\ reruns' \in 0..MaxReruns
    <3>1. MaxReruns \in Nat BY FeedAssumption
    <3>2. reruns < MaxReruns /\ reruns' = reruns + 1 /\ UNCHANGED <<alone, sent, made, todo, scratch>>
      BY <1>8 DEF Rerun
    <3>3. QED BY <3>1, <3>2
  <2>2. CASE /\ UNCHANGED export
             /\ \/ stage[r] = "carvefailed" /\ stage' = [stage EXCEPT ![r] = "carve"]
                \/ stage[r] = "mergefailed" /\ stage' = [stage EXCEPT ![r] = "merge"]
    <3>1. \A a \in Algo : export[r][a] = "blocked" BY <2>2
    <3>2. QED BY <2>1, <2>2, <3>1
  <2>3. CASE \E a \in Algo : At(r, a, "failed", "ready") /\ UNCHANGED stage
    <3>1. PICK a \in Algo : /\ export[r][a] = "failed" /\ UNCHANGED stage
                            /\ export' = [export EXCEPT ![r][a] = "ready"]
      BY <2>3 DEF At
    <3>2. export' \in [Run -> [Algo -> {"blocked", "ready", "loaded", "done", "failed"}]]
      BY <3>1
    <3>3. \A q \in Run, b \in Algo : export'[q][b] # "blocked" => export[q][b] # "blocked"
      BY <3>1
    <3>4. QED BY <2>1, <3>1, <3>2, <3>3
  <2>4. QED BY <1>8, <2>2, <2>3 DEF Rerun, Go
<1>9. CASE Rest BY <1>9 DEF Rest, vars
<1>10. QED BY <1>1, <1>2, <1>3, <1>4, <1>5, <1>6, <1>7, <1>8, <1>9 DEF Next, RunStep

-----------------------------------------------------------------------------
(* The steps: parts and assets. *)

\* What a run made, it has made after the step.
Kept == \A q \in Run : \A n \in DOMAIN made[q] :
            n \in DOMAIN made'[q] /\ made'[q][n] = made[q][n]

LEMMA MadeStays ==
    ASSUME NEW q \in Run, IsMade(q), sent'[q] = sent[q], made'[q] = made[q]
    PROVE IsMade(q)'
<1>1. SentAlgos(q)' = SentAlgos(q) BY DEF SentAlgos
<1>2. \A a : SentPack(q, a)' = SentPack(q, a) BY DEF SentPack
<1>3. \A a : SentSplit(q, a)' = SentSplit(q, a) BY <1>2 DEF SentSplit
<1>4. SentNames(q)' = SentNames(q) BY <1>1, <1>3 DEF SentNames
<1>5. QED BY <1>1, <1>2, <1>3, <1>4 DEF IsMade

\* Steps that leave the parts and the assets of all runs as they are, or delete
\* the scratch release of one.
LEMMA PartsFrame ==
    ASSUME Parts, UNCHANGED <<sent, made>>,
           \A q \in Run : /\ scratch'[q] \in {{}, scratch[q]}
                          /\ scratch'[q] # {} \/ stage'[q] = "carving" => q \in releases'
                          /\ todo'[q] \subseteq todo[q]
                          /\ stage'[q] \in {"waiting", "skipped", "carve", "carving",
                                            "carvefailed"} => made[q] = None
    PROVE Parts' /\ Kept
<1>1. ASSUME NEW q \in Run
      PROVE /\ sent'[q] \subseteq PartIds(q)
            /\ scratch'[q] = {} \/ {p.id : p \in scratch'[q]} = sent'[q]
            /\ scratch'[q] # {} \/ stage'[q] = "carving" => q \in releases'
            /\ stage'[q] \in {"waiting", "skipped", "carve", "carving", "carvefailed"} =>
                  made'[q] = None
            /\ made'[q] = None \/ IsMade(q)'
            /\ todo'[q] \subseteq DOMAIN made'[q]
  <2>1. made[q] = None \/ IsMade(q)' BY MadeStays DEF Parts
  <2>2. QED BY <2>1 DEF Parts
<1>2. Parts' BY <1>1 DEF Parts
<1>3. QED BY <1>2 DEF Kept

LEMMA UploadIds ==
    ASSUME NEW r \in Run, Upload(r), DOMAIN scratch = Run, DOMAIN sent = Run
    PROVE /\ sent'[r] \subseteq PartIds(r)
          /\ {p.id : p \in scratch'[r]} = sent'[r]
          /\ \A q \in Run \ {r} : sent'[q] = sent[q] /\ scratch'[q] = scratch[q]
<1>1. PICK ids \in SUBSET PartIds(r), short \in SUBSET PartIds(r) :
          /\ scratch' = [scratch EXCEPT ![r] = {Part(id, id \in short) : id \in ids}]
          /\ sent' = [sent EXCEPT ![r] = ids]
  BY DEF Upload
<1>2. scratch'[r] = {Part(id, id \in short) : id \in ids} /\ sent'[r] = ids BY <1>1
<1>3. \A id, torn : Part(id, torn).id = id BY DEF Part
<1>4. {p.id : p \in scratch'[r]} = ids BY <1>2, <1>3
<1>5. QED BY <1>1, <1>2, <1>4

LEMMA MergeMakes ==
    ASSUME Stages, Parts, NEW r \in Run, MergeParts(r)
    PROVE /\ IsMade(r)'
          /\ todo'[r] = DOMAIN made'[r]
          /\ \A q \in Run \ {r} : made'[q] = made[q] /\ todo'[q] = todo[q]
<1> DEFINE split(a) == SplitFile(Pack(r, a, Intact(scratch[r])), DigestSize[a])
           names == UNION {{Name(a, "bin", k) : k \in DOMAIN split(a)} :
                              a \in Algos(scratch[r])}
<1>1. /\ Mergeable(r) /\ sent' = sent
      /\ made' = [made EXCEPT ![r] = [n \in names |-> split(n[1])[n[3]]]]
      /\ todo' = [todo EXCEPT ![r] = names]
  BY DEF MergeParts, scratchVars
<1>2. scratch[r] # {} /\ \A p \in scratch[r] : ~p.torn
  BY <1>1 DEF Mergeable, Refused
<1>3. Intact(scratch[r]) = {p.id : p \in scratch[r]} BY <1>2 DEF Intact
<1>4. Intact(scratch[r]) = sent[r] BY <1>2, <1>3 DEF Parts
<1>5. Algos(scratch[r]) = SentAlgos(r)
  BY <1>3, <1>4 DEF Algos, SentAlgos
<1>6. \A a : split(a) = SentSplit(r, a) BY <1>4 DEF SentSplit, SentPack
<1>7. \A a \in SentAlgos(r) : CanSplit(SentPack(r, a), DigestSize[a])
  BY <1>1, <1>4, <1>5 DEF Mergeable, SentPack
<1> HIDE DEF split
<1>8. names = SentNames(r) BY <1>5, <1>6 DEF SentNames
<1>9. [n \in names |-> split(n[1])[n[3]]] = [n \in SentNames(r) |-> SentSplit(r, n[1])[n[3]]]
  BY <1>6, <1>8
<1> HIDE DEF names
<1>10. DOMAIN made = Run /\ DOMAIN todo = Run BY DEF Stages
<1>11. made'[r] = [n \in SentNames(r) |-> SentSplit(r, n[1])[n[3]]] /\ todo'[r] = SentNames(r)
  BY <1>1, <1>8, <1>9, <1>10
<1>12. IsMade(r)'
  <2>1. SentAlgos(r)' = SentAlgos(r) BY <1>1 DEF SentAlgos
  <2>2. \A a : SentPack(r, a)' = SentPack(r, a) BY <1>1 DEF SentPack
  <2>3. \A a : SentSplit(r, a)' = SentSplit(r, a) BY <2>2 DEF SentSplit
  <2>4. SentNames(r)' = SentNames(r) BY <2>1, <2>3 DEF SentNames
  <2>5. QED BY <1>7, <1>11, <2>1, <2>2, <2>3, <2>4 DEF IsMade
<1>13. QED BY <1>1, <1>10, <1>11, <1>12

LEMMA PartsStep ==
    ASSUME Stages, Parts, Next PROVE Parts' /\ Kept
<1> USE DEF mergeVars, scratchVars, exportVars
<1>1. ASSUME NEW r \in Run,
             \/ ProbeFits(r) \/ ProbeRefuses(r) \/ CreateScratch(r) \/ CarveFails(r)
             \/ MergeFails(r) \/ DeployEnds(r) \/ DeployFails(r) \/ PublishNotes(r)
             \/ Rerun(r)
      PROVE Parts' /\ Kept
  <2>1. UNCHANGED <<sent, made, todo>>
    BY <1>1 DEF ProbeFits, ProbeRefuses, CreateScratch, CarveFails, MergeFails, DeployEnds,
                DeployFails, PublishNotes, Rerun
  <2>2. \/ UNCHANGED <<releases, scratch>>
        \/ releases' = releases \union {r} /\ UNCHANGED scratch /\ r \notin releases
        \/ releases' = releases \ {r} /\ scratch' = [scratch EXCEPT ![r] = {}]
    BY <1>1 DEF ProbeFits, ProbeRefuses, CreateScratch, CarveFails, MergeFails, DeployEnds,
                DeployFails, PublishNotes, Rerun, DeleteScratch
  <2>3. ASSUME NEW q \in Run
        PROVE /\ scratch'[q] \in {{}, scratch[q]}
              /\ scratch'[q] # {} \/ stage'[q] = "carving" => q \in releases'
    <3>1. scratch'[q] \in {{}, scratch[q]} BY <2>2 DEF Stages
    <3>2. CASE CreateScratch(r) BY <3>2 DEF CreateScratch, Go, Stages, Parts
    <3>3. CASE ~CreateScratch(r)
      <4>1. stage'[r] # "carving" /\ (q # r => stage'[q] = stage[q])
        BY <1>1, <3>3 DEF ProbeFits, ProbeRefuses, CarveFails, MergeFails, DeployEnds,
                          DeployFails, PublishNotes, Rerun, At, Go, Stages
      <4>2. \/ UNCHANGED <<releases, scratch>>
            \/ releases' = releases \ {r} /\ scratch' = [scratch EXCEPT ![r] = {}]
        BY <1>1, <3>3 DEF ProbeFits, ProbeRefuses, CarveFails, MergeFails, DeployEnds,
                          DeployFails, PublishNotes, Rerun, DeleteScratch
      <4>3. CASE q = r BY <4>1, <4>2, <4>3 DEF Parts, Stages
      <4>4. CASE q # r BY <4>1, <4>2, <4>4 DEF Parts, Stages
      <4>5. QED BY <4>3, <4>4
    <3>4. QED BY <3>1, <3>2, <3>3
  <2>4. ASSUME NEW q \in Run,
               stage'[q] \in {"waiting", "skipped", "carve", "carving", "carvefailed"}
        PROVE stage[q] \in {"waiting", "skipped", "carve", "carving", "carvefailed"}
    BY <1>1, <2>4 DEF ProbeFits, ProbeRefuses, CreateScratch, CarveFails, MergeFails,
                      DeployEnds, DeployFails, PublishNotes, Rerun, Go, Stages
  <2>5. \A q \in Run :
           stage'[q] \in {"waiting", "skipped", "carve", "carving", "carvefailed"} =>
              made[q] = None
    BY <2>4 DEF Parts
  <2>6. QED BY <2>1, <2>3, <2>5, PartsFrame
<1>2. ASSUME NEW r \in Run, CarveEnds(r) PROVE Parts' /\ Kept
  <2>1. /\ stage[r] = "carving" /\ stage' = [stage EXCEPT ![r] = "merge"] /\ Upload(r)
        /\ UNCHANGED <<releases, made, todo>>
    BY <1>2 DEF CarveEnds, Go
  <2>2. /\ sent'[r] \subseteq PartIds(r)
        /\ {p.id : p \in scratch'[r]} = sent'[r]
        /\ \A q \in Run \ {r} : sent'[q] = sent[q] /\ scratch'[q] = scratch[q]
    BY <2>1, UploadIds DEF Stages
  <2>3. made[r] = None /\ stage'[r] = "merge" BY <2>1 DEF Parts, Stages
  <2>4. ASSUME NEW q \in Run, q # r PROVE made'[q] = None \/ IsMade(q)'
    BY <2>1, <2>2, <2>4, MadeStays DEF Parts
  <2>5. r \in releases' BY <2>1 DEF Parts
  <2>6. ASSUME NEW q \in Run
        PROVE /\ sent'[q] \subseteq PartIds(q)
              /\ scratch'[q] = {} \/ {p.id : p \in scratch'[q]} = sent'[q]
              /\ scratch'[q] # {} \/ stage'[q] = "carving" => q \in releases'
              /\ stage'[q] \in {"waiting", "skipped", "carve", "carving", "carvefailed"} =>
                    made'[q] = None
              /\ made'[q] = None \/ IsMade(q)'
              /\ todo'[q] \subseteq DOMAIN made'[q]
    <3>1. CASE q = r BY <2>1, <2>2, <2>3, <2>5, <3>1 DEF Parts, Stages
    <3>2. CASE q # r BY <2>1, <2>2, <2>4, <3>2 DEF Parts, Stages
    <3>3. QED BY <3>1, <3>2
  <2>7. Parts' BY <2>6 DEF Parts
  <2>8. QED BY <2>1, <2>7 DEF Kept
<1>3. ASSUME NEW r \in Run, MergeParts(r) PROVE Parts' /\ Kept
  <2>1. /\ IsMade(r)' /\ todo'[r] = DOMAIN made'[r]
        /\ \A q \in Run \ {r} : made'[q] = made[q] /\ todo'[q] = todo[q]
    BY <1>3, MergeMakes
  <2>2. /\ UNCHANGED <<releases, scratch, sent>> /\ stage' = [stage EXCEPT ![r] = "deploy"]
    BY <1>3 DEF MergeParts, Go
  <2>3. ASSUME NEW q \in Run
        PROVE /\ sent'[q] \subseteq PartIds(q)
              /\ scratch'[q] = {} \/ {p.id : p \in scratch'[q]} = sent'[q]
              /\ scratch'[q] # {} \/ stage'[q] = "carving" => q \in releases'
              /\ stage'[q] \in {"waiting", "skipped", "carve", "carving", "carvefailed"} =>
                    made'[q] = None
              /\ made'[q] = None \/ IsMade(q)'
              /\ todo'[q] \subseteq DOMAIN made'[q]
    <3>1. CASE q = r BY <2>1, <2>2, <3>1 DEF Parts, Stages
    <3>2. CASE q # r
      <4>1. made[q] = None \/ IsMade(q)' BY <2>1, <2>2, <3>2, MadeStays DEF Parts
      <4>2. QED BY <2>1, <2>2, <3>2, <4>1 DEF Parts, Stages
    <3>3. QED BY <3>1, <3>2
  <2>4. Parts' BY <2>3 DEF Parts
  <2>5. ASSUME NEW n \in DOMAIN made[r]
        PROVE n \in DOMAIN made'[r] /\ made'[r][n] = made[r][n]
    <3>1. IsMade(r) BY MadeAssets
    <3>2. SentNames(r)' = SentNames(r) /\ \A a : SentSplit(r, a)' = SentSplit(r, a)
      <4>1. SentAlgos(r)' = SentAlgos(r) BY <2>2 DEF SentAlgos
      <4>2. \A a : SentPack(r, a)' = SentPack(r, a) BY <2>2 DEF SentPack
      <4>3. \A a : SentSplit(r, a)' = SentSplit(r, a) BY <4>2 DEF SentSplit
      <4>4. QED BY <4>1, <4>3 DEF SentNames
    <3>3. made'[r] = made[r] BY <2>1, <3>1, <3>2 DEF IsMade
    <3>4. QED BY <3>3
  <2>6. QED BY <2>1, <2>4, <2>5 DEF Kept
<1>4. ASSUME NEW r \in Run, NEW n \in todo[r], Deploy(r, n) PROVE Parts' /\ Kept
  <2>1. /\ UNCHANGED <<stage, releases, scratch, sent, made>>
        /\ todo' = [todo EXCEPT ![r] = todo[r] \ {n}]
    BY <1>4 DEF Deploy
  <2>2. \A q \in Run : todo'[q] \subseteq todo[q] BY <2>1 DEF Stages
  <2>3. \A q \in Run :
           /\ stage'[q] \in {"waiting", "skipped", "carve", "carving", "carvefailed"} =>
                 made[q] = None
           /\ scratch'[q] # {} \/ stage'[q] = "carving" => q \in releases'
    BY <2>1 DEF Parts
  <2>4. QED BY <2>1, <2>2, <2>3, PartsFrame
<1>5. ASSUME \/ \E r \in Run : \E n \in todo[r] : Withdraw(r, n)
             \/ \E r \in Run, a \in Algo :
                   Download(r, a) \/ ExportText(r, a) \/ ExportFails(r, a)
             \/ Rest
      PROVE Parts' /\ Kept
  <2>1. UNCHANGED <<stage, releases, scratch, sent, made, todo>>
    BY <1>5 DEF Withdraw, Download, ExportText, ExportFails, Rest, vars
  <2>2. \A q \in Run :
           /\ stage'[q] \in {"waiting", "skipped", "carve", "carving", "carvefailed"} =>
                 made[q] = None
           /\ scratch'[q] # {} \/ stage'[q] = "carving" => q \in releases'
    BY <2>1 DEF Parts
  <2>3. QED BY <2>1, <2>2, PartsFrame
<1>6. QED BY <1>1, <1>2, <1>3, <1>4, <1>5 DEF Next, RunStep

-----------------------------------------------------------------------------
(* The steps: latest-feed. *)

\* A file is a piece some run has made after the step.
StillPiece(file, a, k) ==
    \E q \in Run : Name(a, "bin", k) \in DOMAIN made'[q] /\ file = made'[q][Name(a, "bin", k)]

LEMMA PieceStays ==
    ASSUME Kept, NEW file, NEW a, NEW k, IsPiece(file, a, k)
    PROVE StillPiece(file, a, k)
  BY DEF IsPiece, StillPiece, Kept

LEMMA ImageFinite ==
    ASSUME NEW D, IsFiniteSet(D), NEW f, DOMAIN f = D
    PROVE IsFiniteSet({f[x] : x \in D})
<1> DEFINE g == [x \in D |-> f[x]]
<1>1. g \in Surjection(D, {f[x] : x \in D}) BY DEF Surjection
<1>2. QED BY <1>1, FS_Surjection

LEMMA LinesAreFile ==
    ASSUME NEW file \in Seq(Unit), Readable(file)
    PROVE Lines(file) \in Seq(Unit)
<1>1. HasHeader(file) /\ file # <<>> BY DEF Readable, HasHeader
<1>2. Len(file) \in Nat \ {0} BY <1>1, EmptySeq
<1>3. file[1].n \in Nat
  <2>1. file[1] \in Unit BY <1>2, ElementOfSeq
  <2>2. QED BY <2>1 DEF Unit
<1>4. Body(file) \in Seq(Unit) /\ Len(Body(file)) \in Nat BY HeadAndBody, LenProperties
<1>5. file[1].n <= Len(Body(file))
  <2>1. \A x, y \in Nat : x >= y => y <= x OBVIOUS
  <2>2. QED BY <1>3, <1>4, <2>1 DEF Readable
<1> DEFINE body == Body(file)
           n == file[1].n
<1> HIDE DEF body, n
<1>6. \A i \in 1..n : i \in 1..Len(body) BY <1>3, <1>4, <1>5 DEF body, n
<1>7. body \in Seq(Unit) BY <1>4 DEF body
<1>8. \A i \in 1..n : body[i] \in Unit BY <1>6, <1>7, ElementOfSeq
<1>9. 1 \in Int /\ n \in Int BY <1>3 DEF n
<1>10. SubSeq(body, 1, n) \in Seq(Unit) BY <1>8, <1>9, SubSeqProperties
<1>11. QED BY <1>10 DEF Lines, body, n

\* The text assets of an export.
LEMMA TextAssets ==
    ASSUME Parts, NEW r \in Run, NEW a \in Algo, IsDownload(loaded[r][a], a), TextFits(r, a)
    PROVE LET text == Assets(SplitFile(Lines(Whole(r, a)), LineSize(a)), a, "txt")
          IN /\ IsFiniteSet(DOMAIN text)
             /\ \A n \in DOMAIN text : /\ n \in Algo \X {"bin", "txt"} \X Nat
                                       /\ n[1] = a /\ n[2] = "txt"
                                       /\ IsText(text[n], a)
<1> DEFINE lines == Lines(Whole(r, a))
           files == SplitFile(lines, LineSize(a))
           text == Assets(files, a, "txt")
<1>1. Whole(r, a) \in Seq(Unit) BY DownloadIsFile DEF Whole
<1>2. lines \in Seq(Unit) /\ CanSplit(lines, LineSize(a))
  BY <1>1, LinesAreFile DEF TextFits
<1> HIDE DEF lines
<1>3. LineSize(a) \in Nat \ {0} BY SizesArePositive
<1>4. /\ IsSplit(files, lines)
      /\ \A k \in DOMAIN files : FileSize(files[k], LineSize(a)) <= Limit
  BY <1>2, <1>3, SplitFits
<1>5. Numbered(files, Unit) BY <1>2, <1>4, SplitNumbered
<1> HIDE DEF files
<1>6. DOMAIN text = {Name(a, "txt", k) : k \in DOMAIN files} BY DEF Assets
<1>7. IsFiniteSet(DOMAIN text)
  <2> DEFINE f == [k \in DOMAIN files |-> Name(a, "txt", k)]
  <2>1. DOMAIN f = DOMAIN files /\ {f[k] : k \in DOMAIN files} = DOMAIN text BY <1>6
  <2> HIDE DEF f
  <2>2. IsFiniteSet({f[k] : k \in DOMAIN files}) BY <1>5, <2>1, ImageFinite DEF Numbered
  <2>3. QED BY <2>1, <2>2
<1>8. ASSUME NEW n \in DOMAIN text
      PROVE /\ n \in Algo \X {"bin", "txt"} \X Nat
            /\ n[1] = a /\ n[2] = "txt" /\ IsText(text[n], a)
  <2>1. PICK k \in DOMAIN files : n = Name(a, "txt", k) BY <1>6
  <2>2. n[1] = a /\ n[2] = "txt" /\ n[3] = k BY <2>1 DEF Name
  <2>3. k \in Nat /\ files[k] \in Seq(Unit) BY <1>5 DEF Numbered
  <2>4. text[n] = files[k] BY <1>6, <2>1, <2>2 DEF Assets
  <2>5. IsText(text[n], a) BY <1>4, <2>3, <2>4 DEF IsText
  <2>6. n \in Algo \X {"bin", "txt"} \X Nat BY <2>1, <2>3 DEF Name
  <2>7. QED BY <2>2, <2>5, <2>6
<1>9. QED BY <1>7, <1>8 DEF text, files, lines

LEMMA FeedStep ==
    ASSUME Stages, Parts, Feed, Loaded, Kept, Next PROVE Feed'
<1> USE DEF mergeVars, scratchVars, exportVars
<1>1. ASSUME DOMAIN feed' \subseteq DOMAIN feed, \A n \in DOMAIN feed' : feed'[n] = feed[n]
      PROVE Feed'
  <2>1. IsFiniteSet(DOMAIN feed') BY <1>1, FS_Subset DEF Feed
  <2>2. ASSUME NEW n \in DOMAIN feed'
        PROVE /\ n \in Algo \X {"bin", "txt"} \X Nat
              /\ n[2] = "bin" => StillPiece(feed'[n], n[1], n[3])
              /\ n[2] = "txt" => IsText(feed'[n], n[1])
    BY <1>1, <2>2, PieceStays DEF Feed
  <2>3. QED BY <2>1, <2>2 DEF Feed, IsPiece, StillPiece, IsText
<1>2. ASSUME NEW r \in Run, NEW m \in todo[r], Deploy(r, m) PROVE Feed'
  <2>1. feed' = Put([x \in {m} |-> made[r][m]]) /\ m \in DOMAIN made[r] /\ made' = made
    BY <1>2 DEF Deploy, Parts
  <2>2. DOMAIN feed' = DOMAIN feed \union {m}
        /\ \A n \in DOMAIN feed' : feed'[n] = IF n = m THEN made[r][m] ELSE feed[n]
    BY <2>1 DEF Put
  <2>3. IsFiniteSet(DOMAIN feed') BY <2>2, FS_AddElement DEF Feed
  <2>4. m[1] \in Algo /\ m[2] = "bin" /\ m[3] \in Nat BY <2>1, MadeFits
  <2>5. m = Name(m[1], "bin", m[3]) BY <2>1, MadeAssets
  <2>6. m \in Algo \X {"bin", "txt"} \X Nat BY <2>4, <2>5 DEF Name
  <2>7. IsPiece(made[r][m], m[1], m[3]) BY <2>1, <2>5 DEF IsPiece
  <2>8. ASSUME NEW n \in DOMAIN feed'
        PROVE /\ n \in Algo \X {"bin", "txt"} \X Nat
              /\ n[2] = "bin" => StillPiece(feed'[n], n[1], n[3])
              /\ n[2] = "txt" => IsText(feed'[n], n[1])
    <3>1. CASE n = m BY <2>2, <2>4, <2>6, <2>7, <3>1, PieceStays
    <3>2. CASE n # m BY <2>2, <3>2, PieceStays DEF Feed
    <3>3. QED BY <3>1, <3>2
  <2>9. QED BY <2>3, <2>8 DEF Feed, IsPiece, StillPiece, IsText
<1>3. ASSUME NEW r \in Run, NEW a \in Algo, ExportText(r, a) PROVE Feed'
  <2> DEFINE text == Assets(SplitFile(Lines(Whole(r, a)), LineSize(a)), a, "txt")
  <2>1. export[r][a] = "loaded" /\ TextFits(r, a) /\ feed' = Put(text)
    BY <1>3 DEF ExportText, At
  <2>2. IsDownload(loaded[r][a], a) BY <2>1 DEF Loaded
  <2>3. /\ IsFiniteSet(DOMAIN text)
        /\ \A n \in DOMAIN text : /\ n \in Algo \X {"bin", "txt"} \X Nat
                                  /\ n[1] = a /\ n[2] = "txt"
                                  /\ IsText(text[n], a)
    BY <2>1, <2>2, TextAssets
  <2> HIDE DEF text
  <2>4. DOMAIN feed' = DOMAIN text \union DOMAIN feed
        /\ \A n \in DOMAIN feed' : feed'[n] = IF n \in DOMAIN text THEN text[n] ELSE feed[n]
    BY <2>1 DEF Put
  <2>5. IsFiniteSet(DOMAIN feed')
    <3>1. IsFiniteSet(DOMAIN text) /\ IsFiniteSet(DOMAIN feed) BY <2>3 DEF Feed
    <3>2. IsFiniteSet(DOMAIN text \union DOMAIN feed) BY <3>1, FS_Union
    <3>3. QED BY <2>4, <3>2
  <2>6. ASSUME NEW n \in DOMAIN feed'
        PROVE /\ n \in Algo \X {"bin", "txt"} \X Nat
              /\ n[2] = "bin" => StillPiece(feed'[n], n[1], n[3])
              /\ n[2] = "txt" => IsText(feed'[n], n[1])
    <3>1. CASE n \in DOMAIN text BY <2>3, <2>4, <3>1
    <3>2. CASE n \notin DOMAIN text BY <2>4, <3>2, PieceStays DEF Feed
    <3>3. QED BY <3>1, <3>2
  <2>7. QED BY <2>5, <2>6 DEF Feed, IsPiece, StillPiece, IsText
<1>4. ASSUME NEW r \in Run, NEW m \in todo[r], Withdraw(r, m) PROVE Feed'
  <2>1. feed' = Without(feed, {m}) BY <1>4 DEF Withdraw
  <2>2. QED BY <1>1, <2>1 DEF Without
<1>5. CASE UNCHANGED feed BY <1>1, <1>5
<1>6. QED BY <1>2, <1>3, <1>4, <1>5 DEF Next, RunStep, ProbeFits, ProbeRefuses, CreateScratch,
             CarveEnds, CarveFails, MergeParts, MergeFails, DeployEnds, DeployFails,
             PublishNotes, Rerun, Download, ExportFails, Rest, vars

-----------------------------------------------------------------------------
(* The steps: downloads. *)

LEMMA FeedFiles ==
    ASSUME Feed, NEW a \in Algo
    PROVE LET files == Files(feed, a, "bin")
          IN /\ DOMAIN files \in SUBSET Nat /\ IsFiniteSet(DOMAIN files)
             /\ \A k \in DOMAIN files : IsPiece(files[k], a, k)
             /\ \A k : Name(a, "bin", k) \in DOMAIN feed =>
                   k \in DOMAIN files /\ files[k] = feed[Name(a, "bin", k)]
<1> DEFINE bins == {m \in DOMAIN feed : m[1] = a /\ m[2] = "bin"}
           nums == {n[3] : n \in bins}
           files == Files(feed, a, "bin")
<1>1. files = [k \in nums |-> feed[Name(a, "bin", k)]] BY DEF Files
<1>2. ASSUME NEW k \in nums
      PROVE /\ k \in Nat /\ Name(a, "bin", k) \in DOMAIN feed
            /\ IsPiece(feed[Name(a, "bin", k)], a, k)
  <2>1. PICK n \in bins : k = n[3] OBVIOUS
  <2>2. n \in DOMAIN feed /\ n[1] = a /\ n[2] = "bin" OBVIOUS
  <2>3. n \in Algo \X {"bin", "txt"} \X Nat /\ IsPiece(feed[n], n[1], n[3])
    BY <2>2 DEF Feed
  <2>4. n = Name(a, "bin", k) /\ k \in Nat BY <2>1, <2>2, <2>3 DEF Name
  <2>5. QED BY <2>1, <2>2, <2>3, <2>4
<1>3. IsFiniteSet(nums)
  <2> DEFINE f == [n \in bins |-> n[3]]
  <2>1. bins \in SUBSET DOMAIN feed OBVIOUS
  <2>2. IsFiniteSet(bins) BY <2>1, FS_Subset DEF Feed
  <2>3. DOMAIN f = bins /\ {f[n] : n \in bins} = nums OBVIOUS
  <2> HIDE DEF f, bins, nums
  <2>4. QED BY <2>2, <2>3, ImageFinite
<1>4. ASSUME NEW k, Name(a, "bin", k) \in DOMAIN feed PROVE k \in nums
  <2> DEFINE n == Name(a, "bin", k)
  <2>1. n[1] = a /\ n[2] = "bin" /\ n[3] = k BY DEF Name
  <2> HIDE DEF n
  <2>2. n \in bins BY <1>4, <2>1 DEF n
  <2>3. QED BY <2>1, <2>2
<1> HIDE DEF nums
<1>5. DOMAIN files = nums /\ \A k \in nums : files[k] = feed[Name(a, "bin", k)] BY <1>1
<1>6. QED BY <1>2, <1>3, <1>4, <1>5

LEMMA LoadedStep ==
    ASSUME Stages, Parts, Feed, Loaded, Kept, Next PROVE Loaded'
<1> USE DEF mergeVars, scratchVars, exportVars
<1>1. ASSUME DOMAIN loaded' = Run, \A r \in Run : DOMAIN loaded'[r] = Algo,
             \A r \in Run, a \in Algo : export'[r][a] = "loaded" =>
                /\ DOMAIN loaded'[r][a] \in SUBSET Nat /\ IsFiniteSet(DOMAIN loaded'[r][a])
                /\ DOMAIN loaded'[r][a] # {}
                /\ \A k \in DOMAIN loaded'[r][a] : IsPiece(loaded'[r][a][k], a, k)
      PROVE Loaded'
  <2>1. ASSUME NEW r \in Run, NEW a \in Algo, export'[r][a] = "loaded"
        PROVE IsDownload(loaded[r][a], a)'
    <3>1. \A k \in DOMAIN loaded'[r][a] : IsPiece(loaded'[r][a][k], a, k) BY <1>1, <2>1
    <3>2. \A k \in DOMAIN loaded'[r][a] : StillPiece(loaded'[r][a][k], a, k)
      BY <3>1, PieceStays
    <3>3. QED BY <1>1, <2>1, <3>2 DEF IsDownload, IsPiece, StillPiece
  <2>2. QED BY <1>1, <2>1 DEF Loaded
<1>2. ASSUME NEW r \in Run, NEW a \in Algo, Download(r, a) PROVE Loaded'
  <2> DEFINE files == Files(feed, a, "bin")
  <2>1. /\ export' = [export EXCEPT ![r][a] = "loaded"] /\ DOMAIN files # {}
        /\ loaded' = [loaded EXCEPT ![r][a] = files]
    BY <1>2 DEF Download, At
  <2>2. /\ DOMAIN files \in SUBSET Nat /\ IsFiniteSet(DOMAIN files)
        /\ \A k \in DOMAIN files : IsPiece(files[k], a, k)
    BY FeedFiles
  <2> HIDE DEF files
  <2>3. DOMAIN loaded' = Run /\ \A q \in Run : DOMAIN loaded'[q] = Algo
    BY <2>1 DEF Loaded
  <2>4. ASSUME NEW q \in Run, NEW b \in Algo, export'[q][b] = "loaded"
        PROVE /\ DOMAIN loaded'[q][b] \in SUBSET Nat /\ IsFiniteSet(DOMAIN loaded'[q][b])
              /\ DOMAIN loaded'[q][b] # {}
              /\ \A k \in DOMAIN loaded'[q][b] : IsPiece(loaded'[q][b][k], b, k)
    <3>1. CASE q = r /\ b = a
      <4>1. loaded'[q][b] = files BY <2>1, <3>1 DEF Loaded
      <4>2. QED BY <2>1, <2>2, <3>1, <4>1
    <3>2. CASE ~(q = r /\ b = a)
      <4>1. loaded'[q][b] = loaded[q][b] /\ export'[q][b] = export[q][b]
        BY <2>1, <3>2 DEF Loaded, Stages
      <4>2. IsDownload(loaded[q][b], b) BY <2>4, <4>1 DEF Loaded
      <4>3. QED BY <4>1, <4>2 DEF IsDownload
    <3>3. QED BY <3>1, <3>2
  <2>5. QED BY <1>1, <2>3, <2>4
<1>3. ASSUME NEW r \in Run, NEW a \in Algo, ExportText(r, a) \/ ExportFails(r, a)
      PROVE Loaded'
  <2>1. /\ \E to \in {"done", "failed"} : export' = [export EXCEPT ![r][a] = to]
        /\ loaded' = [loaded EXCEPT ![r][a] = None]
    BY <1>3 DEF ExportText, ExportFails, At, Clean
  <2>2. DOMAIN loaded' = Run /\ \A q \in Run : DOMAIN loaded'[q] = Algo
    BY <2>1 DEF Loaded
  <2>3. ASSUME NEW q \in Run, NEW b \in Algo, export'[q][b] = "loaded"
        PROVE IsDownload(loaded[q][b], b) /\ loaded'[q][b] = loaded[q][b]
    <3>1. ~(q = r /\ b = a) BY <2>1, <2>3 DEF Stages
    <3>2. export[q][b] = "loaded" BY <2>1, <2>3, <3>1 DEF Stages
    <3>3. QED BY <2>1, <3>1, <3>2 DEF Loaded
  <2>4. QED BY <1>1, <2>2, <2>3 DEF IsDownload
<1>4. ASSUME UNCHANGED loaded,
             \A q \in Run, b \in Algo : export'[q][b] = "loaded" => export[q][b] = "loaded"
      PROVE Loaded'
  BY <1>1, <1>4 DEF Loaded, IsDownload
<1>5. ASSUME NEW r \in Run, DeployEnds(r) PROVE Loaded'
  <2>1. UNCHANGED loaded /\ export' = [export EXCEPT ![r] = [a \in Algo |-> "ready"]]
    BY <1>5 DEF DeployEnds, Unblocked
  <2>2. \A q \in Run, b \in Algo : export'[q][b] = "loaded" => export[q][b] = "loaded"
    BY <2>1 DEF Stages
  <2>3. QED BY <1>4, <2>1, <2>2
<1>6. ASSUME NEW r \in Run, Rerun(r) PROVE Loaded'
  <2>1. UNCHANGED loaded /\ (UNCHANGED export
           \/ \E a \in Algo : export' = [export EXCEPT ![r][a] = "ready"])
    BY <1>6 DEF Rerun, At
  <2>2. \A q \in Run, b \in Algo : export'[q][b] = "loaded" => export[q][b] = "loaded"
    BY <2>1 DEF Stages
  <2>3. QED BY <1>4, <2>1, <2>2
<1>7. CASE UNCHANGED <<export, loaded>> BY <1>4, <1>7
<1>8. QED BY <1>2, <1>3, <1>5, <1>6, <1>7 DEF Next, RunStep, ProbeFits, ProbeRefuses,
             CreateScratch, CarveEnds, CarveFails, MergeParts, MergeFails, Withdraw, Deploy,
             DeployFails, StillBlocked, PublishNotes, Rest, vars

-----------------------------------------------------------------------------
(* The steps: runs that are alone. *)

LEMMA MadeSame ==
    ASSUME NEW q \in Run, made'[q] = made[q]
    PROVE \A a : Made(q, a)' = Made(q, a)
  BY DEF Made, Files

\* Steps that leave the assets made and those in latest-feed as they are.
LEMMA UndisturbedFrame ==
    ASSUME Stages, Parts, Undisturbed, UNCHANGED <<made, todo>>,
           \A q \in Run : \A n \in DOMAIN made[q] : Deployed(q, n) => Deployed(q, n)',
           \A q \in Run :
              /\ alone'[q] => alone[q]
              /\ stage'[q] = "deploy" => stage[q] = "deploy"
              /\ stage'[q] \in {"exporting", "done"} =>
                    stage[q] \in {"exporting", "done"} \/ (stage[q] = "deploy" /\ todo[q] = {})
              /\ \A a \in Algo : export'[q][a] = "loaded" =>
                    export[q][a] = "loaded" /\ loaded'[q][a] = loaded[q][a]
    PROVE Undisturbed'
<1>1. ASSUME NEW q \in Run, alone'[q]
      PROVE /\ stage'[q] = "deploy" => \A n \in DOMAIN made'[q] \ todo'[q] : Deployed(q, n)'
            /\ stage'[q] \in {"exporting", "done"} => \A n \in DOMAIN made'[q] : Deployed(q, n)'
            /\ \A a \in Algo : export'[q][a] = "loaded" =>
                  \A k \in DOMAIN Made(q, a)' :
                      k \in DOMAIN loaded'[q][a] /\ loaded'[q][a][k] = Made(q, a)'[k]
  <2>1. /\ stage[q] = "deploy" => \A n \in DOMAIN made[q] \ todo[q] : Deployed(q, n)
        /\ stage[q] \in {"exporting", "done"} => \A n \in DOMAIN made[q] : Deployed(q, n)
        /\ \A a \in Algo : export[q][a] = "loaded" =>
              \A k \in DOMAIN Made(q, a) :
                  k \in DOMAIN loaded[q][a] /\ loaded[q][a][k] = Made(q, a)[k]
    BY <1>1 DEF Undisturbed
  <2>2. \A a : Made(q, a)' = Made(q, a) BY MadeSame
  <2>3. ASSUME stage'[q] \in {"exporting", "done"}, NEW n \in DOMAIN made'[q]
        PROVE Deployed(q, n)'
    <3>1. Deployed(q, n) BY <2>1, <2>3
    <3>2. QED BY <3>1, <2>3
  <2>4. ASSUME NEW a \in Algo, export'[q][a] = "loaded", NEW k \in DOMAIN Made(q, a)'
        PROVE k \in DOMAIN loaded'[q][a] /\ loaded'[q][a][k] = Made(q, a)'[k]
    <3>1. export[q][a] = "loaded" /\ loaded'[q][a] = loaded[q][a] BY <2>4
    <3>2. k \in DOMAIN Made(q, a) BY <2>2, <2>4
    <3>3. QED BY <2>1, <2>2, <3>1, <3>2
  <2>5. QED BY <2>1, <2>3, <2>4
<1>2. QED BY <1>1 DEF Undisturbed

LEMMA UndisturbedStep ==
    ASSUME Stages, Parts, Feed, Loaded, Undisturbed, Stages', Next PROVE Undisturbed'
<1> USE DEF mergeVars, scratchVars, exportVars
<1>1. ASSUME NEW r \in Run,
             \/ ProbeFits(r) \/ ProbeRefuses(r) \/ CreateScratch(r) \/ CarveEnds(r)
             \/ CarveFails(r) \/ MergeFails(r) \/ DeployEnds(r) \/ PublishNotes(r)
             \/ Rerun(r)
      PROVE Undisturbed'
  <2>1. UNCHANGED <<feed, made, todo, alone, loaded>>
    BY <1>1 DEF ProbeFits, ProbeRefuses, CreateScratch, CarveEnds, CarveFails, MergeFails,
                DeployEnds, PublishNotes, Rerun
  <2>2. ASSUME NEW q \in Run
        PROVE /\ stage'[q] = "deploy" => stage[q] = "deploy"
              /\ stage'[q] \in {"exporting", "done"} =>
                    stage[q] \in {"exporting", "done"} \/ (stage[q] = "deploy" /\ todo[q] = {})
    BY <1>1 DEF ProbeFits, ProbeRefuses, CreateScratch, CarveEnds, CarveFails, MergeFails,
                DeployEnds, PublishNotes, Rerun, Go, Stages
  <2>3. \/ UNCHANGED export
        \/ export' = [export EXCEPT ![r] = [a \in Algo |-> "ready"]]
        \/ \E a \in Algo : export' = [export EXCEPT ![r][a] = "ready"]
    BY <1>1 DEF ProbeFits, ProbeRefuses, CreateScratch, CarveEnds, CarveFails, MergeFails,
                DeployEnds, PublishNotes, Rerun, Unblocked, At
  <2>4. \A q \in Run, a \in Algo : export'[q][a] = "loaded" => export[q][a] = "loaded"
    BY <2>3 DEF Stages
  <2>5. \A q \in Run : \A n \in DOMAIN made[q] : Deployed(q, n) => Deployed(q, n)'
    BY <2>1 DEF Deployed
  <2>6. QED BY <2>1, <2>2, <2>4, <2>5, UndisturbedFrame
<1>2. ASSUME NEW r \in Run, MergeParts(r) PROVE Undisturbed'
  <2>1. /\ todo'[r] = DOMAIN made'[r]
        /\ \A q \in Run \ {r} : made'[q] = made[q] /\ todo'[q] = todo[q]
    BY <1>2, MergeMakes
  <2>2. /\ stage[r] = "merge" /\ stage' = [stage EXCEPT ![r] = "deploy"]
        /\ alone' = [alone EXCEPT ![r] = TRUE] /\ UNCHANGED <<export, loaded, feed>>
    BY <1>2 DEF MergeParts, Go
  <2>3. ASSUME NEW q \in Run, alone'[q]
        PROVE /\ stage'[q] = "deploy" => \A n \in DOMAIN made'[q] \ todo'[q] : Deployed(q, n)'
              /\ stage'[q] \in {"exporting", "done"} => \A n \in DOMAIN made'[q] : Deployed(q, n)'
              /\ \A a \in Algo : export'[q][a] = "loaded" =>
                    \A k \in DOMAIN Made(q, a)' :
                        k \in DOMAIN loaded'[q][a] /\ loaded'[q][a][k] = Made(q, a)'[k]
    <3>1. CASE q = r
      <4>1. stage'[q] = "deploy" BY <2>2, <3>1 DEF Stages
      <4>2. \A a \in Algo : export[q][a] = "blocked" BY <2>2, <3>1 DEF Stages
      <4>3. QED BY <2>1, <2>2, <3>1, <4>1, <4>2
    <3>2. CASE q # r
      <4>1. /\ alone[q] /\ stage'[q] = stage[q] /\ made'[q] = made[q] /\ todo'[q] = todo[q]
        BY <2>1, <2>2, <2>3, <3>2 DEF Stages
      <4>2. \A a : Made(q, a)' = Made(q, a) BY <4>1, MadeSame
      <4>3. \A n : Deployed(q, n)' = Deployed(q, n) BY <2>2, <4>1 DEF Deployed
      <4>4. /\ stage[q] = "deploy" => \A n \in DOMAIN made[q] \ todo[q] : Deployed(q, n)
            /\ stage[q] \in {"exporting", "done"} => \A n \in DOMAIN made[q] : Deployed(q, n)
            /\ \A a \in Algo : export[q][a] = "loaded" =>
                  \A k \in DOMAIN Made(q, a) :
                      k \in DOMAIN loaded[q][a] /\ loaded[q][a][k] = Made(q, a)[k]
        BY <4>1 DEF Undisturbed
      <4>5. QED BY <2>2, <4>1, <4>2, <4>3, <4>4
    <3>3. QED BY <3>1, <3>2
  <2>4. QED BY <2>3 DEF Undisturbed
<1>3. ASSUME NEW r \in Run, NEW m \in todo[r], Deploy(r, m) PROVE Undisturbed'
  <2>1. /\ stage[r] = "deploy" /\ feed' = Put([x \in {m} |-> made[r][m]])
        /\ todo' = [todo EXCEPT ![r] = todo[r] \ {m}] /\ alone' = Others(r)
        /\ UNCHANGED <<stage, made, export, loaded>>
    BY <1>3 DEF Deploy
  <2>2. \A q \in Run : alone'[q] => q = r /\ alone[q] BY <2>1 DEF Others
  <2>3. \A a \in Algo : export[r][a] = "blocked" BY <2>1 DEF Stages
  <2>4. DOMAIN feed' = DOMAIN feed \union {m}
        /\ \A n \in DOMAIN feed' : feed'[n] = IF n = m THEN made[r][m] ELSE feed[n]
    BY <2>1 DEF Put
  <2>5. \A n : Deployed(r, n) \/ n = m => Deployed(r, n)' BY <2>1, <2>4 DEF Deployed
  <2>6. ASSUME NEW q \in Run, alone'[q]
        PROVE /\ stage'[q] = "deploy" => \A n \in DOMAIN made'[q] \ todo'[q] : Deployed(q, n)'
              /\ stage'[q] \in {"exporting", "done"} => \A n \in DOMAIN made'[q] : Deployed(q, n)'
              /\ \A a \in Algo : export'[q][a] = "loaded" =>
                    \A k \in DOMAIN Made(q, a)' :
                        k \in DOMAIN loaded'[q][a] /\ loaded'[q][a][k] = Made(q, a)'[k]
    <3>1. q = r /\ alone[r] BY <2>2, <2>6
    <3>2. \A n \in DOMAIN made[r] \ todo[r] : Deployed(r, n)
      BY <2>1, <3>1 DEF Undisturbed
    <3>3. todo'[r] = todo[r] \ {m} BY <2>1 DEF Stages
    <3>4. \A n \in DOMAIN made'[r] \ todo'[r] : Deployed(r, n)'
      BY <2>1, <2>5, <3>2, <3>3
    <3>5. QED BY <2>1, <2>3, <3>1, <3>4
  <2>7. QED BY <2>6 DEF Undisturbed
<1>4. ASSUME NEW r \in Run, DeployFails(r) PROVE Undisturbed'
  <2>1. /\ stage[r] = "deploy" /\ stage' = [stage EXCEPT ![r] = "mergefailed"]
        /\ UNCHANGED <<feed, export, alone, made, todo, loaded>>
    BY <1>4 DEF DeployFails, Go, StillBlocked
  <2>2. ASSUME NEW q \in Run
        PROVE /\ stage'[q] = "deploy" => stage[q] = "deploy"
              /\ stage'[q] \in {"exporting", "done"} => stage[q] \in {"exporting", "done"}
    BY <2>1 DEF Stages
  <2>3. \A q \in Run : \A n \in DOMAIN made[q] : Deployed(q, n) => Deployed(q, n)'
    BY <2>1 DEF Deployed
  <2>4. QED BY <2>1, <2>2, <2>3, UndisturbedFrame
<1>5. ASSUME NEW r \in Run, NEW a \in Algo, Download(r, a) PROVE Undisturbed'
  <2> DEFINE files == Files(feed, a, "bin")
  <2>1. /\ export[r][a] = "ready" /\ export' = [export EXCEPT ![r][a] = "loaded"]
        /\ loaded' = [loaded EXCEPT ![r][a] = files]
        /\ UNCHANGED <<stage, made, todo, alone, feed>>
    BY <1>5 DEF Download, At
  <2>2. stage[r] \in {"exporting", "done"} BY <2>1 DEF Stages
  <2>3. \A k : Name(a, "bin", k) \in DOMAIN feed =>
            k \in DOMAIN files /\ files[k] = feed[Name(a, "bin", k)]
    BY FeedFiles
  <2> HIDE DEF files
  <2>4. ASSUME NEW q \in Run, alone[q], NEW b \in Algo, export'[q][b] = "loaded",
               NEW k \in DOMAIN Made(q, b)
        PROVE k \in DOMAIN loaded'[q][b] /\ loaded'[q][b][k] = Made(q, b)[k]
    <3>1. CASE q = r /\ b = a
      <4>1. loaded'[q][b] = files BY <2>1, <3>1 DEF Loaded
      <4> DEFINE n == Name(a, "bin", k)
      <4>2. n \in DOMAIN made[r] /\ Made(r, a)[k] = made[r][n]
        <5> DEFINE names == {x \in DOMAIN made[r] : x[1] = a /\ x[2] = "bin"}
        <5>1. Made(r, a) = [j \in {x[3] : x \in names} |-> made[r][Name(a, "bin", j)]]
          BY DEF Made, Files
        <5>2. PICK x \in names : k = x[3] BY <2>4, <3>1, <5>1
        <5>3. x \in DOMAIN made[r] /\ x[1] = a OBVIOUS
        <5>4. x = Name(a, "bin", k) BY <5>2, <5>3, MadeAssets
        <5>5. QED BY <2>4, <3>1, <5>1, <5>3, <5>4
      <4> HIDE DEF n
      <4>3. Deployed(r, n) BY <2>2, <2>4, <3>1, <4>2 DEF Undisturbed
      <4>4. QED BY <2>3, <3>1, <4>1, <4>2, <4>3 DEF Deployed, n
    <3>2. CASE ~(q = r /\ b = a)
      <4>1. loaded'[q][b] = loaded[q][b] /\ export'[q][b] = export[q][b]
        BY <2>1, <3>2 DEF Loaded, Stages
      <4>2. QED BY <2>4, <4>1 DEF Undisturbed
    <3>3. QED BY <3>1, <3>2
  <2>5. \A q \in Run, b \in Algo : Made(q, b)' = Made(q, b) BY <2>1, MadeSame
  <2>6. \A q \in Run : \A n : Deployed(q, n)' = Deployed(q, n) BY <2>1 DEF Deployed
  <2>7. ASSUME NEW q \in Run, alone'[q]
        PROVE /\ stage'[q] = "deploy" => \A n \in DOMAIN made'[q] \ todo'[q] : Deployed(q, n)'
              /\ stage'[q] \in {"exporting", "done"} => \A n \in DOMAIN made'[q] : Deployed(q, n)'
              /\ \A b \in Algo : export'[q][b] = "loaded" =>
                    \A k \in DOMAIN Made(q, b)' :
                        k \in DOMAIN loaded'[q][b] /\ loaded'[q][b][k] = Made(q, b)'[k]
    <3>1. alone[q] BY <2>1, <2>7
    <3>2. /\ stage[q] = "deploy" => \A n \in DOMAIN made[q] \ todo[q] : Deployed(q, n)
          /\ stage[q] \in {"exporting", "done"} => \A n \in DOMAIN made[q] : Deployed(q, n)
      BY <3>1 DEF Undisturbed
    <3>3. QED BY <2>1, <2>4, <2>5, <2>6, <3>1, <3>2
  <2>8. QED BY <2>7 DEF Undisturbed
<1>6. ASSUME NEW r \in Run, NEW a \in Algo, ExportText(r, a) PROVE Undisturbed'
  <2> DEFINE text == Assets(SplitFile(Lines(Whole(r, a)), LineSize(a)), a, "txt")
  <2>1. /\ export[r][a] = "loaded" /\ export' = [export EXCEPT ![r][a] = "done"]
        /\ TextFits(r, a) /\ feed' = Put(text) /\ loaded' = [loaded EXCEPT ![r][a] = None]
        /\ UNCHANGED <<stage, made, todo, alone>>
    BY <1>6 DEF ExportText, At, Clean
  <2>2. \A n \in DOMAIN text : n[2] = "txt"
    <3>1. IsDownload(loaded[r][a], a) BY <2>1 DEF Loaded
    <3>2. QED BY <2>1, <3>1, TextAssets
  <2> HIDE DEF text
  <2>3. ASSUME NEW q \in Run, NEW n \in DOMAIN made[q], Deployed(q, n)
        PROVE Deployed(q, n)'
    <3>1. n[2] = "bin" BY MadeFits
    <3>2. n \notin DOMAIN text BY <2>2, <3>1
    <3>3. QED BY <2>1, <2>3, <3>2 DEF Deployed, Put
  <2>4. \A q \in Run, b \in Algo : export'[q][b] = "loaded" =>
            export[q][b] = "loaded" /\ loaded'[q][b] = loaded[q][b]
    BY <2>1 DEF Stages, Loaded
  <2>5. QED BY <2>1, <2>3, <2>4, UndisturbedFrame
<1>7. ASSUME NEW r \in Run, NEW a \in Algo, ExportFails(r, a) PROVE Undisturbed'
  <2>1. /\ export' = [export EXCEPT ![r][a] = "failed"] /\ loaded' = [loaded EXCEPT ![r][a] = None]
        /\ UNCHANGED <<stage, made, todo, alone, feed>>
    BY <1>7 DEF ExportFails, At, Clean
  <2>2. \A q \in Run, b \in Algo : export'[q][b] = "loaded" =>
            export[q][b] = "loaded" /\ loaded'[q][b] = loaded[q][b]
    BY <2>1 DEF Stages, Loaded
  <2>3. \A q \in Run : \A n \in DOMAIN made[q] : Deployed(q, n) => Deployed(q, n)'
    BY <2>1 DEF Deployed
  <2>4. QED BY <2>1, <2>2, <2>3, UndisturbedFrame
<1>8. CASE Rest
  <2>1. UNCHANGED <<stage, made, todo, alone, feed, export, loaded>> BY <1>8 DEF Rest, vars
  <2>2. \A q \in Run : \A n \in DOMAIN made[q] : Deployed(q, n) => Deployed(q, n)'
    BY <2>1 DEF Deployed
  <2>3. QED BY <2>1, <2>2, UndisturbedFrame
<1>9. ASSUME NEW r \in Run, NEW m \in todo[r], Withdraw(r, m) PROVE Undisturbed'
  <2>1. /\ stage[r] = "deploy" /\ feed' = Without(feed, {m}) /\ alone' = Others(r)
        /\ UNCHANGED <<stage, made, todo, export, loaded>>
    BY <1>9 DEF Withdraw
  <2>2. ASSUME NEW q \in Run, alone'[q]
        PROVE /\ stage'[q] = "deploy" => \A n \in DOMAIN made'[q] \ todo'[q] : Deployed(q, n)'
              /\ stage'[q] \in {"exporting", "done"} => \A n \in DOMAIN made'[q] : Deployed(q, n)'
              /\ \A a \in Algo : export'[q][a] = "loaded" =>
                    \A k \in DOMAIN Made(q, a)' :
                        k \in DOMAIN loaded'[q][a] /\ loaded'[q][a][k] = Made(q, a)'[k]
    <3>1. q = r /\ alone[r] BY <2>1, <2>2 DEF Others
    <3>2. \A n \in DOMAIN made[r] \ todo[r] : Deployed(r, n)
      BY <2>1, <3>1 DEF Undisturbed
    <3>3. \A n \in DOMAIN made[r] \ todo[r] : Deployed(r, n)'
      BY <2>1, <3>2 DEF Deployed, Without
    <3>4. \A a \in Algo : export[r][a] = "blocked" BY <2>1 DEF Stages
    <3>5. QED BY <2>1, <3>1, <3>3, <3>4
  <2>3. QED BY <2>2 DEF Undisturbed
<1>10. QED BY <1>1, <1>2, <1>3, <1>4, <1>5, <1>6, <1>7, <1>8, <1>9 DEF Next, RunStep

-----------------------------------------------------------------------------
(* The invariant of the specification, and the theorems. *)

LEMMA Stutter ==
    ASSUME FInv, UNCHANGED vars PROVE FInv'
<1>1. /\ UNCHANGED <<stage, releases, scratch, sent, made, todo, export, loaded, feed>>
      /\ UNCHANGED <<alone, reruns>>
  BY DEF vars
<1>2. Stages' BY <1>1 DEF FInv, Stages
<1>3. Parts' /\ Kept
  <2>1. ASSUME NEW q \in Run
        PROVE /\ scratch'[q] \in {{}, scratch[q]}
              /\ scratch'[q] # {} \/ stage'[q] = "carving" => q \in releases'
              /\ todo'[q] \subseteq todo[q]
              /\ stage'[q] \in {"waiting", "skipped", "carve", "carving", "carvefailed"} =>
                    made[q] = None
    BY <1>1 DEF FInv, Parts
  <2>2. QED BY <1>1, <2>1, PartsFrame DEF FInv
<1>4. \A file, a, k : IsPiece(file, a, k)' = IsPiece(file, a, k) BY <1>1 DEF IsPiece
<1>5. Feed' BY <1>1, <1>4 DEF FInv, Feed, IsText
<1>6. Loaded' BY <1>1, <1>4 DEF FInv, Loaded, IsDownload
<1>7. Undisturbed'
  <2>1. \A q \in Run : \A n \in DOMAIN made[q] : Deployed(q, n) => Deployed(q, n)'
    BY <1>1 DEF Deployed
  <2>2. QED BY <1>1, <2>1, UndisturbedFrame DEF FInv
<1>8. QED BY <1>2, <1>3, <1>5, <1>6, <1>7 DEF FInv

LEMMA StepFInv == FInv /\ [Next]_vars => FInv'
<1> SUFFICES ASSUME FInv, [Next]_vars PROVE FInv'
  OBVIOUS
<1>1. CASE Next
  <2>1. Stages /\ Parts /\ Feed /\ Loaded /\ Undisturbed BY DEF FInv
  <2>2. Stages' BY <1>1, <2>1, StagesStep
  <2>3. Parts' /\ Kept BY <1>1, <2>1, PartsStep
  <2>4. Feed' BY <1>1, <2>1, <2>3, FeedStep
  <2>5. Loaded' BY <1>1, <2>1, <2>3, LoadedStep
  <2>6. Undisturbed' BY <1>1, <2>1, <2>2, UndisturbedStep
  <2>7. QED BY <2>2, <2>3, <2>4, <2>5, <2>6 DEF FInv
<1>2. CASE UNCHANGED vars BY <1>2, Stutter
<1>3. QED BY <1>1, <1>2

\* The inductive invariant: every asset in latest-feed or in a download is a
\* piece some run made of all the parts it uploaded, and a run no other run
\* disturbs has its own.
THEOREM Invariant == Spec => []FInv
  BY InitFInv, StepFInv, PTL DEF Spec

\* Every variable of the workflow stays within its type: parts are in a release,
\* assets to deploy have been made, exports start behind a complete deploy only.
THEOREM TypeCorrect == Spec => []TypeOK
  BY Invariant, InvTypes, PTL

\* pack_release_assets: no asset in latest-feed is over the limit, the first part
\* with its header and the parts of a repeated split included.
THEOREM AssetsFit == Spec => []PiecesFit
  BY Invariant, InvPieces, PTL

\* `cat` of the parts a run made is its pack: the header counts all digests of
\* every part the carve uploaded, and they follow in order.
THEOREM PiecesMakePacks == Spec => []PacksExact
  BY Invariant, InvPacks, PTL

\* The text an export makes of a download that holds all parts of one pack is one
\* run's whole list, whatever other pieces earlier runs left in latest-feed.  A
\* run that made parts and is alone gets its own, unless latest-feed has an
\* unsplit file of another run beside its split pack.
THEOREM TextsAreNotMixed == Spec => []NoMixedText
  BY Invariant, InvTexts, PTL

\* An export job downloads all parts its run made unless another run deployed in
\* between, through reruns and failures.  It may download an older unsplit file
\* besides, and then the text is of that file.
THEOREM ExportsSeeTheirRun == Spec => []ExportAfterDeploy
  BY Invariant, InvExports, PTL

\* The published command, and the text the export job makes, are right as long as
\* latest-feed has no pieces but those of one run.
RightWithoutOldPieces ==
    \A r \in Run, a \in Algo :
        DOMAIN Made(r, a) # {} /\ Files(feed, a, "bin") = Made(r, a) =>
            /\ Published(a) = Pack(r, a, sent[r])
            /\ Lines(Cat(Files(feed, a, "bin"))) = Tail(Pack(r, a, sent[r]))

LEMMA InvPublished == FInv => RightWithoutOldPieces
<1> SUFFICES ASSUME FInv, NEW r \in Run, NEW a \in Algo, DOMAIN Made(r, a) # {},
                    Files(feed, a, "bin") = Made(r, a)
             PROVE /\ Published(a) = Pack(r, a, sent[r])
                   /\ Lines(Cat(Files(feed, a, "bin"))) = Tail(Pack(r, a, sent[r]))
  BY DEF RightWithoutOldPieces
<1> DEFINE P == SentSplit(r, a)
<1>0. Parts /\ Feed BY DEF FInv
<1>1. IsMade(r) /\ a \in SentAlgos(r) /\ Made(r, a) = P BY <1>0, MadeIsSplit
<1>2. IsSplit(P, SentPack(r, a)) BY <1>0, <1>1, SplitOfSent
<1>3. Cat(P) = Pack(r, a, sent[r]) BY <1>1, InvPacks DEF PacksExact
<1>4. Lines(Cat(Files(feed, a, "bin"))) = Tail(Pack(r, a, sent[r]))
  <2> DEFINE files == Files(feed, a, "bin")
  <2>1. IsDownload(files, a) BY <1>0, FeedFiles DEF IsDownload
  <2>2. HasPack(files, r, a) /\ ~Shadowed(files, r, a) BY DEF HasPack, Shadowed
  <2> HIDE DEF files
  <2>3. IsPack(SentPack(r, a)) /\ Begins(Unit, Cat(files), SentPack(r, a))
    BY <1>0, <2>1, <2>2, OwnBegins
  <2>4. Cat(files) \in Seq(Unit) BY <1>0, <2>1, DownloadIsFile
  <2>5. QED BY <2>3, <2>4, BeginningIsRead DEF files
<1> HIDE DEF P
<1>5. Published(a) = IF Cardinality(DOMAIN P) > 1 THEN Cat(Without(P, {0})) ELSE Cat(P)
  BY <1>1 DEF Published
<1>6. ASSUME P = [k \in {0} |-> SentPack(r, a)] PROVE Published(a) = Cat(P)
  <2>1. DOMAIN P = {0} BY <1>6
  <2>2. Cardinality(DOMAIN P) = 1 BY <2>1, FS_Singleton
  <2>3. QED BY <1>5, <2>2
<1>7. ASSUME NEW per \in Nat \ {0}, NEW m \in Nat, Cuts(P, SentPack(r, a), per, m)
      PROVE Without(P, {0}) = P
  <2>1. DOMAIN P = 1..m /\ P = [k \in DOMAIN P |-> P[k]] BY <1>7 DEF Cuts
  <2>2. DOMAIN P \ {0} = DOMAIN P BY <2>1
  <2>3. QED BY <2>1, <2>2 DEF Without
<1>8. Published(a) = Pack(r, a, sent[r]) BY <1>2, <1>3, <1>5, <1>6, <1>7 DEF IsSplit
<1>9. QED BY <1>4, <1>8

\* Whenever latest-feed has the pieces of one run only, `cat` as the release notes
\* publish it yields that run's pack, and an export that downloads them writes its
\* list: what SelfTesting fails on is a .bin asset of another run.
THEOREM OnlyOldPiecesMislead == Spec => []RightWithoutOldPieces
  BY Invariant, InvPublished, PTL
=============================================================================
