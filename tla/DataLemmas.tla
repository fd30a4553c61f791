----------------------------- MODULE DataLemmas -----------------------------
(***************************************************************************)
(* Facts about data, for the proofs about the components: remainders,      *)
(* induction over the naturals and over finite sets, and the sums and      *)
(* folds that the properties are written with.                             *)
(*                                                                         *)
(* The induction principles are stated for a set and not for a predicate,  *)
(* so that the provers can apply them: what is to be shown of every n is   *)
(* that the set of the n for which it holds contains all of Nat.           *)
(***************************************************************************)
EXTENDS Integers, FiniteSetTheorems, FiniteSetsExt, TLAPS

-----------------------------------------------------------------------------
(* Remainders.                                                             *)

\* Division with remainder.
LEMMA DivMod ==
    ASSUME NEW c \in Nat \ {0}, NEW a \in Int
    PROVE  \E d \in Int, r \in 0 .. c - 1 : a % c = r /\ a = c * d + r
<1>1. /\ a % c \in 0 .. c - 1
      /\ a \div c \in Int
      /\ a = c * (a \div c) + (a % c)
  OBVIOUS
<1> QED BY <1>1

\* The only multiple of c strictly between -c and c is 0.
LEMMA SmallMultiple ==
    ASSUME NEW c \in Nat \ {0}, NEW a \in Int, NEW b \in Int,
           a = c * b, a > -c, a < c
    PROVE  a = 0
OBVIOUS

\* Numbers less than c apart have different remainders.
LEMMA ModDistinct ==
    ASSUME NEW c \in Nat \ {0}, NEW m \in Int, NEW n \in Int,
           m # n, m - n < c, n - m < c
    PROVE  (m % c) # (n % c)
<1> SUFFICES ASSUME m % c = n % c PROVE m = n
  OBVIOUS
<1>1. PICK d \in Int, r \in 0 .. c - 1 : m % c = r /\ m = c * d + r
  BY DivMod
<1>2. PICK e \in Int, s \in 0 .. c - 1 : n % c = s /\ n = c * e + s
  BY DivMod
<1>3. r = s /\ d - e \in Int /\ m - n \in Int
  BY <1>1, <1>2
<1>4. m - n = c * (d - e)
  BY <1>1, <1>2, <1>3
<1>5. m - n > -c /\ m - n < c
  OBVIOUS
<1>6. m - n = 0
  BY <1>3, <1>4, <1>5, SmallMultiple
<1> QED BY <1>6

\* Adding a multiple of c does not change the remainder.
LEMMA ModShift ==
    ASSUME NEW c \in Nat \ {0}, NEW m \in Int, NEW n \in Int,
           NEW k \in Int, m = n + c * k
    PROVE  m % c = n % c
<1>1. PICK d \in Int, r \in 0 .. c - 1 : m % c = r /\ m = c * d + r
  BY DivMod
<1>2. PICK e \in Int, s \in 0 .. c - 1 : n % c = s /\ n = c * e + s
  BY DivMod
<1>3. s - r = c * (d - e - k)
  BY <1>1, <1>2
<1>4. s - r \in Int /\ d - e - k \in Int /\ s - r > -c /\ s - r < c
  OBVIOUS
<1>5. s - r = 0
  BY <1>3, <1>4, SmallMultiple
<1> QED BY <1>1, <1>2, <1>5

\* Numbers with the same remainder have successors with the same remainder.
LEMMA ModNext ==
    ASSUME NEW c \in Nat \ {0}, NEW m \in Int, NEW n \in Int, m % c = n % c
    PROVE  (m + 1) % c = (n + 1) % c
<1>1. PICK d \in Int, r \in 0 .. c - 1 : m % c = r /\ m = c * d + r
  BY DivMod
<1>2. PICK e \in Int, s \in 0 .. c - 1 : n % c = s /\ n = c * e + s
  BY DivMod
<1> DEFINE x == m + 1
           y == n + 1
           k == d - e
<1>3. x = y + c * k /\ x \in Int /\ y \in Int /\ k \in Int
  BY <1>1, <1>2
<1> HIDE DEF x, y, k
<1>4. x % c = y % c
  BY <1>3, ModShift
<1> QED BY <1>4 DEF x, y

-----------------------------------------------------------------------------
(* Induction.                                                              *)

\* A set with 0, and with n + 1 whenever it has n, has every natural number:
\* else the numbers missing would have a smallest one.
LEMMA NatInductionSet ==
    ASSUME NEW S, 0 \in S, \A n \in Nat : n \in S => n + 1 \in S
    PROVE  Nat \subseteq S
<1> DEFINE T == Nat \ S
           R == OpToRel(<, Nat)
<1> SUFFICES ASSUME T # {} PROVE FALSE
  OBVIOUS
<1>1. IsWellFoundedOn(R, Nat)
  BY NatLessThanWellFounded
<1>2. PICK n \in T : \A m \in T : <<m, n>> \notin R
  <2> HIDE DEF R
  <2>1. T \subseteq Nat
    OBVIOUS
  <2> HIDE DEF T
  <2> QED BY <1>1, <2>1, WFMin
<1>3. n # 0 /\ n \in Nat
  OBVIOUS
<1>4. n - 1 \in Nat /\ <<n - 1, n>> \in R
  BY <1>3 DEF OpToRel
<1> HIDE DEF R
<1>5. n - 1 \in Nat /\ (n - 1) + 1 = n
  BY <1>3
<1>6. n - 1 \in T
  BY <1>5
<1> QED BY <1>2, <1>4, <1>6

\* Induction up to a bound.
LEMMA IntervalInduction ==
    ASSUME NEW n \in Nat, NEW S, 0 \in S, \A k \in 1 .. n : k - 1 \in S => k \in S
    PROVE  0 .. n \subseteq S
<1> DEFINE T == {k \in Nat : k <= n => k \in S}
<1>1. 0 \in T
  OBVIOUS
<1>2. ASSUME NEW k \in Nat, k \in T PROVE k + 1 \in T
  <2> DEFINE m == k + 1
  <2>1. m \in Nat /\ m - 1 = k /\ (m <= n => k <= n /\ m \in 1 .. n)
    OBVIOUS
  <2> HIDE DEF m
  <2>2. m <= n => m \in S
    BY <1>2, <2>1
  <2>3. m \in T
    BY <2>1, <2>2
  <2> QED BY <2>3 DEF m
<1>3. \A k \in Nat : k \in T => k + 1 \in T
  BY <1>2
<1>4. Nat \subseteq T
  <2> HIDE DEF T
  <2> QED BY <1>1, <1>3, NatInductionSet
<1> QED BY <1>4

\* h gives n steps from V to V, and g is their run from base.
Steps(h, n, V) == h \in [1 .. n -> [V -> V]]
IsRun(g, h, n, V, base) ==
    /\ g \in [0 .. n -> V] /\ g[0] = base
    /\ \A k \in 1 .. n : g[k] = h[k][g[k - 1]]

\* A function may be defined along an interval, each value from the one before.
LEMMA RunExists ==
    ASSUME NEW n \in Nat, NEW V, NEW base \in V, NEW h, Steps(h, n, V)
    PROVE  \E g : IsRun(g, h, n, V, base)
<1> USE DEF Steps
<1> DEFINE Partial(g, m) == /\ g \in [0 .. m -> V] /\ g[0] = base
                            /\ \A k \in 1 .. m : g[k] = h[k][g[k - 1]]
           S == {m \in 0 .. n : \E g : Partial(g, m)}
<1>1. 0 \in S
  <2>1. Partial([k \in 0 .. 0 |-> base], 0)
    OBVIOUS
  <2>2. 0 \in 0 .. n
    OBVIOUS
  <2> HIDE DEF Partial
  <2> QED BY <2>1, <2>2
<1>2. ASSUME NEW m \in 1 .. n, m - 1 \in S PROVE m \in S
  <2>1. PICK g : Partial(g, m - 1)
    BY <1>2
  <2> DEFINE f == [k \in 0 .. m |-> IF k = m THEN h[m][g[m - 1]] ELSE g[k]]
  <2>2. /\ m \in Nat /\ m - 1 \in 0 .. (m - 1) /\ m - 1 \in 0 .. m /\ 0 \in 0 .. (m - 1)
        /\ \A k \in 0 .. m : k # m => k \in 0 .. (m - 1)
        /\ \A k \in 1 .. m : k - 1 \in 0 .. (m - 1) /\ k - 1 # m /\ k - 1 \in 0 .. m
        /\ \A k \in 1 .. m : k # m => k \in 1 .. (m - 1)
        /\ 1 .. m \subseteq 0 .. m
    OBVIOUS
  <2>3. g[m - 1] \in V /\ h[m] \in [V -> V]
    BY <2>1, <2>2
  <2>4. h[m][g[m - 1]] \in V
    BY <2>3
  <2>5. \A k \in 0 .. m : (IF k = m THEN h[m][g[m - 1]] ELSE g[k]) \in V
    BY <2>1, <2>2, <2>4
  <2>6. f \in [0 .. m -> V]
    BY <2>5
  <2>7. f[0] = base
    BY <2>1, <2>2
  <2>8. \A k \in 1 .. m : f[k] = h[k][f[k - 1]]
    BY <2>1, <2>2
  <2>9. Partial(f, m)
    BY <2>6, <2>7, <2>8
  <2> HIDE DEF Partial
  <2> QED BY <2>9
<1>3. n \in S
  <2>1. \A m \in 1 .. n : m - 1 \in S => m \in S
    BY <1>2
  <2> HIDE DEF S
  <2>2. 0 .. n \subseteq S
    BY <1>1, <2>1, IntervalInduction
  <2> QED BY <2>2
<1> QED BY <1>3 DEF IsRun

-----------------------------------------------------------------------------
(* Folds over sets.                                                        *)

\* g is the recursive function of a fold over the subsets of D: base for the
\* empty set, and for another set s the step h of an element of s, which c
\* picks, and of the fold over the rest.
IsFold(g, D, base, h, c) ==
    g = [s \in SUBSET D |-> IF s = {} THEN base ELSE h[c[s]][g[s \ {c[s]}]]]

Picks(c, D) == \A s \in SUBSET D : s # {} => c[s] \in s

\* Sets of size n + 1 lose an element when one is taken away.
LEMMA OneLess ==
    ASSUME NEW s, IsFiniteSet(s), NEW x \in s, NEW n \in Nat
    PROVE  /\ IsFiniteSet(s \ {x})
           /\ Cardinality(s) <= n + 1 => Cardinality(s \ {x}) <= n
           /\ Cardinality(s) = n + 1 => Cardinality(s \ {x}) = n
<1>1. Cardinality(s) \in Nat /\ Cardinality(s \ {x}) \in Nat
  BY FS_CardinalityType, FS_RemoveElement
<1>2. Cardinality(s \ {x}) = Cardinality(s) - 1
  BY FS_RemoveElement
<1> QED BY <1>1, <1>2, FS_RemoveElement

LEMMA FoldExists ==
    ASSUME NEW D, IsFiniteSet(D), NEW V, NEW base \in V,
           NEW h \in [D -> [V -> V]], NEW c, Picks(c, D)
    PROVE  \E g \in [SUBSET D -> V] : IsFold(g, D, base, h, c)
<1> DEFINE Sub(n) == {s \in SUBSET D : Cardinality(s) <= n}
           Eq(g, s) == g[s] = IF s = {} THEN base ELSE h[c[s]][g[s \ {c[s]}]]
           Done == {n \in Nat : \E g \in [Sub(n) -> V] : \A s \in Sub(n) : Eq(g, s)}
<1>1. \A s \in SUBSET D : IsFiniteSet(s) /\ Cardinality(s) \in Nat
  BY FS_Subset, FS_CardinalityType
<1>2. 0 \in Done
  <2>1. \A s \in Sub(0) : s = {}
    BY <1>1, FS_EmptySet
  <2>2. /\ [s \in Sub(0) |-> base] \in [Sub(0) -> V]
        /\ \A s \in Sub(0) : Eq([t \in Sub(0) |-> base], s)
    BY <2>1
  <2> QED BY <2>2
<1>3. \A n \in Nat : n \in Done => n + 1 \in Done
  <2> SUFFICES ASSUME NEW n \in Nat, n \in Done PROVE n + 1 \in Done
    OBVIOUS
  <2>1. PICK g \in [Sub(n) -> V] : \A s \in Sub(n) : Eq(g, s)
    OBVIOUS
  <2>2. \A s \in Sub(n + 1) : s # {} => c[s] \in D /\ c[s] \in s /\ s \ {c[s]} \in Sub(n)
    BY <1>1, OneLess DEF Picks
  <2>3. Sub(n) \subseteq Sub(n + 1)
    <3>1. \A s \in Sub(n) : s \in SUBSET D /\ Cardinality(s) \in Nat /\ Cardinality(s) <= n
      BY <1>1
    <3>2. \A s \in Sub(n) : Cardinality(s) <= n + 1
      BY <3>1
    <3> QED BY <3>1, <3>2
  <2>4. {} \in Sub(n)
    <3>1. 0 <= n /\ Cardinality({}) = 0
      BY FS_EmptySet
    <3> QED BY <3>1
  <2> DEFINE k == [s \in Sub(n + 1) |-> IF s \in Sub(n) THEN g[s] ELSE h[c[s]][g[s \ {c[s]}]]]
             B == Sub(n + 1)
             A == Sub(n)
  <2>5. \A s \in B : s # {} => c[s] \in D /\ c[s] \in s /\ s \ {c[s]} \in A
    BY <2>2
  <2>6. /\ g \in [A -> V] /\ A \subseteq B /\ {} \in A /\ \A s \in A : Eq(g, s)
        /\ k = [s \in B |-> IF s \in A THEN g[s] ELSE h[c[s]][g[s \ {c[s]}]]]
    BY <2>1, <2>3, <2>4
  <2> HIDE DEF A, B, k
  <2>7. k \in [B -> V]
    <3> DEFINE value(s) == IF s \in A THEN g[s] ELSE h[c[s]][g[s \ {c[s]}]]
    <3>1. ASSUME NEW s \in B, s \notin A PROVE value(s) \in V
      <4>1. s # {}
        BY <2>6, <3>1
      <4>2. c[s] \in D /\ g[s \ {c[s]}] \in V
        BY <2>5, <2>6, <4>1
      <4>3. h[c[s]] \in [V -> V]
        BY <4>2
      <4> QED BY <3>1, <4>2, <4>3
    <3>2. \A s \in B : value(s) \in V
      BY <2>6, <3>1
    <3> QED BY <2>6, <3>2
  <2>8. \A s \in B : Eq(k, s)
    BY <2>5, <2>6
  <2>9. k \in [Sub(n + 1) -> V] /\ \A s \in Sub(n + 1) : Eq(k, s)
    BY <2>7, <2>8 DEF B
  <2>10. n + 1 \in Nat
    <3> HIDE DEF Done, Eq, Sub
    <3> QED OBVIOUS
  <2> QED BY <2>9, <2>10
<1>4. Nat \subseteq Done
  <2> HIDE DEF Done
  <2> QED BY <1>2, <1>3, NatInductionSet
<1>5. Cardinality(D) \in Done
  BY <1>1, <1>4
<1>6. Sub(Cardinality(D)) = SUBSET D
  BY FS_Subset
<1>7. PICK g \in [SUBSET D -> V] : \A s \in SUBSET D : Eq(g, s)
  <2> HIDE DEF Sub, Eq
  <2> QED BY <1>5, <1>6
<1> QED BY <1>7 DEF IsFold

\* Induction over the subsets of a finite set, along the elements c picks.
LEMMA SubsetInduction ==
    ASSUME NEW D, IsFiniteSet(D), NEW c, Picks(c, D), NEW T, {} \in T,
           \A s \in SUBSET D : s # {} /\ s \ {c[s]} \in T => s \in T
    PROVE  SUBSET D \subseteq T
<1> DEFINE Done == {n \in Nat : \A s \in SUBSET D : Cardinality(s) <= n => s \in T}
<1>1. \A s \in SUBSET D : IsFiniteSet(s) /\ Cardinality(s) \in Nat
  BY FS_Subset, FS_CardinalityType
<1>2. 0 \in Done
  <2>1. \A s \in SUBSET D : Cardinality(s) <= 0 => s = {}
    BY <1>1, FS_EmptySet
  <2> QED BY <2>1
<1>3. \A n \in Nat : n \in Done => n + 1 \in Done
  <2> SUFFICES ASSUME NEW n \in Nat, n \in Done,
                      NEW s \in SUBSET D, Cardinality(s) <= n + 1, s # {}
               PROVE  s \in T
    <3>1. \A n \in Nat : n + 1 \in Nat
      OBVIOUS
    <3> QED BY <3>1
  <2>1. c[s] \in s /\ s \ {c[s]} \in SUBSET D
    BY DEF Picks
  <2>2. Cardinality(s \ {c[s]}) <= n
    BY <1>1, <2>1, OneLess
  <2>3. s \ {c[s]} \in T
    BY <2>1, <2>2
  <2> QED BY <2>3
<1>4. Nat \subseteq Done
  <2> HIDE DEF Done
  <2> QED BY <1>2, <1>3, NatInductionSet
<1> QED BY <1>1, <1>4

-----------------------------------------------------------------------------
(* Sums.                                                                   *)

AnyOf(s) == CHOOSE x \in s : TRUE

\* g is the sum of f over every subset of D.
IsSum(g, f, D) ==
    /\ g \in [SUBSET D -> Int]
    /\ g[{}] = 0
    /\ \A s \in SUBSET D : s # {} => g[s] = f[AnyOf(s)] + g[s \ {AnyOf(s)}]

LEMMA AnyOfPicks == ASSUME NEW D PROVE Picks([s \in SUBSET D |-> AnyOf(s)], D)
BY DEF Picks, AnyOf

LEMMA SumFold ==
    ASSUME NEW D, IsFiniteSet(D), NEW f, \A x \in D : f[x] \in Int
    PROVE  \E g : IsSum(g, f, D) /\ SumFunctionOnSet(f, D) = g[D]
<1> DEFINE c == [s \in SUBSET D |-> AnyOf(s)]
           h == [x \in D |-> [v \in Int |-> f[x] + v]]
           Body(g) == [s \in SUBSET D |->
                         IF s = {} THEN 0 ELSE f[AnyOf(s)] + g[s \ {AnyOf(s)}]]
           iter == CHOOSE g : g = Body(g)
<1>1. Picks(c, D)
  BY AnyOfPicks
<1>2. h \in [D -> [Int -> Int]] /\ 0 \in Int
  OBVIOUS
<1>3. PICK g \in [SUBSET D -> Int] : IsFold(g, D, 0, h, c)
  <2> HIDE DEF c, h
  <2> QED BY <1>1, <1>2, FoldExists
<1>4. ASSUME NEW s \in SUBSET D, s # {}
      PROVE  h[c[s]][g[s \ {c[s]}]] = f[AnyOf(s)] + g[s \ {AnyOf(s)}]
  <2>1. c[s] = AnyOf(s)
    OBVIOUS
  <2>2. c[s] \in D /\ s \ {c[s]} \in SUBSET D
    BY <1>1, <1>4 DEF Picks
  <2>3. g[s \ {c[s]}] \in Int /\ h[c[s]] = [v \in Int |-> f[c[s]] + v]
    BY <2>2
  <2> QED BY <2>1, <2>3
<1>5. g = Body(g)
  BY <1>3, <1>4 DEF IsFold
<1>6. iter = Body(iter)
  <2> HIDE DEF Body
  <2> QED BY <1>5
<1>7. \A s \in SUBSET D : iter[s] = g[s]
  <2> DEFINE T == {s \in SUBSET D : iter[s] = g[s]}
  <2> HIDE DEF iter
  <2>1. {} \in T
    BY <1>5, <1>6
  <2>2. \A s \in SUBSET D : s # {} /\ s \ {c[s]} \in T => s \in T
    BY <1>5, <1>6
  <2> HIDE DEF T, c
  <2>3. SUBSET D \subseteq T
    BY <1>1, <2>1, <2>2, SubsetInduction
  <2> QED BY <2>3 DEF T
<1>8. SumFunctionOnSet(f, D) = iter[D]
  BY DEF SumFunctionOnSet, FoldFunctionOnSet, MapThenFoldSet, AnyOf
<1> HIDE DEF iter
<1>9. SumFunctionOnSet(f, D) = g[D]
  BY <1>7, <1>8
<1>10. IsSum(g, f, D)
  BY <1>5 DEF IsSum
<1> QED BY <1>9, <1>10

\* The sums over the subsets of E depend on the values on E alone.
LEMMA SumUnique ==
    ASSUME NEW D, NEW E, E \subseteq D, IsFiniteSet(E), NEW f, NEW e,
           \A x \in E : f[x] = e[x],
           NEW g, IsSum(g, f, D), NEW k, IsSum(k, e, E)
    PROVE  g[E] = k[E]
<1> DEFINE c == [s \in SUBSET E |-> AnyOf(s)]
           T == {s \in SUBSET E : g[s] = k[s]}
<1>1. Picks(c, E)
  BY AnyOfPicks
<1>2. {} \in T
  BY DEF IsSum
<1>3. \A s \in SUBSET E : s # {} /\ s \ {c[s]} \in T => s \in T
  <2> SUFFICES ASSUME NEW s \in SUBSET E, s # {}, s \ {c[s]} \in T PROVE g[s] = k[s]
    OBVIOUS
  <2>1. c[s] = AnyOf(s) /\ c[s] \in E /\ s \in SUBSET D
    BY <1>1 DEF Picks
  <2>2. /\ g[s] = f[AnyOf(s)] + g[s \ {AnyOf(s)}]
        /\ k[s] = e[AnyOf(s)] + k[s \ {AnyOf(s)}]
    BY <2>1 DEF IsSum
  <2>3. f[AnyOf(s)] = e[AnyOf(s)] /\ g[s \ {AnyOf(s)}] = k[s \ {AnyOf(s)}]
    BY <2>1
  <2> QED BY <2>2, <2>3
<1>4. SUBSET E \subseteq T
  <2> HIDE DEF c, T
  <2> QED BY <1>1, <1>2, <1>3, SubsetInduction
<1> QED BY <1>4

LEMMA SumSame ==
    ASSUME NEW D, IsFiniteSet(D), NEW f, NEW e,
           \A x \in D : f[x] \in Int /\ f[x] = e[x]
    PROVE  SumFunctionOnSet(f, D) = SumFunctionOnSet(e, D)
<1>1. PICK g : IsSum(g, f, D) /\ SumFunctionOnSet(f, D) = g[D]
  BY SumFold
<1>2. PICK k : IsSum(k, e, D) /\ SumFunctionOnSet(e, D) = k[D]
  BY SumFold
<1>3. g[D] = k[D]
  BY <1>1, <1>2, SumUnique
<1> QED BY <1>1, <1>2, <1>3

LEMMA SumType ==
    ASSUME NEW D, IsFiniteSet(D), NEW f, \A x \in D : f[x] \in Int
    PROVE  SumFunctionOnSet(f, D) \in Int
<1>1. PICK g : IsSum(g, f, D) /\ SumFunctionOnSet(f, D) = g[D]
  BY SumFold
<1> QED BY <1>1 DEF IsSum

LEMMA SumEmpty == ASSUME NEW f PROVE SumFunctionOnSet(f, {}) = 0
BY SumFold, FS_EmptySet DEF IsSum

LEMMA SumStep ==
    ASSUME NEW D, IsFiniteSet(D), D # {}, NEW f, \A x \in D : f[x] \in Int
    PROVE  SumFunctionOnSet(f, D)
              = f[AnyOf(D)] + SumFunctionOnSet(f, D \ {AnyOf(D)})
<1> DEFINE E == D \ {AnyOf(D)}
<1>1. E \subseteq D /\ IsFiniteSet(E)
  BY FS_Subset
<1>2. PICK g : IsSum(g, f, D) /\ SumFunctionOnSet(f, D) = g[D]
  BY SumFold
<1>3. PICK k : IsSum(k, f, E) /\ SumFunctionOnSet(f, E) = k[E]
  BY <1>1, SumFold
<1>4. g[D] = f[AnyOf(D)] + g[E]
  BY <1>2 DEF IsSum
<1>5. g[E] = k[E]
  <2> HIDE DEF E
  <2> QED BY <1>1, <1>2, <1>3, SumUnique
<1> QED BY <1>2, <1>3, <1>4, <1>5

\* Any element may be taken away first.
LEMMA SumRemove ==
    ASSUME NEW D, IsFiniteSet(D), NEW f, \A x \in D : f[x] \in Int, NEW y \in D
    PROVE  SumFunctionOnSet(f, D) = f[y] + SumFunctionOnSet(f, D \ {y})
<1> DEFINE Sum(s) == SumFunctionOnSet(f, s)
           T == {s \in SUBSET D : \A x \in s : Sum(s) = f[x] + Sum(s \ {x})}
           Done == {n \in Nat : \A s \in SUBSET D : Cardinality(s) = n => s \in T}
<1>1. \A s \in SUBSET D : IsFiniteSet(s) /\ Cardinality(s) \in Nat
  BY FS_Subset, FS_CardinalityType
<1>2. 0 \in Done
  <2>1. \A s \in SUBSET D : Cardinality(s) = 0 => s = {}
    BY <1>1, FS_EmptySet
  <2> QED BY <2>1
<1>3. ASSUME NEW n \in Nat, n \in Done,
             NEW s \in SUBSET D, Cardinality(s) = n + 1, NEW x \in s
      PROVE  Sum(s) = f[x] + Sum(s \ {x})
  <2> DEFINE z == AnyOf(s)
  <2>1. z \in s
    BY DEF AnyOf
  <2>2. Sum(s) = f[z] + Sum(s \ {z})
    BY <1>1, SumStep
  <2>3. CASE x # z
    <3> HIDE DEF z
    <3>1. s \ {z} \in T /\ s \ {x} \in T
      BY <1>1, <1>3, <2>1, OneLess
    <3>2. x \in s \ {z} /\ z \in s \ {x}
      BY <2>1, <2>3
    <3>3. Sum(s \ {z}) = f[x] + Sum((s \ {z}) \ {x})
      BY <3>1, <3>2
    <3>4. Sum(s \ {x}) = f[z] + Sum((s \ {x}) \ {z})
      BY <3>1, <3>2
    <3>5. (s \ {z}) \ {x} = (s \ {x}) \ {z}
      OBVIOUS
    <3>6. PICK v \in Int : v = Sum((s \ {z}) \ {x})
      BY <1>1, SumType
    <3>7. f[x] \in Int /\ f[z] \in Int
      BY <2>1
    <3>8. Sum(s \ {z}) = f[x] + v
      BY <3>3, <3>6
    <3>9. Sum(s \ {x}) = f[z] + v
      BY <3>4, <3>5, <3>6
    <3>10. f[z] + (f[x] + v) = f[x] + (f[z] + v)
      BY <3>6, <3>7
    <3> HIDE DEF Sum
    <3> QED BY <2>2, <3>8, <3>9, <3>10
  <2> QED BY <2>2, <2>3
<1>4. \A n \in Nat : n \in Done => n + 1 \in Done
  <2>1. \A n \in Nat : n + 1 \in Nat
    OBVIOUS
  <2> HIDE DEF Sum
  <2> QED BY <1>3, <2>1
<1>5. Nat \subseteq Done
  <2> HIDE DEF Done
  <2> QED BY <1>2, <1>4, NatInductionSet
<1> QED BY <1>1, <1>5

\* One more element adds its value.
LEMMA SumAdd ==
    ASSUME NEW D, IsFiniteSet(D), NEW f, NEW y, y \notin D,
           \A x \in D \cup {y} : f[x] \in Int
    PROVE  SumFunctionOnSet(f, D \cup {y}) = f[y] + SumFunctionOnSet(f, D)
<1> DEFINE E == D \cup {y}
<1>1. IsFiniteSet(E) /\ y \in E /\ E \ {y} = D /\ \A x \in E : f[x] \in Int
  BY FS_AddElement
<1> HIDE DEF E
<1>2. SumFunctionOnSet(f, E) = f[y] + SumFunctionOnSet(f, E \ {y})
  BY <1>1, SumRemove
<1> QED BY <1>1, <1>2 DEF E

-----------------------------------------------------------------------------
(* Folds of a sequence from the left, which take the largest index first.  *)

LEMMA MaxPicks ==
    ASSUME NEW n \in Nat, NEW s \in SUBSET (1 .. n), s # {}
    PROVE  Max(s) \in s /\ \A x \in s : x <= Max(s)
<1> DEFINE D == 1 .. n
           c == [d \in SUBSET D |-> AnyOf(d)]
           T == {d \in SUBSET D : d # {} => \E x \in d : \A y \in d : y <= x}
<1>1. IsFiniteSet(D)
  BY FS_Interval
<1>2. Picks(c, D)
  BY AnyOfPicks
<1>3. {} \in T
  OBVIOUS
<1>4. ASSUME NEW d \in SUBSET D, d # {}, d \ {c[d]} \in T PROVE d \in T
  <2>1. c[d] \in d
    BY <1>2, <1>4 DEF Picks
  <2>2. PICK z : z = c[d]
    OBVIOUS
  <2>3. z \in d /\ (d \ {z} # {} => \E x \in d \ {z} : \A y \in d \ {z} : y <= x)
    BY <1>4, <2>1, <2>2
  <2>4. d \subseteq Int
    OBVIOUS
  <2>5. \E x \in d : \A y \in d : y <= x
    <3>1. CASE d \ {z} = {}
      BY <2>3, <2>4, <3>1
    <3>2. CASE d \ {z} # {}
      <4>1. PICK x \in d \ {z} : \A y \in d \ {z} : y <= x
        BY <2>3, <3>2
      <4>2. CASE z <= x
        BY <4>1, <4>2
      <4>3. CASE ~(z <= x)
        <5>1. \A y \in d : y <= z
          BY <2>3, <2>4, <4>1, <4>3
        <5> QED BY <2>3, <5>1
      <4> QED BY <4>2, <4>3
    <3> QED BY <3>1, <3>2
  <2> QED BY <2>5
<1>5. \A d \in SUBSET D : d # {} /\ d \ {c[d]} \in T => d \in T
  BY <1>4
<1>6. SUBSET D \subseteq T
  <2> HIDE DEF D, c, T
  <2> QED BY <1>1, <1>2, <1>3, <1>5, SubsetInduction
<1>7. \E x \in s : \A y \in s : y <= x
  BY <1>6
<1>8. \E x \in s : \A y \in s : x >= y
  <2>1. s \subseteq Int
    OBVIOUS
  <2> QED BY <1>7, <2>1
<1>9. Max(s) \in s /\ \A y \in s : Max(s) >= y
  BY <1>8 DEF Max
<1> QED BY <1>9

\* The largest index of a prefix is its last one.
LEMMA MaxPrefix ==
    ASSUME NEW k \in Nat, k # 0
    PROVE  Max(1 .. k) = k /\ (1 .. k) \ {Max(1 .. k)} = 1 .. (k - 1)
<1>1. 1 .. k \in SUBSET (1 .. k) /\ k \in 1 .. k
  OBVIOUS
<1>2. Max(1 .. k) \in 1 .. k /\ k <= Max(1 .. k)
  BY <1>1, MaxPicks
<1>3. Max(1 .. k) = k
  BY <1>2
<1> QED BY <1>3

LEMMA MaxInduction ==
    ASSUME NEW n \in Nat, NEW T, {} \in T,
           \A s \in SUBSET (1 .. n) : s # {} /\ s \ {Max(s)} \in T => s \in T
    PROVE  SUBSET (1 .. n) \subseteq T
<1> DEFINE D == 1 .. n
           c == [s \in SUBSET D |-> Max(s)]
<1>1. IsFiniteSet(D)
  BY FS_Interval
<1>2. Picks(c, D)
  BY MaxPicks DEF Picks
<1>3. \A s \in SUBSET D : s # {} /\ s \ {c[s]} \in T => s \in T
  OBVIOUS
<1>4. SUBSET D \subseteq T
  <2> HIDE DEF D, c
  <2> QED BY <1>1, <1>2, <1>3, SubsetInduction
<1> QED BY <1>4

IsMaxFold(g, h, n, V, base) ==
    /\ g \in [SUBSET (1 .. n) -> V]
    /\ g[{}] = base
    /\ \A s \in SUBSET (1 .. n) : s # {} =>
           Max(s) \in 1 .. n /\ g[s] = h[Max(s)][g[s \ {Max(s)}]]
    /\ \A k \in 1 .. n : g[1 .. k] = h[k][g[1 .. (k - 1)]]

\* Such a fold exists, and goes along the prefixes.
LEMMA MaxFold ==
    ASSUME NEW n \in Nat, NEW V, NEW base \in V, NEW h, Steps(h, n, V)
    PROVE  \E g : IsMaxFold(g, h, n, V, base)
<1> USE DEF Steps
<1> DEFINE D == 1 .. n
           c == [s \in SUBSET D |-> Max(s)]
<1>1. IsFiniteSet(D)
  BY FS_Interval
<1>2. Picks(c, D)
  BY MaxPicks DEF Picks
<1>3. PICK g \in [SUBSET D -> V] : IsFold(g, D, base, h, c)
  <2> HIDE DEF c
  <2> QED BY <1>1, <1>2, FoldExists
<1>4. g[{}] = base /\ \A s \in SUBSET D : s # {} => g[s] = h[Max(s)][g[s \ {Max(s)}]]
  BY <1>3 DEF IsFold
<1>5. ASSUME NEW k \in 1 .. n PROVE g[1 .. k] = h[k][g[1 .. (k - 1)]]
  <2>1. 1 .. k \in SUBSET D /\ 1 .. k # {} /\ k \in Nat /\ k # 0
    <3>1. k \in Nat /\ k # 0 /\ k \in 1 .. k
      OBVIOUS
    <3>2. 1 .. k \subseteq 1 .. n
      OBVIOUS
    <3> QED BY <3>1, <3>2
  <2>2. Max(1 .. k) = k /\ (1 .. k) \ {Max(1 .. k)} = 1 .. (k - 1)
    BY <2>1, MaxPrefix
  <2>3. g[1 .. k] = h[Max(1 .. k)][g[(1 .. k) \ {Max(1 .. k)}]]
    BY <1>4, <2>1
  <2> QED BY <2>2, <2>3
<1>6. \A s \in SUBSET D : s # {} => Max(s) \in D
  BY MaxPicks
<1> QED BY <1>4, <1>5, <1>6 DEF IsMaxFold
=============================================================================
