---------------------------- MODULE FoldTheorems ----------------------------
(***************************************************************************)
(* Facts about finite sets and the folds of the community modules that the  *)
(* other proofs cite.  Sets and functions take the place of predicates and  *)
(* operators: induction is over a set of subsets, and a fold is a function  *)
(* on the subsets of its domain.  At the end, the larger and the smaller of *)
(* two numbers, and recursions whose steps are functions.                   *)
(***************************************************************************)
EXTENDS Integers, FiniteSets, FiniteSetsExt, Functions, Folds, FiniteSetTheorems, WellFoundedInduction, TLAPS

-----------------------------------------------------------------------------
(* Induction. *)

\* Every nonempty set of natural numbers has a least element.
LEMMA LeastNatural ==
  ASSUME NEW T \in SUBSET Nat, T # {}
  PROVE  \E x \in T : \A y \in T : x <= y
<1> DEFINE R == OpToRel(<, Nat)
<1>1. IsWellFoundedOn(R, Nat)
  BY NatLessThanWellFounded
<1>2. \A x, y \in Nat : <<y, x>> \in R <=> y < x
  BY DEF OpToRel
<1> HIDE DEF R
<1>3. PICK x \in T : \A y \in T : ~(<<y, x>> \in R)
  BY <1>1, WFMin
<1>4. ASSUME NEW y \in T PROVE x <= y
  <2>1. x \in Nat /\ y \in Nat /\ ~(y < x)
    BY <1>2, <1>3
  <2> QED BY <2>1
<1> QED BY <1>4

\* The largest of a set of places is one of them.
LEMMA GreatestMember ==
  ASSUME NEW n \in Nat, NEW T \in SUBSET (1..n), T # {}
  PROVE  Max(T) \in T /\ \A x \in T : Max(T) >= x
<1> DEFINE R == {n - x : x \in T}
<1>1. R \in SUBSET Nat /\ R # {}
  <2>1. \A x \in T : n - x \in Nat /\ n - x \in R
    OBVIOUS
  <2>2. R \in SUBSET Nat
    BY <2>1
  <2> QED BY <2>1, <2>2
<1>2. PICK r \in R : \A y \in R : r <= y
  BY <1>1, LeastNatural
<1>3. PICK m \in T : r = n - m
  BY <1>2
<1>4. \A x \in T : m >= x
  <2> SUFFICES ASSUME NEW x \in T PROVE m >= x
    OBVIOUS
  <2>1. n - m <= n - x
    BY <1>2, <1>3
  <2> QED BY <2>1
<1>5. \E k \in T : \A x \in T : k >= x
  BY <1>4
<1> QED BY <1>5 DEF Max

\* Likewise the smallest.
LEMMA LeastMember ==
  ASSUME NEW T \in SUBSET Nat, T # {}
  PROVE  Min(T) \in T /\ \A x \in T : Min(T) <= x
<1>1. \E k \in T : \A x \in T : k <= x
  BY LeastNatural
<1> QED BY <1>1 DEF Min

\* A set of numbers that has 0 and with each number the next has them all.
LEMMA NatSetInduction ==
  ASSUME NEW P, 0 \in P, \A n \in Nat : n \in P => n + 1 \in P
  PROVE  Nat \subseteq P
<1> SUFFICES ASSUME Nat \ P # {} PROVE FALSE
  OBVIOUS
<1>1. PICK x \in Nat \ P : \A y \in Nat \ P : x <= y
  BY LeastNatural
<1>2. x # 0 /\ x - 1 \in Nat /\ (x - 1) + 1 = x /\ ~(x <= x - 1)
  BY <1>1
<1>3. x - 1 \in P
  BY <1>1, <1>2
<1> QED BY <1>1, <1>2, <1>3

\* If no smallest subset of D fails, none does.
LEMMA SubsetInduction ==
  ASSUME NEW D, IsFiniteSet(D), NEW P,
         \A s \in SUBSET D : (\A t \in SUBSET D : t \subseteq s /\ t # s => t \in P) => s \in P
  PROVE  SUBSET D \subseteq P
<1> DEFINE F == (SUBSET D) \ P
           T == {Cardinality(s) : s \in F}
<1> SUFFICES ASSUME F # {} PROVE FALSE
  OBVIOUS
<1>1. \A s \in SUBSET D : IsFiniteSet(s) /\ Cardinality(s) \in Nat
  BY FS_Subset, FS_CardinalityType
<1>2. T \in SUBSET Nat /\ T # {}
  BY <1>1
<1>3. PICK n \in T : \A m \in T : n <= m
  BY <1>2, LeastNatural
<1>4. PICK s \in F : n = Cardinality(s)
  BY <1>3
<1>5. PICK t \in SUBSET D : t \subseteq s /\ t # s /\ t \notin P
  BY <1>4
<1>6. Cardinality(t) <= Cardinality(s) /\ Cardinality(t) # Cardinality(s)
  BY <1>1, <1>4, <1>5, FS_Subset
<1>7. Cardinality(t) \in T
  BY <1>5
<1>8. Cardinality(t) \in Nat /\ Cardinality(s) \in Nat /\ Cardinality(s) <= Cardinality(t)
  BY <1>1, <1>3, <1>4, <1>5, <1>7
<1> QED BY <1>6, <1>8

\* Every finite set of numbers has a largest.
LEMMA GreatestOfFinite ==
  ASSUME NEW T \in SUBSET Int, IsFiniteSet(T), T # {}
  PROVE  Max(T) \in T /\ \A x \in T : Max(T) >= x
<1> DEFINE P == {s \in SUBSET T : s = {} \/ \E k \in s : \A x \in s : k >= x}
<1>1. ASSUME NEW s \in SUBSET T, \A t \in SUBSET T : t \subseteq s /\ t # s => t \in P
      PROVE  s \in P
  <2>1. CASE s = {}
    BY <2>1
  <2>2. CASE s # {}
    <3>1. PICK a \in s : TRUE
      BY <2>2
    <3>2. s \ {a} \in P
      BY <1>1, <3>1
    <3>3. CASE s \ {a} = {}
      <4>1. \A x \in s : x = a
        BY <3>3
      <4>2. \A x \in s : a >= x
        BY <3>1, <4>1
      <4> QED BY <3>1, <4>2
    <3>4. CASE \E k \in s \ {a} : \A x \in s \ {a} : k >= x
      <4>1. PICK k \in s \ {a} : \A x \in s \ {a} : k >= x
        BY <3>4
      <4>2. CASE k >= a
        <5>1. \A x \in s : k >= x
          BY <4>1, <4>2
        <5> QED BY <4>1, <5>1
      <4>3. CASE ~(k >= a)
        <5>1. k \in Int /\ a \in Int /\ \A x \in s : x \in Int
          BY <3>1, <4>1
        <5>2. \A x \in s : a >= x
          BY <4>1, <4>3, <5>1
        <5> QED BY <3>1, <5>2
      <4> QED BY <4>2, <4>3
    <3> QED BY <3>2, <3>3, <3>4
  <2> QED BY <2>1, <2>2
<1> HIDE DEF P
<1>2. SUBSET T \subseteq P
  BY <1>1, SubsetInduction
<1>3. \E k \in T : \A x \in T : k >= x
  BY <1>2 DEF P
<1> QED BY <1>3 DEF Max

-----------------------------------------------------------------------------
(* Folds. *)

\* c takes an element out of each set that has one.
Chooses(c, D) == \A s \in SUBSET D : s # {} => c[s] \in s

\* f folds the elements of each subset of D, in the order of c, into b.
Folds(f, D, c, b, J) ==
  /\ f = [s \in SUBSET D |-> f[s]] /\ f[{}] = b
  /\ \A s \in SUBSET D : s # {} => f[s] = J[c[s]][f[s \ {c[s]}]]

\* There is a fold.
LEMMA FoldExists ==
  ASSUME NEW D, IsFiniteSet(D), NEW c, Chooses(c, D), NEW B, NEW b \in B, NEW J \in [D -> [B -> B]]
  PROVE  \E f \in [SUBSET D -> B] : Folds(f, D, c, b, J)
<1> DEFINE Small(n) == {s \in SUBSET D : Cardinality(s) <= n}
           Upto(f, n) == /\ f \in [Small(n) -> B] /\ f[{}] = b
                         /\ \A s \in Small(n) : s # {} => f[s] = J[c[s]][f[s \ {c[s]}]]
           P == {n \in Nat : \E f : Upto(f, n)}
<1>1. \A s \in SUBSET D : IsFiniteSet(s) /\ Cardinality(s) \in Nat
  BY FS_Subset, FS_CardinalityType
<1>2. \A s \in SUBSET D : s # {} =>
        /\ c[s] \in s /\ c[s] \in D /\ s \ {c[s]} \in SUBSET D
        /\ Cardinality(s \ {c[s]}) = Cardinality(s) - 1
  <2> SUFFICES ASSUME NEW s \in SUBSET D, s # {}
               PROVE  /\ c[s] \in s /\ c[s] \in D /\ s \ {c[s]} \in SUBSET D
                      /\ Cardinality(s \ {c[s]}) = Cardinality(s) - 1
    OBVIOUS
  <2>1. c[s] \in s
    BY DEF Chooses
  <2> QED BY <1>1, <2>1, FS_RemoveElement
<1>3. 0 \in P
  <2> DEFINE f == [s \in Small(0) |-> b]
  <2>1. \A s \in Small(0) : s = {}
    <3> SUFFICES ASSUME NEW s \in SUBSET D, Cardinality(s) <= 0 PROVE s = {}
      OBVIOUS
    <3>1. Cardinality(s) = 0
      BY <1>1
    <3> QED BY <1>1, <3>1, FS_EmptySet
  <2>2. {} \in Small(0)
    BY FS_EmptySet
  <2>3. Upto(f, 0)
    <3> HIDE DEF Small
    <3> QED BY <2>1, <2>2
  <2> QED BY <2>3
<1>4. ASSUME NEW n \in Nat, n \in P PROVE n + 1 \in P
  <2>1. PICK f : Upto(f, n)
    BY <1>4
  <2> DEFINE g == [s \in Small(n + 1) |-> IF Cardinality(s) <= n THEN f[s] ELSE J[c[s]][f[s \ {c[s]}]]]
  <2>2. \A s \in Small(n) : s \in Small(n + 1)
    BY <1>1
  <2>3. \A s \in Small(n + 1) : s # {} =>
          s \ {c[s]} \in Small(n) /\ f[s \ {c[s]}] \in B /\ c[s] \in D
    <3> SUFFICES ASSUME NEW s \in Small(n + 1), s # {}
                 PROVE  s \ {c[s]} \in Small(n) /\ f[s \ {c[s]}] \in B /\ c[s] \in D
      OBVIOUS
    <3>1. s \ {c[s]} \in Small(n)
      BY <1>1, <1>2
    <3>2. f[s \ {c[s]}] \in B
      <4> HIDE DEF Small
      <4> QED BY <2>1, <3>1
    <3> QED BY <1>2, <3>1, <3>2
  <2>4. \A s \in Small(n + 1) : s \in Small(n) <=> Cardinality(s) <= n
    OBVIOUS
  <2>5. {} \in Small(n) /\ Cardinality({}) <= n
    BY FS_EmptySet
  <2>6. \A s \in Small(n + 1) : Cardinality(s) > n => s # {}
    BY FS_EmptySet
  <2>7. \A s \in Small(n + 1) : Cardinality(s) <= n \/ Cardinality(s) > n
    BY <1>1
  <2> HIDE DEF Small
  <2>8. g \in [Small(n + 1) -> B]
    <3>1. ASSUME NEW s \in Small(n + 1) PROVE g[s] \in B
      <4>1. CASE Cardinality(s) <= n
        BY <2>1, <2>4, <4>1
      <4>2. CASE Cardinality(s) > n
        <5>1. s # {} /\ ~(Cardinality(s) <= n)
          BY <2>5, <2>6, <4>2, <1>1 DEF Small
        <5> QED BY <2>3, <5>1
      <4> QED BY <2>7, <4>1, <4>2
    <3> QED BY <3>1
  <2>9. \A s \in Small(n) : g[s] = f[s]
    BY <2>2, <2>4
  <2>10. g[{}] = b
    BY <2>1, <2>5, <2>9
  <2>11. ASSUME NEW s \in Small(n + 1), s # {} PROVE g[s] = J[c[s]][g[s \ {c[s]}]]
    <3>1. g[s \ {c[s]}] = f[s \ {c[s]}]
      BY <2>3, <2>9, <2>11
    <3>2. CASE Cardinality(s) <= n
      <4>1. s \in Small(n)
        BY <2>4, <3>2
      <4> QED BY <2>1, <2>9, <2>11, <3>1, <4>1
    <3>3. CASE ~(Cardinality(s) <= n)
      BY <3>1, <3>3
    <3> QED BY <3>2, <3>3
  <2> HIDE DEF g
  <2>12. Upto(g, n + 1)
    BY <2>8, <2>10, <2>11
  <2> HIDE DEF Upto
  <2> QED BY <2>12
<1> HIDE DEF P
<1>5. Nat \subseteq P
  BY <1>3, <1>4, NatSetInduction
<1> USE DEF P
<1>6. PICK f : Upto(f, Cardinality(D))
  BY <1>5, FS_CardinalityType
<1>7. Small(Cardinality(D)) = SUBSET D
  BY FS_Subset
<1> QED BY <1>6, <1>7 DEF Folds

\* And no other.
LEMMA FoldUnique ==
  ASSUME NEW D, IsFiniteSet(D), NEW c, Chooses(c, D), NEW b, NEW J,
         NEW f, Folds(f, D, c, b, J), NEW g, Folds(g, D, c, b, J)
  PROVE  \A s \in SUBSET D : f[s] = g[s]
<1> DEFINE P == {s \in SUBSET D : f[s] = g[s]}
<1>1. ASSUME NEW s \in SUBSET D, \A t \in SUBSET D : t \subseteq s /\ t # s => t \in P
      PROVE  s \in P
  <2>1. CASE s = {}
    BY <2>1 DEF Folds
  <2>2. CASE s # {}
    <3> DEFINE t == s \ {c[s]}
    <3>1. c[s] \in s /\ t \in SUBSET D /\ t \subseteq s /\ t # s
      BY <2>2 DEF Chooses
    <3>2. f[t] = g[t]
      BY <1>1, <3>1
    <3> QED BY <2>2, <3>2 DEF Folds
  <2> QED BY <2>1, <2>2
<1> HIDE DEF P
<1>2. SUBSET D \subseteq P
  BY <1>1, SubsetInduction
<1> QED BY <1>2 DEF P

-----------------------------------------------------------------------------
(* Sums: what SumFunctionOnSet of the community modules comes to. *)

\* f sums g over each subset of D, whichever element is added last.
IsSum(f, D, g) ==
  /\ f \in [SUBSET D -> Int] /\ f[{}] = 0
  /\ \A s \in SUBSET D : \A x \in s : f[s] = g[x] + f[s \ {x}]

\* In whatever order a fold adds, it is the sum.
LEMMA FoldIsSum ==
  ASSUME NEW D, IsFiniteSet(D), NEW c, Chooses(c, D), NEW g, \A x \in D : g[x] \in Int,
         NEW f, f = [s \in SUBSET D |-> f[s]], f[{}] = 0,
         \A s \in SUBSET D : s # {} => f[s] = g[c[s]] + f[s \ {c[s]}]
  PROVE  IsSum(f, D, g)
<1> DEFINE P == {s \in SUBSET D : f[s] \in Int /\ \A x \in s : f[s] = g[x] + f[s \ {x}]}
<1>1. ASSUME NEW s \in SUBSET D, \A t \in SUBSET D : t \subseteq s /\ t # s => t \in P
      PROVE  s \in P
  <2>1. CASE s = {}
    BY <2>1
  <2>2. CASE s # {}
    <3> DEFINE a == c[s]
               t == s \ {a}
    <3>1. a \in s /\ t \in SUBSET D /\ t \subseteq s /\ t # s
      BY <2>2 DEF Chooses
    <3>2. f[s] = g[a] + f[t] /\ f[t] \in Int /\ g[a] \in Int
      BY <1>1, <2>2, <3>1
    <3>3. ASSUME NEW x \in s PROVE f[s] = g[x] + f[s \ {x}]
      <4>1. CASE x = a
        BY <3>2, <4>1
      <4>2. CASE x # a
        <5> DEFINE u == s \ {x}
                   v == t \ {x}
        <5>1. /\ u \in SUBSET D /\ u \subseteq s /\ u # s /\ a \in u /\ x \in t
              /\ v = u \ {a} /\ v \in SUBSET D /\ v \subseteq s /\ v # s /\ x \in D
          BY <3>1, <4>2
        <5>2. t \in P /\ u \in P /\ v \in P
          BY <1>1, <3>1, <5>1
        <5>3. f[t] = g[x] + f[v] /\ f[u] = g[a] + f[v] /\ f[v] \in Int /\ g[x] \in Int
          BY <5>1, <5>2
        <5> HIDE DEF u, v, t, a
        <5>4. f[s] = g[x] + f[u]
          BY <3>2, <5>3
        <5> QED BY <5>4 DEF u
      <4> QED BY <4>1, <4>2
    <3>4. f[s] \in Int
      <4> HIDE DEF t, a
      <4> QED BY <3>2
    <3> QED BY <3>3, <3>4
  <2> QED BY <2>1, <2>2
<1> HIDE DEF P
<1>2. SUBSET D \subseteq P
  BY <1>1, SubsetInduction, Zenon
<1>3. \A s \in SUBSET D : f[s] \in Int /\ \A x \in s : f[s] = g[x] + f[s \ {x}]
  BY <1>2 DEF P
<1>4. f \in [SUBSET D -> Int]
  BY <1>3
<1> QED BY <1>3, <1>4 DEF IsSum

\* There is a sum.
LEMMA SumExists ==
  ASSUME NEW D, IsFiniteSet(D), NEW g, \A x \in D : g[x] \in Int
  PROVE  \E f : IsSum(f, D, g)
<1> DEFINE c == [s \in SUBSET D |-> CHOOSE x \in s : TRUE]
           J == [x \in D |-> [y \in Int |-> g[x] + y]]
<1>1. Chooses(c, D)
  BY DEF Chooses
<1>2. J \in [D -> [Int -> Int]]
  OBVIOUS
<1> HIDE DEF c
<1>3. PICK f \in [SUBSET D -> Int] : Folds(f, D, c, 0, J)
  <2> HIDE DEF J
  <2>1. 0 \in Int
    OBVIOUS
  <2> QED BY <1>1, <1>2, <2>1, FoldExists, Zenon
<1>4. ASSUME NEW s \in SUBSET D, s # {} PROVE f[s] = g[c[s]] + f[s \ {c[s]}]
  <2>1. c[s] \in D /\ s \ {c[s]} \in SUBSET D
    BY <1>1, <1>4 DEF Chooses
  <2> QED BY <1>3, <1>4, <2>1 DEF Folds
<1>5. f = [s \in SUBSET D |-> f[s]] /\ f[{}] = 0
  BY <1>3 DEF Folds
<1> HIDE DEF J
<1>6. IsSum(f, D, g)
  BY <1>1, <1>4, <1>5, FoldIsSum
<1> QED BY <1>6

\* The sum over a set depends on the terms in it alone.
LEMMA SumUnique ==
  ASSUME NEW D, IsFiniteSet(D), NEW E, NEW g, NEW h, NEW f, IsSum(f, D, g), NEW e, IsSum(e, E, h),
         NEW S \in SUBSET D, S \in SUBSET E, \A x \in S : g[x] = h[x]
  PROVE  f[S] = e[S]
<1> DEFINE P == {s \in SUBSET S : f[s] = e[s]}
<1>1. ASSUME NEW s \in SUBSET S, \A t \in SUBSET S : t \subseteq s /\ t # s => t \in P
      PROVE  s \in P
  <2>1. CASE s = {}
    BY <2>1 DEF IsSum
  <2>2. CASE s # {}
    <3>1. PICK x \in s : TRUE
      BY <2>2
    <3>2. s \ {x} \in P
      BY <1>1, <3>1
    <3>3. f[s] = g[x] + f[s \ {x}] /\ e[s] = h[x] + e[s \ {x}] /\ g[x] = h[x]
      <4>1. x \in s /\ s \in SUBSET D /\ s \in SUBSET E /\ x \in S
        BY <3>1
      <4> QED BY <4>1 DEF IsSum
    <3> QED BY <3>2, <3>3
  <2> QED BY <2>1, <2>2
<1>2. IsFiniteSet(S)
  BY FS_Subset
<1> HIDE DEF P
<1>3. SUBSET S \subseteq P
  BY <1>1, <1>2, SubsetInduction, Zenon
<1> QED BY <1>3 DEF P

\* The sum of the library, by any sum over its set or over more.
LEMMA LibrarySum ==
  ASSUME NEW D, IsFiniteSet(D), NEW g, \A x \in D : g[x] \in Int
  PROVE  \E f : IsSum(f, D, g) /\ f[D] = SumFunctionOnSet(g, D)
<1> DEFINE body(iter, s) == IF s = {} THEN 0
                            ELSE LET x == CHOOSE y \in s : TRUE
                                 IN  g[x] + iter[s \ {x}]
           defines(iter) == iter = [s \in SUBSET D |-> body(iter, s)]
           sum == CHOOSE iter : defines(iter)
           c == [s \in SUBSET D |-> CHOOSE y \in s : TRUE]
<1>1. SumFunctionOnSet(g, D) = sum[D]
  BY DEF SumFunctionOnSet, FoldFunctionOnSet, MapThenFoldSet
<1>2. PICK f : IsSum(f, D, g)
  BY SumExists
<1>3. defines(f)
  <2>1. ASSUME NEW s \in SUBSET D PROVE f[s] = body(f, s)
    BY <1>2 DEF IsSum
  <2>2. f = [s \in SUBSET D |-> f[s]]
    BY <1>2 DEF IsSum
  <2> HIDE DEF body
  <2> QED BY <2>1, <2>2
<1>4. defines(sum)
  <2> HIDE DEF defines
  <2> QED BY <1>3
<1>5. \A s \in SUBSET D : sum[s] = body(sum, s)
  <2> HIDE DEF body, sum
  <2> QED BY <1>4
<1>6. sum = [s \in SUBSET D |-> sum[s]]
  <2> HIDE DEF body, sum
  <2> QED BY <1>4
<1> HIDE DEF sum
<1>7. Chooses(c, D)
  BY DEF Chooses
<1>8. sum[{}] = 0 /\ \A s \in SUBSET D : s # {} => sum[s] = g[c[s]] + sum[s \ {c[s]}]
  BY <1>5
<1> HIDE DEF c
<1>9. IsSum(sum, D, g)
  BY <1>6, <1>7, <1>8, FoldIsSum
<1> QED BY <1>1, <1>9

\* A sum of integers is one.
LEMMA SumInt ==
  ASSUME NEW D, IsFiniteSet(D), NEW g, \A x \in D : g[x] \in Int
  PROVE  SumFunctionOnSet(g, D) \in Int
<1>1. PICK f : IsSum(f, D, g) /\ f[D] = SumFunctionOnSet(g, D)
  BY LibrarySum
<1> QED BY <1>1 DEF IsSum

\* A sum over nothing.
LEMMA SumNone ==
  ASSUME NEW g
  PROVE  SumFunctionOnSet(g, {}) = 0
<1>1. IsFiniteSet({}) /\ \A x \in {} : g[x] \in Int
  BY FS_EmptySet
<1>2. PICK f : IsSum(f, {}, g) /\ f[{}] = SumFunctionOnSet(g, {})
  BY <1>1, LibrarySum
<1> QED BY <1>2 DEF IsSum

\* Equal terms have equal sums.
LEMMA SumSame ==
  ASSUME NEW D, IsFiniteSet(D), NEW g, NEW h, \A x \in D : g[x] \in Int /\ g[x] = h[x]
  PROVE  SumFunctionOnSet(g, D) = SumFunctionOnSet(h, D)
<1>1. PICK e : IsSum(e, D, g) /\ e[D] = SumFunctionOnSet(g, D)
  BY LibrarySum
<1>2. PICK f : IsSum(f, D, h) /\ f[D] = SumFunctionOnSet(h, D)
  BY LibrarySum
<1>3. D \in SUBSET D
  OBVIOUS
<1>4. e[D] = f[D]
  BY <1>1, <1>2, <1>3, SumUnique, SMTT(60)
<1> QED BY <1>1, <1>2, <1>4

\* A sum without one of its terms.
LEMMA SumWithout ==
  ASSUME NEW D, IsFiniteSet(D), NEW g, \A x \in D : g[x] \in Int, NEW a \in D
  PROVE  SumFunctionOnSet(g, D) = g[a] + SumFunctionOnSet(g, D \ {a})
<1> DEFINE E == D \ {a}
<1>1. IsFiniteSet(E) /\ E \in SUBSET D /\ E \in SUBSET E /\ \A x \in E : g[x] \in Int
  BY FS_RemoveElement
<1>2. PICK e : IsSum(e, D, g) /\ e[D] = SumFunctionOnSet(g, D)
  BY LibrarySum
<1> HIDE DEF E
<1>3. PICK f : IsSum(f, E, g) /\ f[E] = SumFunctionOnSet(g, E)
  BY <1>1, LibrarySum
<1>4. e[E] = f[E]
  BY <1>1, <1>2, <1>3, SumUnique, SMTT(60)
<1>5. e[D] = g[a] + e[E]
  BY <1>2 DEF IsSum, E
<1> QED BY <1>2, <1>3, <1>4, <1>5 DEF E

\* What holds of each pair of terms, in these multiples, holds of their sums.
LEMMA SumBound ==
  ASSUME NEW D, IsFiniteSet(D), NEW g, NEW h, NEW a \in Int, NEW b \in Int,
         \A x \in D : g[x] \in Int /\ h[x] \in Int /\ a * g[x] <= b * h[x]
  PROVE  a * SumFunctionOnSet(g, D) <= b * SumFunctionOnSet(h, D)
<1>1. PICK e : IsSum(e, D, g) /\ e[D] = SumFunctionOnSet(g, D)
  BY LibrarySum
<1>2. PICK f : IsSum(f, D, h) /\ f[D] = SumFunctionOnSet(h, D)
  BY LibrarySum
<1> DEFINE P == {s \in SUBSET D : a * e[s] <= b * f[s]}
<1>3. ASSUME NEW s \in SUBSET D, \A t \in SUBSET D : t \subseteq s /\ t # s => t \in P
      PROVE  s \in P
  <2>1. CASE s = {}
    <3>1. e[s] = 0 /\ f[s] = 0
      BY <1>1, <1>2, <2>1 DEF IsSum
    <3> QED BY <3>1
  <2>2. CASE s # {}
    <3>1. PICK x \in s : TRUE
      BY <2>2
    <3> DEFINE t == s \ {x}
               p == e[t]
               q == f[t]
    <3>2. a * p <= b * q
      BY <1>3, <3>1
    <3>3. /\ e[s] = g[x] + p /\ f[s] = h[x] + q /\ p \in Int /\ q \in Int
          /\ g[x] \in Int /\ h[x] \in Int /\ a * g[x] <= b * h[x]
      BY <1>1, <1>2, <3>1 DEF IsSum
    <3> HIDE DEF t, p, q
    <3>4. /\ a * (g[x] + p) = a * g[x] + a * p /\ b * (h[x] + q) = b * h[x] + b * q
          /\ a * g[x] \in Int /\ a * p \in Int /\ b * h[x] \in Int /\ b * q \in Int
      BY <3>3
    <3>5. a * (g[x] + p) <= b * (h[x] + q)
      BY <3>2, <3>3, <3>4
    <3> QED BY <3>3, <3>5
  <2> QED BY <2>1, <2>2
<1> HIDE DEF P
<1>4. SUBSET D \subseteq P
  BY <1>3, SubsetInduction, Zenon
<1> QED BY <1>1, <1>2, <1>4 DEF P

\* Term by term no more, in all no more.
LEMMA SumAtMost ==
  ASSUME NEW D, IsFiniteSet(D), NEW g, NEW h, \A x \in D : g[x] \in Int /\ h[x] \in Int /\ g[x] <= h[x]
  PROVE  SumFunctionOnSet(g, D) <= SumFunctionOnSet(h, D)
<1>1. 1 * SumFunctionOnSet(g, D) <= 1 * SumFunctionOnSet(h, D)
  <2>1. \A x \in D : g[x] \in Int /\ h[x] \in Int /\ 1 * g[x] <= 1 * h[x]
    OBVIOUS
  <2> QED BY <2>1, SumBound
<1>2. SumFunctionOnSet(g, D) \in Int /\ SumFunctionOnSet(h, D) \in Int
  BY SumInt
<1> QED BY <1>1, <1>2

\* Sums of natural numbers grow with their sets.
LEMMA SumGrows ==
  ASSUME NEW D, IsFiniteSet(D), NEW g, \A x \in D : g[x] \in Nat, NEW S \in SUBSET D
  PROVE  SumFunctionOnSet(g, S) \in Nat /\ SumFunctionOnSet(g, S) <= SumFunctionOnSet(g, D)
<1>1. PICK f : IsSum(f, D, g) /\ f[D] = SumFunctionOnSet(g, D)
  BY LibrarySum
<1>2. PICK e : IsSum(e, S, g) /\ e[S] = SumFunctionOnSet(g, S)
  BY LibrarySum, FS_Subset
<1>3. e[S] = f[S]
  <2>1. S \in SUBSET S /\ IsFiniteSet(S)
    BY FS_Subset
  <2> QED BY <1>1, <1>2, <2>1, SumUnique, SMTT(60)
<1> DEFINE P == {s \in SUBSET D : \A t \in SUBSET s : f[t] \in Nat /\ f[t] <= f[s]}
<1>4. ASSUME NEW s \in SUBSET D, \A t \in SUBSET D : t \subseteq s /\ t # s => t \in P
      PROVE  s \in P
  <2>1. CASE s = {}
    <3>1. f[s] = 0 /\ \A t \in SUBSET s : t = s
      BY <1>1, <2>1 DEF IsSum
    <3> QED BY <3>1
  <2>2. CASE s # {}
    <3>1. f[s] \in Nat
      <4>1. PICK x \in s : TRUE
        BY <2>2
      <4>2. s \ {x} \in P
        BY <1>4, <4>1
      <4>3. f[s \ {x}] \in Nat /\ f[s] = g[x] + f[s \ {x}] /\ g[x] \in Nat
        BY <1>1, <4>1, <4>2 DEF IsSum
      <4> QED BY <4>3
    <3>2. ASSUME NEW t \in SUBSET s, t # s PROVE f[t] \in Nat /\ f[t] <= f[s]
      <4>1. PICK x \in s : x \notin t
        BY <3>2
      <4>2. s \ {x} \in P /\ t \in SUBSET (s \ {x})
        BY <1>4, <4>1
      <4>3. /\ f[s \ {x}] \in Nat /\ f[s] = g[x] + f[s \ {x}] /\ g[x] \in Nat
            /\ f[t] \in Nat /\ f[t] <= f[s \ {x}]
        BY <1>1, <4>1, <4>2 DEF IsSum
      <4> QED BY <4>3
    <3> QED BY <3>1, <3>2
  <2> QED BY <2>1, <2>2
<1> HIDE DEF P
<1>5. SUBSET D \subseteq P
  BY <1>4, SubsetInduction, Zenon
<1> QED BY <1>1, <1>2, <1>3, <1>5 DEF P

\* Terms of at most k add up to at most k times their number.
LEMMA SumLimit ==
  ASSUME NEW D, IsFiniteSet(D), NEW k \in Int, NEW g, \A x \in D : g[x] \in Int /\ g[x] <= k
  PROVE  SumFunctionOnSet(g, D) <= k * Cardinality(D)
<1>1. PICK f : IsSum(f, D, g) /\ f[D] = SumFunctionOnSet(g, D)
  BY LibrarySum
<1> DEFINE P == {s \in SUBSET D : f[s] <= k * Cardinality(s)}
<1>2. ASSUME NEW s \in SUBSET D, \A t \in SUBSET D : t \subseteq s /\ t # s => t \in P
      PROVE  s \in P
  <2>1. CASE s = {}
    <3>1. f[s] = 0 /\ Cardinality(s) = 0
      BY <1>1, <2>1, FS_EmptySet DEF IsSum
    <3> QED BY <3>1
  <2>2. CASE s # {}
    <3>1. PICK x \in s : TRUE
      BY <2>2
    <3> DEFINE t == s \ {x}
               n == Cardinality(t)
    <3>2. f[t] <= k * n
      BY <1>2, <3>1
    <3>3. f[s] = g[x] + f[t] /\ g[x] \in Int /\ f[t] \in Int /\ g[x] <= k
      BY <1>1, <3>1 DEF IsSum
    <3>4. n \in Nat /\ Cardinality(s) = n + 1
      <4>1. IsFiniteSet(s) /\ IsFiniteSet(t)
        BY FS_Subset
      <4> QED BY <3>1, <4>1, FS_RemoveElement, FS_CardinalityType
    <3> HIDE DEF n, t
    <3>5. k * (n + 1) = k * n + k /\ k * n \in Int
      BY <3>4
    <3>6. f[s] <= k * (n + 1)
      BY <3>2, <3>3, <3>5
    <3> QED BY <3>4, <3>6
  <2> QED BY <2>1, <2>2
<1> HIDE DEF P
<1>3. SUBSET D \subseteq P
  BY <1>2, SubsetInduction, Zenon
<1> QED BY <1>1, <1>3 DEF P

-----------------------------------------------------------------------------
(* Two numbers, three numbers, and steps. *)

\* The larger and the smaller of two numbers.
LEMMA GreaterOfTwo ==
  ASSUME NEW a \in Int, NEW b \in Int
  PROVE  Max({a, b}) = IF a >= b THEN a ELSE b
<1> DEFINE T == {a, b}
<1>1. \E k \in T : \A x \in T : k >= x
  BY SMT
<1>2. Max(T) \in T /\ \A x \in T : Max(T) >= x
  BY <1>1, Zenon DEF Max
<1> QED BY <1>2, SMT

LEMMA SmallerOfTwo ==
  ASSUME NEW a \in Int, NEW b \in Int
  PROVE  Min({a, b}) = IF a <= b THEN a ELSE b
<1> DEFINE T == {a, b}
<1>1. \E k \in T : \A x \in T : k <= x
  BY SMT
<1>2. Min(T) \in T /\ \A x \in T : Min(T) <= x
  BY <1>1, Zenon DEF Min
<1> QED BY <1>2, SMT

\* f is what the steps J make of b.
StepByStep(f, n, b, J) == f[0] = b /\ \A i \in 1 .. n : f[i] = J[i][f[i - 1]]

\* A recursion over 0 .. n whose steps are the functions J has a solution.
LEMMA StepsExist ==
  ASSUME NEW n \in Nat, NEW B, NEW b \in B, NEW J \in [1 .. n -> [B -> B]]
  PROVE  \E f \in [0 .. n -> B] : StepByStep(f, n, b, J)
<1> DEFINE Upto(f, m) == /\ f \in [0 .. m -> B] /\ f[0] = b
                         /\ \A i \in 1 .. m : f[i] = J[i][f[i - 1]]
           P == {m \in Nat : m <= n => \E f : Upto(f, m)}
<1>1. 0 \in P
  <2>1. Upto([i \in 0 .. 0 |-> b], 0)
    OBVIOUS
  <2> QED BY <2>1
<1>2. ASSUME NEW m \in Nat, m \in P PROVE m + 1 \in P
  <2> SUFFICES ASSUME m + 1 <= n PROVE \E f : Upto(f, m + 1)
    OBVIOUS
  <2>1. PICK f : Upto(f, m)
    BY <1>2
  <2> DEFINE g == [i \in 0 .. m + 1 |-> IF i <= m THEN f[i] ELSE J[m + 1][f[m]]]
  <2>2. m + 1 \in 1 .. n /\ f[m] \in B
    BY <2>1
  <2>3. J[m + 1][f[m]] \in B
    BY <2>2
  <2>4. g \in [0 .. m + 1 -> B]
    BY <2>1, <2>3
  <2>5. ASSUME NEW i \in 1 .. m + 1 PROVE g[i] = J[i][g[i - 1]]
    <3>1. CASE i \in 1 .. m
      <4>1. i \in 0 .. m + 1 /\ i - 1 \in 0 .. m + 1 /\ i <= m /\ i - 1 <= m
        BY <3>1
      <4> QED BY <2>1, <3>1, <4>1
    <3>2. CASE i = m + 1
      <4>1. i - 1 = m /\ m \in 0 .. m + 1 /\ m <= m /\ ~(i <= m)
        BY <3>2
      <4> QED BY <3>2, <4>1
    <3> QED BY <3>1, <3>2
  <2>6. g[0] = b
    BY <2>1
  <2> QED BY <2>4, <2>5, <2>6
<1> HIDE DEF P
<1>3. Nat \subseteq P
  BY <1>1, <1>2, NatSetInduction
<1> USE DEF P
<1> QED BY <1>3 DEF StepByStep

\* A set of three is finite.
LEMMA FiniteTriple ==
  ASSUME NEW a, NEW b, NEW c
  PROVE  IsFiniteSet({a, b, c})
<1>1. IsFiniteSet({a})
  BY FS_Singleton
<1>2. IsFiniteSet({a} \cup {b})
  BY <1>1, FS_AddElement
<1>3. IsFiniteSet(({a} \cup {b}) \cup {c})
  BY <1>2, FS_AddElement
<1>4. ({a} \cup {b}) \cup {c} = {a, b, c}
  OBVIOUS
<1> QED BY <1>3, <1>4
=============================================================================
