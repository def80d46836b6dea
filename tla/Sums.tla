-------------------------------- MODULE Sums --------------------------------
(***************************************************************************)
(* Sums of integers over finite sets, as the community modules define them *)
(* by folding in an order of CHOOSE's choosing, and the laws that make the *)
(* order irrelevant.  Induction over the subsets of a finite set is by the *)
(* least cardinality at which a claim fails.                               *)
(***************************************************************************)
EXTENDS Integers, Functions, FiniteSetTheorems, WellFoundedInduction, TLAPS

SumOver(f, S) == FoldFunctionOnSet(+, 0, f, S)

\* Every set of natural numbers has a least one.
LEMMA Least ==
    ASSUME NEW T, T \subseteq Nat, T # {}
    PROVE  \E n \in T : \A m \in T : n <= m
<1> DEFINE R == OpToRel(<, Nat)
<1>1. IsWellFoundedOn(R, Nat)
  BY NatLessThanWellFounded
<1>2. \A n, m \in Nat : <<m, n>> \in R <=> m < n
  BY DEF OpToRel
<1> HIDE DEF R
<1>3. PICK n \in T : \A m \in T : <<m, n>> \notin R
  BY <1>1, WFMin
<1>4. ASSUME NEW m \in T PROVE n <= m
  <2>1. n \in Nat /\ m \in Nat
    OBVIOUS
  <2>2. <<m, n>> \notin R
    BY <1>3
  <2>3. ~(m < n)
    BY <1>2, <2>1, <2>2
  <2> QED BY <2>1, <2>3
<1> QED BY <1>4

\* A set that has 0, and with a number the next, has every natural number.
LEMMA CountUp ==
    ASSUME NEW G, 0 \in G, \A n \in Nat : n \in G => n + 1 \in G
    PROVE  \A n \in Nat : n \in G
<1> SUFFICES ASSUME NEW k \in Nat, k \notin G PROVE FALSE
  OBVIOUS
<1> DEFINE Bad == {n \in Nat : n \notin G}
<1>1. PICK n \in Bad : \A m \in Bad : n <= m
  <2>1. Bad \subseteq Nat /\ Bad # {}
    OBVIOUS
  <2> HIDE DEF Bad
  <2> QED BY <2>1, Least
<1>2. n \in Nat /\ n # 0 /\ n - 1 \in Nat /\ (n - 1) + 1 = n
  BY <1>1
<1>3. n - 1 \in G
  BY <1>1, <1>2
<1> QED BY <1>1, <1>2, <1>3

\* A set G of sets that has the empty set, and with a set one element more, has
\* every subset of a finite set.
LEMMA SetInduction ==
    ASSUME NEW T, IsFiniteSet(T), NEW G, {} \in G,
           \A K \in SUBSET T : K \in G => \A x \in T \ K : K \cup {x} \in G
    PROVE  \A K \in SUBSET T : K \in G
<1> DEFINE Bad == {n \in Nat : \E K \in SUBSET T : Cardinality(K) = n /\ K \notin G}
<1>1. \A K \in SUBSET T : IsFiniteSet(K) /\ Cardinality(K) \in Nat
  BY FS_Subset, FS_CardinalityType
<1>2. Bad = {}
  <2> SUFFICES ASSUME Bad # {} PROVE FALSE
    OBVIOUS
  <2>1. PICK n \in Bad : \A m \in Bad : n <= m
    <3>1. Bad \subseteq Nat
      OBVIOUS
    <3> HIDE DEF Bad
    <3> QED BY <3>1, Least
  <2>2. PICK K \in SUBSET T : Cardinality(K) = n /\ K \notin G
    BY <2>1
  <2>3. PICK x : x \in K
    BY <2>2
  <2>4. K \ {x} \in SUBSET T /\ Cardinality(K \ {x}) = n - 1 /\ n - 1 \in Nat
    <3>1. IsFiniteSet(K) /\ Cardinality(K \ {x}) = Cardinality(K) - 1 /\ n \in Nat
      BY <1>1, <2>2, <2>3, FS_RemoveElement
    <3>2. K \ {x} \in SUBSET T /\ Cardinality(K \ {x}) \in Nat
      BY <1>1
    <3> QED BY <2>2, <3>1, <3>2
  <2>5. K \ {x} \in G
    BY <2>1, <2>4
  <2>6. (K \ {x}) \cup {x} = K /\ x \in T \ (K \ {x})
    BY <2>3
  <2> QED BY <2>2, <2>4, <2>5, <2>6
<1> QED BY <1>1, <1>2

-----------------------------------------------------------------------------
Pick(s) == CHOOSE x \in s : TRUE
\* The sums of f over the subsets of S.
IsFold(g, f, S) == g = [s \in SUBSET S |-> IF s = {} THEN 0 ELSE f[Pick(s)] + g[s \ {Pick(s)}]]

\* It is what the sum over a set is defined as.
LEMMA Unfold ==
    ASSUME NEW S, NEW f
    PROVE  SumOver(f, S) = (CHOOSE g : IsFold(g, f, S))[S]
BY DEF SumOver, FoldFunctionOnSet, MapThenFoldSet, IsFold, Pick

LEMMA FoldValues ==
    ASSUME NEW S, NEW f, NEW g, IsFold(g, f, S)
    PROVE  /\ g[{}] = 0
           /\ \A s \in SUBSET S : s # {} => g[s] = f[Pick(s)] + g[s \ {Pick(s)}]
<1>1. \A s \in SUBSET S : g[s] = IF s = {} THEN 0 ELSE f[Pick(s)] + g[s \ {Pick(s)}]
  BY DEF IsFold
<1>2. {} \in SUBSET S
  OBVIOUS
<1> QED BY <1>1, <1>2

\* Such a fold exists.
LEMMA FoldExists ==
    ASSUME NEW S, IsFiniteSet(S), NEW f
    PROVE  \E g : IsFold(g, f, S)
<1> DEFINE Small(n) == {s \in SUBSET S : Cardinality(s) <= n}
           Val(g, s) == IF s = {} THEN 0 ELSE f[Pick(s)] + g[s \ {Pick(s)}]
           Good(n) == \E g : g = [s \in Small(n) |-> Val(g, s)]
           Bad == {n \in Nat : ~Good(n)}
<1>1. \A s \in SUBSET S : IsFiniteSet(s) /\ Cardinality(s) \in Nat /\ (Cardinality(s) = 0 <=> s = {})
  BY FS_Subset, FS_CardinalityType, FS_EmptySet
<1>2. \A s \in SUBSET S : s # {} => Pick(s) \in s /\ s \ {Pick(s)} \in SUBSET S
                                    /\ Cardinality(s \ {Pick(s)}) = Cardinality(s) - 1
  BY <1>1, FS_RemoveElement DEF Pick
<1>3. Good(0)
  <2>1. PICK g : g = [s \in Small(0) |-> 0]
    OBVIOUS
  <2>2. \A s \in Small(0) : s = {}
    BY <1>1
  <2>3. g = [s \in Small(0) |-> Val(g, s)]
    BY <2>1, <2>2
  <2> QED BY <2>3
<1>4. ASSUME NEW n \in Nat, Good(n) PROVE Good(n + 1)
  <2>1. PICK g : g = [s \in Small(n) |-> Val(g, s)]
    BY <1>4
  <2>2. PICK h : h = [s \in Small(n + 1) |-> IF s \in Small(n) THEN g[s] ELSE Val(g, s)]
    OBVIOUS
  <2>3. \A s \in Small(n + 1) : s # {} => s \ {Pick(s)} \in Small(n)
    BY <1>1, <1>2
  <2>4. Small(n) \subseteq Small(n + 1)
    BY <1>1
  <2>5. \A s \in Small(n) : h[s] = g[s]
    BY <2>2, <2>4
  <2>6. ASSUME NEW s \in Small(n + 1) PROVE h[s] = Val(h, s)
    <3>1. Val(g, s) = Val(h, s)
      BY <2>3, <2>5
    <3>2. CASE s \in Small(n)
      <4>1. g[s] = Val(g, s)
        BY <2>1, <3>2
      <4> QED BY <2>5, <3>1, <3>2, <4>1
    <3>3. CASE s \notin Small(n)
      BY <2>2, <3>1, <3>3
    <3> QED BY <3>2, <3>3
  <2>7. h = [s \in Small(n + 1) |-> Val(h, s)]
    <3>1. h = [s \in Small(n + 1) |-> h[s]]
      BY <2>2
    <3> HIDE DEF Val, Small
    <3> QED BY <2>6, <3>1
  <2> QED BY <2>7
<1> HIDE DEF Good
<1>5. Bad = {}
  <2> SUFFICES ASSUME Bad # {} PROVE FALSE
    OBVIOUS
  <2>1. PICK n \in Bad : \A m \in Bad : n <= m
    <3>1. Bad \subseteq Nat
      OBVIOUS
    <3> HIDE DEF Bad
    <3> QED BY <3>1, Least
  <2>2. n \in Nat /\ ~Good(n) /\ n # 0
    BY <1>3, <2>1
  <2>3. n - 1 \in Nat /\ n - 1 \notin Bad
    BY <2>1, <2>2
  <2>4. Good(n - 1)
    BY <2>3
  <2>5. Good((n - 1) + 1)
    BY <1>4, <2>3, <2>4
  <2>6. (n - 1) + 1 = n
    BY <2>2
  <2> QED BY <2>2, <2>5, <2>6
<1>6. Cardinality(S) \in Nat /\ Good(Cardinality(S))
  BY <1>1, <1>5
<1>7. Small(Cardinality(S)) = SUBSET S
  BY <1>1, FS_Subset
<1> QED BY <1>6, <1>7 DEF Good, IsFold

\* Two folds, over two sets, agree where both are defined.
LEMMA FoldUnique ==
    ASSUME NEW S, NEW T, S \subseteq T, IsFiniteSet(T), NEW f, NEW g, NEW h,
           IsFold(g, f, S), IsFold(h, f, T)
    PROVE  \A s \in SUBSET S : g[s] = h[s]
<1>1. IsFiniteSet(S) /\ \A s \in SUBSET S : IsFiniteSet(s) /\ Cardinality(s) \in Nat
  BY FS_Subset, FS_CardinalityType
<1>2. g[{}] = 0 /\ h[{}] = 0
  BY FoldValues
<1>3. \A s \in SUBSET S : s # {} => /\ g[s] = f[Pick(s)] + g[s \ {Pick(s)}]
                                     /\ h[s] = f[Pick(s)] + h[s \ {Pick(s)}]
  <2>1. \A s \in SUBSET S : s # {} => g[s] = f[Pick(s)] + g[s \ {Pick(s)}]
    BY FoldValues
  <2>2. \A s \in SUBSET T : s # {} => h[s] = f[Pick(s)] + h[s \ {Pick(s)}]
    BY FoldValues
  <2> QED BY <2>1, <2>2
<1> DEFINE Bad == {n \in Nat : \E s \in SUBSET S : Cardinality(s) = n /\ g[s] # h[s]}
<1>4. Bad = {}
  <2> SUFFICES ASSUME Bad # {} PROVE FALSE
    OBVIOUS
  <2>1. PICK n \in Bad : \A m \in Bad : n <= m
    <3>1. Bad \subseteq Nat
      OBVIOUS
    <3> HIDE DEF Bad
    <3> QED BY <3>1, Least
  <2>2. PICK s \in SUBSET S : Cardinality(s) = n /\ g[s] # h[s]
    BY <2>1
  <2>3. s # {}
    BY <1>2, <2>2
  <2>4. Pick(s) \in s /\ s \ {Pick(s)} \in SUBSET S /\ Cardinality(s \ {Pick(s)}) = n - 1
    BY <1>1, <2>2, <2>3, FS_RemoveElement DEF Pick
  <2>5. g[s \ {Pick(s)}] = h[s \ {Pick(s)}]
    <3>1. n - 1 \in Nat /\ n \in Nat
      BY <1>1, <2>2, <2>4
    <3>2. n - 1 \notin Bad
      BY <2>1, <3>1
    <3> QED BY <2>4, <3>1, <3>2
  <2> QED BY <1>3, <2>2, <2>3, <2>5
<1> QED BY <1>1, <1>4

\* A fold over S gives the sums over the subsets of S.
LEMMA FoldSums ==
    ASSUME NEW S, IsFiniteSet(S), NEW f, NEW g, IsFold(g, f, S), NEW s \in SUBSET S
    PROVE  g[s] = SumOver(f, s)
<1>1. IsFiniteSet(s)
  BY FS_Subset
<1>2. PICK h : h = CHOOSE k : IsFold(k, f, s)
  OBVIOUS
<1>3. IsFold(h, f, s)
  BY <1>1, <1>2, FoldExists
<1>4. h[s] = g[s]
  BY <1>3, FoldUnique
<1> QED BY <1>2, <1>4, Unfold

\* The empty sum is zero, and a sum takes out the element it chooses.
LEMMA SumChooses ==
    ASSUME NEW S, IsFiniteSet(S), NEW f
    PROVE  /\ SumOver(f, {}) = 0
           /\ \A s \in SUBSET S : s # {} => SumOver(f, s) = f[Pick(s)] + SumOver(f, s \ {Pick(s)})
<1>1. PICK g : IsFold(g, f, S)
  BY FoldExists
<1>2. \A s \in SUBSET S : g[s] = SumOver(f, s)
  BY <1>1, FoldSums
<1>3. {} \in SUBSET S /\ \A s \in SUBSET S : s \ {Pick(s)} \in SUBSET S
  OBVIOUS
<1> QED BY <1>1, <1>2, <1>3, FoldValues

\* The order does not matter: any element may be taken out first.
LEMMA SumTakesOut ==
    ASSUME NEW S, IsFiniteSet(S), NEW f, \A x \in S : f[x] \in Int
    PROVE  \A s \in SUBSET S : /\ SumOver(f, s) \in Int
                               /\ \A x \in s : SumOver(f, s) = f[x] + SumOver(f, s \ {x})
<1>1. \A s \in SUBSET S : IsFiniteSet(s) /\ Cardinality(s) \in Nat
  BY FS_Subset, FS_CardinalityType
<1> DEFINE Ok(s) == /\ SumOver(f, s) \in Int
                    /\ \A x \in s : SumOver(f, s) = f[x] + SumOver(f, s \ {x})
           Bad == {n \in Nat : \E s \in SUBSET S : Cardinality(s) = n /\ ~Ok(s)}
<1>2. Bad = {}
  <2> SUFFICES ASSUME Bad # {} PROVE FALSE
    OBVIOUS
  <2>1. PICK n \in Bad : \A m \in Bad : n <= m
    <3>1. Bad \subseteq Nat
      OBVIOUS
    <3> HIDE DEF Bad
    <3> QED BY <3>1, Least
  <2>2. PICK s \in SUBSET S : Cardinality(s) = n /\ ~Ok(s)
    BY <2>1
  <2>3. \A t \in SUBSET S : Cardinality(t) \in Nat /\ Cardinality(t) < n => Ok(t)
    <3> HIDE DEF Ok
    <3> QED BY <2>1
  <2>4. s # {}
    BY <2>2, SumChooses
  <2>5. PICK p : p = Pick(s)
    OBVIOUS
  <2>6. p \in s /\ f[p] \in Int
    BY <2>4, <2>5 DEF Pick
  <2>7. SumOver(f, s) = f[p] + SumOver(f, s \ {p})
    BY <2>4, <2>5, SumChooses
  <2>8. \A x \in s : Ok(s \ {x})
    <3>1. \A x \in s : s \ {x} \in SUBSET S /\ Cardinality(s \ {x}) = n - 1 /\ n \in Nat
      BY <1>1, <2>2, FS_RemoveElement
    <3>2. \A x \in s : Cardinality(s \ {x}) \in Nat /\ Cardinality(s \ {x}) < n
      BY <1>1, <3>1
    <3> HIDE DEF Ok
    <3> QED BY <2>3, <3>1, <3>2
  <2>9. SumOver(f, s) \in Int
    BY <2>6, <2>7, <2>8
  <2>10. ASSUME NEW x \in s PROVE SumOver(f, s) = f[x] + SumOver(f, s \ {x})
    <3>1. CASE x = p
      BY <2>7, <3>1
    <3>2. CASE x # p
      <4>1. x \in s \ {p} /\ p \in s \ {x} /\ (s \ {p}) \ {x} = (s \ {x}) \ {p}
        BY <2>6, <3>2
      <4>2. SumOver(f, s \ {p}) = f[x] + SumOver(f, (s \ {p}) \ {x})
        BY <2>6, <2>8, <4>1
      <4>3. SumOver(f, s \ {x}) = f[p] + SumOver(f, (s \ {x}) \ {p})
        BY <2>8, <4>1
      <4>4. PICK y : y = SumOver(f, (s \ {x}) \ {p})
        OBVIOUS
      <4>5. y \in Int
        <5>1. (s \ {x}) \ {p} \in SUBSET S /\ Cardinality((s \ {x}) \ {p}) = Cardinality(s \ {x}) - 1
          BY <1>1, <4>1, FS_RemoveElement
        <5>2. Cardinality(s \ {x}) = n - 1
          BY <1>1, <2>2, FS_RemoveElement
        <5>3. Cardinality((s \ {x}) \ {p}) \in Nat /\ Cardinality((s \ {x}) \ {p}) < n
          BY <1>1, <5>1, <5>2
        <5> QED BY <2>3, <4>4, <5>1, <5>3
      <4>6. f[x] \in Int /\ f[p] \in Int
        BY <2>6
      <4> QED BY <2>7, <4>1, <4>2, <4>3, <4>4, <4>5, <4>6
    <3> QED BY <3>1, <3>2
  <2> QED BY <2>2, <2>9, <2>10
<1> HIDE DEF Ok
<1>3. \A s \in SUBSET S : Ok(s)
  BY <1>1, <1>2
<1> QED BY <1>3 DEF Ok

-----------------------------------------------------------------------------
\* The sum of nothing is zero.
LEMMA SumEmpty == ASSUME NEW f PROVE SumOver(f, {}) = 0
BY SumChooses, FS_EmptySet

\* A sum of integers is an integer.
LEMMA SumType ==
    ASSUME NEW S, IsFiniteSet(S), NEW f, \A x \in S : f[x] \in Int
    PROVE  SumOver(f, S) \in Int
BY SumTakesOut

\* One element more adds its value.
LEMMA SumAdd ==
    ASSUME NEW S, IsFiniteSet(S), NEW x, x \notin S, NEW f, \A y \in S \cup {x} : f[y] \in Int
    PROVE  SumOver(f, S \cup {x}) = f[x] + SumOver(f, S)
<1>1. IsFiniteSet(S \cup {x})
  BY FS_AddElement
<1>2. (S \cup {x}) \ {x} = S /\ S \cup {x} \in SUBSET (S \cup {x})
  OBVIOUS
<1> QED BY <1>1, <1>2, SumTakesOut

\* Functions that agree on a set have the same sum over it.
LEMMA SumEqual ==
    ASSUME NEW S, IsFiniteSet(S), NEW f, NEW g, \A x \in S : f[x] \in Int /\ f[x] = g[x]
    PROVE  SumOver(f, S) = SumOver(g, S)
<1> DEFINE G == {K \in SUBSET S : SumOver(f, K) = SumOver(g, K)}
<1>1. {} \in G
  BY SumEmpty
<1>2. ASSUME NEW K \in SUBSET S, K \in G, NEW x \in S \ K PROVE K \cup {x} \in G
  <2>1. IsFiniteSet(K)
    BY FS_Subset
  <2>2. SumOver(f, K \cup {x}) = f[x] + SumOver(f, K)
    BY <2>1, SumAdd
  <2>3. SumOver(g, K \cup {x}) = g[x] + SumOver(g, K)
    BY <2>1, SumAdd
  <2> QED BY <1>2, <2>2, <2>3
<1> HIDE DEF G
<1>3. S \in G
  BY <1>1, <1>2, SetInduction
<1> QED BY <1>3 DEF G

\* The sum over two sets that have nothing in common.
LEMMA SumUnion ==
    ASSUME NEW S, IsFiniteSet(S), NEW T, IsFiniteSet(T), S \cap T = {},
           NEW f, \A x \in S \cup T : f[x] \in Int
    PROVE  SumOver(f, S \cup T) = SumOver(f, S) + SumOver(f, T)
<1> DEFINE G == {K \in SUBSET T : SumOver(f, S \cup K) = SumOver(f, S) + SumOver(f, K)}
<1>0. SumOver(f, S) \in Int
  BY SumType
<1>1. {} \in G
  <2>1. S \cup {} = S
    OBVIOUS
  <2> QED BY <1>0, <2>1, SumEmpty
<1>2. ASSUME NEW K \in SUBSET T, K \in G, NEW x \in T \ K PROVE K \cup {x} \in G
  <2>1. IsFiniteSet(K) /\ IsFiniteSet(S \cup K)
    BY FS_Subset, FS_Union
  <2>2. SumOver(f, K \cup {x}) = f[x] + SumOver(f, K) /\ SumOver(f, K) \in Int
    BY <2>1, SumAdd, SumType
  <2>3. SumOver(f, (S \cup K) \cup {x}) = f[x] + SumOver(f, S \cup K)
    <3>1. x \notin S \cup K /\ \A y \in (S \cup K) \cup {x} : f[y] \in Int
      OBVIOUS
    <3> QED BY <2>1, <3>1, SumAdd
  <2>4. S \cup (K \cup {x}) = (S \cup K) \cup {x} /\ f[x] \in Int
    OBVIOUS
  <2>5. SumOver(f, S \cup K) = SumOver(f, S) + SumOver(f, K)
    BY <1>2
  <2>6. SumOver(f, S \cup (K \cup {x})) = SumOver(f, S) + SumOver(f, K \cup {x})
    <3>1. PICK a, b, c : a = SumOver(f, S) /\ b = SumOver(f, K) /\ c = f[x]
      OBVIOUS
    <3>2. a \in Int /\ b \in Int /\ c \in Int
      BY <1>0, <2>2, <2>4, <3>1
    <3>3. c + (a + b) = a + (c + b)
      BY <3>2
    <3> QED BY <2>2, <2>3, <2>4, <2>5, <3>1, <3>3
  <2> QED BY <2>6
<1> HIDE DEF G
<1>3. T \in G
  BY <1>1, <1>2, SetInduction
<1> QED BY <1>3 DEF G

\* A sum of zeros is zero.
LEMMA SumZero ==
    ASSUME NEW S, IsFiniteSet(S), NEW f, \A x \in S : f[x] = 0
    PROVE  SumOver(f, S) = 0
<1> DEFINE G == {K \in SUBSET S : SumOver(f, K) = 0}
<1>1. {} \in G
  BY SumEmpty
<1>2. ASSUME NEW K \in SUBSET S, K \in G, NEW x \in S \ K PROVE K \cup {x} \in G
  <2>1. IsFiniteSet(K)
    BY FS_Subset
  <2>2. SumOver(f, K \cup {x}) = f[x] + SumOver(f, K)
    <3>1. x \notin K /\ \A y \in K \cup {x} : f[y] \in Int
      OBVIOUS
    <3> QED BY <2>1, <3>1, SumAdd
  <2> QED BY <1>2, <2>2
<1> HIDE DEF G
<1>3. S \in G
  BY <1>1, <1>2, SetInduction
<1> QED BY <1>3 DEF G

\* The sum over the images under an injective e is that over the arguments.
LEMMA SumImage ==
    ASSUME NEW S, IsFiniteSet(S), NEW e, NEW f, NEW g,
           \A x \in S : f[x] \in Int /\ g[e[x]] = f[x],
           \A x, y \in S : e[x] = e[y] => x = y
    PROVE  /\ IsFiniteSet({e[x] : x \in S})
           /\ SumOver(g, {e[x] : x \in S}) = SumOver(f, S)
<1> DEFINE Im(K) == {e[x] : x \in K}
           G == {K \in SUBSET S : IsFiniteSet(Im(K)) /\ SumOver(g, Im(K)) = SumOver(f, K)}
<1>1. {} \in G
  <2>1. Im({}) = {}
    OBVIOUS
  <2> QED BY <2>1, SumEmpty, FS_EmptySet
<1>2. ASSUME NEW K \in SUBSET S, K \in G, NEW x \in S \ K PROVE K \cup {x} \in G
  <2>1. IsFiniteSet(K) /\ IsFiniteSet(Im(K)) /\ SumOver(g, Im(K)) = SumOver(f, K)
    BY <1>2, FS_Subset
  <2>2. SumOver(f, K \cup {x}) = f[x] + SumOver(f, K)
    BY <2>1, SumAdd
  <2>3. Im(K \cup {x}) = Im(K) \cup {e[x]} /\ e[x] \notin Im(K)
    OBVIOUS
  <2>4. \A y \in Im(K) \cup {e[x]} : g[y] \in Int
    OBVIOUS
  <2> HIDE DEF Im
  <2>5. SumOver(g, Im(K) \cup {e[x]}) = g[e[x]] + SumOver(g, Im(K))
    BY <2>1, <2>3, <2>4, SumAdd
  <2>6. IsFiniteSet(Im(K) \cup {e[x]})
    BY <2>1, FS_AddElement
  <2> QED BY <2>1, <2>2, <2>3, <2>5, <2>6
<1> HIDE DEF G
<1>3. S \in G
  BY <1>1, <1>2, SetInduction
<1> QED BY <1>3 DEF G

\* Summing group by group.
Group(S, group, n) == {x \in S : group[x] = n}

LEMMA SumGroups ==
    ASSUME NEW N, IsFiniteSet(N), NEW S, IsFiniteSet(S), NEW f, NEW group,
           \A x \in S : f[x] \in Int /\ group[x] \in N,
           NEW h, \A n \in N : h[n] = SumOver(f, Group(S, group, n))
    PROVE  SumOver(h, N) = SumOver(f, S)
<1> DEFINE In(M) == {x \in S : group[x] \in M}
           G == {M \in SUBSET N : SumOver(h, M) = SumOver(f, In(M))}
<1>0. \A M : In(M) \in SUBSET S /\ IsFiniteSet(In(M))
  <2>1. \A M : In(M) \in SUBSET S
    OBVIOUS
  <2> HIDE DEF In
  <2> QED BY <2>1, FS_Subset
<1>1. {} \in G
  <2>1. In({}) = {}
    OBVIOUS
  <2> QED BY <2>1, SumEmpty
<1>4. \A n \in N : h[n] \in Int /\ h[n] = SumOver(f, In({n}))
  <2> SUFFICES ASSUME NEW n \in N PROVE h[n] \in Int /\ h[n] = SumOver(f, In({n}))
    OBVIOUS
  <2>1. In({n}) = Group(S, group, n)
    BY DEF Group
  <2>2. IsFiniteSet(In({n})) /\ \A x \in In({n}) : f[x] \in Int
    BY <1>0
  <2> HIDE DEF In
  <2>3. SumOver(f, In({n})) \in Int
    BY <2>2, SumType
  <2> QED BY <2>1, <2>3
<1>2. ASSUME NEW M \in SUBSET N, M \in G, NEW n \in N \ M PROVE M \cup {n} \in G
  <2>1. IsFiniteSet(M) /\ SumOver(h, M) = SumOver(f, In(M))
    BY <1>2, FS_Subset
  <2>2. SumOver(h, M \cup {n}) = h[n] + SumOver(h, M)
    BY <1>4, <2>1, SumAdd
  <2>3. In(M \cup {n}) = In({n}) \cup In(M) /\ In({n}) \cap In(M) = {}
    OBVIOUS
  <2>4. \A x \in In({n}) \cup In(M) : f[x] \in Int
    OBVIOUS
  <2> HIDE DEF In
  <2>5. SumOver(f, In({n}) \cup In(M)) = SumOver(f, In({n})) + SumOver(f, In(M))
    BY <1>0, <2>3, <2>4, SumUnion
  <2> QED BY <1>4, <2>1, <2>2, <2>3, <2>5
<1>5. In(N) = S
  OBVIOUS
<1> HIDE DEF G
<1>3. N \in G
  BY <1>1, <1>2, SetInduction
<1> QED BY <1>3, <1>5 DEF G
=============================================================================
