---------------------------- MODULE Sums_proofs ----------------------------
(***************************************************************************)
(* Induction over numbers and finite sets in first-order form, from the    *)
(* well-foundedness of < on the naturals, and what it yields about sums of *)
(* a function over a finite set (SumFunctionOnSet), which is how the model *)
(* adds up amounts: the charges in Gateway's ledger, the rows of payments. *)
(***************************************************************************)
EXTENDS FiniteSetsExt, FiniteSetTheorems, WellFoundedInduction, TLAPS

\* A set of naturals that is not empty has a least element.
LEMMA LeastNumber ==
    ASSUME NEW T \in SUBSET Nat, T # {}
    PROVE  \E n \in T : \A m \in T : n <= m
<1>1. PICK n \in T : \A m \in T : ~(<<m, n>> \in OpToRel(<, Nat))
  BY WFMin, NatLessThanWellFounded
<1>2. \A m \in T : m < n => <<m, n>> \in OpToRel(<, Nat)
  BY DEF OpToRel
<1>3. \A m \in T : ~(m < n)
  BY <1>1, <1>2, Zenon
<1>4. \A m \in T : n <= m
  BY ONLY <1>3, n \in T, T \in SUBSET Nat
<1> QED BY ONLY <1>4, n \in T

\* What holds of 0, and of n + 1 if it holds of n, holds of every number.
LEMMA NumberInduction ==
    ASSUME NEW S, 0 \in S, \A n \in Nat : n \in S => n + 1 \in S
    PROVE  Nat \subseteq S
<1> SUFFICES ASSUME Nat \ S # {} PROVE FALSE
  OBVIOUS
<1>1. PICK n \in Nat \ S : \A m \in Nat \ S : n <= m
  BY LeastNumber
<1>2. n # 0 /\ n - 1 \in Nat /\ n - 1 \in S
  BY <1>1
<1>3. (n - 1) + 1 \in S
  BY <1>2
<1> QED BY <1>1, <1>3

\* The subsets of S with n elements are where the inductions on sets below go
\* from one n to the next.
LEMMA OneLess ==
    ASSUME NEW T, IsFiniteSet(T), NEW n \in Nat, Cardinality(T) = n + 1, NEW x \in T
    PROVE  IsFiniteSet(T \ {x}) /\ Cardinality(T \ {x}) = n
<1>1. IsFiniteSet(T \ {x}) /\ Cardinality(T \ {x}) = Cardinality(T) - 1
  BY FS_RemoveElement
<1> QED BY <1>1

\* What holds of the empty set, and of T with one more element if it holds of
\* T, holds of a finite set.
LEMMA FiniteInduction ==
    ASSUME NEW S, IsFiniteSet(S), NEW Good, {} \in Good,
           \A T \in SUBSET S : \A x \in S \ T : T \in Good => T \cup {x} \in Good
    PROVE  S \in Good
<1> DEFINE N == {n \in Nat : \A T \in SUBSET S : Cardinality(T) = n => T \in Good}
<1>1. \A T \in SUBSET S : IsFiniteSet(T)
  BY FS_Subset
<1>2. 0 \in N
  BY <1>1, FS_EmptySet
<1>3. ASSUME NEW n \in Nat, n \in N PROVE n + 1 \in N
  <2> SUFFICES ASSUME NEW T \in SUBSET S, Cardinality(T) = n + 1 PROVE T \in Good
    OBVIOUS
  <2>1. IsFiniteSet(T) /\ T # {}
    BY <1>1, FS_EmptySet
  <2>2. PICK x \in T : TRUE
    BY <2>1
  <2>3. Cardinality(T \ {x}) = n
    BY <2>1, OneLess
  <2>4. T \ {x} \in Good
    BY <1>3, <2>3
  <2>5. (T \ {x}) \cup {x} = T /\ x \in S \ (T \ {x}) /\ T \ {x} \in SUBSET S
    OBVIOUS
  <2> QED BY <2>4, <2>5
<1>4. Nat \subseteq N
  <2> HIDE DEF N
  <2> QED BY <1>2, <1>3, NumberInduction
<1> QED BY <1>4, FS_CardinalityType

----------------------------------------------------------------------------
\* The partial sums that SumFunctionOnSet(w, S) takes its value from: it picks
\* the elements of S one by one.

First(T) == CHOOSE x \in T : TRUE

\* f knows the sums of w over the subsets of S, up to n elements.
SumsUpTo(f, w, S, n) ==
    \A T \in SUBSET S : Cardinality(T) <= n =>
        f[T] = IF T = {} THEN 0 ELSE w[First(T)] + f[T \ {First(T)}]

\* f is that function of partial sums, for all subsets of S.
Sums(f, w, S) ==
    f = [T \in SUBSET S |-> IF T = {} THEN 0 ELSE w[First(T)] + f[T \ {First(T)}]]

\* The element picked is one of the set.
LEMMA FirstIn == \A T : T # {} => First(T) \in T
  BY DEF First

\* There are such sums.
LEMMA SumsExist ==
    ASSUME NEW S, IsFiniteSet(S), NEW w
    PROVE  \E f : Sums(f, w, S)
<1> DEFINE N == {n \in Nat : \E f : SumsUpTo(f, w, S, n)}
<1>1. \A T \in SUBSET S : IsFiniteSet(T) /\ Cardinality(T) \in Nat /\ Cardinality(T) <= Cardinality(S)
  BY FS_Subset, FS_CardinalityType
<1>2. 0 \in N
  <2>1. SumsUpTo([T \in SUBSET S |-> 0], w, S, 0)
    BY <1>1, FS_EmptySet DEF SumsUpTo
  <2> QED BY <2>1
<1>3. ASSUME NEW n \in Nat, n \in N PROVE n + 1 \in N
  <2>1. PICK f : SumsUpTo(f, w, S, n)
    BY <1>3
  <2> DEFINE g == [T \in SUBSET S |-> IF T = {} THEN 0 ELSE w[First(T)] + f[T \ {First(T)}]]
  <2>2. \A T \in SUBSET S : Cardinality(T) <= n => g[T] = f[T]
    BY <2>1 DEF SumsUpTo
  <2>3. ASSUME NEW T \in SUBSET S, Cardinality(T) <= n + 1, T # {}
        PROVE  g[T] = w[First(T)] + g[T \ {First(T)}]
    <3>1. T \ {First(T)} \in SUBSET S /\ Cardinality(T \ {First(T)}) <= n
      BY <1>1, <2>3, FirstIn, FS_RemoveElement
    <3>2. g[T \ {First(T)}] = f[T \ {First(T)}]
      BY <2>2, <3>1
    <3> QED BY <2>3, <3>2
  <2>4. g[{}] = 0
    OBVIOUS
  <2> HIDE DEF g
  <2>5. SumsUpTo(g, w, S, n + 1)
    BY <2>3, <2>4 DEF SumsUpTo
  <2> QED BY <2>5
<1>4. Nat \subseteq N
  <2> HIDE DEF N
  <2> QED BY <1>2, <1>3, NumberInduction
<1>5. PICK f : SumsUpTo(f, w, S, Cardinality(S))
  BY <1>4, FS_CardinalityType
<1> DEFINE g == [T \in SUBSET S |-> f[T]]
<1>6. \A T \in SUBSET S : g[T] = IF T = {} THEN 0 ELSE w[First(T)] + g[T \ {First(T)}]
  BY <1>1, <1>5 DEF SumsUpTo
<1>7. g = [T \in SUBSET S |-> g[T]]
  OBVIOUS
<1> HIDE DEF g
<1>8. Sums(g, w, S)
  BY <1>6, <1>7 DEF Sums
<1> QED BY <1>8

\* SumFunctionOnSet takes its value from one of them.
LEMMA SumIsASum ==
    ASSUME NEW S, IsFiniteSet(S), NEW w
    PROVE  \E f : Sums(f, w, S) /\ SumFunctionOnSet(w, S) = f[S]
<1> DEFINE f == CHOOSE f : Sums(f, w, S)
<1>1. Sums(f, w, S)
  BY SumsExist
<1>2. SumFunctionOnSet(w, S) = f[S]
  BY Zenon DEF SumFunctionOnSet, FoldFunctionOnSet, MapThenFoldSet, Sums, First
<1> QED BY <1>1, <1>2

\* The sums of w over the subsets of S are natural numbers, and in whatever order
\* the elements are picked: each is any element's weight and the sum of the rest.
LEMMA SumsAddUp ==
    ASSUME NEW S, IsFiniteSet(S), NEW w, \A x \in S : w[x] \in Nat, NEW f, Sums(f, w, S)
    PROVE  /\ f[{}] = 0
           /\ \A T \in SUBSET S : f[T] \in Nat
           /\ \A T \in SUBSET S : \A x \in T : f[T] = w[x] + f[T \ {x}]
<1>1. \A T \in SUBSET S : f[T] = IF T = {} THEN 0 ELSE w[First(T)] + f[T \ {First(T)}]
  BY DEF Sums
<1>2. f[{}] = 0
  BY <1>1
<1>3. \A T \in SUBSET S : IsFiniteSet(T) /\ Cardinality(T) \in Nat
  BY FS_Subset, FS_CardinalityType
<1> DEFINE Fine(T) == f[T] \in Nat /\ \A x \in T : f[T] = w[x] + f[T \ {x}]
           N == {n \in Nat : \A T \in SUBSET S : Cardinality(T) <= n => Fine(T)}
<1>4. 0 \in N /\ Fine({})
  BY <1>2, <1>3, FS_EmptySet
<1>5. ASSUME NEW n \in Nat, n \in N PROVE n + 1 \in N
  <2> SUFFICES ASSUME NEW T \in SUBSET S, Cardinality(T) <= n + 1 PROVE Fine(T)
    OBVIOUS
  <2>1. \A U \in SUBSET S : Cardinality(U) <= n => Fine(U)
    BY <1>5
  <2> HIDE DEF N
  <2>2. CASE T = {}
    BY <1>4, <2>2
  <2>3. CASE T # {}
    <3> DEFINE p == First(T)
    <3>1. p \in T /\ f[T] = w[p] + f[T \ {p}]
      BY <1>1, <2>3, FirstIn
    <3> HIDE DEF p
    <3>2. \A U \in SUBSET T : U # T => Fine(U)
      <4> SUFFICES ASSUME NEW U \in SUBSET T, U # T PROVE Cardinality(U) <= n
        BY <2>1
      <4>1. Cardinality(U) <= Cardinality(T) /\ Cardinality(U) # Cardinality(T)
        BY <1>3, FS_Subset
      <4> QED BY <1>3, <4>1
    <3>3. f[T] \in Nat
      BY <3>1, <3>2
    <3>4. ASSUME NEW x \in T PROVE f[T] = w[x] + f[T \ {x}]
      <4>1. CASE x = p
        BY <3>1, <4>1
      <4>2. CASE x # p
        <5> DEFINE rest == (T \ {x}) \ {p}
        <5>1. /\ x \in T \ {p} /\ p \in T \ {x} /\ (T \ {p}) \ {x} = rest
              /\ {T \ {p}, T \ {x}, rest} \subseteq (SUBSET T) \ {T}
          BY <3>1, <4>2
        <5> HIDE DEF rest
        <5>2. f[T \ {p}] = w[x] + f[rest]
          BY <3>2, <5>1
        <5>3. f[T \ {x}] = w[p] + f[rest]
          <6>1. rest = (T \ {x}) \ {p}
            BY DEF rest
          <6> QED BY <3>2, <5>1, <6>1
        <5>4. {w[x], w[p], f[rest]} \subseteq Nat
          BY <3>1, <3>2, <5>1
        <5> QED BY <3>1, <5>2, <5>3, <5>4
      <4> QED BY <4>1, <4>2
    <3> QED BY <3>3, <3>4
  <2> QED BY <2>2, <2>3
<1>6. Nat \subseteq N
  <2> HIDE DEF N
  <2> QED BY <1>4, <1>5, NumberInduction
<1> QED BY <1>2, <1>3, <1>6

\* The values of the sum itself.  Sums over S give those over its subsets.
LEMMA SumsOfSubset ==
    ASSUME NEW S, IsFiniteSet(S), NEW w, \A x \in S : w[x] \in Nat,
           NEW f, Sums(f, w, S), NEW T \in SUBSET S
    PROVE  SumFunctionOnSet(w, T) = f[T]
<1>1. IsFiniteSet(T)
  BY FS_Subset
<1>2. PICK g : Sums(g, w, T) /\ SumFunctionOnSet(w, T) = g[T]
  BY <1>1, SumIsASum
<1> DEFINE Same == {U \in SUBSET T : g[U] = f[U]}
<1>3. {} \in Same
  BY <1>1, <1>2, SumsAddUp
<1>4. ASSUME NEW U \in SUBSET T, NEW x \in T \ U, U \in Same PROVE U \cup {x} \in Same
  <2>1. (U \cup {x}) \ {x} = U /\ U \cup {x} \in SUBSET T
    OBVIOUS
  <2>2. f[U \cup {x}] = w[x] + f[U]
    BY <2>1, SumsAddUp
  <2>3. g[U \cup {x}] = w[x] + g[U]
    BY <1>1, <1>2, <2>1, SumsAddUp
  <2> QED BY <1>4, <2>1, <2>2, <2>3
<1>5. T \in Same
  <2> HIDE DEF Same
  <2> QED BY <1>1, <1>3, <1>4, FiniteInduction
<1> QED BY <1>2, <1>5

\* The empty sum.
LEMMA SumOfNone ==
    ASSUME NEW w
    PROVE  SumFunctionOnSet(w, {}) = 0
<1>1. PICK f : Sums(f, w, {}) /\ SumFunctionOnSet(w, {}) = f[{}]
  BY FS_EmptySet, SumIsASum
<1> QED BY <1>1 DEF Sums

\* A sum of naturals is a natural.
LEMMA SumType ==
    ASSUME NEW S, IsFiniteSet(S), NEW w, \A x \in S : w[x] \in Nat
    PROVE  SumFunctionOnSet(w, S) \in Nat
  BY SumIsASum, SumsAddUp

\* One element's weight, and the sum of the rest.
LEMMA SumSplits ==
    ASSUME NEW S, IsFiniteSet(S), NEW w, \A x \in S : w[x] \in Nat, NEW x \in S
    PROVE  SumFunctionOnSet(w, S) = w[x] + SumFunctionOnSet(w, S \ {x})
<1>1. PICK f : Sums(f, w, S) /\ SumFunctionOnSet(w, S) = f[S]
  BY SumIsASum
<1>2. SumFunctionOnSet(w, S \ {x}) = f[S \ {x}]
  BY <1>1, SumsOfSubset
<1>3. f[S] = w[x] + f[S \ {x}]
  BY <1>1, SumsAddUp
<1> QED BY <1>1, <1>2, <1>3

\* A new element adds its weight.
LEMMA SumAddsOne ==
    ASSUME NEW S, IsFiniteSet(S), NEW w, NEW x, x \notin S, \A y \in S \cup {x} : w[y] \in Nat
    PROVE  SumFunctionOnSet(w, S \cup {x}) = w[x] + SumFunctionOnSet(w, S)
<1>1. IsFiniteSet(S \cup {x}) /\ (S \cup {x}) \ {x} = S
  BY FS_AddElement
<1>2. SumFunctionOnSet(w, S \cup {x}) = w[x] + SumFunctionOnSet(w, (S \cup {x}) \ {x})
  BY <1>1, SumSplits
<1> QED BY <1>1, <1>2

\* Only the weights of the elements count, and greater weights, or more of them,
\* never make a smaller sum.
LEMMA SumGrows ==
    ASSUME NEW S, IsFiniteSet(S), NEW T \in SUBSET S, NEW v, NEW w,
           \A x \in S : w[x] \in Nat, \A x \in T : v[x] \in Nat /\ v[x] <= w[x]
    PROVE  SumFunctionOnSet(v, T) <= SumFunctionOnSet(w, S)
<1> DEFINE Good == {U \in SUBSET S :
                      SumFunctionOnSet(v, U \cap T) <= SumFunctionOnSet(w, U)}
<1>1. {} \in Good
  BY SumOfNone
<1>2. ASSUME NEW U \in SUBSET S, NEW x \in S \ U, U \in Good PROVE U \cup {x} \in Good
  <2>1. IsFiniteSet(U) /\ IsFiniteSet(U \cap T)
    BY FS_Subset
  <2>2. SumFunctionOnSet(w, U \cup {x}) = w[x] + SumFunctionOnSet(w, U)
    BY <2>1, SumAddsOne
  <2>3. /\ SumFunctionOnSet(w, U) \in Nat /\ SumFunctionOnSet(v, U \cap T) \in Nat
        /\ SumFunctionOnSet(v, U \cap T) <= SumFunctionOnSet(w, U)
    BY <1>2, <2>1, SumType
  <2>4. ASSUME x \in T
        PROVE  SumFunctionOnSet(v, (U \cup {x}) \cap T) <= SumFunctionOnSet(w, U \cup {x})
    <3>1. (U \cup {x}) \cap T = (U \cap T) \cup {x} /\ x \notin U \cap T
      BY <2>4
    <3>2. SumFunctionOnSet(v, (U \cap T) \cup {x}) = v[x] + SumFunctionOnSet(v, U \cap T)
      BY <2>1, <2>4, <3>1, SumAddsOne
    <3>4. SumFunctionOnSet(v, (U \cup {x}) \cap T) = v[x] + SumFunctionOnSet(v, U \cap T)
      BY <3>1, <3>2, Zenon
    <3>3. v[x] \in Nat /\ w[x] \in Nat /\ v[x] <= w[x]
      BY <2>4
    <3> QED BY <2>2, <2>3, <3>4, <3>3
  <2>5. ASSUME x \notin T
        PROVE  SumFunctionOnSet(v, (U \cup {x}) \cap T) <= SumFunctionOnSet(w, U \cup {x})
    <3>1. (U \cup {x}) \cap T = U \cap T /\ w[x] \in Nat
      BY <2>5
    <3>2. SumFunctionOnSet(v, (U \cup {x}) \cap T) = SumFunctionOnSet(v, U \cap T)
      BY <3>1, Zenon
    <3> QED BY <2>2, <2>3, <3>1, <3>2
  <2> QED BY <2>4, <2>5
<1>3. S \in Good
  <2> HIDE DEF Good
  <2> QED BY <1>1, <1>2, FiniteInduction
<1>4. S \cap T = T
  OBVIOUS
<1> QED BY <1>3, <1>4

\* Equal weights, equal sums.
LEMMA SameSum ==
    ASSUME NEW S, IsFiniteSet(S), NEW v, NEW w, \A x \in S : w[x] \in Nat /\ v[x] = w[x]
    PROVE  SumFunctionOnSet(v, S) = SumFunctionOnSet(w, S)
<1>1. /\ SumFunctionOnSet(v, S) <= SumFunctionOnSet(w, S)
      /\ SumFunctionOnSet(w, S) <= SumFunctionOnSet(v, S)
  <2>1. \A x \in S : v[x] \in Nat /\ v[x] <= w[x] /\ w[x] <= v[x]
    OBVIOUS
  <2> QED BY <2>1, SumGrows
<1>2. SumFunctionOnSet(v, S) \in Nat /\ SumFunctionOnSet(w, S) \in Nat
  <2>1. \A x \in S : v[x] \in Nat
    OBVIOUS
  <2> QED BY <2>1, SumType
<1> QED BY <1>1, <1>2

\* e lists T, which has n elements of weight p each.
Listed(T, w, n, e, p) ==
    /\ n \in Nat /\ p \in Nat
    /\ \A j, k \in 1..n : e[j] = e[k] => j = k
    /\ \A j \in 1..n : e[j] \in T /\ w[e[j]] = p
    /\ \A x \in T : \E j \in 1..n : x = e[j]

\* The sum of such weights is a product.
LEMMA EqualSum ==
    ASSUME NEW T, NEW w, NEW n, NEW e, NEW p, Listed(T, w, n, e, p)
    PROVE  IsFiniteSet(T) /\ SumFunctionOnSet(w, T) = n * p
<1>0. /\ n \in Nat /\ p \in Nat
      /\ \A j, k \in 1..n : e[j] = e[k] => j = k
      /\ \A j \in 1..n : w[e[j]] = p
  BY DEF Listed
<1> DEFINE E(m) == {e[j] : j \in 1..m}
           Fine(m) == IsFiniteSet(E(m)) /\ SumFunctionOnSet(w, E(m)) = m * p
           N == {m \in Nat : m <= n => Fine(m)}
<1>1. 0 \in N
  <2>1. E(0) = {}
    OBVIOUS
  <2>2. IsFiniteSet(E(0)) /\ SumFunctionOnSet(w, E(0)) = 0
    <3> HIDE DEF E
    <3> QED BY <2>1, FS_EmptySet, SumOfNone
  <2>3. 0 * p = 0
    BY <1>0
  <2> QED BY <2>2, <2>3
<1>2. ASSUME NEW m \in Nat, m \in N PROVE m + 1 \in N
  <2> SUFFICES ASSUME m + 1 <= n PROVE Fine(m + 1)
    OBVIOUS
  <2>1. Fine(m)
    BY <1>0, <1>2
  <2>2. E(m + 1) = E(m) \cup {e[m + 1]} /\ e[m + 1] \notin E(m)
    <3>1. 1..(m + 1) = 1..m \cup {m + 1} /\ m + 1 \in 1..n /\ 1..m \subseteq 1..n
      BY <1>0
    <3> QED BY <1>0, <3>1
  <2>3. \A y \in E(m) \cup {e[m + 1]} : w[y] = p
    BY <1>0
  <2> HIDE DEF E, N
  <2>4. w[e[m + 1]] = p /\ \A y \in E(m) \cup {e[m + 1]} : w[y] \in Nat
    BY <1>0, <2>3
  <2>5. IsFiniteSet(E(m + 1))
    <3>1. IsFiniteSet(E(m) \cup {e[m + 1]})
      BY <2>1, FS_AddElement
    <3> QED BY <2>2, <3>1, Zenon
  <2>6. SumFunctionOnSet(w, E(m) \cup {e[m + 1]}) = p + m * p
    <3>1. SumFunctionOnSet(w, E(m) \cup {e[m + 1]}) = w[e[m + 1]] + SumFunctionOnSet(w, E(m))
      BY <2>1, <2>2, <2>4, SumAddsOne, Zenon
    <3> QED BY <1>0, <2>1, <2>4, <3>1
  <2>7. SumFunctionOnSet(w, E(m + 1)) = p + m * p
    BY <2>2, <2>6, Zenon
  <2>8. p + m * p = (m + 1) * p
    BY <1>0
  <2> QED BY <2>5, <2>7, <2>8
<1>3. Nat \subseteq N
  <2> HIDE DEF N
  <2> QED BY <1>1, <1>2, NumberInduction
<1>4. Fine(n)
  <2> HIDE DEF E, Fine
  <2> QED BY <1>0, <1>3
<1>5. T = E(n)
  BY DEF Listed
<1> HIDE DEF E
<1> QED BY <1>4, <1>5

----------------------------------------------------------------------------
\* Sums over groups.

\* The values of a function on a finite set.
LEMMA ImageIsFinite ==
    ASSUME NEW S, IsFiniteSet(S), NEW f
    PROVE  IsFiniteSet({f[x] : x \in S}) /\ Cardinality({f[x] : x \in S}) <= Cardinality(S)
<1> DEFINE T == {f[x] : x \in S}
           g == [x \in S |-> f[x]]
<1>1. g \in Surjection(S, T)
  BY DEF Surjection
<1> QED BY <1>1, FS_Surjection

\* Two sets without a common element.
LEMMA SumOfUnion ==
    ASSUME NEW S, IsFiniteSet(S), NEW T, IsFiniteSet(T), S \cap T = {},
           NEW w, \A x \in S \cup T : w[x] \in Nat
    PROVE  SumFunctionOnSet(w, S \cup T) = SumFunctionOnSet(w, S) + SumFunctionOnSet(w, T)
<1> DEFINE Good == {U \in SUBSET T : SumFunctionOnSet(w, S \cup U)
                                       = SumFunctionOnSet(w, S) + SumFunctionOnSet(w, U)}
<1>1. SumFunctionOnSet(w, S) \in Nat
  BY SumType
<1>2. {} \in Good
  <2>1. S \cup {} = S
    OBVIOUS
  <2>2. SumFunctionOnSet(w, S \cup {}) = SumFunctionOnSet(w, S)
    BY <2>1, Zenon
  <2> QED BY <1>1, <2>2, SumOfNone
<1>3. ASSUME NEW U \in SUBSET T, NEW x \in T \ U, U \in Good PROVE U \cup {x} \in Good
  <2>1. IsFiniteSet(U) /\ IsFiniteSet(S \cup U)
    BY FS_Subset, FS_Union
  <2>2. x \notin S \cup U /\ S \cup (U \cup {x}) = (S \cup U) \cup {x} /\ w[x] \in Nat
    OBVIOUS
  <2>3. SumFunctionOnSet(w, (S \cup U) \cup {x}) = w[x] + SumFunctionOnSet(w, S \cup U)
    BY <2>1, <2>2, SumAddsOne
  <2>4. SumFunctionOnSet(w, S \cup (U \cup {x})) = w[x] + SumFunctionOnSet(w, S \cup U)
    BY <2>2, <2>3, Zenon
  <2>5. SumFunctionOnSet(w, U \cup {x}) = w[x] + SumFunctionOnSet(w, U)
    BY <2>1, SumAddsOne
  <2>6. SumFunctionOnSet(w, U) \in Nat
    BY <2>1, SumType
  <2> QED BY <1>1, <1>3, <2>2, <2>4, <2>5, <2>6
<1>4. T \in Good
  <2> HIDE DEF Good
  <2> QED BY <1>2, <1>3, FiniteInduction
<1> QED BY <1>4

\* Counting is adding ones.
LEMMA SumOfOnes ==
    ASSUME NEW S, IsFiniteSet(S), NEW w, \A x \in S : w[x] = 1
    PROVE  SumFunctionOnSet(w, S) = Cardinality(S)
<1> DEFINE Good == {U \in SUBSET S : SumFunctionOnSet(w, U) = Cardinality(U)}
<1>1. {} \in Good
  BY SumOfNone, FS_EmptySet
<1>2. ASSUME NEW U \in SUBSET S, NEW x \in S \ U, U \in Good PROVE U \cup {x} \in Good
  <2>1. IsFiniteSet(U) /\ Cardinality(U) \in Nat
    BY FS_Subset, FS_CardinalityType
  <2>2. SumFunctionOnSet(w, U \cup {x}) = 1 + SumFunctionOnSet(w, U)
    <3>1. w[x] = 1 /\ \A y \in U \cup {x} : w[y] \in Nat
      OBVIOUS
    <3>2. SumFunctionOnSet(w, U \cup {x}) = w[x] + SumFunctionOnSet(w, U)
      BY <2>1, <3>1, SumAddsOne
    <3> QED BY <3>1, <3>2
  <2>3. Cardinality(U \cup {x}) = Cardinality(U) + 1
    BY <2>1, FS_AddElement
  <2> QED BY <1>2, <2>1, <2>2, <2>3
<1>3. S \in Good
  <2> HIDE DEF Good
  <2> QED BY <1>1, <1>2, FiniteInduction
<1> QED BY <1>3

\* The elements of S are grouped by a key out of K, and each group has a record
\* of its own, in list, that weighs as much as the group.
Grouped(S, w, K, key, group, rec, list, v) ==
    /\ IsFiniteSet(S) /\ \A x \in S : w[x] \in Nat
    /\ IsFiniteSet(K) /\ \A x \in S : key[x] \in K
    /\ \A i \in K : \A x : x \in group[i] <=> x \in S /\ key[x] = i
    /\ \A i, j \in K : rec[i] = rec[j] => i = j
    /\ \A i \in K : rec[i] \in list
    /\ \A r \in list : \E i \in K : r = rec[i]
    /\ \A i \in K : v[rec[i]] = SumFunctionOnSet(w, group[i])

\* The records of the groups weigh as much as all the elements.
LEMMA SumByGroup ==
    ASSUME NEW S, NEW w, NEW K, NEW key, NEW group, NEW rec, NEW list, NEW v,
           Grouped(S, w, K, key, group, rec, list, v)
    PROVE  SumFunctionOnSet(v, list) = SumFunctionOnSet(w, S)
<1> USE DEF Grouped
<1> DEFINE Group(i) == {x \in S : key[x] = i}
           Of(T) == {x \in S : key[x] \in T}
           R(T) == {rec[i] : i \in T}
           Good == {T \in SUBSET K : SumFunctionOnSet(v, R(T)) = SumFunctionOnSet(w, Of(T))}
<1>1. \A T \in SUBSET K : /\ IsFiniteSet(T) /\ IsFiniteSet(R(T)) /\ IsFiniteSet(Of(T))
                          /\ Of(T) \subseteq S
  <2> SUFFICES ASSUME NEW T \in SUBSET K
               PROVE  IsFiniteSet(T) /\ IsFiniteSet(R(T)) /\ IsFiniteSet(Of(T))
    OBVIOUS
  <2>1. IsFiniteSet(T) /\ IsFiniteSet(Of(T))
    BY FS_Subset
  <2> QED BY <2>1, ImageIsFinite
<1>2. \A i \in K : /\ IsFiniteSet(Group(i)) /\ Group(i) \subseteq S
                   /\ SumFunctionOnSet(w, Group(i)) \in Nat
                   /\ v[rec[i]] = SumFunctionOnSet(w, Group(i))
  <2> SUFFICES ASSUME NEW i \in K
               PROVE  /\ IsFiniteSet(Group(i)) /\ SumFunctionOnSet(w, Group(i)) \in Nat
                      /\ v[rec[i]] = SumFunctionOnSet(w, Group(i))
    OBVIOUS
  <2>1. IsFiniteSet(Group(i)) /\ \A x \in Group(i) : w[x] \in Nat
    BY FS_Subset
  <2>2. Group(i) = group[i]
    OBVIOUS
  <2>3. v[rec[i]] = SumFunctionOnSet(w, Group(i))
    BY <2>2, Zenon
  <2> HIDE DEF Group
  <2> QED BY <2>1, <2>3, SumType
<1>3. {} \in Good
  <2>1. R({}) = {} /\ Of({}) = {}
    OBVIOUS
  <2> HIDE DEF R, Of
  <2>2. SumFunctionOnSet(v, R({})) = SumFunctionOnSet(w, Of({}))
    BY <2>1, SumOfNone
  <2> QED BY <2>2
<1>4. ASSUME NEW T \in SUBSET K, NEW i \in K \ T, T \in Good PROVE T \cup {i} \in Good
  <2>1. R(T \cup {i}) = R(T) \cup {rec[i]} /\ rec[i] \notin R(T)
    OBVIOUS
  <2>2. Of(T \cup {i}) = Of(T) \cup Group(i) /\ Of(T) \cap Group(i) = {}
    OBVIOUS
  <2>3. \A y \in R(T) \cup {rec[i]} : v[y] \in Nat
    <3>1. \A j \in K : v[rec[j]] \in Nat
      <4> HIDE DEF Group
      <4> QED BY <1>2
    <3> QED BY <3>1
  <2>4. SumFunctionOnSet(v, R(T)) = SumFunctionOnSet(w, Of(T)) /\ T \cup {i} \in SUBSET K
    BY <1>4
  <2> HIDE DEF R, Of, Group
  <2>5. SumFunctionOnSet(v, R(T) \cup {rec[i]}) = v[rec[i]] + SumFunctionOnSet(v, R(T))
    BY <1>1, <2>1, <2>3, SumAddsOne
  <2>6. SumFunctionOnSet(w, Of(T) \cup Group(i))
          = SumFunctionOnSet(w, Of(T)) + SumFunctionOnSet(w, Group(i))
    <3>1. \A x \in Of(T) \cup Group(i) : w[x] \in Nat
      BY <1>1, <1>2
    <3> QED BY <1>1, <1>2, <2>2, <3>1, SumOfUnion
  <2>7. SumFunctionOnSet(v, R(T \cup {i})) = v[rec[i]] + SumFunctionOnSet(v, R(T))
    BY <2>1, <2>5, Zenon
  <2>8. SumFunctionOnSet(w, Of(T \cup {i}))
          = SumFunctionOnSet(w, Of(T)) + SumFunctionOnSet(w, Group(i))
    BY <2>2, <2>6, Zenon
  <2>9. SumFunctionOnSet(w, Of(T)) \in Nat
    BY <1>1, SumType
  <2> QED BY <1>2, <2>4, <2>7, <2>8, <2>9
<1>5. K \in Good
  <2> HIDE DEF Good
  <2> QED BY <1>3, <1>4, FiniteInduction
<1>6. Of(K) = S /\ R(K) = list
  OBVIOUS
<1>7. SumFunctionOnSet(v, R(K)) = SumFunctionOnSet(w, Of(K))
  BY <1>5
<1> HIDE DEF Of, R
<1> QED BY <1>6, <1>7, Zenon
=============================================================================
