---------------------------- MODULE Money_proofs ----------------------------
(***************************************************************************)
(* What module Money computes, for any texts, amounts and widths: a price  *)
(* text says its price in whole atomic units and nothing else              *)
(* (PriceTexts), the text of an amount reads as that amount, as a price    *)
(* and as a double (AmountTexts), and how far a sum of doubles can be from *)
(* the sum of the amounts (Near, SumIsNear).                               *)
(*                                                                         *)
(* ValueOf and the powers are recursive.  What they are is shown by        *)
(* recurrences: numbers that satisfy the recurrence of ValueOf for a text  *)
(* are the values of its beginnings (Counts, ValueIs).                     *)
(***************************************************************************)
EXTENDS Money, Sums_proofs

----------------------------------------------------------------------------
\* Numbers.

\* A number is divisor times quotient plus remainder,
LEMMA Division ==
    ASSUME NEW n \in Nat, NEW d \in Nat \ {0}
    PROVE  /\ n \div d \in Nat /\ n % d \in 0..(d - 1)
           /\ n = d * (n \div d) + (n % d)
  OBVIOUS

\* and no other quotient and remainder do that.
LEMMA DivisionIs ==
    ASSUME NEW n \in Nat, NEW d \in Nat \ {0}, NEW q \in Int, NEW r \in 0..(d - 1), n = d * q + r
    PROVE  n \div d = q /\ n % d = r
  OBVIOUS

\* Multiplication keeps the order.
LEMMA Times ==
    ASSUME NEW a \in Nat, NEW b \in Nat, NEW c \in Nat, a <= b
    PROVE  a * c <= b * c /\ c * a <= c * b
  OBVIOUS

\* Dividing by a product is dividing twice.
LEMMA DivisionTwice ==
    ASSUME NEW n \in Nat, NEW c \in Nat \ {0}, NEW d \in Nat \ {0}
    PROVE  n \div (c * d) = (n \div d) \div c
<1> DEFINE m == n \div d
           q == m \div c
           r == d * (m % c) + (n % d)
<1>1. m \in Nat /\ n % d \in 0..(d - 1) /\ n = d * m + (n % d)
  BY Division
<1> HIDE DEF m
<1>2. q \in Nat /\ m % c \in 0..(c - 1) /\ m = c * q + (m % c)
  BY <1>1, Division
<1> HIDE DEF q
<1>3. c * d \in Nat \ {0} /\ d * (m % c) \in Nat /\ d * (c * q) \in Nat
  BY <1>2
<1>4. d * (m % c) <= d * (c - 1) /\ d * (c - 1) = d * c - d
  BY <1>2, Times
<1>5. r \in 0..((c * d) - 1)
  BY <1>1, <1>2, <1>3, <1>4
<1>6. d * m = d * (c * q) + d * (m % c) /\ d * (c * q) = (c * d) * q
  BY <1>2
<1>7. n = (c * d) * q + r
  BY <1>1, <1>3, <1>6
<1>8. n \div (c * d) = q
  <2> DEFINE cd == c * d
  <2>1. cd \in Nat \ {0} /\ r \in 0..(cd - 1) /\ n = cd * q + r
    BY <1>3, <1>5, <1>7
  <2> HIDE DEF cd, r
  <2>2. n \div cd = q
    BY <1>2, <2>1
  <2> QED BY <2>2 DEF cd
<1> QED BY <1>8 DEF q, m

----------------------------------------------------------------------------
\* Recursion over the numbers: f[0] = a and f[i] = b * f[i - 1] + d[i].

\* g does so up to n.
Steps(g, n, a, b, d) == g[0] = a /\ \A i \in 1..n : g[i] = b * g[i - 1] + d[i]

\* What does so up to n is determined up to n.
LEMMA StepsAgree ==
    ASSUME NEW a, NEW b, NEW d, NEW g, NEW h, NEW n \in Nat,
           Steps(g, n, a, b, d), Steps(h, n, a, b, d)
    PROVE  \A i \in 0..n : g[i] = h[i]
<1> DEFINE N == {i \in Nat : i <= n => g[i] = h[i]}
<1>1. 0 \in N
  BY DEF Steps
<1>2. ASSUME NEW i \in Nat, i \in N PROVE i + 1 \in N
  <2> SUFFICES ASSUME i + 1 <= n PROVE g[i + 1] = h[i + 1]
    OBVIOUS
  <2>1. i + 1 \in 1..n /\ (i + 1) - 1 = i /\ g[i] = h[i]
    BY <1>2
  <2> QED BY <2>1 DEF Steps
<1>3. Nat \subseteq N
  <2> HIDE DEF N
  <2> QED BY <1>1, <1>2, NumberInduction
<1> QED BY <1>3

\* The values are numbers.
LEMMA StepsAreNumbers ==
    ASSUME NEW a \in Int, NEW b \in Int, NEW d, NEW g, NEW n \in Nat,
           \A i \in 1..n : d[i] \in Int, Steps(g, n, a, b, d)
    PROVE  \A i \in 0..n : g[i] \in Int
<1> DEFINE N == {i \in Nat : i <= n => g[i] \in Int}
<1>1. 0 \in N
  BY DEF Steps
<1>2. ASSUME NEW i \in Nat, i \in N PROVE i + 1 \in N
  <2> SUFFICES ASSUME i + 1 <= n PROVE g[i + 1] \in Int
    OBVIOUS
  <2>1. i + 1 \in 1..n /\ (i + 1) - 1 = i /\ g[i] \in Int
    BY <1>2
  <2>2. g[i + 1] = b * g[i] + d[i + 1]
    BY <2>1 DEF Steps
  <2>3. d[i + 1] \in Int
    BY <2>1
  <2> QED BY <2>1, <2>2, <2>3
<1>3. Nat \subseteq N
  <2> HIDE DEF N
  <2> QED BY <1>1, <1>2, NumberInduction
<1> QED BY <1>3

\* There is such a function up to every n.
LEMMA StepsExist ==
    ASSUME NEW a, NEW b, NEW d
    PROVE  \A n \in Nat : \E g : Steps(g, n, a, b, d)
<1> DEFINE N == {n \in Nat : \E g : Steps(g, n, a, b, d)}
<1>1. 0 \in N
  <2>1. Steps([i \in {0} |-> a], 0, a, b, d)
    BY DEF Steps
  <2> QED BY <2>1
<1>2. ASSUME NEW n \in Nat, n \in N PROVE n + 1 \in N
  <2>1. PICK g : Steps(g, n, a, b, d)
    BY <1>2
  <2> DEFINE h == [i \in 0..(n + 1) |-> IF i <= n THEN g[i] ELSE b * g[n] + d[i]]
  <2>2. h[0] = a
    BY <2>1 DEF Steps
  <2>3. ASSUME NEW i \in 1..(n + 1) PROVE h[i] = b * h[i - 1] + d[i]
    <3>1. i - 1 \in 0..n /\ h[i - 1] = g[i - 1]
      OBVIOUS
    <3>2. CASE i <= n
      <4>1. g[i] = b * g[i - 1] + d[i]
        BY <2>1, <3>2 DEF Steps
      <4> QED BY <3>1, <3>2, <4>1
    <3>3. CASE i = n + 1
      BY <3>1, <3>3
    <3> QED BY <3>2, <3>3
  <2>4. Steps(h, n + 1, a, b, d)
    <3> HIDE DEF h
    <3> QED BY <2>2, <2>3 DEF Steps
  <2> QED BY <2>4
<1>3. Nat \subseteq N
  <2> HIDE DEF N
  <2> QED BY <1>1, <1>2, NumberInduction
<1> QED BY <1>3

Recursive(f, a, b, d) == f = [i \in Nat |-> IF i = 0 THEN a ELSE b * f[i - 1] + d[i]]

\* And one function for all of them.
LEMMA Recursion ==
    ASSUME NEW a, NEW b, NEW d
    PROVE  \E f : Recursive(f, a, b, d)
<1> DEFINE G(n) == CHOOSE g : Steps(g, n, a, b, d)
           f == [i \in Nat |-> G(i)[i]]
<1>1. \A n \in Nat : Steps(G(n), n, a, b, d)
  BY StepsExist
<1> HIDE DEF G
<1>2. f[0] = a
  BY <1>1 DEF Steps
<1>3. ASSUME NEW i \in Nat, i # 0 PROVE f[i] = b * f[i - 1] + d[i]
  <2>1. i - 1 \in Nat /\ i \in 1..i /\ \A j \in 1..(i - 1) : j \in 1..i
    BY <1>3
  <2>2. G(i)[i] = b * G(i)[i - 1] + d[i]
    BY <1>1, <2>1 DEF Steps
  <2>3. Steps(G(i), i - 1, a, b, d) /\ Steps(G(i - 1), i - 1, a, b, d)
    BY <1>1, <2>1 DEF Steps
  <2>4. G(i)[i - 1] = G(i - 1)[i - 1]
    BY <2>1, <2>3, StepsAgree
  <2> QED BY <2>1, <2>2, <2>4
<1>4. f = [i \in Nat |-> IF i = 0 THEN a ELSE b * f[i - 1] + d[i]]
  <2> SUFFICES ASSUME NEW i \in Nat PROVE f[i] = IF i = 0 THEN a ELSE b * f[i - 1] + d[i]
    BY Zenon
  <2> HIDE DEF f
  <2> QED BY <1>2, <1>3
<1>5. Recursive(f, a, b, d)
  BY <1>4 DEF Recursive
<1> QED BY <1>5

\* Powers, for any base.
LEMMA PowersExist ==
    ASSUME NEW b \in Nat
    PROVE  \E f : f = [k \in Nat |-> IF k = 0 THEN 1 ELSE b * f[k - 1]]
<1> DEFINE d == [k \in Nat |-> 0]
<1>1. PICK f : Recursive(f, 1, b, d)
  BY Recursion
<1>2. f[0] = 1 /\ \A k \in Nat : k # 0 => f[k] = b * f[k - 1] + 0
  BY <1>1 DEF Recursive
<1>3. ASSUME NEW n \in Nat PROVE f[n] \in Int
  <2>1. Steps(f, n, 1, b, d)
    BY <1>2 DEF Steps
  <2>2. \A i \in 1..n : d[i] \in Int
    OBVIOUS
  <2> HIDE DEF d
  <2> QED BY <2>1, <2>2, StepsAreNumbers
<1>4. \A k \in Nat : k # 0 => f[k] = b * f[k - 1]
  BY <1>2, <1>3
<1>5. f = [k \in Nat |-> IF k = 0 THEN 1 ELSE b * f[k - 1]]
  <2>1. f = [k \in Nat |-> f[k]]
    BY <1>1 DEF Recursive
  <2> QED BY <1>2, <1>4, <2>1
<1> QED BY <1>5

\* A power is positive and grows by its base.
IsPower(f, b) == /\ f[0] = 1
                 /\ \A k \in Nat : f[k] \in Nat \ {0} /\ f[k + 1] = b * f[k]

\* That is what recursion makes of a base that is not 0,
LEMMA PowersArePositive ==
    ASSUME NEW b \in Nat \ {0}, NEW f, f = [k \in Nat |-> IF k = 0 THEN 1 ELSE b * f[k - 1]]
    PROVE  IsPower(f, b)
<1> DEFINE N == {k \in Nat : f[k] \in Nat \ {0}}
<1>0. f[0] = 1
  OBVIOUS
<1>1. 0 \in N
  BY <1>0
<1>2. ASSUME NEW k \in Nat PROVE f[k + 1] = b * f[k]
  <2>1. k + 1 \in Nat /\ k + 1 # 0 /\ (k + 1) - 1 = k
    OBVIOUS
  <2> QED BY <2>1
<1>3. ASSUME NEW k \in Nat, k \in N PROVE k + 1 \in N
  BY <1>2, <1>3
<1>4. Nat \subseteq N
  <2> HIDE DEF N
  <2> QED BY <1>1, <1>3, NumberInduction
<1> QED BY <1>0, <1>2, <1>4 DEF IsPower

\* and what TenTo and TwoTo are.
LEMMA Powers == IsPower(TenTo, 10) /\ IsPower(TwoTo, 2)
<1>1. TenTo = [k \in Nat |-> IF k = 0 THEN 1 ELSE 10 * TenTo[k - 1]]
  BY PowersExist DEF TenTo
<1>2. TwoTo = [k \in Nat |-> IF k = 0 THEN 1 ELSE 2 * TwoTo[k - 1]]
  BY PowersExist DEF TwoTo
<1>3. IsPower(TenTo, 10)
  BY <1>1, PowersArePositive
<1>4. IsPower(TwoTo, 2)
  BY <1>2, PowersArePositive
<1> QED BY <1>3, <1>4

\* Powers of a sum.
LEMMA PowerOfSum ==
    ASSUME NEW b \in Nat \ {0}, NEW f, IsPower(f, b), NEW i \in Nat
    PROVE  \A j \in Nat : f[i + j] = f[i] * f[j]
<1> DEFINE N == {j \in Nat : f[i + j] = f[i] * f[j]}
<1>1. 0 \in N
  BY DEF IsPower
<1>2. ASSUME NEW j \in Nat, j \in N PROVE j + 1 \in N
  <2>1. i + j \in Nat /\ i + (j + 1) = (i + j) + 1
    OBVIOUS
  <2>2. f[i + (j + 1)] = b * f[i + j] /\ f[j + 1] = b * f[j] /\ f[i] \in Nat /\ f[j] \in Nat
    BY <2>1 DEF IsPower
  <2>3. f[i + j] = f[i] * f[j]
    BY <1>2
  <2>4. b * (f[i] * f[j]) = f[i] * (b * f[j])
    BY <2>2
  <2> QED BY <2>2, <2>3, <2>4
<1>3. Nat \subseteq N
  <2> HIDE DEF N
  <2> QED BY <1>1, <1>2, NumberInduction
<1> QED BY <1>3

\* So it is for TenTo and TwoTo.
LEMMA PowersMultiply ==
    /\ \A i, j \in Nat : TenTo[i + j] = TenTo[i] * TenTo[j]
    /\ \A i, j \in Nat : TwoTo[i + j] = TwoTo[i] * TwoTo[j]
  BY PowerOfSum, Powers

\* Powers of a base that is not 0 do not shrink.
LEMMA PowersGrow ==
    ASSUME NEW b \in Nat \ {0}, NEW f, IsPower(f, b), NEW i \in Nat, NEW j \in Nat, i <= j
    PROVE  f[i] <= f[j]
<1>1. j - i \in Nat /\ i + (j - i) = j
  OBVIOUS
<1>2. f[j] = f[i] * f[j - i]
  BY <1>1, PowerOfSum
<1>3. f[i] \in Nat \ {0} /\ f[j - i] \in Nat \ {0}
  BY <1>1 DEF IsPower
<1> QED BY <1>2, <1>3

----------------------------------------------------------------------------
\* Digits and texts.

\* The least number of a set.
LEMMA MinIs ==
    ASSUME NEW S \in SUBSET Int, NEW m \in S, \A i \in S : m <= i
    PROVE  Min(S) = m
<1>1. \E x \in S : \A y \in S : x <= y
  OBVIOUS
<1>2. Min(S) \in S /\ \A y \in S : Min(S) <= y
  BY <1>1, Zenon DEF Min
<1>3. Min(S) \in Int /\ m \in Int
  BY <1>2
<1>4. m <= Min(S) /\ Min(S) <= m
  BY <1>2
<1> QED BY <1>3, <1>4

\* The greatest number of a set.
LEMMA MaxIs ==
    ASSUME NEW S \in SUBSET Int, NEW m \in S, \A i \in S : m >= i
    PROVE  Max(S) = m
<1>1. \E x \in S : \A y \in S : x >= y
  OBVIOUS
<1>2. Max(S) \in S /\ \A y \in S : Max(S) >= y
  BY <1>1, Zenon DEF Max
<1>3. Max(S) \in Int /\ m \in Int
  BY <1>2
<1>4. m <= Max(S) /\ Max(S) <= m
  BY <1>2
<1> QED BY <1>3, <1>4

\* The first place where a character differs from c.
LEMMA FirstOther ==
    ASSUME NEW s, NEW c, Len(s) \in Nat, NEW j \in 1..Len(s), s[j] # c, \A i \in 1..(j - 1) : s[i] = c
    PROVE  SelectInSeq(s, LAMBDA d : d # c) = j
<1> DEFINE I == {i \in 1..Len(s) : s[i] # c}
<1>1. I \in SUBSET Int /\ j \in I /\ \A i \in I : j <= i
  OBVIOUS
<1>2. Min(I) = j /\ I # {}
  <2> HIDE DEF I
  <2> QED BY <1>1, MinIs
<1> QED BY <1>2 DEF SelectInSeq

\* The last place where a character differs from c.
LEMMA LastOther ==
    ASSUME NEW s, NEW c, Len(s) \in Nat, NEW j \in 1..Len(s), s[j] # c, \A i \in (j + 1)..Len(s) : s[i] = c
    PROVE  SelectLastInSeq(s, LAMBDA d : d # c) = j
<1> DEFINE I == {i \in 1..Len(s) : s[i] # c}
<1>1. I \in SUBSET Int /\ j \in I /\ \A i \in I : j >= i
  OBVIOUS
<1>2. Max(I) = j /\ I # {}
  <2> HIDE DEF I
  <2> QED BY <1>1, MaxIs
<1> QED BY <1>2 DEF SelectLastInSeq

\* The first point of a text,
LEMMA PointIs ==
    ASSUME NEW s, Len(s) \in Nat, NEW j \in 1..Len(s), s[j] = ".", \A i \in 1..(j - 1) : s[i] # "."
    PROVE  Point(s) = j
<1> DEFINE I == {i \in 1..Len(s) : s[i] = "."}
<1>1. I \in SUBSET Int /\ j \in I /\ \A i \in I : j <= i
  OBVIOUS
<1>2. Min(I) = j /\ I # {}
  <2> HIDE DEF I
  <2> QED BY <1>1, MinIs
<1> QED BY <1>2 DEF Point, SelectInSeq

\* and a text without one.
LEMMA NoPoint ==
    ASSUME NEW s, Len(s) \in Nat, \A i \in 1..Len(s) : s[i] # "."
    PROVE  Point(s) = 0
  BY DEF Point, SelectInSeq

\* The ten digits.
DigitSet == ToSet(Digits)
DigitTexts == Seq(DigitSet)

\* The ten digits are ten, and none of the other characters is one of them.
LEMMA DigitsAre ==
    /\ Len(Digits) = 10
    /\ \A i, j \in 1..10 : Digits[i] = Digits[j] => i = j
    /\ Digits[1] = "0"
    /\ DigitSet = {Digits[i] : i \in 1..10}
    /\ \A c \in {" ", "$", ".", "-", "x", "+"} : c \notin DigitSet
<1>1. Len(Digits) = 10 /\ DOMAIN Digits = 1..10
  BY DEF Digits
<1>2. DigitSet = {"0", "1", "2", "3", "4", "5", "6", "7", "8", "9"}
  BY DEF DigitSet, ToSet, Digits
<1>3. \A i, j \in 1..10 : Digits[i] = Digits[j] => i = j
  BY DEF Digits
<1> QED BY <1>1, <1>2, <1>3 DEF Digits, DigitSet, ToSet

\* DigitOf counts them from 0.
LEMMA DigitOfDigit ==
    /\ \A i \in 1..10 : DigitOf(Digits[i]) = i - 1 /\ Digits[i] \in DigitSet
    /\ \A c \in DigitSet : DigitOf(c) \in 0..9
    /\ DigitOf("0") = 0 /\ "0" \in DigitSet
<1>1. ASSUME NEW i \in 1..10 PROVE DigitOf(Digits[i]) = i - 1
  <2> DEFINE I == {j \in 1..Len(Digits) : Digits[j] = Digits[i]}
  <2>0. Len(Digits) = 10 /\ \A j \in 1..10 : Digits[i] = Digits[j] => i = j
    BY DigitsAre
  <2>1. I \in SUBSET Int /\ i \in I /\ \A j \in I : i <= j
    BY <2>0
  <2>2. Min(I) = i /\ I # {}
    <3> HIDE DEF I
    <3> QED BY <2>1, MinIs
  <2> QED BY <2>2 DEF DigitOf, SelectInSeq
<1>2. \A i \in 1..10 : Digits[i] \in DigitSet
  BY DigitsAre
<1>3. ASSUME NEW c \in DigitSet PROVE DigitOf(c) \in 0..9
  <2>1. PICK i \in 1..10 : c = Digits[i]
    BY DigitsAre
  <2> QED BY <1>1, <2>1
<1>4. DigitOf("0") = 0 /\ "0" \in DigitSet
  <2>1. Digits[1] = "0"
    BY DigitsAre, Zenon
  <2>2. DigitOf(Digits[1]) = 1 - 1 /\ Digits[1] \in DigitSet
    BY <1>1, <1>2
  <2> QED BY <2>1, <2>2
<1> QED BY <1>1, <1>2, <1>3, <1>4

----------------------------------------------------------------------------
\* What a text of digits is worth.

\* v counts the digits of s as ValueOf does.
Counts(v, s) == v[0] = 0 /\ \A i \in 1..Len(s) : v[i] = 10 * v[i - 1] + DigitOf(s[i])

\* ValueOf is the last of such numbers,
LEMMA ValueCounts ==
    ASSUME NEW s \in DigitTexts
    PROVE  /\ ValueOf(s) \in Nat
           /\ \E v : Counts(v, s) /\ ValueOf(s) = v[Len(s)] /\ \A i \in 0..Len(s) : v[i] \in Nat
<1> DEFINE n == Len(s)
           d == [i \in Nat |-> IF i \in 1..n THEN DigitOf(s[i]) ELSE 0]
           v == CHOOSE v : v = [i \in 0..n |-> IF i = 0 THEN 0 ELSE 10 * v[i - 1] + DigitOf(s[i])]
<1>1. n \in Nat /\ \A i \in 1..n : s[i] \in DigitSet
  BY DEF DigitTexts
<1>2. \A i \in 1..n : DigitOf(s[i]) \in Nat
  BY <1>1, DigitOfDigit
<1> HIDE DEF n
<1>3. PICK f : Recursive(f, 0, 10, d)
  BY Recursion
<1>4. f[0] = 0 /\ \A i \in 1..n : f[i] = 10 * f[i - 1] + DigitOf(s[i])
  <2>1. \A i \in 1..n : i \in Nat /\ i # 0
    OBVIOUS
  <2> QED BY <2>1, <1>3 DEF Recursive
<1> DEFINE g == [i \in 0..n |-> f[i]]
<1>5. g = [i \in 0..n |-> IF i = 0 THEN 0 ELSE 10 * g[i - 1] + DigitOf(s[i])]
  <2>1. ASSUME NEW i \in 0..n PROVE g[i] = IF i = 0 THEN 0 ELSE 10 * g[i - 1] + DigitOf(s[i])
    <3>1. CASE i = 0
      BY <1>1, <1>4, <3>1
    <3>2. CASE i # 0
      <4>1. i \in 1..n /\ i - 1 \in 0..n
        BY <1>1, <3>2
      <4> QED BY <1>4, <3>2, <4>1
    <3> QED BY <3>1, <3>2
  <2> QED BY <2>1
<1> HIDE DEF g
<1>6. v = [i \in 0..n |-> IF i = 0 THEN 0 ELSE 10 * v[i - 1] + DigitOf(s[i])]
  BY <1>5
<1>7. ValueOf(s) = v[n]
  BY DEF ValueOf, n
<1> HIDE DEF v
<1>8. v[0] = 0 /\ \A i \in 1..n : v[i] = 10 * v[i - 1] + DigitOf(s[i])
  <2>1. 0 \in 0..n /\ \A i \in 1..n : i \in 0..n /\ i # 0
    BY <1>1
  <2> QED BY <1>6, <2>1
<1>9. \A i \in 0..n : v[i] \in Nat
  <2> DEFINE N == {i \in Nat : i <= n => v[i] \in Nat}
  <2>1. 0 \in N
    BY <1>8
  <2>2. ASSUME NEW i \in Nat, i \in N PROVE i + 1 \in N
    <3> SUFFICES ASSUME i + 1 <= n PROVE v[i + 1] \in Nat
      OBVIOUS
    <3>1. i + 1 \in 1..n /\ (i + 1) - 1 = i /\ v[i] \in Nat
      BY <1>1, <2>2
    <3>2. v[i + 1] = 10 * v[i] + DigitOf(s[i + 1]) /\ DigitOf(s[i + 1]) \in Nat
      BY <1>2, <1>8, <3>1
    <3> QED BY <3>1, <3>2
  <2>3. Nat \subseteq N
    <3> HIDE DEF N
    <3> QED BY <2>1, <2>2, NumberInduction
  <2> QED BY <2>3
<1>10. Counts(v, s)
  BY <1>8 DEF Counts, n
<1> QED BY <1>1, <1>7, <1>9, <1>10 DEF n

\* and of any such numbers.
LEMMA ValueIs ==
    ASSUME NEW s \in DigitTexts, NEW v, Counts(v, s)
    PROVE  ValueOf(s) = v[Len(s)]
<1> DEFINE n == Len(s)
           d == [i \in 1..n |-> DigitOf(s[i])]
<1>1. PICK w : Counts(w, s) /\ ValueOf(s) = w[n]
  BY ValueCounts
<1>2. n \in Nat
  BY DEF DigitTexts
<1>3. Steps(v, n, 0, 10, d) /\ Steps(w, n, 0, 10, d)
  BY <1>1 DEF Steps, Counts
<1> HIDE DEF n, d
<1>4. \A i \in 0..n : v[i] = w[i]
  BY <1>2, <1>3, StepsAgree
<1>5. v[n] = w[n]
  BY <1>2, <1>4
<1> QED BY <1>1, <1>5 DEF n

\* The last k digits of n are worth n without what is left of them.
LEMMA ValueOfLastDigits ==
    ASSUME NEW n \in Nat, NEW k \in Nat
    PROVE  /\ LastDigits(n, k) \in DigitTexts /\ Len(LastDigits(n, k)) = k
           /\ ValueOf(LastDigits(n, k)) = n % TenTo[k]
<1> DEFINE s == LastDigits(n, k)
           q(i) == n \div TenTo[k - i]
           v == [i \in 0..k |-> q(i) - TenTo[i] * q(0)]
<1>1. \A j \in Nat : TenTo[j] \in Nat \ {0} /\ TenTo[j + 1] = 10 * TenTo[j]
  BY Powers DEF IsPower
<1>2. \A i \in 0..k : k - i \in Nat /\ q(i) \in Nat
  <2> SUFFICES ASSUME NEW i \in 0..k PROVE k - i \in Nat /\ q(i) \in Nat
    OBVIOUS
  <2>1. k - i \in Nat
    OBVIOUS
  <2>2. TenTo[k - i] \in Nat \ {0}
    BY <1>1, <2>1
  <2> QED BY <2>1, <2>2, Division
<1>3. \A i \in 1..k : s[i] = Digits[(q(i) % 10) + 1] /\ (q(i) % 10) + 1 \in 1..10
  <2> SUFFICES ASSUME NEW i \in 1..k PROVE s[i] = Digits[(q(i) % 10) + 1] /\ (q(i) % 10) + 1 \in 1..10
    OBVIOUS
  <2>1. s[i] = Digits[(q(i) % 10) + 1]
    BY DEF LastDigits
  <2>2. q(i) \in Nat
    BY <1>2
  <2> HIDE DEF q, s
  <2> QED BY <2>1, <2>2
<1>4. \A i \in 1..k : s[i] \in DigitSet /\ DigitOf(s[i]) = q(i) % 10
  <2> HIDE DEF q, s
  <2> SUFFICES ASSUME NEW i \in 1..k PROVE s[i] \in DigitSet /\ DigitOf(s[i]) = q(i) % 10
    OBVIOUS
  <2>1. s[i] = Digits[(q(i) % 10) + 1] /\ (q(i) % 10) + 1 \in 1..10 /\ q(i) \in Nat
    BY <1>2, <1>3
  <2>2. Digits[(q(i) % 10) + 1] \in DigitSet /\ DigitOf(Digits[(q(i) % 10) + 1]) = ((q(i) % 10) + 1) - 1
    BY <2>1, DigitOfDigit
  <2> QED BY <2>1, <2>2
<1>5. s \in DigitTexts /\ Len(s) = k
  <2>1. s = [i \in 1..k |-> s[i]]
    BY DEF LastDigits
  <2> HIDE DEF s
  <2> QED BY <1>4, <2>1 DEF DigitTexts
<1>6. \A i \in 1..k : q(i - 1) = q(i) \div 10
  <2> SUFFICES ASSUME NEW i \in 1..k PROVE n \div TenTo[k - (i - 1)] = (n \div TenTo[k - i]) \div 10
    OBVIOUS
  <2>1. k - i \in Nat /\ k - (i - 1) = (k - i) + 1
    OBVIOUS
  <2>2. TenTo[k - (i - 1)] = 10 * TenTo[k - i] /\ TenTo[k - i] \in Nat \ {0}
    BY <1>1, <2>1
  <2> QED BY <2>2, DivisionTwice
<1>7. Counts(v, s)
  <2>1. v[0] = 0
    <3>1. v[0] = q(0) - TenTo[0] * q(0)
      OBVIOUS
    <3> HIDE DEF v, q
    <3>2. TenTo[0] = 1
      BY Powers DEF IsPower
    <3>3. 0 \in 0..k
      OBVIOUS
    <3>4. q(0) \in Nat
      BY <1>2, <3>3
    <3> QED BY <3>1, <3>2, <3>4
  <2>2. ASSUME NEW i \in 1..k PROVE v[i] = 10 * v[i - 1] + DigitOf(s[i])
    <3>1. i - 1 \in 0..k /\ i \in 0..k /\ i - 1 \in Nat /\ (i - 1) + 1 = i /\ 0 \in 0..k
      OBVIOUS
    <3>2. v[i] = q(i) - TenTo[i] * q(0) /\ v[i - 1] = q(i - 1) - TenTo[i - 1] * q(0)
      BY <3>1
    <3> HIDE DEF q, v, s
    <3>3. TenTo[i] = 10 * TenTo[i - 1] /\ TenTo[i - 1] \in Nat
      BY <1>1, <3>1
    <3>4. q(i) = 10 * (q(i) \div 10) + (q(i) % 10) /\ q(i) \in Nat /\ q(i - 1) \in Nat /\ q(0) \in Nat
      BY <1>2, <3>1
    <3>5. q(i - 1) = q(i) \div 10 /\ DigitOf(s[i]) = q(i) % 10
      BY <1>4, <1>6
    <3>6. (10 * TenTo[i - 1]) * q(0) = 10 * (TenTo[i - 1] * q(0)) /\ TenTo[i - 1] * q(0) \in Nat
      BY <3>3, <3>4
    <3> QED BY <3>2, <3>3, <3>4, <3>5, <3>6
  <2> HIDE DEF s, v
  <2> QED BY <1>5, <2>1, <2>2 DEF Counts
<1>8. ValueOf(s) = v[k]
  <2> HIDE DEF s, v
  <2> QED BY <1>5, <1>7, ValueIs
<1>9. v[k] = n % TenTo[k]
  <2>1. v[k] = n \div TenTo[k - k] - TenTo[k] * (n \div TenTo[k - 0])
    OBVIOUS
  <2>2. k - k = 0 /\ k - 0 = k /\ TenTo[0] = 1
    BY Powers DEF IsPower
  <2>3. n \div 1 = n
    OBVIOUS
  <2> DEFINE p == TenTo[k]
  <2>3a. p \in Nat \ {0}
    BY <1>1
  <2> HIDE DEF p
  <2>4. n = p * (n \div p) + (n % p) /\ n \div p \in Nat /\ n % p \in 0..(p - 1)
    BY <2>3a, Division
  <2>5. p * (n \div p) \in Nat
    BY <2>3a, <2>4
  <2>6. v[k] = n \div 1 - p * (n \div p)
    BY <2>1, <2>2 DEF p
  <2> HIDE DEF v
  <2>7. v[k] = n % p
    BY <2>3, <2>4, <2>5, <2>6
  <2> QED BY <2>7 DEF p
<1> QED BY <1>5, <1>8, <1>9

\* One text behind another moves what is before it to the left.
LEMMA ValueOfBoth ==
    ASSUME NEW w \in DigitTexts, NEW d \in DigitTexts
    PROVE  /\ w \o d \in DigitTexts
           /\ ValueOf(w \o d) = ValueOf(w) * TenTo[Len(d)] + ValueOf(d)
<1> DEFINE m == Len(w)
           n == Len(d)
           s == w \o d
<1>1. /\ s \in DigitTexts /\ m \in Nat /\ n \in Nat /\ Len(s) = m + n
      /\ \A i \in 1..m : s[i] = w[i]
      /\ \A i \in (m + 1)..(m + n) : s[i] = d[i - m]
  BY DEF DigitTexts
<1>2. PICK x : Counts(x, w) /\ ValueOf(w) = x[m] /\ \A i \in 0..m : x[i] \in Nat
  BY ValueCounts
<1>3. PICK y : Counts(y, d) /\ ValueOf(d) = y[n] /\ \A i \in 0..n : y[i] \in Nat
  BY ValueCounts
<1>3a. /\ x[0] = 0 /\ \A i \in 1..m : x[i] = 10 * x[i - 1] + DigitOf(w[i])
       /\ y[0] = 0 /\ \A i \in 1..n : y[i] = 10 * y[i - 1] + DigitOf(d[i])
  BY <1>2, <1>3 DEF Counts
<1>4. \A j \in Nat : TenTo[j] \in Nat /\ TenTo[j + 1] = 10 * TenTo[j]
  BY Powers DEF IsPower
<1>5. TenTo[0] = 1
  BY Powers DEF IsPower
<1>6. \A i \in 1..n : DigitOf(d[i]) \in Nat
  <2> SUFFICES ASSUME NEW i \in 1..n PROVE DigitOf(d[i]) \in Nat
    OBVIOUS
  <2>1. d[i] \in DigitSet
    BY DEF DigitTexts
  <2>2. DigitOf(d[i]) \in 0..9
    BY <2>1, DigitOfDigit
  <2> QED BY <2>2
<1> DEFINE v == [i \in 0..(m + n) |-> IF i <= m THEN x[i] ELSE x[m] * TenTo[i - m] + y[i - m]]
<1>7. v[0] = 0
  BY <1>1, <1>3a
<1>8. \A j \in 0..n : v[m + j] = x[m] * TenTo[j] + y[j]
  <2> SUFFICES ASSUME NEW j \in 0..n PROVE v[m + j] = x[m] * TenTo[j] + y[j]
    OBVIOUS
  <2>1. m + j \in 0..(m + n) /\ (m + j) - m = j
    BY <1>1
  <2>2. CASE j = 0
    <3>1. v[m + j] = x[m] /\ x[m] \in Nat
      BY <1>1, <1>2, <2>1, <2>2
    <3> HIDE DEF v
    <3> QED BY <1>3a, <1>5, <2>2, <3>1
  <2>3. CASE j # 0
    BY <1>1, <2>1, <2>3
  <2> QED BY <2>2, <2>3
<1>9. ASSUME NEW i \in 1..(m + n) PROVE v[i] = 10 * v[i - 1] + DigitOf(s[i])
  <2>1. CASE i <= m
    <3>1. v[i] = x[i] /\ v[i - 1] = x[i - 1] /\ i \in 1..m
      BY <1>1, <2>1
    <3> HIDE DEF v, s
    <3> QED BY <1>1, <1>3a, <3>1
  <2>2. CASE i > m
    <3> DEFINE j == i - m
               p == TenTo[j - 1]
    <3>1. j \in 1..n /\ j - 1 \in Nat /\ j - 1 \in 0..n /\ j \in 0..n /\ (j - 1) + 1 = j
          /\ i = m + j /\ i - 1 = m + (j - 1)
      BY <1>1, <2>2
    <3>2. s[i] = d[j]
      BY <1>1, <2>2
    <3> HIDE DEF j, v, s
    <3>3. v[i] = x[m] * TenTo[j] + y[j] /\ v[i - 1] = x[m] * p + y[j - 1]
      BY <1>8, <3>1
    <3>4. p \in Nat /\ TenTo[j] = 10 * p
      BY <1>4, <3>1
    <3>5. y[j] = 10 * y[j - 1] + DigitOf(d[j])
      BY <1>3a, <3>1
    <3>6. x[m] \in Nat /\ y[j - 1] \in Nat /\ DigitOf(d[j]) \in Nat
      <4>1. m \in 0..m
        BY <1>1
      <4> QED BY <1>2, <1>3, <1>6, <3>1, <4>1
    <3> HIDE DEF p
    <3>7. x[m] * (10 * p) = 10 * (x[m] * p) /\ x[m] * p \in Nat
      BY <3>4, <3>6
    <3>8. v[i] = x[m] * (10 * p) + (10 * y[j - 1] + DigitOf(d[j]))
      BY <3>3, <3>4, <3>5
    <3> QED BY <3>2, <3>3, <3>6, <3>7, <3>8
  <2> QED BY <1>1, <2>1, <2>2
<1>10. Counts(v, s)
  <2> HIDE DEF v, s
  <2> QED BY <1>1, <1>7, <1>9 DEF Counts
<1>11. ValueOf(s) = v[m + n]
  <2> HIDE DEF v, s
  <2> QED BY <1>1, <1>10, ValueIs
<1>12. v[m + n] = x[m] * TenTo[n] + y[n]
  <2> HIDE DEF v
  <2> QED BY <1>1, <1>8
<1> QED BY <1>1, <1>2, <1>3, <1>11, <1>12

\* Zeros are worth nothing: not alone,
LEMMA Zeros ==
    ASSUME NEW s \in DigitTexts, \A i \in 1..Len(s) : s[i] = "0"
    PROVE  ValueOf(s) = 0
<1> DEFINE v == [i \in 0..Len(s) |-> 0]
<1>1. Len(s) \in Nat
  BY DEF DigitTexts
<1>2. DigitOf("0") = 0
  BY DigitOfDigit
<1>3. ASSUME NEW i \in 1..Len(s) PROVE v[i] = 10 * v[i - 1] + DigitOf(s[i])
  BY <1>1, <1>2
<1>4. v[0] = 0 /\ v[Len(s)] = 0
  BY <1>1
<1>5. Counts(v, s)
  <2> HIDE DEF v
  <2> QED BY <1>3, <1>4 DEF Counts
<1> HIDE DEF v
<1> QED BY <1>4, <1>5, ValueIs

\* and not before other digits.
LEMMA LeadingZeros ==
    ASSUME NEW s \in DigitTexts, ValueOf(s) # 0
    PROVE  /\ DropLeading(s, "0") \in DigitTexts /\ Len(DropLeading(s, "0")) > 0
           /\ ValueOf(DropLeading(s, "0")) = ValueOf(s)
<1> DEFINE n == Len(s)
           I == {i \in 1..n : s[i] # "0"}
<1>1. n \in Nat
  BY DEF DigitTexts
<1>2. PICK k \in 1..n : s[k] # "0"
  BY Zeros
<1> DEFINE N == {j \in Nat : \A i \in 1..n : i <= j => s[i] = "0"}
<1>3. PICK j \in 1..n : s[j] # "0" /\ \A i \in 1..(j - 1) : s[i] = "0"
  <2> SUFFICES ASSUME \A j \in 1..n : s[j] # "0" => \E i \in 1..(j - 1) : s[i] # "0" PROVE FALSE
    BY Zenon
  <2>1. 0 \in N
    OBVIOUS
  <2>2. ASSUME NEW j \in Nat, j \in N PROVE j + 1 \in N
    <3> SUFFICES ASSUME j + 1 \in 1..n, s[j + 1] # "0" PROVE FALSE
      BY <2>2
    <3>1. PICK i \in 1..((j + 1) - 1) : s[i] # "0"
      OBVIOUS
    <3>2. i \in 1..n /\ i <= j
      BY <1>1
    <3> QED BY <2>2, <3>1, <3>2
  <2>3. Nat \subseteq N
    <3> HIDE DEF N
    <3> QED BY <2>1, <2>2, NumberInduction
  <2>4. n \in N
    BY <1>1, <2>3
  <2> QED BY <1>2, <2>4
<1>4. SelectInSeq(s, LAMBDA d : d # "0") = j
  BY <1>1, <1>3, FirstOther
<1> DEFINE z == SubSeq(s, 1, j - 1)
           r == SubSeq(s, j, n)
<1>5. DropLeading(s, "0") = r
  BY <1>3, <1>4 DEF DropLeading
<1>6. z \in DigitTexts /\ r \in DigitTexts /\ Len(r) > 0 /\ s = z \o r
  BY <1>1, <1>3 DEF DigitTexts
<1>7. \A i \in 1..Len(z) : z[i] = "0"
  BY <1>1, <1>3 DEF DigitTexts
<1> HIDE DEF z, r
<1>8. ValueOf(z) = 0
  BY <1>6, <1>7, Zeros
<1>9. ValueOf(z \o r) = ValueOf(z) * TenTo[Len(r)] + ValueOf(r) /\ ValueOf(r) \in Nat
  BY <1>6, ValueOfBoth, ValueCounts
<1>10. TenTo[Len(r)] \in Nat
  <2>1. Len(r) \in Nat
    BY <1>6 DEF DigitTexts
  <2> QED BY <2>1, Powers DEF IsPower
<1> QED BY <1>5, <1>6, <1>8, <1>9, <1>10

\* The digits of a number of dollars, of which 0 has one too.
WholeText(n) == IF n = 0 THEN <<"0">> ELSE DigitsOf(n)

\* They are worth that number.
LEMMA WholeIs ==
    ASSUME NEW n \in Nat, n < TenTo[WholeDigits]
    PROVE  WholeText(n) \in DigitTexts /\ Len(WholeText(n)) > 0 /\ ValueOf(WholeText(n)) = n
<1>1. CASE n = 0
  <2> DEFINE z == <<"0">>
  <2>1. "0" \in DigitSet
    BY DigitOfDigit
  <2>2. z \in DigitTexts /\ Len(z) > 0 /\ \A i \in 1..Len(z) : z[i] = "0"
    BY <2>1 DEF DigitTexts
  <2>3. WholeText(n) = z
    BY <1>1 DEF WholeText
  <2> HIDE DEF z
  <2> QED BY <1>1, <2>2, <2>3, Zeros
<1>2. CASE n # 0
  <2> DEFINE s == LastDigits(n, WholeDigits)
             p == TenTo[WholeDigits]
  <2>1. WholeDigits \in Nat /\ p \in Nat \ {0}
    BY Powers DEF IsPower, WholeDigits
  <2>2. s \in DigitTexts /\ ValueOf(s) = n % p
    BY <2>1, ValueOfLastDigits
  <2> HIDE DEF p, s
  <2>3. n % p = n
    BY <2>1 DEF p
  <2>4. /\ DropLeading(s, "0") \in DigitTexts /\ Len(DropLeading(s, "0")) > 0
        /\ ValueOf(DropLeading(s, "0")) = n
    BY <1>2, <2>2, <2>3, LeadingZeros
  <2>5. WholeText(n) = DropLeading(s, "0")
    BY <1>2 DEF WholeText, DigitsOf, s
  <2> QED BY <2>4, <2>5
<1> QED BY <1>1, <1>2

\* Padded, the digits behind the point are the whole atomic units in f of
\* TenTo[k] parts of a dollar, cut off when there are too many and filled up
\* when there are too few.
LEMMA ValueOfPadded ==
    ASSUME NEW k \in Nat, NEW f \in Nat, f < TenTo[k]
    PROVE  /\ Padded(LastDigits(f, k)) \in DigitTexts
           /\ ValueOf(Padded(LastDigits(f, k))) = (f * One) \div TenTo[k]
<1> DEFINE d == LastDigits(f, k)
           D == Decimals
           s == Padded(d)
           q(i) == f \div TenTo[k - i]
           v == [i \in 0..D |-> IF i <= k THEN q(i) ELSE f * TenTo[i - k]]
<1>0. D \in Nat
  BY MoneyAssumption
<1>1. \A j \in Nat : TenTo[j] \in Nat \ {0} /\ TenTo[j + 1] = 10 * TenTo[j]
  BY Powers DEF IsPower
<1>1a. TenTo[0] = 1
  BY Powers DEF IsPower
<1>2. d \in DigitTexts /\ Len(d) = k
  BY ValueOfLastDigits
<1>3. s = [i \in 1..D |-> IF i <= k THEN d[i] ELSE "0"]
  BY <1>2 DEF Padded
<1> HIDE DEF s, D
<1>4. \A i \in 1..k : d[i] \in DigitSet
  BY <1>2 DEF DigitTexts
<1>5. \A i \in 1..D : s[i] \in DigitSet
  <2> SUFFICES ASSUME NEW i \in 1..D PROVE s[i] \in DigitSet
    OBVIOUS
  <2>1. s[i] = IF i <= k THEN d[i] ELSE "0"
    BY <1>3
  <2>2. "0" \in DigitSet
    BY DigitOfDigit
  <2> HIDE DEF d
  <2>3. CASE i <= k
    <3>1. i \in 1..k
      BY <1>0, <2>3
    <3> QED BY <1>4, <2>1, <2>3, <3>1
  <2>4. CASE ~(i <= k)
    BY <2>1, <2>2, <2>4
  <2> QED BY <2>3, <2>4
<1>6. s \in DigitTexts /\ Len(s) = D
  BY <1>0, <1>3, <1>5 DEF DigitTexts
<1>7. \A i \in 0..k : q(i) \in Nat
  <2> SUFFICES ASSUME NEW i \in 0..k PROVE q(i) \in Nat
    OBVIOUS
  <2>1. k - i \in Nat
    OBVIOUS
  <2>2. TenTo[k - i] \in Nat \ {0}
    BY <1>1, <2>1
  <2> QED BY <2>2, Division
<1>8. \A i \in 1..k : q(i - 1) = q(i) \div 10
  <2> SUFFICES ASSUME NEW i \in 1..k PROVE f \div TenTo[k - (i - 1)] = (f \div TenTo[k - i]) \div 10
    OBVIOUS
  <2>1. k - i \in Nat /\ k - (i - 1) = (k - i) + 1
    OBVIOUS
  <2>2. TenTo[k - (i - 1)] = 10 * TenTo[k - i] /\ TenTo[k - i] \in Nat \ {0}
    BY <1>1, <2>1
  <2> QED BY <2>2, DivisionTwice
<1>9. \A i \in 1..k : DigitOf(d[i]) = q(i) % 10
  <2> SUFFICES ASSUME NEW i \in 1..k PROVE DigitOf(d[i]) = q(i) % 10
    OBVIOUS
  <2>1. i \in 0..k
    OBVIOUS
  <2>2. d[i] = Digits[(q(i) % 10) + 1] /\ q(i) \in Nat
    BY <1>7, <2>1 DEF LastDigits
  <2> HIDE DEF q, d
  <2>3. (q(i) % 10) + 1 \in 1..10
    BY <2>2
  <2>4. DigitOf(Digits[(q(i) % 10) + 1]) = ((q(i) % 10) + 1) - 1
    BY <2>3, DigitOfDigit
  <2> QED BY <2>2, <2>3, <2>4
<1>10. q(k) = f /\ q(0) = 0
  <2>1. k - k = 0 /\ k - 0 = k /\ TenTo[k] \in Nat \ {0}
    BY <1>1
  <2>2. f \div 1 = f
    OBVIOUS
  <2>3. q(0) = f \div TenTo[k] /\ q(k) = f \div 1
    BY <1>1a, <2>1
  <2> HIDE DEF q
  <2> DEFINE p == TenTo[k]
  <2>4. p \in Nat /\ f < p /\ q(0) = f \div p
    BY <2>1, <2>3
  <2> HIDE DEF p
  <2>5. f \div p = 0
    BY <2>4
  <2> QED BY <2>2, <2>3, <2>4, <2>5
<1>11. v[0] = 0
  BY <1>0, <1>10
<1>12. ASSUME NEW i \in 1..D PROVE v[i] = 10 * v[i - 1] + DigitOf(s[i])
  <2>1. CASE i <= k
    <3>1. v[i] = q(i) /\ v[i - 1] = q(i - 1) /\ s[i] = d[i] /\ i \in 1..k /\ i \in 0..k
      BY <1>0, <1>3, <2>1
    <3> HIDE DEF v, d, q
    <3>2. q(i) \in Nat /\ q(i - 1) = q(i) \div 10 /\ DigitOf(d[i]) = q(i) % 10
      BY <1>7, <1>8, <1>9, <3>1
    <3>3. q(i) = 10 * (q(i) \div 10) + (q(i) % 10)
      BY <3>2
    <3> QED BY <3>1, <3>2, <3>3
  <2>2. CASE i > k
    <3>1. v[i] = f * TenTo[i - k] /\ s[i] = "0"
      BY <1>0, <1>3, <2>2
    <3>2. v[i - 1] = f * TenTo[i - 1 - k]
      <4>1. CASE i - 1 > k
        BY <1>0, <4>1
      <4>2. CASE i - 1 = k
        <5>1. v[i - 1] = q(k) /\ i - 1 - k = 0
          BY <1>0, <4>2
        <5> HIDE DEF v, q
        <5> QED BY <1>1a, <1>10, <5>1
      <4> QED BY <1>0, <2>2, <4>1, <4>2
    <3> HIDE DEF v
    <3>3. DigitOf("0") = 0
      BY DigitOfDigit
    <3>4. i - 1 - k \in Nat /\ (i - 1 - k) + 1 = i - k
      BY <1>0, <2>2
    <3>5. TenTo[i - 1 - k] \in Nat /\ TenTo[i - k] = 10 * TenTo[i - 1 - k]
      BY <1>1, <3>4
    <3>6. f * (10 * TenTo[i - 1 - k]) = 10 * (f * TenTo[i - 1 - k]) /\ f * TenTo[i - 1 - k] \in Nat
      BY <3>5
    <3> QED BY <3>1, <3>2, <3>3, <3>5, <3>6
  <2> QED BY <1>0, <2>1, <2>2
<1>13. ValueOf(s) = v[D]
  <2> HIDE DEF v
  <2>1. Counts(v, s)
    BY <1>6, <1>11, <1>12 DEF Counts
  <2> QED BY <1>6, <2>1, ValueIs
<1>14. v[D] = (f * One) \div TenTo[k]
  <2>0. One = TenTo[D] /\ One \in Nat \ {0} /\ TenTo[k] \in Nat \ {0}
    BY <1>0, <1>1 DEF One, D
  <2>1. CASE D <= k
    <3> DEFINE p == TenTo[k - D]
    <3>1. k - D \in Nat /\ D + (k - D) = k
      BY <1>0, <2>1
    <3>2. TenTo[k] = One * p /\ p \in Nat \ {0}
      <4>1. TenTo[D + (k - D)] = TenTo[D] * TenTo[k - D]
        BY <1>0, <3>1, PowersMultiply
      <4> QED BY <1>1, <2>0, <3>1, <4>1
    <3>3. v[D] = f \div p
      BY <1>0, <2>1
    <3> HIDE DEF p, v
    <3>4. f * One \in Nat /\ TenTo[k] = p * One
      BY <2>0, <3>2
    <3>5. (f * One) \div (p * One) = ((f * One) \div One) \div p
      BY <2>0, <3>2, <3>4, DivisionTwice
    <3>6. (f * One) \div One = f
      <4>1. f * One = One * f + 0 /\ 0 \in 0..(One - 1)
        BY <2>0
      <4> QED BY <2>0, <3>4, <4>1, DivisionIs
    <3> QED BY <3>3, <3>4, <3>5, <3>6
  <2>2. CASE D > k
    <3> DEFINE p == TenTo[D - k]
               t == TenTo[k]
    <3>1. D - k \in Nat /\ k + (D - k) = D
      BY <1>0, <2>2
    <3>2. One = t * p /\ p \in Nat \ {0}
      <4>1. TenTo[k + (D - k)] = TenTo[k] * TenTo[D - k]
        BY <3>1, PowersMultiply
      <4> QED BY <1>1, <2>0, <3>1, <4>1
    <3>3. v[D] = f * p
      BY <1>0, <2>2
    <3> HIDE DEF p, v, t
    <3>4. f * p \in Nat /\ t \in Nat \ {0} /\ f * One \in Nat
      BY <2>0, <3>2 DEF t
    <3>5. f * One = t * (f * p) + 0 /\ 0 \in 0..(t - 1)
      BY <3>2, <3>4
    <3>6. (f * One) \div t = f * p
      BY <3>4, <3>5, DivisionIs
    <3> QED BY <3>3, <3>6 DEF t
  <2> QED BY <1>0, <2>1, <2>2
<1> QED BY <1>6, <1>13, <1>14 DEF s

----------------------------------------------------------------------------
\* How a price text is taken apart.

Chars == DigitSet \cup {" ", "$", ".", "-", "x", "+"}
Texts == Seq(Chars)

\* What the characters of a text are, and are not.
LEMMA CharsAre ==
    /\ DigitSet \subseteq Chars /\ "." \in Chars /\ "$" \in Chars
    /\ {"-", "x", "+"} \subseteq Chars /\ DigitTexts \subseteq Texts
    /\ "$" # " " /\ "." # " " /\ "." # "$"
<1>1. /\ DigitSet \subseteq Chars /\ "." \in Chars /\ "$" \in Chars
      /\ {"-", "x", "+"} \subseteq Chars
  BY Zenon DEF Chars
<1>2. DigitTexts \subseteq Texts
  BY <1>1 DEF DigitTexts, Texts
<1> QED BY <1>1, <1>2, Zenon

\* What is dropped from a text.
LEMMA DropsNothing ==
    ASSUME NEW s \in Texts, NEW c, Len(s) > 0
    PROVE  /\ s[1] # c => DropLeading(s, c) = s
           /\ s[Len(s)] # c => DropTrailing(s, c) = s
<1> DEFINE n == Len(s)
<1>1. n \in Nat /\ 1 \in 1..n /\ n \in 1..n /\ Len(s) \in Nat
  BY DEF Texts
<1>2. SubSeq(s, 1, n) = s
  BY DEF Texts
<1>3. ASSUME s[1] # c PROVE DropLeading(s, c) = s
  <2>1. SelectInSeq(s, LAMBDA d : d # c) = 1
    <3>1. \A i \in 1..(1 - 1) : s[i] = c
      OBVIOUS
    <3> QED BY <1>1, <1>3, <3>1, FirstOther
  <2>2. 1 # 0
    OBVIOUS
  <2>3. DropLeading(s, c) = SubSeq(s, 1, Len(s))
    BY <2>1, <2>2, Zenon DEF DropLeading
  <2> QED BY <1>2, <2>3
<1>4. ASSUME s[n] # c PROVE DropTrailing(s, c) = s
  <2>1. SelectLastInSeq(s, LAMBDA d : d # c) = n
    <3>1. \A i \in (n + 1)..n : s[i] = c
      BY <1>1
    <3> QED BY <1>1, <1>4, <3>1, LastOther
  <2> QED BY <1>2, <2>1 DEF DropTrailing
<1> QED BY <1>3, <1>4

\* Nor more than one character, if the next one differs.
LEMMA DropsFirst ==
    ASSUME NEW s \in Texts, NEW c \in Chars, Len(s) > 0, s[1] # c
    PROVE  /\ <<c>> \o s \in Texts /\ (<<c>> \o s)[1] = c /\ Len(<<c>> \o s) > 0
           /\ (<<c>> \o s)[Len(<<c>> \o s)] = s[Len(s)]
           /\ DropLeading(<<c>> \o s, c) = s
<1> DEFINE n == Len(s)
           p == <<c>> \o s
<1>1. n \in Nat /\ n > 0
  BY DEF Texts
<1>2. p \in Texts /\ Len(p) = n + 1 /\ p[1] = c /\ p[2] = s[1] /\ p[n + 1] = s[n] /\ SubSeq(p, 2, n + 1) = s
  BY DEF Texts
<1> HIDE DEF p
<1>3. DropLeading(p, c) = s
  <2>1. SelectInSeq(p, LAMBDA d : d # c) = 2
    <3>1. /\ Len(p) \in Nat /\ 2 \in 1..Len(p) /\ p[2] # c
          /\ \A i \in 1..(2 - 1) : p[i] = c
      BY <1>1, <1>2
    <3> QED BY <3>1, FirstOther
  <2>2. 2 # 0
    OBVIOUS
  <2>3. DropLeading(p, c) = SubSeq(p, 2, Len(p))
    BY <2>1, <2>2, Zenon DEF DropLeading
  <2> QED BY <1>2, <2>3
<1>4. Len(p) > 0 /\ p[Len(p)] = s[Len(s)]
  BY <1>1, <1>2
<1> QED BY <1>2, <1>3, <1>4 DEF p

\* Two characters before a text, one after the other.
LEMMA TwoBefore ==
    ASSUME NEW s \in Texts, NEW b, NEW c
    PROVE  <<b, c>> \o s = <<b>> \o (<<c>> \o s)
<1> DEFINE D == Chars \cup {b, c}
<1>1. s \in Seq(D) /\ <<b>> \in Seq(D) /\ <<c>> \in Seq(D) /\ <<b, c>> \in Seq(D)
  <2>1. Chars \subseteq D /\ b \in D /\ c \in D
    OBVIOUS
  <2> HIDE DEF D
  <2> QED BY <2>1 DEF Texts
<1> HIDE DEF D
<1> DEFINE n == Len(s)
           x == <<b, c>> \o s
           y == <<b>> \o (<<c>> \o s)
<1>2. n \in Nat
  BY DEF Texts
<1>3. /\ x \in Seq(D) /\ Len(x) = n + 2 /\ x[1] = b /\ x[2] = c
      /\ \A i \in 3..(n + 2) : x[i] = s[i - 2]
  BY <1>1, <1>2
<1>4. /\ y \in Seq(D) /\ Len(y) = n + 2 /\ y[1] = b /\ y[2] = c
      /\ \A i \in 3..(n + 2) : y[i] = s[i - 2]
  <2> DEFINE z == <<c>> \o s
  <2>1. z \in Seq(D) /\ Len(z) = n + 1 /\ z[1] = c /\ \A i \in 2..(n + 1) : z[i] = s[i - 1]
    BY <1>1, <1>2
  <2> HIDE DEF z
  <2>2. y = <<b>> \o z
    BY DEF z
  <2> HIDE DEF y
  <2>3. y \in Seq(D) /\ Len(y) = n + 2 /\ y[1] = b /\ \A i \in 2..(n + 2) : y[i] = z[i - 1]
    BY <1>1, <1>2, <2>1, <2>2
  <2>4. y[2] = c
    BY <1>2, <2>1, <2>3
  <2>5. ASSUME NEW i \in 3..(n + 2) PROVE y[i] = s[i - 2]
    <3>1. i \in 2..(n + 2) /\ i - 1 \in 2..(n + 1) /\ i - 1 - 1 = i - 2
      BY <1>2
    <3> QED BY <2>1, <2>3, <3>1
  <2> QED BY <2>3, <2>4, <2>5
<1> HIDE DEF x, y
<1>5. \A i \in 1..(n + 2) : x[i] = y[i]
  <2> SUFFICES ASSUME NEW i \in 1..(n + 2) PROVE x[i] = y[i]
    OBVIOUS
  <2>1. i = 1 \/ i = 2 \/ i \in 3..(n + 2)
    BY <1>2
  <2> QED BY <1>3, <1>4, <2>1
<1>6. x = y
  BY <1>3, <1>4, <1>5
<1> QED BY <1>6 DEF x, y

\* Nothing is trimmed from a text that starts with neither a blank nor a
\* dollar sign and does not end in a blank; a blank and a dollar sign before
\* it are.
LEMMA TrimmedIs ==
    ASSUME NEW s \in Texts, Len(s) > 0, s[1] # " ", s[1] # "$", s[Len(s)] # " "
    PROVE  Trimmed(s) = s /\ Trimmed(<<" ", "$">> \o s) = s
<1> DEFINE q == <<"$">> \o s
           p == <<" ">> \o q
<1>1. DropLeading(s, " ") = s /\ DropTrailing(s, " ") = s /\ DropLeading(s, "$") = s
  BY DropsNothing, Zenon
<1>2. "$" \in Chars /\ " " \in Chars /\ "$" # " "
  BY Zenon DEF Chars
<1>3. q \in Texts /\ q[1] = "$" /\ Len(q) > 0 /\ q[Len(q)] = s[Len(s)] /\ DropLeading(q, "$") = s
  BY <1>2, DropsFirst, Zenon
<1> HIDE DEF q
<1>4. q[1] # " " /\ q[Len(q)] # " "
  BY <1>2, <1>3, Zenon
<1>5. DropTrailing(q, " ") = q
  BY <1>3, <1>4, DropsNothing, Zenon
<1>6. DropLeading(p, " ") = q
  BY <1>2, <1>3, <1>4, DropsFirst, Zenon
<1>7. <<" ", "$">> \o s = p
  BY TwoBefore, Zenon DEF q
<1> HIDE DEF p
<1>8. Trimmed(s) = s
  BY <1>1, Zenon DEF Trimmed
<1>9. Trimmed(p) = s
  BY <1>3, <1>5, <1>6, Zenon DEF Trimmed
<1> QED BY <1>7, <1>8, <1>9, Zenon

\* A number of digits parses to what it is worth,
LEMMA ParsedDigits ==
    ASSUME NEW s \in DigitTexts, Len(s) > 0
    PROVE  ParseU64(s) = IF ValueOf(s) <= MaxU64 THEN ValueOf(s) ELSE Invalid
<1>1. Len(s) \in Nat /\ 1 \in 1..Len(s) /\ \A i \in 1..Len(s) : s[i] \in DigitSet
  BY DEF DigitTexts
<1>2. s[1] # "+"
  BY <1>1, DigitsAre
<1>3. DOMAIN s = 1..Len(s) /\ s # <<>>
  BY DEF DigitTexts
<1>4. \A i \in DOMAIN s : IsDigit(s[i])
  BY <1>1, <1>3 DEF IsDigit, DigitSet
<1> QED BY <1>2, <1>3, <1>4, Zenon DEF ParseU64

\* and so it does with a plus sign before it;
LEMMA ParsedPlus ==
    ASSUME NEW s \in DigitTexts, Len(s) > 0,
           NEW t \in Texts, Len(t) = Len(s) + 1, t[1] = "+", \A i \in 1..Len(s) : t[i + 1] = s[i]
    PROVE  ParseU64(t) = ParseU64(s)
<1>1. Len(s) \in Nat /\ 1 \in 1..Len(s) /\ \A i \in 1..Len(s) : s[i] \in DigitSet
  BY DEF DigitTexts
<1>2. s[1] # "+" /\ Len(t) > 1
  <2>1. s[1] # "+"
    BY <1>1, DigitsAre
  <2> QED BY <1>1, <2>1
<1>3. Tail(t) = s
  <2>1. s \in Texts
    BY CharsAre
  <2>2. Tail(t) \in Texts /\ Len(Tail(t)) = Len(s) /\ \A i \in 1..Len(s) : Tail(t)[i] = t[i + 1]
    BY <1>1, <1>2 DEF Texts
  <2> QED BY <2>1, <2>2 DEF Texts
<1> QED BY <1>2, <1>3, Zenon DEF ParseU64

\* but nothing parses that has anything else among its digits.
LEMMA ParsedOther ==
    ASSUME NEW s \in Texts, NEW i \in 1..Len(s), s[i] \notin DigitSet, s[1] # "+"
    PROVE  ParseU64(s) = Invalid
<1>1. Len(s) \in Nat /\ DOMAIN s = 1..Len(s)
  BY DEF Texts
<1>2. ~ \A j \in DOMAIN s : IsDigit(s[j])
  BY <1>1 DEF IsDigit, DigitSet
<1> QED BY <1>2, Zenon DEF ParseU64

\* The two sides of the point.
LEMMA Sides ==
    ASSUME NEW w \in Texts, NEW d \in Texts, \A i \in 1..Len(w) : w[i] # "."
    PROVE  /\ w \o <<".">> \o d \in Texts /\ Point(w \o <<".">> \o d) = Len(w) + 1
           /\ Before(w \o <<".">> \o d) = w /\ Behind(w \o <<".">> \o d) = d
<1> DEFINE n == Len(w)
           s == w \o <<".">> \o d
<1>1. /\ n \in Nat /\ Len(d) \in Nat /\ Len(s) = n + 1 + Len(d) /\ s[n + 1] = "."
      /\ \A i \in 1..n : s[i] = w[i]
      /\ SubSeq(s, 1, n) = w /\ SubSeq(s, n + 2, Len(s)) = d
  BY DEF Texts
<1>2. s \in Texts
  <2>1. "." \in Chars
    BY CharsAre, Zenon
  <2>2. <<".">> \in Seq(Chars)
    BY <2>1
  <2> QED BY <2>2 DEF Texts
<1> HIDE DEF s
<1>3. Point(s) = n + 1
  <2>1. Len(s) \in Nat /\ n + 1 \in 1..Len(s) /\ \A i \in 1..(n + 1 - 1) : s[i] # "."
    BY <1>1
  <2> QED BY <1>1, <2>1, PointIs
<1>4. Before(s) = w
  BY <1>1, <1>3 DEF Before
<1>5. Behind(s) = d
  BY <1>1, <1>3 DEF Behind
<1> QED BY <1>2, <1>3, <1>4, <1>5 DEF s

\* Without a point there is nothing behind it.
LEMMA OneSide ==
    ASSUME NEW w \in Texts, \A i \in 1..Len(w) : w[i] # "."
    PROVE  Point(w) = 0 /\ Before(w) = w /\ Behind(w) = <<>>
<1>1. Len(w) \in Nat
  BY DEF Texts
<1>2. Point(w) = 0
  BY <1>1, NoPoint
<1> QED BY <1>2 DEF Before, Behind

\* A text with neither blanks nor a dollar sign around it.
Edge(c) == c # " " /\ c # "$"
Plain(s) == Len(s) > 0 /\ Edge(s[1]) /\ Edge(s[Len(s)])

\* Digits, signs and letters are neither blank nor dollar sign.
LEMMA Edges == \A c \in DigitSet \cup {"-", "x", "+"} : Edge(c)
<1>1. \A c \in DigitSet : Edge(c)
  BY DigitsAre, Zenon DEF Edge
<1>2. Edge("-") /\ Edge("x") /\ Edge("+")
  BY Zenon DEF Edge
<1> QED BY <1>1, <1>2

\* Such a text is trimmed already.
LEMMA PlainIs ==
    ASSUME NEW s \in Texts, Plain(s)
    PROVE  Trimmed(s) = s /\ Trimmed(<<" ", "$">> \o s) = s
  BY TrimmedIs, Zenon DEF Plain, Edge

\* The price a text says whose two sides parse as digits do,
LEMMA PriceSaid ==
    ASSUME NEW t, NEW s, Trimmed(t) = s, s # <<>>,
           NEW w \in DigitTexts, Len(w) > 0, Before(s) # <<>>, ParseU64(Before(s)) = ParseU64(w),
           NEW p \in DigitTexts, Len(p) > 0, ParseU64(Padded(Behind(s))) = ParseU64(p),
           ValueOf(p) <= MaxU64
    PROVE  PriceToAtomic(t) = Payable(ValueOf(w) * One + ValueOf(p))
<1> DEFINE worth == ValueOf(w) * One + ValueOf(p)
<1>1. ValueOf(w) \in Nat /\ ValueOf(p) \in Nat
  BY ValueCounts
<1>2. ParseU64(p) = ValueOf(p)
  BY ParsedDigits
<1>3. ParseU64(w) = IF ValueOf(w) <= MaxU64 THEN ValueOf(w) ELSE Invalid
  BY ParsedDigits
<1>4. Invalid \notin Nat
  BY MoneyAssumption
<1>5. CASE ValueOf(w) <= MaxU64
  <2>1. Invalid \notin {ParseU64(w), ParseU64(p)} /\ ParseU64(w) = ValueOf(w)
    BY <1>1, <1>2, <1>3, <1>4, <1>5
  <2> QED BY <1>2, <2>1, Zenon DEF PriceToAtomic, Payable
<1>6. CASE ~(ValueOf(w) <= MaxU64)
  <2>1. ParseU64(w) = Invalid
    BY <1>3, <1>6
  <2>2. PriceToAtomic(t) = Invalid
    BY <2>1, Zenon DEF PriceToAtomic
  <2>3. worth \notin 1..MaxPrice
    <3>1. One \in Nat \ {0}
      BY Powers, MoneyAssumption DEF IsPower, One
    <3>2. MaxPrice \in Nat /\ MaxU64 \in Nat /\ MaxPrice < MaxU64
      BY MoneyAssumption
    <3> DEFINE x == ValueOf(w)
               y == ValueOf(p)
    <3>3. x \in Nat /\ y \in Nat /\ x > MaxU64
      BY <1>1, <1>6, <3>2
    <3> HIDE DEF x, y
    <3>4. x * One >= x
      BY <3>1, <3>3
    <3>5. x * One + y > MaxPrice
      BY <3>1, <3>2, <3>3, <3>4
    <3>6. x * One + y \notin 1..MaxPrice
      BY <3>1, <3>2, <3>3, <3>5
    <3> QED BY <3>6 DEF x, y
  <2> QED BY <2>2, <2>3 DEF Payable
<1> QED BY <1>5, <1>6

\* and none when one before the point is not,
LEMMA WholeRefused ==
    ASSUME NEW t, Trimmed(t) = t, NEW w \in Texts, Before(t) = w,
           NEW i \in 1..Len(w), w[i] \notin DigitSet, w[1] # "+"
    PROVE  PriceToAtomic(t) = Invalid
<1>1. ParseU64(w) = Invalid
  BY ParsedOther
<1>2. w # <<>>
  OBVIOUS
<1> QED BY <1>1, <1>2, Zenon DEF PriceToAtomic

\* or one of those behind it that count.
LEMMA PartRefused ==
    ASSUME NEW t, Trimmed(t) = t, NEW d \in Texts, Behind(t) = d,
           NEW i \in 1..Len(d), i <= Decimals, d[i] \notin DigitSet, d[1] # "+"
    PROVE  PriceToAtomic(t) = Invalid
<1> DEFINE p == Padded(d)
<1>1. Decimals \in Nat /\ Len(d) \in Nat /\ {1, i} \subseteq 1..Decimals /\ 1 \in 1..Len(d)
  BY MoneyAssumption DEF Texts
<1>2. "0" \in Chars
  BY DigitOfDigit, CharsAre
<1>3. \A j \in 1..Decimals : p[j] \in Chars
  <2> SUFFICES ASSUME NEW j \in 1..Decimals PROVE p[j] \in Chars
    OBVIOUS
  <2>1. p[j] = IF j <= Len(d) THEN d[j] ELSE "0"
    BY DEF Padded
  <2> QED BY <1>1, <1>2, <2>1 DEF Texts
<1>4. p = [j \in 1..Decimals |-> p[j]]
  BY DEF Padded
<1>5. p[i] = d[i] /\ p[1] = d[1]
  BY <1>1 DEF Padded
<1> HIDE DEF p
<1>6. p \in Texts /\ Len(p) = Decimals
  BY <1>1, <1>3, <1>4 DEF Texts
<1>7. ParseU64(p) = Invalid
  BY <1>1, <1>5, <1>6, ParsedOther
<1> QED BY <1>7, Zenon DEF PriceToAtomic, p

\* A character put in.
LEMMA Inserted ==
    ASSUME NEW s \in Texts, NEW c \in Chars, NEW i \in 1..(Len(s) + 1)
    PROVE  /\ InsertAt(s, i, c) \in Texts /\ Len(InsertAt(s, i, c)) = Len(s) + 1
           /\ InsertAt(s, i, c)[i] = c
           /\ \A j \in 1..(i - 1) : InsertAt(s, i, c)[j] = s[j]
           /\ \A j \in (i + 1)..(Len(s) + 1) : InsertAt(s, i, c)[j] = s[j - 1]
<1> DEFINE n == Len(s)
           a == SubSeq(s, 1, i - 1)
           b == SubSeq(s, i, n)
           t == a \o <<c>> \o b
<1>1. n \in Nat
  BY DEF Texts
<1>2. /\ a \in Texts /\ Len(a) = i - 1 /\ \A j \in 1..(i - 1) : a[j] = s[j]
      /\ b \in Texts /\ Len(b) = n - i + 1 /\ \A j \in 1..(n - i + 1) : b[j] = s[i + j - 1]
  BY <1>1 DEF Texts
<1>3. InsertAt(s, i, c) = t
  BY Zenon DEF InsertAt
<1> HIDE DEF a, b
<1>4. t \in Texts /\ Len(t) = n + 1 /\ t[i] = c /\ \A j \in 1..(i - 1) : t[j] = a[j]
  BY <1>1, <1>2 DEF Texts
<1>5. ASSUME NEW j \in (i + 1)..(n + 1) PROVE t[j] = s[j - 1]
  <2>1. j - i \in 1..(n - i + 1) /\ i + (j - i) - 1 = j - 1
    BY <1>1
  <2>2. t[j] = b[j - i]
    BY <1>1, <1>2, <2>1 DEF Texts
  <2> QED BY <1>2, <2>1, <2>2
<1> QED BY <1>2, <1>3, <1>4, <1>5

\* Texts are the same that have the same characters.
LEMMA SameText ==
    ASSUME NEW s \in Texts, NEW t \in Texts, Len(s) = Len(t), \A i \in 1..Len(s) : s[i] = t[i]
    PROVE  s = t
  BY DEF Texts

\* Two texts with a point between them.
IsJoined(s, w, d, m, n) ==
    /\ m \in Nat /\ n \in Nat /\ s \in Texts /\ Len(s) = m + 1 + n
    /\ s[m + 1] = "."
    /\ \A j \in 1..m : s[j] = w[j]
    /\ \A j \in (m + 2)..(m + 1 + n) : s[j] = d[j - m - 1]

\* That is what putting a point between two texts makes.
LEMMA Joined ==
    ASSUME NEW w \in Texts, NEW d \in Texts
    PROVE  IsJoined(w \o <<".">> \o d, w, d, Len(w), Len(d))
<1>1. <<".">> \in Texts /\ Len(<<".">>) = 1
  <2>1. "." \in Chars
    BY CharsAre, Zenon
  <2> QED BY <2>1 DEF Texts
<1> QED BY <1>1 DEF Texts, IsJoined

\* Put into a text with a point, it is in one of the two sides.
LEMMA InsertedInSides ==
    ASSUME NEW w \in Texts, NEW d \in Texts, NEW c \in Chars
    PROVE  /\ \A i \in 1..(Len(w) + 1) :
                InsertAt(w \o <<".">> \o d, i, c) = InsertAt(w, i, c) \o <<".">> \o d
           /\ \A i \in 1..Len(d) :
                InsertAt(w \o <<".">> \o d, Len(w) + 1 + i, c) = w \o <<".">> \o InsertAt(d, i, c)
<1> DEFINE m == Len(w)
           n == Len(d)
           s == w \o <<".">> \o d
<1>1. /\ m \in Nat /\ n \in Nat /\ s \in Texts /\ Len(s) = m + 1 + n /\ s[m + 1] = "."
      /\ \A j \in 1..m : s[j] = w[j]
      /\ \A j \in (m + 2)..(m + 1 + n) : s[j] = d[j - m - 1]
  BY Joined DEF IsJoined
<1>2. ASSUME NEW i \in 1..(m + 1)
      PROVE  InsertAt(s, i, c) = InsertAt(w, i, c) \o <<".">> \o d
  <2> DEFINE x == InsertAt(s, i, c)
             u == InsertAt(w, i, c)
             y == u \o <<".">> \o d
  <2>0. i \in 1..(Len(s) + 1)
    BY <1>1
  <2> HIDE DEF s
  <2>1. /\ x \in Texts /\ Len(x) = m + n + 2 /\ x[i] = c
        /\ \A j \in 1..(i - 1) : x[j] = s[j]
        /\ \A j \in (i + 1)..(m + n + 2) : x[j] = s[j - 1]
    <3>1. Len(s) + 1 = m + n + 2
      BY <1>1
    <3>2. /\ x \in Texts /\ Len(x) = Len(s) + 1 /\ x[i] = c
          /\ \A j \in 1..(i - 1) : x[j] = s[j]
          /\ \A j \in (i + 1)..(Len(s) + 1) : x[j] = s[j - 1]
      BY <1>1, <2>0, Inserted
    <3> QED BY <3>1, <3>2
  <2>2. /\ u \in Texts /\ Len(u) = m + 1 /\ u[i] = c
        /\ \A j \in 1..(i - 1) : u[j] = w[j]
        /\ \A j \in (i + 1)..(m + 1) : u[j] = w[j - 1]
    BY Inserted
  <2> HIDE DEF x, u
  <2>3. /\ y \in Texts /\ Len(y) = m + n + 2 /\ y[m + 2] = "."
        /\ \A j \in 1..(m + 1) : y[j] = u[j]
        /\ \A j \in (m + 3)..(m + n + 2) : y[j] = d[j - m - 2]
    <3> DEFINE l == m + 1
    <3>1. l = Len(u) /\ n = Len(d)
      BY <2>2
    <3> HIDE DEF l
    <3>2. /\ y \in Texts /\ Len(y) = l + 1 + n /\ y[l + 1] = "."
          /\ \A j \in 1..l : y[j] = u[j]
          /\ \A j \in (l + 2)..(l + 1 + n) : y[j] = d[j - l - 1]
      <4>1. IsJoined(y, u, d, l, n)
        BY <2>2, <3>1, Joined
      <4> QED BY <4>1 DEF IsJoined
    <3> HIDE DEF y
    <3>3. l + 2 = m + 3 /\ l + 1 + n = m + n + 2 /\ \A j \in Int : j - l - 1 = j - m - 2
      BY <1>1 DEF l
    <3>4. l + 1 = m + 2 /\ l = m + 1
      BY <1>1 DEF l
    <3> QED BY <3>2, <3>3, <3>4
  <2> HIDE DEF y
  <2>4. ASSUME NEW j \in 1..(m + n + 2) PROVE x[j] = y[j]
    <3>1. CASE j < i
      <4>1. j \in 1..(i - 1) /\ j \in 1..m /\ j \in 1..(m + 1)
        BY <1>1, <3>1
      <4> QED BY <1>1, <2>1, <2>2, <2>3, <4>1
    <3>2. CASE j = i
      BY <1>1, <2>1, <2>2, <2>3, <3>2
    <3>3. CASE j > i /\ j <= m + 1
      <4>1. j \in (i + 1)..(m + 1) /\ j \in (i + 1)..(m + n + 2) /\ j - 1 \in 1..m /\ j \in 1..(m + 1)
        BY <1>1, <3>3
      <4> QED BY <1>1, <2>1, <2>2, <2>3, <4>1
    <3>4. CASE j = m + 2
      <4>1. j \in (i + 1)..(m + n + 2) /\ j - 1 = m + 1
        BY <1>1, <3>4
      <4> QED BY <1>1, <2>1, <2>3, <3>4, <4>1
    <3>5. CASE j > m + 2
      <4>1. j \in (i + 1)..(m + n + 2) /\ j \in (m + 3)..(m + n + 2)
            /\ j - 1 \in (m + 2)..(m + 1 + n) /\ (j - 1) - m - 1 = j - m - 2
        BY <1>1, <3>5
      <4> QED BY <1>1, <2>1, <2>3, <4>1
    <3> QED BY <1>1, <3>1, <3>2, <3>3, <3>4, <3>5
  <2>5. x = y
    BY <2>1, <2>3, <2>4, SameText
  <2> QED BY <2>5 DEF x, y, u
<1>3. ASSUME NEW i \in 1..n
      PROVE  InsertAt(s, m + 1 + i, c) = w \o <<".">> \o InsertAt(d, i, c)
  <2> DEFINE k == m + 1 + i
             x == InsertAt(s, k, c)
             u == InsertAt(d, i, c)
             y == w \o <<".">> \o u
  <2>0. k \in 1..(Len(s) + 1) /\ i \in 1..(n + 1) /\ k = m + 1 + i
    BY <1>1
  <2> HIDE DEF s, k
  <2>1. /\ x \in Texts /\ Len(x) = m + n + 2 /\ x[k] = c
        /\ \A j \in 1..(k - 1) : x[j] = s[j]
        /\ \A j \in (k + 1)..(m + n + 2) : x[j] = s[j - 1]
    <3>1. Len(s) + 1 = m + n + 2
      BY <1>1
    <3>2. /\ x \in Texts /\ Len(x) = Len(s) + 1 /\ x[k] = c
          /\ \A j \in 1..(k - 1) : x[j] = s[j]
          /\ \A j \in (k + 1)..(Len(s) + 1) : x[j] = s[j - 1]
      BY <1>1, <2>0, Inserted
    <3> QED BY <3>1, <3>2
  <2>2. /\ u \in Texts /\ Len(u) = n + 1 /\ u[i] = c
        /\ \A j \in 1..(i - 1) : u[j] = d[j]
        /\ \A j \in (i + 1)..(n + 1) : u[j] = d[j - 1]
    BY <2>0, Inserted
  <2> HIDE DEF x, u
  <2>3. /\ y \in Texts /\ Len(y) = m + n + 2 /\ y[m + 1] = "."
        /\ \A j \in 1..m : y[j] = w[j]
        /\ \A j \in (m + 2)..(m + n + 2) : y[j] = u[j - m - 1]
    <3> DEFINE l == n + 1
    <3>1. m = Len(w) /\ l = Len(u)
      BY <2>2
    <3> HIDE DEF l
    <3>2. /\ y \in Texts /\ Len(y) = m + 1 + l /\ y[m + 1] = "."
          /\ \A j \in 1..m : y[j] = w[j]
          /\ \A j \in (m + 2)..(m + 1 + l) : y[j] = u[j - m - 1]
      <4>1. IsJoined(y, w, u, m, l)
        BY <2>2, <3>1, Joined
      <4> QED BY <4>1 DEF IsJoined
    <3> HIDE DEF y
    <3>3. m + 1 + l = m + n + 2
      BY <1>1 DEF l
    <3> QED BY <3>2, <3>3
  <2> HIDE DEF y
  <2>4. ASSUME NEW j \in 1..(m + n + 2) PROVE x[j] = y[j]
    <3>1. CASE j <= m + 1
      <4>1. j \in 1..(k - 1) /\ (j \in 1..m \/ j = m + 1)
        BY <1>1, <2>0, <3>1
      <4> QED BY <1>1, <2>1, <2>3, <4>1
    <3>2. CASE j > m + 1 /\ j < k
      <4>1. /\ j \in 1..(k - 1) /\ j \in (m + 2)..(m + 1 + n) /\ j \in (m + 2)..(m + n + 2)
            /\ j - m - 1 \in 1..(i - 1)
        BY <1>1, <2>0, <3>2
      <4> QED BY <1>1, <2>1, <2>2, <2>3, <4>1
    <3>3. CASE j = k
      <4>1. j \in (m + 2)..(m + n + 2) /\ j - m - 1 = i
        BY <1>1, <2>0, <3>3
      <4> QED BY <2>1, <2>2, <2>3, <3>3, <4>1
    <3>4. CASE j > k
      <4>1. /\ j \in (k + 1)..(m + n + 2) /\ j \in (m + 2)..(m + n + 2)
            /\ j - 1 \in (m + 2)..(m + 1 + n) /\ j - m - 1 \in (i + 1)..(n + 1)
            /\ (j - 1) - m - 1 = (j - m - 1) - 1
        BY <1>1, <2>0, <3>4
      <4> QED BY <1>1, <2>1, <2>2, <2>3, <4>1
    <3> QED BY <1>1, <2>0, <3>1, <3>2, <3>3, <3>4
  <2>5. x = y
    BY <2>1, <2>3, <2>4, SameText
  <2> QED BY <2>5 DEF x, y, u, k
<1> QED BY <1>2, <1>3

\* How numbers are read, and what a sign or a letter among their digits makes of
\* them: none of these is a digit, the point, or trimmed.
Signs == {"-", "x", "+"}

LEMMA Strange == \A c \in Signs : c \in Chars /\ c \notin DigitSet /\ c # "." /\ Edge(c)
<1>1. \A c \in Signs : c \notin DigitSet
  BY DigitsAre, Zenon DEF Signs
<1>2. \A c \in Signs : c \in Chars /\ Edge(c)
  BY CharsAre, Edges DEF Signs
<1>3. \A c \in Signs : c # "."
  BY Zenon DEF Signs
<1> QED BY <1>1, <1>2, <1>3

\* A text of digits has no point and nothing to trim.
LEMMA DigitsOnly ==
    ASSUME NEW w \in DigitTexts
    PROVE  w \in Texts /\ Len(w) \in Nat
           /\ \A i \in 1..Len(w) : w[i] \in DigitSet /\ w[i] # "." /\ Edge(w[i]) /\ w[i] # "+"
<1>1. \A i \in 1..Len(w) : w[i] \in DigitSet
  BY DEF DigitTexts
<1>2. "." \notin DigitSet /\ "+" \notin DigitSet
  BY DigitsAre, Zenon
<1>3. w \in Texts /\ Len(w) \in Nat
  BY CharsAre DEF DigitTexts
<1> QED BY <1>1, <1>2, <1>3, Edges

\* Nor has one with a sign among its digits.
LEMMA SignInDigits ==
    ASSUME NEW w \in DigitTexts, NEW i \in 1..(Len(w) + 1), NEW c \in Signs
    PROVE  LET u == InsertAt(w, i, c)
           IN /\ u \in Texts /\ Len(u) = Len(w) + 1 /\ Len(w) \in Nat /\ u[i] = c
              /\ \A j \in 1..Len(u) : u[j] # "." /\ Edge(u[j])
              /\ i # 1 => u[1] = w[1] /\ u[1] # "+"
              /\ \A j \in (i + 1)..(Len(w) + 1) : u[j] = w[j - 1]
<1> DEFINE u == InsertAt(w, i, c)
           n == Len(w)
<1>1. c \in Chars /\ c # "." /\ Edge(c)
  BY Strange
<1>2. w \in Texts /\ n \in Nat /\ \A j \in 1..n : w[j] # "." /\ Edge(w[j]) /\ w[j] # "+"
  BY DigitsOnly
<1>3. /\ u \in Texts /\ Len(u) = n + 1 /\ u[i] = c
      /\ \A j \in 1..(i - 1) : u[j] = w[j]
      /\ \A j \in (i + 1)..(n + 1) : u[j] = w[j - 1]
  BY <1>1, <1>2, Inserted
<1> HIDE DEF u, n
<1>4. ASSUME NEW j \in 1..(n + 1) PROVE u[j] # "." /\ Edge(u[j])
  <2>1. CASE j < i
    <3>1. j \in 1..(i - 1) /\ j \in 1..n
      BY <1>2, <2>1 DEF n
    <3> QED BY <1>2, <1>3, <3>1
  <2>2. CASE j = i
    BY <1>1, <1>3, <2>2
  <2>3. CASE j > i
    <3>1. j \in (i + 1)..(n + 1) /\ j - 1 \in 1..n
      BY <1>2, <2>3 DEF n
    <3> QED BY <1>2, <1>3, <3>1
  <2> QED BY <1>2, <2>1, <2>2, <2>3 DEF n
<1>5. ASSUME i # 1 PROVE u[1] = w[1] /\ u[1] # "+"
  <2>1. 1 \in 1..(i - 1) /\ 1 \in 1..n
    BY <1>2, <1>5 DEF n
  <2> QED BY <1>2, <1>3, <2>1
<1> QED BY <1>2, <1>3, <1>4, <1>5 DEF u, n

\* Where u64's parser refuses these characters: anywhere, a plus sign excepted
\* that comes first.
Strays(i) == IF i = 1 THEN Signs \ {"+"} ELSE Signs

\* A number without a point is read as it stands.
LEMMA WithoutPoint ==
    ASSUME NEW w \in DigitTexts, Len(w) > 0
    PROVE  /\ w \in Texts /\ Plain(w) /\ Before(w) = w /\ Behind(w) = <<>>
           /\ \A i \in 1..Len(w) : \A c \in Strays(i) : PriceToAtomic(InsertAt(w, i, c)) = Invalid
           /\ LET t == InsertAt(w, 1, "+")
              IN Trimmed(t) = t /\ t # <<>> /\ Before(t) = t /\ Behind(t) = <<>>
<1>1. w \in Texts /\ Len(w) \in Nat /\ \A i \in 1..Len(w) : w[i] # "." /\ Edge(w[i])
  BY DigitsOnly
<1>2. Plain(w)
  BY <1>1 DEF Plain
<1>3. Before(w) = w /\ Behind(w) = <<>>
  BY <1>1, OneSide
<1>4. ASSUME NEW i \in 1..Len(w), NEW c \in Signs
      PROVE  LET t == InsertAt(w, i, c)
             IN /\ t \in Texts /\ t # <<>> /\ Trimmed(t) = t /\ Before(t) = t /\ Behind(t) = <<>>
                /\ i \in 1..Len(t) /\ t[i] = c /\ (i # 1 => t[1] # "+")
  <2> DEFINE t == InsertAt(w, i, c)
  <2>1. i \in 1..(Len(w) + 1)
    BY <1>1
  <2>2. /\ t \in Texts /\ Len(t) = Len(w) + 1 /\ t[i] = c /\ (i # 1 => t[1] # "+")
        /\ \A j \in 1..Len(t) : t[j] # "." /\ Edge(t[j])
    BY <2>1, SignInDigits
  <2> HIDE DEF t
  <2>3. Plain(t) /\ Before(t) = t /\ Behind(t) = <<>> /\ i \in 1..Len(t) /\ t # <<>>
    BY <1>1, <2>2, OneSide DEF Plain
  <2>4. Trimmed(t) = t
    BY <2>2, <2>3, PlainIs
  <2> QED BY <2>2, <2>3, <2>4 DEF t
<1>5. ASSUME NEW i \in 1..Len(w), NEW c \in Strays(i)
      PROVE  PriceToAtomic(InsertAt(w, i, c)) = Invalid
  <2> DEFINE t == InsertAt(w, i, c)
  <2>1. c \in Signs /\ (i = 1 => c # "+")
    BY Zenon DEF Strays
  <2>2. /\ t \in Texts /\ Trimmed(t) = t /\ Before(t) = t
        /\ i \in 1..Len(t) /\ t[i] = c /\ (i # 1 => t[1] # "+")
    BY <1>4, <2>1
  <2> HIDE DEF t
  <2>3. t[i] \notin DigitSet /\ t[1] # "+"
    BY <2>1, <2>2, Strange
  <2>4. PriceToAtomic(t) = Invalid
    BY <2>2, <2>3, WholeRefused
  <2> QED BY <2>4 DEF t
<1>6. "+" \in Signs /\ 1 \in 1..Len(w)
  BY <1>1 DEF Signs
<1> QED BY <1>1, <1>2, <1>3, <1>4, <1>5, <1>6

\* With a point between two texts it is plain if its ends are.
LEMMA PlainSides ==
    ASSUME NEW w \in Texts, NEW d \in Texts, Len(w) > 0, Len(d) > 0,
           Edge(w[1]), Edge(d[Len(d)])
    PROVE  Plain(w \o <<".">> \o d)
<1> DEFINE s == w \o <<".">> \o d
           m == Len(w)
           n == Len(d)
<1>1. IsJoined(s, w, d, m, n)
  BY Joined
<1> HIDE DEF s
<1>2. m \in Nat /\ n \in Nat /\ m > 0 /\ n > 0 /\ Len(s) = m + 1 + n
  BY <1>1 DEF IsJoined
<1>3. 1 \in 1..m /\ m + 1 + n \in (m + 2)..(m + 1 + n) /\ m + 1 + n - m - 1 = n
  BY <1>2
<1>4. s[1] = w[1] /\ s[m + 1 + n] = d[n]
  <2>1. (\A j \in 1..m : s[j] = w[j]) /\ \A j \in (m + 2)..(m + 1 + n) : s[j] = d[j - m - 1]
    BY <1>1 DEF IsJoined
  <2> HIDE DEF m, n
  <2> DEFINE e == m + 1 + n
  <2>2. e \in (m + 2)..(m + 1 + n) /\ e - m - 1 = n
    BY <1>2
  <2> HIDE DEF e
  <2>3. s[e] = d[e - m - 1]
    BY <2>1, <2>2
  <2> QED BY <1>3, <2>1, <2>2, <2>3 DEF e
<1>5. Plain(s)
  BY <1>2, <1>4 DEF Plain
<1> QED BY <1>5 DEF s

\* A number with a point is read in its two sides.
ReadInSides(s, w, d) ==
    s \in Texts /\ Plain(s) /\ Point(s) = Len(w) + 1 /\ Before(s) = w /\ Behind(s) = d

\* Any two texts make one, if there is no point before the point and nothing to
\* trim at the ends.
LEMMA SidesRead ==
    ASSUME NEW w \in Texts, NEW d \in Texts, Len(w) > 0, Len(d) > 0,
           \A i \in 1..Len(w) : w[i] # ".", Edge(w[1]), Edge(d[Len(d)])
    PROVE  LET s == w \o <<".">> \o d IN ReadInSides(s, w, d) /\ Trimmed(s) = s /\ s # <<>>
<1> DEFINE s == w \o <<".">> \o d
<1>1. s \in Texts /\ Point(s) = Len(w) + 1 /\ Before(s) = w /\ Behind(s) = d
  BY Sides
<1>2. Plain(s)
  BY PlainSides
<1> HIDE DEF s
<1>3. Trimmed(s) = s
  BY <1>1, <1>2, PlainIs
<1>4. s # <<>>
  BY <1>2 DEF Plain
<1> QED BY <1>1, <1>2, <1>3, <1>4 DEF ReadInSides, s

\* So do digits,
LEMMA WithPoint ==
    ASSUME NEW w \in DigitTexts, NEW d \in DigitTexts, Len(w) > 0, Len(d) > 0
    PROVE  ReadInSides(w \o <<".">> \o d, w, d)
<1>1. w \in Texts /\ Len(w) \in Nat /\ \A i \in 1..Len(w) : w[i] # "." /\ Edge(w[i])
  BY DigitsOnly
<1>2. d \in Texts /\ Len(d) \in Nat /\ \A i \in 1..Len(d) : Edge(d[i])
  BY DigitsOnly
<1>3. Edge(w[1]) /\ Edge(d[Len(d)])
  BY <1>1, <1>2
<1> QED BY <1>1, <1>2, <1>3, SidesRead

\* and digits with a sign among those before the point
LEMMA SignBeforePoint ==
    ASSUME NEW w \in DigitTexts, NEW d \in DigitTexts, Len(w) > 0, Len(d) > 0,
           NEW i \in 1..(Len(w) + 1), NEW c \in Signs
    PROVE  LET t == InsertAt(w \o <<".">> \o d, i, c)
           IN ReadInSides(t, InsertAt(w, i, c), d) /\ Trimmed(t) = t /\ t # <<>>
<1> DEFINE u == InsertAt(w, i, c)
<1>1. c \in Chars
  BY Strange
<1>2. d \in Texts /\ Len(d) \in Nat /\ \A j \in 1..Len(d) : Edge(d[j])
  BY DigitsOnly
<1>3. w \in Texts /\ Len(w) \in Nat
  BY DigitsOnly
<1>4. InsertAt(w \o <<".">> \o d, i, c) = u \o <<".">> \o d
  BY <1>1, <1>2, <1>3, InsertedInSides
<1>5. u \in Texts /\ Len(u) = Len(w) + 1 /\ \A j \in 1..Len(u) : u[j] # "." /\ Edge(u[j])
  BY SignInDigits
<1> HIDE DEF u
<1>6. Len(u) > 0 /\ Edge(u[1]) /\ Edge(d[Len(d)])
  BY <1>2, <1>3, <1>5
<1> QED BY <1>2, <1>4, <1>5, <1>6, SidesRead DEF u

\* or behind it.
LEMMA SignBehindPoint ==
    ASSUME NEW w \in DigitTexts, NEW d \in DigitTexts, Len(w) > 0, Len(d) > 0,
           NEW i \in 1..Len(d), NEW c \in Signs
    PROVE  LET t == InsertAt(w \o <<".">> \o d, Len(w) + 1 + i, c)
           IN ReadInSides(t, w, InsertAt(d, i, c)) /\ Trimmed(t) = t /\ t # <<>>
<1> DEFINE u == InsertAt(d, i, c)
<1>1. c \in Chars
  BY Strange
<1>2. d \in Texts /\ Len(d) \in Nat
  BY DigitsOnly
<1>3. w \in Texts /\ Len(w) \in Nat /\ \A j \in 1..Len(w) : w[j] # "." /\ Edge(w[j])
  BY DigitsOnly
<1>4. InsertAt(w \o <<".">> \o d, Len(w) + 1 + i, c) = w \o <<".">> \o u
  BY <1>1, <1>2, <1>3, InsertedInSides
<1>5. u \in Texts /\ Len(u) = Len(d) + 1 /\ \A j \in 1..Len(u) : Edge(u[j])
  <2>1. i \in 1..(Len(d) + 1)
    BY <1>2
  <2> QED BY <2>1, SignInDigits
<1> HIDE DEF u
<1>6. Len(u) > 0 /\ Edge(w[1]) /\ Edge(u[Len(u)])
  BY <1>2, <1>3, <1>5
<1> QED BY <1>3, <1>4, <1>5, <1>6, SidesRead DEF u

\* Such a sign makes it unreadable, on either side, unless the parser takes it.
LEMMA StrayRefused ==
    ASSUME NEW w \in DigitTexts, NEW d \in DigitTexts, Len(w) > 0, Len(d) > 0
    PROVE  LET s == w \o <<".">> \o d
           IN /\ \A i \in 1..(Len(w) + 1) : \A c \in Strays(i) : PriceToAtomic(InsertAt(s, i, c)) = Invalid
              /\ \A i \in 1..Len(d) : i <= Decimals =>
                    \A c \in Strays(i) : PriceToAtomic(InsertAt(s, Len(w) + 1 + i, c)) = Invalid
<1> DEFINE s == w \o <<".">> \o d
<1>1. Len(w) \in Nat /\ Len(d) \in Nat
  BY DigitsOnly
<1>2. ASSUME NEW i \in 1..(Len(w) + 1), NEW c \in Strays(i)
      PROVE  PriceToAtomic(InsertAt(s, i, c)) = Invalid
  <2> DEFINE u == InsertAt(w, i, c)
             t == InsertAt(s, i, c)
  <2>1. c \in Signs /\ (i = 1 => c # "+")
    BY Zenon DEF Strays
  <2>2. Before(t) = u /\ Trimmed(t) = t
    BY <2>1, SignBeforePoint DEF ReadInSides
  <2>3. u \in Texts /\ Len(u) = Len(w) + 1 /\ u[i] = c /\ (i # 1 => u[1] # "+")
    BY <2>1, SignInDigits
  <2> HIDE DEF t, u
  <2>4. i \in 1..Len(u) /\ u[i] \notin DigitSet /\ u[1] # "+"
    BY <2>1, <2>3, Strange
  <2>5. PriceToAtomic(t) = Invalid
    BY <2>2, <2>3, <2>4, WholeRefused
  <2> QED BY <2>5 DEF t
<1>3. ASSUME NEW i \in 1..Len(d), i <= Decimals, NEW c \in Strays(i)
      PROVE  PriceToAtomic(InsertAt(s, Len(w) + 1 + i, c)) = Invalid
  <2> DEFINE u == InsertAt(d, i, c)
             t == InsertAt(s, Len(w) + 1 + i, c)
  <2>1. c \in Signs /\ (i = 1 => c # "+") /\ i \in 1..(Len(d) + 1)
    <3>1. c \in Signs /\ (i = 1 => c # "+")
      BY Zenon DEF Strays
    <3> QED BY <1>1, <3>1
  <2>2. Behind(t) = u /\ Trimmed(t) = t
    BY <2>1, SignBehindPoint DEF ReadInSides
  <2>3. u \in Texts /\ Len(u) = Len(d) + 1 /\ u[i] = c /\ (i # 1 => u[1] # "+")
    BY <2>1, SignInDigits
  <2> HIDE DEF t, u
  <2>4. i \in 1..Len(u) /\ u[i] \notin DigitSet /\ u[1] # "+"
    BY <1>1, <2>1, <2>3, Strange
  <2>5. PriceToAtomic(t) = Invalid
    BY <1>3, <2>2, <2>3, <2>4, PartRefused
  <2> QED BY <2>5 DEF t
<1> QED BY <1>2, <1>3

\* A plus sign before the decimals counts as a zero before them: neither leaves
\* room for the last of them, if there are too many.
LEMMA PlusIsZero ==
    ASSUME NEW k \in Nat \ {0}, NEW f \in Nat, f < TenTo[k]
    PROVE  ParseU64(Padded(InsertAt(LastDigits(f, k), 1, "+"))) = ParseU64(Padded(LastDigits(f, k + 1)))
<1> DEFINE d == LastDigits(f, k)
           z == LastDigits(f, k + 1)
           u == InsertAt(d, 1, "+")
           pu == Padded(u)
           pz == Padded(z)
           D == Decimals
           e == [i \in 1..(D - 1) |-> pz[i + 1]]
<1>1. D \in Nat /\ D > 1 /\ k + 1 \in Nat /\ k > 0
  BY MoneyAssumption
<1>2. d \in DigitTexts /\ Len(d) = k /\ z \in DigitTexts /\ Len(z) = k + 1
  BY <1>1, ValueOfLastDigits
<1>3. \A i \in 1..k : z[i + 1] = d[i]
  <2> SUFFICES ASSUME NEW i \in 1..k PROVE z[i + 1] = d[i]
    OBVIOUS
  <2>1. i + 1 \in 1..(k + 1) /\ (k + 1) - (i + 1) = k - i
    BY <1>1
  <2>2. d[i] = Digits[((f \div TenTo[k - i]) % 10) + 1]
    BY DEF LastDigits
  <2>3. z[i + 1] = Digits[((f \div TenTo[(k + 1) - (i + 1)]) % 10) + 1]
    BY <2>1 DEF LastDigits
  <2> QED BY <2>1, <2>2, <2>3
<1>4. z[1] = "0"
  <2>1. 1 \in 1..(k + 1) /\ (k + 1) - 1 = k
    BY <1>1
  <2>2. z[1] = Digits[((f \div TenTo[(k + 1) - 1]) % 10) + 1]
    BY <2>1 DEF LastDigits
  <2>3. f \div TenTo[k] = 0
    <3>1. TenTo[k] \in Nat \ {0}
      BY Powers DEF IsPower
    <3> DEFINE t == TenTo[k]
    <3> HIDE DEF t
    <3>2. f = t * 0 + f /\ f \in 0..(t - 1) /\ t \in Nat \ {0}
      BY <3>1 DEF t
    <3>3. f \div t = 0
      BY <3>2
    <3> QED BY <3>3 DEF t
  <2>4. Digits[1] = "0"
    BY DEF Digits
  <2>5. (0 % 10) + 1 = 1
    OBVIOUS
  <2> QED BY <2>1, <2>2, <2>3, <2>4, <2>5
<1>5. u \in Texts /\ Len(u) = k + 1 /\ u[1] = "+" /\ \A j \in 2..(k + 1) : u[j] = d[j - 1]
  <2> HIDE DEF d, z
  <2>1. 1 \in 1..(Len(d) + 1) /\ "+" \in Signs
    BY <1>1, <1>2 DEF Signs
  <2>2. /\ u \in Texts /\ Len(u) = Len(d) + 1 /\ u[1] = "+"
        /\ \A j \in (1 + 1)..(Len(d) + 1) : u[j] = d[j - 1]
    BY <1>2, <2>1, SignInDigits
  <2> HIDE DEF u
  <2> QED BY <1>2, <2>2
<1>6. \A j \in 2..(k + 1) : u[j] = z[j]
  <2> SUFFICES ASSUME NEW j \in 2..(k + 1) PROVE u[j] = z[j]
    OBVIOUS
  <2>1. j - 1 \in 1..k /\ (j - 1) + 1 = j
    BY <1>1
  <2> QED BY <1>3, <1>5, <2>1
<1> HIDE DEF d, z, u, D
<1>7. /\ pu = [i \in 1..D |-> IF i <= k + 1 THEN u[i] ELSE "0"]
      /\ pz = [i \in 1..D |-> IF i <= k + 1 THEN z[i] ELSE "0"]
  BY <1>2, <1>5 DEF Padded, D
<1>8. "0" \in DigitSet /\ "+" \in Chars /\ DigitSet \subseteq Chars
  BY DigitOfDigit, CharsAre
<1>9. pz \in DigitTexts /\ Len(pz) = D /\ pz[1] = "0"
  <2>1. \A i \in 1..D : (IF i <= k + 1 THEN z[i] ELSE "0") \in DigitSet
    BY <1>1, <1>2, <1>8 DEF DigitTexts
  <2>2. 1 \in 1..D /\ 1 <= k + 1
    BY <1>1
  <2> QED BY <1>1, <1>4, <1>7, <2>1, <2>2 DEF DigitTexts
<1>10. pu \in Texts /\ Len(pu) = D /\ pu[1] = "+"
  <2>1. \A i \in 1..D : (IF i <= k + 1 THEN u[i] ELSE "0") \in Chars
    BY <1>1, <1>5, <1>8 DEF Texts
  <2>2. 1 \in 1..D /\ 1 <= k + 1
    BY <1>1
  <2> QED BY <1>1, <1>5, <1>7, <2>1, <2>2 DEF Texts
<1>11. \A i \in 1..(D - 1) : pu[i + 1] = pz[i + 1]
  <2> SUFFICES ASSUME NEW i \in 1..(D - 1) PROVE pu[i + 1] = pz[i + 1]
    OBVIOUS
  <2>1. i + 1 \in 1..D /\ i + 1 \in Nat /\ i + 1 >= 2
    BY <1>1
  <2>2. i + 1 <= k + 1 => u[i + 1] = z[i + 1]
    BY <1>1, <1>6, <2>1
  <2> QED BY <1>7, <2>1, <2>2
<1> HIDE DEF pu, pz
<1>12. e \in DigitTexts /\ Len(e) = D - 1 /\ \A i \in 1..(D - 1) : e[i] = pz[i + 1]
  <2>1. \A i \in 1..(D - 1) : pz[i + 1] \in DigitSet
    BY <1>1, <1>9 DEF DigitTexts
  <2> QED BY <1>1, <2>1 DEF DigitTexts
<1> HIDE DEF e
<1>13. ParseU64(pu) = ParseU64(e)
  <2>1. Len(e) > 0 /\ Len(pu) = Len(e) + 1 /\ \A i \in 1..Len(e) : pu[i + 1] = e[i]
    BY <1>1, <1>10, <1>11, <1>12
  <2> QED BY <1>10, <1>12, <2>1, ParsedPlus
<1>14. ValueOf(pz) = ValueOf(e)
  <2> DEFINE o == <<"0">>
  <2>1. o \in DigitTexts /\ Len(o) = 1 /\ \A i \in 1..Len(o) : o[i] = "0"
    BY <1>8 DEF DigitTexts
  <2>2. pz = o \o e
    BY <1>1, <1>9, <1>12, <2>1 DEF DigitTexts
  <2> HIDE DEF o
  <2>3. ValueOf(o) = 0
    BY <2>1, Zeros
  <2>4. ValueOf(o \o e) = ValueOf(o) * TenTo[Len(e)] + ValueOf(e)
    BY <1>12, <2>1, ValueOfBoth
  <2>5. TenTo[Len(e)] \in Nat /\ ValueOf(e) \in Nat
    <3>1. Len(e) \in Nat
      BY <1>1, <1>12
    <3> QED BY <1>12, <3>1, Powers, ValueCounts DEF IsPower
  <2> QED BY <2>2, <2>3, <2>4, <2>5
<1>15. ParseU64(pz) = ParseU64(e)
  <2>1. Len(pz) > 0 /\ Len(e) > 0
    BY <1>1, <1>9, <1>12
  <2> QED BY <1>9, <1>12, <1>14, <2>1, ParsedDigits
<1> QED BY <1>13, <1>15 DEF pu, pz, u, d, z

\* The price text of n dollars and f of TenTo[k] parts is of one of these forms.
LEMMA NumeralIs ==
    ASSUME NEW n, NEW k \in Nat, NEW f, WholeText(n) \in DigitTexts, LastDigits(f, k) \in DigitTexts
    PROVE  /\ k = 0 => Numeral(n, k, f) = WholeText(n)
           /\ k # 0 => Numeral(n, k, f) = WholeText(n) \o <<".">> \o LastDigits(f, k)
<1> DEFINE w == WholeText(n)
           d == LastDigits(f, k)
<1>1. Numeral(n, k, f) = w \o (IF k = 0 THEN <<>> ELSE <<".">> \o d)
  BY DEF Numeral, WholeText
<1>2. w \in Texts /\ d \in Texts
  BY DigitsOnly
<1> HIDE DEF w, d
<1>3. CASE k = 0
  <2>1. w \o <<>> = w
    BY <1>2 DEF Texts
  <2> QED BY <1>1, <1>3, <2>1 DEF w
<1>4. CASE k # 0
  <2>1. "." \in Chars
    BY CharsAre, Zenon
  <2>2. <<".">> \in Texts
    BY <2>1 DEF Texts
  <2>3. w \o (<<".">> \o d) = w \o <<".">> \o d
    BY <1>2, <2>2 DEF Texts
  <2> QED BY <1>1, <1>4, <2>3 DEF w, d
<1> QED BY <1>3, <1>4

\* The decimals of a price text are worth less than a dollar, which fits in a u64.
LEMMA PartIs ==
    ASSUME NEW k \in Nat, NEW f \in Nat, f < TenTo[k]
    PROVE  LET p == Padded(LastDigits(f, k))
           IN /\ p \in DigitTexts /\ Len(p) > 0
              /\ ValueOf(p) = (f * One) \div TenTo[k] /\ ValueOf(p) <= MaxU64
<1> DEFINE p == Padded(LastDigits(f, k))
           t == TenTo[k]
           fo == f * One
           q == fo \div t
<1>1. p \in DigitTexts /\ ValueOf(p) = q
  BY ValueOfPadded
<1>2. Len(p) = Decimals /\ Decimals > 0
  BY MoneyAssumption DEF Padded
<1>3. t \in Nat \ {0} /\ One \in Nat \ {0}
  BY Powers, MoneyAssumption DEF IsPower, One
<1>4. fo \in Nat /\ fo < t * One
  BY <1>3
<1> HIDE DEF t, fo
<1>5. q \in Nat /\ fo % t \in 0..(t - 1) /\ fo = t * q + (fo % t)
  BY <1>3, <1>4, Division
<1> HIDE DEF q
<1>6. q < One
  BY <1>3, <1>4, <1>5
<1>7. q <= MaxU64
  BY <1>3, <1>5, <1>6, MoneyAssumption
<1> HIDE DEF p
<1> QED BY <1>1, <1>2, <1>7 DEF q, t, fo, p

\* A text whose two sides parse as these numbers do is a price of so much.
LEMMA PriceWorth ==
    ASSUME NEW n \in Nat, n < TenTo[WholeDigits], NEW k \in Nat, NEW f \in Nat, f < TenTo[k],
           NEW t, NEW s, Trimmed(t) = s, s # <<>>,
           Before(s) # <<>>, ParseU64(Before(s)) = ParseU64(WholeText(n)),
           ParseU64(Padded(Behind(s))) = ParseU64(Padded(LastDigits(f, k)))
    PROVE  PriceToAtomic(t) = Payable(Worth(n, k, f))
<1> DEFINE w == WholeText(n)
           p == Padded(LastDigits(f, k))
<1>1. w \in DigitTexts /\ Len(w) > 0 /\ ValueOf(w) = n
  BY WholeIs
<1>2. p \in DigitTexts /\ Len(p) > 0 /\ ValueOf(p) <= MaxU64 /\ ValueOf(p) = (f * One) \div TenTo[k]
  BY PartIs
<1>3. Worth(n, k, f) = ValueOf(w) * One + ValueOf(p)
  BY <1>1, <1>2 DEF Worth
<1> HIDE DEF w, p
<1>4. ParseU64(Before(s)) = ParseU64(w) /\ ParseU64(Padded(Behind(s))) = ParseU64(p)
  BY DEF w, p
<1> QED BY <1>1, <1>2, <1>3, <1>4, PriceSaid, Zenon

\* A price is what its text says, in whole atomic units, with any number of
\* decimals, with or without a blank and a dollar sign before it; it is none
\* when that is nothing or more than the greatest price.  A minus sign or a
\* letter put anywhere among the characters that count makes it none, and so
\* does a plus sign but in two places: before the dollars it changes nothing,
\* and right behind the point it counts as a 0.
THEOREM PriceTexts == PriceIsExact
<1> SUFFICES ASSUME NEW n \in Wholes, NEW k \in 0..Places, NEW f \in 0..(TenTo[k] - 1)
             PROVE  LET text == Numeral(n, k, f)
                        counts == IF k = 0 THEN Len(text) ELSE Point(text) + (IF k < Decimals THEN k ELSE Decimals)
                    IN /\ PriceToAtomic(text) = Payable(Worth(n, k, f))
                       /\ PriceToAtomic(<<" ", "$">> \o text) = PriceToAtomic(text)
                       /\ \A i \in 1..counts, c \in {"-", "x"} :
                            PriceToAtomic(InsertAt(text, i, c)) = Invalid
                       /\ \A i \in 1..counts :
                            PriceToAtomic(InsertAt(text, i, "+")) =
                                IF i = 1 THEN Payable(Worth(n, k, f))
                                ELSE IF i = Point(text) + 1 THEN Payable(Worth(n, k + 1, f))
                                ELSE Invalid
  BY Zenon DEF PriceIsExact
<1> DEFINE w == WholeText(n)
           d == LastDigits(f, k)
           s == Numeral(n, k, f)
           counts == IF k = 0 THEN Len(s) ELSE Point(s) + (IF k < Decimals THEN k ELSE Decimals)
           Says(t, m) == PriceToAtomic(t) = Payable(Worth(n, m, f))
           Plus(i) == PriceToAtomic(InsertAt(s, i, "+"))
<1>1. k \in Nat /\ k + 1 \in Nat /\ TenTo[k] \in Nat \ {0} /\ TenTo[WholeDigits] \in Nat /\ Decimals \in Nat \ {0}
  <2>1. k \in Nat /\ Decimals \in Nat \ {0} /\ WholeDigits \in Nat
    BY MoneyAssumption DEF WholeDigits
  <2> QED BY <2>1, Powers DEF IsPower
<1>2. f \in Nat /\ f < TenTo[k] /\ f < TenTo[k + 1]
  <2>1. TenTo[k + 1] = 10 * TenTo[k]
    BY <1>1, Powers DEF IsPower
  <2> QED BY <1>1, <2>1
<1>3. n \in Nat /\ n < TenTo[WholeDigits]
  BY <1>1, MoneyAssumption
<1>4. w \in DigitTexts /\ Len(w) > 0 /\ Len(w) \in Nat /\ w # <<>>
  <2>1. w \in DigitTexts /\ Len(w) > 0
    BY <1>3, WholeIs
  <2> HIDE DEF w
  <2> QED BY <2>1, DigitsOnly
<1>5. d \in DigitTexts /\ Len(d) = k
  BY <1>1, <1>2, ValueOfLastDigits
\* A text whose sides parse so,
<1>6. ASSUME NEW t, NEW x, Trimmed(t) = x, x # <<>>, Before(x) # <<>>,
             ParseU64(Before(x)) = ParseU64(w), ParseU64(Padded(Behind(x))) = ParseU64(Padded(d))
      PROVE  Says(t, k)
  BY <1>1, <1>2, <1>3, <1>6, PriceWorth
\* or with a zero more behind the point.
<1>7. ASSUME NEW t, NEW x, Trimmed(t) = x, x # <<>>, Before(x) # <<>>,
             ParseU64(Before(x)) = ParseU64(w),
             ParseU64(Padded(Behind(x))) = ParseU64(Padded(LastDigits(f, k + 1)))
      PROVE  Says(t, k + 1)
  BY <1>1, <1>2, <1>3, <1>7, PriceWorth
\* The dollars, with a plus sign before them.
<1> DEFINE u == InsertAt(w, 1, "+")
<1>8. "+" \in Signs /\ {"-", "x"} \subseteq Strays(1)
      /\ \A i \in Nat : {"-", "x"} \subseteq Strays(i) /\ (i # 1 => "+" \in Strays(i))
  BY Zenon DEF Signs, Strays
<1>9. u \in Texts /\ u # <<>> /\ ParseU64(u) = ParseU64(w)
  <2> HIDE DEF w
  <2>1. 1 \in 1..(Len(w) + 1)
    BY <1>4
  <2>2. /\ u \in Texts /\ Len(u) = Len(w) + 1 /\ u[1] = "+"
        /\ \A j \in 2..(Len(w) + 1) : u[j] = w[j - 1]
    BY <1>4, <1>8, <2>1, SignInDigits
  <2> HIDE DEF u
  <2>3. \A i \in 1..Len(w) : u[i + 1] = w[i]
    <3> SUFFICES ASSUME NEW i \in 1..Len(w) PROVE u[i + 1] = w[i]
      OBVIOUS
    <3>1. i + 1 \in 2..(Len(w) + 1) /\ (i + 1) - 1 = i
      BY <1>4
    <3> QED BY <2>2, <3>1
  <2>4. u # <<>>
    BY <1>4, <2>2
  <2> QED BY <1>4, <2>2, <2>3, <2>4, ParsedPlus
\* What is to be shown of the text and of those with a sign in it.
<1> DEFINE Goal == /\ s \in Texts /\ Plain(s) /\ Says(s, k) /\ Says(<<" ", "$">> \o s, k)
                   /\ \A i \in 1..counts, c \in {"-", "x"} : PriceToAtomic(InsertAt(s, i, c)) = Invalid
                   /\ \A i \in 1..counts :
                         Plus(i) = IF i = 1 THEN Payable(Worth(n, k, f))
                                   ELSE IF i = Point(s) + 1 THEN Payable(Worth(n, k + 1, f))
                                   ELSE Invalid
<1>10. ASSUME s \in Texts, Plain(s), Before(s) = w, Behind(s) = d
       PROVE  Says(s, k) /\ Says(<<" ", "$">> \o s, k)
  <2> HIDE DEF s, w, d, Says
  <2>1. Trimmed(s) = s /\ Trimmed(<<" ", "$">> \o s) = s
    BY <1>10, PlainIs, Zenon
  <2>2. s # <<>>
    BY <1>10 DEF Plain
  <2>3. ParseU64(Before(s)) = ParseU64(w) /\ ParseU64(Padded(Behind(s))) = ParseU64(Padded(d)) /\ Before(s) # <<>>
    BY <1>4, <1>10, Zenon
  <2> QED BY <1>6, <2>1, <2>2, <2>3, Zenon
<1>11. ASSUME k = 0 PROVE Goal
  <2>1. s = w
    BY <1>1, <1>4, <1>5, <1>11, NumeralIs
  <2>2. d = <<>>
    BY <1>5, <1>11 DEF DigitTexts
  <2>3. counts = Len(w)
    BY <1>11, <2>1
  <2> HIDE DEF counts, s, w, d, Says
  <2>4. /\ s \in Texts /\ Plain(s) /\ Before(s) = w /\ Behind(s) = d
        /\ \A i \in 1..Len(w) : \A c \in Strays(i) : PriceToAtomic(InsertAt(s, i, c)) = Invalid
        /\ Trimmed(u) = u /\ Before(u) = u /\ Behind(u) = d
    BY <1>4, <2>1, <2>2, WithoutPoint
  <2>5. Says(s, k) /\ Says(<<" ", "$">> \o s, k)
    BY <1>10, <2>4
  <2>6. Says(u, k)
    BY <1>6, <1>9, <2>4, Zenon
  <2>7. Plus(1) = Payable(Worth(n, k, f))
    BY <2>1, <2>6 DEF Says
  <2>8. ASSUME NEW i \in 1..counts, NEW c \in {"-", "x"}
        PROVE  PriceToAtomic(InsertAt(s, i, c)) = Invalid
    <3>1. i \in 1..Len(w) /\ c \in Strays(i)
      BY <1>8, <2>3
    <3> QED BY <2>4, <3>1
  <2>9. Point(s) + 1 = 1
    <3>1. Point(w) = 0
      BY <1>4, DigitsOnly, OneSide
    <3> QED BY <2>1, <3>1
  <2>10. ASSUME NEW i \in 1..counts, i # 1 PROVE Plus(i) = Invalid
    <3>1. i \in 1..Len(w) /\ "+" \in Strays(i)
      BY <1>8, <2>3, <2>10
    <3> QED BY <2>4, <3>1
  <2> HIDE DEF Plus
  <2> QED BY <2>4, <2>5, <2>7, <2>8, <2>9, <2>10
<1>12. ASSUME k # 0 PROVE Goal
  <2> DEFINE l == IF k < Decimals THEN k ELSE Decimals
  <2>1. s = w \o <<".">> \o d
    BY <1>1, <1>4, <1>5, <1>12, NumeralIs
  <2>2. counts = Point(s) + l /\ l \in Nat /\ l <= k /\ l <= Decimals
    BY <1>1, <1>12
  <2>3. Len(d) > 0 /\ 1 \in 1..Len(d) /\ 1 \in 1..(Len(w) + 1) /\ k \in Nat \ {0}
    <3> HIDE DEF d, w
    <3> QED BY <1>1, <1>4, <1>5, <1>12
  <2>4. ParseU64(Padded(InsertAt(d, 1, "+"))) = ParseU64(Padded(LastDigits(f, k + 1)))
    BY <1>2, <2>3, PlusIsZero
  <2> HIDE DEF counts, s, w, d, l, u, Says
  <2>5. s \in Texts /\ Plain(s) /\ Point(s) = Len(w) + 1 /\ Before(s) = w /\ Behind(s) = d
    BY <1>4, <1>5, <2>1, <2>3, WithPoint DEF ReadInSides
  <2>6. Says(s, k) /\ Says(<<" ", "$">> \o s, k)
    BY <1>10, <2>5
  <2>7. /\ \A i \in 1..(Len(w) + 1) : \A c \in Strays(i) : PriceToAtomic(InsertAt(s, i, c)) = Invalid
        /\ \A i \in 1..Len(d) : i <= Decimals =>
              \A c \in Strays(i) : PriceToAtomic(InsertAt(s, Len(w) + 1 + i, c)) = Invalid
    BY <1>4, <1>5, <2>1, <2>3, StrayRefused
  <2>8. Plus(1) = Payable(Worth(n, k, f))
    <3> DEFINE t == InsertAt(s, 1, "+")
    <3>1. Trimmed(t) = t /\ t # <<>> /\ Before(t) = u /\ Behind(t) = d
      <4>1. ReadInSides(t, u, d) /\ Trimmed(t) = t /\ t # <<>>
        BY <1>4, <1>5, <1>8, <2>1, <2>3, SignBeforePoint DEF u
      <4> QED BY <4>1 DEF ReadInSides
    <3> HIDE DEF t
    <3>2. Says(t, k)
      BY <1>6, <1>9, <3>1, Zenon
    <3> QED BY <3>2 DEF Says, t
  <2>9. Plus(Point(s) + 1) = Payable(Worth(n, k + 1, f))
    <3> DEFINE t == InsertAt(s, Len(w) + 1 + 1, "+")
    <3>1. Trimmed(t) = t /\ t # <<>> /\ Before(t) = w /\ Behind(t) = InsertAt(d, 1, "+")
      <4>1. ReadInSides(t, w, InsertAt(d, 1, "+")) /\ Trimmed(t) = t /\ t # <<>>
        BY <1>4, <1>5, <1>8, <2>1, <2>3, SignBehindPoint
      <4> QED BY <4>1 DEF ReadInSides
    <3> HIDE DEF t
    <3>2. Says(t, k + 1)
      BY <1>4, <1>7, <2>4, <3>1, Zenon
    <3> QED BY <2>5, <3>2 DEF Says, t
  <2>10. ASSUME NEW i \in 1..counts, NEW c \in {"-", "x", "+"},
                c = "+" => i # 1 /\ i # Point(s) + 1
         PROVE  PriceToAtomic(InsertAt(s, i, c)) = Invalid
    <3>1. CASE i <= Len(w) + 1
      <4>1. i \in 1..(Len(w) + 1) /\ c \in Strays(i)
        BY <1>4, <1>8, <2>2, <2>5, <2>10, <3>1
      <4> QED BY <2>7, <4>1
    <3>2. CASE i > Len(w) + 1
      <4> DEFINE j == i - Len(w) - 1
      <4>1. j \in 1..Len(d) /\ j <= Decimals /\ Len(w) + 1 + j = i /\ (i # Point(s) + 1 => j # 1)
        BY <1>1, <1>4, <1>5, <2>2, <2>5, <3>2
      <4> HIDE DEF j
      <4>2. c \in Strays(j)
        BY <1>8, <2>10, <4>1
      <4> QED BY <2>7, <4>1, <4>2
    <3> QED BY <1>4, <2>2, <2>5, <3>1, <3>2
  <2>11. Point(s) + 1 # 1
    BY <1>4, <2>5
  <2>12. ASSUME NEW i \in 1..counts, i # 1, i # Point(s) + 1 PROVE Plus(i) = Invalid
    BY <2>10, <2>12
  <2> HIDE DEF Plus
  <2> QED BY <2>5, <2>6, <2>8, <2>9, <2>10, <2>11, <2>12
<1>13. Goal
  BY <1>11, <1>12
<1> HIDE DEF counts, s
<1>14. /\ PriceToAtomic(s) = Payable(Worth(n, k, f))
       /\ PriceToAtomic(<<" ", "$">> \o s) = PriceToAtomic(s)
  BY <1>13, Zenon
<1> QED BY <1>13, <1>14, Zenon DEF s, counts

----------------------------------------------------------------------------
\* Doubles.

\* Half the integers a double tells apart.
Half == TwoTo[Precision - 1]

\* What MoneyAssumption says of the widths of doubles, with powers written out.
LEMMA Widths ==
    /\ Half \in Nat \ {0} /\ Unit \in Nat \ {0} /\ One \in Nat \ {0} /\ MaxPrice \in Nat
    /\ One * Half <= Unit /\ MaxPrice < Half
    /\ Precision - 1 \in Nat /\ Scale \in Nat
    /\ \A e \in Nat : TwoTo[Precision + e - 1] = Half * TwoTo[e] /\ TwoTo[Precision + e] = (2 * Half) * TwoTo[e]
<1>1. Precision \in Nat /\ Precision - 1 \in Nat /\ Scale \in Nat /\ Decimals \in Nat
  BY MoneyAssumption
<1>2. \A e \in Nat : TwoTo[e] \in Nat \ {0} /\ TenTo[e] \in Nat \ {0} /\ TwoTo[e + 1] = 2 * TwoTo[e]
  BY Powers DEF IsPower
<1>3. Half \in Nat \ {0} /\ Unit \in Nat \ {0} /\ One \in Nat \ {0}
  BY <1>1, <1>2 DEF Half, Unit, One
<1>4. One * Half <= Unit /\ MaxPrice < Half /\ MaxPrice \in Nat
  BY <1>1, MoneyAssumption DEF Half
<1>5. ASSUME NEW e \in Nat
      PROVE  TwoTo[Precision + e - 1] = Half * TwoTo[e] /\ TwoTo[Precision + e] = (2 * Half) * TwoTo[e]
  <2> DEFINE p == Precision - 1
  <2>1. Precision + e - 1 = p + e /\ Precision + e = (p + e) + 1 /\ p \in Nat /\ p + e \in Nat
    BY <1>1
  <2> HIDE DEF p
  <2>2. TwoTo[p + e] = TwoTo[p] * TwoTo[e]
    BY <2>1, PowersMultiply
  <2>3. TwoTo[(p + e) + 1] = 2 * TwoTo[p + e]
    BY <1>2, <2>1
  <2>4. TwoTo[p] = Half
    BY DEF Half, p
  <2>5. Half \in Nat /\ TwoTo[e] \in Nat
    BY <1>2, <1>3
  <2>6. 2 * (Half * TwoTo[e]) = (2 * Half) * TwoTo[e]
    BY <2>5
  <2> QED BY <2>1, <2>2, <2>3, <2>4, <2>6
<1> QED BY <1>1, <1>3, <1>4, <1>5

\* The double next to a number is off by no more than half a unit of the last
\* of its bits.
LEMMA NearestIs ==
    ASSUME NEW num \in Nat, NEW den \in Nat \ {0}, num \div den < TwoTo[Precision + Scale],
           NEW B \in Nat, den * Half <= B, num <= B
    PROVE  LET x == Nearest(num, den)
           IN /\ x \in Nat
              /\ (2 * Half) * (den * x) <= (2 * Half) * num + B
              /\ (2 * Half) * num <= (2 * Half) * (den * x) + B
<1> DEFINE quo == num \div den
           Fits(k) == quo < TwoTo[Precision + k] /\ (k = 0 \/ quo >= TwoTo[Precision + k - 1])
           e == CHOOSE k \in 0..Scale : Fits(k)
           t == TwoTo[e]
           ulp == den * t
           down == num \div ulp
           rest == num % ulp
           y == IF 2 * rest > ulp \/ (2 * rest = ulp /\ down % 2 = 1) THEN down + 1 ELSE down
           x == y * t
<1>1. Half \in Nat \ {0} /\ Scale \in Nat
  BY Widths
<1>2. quo \in Nat /\ num % den \in 0..(den - 1) /\ num = den * quo + (num % den)
  BY Division
<1>3. Nearest(num, den) = x
  BY Zenon DEF Nearest
<1>4. \E k \in 0..Scale : Fits(k)
  <2> HIDE DEF quo
  <2> SUFFICES ASSUME \A k \in 0..Scale : ~Fits(k) PROVE FALSE
    BY Zenon
  <2> DEFINE N == {k \in Nat : k <= Scale => ~(quo < TwoTo[Precision + k])}
  <2>1. 0 \in N
    <3>1. ~Fits(0)
      BY <1>1
    <3> QED BY <3>1
  <2>2. ASSUME NEW k \in Nat, k \in N PROVE k + 1 \in N
    <3> SUFFICES ASSUME k + 1 <= Scale, quo < TwoTo[Precision + (k + 1)] PROVE FALSE
      OBVIOUS
    <3>1. ~Fits(k + 1) /\ Precision + (k + 1) - 1 = Precision + k
      BY <1>1, Widths
    <3>2. TwoTo[Precision + k] \in Nat
      <4>1. Precision + k \in Nat
        BY MoneyAssumption
      <4> QED BY <4>1, Powers DEF IsPower
    <3>3. ~(quo < TwoTo[Precision + k])
      BY <1>1, <2>2
    <3>4. quo >= TwoTo[Precision + k]
      BY <1>2, <3>2, <3>3
    <3> QED BY <3>1, <3>4
  <2>3. Nat \subseteq N
    <3> HIDE DEF N
    <3> QED BY <2>1, <2>2, NumberInduction
  <2>4. Scale \in N
    BY <1>1, <2>3
  <2> QED BY <1>1, <2>4 DEF quo
<1>5. e \in 0..Scale /\ Fits(e)
  <2> HIDE DEF Fits
  <2> QED BY <1>4, Zenon
<1> HIDE DEF e
<1>6. t \in Nat \ {0} /\ TwoTo[0] = 1 /\ TwoTo[Precision + e - 1] = Half * t
  <2>1. e \in Nat
    BY <1>1, <1>5
  <2> QED BY <2>1, Widths, Powers DEF IsPower
<1>7. ulp \in Nat \ {0} /\ Half * ulp <= B
  <2>1. CASE e = 0
    BY <1>1, <1>6, <2>1
  <2>2. CASE e # 0
    <3>1. quo >= Half * t
      BY <1>5, <1>6, <2>2
    <3> HIDE DEF quo, t
    <3>2. den * quo >= den * (Half * t)
      BY <1>1, <1>2, <1>6, <3>1
    <3>3. num >= den * quo
      BY <1>2
    <3>4. den * (Half * t) = Half * (den * t) /\ den * t \in Nat \ {0}
      BY <1>1, <1>6
    <3> DEFINE u == den * t
               v == den * quo
    <3>5. u \in Nat \ {0} /\ v \in Nat /\ v >= Half * u /\ num >= v
      BY <1>2, <3>2, <3>3, <3>4
    <3> HIDE DEF u, v
    <3>6. Half * u <= B
      BY <1>1, <3>5
    <3> QED BY <3>5, <3>6 DEF u
  <2> QED BY <2>1, <2>2
<1>8. den * x = ulp * y
  <2>1. y \in Nat
    <3>1. down \in Nat
      <4> HIDE DEF ulp
      <4> QED BY <1>7, Division
    <3> HIDE DEF down, rest, ulp
    <3> QED BY <3>1
  <2> HIDE DEF y, t
  <2> QED BY <1>6, <2>1
<1> HIDE DEF ulp
<1>9. down \in Nat /\ rest \in 0..(ulp - 1) /\ num = ulp * down + rest
  BY <1>7, Division
<1> HIDE DEF down, rest, quo, t
<1>10. y \in Nat /\ x \in Nat
  BY <1>6, <1>9
<1>11. \/ y = down /\ 2 * rest <= ulp
       \/ y = down + 1 /\ 2 * rest >= ulp
  BY <1>7, <1>9
<1> DEFINE z == den * x
<1>12. z = ulp * y
  BY <1>8
<1> HIDE DEF y, x, z
<1> DEFINE h == Half * ulp
           b == Half * rest
           f == Half * num
           g == Half * z
<1>13. h \in Nat /\ b \in Nat /\ f \in Nat /\ h <= B
  BY <1>1, <1>7, <1>9
<1>14. CASE y = down /\ 2 * rest <= ulp
  <2>1. num = z + rest /\ z \in Nat
    BY <1>7, <1>9, <1>12, <1>14
  <2>2. f = g + b /\ g \in Nat
    BY <1>1, <1>9, <2>1
  <2>3. 2 * b <= h
    BY <1>1, <1>7, <1>9, <1>14
  <2> HIDE DEF h, b, f, g
  <2>4. 2 * g <= 2 * f + B /\ 2 * f <= 2 * g + B
    BY <1>13, <2>2, <2>3
  <2>5. 2 * g = (2 * Half) * z /\ 2 * f = (2 * Half) * num
    BY <1>1, <2>1 DEF g, f
  <2> QED BY <1>3, <1>10, <2>4, <2>5 DEF z
<1>15. CASE y = down + 1 /\ 2 * rest >= ulp
  <2>1. num + ulp = z + rest /\ z \in Nat
    <3>1. ulp * (down + 1) = ulp * down + ulp /\ ulp * down \in Nat
      BY <1>7, <1>9
    <3> QED BY <1>7, <1>9, <1>12, <1>15, <3>1
  <2>2. f + h = g + b /\ g \in Nat
    BY <1>1, <1>7, <1>9, <2>1
  <2>3. 2 * b >= h /\ b <= h
    BY <1>1, <1>7, <1>9, <1>15
  <2> HIDE DEF h, b, f, g
  <2>4. 2 * g <= 2 * f + B /\ 2 * f <= 2 * g + B
    BY <1>13, <2>2, <2>3
  <2>5. 2 * g = (2 * Half) * z /\ 2 * f = (2 * Half) * num
    BY <1>1, <2>1 DEF g, f
  <2> QED BY <1>3, <1>10, <2>4, <2>5 DEF z
<1> QED BY <1>11, <1>14, <1>15

\* The double x is a atomic units but for k parts of 2 * Half * One.
Near(x, a, k) ==
    /\ x \in Nat
    /\ (2 * Half) * (One * x) <= (2 * Half) * (a * Unit) + k * Unit
    /\ (2 * Half) * (a * Unit) <= (2 * Half) * (One * x) + k * Unit

\* A common factor can be cancelled.
LEMMA Cancelled ==
    ASSUME NEW h \in Nat \ {0}, NEW u \in Nat, NEW v \in Nat
    PROVE  (h * u <= h * v => u <= v) /\ (h * u < h * v => u < v)
<1>1. ASSUME h * u <= h * v, u > v PROVE FALSE
  <2>1. u >= v + 1
    BY <1>1
  <2>2. h * u >= h * (v + 1) /\ h * (v + 1) = h * v + h
    BY <2>1, Times
  <2> QED BY <1>1, <2>2
<1>2. ASSUME h * u < h * v, u >= v PROVE FALSE
  <2>1. h * u >= h * v
    BY <1>2, Times
  <2> QED BY <1>2, <2>1
<1> QED BY <1>1, <1>2

\* Less than half of an atomic unit off, it is shown as a.
LEMMA ShownIs ==
    ASSUME NEW x, NEW a \in Nat, NEW k \in Nat, k < Half, Near(x, a, k)
    PROVE  Shown(x) = a
<1> DEFINE p == One * x
           q == a * Unit
           U == Unit
           H == Half
           e == k * U
<1>1. H \in Nat \ {0} /\ U \in Nat \ {0} /\ One \in Nat \ {0} /\ x \in Nat /\ k < H
  BY Widths DEF Near
<1>2. p \in Nat /\ q \in Nat /\ e \in Nat /\ q = a * U
  BY <1>1
<1>3. (2 * H) * p <= (2 * H) * q + e /\ (2 * H) * q <= (2 * H) * p + e
  BY DEF Near
<1>4. e < H * U
  BY <1>1
<1>5. Shown(x) = (2 * p + U) \div (2 * U)
  <2>1. 2 * x * One = 2 * (One * x)
    BY <1>1
  <2> QED BY <2>1 DEF Shown
<1> HIDE DEF p, q, U, H, e
<1>6. H * (2 * p) = (2 * H) * p /\ H * (2 * q + U) = (2 * H) * q + H * U
      /\ H * (2 * q) = (2 * H) * q /\ H * (2 * p + U) = (2 * H) * p + H * U
      /\ H * U \in Nat /\ (2 * H) * p \in Nat /\ (2 * H) * q \in Nat
  BY <1>1, <1>2
<1>7. H * (2 * p) < H * (2 * q + U) /\ H * (2 * q) < H * (2 * p + U)
  BY <1>2, <1>3, <1>4, <1>6
<1>8. 2 * p < 2 * q + U /\ 2 * q < 2 * p + U
  <2> DEFINE a1 == 2 * p
             a2 == 2 * q + U
             b1 == 2 * q
             b2 == 2 * p + U
  <2>1. a1 \in Nat /\ a2 \in Nat /\ b1 \in Nat /\ b2 \in Nat /\ H * a1 < H * a2 /\ H * b1 < H * b2
    BY <1>1, <1>2, <1>7
  <2> HIDE DEF a1, a2, b1, b2
  <2>2. a1 < a2 /\ b1 < b2
    BY <1>1, <2>1, Cancelled
  <2> QED BY <2>2 DEF a1, a2, b1, b2
<1> DEFINE n == 2 * p + U
           d == 2 * U
           r == n - d * a
<1>9. d * a = 2 * q
  BY <1>1, <1>2
<1>10. n \in Nat /\ d \in Nat \ {0} /\ r \in 0..(d - 1) /\ n = d * a + r
  BY <1>1, <1>2, <1>8, <1>9
<1>11. Shown(x) = n \div d
  BY <1>5
<1> HIDE DEF n, d, r
<1> QED BY <1>10, <1>11, DivisionIs

\* A quotient that is so many atomic units rounds once.
LEMMA QuotientIsNear ==
    ASSUME NEW a \in 1..MaxPrice, NEW m \in Nat, NEW den \in Nat \ {0}, NEW c \in Nat \ {0},
           den * c = One, m * c = a
    PROVE  Near(Nearest(m * Unit, den), a, a)
<1>1. den * c = One /\ m * c = a
  OBVIOUS
<1> DEFINE U == Unit
           H == Half
           num == m * U
           x == Nearest(num, den)
<1>2. /\ H \in Nat \ {0} /\ U \in Nat \ {0} /\ One \in Nat \ {0} /\ One * H <= U
      /\ a \in Nat /\ a < H /\ a > 0
  BY Widths
<1>3. TwoTo[Precision + Scale] = (2 * H) * U
  BY Widths DEF Unit
<1> HIDE DEF U, H
<1>4. m > 0 /\ m <= a
  BY <1>1, <1>2
<1>5. num \in Nat /\ num >= U /\ num <= a * U
  BY <1>2, <1>4
<1>6. den * H <= num
  <2>1. den <= One
    BY <1>1, <1>2
  <2>2. den * H <= One * H
    BY <1>2, <2>1, Times
  <2>3. den * H \in Nat /\ One * H \in Nat
    BY <1>2
  <2> QED BY <1>2, <1>5, <2>2, <2>3
<1>7. num \div den < TwoTo[Precision + Scale]
  <2>1. a * U < (2 * H) * U
    BY <1>2
  <2> HIDE DEF num
  <2>2. num \div den \in Nat /\ num % den \in 0..(den - 1) /\ num = den * (num \div den) + (num % den)
    BY <1>5, Division
  <2>3. num \div den <= num
    BY <1>5, <2>2
  <2>4. a * U \in Nat /\ (2 * H) * U \in Nat
    BY <1>2
  <2> QED BY <1>3, <1>5, <2>1, <2>2, <2>3, <2>4
<1>8. /\ x \in Nat
      /\ (2 * H) * (den * x) <= (2 * H) * num + num
      /\ (2 * H) * num <= (2 * H) * (den * x) + num
  <2> HIDE DEF num
  <2> QED BY <1>5, <1>6, <1>7, NearestIs DEF H
<1>9. c * num = a * U
  BY <1>1, <1>2
<1> HIDE DEF x, num
<1> DEFINE p == den * x
<1>10. One * x = c * p /\ p \in Nat
  BY <1>1, <1>8
<1> HIDE DEF p
<1>11. /\ c * ((2 * H) * p) <= c * ((2 * H) * num + num)
       /\ c * ((2 * H) * num) <= c * ((2 * H) * p + num)
  <2>1. (2 * H) * p \in Nat /\ (2 * H) * num \in Nat
    BY <1>2, <1>5, <1>10
  <2>2. (2 * H) * p <= (2 * H) * num + num /\ (2 * H) * num <= (2 * H) * p + num
    BY <1>8 DEF p
  <2> DEFINE f == (2 * H) * p
             g == (2 * H) * num
  <2>3. f \in Nat /\ g \in Nat /\ f <= g + num /\ g <= f + num /\ g + num \in Nat /\ f + num \in Nat
    BY <1>5, <2>1, <2>2
  <2> HIDE DEF f, g
  <2>4. c * f <= c * (g + num) /\ c * g <= c * (f + num)
    BY <2>3, Times
  <2> QED BY <2>4 DEF f, g
<1>12. /\ c * ((2 * H) * p) = (2 * H) * (One * x)
       /\ c * ((2 * H) * num) = (2 * H) * (a * U)
       /\ c * ((2 * H) * num + num) = (2 * H) * (a * U) + a * U
       /\ c * ((2 * H) * p + num) = (2 * H) * (One * x) + a * U
  <2>1. c * ((2 * H) * p) = (2 * H) * (c * p) /\ c * ((2 * H) * num) = (2 * H) * (c * num)
    BY <1>2, <1>5, <1>10
  <2>2. /\ c * ((2 * H) * num + num) = c * ((2 * H) * num) + c * num
        /\ c * ((2 * H) * p + num) = c * ((2 * H) * p) + c * num
    BY <1>2, <1>5, <1>10
  <2> QED BY <1>9, <1>10, <2>1, <2>2
<1>13. Near(x, a, a)
  BY <1>8, <1>11, <1>12 DEF Near, U, H
<1> QED BY <1>13 DEF x, num, U

\* An amount divided by a dollar is shown as that amount.
LEMMA QuotientShown ==
    ASSUME NEW a \in 1..MaxPrice
    PROVE  Shown(Nearest(a * Unit, One)) = a
<1>1. a \in Nat /\ a < Half /\ One \in Nat \ {0}
  BY Widths
<1>2. One * 1 = One /\ a * 1 = a
  BY <1>1
<1> DEFINE x == Nearest(a * Unit, One)
<1>3. Near(x, a, a)
  BY <1>1, <1>2, QuotientIsNear
<1> HIDE DEF x
<1>4. Shown(x) = a
  BY <1>1, <1>3, ShownIs
<1> QED BY <1>4 DEF x

----------------------------------------------------------------------------
\* What amount_paid_usdc writes.

\* Division and order.
LEMMA DivisionGrows ==
    ASSUME NEW a \in Nat, NEW b \in Nat, NEW d \in Nat \ {0}, a <= b
    PROVE  a \div d <= b \div d
<1>1. a \div d \in Nat /\ a % d \in 0..(d - 1) /\ a = d * (a \div d) + (a % d)
  BY Division
<1>2. b \div d \in Nat /\ b % d \in 0..(d - 1) /\ b = d * (b \div d) + (b % d)
  BY Division
<1> DEFINE x == a \div d
           y == b \div d
           u == a % d
           z == b % d
<1>3. x \in Nat /\ y \in Nat /\ u \in 0..(d - 1) /\ z \in 0..(d - 1) /\ a = d * x + u /\ b = d * y + z
  BY <1>1, <1>2
<1> HIDE DEF x, y, u, z
<1>4. x <= y
  <2> SUFFICES ASSUME x >= y + 1 PROVE FALSE
    BY <1>3
  <2>1. d * x >= d * (y + 1) /\ d * (y + 1) = d * y + d
    BY <1>3, Times
  <2> QED BY <1>3, <2>1
<1> QED BY <1>4 DEF x, y

\* An amount in whole dollars and the rest.
LEMMA DollarsAndCents ==
    ASSUME NEW a \in 1..MaxPrice
    PROVE  /\ a \div One \in Nat /\ a \div One < TenTo[WholeDigits] /\ a % One \in 0..(One - 1)
           /\ a = One * (a \div One) + (a % One) /\ (a < One <=> a \div One = 0)
           /\ One \in Nat \ {0} /\ Decimals \in Nat
<1>1. Decimals \in Nat /\ WholeDigits \in Nat /\ MaxPrice \in Nat /\ a \in Nat /\ a <= MaxPrice
  BY MoneyAssumption DEF WholeDigits
<1>2. One \in Nat \ {0} /\ TenTo[WholeDigits] \in Nat
  BY <1>1, Powers DEF IsPower, One
<1>3. a \div One \in Nat /\ a % One \in 0..(One - 1) /\ a = One * (a \div One) + (a % One)
  BY <1>1, <1>2, Division
<1>4. a \div One <= MaxPrice \div One /\ MaxPrice \div One \in Nat
  BY <1>1, <1>2, DivisionGrows, Division
<1>5. a \div One < TenTo[WholeDigits]
  BY <1>2, <1>3, <1>4, MoneyAssumption
<1>6. a < One <=> a \div One = 0
  BY <1>1, <1>2, <1>3
<1> QED BY <1>1, <1>2, <1>3, <1>5, <1>6

\* The last place where a text differs from c, if there is one.
LEMMA LastPlace ==
    ASSUME NEW s \in Texts, NEW c, NEW k \in 1..Len(s), s[k] # c
    PROVE  \E j \in k..Len(s) : /\ s[j] # c /\ \A i \in (j + 1)..Len(s) : s[i] = c
                                /\ DropTrailing(s, c) = SubSeq(s, 1, j)
<1> DEFINE n == Len(s)
           N == {i \in Nat : \A j \in 1..n : n - j <= i => s[j] = c}
<1>1. n \in Nat
  BY DEF Texts
<1>2. PICK j \in k..n : s[j] # c /\ \A i \in (j + 1)..n : s[i] = c
  <2> SUFFICES ASSUME \A j \in k..n : s[j] # c => \E i \in (j + 1)..n : s[i] # c PROVE FALSE
    BY Zenon
  <2>0. \A j \in 1..n : s[j] # c => \E i \in (j + 1)..n : s[i] # c
    <3> SUFFICES ASSUME NEW j \in 1..n, s[j] # c, \A i \in (j + 1)..n : s[i] = c PROVE FALSE
      OBVIOUS
    <3>1. CASE j >= k
      <4>1. j \in k..n
        BY <1>1, <3>1
      <4>2. \E i \in (j + 1)..n : s[i] # c
        BY <4>1
      <4> QED BY <4>2
    <3>2. CASE j < k
      <4>1. k \in (j + 1)..n
        BY <1>1, <3>2
      <4> QED BY <4>1
    <3> QED BY <1>1, <3>1, <3>2
  <2>1. 0 \in N
    <3> SUFFICES ASSUME NEW j \in 1..n, n - j <= 0, s[j] # c PROVE FALSE
      OBVIOUS
    <3> QED BY <1>1, <2>0
  <2>2. ASSUME NEW i \in Nat, i \in N PROVE i + 1 \in N
    <3> SUFFICES ASSUME NEW j \in 1..n, n - j <= i + 1, s[j] # c PROVE FALSE
      OBVIOUS
    <3>1. PICK l \in (j + 1)..n : s[l] # c
      BY <2>0
    <3>2. l \in 1..n /\ n - l <= i
      BY <1>1
    <3> QED BY <2>2, <3>1, <3>2
  <2>3. Nat \subseteq N
    <3> HIDE DEF N
    <3> QED BY <2>1, <2>2, NumberInduction
  <2>4. n \in N
    BY <1>1, <2>3
  <2> QED BY <1>1, <2>4
<1>3. j \in 1..n /\ n \in Nat
  BY <1>1, <1>2
<1>4. SelectLastInSeq(s, LAMBDA d : d # c) = j
  BY <1>2, <1>3, LastOther
<1>5. DropTrailing(s, c) = SubSeq(s, 1, j)
  BY <1>4, Zenon DEF DropTrailing
<1> QED BY <1>2, <1>5

\* It is the dollars, a point and the decimals without the zeros behind them,
\* but with one digit at least.
AmountSides(a, d) ==
    /\ d \in DigitTexts /\ Len(d) \in 1..Decimals
    /\ AmountPaidUsdc(a) = WholeText(a \div One) \o <<".">> \o d
    /\ Padded(d) = LastDigits(a, Decimals)

\* There are such decimals for every amount.
LEMMA AmountText ==
    ASSUME NEW a \in 1..MaxPrice
    PROVE  \E d : AmountSides(a, d)
<1> DEFINE w == WholeText(a \div One)
           r == LastDigits(a, Decimals)
           D == Decimals
           m == Len(w)
           s == FixedPoint(a)
<1>1. w \in DigitTexts /\ m > 0
  BY DollarsAndCents, WholeIs
<1>2. r \in DigitTexts /\ Len(r) = D /\ D \in Nat /\ D > 0
  <2>1. a \in Nat /\ D \in Nat /\ D > 0
    BY MoneyAssumption
  <2> QED BY <2>1, ValueOfLastDigits
<1>3. s = w \o <<".">> \o r
  <2>1. a < One <=> a \div One = 0
    BY DollarsAndCents
  <2>2. Shown(Nearest(a * Unit, One)) = a
    BY QuotientShown
  <2> QED BY <2>1, <2>2, Zenon DEF FixedPoint, WholeText
<1>4. w \in Texts /\ m \in Nat /\ \A i \in 1..m : w[i] # "."
  BY <1>1, DigitsOnly
<1>5. r \in Texts /\ \A i \in 1..D : r[i] \in DigitSet /\ r[i] # "."
  BY <1>2, DigitsOnly
<1>6. /\ s \in Texts /\ Len(s) = m + 1 + D /\ s[m + 1] = "."
      /\ \A j \in 1..m : s[j] = w[j]
      /\ \A j \in (m + 2)..(m + 1 + D) : s[j] = r[j - m - 1]
  <2>1. IsJoined(s, w, r, m, D)
    BY <1>2, <1>3, <1>4, <1>5, Joined
  <2> QED BY <2>1 DEF IsJoined
<1> HIDE DEF s, D, m, w, r
<1>7. m + 1 \in 1..(m + 1 + D) /\ "." # "0"
  <2>1. "." # "0"
    BY DigitOfDigit, DigitsAre, Zenon
  <2> QED BY <1>2, <1>4, <2>1
<1>8. PICK j \in (m + 1)..(m + 1 + D) :
           /\ s[j] # "0" /\ \A i \in (j + 1)..(m + 1 + D) : s[i] = "0"
           /\ DropTrailing(s, "0") = SubSeq(s, 1, j)
  <2>1. s[m + 1] # "0" /\ m + 1 \in 1..Len(s)
    BY <1>6, <1>7
  <2>2. \E j \in (m + 1)..Len(s) : /\ s[j] # "0" /\ \A i \in (j + 1)..Len(s) : s[i] = "0"
                                   /\ DropTrailing(s, "0") = SubSeq(s, 1, j)
    BY <1>6, <2>1, LastPlace
  <2> QED BY <1>6, <2>2
<1> DEFINE l == j - m - 1
           e == SubSeq(r, 1, l)
           u == SubSeq(s, 1, j)
<1>9. l \in 0..D /\ j = m + 1 + l
  BY <1>2, <1>4, <1>8
<1>10. e \in DigitTexts /\ Len(e) = l /\ \A i \in 1..l : e[i] = r[i]
  BY <1>2, <1>9 DEF DigitTexts
<1>11. \A i \in (l + 1)..D : r[i] = "0"
  <2> SUFFICES ASSUME NEW i \in (l + 1)..D PROVE r[i] = "0"
    OBVIOUS
  <2> DEFINE k == m + 1 + i
  <2>1. k \in (j + 1)..(m + 1 + D) /\ k \in (m + 2)..(m + 1 + D) /\ k - m - 1 = i
    BY <1>2, <1>4, <1>8
  <2> HIDE DEF k
  <2> QED BY <1>6, <1>8, <2>1
<1>12. AmountPaidUsdc(a) =
          LET t == DropTrailing(u, ".") IN IF Point(t) = 0 THEN t \o <<".", "0">> ELSE t
  BY <1>8, Zenon DEF AmountPaidUsdc, s
<1>13. CASE l = 0
  <2> DEFINE z == <<"0">>
  <2>1. "0" \in DigitSet /\ "0" \in Chars /\ "." \in Chars
    BY DigitOfDigit, CharsAre
  <2>2. z \in DigitTexts /\ Len(z) = 1 /\ z[1] = "0"
    BY <2>1 DEF DigitTexts
  <2>3. u \in Texts /\ Len(u) = m + 1 /\ u[m + 1] = "." /\ \A i \in 1..m : u[i] = w[i]
    BY <1>4, <1>6, <1>9, <1>13 DEF Texts
  <2> HIDE DEF u
  <2>4. PICK k \in m..Len(u) : /\ u[k] # "." /\ \A i \in (k + 1)..Len(u) : u[i] = "."
                               /\ DropTrailing(u, ".") = SubSeq(u, 1, k)
    <3>1. m \in 1..Len(u) /\ u[m] # "."
      BY <1>1, <1>4, <2>3 DEF m
    <3> QED BY <2>3, <3>1, LastPlace
  <2>5. k = m
    BY <1>4, <2>3, <2>4
  <2>6. SubSeq(u, 1, m) = w
    BY <1>4, <2>3 DEF Texts, m
  <2>7. DropTrailing(u, ".") = w
    BY <2>4, <2>5, <2>6
  <2>8. Point(w) = 0
    BY <1>4, OneSide DEF m
  <2>9. AmountPaidUsdc(a) = w \o <<".", "0">>
    BY <1>12, <2>7, <2>8, Zenon
  <2>10. w \o <<".", "0">> = w \o <<".">> \o z
    BY <1>4, <2>1, <2>2 DEF Texts
  <2>11. Padded(z) = r
    <3>1. r = [i \in 1..D |-> r[i]]
      BY <1>2 DEF DigitTexts
    <3>2. \A i \in 1..D : r[i] = "0"
      BY <1>11, <1>13
    <3>3. Padded(z) = [i \in 1..D |-> IF i <= Len(z) THEN z[i] ELSE "0"]
      BY DEF Padded, D
    <3>4. \A i \in 1..D : (IF i <= Len(z) THEN z[i] ELSE "0") = "0"
      BY <2>2, <1>2
    <3> HIDE DEF z
    <3> QED BY <3>1, <3>2, <3>3, <3>4
  <2>12. Len(z) \in 1..D
    BY <1>2, <2>2
  <2> HIDE DEF z
  <2>13. AmountPaidUsdc(a) = w \o <<".">> \o z
    BY <2>9, <2>10, Zenon
  <2>14. AmountSides(a, z)
    BY <2>2, <2>11, <2>12, <2>13 DEF AmountSides, w, r, D
  <2> QED BY <2>14
<1>14. CASE l # 0
  <2>1. u \in Texts /\ Len(u) = j /\ \A i \in 1..j : u[i] = s[i]
    BY <1>4, <1>6, <1>8, <1>9 DEF Texts
  <2> HIDE DEF u
  <2>2. u[j] # "."
    <3>1. j \in (m + 2)..(m + 1 + D) /\ j - m - 1 \in 1..D /\ j \in 1..j
      BY <1>2, <1>4, <1>9, <1>14
    <3>2. s[j] = r[j - m - 1]
      BY <1>6, <3>1
    <3>3. r[j - m - 1] # "."
      BY <1>5, <3>1
    <3> QED BY <2>1, <3>1, <3>2, <3>3
  <2>3. DropTrailing(u, ".") = u
    <3>1. Len(u) > 0
      BY <1>4, <1>9, <2>1
    <3> QED BY <2>1, <2>2, <3>1, DropsNothing
  <2>4. u = w \o <<".">> \o e
    <3> DEFINE y == w \o <<".">> \o e
    <3>1. e \in Texts
      BY <1>10, DigitsOnly
    <3>2. IsJoined(y, w, e, m, l)
      BY <1>4, <1>10, <3>1, Joined DEF m
    <3>3. /\ y \in Texts /\ Len(y) = j /\ y[m + 1] = "."
          /\ \A i \in 1..m : y[i] = w[i]
          /\ \A i \in (m + 2)..j : y[i] = e[i - m - 1]
      BY <1>9, <3>2 DEF IsJoined
    <3> HIDE DEF y, e, l
    <3>4. ASSUME NEW i \in 1..j PROVE u[i] = y[i]
      <4>1. CASE i <= m
        <5>1. i \in 1..m
          BY <1>4, <4>1
        <5> QED BY <1>6, <2>1, <3>3, <5>1
      <4>2. CASE i = m + 1
        BY <1>6, <2>1, <3>3, <4>2
      <4>3. CASE i > m + 1
        <5>1. i \in (m + 2)..j /\ i \in (m + 2)..(m + 1 + D) /\ i - m - 1 \in 1..l
          BY <1>2, <1>4, <1>9, <4>3
        <5> QED BY <1>6, <1>10, <2>1, <3>3, <5>1
      <4> QED BY <1>4, <4>1, <4>2, <4>3
    <3>5. u = y
      BY <2>1, <3>3, <3>4, SameText
    <3> QED BY <3>5 DEF y
  <2>5. Point(u) # 0
    <3>1. e \in Texts
      BY <1>10, DigitsOnly
    <3>2. Point(u) = m + 1
      BY <1>4, <2>4, <3>1, Sides DEF m
    <3> QED BY <1>4, <3>2
  <2>6. AmountPaidUsdc(a) = u
    BY <1>12, <2>3, <2>5, Zenon
  <2>7. Padded(e) = r
    <3>1. r = [i \in 1..D |-> r[i]]
      BY <1>2 DEF DigitTexts
    <3>2. \A i \in 1..D : (IF i <= l THEN e[i] ELSE "0") = r[i]
      <4> HIDE DEF e, l
      <4> QED BY <1>2, <1>9, <1>10, <1>11
    <3>3. Padded(e) = [i \in 1..D |-> IF i <= l THEN e[i] ELSE "0"]
      BY <1>10 DEF Padded, D
    <3> HIDE DEF e, l
    <3> QED BY <3>1, <3>2, <3>3
  <2>8. Len(e) \in 1..D
    <3> HIDE DEF e, l
    <3> QED BY <1>2, <1>9, <1>10, <1>14
  <2> HIDE DEF e, l
  <2>9. AmountSides(a, e)
    BY <1>10, <2>4, <2>6, <2>7, <2>8 DEF AmountSides, w, r, D
  <2> QED BY <2>9
<1> QED BY <1>13, <1>14

\* Read as a price it is the amount again.
LEMMA AmountIsPrice ==
    ASSUME NEW a \in 1..MaxPrice
    PROVE  PriceToAtomic(AmountPaidUsdc(a)) = a
<1> DEFINE w == WholeText(a \div One)
           s == AmountPaidUsdc(a)
           p == LastDigits(a, Decimals)
<1>1. PICK d : AmountSides(a, d)
  BY AmountText
<1>2. w \in DigitTexts /\ Len(w) > 0 /\ ValueOf(w) = a \div One
  BY DollarsAndCents, WholeIs
<1>3. d \in DigitTexts /\ Len(d) > 0 /\ s = w \o <<".">> \o d /\ Padded(d) = p
  BY <1>1, DollarsAndCents DEF AmountSides
<1>4. p \in DigitTexts /\ Len(p) > 0 /\ ValueOf(p) = a % One
  <2>1. a \in Nat /\ Decimals \in Nat /\ Decimals > 0
    BY MoneyAssumption
  <2> QED BY <2>1, ValueOfLastDigits DEF One
<1> HIDE DEF w, s, p
<1>5. s \in Texts /\ Plain(s) /\ Before(s) = w /\ Behind(s) = d
  BY <1>2, <1>3, WithPoint DEF ReadInSides
<1>6. Trimmed(s) = s /\ s # <<>>
  <2>1. Trimmed(s) = s
    BY <1>5, PlainIs, Zenon
  <2>2. Len(s) > 0
    BY <1>5 DEF Plain
  <2> QED BY <2>1, <2>2
<1>7. (a \div One) * One + (a % One) = a /\ a % One <= MaxU64 /\ a \in 1..MaxPrice
  BY DollarsAndCents, MoneyAssumption
<1> DEFINE worth == ValueOf(w) * One + ValueOf(p)
<1>8. ValueOf(p) <= MaxU64 /\ Padded(Behind(s)) = p /\ Before(s) # <<>>
  <2>1. Before(s) # <<>>
    BY <1>2, <1>5
  <2> QED BY <1>3, <1>4, <1>5, <1>7, <2>1
<1>9. PriceToAtomic(s) = Payable(worth)
  BY <1>2, <1>4, <1>5, <1>6, <1>8, PriceSaid
<1>10. worth = a
  BY <1>2, <1>4, <1>7
<1> QED BY <1>7, <1>9, <1>10 DEF s, Payable

\* And without its point it is the amount in units of its last decimal.
LEMMA AmountDigits ==
    ASSUME NEW a \in 1..MaxPrice
    PROVE  \E m \in Nat, den \in Nat \ {0}, c \in Nat \ {0} :
                /\ den * c = One /\ m * c = a
                /\ ReadF64(AmountPaidUsdc(a)) = Nearest(m * Unit, den)
<1> DEFINE w == WholeText(a \div One)
           s == AmountPaidUsdc(a)
           p == LastDigits(a, Decimals)
<1>1. PICK d : AmountSides(a, d)
  BY AmountText
<1>2. w \in DigitTexts /\ Len(w) > 0 /\ ValueOf(w) = a \div One
  BY DollarsAndCents, WholeIs
<1>3. d \in DigitTexts /\ Len(d) > 0 /\ s = w \o <<".">> \o d /\ Padded(d) = p
  BY <1>1, DollarsAndCents DEF AmountSides
<1>4. ValueOf(p) = a % One
  <2>1. a \in Nat /\ Decimals \in Nat
    BY MoneyAssumption
  <2> QED BY <2>1, ValueOfLastDigits DEF One
<1>5. Before(s) = w /\ Behind(s) = d
  <2> HIDE DEF w, s, p
  <2> QED BY <1>2, <1>3, WithPoint DEF ReadInSides
<1> DEFINE n == Len(d)
           k == Decimals - n
           z == [i \in 1..k |-> "0"]
           den == TenTo[n]
           c == TenTo[k]
           m == ValueOf(w \o d)
<1>6. n \in Nat /\ k \in Nat /\ n + k = Decimals
  <2>1. n \in 1..Decimals
    BY <1>1 DEF AmountSides
  <2>2. Decimals \in Nat
    BY MoneyAssumption
  <2> HIDE DEF n
  <2> QED BY <2>1, <2>2
<1>7. den \in Nat \ {0} /\ c \in Nat \ {0} /\ den * c = One
  <2>1. TenTo[n] \in Nat \ {0} /\ TenTo[k] \in Nat \ {0}
    BY <1>6, Powers DEF IsPower
  <2>2. TenTo[n + k] = TenTo[n] * TenTo[k]
    BY <1>6, PowersMultiply
  <2> QED BY <1>6, <2>1, <2>2 DEF One
<1>8. z \in DigitTexts /\ Len(z) = k /\ ValueOf(z) = 0
  <2>1. "0" \in DigitSet
    BY DigitOfDigit
  <2>2. z \in DigitTexts /\ Len(z) = k /\ \A i \in 1..Len(z) : z[i] = "0"
    <3> HIDE DEF k
    <3> QED BY <1>6, <2>1 DEF DigitTexts
  <2> HIDE DEF z
  <2> QED BY <2>2, Zeros
<1>9. p = d \o z
  <2>1. p = [i \in 1..Decimals |-> IF i <= n THEN d[i] ELSE "0"]
    BY <1>3 DEF Padded
  <2> DEFINE y == d \o z
  <2>2. y \in DigitTexts /\ Len(y) = n + k
    <3> HIDE DEF z, k, p, w, s
    <3>1. d \in Seq(DigitSet) /\ z \in Seq(DigitSet) /\ Len(z) = k
      BY <1>3, <1>8 DEF DigitTexts
    <3>2. d \o z \in Seq(DigitSet) /\ Len(d \o z) = Len(d) + Len(z)
      BY <3>1
    <3> QED BY <3>1, <3>2 DEF DigitTexts
  <2>3. y = [i \in 1..Decimals |-> y[i]]
    <3> HIDE DEF y, k, n
    <3>1. Len(y) = Decimals
      BY <1>6, <2>2
    <3> QED BY <2>2, <3>1 DEF DigitTexts
  <2>4. ASSUME NEW i \in 1..Decimals PROVE (d \o z)[i] = IF i <= n THEN d[i] ELSE "0"
    <3>1. CASE i <= n
      <4> HIDE DEF z, k
      <4> QED BY <1>3, <1>6, <1>8, <3>1 DEF DigitTexts
    <3>2. CASE i > n
      <4>1. i - n \in 1..k
        BY <1>6, <3>2
      <4>2. z[i - n] = "0"
        BY <4>1
      <4>3. (d \o z)[i] = z[i - n]
        <5> HIDE DEF z, k
        <5> QED BY <1>3, <1>6, <1>8, <3>2, <4>1 DEF DigitTexts
      <4> QED BY <1>6, <3>2, <4>2, <4>3
    <3> QED BY <1>6, <3>1, <3>2
  <2> HIDE DEF y, p, z, k, n
  <2>5. y = [i \in 1..Decimals |-> y[i]] /\ \A i \in 1..Decimals : y[i] = IF i <= n THEN d[i] ELSE "0"
    BY <2>3, <2>4 DEF y
  <2>6. p = y
    BY <2>1, <2>5
  <2> QED BY <2>6 DEF y
<1>10. ValueOf(p) = ValueOf(d) * c
  <2>1. ValueOf(d \o z) = ValueOf(d) * TenTo[Len(z)] + ValueOf(z)
    <3> HIDE DEF z
    <3> QED BY <1>3, <1>8, ValueOfBoth
  <2>2. ValueOf(d) \in Nat
    BY <1>3, ValueCounts
  <2> HIDE DEF z, p, k
  <2>3. ValueOf(d) * c \in Nat /\ TenTo[Len(z)] = c
    BY <1>7, <1>8, <2>2
  <2> HIDE DEF c
  <2> QED BY <1>8, <1>9, <2>1, <2>3
<1>11. m = ValueOf(w) * den + ValueOf(d) /\ ValueOf(d) \in Nat /\ ValueOf(w) \in Nat
  BY <1>2, <1>3, ValueOfBoth, ValueCounts
<1>12. ReadF64(s) = Nearest(m * Unit, den)
  <2> HIDE DEF w, s
  <2> QED BY <1>5 DEF ReadF64
<1>13. a = One * (a \div One) + (a % One)
  BY DollarsAndCents
<1> DEFINE x == ValueOf(w)
           y == ValueOf(d)
<1>14. m \in Nat /\ m * c = a
  <2>1. x \in Nat /\ y \in Nat /\ m = x * den + y /\ a = One * x + y * c
    BY <1>2, <1>4, <1>10, <1>11, <1>13
  <2> HIDE DEF x, y, m, den, c
  <2>2. x * den \in Nat /\ (x * den + y) * c = (x * den) * c + y * c /\ (x * den) * c = (den * c) * x
    BY <1>7, <2>1
  <2> QED BY <1>7, <2>1, <2>2
<1> HIDE DEF m, den, c
<1> QED BY <1>7, <1>12, <1>14 DEF s

\* Reading the text of an amount rounds once.
LEMMA ReadIsNear ==
    ASSUME NEW a \in 1..MaxPrice
    PROVE  Near(ReadF64(AmountPaidUsdc(a)), a, a)
<1>1. PICK m \in Nat, den \in Nat \ {0}, c \in Nat \ {0} :
            /\ den * c = One /\ m * c = a
            /\ ReadF64(AmountPaidUsdc(a)) = Nearest(m * Unit, den)
  BY AmountDigits
<1> QED BY <1>1, QuotientIsNear

\* What a buyer is told he paid reads as what was paid: the text
\* amount_paid_usdc writes is a price text for the very same amount, and parsed
\* as an f64 and printed with six decimals it is that amount.
THEOREM AmountTexts == AmountRoundTrips
<1> SUFFICES ASSUME NEW a \in 1..MaxPrice
             PROVE  PriceToAtomic(AmountPaidUsdc(a)) = a /\ Shown(ReadF64(AmountPaidUsdc(a))) = a
  BY DEF AmountRoundTrips
<1>1. PriceToAtomic(AmountPaidUsdc(a)) = a
  BY AmountIsPrice
<1>2. a \in Nat /\ a < Half
  BY Widths
<1> DEFINE x == ReadF64(AmountPaidUsdc(a))
<1>3. Near(x, a, a)
  BY ReadIsNear
<1> HIDE DEF x
<1>4. Shown(x) = a
  BY <1>2, <1>3, ShownIs
<1> QED BY <1>1, <1>4 DEF x

\* Adding rounds once more, by less than a part per unit of the sum.
LEMMA SumIsNear ==
    ASSUME NEW x, NEW y, NEW a \in Nat, NEW b \in Nat, NEW k \in Nat, NEW l \in Nat,
           Near(x, a, k), Near(y, b, l), k + l <= 2 * Half, a + b + 1 < 2 * Half
    PROVE  Near(AddF64(x, y), a + b, k + l + (a + b + 1))
<1> DEFINE U == Unit
           H == Half
           p == One * x
           q == One * y
           s == a + b
           e == k + l
           num == x + y
           B == IF H <= num THEN num ELSE H
           z == Nearest(num, 1)
<1>1. /\ H \in Nat \ {0} /\ U \in Nat \ {0} /\ One \in Nat \ {0} /\ One * H <= U
      /\ x \in Nat /\ y \in Nat /\ s \in Nat /\ e \in Nat /\ e <= 2 * H /\ s + 1 < 2 * H
  BY Widths DEF Near
<1>2. /\ (2 * H) * p <= (2 * H) * (a * U) + k * U /\ (2 * H) * (a * U) <= (2 * H) * p + k * U
      /\ (2 * H) * q <= (2 * H) * (b * U) + l * U /\ (2 * H) * (b * U) <= (2 * H) * q + l * U
  BY DEF Near
<1>3. TwoTo[Precision + Scale] = (2 * H) * U
  BY Widths DEF Unit
<1> HIDE DEF U, H
<1> DEFINE w == One * num
<1>4. w = p + q /\ p \in Nat /\ q \in Nat /\ num \in Nat /\ w \in Nat
  BY <1>1
<1>5. /\ (2 * H) * w <= (2 * H) * (s * U) + e * U
      /\ (2 * H) * (s * U) <= (2 * H) * w + e * U
  <2>1. /\ (2 * H) * w = (2 * H) * p + (2 * H) * q
        /\ (2 * H) * (s * U) = (2 * H) * (a * U) + (2 * H) * (b * U)
        /\ e * U = k * U + l * U
    <3> HIDE DEF p, q, w
    <3>1. (2 * H) * w = (2 * H) * p + (2 * H) * q
      BY <1>1, <1>4
    <3>2. s * U = a * U + b * U /\ a * U \in Nat /\ b * U \in Nat
      BY <1>1
    <3>3. (2 * H) * (s * U) = (2 * H) * (a * U) + (2 * H) * (b * U)
      <4> DEFINE f == a * U
                 g == b * U
      <4>1. f \in Nat /\ g \in Nat /\ s * U = f + g
        BY <3>2
      <4> HIDE DEF f, g
      <4>2. (2 * H) * (f + g) = (2 * H) * f + (2 * H) * g
        BY <1>1, <4>1
      <4> QED BY <4>1, <4>2 DEF f, g
    <3>4. e * U = k * U + l * U
      BY <1>1
    <3> QED BY <3>1, <3>3, <3>4
  <2> DEFINE f1 == (2 * H) * p
             f2 == (2 * H) * q
             g1 == (2 * H) * (a * U)
             g2 == (2 * H) * (b * U)
             k1 == k * U
             l1 == l * U
  <2>2. f1 \in Nat /\ f2 \in Nat /\ g1 \in Nat /\ g2 \in Nat /\ k1 \in Nat /\ l1 \in Nat
    BY <1>1, <1>4
  <2>3. f1 <= g1 + k1 /\ f2 <= g2 + l1 /\ g1 <= f1 + k1 /\ g2 <= f2 + l1
    BY <1>2
  <2>4. (2 * H) * w = f1 + f2 /\ (2 * H) * (s * U) = g1 + g2 /\ e * U = k1 + l1
    BY <2>1
  <2> HIDE DEF f1, f2, g1, g2, k1, l1, p, q, w, s, e
  <2> QED BY <2>2, <2>3, <2>4
<1> HIDE DEF p, q, s, e
<1>6. w <= (s + 1) * U
  <2>1. e * U <= (2 * H) * U
    BY <1>1, Times
  <2>2. (2 * H) * ((s + 1) * U) = (2 * H) * (s * U) + (2 * H) * U
    BY <1>1
  <2> DEFINE v == (s + 1) * U
             h == 2 * H
             f == h * (s * U)
             g == h * U
             eu == e * U
  <2>3. v \in Nat /\ h \in Nat \ {0} /\ f \in Nat /\ g \in Nat /\ eu \in Nat
    BY <1>1
  <2>4. h * w <= f + eu /\ eu <= g /\ h * v = f + g
    BY <1>5, <2>1, <2>2
  <2>5. h * w \in Nat
    BY <1>4, <2>3
  <2> HIDE DEF v, h, f, g, eu, w
  <2>6. h * w <= h * v
    BY <2>3, <2>4, <2>5
  <2>7. w <= v
    BY <1>4, <2>3, <2>6, Cancelled
  <2> QED BY <2>7 DEF v
<1>7. num <= w /\ (s + 1) * U < (2 * H) * U
  BY <1>1, <1>4
<1>8. num \div 1 < TwoTo[Precision + Scale]
  <2>1. num \div 1 = num
    BY <1>4
  <2>2. (s + 1) * U \in Nat /\ (2 * H) * U \in Nat
    BY <1>1
  <2> HIDE DEF num, w
  <2> QED BY <1>3, <1>4, <1>6, <1>7, <2>1, <2>2
<1>9. B \in Nat /\ 1 * H <= B /\ num <= B /\ One * B <= (s + 1) * U
  <2>1. B \in Nat /\ 1 * H <= B /\ num <= B /\ (B = num \/ B = H)
    BY <1>1, <1>4
  <2>2. U <= (s + 1) * U /\ (s + 1) * U \in Nat /\ One * H \in Nat
    BY <1>1
  <2> DEFINE v == (s + 1) * U
  <2>3. One * num <= v /\ One * H <= v
    <3>1. One * H <= U /\ U <= v /\ v \in Nat /\ One * H \in Nat
      BY <1>1, <2>2
    <3>2. One * H <= v
      <4> HIDE DEF v
      <4> QED BY <1>1, <3>1
    <3> QED BY <1>6, <3>2
  <2> HIDE DEF B, v, num
  <2>4. One * B <= v
    BY <2>1, <2>3
  <2> QED BY <2>1, <2>4 DEF v
<1> HIDE DEF B, num
<1>10. /\ z \in Nat
       /\ (2 * H) * (1 * z) <= (2 * H) * num + B
       /\ (2 * H) * num <= (2 * H) * (1 * z) + B
  BY <1>4, <1>8, <1>9, NearestIs DEF H
<1>11. AddF64(x, y) = z
  BY DEF AddF64, num
<1> HIDE DEF z, w
<1> DEFINE h == 2 * H
           f == h * z
           g == h * num
           v == (s + 1) * U
<1>12. h \in Nat /\ f \in Nat /\ g \in Nat /\ v \in Nat /\ f <= g + B /\ g <= f + B
  BY <1>1, <1>4, <1>9, <1>10
<1>13. /\ One * f = h * (One * z) /\ One * g = h * w
       /\ One * (g + B) = One * g + One * B /\ One * (f + B) = One * f + One * B
  BY <1>1, <1>4, <1>9, <1>10, <1>12 DEF w
<1>14. One * f <= One * (g + B) /\ One * g <= One * (f + B)
  <2> HIDE DEF f, g
  <2> QED BY <1>1, <1>9, <1>12, Times
<1> DEFINE f2 == h * (One * z)
           g2 == h * w
           r == h * (s * U)
           eu == e * U
           ob == One * B
<1>15. f2 \in Nat /\ g2 \in Nat /\ r \in Nat /\ eu \in Nat /\ ob \in Nat
  BY <1>1, <1>4, <1>9, <1>10
<1>16. /\ f2 <= g2 + ob /\ g2 <= f2 + ob /\ ob <= v
       /\ g2 <= r + eu /\ r <= g2 + eu
  BY <1>5, <1>9, <1>13, <1>14
<1>17. (e + (s + 1)) * U = eu + v
  BY <1>1
<1> HIDE DEF h, f, g, v, f2, g2, r, eu, ob
<1>18. f2 <= r + (eu + v) /\ r <= f2 + (eu + v)
  BY <1>12, <1>15, <1>16
<1>19. Near(z, s, e + (s + 1))
  BY <1>10, <1>17, <1>18 DEF Near, f2, r, h, U, H
<1> QED BY <1>11, <1>19 DEF s, e
=============================================================================
