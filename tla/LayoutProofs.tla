----------------------------- MODULE LayoutProofs -----------------------------
(***************************************************************************)
(* What the operators of Layouts compute, for every word width, class      *)
(* table, page size and header; and what the proofs need of numbers for    *)
(* it: least elements, in the place of induction, multiples and            *)
(* remainders.                                                             *)
(***************************************************************************)
EXTENDS Layouts, WellFoundedInduction, TLAPS

-----------------------------------------------------------------------------
(* In the place of induction.                                              *)

\* A set of numbers that is not empty has a least one.
LEMMA LeastIn ==
  ASSUME NEW S \in SUBSET Nat, S # {}
  PROVE  \E x \in S : \A y \in S : x <= y
<1> DEFINE R == OpToRel(<, Nat)
<1>1. IsWellFoundedOn(R, Nat)
  BY NatLessThanWellFounded
<1>2. PICK x \in S : \A y \in S : ~ (<<y, x>> \in R)
  <2> HIDE DEF R
  <2> QED BY <1>1, WFMin
<1>3. \A y \in S : ~ (y < x)
  BY <1>2 DEF OpToRel
<1> QED BY <1>3

\* Below a bound it has a greatest one.
LEMMA GreatestIn ==
  ASSUME NEW n \in Nat, NEW S \in SUBSET (0 .. n), S # {}
  PROVE  \E x \in S : \A y \in S : y <= x
<1> DEFINE D == {d \in Nat : n - d \in S}
<1>1. D \in SUBSET Nat /\ D # {}
  <2>1. PICK y \in S : TRUE
    OBVIOUS
  <2>2. n - y \in Nat /\ n - (n - y) = y
    BY <2>1
  <2> QED BY <2>2
<1>2. PICK d \in D : \A e \in D : d <= e
  <2> HIDE DEF D
  <2> QED BY <1>1, LeastIn
<1>3. ASSUME NEW y \in S PROVE y <= n - d
  <2>1. n - y \in Nat /\ n - (n - y) = y
    OBVIOUS
  <2>2. n - y \in D
    BY <2>1
  <2>3. d <= n - y
    BY <1>2, <2>2
  <2> QED BY <2>1, <2>3
<1> QED BY <1>3

\* A set that has 0, and below a bound the successor of each of its numbers, has
\* all numbers up to the bound.
LEMMA UpTo ==
  ASSUME NEW n \in Nat, NEW T, 0 \in T, \A k \in 1 .. n : k - 1 \in T => k \in T
  PROVE  \A k \in 0 .. n : k \in T
<1> SUFFICES ASSUME NEW m \in 0 .. n, m \notin T PROVE FALSE
  OBVIOUS
<1> DEFINE Out == {k \in 0 .. n : k \notin T}
<1>1. Out \in SUBSET Nat /\ Out # {}
  OBVIOUS
<1>2. PICK x \in Out : \A y \in Out : x <= y
  <2> HIDE DEF Out
  <2> QED BY <1>1, LeastIn
<1>3. x \in 1 .. n /\ x - 1 \in 0 .. n /\ ~ (x <= x - 1)
  BY <1>2
<1>4. x - 1 \in T
  BY <1>2, <1>3
<1> QED BY <1>2, <1>3, <1>4

\* A set of numbers that has 0, and n + 1 for every n it has, has them all: the
\* least number outside would have a predecessor inside.
LEMMA AllNumbers ==
  ASSUME NEW T, 0 \in T, \A n \in Nat : n \in T => n + 1 \in T
  PROVE  \A n \in Nat : n \in T
<1> SUFFICES ASSUME NEW m \in Nat, m \notin T PROVE FALSE
  OBVIOUS
<1> DEFINE Out == {n \in Nat : n \notin T}
<1>1. Out \in SUBSET Nat /\ Out # {}
  OBVIOUS
<1>3. PICK x \in Out : \A y \in Out : x <= y
  <2> HIDE DEF Out
  <2> QED BY <1>1, LeastIn
<1>4. \A y \in Out : ~ (y < x)
  BY <1>3
<1>5. x # 0 /\ x \in Nat /\ x - 1 \in Nat /\ x - 1 < x
  OBVIOUS
<1>6. x - 1 \in T
  BY <1>4, <1>5
<1>7. x - 1 + 1 = x
  BY <1>5
<1> QED BY <1>5, <1>6, <1>7

-----------------------------------------------------------------------------
(* Multiples and remainders.                                               *)

\* A remainder and a quotient are what they are said to be.
LEMMA Remainder ==
  ASSUME NEW x \in Int, NEW s \in Nat \ {0}, NEW k \in Int, NEW r \in 0 .. s - 1,
         x = k * s + r
  PROVE  x % s = r /\ x \div s = k
OBVIOUS

\* Every number is a multiple and a remainder.
LEMMA Division ==
  ASSUME NEW x \in Int, NEW s \in Nat \ {0}
  PROVE  \E k \in Int, r \in 0 .. s - 1 : x = k * s + r /\ x % s = r
OBVIOUS

\* One without a remainder is a multiple.
LEMMA Multiple ==
  ASSUME NEW x \in Int, NEW s \in Nat \ {0}, x % s = 0
  PROVE  \E k \in Int : x = k * s
OBVIOUS

\* And the other way round.
LEMMA NoRemainder ==
  ASSUME NEW s \in Nat \ {0}, NEW k \in Int
  PROVE  k * s \in Int /\ (k * s) % s = 0
OBVIOUS

\* What the provers are to know of products.
LEMMA Products ==
  /\ \A a, b, c \in Int : (a + b) * c = a * c + b * c
  /\ \A a, b, c \in Int : (a * b) * c = a * (b * c)
OBVIOUS

\* A sum of multiples is a multiple.
LEMMA SumOfMultiples ==
  ASSUME NEW x \in Int, NEW y \in Int, NEW s \in Nat \ {0}, x % s = 0, y % s = 0
  PROVE  (x + y) % s = 0
<1>1. PICK j \in Int : x = j * s
  BY Multiple
<1>2. PICK k \in Int : y = k * s
  BY Multiple
<1>3. x + y = (j + k) * s /\ j + k \in Int
  BY <1>1, <1>2, Products
<1> QED BY <1>3, NoRemainder

\* So is a multiple of a multiple.
LEMMA MultipleOfMultiple ==
  ASSUME NEW x \in Int, NEW m \in Nat \ {0}, NEW s \in Nat \ {0}, x % m = 0, m % s = 0
  PROVE  x % s = 0
<1>1. PICK j \in Int : x = j * m
  BY Multiple
<1>2. PICK k \in Int : m = k * s
  BY Multiple
<1>3. x = (j * k) * s /\ j * k \in Int
  BY <1>1, <1>2, Products
<1> QED BY <1>3, NoRemainder

\* The least multiple of s that is not below x, as the code computes it.
LEMMA NextMultiple ==
  ASSUME NEW x \in Int, NEW s \in Nat \ {0}
  PROVE  LET y == (x + s - 1) - ((x + s - 1) % s)
         IN y \in Int /\ y % s = 0 /\ x <= y /\ y < x + s
<1>1. PICK k \in Int, r \in 0 .. s - 1 : x + s - 1 = k * s + r /\ (x + s - 1) % s = r
  <2>1. x + s - 1 \in Int
    OBVIOUS
  <2> QED BY <2>1, Division
<1>2. x + s - 1 - r = k * s + 0 /\ 0 \in 0 .. s - 1 /\ x + s - 1 - r \in Int
  BY <1>1
<1>3. (x + s - 1 - r) % s = 0
  BY <1>2, Remainder
<1> QED BY <1>1, <1>2, <1>3

-----------------------------------------------------------------------------
(* Powers of two.                                                          *)

\* p gives the first n powers.
IsPow(p, n) == p = [k \in 0 .. n |-> IF k = 0 THEN 1 ELSE 2 * p[k - 1]]

\* There is such a function for every n.
LEMMA PowExists == \A n \in Nat : \E p : IsPow(p, n)
<1> DEFINE T == {n \in Nat : \E p : IsPow(p, n)}
<1>1. 0 \in T
  <2> DEFINE p == [k \in 0 .. 0 |-> 1]
  <2>1. p = [k \in 0 .. 0 |-> IF k = 0 THEN 1 ELSE 2 * p[k - 1]]
    OBVIOUS
  <2> HIDE DEF p
  <2> QED BY <2>1 DEF IsPow
<1>2. ASSUME NEW n \in Nat, n \in T PROVE n + 1 \in T
  <2>1. PICK v : v = [k \in 0 .. n |-> IF k = 0 THEN 1 ELSE 2 * v[k - 1]]
    BY <1>2 DEF IsPow
  <2> DEFINE p == [k \in 0 .. n + 1 |-> IF k <= n THEN v[k] ELSE 2 * v[n]]
  <2>2. ASSUME NEW k \in 0 .. n + 1
        PROVE  p[k] = IF k = 0 THEN 1 ELSE 2 * p[k - 1]
    <3>1. CASE k = 0
      BY <2>1, <3>1
    <3>2. CASE k # 0 /\ k <= n
      <4>1. p[k] = v[k] /\ p[k - 1] = v[k - 1] /\ k \in 0 .. n
        BY <3>2
      <4> QED BY <2>1, <3>2, <4>1
    <3>3. CASE k = n + 1
      <4>1. p[k] = 2 * v[n] /\ p[k - 1] = v[n] /\ k # 0
        BY <3>3
      <4> QED BY <4>1
    <3> QED BY <3>1, <3>2, <3>3
  <2>3. p = [k \in 0 .. n + 1 |-> p[k]]
    OBVIOUS
  <2> HIDE DEF p
  <2>4. p = [k \in 0 .. n + 1 |-> IF k = 0 THEN 1 ELSE 2 * p[k - 1]]
    BY <2>2, <2>3
  <2>5. IsPow(p, n + 1) /\ n + 1 \in Nat
    BY <2>4 DEF IsPow
  <2> QED BY <2>5
<1> HIDE DEF T
<1>3. \A n \in Nat : n \in T
  BY <1>1, <1>2, AllNumbers
<1> QED BY <1>3 DEF T

\* What Pow2 computes.
LEMMA Pow2Is ==
  /\ Pow2[0] = 1
  /\ \A k \in 1 .. WordBits : Pow2[k] = 2 * Pow2[k - 1]
  /\ \A k \in 0 .. WordBits : Pow2[k] \in Nat \ {0}
<1>1. WordBits \in Nat
  BY LayoutsAssumption
<1>2. IsPow(Pow2, WordBits)
  <2>1. \E p : IsPow(p, WordBits)
    BY <1>1, PowExists
  <2>2. Pow2 = CHOOSE p : p = [k \in 0 .. WordBits |-> IF k = 0 THEN 1 ELSE 2 * p[k - 1]]
    BY Zenon DEF Pow2
  <2> QED BY <2>1, <2>2, Zenon DEF IsPow
<1>3. PICK p : p = Pow2
  OBVIOUS
<1>4. p = [k \in 0 .. WordBits |-> IF k = 0 THEN 1 ELSE 2 * p[k - 1]]
  BY <1>2, <1>3 DEF IsPow
<1>5. p[0] = 1 /\ \A k \in 1 .. WordBits : p[k] = 2 * p[k - 1]
  <2>1. \A k \in 0 .. WordBits : p[k] = IF k = 0 THEN 1 ELSE 2 * p[k - 1]
    BY <1>4, Zenon
  <2> QED BY <1>1, <2>1
<1> DEFINE T == {k \in 0 .. WordBits : p[k] \in Nat \ {0}}
<1>6. 0 \in T
  BY <1>1, <1>5
<1>7. ASSUME NEW k \in 1 .. WordBits, k - 1 \in T PROVE k \in T
  <2>1. p[k] = 2 * p[k - 1] /\ p[k - 1] \in Nat \ {0}
    BY <1>5, <1>7
  <2> QED BY <2>1
<1> HIDE DEF T
<1>8. \A k \in 0 .. WordBits : k \in T
  BY <1>1, <1>6, <1>7, UpTo
<1> QED BY <1>3, <1>5, <1>8 DEF T

\* A larger power is a multiple of a smaller one.
LEMMA PowerDivides ==
  ASSUME NEW j \in 0 .. WordBits, NEW k \in 0 .. WordBits, j <= k
  PROVE  Pow2[j] <= Pow2[k] /\ Pow2[k] % Pow2[j] = 0
<1>1. WordBits \in Nat
  BY LayoutsAssumption
<1>2. PICK p : p = Pow2
  OBVIOUS
<1>3. /\ \A i \in 1 .. WordBits : p[i] = 2 * p[i - 1]
      /\ \A i \in 0 .. WordBits : p[i] \in Nat \ {0}
  BY <1>2, Pow2Is
<1> DEFINE T == {i \in 0 .. WordBits : j <= i => p[j] <= p[i] /\ p[i] % p[j] = 0}
<1>4. p[j] <= p[j] /\ p[j] % p[j] = 0
  <2>1. PICK s \in Nat \ {0} : s = p[j]
    BY <1>3
  <2>2. (1 * s) % s = 0 /\ 1 * s = s
    BY NoRemainder
  <2> QED BY <2>1, <2>2
<1>5. 0 \in T
  BY <1>1, <1>4
<1>6. ASSUME NEW i \in 1 .. WordBits, i - 1 \in T PROVE i \in T
  <2> SUFFICES ASSUME j <= i PROVE p[j] <= p[i] /\ p[i] % p[j] = 0
    OBVIOUS
  <2>1. CASE j = i
    BY <1>4, <2>1
  <2>2. CASE j # i
    <3>1. j <= i - 1 /\ i - 1 \in 0 .. WordBits
      BY <1>1, <2>2
    <3>2. p[j] <= p[i - 1] /\ p[i - 1] % p[j] = 0
      BY <1>6, <3>1
    <3>3. PICK s \in Nat \ {0}, q \in Nat \ {0} : s = p[j] /\ q = p[i - 1]
      BY <1>3, <3>1
    <3>4. p[i] = q + q
      BY <1>3, <3>3
    <3>5. (q + q) % s = 0
      BY <3>2, <3>3, SumOfMultiples
    <3> QED BY <3>2, <3>3, <3>4, <3>5
  <2> QED BY <2>1, <2>2
<1> HIDE DEF T
<1>7. \A i \in 0 .. WordBits : i \in T
  BY <1>1, <1>5, <1>6, UpTo
<1> QED BY <1>2, <1>7 DEF T

\* So it is for any two powers.
LEMMA PowersDivide ==
  ASSUME NEW a \in Powers, NEW b \in Powers, a <= b
  PROVE  a \in Nat \ {0} /\ b \in Nat \ {0} /\ b % a = 0
<1>1. PICK j \in 0 .. WordBits : a = Pow2[j]
  BY DEF Powers
<1>2. PICK k \in 0 .. WordBits : b = Pow2[k]
  BY DEF Powers
<1>3. a \in Nat \ {0} /\ b \in Nat \ {0}
  BY <1>1, <1>2, Pow2Is
<1>4. CASE j <= k
  BY <1>1, <1>2, <1>3, <1>4, PowerDivides
<1>5. CASE k <= j
  <2>1. b <= a
    BY <1>1, <1>2, <1>5, PowerDivides
  <2>2. b = 1 * a
    BY <1>3, <2>1
  <2> QED BY <1>3, <2>2, NoRemainder
<1>6. j <= k \/ k <= j
  BY LayoutsAssumption
<1> QED BY <1>4, <1>5, <1>6

-----------------------------------------------------------------------------
(* size_class.rs.                                                          *)

\* leading_zeros counts right: n has BitLength(n) bits and not fewer.
LEMMA BitLengthIs ==
  ASSUME NEW K \in 0 .. WordBits, NEW n \in Nat, n < Pow2[K], NEW b, b = BitLength(n)
  PROVE  /\ b \in 0 .. K
         /\ n < Pow2[b]
         /\ b = 0 \/ n >= Pow2[b - 1]
<1>1. WordBits \in Nat
  BY LayoutsAssumption
<1>2. PICK p : p = Pow2
  OBVIOUS
<1>3. \A i \in 0 .. WordBits : p[i] \in Nat \ {0}
  BY <1>2, Pow2Is
<1> DEFINE S == {k \in 0 .. WordBits : n < p[k]}
<1>4. S \in SUBSET Nat /\ S # {}
  BY <1>1, <1>2
<1>5. PICK x \in S : \A y \in S : x <= y
  <2> HIDE DEF S
  <2> QED BY <1>4, LeastIn
<1>6. x \in 0 .. WordBits /\ n < p[x] /\ (x = 0 \/ n >= p[x - 1])
  <2>1. CASE x # 0
    <3>1. x - 1 \in 0 .. WordBits /\ ~ (x <= x - 1)
      BY <1>1, <1>5, <2>1
    <3>2. ~ (n < p[x - 1])
      BY <1>5, <3>1
    <3>3. p[x - 1] \in Nat
      BY <1>3, <3>1
    <3> QED BY <1>5, <3>2, <3>3
  <2> QED BY <1>5, <2>1
<1>7. b \in 0 .. WordBits /\ n < p[b] /\ (b = 0 \/ n >= p[b - 1])
  <2>1. b = CHOOSE k \in 0 .. WordBits : n < p[k] /\ (k = 0 \/ n >= p[k - 1])
    BY <1>2, Zenon DEF BitLength
  <2> QED BY <1>6, <2>1
<1>8. b <= K
  <2> SUFFICES ASSUME b > K PROVE FALSE
    BY <1>1, <1>7
  <2>1. b - 1 \in 0 .. WordBits /\ K <= b - 1 /\ b # 0
    BY <1>1, <1>7
  <2>2. p[K] <= p[b - 1]
    BY <1>2, <2>1, PowerDivides
  <2>3. p[K] \in Nat /\ p[b - 1] \in Nat
    BY <1>3, <2>1
  <2> QED BY <1>2, <1>7, <2>1, <2>2, <2>3
<1> QED BY <1>1, <1>2, <1>7, <1>8

\* The sizes of the classes.
LEMMA ClassSizeIs ==
  ASSUME NEW c \in 0 .. NumClasses - 1
  PROVE  /\ MinShift + c \in 0 .. WordBits
         /\ SizeForClass(c) \in Powers /\ SizeForClass(c) \in Nat \ {0}
         /\ SizeForClass(c) <= SmallLimit /\ SmallLimit % SizeForClass(c) = 0
         /\ SizeForClass(c) <= IsizeMax
         /\ SmallLimit \in Nat \ {0}
<1>1. /\ MinShift + c \in 0 .. WordBits /\ MinShift + NumClasses - 1 \in 0 .. WordBits
      /\ MinShift + c <= MinShift + NumClasses - 1
      /\ WordBits - 1 \in 0 .. WordBits /\ WordBits - 1 \in 1 .. WordBits
      /\ MinShift + c <= WordBits - 1 - 1 /\ WordBits - 1 - 1 \in 0 .. WordBits
  BY LayoutsAssumption
<1>2. SizeForClass(c) \in Powers /\ SizeForClass(c) \in Nat \ {0} /\ SmallLimit \in Nat \ {0}
  BY <1>1, Pow2Is DEF SizeForClass, SmallLimit, Powers
<1>3. SizeForClass(c) <= SmallLimit /\ SmallLimit % SizeForClass(c) = 0
  BY <1>1, PowerDivides DEF SizeForClass, SmallLimit
<1>4. SizeForClass(c) <= IsizeMax
  <2>1. PICK x, y, z : x = SizeForClass(c) /\ y = Pow2[WordBits - 1 - 1] /\ z = Pow2[WordBits - 1]
    OBVIOUS
  <2>2. x <= y
    BY <1>1, <2>1, PowerDivides DEF SizeForClass
  <2>3. z = 2 * y /\ y \in Nat \ {0}
    BY <1>1, <2>1, Pow2Is
  <2> QED BY <1>2, <2>1, <2>2, <2>3 DEF IsizeMax
<1> QED BY <1>1, <1>2, <1>3, <1>4

\* size_class_index picks a class that is large enough and, unless it is the
\* smallest, less than twice too large.
LEMMA ClassIs ==
  ASSUME NEW e \in Nat \ {0}, e <= SmallLimit, NEW c, c = SizeClassIndex(e)
  PROVE  /\ c \in 0 .. NumClasses - 1
         /\ e <= SizeForClass(c)
         /\ c = 0 \/ SizeForClass(c) < 2 * e
<1>1. /\ WordBits \in Nat /\ MinShift \in 0 .. WordBits /\ NumClasses \in Nat \ {0}
      /\ MinShift + NumClasses - 1 \in 0 .. WordBits
  BY LayoutsAssumption
<1>2. PICK p : p = Pow2
  OBVIOUS
<1>3. /\ \A i \in 1 .. WordBits : p[i] = 2 * p[i - 1]
      /\ \A i \in 0 .. WordBits : p[i] \in Nat \ {0}
  BY <1>2, Pow2Is
<1>4. CASE e <= p[MinShift]
  <2>1. c = 0
    BY <1>2, <1>4 DEF SizeClassIndex
  <2>2. MinShift + 0 = MinShift
    BY <1>1
  <2> QED BY <1>1, <1>2, <1>4, <2>1, <2>2 DEF SizeForClass
<1>5. CASE ~ (e <= p[MinShift])
  <2>1. PICK k : k = BitLength(e - 1)
    OBVIOUS
  <2>2. c = k - MinShift
    BY <1>2, <1>5, <2>1 DEF SizeClassIndex
  <2>3. PICK K : K = MinShift + NumClasses - 1
    OBVIOUS
  <2>4. K \in 0 .. WordBits /\ e - 1 \in Nat /\ e - 1 < Pow2[K]
    <3>1. K \in 0 .. WordBits /\ Pow2[K] \in Nat /\ e <= Pow2[K]
      BY <1>1, <2>3, Pow2Is DEF SmallLimit
    <3> QED BY <3>1
  <2>5. /\ k \in 0 .. K /\ e - 1 < p[k] /\ (k = 0 \/ e - 1 >= p[k - 1])
    BY <1>2, <2>1, <2>4, BitLengthIs
  <2>6. k \in 0 .. WordBits
    BY <1>1, <2>4, <2>5
  <2>7. k > MinShift
    <3> SUFFICES ASSUME k <= MinShift PROVE FALSE
      BY <1>1, <2>6
    <3>1. p[k] <= p[MinShift]
      BY <1>1, <1>2, <2>6, PowerDivides
    <3>2. p[k] \in Nat /\ p[MinShift] \in Nat
      BY <1>1, <1>3, <2>6
    <3> QED BY <1>5, <2>5, <3>1, <3>2
  <2>8. c \in 0 .. NumClasses - 1 /\ MinShift + c = k
    BY <1>1, <2>2, <2>3, <2>5, <2>7
  <2>9. SizeForClass(c) = p[k]
    BY <1>2, <2>8 DEF SizeForClass
  <2>10. k \in 1 .. WordBits /\ k - 1 \in 0 .. WordBits
    BY <1>1, <2>6, <2>7
  <2>11. p[k] = 2 * p[k - 1] /\ p[k - 1] \in Nat /\ p[k] \in Nat
    BY <1>3, <2>6, <2>10
  <2>12. e <= p[k] /\ p[k] < 2 * e
    BY <2>5, <2>10, <2>11
  <2> QED BY <2>8, <2>9, <2>12
<1> QED BY <1>4, <1>5

-----------------------------------------------------------------------------
(* Blocks and mappings.                                                    *)

\* The larger of two numbers.
LEMMA MaximumIs ==
  ASSUME NEW a \in Int, NEW b \in Int
  PROVE  /\ Maximum(a, b) \in {a, b}
         /\ a <= Maximum(a, b) /\ b <= Maximum(a, b)
BY DEF Maximum

\* As many pieces as the quotient says fit.
LEMMA QuotientFits ==
  ASSUME NEW x \in Nat, NEW s \in Nat \ {0}, NEW i \in 0 .. x \div s - 1
  PROVE  i * s \in Nat /\ i * s + s <= x
<1>1. PICK k \in Int, r \in 0 .. s - 1 : x = k * s + r
  BY Division
<1>2. x \div s = k
  BY <1>1, Remainder
<1>3. PICK d \in Nat : k = i + 1 + d
  <2>1. k - (i + 1) \in Nat /\ k = i + 1 + (k - (i + 1))
    BY <1>2
  <2> QED BY <2>1
<1>4. k * s = i * s + s + d * s /\ d * s \in Nat /\ i * s \in Nat
  <2>1. ((i + 1) + d) * s = (i + 1) * s + d * s /\ (i + 1) * s = i * s + 1 * s
    BY Products
  <2>2. d * s \in Nat /\ i * s \in Nat /\ 1 * s = s
    OBVIOUS
  <2> QED BY <1>3, <2>1, <2>2
<1> QED BY <1>1, <1>4

\* The alignment of the payload.
LEMMA PaddingIs ==
  ASSUME NEW align \in Powers, NEW unit, unit = Maximum(align, HeaderAlign)
  PROVE  /\ align \in Nat \ {0} /\ HeaderAlign \in Nat \ {0} /\ unit \in Nat \ {0}
         /\ unit % align = 0 /\ unit % HeaderAlign = 0
<1>1. HeaderAlign \in Powers
  BY LayoutsAssumption
<1>2. align \in Nat \ {0} /\ HeaderAlign \in Nat \ {0}
  BY <1>1, Pow2Is DEF Powers
<1>3. unit \in {align, HeaderAlign} /\ align <= unit /\ HeaderAlign <= unit
  BY <1>2, MaximumIs
<1>4. unit \in Powers
  BY <1>1, <1>3
<1> QED BY <1>1, <1>2, <1>3, <1>4, PowersDivide

\* prepare_large_payload leaves room for the header, aligns the payload as asked and
\* the header as its type wants.
LEMMA PayloadIs ==
  ASSUME NEW raw \in Nat, NEW align \in Powers, NEW unit, unit = Maximum(align, HeaderAlign),
         NEW ptr, ptr = PayloadAddr(raw, align)
  PROVE  /\ ptr \in Int /\ ptr >= raw + HeaderSize /\ ptr <= raw + HeaderSize + unit - 1
         /\ ptr % align = 0 /\ (ptr - HeaderSize) % HeaderAlign = 0
<1>1. /\ align \in Nat \ {0} /\ HeaderAlign \in Nat \ {0} /\ unit \in Nat \ {0}
      /\ unit % align = 0 /\ unit % HeaderAlign = 0
  BY PaddingIs
<1>2. HeaderSize \in Nat /\ HeaderSize % HeaderAlign = 0
  BY LayoutsAssumption
<1>3. PICK x : x = raw + HeaderSize
  OBVIOUS
<1>4. x \in Int /\ ptr = AlignUp(x, unit)
  BY <1>2, <1>3 DEF PayloadAddr
<1>5. ptr \in Int /\ ptr % unit = 0 /\ x <= ptr /\ ptr < x + unit
  BY <1>1, <1>4, NextMultiple DEF AlignUp
<1>6. ptr % align = 0 /\ ptr % HeaderAlign = 0
  BY <1>1, <1>5, MultipleOfMultiple
<1>7. (ptr - HeaderSize) % HeaderAlign = 0
  <2>1. PICK j \in Int : ptr = j * HeaderAlign
    BY <1>1, <1>5, <1>6, Multiple
  <2>2. PICK k \in Int : HeaderSize = k * HeaderAlign
    <3>1. HeaderSize \in Int
      BY <1>2
    <3> QED BY <1>1, <1>2, <3>1, Multiple
  <2>3. ptr - HeaderSize = (j - k) * HeaderAlign /\ j - k \in Int
    <3>1. ((j - k) + k) * HeaderAlign = (j - k) * HeaderAlign + k * HeaderAlign /\ (j - k) + k = j
      BY <1>1, Products
    <3>2. (j - k) * HeaderAlign \in Int /\ k * HeaderAlign \in Int
      BY <1>1
    <3> QED BY <2>1, <2>2, <3>1, <3>2
  <2> QED BY <1>1, <2>3, NoRemainder
<1> QED BY <1>1, <1>2, <1>3, <1>5, <1>6, <1>7

=============================================================================
