---------------------------- MODULE NumberProofs ----------------------------
(***************************************************************************)
(* bignum.c for every number of bytes and every base, and the seconds of a *)
(* retargeting.  The sums of digits are related by induction over the      *)
(* index: the low part of a number, below an index, is smaller than the    *)
(* place of that index.                                                    *)
(***************************************************************************)
EXTENDS BigNumCalls, Retarget, SumProofs, FiniteSetTheorems

-----------------------------------------------------------------------------
(* Places and digits.                                                       *)

LEMMA PlaceStep ==
  /\ Place(0) = 1
  /\ \A i \in Nat : Place(i) \in Nat /\ Place(i) > 0 /\ Place(i + 1) = Base * Place(i)
<1>1. Base \in Nat /\ Base \in Int /\ Base > 0
  BY BigNumAssumption
<1> QED
  BY <1>1, PowerStep, PowerPositive DEF Place

\* The digits of a number.
LEMMA Digits ==
  ASSUME NEW n \in Nat, NEW a, a \in BigNum(n)
  PROVE  /\ DOMAIN a = 0 .. n - 1 /\ Size(a) = n
         /\ \A i \in 0 .. n - 1 : a[i] \in Nat /\ a[i] \in 0 .. Base - 1
<1>1. DOMAIN a = 0 .. n - 1
  BY DEF BigNum
<1>2. Size(a) = n
  <2>1. Cardinality(0 .. n - 1) = n
    BY FS_Interval
  <2> QED
    BY <1>1, <2>1 DEF Size
<1>3. ASSUME NEW i \in 0 .. n - 1
      PROVE  a[i] \in Nat /\ a[i] \in 0 .. Base - 1
  <2>1. a[i] \in 0 .. Base - 1
    BY DEF BigNum
  <2> QED
    BY <2>1
<1> QED
  BY <1>1, <1>2, <1>3

Weights(a) == [i \in DOMAIN a |-> a[i] * Place(i)]

\* The number of the digits below index k.
Low(a, k) == SumBelow(Weights(a), k)

LEMMA LowStep ==
  ASSUME NEW n \in Nat, NEW a, a \in BigNum(n)
  PROVE  /\ Low(a, 0) = 0 /\ Value(a) = Low(a, n)
         /\ \A k \in 0 .. n - 1 : Low(a, k + 1) = Low(a, k) + a[k] * Place(k)
         /\ \A k \in 0 .. n : Low(a, k) \in Int
<1>1. DOMAIN a = 0 .. n - 1 /\ Size(a) = n
  BY Digits
<1>2. ASSUME NEW i \in 0 .. n - 1
      PROVE  Weights(a)[i] = a[i] * Place(i) /\ Weights(a)[i] \in Int
  <2>0. i \in Nat /\ a[i] \in Nat
    BY Digits
  <2>1. a[i] \in Nat /\ Place(i) \in Nat
    BY <2>0, PlaceStep
  <2>2. Weights(a)[i] = a[i] * Place(i)
    BY <1>1 DEF Weights
  <2> QED
    BY <2>1, <2>2
<1>3. Summands(Weights(a), n)
  BY <1>2 DEF Summands
<1>4. Low(a, 0) = 0
  BY SumStep DEF Low
<1>5. Value(a) = Low(a, n)
  BY <1>1 DEF Value, Low, Weights
<1>6. ASSUME NEW k \in 0 .. n - 1
      PROVE  Low(a, k + 1) = Low(a, k) + a[k] * Place(k)
  <2>1. SumBelow(Weights(a), k + 1) = SumBelow(Weights(a), k) + Weights(a)[k]
    BY <1>3, SumNext
  <2> QED
    BY <1>2, <2>1 DEF Low
<1>7. \A k \in 0 .. n : Low(a, k) \in Int
  BY <1>3, SumInt DEF Low
<1> QED
  BY <1>4, <1>5, <1>6, <1>7

\* A digit and something below its place are below the next place.
LEMMA BelowNext ==
  ASSUME NEW d \in 0 .. Base - 1, NEW p \in Nat, NEW v \in Nat, v < p
  PROVE  v + d * p \in Nat /\ v + d * p < Base * p
<1>1. Base \in Nat
  BY BigNumAssumption
<1>2. PICK e \in Nat : Base = d + 1 + e
  BY <1>1, Base - d - 1 \in Nat
<1>3. Base * p = d * p + p + e * p /\ e * p \in Nat /\ d * p \in Nat
  BY <1>2
<1> QED
  BY <1>3

\* The low part is below the place above it.
LEMMA LowBelowPlace ==
  ASSUME NEW n \in Nat, NEW a, a \in BigNum(n)
  PROVE  \A k \in 0 .. n : Low(a, k) \in Nat /\ Low(a, k) < Place(k)
<1> DEFINE T == {k \in 0 .. n : Low(a, k) \in Nat /\ Low(a, k) < Place(k)}
<1>1. 0 \in T
  BY LowStep, PlaceStep
<1>2. ASSUME NEW k \in 0 .. n - 1, k \in T
      PROVE  k + 1 \in T
  <2>1. Low(a, k + 1) = Low(a, k) + a[k] * Place(k) /\ a[k] \in 0 .. Base - 1
    BY LowStep, Digits
  <2>2. Place(k) \in Nat /\ Place(k + 1) = Base * Place(k)
    BY PlaceStep
  <2>3. Low(a, k) \in Nat /\ Low(a, k) < Place(k)
    BY <1>2
  <2>4. /\ Low(a, k) + a[k] * Place(k) \in Nat
        /\ Low(a, k) + a[k] * Place(k) < Base * Place(k)
    BY <2>1, <2>2, <2>3, BelowNext
  <2> QED
    BY <2>1, <2>2, <2>4
<1> HIDE DEF T
<1>3. \A k \in 0 .. n : k \in T
  BY <1>1, <1>2, UpToInduction
<1> QED
  BY <1>3 DEF T

\* Numbers with the same digits from index k on differ by their low parts.
LEMMA SameAbove ==
  ASSUME NEW n \in Nat, NEW a, a \in BigNum(n), NEW b, b \in BigNum(n),
         NEW k \in 0 .. n, \A i \in k .. n - 1 : a[i] = b[i]
  PROVE  Value(a) - Value(b) = Low(a, k) - Low(b, k)
<1> DEFINE m == n - k
           T == {j \in 0 .. m : Low(a, k + j) - Low(b, k + j) = Low(a, k) - Low(b, k)}
<1>1. 0 \in T /\ m \in Nat
  OBVIOUS
<1>2. ASSUME NEW j \in 0 .. m - 1, j \in T
      PROVE  j + 1 \in T
  <2> DEFINE i == k + j
  <2>1. i \in k .. n - 1 /\ i \in 0 .. n - 1 /\ k + (j + 1) = i + 1 /\ i \in 0 .. n /\ i + 1 \in 0 .. n
    OBVIOUS
  <2> HIDE DEF i
  <2>2. /\ Low(a, i + 1) = Low(a, i) + a[i] * Place(i)
        /\ Low(b, i + 1) = Low(b, i) + b[i] * Place(i)
        /\ Low(a, i) \in Int /\ Low(b, i) \in Int
    BY <2>1, LowStep
  <2>3. a[i] = b[i] /\ a[i] * Place(i) \in Int
    <3>1. i \in Nat /\ a[i] \in Nat
      BY <2>1, Digits
    <3>2. Place(i) \in Nat
      BY <3>1, PlaceStep
    <3> QED
      BY <2>1, <3>1, <3>2
  <2>4. Low(a, i + 1) - Low(b, i + 1) = Low(a, i) - Low(b, i)
    BY <2>2, <2>3
  <2>5. Low(a, i) - Low(b, i) = Low(a, k) - Low(b, k)
    BY <1>2 DEF i
  <2> QED
    BY <2>1, <2>4, <2>5
<1> HIDE DEF T
<1>3. m \in T
  <2>1. m \in 0 .. m
    BY <1>1
  <2> HIDE DEF m
  <2> QED
    BY <1>1, <1>2, <2>1, UpToInduction
<1>4. Low(a, n) - Low(b, n) = Low(a, k) - Low(b, k)
  BY <1>3 DEF T
<1> QED
  BY <1>4, LowStep

-----------------------------------------------------------------------------
(* Lengths and comparison.                                                  *)

\* The largest of some indices.
LEMMA MaxIs ==
  ASSUME NEW n \in Nat, NEW S, S \subseteq 0 .. n, S # {}
  PROVE  Max(S) \in S /\ \A j \in S : j <= Max(S)
<1> DEFINE HasMax(U) == \E m \in U : \A j \in U : m >= j
           T == {k \in 0 .. n : \A U \in SUBSET (0 .. k) : U # {} => HasMax(U)}
<1>1. 0 \in T
  <2> SUFFICES ASSUME NEW U \in SUBSET (0 .. 0), U # {}
               PROVE  HasMax(U)
    OBVIOUS
  <2>0. \A j \in U : j = 0
    OBVIOUS
  <2>1. PICK u \in U : TRUE
    OBVIOUS
  <2>2. 0 \in U
    BY <2>0, <2>1
  <2>3. \A j \in U : 0 >= j
    BY <2>0
  <2> QED
    BY <2>2, <2>3
<1>2. ASSUME NEW k \in 0 .. n - 1, k \in T
      PROVE  k + 1 \in T
  <2> SUFFICES ASSUME NEW U \in SUBSET (0 .. k + 1), U # {}
               PROVE  HasMax(U)
    OBVIOUS
  <2>1. CASE k + 1 \in U
    <3>1. \A j \in U : k + 1 >= j
      OBVIOUS
    <3> QED
      BY <2>1, <3>1
  <2>2. CASE k + 1 \notin U
    <3>1. U \in SUBSET (0 .. k)
      BY <2>2
    <3> QED
      BY <1>2, <3>1
  <2> QED
    BY <2>1, <2>2
<1> HIDE DEF T
<1>3. n \in T
  BY <1>1, <1>2, UpToInduction
<1>4. HasMax(S)
  BY <1>3 DEF T
<1>5. \A j \in S : j \in Int
  OBVIOUS
<1> QED
  BY <1>4, <1>5 DEF Max

\* The smaller of two numbers.
LEMMA MinOfTwo ==
  ASSUME NEW u \in Int, NEW v \in Int
  PROVE  Min({u, v}) = IF u <= v THEN u ELSE v
<1> DEFINE w == IF u <= v THEN u ELSE v
<1>1. w \in {u, v} /\ \A j \in {u, v} : w <= j
  OBVIOUS
<1>2. \A z \in {u, v} : (\A j \in {u, v} : z <= j) => z = w
  OBVIOUS
<1> QED
  BY <1>1, <1>2 DEF Min

\* Above its length a number has no digits; below it, if it has one, the top
\* digit is not zero and is not the lowest.
LEMMA LengthIs ==
  ASSUME NEW n \in Nat, NEW a, a \in BigNum(n)
  PROVE  LET len == big_length(a)
         IN  /\ len \in 0 .. n /\ len # 1
             /\ \A i \in len .. n - 1 : i > 0 => a[i] = 0
             /\ len > 0 => a[len - 1] # 0
<1> DEFINE used == {i \in DOMAIN a : i > 0 /\ a[i] # 0}
           len == big_length(a)
<1>1. DOMAIN a = 0 .. n - 1
  BY Digits
<1>2. used \subseteq 0 .. n /\ \A i \in used : i \in 1 .. n - 1 /\ a[i] # 0
  BY <1>1
<1>3. len = IF used = {} THEN 0 ELSE Max(used) + 1
  BY DEF big_length
<1>4. \A i \in 1 .. n - 1 : a[i] # 0 => i \in used
  BY <1>1
<1> HIDE DEF used, len
<1>5. CASE used = {}
  <2>1. len = 0
    BY <1>3, <1>5
  <2> QED
    BY <1>4, <1>5, <2>1 DEF len
<1>6. CASE used # {}
  <2>1. Max(used) \in used /\ \A j \in used : j <= Max(used)
    BY <1>2, <1>6, MaxIs
  <2> DEFINE m == Max(used)
  <2>2. m \in 1 .. n - 1 /\ a[m] # 0 /\ len = m + 1
    BY <1>2, <1>3, <1>6, <2>1
  <2>3. \A i \in 1 .. n - 1 : a[i] # 0 => i <= m
    BY <1>4, <2>1
  <2> HIDE DEF m
  <2>4. len \in 0 .. n /\ len # 1 /\ len - 1 = m
    BY <2>2
  <2>5. \A i \in len .. n - 1 : i > 0 => a[i] = 0
    BY <2>2, <2>3
  <2> QED
    BY <2>2, <2>4, <2>5 DEF len
<1> QED
  BY <1>5, <1>6

\* A number is the number of the digits below its length, or its lowest digit.
LEMMA ValueByLength ==
  ASSUME NEW n \in Nat, NEW a, a \in BigNum(n), NEW k \in 0 .. n,
         \A i \in k .. n - 1 : a[i] = 0
  PROVE  Value(a) = Low(a, k)
<1> DEFINE m == n - k
           T == {j \in 0 .. m : Low(a, k + j) = Low(a, k)}
<1>1. 0 \in T /\ m \in Nat
  OBVIOUS
<1>2. ASSUME NEW j \in 0 .. m - 1, j \in T
      PROVE  j + 1 \in T
  <2> DEFINE i == k + j
  <2>1. i \in k .. n - 1 /\ i \in 0 .. n - 1 /\ k + (j + 1) = i + 1 /\ i \in 0 .. n /\ i \in Nat
    OBVIOUS
  <2> HIDE DEF i
  <2>2. Low(a, i + 1) = Low(a, i) + a[i] * Place(i) /\ Low(a, i) \in Int
    BY <2>1, LowStep
  <2>3. a[i] = 0 /\ Place(i) \in Nat
    BY <2>1, PlaceStep
  <2>4. Low(a, i + 1) = Low(a, i)
    BY <2>2, <2>3
  <2>5. Low(a, i) = Low(a, k)
    BY <1>2 DEF i
  <2> QED
    BY <2>1, <2>4, <2>5
<1> HIDE DEF T
<1>3. m \in T
  <2>1. m \in 0 .. m
    BY <1>1
  <2> HIDE DEF m
  <2> QED
    BY <1>1, <1>2, <2>1, UpToInduction
<1>4. Low(a, n) = Low(a, k)
  BY <1>3 DEF T
<1> QED
  BY <1>4, LowStep

\* The highest digit that differs decides.
LEMMA HighestDecides ==
  ASSUME NEW n \in Nat, NEW a, a \in BigNum(n), NEW b, b \in BigNum(n),
         NEW k \in 0 .. n - 1, a[k] < b[k], \A i \in k + 1 .. n - 1 : a[i] = b[i]
  PROVE  Value(a) < Value(b)
<1>1. k + 1 \in 0 .. n /\ k \in 0 .. n /\ k \in Nat
  OBVIOUS
<1>2. Value(a) - Value(b) = Low(a, k + 1) - Low(b, k + 1)
  BY <1>1, SameAbove
<1>3. /\ Low(a, k + 1) = Low(a, k) + a[k] * Place(k)
      /\ Low(b, k + 1) = Low(b, k) + b[k] * Place(k)
  BY LowStep
<1>4. Low(a, k) \in Nat /\ Low(a, k) < Place(k) /\ Low(b, k) \in Nat
  BY <1>1, LowBelowPlace
<1>5. Place(k) \in Nat
  BY <1>1, PlaceStep
<1>6. a[k] \in Nat /\ b[k] \in Nat
  BY Digits
<1>7. Value(a) \in Int /\ Value(b) \in Int
  BY LowStep
<1> DEFINE p == Place(k)
           u == a[k]
           v == b[k]
           la == Low(a, k)
           lb == Low(b, k)
<1>8. p \in Nat /\ u \in Nat /\ v \in Nat /\ u < v /\ la \in Nat /\ lb \in Nat /\ la < p
  BY <1>4, <1>5, <1>6
<1> HIDE DEF p, u, v, la, lb
<1>9. la + u * p < lb + v * p
  <2>1. PICK e \in Nat : v = u + 1 + e
    BY <1>8, v - u - 1 \in Nat
  <2>2. v * p = u * p + p + e * p /\ e * p \in Nat /\ u * p \in Nat
    BY <1>8, <2>1
  <2> QED
    BY <1>8, <2>2
<1>10. Low(a, k + 1) < Low(b, k + 1) /\ Low(a, k + 1) \in Int /\ Low(b, k + 1) \in Int
  <2>1. Low(a, k + 1) \in Int /\ Low(b, k + 1) \in Int
    BY <1>1, LowStep
  <2> QED
    BY <1>3, <1>9, <2>1 DEF p, u, v, la, lb
<1> QED
  BY <1>2, <1>7, <1>10

\* A number is its lowest digit and a multiple of the base.
LEMMA LowestDigit ==
  ASSUME NEW n \in Nat, n > 0, NEW a, a \in BigNum(n)
  PROVE  \E r \in Int : Value(a) = a[0] + Base * r
<1> DEFINE T == {k \in 0 .. n - 1 : \E r \in Int : Low(a, k + 1) = a[0] + Base * r}
<1>0. a[0] \in Nat /\ Base \in Nat
  BY Digits, BigNumAssumption
<1>1. 0 \in T
  <2>1. Low(a, 0 + 1) = Low(a, 0) + a[0] * Place(0) /\ Low(a, 0) = 0 /\ Place(0) = 1
    BY LowStep, PlaceStep
  <2>2. Low(a, 0 + 1) = a[0] + Base * 0
    BY <1>0, <2>1
  <2> QED
    BY <2>2
<1>2. ASSUME NEW k \in 0 .. (n - 1) - 1, k \in T
      PROVE  k + 1 \in T
  <2> DEFINE j == k + 1
  <2>1. j \in 0 .. n - 1 /\ k \in Nat
    OBVIOUS
  <2>2. PICK r \in Int : Low(a, j) = a[0] + Base * r
    BY <1>2
  <2>3. Place(k) \in Nat /\ Place(j) = Base * Place(k)
    BY <2>1, PlaceStep
  <2> HIDE DEF j
  <2>4. Low(a, j + 1) = Low(a, j) + a[j] * Place(j)
    BY <2>1, LowStep
  <2>5. a[j] \in Nat
    BY <2>1, Digits
  <2>6. \A u, w \in Int : u * (Base * w) = Base * (u * w)
    BY <1>0
  <2>7. \A u, w \in Int : (a[0] + Base * u) + Base * w = a[0] + Base * (u + w)
    BY <1>0
  <2> DEFINE u == a[j]
             w == Place(k)
  <2>8. u * (Base * w) = Base * (u * w) /\ u * w \in Int
    <3>1. u \in Int /\ w \in Int
      BY <2>3, <2>5
    <3> HIDE DEF u, w
    <3> QED
      BY <2>6, <3>1
  <2>9. Low(a, j + 1) = a[0] + Base * (r + u * w) /\ r + u * w \in Int
    <3>1. Low(a, j + 1) = (a[0] + Base * r) + u * (Base * w)
      BY <2>2, <2>3, <2>4
    <3> HIDE DEF u, w
    <3>2. (a[0] + Base * r) + Base * (u * w) = a[0] + Base * (r + u * w)
      BY <2>7, <2>8
    <3> QED
      BY <2>8, <3>1, <3>2
  <2> QED
    BY <2>1, <2>9 DEF j
<1> HIDE DEF T
<1>3. n - 1 \in T
  <2> DEFINE m == n - 1
  <2>1. m \in Nat /\ m \in 0 .. m
    OBVIOUS
  <2> HIDE DEF m
  <2>2. \A k \in 0 .. m - 1 : k \in T => k + 1 \in T
    BY <1>2 DEF m
  <2>3. m \in T
    BY <1>1, <2>1, <2>2, UpToInduction
  <2> QED
    BY <2>3 DEF m
<1>4. PICK r \in Int : Low(a, n) = a[0] + Base * r
  BY <1>3 DEF T
<1> QED
  BY <1>4, LowStep

\* What big_comp tells of two numbers and of their lengths.
LEMMA CompIs ==
  ASSUME NEW n \in Nat, n > 0, NEW a, a \in BigNum(n), NEW b, b \in BigNum(n)
  PROVE  /\ big_comp(a, b) \in {-1, 0, 1}
         /\ big_comp(a, b) = 1 => Value(a) > Value(b)
         /\ big_comp(a, b) = -1 => Value(a) < Value(b)
         /\ big_comp(a, b) = 0 => Value(a) \div Base = Value(b) \div Base
         /\ big_comp(a, b) # 1 => big_length(a) <= big_length(b)
<1> DEFINE differ == {i \in DOMAIN a : i > 0 /\ a[i] # b[i]}
           c == big_comp(a, b)
           alen == big_length(a)
           blen == big_length(b)
<1>1. DOMAIN a = 0 .. n - 1 /\ (\A i \in 0 .. n - 1 : a[i] \in Nat /\ b[i] \in Nat)
  BY Digits
<1>2. Value(a) \in Int /\ Value(b) \in Int
  BY LowStep
<1>3. differ \subseteq 0 .. n /\ \A i \in differ : i \in 1 .. n - 1 /\ a[i] # b[i]
  BY <1>1
<1>4. \A i \in 1 .. n - 1 : a[i] # b[i] => i \in differ
  BY <1>1
<1>5. c = IF differ = {} THEN 0 ELSE IF a[Max(differ)] < b[Max(differ)] THEN -1 ELSE 1
  BY DEF big_comp
<1>6. /\ alen \in 0 .. n /\ alen # 1 /\ (alen > 0 => a[alen - 1] # 0)
      /\ blen \in 0 .. n /\ \A i \in blen .. n - 1 : i > 0 => b[i] = 0
  BY LengthIs
<1> HIDE DEF differ, c, alen, blen
<1>7. alen > blen => alen - 1 \in differ /\ alen - 1 >= blen
  <2> SUFFICES ASSUME alen > blen
               PROVE  alen - 1 \in differ /\ alen - 1 >= blen
    OBVIOUS
  <2>1. alen - 1 \in 1 .. n - 1 /\ alen - 1 \in blen .. n - 1 /\ alen - 1 > 0
    BY <1>6
  <2>2. a[alen - 1] # 0
    BY <1>6, <2>1
  <2>3. b[alen - 1] = 0
    BY <1>6, <2>1
  <2> QED
    BY <1>4, <2>1, <2>2, <2>3
<1>8. CASE differ = {}
  <2>1. c = 0 /\ alen <= blen
    BY <1>5, <1>6, <1>7, <1>8
  <2>2. \A i \in 1 .. n - 1 : a[i] = b[i]
    BY <1>4, <1>8
  <2>3. Value(a) - Value(b) = a[0] - b[0]
    <3>1. Value(a) - Value(b) = Low(a, 1) - Low(b, 1)
      BY <2>2, SameAbove
    <3>2. 0 \in 0 .. n - 1 /\ 0 + 1 = 1
      OBVIOUS
    <3>3. Low(a, 0 + 1) = Low(a, 0) + a[0] * Place(0) /\ Low(a, 0) = 0
      BY <3>2, LowStep
    <3>4. Low(b, 0 + 1) = Low(b, 0) + b[0] * Place(0) /\ Low(b, 0) = 0
      BY <3>2, LowStep
    <3>5. a[0] \in Nat /\ b[0] \in Nat /\ Place(0) = 1
      BY <1>1, <3>2, PlaceStep
    <3> QED
      BY <3>1, <3>3, <3>4, <3>5
  <2>4. PICK r \in Int : Value(a) = a[0] + Base * r
    BY LowestDigit
  <2>5. a[0] \in 0 .. Base - 1 /\ b[0] \in 0 .. Base - 1 /\ Base \in Nat /\ Base > 0
    BY Digits, BigNumAssumption
  <2>6. Value(b) = b[0] + Base * r /\ Base * r \in Int
    BY <1>2, <2>3, <2>4, <2>5
  <2>7. Value(a) \div Base = r
    <3> DEFINE v == Value(a)
               e == a[0]
    <3>1. v \in Int /\ e \in Int /\ v = Base * r + e /\ 0 <= e /\ e < Base
      BY <1>2, <2>4, <2>5, <2>6
    <3> HIDE DEF v, e
    <3>2. v \div Base = r
      BY <2>5, <3>1, QuotientIs
    <3> QED
      BY <3>2 DEF v
  <2>8. Value(b) \div Base = r
    <3> DEFINE v == Value(b)
               e == b[0]
    <3>1. v \in Int /\ e \in Int /\ v = Base * r + e /\ 0 <= e /\ e < Base
      BY <1>2, <2>5, <2>6
    <3> HIDE DEF v, e
    <3>2. v \div Base = r
      BY <2>5, <3>1, QuotientIs
    <3> QED
      BY <3>2 DEF v
  <2> QED
    BY <2>1, <2>7, <2>8 DEF c, alen, blen
<1>9. CASE differ # {}
  <2> DEFINE m == Max(differ)
  <2>1. m \in differ /\ \A j \in differ : j <= m
    BY <1>3, <1>9, MaxIs
  <2>2. m \in 1 .. n - 1 /\ m \in 0 .. n - 1 /\ a[m] # b[m] /\ a[m] \in Nat /\ b[m] \in Nat
    <3>1. m \in 1 .. n - 1 /\ a[m] # b[m]
      BY <1>3, <2>1
    <3> HIDE DEF m
    <3>2. m \in 0 .. n - 1
      BY <3>1
    <3> QED
      BY <1>1, <3>1, <3>2
  <2>3. \A i \in m + 1 .. n - 1 : a[i] = b[i]
    <3> TAKE i \in m + 1 .. n - 1
    <3>1. i \in 1 .. n - 1 /\ ~(i <= m)
      BY <2>2
    <3> QED
      BY <1>4, <2>1, <3>1
  <2>4. c = IF a[m] < b[m] THEN -1 ELSE 1
    BY <1>5, <1>9
  <2> HIDE DEF m
  <2>5. CASE a[m] < b[m]
    <3>1. Value(a) < Value(b)
      BY <2>2, <2>3, <2>5, HighestDecides
    <3>2. c = -1
      BY <2>4, <2>5
    <3>3. alen <= blen
      <4> SUFFICES ASSUME alen > blen
                   PROVE  FALSE
        BY <1>6
      <4>1. m >= blen /\ m > 0
        BY <1>6, <1>7, <2>1, <2>2
      <4>2. b[m] = 0
        BY <1>6, <2>2, <4>1
      <4> QED
        BY <2>2, <2>5, <4>2
    <3> QED
      BY <3>1, <3>2, <3>3 DEF c, alen, blen
  <2>6. CASE b[m] < a[m]
    <3>1. Value(b) < Value(a)
      BY <2>2, <2>3, <2>6, HighestDecides
    <3>2. c = 1
      BY <2>2, <2>4, <2>6
    <3> QED
      BY <1>2, <3>1, <3>2 DEF c
  <2> QED
    BY <2>2, <2>5, <2>6
<1> QED
  BY <1>8, <1>9

\* Numbers of any sizes with the same low digits have the same low parts.
LEMMA SameLow ==
  ASSUME NEW n \in Nat, NEW a, a \in BigNum(n), NEW m \in Nat, NEW b, b \in BigNum(m),
         NEW k \in Nat, k <= n, k <= m, \A i \in 0 .. k - 1 : a[i] = b[i]
  PROVE  Low(a, k) = Low(b, k)
<1>1. DOMAIN a = 0 .. n - 1 /\ DOMAIN b = 0 .. m - 1
  BY Digits
<1>2. ASSUME NEW i \in 0 .. k - 1
      PROVE  Weights(a)[i] = Weights(b)[i] /\ Weights(a)[i] \in Int
  <2>1. i \in 0 .. n - 1 /\ i \in 0 .. m - 1 /\ i \in Nat
    OBVIOUS
  <2>2. Weights(a)[i] = a[i] * Place(i) /\ Weights(b)[i] = b[i] * Place(i) /\ a[i] = b[i]
    BY <1>1, <2>1 DEF Weights
  <2>3. a[i] \in Nat
    BY <2>1, Digits
  <2>4. Place(i) \in Nat
    BY <2>1, PlaceStep
  <2> QED
    BY <2>2, <2>3, <2>4
<1>3. Summands(Weights(a), k)
  BY <1>2 DEF Summands
<1>4. k \in 0 .. k
  OBVIOUS
<1> QED
  BY <1>2, <1>3, <1>4, SumSame DEF Low

-----------------------------------------------------------------------------
(* Carries, in big_add and in big_mult.                                     *)

Columns(col, n) == \A i \in 0 .. n - 1 : col[i] \in Nat

\* The recursive definition of the accumulator has the value it describes.
LEMMA CarriedDef ==
  ASSUME NEW n \in Nat, n > 0, NEW col, Columns(col, n)
  PROVE  /\ Carried(col, n)[0] = col[0]
         /\ \A i \in 1 .. n - 1 : Carried(col, n)[i] = (Carried(col, n)[i - 1] \div Base) + col[i]
         /\ \A i \in 0 .. n - 1 : Carried(col, n)[i] \in Nat
<1> DEFINE m == n - 1
           c == col[0]
           g == [q \in (1 .. m) \X Int |-> (q[2] \div Base) + col[q[1]]]
           Body(t) == [i \in 0 .. n - 1 |-> (IF i = 0 THEN 0 ELSE t[i - 1] \div Base) + col[i]]
           t == Carried(col, n)
<1>0. /\ m \in Nat /\ Base \in Nat /\ Base > 0 /\ c \in Int
      /\ \A i \in 0 .. n - 1 : col[i] \in Nat
  BY BigNumAssumption DEF Columns
<1>1. g \in [(1 .. m) \X Int -> Int]
  <2> SUFFICES ASSUME NEW i \in 1 .. m, NEW v \in Int
               PROVE  (v \div Base) + col[i] \in Int
    OBVIOUS
  <2>1. v \div Base \in Int
    BY <1>0, QuotientRest
  <2>2. col[i] \in Int
    BY <1>0
  <2> QED
    BY <2>1, <2>2
<1>2. \A i \in 1 .. m, v \in Int : g[<<i, v>>] = (v \div Base) + col[i]
  OBVIOUS
<1> HIDE DEF g, m, c
<1>3. PICK h \in [0 .. m -> Int] : Stepwise(h, m, c, g)
  BY <1>0, <1>1, IntRecursion
<1>4. ASSUME NEW i \in 1 .. m
      PROVE  h[i] = (h[i - 1] \div Base) + col[i]
  <2>1. i - 1 \in 0 .. m
    BY <1>0
  <2>2. h[i - 1] \in Int
    BY <2>1
  <2>3. g[<<i, h[i - 1]>>] = (h[i - 1] \div Base) + col[i]
    BY <1>2, <2>2, Zenon
  <2>4. h[i] = g[<<i, h[i - 1]>>]
    BY <1>3, Zenon DEF Stepwise
  <2> QED
    BY <2>3, <2>4, Zenon
<1>5. h = Body(h)
  <2>1. h[0] = 0 + col[0]
    BY <1>0, <1>3 DEF Stepwise, c
  <2>2. \A i \in 0 .. m : h[i] = (IF i = 0 THEN 0 ELSE h[i - 1] \div Base) + col[i]
    <3> TAKE i \in 0 .. m
    <3>1. CASE i = 0
      BY <2>1, <3>1
    <3>2. CASE i # 0
      BY <1>4, <3>2
    <3> QED
      BY <3>1, <3>2
  <2>3. h = [i \in 0 .. m |-> h[i]]
    OBVIOUS
  <2> QED
    BY <2>2, <2>3 DEF m
<1>6. t = CHOOSE u : u = Body(u)
  BY DEF Carried
<1>7. t = Body(t)
  BY <1>5, <1>6
<1> HIDE DEF t
<1>8. t[0] = col[0] /\ \A i \in 1 .. n - 1 : t[i] = (t[i - 1] \div Base) + col[i]
  BY <1>0, <1>7
<1>9. \A i \in 0 .. n - 1 : t[i] \in Nat
  <2> DEFINE T == {i \in 0 .. m : t[i] \in Nat}
  <2>1. 0 \in T
    BY <1>0, <1>8
  <2>2. ASSUME NEW i \in 0 .. m - 1, i \in T
        PROVE  i + 1 \in T
    <3>1. i + 1 \in 1 .. n - 1 /\ (i + 1) - 1 = i /\ i + 1 \in 0 .. m
      BY <1>0 DEF m
    <3>2. t[i + 1] = (t[i] \div Base) + col[i + 1] /\ t[i] \in Nat
      BY <1>8, <2>2, <3>1
    <3>3. col[i + 1] \in Nat
      BY <1>0, <3>1
    <3>4. \A v \in Nat : v \div Base \in Nat
      BY <1>0
    <3>5. t[i] \div Base \in Nat
      BY <3>2, <3>4
    <3>6. t[i + 1] \in Nat
      BY <3>2, <3>3, <3>5
    <3> QED
      BY <3>1, <3>6
  <2> HIDE DEF T
  <2>3. \A i \in 0 .. m : i \in T
    BY <1>0, <2>1, <2>2, UpToInduction
  <2> QED
    BY <2>3 DEF T, m
<1> QED
  BY <1>8, <1>9 DEF t

\* The columns' sum is the number of the bytes and the carry above them: the
\* bytes are right exactly when the sum is below their places.
LEMMA CarriedExact ==
  ASSUME NEW n \in Nat, n > 0, NEW col, Columns(col, n),
         NEW d, d = [i \in 0 .. n - 1 |-> Carried(col, n)[i] % Base],
         NEW w, \A i \in 0 .. n - 1 : w[i] = col[i] * Place(i)
  PROVE  /\ d \in BigNum(n)
         /\ (Value(d) = SumBelow(w, n)) <=> (SumBelow(w, n) < Place(n))
<1> DEFINE t == Carried(col, n)
           T == {k \in 0 .. n - 1 : SumBelow(w, k + 1) = Low(d, k + 1) + (t[k] \div Base) * Place(k + 1)}
<1>1. /\ t[0] = col[0]
      /\ \A i \in 1 .. n - 1 : t[i] = (t[i - 1] \div Base) + col[i]
      /\ \A i \in 0 .. n - 1 : t[i] \in Nat
  BY CarriedDef
<1>2. d = [i \in 0 .. n - 1 |-> t[i] % Base]
  OBVIOUS
<1>3. Base \in Nat /\ Base > 0 /\ \A i \in 0 .. n - 1 : col[i] \in Nat
  BY BigNumAssumption DEF Columns
<1> HIDE DEF t
<1>4. d \in BigNum(n)
  <2>1. ASSUME NEW i \in 0 .. n - 1
        PROVE  t[i] % Base \in 0 .. Base - 1
    <3>1. t[i] \in Int
      BY <1>1
    <3> QED
      BY <1>3, <3>1, QuotientRest
  <2> QED
    BY <1>2, <2>1 DEF BigNum
<1>5. ASSUME NEW i \in 0 .. n - 1
      PROVE  w[i] \in Int /\ col[i] \in Nat /\ Place(i) \in Nat /\ w[i] = col[i] * Place(i)
  <2>1. col[i] \in Nat /\ i \in Nat
    BY <1>3
  <2>2. Place(i) \in Nat
    BY <2>1, PlaceStep
  <2>3. w[i] = col[i] * Place(i)
    OBVIOUS
  <2> QED
    BY <2>1, <2>2, <2>3
<1>6. Summands(w, n)
  BY <1>5 DEF Summands
<1>7. ASSUME NEW k \in 0 .. n - 1, NEW before \in Nat, t[k] = before + col[k],
             SumBelow(w, k) = Low(d, k) + before * Place(k)
      PROVE  SumBelow(w, k + 1) = Low(d, k + 1) + (t[k] \div Base) * Place(k + 1)
  <2>1. SumBelow(w, k) \in Int /\ SumBelow(w, k + 1) = SumBelow(w, k) + w[k]
    BY <1>6, SumNext
  <2>2. Low(d, k + 1) = Low(d, k) + d[k] * Place(k) /\ Low(d, k) \in Int
    BY <1>4, LowStep
  <2>3. d[k] = t[k] % Base
    BY <1>2
  <2>4. col[k] \in Nat /\ Place(k) \in Nat /\ w[k] = col[k] * Place(k)
    BY <1>5
  <2>5. Place(k + 1) = Base * Place(k)
    BY PlaceStep
  <2>6. SumBelow(w, k) + col[k] * Place(k)
          = (Low(d, k) + (t[k] % Base) * Place(k)) + (t[k] \div Base) * (Base * Place(k))
    <3> DEFINE s == SumBelow(w, k)
               l == Low(d, k)
               p == Place(k)
               c == col[k]
    <3>1. s \in Int /\ l \in Int /\ p \in Nat /\ c \in Nat /\ s = l + before * p
      BY <1>7, <2>1, <2>2, <2>4
    <3> HIDE DEF s, l, p, c
    <3> DEFINE u == t[k]
    <3>2. u = before + c
      BY <1>7 DEF c
    <3> HIDE DEF u
    <3>3. s = l + before * p /\ u \in Int
      BY <3>1, <3>2
    <3>4. s + c * p = (l + (u % Base) * p) + (u \div Base) * (Base * p)
      <4> DEFINE q == u \div Base
                 r == u % Base
      <4>1. q \in Int /\ r \in Int /\ u = Base * q + r
        BY <1>3, <3>3, QuotientRest
      <4>2. s + c * p = l + u * p
        BY <3>1, <3>2
      <4> HIDE DEF q, r
      <4>3. u * p = r * p + q * (Base * p)
        BY <1>3, <3>1, <4>1
      <4>4. r * p \in Int /\ q * (Base * p) \in Int
        BY <1>3, <3>1, <4>1
      <4>5. s + c * p = (l + r * p) + q * (Base * p)
        BY <3>1, <4>2, <4>3, <4>4
      <4> QED
        BY <4>5 DEF q, r
    <3> QED
      BY <3>4 DEF s, l, p, c, u
  <2> QED
    BY <2>1, <2>2, <2>3, <2>4, <2>5, <2>6
<1>8. 0 \in T
  <2>1. SumBelow(w, 0) = 0 /\ Low(d, 0) = 0
    BY <1>4, SumStep, LowStep
  <2>2. Place(0) \in Nat
    BY PlaceStep
  <2>3. t[0] = 0 + col[0] /\ 0 \in 0 .. n - 1 /\ SumBelow(w, 0) = Low(d, 0) + 0 * Place(0)
    BY <1>1, <1>3, <2>1, <2>2
  <2>4. SumBelow(w, 0 + 1) = Low(d, 0 + 1) + (t[0] \div Base) * Place(0 + 1)
    BY <1>7, <2>3
  <2> QED
    BY <2>3, <2>4
<1>9. ASSUME NEW k \in 0 .. (n - 1) - 1, k \in T
      PROVE  k + 1 \in T
  <2> DEFINE j == k + 1
  <2>1. j \in 0 .. n - 1 /\ j \in 1 .. n - 1 /\ j - 1 = k /\ k \in 0 .. n - 1
    OBVIOUS
  <2>2. SumBelow(w, j) = Low(d, j) + (t[k] \div Base) * Place(j)
    BY <1>9
  <2> HIDE DEF j
  <2>3. t[j] = (t[k] \div Base) + col[j] /\ t[k] \in Nat
    BY <1>1, <2>1
  <2>4. \A v \in Nat : v \div Base \in Nat
    BY <1>3
  <2>5. t[k] \div Base \in Nat
    BY <2>3, <2>4
  <2>6. SumBelow(w, j + 1) = Low(d, j + 1) + (t[j] \div Base) * Place(j + 1)
    BY <1>7, <2>1, <2>2, <2>3, <2>5
  <2> QED
    BY <2>1, <2>6 DEF j
<1> HIDE DEF T
<1>10. n - 1 \in T
  <2> DEFINE m == n - 1
  <2>1. m \in Nat /\ m \in 0 .. m
    OBVIOUS
  <2> HIDE DEF m
  <2>2. \A k \in 0 .. m - 1 : k \in T => k + 1 \in T
    BY <1>9 DEF m
  <2>3. m \in T
    BY <1>8, <2>1, <2>2, UpToInduction
  <2> QED
    BY <2>3 DEF m
<1> DEFINE carry == t[n - 1] \div Base
<1>11. SumBelow(w, n) = Low(d, n) + carry * Place(n)
  <2>1. (n - 1) + 1 = n
    OBVIOUS
  <2> QED
    BY <1>10, <2>1 DEF T
<1>12. carry \in Nat
  <2>1. t[n - 1] \in Nat
    BY <1>1
  <2>2. \A v \in Nat : v \div Base \in Nat
    BY <1>3
  <2> QED
    BY <2>1, <2>2
<1> HIDE DEF carry
<1>13. Value(d) = Low(d, n) /\ Low(d, n) \in Nat /\ Low(d, n) < Place(n)
  BY <1>4, LowStep, LowBelowPlace
<1>14. Place(n) \in Nat
  BY PlaceStep
<1>15. (Value(d) = SumBelow(w, n)) <=> (SumBelow(w, n) < Place(n))
  <2> DEFINE p == Place(n)
             l == Low(d, n)
             s == SumBelow(w, n)
  <2>1. p \in Nat /\ l \in Nat /\ l < p /\ s = l + carry * p /\ Value(d) = l
    BY <1>11, <1>13, <1>14
  <2> HIDE DEF p, l, s
  <2>2. ASSUME carry = 0
        PROVE  (l = s) <=> (s < p)
    BY <2>1, <2>2
  <2>3. ASSUME carry > 0
        PROVE  (l = s) <=> (s < p)
    <3>1. PICK e \in Nat : carry = 1 + e
      BY <1>12, <2>3, carry - 1 \in Nat
    <3>2. carry * p = p + e * p /\ e * p \in Nat
      BY <2>1, <3>1
    <3> QED
      BY <2>1, <3>2
  <2>4. (l = s) <=> (s < p)
    BY <1>12, <2>2, <2>3
  <2> QED
    BY <2>1, <2>4 DEF p, s
<1> QED
  BY <1>4, <1>15

\* The weighted digits that a low part adds up.
LEMMA WeightsAre ==
  ASSUME NEW n \in Nat, NEW a, a \in BigNum(n)
  PROVE  \A i \in 0 .. n - 1 : /\ Weights(a)[i] = a[i] * Place(i) /\ Weights(a)[i] \in Int
                               /\ a[i] \in Nat /\ Place(i) \in Nat
<1> TAKE i \in 0 .. n - 1
<1>1. i \in Nat /\ DOMAIN a = 0 .. n - 1 /\ a[i] \in Nat
  BY Digits
<1>2. Place(i) \in Nat
  BY <1>1, PlaceStep
<1>3. Weights(a)[i] = a[i] * Place(i)
  BY <1>1 DEF Weights
<1> QED
  BY <1>1, <1>2, <1>3

-----------------------------------------------------------------------------
(* Addition.                                                                *)

\* big_add's loops leave the longer number as it is when the other has no
\* length, and add exactly unless a carry leaves the longer one's length.
LEMMA AddIntoIs ==
  ASSUME NEW n \in Nat, n > 0, NEW a, a \in BigNum(n), NEW b, b \in BigNum(n),
         big_length(a) <= big_length(b)
  PROVE  /\ big_length(a) = 0 => AddInto(a, b) = b
         /\ big_length(a) > 0 => ((Value(AddInto(a, b)) = Value(a) + Value(b))
                                    <=> (Value(a) + Value(b) < Place(big_length(b))))
<1> DEFINE alen == big_length(a)
           blen == big_length(b)
           count == Min({alen, blen})
           col == [i \in DOMAIN b |-> (IF i < count THEN a[i] ELSE 0) + b[i]]
           r == AddInto(a, b)
           d == [i \in 0 .. blen - 1 |-> Carried(col, blen)[i] % Base]
           w == [i \in 0 .. blen - 1 |-> col[i] * Place(i)]
<1>1. /\ alen \in 0 .. n /\ alen # 1 /\ \A i \in alen .. n - 1 : i > 0 => a[i] = 0
      /\ blen \in 0 .. n /\ blen # 1 /\ \A i \in blen .. n - 1 : i > 0 => b[i] = 0
  BY LengthIs
<1>2. /\ DOMAIN b = 0 .. n - 1
      /\ \A i \in 0 .. n - 1 : a[i] \in Nat /\ b[i] \in Nat /\ b[i] \in 0 .. Base - 1
  BY Digits
<1>3. count = alen
  <2>1. alen \in Int /\ blen \in Int /\ alen <= blen
    BY <1>1
  <2> HIDE DEF alen, blen
  <2> QED
    BY <2>1, MinOfTwo
<1>4. r = [i \in 0 .. n - 1 |-> IF count > 0 /\ i < blen THEN Carried(col, blen)[i] % Base ELSE b[i]]
  BY <1>2 DEF AddInto
<1>5. \A i \in 0 .. n - 1 : col[i] = (IF i < alen THEN a[i] ELSE 0) + b[i]
  BY <1>2, <1>3
<1> HIDE DEF count, col, r
<1>6. ASSUME alen = 0
      PROVE  r = b
  <2>1. \A i \in 0 .. n - 1 : r[i] = b[i]
    BY <1>3, <1>4, <1>6
  <2>2. r = [i \in 0 .. n - 1 |-> r[i]]
    BY <1>4
  <2>3. b = [i \in 0 .. n - 1 |-> b[i]]
    BY DEF BigNum
  <2> QED
    BY <2>1, <2>2, <2>3
<1>7. ASSUME alen > 0
      PROVE  (Value(r) = Value(a) + Value(b)) <=> (Value(a) + Value(b) < Place(blen))
  <2>1. blen \in Nat /\ blen > 1 /\ blen <= n /\ alen <= blen /\ blen \in 0 .. n
    BY <1>1, <1>7
  <2>2. /\ \A i \in alen .. n - 1 : a[i] = 0
        /\ \A i \in blen .. n - 1 : a[i] = 0 /\ b[i] = 0 /\ i > 0
    BY <1>1, <1>7, <2>1
  <2> HIDE DEF alen, blen
  <2>3. \A i \in 0 .. blen - 1 : i \in 0 .. n - 1 /\ col[i] = a[i] + b[i] /\ col[i] \in Nat
    <3> TAKE i \in 0 .. blen - 1
    <3>1. i \in 0 .. n - 1
      BY <2>1
    <3>2. a[i] \in Nat /\ b[i] \in Nat /\ col[i] = (IF i < alen THEN a[i] ELSE 0) + b[i]
      BY <1>2, <1>5, <3>1
    <3>3. ~(i < alen) => a[i] = 0
      BY <1>1, <2>2, <3>1 DEF alen
    <3> QED
      BY <3>1, <3>2, <3>3
  <2>4. Columns(col, blen)
    BY <2>3 DEF Columns
  <2>5. \A i \in 0 .. blen - 1 : w[i] = col[i] * Place(i)
    OBVIOUS
  <2>6. d = [i \in 0 .. blen - 1 |-> Carried(col, blen)[i] % Base]
    OBVIOUS
  <2> HIDE DEF d, w
  <2>7. d \in BigNum(blen) /\ ((Value(d) = SumBelow(w, blen)) <=> (SumBelow(w, blen) < Place(blen)))
    BY <2>1, <2>4, <2>5, <2>6, CarriedExact
  <2>8. \A i \in 0 .. blen - 1 : r[i] = d[i]
    <3> TAKE i \in 0 .. blen - 1
    <3>1. i \in 0 .. n - 1 /\ count > 0 /\ i < blen
      BY <1>3, <1>7, <2>1, <2>3
    <3>2. r[i] = Carried(col, blen)[i] % Base
      BY <1>4, <3>1
    <3>3. d[i] = Carried(col, blen)[i] % Base
      BY <2>6
    <3> QED
      BY <3>2, <3>3
  <2>9. \A i \in blen .. n - 1 : r[i] = 0
    BY <1>4, <2>1, <2>2
  <2>10. r \in BigNum(n)
    <3>1. ASSUME NEW i \in 0 .. n - 1
          PROVE  r[i] \in 0 .. Base - 1
      <4>1. CASE i < blen
        <5>1. i \in 0 .. blen - 1
          BY <2>1, <4>1
        <5>2. d[i] \in 0 .. Base - 1
          BY <2>1, <2>7, <5>1, Digits
        <5> QED
          BY <2>8, <5>1, <5>2
      <4>2. CASE ~(i < blen)
        BY <1>2, <1>4, <4>2
      <4> QED
        BY <4>1, <4>2
    <3>2. r = [i \in 0 .. n - 1 |-> r[i]]
      BY <1>4
    <3> QED
      BY <3>1, <3>2 DEF BigNum
  <2>11. Value(r) = Low(r, blen) /\ Value(a) = Low(a, blen) /\ Value(b) = Low(b, blen)
    BY <2>1, <2>2, <2>9, <2>10, ValueByLength
  <2>12. Low(r, blen) = Low(d, blen)
    <3>1. blen <= blen
      BY <2>1
    <3> QED
      BY <2>1, <2>7, <2>8, <2>10, <3>1, SameLow
  <2>13. Value(d) = Low(d, blen)
    BY <2>1, <2>7, LowStep
  <2>14. SumBelow(w, blen) = SumBelow(Weights(a), blen) + SumBelow(Weights(b), blen)
    <3>1. ASSUME NEW i \in 0 .. blen - 1
          PROVE  /\ w[i] = Weights(a)[i] + Weights(b)[i]
                 /\ Weights(a)[i] \in Int /\ Weights(b)[i] \in Int
      <4>1. i \in 0 .. n - 1 /\ w[i] = (a[i] + b[i]) * Place(i)
        BY <2>3, <2>5
      <4>2. /\ Weights(a)[i] = a[i] * Place(i) /\ Weights(a)[i] \in Int
            /\ a[i] \in Nat /\ Place(i) \in Nat
        BY <4>1, WeightsAre
      <4>3. Weights(b)[i] = b[i] * Place(i) /\ Weights(b)[i] \in Int /\ b[i] \in Nat
        BY <4>1, WeightsAre
      <4>4. (a[i] + b[i]) * Place(i) = a[i] * Place(i) + b[i] * Place(i)
        BY <4>2, <4>3
      <4> QED
        BY <4>1, <4>2, <4>3, <4>4
    <3>2. Summands(Weights(a), blen) /\ Summands(Weights(b), blen)
      BY <3>1 DEF Summands
    <3>3. blen \in 0 .. blen
      BY <2>1
    <3> QED
      BY <2>1, <3>1, <3>2, <3>3, SumPlus
  <2> QED
    BY <2>7, <2>11, <2>12, <2>13, <2>14 DEF Low
<1> QED
  BY <1>6, <1>7 DEF r, alen, blen

-----------------------------------------------------------------------------
(* Conversion.                                                              *)

\* One more digit of a number that is a low part and a multiple of its place.
LEMMA SplitOff ==
  ASSUME NEW v \in Nat, NEW p \in Nat, p > 0, NEW l \in Int, v = l + p * (v \div p),
         NEW e, e = (v \div p) % Base, 0 <= l + e * p, l + e * p < Base * p
  PROVE  v = (l + e * p) + (Base * p) * (v \div (Base * p))
<1> DEFINE q == v \div p
           z == q \div Base
<1>1. Base \in Nat /\ Base > 0 /\ q \in Int
  BY BigNumAssumption, QuotientRest
<1>2. e = q % Base /\ v = l + p * q
  OBVIOUS
<1> HIDE DEF q
<1>3. e \in Int /\ z \in Int /\ q = Base * z + e
  BY <1>1, <1>2, QuotientRest
<1> HIDE DEF z
<1>4. p * q = (Base * p) * z + e * p
  BY <1>1, <1>3
<1>5. v = (Base * p) * z + (l + e * p) /\ l + e * p \in Int /\ Base * p \in Nat /\ Base * p > 0
  <2>1. (Base * p) * z \in Int /\ e * p \in Int
    BY <1>1, <1>3
  <2>2. Base * p \in Nat /\ Base * p > 0
    BY <1>1
  <2> QED
    BY <1>2, <1>4, <2>1, <2>2
<1> DEFINE b == Base * p
           r == l + e * p
<1>6. v = b * z + r /\ r \in Int /\ b \in Nat /\ b > 0 /\ 0 <= r /\ r < b /\ z \in Int
  BY <1>3, <1>5
<1> HIDE DEF b, r
<1>7. v \div b = z
  BY <1>6, QuotientIs
<1>8. v = r + b * (v \div b)
  BY <1>6, <1>7
<1> QED
  BY <1>8 DEF b, r

\* A number that fits a word has its digits in the array, and they give it
\* back.
LEMMA ConvertIs ==
  ASSUME NEW size \in Nat, Word <= size, NEW v \in Nat, v < Place(Word)
  PROVE  Value(big_uitobig(v, size)) = v /\ big_bigtoui(big_uitobig(v, size)) = v
<1> DEFINE d == big_uitobig(v, size)
           e == [i \in 0 .. Word - 1 |-> d[i]]
           T == {k \in 0 .. Word : v = Low(d, k) + Place(k) * (v \div Place(k))}
<1>1. Word \in Nat /\ Base \in Nat /\ Base > 0
  BY BigNumAssumption
<1>2. d = [i \in 0 .. size - 1 |-> IF i < Word THEN (v \div Place(i)) % Base ELSE 0]
  BY DEF big_uitobig
<1> HIDE DEF d
<1>3. \A i \in 0 .. Word - 1 : d[i] = (v \div Place(i)) % Base /\ i \in 0 .. size - 1
  BY <1>1, <1>2
<1>4. \A i \in Word .. size - 1 : d[i] = 0
  BY <1>1, <1>2
<1>5. d \in BigNum(size)
  <2>1. ASSUME NEW i \in 0 .. size - 1
        PROVE  d[i] \in 0 .. Base - 1
    <3>1. CASE i < Word
      <4>1. d[i] = (v \div Place(i)) % Base
        BY <1>2, <3>1
      <4>2. Place(i) \in Nat /\ Place(i) > 0
        BY PlaceStep
      <4>3. v \div Place(i) \in Int
        BY <4>2, QuotientRest
      <4> QED
        BY <1>1, <4>1, <4>3, QuotientRest
    <3>2. CASE ~(i < Word)
      BY <1>1, <1>2, <3>2
    <3> QED
      BY <3>1, <3>2
  <2>2. d = [i \in 0 .. size - 1 |-> d[i]]
    BY <1>2
  <2> QED
    BY <2>1, <2>2 DEF BigNum
<1>6. 0 \in T
  <2>1. Low(d, 0) = 0 /\ Place(0) = 1
    BY <1>5, LowStep, PlaceStep
  <2>2. v = 0 + 1 * (v \div 1)
    OBVIOUS
  <2> QED
    BY <1>1, <2>1, <2>2
<1>7. ASSUME NEW k \in 0 .. Word - 1, k \in T
      PROVE  k + 1 \in T
  <2> DEFINE p == Place(k)
             l == Low(d, k)
             c == d[k]
  <2>1. k \in 0 .. size - 1 /\ k \in 0 .. size /\ k + 1 \in 0 .. size /\ k + 1 \in 0 .. Word /\ k \in Nat
    BY <1>1
  <2>2. p \in Nat /\ p > 0 /\ Place(k + 1) = Base * p
    BY <2>1, PlaceStep
  <2>3. Low(d, k + 1) = l + c * p /\ l \in Int
    BY <1>5, <2>1, LowStep
  <2>4. Low(d, k + 1) \in Nat /\ Low(d, k + 1) < Place(k + 1)
    BY <1>5, <2>1, LowBelowPlace
  <2>5. v = l + p * (v \div p) /\ c = (v \div p) % Base
    BY <1>3, <1>7
  <2>6. 0 <= l + c * p /\ l + c * p < Base * p
    BY <2>2, <2>3, <2>4
  <2> HIDE DEF p, l, c
  <2>7. v = (l + c * p) + (Base * p) * (v \div (Base * p))
    BY <2>2, <2>3, <2>5, <2>6, SplitOff
  <2>8. v = Low(d, k + 1) + Place(k + 1) * (v \div Place(k + 1))
    BY <2>2, <2>3, <2>7
  <2> QED
    BY <2>1, <2>8
<1> HIDE DEF T
<1>8. \A k \in 0 .. Word : k \in T
  BY <1>1, <1>6, <1>7, UpToInduction
<1>9. v = Low(d, Word)
  <2> DEFINE p == Place(Word)
  <2>1. Word \in 0 .. Word /\ Word \in 0 .. size
    BY <1>1
  <2>2. v = Low(d, Word) + p * (v \div p)
    BY <1>8, <2>1 DEF T
  <2>3. p \in Nat /\ p > 0 /\ v < p
    BY <1>1, PlaceStep
  <2>4. Low(d, Word) \in Int
    BY <1>5, <2>1, LowStep
  <2> HIDE DEF p
  <2>5. v \div p = 0
    BY <2>3, QuotientIs
  <2> QED
    BY <2>2, <2>3, <2>4, <2>5
<1>10. Value(d) = Low(d, Word)
  <2>1. Word \in 0 .. size
    BY <1>1
  <2> QED
    BY <1>4, <1>5, <2>1, ValueByLength
<1>11. e \in BigNum(Word)
  <2>1. \A i \in 0 .. Word - 1 : d[i] \in 0 .. Base - 1
    BY <1>3, <1>5, Digits
  <2> QED
    BY <2>1 DEF BigNum
<1>12. \A i \in 0 .. Word - 1 : e[i] = d[i]
  OBVIOUS
<1>13. big_bigtoui(d) = Value(e)
  BY DEF big_bigtoui
<1> HIDE DEF e
<1>14. Value(e) = Low(d, Word)
  <2>1. Value(e) = Low(e, Word)
    BY <1>1, <1>11, LowStep
  <2>2. Low(e, Word) = Low(d, Word)
    <3>1. Word <= Word
      BY <1>1
    <3> QED
      BY <1>1, <1>5, <1>11, <1>12, <3>1, SameLow
  <2> QED
    BY <2>1, <2>2
<1> QED
  BY <1>9, <1>10, <1>13, <1>14 DEF d

-----------------------------------------------------------------------------
(* Division.                                                                *)

\* The next remainder of big_div with the digit e shifted in.
Shifted(v, d, e) ==
  ((((v - DivDigit(v, d) * d) % (Base * Base)) * Base) % (Base * Base)) + e

\* By a divisor up to the base, the 16 bits hold every remainder with a digit
\* shifted in.
LEMMA DivStep ==
  ASSUME NEW d \in Nat, d > 0, d <= Base, NEW v \in Nat, v < d * Base, NEW e \in 0 .. Base - 1
  PROVE  \E r \in 0 .. d - 1 : /\ DivDigit(v, d) \in 0 .. Base - 1
                               /\ v = d * DivDigit(v, d) + r
                               /\ Shifted(v, d, e) = r * Base + e
                               /\ r * Base + e \in Nat /\ r * Base + e < d * Base
<1> DEFINE q == v \div d
           r == v % d
           b == Base * Base
<1>1. Base \in Nat /\ Base > 2
  BY BigNumAssumption
<1>2. q \in Int /\ r \in 0 .. d - 1 /\ v = d * q + r
  BY QuotientRest
<1> HIDE DEF q, r
<1>3. q \in 0 .. Base - 1
  <2>1. CASE q < 0
    <3>1. PICK z \in Nat : q = -1 - z
      BY <1>2, <2>1, -1 - q \in Nat
    <3>2. d * q = -d - d * z /\ d * z \in Nat
      BY <3>1
    <3> QED
      BY <1>2, <3>2
  <2>2. CASE q >= Base
    <3>1. PICK z \in Nat : q = Base + z
      BY <1>1, <1>2, <2>2, q - Base \in Nat
    <3>2. d * q = d * Base + d * z /\ d * z \in Nat /\ d * Base \in Nat
      BY <1>1, <3>1
    <3> QED
      BY <1>2, <3>2
  <2> QED
    BY <1>1, <1>2, <2>1, <2>2
<1>4. DivDigit(v, d) = q
  <2>1. q % Base = q
    BY <1>1, <1>3, QuotientIs
  <2> QED
    BY <2>1 DEF DivDigit, q
<1>5. v - q * d = r
  <2>1. q * d = d * q /\ d * q \in Int
    BY <1>2
  <2> QED
    BY <1>2, <2>1
<1>6. r * Base + e \in Nat /\ r * Base + e < d * Base /\ r * Base \in Nat
  <2>1. PICK z \in Nat : d = r + 1 + z
    BY <1>2, d - r - 1 \in Nat
  <2>2. d * Base = r * Base + Base + z * Base /\ z * Base \in Nat /\ r * Base \in Nat
    BY <1>1, <1>2, <2>1
  <2> QED
    BY <1>1, <2>2
<1>7. d * Base <= b /\ b \in Nat /\ Base <= b
  <2>1. PICK z \in Nat : Base = d + z
    BY <1>1, Base - d \in Nat
  <2>2. Base * Base = d * Base + z * Base /\ z * Base \in Nat /\ d * Base \in Nat
    BY <1>1, <2>1
  <2>3. PICK u \in Nat : Base = 1 + u
    BY <1>1, Base - 1 \in Nat
  <2>4. Base * Base = Base + u * Base /\ u * Base \in Nat
    BY <1>1, <2>3
  <2> QED
    BY <1>1, <2>2, <2>4
<1> HIDE DEF b
<1>8. r % b = r
  BY <1>1, <1>2, <1>7, QuotientIs
<1>9. (r * Base) % b = r * Base
  <2> DEFINE s == r * Base
  <2>1. s \in Nat /\ s < b
    BY <1>1, <1>6, <1>7
  <2> HIDE DEF s
  <2>2. s % b = s
    BY <1>7, <2>1, QuotientIs
  <2> QED
    BY <2>2 DEF s
<1>10. Shifted(v, d, e) = r * Base + e
  BY <1>4, <1>5, <1>8, <1>9 DEF Shifted, b
<1> QED
  BY <1>2, <1>3, <1>4, <1>6, <1>10

\* The recursive definition of the remainders has the value it describes.
LEMMA TempsDef ==
  ASSUME NEW n \in Nat, n > 0, NEW a, a \in BigNum(n), NEW d \in Nat, d > 0
  PROVE  /\ Temps(a, d)[0] = a[n - 1]
         /\ \A k \in 1 .. n - 1 : Temps(a, d)[k] = Shifted(Temps(a, d)[k - 1], d, a[n - 1 - k])
<1> DEFINE m == n - 1
           c == a[m]
           g == [q \in (1 .. m) \X Int |-> Shifted(q[2], d, a[m - q[1]])]
           Body(t) == [k \in 0 .. m |-> IF k = 0 THEN a[m] ELSE Shifted(t[k - 1], d, a[m - k])]
           t == Temps(a, d)
<1>0. m \in Nat /\ c \in Int /\ \A k \in 1 .. m : m - k \in 0 .. n - 1 /\ a[m - k] \in Nat
  BY Digits
<1>1. g \in [(1 .. m) \X Int -> Int]
  <2> SUFFICES ASSUME NEW k \in 1 .. m, NEW v \in Int
               PROVE  Shifted(v, d, a[m - k]) \in Int
    OBVIOUS
  <2>1. \A u \in Int : u % (Base * Base) \in Int
    <3>1. Base * Base \in Nat /\ Base * Base > 0
      BY BigNumAssumption
    <3> QED
      BY <3>1, QuotientRest
  <2>2. Base \in Int /\ \A u \in Int : u % Base \in Int
    BY BigNumAssumption, QuotientRest
  <2>3. DivDigit(v, d) \in Int
    <3>1. v \div d \in Int
      BY QuotientRest
    <3> QED
      BY <2>2, <3>1 DEF DivDigit
  <2> DEFINE e == DivDigit(v, d)
             f == a[m - k]
             u == (v - e * d) % (Base * Base)
  <2>4. e \in Int /\ f \in Int
    BY <1>0, <2>3
  <2> HIDE DEF e, f
  <2>5. v - e * d \in Int
    BY <2>4
  <2>6. u \in Int
    BY <2>1, <2>5
  <2> HIDE DEF u
  <2>7. u * Base \in Int
    BY <2>2, <2>6
  <2>8. (u * Base) % (Base * Base) \in Int
    BY <2>1, <2>7
  <2>9. ((u * Base) % (Base * Base)) + f \in Int
    BY <2>4, <2>8
  <2> QED
    BY <2>9 DEF Shifted, u, e, f
<1>2. \A k \in 1 .. m, v \in Int : g[<<k, v>>] = Shifted(v, d, a[m - k])
  OBVIOUS
<1> HIDE DEF g, m, c
<1>3. PICK h \in [0 .. m -> Int] : Stepwise(h, m, c, g)
  BY <1>0, <1>1, IntRecursion
<1>4. ASSUME NEW k \in 1 .. m
      PROVE  h[k] = Shifted(h[k - 1], d, a[m - k])
  <2>1. k - 1 \in 0 .. m
    BY <1>0
  <2>2. h[k - 1] \in Int
    BY <2>1
  <2>3. g[<<k, h[k - 1]>>] = Shifted(h[k - 1], d, a[m - k])
    BY <1>2, <2>2, Zenon
  <2>4. h[k] = g[<<k, h[k - 1]>>]
    BY <1>3, Zenon DEF Stepwise
  <2> QED
    BY <2>3, <2>4, Zenon
<1>5. h = Body(h)
  <2>1. h[0] = a[m]
    BY <1>3 DEF Stepwise, c
  <2>2. \A k \in 0 .. m : h[k] = IF k = 0 THEN a[m] ELSE Shifted(h[k - 1], d, a[m - k])
    <3> TAKE k \in 0 .. m
    <3>1. CASE k = 0
      BY <2>1, <3>1
    <3>2. CASE k # 0
      BY <1>0, <1>4, <3>2
    <3> QED
      BY <3>1, <3>2
  <2>3. h = [k \in 0 .. m |-> h[k]]
    OBVIOUS
  <2> QED
    BY <2>2, <2>3
<1>6. t = CHOOSE u : u = Body(u)
  <2>1. Size(a) - 1 = m
    BY Digits DEF m
  <2> QED
    BY <2>1 DEF Temps, Shifted
<1>7. t = Body(t)
  BY <1>5, <1>6
<1> HIDE DEF t
<1>8. t[0] = a[m] /\ \A k \in 1 .. m : t[k] = Shifted(t[k - 1], d, a[m - k])
  BY <1>0, <1>7
<1> QED
  BY <1>8 DEF t, m

\* One byte further down: the part of the dividend read so far is the divisor
\* times the part of the quotient written so far, and the remainder.
LEMMA DivDown ==
  ASSUME NEW d \in Int, NEW va \in Int, NEW la \in Int, NEW vq \in Int, NEW lq \in Int,
         NEW digit \in Int, NEW r \in Int, NEW p \in Int, NEW e \in Int, NEW b \in Int,
         NEW u \in Int, NEW lu \in Int, NEW pu \in Int, NEW lqu \in Int,
         va - lu = d * (vq - lqu) + u * pu,
         u = d * digit + r, lqu = lq + digit * pu, lu = la + e * p, pu = b * p
  PROVE  va - la = d * (vq - lq) + (r * b + e) * p
<1> DEFINE dp == digit * pu
           z == vq - lq
<1>1. dp \in Int /\ z \in Int /\ vq - lqu = z - dp
  OBVIOUS
<1> HIDE DEF dp, z
<1>2. d * (vq - lqu) = d * z - d * dp /\ d * z \in Int /\ d * dp \in Int
  BY <1>1
<1>3. u * pu = d * dp + r * pu /\ r * pu \in Int
  BY DEF dp
<1>4. r * pu = (r * b) * p /\ (r * b) * p \in Int
  OBVIOUS
<1>5. (r * b + e) * p = (r * b) * p + e * p /\ e * p \in Int
  OBVIOUS
<1>6. va - la = d * z + (r * b + e) * p
  BY <1>2, <1>3, <1>4, <1>5
<1> QED
  BY <1>6 DEF z

\* big_div by a number up to the base is the integer quotient.
LEMMA DivIs ==
  ASSUME NEW n \in Nat, n > 0, NEW a, a \in BigNum(n), NEW d \in Nat, d > 0, d <= Base
  PROVE  big_div(a, d) \in BigNum(n) /\ Value(big_div(a, d)) = Value(a) \div d
<1> DEFINE m == n - 1
           t == Temps(a, d)
           q == big_div(a, d)
           Fits(v) == v \in Nat /\ v < d * Base
           Done(k) == Value(a) - Low(a, m - k) = d * (Value(q) - Low(q, m - k + 1)) + t[k] * Place(m - k)
           S == {k \in 0 .. m : Fits(t[k])}
           T == {k \in 0 .. m : Done(k)}
<1>1. Base \in Nat /\ Base > 2 /\ m \in Nat
  BY BigNumAssumption
<1>2. t[0] = a[m] /\ \A k \in 1 .. m : t[k] = Shifted(t[k - 1], d, a[m - k])
  BY TempsDef
<1>3. q = [i \in 0 .. m |-> DivDigit(t[m - i], d)]
  BY Digits DEF big_div
<1> HIDE DEF t, q
<1>4. \A k \in 0 .. m : k \in S
  <2>1. 0 \in S
    <3>1. a[m] \in 0 .. Base - 1
      BY Digits
    <3>2. PICK z \in Nat : d = 1 + z
      BY d - 1 \in Nat
    <3>3. d * Base = Base + z * Base /\ z * Base \in Nat
      BY <1>1, <3>2
    <3> QED
      BY <1>1, <1>2, <3>1, <3>3
  <2>2. ASSUME NEW k \in 0 .. m - 1, k \in S
        PROVE  k + 1 \in S
    <3> DEFINE e == a[m - (k + 1)]
               v == t[k]
    <3>1. m - (k + 1) \in 0 .. n - 1 /\ k + 1 \in 1 .. m /\ (k + 1) - 1 = k /\ k + 1 \in 0 .. m
      BY <1>1
    <3>2. e \in 0 .. Base - 1
      BY <3>1, Digits
    <3>3. t[k + 1] = Shifted(v, d, e)
      BY <1>2, <3>1
    <3>4. v \in Nat /\ v < d * Base
      BY <2>2
    <3> HIDE DEF e, v
    <3>5. Fits(Shifted(v, d, e))
      BY <3>2, <3>4, DivStep
    <3> QED
      BY <3>1, <3>3, <3>5
  <2> HIDE DEF S
  <2> QED
    BY <1>1, <2>1, <2>2, UpToInduction
<1>5. ASSUME NEW k \in 0 .. m
      PROVE  Fits(t[k])
  BY <1>4
<1> HIDE DEF S
<1>6. \A i \in 0 .. m : q[i] = DivDigit(t[m - i], d) /\ m - i \in 0 .. m
  BY <1>1, <1>3
<1>7. q \in BigNum(n)
  <2>1. ASSUME NEW i \in 0 .. m
        PROVE  q[i] \in 0 .. Base - 1
    <3> DEFINE v == t[m - i]
    <3>1. v \in Nat /\ v < d * Base /\ 0 \in 0 .. Base - 1
      BY <1>1, <1>5, <1>6
    <3>2. q[i] = DivDigit(v, d)
      BY <1>6
    <3> HIDE DEF v
    <3>3. DivDigit(v, d) \in 0 .. Base - 1
      BY <3>1, DivStep
    <3> QED
      BY <3>2, <3>3
  <2>2. q = [i \in 0 .. n - 1 |-> q[i]]
    BY <1>3
  <2> QED
    BY <2>1, <2>2 DEF BigNum
<1>8. /\ Value(a) = Low(a, n) /\ Value(q) = Low(q, n)
      /\ \A k \in 0 .. n : Low(a, k) \in Int /\ Low(q, k) \in Int
  BY <1>7, LowStep
<1>9. 0 \in T
  <2>1. m - 0 = m /\ m + 1 = n /\ m \in 0 .. n - 1 /\ m \in 0 .. n /\ n \in 0 .. n /\ 0 \in 0 .. m
    BY <1>1
  <2>2. Low(a, m + 1) = Low(a, m) + a[m] * Place(m)
    BY <2>1, LowStep
  <2>3. a[m] \in Nat
    BY <2>1, Digits
  <2>4. Place(m) \in Nat
    BY <1>1, PlaceStep
  <2> DEFINE w == a[m] * Place(m)
  <2>5. w \in Int
    BY <2>3, <2>4
  <2>6. Low(a, m) \in Int /\ Low(a, n) \in Int /\ Low(q, n) \in Int
    BY <1>8, <2>1
  <2> HIDE DEF w, m
  <2>7. Value(a) - Low(a, m) = w
    BY <1>8, <2>1, <2>2, <2>5, <2>6 DEF w
  <2>8. Value(q) - Low(q, m + 1) = 0
    BY <1>8, <2>1, <2>6
  <2>9. Value(a) - Low(a, m) = d * (Value(q) - Low(q, m + 1)) + t[0] * Place(m)
    BY <1>2, <2>5, <2>7, <2>8 DEF w
  <2>10. Done(0)
    BY <2>1, <2>9
  <2> QED
    BY <2>1, <2>10
<1>10. ASSUME NEW k \in 0 .. m - 1, k \in T
       PROVE  k + 1 \in T
  <2> DEFINE i == m - k
             j == m - (k + 1)
             v == t[k]
             e == a[j]
  <2>1. /\ j \in 0 .. n - 1 /\ j + 1 = i /\ i \in 0 .. n - 1 /\ j \in 0 .. n /\ i \in 0 .. n /\ i + 1 \in 0 .. n
        /\ k + 1 \in 1 .. m /\ k + 1 \in 0 .. m /\ (k + 1) - 1 = k /\ i \in 0 .. m /\ m - i = k
        /\ j \in Nat /\ k \in 0 .. m
    BY <1>1
  <2>2. e \in 0 .. Base - 1
    BY <2>1, Digits
  <2>3. t[k + 1] = Shifted(v, d, e)
    BY <1>2, <2>1
  <2>4. v \in Nat /\ v < d * Base
    BY <1>5, <2>1
  <2>5. q[i] = DivDigit(v, d)
    BY <1>6, <2>1
  <2>6. Value(a) - Low(a, i) = d * (Value(q) - Low(q, i + 1)) + v * Place(i)
    BY <1>10
  <2>7. m - (k + 1) + 1 = i
    BY <1>1
  <2> HIDE DEF i, v, e, j
  <2>8. PICK r \in 0 .. d - 1 : /\ DivDigit(v, d) \in 0 .. Base - 1
                               /\ v = d * DivDigit(v, d) + r
                               /\ Shifted(v, d, e) = r * Base + e
    BY <2>2, <2>4, DivStep
  <2>9. Low(a, j + 1) = Low(a, j) + e * Place(j)
    BY <2>1, LowStep DEF e
  <2>10. Low(q, i + 1) = Low(q, i) + q[i] * Place(i)
    BY <1>7, <2>1, LowStep
  <2>11. Place(j) \in Nat /\ Place(j + 1) = Base * Place(j)
    BY <2>1, PlaceStep
  <2>12. /\ Low(a, j) \in Int /\ Low(a, i) \in Int /\ Low(q, i) \in Int /\ Low(q, i + 1) \in Int
         /\ Value(a) \in Int /\ Value(q) \in Int
    <3>1. n \in 0 .. n
      OBVIOUS
    <3> QED
      BY <1>8, <2>1, <3>1
  <2> DEFINE va == Value(a)
             la == Low(a, j)
             vq == Value(q)
             lq == Low(q, i)
             digit == DivDigit(v, d)
             p == Place(j)
             b == Base
             lu == Low(a, i)
             pu == Place(i)
             lqu == Low(q, i + 1)
  <2>13. /\ va \in Int /\ la \in Int /\ vq \in Int /\ lq \in Int /\ digit \in Int /\ r \in Int
         /\ p \in Int /\ e \in Int /\ b \in Int /\ v \in Int /\ lu \in Int /\ pu \in Int
         /\ lqu \in Int /\ d \in Int
    <3>1. b * p \in Int
      BY <1>1, <2>11
    <3> QED
      BY <1>1, <2>1, <2>2, <2>4, <2>8, <2>11, <2>12, <3>1
  <2>14. va - lu = d * (vq - lqu) + v * pu
    BY <2>6
  <2>15. v = d * digit + r /\ lqu = lq + digit * pu /\ lu = la + e * p /\ pu = b * p
    BY <2>1, <2>5, <2>8, <2>9, <2>10, <2>11
  <2> HIDE DEF va, la, vq, lq, digit, p, b, lu, pu, lqu
  <2>16. va - la = d * (vq - lq) + (r * b + e) * p
    BY <2>13, <2>14, <2>15, DivDown
  <2>17. Value(a) - Low(a, j) = d * (Value(q) - Low(q, i)) + t[k + 1] * Place(j)
    BY <2>3, <2>8, <2>16 DEF va, la, vq, lq, p, b
  <2>18. Done(k + 1)
    BY <2>7, <2>17 DEF j
  <2> QED
    BY <2>1, <2>18
<1> HIDE DEF T
<1>11. Done(m)
  <2>1. \A k \in 0 .. m : k \in T
    BY <1>1, <1>9, <1>10, UpToInduction
  <2>2. m \in 0 .. m
    BY <1>1
  <2> QED
    BY <2>1, <2>2 DEF T
<1>12. Value(a) = d * (Value(q) - Low(q, 1)) + t[m]
  <2>1. m - m = 0 /\ m - m + 1 = 1 /\ m \in 0 .. m
    BY <1>1
  <2>2. Low(a, 0) = 0 /\ Place(0) = 1
    BY LowStep, PlaceStep
  <2>3. Value(a) - Low(a, 0) = d * (Value(q) - Low(q, 1)) + t[m] * Place(0)
    BY <1>11, <2>1
  <2>4. Value(a) \in Int /\ t[m] \in Int
    <3>1. n \in 0 .. n
      OBVIOUS
    <3> QED
      BY <1>5, <1>8, <2>1, <3>1
  <2>5. Value(a) - Low(a, 0) = Value(a) /\ t[m] * Place(0) = t[m]
    BY <2>2, <2>4
  <2> QED
    BY <2>3, <2>5
<1>13. Low(q, 1) = q[0] /\ q[0] = DivDigit(t[m], d)
  <2>1. 0 \in 0 .. n - 1 /\ 0 + 1 = 1 /\ 0 \in 0 .. m /\ m - 0 = m
    BY <1>1
  <2>2. Low(q, 0 + 1) = Low(q, 0) + q[0] * Place(0) /\ Low(q, 0) = 0 /\ Place(0) = 1
    BY <1>7, <2>1, LowStep, PlaceStep
  <2>3. q[0] \in Nat
    BY <1>7, <2>1, Digits
  <2>4. Low(q, 1) = q[0]
    BY <2>1, <2>2, <2>3
  <2> QED
    BY <1>6, <2>1, <2>4
<1>14. Value(q) = Value(a) \div d
  <2> DEFINE v == t[m]
             digit == DivDigit(v, d)
             va == Value(a)
             vq == Value(q)
  <2>1. v \in Nat /\ v < d * Base /\ 0 \in 0 .. Base - 1
    <3>1. m \in 0 .. m
      BY <1>1
    <3> QED
      BY <1>1, <1>5, <3>1
  <2>2. va \in Int /\ vq \in Int /\ va = d * (vq - digit) + v
    <3>1. n \in 0 .. n
      OBVIOUS
    <3> QED
      BY <1>8, <1>12, <1>13, <3>1
  <2> HIDE DEF v, va, vq
  <2>3. PICK r \in 0 .. d - 1 : digit \in 0 .. Base - 1 /\ v = d * digit + r
    BY <2>1, DivStep
  <2> HIDE DEF digit
  <2>4. va = d * vq + r
    <3>1. d * (vq - digit) = d * vq - d * digit /\ d * vq \in Int /\ d * digit \in Int
      BY <1>1, <2>2, <2>3
    <3> QED
      BY <2>2, <2>3, <3>1
  <2>5. va \div d = vq
    BY <2>2, <2>3, <2>4, QuotientIs
  <2> QED
    BY <2>5 DEF va, vq
<1> QED
  BY <1>7, <1>14 DEF q

-----------------------------------------------------------------------------
(* Multiplication.                                                          *)

\* What digit u of a gives to place k, by the lowest l digits of b.
Term(a, b, l, u, k) == IF u <= k /\ k - u < l THEN a[u] * b[k - u] ELSE 0

\* All that the lowest m digits of a give to place k.
Terms(a, b, l, k) == [u \in Nat |-> Term(a, b, l, u, k)]
Given(a, b, l, k, m) == SumBelow(Terms(a, b, l, k), m)

LEMMA TermIs ==
  ASSUME NEW n \in Nat, NEW a, a \in BigNum(n), NEW b, b \in BigNum(n), NEW l \in 0 .. n,
         NEW u \in 0 .. n - 1, NEW k \in Nat
  PROVE  Terms(a, b, l, k)[u] = Term(a, b, l, u, k) /\ Term(a, b, l, u, k) \in Nat
<1>1. Terms(a, b, l, k)[u] = Term(a, b, l, u, k)
  BY DEF Terms
<1>2. CASE u <= k /\ k - u < l
  <2>1. k - u \in 0 .. n - 1
    BY <1>2
  <2>2. a[u] \in Nat
    BY Digits
  <2>3. b[k - u] \in Nat
    BY <2>1, Digits
  <2>4. a[u] * b[k - u] \in Nat
    BY <2>2, <2>3
  <2> QED
    BY <1>1, <1>2, <2>4 DEF Term
<1>3. CASE ~(u <= k /\ k - u < l)
  BY <1>1, <1>3 DEF Term
<1> QED
  BY <1>2, <1>3

\* A digit of a gives the number b, at the digit's place.
LEMMA RowIs ==
  ASSUME NEW n \in Nat, NEW a, a \in BigNum(n), NEW b, b \in BigNum(n), NEW l \in 0 .. n,
         NEW u \in 0 .. n - 1, NEW N \in Nat, u + l <= N,
         NEW f, \A k \in 0 .. N - 1 : f[k] = Term(a, b, l, u, k) * Place(k)
  PROVE  Summands(f, N) /\ SumBelow(f, N) = (a[u] * Place(u)) * Low(b, l)
<1>1. ASSUME NEW k \in 0 .. N - 1
      PROVE  f[k] \in Int
  <2>1. Term(a, b, l, u, k) \in Nat
    BY TermIs
  <2>2. Place(k) \in Nat
    BY PlaceStep
  <2>3. f[k] = Term(a, b, l, u, k) * Place(k)
    OBVIOUS
  <2> QED
    BY <2>1, <2>2, <2>3
<1>2. Summands(f, N)
  BY <1>1 DEF Summands
<1>3. PICK c \in Int : c = a[u] * Place(u)
  <2>1. a[u] \in Nat
    BY Digits
  <2>2. Place(u) \in Nat
    BY PlaceStep
  <2> QED
    BY <2>1, <2>2
<1>4. PICK g : \A j \in 0 .. l - 1 : g[j] = f[u + j]
  <2> DEFINE g == [j \in 0 .. l - 1 |-> f[u + j]]
  <2>1. \A j \in 0 .. l - 1 : g[j] = f[u + j]
    OBVIOUS
  <2> QED
    BY <2>1
<1>5. \A j \in 0 .. l - 1 : g[j] = c * Weights(b)[j] /\ Weights(b)[j] \in Int
  <2> TAKE j \in 0 .. l - 1
  <2>1. j \in 0 .. n - 1 /\ u + j \in 0 .. N - 1 /\ u <= u + j /\ (u + j) - u = j /\ j < l
        /\ j \in Nat /\ u \in Nat
    OBVIOUS
  <2>2. g[j] = Term(a, b, l, u, u + j) * Place(u + j)
    BY <1>4, <2>1
  <2>3. Term(a, b, l, u, u + j) = a[u] * b[j]
    BY <2>1 DEF Term
  <2>4. Place(u + j) = Place(u) * Place(j)
    <3>1. Base \in Int
      BY BigNumAssumption
    <3> QED
      BY <2>1, <3>1, PowerPlus DEF Place
  <2>5. Weights(b)[j] = b[j] * Place(j) /\ Weights(b)[j] \in Int /\ b[j] \in Nat /\ Place(j) \in Nat
    BY <2>1, WeightsAre
  <2>6. a[u] \in Nat
    BY Digits
  <2>7. Place(u) \in Nat
    BY PlaceStep
  <2> DEFINE p == a[u]
             q == b[j]
             r == Place(u)
             s == Place(j)
  <2>8. p \in Int /\ q \in Int /\ r \in Int /\ s \in Int
    BY <2>5, <2>6, <2>7
  <2>9. g[j] = (p * q) * (r * s) /\ c = p * r /\ Weights(b)[j] = q * s
    BY <1>3, <2>2, <2>3, <2>4, <2>5
  <2> HIDE DEF p, q, r, s
  <2>10. (p * q) * (r * s) = (p * r) * (q * s)
    BY <2>8
  <2> QED
    BY <2>5, <2>9, <2>10
<1>6. Summands(Weights(b), l) /\ l \in Nat /\ l \in 0 .. l
  BY <1>5 DEF Summands
<1>7. SumBelow(g, l) = c * Low(b, l)
  BY <1>5, <1>6, SumTimes DEF Low
<1>8. \A k \in 0 .. u - 1 : f[k] = 0
  <2> TAKE k \in 0 .. u - 1
  <2>1. k \in 0 .. N - 1 /\ ~(u <= k) /\ k \in Nat
    OBVIOUS
  <2>2. Place(k) \in Nat
    BY <2>1, PlaceStep
  <2> QED
    BY <2>1, <2>2 DEF Term
<1>9. \A k \in u + l .. N - 1 : f[k] = 0
  <2> TAKE k \in u + l .. N - 1
  <2>1. k \in 0 .. N - 1 /\ ~(k - u < l) /\ k \in Nat
    OBVIOUS
  <2>2. Place(k) \in Nat
    BY <2>1, PlaceStep
  <2> QED
    BY <2>1, <2>2 DEF Term
<1>10. SumBelow(f, N) = SumBelow(g, l)
  <2>1. u \in Nat /\ l \in Nat
    OBVIOUS
  <2>2. \A j \in 0 .. l - 1 : g[j] = f[u + j]
    BY <1>4
  <2>3. Window(f, N, u, g, l)
    BY <1>2, <1>8, <1>9, <2>2 DEF Window
  <2> QED
    BY <2>1, <2>3, SumWindow
<1> QED
  BY <1>2, <1>3, <1>7, <1>10

\* The sum of the columns is the product.
LEMMA ColumnsSum ==
  ASSUME NEW n \in Nat, NEW a, a \in BigNum(n), NEW b, b \in BigNum(n), NEW l \in 0 .. n,
         NEW m \in 0 .. n, NEW N \in Nat, m + l <= N + 1,
         NEW w, \A k \in 0 .. N - 1 : w[k] = Given(a, b, l, k, m) * Place(k)
  PROVE  SumBelow(w, N) = Low(a, m) * Low(b, l)
<1> DEFINE W(j) == [k \in 0 .. N - 1 |-> Given(a, b, l, k, j) * Place(k)]
           T == {j \in 0 .. m : Summands(W(j), N) /\ SumBelow(W(j), N) = Low(a, j) * Low(b, l)}
<1>1. \A j \in 0 .. n : Low(a, j) \in Int /\ Low(b, j) \in Int
  BY LowStep
<1>2. 0 \in T
  <2>1. ASSUME NEW k \in 0 .. N - 1
        PROVE  W(0)[k] = 0
    <3>1. Given(a, b, l, k, 0) = 0
      BY SumStep DEF Given
    <3>2. Place(k) \in Nat
      BY PlaceStep
    <3> QED
      BY <3>1, <3>2
  <2> HIDE DEF W
  <2>2. Summands(W(0), N) /\ N \in 0 .. N
    BY <2>1 DEF Summands
  <2>3. SumBelow(W(0), N) = 0
    BY <2>1, <2>2, SumZero
  <2>4. Low(a, 0) = 0
    BY LowStep
  <2> QED
    BY <1>1, <2>2, <2>3, <2>4
<1>3. ASSUME NEW j \in 0 .. m - 1, j \in T
      PROVE  j + 1 \in T
  <2>1. j \in 0 .. n - 1 /\ j \in 0 .. n /\ j + l <= N /\ j + 1 \in 0 .. m /\ N \in 0 .. N
    OBVIOUS
  <2>2. PICK f : \A k \in 0 .. N - 1 : f[k] = Term(a, b, l, j, k) * Place(k)
    <3> DEFINE f == [k \in 0 .. N - 1 |-> Term(a, b, l, j, k) * Place(k)]
    <3>1. \A k \in 0 .. N - 1 : f[k] = Term(a, b, l, j, k) * Place(k)
      OBVIOUS
    <3> QED
      BY <3>1
  <2>3. Summands(f, N) /\ SumBelow(f, N) = (a[j] * Place(j)) * Low(b, l)
    BY <2>1, <2>2, RowIs
  <2>4. ASSUME NEW k \in 0 .. N - 1
        PROVE  W(j + 1)[k] = W(j)[k] + f[k]
    <3>1. Summands(Terms(a, b, l, k), n) /\ k \in Nat
      <4>1. k \in Nat
        OBVIOUS
      <4>2. ASSUME NEW u \in 0 .. n - 1
            PROVE  Terms(a, b, l, k)[u] \in Int
        <5>1. Terms(a, b, l, k)[u] = Term(a, b, l, u, k) /\ Term(a, b, l, u, k) \in Nat
          BY <4>1, TermIs
        <5> QED
          BY <5>1
      <4> QED
        BY <4>1, <4>2 DEF Summands
    <3>2. /\ Given(a, b, l, k, j) \in Int
          /\ Given(a, b, l, k, j + 1) = Given(a, b, l, k, j) + Terms(a, b, l, k)[j]
      BY <2>1, <3>1, SumNext DEF Given
    <3>3. Terms(a, b, l, k)[j] = Term(a, b, l, j, k) /\ Term(a, b, l, j, k) \in Nat
      BY <2>1, <3>1, TermIs
    <3>4. Place(k) \in Nat
      BY <3>1, PlaceStep
    <3> DEFINE g == Given(a, b, l, k, j)
               t == Term(a, b, l, j, k)
               p == Place(k)
    <3>5. W(j + 1)[k] = (g + t) * p /\ W(j)[k] = g * p /\ f[k] = t * p
      BY <2>2, <3>2, <3>3
    <3>6. g \in Int /\ t \in Int /\ p \in Int
      BY <3>2, <3>3, <3>4
    <3> HIDE DEF g, t, p, W
    <3>7. (g + t) * p = g * p + t * p
      BY <3>6
    <3> QED
      BY <3>5, <3>7
  <2> HIDE DEF W
  <2>5. Summands(W(j), N) /\ SumBelow(W(j), N) = Low(a, j) * Low(b, l)
    BY <1>3
  <2>6. Summands(W(j + 1), N)
    BY <2>3, <2>4, <2>5 DEF Summands
  <2>7. SumBelow(W(j + 1), N) = SumBelow(W(j), N) + SumBelow(f, N)
    <3>1. \A k \in 0 .. N - 1 : W(j + 1)[k] = W(j)[k] + f[k]
      BY <2>4
    <3>2. Summands(f, N) /\ Summands(W(j), N)
      BY <2>3, <2>5
    <3>3. ASSUME NEW u, NEW v, NEW z, Summands(u, N), Summands(v, N),
                 \A k \in 0 .. N - 1 : z[k] = u[k] + v[k]
          PROVE  SumBelow(z, N) = SumBelow(u, N) + SumBelow(v, N)
      BY <2>1, <3>3, SumPlus
    <3> QED
      BY <3>1, <3>2, <3>3, Zenon
  <2>8. Low(a, j + 1) = Low(a, j) + a[j] * Place(j)
    BY <2>1, LowStep
  <2>9. a[j] * Place(j) \in Int
    <3>1. a[j] \in Nat /\ Place(j) \in Nat
      BY <2>1, WeightsAre
    <3> QED
      BY <3>1
  <2>10. \A u, v, z \in Int : (u + v) * z = u * z + v * z
    OBVIOUS
  <2>11. Low(a, j) \in Int /\ Low(b, l) \in Int
    BY <1>1, <2>1
  <2>12. (Low(a, j) + a[j] * Place(j)) * Low(b, l)
           = Low(a, j) * Low(b, l) + (a[j] * Place(j)) * Low(b, l)
    BY <2>9, <2>10, <2>11, Zenon
  <2>13. SumBelow(W(j + 1), N) = Low(a, j + 1) * Low(b, l)
    BY <2>3, <2>5, <2>7, <2>8, <2>12
  <2> QED
    BY <2>1, <2>6, <2>13
<1>4. \A j \in 0 .. m : j \in T
  <2> HIDE DEF T
  <2> QED
    BY <1>2, <1>3, UpToInduction
<1>5. Summands(W(m), N) /\ SumBelow(W(m), N) = Low(a, m) * Low(b, l) /\ N \in 0 .. N
  BY <1>4
<1>6. \A k \in 0 .. N - 1 : W(m)[k] = w[k]
  OBVIOUS
<1> HIDE DEF W
<1>7. SumBelow(W(m), N) = SumBelow(w, N)
  BY <1>5, <1>6, SumSame
<1> QED
  BY <1>5, <1>7

\* How far big_mult goes along b; a number without length still has a digit.
Reach(b) == IF big_length(b) = 0 THEN 1 ELSE big_length(b)

\* A column of big_mult collects exactly what the digits of a give to it.
LEMMA ColumnIs ==
  ASSUME NEW n \in Nat, n > 0, NEW a, a \in BigNum(n), NEW b, b \in BigNum(n),
         big_length(a) > 0, NEW k \in 0 .. big_length(a) + big_length(b) - 1
  PROVE  Column(a, b, k) = Given(a, b, Reach(b), k, big_length(a)) /\ Column(a, b, k) \in Nat
<1> DEFINE alen == big_length(a)
           blen == big_length(b)
           i2 == IF blen = 0 \/ k < blen - 1 THEN k ELSE blen - 1
           i1 == k - i2
           count2 == Min({alen - i1, i2 + 1})
           l == Reach(b)
           f == Terms(a, b, l, k)
           g == [j \in 0 .. count2 - 1 |-> a[i1 + j] * b[i2 - j]]
<1>1. /\ alen \in 0 .. n /\ alen > 0 /\ blen \in 0 .. n /\ k \in 0 .. alen + blen - 1
      /\ \A i \in blen .. n - 1 : i > 0 => b[i] = 0
  BY LengthIs
<1>2. l = (IF blen = 0 THEN 1 ELSE blen) /\ l \in 0 .. n
  BY <1>1 DEF Reach
<1>3. Column(a, b, k) = SumBelow(g, count2)
  BY DEF Column
<1> HIDE DEF alen, blen, l
<1>4. i2 \in Nat /\ i1 \in Nat /\ i1 <= alen /\ i1 + i2 = k /\ i2 <= k /\ k \in Nat
  BY <1>1
<1>5. i1 > 0 => i2 = blen - 1 /\ blen > 0
  BY <1>1
<1>6. blen > 0 => i2 < blen
  BY <1>1
<1>7. blen = 0 => i1 = 0 /\ i2 = k /\ k < alen
  BY <1>1
<1> HIDE DEF i2, i1
<1>8. count2 = IF alen - i1 <= i2 + 1 THEN alen - i1 ELSE i2 + 1
  <2>1. alen - i1 \in Int /\ i2 + 1 \in Int
    BY <1>1, <1>4
  <2> QED
    BY <2>1, MinOfTwo
<1>9. \A j \in 0 .. count2 - 1 : g[j] = a[i1 + j] * b[i2 - j]
  OBVIOUS
<1> HIDE DEF count2, g
<1>10. count2 \in Nat /\ i1 + count2 <= alen /\ i1 + count2 <= k + 1
       /\ (i1 + count2 < alen => i1 + count2 = k + 1)
  BY <1>1, <1>4, <1>8
<1>11. ASSUME NEW u \in 0 .. alen - 1
       PROVE  f[u] = Term(a, b, l, u, k) /\ f[u] \in Nat /\ u \in 0 .. n - 1
  <2>1. u \in 0 .. n - 1
    BY <1>1
  <2>2. l \in 0 .. n /\ k \in Nat
    BY <1>2, <1>4
  <2>3. Terms(a, b, l, k)[u] = Term(a, b, l, u, k) /\ Term(a, b, l, u, k) \in Nat
    BY <2>1, <2>2, TermIs
  <2> QED
    BY <2>1, <2>3
<1> HIDE DEF f
<1>12. Summands(f, alen)
  BY <1>11 DEF Summands
<1>13. \A u \in 0 .. i1 - 1 : f[u] = 0
  <2> TAKE u \in 0 .. i1 - 1
  <2>1. u \in 0 .. alen - 1 /\ i1 > 0
    BY <1>1, <1>4
  <2>2. ~(k - u < l)
    BY <1>1, <1>2, <1>4, <1>5, <2>1
  <2> QED
    BY <1>11, <2>1, <2>2 DEF Term
<1>14. \A u \in i1 + count2 .. alen - 1 : f[u] = 0
  <2> TAKE u \in i1 + count2 .. alen - 1
  <2>1. u \in 0 .. alen - 1 /\ ~(u <= k)
    BY <1>1, <1>4, <1>10
  <2> QED
    BY <1>11, <2>1 DEF Term
<1>15. \A j \in 0 .. count2 - 1 : g[j] = f[i1 + j]
  <2> TAKE j \in 0 .. count2 - 1
  <2> DEFINE u == i1 + j
  <2>1. u \in 0 .. alen - 1 /\ u <= k /\ k - u = i2 - j /\ k - u \in Nat
    BY <1>1, <1>4, <1>10
  <2>2. g[j] = a[u] * b[k - u]
    BY <1>9, <2>1
  <2> HIDE DEF u
  <2>3. f[u] = IF k - u < l THEN a[u] * b[k - u] ELSE 0
    BY <1>11, <2>1 DEF Term
  <2>4. CASE k - u < l
    BY <2>2, <2>3, <2>4 DEF u
  <2>5. CASE ~(k - u < l)
    <3>1. blen = 0 /\ k - u > 0 /\ k - u \in blen .. n - 1
      BY <1>1, <1>2, <1>4, <1>6, <1>7, <2>1, <2>5
    <3>2. b[k - u] = 0
      BY <1>1, <3>1
    <3>3. a[u] \in Nat
      BY <1>11, <2>1, Digits
    <3> QED
      BY <2>2, <2>3, <2>5, <3>2, <3>3 DEF u
  <2> QED
    BY <2>4, <2>5
<1>16. SumBelow(f, alen) = SumBelow(g, count2)
  <2>1. Window(f, alen, i1, g, count2)
    BY <1>10, <1>12, <1>13, <1>14, <1>15 DEF Window
  <2>2. alen \in Nat
    BY <1>1
  <2> QED
    BY <1>4, <1>10, <2>1, <2>2, SumWindow
<1>17. SumBelow(f, alen) \in Nat
  <2>1. PICK h : \A u \in 0 .. alen - 1 : h[u] = 0
    <3> DEFINE h == [u \in 0 .. alen - 1 |-> 0]
    <3>1. \A u \in 0 .. alen - 1 : h[u] = 0
      OBVIOUS
    <3> QED
      BY <3>1
  <2>2. Summands(h, alen) /\ alen \in Nat /\ alen \in 0 .. alen
    BY <1>1, <2>1 DEF Summands
  <2>3. SumBelow(h, alen) = 0
    BY <2>1, <2>2, SumZero
  <2>4. \A u \in 0 .. alen - 1 : h[u] <= f[u]
    BY <1>11, <2>1
  <2>5. SumBelow(h, alen) <= SumBelow(f, alen)
    BY <1>12, <2>2, <2>4, SumAtMost
  <2>6. SumBelow(f, alen) \in Int
    BY <1>12, <2>2, SumInt
  <2> QED
    BY <2>3, <2>5, <2>6
<1> QED
  BY <1>3, <1>16, <1>17 DEF Given, f, l, alen

\* The columns of big_mult, and what they count at their places.
Collected(a, b, N, col, w) ==
  /\ N = big_length(a) + big_length(b)
  /\ col = [i \in 0 .. N - 1 |-> Column(a, b, i)] /\ Columns(col, N)
  /\ \A i \in 0 .. N - 1 : w[i] = col[i] * Place(i)

\* The bytes that big_mult writes and zeroes above them are a number; it is
\* the sum of the columns exactly when that has room in the bytes written.
LEMMA MultWrites ==
  ASSUME NEW a, NEW b, NEW N \in Nat, NEW col, NEW w, Collected(a, b, N, col, w),
         NEW size \in Nat, N > 0, N <= size
  PROVE  (Value(big_mult(a, b, size)) = SumBelow(w, N)) <=> (SumBelow(w, N) < Place(N))
<1> DEFINE d == [i \in 0 .. N - 1 |-> Carried(col, N)[i] % Base]
           r == big_mult(a, b, size)
<1>0. /\ N = big_length(a) + big_length(b) /\ col = [i \in 0 .. N - 1 |-> Column(a, b, i)]
      /\ Columns(col, N) /\ \A i \in 0 .. N - 1 : w[i] = col[i] * Place(i)
  BY DEF Collected
<1>1. Product(a, b) = d
  BY <1>0 DEF Product
<1>2. DOMAIN d = 0 .. N - 1
  OBVIOUS
<1>3. d \in BigNum(N) /\ ((Value(d) = SumBelow(w, N)) <=> (SumBelow(w, N) < Place(N)))
  BY <1>0, CarriedExact
<1> HIDE DEF d
<1>4. r = [i \in 0 .. size - 1 |-> IF i \in 0 .. N - 1 THEN d[i] ELSE 0]
  BY <1>1, <1>2 DEF big_mult
<1> HIDE DEF r
<1>5. \A i \in 0 .. N - 1 : r[i] = d[i] /\ i \in 0 .. size - 1
  BY <1>4
<1>6. \A i \in N .. size - 1 : r[i] = 0
  BY <1>4
<1>7. r \in BigNum(size)
  <2>1. \A i \in 0 .. N - 1 : d[i] \in 0 .. Base - 1
    BY <1>3, Digits
  <2>2. 0 \in 0 .. Base - 1
    BY BigNumAssumption
  <2>3. \A i \in 0 .. size - 1 : r[i] \in 0 .. Base - 1
    BY <1>4, <2>1, <2>2
  <2>4. r = [i \in 0 .. size - 1 |-> r[i]]
    BY <1>4
  <2> QED
    BY <2>3, <2>4 DEF BigNum
<1>8. Value(r) = Low(r, N)
  <2>1. N \in 0 .. size
    OBVIOUS
  <2> QED
    BY <1>6, <1>7, <2>1, ValueByLength
<1>9. Low(r, N) = Low(d, N)
  <2>1. N <= N /\ \A i \in 0 .. N - 1 : r[i] = d[i]
    BY <1>5
  <2> QED
    BY <1>3, <1>7, <2>1, SameLow
<1>10. Value(d) = Low(d, N)
  BY <1>3, LowStep
<1> QED
  BY <1>3, <1>8, <1>9, <1>10 DEF r

\* big_mult of a number without length gives zero.
LEMMA MultByNothing ==
  ASSUME NEW n \in Nat, n > 0, NEW a, a \in BigNum(n), NEW b, b \in BigNum(n),
         NEW size \in Nat, n <= size, big_length(a) = 0
  PROVE  Value(big_mult(a, b, size)) = 0
<1> DEFINE N == big_length(b)
           col == [i \in 0 .. N - 1 |-> Column(a, b, i)]
           w == [i \in 0 .. N - 1 |-> col[i] * Place(i)]
<1>1. N \in 0 .. n /\ N = big_length(a) + big_length(b)
  BY LengthIs
<1>2. CASE N = 0
  <2> DEFINE r == big_mult(a, b, size)
  <2>1. DOMAIN Product(a, b) = 0 .. N - 1
    BY <1>1 DEF Product
  <2>2. r = [i \in 0 .. size - 1 |-> 0]
    BY <1>2, <2>1 DEF big_mult
  <2> HIDE DEF r
  <2>3. r \in BigNum(size) /\ \A i \in 0 .. size - 1 : r[i] = 0
    BY <2>2, BigNumAssumption DEF BigNum
  <2>4. Value(r) = Low(r, 0)
    <3>1. 0 \in 0 .. size
      OBVIOUS
    <3> QED
      BY <2>3, <3>1, ValueByLength
  <2>5. Low(r, 0) = 0
    BY <2>3, LowStep
  <2> QED
    BY <2>4, <2>5 DEF r
<1>3. CASE N > 0
  <2>1. ASSUME NEW i \in 0 .. N - 1
        PROVE  Column(a, b, i) = 0
    <3> DEFINE i2 == IF N = 0 \/ i < N - 1 THEN i ELSE N - 1
               count2 == Min({0 - (i - i2), i2 + 1})
               g == [j \in 0 .. count2 - 1 |-> a[(i - i2) + j] * b[i2 - j]]
    <3>1. Column(a, b, i) = SumBelow(g, count2)
      BY DEF Column
    <3>2. i2 = i
      BY <1>1, <1>3
    <3>3. 0 - (i - i2) = 0 /\ i2 + 1 > 0 /\ i2 + 1 \in Int
      BY <1>1, <3>2
    <3> HIDE DEF i2
    <3>4. count2 = 0
      <4> DEFINE u == 0 - (i - i2)
                 v == i2 + 1
      <4>1. u \in Int /\ v \in Int /\ u <= v /\ u = 0
        BY <3>3
      <4> HIDE DEF u, v
      <4>2. Min({u, v}) = 0
        BY <4>1, MinOfTwo
      <4> QED
        BY <4>2 DEF u, v
    <3> HIDE DEF g, count2
    <3>5. SumBelow(g, 0) = 0
      BY SumStep
    <3> QED
      BY <3>1, <3>4, <3>5
  <2>2. N \in Nat /\ N <= size /\ N \in 0 .. N
    BY <1>1
  <2> HIDE DEF N
  <2>3. \A i \in 0 .. N - 1 : col[i] = 0
    BY <2>1
  <2>4. Columns(col, N)
    BY <2>3 DEF Columns
  <2>5. \A i \in 0 .. N - 1 : w[i] = col[i] * Place(i)
    OBVIOUS
  <2>6. col = [i \in 0 .. N - 1 |-> Column(a, b, i)]
    OBVIOUS
  <2> HIDE DEF w, col
  <2>7. \A i \in 0 .. N - 1 : w[i] = 0
    <3> TAKE i \in 0 .. N - 1
    <3>1. i \in Nat
      BY <2>2
    <3>2. Place(i) \in Nat
      BY <3>1, PlaceStep
    <3> QED
      BY <2>3, <2>5, <3>2
  <2>8. SumBelow(w, N) = 0
    BY <2>2, <2>7, SumZero
  <2>9. Place(N) \in Nat /\ Place(N) > 0
    BY <2>2, PlaceStep
  <2>10. (Value(big_mult(a, b, size)) = SumBelow(w, N)) <=> (SumBelow(w, N) < Place(N))
    <3>1. Collected(a, b, N, col, w)
      BY <1>1, <2>4, <2>5, <2>6 DEF N, Collected
    <3> QED
      BY <1>3, <2>2, <3>1, MultWrites
  <2> QED
    BY <2>8, <2>9, <2>10
<1> QED
  BY <1>1, <1>2, <1>3

\* The product of two numbers below their places is below the product.
LEMMA ProductBelow ==
  ASSUME NEW u \in Nat, NEW p \in Nat, u < p, NEW v \in Nat, NEW q \in Nat, v < q
  PROVE  u * v < p * q
<1>1. PICK e \in Nat : p = u + 1 + e
  BY p - u - 1 \in Nat
<1>2. PICK f \in Nat : q = v + 1 + f
  BY q - v - 1 \in Nat
<1>3. p * q = u * q + q + e * q /\ u * q \in Nat /\ e * q \in Nat
  BY <1>1
<1>4. u * q = u * v + u + u * f /\ u * v \in Nat /\ u * f \in Nat
  BY <1>2
<1> QED
  BY <1>2, <1>3, <1>4

\* big_mult is exact for numbers with a length; with one digit of b only, as
\* long as the product stays within the length of a.
LEMMA MultIs ==
  ASSUME NEW n \in Nat, n > 0, NEW a, a \in BigNum(n), NEW b, b \in BigNum(n),
         NEW size \in Nat, 2 * n <= size, big_length(a) > 0
  PROVE  /\ big_length(b) > 0 => Value(big_mult(a, b, size)) = Value(a) * Value(b)
         /\ big_length(b) = 0 => ((Value(big_mult(a, b, size)) = Value(a) * Value(b))
                                    <=> (Value(a) * Value(b) < Place(big_length(a))))
<1> DEFINE alen == big_length(a)
           blen == big_length(b)
           N == alen + blen
           l == Reach(b)
           col == [i \in 0 .. N - 1 |-> Column(a, b, i)]
           w == [i \in 0 .. N - 1 |-> col[i] * Place(i)]
           z == Value(big_mult(a, b, size))
<1>1. /\ alen \in 0 .. n /\ alen > 0 /\ alen # 1 /\ blen \in 0 .. n /\ blen # 1
      /\ \A i \in alen .. n - 1 : i > 0 => a[i] = 0
      /\ \A i \in blen .. n - 1 : i > 0 => b[i] = 0
  BY LengthIs
<1>2. l = (IF blen = 0 THEN 1 ELSE blen) /\ l \in 0 .. n
  BY <1>1 DEF Reach
<1>3. \A k \in 0 .. N - 1 : Column(a, b, k) = Given(a, b, l, k, alen) /\ Column(a, b, k) \in Nat
  BY <1>1, ColumnIs
<1> HIDE DEF alen, blen, l
<1>4. /\ N \in Nat /\ N > 0 /\ N <= size /\ alen + l <= N + 1 /\ alen \in Nat /\ blen \in Nat
      /\ l \in 0 .. n /\ alen \in 0 .. n
  BY <1>1, <1>2
<1>5. \A i \in 0 .. N - 1 : col[i] = Given(a, b, l, i, alen) /\ col[i] \in Nat
  BY <1>3
<1>6. N = big_length(a) + big_length(b)
  BY DEF alen, blen
<1> HIDE DEF N
<1>7. /\ col = [i \in 0 .. N - 1 |-> Column(a, b, i)]
      /\ \A i \in 0 .. N - 1 : w[i] = col[i] * Place(i)
  OBVIOUS
<1> HIDE DEF col, w
<1>8. Columns(col, N)
  BY <1>5 DEF Columns
<1>9. (z = SumBelow(w, N)) <=> (SumBelow(w, N) < Place(N))
  <2>1. N \in Nat /\ N > 0 /\ N <= size
    BY <1>4
  <2>2. Collected(a, b, N, col, w)
    BY <1>6, <1>7, <1>8 DEF Collected
  <2> QED
    BY <2>1, <2>2, MultWrites
<1>10. SumBelow(w, N) = Low(a, alen) * Low(b, l)
  <2>1. \A k \in 0 .. N - 1 : w[k] = Given(a, b, l, k, alen) * Place(k)
    BY <1>5, <1>7
  <2> QED
    BY <1>4, <2>1, ColumnsSum
<1>11. Value(a) = Low(a, alen)
  <2>1. \A i \in alen .. n - 1 : a[i] = 0
    BY <1>1
  <2> QED
    BY <1>4, <2>1, ValueByLength
<1>12. Value(b) = Low(b, l)
  <2>1. \A i \in l .. n - 1 : b[i] = 0
    BY <1>1, <1>2
  <2> QED
    BY <1>4, <2>1, ValueByLength
<1>13. (z = Value(a) * Value(b)) <=> (Value(a) * Value(b) < Place(N))
  BY <1>9, <1>10, <1>11, <1>12
<1> HIDE DEF z
<1>14. ASSUME blen > 0
       PROVE  z = Value(a) * Value(b)
  <2>1. l = blen
    BY <1>2, <1>14
  <2>2. Low(a, alen) \in Nat /\ Low(a, alen) < Place(alen)
    BY <1>4, LowBelowPlace
  <2>3. Low(b, blen) \in Nat /\ Low(b, blen) < Place(blen)
    BY <1>4, <2>1, LowBelowPlace
  <2>4. Place(alen) \in Nat /\ Place(blen) \in Nat
    BY <1>4, PlaceStep
  <2>5. Place(N) = Place(alen) * Place(blen)
    <3>1. Base \in Int
      BY BigNumAssumption
    <3> QED
      BY <1>4, <3>1, PowerPlus DEF Place, N
  <2>6. Low(a, alen) * Low(b, blen) < Place(alen) * Place(blen)
    BY <2>2, <2>3, <2>4, ProductBelow
  <2> QED
    BY <1>11, <1>12, <1>13, <2>1, <2>5, <2>6
<1>15. ASSUME blen = 0
       PROVE  (z = Value(a) * Value(b)) <=> (Value(a) * Value(b) < Place(alen))
  <2>1. N = alen
    BY <1>4, <1>15 DEF N
  <2> QED
    BY <1>13, <2>1
<1> QED
  BY <1>14, <1>15 DEF z, alen, blen

\* What big_add leaves, by the order in which big_comp puts the operands.
LEMMA AddIs ==
  ASSUME NEW n \in Nat, n > 0, NEW a, a \in BigNum(n), NEW b, b \in BigNum(n)
  PROVE  /\ big_comp(a, b) > 0 => /\ big_length(b) <= big_length(a)
                                  /\ big_add(a, b).a = AddInto(b, a) /\ big_add(a, b).b = AddInto(b, a)
         /\ ~(big_comp(a, b) > 0) => /\ big_length(a) <= big_length(b)
                                     /\ big_add(a, b).a = a /\ big_add(a, b).b = AddInto(a, b)
<1>1. /\ big_comp(a, b) \in {-1, 0, 1}
      /\ big_comp(a, b) = 1 => Value(a) > Value(b)
      /\ big_comp(a, b) # 1 => big_length(a) <= big_length(b)
  BY CompIs
<1>2. /\ big_comp(b, a) = 1 => Value(b) > Value(a)
      /\ big_comp(b, a) # 1 => big_length(b) <= big_length(a)
  BY CompIs
<1>3. Value(a) \in Int /\ Value(b) \in Int
  BY LowStep
<1>4. ASSUME big_comp(a, b) > 0
      PROVE  /\ big_length(b) <= big_length(a)
             /\ big_add(a, b).a = AddInto(b, a) /\ big_add(a, b).b = AddInto(b, a)
  <2>1. big_comp(a, b) = 1
    BY <1>1, <1>4
  <2>2. big_length(b) <= big_length(a)
    BY <1>1, <1>2, <1>3, <2>1
  <2> QED
    BY <1>4, <2>2 DEF big_add
<1>5. ASSUME ~(big_comp(a, b) > 0)
      PROVE  /\ big_length(a) <= big_length(b)
             /\ big_add(a, b).a = a /\ big_add(a, b).b = AddInto(a, b)
  <2>1. big_comp(a, b) # 1
    BY <1>5
  <2> QED
    BY <1>1, <1>5, <2>1 DEF big_add
<1> QED
  BY <1>4, <1>5

\* When the addition is exact, the operands in order of length.
LEMMA AddExact ==
  ASSUME NEW n \in Nat, n > 0, NEW a, a \in BigNum(n), NEW b, b \in BigNum(n),
         big_length(a) <= big_length(b)
  PROVE  (Value(AddInto(a, b)) = Value(a) + Value(b))
           <=> (IF big_length(a) = 0 THEN Value(a) = 0 ELSE Value(a) + Value(b) < Place(big_length(b)))
<1>1. Value(a) \in Int /\ Value(b) \in Int
  BY LowStep
<1>2. big_length(a) \in 0 .. n
  BY LengthIs
<1>3. CASE big_length(a) = 0
  <2>1. AddInto(a, b) = b
    BY <1>3, AddIntoIs
  <2> QED
    BY <1>1, <1>3, <2>1
<1>4. CASE big_length(a) > 0
  BY <1>4, AddIntoIs
<1> QED
  BY <1>2, <1>3, <1>4

-----------------------------------------------------------------------------
(* The calls of bignum.c.                                                   *)

\* The operands are remembered until the call, which is the only one.
CallsInv ==
  /\ big_x0 \in BigNum(Width) /\ big_y0 \in BigNum(Width)
  /\ Idle => big_x = big_x0 /\ big_y = big_y0
  /\ ArithmeticExact

\* Every call of bignum.c agrees with the integers within the limits that
\* ArithmeticExact states: big_add without a carry out of the longer operand,
\* big_mult of operands with at least two bytes, big_div by a divisor up to
\* the base, big_comp up to the lowest byte, the conversions of a uint32_t.
THEOREM BigNumExact == CallsSpec => []ArithmeticExact
<1>0. Width \in Nat /\ Width > 0 /\ 2 * Width \in Nat /\ Word <= 2 * Width /\ Divisors \subseteq Nat \ {0}
  BY CallsAssumption
<1> USE DEF Called
<1>1. CallsInit => CallsInv
  BY DEF CallsInit, CallsInv, Idle, ArithmeticExact, AddExactWithinLength, MultExactFromTwoBytes,
         DivExactUpToBase, CompSound, ConvertRoundTrip
<1>2. CallsInv /\ [CallsNext]_callsVars => CallsInv'
  <2> SUFFICES ASSUME CallsInv, [CallsNext]_callsVars
               PROVE  CallsInv'
    OBVIOUS
  <2>1. big_x0 \in BigNum(Width) /\ big_y0 \in BigNum(Width) /\ (Idle => big_x = big_x0 /\ big_y = big_y0)
    BY DEF CallsInv
  <2>2. CASE Add
    <3> DEFINE short == IF big_comp(big_x0, big_y0) > 0 THEN big_y0 ELSE big_x0
               long == IF big_comp(big_x0, big_y0) > 0 THEN big_x0 ELSE big_y0
    <3>1. /\ big_x = big_x0 /\ big_y = big_y0 /\ big_x' = big_add(big_x0, big_y0).a /\ big_y' = big_add(big_x0, big_y0).b
          /\ called' = <<"add", 0>> /\ big_x0' = big_x0 /\ big_y0' = big_y0
      BY <2>1, <2>2 DEF Add
    <3>2. Value(big_x0) \in Int /\ Value(big_y0) \in Int
      BY <1>0, <2>1, LowStep
    <3>3. CASE big_comp(big_x0, big_y0) > 0
      <4>1. big_length(big_y0) <= big_length(big_x0) /\ big_x' = AddInto(big_y0, big_x0) /\ big_y' = AddInto(big_y0, big_x0)
        BY <1>0, <2>1, <3>1, <3>3, AddIs
      <4>2. (Value(big_y') = Value(big_y0) + Value(big_x0))
              <=> (IF big_length(big_y0) = 0 THEN Value(big_y0) = 0
                                         ELSE Value(big_y0) + Value(big_x0) < Place(big_length(big_x0)))
        BY <1>0, <2>1, <4>1, AddExact
      <4>3. Value(big_y0) + Value(big_x0) = Value(big_x0) + Value(big_y0)
        BY <3>2
      <4>4. AddExactWithinLength'
        BY <3>1, <3>3, <4>1, <4>2, <4>3 DEF AddExactWithinLength
      <4> QED
        BY <2>1, <3>1, <4>4 DEF CallsInv, Idle, ArithmeticExact, MultExactFromTwoBytes,
           DivExactUpToBase, CompSound, ConvertRoundTrip
    <3>4. CASE ~(big_comp(big_x0, big_y0) > 0)
      <4>1. big_length(big_x0) <= big_length(big_y0) /\ big_x' = big_x0 /\ big_y' = AddInto(big_x0, big_y0)
        BY <1>0, <2>1, <3>1, <3>4, AddIs
      <4>2. (Value(big_y') = Value(big_x0) + Value(big_y0))
              <=> (IF big_length(big_x0) = 0 THEN Value(big_x0) = 0
                                         ELSE Value(big_x0) + Value(big_y0) < Place(big_length(big_y0)))
        BY <1>0, <2>1, <4>1, AddExact
      <4>3. AddExactWithinLength'
        BY <3>1, <3>4, <4>1, <4>2 DEF AddExactWithinLength
      <4> QED
        BY <2>1, <3>1, <4>3 DEF CallsInv, Idle, ArithmeticExact, MultExactFromTwoBytes,
           DivExactUpToBase, CompSound, ConvertRoundTrip
    <3> QED
      BY <3>3, <3>4
  <2>3. CASE Mult
    <3>1. /\ big_x = big_x0 /\ big_y = big_y0 /\ big_res' = big_mult(big_x0, big_y0, 2 * Width)
          /\ called' = <<"mult", 0>> /\ big_x0' = big_x0 /\ big_y0' = big_y0
      BY <2>1, <2>3 DEF Mult
    <3>2. big_length(big_x0) \in 0 .. Width /\ big_length(big_y0) \in 0 .. Width
      BY <1>0, <2>1, LengthIs
    <3>3. MultExactFromTwoBytes'
      <4>1. CASE big_length(big_x0) = 0
        <5>1. Value(big_res') = 0
          BY <1>0, <2>1, <3>1, <4>1, MultByNothing
        <5>2. Value(big_x0) \in Nat /\ Value(big_y0) \in Nat
          <6>1. Width \in 0 .. Width
            BY <1>0
          <6>2. Value(big_x0) = Low(big_x0, Width) /\ Value(big_y0) = Low(big_y0, Width)
            BY <1>0, <2>1, LowStep
          <6>3. Low(big_x0, Width) \in Nat /\ Low(big_y0, Width) \in Nat
            BY <1>0, <2>1, <6>1, LowBelowPlace
          <6> QED
            BY <6>2, <6>3
        <5> DEFINE exact == Value(big_x0) * Value(big_y0)
        <5>3. exact \in Nat /\ Place(0) = 1
          BY <5>2, PlaceStep
        <5> HIDE DEF exact
        <5>4. exact < Place(0) => exact = 0
          BY <5>3
        <5> QED
          BY <3>1, <4>1, <5>1, <5>4 DEF MultExactFromTwoBytes, exact
      <4>2. CASE big_length(big_x0) > 0
        <5>1. /\ big_length(big_y0) > 0 => Value(big_res') = Value(big_x0) * Value(big_y0)
              /\ big_length(big_y0) = 0 => ((Value(big_res') = Value(big_x0) * Value(big_y0))
                                          <=> (Value(big_x0) * Value(big_y0) < Place(big_length(big_x0))))
          BY <1>0, <2>1, <3>1, <4>2, MultIs
        <5> QED
          BY <3>1, <3>2, <4>2, <5>1 DEF MultExactFromTwoBytes
      <4> QED
        BY <3>2, <4>1, <4>2
    <3> QED
      BY <2>1, <3>1, <3>3 DEF CallsInv, Idle, ArithmeticExact, AddExactWithinLength,
         DivExactUpToBase, CompSound, ConvertRoundTrip
  <2>4. ASSUME NEW d \in Divisors, Div(d)
        PROVE  CallsInv'
    <3> DEFINE q == big_div(big_x0, d)
               r == [i \in 0 .. 2 * Width - 1 |-> IF i < Width THEN q[i] ELSE 0]
    <3>1. big_x = big_x0 /\ big_res' = r /\ called' = <<"div", d>> /\ big_x0' = big_x0 /\ big_y0' = big_y0
      BY <2>1, <2>4 DEF Div
    <3>2. DivExactUpToBase'
      <4> SUFFICES ASSUME d <= Base
                   PROVE  Value(big_res') = Value(big_x0) \div d
        BY <3>1 DEF DivExactUpToBase
      <4>1. d \in Nat /\ d > 0
        BY <1>0
      <4>2. q \in BigNum(Width) /\ Value(q) = Value(big_x0) \div d
        BY <1>0, <2>1, <4>1, DivIs
      <4> HIDE DEF q
      <4>3. /\ \A i \in 0 .. Width - 1 : r[i] = q[i]
            /\ \A i \in Width .. 2 * Width - 1 : r[i] = 0
        BY <1>0
      <4>4. r \in BigNum(2 * Width)
        <5>1. \A i \in 0 .. Width - 1 : q[i] \in 0 .. Base - 1
          BY <1>0, <4>2, Digits
        <5>2. 0 \in 0 .. Base - 1
          BY BigNumAssumption
        <5> QED
          BY <1>0, <5>1, <5>2 DEF BigNum
      <4> HIDE DEF r
      <4>5. Width \in 0 .. 2 * Width /\ Width <= Width /\ Width <= 2 * Width
        BY <1>0
      <4>6. Value(r) = Low(r, Width)
        BY <1>0, <4>3, <4>4, <4>5, ValueByLength
      <4>7. Low(r, Width) = Low(q, Width)
        BY <1>0, <4>2, <4>3, <4>4, <4>5, SameLow
      <4>8. Value(q) = Low(q, Width)
        BY <1>0, <4>2, LowStep
      <4> QED
        BY <3>1, <4>2, <4>6, <4>7, <4>8
    <3> QED
      BY <2>1, <3>1, <3>2 DEF CallsInv, Idle, ArithmeticExact, AddExactWithinLength,
         MultExactFromTwoBytes, CompSound, ConvertRoundTrip
  <2>5. CASE Comp
    <3>1. /\ big_x = big_x0 /\ big_y = big_y0 /\ returned' = big_comp(big_x0, big_y0) /\ big_x' = big_x0 /\ big_y' = big_y0
          /\ called' = <<"comp", 0>> /\ big_x0' = big_x0 /\ big_y0' = big_y0
      BY <2>1, <2>5 DEF Comp
    <3>2. /\ returned' \in {-1, 0, 1}
          /\ returned' = 1 => Value(big_x0) > Value(big_y0)
          /\ returned' = -1 => Value(big_x0) < Value(big_y0)
          /\ returned' = 0 => Value(big_x0) \div Base = Value(big_y0) \div Base
      BY <1>0, <2>1, <3>1, CompIs
    <3>3. CompSound'
      BY <3>1, <3>2 DEF CompSound
    <3> QED
      BY <2>1, <3>1, <3>3 DEF CallsInv, Idle, ArithmeticExact, AddExactWithinLength,
         MultExactFromTwoBytes, DivExactUpToBase, ConvertRoundTrip
  <2>6. CASE Convert
    <3>1. /\ big_x = big_x0 /\ Value(big_x0) < Place(Word) /\ big_res' = big_uitobig(Value(big_x0), 2 * Width)
          /\ returned' = big_bigtoui(big_res') /\ called' = <<"convert", 0>> /\ big_x0' = big_x0 /\ big_y0' = big_y0
      BY <2>1, <2>6 DEF Convert
    <3>2. Value(big_x0) \in Nat
      <4>1. Width \in 0 .. Width
        BY <1>0
      <4>2. Value(big_x0) = Low(big_x0, Width) /\ Low(big_x0, Width) \in Nat
        BY <1>0, <2>1, <4>1, LowStep, LowBelowPlace
      <4> QED
        BY <4>2
    <3>3. Value(big_res') = Value(big_x0) /\ returned' = Value(big_x0)
      BY <1>0, <3>1, <3>2, ConvertIs
    <3>4. ConvertRoundTrip'
      BY <3>1, <3>3 DEF ConvertRoundTrip
    <3> QED
      BY <2>1, <3>1, <3>4 DEF CallsInv, Idle, ArithmeticExact, AddExactWithinLength,
         MultExactFromTwoBytes, DivExactUpToBase, CompSound
  <2>7. CASE UNCHANGED callsVars
    BY <2>7 DEF callsVars, CallsInv, Idle, ArithmeticExact, AddExactWithinLength,
       MultExactFromTwoBytes, DivExactUpToBase, CompSound, ConvertRoundTrip
  <2> QED
    BY <2>2, <2>3, <2>4, <2>5, <2>6, <2>7 DEF CallsNext
<1>3. CallsInv => ArithmeticExact
  BY DEF CallsInv
<1> QED
  BY <1>1, <1>2, <1>3, PTL DEF CallsSpec

-----------------------------------------------------------------------------
(* The seconds of a retargeting.                                            *)

\* The difference of two times in the width of a uint32_t.
LEMMA Elapsed ==
  ASSUME NEW u \in Nat, u > 0, NEW s \in 0 .. u - 1, NEW t \in 0 .. u - 1
  PROVE  (t - s) % u = IF t >= s THEN t - s ELSE u + (t - s)
<1>1. CASE t >= s
  <2> DEFINE v == t - s
  <2>1. v \in Int /\ v = u * 0 + v /\ 0 <= v /\ v < u
    BY <1>1
  <2> HIDE DEF v
  <2>2. v % u = v
    BY <2>1, QuotientIs
  <2> QED
    BY <1>1, <2>2 DEF v
<1>2. CASE ~(t >= s)
  <2> DEFINE v == t - s
             r == u + (t - s)
             q == -1
  <2>1. v \in Int /\ r \in Int /\ q \in Int /\ v = u * q + r /\ 0 <= r /\ r < u
    BY <1>2
  <2> HIDE DEF v, r, q
  <2>2. v % u = r
    BY <2>1, QuotientIs
  <2> QED
    BY <1>2, <2>2 DEF v, r
<1> QED
  BY <1>1, <1>2

RetargetInv ==
  /\ time \in 0 .. UInt - 1 /\ earlier \in 0 .. UInt - 1
  /\ SecondsBounded

\* The seconds that enter a retargeting are within the bounds, also when the
\* difference of the block times wraps around.
THEOREM SecondsAlwaysBounded == RetargetSpec => []SecondsBounded
<1>0. /\ HalfWeek \in Nat /\ EightWeeks \in Nat /\ HalfWeek <= EightWeeks /\ EightWeeks < UInt
      /\ UInt \in Nat /\ UInt > 0
  <2>1. Word \in Nat
    BY BigNumAssumption
  <2> QED
    BY <2>1, RetargetAssumption, PlaceStep DEF UInt
<1>1. RetargetInit => RetargetInv
  BY DEF RetargetInit, RetargetInv, SecondsBounded
<1>2. RetargetInv /\ [RetargetNext]_retargetVars => RetargetInv'
  <2> SUFFICES ASSUME RetargetInv, [RetargetNext]_retargetVars
               PROVE  RetargetInv'
    OBVIOUS
  <2> HIDE DEF UInt
  <2>0. time \in 0 .. UInt - 1 /\ earlier \in 0 .. UInt - 1 /\ UInt' = UInt
    BY DEF RetargetInv, UInt, Place
  <2>1. CASE Keep
    BY <2>0, <2>1 DEF Keep, RetargetInv, SecondsBounded, inputs
  <2>2. CASE Recompute \/ Overrun
    <3>1. /\ diff' = Clamped(time, earlier) /\ phase' \in {"computed", "overrun"}
          /\ time' = time /\ earlier' = earlier
      BY <2>2 DEF Recompute, Overrun, Due, inputs
    <3> DEFINE e == (time - earlier) % UInt
    <3>2. e = IF time >= earlier THEN time - earlier ELSE UInt + (time - earlier)
      BY <1>0, <2>0, Elapsed
    <3>3. diff' = IF e > EightWeeks THEN EightWeeks ELSE IF e < HalfWeek THEN HalfWeek ELSE e
      BY <3>1 DEF Clamped
    <3> HIDE DEF e
    <3>4. /\ diff' \in HalfWeek .. EightWeeks
          /\ time - earlier \in HalfWeek .. EightWeeks => diff' = time - earlier
          /\ time >= earlier /\ time - earlier < HalfWeek => diff' = HalfWeek
          /\ time < earlier /\ earlier - time < UInt - EightWeeks => diff' = EightWeeks
      BY <1>0, <2>0, <3>2, <3>3
    <3> QED
      BY <2>0, <3>1, <3>4 DEF RetargetInv, SecondsBounded
  <2>3. CASE NotDue
    BY <2>0, <2>3 DEF NotDue, RetargetInv, SecondsBounded, inputs
  <2>4. CASE UNCHANGED retargetVars
    BY <2>0, <2>4 DEF retargetVars, RetargetInv, SecondsBounded, inputs
  <2> QED
    BY <2>1, <2>2, <2>3, <2>4 DEF RetargetNext
<1>3. RetargetInv => SecondsBounded
  BY DEF RetargetInv
<1> QED
  BY <1>1, <1>2, <1>3, PTL DEF RetargetSpec
=============================================================================
