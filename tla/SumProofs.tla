------------------------------ MODULE SumProofs ------------------------------
(***************************************************************************)
(* Induction in a form the provers can instantiate (a set in the place of  *)
(* a predicate), the existence of recursive functions, and from both what  *)
(* the sums of module Sums are for every number of summands.               *)
(***************************************************************************)
EXTENDS Sums, WellFoundedInduction, TLAPS

\* A set that has 0 and the successors of its members has every number.
LEMMA SetInduction ==
  ASSUME NEW S, 0 \in S, \A n \in Nat : n \in S => n + 1 \in S
  PROVE  \A n \in Nat : n \in S
<1> DEFINE R == OpToRel(<, Nat)
           T == Nat \ S
<1>1. IsWellFoundedOn(R, Nat)
  BY NatLessThanWellFounded
<1>2. \A x, y \in Nat : x < y => <<x, y>> \in R
  BY DEF OpToRel
<1> HIDE DEF R
<1>3. SUFFICES ASSUME T # {}
               PROVE  FALSE
  OBVIOUS
<1>4. PICK x \in T : \A y \in T : ~(<<y, x>> \in R)
  <2>1. T \subseteq Nat
    OBVIOUS
  <2> HIDE DEF T
  <2> QED
    BY <1>1, <1>3, <2>1, WFMin
<1>5. x \in Nat /\ x \notin S /\ x # 0
  OBVIOUS
<1>6. x - 1 \in Nat /\ x - 1 < x /\ (x - 1) + 1 = x
  BY <1>5
<1>7. <<x - 1, x>> \in R
  BY <1>2, <1>5, <1>6
<1>8. x - 1 \in S
  BY <1>4, <1>6, <1>7
<1> QED
  BY <1>5, <1>6, <1>8

\* The same up to a bound.
LEMMA UpToInduction ==
  ASSUME NEW N \in Nat, NEW S, 0 \in S, \A n \in 0 .. N - 1 : n \in S => n + 1 \in S
  PROVE  \A n \in 0 .. N : n \in S
<1> DEFINE T == {n \in Nat : n <= N => n \in S}
<1>1. 0 \in T
  OBVIOUS
<1>2. ASSUME NEW n \in Nat, n \in T
      PROVE  n + 1 \in T
  <2>1. CASE n + 1 <= N
    <3>1. n \in 0 .. N - 1 /\ n \in S
      BY <1>2, <2>1
    <3> QED
      BY <3>1
  <2>2. CASE ~(n + 1 <= N)
    BY <2>2
  <2> QED
    BY <2>1, <2>2
<1> HIDE DEF T
<1>3. \A n \in Nat : n \in T
  BY <1>1, <1>2, SetInduction
<1> QED
  BY <1>3 DEF T

\* f starts with a and goes on with the steps g.
Stepwise(f, N, a, g) == f[0] = a /\ \A n \in 1 .. N : f[n] = g[<<n, f[n - 1]>>]

\* There is a function that starts with a and goes on with the steps g.
LEMMA Recursion ==
  ASSUME NEW N \in Nat, NEW S, NEW a \in S, NEW g \in [(1 .. N) \X S -> S]
  PROVE  \E f \in [0 .. N -> S] : Stepwise(f, N, a, g)
<1> DEFINE Good(k, f) == Stepwise(f, k, a, g)
           D == {k \in Nat : \E f \in [0 .. k -> S] : Good(k, f)}
<1>1. 0 \in D
  <2> DEFINE f == [i \in 0 .. 0 |-> a]
  <2>1. f \in [0 .. 0 -> S] /\ f[0] = a
    OBVIOUS
  <2>2. Good(0, f)
    BY <2>1 DEF Stepwise
  <2> QED
    BY <2>1, <2>2
<1>2. ASSUME NEW k \in 0 .. N - 1, k \in D
      PROVE  k + 1 \in D
  <2>1. PICK f \in [0 .. k -> S] : Good(k, f)
    BY <1>2
  <2> DEFINE h == [i \in 0 .. k + 1 |-> IF i = k + 1 THEN g[<<k + 1, f[k]>>] ELSE f[i]]
  <2>2. g[<<k + 1, f[k]>>] \in S
    OBVIOUS
  <2>3. h \in [0 .. k + 1 -> S]
    BY <2>2
  <2>4. h[0] = a /\ h[k + 1] = g[<<k + 1, f[k]>>] /\ \A i \in 0 .. k : h[i] = f[i]
    BY <2>1 DEF Stepwise
  <2> HIDE DEF h
  <2>5. ASSUME NEW n \in 1 .. k + 1
        PROVE  h[n] = g[<<n, h[n - 1]>>]
    <3>1. CASE n = k + 1
      BY <2>4, <3>1
    <3>2. CASE n # k + 1
      <4>1. n \in 1 .. k /\ n \in 0 .. k /\ n - 1 \in 0 .. k
        BY <3>2
      <4>2. h[n] = f[n] /\ h[n - 1] = f[n - 1]
        BY <2>4, <4>1
      <4>3. f[n] = g[<<n, f[n - 1]>>]
        BY <2>1, <4>1 DEF Stepwise
      <4> QED
        BY <4>2, <4>3
    <3> QED
      BY <3>1, <3>2
  <2>6. Good(k + 1, h)
    BY <2>4, <2>5 DEF Stepwise
  <2> QED
    BY <2>3, <2>6
<1> HIDE DEF D
<1>3. N \in D
  BY <1>1, <1>2, UpToInduction
<1> QED
  BY <1>3 DEF D

\* The same for integers.
LEMMA IntRecursion ==
  ASSUME NEW N \in Nat, NEW a \in Int, NEW g \in [(1 .. N) \X Int -> Int]
  PROVE  \E f \in [0 .. N -> Int] : Stepwise(f, N, a, g)
<1> DEFINE S == Int
           A == [(1 .. N) \X S -> S]
           B == [0 .. N -> S]
<1>1. g \in A /\ a \in S
  OBVIOUS
<1>2. a \in S /\ g \in A => \E f \in B : Stepwise(f, N, a, g)
  BY Recursion
<1> HIDE DEF S, A
<1>3. \E f \in B : Stepwise(f, N, a, g)
  BY <1>1, <1>2
<1> QED
  BY <1>3 DEF S

-----------------------------------------------------------------------------
(* Division and remainder by a number that is not given.                    *)

\* A quotient is the number of times the divisor fits.
LEMMA QuotientIs ==
  ASSUME NEW v \in Int, NEW d \in Nat, d > 0, NEW q \in Int, NEW r \in Int,
         v = d * q + r, 0 <= r, r < d
  PROVE  v \div d = q /\ v % d = r
OBVIOUS

\* Every number is quotient times divisor plus remainder.
LEMMA QuotientRest ==
  ASSUME NEW v \in Int, NEW d \in Nat, d > 0
  PROVE  /\ v \div d \in Int /\ v % d \in 0 .. d - 1
         /\ v = d * (v \div d) + (v % d)
OBVIOUS

-----------------------------------------------------------------------------
(* Sums.                                                                    *)

Summands(f, n) == \A i \in 0 .. n - 1 : f[i] \in Int

\* The recursive definition of the partial sums has the value it describes.
LEMMA PartialSumsDef ==
  ASSUME NEW f, NEW n \in Nat, Summands(f, n)
  PROVE  /\ PartialSums(f, n) \in [0 .. n -> Int]
         /\ PartialSums(f, n)[0] = 0
         /\ \A i \in 1 .. n : PartialSums(f, n)[i] = PartialSums(f, n)[i - 1] + f[i - 1]
<1> DEFINE g == [p \in (1 .. n) \X Int |-> p[2] + f[p[1] - 1]]
           Body(s) == [i \in 0 .. n |-> IF i = 0 THEN 0 ELSE s[i - 1] + f[i - 1]]
           s == PartialSums(f, n)
<1>1. g \in [(1 .. n) \X Int -> Int]
  BY DEF Summands
<1>2. \A i \in 1 .. n, v \in Int : g[<<i, v>>] = v + f[i - 1]
  OBVIOUS
<1> HIDE DEF g
<1>3. PICK h \in [0 .. n -> Int] : Stepwise(h, n, 0, g)
  BY <1>1, IntRecursion
<1>4. ASSUME NEW i \in 1 .. n
      PROVE  h[i] = h[i - 1] + f[i - 1]
  <2>1. i - 1 \in 0 .. n
    OBVIOUS
  <2>2. h[i - 1] \in Int
    BY <2>1
  <2>3. g[<<i, h[i - 1]>>] = h[i - 1] + f[i - 1]
    BY <1>2, <2>2, Zenon
  <2>4. h[i] = g[<<i, h[i - 1]>>]
    BY <1>3, Zenon DEF Stepwise
  <2> QED
    BY <2>3, <2>4, Zenon
<1>5. h = Body(h)
  BY <1>3, <1>4 DEF Stepwise
<1>6. s = CHOOSE t : t = Body(t)
  BY DEF PartialSums
<1>7. s = Body(s)
  BY <1>5, <1>6
<1> HIDE DEF s
<1>8. s[0] = 0 /\ \A i \in 1 .. n : s[i] = s[i - 1] + f[i - 1]
  BY <1>7
<1>9. \A i \in 0 .. n : s[i] \in Int
  <2> DEFINE T == {i \in 0 .. n : s[i] \in Int}
  <2>1. 0 \in T
    BY <1>8
  <2>2. ASSUME NEW i \in 0 .. n - 1, i \in T
        PROVE  i + 1 \in T
    <3>1. s[i + 1] = s[i] + f[i]
      BY <1>8
    <3> QED
      BY <2>2, <3>1 DEF Summands
  <2> HIDE DEF T
  <2>3. \A i \in 0 .. n : i \in T
    BY <2>1, <2>2, UpToInduction
  <2> QED
    BY <2>3 DEF T
<1>10. s \in [0 .. n -> Int]
  BY <1>7, <1>9
<1> QED
  BY <1>8, <1>10 DEF s

\* The sum of nothing, and of one more.
LEMMA SumStep ==
  ASSUME NEW f
  PROVE  /\ SumBelow(f, 0) = 0
         /\ \A n \in Nat : Summands(f, n + 1) =>
               SumBelow(f, n) \in Int /\ SumBelow(f, n + 1) = SumBelow(f, n) + f[n]
<1>1. SumBelow(f, 0) = 0
  BY PartialSumsDef DEF SumBelow, Summands
<1>2. ASSUME NEW n \in Nat, Summands(f, n + 1)
      PROVE  SumBelow(f, n) \in Int /\ SumBelow(f, n + 1) = SumBelow(f, n) + f[n]
  <2> DEFINE s == PartialSums(f, n)
             t == PartialSums(f, n + 1)
  <2>1. Summands(f, n)
    BY <1>2 DEF Summands
  <2>2. /\ s \in [0 .. n -> Int] /\ s[0] = 0
        /\ \A i \in 1 .. n : s[i] = s[i - 1] + f[i - 1]
    BY <2>1, PartialSumsDef
  <2>3. /\ t \in [0 .. n + 1 -> Int] /\ t[0] = 0
        /\ \A i \in 1 .. n + 1 : t[i] = t[i - 1] + f[i - 1]
    BY <1>2, PartialSumsDef
  <2> HIDE DEF s, t
  <2>4. \A i \in 0 .. n : s[i] = t[i]
    <3> DEFINE T == {i \in 0 .. n : s[i] = t[i]}
    <3>1. 0 \in T
      BY <2>2, <2>3
    <3>2. ASSUME NEW i \in 0 .. n - 1, i \in T
          PROVE  i + 1 \in T
      <4>1. s[i + 1] = s[i] + f[i] /\ t[i + 1] = t[i] + f[i] /\ s[i] = t[i]
        BY <2>2, <2>3, <3>2
      <4> QED
        BY <4>1
    <3> HIDE DEF T
    <3>3. \A i \in 0 .. n : i \in T
      BY <3>1, <3>2, UpToInduction
    <3> QED
      BY <3>3 DEF T
  <2>5. t[n + 1] = s[n] + f[n] /\ s[n] \in Int
    BY <2>2, <2>3, <2>4
  <2> QED
    BY <2>5 DEF SumBelow, s, t
<1> QED
  BY <1>1, <1>2

\* The same, below a bound.
LEMMA SumNext ==
  ASSUME NEW f, NEW n \in Nat, Summands(f, n), NEW k \in 0 .. n - 1
  PROVE  SumBelow(f, k) \in Int /\ f[k] \in Int /\ SumBelow(f, k + 1) = SumBelow(f, k) + f[k]
<1>1. Summands(f, k + 1) /\ f[k] \in Int
  BY DEF Summands
<1> QED
  BY <1>1, SumStep

\* A sum of integers is one.
LEMMA SumInt ==
  ASSUME NEW f, NEW n \in Nat, Summands(f, n)
  PROVE  \A k \in 0 .. n : SumBelow(f, k) \in Int
<1> DEFINE T == {k \in 0 .. n : SumBelow(f, k) \in Int}
<1>1. 0 \in T
  BY SumStep
<1>2. ASSUME NEW k \in 0 .. n - 1, k \in T
      PROVE  k + 1 \in T
  <2>1. SumBelow(f, k) \in Int /\ f[k] \in Int /\ SumBelow(f, k + 1) = SumBelow(f, k) + f[k]
    BY SumNext
  <2> QED
    BY <2>1
<1> HIDE DEF T
<1>3. \A k \in 0 .. n : k \in T
  BY <1>1, <1>2, UpToInduction
<1> QED
  BY <1>3 DEF T

\* Equal summands have equal sums.
LEMMA SumSame ==
  ASSUME NEW f, NEW g, NEW n \in Nat, Summands(f, n), \A i \in 0 .. n - 1 : f[i] = g[i]
  PROVE  \A k \in 0 .. n : SumBelow(f, k) = SumBelow(g, k)
<1> DEFINE T == {k \in 0 .. n : SumBelow(f, k) = SumBelow(g, k)}
<1>1. 0 \in T
  BY SumStep
<1>2. ASSUME NEW k \in 0 .. n - 1, k \in T
      PROVE  k + 1 \in T
  <2>1. SumBelow(f, k + 1) = SumBelow(f, k) + f[k]
    BY SumNext
  <2>2. Summands(g, n)
    BY DEF Summands
  <2>3. SumBelow(g, k + 1) = SumBelow(g, k) + g[k]
    BY <2>2, SumNext
  <2> QED
    BY <1>2, <2>1, <2>3
<1> HIDE DEF T
<1>3. \A k \in 0 .. n : k \in T
  BY <1>1, <1>2, UpToInduction
<1> QED
  BY <1>3 DEF T

\* Sums are added summand by summand.
LEMMA SumPlus ==
  ASSUME NEW f, NEW g, NEW h, NEW n \in Nat, Summands(f, n), Summands(g, n),
         \A i \in 0 .. n - 1 : h[i] = f[i] + g[i]
  PROVE  \A k \in 0 .. n : SumBelow(h, k) = SumBelow(f, k) + SumBelow(g, k)
<1> DEFINE T == {k \in 0 .. n : SumBelow(h, k) = SumBelow(f, k) + SumBelow(g, k)}
<1>1. 0 \in T
  BY SumStep
<1>2. ASSUME NEW k \in 0 .. n - 1, k \in T
      PROVE  k + 1 \in T
  <2>1. Summands(h, n)
    BY DEF Summands
  <2>2. /\ SumBelow(f, k) \in Int /\ f[k] \in Int /\ SumBelow(f, k + 1) = SumBelow(f, k) + f[k]
        /\ SumBelow(g, k) \in Int /\ g[k] \in Int /\ SumBelow(g, k + 1) = SumBelow(g, k) + g[k]
    BY SumNext
  <2>3. SumBelow(h, k + 1) = SumBelow(h, k) + h[k] /\ h[k] = f[k] + g[k]
    BY <2>1, SumNext
  <2>4. SumBelow(h, k) = SumBelow(f, k) + SumBelow(g, k)
    BY <1>2
  <2> QED
    BY <2>2, <2>3, <2>4
<1> HIDE DEF T
<1>3. \A k \in 0 .. n : k \in T
  BY <1>1, <1>2, UpToInduction
<1> QED
  BY <1>3 DEF T

\* A factor of all summands is one of the sum.
LEMMA SumTimes ==
  ASSUME NEW f, NEW h, NEW c \in Int, NEW n \in Nat, Summands(f, n),
         \A i \in 0 .. n - 1 : h[i] = c * f[i]
  PROVE  \A k \in 0 .. n : SumBelow(h, k) = c * SumBelow(f, k)
<1> DEFINE T == {k \in 0 .. n : SumBelow(h, k) = c * SumBelow(f, k)}
<1>1. 0 \in T
  BY SumStep
<1>2. ASSUME NEW k \in 0 .. n - 1, k \in T
      PROVE  k + 1 \in T
  <2>1. Summands(h, n)
    BY DEF Summands
  <2>2. SumBelow(f, k) \in Int /\ f[k] \in Int /\ SumBelow(f, k + 1) = SumBelow(f, k) + f[k]
    BY SumNext
  <2>3. SumBelow(h, k + 1) = SumBelow(h, k) + h[k] /\ h[k] = c * f[k]
    BY <2>1, SumNext
  <2>4. SumBelow(h, k) = c * SumBelow(f, k)
    BY <1>2
  <2>5. \A x, y \in Int : c * x + c * y = c * (x + y)
    OBVIOUS
  <2> QED
    BY <2>2, <2>3, <2>4, <2>5
<1> HIDE DEF T
<1>3. \A k \in 0 .. n : k \in T
  BY <1>1, <1>2, UpToInduction
<1> QED
  BY <1>3 DEF T

\* Smaller summands have a smaller sum.
LEMMA SumAtMost ==
  ASSUME NEW f, NEW g, NEW n \in Nat, Summands(f, n), Summands(g, n),
         \A i \in 0 .. n - 1 : f[i] <= g[i]
  PROVE  \A k \in 0 .. n : SumBelow(f, k) <= SumBelow(g, k)
<1> DEFINE T == {k \in 0 .. n : SumBelow(f, k) <= SumBelow(g, k)}
<1>1. 0 \in T
  BY SumStep
<1>2. ASSUME NEW k \in 0 .. n - 1, k \in T
      PROVE  k + 1 \in T
  <2>1. /\ SumBelow(f, k) \in Int /\ f[k] \in Int /\ SumBelow(f, k + 1) = SumBelow(f, k) + f[k]
        /\ SumBelow(g, k) \in Int /\ g[k] \in Int /\ SumBelow(g, k + 1) = SumBelow(g, k) + g[k]
    BY SumNext
  <2>2. SumBelow(f, k) <= SumBelow(g, k) /\ f[k] <= g[k]
    BY <1>2
  <2> QED
    BY <2>1, <2>2
<1> HIDE DEF T
<1>3. \A k \in 0 .. n : k \in T
  BY <1>1, <1>2, UpToInduction
<1> QED
  BY <1>3 DEF T

\* The sum of zeros is zero.
LEMMA SumZero ==
  ASSUME NEW f, NEW n \in Nat, \A i \in 0 .. n - 1 : f[i] = 0
  PROVE  \A k \in 0 .. n : SumBelow(f, k) = 0
<1> DEFINE T == {k \in 0 .. n : SumBelow(f, k) = 0}
<1>1. 0 \in T
  BY SumStep
<1>2. ASSUME NEW k \in 0 .. n - 1, k \in T
      PROVE  k + 1 \in T
  <2>1. Summands(f, n)
    BY DEF Summands
  <2>2. SumBelow(f, k + 1) = SumBelow(f, k) + f[k] /\ f[k] = 0
    BY <2>1, SumNext
  <2> QED
    BY <1>2, <2>2
<1> HIDE DEF T
<1>3. \A k \in 0 .. n : k \in T
  BY <1>1, <1>2, UpToInduction
<1> QED
  BY <1>3 DEF T

\* A sum can be cut in two.
LEMMA SumSplit ==
  ASSUME NEW f, NEW g, NEW m \in Nat, NEW n \in Nat, Summands(f, m + n),
         \A i \in 0 .. n - 1 : g[i] = f[m + i]
  PROVE  \A k \in 0 .. n : SumBelow(f, m + k) = SumBelow(f, m) + SumBelow(g, k)
<1> DEFINE T == {k \in 0 .. n : SumBelow(f, m + k) = SumBelow(f, m) + SumBelow(g, k)}
<1>1. 0 \in T
  <2>1. SumBelow(f, m) \in Int
    BY SumInt
  <2> QED
    BY <2>1, SumStep
<1>2. ASSUME NEW k \in 0 .. n - 1, k \in T
      PROVE  k + 1 \in T
  <2>1. m + k \in 0 .. (m + n) - 1 /\ m + n \in Nat /\ (m + k) + 1 = m + (k + 1)
    OBVIOUS
  <2>2. f[m + k] \in Int /\ SumBelow(f, m + (k + 1)) = SumBelow(f, m + k) + f[m + k]
    BY <2>1, SumNext
  <2>3. Summands(g, n)
    BY DEF Summands
  <2>4. SumBelow(g, k) \in Int /\ SumBelow(g, k + 1) = SumBelow(g, k) + g[k]
    BY <2>3, SumNext
  <2>5. SumBelow(f, m + k) = SumBelow(f, m) + SumBelow(g, k) /\ g[k] = f[m + k]
    BY <1>2
  <2>6. SumBelow(f, m) \in Int
    BY SumInt
  <2> QED
    BY <2>2, <2>4, <2>5, <2>6
<1> HIDE DEF T
<1>3. \A k \in 0 .. n : k \in T
  BY <1>1, <1>2, UpToInduction
<1> QED
  BY <1>3 DEF T

\* f's first n summands are zero outside of a window from lo on; g is the window.
Window(f, n, lo, g, c) ==
  /\ Summands(f, n) /\ lo + c <= n
  /\ \A i \in 0 .. lo - 1 : f[i] = 0
  /\ \A i \in lo + c .. n - 1 : f[i] = 0
  /\ \A i \in 0 .. c - 1 : g[i] = f[lo + i]

\* A sum is that of a window outside of which the summands are zero.
LEMMA SumWindow ==
  ASSUME NEW f, NEW n \in Nat, NEW lo \in Nat, NEW g, NEW c \in Nat, Window(f, n, lo, g, c)
  PROVE  SumBelow(f, n) = SumBelow(g, c)
<1> USE DEF Window
<1>1. PICK m \in Nat : m = lo + c
  OBVIOUS
<1>2. PICK z \in Nat : n = m + z
  BY <1>1, n - m \in Nat
<1>3. PICK h : \A i \in 0 .. z - 1 : h[i] = f[m + i]
  <2> DEFINE h == [i \in 0 .. z - 1 |-> f[m + i]]
  <2>1. \A i \in 0 .. z - 1 : h[i] = f[m + i]
    OBVIOUS
  <2> QED
    BY <2>1
<1>4. /\ Summands(f, lo + c) /\ Summands(f, m + z) /\ c \in 0 .. c /\ z \in 0 .. z
      /\ lo \in 0 .. lo /\ lo \in 0 .. n /\ m \in 0 .. n
  BY <1>1, <1>2 DEF Summands
<1>5. SumBelow(f, lo + c) = SumBelow(f, lo) + SumBelow(g, c)
  BY <1>4, SumSplit
<1>6. SumBelow(f, m + z) = SumBelow(f, m) + SumBelow(h, z)
  <2>1. Summands(f, m + z)
    BY <1>4
  <2>2. \A i \in 0 .. z - 1 : h[i] = f[m + i]
    BY <1>3
  <2>3. ASSUME NEW u \in Nat, NEW v \in Nat, Summands(f, u + v), NEW k, \A i \in 0 .. v - 1 : k[i] = f[u + i]
        PROVE  SumBelow(f, u + v) = SumBelow(f, u) + SumBelow(k, v)
    <3>1. v \in 0 .. v
      OBVIOUS
    <3> QED
      BY <2>3, <3>1, SumSplit
  <2> QED
    BY <1>1, <1>2, <2>1, <2>2, <2>3, Zenon
<1>7. SumBelow(f, lo) = 0
  BY <1>4, SumZero
<1>8. SumBelow(h, z) = 0
  <2>1. \A i \in 0 .. z - 1 : h[i] = 0
    <3> TAKE i \in 0 .. z - 1
    <3>1. m + i \in lo + c .. n - 1
      BY <1>1, <1>2
    <3> QED
      BY <1>3, <3>1
  <2> QED
    BY <1>4, <2>1, SumZero
<1>9. SumBelow(f, m) \in Int
  BY <1>4, SumInt
<1>10. SumBelow(g, c) \in Int
  <2>1. Summands(g, c)
    BY DEF Summands
  <2> QED
    BY <1>4, <2>1, SumInt
<1> QED
  BY <1>1, <1>2, <1>5, <1>6, <1>7, <1>8, <1>9, <1>10

-----------------------------------------------------------------------------
(* Powers.                                                                  *)

\* The recursive definition of the powers has the value it describes.
LEMMA PowersDef ==
  ASSUME NEW b \in Int, NEW n \in Nat
  PROVE  /\ Powers(b, n) \in [0 .. n -> Int]
         /\ Powers(b, n)[0] = 1
         /\ \A i \in 1 .. n : Powers(b, n)[i] = b * Powers(b, n)[i - 1]
<1> DEFINE g == [q \in (1 .. n) \X Int |-> b * q[2]]
           Body(p) == [i \in 0 .. n |-> IF i = 0 THEN 1 ELSE b * p[i - 1]]
           p == Powers(b, n)
<1>1. g \in [(1 .. n) \X Int -> Int]
  OBVIOUS
<1>2. \A i \in 1 .. n, v \in Int : g[<<i, v>>] = b * v
  OBVIOUS
<1> HIDE DEF g
<1>3. PICK h \in [0 .. n -> Int] : Stepwise(h, n, 1, g)
  <2> DEFINE a == 1
  <2>1. a \in Int
    OBVIOUS
  <2> HIDE DEF a
  <2>2. \E h \in [0 .. n -> Int] : Stepwise(h, n, a, g)
    BY <1>1, <2>1, IntRecursion
  <2> QED
    BY <2>2 DEF a
<1>4. ASSUME NEW i \in 1 .. n
      PROVE  h[i] = b * h[i - 1]
  <2>1. i - 1 \in 0 .. n
    OBVIOUS
  <2>2. h[i - 1] \in Int
    BY <2>1
  <2>3. g[<<i, h[i - 1]>>] = b * h[i - 1]
    BY <1>2, <2>2, Zenon
  <2>4. h[i] = g[<<i, h[i - 1]>>]
    BY <1>3, Zenon DEF Stepwise
  <2> QED
    BY <2>3, <2>4, Zenon
<1>5. h = Body(h)
  BY <1>3, <1>4 DEF Stepwise
<1>6. p = CHOOSE t : t = Body(t)
  BY DEF Powers
<1>7. p = Body(p)
  BY <1>5, <1>6
<1> HIDE DEF p
<1>8. p[0] = 1 /\ \A i \in 1 .. n : p[i] = b * p[i - 1]
  BY <1>7
<1>9. \A i \in 0 .. n : p[i] \in Int
  <2> DEFINE T == {i \in 0 .. n : p[i] \in Int}
  <2>1. 0 \in T
    BY <1>8
  <2>2. ASSUME NEW i \in 0 .. n - 1, i \in T
        PROVE  i + 1 \in T
    <3>1. p[i + 1] = b * p[i] /\ p[i] \in Int
      BY <1>8, <2>2
    <3> QED
      BY <3>1
  <2> HIDE DEF T
  <2>3. \A i \in 0 .. n : i \in T
    BY <2>1, <2>2, UpToInduction
  <2> QED
    BY <2>3 DEF T
<1>10. p \in [0 .. n -> Int]
  BY <1>7, <1>9
<1> QED
  BY <1>8, <1>10 DEF p

\* The power to nothing, and to one more.
LEMMA PowerStep ==
  ASSUME NEW b \in Int
  PROVE  /\ Power(b, 0) = 1
         /\ \A n \in Nat : Power(b, n) \in Int /\ Power(b, n + 1) = b * Power(b, n)
<1>1. Power(b, 0) = 1
  BY PowersDef DEF Power
<1>2. ASSUME NEW n \in Nat
      PROVE  Power(b, n) \in Int /\ Power(b, n + 1) = b * Power(b, n)
  <2> DEFINE p == Powers(b, n)
             q == Powers(b, n + 1)
  <2>1. /\ p \in [0 .. n -> Int] /\ p[0] = 1
        /\ \A i \in 1 .. n : p[i] = b * p[i - 1]
    BY PowersDef
  <2>2. /\ q \in [0 .. n + 1 -> Int] /\ q[0] = 1
        /\ \A i \in 1 .. n + 1 : q[i] = b * q[i - 1]
    <3> DEFINE m == n + 1
    <3>1. m \in Nat
      OBVIOUS
    <3> HIDE DEF m
    <3>2. /\ Powers(b, m) \in [0 .. m -> Int] /\ Powers(b, m)[0] = 1
          /\ \A i \in 1 .. m : Powers(b, m)[i] = b * Powers(b, m)[i - 1]
      BY <3>1, PowersDef
    <3> QED
      BY <3>2 DEF m
  <2> HIDE DEF p, q
  <2>3. \A i \in 0 .. n : p[i] = q[i]
    <3> DEFINE T == {i \in 0 .. n : p[i] = q[i]}
    <3>1. 0 \in T
      BY <2>1, <2>2
    <3>2. ASSUME NEW i \in 0 .. n - 1, i \in T
          PROVE  i + 1 \in T
      <4>0. i + 1 \in 1 .. n /\ i + 1 \in 1 .. n + 1 /\ (i + 1) - 1 = i
        OBVIOUS
      <4>1. p[i + 1] = b * p[i]
        BY <2>1, <4>0
      <4>2. q[i + 1] = b * q[i]
        BY <2>2, <4>0
      <4> QED
        BY <3>2, <4>1, <4>2
    <3> HIDE DEF T
    <3>3. \A i \in 0 .. n : i \in T
      BY <3>1, <3>2, UpToInduction
    <3> QED
      BY <3>3 DEF T
  <2>4. q[n + 1] = b * p[n] /\ p[n] \in Int
    BY <2>1, <2>2, <2>3
  <2> QED
    BY <2>4 DEF Power, p, q
<1> QED
  BY <1>1, <1>2

\* Powers of a positive number are positive.
LEMMA PowerPositive ==
  ASSUME NEW b \in Nat, b > 0
  PROVE  \A n \in Nat : Power(b, n) \in Nat /\ Power(b, n) > 0
<1> DEFINE T == {n \in Nat : Power(b, n) \in Nat /\ Power(b, n) > 0}
<1>1. 0 \in T
  BY PowerStep
<1>2. ASSUME NEW n \in Nat, n \in T
      PROVE  n + 1 \in T
  <2> DEFINE p == Power(b, n)
  <2>1. Power(b, n + 1) = b * p
    BY PowerStep
  <2>2. p \in Nat /\ p > 0
    BY <1>2
  <2> HIDE DEF p
  <2>3. b * p \in Nat /\ b * p > 0
    BY <2>2
  <2> QED
    BY <2>1, <2>3
<1> HIDE DEF T
<1>3. \A n \in Nat : n \in T
  BY <1>1, <1>2, SetInduction
<1> QED
  BY <1>3 DEF T

\* Exponents are added.
LEMMA PowerPlus ==
  ASSUME NEW b \in Int, NEW m \in Nat
  PROVE  \A n \in Nat : Power(b, m + n) = Power(b, m) * Power(b, n)
<1> DEFINE T == {n \in Nat : Power(b, m + n) = Power(b, m) * Power(b, n)}
<1>1. 0 \in T
  <2>1. Power(b, 0) = 1 /\ Power(b, m) \in Int /\ m + 0 = m
    BY PowerStep
  <2> QED
    BY <2>1
<1>2. ASSUME NEW n \in Nat, n \in T
      PROVE  n + 1 \in T
  <2> DEFINE p == Power(b, m)
             q == Power(b, n)
  <2>1. p \in Int /\ q \in Int
    BY PowerStep
  <2>2. m + (n + 1) = (m + n) + 1 /\ m + n \in Nat
    OBVIOUS
  <2>3. Power(b, (m + n) + 1) = b * Power(b, m + n) /\ Power(b, n + 1) = b * q
    BY <2>2, PowerStep
  <2>4. Power(b, m + n) = p * q
    BY <1>2
  <2> HIDE DEF p, q
  <2>5. b * (p * q) = p * (b * q)
    BY <2>1
  <2>6. Power(b, m + (n + 1)) = p * Power(b, n + 1)
    BY <2>2, <2>3, <2>4, <2>5
  <2> QED
    BY <2>6 DEF p
<1> HIDE DEF T
<1>3. \A n \in Nat : n \in T
  BY <1>1, <1>2, SetInduction
<1> QED
  BY <1>3 DEF T
=============================================================================
