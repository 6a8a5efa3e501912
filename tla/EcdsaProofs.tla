---------------------------- MODULE EcdsaProofs ----------------------------
(***************************************************************************)
(* The word arithmetic of ecdsa.c for every word size, number of words and *)
(* modulus; then keys, signatures and key files for every curve of prime   *)
(* order, every generator of random numbers and every number of tries,     *)
(* given that the ladder multiplies the base point rightly (LadderRight,   *)
(* what CurveRight checks for the base point among others).                *)
(***************************************************************************)
EXTENDS Ecdsa, VliCalls, SumProofs, SequenceTheorems

-----------------------------------------------------------------------------
(* Words, and the numbers they make.                                        *)

\* A function on 1 .. k is a sequence of length k.
LEMMA FunctionIsSeq ==
  ASSUME NEW S, NEW k \in Nat, NEW f, f \in [1 .. k -> S]
  PROVE  f \in Seq(S) /\ Len(f) = k /\ DOMAIN f = 1 .. k
<1>1. f \in Seq(S) /\ DOMAIN f = 1 .. k
  BY SeqDef
<1>2. Len(f) \in Nat /\ 1 .. Len(f) = 1 .. k
  BY <1>1, LenProperties
<1> DEFINE l == Len(f)
<1> HIDE DEF l
<1>3. l \in Nat /\ 1 .. l = 1 .. k
  BY <1>2 DEF l
<1>4. CASE l > k
  <2>1. l \in 1 .. l /\ ~(l \in 1 .. k)
    BY <1>3, <1>4
  <2> QED
    BY <1>3, <2>1
<1>5. CASE l < k
  <2>1. k \in 1 .. k /\ ~(k \in 1 .. l)
    BY <1>3, <1>5
  <2> QED
    BY <1>3, <2>1
<1>6. l = k
  BY <1>3, <1>4, <1>5
<1> QED
  BY <1>1, <1>6 DEF l

\* A word takes an even number of values, two or more.
LEMMA WordIs ==
  /\ W \in Nat /\ W > 1 /\ W \div 2 \in Nat /\ W = 2 * (W \div 2) /\ WordBits \in Nat /\ WordBits > 0
<1>1. PICK k \in Nat : WordBits = k + 1
  BY VliAssumption, WordBits - 1 \in Nat
<1>2. PICK p : p = Power(2, k)
  OBVIOUS
<1>3. p \in Nat /\ p > 0 /\ W = 2 * p
  BY <1>1, <1>2, 2 \in Nat, 2 \in Int, 2 > 0, PowerPositive, PowerStep DEF W
<1>4. W \div 2 = p
  BY <1>3
<1> QED
  BY <1>1, <1>3, <1>4

Place(k) == Power(W, k)

\* The places of the words, from the lowest.
LEMMA PlaceIs ==
  /\ Place(0) = 1
  /\ \A k \in Nat : Place(k) \in Nat /\ Place(k) > 0 /\ Place(k + 1) = W * Place(k)
<1>1. W \in Nat /\ W \in Int /\ W > 0
  BY WordIs
<1> QED
  BY <1>1, PowerStep, PowerPositive DEF Place

\* The words of an array.
LEMMA WordsAre ==
  ASSUME NEW len \in Nat, NEW a, a \in Vli(len)
  PROVE  /\ Len(a) = len /\ DOMAIN a = 1 .. len
         /\ \A i \in 1 .. len : a[i] \in Nat /\ a[i] < W /\ a[i] \in 0 .. W - 1
<1>1. a \in [1 .. len -> 0 .. W - 1]
  BY DEF Vli
<1>2. Len(a) = len /\ DOMAIN a = 1 .. len
  BY <1>1, FunctionIsSeq
<1>3. \A i \in 1 .. len : a[i] \in 0 .. W - 1
  BY <1>1
<1> QED
  BY <1>2, <1>3, WordIs

\* The number that the lowest k words make.
Lowest(a, k) == SumBelow([i \in 0 .. Len(a) - 1 |-> a[i + 1] * Power(W, i)], k)

\* Word after word.
LEMMA LowestIs ==
  ASSUME NEW len \in Nat, NEW a, a \in Vli(len)
  PROVE  /\ Lowest(a, 0) = 0 /\ Number(a) = Lowest(a, len)
         /\ \A k \in 0 .. len - 1 : Lowest(a, k + 1) = Lowest(a, k) + a[k + 1] * Place(k)
         /\ \A k \in 0 .. len : Lowest(a, k) \in Int
<1> DEFINE f == [i \in 0 .. len - 1 |-> a[i + 1] * Power(W, i)]
<1>1. Len(a) = len /\ \A i \in 1 .. len : a[i] \in Nat
  BY WordsAre
<1>2. ASSUME NEW i \in 0 .. len - 1
      PROVE  f[i] = a[i + 1] * Place(i) /\ f[i] \in Int
  <2>1. i + 1 \in 1 .. len /\ i \in Nat
    OBVIOUS
  <2>2. a[i + 1] \in Nat /\ Place(i) \in Nat
    BY <1>1, <2>1, PlaceIs
  <2>3. f[i] = a[i + 1] * Place(i)
    BY DEF Place
  <2> QED
    BY <2>2, <2>3
<1>3. \A k : Lowest(a, k) = SumBelow(f, k)
  BY <1>1 DEF Lowest
<1>4. Number(a) = Lowest(a, len)
  BY <1>1 DEF Number, Lowest
<1> HIDE DEF f
<1>5. Summands(f, len)
  BY <1>2 DEF Summands
<1>6. SumBelow(f, 0) = 0 /\ \A k \in 0 .. len : SumBelow(f, k) \in Int
  BY <1>5, SumStep, SumInt
<1>7. \A k \in 0 .. len - 1 : SumBelow(f, k + 1) = SumBelow(f, k) + f[k]
  BY <1>5, SumNext
<1> QED
  BY <1>2, <1>3, <1>4, <1>6, <1>7

\* They make less than the place of the next one.
LEMMA LowestBelow ==
  ASSUME NEW len \in Nat, NEW a, a \in Vli(len)
  PROVE  \A k \in 0 .. len : Lowest(a, k) \in Nat /\ Lowest(a, k) < Place(k)
<1> DEFINE T == {k \in 0 .. len : Lowest(a, k) \in Nat /\ Lowest(a, k) < Place(k)}
<1>1. 0 \in T
  BY LowestIs, PlaceIs
<1>2. ASSUME NEW k \in 0 .. len - 1, k \in T
      PROVE  k + 1 \in T
  <2>1. k + 1 \in 1 .. len /\ k + 1 \in 0 .. len /\ k \in Nat
    OBVIOUS
  <2>2. PICK l, p, w, d : l = Lowest(a, k) /\ p = Place(k) /\ w = W /\ d = a[k + 1]
    OBVIOUS
  <2>3. l \in Nat /\ p \in Nat /\ w \in Nat /\ d \in Nat /\ l < p /\ d < w
    BY <1>2, <2>1, <2>2, PlaceIs, WordIs, WordsAre
  <2>4. Lowest(a, k + 1) = l + d * p /\ Place(k + 1) = w * p
    BY <2>1, <2>2, LowestIs, PlaceIs
  <2>5. l + d * p \in Nat /\ l + d * p < w * p
    <3>1. PICK e \in Nat : w = d + 1 + e
      BY <2>3, w - d - 1 \in Nat
    <3>2. (d + 1 + e) * p = d * p + p + e * p /\ e * p \in Nat /\ d * p \in Nat
      BY <2>3
    <3> QED
      BY <2>3, <3>1, <3>2
  <2> QED
    BY <2>1, <2>4, <2>5
<1> HIDE DEF T
<1>3. \A k \in 0 .. len : k \in T
  BY <1>1, <1>2, UpToInduction
<1> QED
  BY <1>3 DEF T

-----------------------------------------------------------------------------
(* Carries and borrows.                                                     *)

\* One word: the carry found by comparing is that of the sum.
SumWord(x, y, c) == (x + y + c) % W
SumCarry(x, y, c) == IF SumWord(x, y, c) # x THEN Bit(SumWord(x, y, c) < x) ELSE c

SumIs(x, y, c, s, d) == s \in Nat /\ s < W /\ d \in {0, 1} /\ s + d * W = x + y + c

\* The wrapped sum and its carry make the sum.
LEMMA WordSum ==
  ASSUME NEW x \in Nat, x < W, NEW y \in Nat, y < W, NEW c \in {0, 1},
         NEW s, s = SumWord(x, y, c), NEW d, d = SumCarry(x, y, c)
  PROVE  SumIs(x, y, c, s, d)
<1> USE DEF SumIs
<1>1. s = (x + y + c) % W /\ d = IF s # x THEN Bit(s < x) ELSE c
  BY DEF SumWord, SumCarry
<1>2. PICK w \in Nat : w = W /\ w > 1
  BY WordIs
<1>3. CASE x + y + c < w
  <2>1. (x + y + c) % w = x + y + c
    BY <1>2, <1>3, QuotientIs, x + y + c = w * 0 + (x + y + c)
  <2>2. s = x + y + c /\ d = 0
    BY <1>1, <1>2, <1>3, <2>1 DEF Bit
  <2> QED
    BY <1>1, <1>2, <1>3, <2>2
<1>4. CASE ~(x + y + c < w)
  <2>1. PICK e \in Nat : x + y + c = w + e /\ e < w /\ e <= x
    BY <1>2, <1>4, x + y + c - w \in Nat
  <2>2. (x + y + c) % w = e
    BY <1>2, <2>1, QuotientIs, w + e = w * 1 + e
  <2>3. s = e /\ d = 1
    BY <1>1, <1>2, <1>4, <2>1, <2>2 DEF Bit
  <2> QED
    BY <1>1, <1>2, <2>1, <2>3
<1> QED
  BY <1>1, <1>3, <1>4

DiffWord(x, y, c) == (x - y - c) % W
DiffCarry(x, y, c) == IF DiffWord(x, y, c) # x THEN Bit(DiffWord(x, y, c) > x) ELSE c

DiffIs(x, y, c, s, d) == s \in Nat /\ s < W /\ d \in {0, 1} /\ s - d * W = x - y - c

\* The wrapped difference and its borrow make the difference.
LEMMA WordDifference ==
  ASSUME NEW x \in Nat, x < W, NEW y \in Nat, y < W, NEW c \in {0, 1},
         NEW s, s = DiffWord(x, y, c), NEW d, d = DiffCarry(x, y, c)
  PROVE  DiffIs(x, y, c, s, d)
<1> USE DEF DiffIs
<1>1. s = (x - y - c) % W /\ d = IF s # x THEN Bit(s > x) ELSE c
  BY DEF DiffWord, DiffCarry
<1>2. PICK w \in Nat : w = W /\ w > 1
  BY WordIs
<1>3. CASE x - y - c >= 0
  <2>1. (x - y - c) % w = x - y - c
    BY <1>2, <1>3, QuotientIs, x - y - c = w * 0 + (x - y - c)
  <2>2. s = x - y - c /\ d = 0
    BY <1>1, <1>2, <1>3, <2>1 DEF Bit
  <2> QED
    BY <1>1, <1>2, <1>3, <2>2
<1>4. CASE ~(x - y - c >= 0)
  <2>1. PICK e \in Nat : x - y - c = e - w /\ e < w /\ e >= x
    BY <1>2, <1>4, x - y - c + w \in Nat
  <2>2. (x - y - c) % w = e
    BY <1>2, <2>1, QuotientIs, e - w = w * (-1) + e
  <2>3. s = e /\ d = 1
    BY <1>1, <1>2, <1>4, <2>1, <2>2 DEF Bit
  <2> QED
    BY <1>1, <1>2, <2>1, <2>3
<1> QED
  BY <1>1, <1>3, <1>4

\* The carries are what the loop of ecdsa_vli_add computes.
LEMMA CarriesAre ==
  ASSUME NEW len \in Nat, NEW a, a \in Vli(len), NEW b, b \in Vli(len)
  PROVE  /\ Carries(a, b)[0] = 0
         /\ \A i \in 1 .. len : Carries(a, b)[i] =
               LET r == (a[i] + b[i] + Carries(a, b)[i - 1]) % W
               IN  IF r # a[i] THEN Bit(r < a[i]) ELSE Carries(a, b)[i - 1]
<1> DEFINE next(i, v) == IF (a[i] + b[i] + v) % W # a[i] THEN Bit((a[i] + b[i] + v) % W < a[i]) ELSE v
           g == [p \in (1 .. len) \X Int |-> next(p[1], p[2])]
           Body(c) == [i \in 0 .. len |-> IF i = 0 THEN 0 ELSE next(i, c[i - 1])]
           s == Carries(a, b)
<1>1. Len(a) = len
  BY WordsAre
<1>2. g \in [(1 .. len) \X Int -> Int]
  BY DEF Bit
<1>3. \A i \in 1 .. len, v \in Int : g[<<i, v>>] = next(i, v)
  OBVIOUS
<1>4. s = CHOOSE c : c = Body(c)
  BY <1>1 DEF Carries
<1> HIDE DEF g, next
<1>5. PICK h \in [0 .. len -> Int] : Stepwise(h, len, 0, g)
  BY <1>2, 0 \in Int, IntRecursion, Zenon
<1>6. ASSUME NEW i \in 1 .. len
      PROVE  h[i] = next(i, h[i - 1])
  <2>1. i - 1 \in 0 .. len
    OBVIOUS
  <2>2. h[i - 1] \in Int
    BY <2>1
  <2>3. g[<<i, h[i - 1]>>] = next(i, h[i - 1])
    BY <1>3, <2>2, Zenon
  <2>4. h[i] = g[<<i, h[i - 1]>>]
    BY <1>5, Zenon DEF Stepwise
  <2> QED
    BY <2>3, <2>4, Zenon
<1>7. h = Body(h)
  BY <1>5, <1>6 DEF Stepwise
<1>8. s = Body(s)
  BY <1>4, <1>7
<1> HIDE DEF s
<1>9. s[0] = 0 /\ \A i \in 1 .. len : s[i] = next(i, s[i - 1])
  BY <1>8
<1> QED
  BY <1>9 DEF s, next

\* The borrows are what the loop of ecdsa_vli_sub computes.
LEMMA BorrowsAre ==
  ASSUME NEW len \in Nat, NEW a, a \in Vli(len), NEW b, b \in Vli(len)
  PROVE  /\ Borrows(a, b)[0] = 0
         /\ \A i \in 1 .. len : Borrows(a, b)[i] =
               LET r == (a[i] - b[i] - Borrows(a, b)[i - 1]) % W
               IN  IF r # a[i] THEN Bit(r > a[i]) ELSE Borrows(a, b)[i - 1]
<1> DEFINE next(i, v) == IF (a[i] - b[i] - v) % W # a[i] THEN Bit((a[i] - b[i] - v) % W > a[i]) ELSE v
           g == [p \in (1 .. len) \X Int |-> next(p[1], p[2])]
           Body(c) == [i \in 0 .. len |-> IF i = 0 THEN 0 ELSE next(i, c[i - 1])]
           s == Borrows(a, b)
<1>1. Len(a) = len
  BY WordsAre
<1>2. g \in [(1 .. len) \X Int -> Int]
  BY DEF Bit
<1>3. \A i \in 1 .. len, v \in Int : g[<<i, v>>] = next(i, v)
  OBVIOUS
<1>4. s = CHOOSE c : c = Body(c)
  BY <1>1 DEF Borrows
<1> HIDE DEF g, next
<1>5. PICK h \in [0 .. len -> Int] : Stepwise(h, len, 0, g)
  BY <1>2, 0 \in Int, IntRecursion, Zenon
<1>6. ASSUME NEW i \in 1 .. len
      PROVE  h[i] = next(i, h[i - 1])
  <2>1. i - 1 \in 0 .. len
    OBVIOUS
  <2>2. h[i - 1] \in Int
    BY <2>1
  <2>3. g[<<i, h[i - 1]>>] = next(i, h[i - 1])
    BY <1>3, <2>2, Zenon
  <2>4. h[i] = g[<<i, h[i - 1]>>]
    BY <1>5, Zenon DEF Stepwise
  <2> QED
    BY <2>3, <2>4, Zenon
<1>7. h = Body(h)
  BY <1>5, <1>6 DEF Stepwise
<1>8. s = Body(s)
  BY <1>4, <1>7
<1> HIDE DEF s
<1>9. s[0] = 0 /\ \A i \in 1 .. len : s[i] = next(i, s[i - 1])
  BY <1>8
<1> QED
  BY <1>9 DEF s, next

\* Words of the sum, and a carry that is worth the place above them.
LEMMA AddIs ==
  ASSUME NEW len \in Nat, NEW a, a \in Vli(len), NEW b, b \in Vli(len), NEW r, r = ecdsa_vli_add(a, b)
  PROVE  r.out \in Vli(len) /\ r.carry \in {0, 1} /\ Number(r.out) + r.carry * Place(len) = Number(a) + Number(b)
<1>1. PICK c : c = Carries(a, b)
  OBVIOUS
<1>2. Len(a) = len /\ \A i \in 1 .. len : a[i] \in Nat /\ a[i] < W /\ b[i] \in Nat /\ b[i] < W
  BY WordsAre
<1>3. PICK o : o = r.out /\ o = [i \in 1 .. len |-> (a[i] + b[i] + c[i - 1]) % W]
  BY <1>1, <1>2 DEF ecdsa_vli_add
<1>4. r.carry = c[len]
  BY <1>1, <1>2 DEF ecdsa_vli_add
<1>5. c[0] = 0 /\ \A i \in 1 .. len : c[i] = LET x == (a[i] + b[i] + c[i - 1]) % W
                                            IN  IF x # a[i] THEN Bit(x < a[i]) ELSE c[i - 1]
  BY <1>1, CarriesAre
<1>6. ASSUME NEW i \in 1 .. len, c[i - 1] \in {0, 1}
      PROVE  /\ o[i] \in Nat /\ o[i] < W /\ c[i] \in {0, 1}
             /\ o[i] + c[i] * W = a[i] + b[i] + c[i - 1]
  <2>1. o[i] = (a[i] + b[i] + c[i - 1]) % W
    BY <1>3
  <2>2. c[i] = IF o[i] # a[i] THEN Bit(o[i] < a[i]) ELSE c[i - 1]
    BY <1>5, <2>1
  <2>3. PICK x, y, v, z, d : x = a[i] /\ y = b[i] /\ v = c[i - 1] /\ z = o[i] /\ d = c[i]
    OBVIOUS
  <2>4. x \in Nat /\ x < W /\ y \in Nat /\ y < W /\ v \in {0, 1}
    BY <1>2, <1>6, <2>3
  <2>5. z = (x + y + v) % W /\ d = IF z # x THEN Bit(z < x) ELSE v
    BY <2>1, <2>2, <2>3
  <2>6. z = SumWord(x, y, v) /\ d = SumCarry(x, y, v)
    BY <2>5 DEF SumWord, SumCarry
  <2>7. z \in Nat /\ z < W /\ d \in {0, 1} /\ z + d * W = x + y + v
    <3>1. SumIs(x, y, v, z, d)
      BY <2>4, <2>6, WordSum
    <3> QED
      BY <3>1 DEF SumIs
  <2> QED
    BY <2>3, <2>7
<1> DEFINE S == {k \in 0 .. len : c[k] \in {0, 1}}
<1>7. 0 \in S
  BY <1>5
<1>8. ASSUME NEW k \in 0 .. len - 1, k \in S
      PROVE  k + 1 \in S
  <2>1. k + 1 \in 1 .. len /\ (k + 1) - 1 = k /\ k + 1 \in 0 .. len
    OBVIOUS
  <2> QED
    BY <1>6, <1>8, <2>1
<1> HIDE DEF S
<1>9. \A k \in 0 .. len : c[k] \in {0, 1}
  <2>1. \A k \in 0 .. len : k \in S
    BY <1>7, <1>8, UpToInduction
  <2> QED
    BY <2>1 DEF S
<1>10. \A k \in 0 .. len - 1 : /\ o[k + 1] \in Nat /\ o[k + 1] < W
                               /\ o[k + 1] + c[k + 1] * W = a[k + 1] + b[k + 1] + c[k]
  <2> TAKE k \in 0 .. len - 1
  <2>1. k + 1 \in 1 .. len /\ (k + 1) - 1 = k /\ k \in 0 .. len
    OBVIOUS
  <2> QED
    BY <1>6, <1>9, <2>1
<1>11. o \in Vli(len)
  <2>1. ASSUME NEW i \in 1 .. len
        PROVE  o[i] \in 0 .. W - 1
    <3>1. i - 1 \in 0 .. len - 1 /\ (i - 1) + 1 = i
      OBVIOUS
    <3> QED
      BY <1>10, <3>1, WordIs
  <2> QED
    BY <1>3, <2>1 DEF Vli
<1> DEFINE T == {k \in 0 .. len : Lowest(o, k) + c[k] * Place(k) = Lowest(a, k) + Lowest(b, k)}
<1>12. 0 \in T
  BY <1>5, <1>11, LowestIs, PlaceIs
<1>13. ASSUME NEW k \in 0 .. len - 1, k \in T
       PROVE  k + 1 \in T
  <2>1. k + 1 \in 1 .. len /\ k + 1 \in 0 .. len /\ k \in 0 .. len /\ k \in Nat
    OBVIOUS
  <2>2. PICK lo, la, lb, p, w, x, y, z, c0, c1 :
          /\ lo = Lowest(o, k) /\ la = Lowest(a, k) /\ lb = Lowest(b, k) /\ p = Place(k) /\ w = W
          /\ x = a[k + 1] /\ y = b[k + 1] /\ z = o[k + 1] /\ c0 = c[k] /\ c1 = c[k + 1]
    OBVIOUS
  <2>3. /\ lo \in Int /\ la \in Int /\ lb \in Int /\ p \in Int /\ w \in Int /\ x \in Int /\ y \in Int /\ z \in Int
        /\ c0 \in Int /\ c1 \in Int
    <3>1. lo \in Int /\ la \in Int /\ lb \in Int
      BY <1>11, <2>1, <2>2, LowestIs
    <3>2. p \in Int /\ w \in Int /\ x \in Int /\ y \in Int /\ z \in Int
      <4>1. a[k + 1] \in Nat /\ b[k + 1] \in Nat /\ o[k + 1] \in Nat
        BY <1>2, <1>10, <2>1
      <4>2. Place(k) \in Nat /\ W \in Nat
        BY <2>1, PlaceIs, WordIs
      <4> QED
        BY <2>2, <4>1, <4>2
    <3>3. c0 \in Int /\ c1 \in Int
      <4>1. c[k] \in {0, 1} /\ c[k + 1] \in {0, 1}
        BY <1>9, <2>1
      <4> QED
        BY <2>2, <4>1
    <3> QED
      BY <3>1, <3>2, <3>3
  <2>4. /\ Lowest(o, k + 1) = lo + z * p /\ Lowest(a, k + 1) = la + x * p /\ Lowest(b, k + 1) = lb + y * p
        /\ Place(k + 1) = w * p
    BY <1>11, <2>1, <2>2, LowestIs, PlaceIs
  <2>5. lo + c0 * p = la + lb /\ z + c1 * w = x + y + c0
    BY <1>10, <1>13, <2>2
  <2>6. z * p + c1 * (w * p) = x * p + y * p + c0 * p
    <3>1. (z + c1 * w) * p = z * p + c1 * (w * p)
      BY <2>3
    <3>2. (x + y + c0) * p = x * p + y * p + c0 * p
      BY <2>3
    <3> QED
      BY <2>5, <3>1, <3>2
  <2>7. (lo + z * p) + c1 * (w * p) = (la + x * p) + (lb + y * p)
    <3>1. PICK u1 \in Int, u2 \in Int, u3 \in Int, u4 \in Int, u5 \in Int :
            u1 = z * p /\ u2 = c1 * (w * p) /\ u3 = x * p /\ u4 = y * p /\ u5 = c0 * p
      BY <2>3
    <3> QED
      BY <2>3, <2>5, <2>6, <3>1
  <2> QED
    BY <2>1, <2>2, <2>4, <2>7
<1> HIDE DEF T
<1>14. len \in T
  BY <1>12, <1>13, UpToInduction
<1>15. Number(o) = Lowest(o, len) /\ Number(a) = Lowest(a, len) /\ Number(b) = Lowest(b, len)
  BY <1>11, LowestIs
<1> QED
  BY <1>3, <1>4, <1>9, <1>11, <1>14, <1>15 DEF T

\* Words of the difference, and a borrow.
LEMMA SubIs ==
  ASSUME NEW len \in Nat, NEW a, a \in Vli(len), NEW b, b \in Vli(len), NEW r, r = ecdsa_vli_sub(a, b)
  PROVE  r.out \in Vli(len) /\ r.carry \in {0, 1} /\ Number(r.out) - r.carry * Place(len) = Number(a) - Number(b)
<1>1. PICK c : c = Borrows(a, b)
  OBVIOUS
<1>2. Len(a) = len /\ \A i \in 1 .. len : a[i] \in Nat /\ a[i] < W /\ b[i] \in Nat /\ b[i] < W
  BY WordsAre
<1>3. PICK o : o = r.out /\ o = [i \in 1 .. len |-> (a[i] - b[i] - c[i - 1]) % W]
  BY <1>1, <1>2 DEF ecdsa_vli_sub
<1>4. r.carry = c[len]
  BY <1>1, <1>2 DEF ecdsa_vli_sub
<1>5. c[0] = 0 /\ \A i \in 1 .. len : c[i] = LET x == (a[i] - b[i] - c[i - 1]) % W
                                            IN  IF x # a[i] THEN Bit(x > a[i]) ELSE c[i - 1]
  BY <1>1, BorrowsAre
<1>6. ASSUME NEW i \in 1 .. len, c[i - 1] \in {0, 1}
      PROVE  /\ o[i] \in Nat /\ o[i] < W /\ c[i] \in {0, 1}
             /\ o[i] - c[i] * W = a[i] - b[i] - c[i - 1]
  <2>1. o[i] = (a[i] - b[i] - c[i - 1]) % W
    BY <1>3
  <2>2. c[i] = IF o[i] # a[i] THEN Bit(o[i] > a[i]) ELSE c[i - 1]
    BY <1>5, <2>1
  <2>3. PICK x, y, v, z, d : x = a[i] /\ y = b[i] /\ v = c[i - 1] /\ z = o[i] /\ d = c[i]
    OBVIOUS
  <2>4. x \in Nat /\ x < W /\ y \in Nat /\ y < W /\ v \in {0, 1}
    BY <1>2, <1>6, <2>3
  <2>5. z = (x - y - v) % W /\ d = IF z # x THEN Bit(z > x) ELSE v
    BY <2>1, <2>2, <2>3
  <2>6. z = DiffWord(x, y, v) /\ d = DiffCarry(x, y, v)
    BY <2>5 DEF DiffWord, DiffCarry
  <2>7. z \in Nat /\ z < W /\ d \in {0, 1} /\ z - d * W = x - y - v
    <3>1. DiffIs(x, y, v, z, d)
      BY <2>4, <2>6, WordDifference
    <3> QED
      BY <3>1 DEF DiffIs
  <2> QED
    BY <2>3, <2>7
<1> DEFINE S == {k \in 0 .. len : c[k] \in {0, 1}}
<1>7. 0 \in S
  BY <1>5
<1>8. ASSUME NEW k \in 0 .. len - 1, k \in S
      PROVE  k + 1 \in S
  <2>1. k + 1 \in 1 .. len /\ (k + 1) - 1 = k /\ k + 1 \in 0 .. len
    OBVIOUS
  <2> QED
    BY <1>6, <1>8, <2>1
<1> HIDE DEF S
<1>9. \A k \in 0 .. len : c[k] \in {0, 1}
  <2>1. \A k \in 0 .. len : k \in S
    BY <1>7, <1>8, UpToInduction
  <2> QED
    BY <2>1 DEF S
<1>10. \A k \in 0 .. len - 1 : /\ o[k + 1] \in Nat /\ o[k + 1] < W
                               /\ o[k + 1] - c[k + 1] * W = a[k + 1] - b[k + 1] - c[k]
  <2> TAKE k \in 0 .. len - 1
  <2>1. k + 1 \in 1 .. len /\ (k + 1) - 1 = k /\ k \in 0 .. len
    OBVIOUS
  <2> QED
    BY <1>6, <1>9, <2>1
<1>11. o \in Vli(len)
  <2>1. ASSUME NEW i \in 1 .. len
        PROVE  o[i] \in 0 .. W - 1
    <3>1. i - 1 \in 0 .. len - 1 /\ (i - 1) + 1 = i
      OBVIOUS
    <3> QED
      BY <1>10, <3>1, WordIs
  <2> QED
    BY <1>3, <2>1 DEF Vli
<1> DEFINE T == {k \in 0 .. len : Lowest(o, k) - c[k] * Place(k) = Lowest(a, k) - Lowest(b, k)}
<1>12. 0 \in T
  BY <1>5, <1>11, LowestIs, PlaceIs
<1>13. ASSUME NEW k \in 0 .. len - 1, k \in T
       PROVE  k + 1 \in T
  <2>1. k + 1 \in 1 .. len /\ k + 1 \in 0 .. len /\ k \in 0 .. len /\ k \in Nat
    OBVIOUS
  <2>2. PICK lo, la, lb, p, w, x, y, z, c0, c1 :
          /\ lo = Lowest(o, k) /\ la = Lowest(a, k) /\ lb = Lowest(b, k) /\ p = Place(k) /\ w = W
          /\ x = a[k + 1] /\ y = b[k + 1] /\ z = o[k + 1] /\ c0 = c[k] /\ c1 = c[k + 1]
    OBVIOUS
  <2>3. /\ lo \in Int /\ la \in Int /\ lb \in Int /\ p \in Int /\ w \in Int /\ x \in Int /\ y \in Int /\ z \in Int
        /\ c0 \in Int /\ c1 \in Int
    <3>1. lo \in Int /\ la \in Int /\ lb \in Int
      BY <1>11, <2>1, <2>2, LowestIs
    <3>2. p \in Int /\ w \in Int /\ x \in Int /\ y \in Int /\ z \in Int
      <4>1. a[k + 1] \in Nat /\ b[k + 1] \in Nat /\ o[k + 1] \in Nat
        BY <1>2, <1>10, <2>1
      <4>2. Place(k) \in Nat /\ W \in Nat
        BY <2>1, PlaceIs, WordIs
      <4> QED
        BY <2>2, <4>1, <4>2
    <3>3. c0 \in Int /\ c1 \in Int
      <4>1. c[k] \in {0, 1} /\ c[k + 1] \in {0, 1}
        BY <1>9, <2>1
      <4> QED
        BY <2>2, <4>1
    <3> QED
      BY <3>1, <3>2, <3>3
  <2>4. /\ Lowest(o, k + 1) = lo + z * p /\ Lowest(a, k + 1) = la + x * p /\ Lowest(b, k + 1) = lb + y * p
        /\ Place(k + 1) = w * p
    BY <1>11, <2>1, <2>2, LowestIs, PlaceIs
  <2>5. lo - c0 * p = la - lb /\ z - c1 * w = x - y - c0
    BY <1>10, <1>13, <2>2
  <2>6. z * p - c1 * (w * p) = x * p - y * p - c0 * p
    <3>1. (z - c1 * w) * p = z * p - c1 * (w * p)
      BY <2>3
    <3>2. (x - y - c0) * p = x * p - y * p - c0 * p
      BY <2>3
    <3> QED
      BY <2>5, <3>1, <3>2
  <2>7. (lo + z * p) - c1 * (w * p) = (la + x * p) - (lb + y * p)
    <3>1. PICK u1 \in Int, u2 \in Int, u3 \in Int, u4 \in Int, u5 \in Int :
            u1 = z * p /\ u2 = c1 * (w * p) /\ u3 = x * p /\ u4 = y * p /\ u5 = c0 * p
      BY <2>3
    <3> QED
      BY <2>3, <2>5, <2>6, <3>1
  <2> QED
    BY <2>1, <2>2, <2>4, <2>7
<1> HIDE DEF T
<1>14. len \in T
  BY <1>12, <1>13, UpToInduction
<1>15. Number(o) = Lowest(o, len) /\ Number(a) = Lowest(a, len) /\ Number(b) = Lowest(b, len)
  BY <1>11, LowestIs
<1> QED
  BY <1>3, <1>4, <1>9, <1>11, <1>14, <1>15 DEF T

-----------------------------------------------------------------------------
(* Comparisons.                                                             *)

\* The largest of some indices.
LEMMA MaxIs ==
  ASSUME NEW len \in Nat, NEW S, S \subseteq 0 .. len, S # {}
  PROVE  Max(S) \in S /\ \A j \in S : j <= Max(S)
<1> DEFINE HasMax(U) == \E m \in U : \A j \in U : m >= j
           T == {k \in 0 .. len : \A U \in SUBSET (0 .. k) : U # {} => HasMax(U)}
<1>1. 0 \in T
  <2> SUFFICES ASSUME NEW U \in SUBSET (0 .. 0), U # {}
               PROVE  HasMax(U)
    OBVIOUS
  <2>1. \A j \in U : j = 0
    OBVIOUS
  <2>2. PICK u \in U : TRUE
    OBVIOUS
  <2>3. 0 \in U
    BY <2>1, <2>2
  <2>4. \A j \in U : 0 >= j
    BY <2>1
  <2> QED
    BY <2>3, <2>4
<1>2. ASSUME NEW k \in 0 .. len - 1, k \in T
      PROVE  k + 1 \in T
  <2> SUFFICES ASSUME NEW U \in SUBSET (0 .. k + 1), U # {}
               PROVE  HasMax(U)
    OBVIOUS
  <2>1. CASE k + 1 \in U
    <3>1. \A j \in U : k + 1 >= j
      OBVIOUS
    <3> QED
      BY <2>1, <3>1
  <2>2. CASE k + 1 \notin U
    <3>1. U \in SUBSET (0 .. k)
      BY <2>2
    <3> QED
      BY <1>2, <3>1
  <2> QED
    BY <2>1, <2>2
<1> HIDE DEF T
<1>3. len \in T
  BY <1>1, <1>2, UpToInduction
<1>4. HasMax(S)
  BY <1>3 DEF T
<1>5. \A j \in S : j \in Int
  OBVIOUS
<1> QED
  BY <1>4, <1>5 DEF Max

\* Numbers whose words agree from k on differ by what is below.
LEMMA SameAbove ==
  ASSUME NEW len \in Nat, NEW a, a \in Vli(len), NEW b, b \in Vli(len),
         NEW k \in 0 .. len, \A i \in k + 1 .. len : a[i] = b[i]
  PROVE  Number(a) - Number(b) = Lowest(a, k) - Lowest(b, k)
<1> DEFINE m == len - k
           T == {j \in 0 .. m : Lowest(a, k + j) - Lowest(b, k + j) = Lowest(a, k) - Lowest(b, k)}
<1>1. 0 \in T /\ m \in Nat
  OBVIOUS
<1>2. ASSUME NEW j \in 0 .. m - 1, j \in T
      PROVE  j + 1 \in T
  <2>1. /\ k + j \in 0 .. len - 1 /\ (k + j) + 1 \in k + 1 .. len /\ k + (j + 1) = (k + j) + 1 /\ j + 1 \in 0 .. m
        /\ (k + j) + 1 \in 1 .. len /\ k + j \in Nat /\ k + j \in 0 .. len
    OBVIOUS
  <2>2. PICK la, lb, x, p : la = Lowest(a, k + j) /\ lb = Lowest(b, k + j) /\ x = a[(k + j) + 1] /\ p = Place(k + j)
    OBVIOUS
  <2>3. x = b[(k + j) + 1]
    BY <2>1, <2>2
  <2>4. Lowest(a, (k + j) + 1) = la + x * p /\ Lowest(b, (k + j) + 1) = lb + x * p
    BY <2>1, <2>2, <2>3, LowestIs
  <2>5. la \in Int /\ lb \in Int /\ x \in Int /\ p \in Int
    <3>1. la \in Int /\ lb \in Int
      BY <2>1, <2>2, LowestIs
    <3>2. a[(k + j) + 1] \in Nat
      BY <2>1, WordsAre
    <3>3. Place(k + j) \in Nat
      BY <2>1, PlaceIs
    <3> QED
      BY <2>2, <3>1, <3>2, <3>3
  <2>6. la - lb = Lowest(a, k) - Lowest(b, k)
    BY <1>2, <2>2
  <2>7. (la + x * p) - (lb + x * p) = la - lb
    BY <2>5
  <2> QED
    BY <2>1, <2>4, <2>6, <2>7
<1> HIDE DEF T
<1>3. m \in T
  BY <1>1, <1>2, UpToInduction
<1>4. k + m = len
  OBVIOUS
<1> QED
  BY <1>3, <1>4, LowestIs DEF T

\* The highest different word decides.
LEMMA HighestDecides ==
  ASSUME NEW len \in Nat, NEW a, a \in Vli(len), NEW b, b \in Vli(len),
         NEW k \in 1 .. len, a[k] < b[k], \A i \in k + 1 .. len : a[i] = b[i]
  PROVE  Number(a) < Number(b)
<1>1. PICK j \in 0 .. len - 1 : k = j + 1
  BY k - 1 \in 0 .. len - 1
<1>2. j \in 0 .. len /\ k \in 0 .. len /\ j \in Nat
  BY <1>1
<1>3. PICK la, lb, p, u, v : la = Lowest(a, j) /\ lb = Lowest(b, j) /\ p = Place(j) /\ u = a[k] /\ v = b[k]
  OBVIOUS
<1>4. p \in Nat /\ u \in Nat /\ v \in Nat /\ u < v /\ la \in Nat /\ lb \in Nat /\ la < p
  <2>1. p \in Nat
    BY <1>2, <1>3, PlaceIs
  <2>2. a[k] \in Nat /\ b[k] \in Nat
    BY WordsAre
  <2>3. la \in Nat /\ lb \in Nat /\ la < p
    BY <1>2, <1>3, LowestBelow
  <2> QED
    BY <1>3, <2>1, <2>2, <2>3
<1>5. la + u * p < lb + v * p
  <2>1. PICK e \in Nat : v = u + 1 + e
    BY <1>4, v - u - 1 \in Nat
  <2>2. v * p = u * p + p + e * p /\ e * p \in Nat /\ u * p \in Nat
    BY <1>4, <2>1
  <2> QED
    BY <1>4, <2>2
<1>6. Lowest(a, k) = la + u * p /\ Lowest(b, k) = lb + v * p
  BY <1>1, <1>3, LowestIs
<1>7. Number(a) - Number(b) = Lowest(a, k) - Lowest(b, k)
  BY <1>2, SameAbove
<1>8. Number(a) \in Int /\ Number(b) \in Int /\ Lowest(a, k) \in Int /\ Lowest(b, k) \in Int
  BY <1>2, len \in 0 .. len, LowestIs
<1> QED
  BY <1>5, <1>6, <1>7, <1>8

\* An array of len words stands for a number below their place.
LEMMA NumberIs ==
  ASSUME NEW len \in Nat, NEW a, a \in Vli(len)
  PROVE  Number(a) \in Nat /\ Number(a) < Place(len)
BY len \in 0 .. len, LowestIs, LowestBelow

\* ecdsa_vli_cmp_unsafe compares the numbers.
LEMMA UnsafeIs ==
  ASSUME NEW len \in Nat, NEW a, a \in Vli(len), NEW b, b \in Vli(len)
  PROVE  ecdsa_vli_cmp_unsafe(a, b) = IF Number(a) > Number(b) THEN 1 ELSE IF Number(a) < Number(b) THEN -1 ELSE 0
<1> DEFINE differ == {i \in DOMAIN a : a[i] # b[i]}
           k == Max(differ)
<1>1. DOMAIN a = 1 .. len /\ DOMAIN b = 1 .. len /\ Number(a) \in Nat /\ Number(b) \in Nat
  BY WordsAre, NumberIs
<1>2. CASE differ = {}
  <2>1. a = b
    <3>1. \A i \in 1 .. len : a[i] = b[i]
      BY <1>1, <1>2
    <3> QED
      BY <3>1 DEF Vli
  <2>2. ecdsa_vli_cmp_unsafe(a, b) = 0
    BY <1>2 DEF ecdsa_vli_cmp_unsafe
  <2> QED
    BY <1>1, <2>1, <2>2
<1>3. CASE differ # {}
  <2>1. differ \subseteq 0 .. len
    BY <1>1
  <2>2. k \in differ /\ \A j \in differ : j <= k
    BY <1>3, <2>1, MaxIs
  <2>3. k \in 1 .. len /\ a[k] # b[k]
    BY <1>1, <2>2
  <2>4. ecdsa_vli_cmp_unsafe(a, b) = IF a[k] > b[k] THEN 1 ELSE -1
    BY <1>3 DEF ecdsa_vli_cmp_unsafe
  <2>5. ASSUME NEW i \in k + 1 .. len
        PROVE  a[i] = b[i]
    <3>1. i \in 1 .. len /\ ~(i <= k)
      BY <2>3
    <3>2. i \notin differ
      BY <2>2, <3>1
    <3> QED
      BY <1>1, <3>1, <3>2
  <2> HIDE DEF k, differ
  <2>6. a[k] \in Nat /\ b[k] \in Nat
    BY <2>3, WordsAre
  <2>7. CASE a[k] > b[k]
    <3>1. Number(b) < Number(a)
      <4>1. \A i \in k + 1 .. len : b[i] = a[i]
        BY <2>5
      <4>2. b[k] < a[k]
        BY <2>6, <2>7
      <4> QED
        BY <2>3, <4>1, <4>2, HighestDecides
    <3> QED
      BY <1>1, <2>4, <2>7, <3>1
  <2>8. CASE ~(a[k] > b[k])
    <3>1. a[k] < b[k]
      BY <2>3, <2>6, <2>8
    <3>2. Number(a) < Number(b)
      BY <2>3, <2>5, <3>1, HighestDecides
    <3> QED
      BY <1>1, <2>4, <2>8, <3>2
  <2> QED
    BY <2>7, <2>8
<1> QED
  BY <1>2, <1>3

\* Only zeros make 0.
LEMMA ZeroIs ==
  ASSUME NEW len \in Nat, NEW a, a \in Vli(len)
  PROVE  ecdsa_vli_isZero(a) <=> Number(a) = 0
<1> DEFINE z == [i \in 1 .. len |-> 0]
<1>1. z \in Vli(len) /\ DOMAIN a = 1 .. len /\ Number(a) \in Nat
  BY WordIs, WordsAre, NumberIs DEF Vli
<1>2. Number(z) = 0
  <2>1. Len(z) = len
    BY <1>1, WordsAre
  <2> DEFINE f == [i \in 0 .. len - 1 |-> z[i + 1] * Power(W, i)]
  <2>2. \A i \in 0 .. len - 1 : f[i] = 0
    <3> TAKE i \in 0 .. len - 1
    <3>1. i + 1 \in 1 .. len /\ i \in Nat
      OBVIOUS
    <3>2. z[i + 1] = 0 /\ Power(W, i) \in Nat
      BY <3>1, PlaceIs DEF Place
    <3> QED
      BY <3>2
  <2>3. Number(z) = SumBelow(f, len)
    BY <2>1 DEF Number
  <2> HIDE DEF f
  <2> QED
    BY <2>2, <2>3, len \in 0 .. len, SumZero
<1>3. \A i \in 1 .. len : z[i] = 0
  OBVIOUS
<1> HIDE DEF z
<1>4. CASE a = z
  BY <1>1, <1>2, <1>3, <1>4 DEF ecdsa_vli_isZero
<1>5. CASE a # z
  <2>1. ~ecdsa_vli_isZero(a)
    <3> SUFFICES ASSUME ecdsa_vli_isZero(a)
                 PROVE  FALSE
      OBVIOUS
    <3>1. \A i \in 1 .. len : a[i] = z[i]
      BY <1>1, <1>3 DEF ecdsa_vli_isZero
    <3>2. a = z
      BY <1>1, <3>1 DEF Vli
    <3> QED
      BY <1>5, <3>2
  <2>2. Number(a) # 0
    <3>1. PICK i \in 1 .. len : a[i] # z[i]
      <4> SUFFICES ASSUME \A i \in 1 .. len : a[i] = z[i]
                   PROVE  FALSE
        OBVIOUS
      <4>1. a = z
        BY <1>1 DEF Vli
      <4> QED
        BY <1>5, <4>1
    <3> DEFINE differ == {j \in DOMAIN a : a[j] # z[j]}
               k == Max(differ)
    <3>2. i \in differ /\ differ \subseteq 0 .. len
      BY <1>1, <3>1
    <3>3. k \in differ
      BY <3>2, MaxIs
    <3>4. k \in 1 .. len /\ a[k] \in Nat /\ a[k] # 0 /\ \A j \in differ : j <= k
      <4>1. k \in 1 .. len /\ a[k] # z[k]
        BY <1>1, <3>3
      <4> QED
        BY <1>3, <3>2, <4>1, MaxIs, WordsAre
    <3>5. ASSUME NEW j \in k + 1 .. len
          PROVE  z[j] = a[j]
      <4>1. j \in 1 .. len /\ ~(j <= k)
        BY <3>4
      <4> QED
        BY <1>1, <3>4, <4>1
    <3> HIDE DEF k, differ
    <3>6. z[k] < a[k]
      BY <1>3, <3>4
    <3>7. Number(z) < Number(a)
      BY <1>1, <3>4, <3>5, <3>6, HighestDecides
    <3> QED
      BY <1>1, <1>2, <3>7
  <2> QED
    BY <2>1, <2>2
<1> QED
  BY <1>4, <1>5

\* So does ecdsa_vli_cmp, which subtracts.
LEMMA CmpIs ==
  ASSUME NEW len \in Nat, NEW a, a \in Vli(len), NEW b, b \in Vli(len)
  PROVE  ecdsa_vli_cmp(a, b) = IF Number(a) > Number(b) THEN 1 ELSE IF Number(a) < Number(b) THEN -1 ELSE 0
<1>1. PICK d : d = ecdsa_vli_sub(a, b)
  OBVIOUS
<1>2. d.out \in Vli(len) /\ d.carry \in {0, 1} /\ Number(d.out) - d.carry * Place(len) = Number(a) - Number(b)
  BY <1>1, SubIs
<1>3. PICK o, c, p, x, y : o = Number(d.out) /\ c = d.carry /\ p = Place(len) /\ x = Number(a) /\ y = Number(b)
  OBVIOUS
<1>4. o \in Nat /\ o < p /\ p \in Nat /\ x \in Nat /\ y \in Nat /\ x < p /\ y < p /\ c \in {0, 1} /\ o - c * p = x - y
  BY <1>2, <1>3, NumberIs, PlaceIs
<1>5. ecdsa_vli_isZero(d.out) <=> o = 0
  BY <1>2, <1>3, ZeroIs
<1>6. ecdsa_vli_cmp(a, b) = Bit(~(o = 0)) - 2 * c
  BY <1>1, <1>3, <1>5 DEF ecdsa_vli_cmp, Bit
<1>7. CASE c = 0
  BY <1>3, <1>4, <1>6, <1>7 DEF Bit
<1>8. CASE c = 1
  BY <1>3, <1>4, <1>6, <1>8 DEF Bit
<1> QED
  BY <1>4, <1>7, <1>8

-----------------------------------------------------------------------------
(* Shifting and counting bits.                                              *)

\* ecdsa_vli_rshift1 halves a number.
LEMMA HalfIs ==
  ASSUME NEW len \in Nat, NEW a, a \in Vli(len), NEW o, o = ecdsa_vli_rshift1(a)
  PROVE  o \in Vli(len) /\ Number(o) = Number(a) \div 2
<1>1. Len(a) = len /\ \A i \in 1 .. len : a[i] \in Nat /\ a[i] < W
  BY WordsAre
<1>2. PICK h \in Nat : W = 2 * h /\ h = W \div 2
  BY WordIs
<1> DEFINE top(k) == IF k < len THEN a[k + 1] % 2 ELSE 0
<1>3. ASSUME NEW k \in 0 .. len
      PROVE  top(k) \in {0, 1}
  <2>1. CASE k < len
    <3>1. a[k + 1] \in Nat
      BY <1>1, <2>1
    <3>2. a[k + 1] % 2 \in 0 .. 1
      BY <3>1
    <3> QED
      BY <2>1, <3>2
  <2> QED
    BY <2>1
<1>4. o = [i \in 1 .. len |-> (a[i] \div 2) + (IF i < len THEN (a[i + 1] % 2) * h ELSE 0)]
  BY <1>1, <1>2 DEF ecdsa_vli_rshift1
<1>5. ASSUME NEW k \in 0 .. len - 1
      PROVE  /\ o[k + 1] \in Nat /\ o[k + 1] < W
             /\ 2 * o[k + 1] = a[k + 1] - top(k) + top(k + 1) * W
  <2>1. k + 1 \in 1 .. len /\ k \in 0 .. len /\ k + 1 \in 0 .. len /\ k < len
    OBVIOUS
  <2>2. PICK x, t, u : x = a[k + 1] /\ t = top(k) /\ u = top(k + 1)
    OBVIOUS
  <2>3. x \in Nat /\ x < 2 * h /\ t = x % 2 /\ u \in {0, 1}
    BY <1>1, <1>2, <1>3, <2>1, <2>2
  <2>4. o[k + 1] = (x \div 2) + u * h
    <3>1. (k + 1) + 1 = k + 2 /\ 0 * h = 0
      OBVIOUS
    <3>2. u * h = IF k + 1 < len THEN (a[(k + 1) + 1] % 2) * h ELSE 0
      BY <2>2, <3>1
    <3> QED
      BY <1>4, <2>1, <2>2, <3>2
  <2>5. (x \div 2) \in Nat /\ (x \div 2) < h /\ 2 * (x \div 2) = x - t
    BY <2>3
  <2> HIDE DEF top
  <2>6. PICK q \in Nat : q = x \div 2
    BY <2>5
  <2>7. CASE u = 0
    BY <1>2, <2>2, <2>3, <2>4, <2>5, <2>6, <2>7
  <2>8. CASE u = 1
    BY <1>2, <2>2, <2>3, <2>4, <2>5, <2>6, <2>8
  <2> QED
    BY <2>3, <2>7, <2>8
<1> HIDE DEF top
<1>6. o \in Vli(len)
  <2>1. ASSUME NEW i \in 1 .. len
        PROVE  o[i] \in 0 .. W - 1
    <3>1. i - 1 \in 0 .. len - 1 /\ (i - 1) + 1 = i
      OBVIOUS
    <3> QED
      BY <1>5, <3>1, WordIs
  <2> QED
    BY <1>4, <2>1 DEF Vli
<1> DEFINE T == {k \in 0 .. len : 2 * Lowest(o, k) + top(0) = Lowest(a, k) + top(k) * Place(k)}
<1>7. 0 \in T
  <2>1. top(0) \in Int /\ Lowest(o, 0) = 0 /\ Lowest(a, 0) = 0 /\ Place(0) = 1
    BY <1>3, <1>6, 0 \in 0 .. len, LowestIs, PlaceIs
  <2> QED
    BY <2>1
<1>8. ASSUME NEW k \in 0 .. len - 1, k \in T
      PROVE  k + 1 \in T
  <2>1. k + 1 \in 1 .. len /\ k + 1 \in 0 .. len /\ k \in 0 .. len /\ k \in Nat /\ 0 \in 0 .. len
    OBVIOUS
  <2>2. PICK lo, la, p, w, x, z, t, u, v : /\ lo = Lowest(o, k) /\ la = Lowest(a, k) /\ p = Place(k) /\ w = W
                                          /\ x = a[k + 1] /\ z = o[k + 1] /\ t = top(k) /\ u = top(k + 1) /\ v = top(0)
    OBVIOUS
  <2>3. lo \in Int /\ la \in Int /\ p \in Int /\ w \in Int /\ x \in Int /\ z \in Int
    <3>1. lo \in Int /\ la \in Int
      BY <1>6, <2>1, <2>2, LowestIs
    <3>2. a[k + 1] \in Nat /\ o[k + 1] \in Nat
      BY <1>1, <1>5, <2>1
    <3>3. Place(k) \in Nat /\ W \in Nat
      BY <2>1, PlaceIs, WordIs
    <3> QED
      BY <2>2, <3>1, <3>2, <3>3
  <2>4. t \in Int /\ u \in Int /\ v \in Int
    <3>1. t \in {0, 1} /\ u \in {0, 1} /\ v \in {0, 1}
      BY <1>3, <2>1, <2>2
    <3> QED
      BY <3>1
  <2>5. Lowest(o, k + 1) = lo + z * p /\ Lowest(a, k + 1) = la + x * p /\ Place(k + 1) = w * p
    BY <1>6, <2>1, <2>2, LowestIs, PlaceIs
  <2>6. 2 * lo + v = la + t * p /\ 2 * z = x - t + u * w
    BY <1>5, <1>8, <2>2
  <2>7. 2 * (z * p) = x * p - t * p + u * (w * p)
    <3>1. (2 * z) * p = 2 * (z * p) /\ (x - t + u * w) * p = x * p - t * p + u * (w * p)
      BY <2>3, <2>4
    <3> QED
      BY <2>6, <3>1
  <2>8. 2 * (lo + z * p) + v = (la + x * p) + u * (w * p)
    <3>1. PICK u1 \in Int, u2 \in Int, u3 \in Int, u4 \in Int : u1 = z * p /\ u2 = x * p /\ u3 = t * p /\ u4 = u * (w * p)
      BY <2>3, <2>4
    <3> QED
      BY <2>3, <2>4, <2>6, <2>7, <3>1
  <2> QED
    BY <2>1, <2>2, <2>5, <2>8
<1> HIDE DEF T
<1>9. 2 * Number(o) + top(0) = Number(a)
  <2>1. len \in T
    BY <1>7, <1>8, UpToInduction
  <2>2. top(len) = 0 /\ Place(len) \in Nat
    BY PlaceIs DEF top
  <2>3. Number(o) = Lowest(o, len) /\ Number(a) = Lowest(a, len) /\ Lowest(a, len) \in Int
    BY <1>6, len \in 0 .. len, LowestIs
  <2> QED
    BY <2>1, <2>2, <2>3 DEF T
<1>10. Number(o) \in Nat /\ Number(a) \in Nat /\ top(0) \in {0, 1}
  BY <1>3, <1>6, 0 \in 0 .. len, NumberIs
<1> QED
  BY <1>6, <1>9, <1>10

\* Words of zeros at the top make nothing.
LEMMA ZerosAbove ==
  ASSUME NEW len \in Nat, NEW a, a \in Vli(len), NEW k \in 0 .. len, \A i \in k + 1 .. len : a[i] = 0
  PROVE  Number(a) = Lowest(a, k)
<1> DEFINE m == len - k
           T == {j \in 0 .. m : Lowest(a, k + j) = Lowest(a, k)}
<1>1. 0 \in T /\ m \in Nat
  OBVIOUS
<1>2. ASSUME NEW j \in 0 .. m - 1, j \in T
      PROVE  j + 1 \in T
  <2>1. /\ k + j \in 0 .. len - 1 /\ (k + j) + 1 \in k + 1 .. len /\ k + (j + 1) = (k + j) + 1 /\ j + 1 \in 0 .. m
        /\ k + j \in Nat /\ k + j \in 0 .. len
    OBVIOUS
  <2>2. Lowest(a, (k + j) + 1) = Lowest(a, k + j) + 0 * Place(k + j)
    <3>1. a[(k + j) + 1] = 0
      BY <2>1
    <3> QED
      BY <2>1, <3>1, LowestIs
  <2>3. Place(k + j) \in Nat /\ Lowest(a, k + j) \in Int
    BY <2>1, PlaceIs, LowestIs
  <2> QED
    BY <1>2, <2>1, <2>2, <2>3
<1> HIDE DEF T
<1>3. m \in T
  BY <1>1, <1>2, UpToInduction
<1>4. k + m = len
  OBVIOUS
<1> QED
  BY <1>3, <1>4, LowestIs DEF T

\* A place is a power of two.
LEMMA PlacePower == \A k \in Nat : Place(k) = Power(2, k * WordBits) /\ k * WordBits \in Nat
<1> DEFINE T == {k \in Nat : Place(k) = Power(2, k * WordBits) /\ k * WordBits \in Nat}
<1>1. WordBits \in Nat /\ 2 \in Int
  BY WordIs
<1>2. 0 \in T
  <2>1. 0 * WordBits = 0
    BY <1>1
  <2> QED
    BY <1>1, <2>1, PlaceIs, PowerStep
<1>3. ASSUME NEW k \in Nat, k \in T
      PROVE  k + 1 \in T
  <2>1. PICK m \in Nat : m = k * WordBits /\ Place(k) = Power(2, m)
    BY <1>3
  <2>2. (k + 1) * WordBits = WordBits + m
    BY <1>1, <2>1
  <2>3. Power(2, WordBits + m) = Power(2, WordBits) * Power(2, m)
    BY <1>1, PowerPlus
  <2>4. Place(k + 1) = W * Place(k)
    BY PlaceIs
  <2> QED
    BY <1>1, <2>1, <2>2, <2>3, <2>4 DEF W
<1> HIDE DEF T
<1>4. \A k \in Nat : k \in T
  BY <1>2, <1>3, SetInduction
<1> QED
  BY <1>4 DEF T

\* A set of natural numbers that is not empty has a least element.
LEMMA LeastIs ==
  ASSUME NEW S, S \subseteq Nat, S # {}
  PROVE  Min(S) \in S /\ \A j \in S : Min(S) <= j
<1> DEFINE HasMin == \E m \in S : \A j \in S : m <= j
           T == {k \in Nat : \A j \in S : k <= j}
<1>1. HasMin
  <2> SUFFICES ASSUME ~HasMin
               PROVE  FALSE
    OBVIOUS
  <2>1. 0 \in T
    OBVIOUS
  <2>2. ASSUME NEW k \in Nat, k \in T
        PROVE  k + 1 \in T
    <3>1. k \notin S
      BY <2>2
    <3>2. \A j \in S : k <= j /\ k # j /\ j \in Nat
      BY <2>2, <3>1
    <3> QED
      BY <3>2
  <2> HIDE DEF T
  <2>3. \A k \in Nat : k \in T
    BY <2>1, <2>2, SetInduction
  <2>4. PICK j \in S : j \in Nat
    OBVIOUS
  <2>5. j + 1 \in T
    BY <2>3, <2>4
  <2> QED
    BY <2>4, <2>5 DEF T
<1> QED
  BY <1>1 DEF Min

\* The bits of a word that is not 0.
LEMMA WordBitsOf ==
  ASSUME NEW x \in Nat, x > 0, x < W, NEW m, m = Min({i \in 1 .. WordBits : x \div Power(2, i) = 0})
  PROVE  m \in 1 .. WordBits /\ x < Power(2, m) /\ Power(2, m - 1) <= x
<1> DEFINE S == {i \in 1 .. WordBits : x \div Power(2, i) = 0}
<1>1. WordBits \in Nat /\ WordBits > 0 /\ \A i \in Nat : Power(2, i) \in Nat /\ Power(2, i) > 0
  BY WordIs, 2 \in Nat, 2 > 0, PowerPositive
<1>2. ASSUME NEW i \in Nat
      PROVE  (x \div Power(2, i) = 0) <=> (x < Power(2, i))
  <2>1. PICK p \in Nat : p = Power(2, i) /\ p > 0
    BY <1>1
  <2>2. (x \div p = 0) <=> (x < p)
    <3>1. PICK q, r : q = x \div p /\ r = x % p
      OBVIOUS
    <3>2. q \in Int /\ r \in Nat /\ r < p /\ x = p * q + r
      <4>1. x \in Int
        OBVIOUS
      <4>2. q \in Int /\ r \in 0 .. p - 1 /\ x = p * q + r
        BY <2>1, <3>1, <4>1, QuotientRest
      <4> QED
        BY <2>1, <4>2
    <3>3. CASE x < p
      BY <2>1, <3>3, QuotientIs, x = p * 0 + x
    <3>4. CASE ~(x < p)
      <4>1. q # 0
        <5> SUFFICES ASSUME q = 0
                     PROVE  FALSE
          OBVIOUS
        <5>1. p * 0 = 0
          BY <2>1
        <5> QED
          BY <2>1, <3>2, <3>4, <5>1
      <4> QED
        BY <3>1, <3>4, <4>1
    <3> QED
      BY <3>3, <3>4
  <2> QED
    BY <2>1, <2>2
<1>3. WordBits \in S
  BY <1>1, <1>2 DEF W
<1>4. S \subseteq Nat /\ S # {}
  BY <1>1, <1>3
<1>5. m \in S /\ \A j \in S : m <= j
  <2>1. m = Min(S)
    OBVIOUS
  <2> HIDE DEF S
  <2> QED
    BY <1>4, <2>1, LeastIs
<1>6. m \in 1 .. WordBits /\ m \in Nat /\ x \div Power(2, m) = 0
  BY <1>1, <1>5
<1>7. x < Power(2, m)
  BY <1>2, <1>6
<1>8. Power(2, m - 1) <= x
  <2>1. CASE m = 1
    <3>1. Power(2, 0) = 1 /\ m - 1 = 0
      BY <2>1, 2 \in Int, PowerStep
    <3> QED
      BY <3>1
  <2>2. CASE m # 1
    <3>1. m - 1 \in 1 .. WordBits /\ m - 1 \in Nat /\ ~(m <= m - 1)
      BY <1>1, <1>6, <2>2
    <3>2. m - 1 \notin S
      BY <1>5, <3>1
    <3>3. ~(x < Power(2, m - 1))
      BY <1>2, <3>1, <3>2
    <3> QED
      BY <1>1, <3>1, <3>3
  <2> QED
    BY <2>1, <2>2
<1> QED
  BY <1>6, <1>7, <1>8

\* ecdsa_vli_numBits counts the bits of a number.
LEMMA BitsAre ==
  ASSUME NEW len \in Nat, NEW a, a \in Vli(len), NEW bits, bits = ecdsa_vli_numBits(a)
  PROVE  /\ Power(2, bits) > Number(a) /\ (Number(a) > 0 => Power(2, bits - 1) <= Number(a))
         /\ bits \in Nat /\ bits <= len * WordBits /\ (Number(a) > 0 => bits > 0)
<1> DEFINE used == {i \in DOMAIN a : a[i] # 0}
           d == Max(used)
<1>1. DOMAIN a = 1 .. len /\ Number(a) \in Nat
  BY WordsAre, NumberIs
<1>2. CASE used = {}
  <2>1. vli_numDigits(a) = 0
    BY <1>2 DEF vli_numDigits
  <2>2. bits = 0
    BY <2>1 DEF ecdsa_vli_numBits
  <2>3. Number(a) = 0
    <3>1. ecdsa_vli_isZero(a)
      BY <1>2 DEF ecdsa_vli_isZero
    <3> QED
      BY <3>1, ZeroIs
  <2>4. Power(2, 0) = 1
    BY 2 \in Int, PowerStep
  <2>5. len * WordBits \in Nat
    BY WordIs
  <2> QED
    BY <2>2, <2>3, <2>4, <2>5
<1>3. CASE used # {}
  <2>1. used \subseteq 0 .. len
    BY <1>1
  <2>2. d \in used /\ \A j \in used : j <= d
    BY <1>3, <2>1, MaxIs
  <2>3. d \in 1 .. len /\ a[d] # 0
    BY <1>1, <2>2
  <2>4. vli_numDigits(a) = d
    BY <1>3 DEF vli_numDigits
  <2>5. ASSUME NEW i \in d + 1 .. len
        PROVE  a[i] = 0
    <3>1. i \in 1 .. len /\ ~(i <= d)
      BY <2>3
    <3> QED
      BY <1>1, <2>2, <3>1
  <2> HIDE DEF d, used
  <2>6. PICK x : x = a[d]
    OBVIOUS
  <2>7. x \in Nat /\ x > 0 /\ x < W
    <3>1. a[d] \in Nat /\ a[d] < W
      BY <2>3, WordsAre
    <3> QED
      BY <2>3, <2>6, <3>1
  <2>8. PICK m : m = Min({i \in 1 .. WordBits : x \div Power(2, i) = 0})
    OBVIOUS
  <2>9. m \in 1 .. WordBits /\ x < Power(2, m) /\ Power(2, m - 1) <= x
    BY <2>7, <2>8, WordBitsOf
  <2>10. bits = (d - 1) * WordBits + m
    <3>1. d # 0
      BY <2>3
    <3> QED
      BY <2>4, <2>6, <2>8, <3>1 DEF ecdsa_vli_numBits
  <2>11. PICK j \in Nat : d = j + 1 /\ d - 1 = j /\ j \in 0 .. len - 1 /\ j \in 0 .. len /\ d \in 0 .. len
    BY <2>3, d - 1 \in Nat
  <2>12. PICK e \in Nat : e = j * WordBits /\ Place(j) = Power(2, e)
    BY PlacePower
  <2>13. PICK l, p, y, z : l = Lowest(a, j) /\ p = Place(j) /\ y = Power(2, m) /\ z = Power(2, m - 1)
    OBVIOUS
  <2>14. m \in Nat /\ m - 1 \in Nat /\ 2 \in Int /\ 2 \in Nat /\ 2 > 0
    BY <2>9, WordIs
  <2>15. y \in Nat /\ z \in Nat /\ p \in Nat /\ l \in Nat /\ l < p /\ z <= x /\ x < y
    <3>1. Power(2, m) \in Nat /\ Power(2, m - 1) \in Nat
      BY <2>14, PowerPositive
    <3>2. p \in Nat /\ l \in Nat /\ l < p
      BY <2>11, <2>13, PlaceIs, LowestBelow
    <3> QED
      BY <2>9, <2>13, <3>1, <3>2
  <2>16. Number(a) = l + x * p
    <3>1. Number(a) = Lowest(a, d)
      BY <2>5, <2>11, ZerosAbove
    <3>2. Lowest(a, j + 1) = Lowest(a, j) + a[j + 1] * Place(j)
      BY <2>11, LowestIs
    <3> QED
      BY <2>6, <2>11, <2>13, <3>1, <3>2
  <2>17. Power(2, bits) = p * y /\ Power(2, bits - 1) = p * z
    <3>1. bits = e + m /\ bits - 1 = e + (m - 1)
      BY <2>10, <2>11, <2>12, <2>14
    <3>2. Power(2, e + m) = Power(2, e) * Power(2, m) /\ Power(2, e + (m - 1)) = Power(2, e) * Power(2, m - 1)
      BY <2>12, <2>14, PowerPlus
    <3> QED
      BY <2>12, <2>13, <3>1, <3>2
  <2>18. l + x * p < p * y
    <3>1. PICK f \in Nat : y = x + 1 + f
      BY <2>7, <2>15, y - x - 1 \in Nat
    <3>2. p * (x + 1 + f) = x * p + p + p * f /\ p * f \in Nat /\ x * p \in Nat
      BY <2>7, <2>15
    <3> QED
      BY <2>15, <3>1, <3>2
  <2>19. p * z <= l + x * p
    <3>1. PICK f \in Nat : x = z + f
      BY <2>7, <2>15, x - z \in Nat
    <3>2. (z + f) * p = p * z + f * p /\ f * p \in Nat /\ p * z \in Nat
      BY <2>15
    <3> QED
      BY <2>15, <3>1, <3>2
  <2>20. bits \in Nat /\ bits <= len * WordBits /\ bits > 0
    <3>1. PICK f \in Nat : len = j + 1 + f
      BY <2>11, len - j - 1 \in Nat
    <3>2. (j + 1 + f) * WordBits = e + WordBits + f * WordBits /\ f * WordBits \in Nat
      BY <2>12, WordIs
    <3> QED
      BY <2>9, <2>10, <2>11, <2>12, <2>14, <3>1, <3>2, WordIs
  <2> QED
    <3>1. p * y \in Nat /\ l + x * p \in Nat
      BY <2>7, <2>15
    <3> QED
      BY <2>16, <2>17, <2>18, <2>19, <2>20, <3>1
<1> QED
  BY <1>2, <1>3

-----------------------------------------------------------------------------
(* Products of words.                                                       *)

\* A smaller product has a smaller factor.
LEMMA FactorLess ==
  ASSUME NEW v \in Nat, NEW w \in Nat, NEW m \in Nat, v * m < w * m
  PROVE  v < w
<1> SUFFICES ASSUME v >= w
             PROVE  FALSE
  OBVIOUS
<1>1. PICK e \in Nat : v = w + e
  BY v - w \in Nat
<1>2. (w + e) * m = w * m + e * m /\ e * m \in Nat /\ w * m \in Nat
  OBVIOUS
<1> QED
  BY <1>1, <1>2

\* A factor that is not larger makes a product that is not larger.
LEMMA LessByFactor ==
  ASSUME NEW v \in Nat, NEW w \in Nat, NEW m \in Nat, v <= w
  PROVE  v * m <= w * m /\ m * v <= m * w /\ v * m \in Nat /\ w * m \in Nat
<1>1. PICK e \in Nat : w = v + e
  BY w - v \in Nat
<1>2. (v + e) * m = v * m + e * m /\ e * m \in Nat /\ v * m \in Nat
  OBVIOUS
<1>3. w * m = v * m + e * m /\ m * v = v * m /\ m * w = w * m
  BY <1>1, <1>2
<1> QED
  BY <1>2, <1>3

\* The product of two numbers of one base fits two digits, and one less still.
LEMMA ProductBelow ==
  ASSUME NEW w \in Nat, NEW x \in Nat, x < w, NEW y \in Nat, y < w
  PROVE  x * y \in Nat /\ x * y + 2 * w <= w * w + 1
<1>1. PICK d \in Nat : w = d + 1
  BY w - 1 \in Nat
<1>2. x <= d /\ y <= d
  BY <1>1
<1>3. x * y <= d * y /\ d * y <= d * d /\ x * y \in Nat /\ d * d \in Nat /\ d * y \in Nat
  BY <1>2, LessByFactor
<1>4. (d + 1) * (d + 1) = d * d + 2 * d + 1
  OBVIOUS
<1> QED
  BY <1>1, <1>3, <1>4

\* What the accumulator's three words are worth.
Triples == [1 .. 3 -> 0 .. W - 1]
Value(r) == r[1] + r[2] * W + r[3] * (W * W)

\* The three words of the accumulator.
LEMMA ValueIs ==
  ASSUME NEW r \in Triples
  PROVE  /\ r[1] \in Nat /\ r[1] < W /\ r[2] \in Nat /\ r[2] < W /\ r[3] \in Nat /\ r[3] < W
         /\ r[2] * W + r[1] \in Nat /\ r[2] * W + r[1] < W * W
         /\ Value(r) = r[1] + r[2] * W + r[3] * (W * W) /\ Value(r) \in Nat
<1>1. PICK w, a, b, c : w = W /\ a = r[1] /\ b = r[2] /\ c = r[3]
  OBVIOUS
<1>2. w \in Nat /\ a \in Nat /\ a < w /\ b \in Nat /\ b < w /\ c \in Nat /\ c < w
  BY <1>1, WordIs DEF Triples
<1>3. PICK e \in Nat : w = b + 1 + e
  BY <1>2, w - b - 1 \in Nat
<1>4. (b + 1 + e) * w = b * w + w + e * w /\ b * w \in Nat /\ e * w \in Nat /\ w * w \in Nat
  BY <1>2
<1>5. b * w + a \in Nat /\ b * w + a < w * w
  BY <1>2, <1>3, <1>4
<1>6. c * (w * w) \in Nat
  BY <1>2, <1>4
<1>7. a + b * w + c * (w * w) \in Nat
  BY <1>2, <1>4, <1>6
<1> QED
  BY <1>1, <1>2, <1>5, <1>7 DEF Value

\* Adding to the accumulator is exact while its three words hold the sum.
LEMMA AddToLowIs ==
  ASSUME NEW r \in Triples, NEW p \in Nat, p < W * W, NEW more \in Nat,
         Value(r) + p + more * (W * W) < W * (W * W), NEW t, t = AddToLow(r, p, more)
  PROVE  t \in Triples /\ Value(t) = Value(r) + p + more * (W * W)
<1>1. PICK w, m, a, b, c, l : w = W /\ m = W * W /\ a = r[1] /\ b = r[2] /\ c = r[3] /\ l = b * w + a
  OBVIOUS
<1>2. /\ w \in Nat /\ w > 1 /\ m = w * w /\ m \in Nat /\ m > 0 /\ p < m
      /\ a \in Nat /\ b \in Nat /\ c \in Nat /\ l \in Nat /\ l < m
      /\ Value(r) = l + c * m
  <2>1. w \in Nat /\ w > 1 /\ m = w * w /\ p < m
    BY <1>1, WordIs
  <2>2. m \in Nat /\ m > 0
    BY <2>1
  <2> QED
    BY <1>1, <2>1, <2>2, ValueIs
<1>3. PICK s, k : s = (l + p) % m /\ k = Bit(s < p)
  OBVIOUS
<1>4. s \in Nat /\ s < m /\ k \in {0, 1} /\ s + k * m = l + p
  <2>1. CASE l + p < m
    <3>1. s = l + p
      BY <1>2, <1>3, <2>1
    <3> QED
      BY <1>2, <1>3, <2>1, <3>1 DEF Bit
  <2>2. CASE l + p >= m
    <3>1. l + p = m * 1 + (l + p - m) /\ 0 <= l + p - m /\ l + p - m < m /\ l + p - m \in Int /\ l + p \in Int
      BY <1>2, <2>2
    <3>2. s = l + p - m
      BY <1>2, <1>3, <3>1, 1 \in Int, QuotientIs
    <3>3. k = 1
      BY <1>2, <1>3, <3>2 DEF Bit
    <3> QED
      BY <1>2, <2>2, <3>2, <3>3
  <2> QED
    BY <1>2, <2>1, <2>2
<1>5. t = <<s % w, s \div w, (c + more + k) % w>>
  BY <1>1, <1>3 DEF AddToLow
<1>6. PICK q, u : q = s \div w /\ u = s % w
  OBVIOUS
<1>7. q \in Int /\ u \in Nat /\ u < w /\ s = w * q + u
  <2>1. s \in Int /\ w > 0
    BY <1>2, <1>4
  <2>2. q \in Int /\ u \in 0 .. w - 1 /\ s = w * q + u
    BY <1>2, <1>6, <2>1, QuotientRest
  <2> QED
    BY <1>2, <2>2
<1>8. q \in Nat /\ q < w
  <2>1. q >= 0
    <3> SUFFICES ASSUME q <= -1
                 PROVE  FALSE
      BY <1>7
    <3>1. PICK e \in Nat : q = -1 - e
      BY <1>7, -1 - q \in Nat
    <3>2. w * (-1 - e) = -w - w * e /\ w * e \in Nat
      BY <1>2
    <3> QED
      BY <1>2, <1>4, <1>7, <3>1, <3>2
  <2>2. q \in Nat
    BY <1>7, <2>1
  <2>3. q * w < w * w
    <3>1. w * q = q * w /\ q * w \in Nat
      BY <1>2, <2>2
    <3> QED
      BY <1>2, <1>4, <1>7, <3>1
  <2> QED
    BY <1>2, <2>2, <2>3, FactorLess
<1>9. PICK v \in Nat : v = c + more + k
  BY <1>2, <1>4
<1>10. v * m = c * m + more * m + k * m /\ c * m \in Nat /\ more * m \in Nat /\ v * m \in Nat
  BY <1>2, <1>4, <1>9
<1>11. s + v * m = Value(r) + p + more * m /\ s + v * m < w * m
  BY <1>1, <1>2, <1>4, <1>10
<1>12. v < w
  <2>1. v * m < w * m
    <3>1. w * m \in Nat
      BY <1>2
    <3> QED
      BY <1>4, <1>10, <1>11, <3>1
  <2> QED
    BY <1>2, <2>1, FactorLess
<1>13. v % w = v
  BY <1>2, <1>12
<1>14. t = <<u, q, v>>
  BY <1>5, <1>6, <1>9, <1>13
<1>15. t \in Triples
  <2>1. u \in 0 .. W - 1 /\ q \in 0 .. W - 1 /\ v \in 0 .. W - 1
    BY <1>1, <1>2, <1>7, <1>8, <1>12
  <2> QED
    BY <1>14, <2>1 DEF Triples
<1>16. Value(t) = u + q * w + v * m
  BY <1>1, <1>14 DEF Value
<1>17. w * q = q * w
  BY <1>2, <1>8
<1> QED
  BY <1>1, <1>7, <1>11, <1>15, <1>16, <1>17, <1>2, <1>8, <1>10

\* muladd adds a product exactly while three words hold the sum.
LEMMA MulAddIs ==
  ASSUME NEW x \in Nat, x < W, NEW y \in Nat, y < W, NEW r \in Triples,
         Value(r) + x * y < W * (W * W), NEW t, t = muladd(x, y, r)
  PROVE  t \in Triples /\ Value(t) = Value(r) + x * y
<1>1. W \in Nat /\ W > 1
  BY WordIs
<1>2. PICK p : p = x * y
  OBVIOUS
<1>3. p \in Nat /\ p + 2 * W <= W * W + 1 /\ W * W \in Nat
  BY <1>1, <1>2, ProductBelow
<1>4. p < W * W /\ 0 * (W * W) = 0
  BY <1>1, <1>3
<1>5. t = AddToLow(r, p, 0)
  BY <1>2 DEF muladd
<1>6. Value(r) \in Nat
  BY ValueIs
<1>7. Value(r) + p + 0 * (W * W) < W * (W * W)
  BY <1>2, <1>3, <1>4, <1>6
<1>8. t \in Triples /\ Value(t) = Value(r) + p + 0 * (W * W)
  BY <1>3, <1>4, <1>5, <1>7, 0 \in Nat, AddToLowIs
<1> QED
  BY <1>2, <1>3, <1>4, <1>6, <1>8

\* Three words that are worth the same are the same.
LEMMA SameTriple ==
  ASSUME NEW r \in Triples, NEW t \in Triples, Value(r) = Value(t)
  PROVE  r = t
<1>1. PICK w, a, b, c, d, e, f : /\ w = W /\ a = r[1] /\ b = r[2] /\ c = r[3]
                                 /\ d = t[1] /\ e = t[2] /\ f = t[3]
  OBVIOUS
<1>2. /\ w \in Nat /\ w > 0 /\ a \in Nat /\ a < w /\ b \in Nat /\ b < w /\ c \in Nat
      /\ d \in Nat /\ d < w /\ e \in Nat /\ e < w /\ f \in Nat
  BY <1>1, WordIs, ValueIs
<1>3. PICK v \in Nat : v = Value(r)
  BY ValueIs
<1>4. PICK g \in Nat, h \in Nat : g = w * c + b /\ h = w * f + e
  <2>1. w * c \in Nat /\ w * f \in Nat
    BY <1>2
  <2> QED
    BY <1>2, <2>1
<1>5. v = w * g + a /\ v = w * h + d
  <2>1. v = a + b * w + c * (w * w) /\ v = d + e * w + f * (w * w)
    BY <1>1, <1>3 DEF Value
  <2>2. /\ w * (w * c + b) = w * b + w * (w * c) /\ w * (w * f + e) = w * e + w * (w * f)
        /\ w * b = b * w /\ w * e = e * w /\ w * (w * c) = c * (w * w) /\ w * (w * f) = f * (w * w)
        /\ w * b \in Nat /\ w * e \in Nat /\ w * (w * c) \in Nat /\ w * (w * f) \in Nat
    BY <1>2
  <2> QED
    BY <1>2, <1>4, <2>1, <2>2
<1>6. a = d /\ g = h
  <2>1. v \in Int /\ g \in Int /\ h \in Int /\ a \in Int /\ d \in Int /\ 0 <= a /\ 0 <= d
    BY <1>2
  <2>2. v \div w = g /\ v % w = a
    BY <1>2, <1>5, <2>1, QuotientIs
  <2>3. v \div w = h /\ v % w = d
    BY <1>2, <1>5, <2>1, QuotientIs
  <2> QED
    BY <2>2, <2>3
<1>7. b = e /\ c = f
  <2>1. g \in Int /\ b \in Int /\ c \in Int /\ e \in Int /\ f \in Int /\ 0 <= b /\ 0 <= e
    BY <1>2
  <2>2. g \div w = c /\ g % w = b
    BY <1>2, <1>4, <2>1, QuotientIs
  <2>3. g = w * f + e
    BY <1>4, <1>6
  <2>4. g \div w = f /\ g % w = e
    BY <1>2, <2>1, <2>3, QuotientIs
  <2> QED
    BY <2>2, <2>4
<1>8. \A i \in 1 .. 3 : r[i] = t[i]
  <2>1. r[1] = t[1] /\ r[2] = t[2] /\ r[3] = t[3]
    BY <1>1, <1>6, <1>7
  <2>2. \A i \in 1 .. 3 : i = 1 \/ i = 2 \/ i = 3
    OBVIOUS
  <2> QED
    BY <2>1, <2>2
<1> QED
  BY <1>8 DEF Triples

Wrapped(l, p, m, s, k) == s \in Nat /\ s < m /\ k \in {0, 1} /\ s + k * m = l + p

\* A wrapped sum below its second summand has wrapped.
LEMMA WrapShows ==
  ASSUME NEW m \in Nat, NEW l \in Nat, NEW p \in Nat, p < m, l < m,
         NEW s, s = (l + p) % m, NEW k, k = Bit(s < p)
  PROVE  Wrapped(l, p, m, s, k)
<1> USE DEF Wrapped
<1>1. s = (l + p) % m /\ k = Bit(s < p)
  OBVIOUS
<1>2. CASE l + p < m
  <2>1. s = l + p
    BY <1>1, <1>2
  <2>2. k = 0
    BY <1>1, <2>1 DEF Bit
  <2> QED
    BY <1>1, <1>2, <2>1, <2>2
<1>3. CASE l + p >= m
  <2>1. l + p = m * 1 + (l + p - m) /\ 0 <= l + p - m /\ l + p - m < m /\ l + p - m \in Int /\ l + p \in Int /\ m > 0
    BY <1>3
  <2>2. s = l + p - m
    BY <1>1, <2>1, 1 \in Int, QuotientIs
  <2>3. k = 1
    BY <1>1, <2>2 DEF Bit
  <2>4. s + 1 * m = l + p /\ s \in Nat /\ s < m
    BY <2>1, <2>2
  <2> QED
    BY <1>1, <2>3, <2>4
<1> QED
  BY <1>2, <1>3

\* Half a word, when the bits of a word are even.
LEMMA HalfWordIs ==
  ASSUME WordBits % 2 = 0
  PROVE  HalfW \in Nat /\ HalfW > 1 /\ W = HalfW * HalfW
<1>1. PICK k \in Nat : WordBits = k + k /\ WordBits \div 2 = k /\ k > 0
  <2>1. WordBits \in Nat /\ WordBits > 0
    BY WordIs
  <2>2. WordBits \div 2 \in Nat /\ WordBits = 2 * (WordBits \div 2)
    BY <2>1
  <2> QED
    BY <2>1, <2>2
<1>2. HalfW = Power(2, k) /\ W = Power(2, k + k)
  BY <1>1 DEF HalfW, W
<1>3. W = HalfW * HalfW
  BY <1>2, 2 \in Int, PowerPlus
<1>4. HalfW \in Nat /\ HalfW > 0
  BY <1>2, 2 \in Nat, 2 > 0, PowerPositive
<1>5. HalfW # 1
  BY <1>3, WordIs
<1> QED
  BY <1>3, <1>4, <1>5

\* Quotient and remainder of a natural number.
LEMMA DigitsOf ==
  ASSUME NEW v \in Nat, NEW d \in Nat, d > 0
  PROVE  v \div d \in Nat /\ v % d \in Nat /\ v % d < d /\ v = d * (v \div d) + (v % d)
<1>1. PICK q, r : q = v \div d /\ r = v % d
  OBVIOUS
<1>2. q \in Int /\ r \in 0 .. d - 1 /\ v = d * q + r
  <2>1. v \in Int
    OBVIOUS
  <2> QED
    BY <1>1, <2>1, QuotientRest
<1>3. q >= 0
  <2> SUFFICES ASSUME q <= -1
               PROVE  FALSE
    BY <1>2
  <2>1. PICK e \in Nat : q = -1 - e
    BY <1>2, -1 - q \in Nat
  <2>2. d * (-1 - e) = -d - d * e /\ d * e \in Nat
    OBVIOUS
  <2> QED
    BY <1>2, <2>1, <2>2
<1> QED
  BY <1>1, <1>2, <1>3

\* The four products of half words make the product of the words.
\* muladd_halves: the words p0 and p1 of the product.
HalfWordProduct(x, y) ==
    LET lo(v) == v % HalfW
        hi(v) == v \div HalfW
        i0 == lo(x) * lo(y)
        i1 == lo(x) * hi(y)
        i2 == (hi(x) * lo(y) + hi(i0) + i1) % W
        i3 == hi(x) * hi(y) + (IF i2 < i1 THEN HalfW ELSE 0)
    IN  <<(lo(i0) + i2 * HalfW) % W, i3 + hi(i2)>>

\* They are its low and its high word: i2 may wrap, and i3 gets what it loses.
LEMMA HalfProducts ==
  ASSUME WordBits % 2 = 0, NEW x \in Nat, x < W, NEW y \in Nat, y < W, NEW p0, NEW p1,
         HalfWordProduct(x, y) = <<p0, p1>>
  PROVE  p0 \in Nat /\ p0 < W /\ p1 \in Nat /\ p1 < W /\ p0 + p1 * W = x * y
<1>1. PICK i0 : i0 = (x % HalfW) * (y % HalfW)
  OBVIOUS
<1>2. PICK i1 : i1 = (x % HalfW) * (y \div HalfW)
  OBVIOUS
<1>3. PICK i2 : i2 = ((x \div HalfW) * (y % HalfW) + i0 \div HalfW + i1) % W
  OBVIOUS
<1>4. PICK i3 : i3 = (x \div HalfW) * (y \div HalfW) + (IF i2 < i1 THEN HalfW ELSE 0)
  OBVIOUS
<1>5. HalfWordProduct(x, y) = <<((i0 % HalfW) + i2 * HalfW) % W, i3 + (i2 \div HalfW)>>
  BY <1>1, <1>2, <1>3, <1>4 DEF HalfWordProduct
<1>6. p0 = ((i0 % HalfW) + i2 * HalfW) % W
  BY <1>5
<1>7. p1 = i3 + i2 \div HalfW
  BY <1>5
<1>8. PICK h \in Nat, w \in Nat : h = HalfW /\ w = W /\ w = h * h /\ h > 1 /\ h > 0 /\ w > 0
  BY HalfWordIs, WordIs
<1>9. PICK a, b, c, d : a = x % h /\ b = x \div h /\ c = y % h /\ d = y \div h
  OBVIOUS
<1>10. /\ a \in Nat /\ a < h /\ b \in Nat /\ x = h * b + a
       /\ c \in Nat /\ c < h /\ d \in Nat /\ y = h * d + c
  BY <1>8, <1>9, DigitsOf
<1>11. b < h /\ d < h
  <2>1. b * h < h * h /\ d * h < h * h
    <3>1. h * b = b * h /\ h * d = d * h /\ b * h \in Nat /\ d * h \in Nat /\ h * h \in Nat
      BY <1>8, <1>10
    <3> QED
      BY <1>8, <1>10, <3>1
  <2> QED
    BY <1>8, <1>10, <2>1, FactorLess
<1>12. PICK e, f : e = i0 \div h /\ f = i0 % h
  OBVIOUS
<1>13. i0 = a * c /\ i0 \in Nat /\ i0 + 2 * h <= w + 1
  <2>1. i0 = a * c
    BY <1>1, <1>8, <1>9
  <2> QED
    BY <1>8, <1>10, <2>1, ProductBelow
<1>14. e \in Nat /\ f \in Nat /\ f < h /\ i0 = h * e + f
  BY <1>8, <1>12, <1>13, DigitsOf
<1>15. e < h
  <2>1. e * h < h * h
    <3>1. h * e = e * h /\ e * h \in Nat /\ h * h \in Nat
      BY <1>8, <1>14
    <3> QED
      BY <1>8, <1>13, <1>14, <3>1
  <2> QED
    BY <1>8, <1>14, <2>1, FactorLess
<1>16. i1 = a * d /\ i1 \in Nat /\ i1 + 2 * h <= w + 1
  <2>1. i1 = a * d
    BY <1>2, <1>8, <1>9
  <2> QED
    BY <1>8, <1>10, <1>11, <2>1, ProductBelow
<1>17. PICK j \in Nat : j = b * c + e /\ j < w
  <2>1. b * c \in Nat /\ b * c + 2 * h <= w + 1
    BY <1>8, <1>10, <1>11, ProductBelow
  <2>2. b * c + e < w /\ b * c + e \in Nat
    BY <1>8, <1>14, <1>15, <2>1
  <2> QED
    BY <2>2
<1>18. PICK o : o = Bit(i2 < i1)
  OBVIOUS
<1>19. i2 = (j + i1) % w
  BY <1>3, <1>8, <1>9, <1>12, <1>17
<1>20. i2 \in Nat /\ i2 < w /\ o \in {0, 1} /\ i2 + o * w = j + i1
  <2>1. i1 < w
    BY <1>8, <1>16
  <2> QED
    <3>1. Wrapped(j, i1, w, i2, o)
      BY <1>8, <1>16, <1>17, <1>18, <1>19, <2>1, WrapShows
    <3> QED
      BY <3>1 DEF Wrapped
<1>21. i3 = b * d + o * h
  <2>1. i3 = b * d + (IF i2 < i1 THEN h ELSE 0)
    BY <1>4, <1>8, <1>9
  <2>2. CASE i2 < i1
    <3>1. o = 1 /\ 1 * h = h
      BY <1>8, <1>18, <2>2 DEF Bit
    <3> QED
      BY <2>1, <2>2, <3>1
  <2>3. CASE ~(i2 < i1)
    <3>1. o = 0 /\ 0 * h = 0
      BY <1>8, <1>18, <2>3 DEF Bit
    <3> QED
      BY <2>1, <2>3, <3>1
  <2> QED
    BY <2>2, <2>3
<1>22. PICK q, u : q = i2 \div h /\ u = i2 % h
  OBVIOUS
<1>23. q \in Nat /\ u \in Nat /\ u < h /\ i2 = h * q + u
  BY <1>8, <1>20, <1>22, DigitsOf
<1>24. p0 = f + u * h /\ p0 \in Nat /\ p0 < w
  <2>1. i2 * h = w * q + u * h /\ u * h \in Nat
    <3>1. (h * q + u) * h = (h * h) * q + u * h
      BY <1>8, <1>23
    <3> QED
      BY <1>8, <1>23, <3>1
  <2>2. u * h + h <= w
    <3>1. u + 1 <= h /\ u + 1 \in Nat
      BY <1>8, <1>23
    <3>2. (u + 1) * h <= h * h
      BY <1>8, <3>1, LessByFactor
    <3>3. (u + 1) * h = u * h + h
      BY <1>8, <1>23
    <3> QED
      BY <1>8, <3>2, <3>3
  <2>3. f + i2 * h = w * q + (f + u * h) /\ 0 <= f + u * h /\ f + u * h < w /\ f + u * h \in Int /\ f + i2 * h \in Int
    <3>1. w * q \in Nat
      BY <1>8, <1>23
    <3> QED
      BY <1>8, <1>14, <1>23, <2>1, <2>2, <3>1
  <2>4. w > 0 /\ q \in Int
    BY <1>8, <1>23
  <2>5. (f + i2 * h) % w = f + u * h
    <3>1. PICK g \in Int, z \in Int : g = f + i2 * h /\ z = f + u * h
      BY <2>3
    <3>2. g = w * q + z /\ 0 <= z /\ z < w
      BY <2>3, <3>1
    <3>3. g % w = z
      BY <1>8, <2>4, <3>2, QuotientIs
    <3> QED
      BY <3>1, <3>3
  <2>6. p0 = (f + i2 * h) % w
    BY <1>6, <1>8, <1>12
  <2> QED
    BY <1>14, <2>1, <2>3, <2>5, <2>6
<1>25. p1 = b * d + o * h + q
  BY <1>7, <1>8, <1>21, <1>22
<1>26. p1 \in Nat
  <2>1. b * d \in Nat /\ o * h \in Nat
    BY <1>8, <1>10, <1>20
  <2> QED
    BY <1>23, <1>25, <2>1
<1>27. p0 + p1 * w = x * y
  <2>1. x * y = (h * b + a) * (h * d + c)
    BY <1>10
  <2>2. (h * b + a) * (h * d + c) = w * (b * d) + h * (b * c) + h * (a * d) + a * c
    <3>1. (h * b) * (h * d) = (h * h) * (b * d) /\ (h * b) * c = h * (b * c) /\ a * (h * d) = h * (a * d)
      BY <1>8, <1>10
    <3>2. (h * b + a) * (h * d + c) = (h * b) * (h * d) + (h * b) * c + a * (h * d) + a * c
      <4>1. h * b \in Nat /\ h * d \in Nat
        BY <1>8, <1>10
      <4> QED
        BY <1>10, <4>1
    <3> QED
      BY <1>8, <3>1, <3>2
  <2>3. h * (j + i1) = h * (b * c) + h * e + h * (a * d)
    <3>1. b * c \in Nat /\ a * d \in Nat
      BY <1>10
    <3> QED
      BY <1>8, <1>14, <1>16, <1>17, <3>1
  <2>4. h * (i2 + o * w) = h * i2 + h * (o * w) /\ h * i2 = w * q + u * h /\ h * (o * w) = (o * h) * w
    <3>1. h * (i2 + o * w) = h * i2 + h * (o * w) /\ h * (o * w) = (o * h) * w
      BY <1>8, <1>20
    <3>2. h * (h * q + u) = (h * h) * q + u * h
      BY <1>8, <1>23
    <3> QED
      BY <1>8, <1>23, <3>1, <3>2
  <2>5. (b * d + o * h + q) * w = w * (b * d) + (o * h) * w + w * q
    <3>1. b * d \in Nat /\ o * h \in Nat
      BY <1>8, <1>10, <1>20
    <3> QED
      BY <1>8, <1>23, <3>1
  <2>6. /\ w * (b * d) \in Nat /\ h * (b * c) \in Nat /\ h * (a * d) \in Nat /\ a * c \in Nat
        /\ h * e \in Nat /\ w * q \in Nat /\ u * h \in Nat /\ (o * h) * w \in Nat
    <3>1. b * d \in Nat /\ b * c \in Nat /\ a * d \in Nat /\ o * h \in Nat
      BY <1>8, <1>10, <1>20
    <3> QED
      BY <1>8, <1>10, <1>14, <1>23, <3>1
  <2>7. p0 + p1 * w = f + u * h + (w * (b * d) + (o * h) * w + w * q)
    BY <1>24, <1>25, <2>5
  <2>8. w * q + u * h + (o * h) * w = h * (b * c) + h * e + h * (a * d)
    BY <1>20, <2>3, <2>4
  <2>9. a * c = h * e + f
    BY <1>13, <1>14
  <2> QED
    BY <1>14, <2>1, <2>2, <2>6, <2>7, <2>8, <2>9
<1>28. p1 < w
  <2>1. x * y \in Nat /\ x * y + 2 * w <= w * w + 1
    BY <1>8, ProductBelow
  <2>2. p1 * w < w * w /\ p1 * w \in Nat
    <3>1. p1 * w \in Nat /\ w * w \in Nat /\ w > 1
      BY <1>8, <1>26, WordIs
    <3> QED
      BY <1>8, <1>24, <1>27, <2>1, <3>1
  <2> QED
    BY <1>8, <1>26, <2>2, FactorLess
<1> QED
  BY <1>8, <1>24, <1>26, <1>27, <1>28

\* The build without a double word adds the same.
LEMMA HalvesAre ==
  ASSUME WordBits % 2 = 0, NEW x \in Nat, x < W, NEW y \in Nat, y < W, NEW r \in Triples,
         r[3] < W - 1
  PROVE  muladd_halves(x, y, r) = muladd(x, y, r)
<1>1. PICK p, q : HalfWordProduct(x, y) = <<p, q>>
  BY DEF HalfWordProduct
<1>2. p \in Nat /\ p < W /\ q \in Nat /\ q < W /\ p + q * W = x * y
  BY <1>1, HalfProducts
<1>3. PICK w, a, b, c : w = W /\ a = r[1] /\ b = r[2] /\ c = r[3]
  OBVIOUS
<1>4. PICK s : s = (a + p) % w
  OBVIOUS
<1>5. PICK k : k = Bit(s < p)
  OBVIOUS
<1>6. PICK t : t = (b + q + k) % w
  OBVIOUS
<1>7. PICK l : l = Bit(t < q \/ (t = q /\ s < p))
  OBVIOUS
<1>8. muladd_halves(x, y, r) = <<s, t, (c + l) % w>>
  BY <1>1, <1>3, <1>4, <1>5, <1>6, <1>7 DEF muladd_halves, HalfWordProduct
<1>9. /\ w \in Nat /\ w > 1 /\ a \in Nat /\ a < w /\ b \in Nat /\ b < w /\ c \in Nat /\ c < w - 1
      /\ p \in Nat /\ p < w /\ q \in Nat /\ q < w /\ p + q * w = x * y
  BY <1>2, <1>3, WordIs, ValueIs
<1>10. s \in Nat /\ s < w /\ k \in {0, 1} /\ s + k * w = a + p /\ (k = 1 <=> s < p)
  <2>1. s \in Nat /\ s < w /\ k \in {0, 1} /\ s + k * w = a + p
    <3>1. Wrapped(a, p, w, s, k)
      BY <1>4, <1>5, <1>9, WrapShows
    <3> QED
      BY <3>1 DEF Wrapped
  <2> QED
    BY <1>5, <2>1 DEF Bit
<1>11. t \in Nat /\ t < w /\ l \in {0, 1} /\ t + l * w = b + q + k
  <2>1. CASE b + q + k < w
    <3>1. t = b + q + k
      BY <1>6, <1>9, <1>10, <2>1
    <3>2. l = 0
      BY <1>7, <1>9, <1>10, <3>1 DEF Bit
    <3> QED
      BY <1>9, <1>10, <2>1, <3>1, <3>2
  <2>2. CASE b + q + k >= w
    <3>1. b + q + k = w * 1 + (b + q + k - w) /\ 0 <= b + q + k - w /\ b + q + k - w < w
      BY <1>9, <1>10, <2>2
    <3>2. b + q + k \in Int /\ b + q + k - w \in Int /\ w > 0
      BY <1>9, <1>10
    <3>3. t = b + q + k - w
      BY <1>6, <1>9, <3>1, <3>2, 1 \in Int, QuotientIs
    <3>4. l = 1
      BY <1>7, <1>9, <1>10, <3>3 DEF Bit
    <3> QED
      BY <1>9, <1>10, <2>2, <3>1, <3>3, <3>4
  <2> QED
    BY <1>9, <1>10, <2>1, <2>2
<1>12. (c + l) % w = c + l /\ c + l \in Nat /\ c + l < w
  BY <1>9, <1>11
<1>13. PICK z : z = <<s, t, c + l>>
  OBVIOUS
<1>14. muladd_halves(x, y, r) = z
  BY <1>8, <1>12, <1>13
<1>15. z \in Triples
  <2>1. s \in 0 .. W - 1 /\ t \in 0 .. W - 1 /\ c + l \in 0 .. W - 1
    BY <1>3, <1>9, <1>10, <1>11, <1>12
  <2> QED
    BY <1>13, <2>1 DEF Triples
<1>16. Value(z) = s + t * w + (c + l) * (w * w)
  BY <1>3, <1>13 DEF Value
<1>17. Value(r) = a + b * w + c * (w * w)
  BY <1>3 DEF Value
<1>18. Value(z) = Value(r) + x * y
  <2>1. PICK m \in Nat : m = w * w
    BY <1>9
  <2>2. (c + l) * m = c * m + l * m /\ c * m \in Nat /\ l * m \in Nat
    BY <1>9, <1>11, <2>1
  <2>3. (t + l * w) * w = t * w + l * m
    BY <1>9, <1>11, <2>1
  <2>4. (b + q + k) * w = b * w + q * w + k * w /\ b * w \in Nat /\ q * w \in Nat /\ k * w \in Nat /\ t * w \in Nat
    BY <1>9, <1>10, <1>11
  <2> QED
    BY <1>9, <1>10, <1>11, <1>16, <1>17, <2>1, <2>2, <2>3, <2>4
<1>19. Value(r) + x * y < w * (w * w)
  <2>1. x * y \in Nat /\ x * y + 2 * w <= w * w + 1
    BY <1>3, <1>9, ProductBelow
  <2>2. PICK m \in Nat : m = w * w
    BY <1>9
  <2>3. b * w + a < m /\ b * w + a \in Nat
    BY <1>3, <2>2, ValueIs
  <2>4. c + 2 <= w /\ c + 2 \in Nat
    BY <1>9
  <2>5. (c + 2) * m <= w * m
    BY <1>9, <2>2, <2>4, LessByFactor
  <2>6. (c + 2) * m = c * m + 2 * m /\ c * m \in Nat
    BY <1>9, <2>2
  <2>7. b * w \in Nat
    BY <1>9
  <2> QED
    BY <1>9, <1>17, <2>1, <2>2, <2>3, <2>5, <2>6, <2>7
<1>20. PICK v : v = muladd(x, y, r)
  OBVIOUS
<1>21. v \in Triples /\ Value(v) = Value(r) + x * y
  BY <1>3, <1>19, <1>20, MulAddIs
<1> QED
  BY <1>14, <1>15, <1>18, <1>20, <1>21, SameTriple

-----------------------------------------------------------------------------
(* Arrays for numbers, and arithmetic modulo a number.                      *)

\* The lowest words of an array.
LEMMA PrefixIs ==
  ASSUME NEW len \in Nat, NEW a, a \in Vli(len), NEW k \in 0 .. len, NEW o, o = SubSeq(a, 1, k)
  PROVE  o \in Vli(k) /\ (\A i \in 1 .. k : o[i] = a[i]) /\ Number(o) = Lowest(a, k)
<1>1. k \in Nat /\ \A i \in 1 .. k : i \in 1 .. len
  OBVIOUS
<1>2. \A i \in 1 .. k : a[i] \in 0 .. W - 1
  BY <1>1, WordsAre
<1>3. o \in Seq(0 .. W - 1) /\ Len(o) = k /\ \A i \in 1 .. k : o[i] = a[i]
  <2>1. 1 \in Int /\ k \in Int
    BY <1>1
  <2>2. o \in Seq(0 .. W - 1) /\ Len(o) = (IF 1 <= k THEN k - 1 + 1 ELSE 0) /\ \A i \in 1 .. k - 1 + 1 : o[i] = a[1 + i - 1]
    BY <1>2, <2>1, SubSeqProperties
  <2>3. (IF 1 <= k THEN k - 1 + 1 ELSE 0) = k /\ k - 1 + 1 = k /\ \A i \in 1 .. k : 1 + i - 1 = i
    BY <1>1
  <2> QED
    BY <2>2, <2>3
<1>4. o \in Vli(k)
  BY <1>3, LenProperties DEF Vli
<1> DEFINE T == {j \in 0 .. k : Lowest(o, j) = Lowest(a, j)}
<1>5. 0 \in T
  BY <1>1, <1>4, LowestIs
<1>6. ASSUME NEW j \in 0 .. k - 1, j \in T
      PROVE  j + 1 \in T
  <2>1. j \in 0 .. len - 1 /\ j + 1 \in 0 .. k /\ j + 1 \in 1 .. k
    BY <1>1
  <2>2. Lowest(o, j + 1) = Lowest(o, j) + o[j + 1] * Place(j)
    BY <1>1, <1>4, LowestIs
  <2>3. Lowest(a, j + 1) = Lowest(a, j) + a[j + 1] * Place(j)
    BY <2>1, LowestIs
  <2> QED
    BY <1>3, <1>6, <2>1, <2>2, <2>3
<1> HIDE DEF T
<1>7. k \in T
  <2>1. \A j \in 0 .. k : j \in T
    BY <1>1, <1>5, <1>6, UpToInduction
  <2> QED
    BY <1>1, <2>1
<1> QED
  BY <1>1, <1>3, <1>4, <1>7, LowestIs DEF T

\* The words of a number make the number.
LEMMA WordsMake ==
  ASSUME NEW len \in Nat, NEW v \in Nat, NEW o, o = Words(v, len)
  PROVE  o \in Vli(len) /\ (v < Place(len) => Number(o) = v)
<1> DEFINE f == [i \in 1 .. len |-> (v \div Place(i - 1)) % W]
<1>1. \A i \in 1 .. len : i - 1 \in Nat
  OBVIOUS
<1>2. ASSUME NEW k \in Nat
      PROVE  /\ v \div Place(k) \in Nat
             /\ \E l \in Nat : l < Place(k) /\ v = Place(k) * (v \div Place(k)) + l
  BY PlaceIs, DigitsOf
<1>3. f \in [1 .. len -> 0 .. W - 1]
  <2> SUFFICES ASSUME NEW i \in 1 .. len
               PROVE  (v \div Place(i - 1)) % W \in 0 .. W - 1
    OBVIOUS
  <2>1. PICK q \in Nat : q = v \div Place(i - 1)
    BY <1>1, <1>2
  <2> QED
    BY <2>1, WordIs
<1>4. f \in Seq(0 .. W - 1) /\ Len(f) = len
  BY <1>3, FunctionIsSeq
<1>5. o = SubSeq(f, 1, len)
  BY DEF Words, Array, Place
<1> HIDE DEF f
<1>6. o = f
  BY <1>4, <1>5, SubSeqFull
<1>7. o \in Vli(len) /\ \A k \in 0 .. len - 1 : o[k + 1] = (v \div Place(k)) % W
  <2>1. o \in Vli(len)
    BY <1>3, <1>6 DEF Vli
  <2>2. ASSUME NEW k \in 0 .. len - 1
        PROVE  o[k + 1] = (v \div Place(k)) % W
    <3>1. k + 1 \in 1 .. len /\ (k + 1) - 1 = k
      OBVIOUS
    <3> QED
      BY <1>6, <3>1 DEF f
  <2> QED
    BY <2>1, <2>2
<1> DEFINE T == {k \in 0 .. len : Lowest(o, k) + Place(k) * (v \div Place(k)) = v}
<1>8. 0 \in T
  <2>1. Place(0) = 1 /\ v \div 1 = v /\ 1 * v = v
    BY PlaceIs
  <2> QED
    BY <1>7, <2>1, LowestIs
<1>9. ASSUME NEW k \in 0 .. len - 1, k \in T
      PROVE  k + 1 \in T
  <2>1. k \in Nat /\ k + 1 \in 0 .. len
    OBVIOUS
  <2>2. PICK p, w, q, l, d, e : /\ p = Place(k) /\ w = W /\ q = v \div p /\ l = Lowest(o, k)
                                /\ d = q % w /\ e = q \div w
    OBVIOUS
  <2>3. /\ p \in Nat /\ p > 0 /\ w \in Nat /\ w > 1 /\ w > 0 /\ Place(k + 1) = w * p
        /\ l \in Nat /\ l < p /\ q \in Nat
    BY <1>2, <1>7, <2>1, <2>2, PlaceIs, WordIs, LowestBelow
  <2>4. d \in Nat /\ d < w /\ e \in Nat /\ q = w * e + d
    BY <2>2, <2>3, DigitsOf
  <2>5. v = l + p * q
    BY <1>9, <2>2
  <2>6. Lowest(o, k + 1) = l + d * p
    BY <1>7, <2>2, LowestIs
  <2>7. PICK m \in Nat : m = w * p /\ m > 0
    BY <2>3
  <2>8. p * q = m * e + d * p /\ d * p \in Nat /\ m * e \in Nat
    <3>1. p * (w * e + d) = (w * p) * e + d * p
      BY <2>3, <2>4
    <3> QED
      BY <2>3, <2>4, <2>7, <3>1
  <2>9. d * p + p <= m
    <3>1. d + 1 <= w /\ d + 1 \in Nat
      BY <2>3, <2>4
    <3>2. (d + 1) * p <= w * p
      BY <2>3, <3>1, LessByFactor
    <3>3. (d + 1) * p = d * p + p
      BY <2>3, <2>4
    <3> QED
      BY <2>7, <3>2, <3>3
  <2>10. v = m * e + (l + d * p) /\ 0 <= l + d * p /\ l + d * p < m /\ l + d * p \in Int /\ v \in Int /\ e \in Int
    BY <2>3, <2>4, <2>5, <2>7, <2>8, <2>9
  <2>11. v \div m = e
    <3>1. PICK z \in Int : z = l + d * p
      BY <2>10
    <3>2. v = m * e + z /\ 0 <= z /\ z < m
      BY <2>10, <3>1
    <3> QED
      BY <2>7, <2>10, <3>2, QuotientIs
  <2>12. Lowest(o, k + 1) + m * (v \div m) = v
    BY <2>6, <2>10, <2>11, <2>7, <2>8, <2>3
  <2> QED
    BY <2>1, <2>3, <2>7, <2>12
<1> HIDE DEF T
<1>10. len \in T
  BY <1>8, <1>9, UpToInduction
<1>11. ASSUME v < Place(len)
       PROVE  Number(o) = v
  <2>1. PICK p : p = Place(len)
    OBVIOUS
  <2>2. p \in Nat /\ v < p
    BY <1>11, <2>1, PlaceIs
  <2>3. v \div p = 0 /\ p * 0 = 0
    BY <2>2
  <2>4. Lowest(o, len) + p * (v \div p) = v
    BY <1>10, <2>1 DEF T
  <2>5. Number(o) = Lowest(o, len) /\ Lowest(o, len) \in Int
    BY <1>7, LowestIs
  <2> QED
    BY <2>3, <2>4, <2>5
<1> QED
  BY <1>7, <1>11

\* ecdsa_vli_modAdd adds modulo mod, whether the sum has a carry or not.
LEMMA ModAddIs ==
  ASSUME NEW len \in Nat, NEW a, a \in Vli(len), NEW b, b \in Vli(len), NEW mod, mod \in Vli(len),
         Number(a) < Number(mod), Number(b) < Number(mod), NEW r, r = ecdsa_vli_modAdd(a, b, mod)
  PROVE  r \in Vli(len) /\ Number(r) = (Number(a) + Number(b)) % Number(mod)
<1>1. PICK x, y, m, p : x = Number(a) /\ y = Number(b) /\ m = Number(mod) /\ p = Place(len)
  OBVIOUS
<1>2. x \in Nat /\ y \in Nat /\ m \in Nat /\ p \in Nat /\ x < m /\ y < m /\ m < p
  BY <1>1, NumberIs, PlaceIs
<1>3. PICK sum : sum = ecdsa_vli_add(a, b)
  OBVIOUS
<1>4. PICK s, c : s = Number(sum.out) /\ c = sum.carry
  OBVIOUS
<1>5. sum.out \in Vli(len) /\ c \in {0, 1} /\ s + c * p = x + y
  BY <1>1, <1>3, <1>4, AddIs
<1>6. s \in Nat /\ s < p
  BY <1>1, <1>4, <1>5, NumberIs
<1>7. ecdsa_vli_cmp_unsafe(mod, sum.out) = IF m > s THEN 1 ELSE IF m < s THEN -1 ELSE 0
  BY <1>1, <1>4, <1>5, UnsafeIs
<1>8. CASE c = 1 \/ s >= m
  <2>1. r = ecdsa_vli_sub(sum.out, mod).out
    <3>1. sum.carry = 1 \/ ecdsa_vli_cmp_unsafe(mod, sum.out) # 1
      BY <1>2, <1>4, <1>6, <1>7, <1>8
    <3> QED
      BY <1>3, <3>1 DEF ecdsa_vli_modAdd
  <2>2. PICK d, z : d = ecdsa_vli_sub(sum.out, mod).carry /\ z = Number(r)
    OBVIOUS
  <2>3. r \in Vli(len) /\ d \in {0, 1} /\ z - d * p = s - m
    BY <1>1, <1>4, <1>5, <2>1, <2>2, SubIs
  <2>4. z \in Nat /\ z < p
    BY <1>1, <2>2, <2>3, NumberIs
  <2>5. z = x + y - m /\ x + y >= m
    BY <1>2, <1>5, <1>6, <1>8, <2>3, <2>4
  <2>6. x + y = m * 1 + z /\ 0 <= z /\ z < m /\ z \in Int /\ x + y \in Int /\ m > 0
    BY <1>2, <2>4, <2>5
  <2>7. (x + y) % m = z
    BY <1>2, <2>6, 1 \in Int, QuotientIs
  <2> QED
    BY <1>1, <2>2, <2>3, <2>7
<1>9. CASE c = 0 /\ s < m
  <2>1. r = sum.out
    <3>1. sum.carry # 1 /\ ecdsa_vli_cmp_unsafe(mod, sum.out) = 1
      BY <1>2, <1>4, <1>6, <1>7, <1>9
    <3> QED
      BY <1>3, <3>1 DEF ecdsa_vli_modAdd
  <2>2. s = x + y /\ (x + y) % m = x + y
    BY <1>2, <1>5, <1>6, <1>9
  <2> QED
    BY <1>1, <1>4, <1>5, <2>1, <2>2
<1> QED
  BY <1>2, <1>5, <1>6, <1>8, <1>9

\* ecdsa_vli_modSub subtracts modulo mod.
LEMMA ModSubIs ==
  ASSUME NEW len \in Nat, NEW a, a \in Vli(len), NEW b, b \in Vli(len), NEW mod, mod \in Vli(len),
         Number(a) < Number(mod), Number(b) < Number(mod), NEW r, r = ecdsa_vli_modSub(a, b, mod)
  PROVE  r \in Vli(len) /\ Number(r) = (Number(a) - Number(b)) % Number(mod)
<1>1. PICK x, y, m, p : x = Number(a) /\ y = Number(b) /\ m = Number(mod) /\ p = Place(len)
  OBVIOUS
<1>2. x \in Nat /\ y \in Nat /\ m \in Nat /\ p \in Nat /\ x < m /\ y < m /\ m < p
  BY <1>1, NumberIs, PlaceIs
<1>3. PICK diff : diff = ecdsa_vli_sub(a, b)
  OBVIOUS
<1>4. PICK s, c : s = Number(diff.out) /\ c = diff.carry
  OBVIOUS
<1>5. diff.out \in Vli(len) /\ c \in {0, 1} /\ s - c * p = x - y
  BY <1>1, <1>3, <1>4, SubIs
<1>6. s \in Nat /\ s < p
  BY <1>1, <1>4, <1>5, NumberIs
<1>7. CASE c = 1
  <2>1. r = ecdsa_vli_add(diff.out, mod).out
    BY <1>3, <1>4, <1>7 DEF ecdsa_vli_modSub
  <2>2. PICK d, z : d = ecdsa_vli_add(diff.out, mod).carry /\ z = Number(r)
    OBVIOUS
  <2>3. r \in Vli(len) /\ d \in {0, 1} /\ z + d * p = s + m
    BY <1>1, <1>4, <1>5, <2>1, <2>2, AddIs
  <2>4. z \in Nat /\ z < p
    BY <1>1, <2>2, <2>3, NumberIs
  <2>5. z = x - y + m /\ x < y
    BY <1>2, <1>5, <1>6, <1>7, <2>3, <2>4
  <2>6. x - y = m * (-1) + z /\ 0 <= z /\ z < m /\ z \in Int /\ x - y \in Int /\ m > 0
    BY <1>2, <2>4, <2>5
  <2>7. (x - y) % m = z
    BY <1>2, <2>6, -1 \in Int, QuotientIs
  <2> QED
    BY <1>1, <2>2, <2>3, <2>7
<1>8. CASE c = 0
  <2>1. r = diff.out
    BY <1>3, <1>4, <1>8 DEF ecdsa_vli_modSub
  <2>2. s = x - y /\ (x - y) % m = x - y
    BY <1>2, <1>5, <1>6, <1>8
  <2> QED
    BY <1>1, <1>4, <1>5, <2>1, <2>2
<1> QED
  BY <1>5, <1>7, <1>8

\* The loop of ecdsa_vli_mmod, round after round.
MmodStates(len) == [v : Vli(len), m : Vli(len)]

MmodAfter(rounds, t) == After(rounds, t, LAMBDA s, i : MmodRound(s))

MmodRun(f, rounds, t) ==
    /\ f[0] = t /\ \A i \in 1 .. rounds : f[i] = MmodRound(f[i - 1])
    /\ MmodAfter(rounds, t) = f[rounds]

\* A round takes off the shifted modulus, or nothing.
LEMMA MmodRoundIs ==
  ASSUME NEW len \in Nat, NEW t \in MmodStates(len), NEW u, u = MmodRound(t)
  PROVE  /\ u \in MmodStates(len) /\ Number(u.m) = Number(t.m) \div 2
         /\ Number(u.v) = IF Number(t.v) < Number(t.m) THEN Number(t.v) ELSE Number(t.v) - Number(t.m)
<1>1. t.v \in Vli(len) /\ t.m \in Vli(len)
  BY DEF MmodStates
<1>2. PICK diff : diff = ecdsa_vli_sub(t.v, t.m)
  OBVIOUS
<1>3. PICK x, y, z, c, p : x = Number(t.v) /\ y = Number(t.m) /\ z = Number(diff.out) /\ c = diff.carry /\ p = Place(len)
  OBVIOUS
<1>4. diff.out \in Vli(len) /\ c \in {0, 1} /\ z - c * p = x - y
  BY <1>1, <1>2, <1>3, SubIs
<1>5. x \in Nat /\ y \in Nat /\ z \in Nat /\ z < p /\ p \in Nat
  BY <1>1, <1>3, <1>4, NumberIs, PlaceIs
<1>6. PICK half : half = ecdsa_vli_rshift1(t.m)
  OBVIOUS
<1>7. half \in Vli(len) /\ Number(half) = y \div 2
  BY <1>1, <1>3, <1>6, HalfIs
<1>8. u = [v |-> IF c = 1 THEN t.v ELSE diff.out, m |-> half]
  BY <1>2, <1>3, <1>6 DEF MmodRound
<1>9. CASE c = 1
  <2>1. x < y
    BY <1>4, <1>5, <1>9
  <2>2. u.v = t.v /\ u.m = half /\ u \in MmodStates(len)
    BY <1>1, <1>7, <1>8, <1>9 DEF MmodStates
  <2>3. Number(u.v) = x /\ Number(u.m) = y \div 2
    BY <1>3, <1>7, <2>2
  <2>4. (IF x < y THEN x ELSE x - y) = x
    BY <2>1
  <2> QED
    BY <1>3, <2>2, <2>3, <2>4
<1>10. CASE c = 0
  <2>1. x >= y /\ z = x - y
    BY <1>4, <1>5, <1>10
  <2>2. u.v = diff.out /\ u.m = half /\ u \in MmodStates(len)
    BY <1>4, <1>7, <1>8, <1>10 DEF MmodStates
  <2>3. Number(u.v) = z /\ Number(u.m) = y \div 2
    BY <1>3, <1>7, <2>2
  <2>4. (IF x < y THEN x ELSE x - y) = z
    BY <1>5, <2>1
  <2> QED
    BY <1>3, <2>2, <2>3, <2>4
<1> QED
  BY <1>4, <1>9, <1>10

\* The recursion of the loop.
LEMMA MmodLoop ==
  ASSUME NEW len \in Nat, NEW t \in MmodStates(len), NEW rounds \in Nat
  PROVE  \E f \in [0 .. rounds -> MmodStates(len)] : MmodRun(f, rounds, t)
<1> DEFINE next(i, v) == MmodRound(v)
           S == MmodStates(len)
           start == t
           K == rounds
           g == [q \in (1 .. K) \X S |-> next(q[1], q[2])]
           Body(c) == [i \in 0 .. K |-> IF i = 0 THEN start ELSE next(i, c[i - 1])]
           s == CHOOSE c : c = Body(c)
<1>1. K \in Nat
  OBVIOUS
<1>2. start \in S
  OBVIOUS
<1>3. \A i \in 1 .. K, v \in S : next(i, v) \in S
  BY MmodRoundIs
<1>4. MmodAfter(rounds, t) = s[K]
  BY DEF MmodAfter, After
<1>5. g \in [(1 .. K) \X S -> S] /\ \A i \in 1 .. K, v \in S : g[<<i, v>>] = next(i, v)
  BY <1>3
<1> HIDE DEF g, next, S, start, K
<1>6. PICK h \in [0 .. K -> S] : Stepwise(h, K, start, g)
  BY <1>1, <1>2, <1>5, Recursion, Zenon
<1>7. ASSUME NEW i \in 1 .. K
      PROVE  h[i] = next(i, h[i - 1])
  <2>1. i - 1 \in 0 .. K
    BY <1>1
  <2>2. h[i - 1] \in S
    BY <2>1
  <2>3. g[<<i, h[i - 1]>>] = next(i, h[i - 1])
    BY <1>5, <2>2, Zenon
  <2>4. h[i] = g[<<i, h[i - 1]>>]
    BY <1>6, Zenon DEF Stepwise
  <2> QED
    BY <2>3, <2>4, Zenon
<1>8. h = Body(h)
  <2>1. h[0] = start
    BY <1>6 DEF Stepwise
  <2> QED
    BY <1>1, <1>7, <2>1
<1>9. s = Body(s)
  BY <1>8
<1> HIDE DEF s
<1>10. s[0] = start /\ \A i \in 1 .. K : s[i] = next(i, s[i - 1])
  <2>1. 0 \in 0 .. K /\ \A i \in 1 .. K : i \in 0 .. K /\ i # 0
    BY <1>1
  <2> QED
    BY <1>9, <2>1
<1> DEFINE T == {i \in 0 .. K : s[i] \in S}
<1>11. 0 \in T
  BY <1>1, <1>2, <1>10
<1>12. ASSUME NEW i \in 0 .. K - 1, i \in T
       PROVE  i + 1 \in T
  <2>1. i + 1 \in 1 .. K /\ i + 1 \in 0 .. K /\ (i + 1) - 1 = i
    BY <1>1
  <2>2. s[i + 1] = next(i + 1, s[i]) /\ s[i] \in S
    BY <1>10, <1>12, <2>1
  <2>3. g[<<i + 1, s[i]>>] = next(i + 1, s[i]) /\ g[<<i + 1, s[i]>>] \in S
    BY <1>5, <2>1, <2>2
  <2> QED
    BY <2>1, <2>2, <2>3
<1> HIDE DEF T
<1>13. \A i \in 0 .. K : i \in T
  BY <1>1, <1>11, <1>12, UpToInduction
<1>14. s[0] = start /\ (\A i \in 1 .. K : s[i] = next(i, s[i - 1])) /\ \A i \in 0 .. K : s[i] \in S
  BY <1>10, <1>13 DEF T
<1>15. s \in [0 .. rounds -> MmodStates(len)]
  BY <1>9, <1>14 DEF K, S
<1> QED
  BY <1>4, <1>14, <1>15 DEF K, start, next, MmodRun

\* Higher words do not have smaller places.
LEMMA PlacesGrow ==
  ASSUME NEW k \in Nat, NEW j \in Nat, k <= j
  PROVE  Place(k) <= Place(j)
<1>1. PICK d \in Nat : j = k + d
  BY j - k \in Nat
<1>2. W \in Int /\ W \in Nat /\ W > 0
  BY WordIs
<1>3. PICK x \in Nat, y \in Nat : x = Power(W, k) /\ y = Power(W, d) /\ y > 0
  BY <1>2, PowerPositive
<1>4. Power(W, k + d) = x * y
  BY <1>2, <1>3, PowerPlus
<1>5. x * 1 <= x * y
  BY <1>3, 1 <= y, LessByFactor
<1> QED
  BY <1>1, <1>3, <1>4, <1>5 DEF Place

\* Words on top add to a number.
LEMMA LowestGrows ==
  ASSUME NEW len \in Nat, NEW a, a \in Vli(len), NEW k \in 0 .. len
  PROVE  Lowest(a, k) <= Number(a)
<1> DEFINE d == len - k
           T == {j \in 0 .. d : Lowest(a, k) <= Lowest(a, k + j)}
<1>1. d \in Nat /\ k + 0 = k /\ k + d = len /\ k \in Nat
  OBVIOUS
<1>2. 0 \in T
  BY <1>1, LowestBelow
<1>3. ASSUME NEW j \in 0 .. d - 1, j \in T
      PROVE  j + 1 \in T
  <2>1. PICK i \in 0 .. len - 1 : i = k + j /\ k + (j + 1) = i + 1 /\ i + 1 \in 1 .. len /\ i \in 0 .. len /\ i \in Nat /\ j + 1 \in 0 .. d
    BY <1>1
  <2>2. Lowest(a, i + 1) = Lowest(a, i) + a[i + 1] * Place(i) /\ Lowest(a, i) \in Nat /\ Lowest(a, k) \in Nat
    BY <2>1, LowestIs, LowestBelow
  <2>3. a[i + 1] * Place(i) \in Nat
    <3>1. a[i + 1] \in Nat /\ Place(i) \in Nat
      BY <2>1, WordsAre, PlaceIs
    <3> QED
      BY <3>1
  <2> QED
    BY <1>3, <2>1, <2>2, <2>3
<1> HIDE DEF T, d
<1>4. d \in T
  <2>1. \A j \in 0 .. d : j \in T
    BY <1>1, <1>2, <1>3, UpToInduction
  <2> QED
    BY <1>1, <2>1
<1> QED
  BY <1>1, <1>4, LowestIs DEF T

\* The loop subtracts every multiple of mod there is: the remainder is left.
LEMMA MmodIs ==
  ASSUME NEW len \in Nat, NEW mod, mod \in Vli(len), Number(mod) > 0,
         NEW product, product \in Vli(2 * len), NEW r, r = ecdsa_vli_mmod(product, mod)
  PROVE  r \in Vli(len) /\ Number(r) = Number(product) % Number(mod)
<1>1. PICK two \in Nat, wide \in Nat : two = 2 * len /\ wide = two * WordBits /\ len \in 0 .. two
  BY WordIs
<1>2. PICK m, p, x : m = Number(mod) /\ p = Place(two) /\ x = Number(product)
  OBVIOUS
<1>3. m \in Nat /\ m > 0 /\ p \in Nat /\ p > 0 /\ x \in Nat /\ x < p /\ p = Power(2, wide) /\ Len(mod) = len
  BY <1>1, <1>2, NumberIs, PlaceIs, PlacePower, WordsAre
<1>4. PICK bits : bits = ecdsa_vli_numBits(mod)
  OBVIOUS
<1>5. /\ bits \in Nat /\ bits > 0 /\ bits <= wide
      /\ Power(2, bits) > m /\ Power(2, bits - 1) <= m
  <2>1. /\ Power(2, bits) > m /\ Power(2, bits - 1) <= m
        /\ bits \in Nat /\ bits <= len * WordBits /\ bits > 0
    BY <1>2, <1>3, <1>4, BitsAre
  <2>2. wide = len * WordBits + len * WordBits /\ len * WordBits \in Nat
    BY <1>1, WordIs
  <2> QED
    BY <2>1, <2>2
<1>6. PICK shift \in Nat : shift = wide - bits
  BY <1>5, wide - bits \in Nat
<1>7. Shift(mod) = shift
  <2>1. 2 * len * WordBits = wide
    BY <1>1
  <2> QED
    BY <1>3, <1>4, <1>6, <2>1 DEF Shift
<1>8. \A k \in Nat : Power(2, k) \in Nat /\ Power(2, k) > 0 /\ Power(2, k + 1) = 2 * Power(2, k)
  BY 2 \in Nat, 2 \in Int, 2 > 0, PowerPositive, PowerStep
<1>9. PICK e \in Nat : e = Power(2, shift) /\ e > 0 /\ Power(2, shift + 1) = 2 * e
  BY <1>8
<1>10. m * e \in Nat /\ m * e < p
  <2>1. PICK b \in Nat : b = Power(2, bits)
    BY <1>5, <1>8
  <2>2. p = b * e
    <3>1. bits + shift = wide
      BY <1>5, <1>6
    <3>2. Power(2, bits + shift) = Power(2, bits) * Power(2, shift)
      BY <1>5, 2 \in Int, PowerPlus
    <3> QED
      BY <1>3, <1>9, <2>1, <3>1, <3>2
  <2>3. PICK d \in Nat : b = m + 1 + d
    <3>1. b > m
      BY <1>5, <2>1
    <3>2. b - m - 1 \in Nat /\ b = m + 1 + (b - m - 1)
      BY <1>3, <2>1, <3>1
    <3> QED
      BY <3>2
  <2>4. (m + 1 + d) * e = m * e + e + d * e /\ m * e \in Nat /\ d * e \in Nat
    BY <1>3
  <2> QED
    BY <1>9, <2>2, <2>3, <2>4
<1>11. x < m * (2 * e)
  <2>1. PICK b \in Nat : b = Power(2, bits - 1) /\ b <= m
    BY <1>5, <1>8, bits - 1 \in Nat
  <2>2. p = b * (2 * e)
    <3>1. (bits - 1) + (shift + 1) = wide /\ bits - 1 \in Nat /\ shift + 1 \in Nat
      BY <1>5, <1>6
    <3>2. Power(2, (bits - 1) + (shift + 1)) = Power(2, bits - 1) * Power(2, shift + 1)
      BY <3>1, 2 \in Int, PowerPlus
    <3> QED
      BY <1>3, <1>9, <2>1, <3>1, <3>2
  <2>3. b * (2 * e) <= m * (2 * e) /\ m * (2 * e) \in Nat
    BY <1>3, <2>1, 2 * e \in Nat, LessByFactor
  <2> QED
    BY <1>3, <2>2, <2>3
<1>12. PICK t : t = [v |-> product, m |-> Words(m * e, two)]
  OBVIOUS
<1>13. t \in MmodStates(two) /\ Number(t.v) = x /\ Number(t.m) = m * e
  <2>1. PICK o : o = Words(m * e, two)
    OBVIOUS
  <2>2. o \in Vli(two) /\ Number(o) = m * e
    BY <1>2, <1>10, <2>1, WordsMake
  <2>3. t.v = product /\ t.m = o
    BY <1>12, <2>1
  <2>4. t \in MmodStates(two)
    BY <1>1, <1>12, <2>1, <2>2 DEF MmodStates
  <2> QED
    BY <1>2, <2>2, <2>3, <2>4
<1>14. PICK k \in Nat : k = shift + 1
  OBVIOUS
<1>15. PICK f \in [0 .. k -> MmodStates(two)] : f[0] = t /\ (\A i \in 1 .. k : f[i] = MmodRound(f[i - 1])) /\ MmodAfter(k, t) = f[k]
  <2>1. \E f \in [0 .. k -> MmodStates(two)] : MmodRun(f, k, t)
    BY <1>13, MmodLoop
  <2> QED
    BY <2>1 DEF MmodRun
<1>16. r = SubSeq(f[k].v, 1, len)
  <2>1. r = SubtractMultiples(product, mod, shift, k)
    BY <1>7, <1>14 DEF ecdsa_vli_mmod
  <2>2. SubtractMultiples(product, mod, shift, k) = SubSeq(MmodAfter(k, t).v, 1, len)
    BY <1>1, <1>2, <1>3, <1>9, <1>12 DEF SubtractMultiples, MmodAfter
  <2> QED
    BY <1>15, <2>1, <2>2
<1> DEFINE T == {i \in 0 .. k : /\ \E q \in Nat : x = Number(f[i].v) + q * m
                                /\ Number(f[i].v) < m * Power(2, k - i)
                                /\ i < k => Number(f[i].m) = m * Power(2, shift - i)}
<1>17. 0 \in T
  <2>1. 0 \in 0 .. k /\ k - 0 = shift + 1 /\ shift - 0 = shift /\ x = x + 0 * m
    BY <1>3, <1>14
  <2> QED
    BY <1>9, <1>11, <1>13, <1>15, <2>1
<1>18. ASSUME NEW i \in 0 .. k - 1, i \in T
       PROVE  i + 1 \in T
  <2>1. PICK j \in Nat : shift - i = j /\ k - i = j + 1 /\ k - (i + 1) = j /\ i < k /\ i + 1 \in 1 .. k /\ i + 1 \in 0 .. k /\ i \in 0 .. k
    BY <1>14, shift - i \in Nat
  <2>2. f[i + 1] = MmodRound(f[i]) /\ f[i] \in MmodStates(two)
    <3>1. (i + 1) - 1 = i
      OBVIOUS
    <3> QED
      BY <1>15, <2>1, <3>1
  <2>3. PICK u, w, y, z : u = Number(f[i].v) /\ w = Number(f[i].m) /\ y = Number(f[i + 1].v) /\ z = Number(f[i + 1].m)
    OBVIOUS
  <2>4. PICK d \in Nat : d = Power(2, j) /\ Power(2, j + 1) = 2 * d
    BY <1>8
  <2>5. PICK q \in Nat : x = u + q * m
    BY <1>18, <2>3
  <2>6. u < m * (2 * d) /\ w = m * d
    BY <1>18, <2>1, <2>3, <2>4
  <2>7. f[i].v \in Vli(two) /\ u \in Nat
    BY <2>2, <2>3, NumberIs DEF MmodStates
  <2>8. y = (IF u < w THEN u ELSE u - w) /\ z = w \div 2
    BY <2>2, <2>3, MmodRoundIs
  <2>9. m * (2 * d) = w + w /\ w \in Nat
    BY <1>3, <2>6
  <2>10. y < m * d
    BY <2>6, <2>7, <2>8, <2>9
  <2>11. \E c \in Nat : x = y + c * m
    <3>1. CASE u < w
      BY <2>5, <2>8, <3>1
    <3>2. CASE ~(u < w)
      <4>1. y = u - m * d
        BY <2>6, <2>8, <3>2
      <4>2. (q + d) * m = q * m + m * d /\ q * m \in Nat /\ m * d \in Nat
        BY <1>3
      <4>3. x = y + (q + d) * m
        BY <2>5, <2>7, <4>1, <4>2
      <4> QED
        BY <4>3, q + d \in Nat
    <3> QED
      BY <3>1, <3>2
  <2>12. ASSUME i + 1 < k
         PROVE  z = m * Power(2, shift - (i + 1))
    <3>1. PICK l \in Nat : shift - (i + 1) = l /\ j = l + 1
      BY <1>14, <2>1, <2>12, shift - (i + 1) \in Nat
    <3>2. PICK g \in Nat : g = Power(2, l) /\ d = 2 * g
      BY <1>8, <2>4, <3>1
    <3>3. PICK h \in Nat : h = m * g
      BY <1>3
    <3>4. w = 2 * h
      BY <1>3, <2>6, <3>2, <3>3
    <3>5. z = h
      BY <2>8, <3>4
    <3> QED
      BY <3>1, <3>2, <3>3, <3>5
  <2> QED
    BY <2>1, <2>3, <2>4, <2>10, <2>11, <2>12
<1> HIDE DEF T
<1>19. k \in T
  <2>1. \A i \in 0 .. k : i \in T
    BY <1>17, <1>18, UpToInduction
  <2> QED
    BY <2>1
<1>20. PICK last : last = f[k].v
  OBVIOUS
<1>21. last \in Vli(two)
  <2>1. k \in 0 .. k
    OBVIOUS
  <2> QED
    BY <1>15, <1>20, <2>1 DEF MmodStates
<1>22. PICK y \in Nat : y = Number(last)
  BY <1>21, NumberIs
<1>23. PICK q \in Nat : x = y + q * m
  BY <1>19, <1>20, <1>22 DEF T
<1>24. y < m
  <2>1. k - k = 0 /\ Power(2, 0) = 1 /\ m * 1 = m
    BY <1>3, 2 \in Int, PowerStep
  <2> QED
    BY <1>19, <1>20, <1>22, <2>1 DEF T
<1>25. x % m = y
  <2>1. x = m * q + y /\ 0 <= y /\ y \in Int /\ x \in Int /\ q \in Int
    <3>1. m * q = q * m /\ q * m \in Nat
      BY <1>3
    <3> QED
      BY <1>3, <1>23, <3>1
  <2> QED
    BY <1>3, <1>24, <2>1, QuotientIs
<1>26. r \in Vli(len) /\ Number(r) = Lowest(last, len)
  <2>1. r = SubSeq(last, 1, len)
    BY <1>16, <1>20
  <2> QED
    BY <1>1, <1>21, <2>1, PrefixIs
<1>27. Lowest(last, len) = y
  <2>1. PICK c, d : c = Words(y, len) /\ d = Place(len)
    OBVIOUS
  <2>2. m < d
    BY <1>2, <2>1, NumberIs
  <2>3. \A i \in len + 1 .. two : last[i] = 0
    <3> SUFFICES ASSUME NEW i \in len + 1 .. two, last[i] # 0
                 PROVE  FALSE
      OBVIOUS
    <3>1. PICK j \in Nat : i = j + 1 /\ j \in 0 .. two - 1 /\ j \in len .. two /\ j + 1 \in 0 .. two /\ j + 1 \in 1 .. two
      BY <1>1, i - 1 \in Nat
    <3>2. y >= Lowest(last, j + 1)
      BY <1>21, <1>22, <3>1, LowestGrows
    <3>3. Lowest(last, j + 1) = Lowest(last, j) + last[j + 1] * Place(j) /\ Lowest(last, j) \in Nat
      BY <1>21, <3>1, LowestIs, LowestBelow
    <3>4. PICK v \in Nat, g \in Nat : v = last[j + 1] /\ g = Place(j) /\ v > 0
      <4>1. last[j + 1] \in Nat /\ Place(j) \in Nat
        BY <1>21, <3>1, WordsAre, PlaceIs
      <4>2. last[j + 1] # 0
        BY <3>1
      <4> QED
        BY <4>1, <4>2
    <3>5. g <= v * g /\ v * g \in Nat
      <4>1. 1 \in Nat /\ 1 <= v /\ 1 * g = g
        BY <3>4
      <4>2. 1 * g <= v * g /\ v * g \in Nat
        BY <4>1, LessByFactor, Zenon
      <4> QED
        BY <4>1, <4>2, Zenon
    <3>6. d <= g
      BY <2>1, <3>1, <3>4, PlacesGrow
    <3>7. d \in Nat
      BY <2>1, PlaceIs
    <3>8. PICK l \in Nat : l = Lowest(last, j) /\ Lowest(last, j + 1) = l + v * g
      BY <3>3, <3>4
    <3>9. y >= g
      <4>1. PICK u \in Nat : u = v * g
        BY <3>5
      <4>2. g <= u /\ Lowest(last, j + 1) = l + u
        BY <3>5, <3>8, <4>1
      <4> QED
        BY <1>3, <3>2, <4>2
    <3> QED
      BY <1>3, <1>24, <2>2, <3>4, <3>6, <3>7, <3>9
  <2> QED
    BY <1>1, <1>21, <1>22, <2>3, ZerosAbove
<1> QED
  BY <1>2, <1>25, <1>26, <1>27

-----------------------------------------------------------------------------
(* Products: the sum of all the products of two words, column by column.    *)

\* The product of words i and k - i, from 0, where both are.
Diagonal(a, b, len, i, k) == IF k - i \in 0 .. len - 1 THEN a[i + 1] * b[k - i + 1] ELSE 0
Row(a, b, len, k) == [i \in 0 .. len - 1 |-> Diagonal(a, b, len, i, k)]

\* It is a natural number.
LEMMA DiagonalIs ==
  ASSUME NEW len \in Nat, NEW a, a \in Vli(len), NEW b, b \in Vli(len)
  PROVE  \A i \in 0 .. len - 1, k \in Nat : Diagonal(a, b, len, i, k) \in Nat
<1> SUFFICES ASSUME NEW i \in 0 .. len - 1, NEW k \in Nat
             PROVE  Diagonal(a, b, len, i, k) \in Nat
  OBVIOUS
<1>1. CASE k - i \in 0 .. len - 1
  <2>1. i + 1 \in 1 .. len /\ k - i + 1 \in 1 .. len
    BY <1>1
  <2>2. a[i + 1] \in Nat /\ b[k - i + 1] \in Nat
    BY <2>1, WordsAre
  <2>3. a[i + 1] * b[k - i + 1] \in Nat
    BY <2>2
  <2> QED
    BY <1>1, <2>3 DEF Diagonal
<1>2. CASE ~(k - i \in 0 .. len - 1)
  BY <1>2 DEF Diagonal
<1> QED
  BY <1>1, <1>2

\* All the products with word j of a.
LEMMA WordTimesNumber ==
  ASSUME NEW len \in Nat, len > 0, NEW a, a \in Vli(len), NEW b, b \in Vli(len), NEW j \in 0 .. len - 1,
         NEW f, f = [k \in 0 .. 2 * len - 2 |-> Diagonal(a, b, len, j, k) * Place(k)]
  PROVE  SumBelow(f, 2 * len - 1) = (a[j + 1] * Place(j)) * Number(b)
<1>1. PICK n \in Nat : n = 2 * len - 1 /\ 2 * len - 2 = n - 1
  BY 2 * len - 1 \in Nat
<1>2. ASSUME NEW k \in 0 .. n - 1
      PROVE  f[k] = Diagonal(a, b, len, j, k) * Place(k) /\ f[k] \in Int
  <2>1. f[k] = Diagonal(a, b, len, j, k) * Place(k)
    BY <1>1
  <2>2. Diagonal(a, b, len, j, k) \in Nat /\ Place(k) \in Nat
    <3>1. k \in Nat
      BY <1>1
    <3> QED
      BY <3>1, DiagonalIs, PlaceIs
  <2> QED
    BY <2>1, <2>2
<1> DEFINE g == [i \in 0 .. len - 1 |-> f[j + i]]
           e == [i \in 0 .. len - 1 |-> b[i + 1] * Power(W, i)]
<1>3. Window(f, n, j, g, len)
  <2>1. Summands(f, n)
    BY <1>2 DEF Summands
  <2>2. j + len <= n
    BY <1>1
  <2>3. ASSUME NEW i \in 0 .. j - 1
        PROVE  f[i] = 0
    <3>1. i \in 0 .. n - 1 /\ ~(i - j \in 0 .. len - 1) /\ i \in Nat
      BY <1>1
    <3>2. Place(i) \in Nat
      BY <3>1, PlaceIs
    <3>3. Diagonal(a, b, len, j, i) = 0 /\ 0 * Place(i) = 0
      BY <3>1, <3>2 DEF Diagonal
    <3> QED
      BY <1>2, <3>1, <3>3
  <2>4. ASSUME NEW i \in j + len .. n - 1
        PROVE  f[i] = 0
    <3>1. i \in 0 .. n - 1 /\ ~(i - j \in 0 .. len - 1) /\ i \in Nat
      BY <1>1
    <3>2. Place(i) \in Nat
      BY <3>1, PlaceIs
    <3>3. Diagonal(a, b, len, j, i) = 0 /\ 0 * Place(i) = 0
      BY <3>1, <3>2 DEF Diagonal
    <3> QED
      BY <1>2, <3>1, <3>3
  <2>5. \A i \in 0 .. len - 1 : g[i] = f[j + i]
    OBVIOUS
  <2> QED
    BY <2>1, <2>2, <2>3, <2>4, <2>5 DEF Window
<1>4. SumBelow(f, n) = SumBelow(g, len)
  BY <1>3, SumWindow
<1>5. PICK c \in Nat : c = a[j + 1] * Place(j)
  <2>1. a[j + 1] \in Nat /\ Place(j) \in Nat
    <3>1. j + 1 \in 1 .. len /\ j \in Nat
      OBVIOUS
    <3> QED
      BY <3>1, WordsAre, PlaceIs
  <2> QED
    BY <2>1
<1>6. ASSUME NEW i \in 0 .. len - 1
      PROVE  e[i] \in Int /\ g[i] = c * e[i]
  <2>1. i + 1 \in 1 .. len /\ j + i \in 0 .. n - 1 /\ (j + i) - j = i /\ (j + i) - j \in 0 .. len - 1
    BY <1>1
  <2>2. PICK x, y, p, q : x = a[j + 1] /\ y = b[i + 1] /\ p = Place(j) /\ q = Place(i)
    OBVIOUS
  <2>3. x \in Nat /\ y \in Nat /\ p \in Nat /\ q \in Nat
    <3>1. j + 1 \in 1 .. len /\ j \in Nat /\ i \in Nat
      OBVIOUS
    <3> QED
      BY <2>1, <2>2, <3>1, WordsAre, PlaceIs
  <2>4. Place(j + i) = p * q
    BY <2>2, WordIs, PowerPlus DEF Place
  <2>5. Diagonal(a, b, len, j, j + i) = x * y
    BY <2>1, <2>2 DEF Diagonal
  <2>6. g[i] = (x * y) * (p * q)
    BY <1>2, <2>1, <2>4, <2>5
  <2>7. e[i] = y * q
    BY <2>2 DEF Place
  <2>8. y * q \in Int /\ (x * y) * (p * q) = (x * p) * (y * q)
    BY <2>3
  <2> QED
    BY <1>5, <2>2, <2>6, <2>7, <2>8
<1>7. Number(b) = SumBelow(e, len)
  <2>1. Len(b) = len
    BY WordsAre
  <2> QED
    BY <2>1 DEF Number
<1> HIDE DEF g, e
<1>8. SumBelow(g, len) = c * SumBelow(e, len)
  <2>1. Summands(e, len)
    BY <1>6 DEF Summands
  <2>2. \A k \in 0 .. len : SumBelow(g, k) = c * SumBelow(e, k)
    BY <1>6, <2>1, SumTimes
  <2> QED
    BY <2>2
<1> QED
  BY <1>1, <1>4, <1>5, <1>7, <1>8

\* The columns, each in its place, make the product.
LEMMA ColumnsMakeProduct ==
  ASSUME NEW len \in Nat, len > 0, NEW a, a \in Vli(len), NEW b, b \in Vli(len),
         NEW f, f = [k \in 0 .. 2 * len - 2 |-> SumBelow(Row(a, b, len, k), len) * Place(k)]
  PROVE  SumBelow(f, 2 * len - 1) = Number(a) * Number(b)
<1>1. PICK n \in Nat : n = 2 * len - 1 /\ 2 * len - 2 = n - 1
  BY 2 * len - 1 \in Nat
<1> DEFINE part(j) == [k \in 0 .. n - 1 |-> SumBelow(Row(a, b, len, k), j) * Place(k)]
           word(j) == [k \in 0 .. n - 1 |-> Diagonal(a, b, len, j, k) * Place(k)]
           T == {j \in 0 .. len : SumBelow(part(j), n) = Lowest(a, j) * Number(b)}
<1>2. ASSUME NEW k \in 0 .. n - 1
      PROVE  /\ Summands(Row(a, b, len, k), len) /\ Place(k) \in Int
             /\ \A j \in 0 .. len - 1 : Row(a, b, len, k)[j] = Diagonal(a, b, len, j, k)
             /\ \A j \in 0 .. len : SumBelow(Row(a, b, len, k), j) \in Int
  <2>1. k \in Nat
    OBVIOUS
  <2>2. \A j \in 0 .. len - 1 : Row(a, b, len, k)[j] = Diagonal(a, b, len, j, k) /\ Diagonal(a, b, len, j, k) \in Int
    BY <2>1, DiagonalIs DEF Row
  <2>3. Summands(Row(a, b, len, k), len)
    BY <2>2 DEF Summands
  <2>4. Place(k) \in Int
    BY <2>1, PlaceIs
  <2>5. \A j \in 0 .. len : SumBelow(Row(a, b, len, k), j) \in Int
    BY <2>3, SumInt
  <2> QED
    BY <2>2, <2>3, <2>4, <2>5
<1>3. Number(b) \in Int
  BY NumberIs
<1>4. 0 \in T
  <2>1. \A k \in 0 .. n - 1 : part(0)[k] = 0
    <3> SUFFICES ASSUME NEW k \in 0 .. n - 1
                 PROVE  part(0)[k] = 0
      OBVIOUS
    <3>1. SumBelow(Row(a, b, len, k), 0) = 0 /\ 0 * Place(k) = 0
      BY <1>2, SumStep
    <3> QED
      BY <3>1
  <2>2. \A k \in 0 .. n : SumBelow(part(0), k) = 0
    BY <2>1, SumZero
  <2>3. Lowest(a, 0) = 0 /\ 0 * Number(b) = 0
    BY <1>3, LowestIs
  <2> QED
    BY <2>2, <2>3
<1>5. ASSUME NEW j \in 0 .. len - 1, j \in T
      PROVE  j + 1 \in T
  <2>1. j + 1 \in 0 .. len /\ j \in 0 .. len
    OBVIOUS
  <2>2. ASSUME NEW k \in 0 .. n - 1
        PROVE  part(j)[k] \in Int /\ word(j)[k] \in Int /\ part(j + 1)[k] = part(j)[k] + word(j)[k]
    <3>1. PICK x, y, p : x = SumBelow(Row(a, b, len, k), j) /\ y = Diagonal(a, b, len, j, k) /\ p = Place(k)
      OBVIOUS
    <3>2. x \in Int /\ p \in Int /\ y \in Int /\ SumBelow(Row(a, b, len, k), j + 1) = x + y
      <4>1. k \in Nat
        OBVIOUS
      <4>2. y \in Int
        BY <3>1, <4>1, DiagonalIs
      <4>3. SumBelow(Row(a, b, len, k), j + 1) = x + Row(a, b, len, k)[j]
        BY <1>2, <3>1, SumNext
      <4> QED
        BY <1>2, <2>1, <3>1, <4>2, <4>3
    <3>3. part(j)[k] = x * p /\ word(j)[k] = y * p /\ part(j + 1)[k] = (x + y) * p
      BY <3>1, <3>2
    <3>4. x * p \in Int /\ y * p \in Int /\ (x + y) * p = x * p + y * p
      BY <3>2
    <3> QED
      BY <3>3, <3>4
  <2>3. PICK q, r, s : q = part(j) /\ r = word(j) /\ s = part(j + 1)
    OBVIOUS
  <2>4. Summands(q, n) /\ Summands(r, n) /\ \A k \in 0 .. n - 1 : s[k] = q[k] + r[k]
    <3>1. \A k \in 0 .. n - 1 : q[k] \in Int /\ r[k] \in Int /\ s[k] = q[k] + r[k]
      BY <2>2, <2>3
    <3> QED
      BY <3>1 DEF Summands
  <2>5. SumBelow(s, n) = SumBelow(q, n) + SumBelow(r, n)
    <3>1. \A k \in 0 .. n : SumBelow(s, k) = SumBelow(q, k) + SumBelow(r, k)
      BY <2>4, SumPlus
    <3> QED
      BY <3>1
  <2>6. SumBelow(r, n) = (a[j + 1] * Place(j)) * Number(b)
    BY <1>1, <2>3, WordTimesNumber
  <2>7. SumBelow(q, n) = Lowest(a, j) * Number(b)
    BY <1>5, <2>3
  <2>8. Lowest(a, j + 1) = Lowest(a, j) + a[j + 1] * Place(j)
    BY LowestIs
  <2>9. PICK l, d, v : l = Lowest(a, j) /\ d = a[j + 1] * Place(j) /\ v = Number(b)
    OBVIOUS
  <2>10. l \in Int /\ d \in Int /\ v \in Int
    <3>1. a[j + 1] \in Nat /\ Place(j) \in Nat
      <4>1. j + 1 \in 1 .. len /\ j \in Nat
        OBVIOUS
      <4> QED
        BY <4>1, WordsAre, PlaceIs
    <3>2. a[j + 1] * Place(j) \in Int
      BY <3>1
    <3> QED
      BY <1>3, <2>1, <2>9, <3>2, LowestIs
  <2>11. (l + d) * v = l * v + d * v
    BY <2>10
  <2>12. SumBelow(s, n) = Lowest(a, j + 1) * Number(b)
    BY <2>5, <2>6, <2>7, <2>8, <2>9, <2>11
  <2> QED
    BY <2>1, <2>3, <2>12
<1>6. f = part(len)
  BY <1>1
<1> HIDE DEF T
<1>7. len \in T
  <2>1. \A j \in 0 .. len : j \in T
    BY <1>4, <1>5, UpToInduction
  <2> QED
    BY <2>1
<1>8. Number(a) = Lowest(a, len)
  BY LowestIs
<1> QED
  BY <1>1, <1>6, <1>7, <1>8 DEF T

\* A sum of natural numbers grows with its summands.
LEMMA SumGrows ==
  ASSUME NEW c \in Nat, NEW e, \A i \in 0 .. c - 1 : e[i] \in Nat
  PROVE  \A k \in 0 .. c : SumBelow(e, k) \in Nat /\ SumBelow(e, k) <= SumBelow(e, c)
<1>1. Summands(e, c)
  BY DEF Summands
<1> DEFINE T == {k \in 0 .. c : \A i \in 0 .. k : SumBelow(e, i) \in Nat /\ SumBelow(e, i) <= SumBelow(e, k)}
<1>2. 0 \in T
  <2>1. SumBelow(e, 0) = 0 /\ \A i \in 0 .. 0 : i = 0
    BY SumStep
  <2> QED
    BY <2>1
<1>3. ASSUME NEW k \in 0 .. c - 1, k \in T
      PROVE  k + 1 \in T
  <2>1. SumBelow(e, k + 1) = SumBelow(e, k) + e[k] /\ e[k] \in Nat /\ k \in 0 .. k /\ k + 1 \in 0 .. c
    BY <1>1, SumNext
  <2>2. SumBelow(e, k) \in Nat /\ \A i \in 0 .. k : SumBelow(e, i) \in Nat /\ SumBelow(e, i) <= SumBelow(e, k)
    BY <1>3, <2>1
  <2>3. \A i \in 0 .. k + 1 : i \in 0 .. k \/ i = k + 1
    OBVIOUS
  <2> QED
    BY <2>1, <2>2, <2>3
<1> HIDE DEF T
<1>4. \A k \in 0 .. c : k \in T
  BY <1>2, <1>3, UpToInduction
<1>5. c \in T
  BY <1>4
<1> QED
  BY <1>5 DEF T

\* A sum of numbers that are each at most m.
LEMMA SumBelowTimes ==
  ASSUME NEW c \in Nat, NEW e, NEW m \in Nat, \A i \in 0 .. c - 1 : e[i] \in Nat /\ e[i] <= m
  PROVE  SumBelow(e, c) \in Nat /\ SumBelow(e, c) <= c * m
<1>1. Summands(e, c)
  BY DEF Summands
<1> DEFINE T == {k \in 0 .. c : SumBelow(e, k) \in Nat /\ SumBelow(e, k) <= k * m}
<1>2. 0 \in T
  BY SumStep, 0 * m = 0
<1>3. ASSUME NEW k \in 0 .. c - 1, k \in T
      PROVE  k + 1 \in T
  <2>1. SumBelow(e, k + 1) = SumBelow(e, k) + e[k] /\ e[k] \in Nat /\ e[k] <= m /\ k + 1 \in 0 .. c
    BY <1>1, SumNext
  <2>2. (k + 1) * m = k * m + m /\ k * m \in Nat
    OBVIOUS
  <2> QED
    BY <1>3, <2>1, <2>2
<1> HIDE DEF T
<1>4. \A k \in 0 .. c : k \in T
  BY <1>2, <1>3, UpToInduction
<1>5. c \in T
  BY <1>4
<1> QED
  BY <1>5 DEF T

\* Adding one product after the other, while the three words hold the sum.
LEMMA Accumulates ==
  ASSUME NEW c \in Nat, NEW h \in [0 .. c -> Triples], NEW e, \A i \in 0 .. c - 1 : e[i] \in Nat,
         Value(h[0]) + SumBelow(e, c) < W * (W * W),
         \A i \in 0 .. c - 1 : Value(h[i]) + e[i] < W * (W * W) => Value(h[i + 1]) = Value(h[i]) + e[i]
  PROVE  Value(h[c]) = Value(h[0]) + SumBelow(e, c)
<1>1. PICK top : top = W * (W * W)
  OBVIOUS
<1>2. top \in Nat
  BY <1>1, WordIs
<1>3. \A k \in 0 .. c : SumBelow(e, k) \in Nat /\ SumBelow(e, k) <= SumBelow(e, c)
  BY SumGrows
<1>4. Value(h[0]) \in Nat
  BY ValueIs
<1>5. Value(h[0]) + SumBelow(e, c) < top
  BY <1>1
<1> DEFINE T == {k \in 0 .. c : Value(h[k]) = Value(h[0]) + SumBelow(e, k)}
<1>6. 0 \in T
  BY <1>4, SumStep
<1>7. ASSUME NEW k \in 0 .. c - 1, k \in T
      PROVE  k + 1 \in T
  <2>1. k + 1 \in 0 .. c /\ k \in 0 .. c /\ c \in 0 .. c
    OBVIOUS
  <2>2. SumBelow(e, k + 1) = SumBelow(e, k) + e[k] /\ e[k] \in Nat
    BY SumNext DEF Summands
  <2>3. Value(h[k]) + e[k] < top
    BY <1>2, <1>3, <1>4, <1>5, <1>7, <2>1, <2>2
  <2>4. Value(h[k + 1]) = Value(h[k]) + e[k]
    BY <1>1, <2>3
  <2> QED
    BY <1>3, <1>4, <1>7, <2>1, <2>2, <2>4
<1> HIDE DEF T
<1>8. \A k \in 0 .. c : k \in T
  BY <1>6, <1>7, UpToInduction
<1>9. c \in T
  BY <1>8
<1> QED
  BY <1>9 DEF T

\* The accumulators of the columns, and the words they leave.
Accumulators(s, e, last) ==
    /\ Value(s[0]) = e[0]
    /\ \A k \in 1 .. last : Value(s[k]) = s[k - 1][2] + s[k - 1][3] * W + e[k]
WordsLeft(o, s, last) ==
    /\ \A i \in 1 .. last + 1 : o[i] = s[i - 1][1]
    /\ o[last + 2] = s[last][2]

\* The words left behind make all that was added, when it fits them.
LEMMA TriplesMake ==
  ASSUME NEW len \in Nat, len > 0, NEW s \in [0 .. 2 * len - 2 -> Triples],
         NEW e, \A k \in 0 .. 2 * len - 2 : e[k] \in Nat, Accumulators(s, e, 2 * len - 2),
         NEW o, o \in Vli(2 * len), WordsLeft(o, s, 2 * len - 2),
         NEW f, f = [k \in 0 .. 2 * len - 2 |-> e[k] * Place(k)],
         SumBelow(f, 2 * len - 1) < Place(2 * len)
  PROVE  Number(o) = SumBelow(f, 2 * len - 1)
<1>1. PICK n \in Nat : n > 0 /\ 2 * len - 2 = n - 1 /\ 2 * len - 1 = n /\ 2 * len = n + 1
  <2>1. /\ 2 * len - 1 \in Nat /\ 2 * len - 1 > 0 /\ 2 * len - 2 = (2 * len - 1) - 1
        /\ 2 * len = (2 * len - 1) + 1
    OBVIOUS
  <2> QED
    BY <2>1
<1>2. /\ Value(s[0]) = e[0]
      /\ \A k \in 1 .. n - 1 : Value(s[k]) = s[k - 1][2] + s[k - 1][3] * W + e[k]
  BY <1>1 DEF Accumulators
<1>3. (\A i \in 1 .. n : o[i] = s[i - 1][1]) /\ o[n + 1] = s[n - 1][2]
  <2>1. (n - 1) + 1 = n /\ (n - 1) + 2 = n + 1
    OBVIOUS
  <2> QED
    BY <1>1, <2>1 DEF WordsLeft
<1>4. o \in Vli(n + 1) /\ \A k \in 0 .. n - 1 : s[k] \in Triples /\ e[k] \in Nat /\ k \in Nat /\ k + 1 \in Nat
  BY <1>1
<1>5. ASSUME NEW k \in 0 .. n - 1
      PROVE  f[k] = e[k] * Place(k) /\ f[k] \in Nat
  <2>1. Place(k) \in Nat /\ e[k] \in Nat
    BY <1>4, PlaceIs
  <2>2. f[k] = e[k] * Place(k)
    BY <1>1
  <2> QED
    BY <2>1, <2>2
<1>6. Summands(f, n)
  BY <1>5 DEF Summands
<1> DEFINE Left(k) == (s[k][2] + s[k][3] * W) * Place(k + 1)
           T == {k \in 0 .. n - 1 : Lowest(o, k + 1) + Left(k) = SumBelow(f, k + 1)}
<1>7. ASSUME NEW k \in 0 .. n - 1
      PROVE  /\ s[k][1] \in Nat /\ s[k][2] \in Nat /\ s[k][3] \in Nat
             /\ Value(s[k]) = s[k][1] + s[k][2] * W + s[k][3] * (W * W) /\ Value(s[k]) \in Nat
             /\ s[k][2] + s[k][3] * W \in Nat
             /\ s[k][1] + (s[k][2] + s[k][3] * W) * W = Value(s[k])
  <2>1. /\ s[k][1] \in Nat /\ s[k][2] \in Nat /\ s[k][3] \in Nat
        /\ Value(s[k]) = s[k][1] + s[k][2] * W + s[k][3] * (W * W) /\ Value(s[k]) \in Nat
    BY <1>4, ValueIs
  <2>2. PICK w, x, y, z : w = W /\ x = s[k][1] /\ y = s[k][2] /\ z = s[k][3]
    OBVIOUS
  <2>3. w \in Nat /\ x \in Nat /\ y \in Nat /\ z \in Nat
    BY <2>1, <2>2, WordIs
  <2>4. y + z * w \in Nat /\ (y + z * w) * w = y * w + z * (w * w) /\ y * w \in Nat /\ z * (w * w) \in Nat
    <3>1. z * w \in Nat /\ y * w \in Nat /\ w * w \in Nat
      BY <2>3
    <3>2. (z * w) * w = z * (w * w) /\ z * (w * w) \in Nat
      BY <2>3, <3>1
    <3>3. (y + z * w) * w = y * w + (z * w) * w
      BY <2>3, <3>1
    <3>4. y + z * w \in Nat
      BY <2>3, <3>1
    <3> QED
      BY <3>1, <3>2, <3>3, <3>4
  <2>5. x + (y * w + z * (w * w)) = Value(s[k])
    <3>1. PICK u \in Nat, v \in Nat : u = y * w /\ v = z * (w * w)
      BY <2>4
    <3>2. Value(s[k]) = x + u + v
      BY <2>1, <2>2, <3>1
    <3>3. x + u + v = x + (u + v)
      BY <2>3
    <3> QED
      BY <3>1, <3>2, <3>3
  <2> QED
    BY <2>1, <2>2, <2>4, <2>5
<1>8. 0 \in T
  <2>1. 0 \in 0 .. n - 1 /\ 0 + 1 = 1 /\ 0 \in 0 .. (n + 1) - 1 /\ n + 1 \in Nat /\ 0 \in Nat /\ 1 \in 1 .. n /\ 1 - 1 = 0
    BY <1>1
  <2>2. Place(0) = 1 /\ Place(1) = W * 1 /\ W \in Nat
    BY <2>1, PlaceIs, WordIs
  <2>3. Lowest(o, 1) = 0 + o[1] * 1 /\ o[1] = s[0][1]
    BY <1>4, <1>3, <2>1, <2>2, LowestIs
  <2>4. SumBelow(f, 0) = 0 /\ SumBelow(f, 0 + 1) = SumBelow(f, 0) + f[0]
    BY <1>6, <2>1, SumStep, SumNext
  <2>5. f[0] = e[0] * 1 /\ e[0] \in Nat
    BY <1>4, <1>5, <2>1, <2>2
  <2>6. PICK x, y, w : x = s[0][1] /\ y = s[0][2] + s[0][3] * W /\ w = W
    OBVIOUS
  <2>7. x \in Nat /\ y \in Nat /\ w \in Nat /\ x + y * w = e[0]
    BY <1>7, <1>2, <2>1, <2>2, <2>6
  <2>8. Lowest(o, 1) = x /\ Left(0) = y * w /\ SumBelow(f, 1) = e[0]
    <3>1. Lowest(o, 1) = x
      BY <2>3, <2>6, <2>7
    <3>2. Left(0) = y * w
      BY <2>1, <2>2, <2>6, <2>7
    <3>3. SumBelow(f, 1) = e[0]
      BY <2>1, <2>4, <2>5
    <3> QED
      BY <3>1, <3>2, <3>3
  <2> QED
    BY <2>1, <2>7, <2>8
<1>9. ASSUME NEW k \in 0 .. (n - 1) - 1, k \in T
      PROVE  k + 1 \in T
  <2>1. PICK j \in Nat : /\ j = k + 1 /\ j \in 0 .. n - 1 /\ j \in 1 .. n - 1 /\ j - 1 = k /\ k \in 0 .. n - 1
                         /\ j \in 0 .. (n + 1) - 1 /\ n + 1 \in Nat /\ j + 1 \in 1 .. n /\ (j + 1) - 1 = j
    BY <1>1
  <2>2. PICK l, p, w : l = Lowest(o, j) /\ p = Place(j) /\ w = W
    OBVIOUS
  <2>3. l \in Int /\ p \in Nat /\ w \in Nat /\ Place(j + 1) = w * p
    <3>1. j \in 0 .. n + 1
      BY <2>1
    <3> QED
      BY <1>4, <2>1, <2>2, <3>1, LowestIs, PlaceIs, WordIs
  <2>4. Lowest(o, j + 1) = l + o[j + 1] * p /\ o[j + 1] = s[j][1]
    BY <1>4, <1>3, <2>1, <2>2, LowestIs
  <2>5. SumBelow(f, j + 1) = SumBelow(f, j) + e[j] * p
    <3>1. SumBelow(f, j + 1) = SumBelow(f, j) + f[j]
      BY <1>6, <2>1, SumNext
    <3>2. f[j] = e[j] * p
      BY <1>5, <2>1, <2>2
    <3> QED
      BY <3>1, <3>2
  <2>6. PICK c, x, y, d : c = s[k][2] + s[k][3] * W /\ x = s[j][1] /\ y = s[j][2] + s[j][3] * W /\ d = e[j]
    OBVIOUS
  <2>7. c \in Nat /\ x \in Nat /\ y \in Nat /\ d \in Nat /\ x + y * w = c + d
    <3>1. c \in Nat /\ x \in Nat /\ y \in Nat /\ x + y * w = Value(s[j])
      BY <1>7, <2>1, <2>2, <2>6
    <3>2. Value(s[j]) = c + d
      BY <1>2, <2>1, <2>6
    <3>3. d \in Nat
      BY <1>4, <2>1, <2>6
    <3> QED
      BY <3>1, <3>2, <3>3
  <2>8. l + c * p = SumBelow(f, j)
    BY <1>9, <2>1, <2>2, <2>6
  <2>9. Left(j) = y * (w * p)
    BY <2>3, <2>6
  <2>10. (x + y * w) * p = x * p + y * (w * p) /\ (c + d) * p = c * p + d * p /\ x * p \in Nat /\ y * (w * p) \in Nat /\ c * p \in Nat /\ d * p \in Nat
    <3>1. y * w \in Nat /\ w * p \in Nat /\ (y * w) * p = y * (w * p)
      BY <2>3, <2>7
    <3>2. (x + y * w) * p = x * p + (y * w) * p
      BY <2>3, <2>7, <3>1
    <3> QED
      BY <2>3, <2>7, <3>1, <3>2
  <2>11. x * p + y * (w * p) = c * p + d * p
    BY <2>7, <2>10
  <2>12. Lowest(o, j + 1) + Left(j) = l + x * p + y * (w * p)
    BY <2>4, <2>6, <2>9
  <2>13. SumBelow(f, j + 1) = l + c * p + d * p
    BY <2>5, <2>6, <2>8
  <2>14. Lowest(o, j + 1) + Left(j) = SumBelow(f, j + 1)
    <3>1. PICK q \in Nat, t \in Nat, u \in Nat, v \in Nat : q = x * p /\ t = y * (w * p) /\ u = c * p /\ v = d * p
      BY <2>10
    <3>2. l + q + t = l + u + v
      <4>1. q + t = u + v /\ l \in Int
        BY <2>3, <2>11, <3>1
      <4> QED
        BY <4>1
    <3> QED
      BY <2>12, <2>13, <3>1, <3>2
  <2> QED
    BY <2>1, <2>14
<1>10. n - 1 \in T
  <2> HIDE DEF T
  <2>1. n - 1 \in Nat
    BY <1>1
  <2>2. \A k \in 0 .. n - 1 : k \in T
    BY <1>8, <1>9, <2>1, UpToInduction
  <2> QED
    BY <2>1, <2>2
<1>11. PICK l, p, w, y, z, m : /\ l = Lowest(o, n) /\ p = Place(n) /\ w = W /\ y = s[n - 1][2] /\ z = s[n - 1][3]
                              /\ m = Place(n + 1)
  OBVIOUS
<1>12. l \in Nat /\ p \in Nat /\ w \in Nat /\ y \in Nat /\ z \in Nat /\ m = w * p /\ m \in Nat
  <2>1. n \in 0 .. n + 1 /\ n + 1 \in Nat /\ n - 1 \in 0 .. n - 1
    BY <1>1
  <2> QED
    BY <1>4, <1>7, <1>11, <2>1, LowestBelow, PlaceIs, WordIs
<1>13. l + (y + z * w) * p = SumBelow(f, n)
  <2>1. (n - 1) + 1 = n
    OBVIOUS
  <2> QED
    BY <1>10, <1>11, <2>1
<1>14. (y + z * w) * p = y * p + z * m /\ y * p \in Nat /\ z * m \in Nat
  <2>1. z * w \in Nat /\ (z * w) * p = z * (w * p)
    BY <1>12
  <2>2. (y + z * w) * p = y * p + (z * w) * p
    BY <1>12, <2>1
  <2> QED
    BY <1>12, <2>1, <2>2
<1>15. z = 0
  <2> SUFFICES ASSUME z > 0
               PROVE  FALSE
    BY <1>12
  <2>1. 1 * m <= z * m
    BY <1>12, 1 <= z, LessByFactor
  <2>2. SumBelow(f, n) < m
    BY <1>1, <1>11
  <2>3. PICK total : total = SumBelow(f, n)
    OBVIOUS
  <2>4. l + (y * p + z * m) = total /\ total < m /\ m <= z * m
    BY <1>12, <1>13, <1>14, <2>1, <2>2, <2>3
  <2>5. PICK g \in Nat, u \in Nat : g = y * p /\ u = z * m
    BY <1>14
  <2>6. l + (g + u) < m /\ m <= u
    BY <2>4, <2>5
  <2> QED
    BY <1>12, <2>6
<1>16. Number(o) = l + y * p
  <2>1. n \in 0 .. (n + 1) - 1 /\ n + 1 \in Nat
    BY <1>1
  <2>2. Number(o) = Lowest(o, n + 1)
    BY <1>4, <2>1, LowestIs
  <2>3. Lowest(o, n + 1) = Lowest(o, n) + o[n + 1] * Place(n)
    BY <1>4, <2>1, LowestIs
  <2>4. o[n + 1] = y
    BY <1>3, <1>11
  <2> QED
    BY <1>11, <2>2, <2>3, <2>4
<1>17. z * m = 0
  BY <1>12, <1>15
<1>18. l + (y * p + 0) = SumBelow(f, n) /\ y * p + 0 = y * p
  BY <1>13, <1>14, <1>17
<1> QED
  BY <1>1, <1>16, <1>18

\* An accumulator stays three words, whatever is added.
LEMMA AddTyped ==
  ASSUME NEW r \in Triples, NEW p \in Nat, NEW more \in Nat
  PROVE  AddToLow(r, p, more) \in Triples
<1>1. PICK w, m, l, s, v : w = W /\ m = W * W /\ l = r[2] * W + r[1] /\ s = (l + p) % m /\ v = r[3] + more + Bit(s < p)
  OBVIOUS
<1>2. w \in Nat /\ w > 0 /\ l \in Nat /\ r[3] \in Nat
  BY <1>1, WordIs, ValueIs
<1>3. m \in Nat /\ m > 0 /\ m = w * w
  BY <1>1, <1>2
<1>4. s \in Nat /\ s < m
  <2>1. l + p \in Nat
    BY <1>2
  <2> QED
    BY <1>1, <1>3, <2>1, DigitsOf
<1>5. s % w \in Nat /\ s % w < w /\ s \div w \in Nat /\ s = w * (s \div w) + (s % w)
  BY <1>2, <1>4, DigitsOf
<1>6. s \div w < w
  <2>1. PICK q \in Nat, u \in Nat : q = s \div w /\ u = s % w
    BY <1>5
  <2>2. q * w = w * q /\ q * w \in Nat
    BY <1>2
  <2>3. q * w < w * w
    BY <1>3, <1>4, <1>5, <2>1, <2>2
  <2> QED
    BY <1>2, <2>1, <2>3, FactorLess
<1>7. v \in Nat
  BY <1>1, <1>2 DEF Bit
<1>8. v % w \in Nat /\ v % w < w
  BY <1>2, <1>7, DigitsOf
<1>9. AddToLow(r, p, more) = <<s % w, s \div w, v % w>>
  BY <1>1 DEF AddToLow
<1>10. s % w \in 0 .. W - 1 /\ s \div w \in 0 .. W - 1 /\ v % w \in 0 .. W - 1
  <2>1. PICK x \in Nat, y \in Nat, z \in Nat : x = s % w /\ y = s \div w /\ z = v % w
    BY <1>5, <1>8
  <2>2. x < w /\ y < w /\ z < w
    BY <1>5, <1>6, <1>8, <2>1
  <2>3. x \in 0 .. w - 1 /\ y \in 0 .. w - 1 /\ z \in 0 .. w - 1
    BY <1>2, <2>2
  <2> QED
    BY <1>1, <2>1, <2>3
<1> QED
  BY <1>9, <1>10 DEF Triples

\* The words that the next column starts with.
Moved(t) == <<t[2], t[3], 0>>

\* What the upper two words are worth, moved down.
LEMMA MovedIs ==
  ASSUME NEW t \in Triples
  PROVE  Moved(t) \in Triples /\ Value(Moved(t)) = t[2] + t[3] * W /\ Value(Moved(t)) < W * W
<1>1. PICK w, x, y : w = W /\ x = t[2] /\ y = t[3]
  OBVIOUS
<1>2. w \in Nat /\ w > 1 /\ x \in Nat /\ x < w /\ y \in Nat /\ y < w
  BY <1>1, WordIs, ValueIs
<1>3. Moved(t) = <<x, y, 0>>
  BY <1>1 DEF Moved
<1>4. x \in 0 .. W - 1 /\ y \in 0 .. W - 1 /\ 0 \in 0 .. W - 1
  BY <1>1, <1>2
<1>5. Moved(t) \in Triples
  BY <1>3, <1>4 DEF Triples
<1>6. Value(Moved(t)) = x + y * w + 0 * (w * w)
  BY <1>1, <1>3 DEF Value
<1>7. 0 * (w * w) = 0 /\ y * w \in Nat /\ w * w \in Nat
  BY <1>2
<1>8. Value(Moved(t)) = x + y * w
  BY <1>2, <1>6, <1>7
<1>9. x + y * w < w * w
  <2>1. y + 1 <= w /\ y + 1 \in Nat
    BY <1>2
  <2>2. (y + 1) * w <= w * w
    BY <1>2, <2>1, LessByFactor
  <2>3. (y + 1) * w = y * w + w
    BY <1>2
  <2> QED
    BY <1>2, <1>7, <2>2, <2>3
<1> QED
  BY <1>1, <1>5, <1>8, <1>9

\* The accumulator the products start with.
LEMMA ZeroTriple == <<0, 0, 0>> \in Triples /\ Value(<<0, 0, 0>>) = 0 /\ 0 < W * W
<1>1. W \in Nat /\ W > 1 /\ 0 \in 0 .. W - 1
  BY WordIs
<1>2. <<0, 0, 0>> \in Triples
  BY <1>1 DEF Triples
<1>3. Value(<<0, 0, 0>>) = 0 + 0 * W + 0 * (W * W)
  BY DEF Value
<1>4. W * W \in Nat /\ W * W > 0
  BY <1>1
<1>5. 0 * W = 0 /\ 0 * (W * W) = 0
  BY <1>1, <1>4
<1> QED
  BY <1>2, <1>3, <1>4, <1>5

\* Where the products of column k are.
LEMMA LowestIndexIs ==
  ASSUME NEW len \in Nat, len > 0, NEW k \in 0 .. 2 * len - 2, NEW lo, lo = LowestIndex(k, len)
  PROVE  /\ lo \in Nat /\ k - 2 * lo + 1 \in Nat /\ k - 2 * lo + 1 > 0 /\ k - 2 * lo + 1 <= len
         /\ lo + (k - 2 * lo + 1) <= len
         /\ \A i \in 0 .. len - 1 : k - i \in 0 .. len - 1 <=> i \in lo .. k - lo
<1>1. CASE k < len
  <2>1. lo = 0
    BY <1>1 DEF LowestIndex
  <2> QED
    BY <1>1, <2>1
<1>2. CASE ~(k < len)
  <2>1. lo = k + 1 - len
    BY <1>2 DEF LowestIndex
  <2> QED
    BY <1>2, <2>1
<1> QED
  BY <1>1, <1>2

\* The products of column k, from the lowest index on.
ColumnProducts(a, b, k, lo) == [i \in 0 .. k - 2 * lo |-> a[lo + i + 1] * b[k - lo - i + 1]]

\* They are the products of the row whose two words exist.
LEMMA ColumnIsRow ==
  ASSUME NEW len \in Nat, len > 0, NEW a, a \in Vli(len), NEW b, b \in Vli(len), NEW k \in 0 .. 2 * len - 2,
         NEW lo, lo = LowestIndex(k, len), NEW c, c = k - 2 * lo + 1
  PROVE  /\ SumBelow(Row(a, b, len, k), len) = SumBelow(ColumnProducts(a, b, k, lo), c)
         /\ \A i \in 0 .. c - 1 : /\ lo + i + 1 \in 1 .. len /\ k - lo - i + 1 \in 1 .. len
                                  /\ ColumnProducts(a, b, k, lo)[i] = a[lo + i + 1] * b[k - lo - i + 1]
                                  /\ ColumnProducts(a, b, k, lo)[i] \in Nat
                                  /\ ColumnProducts(a, b, k, lo)[i] + 2 * W <= W * W + 1
<1>1. /\ lo \in Nat /\ c \in Nat /\ c > 0 /\ c <= len /\ lo + c <= len /\ k \in Nat
      /\ \A i \in 0 .. len - 1 : k - i \in 0 .. len - 1 <=> i \in lo .. k - lo
  <2>1. k \in Nat
    OBVIOUS
  <2> QED
    BY <2>1, LowestIndexIs
<1>2. k - 2 * lo = c - 1 /\ k - lo = lo + c - 1
  BY <1>1
<1>3. PICK f, g : f = Row(a, b, len, k) /\ g = ColumnProducts(a, b, k, lo)
  OBVIOUS
<1>4. ASSUME NEW i \in 0 .. len - 1
      PROVE  f[i] = Diagonal(a, b, len, i, k) /\ f[i] \in Int
  BY <1>1, <1>3, DiagonalIs DEF Row
<1>5. ASSUME NEW i \in 0 .. c - 1
      PROVE  /\ lo + i + 1 \in 1 .. len /\ k - lo - i + 1 \in 1 .. len
             /\ g[i] = a[lo + i + 1] * b[k - lo - i + 1] /\ g[i] \in Nat /\ g[i] + 2 * W <= W * W + 1
             /\ g[i] = f[lo + i]
  <2>1. lo + i + 1 \in 1 .. len /\ k - lo - i + 1 \in 1 .. len
    BY <1>1, <1>2
  <2>2. g[i] = a[lo + i + 1] * b[k - lo - i + 1]
    BY <1>2, <1>3 DEF ColumnProducts
  <2>3. PICK x, y : x = a[lo + i + 1] /\ y = b[k - lo - i + 1]
    OBVIOUS
  <2>4. x \in Nat /\ x < W /\ y \in Nat /\ y < W
    BY <2>1, <2>3, WordsAre
  <2>5. x * y \in Nat /\ x * y + 2 * W <= W * W + 1
    BY <2>4, WordIs, ProductBelow
  <2>6. PICK j : j = lo + i
    OBVIOUS
  <2>7. j \in 0 .. len - 1 /\ j \in lo .. k - lo /\ k - j + 1 = k - lo - i + 1
    BY <1>1, <1>2, <2>6
  <2>8. f[j] = a[j + 1] * b[k - j + 1]
    <3>1. k - j \in 0 .. len - 1
      BY <1>1, <2>7
    <3> QED
      BY <1>4, <2>7, <3>1 DEF Diagonal
  <2>9. f[lo + i] = x * y
    BY <2>3, <2>6, <2>7, <2>8
  <2> QED
    BY <2>1, <2>2, <2>3, <2>5, <2>9
<1>6. Window(f, len, lo, g, c)
  <2>1. ASSUME NEW i \in 0 .. lo - 1
        PROVE  f[i] = 0
    <3>1. i \in 0 .. len - 1 /\ ~(i \in lo .. k - lo)
      BY <1>1
    <3> QED
      BY <1>1, <1>4, <3>1 DEF Diagonal
  <2>2. ASSUME NEW i \in lo + c .. len - 1
        PROVE  f[i] = 0
    <3>1. i \in 0 .. len - 1 /\ ~(i \in lo .. k - lo)
      BY <1>1, <1>2
    <3> QED
      BY <1>1, <1>4, <3>1 DEF Diagonal
  <2>3. Summands(f, len)
    BY <1>4 DEF Summands
  <2> QED
    BY <1>1, <1>5, <2>1, <2>2, <2>3 DEF Window
<1>7. SumBelow(f, len) = SumBelow(g, c)
  BY <1>1, <1>6, SumWindow
<1> QED
  BY <1>3, <1>5, <1>7

\* A column's accumulator, round after round.
MultColumnAfter(a, b, k, lo, rounds, t) ==
    After(rounds, t, LAMBDA s, i : muladd(a[lo + i + 1], b[k - lo - i + 1], s))
MultColumnRun(f, a, b, k, lo, rounds, t) ==
    /\ f[0] = t /\ \A i \in 1 .. rounds : f[i] = muladd(a[lo + (i - 1) + 1], b[k - lo - (i - 1) + 1], f[i - 1])
    /\ MultColumnAfter(a, b, k, lo, rounds, t) = f[rounds]

\* The recursion of the loop.
LEMMA MultColumnLoop ==
  ASSUME NEW len \in Nat, NEW a, a \in Vli(len), NEW b, b \in Vli(len), NEW k \in Nat, NEW lo \in Nat,
         NEW rounds \in Nat, NEW t \in Triples,
         \A i \in 0 .. rounds - 1 : lo + i + 1 \in 1 .. len /\ k - lo - i + 1 \in 1 .. len
  PROVE  \E f \in [0 .. rounds -> Triples] : MultColumnRun(f, a, b, k, lo, rounds, t)
<1> DEFINE next(i, v) == muladd(a[lo + (i - 1) + 1], b[k - lo - (i - 1) + 1], v)
           S == Triples
           start == t
           K == rounds
           g == [q \in (1 .. K) \X S |-> next(q[1], q[2])]
           Body(c) == [i \in 0 .. K |-> IF i = 0 THEN start ELSE next(i, c[i - 1])]
           s == CHOOSE c : c = Body(c)
<1>1. K \in Nat
  OBVIOUS
<1>2. start \in S
  OBVIOUS
<1>3. ASSUME NEW i \in 1 .. K, NEW v \in S
      PROVE  next(i, v) \in S
  <2>1. PICK x, y : x = a[lo + (i - 1) + 1] /\ y = b[k - lo - (i - 1) + 1]
    OBVIOUS
  <2>2. x \in Nat /\ y \in Nat
    <3>1. i - 1 \in 0 .. rounds - 1
      OBVIOUS
    <3>2. lo + (i - 1) + 1 \in 1 .. len /\ k - lo - (i - 1) + 1 \in 1 .. len
      BY <3>1
    <3> QED
      BY <2>1, <3>2, WordsAre
  <2>3. x * y \in Nat
    BY <2>2
  <2>4. AddToLow(v, x * y, 0) \in Triples
    BY <2>3, 0 \in Nat, AddTyped
  <2> QED
    BY <2>1, <2>4 DEF muladd
<1>4. MultColumnAfter(a, b, k, lo, rounds, t) = s[K]
  BY DEF MultColumnAfter, After
<1>5. g \in [(1 .. K) \X S -> S] /\ \A i \in 1 .. K, v \in S : g[<<i, v>>] = next(i, v)
  BY <1>3
<1> HIDE DEF g, next, S, start, K
<1>6. PICK h \in [0 .. K -> S] : Stepwise(h, K, start, g)
  BY <1>1, <1>2, <1>5, Recursion, Zenon
<1>7. ASSUME NEW i \in 1 .. K
      PROVE  h[i] = next(i, h[i - 1])
  <2>1. i - 1 \in 0 .. K
    BY <1>1
  <2>2. h[i - 1] \in S
    BY <2>1
  <2>3. g[<<i, h[i - 1]>>] = next(i, h[i - 1])
    BY <1>5, <2>2, Zenon
  <2>4. h[i] = g[<<i, h[i - 1]>>]
    BY <1>6, Zenon DEF Stepwise
  <2> QED
    BY <2>3, <2>4, Zenon
<1>8. h = Body(h)
  <2>1. h[0] = start
    BY <1>6 DEF Stepwise
  <2> QED
    BY <1>1, <1>7, <2>1
<1>9. s = Body(s)
  BY <1>8
<1> HIDE DEF s
<1>10. s[0] = start /\ \A i \in 1 .. K : s[i] = next(i, s[i - 1])
  <2>1. 0 \in 0 .. K /\ \A i \in 1 .. K : i \in 0 .. K /\ i # 0
    BY <1>1
  <2> QED
    BY <1>9, <2>1
<1> DEFINE T == {i \in 0 .. K : s[i] \in S}
<1>11. 0 \in T
  BY <1>1, <1>2, <1>10
<1>12. ASSUME NEW i \in 0 .. K - 1, i \in T
       PROVE  i + 1 \in T
  <2>1. i + 1 \in 1 .. K /\ i + 1 \in 0 .. K /\ (i + 1) - 1 = i
    BY <1>1
  <2>2. s[i + 1] = next(i + 1, s[i]) /\ s[i] \in S
    BY <1>10, <1>12, <2>1
  <2>3. g[<<i + 1, s[i]>>] = next(i + 1, s[i]) /\ g[<<i + 1, s[i]>>] \in S
    BY <1>5, <2>1, <2>2
  <2> QED
    BY <2>1, <2>2, <2>3
<1> HIDE DEF T
<1>13. \A i \in 0 .. K : i \in T
  BY <1>1, <1>11, <1>12, UpToInduction
<1>14. s[0] = start /\ (\A i \in 1 .. K : s[i] = next(i, s[i - 1])) /\ \A i \in 0 .. K : s[i] \in S
  BY <1>10, <1>13 DEF T
<1>15. s \in [0 .. rounds -> Triples]
  BY <1>9, <1>14 DEF K, S
<1> QED
  BY <1>4, <1>14, <1>15 DEF K, start, next, MultColumnRun

MultColumn(a, b, len, k, t) ==
    MultColumnAfter(a, b, k, LowestIndex(k, len), k - 2 * LowestIndex(k, len) + 1, t)

\* A column adds its products.
LEMMA MultColumnIs ==
  ASSUME NEW len \in Nat, len > 0, len < W, NEW a, a \in Vli(len), NEW b, b \in Vli(len),
         NEW k \in 0 .. 2 * len - 2, NEW t \in Triples, Value(t) < W * W
  PROVE  /\ MultColumn(a, b, len, k, t) \in Triples
         /\ Value(MultColumn(a, b, len, k, t)) = Value(t) + SumBelow(Row(a, b, len, k), len)
<1>1. PICK lo, c : lo = LowestIndex(k, len) /\ c = k - 2 * lo + 1
  OBVIOUS
<1>2. lo \in Nat /\ c \in Nat /\ c <= len /\ k \in Nat
  <2>1. k \in Nat
    OBVIOUS
  <2> QED
    BY <1>1, <2>1, LowestIndexIs
<1>3. PICK e : e = ColumnProducts(a, b, k, lo)
  OBVIOUS
<1>4. /\ SumBelow(Row(a, b, len, k), len) = SumBelow(e, c)
      /\ \A i \in 0 .. c - 1 : /\ lo + i + 1 \in 1 .. len /\ k - lo - i + 1 \in 1 .. len
                               /\ e[i] = a[lo + i + 1] * b[k - lo - i + 1]
                               /\ e[i] \in Nat /\ e[i] + 2 * W <= W * W + 1
  BY <1>1, <1>3, ColumnIsRow
<1>5. PICK f \in [0 .. c -> Triples] : MultColumnRun(f, a, b, k, lo, c, t)
  <2>1. \A i \in 0 .. c - 1 : lo + i + 1 \in 1 .. len /\ k - lo - i + 1 \in 1 .. len
    BY <1>4
  <2> QED
    BY <1>2, <2>1, MultColumnLoop
<1>6. MultColumn(a, b, len, k, t) = f[c] /\ f[0] = t
  BY <1>1, <1>5 DEF MultColumn, MultColumnRun
<1>7. PICK w, m : w = W /\ m = W * W
  OBVIOUS
<1>8. w \in Nat /\ w > 1 /\ m = w * w /\ m \in Nat /\ c + 1 <= w
  <2>1. w \in Nat /\ w > 1 /\ m = w * w
    BY <1>7, WordIs
  <2>2. m \in Nat
    BY <2>1
  <2>3. c + 1 <= w
    BY <1>2, <1>7, <2>1
  <2> QED
    BY <2>1, <2>2, <2>3
<1>9. SumBelow(e, c) \in Nat /\ SumBelow(e, c) <= c * m
  <2>1. \A i \in 0 .. c - 1 : e[i] \in Nat /\ e[i] <= m
    BY <1>4, <1>7, <1>8
  <2> QED
    BY <1>2, <1>8, <2>1, SumBelowTimes
<1>10. Value(t) \in Nat /\ Value(t) + SumBelow(e, c) < W * (W * W)
  <2>1. Value(t) \in Nat /\ Value(t) < m
    BY <1>7, ValueIs
  <2>2. (c + 1) * m <= w * m /\ (c + 1) * m = c * m + m /\ c * m \in Nat /\ w * m \in Nat
    <3>1. (c + 1) * m <= w * m
      BY <1>2, <1>8, c + 1 \in Nat, LessByFactor
    <3>2. (c + 1) * m = c * m + m /\ c * m \in Nat /\ w * m \in Nat
      BY <1>2, <1>8
    <3> QED
      BY <3>1, <3>2
  <2>3. Value(t) + SumBelow(e, c) < w * m
    BY <1>8, <1>9, <2>1, <2>2
  <2> QED
    BY <1>7, <2>1, <2>3
<1>11. ASSUME NEW i \in 0 .. c - 1, Value(f[i]) + e[i] < W * (W * W)
       PROVE  Value(f[i + 1]) = Value(f[i]) + e[i]
  <2>1. i + 1 \in 1 .. c /\ (i + 1) - 1 = i /\ i \in 0 .. c
    BY <1>2
  <2>2. PICK x, y : x = a[lo + i + 1] /\ y = b[k - lo - i + 1]
    OBVIOUS
  <2>3. x \in Nat /\ x < W /\ y \in Nat /\ y < W /\ e[i] = x * y
    BY <1>4, <2>2, WordsAre
  <2>4. f[i + 1] = muladd(x, y, f[i])
    BY <1>5, <2>1, <2>2 DEF MultColumnRun
  <2>5. f[i] \in Triples
    BY <1>5, <2>1
  <2>6. Value(f[i]) + x * y < W * (W * W)
    BY <1>11, <2>3
  <2> QED
    BY <2>3, <2>4, <2>5, <2>6, MulAddIs
<1>12. Value(f[c]) = Value(f[0]) + SumBelow(e, c)
  <2>1. \A i \in 0 .. c - 1 : e[i] \in Nat
    BY <1>4
  <2>2. Value(f[0]) + SumBelow(e, c) < W * (W * W)
    BY <1>6, <1>10
  <2> QED
    BY <1>2, <1>5, <1>11, <2>1, <2>2, Accumulates
<1>13. f[c] \in Triples
  BY <1>2, <1>5, c \in 0 .. c
<1> QED
  BY <1>4, <1>6, <1>12, <1>13

\* The words that the accumulators leave.
WordsOf(s, len) ==
    SubSeq([i \in 1 .. 2 * len |-> IF i < 2 * len THEN s[i - 1][1] ELSE s[2 * len - 2][2]], 1, 2 * len)

\* They are words, one for each column and one for the rest.
LEMMA WordsOfIs ==
  ASSUME NEW len \in Nat, len > 0, NEW f \in [0 .. 2 * len - 2 -> Triples], NEW o, o = WordsOf(f, len)
  PROVE  o \in Vli(2 * len) /\ WordsLeft(o, f, 2 * len - 2)
<1>1. PICK n \in Nat : n = 2 * len - 2 /\ 2 * len = n + 2 /\ 2 * len - 1 = n + 1
  BY 2 * len - 2 \in Nat
<1> DEFINE g == [i \in 1 .. 2 * len |-> IF i < 2 * len THEN f[i - 1][1] ELSE f[2 * len - 2][2]]
<1>2. ASSUME NEW i \in 1 .. 2 * len
      PROVE  g[i] = (IF i < n + 2 THEN f[i - 1][1] ELSE f[n][2]) /\ g[i] \in 0 .. W - 1
  <2>1. g[i] = IF i < n + 2 THEN f[i - 1][1] ELSE f[n][2]
    BY <1>1
  <2>2. CASE i < n + 2
    <3>1. f[i - 1] \in Triples
      BY <1>1, <2>2
    <3>2. f[i - 1][1] \in 0 .. W - 1
      BY <3>1 DEF Triples
    <3> QED
      BY <2>1, <2>2, <3>2
  <2>3. CASE ~(i < n + 2)
    <3>1. f[n] \in Triples
      BY <1>1
    <3>2. f[n][2] \in 0 .. W - 1
      BY <3>1 DEF Triples
    <3> QED
      BY <2>1, <2>3, <3>2
  <2> QED
    BY <2>2, <2>3
<1>3. g \in [1 .. 2 * len -> 0 .. W - 1]
  BY <1>2
<1>4. o = SubSeq(g, 1, 2 * len)
  BY DEF WordsOf
<1> HIDE DEF g
<1>5. g \in Seq(0 .. W - 1) /\ Len(g) = 2 * len
  BY <1>3, 2 * len \in Nat, FunctionIsSeq
<1>6. o = g
  BY <1>4, <1>5, SubSeqFull
<1>7. o \in Vli(2 * len)
  BY <1>3, <1>6 DEF Vli
<1>8. \A i \in 1 .. n + 1 : o[i] = f[i - 1][1]
  BY <1>1, <1>2, <1>6
<1>9. o[n + 2] = f[n][2]
  BY <1>1, <1>2, <1>6
<1> QED
  BY <1>1, <1>7, <1>8, <1>9 DEF WordsLeft

MultRun(s, a, b, len) ==
    /\ s[0] = MultColumn(a, b, len, 0, <<0, 0, 0>>)
    /\ \A k \in 1 .. 2 * len - 2 : s[k] = MultColumn(a, b, len, k, Moved(s[k - 1]))
    /\ ecdsa_vli_mult(a, b) = WordsOf(s, len)

\* The recursion over the columns of the product.
LEMMA MultLoop ==
  ASSUME NEW len \in Nat, len > 0, len < W, NEW a, a \in Vli(len), NEW b, b \in Vli(len)
  PROVE  \E f \in [0 .. 2 * len - 2 -> Triples] : MultRun(f, a, b, len)
<1>1. Len(a) = len
  BY WordsAre
<1> DEFINE next(i, v) == MultColumn(a, b, Len(a), i, Moved(v))
           S == Triples
           start == MultColumn(a, b, Len(a), 0, <<0, 0, 0>>)
           K == 2 * Len(a) - 2
           g == [q \in (1 .. K) \X S |-> next(q[1], q[2])]
           Body(c) == [i \in 0 .. K |-> IF i = 0 THEN start ELSE next(i, c[i - 1])]
           s == CHOOSE c : c = Body(c)
<1>2. K \in Nat
  BY <1>1
<1>3. start \in S
  <2>1. 0 \in 0 .. 2 * len - 2
    OBVIOUS
  <2> QED
    BY <1>1, <2>1, ZeroTriple, MultColumnIs
<1>4. ASSUME NEW i \in 1 .. K, NEW v \in S
      PROVE  next(i, v) \in S
  <2>1. i \in 0 .. 2 * len - 2
    BY <1>1
  <2>2. Moved(v) \in Triples /\ Value(Moved(v)) < W * W
    BY MovedIs
  <2>3. MultColumn(a, b, len, i, Moved(v)) \in Triples
    BY <2>1, <2>2, MultColumnIs
  <2> QED
    BY <1>1, <2>3
<1>5. ecdsa_vli_mult(a, b) = WordsOf(s, Len(a))
  BY DEF ecdsa_vli_mult, Columns, WordsOf, Array, MultColumn, MultColumnAfter, Moved
<1>6. g \in [(1 .. K) \X S -> S] /\ \A i \in 1 .. K, v \in S : g[<<i, v>>] = next(i, v)
  BY <1>4
<1> HIDE DEF g, next, S, start, K
<1>7. PICK h \in [0 .. K -> S] : Stepwise(h, K, start, g)
  BY <1>2, <1>3, <1>6, Recursion, Zenon
<1>8. ASSUME NEW i \in 1 .. K
      PROVE  h[i] = next(i, h[i - 1])
  <2>1. i - 1 \in 0 .. K
    BY <1>2
  <2>2. h[i - 1] \in S
    BY <2>1
  <2>3. g[<<i, h[i - 1]>>] = next(i, h[i - 1])
    BY <1>6, <2>2, Zenon
  <2>4. h[i] = g[<<i, h[i - 1]>>]
    BY <1>7, Zenon DEF Stepwise
  <2> QED
    BY <2>3, <2>4, Zenon
<1>9. h = Body(h)
  <2>1. h[0] = start
    BY <1>7 DEF Stepwise
  <2> QED
    BY <1>2, <1>8, <2>1
<1>10. s = Body(s)
  BY <1>9
<1> HIDE DEF s
<1>11. s[0] = start /\ \A i \in 1 .. K : s[i] = next(i, s[i - 1])
  <2>1. 0 \in 0 .. K /\ \A i \in 1 .. K : i \in 0 .. K /\ i # 0
    BY <1>2
  <2> QED
    BY <1>10, <2>1
<1> DEFINE T == {i \in 0 .. K : s[i] \in S}
<1>12. 0 \in T
  BY <1>2, <1>3, <1>11
<1>13. ASSUME NEW i \in 0 .. K - 1, i \in T
       PROVE  i + 1 \in T
  <2>1. i + 1 \in 1 .. K /\ i + 1 \in 0 .. K /\ (i + 1) - 1 = i
    BY <1>2
  <2>2. s[i + 1] = next(i + 1, s[i]) /\ s[i] \in S
    BY <1>11, <1>13, <2>1
  <2>3. g[<<i + 1, s[i]>>] = next(i + 1, s[i]) /\ g[<<i + 1, s[i]>>] \in S
    BY <1>6, <2>1, <2>2
  <2> QED
    BY <2>1, <2>2, <2>3
<1> HIDE DEF T
<1>14. \A i \in 0 .. K : i \in T
  BY <1>2, <1>12, <1>13, UpToInduction
<1>15. s[0] = start /\ (\A i \in 1 .. K : s[i] = next(i, s[i - 1])) /\ \A i \in 0 .. K : s[i] \in S
  BY <1>11, <1>14 DEF T
<1>16. K = 2 * len - 2 /\ S = Triples /\ start = MultColumn(a, b, len, 0, <<0, 0, 0>>)
  BY <1>1 DEF K, S, start
<1>17. ASSUME NEW i, NEW v
       PROVE  next(i, v) = MultColumn(a, b, len, i, Moved(v))
  BY <1>1 DEF next
<1>18. s \in [0 .. 2 * len - 2 -> Triples]
  <2>1. s \in [0 .. K -> S]
    BY <1>10, <1>15
  <2> QED
    BY <1>16, <2>1
<1>19. MultRun(s, a, b, len)
  <2>1. \A k \in 1 .. 2 * len - 2 : s[k] = next(k, s[k - 1])
    BY <1>15, <1>16
  <2>2. \A k \in 1 .. 2 * len - 2 : s[k] = MultColumn(a, b, len, k, Moved(s[k - 1]))
    BY <1>17, <2>1
  <2> QED
    BY <1>1, <1>15, <1>16, <1>5, <2>2 DEF MultRun
<1> QED
  BY <1>18, <1>19

\* ecdsa_vli_mult multiplies.
LEMMA MultIs ==
  ASSUME NEW len \in Nat, len > 0, len < W, NEW a, a \in Vli(len), NEW b, b \in Vli(len), NEW o, o = ecdsa_vli_mult(a, b)
  PROVE  o \in Vli(2 * len) /\ Number(o) = Number(a) * Number(b)
<1>1. PICK f \in [0 .. 2 * len - 2 -> Triples] : MultRun(f, a, b, len)
  BY MultLoop
<1>2. PICK n \in Nat : n = 2 * len - 2
  BY 2 * len - 2 \in Nat
<1>3. PICK e : e = [k \in 0 .. n |-> SumBelow(Row(a, b, len, k), len)]
  OBVIOUS
<1>4. ASSUME NEW k \in 0 .. n
      PROVE  e[k] = SumBelow(Row(a, b, len, k), len) /\ e[k] \in Nat
  <2>1. e[k] = SumBelow(Row(a, b, len, k), len)
    BY <1>3
  <2>2. \A i \in 0 .. len - 1 : Row(a, b, len, k)[i] \in Nat
    BY <1>2, k \in Nat, DiagonalIs DEF Row
  <2>3. \A i \in 0 .. len : SumBelow(Row(a, b, len, k), i) \in Nat
    BY <2>2, SumGrows
  <2> QED
    BY <2>1, <2>3
<1>5. Accumulators(f, e, n)
  <2>1. Value(f[0]) = e[0]
    <3>1. f[0] = MultColumn(a, b, len, 0, <<0, 0, 0>>)
      BY <1>1 DEF MultRun
    <3>2. 0 \in 0 .. 2 * len - 2 /\ 0 \in 0 .. n
      BY <1>2
    <3>3. Value(f[0]) = 0 + SumBelow(Row(a, b, len, 0), len)
      BY <3>1, <3>2, ZeroTriple, MultColumnIs
    <3> QED
      BY <1>4, <3>2, <3>3
  <2>2. ASSUME NEW k \in 1 .. n
        PROVE  Value(f[k]) = f[k - 1][2] + f[k - 1][3] * W + e[k]
    <3>1. k \in 0 .. 2 * len - 2 /\ k \in 0 .. n /\ k - 1 \in 0 .. 2 * len - 2 /\ k \in 1 .. 2 * len - 2
      BY <1>2
    <3>2. f[k] = MultColumn(a, b, len, k, Moved(f[k - 1]))
      BY <1>1, <3>1 DEF MultRun
    <3>3. PICK t : t = f[k - 1]
      OBVIOUS
    <3>4. t \in Triples
      BY <1>1, <3>1, <3>3
    <3>5. Moved(t) \in Triples /\ Value(Moved(t)) = t[2] + t[3] * W /\ Value(Moved(t)) < W * W
      BY <3>4, MovedIs
    <3>6. Value(f[k]) = Value(Moved(t)) + SumBelow(Row(a, b, len, k), len)
      BY <3>1, <3>2, <3>3, <3>5, MultColumnIs
    <3> QED
      BY <1>4, <3>1, <3>3, <3>5, <3>6
  <2> QED
    BY <2>1, <2>2 DEF Accumulators
<1>6. o \in Vli(2 * len) /\ WordsLeft(o, f, n)
  BY <1>1, <1>2, WordsOfIs DEF MultRun
<1>7. PICK g : g = [k \in 0 .. n |-> e[k] * Place(k)]
  OBVIOUS
<1>8. SumBelow(g, 2 * len - 1) = Number(a) * Number(b)
  <2>1. g = [k \in 0 .. 2 * len - 2 |-> SumBelow(Row(a, b, len, k), len) * Place(k)]
    BY <1>2, <1>4, <1>7
  <2> QED
    BY <2>1, ColumnsMakeProduct
<1>9. Number(a) * Number(b) < Place(2 * len)
  <2>1. PICK x, y, p : x = Number(a) /\ y = Number(b) /\ p = Place(len)
    OBVIOUS
  <2>2. x \in Nat /\ x < p /\ y \in Nat /\ y < p /\ p \in Nat
    BY <2>1, NumberIs, PlaceIs
  <2>3. x * y + 2 * p <= p * p + 1 /\ x * y \in Nat
    BY <2>2, ProductBelow
  <2>4. Place(2 * len) = p * p
    <3>1. 2 * len = len + len /\ W \in Int
      BY WordIs
    <3> QED
      BY <2>1, <3>1, PowerPlus DEF Place
  <2>5. p * p \in Nat
    BY <2>2
  <2>6. x * y < p * p
    BY <2>2, <2>3, <2>5
  <2> QED
    BY <2>1, <2>4, <2>6
<1>10. Number(o) = SumBelow(g, 2 * len - 1)
  <2>1. \A k \in 0 .. 2 * len - 2 : e[k] \in Nat
    BY <1>2, <1>4
  <2>2. Accumulators(f, e, 2 * len - 2) /\ WordsLeft(o, f, 2 * len - 2)
    BY <1>2, <1>5, <1>6
  <2>3. g = [k \in 0 .. 2 * len - 2 |-> e[k] * Place(k)]
    BY <1>2, <1>7
  <2>4. SumBelow(g, 2 * len - 1) < Place(2 * len)
    BY <1>8, <1>9
  <2> QED
    BY <1>1, <1>6, <2>1, <2>2, <2>3, <2>4, TriplesMake
<1> QED
  BY <1>6, <1>8, <1>10

\* A square adds each mixed product of a column twice, at the lower index.
LEMMA MirroredSum ==
  ASSUME NEW c \in Nat, c > 0, NEW g, \A i \in 0 .. c - 1 : g[i] \in Nat /\ g[c - 1 - i] = g[i],
         NEW d, d = (c - 1) \div 2 + 1,
         NEW e, \A i \in 0 .. d - 1 : e[i] = IF i < c - 1 - i THEN 2 * g[i] ELSE g[i]
  PROVE  SumBelow(e, d) = SumBelow(g, c)
<1>1. PICK h \in Nat : (c = 2 * h /\ d = h /\ h > 0) \/ (c = 2 * h + 1 /\ d = h + 1)
  <2>1. PICK h \in Nat : c = 2 * h \/ c = 2 * h + 1
    BY c \div 2 \in Nat
  <2>2. CASE c = 2 * h
    <3>1. (c - 1) \div 2 = h - 1 /\ h > 0
      BY <2>2
    <3> QED
      BY <2>2, <3>1
  <2>3. CASE c = 2 * h + 1
    <3>1. (c - 1) \div 2 = h
      BY <2>3
    <3> QED
      BY <2>3, <3>1
  <2> QED
    BY <2>1, <2>2, <2>3
<1>2. d \in Nat /\ d <= c /\ h <= d /\ h <= c
  BY <1>1
<1>3. \A i \in 0 .. d - 1 : e[i] \in Int /\ i \in 0 .. c - 1
  <2> SUFFICES ASSUME NEW i \in 0 .. d - 1
               PROVE  e[i] \in Int /\ i \in 0 .. c - 1
    OBVIOUS
  <2>1. i \in 0 .. c - 1
    BY <1>2
  <2>2. PICK x \in Nat : x = g[i]
    BY <2>1
  <2>3. e[i] = 2 * x \/ e[i] = x
    BY <2>2
  <2> QED
    BY <2>1, <2>3
<1>4. Summands(e, d) /\ Summands(g, c)
  BY <1>3 DEF Summands
<1>5. \A k \in 0 .. c : SumBelow(g, k) \in Int
  BY <1>4, SumInt
<1> DEFINE T == {j \in 0 .. h : SumBelow(e, j) = SumBelow(g, j) + SumBelow(g, c) - SumBelow(g, c - j)}
<1>6. 0 \in T
  <2>1. SumBelow(e, 0) = 0 /\ SumBelow(g, 0) = 0 /\ c - 0 = c /\ c \in 0 .. c
    BY SumStep
  <2> QED
    BY <1>5, <2>1
<1>7. ASSUME NEW j \in 0 .. h - 1, j \in T
      PROVE  j + 1 \in T
  <2>1. /\ j \in 0 .. d - 1 /\ j \in 0 .. c - 1 /\ j < c - 1 - j /\ j + 1 \in 0 .. h /\ c - 1 - j \in 0 .. c - 1
        /\ (c - 1 - j) + 1 = c - j /\ c - (j + 1) = c - 1 - j /\ j \in 0 .. c /\ c \in 0 .. c /\ c - j \in 0 .. c /\ c - 1 - j \in 0 .. c
    BY <1>1, <1>2
  <2>2. SumBelow(e, j + 1) = SumBelow(e, j) + e[j]
    BY <1>2, <1>4, <2>1, SumNext
  <2>3. SumBelow(g, j + 1) = SumBelow(g, j) + g[j]
    BY <1>4, <2>1, SumNext
  <2>4. SumBelow(g, c - j) = SumBelow(g, c - 1 - j) + g[c - 1 - j]
    BY <1>4, <2>1, SumNext
  <2>5. PICK x \in Nat : x = g[j] /\ g[c - 1 - j] = x /\ e[j] = 2 * x
    BY <2>1
  <2>6. PICK p, q, r, s : p = SumBelow(g, j) /\ q = SumBelow(g, c) /\ r = SumBelow(g, c - 1 - j) /\ s = SumBelow(g, c - j)
    OBVIOUS
  <2>7. p \in Int /\ q \in Int /\ r \in Int /\ s = r + x
    BY <1>5, <2>1, <2>4, <2>5, <2>6
  <2>8. SumBelow(e, j) = p + q - s
    BY <1>7, <2>6
  <2>9. SumBelow(e, j + 1) = p + q - s + 2 * x /\ SumBelow(g, j + 1) = p + x
    BY <2>2, <2>3, <2>5, <2>6, <2>8
  <2>10. p + q - s + 2 * x = (p + x) + q - r
    BY <2>7
  <2> QED
    BY <2>1, <2>6, <2>9, <2>10
<1> HIDE DEF T
<1>8. h \in T
  <2>1. \A j \in 0 .. h : j \in T
    BY <1>6, <1>7, UpToInduction
  <2> QED
    BY <2>1
<1>9. SumBelow(e, h) = SumBelow(g, h) + SumBelow(g, c) - SumBelow(g, c - h)
  BY <1>8 DEF T
<1>10. SumBelow(g, h) \in Int /\ SumBelow(g, c) \in Int
  BY <1>2, <1>5
<1>11. CASE c = 2 * h /\ d = h
  <2>1. c - h = h
    BY <1>11
  <2> QED
    BY <1>9, <1>10, <1>11, <2>1
<1>12. CASE c = 2 * h + 1 /\ d = h + 1
  <2>1. c - h = h + 1 /\ h \in 0 .. d - 1 /\ h \in 0 .. c - 1 /\ ~(h < c - 1 - h)
    BY <1>12
  <2>2. SumBelow(g, h + 1) = SumBelow(g, h) + g[h] /\ SumBelow(e, h + 1) = SumBelow(e, h) + e[h]
    BY <1>2, <1>4, <2>1, SumNext
  <2>3. PICK x \in Nat : x = g[h] /\ e[h] = x
    BY <2>1
  <2>4. PICK p, q : p = SumBelow(g, h) /\ q = SumBelow(g, c)
    OBVIOUS
  <2>5. SumBelow(e, h + 1) = p + q - (p + x) + x
    BY <1>9, <2>1, <2>2, <2>3, <2>4
  <2>6. p + q - (p + x) + x = q
    BY <1>10, <2>4
  <2> QED
    BY <1>12, <2>4, <2>5, <2>6
<1> QED
  BY <1>1, <1>11, <1>12

\* mul2add adds twice a product exactly while three words hold the sum.
LEMMA Mul2AddIs ==
  ASSUME NEW x \in Nat, x < W, NEW y \in Nat, y < W, NEW r \in Triples, NEW t, t = mul2add(x, y, r)
  PROVE  t \in Triples /\ (Value(r) + 2 * (x * y) < W * (W * W) => Value(t) = Value(r) + 2 * (x * y))
<1>1. PICK m, z : m = W * W /\ z = 2 * (x * y)
  OBVIOUS
<1>2. m \in Nat /\ m > 0 /\ z \in Nat
  <2>1. W \in Nat /\ W > 0
    BY WordIs
  <2>2. x * y \in Nat /\ W * W \in Nat /\ W * W > 0
    BY <2>1
  <2> QED
    BY <1>1, <2>2
<1>3. PICK p \in Nat, q \in Nat : p = z % m /\ q = z \div m /\ p < m /\ z = m * q + p
  BY <1>2, DigitsOf
<1>4. t = AddToLow(r, p, q)
  BY <1>1, <1>3 DEF mul2add
<1>5. t \in Triples
  BY <1>4, AddTyped
<1>6. ASSUME Value(r) + z < W * (W * W)
      PROVE  Value(t) = Value(r) + z
  <2>1. m * q = q * m /\ q * m \in Nat /\ Value(r) \in Nat
    BY <1>2, ValueIs
  <2>2. Value(r) + p + q * m = Value(r) + z
    BY <1>2, <1>3, <2>1
  <2>3. Value(r) + p + q * (W * W) < W * (W * W) /\ p < W * W
    BY <1>1, <1>3, <1>6, <2>2
  <2>4. Value(t) = Value(r) + p + q * (W * W)
    BY <1>4, <2>3, AddToLowIs
  <2> QED
    BY <1>1, <2>2, <2>4
<1> QED
  BY <1>1, <1>5, <1>6

SquareAdd(a, s, i, j) == IF i < j THEN mul2add(a[i + 1], a[j + 1], s) ELSE muladd(a[i + 1], a[j + 1], s)

\* A product of the square is added once or twice.
LEMMA SquareAddIs ==
  ASSUME NEW len \in Nat, NEW a, a \in Vli(len), NEW s \in Triples, NEW i \in Int, NEW j \in Int,
         i + 1 \in 1 .. len, j + 1 \in 1 .. len, NEW t, t = SquareAdd(a, s, i, j),
         NEW e, e = (IF i < j THEN 2 * (a[i + 1] * a[j + 1]) ELSE a[i + 1] * a[j + 1])
  PROVE  t \in Triples /\ (Value(s) + e < W * (W * W) => Value(t) = Value(s) + e)
<1>1. PICK x, y : x = a[i + 1] /\ y = a[j + 1]
  OBVIOUS
<1>2. x \in Nat /\ x < W /\ y \in Nat /\ y < W
  BY <1>1, WordsAre
<1>3. CASE i < j
  <2>1. t = mul2add(x, y, s) /\ e = 2 * (x * y)
    BY <1>1, <1>3 DEF SquareAdd
  <2> QED
    BY <1>2, <2>1, Mul2AddIs
<1>4. CASE ~(i < j)
  <2>1. t = muladd(x, y, s) /\ e = x * y
    BY <1>1, <1>4 DEF SquareAdd
  <2>2. x * y \in Nat
    BY <1>2
  <2>3. t \in Triples
    BY <2>1, <2>2, 0 \in Nat, AddTyped DEF muladd
  <2>4. ASSUME Value(s) + e < W * (W * W)
        PROVE  Value(t) = Value(s) + e
    BY <1>2, <2>1, <2>4, MulAddIs
  <2> QED
    BY <2>3, <2>4
<1> QED
  BY <1>3, <1>4

SquareColumnAfter(a, k, lo, rounds, t) ==
    After(rounds, t, LAMBDA s, i : SquareAdd(a, s, lo + i, k - lo - i))
SquareColumnRun(f, a, k, lo, rounds, t) ==
    /\ f[0] = t /\ \A i \in 1 .. rounds : f[i] = SquareAdd(a, f[i - 1], lo + (i - 1), k - lo - (i - 1))
    /\ SquareColumnAfter(a, k, lo, rounds, t) = f[rounds]

\* The recursion of the loop of ecdsa_vli_square.
LEMMA SquareColumnLoop ==
  ASSUME NEW len \in Nat, NEW a, a \in Vli(len), NEW k \in Nat, NEW lo \in Nat,
         NEW rounds \in Nat, NEW t \in Triples,
         \A i \in 0 .. rounds - 1 : lo + i + 1 \in 1 .. len /\ k - lo - i + 1 \in 1 .. len
  PROVE  \E f \in [0 .. rounds -> Triples] : SquareColumnRun(f, a, k, lo, rounds, t)
<1> DEFINE next(i, v) == SquareAdd(a, v, lo + (i - 1), k - lo - (i - 1))
           S == Triples
           start == t
           K == rounds
           g == [q \in (1 .. K) \X S |-> next(q[1], q[2])]
           Body(c) == [i \in 0 .. K |-> IF i = 0 THEN start ELSE next(i, c[i - 1])]
           s == CHOOSE c : c = Body(c)
<1>1. K \in Nat
  OBVIOUS
<1>2. start \in S
  OBVIOUS
<1>3. ASSUME NEW i \in 1 .. K, NEW v \in S
      PROVE  next(i, v) \in S
  <2>1. PICK x \in Int, y \in Int : x = lo + (i - 1) /\ y = k - lo - (i - 1)
    OBVIOUS
  <2>2. x + 1 \in 1 .. len /\ y + 1 \in 1 .. len
    <3>1. i - 1 \in 0 .. rounds - 1
      OBVIOUS
    <3> QED
      BY <2>1, <3>1
  <2>3. SquareAdd(a, v, x, y) \in Triples
    BY <2>2, SquareAddIs
  <2> QED
    BY <2>1, <2>3
<1>4. SquareColumnAfter(a, k, lo, rounds, t) = s[K]
  BY DEF SquareColumnAfter, After
<1>5. g \in [(1 .. K) \X S -> S] /\ \A i \in 1 .. K, v \in S : g[<<i, v>>] = next(i, v)
  BY <1>3
<1> HIDE DEF g, next, S, start, K
<1>6. PICK h \in [0 .. K -> S] : Stepwise(h, K, start, g)
  BY <1>1, <1>2, <1>5, Recursion, Zenon
<1>7. ASSUME NEW i \in 1 .. K
      PROVE  h[i] = next(i, h[i - 1])
  <2>1. i - 1 \in 0 .. K
    BY <1>1
  <2>2. h[i - 1] \in S
    BY <2>1
  <2>3. g[<<i, h[i - 1]>>] = next(i, h[i - 1])
    BY <1>5, <2>2, Zenon
  <2>4. h[i] = g[<<i, h[i - 1]>>]
    BY <1>6, Zenon DEF Stepwise
  <2> QED
    BY <2>3, <2>4, Zenon
<1>8. h = Body(h)
  <2>1. h[0] = start
    BY <1>6 DEF Stepwise
  <2> QED
    BY <1>1, <1>7, <2>1
<1>9. s = Body(s)
  BY <1>8
<1> HIDE DEF s
<1>10. s[0] = start /\ \A i \in 1 .. K : s[i] = next(i, s[i - 1])
  <2>1. 0 \in 0 .. K /\ \A i \in 1 .. K : i \in 0 .. K /\ i # 0
    BY <1>1
  <2> QED
    BY <1>9, <2>1
<1> DEFINE T == {i \in 0 .. K : s[i] \in S}
<1>11. 0 \in T
  BY <1>1, <1>2, <1>10
<1>12. ASSUME NEW i \in 0 .. K - 1, i \in T
       PROVE  i + 1 \in T
  <2>1. i + 1 \in 1 .. K /\ i + 1 \in 0 .. K /\ (i + 1) - 1 = i
    BY <1>1
  <2>2. s[i + 1] = next(i + 1, s[i]) /\ s[i] \in S
    BY <1>10, <1>12, <2>1
  <2>3. g[<<i + 1, s[i]>>] = next(i + 1, s[i]) /\ g[<<i + 1, s[i]>>] \in S
    BY <1>5, <2>1, <2>2
  <2> QED
    BY <2>1, <2>2, <2>3
<1> HIDE DEF T
<1>13. \A i \in 0 .. K : i \in T
  BY <1>1, <1>11, <1>12, UpToInduction
<1>14. s[0] = start /\ (\A i \in 1 .. K : s[i] = next(i, s[i - 1])) /\ \A i \in 0 .. K : s[i] \in S
  BY <1>10, <1>13 DEF T
<1>15. s \in [0 .. rounds -> Triples]
  BY <1>9, <1>14 DEF K, S
<1> QED
  BY <1>4, <1>14, <1>15 DEF K, start, next, SquareColumnRun

SquareColumn(a, len, k, t) ==
    SquareColumnAfter(a, k, LowestIndex(k, len), k \div 2 - LowestIndex(k, len) + 1, t)

\* A column of the square adds what the column of the product adds.
LEMMA SquareColumnIs ==
  ASSUME NEW len \in Nat, len > 0, len < W, NEW a, a \in Vli(len),
         NEW k \in 0 .. 2 * len - 2, NEW t \in Triples, Value(t) < W * W
  PROVE  /\ SquareColumn(a, len, k, t) \in Triples
         /\ Value(SquareColumn(a, len, k, t)) = Value(t) + SumBelow(Row(a, a, len, k), len)
<1>1. PICK lo, c, d : lo = LowestIndex(k, len) /\ c = k - 2 * lo + 1 /\ d = k \div 2 - lo + 1
  OBVIOUS
<1>2. lo \in Nat /\ c \in Nat /\ c > 0 /\ c <= len /\ k \in Nat
  <2>1. k \in Nat
    OBVIOUS
  <2> QED
    BY <1>1, <2>1, LowestIndexIs
<1>3. d = (c - 1) \div 2 + 1 /\ d \in Nat /\ d <= c
  <2>1. k = (c - 1) + 2 * lo
    BY <1>1, <1>2
  <2>2. k \div 2 = (c - 1) \div 2 + lo
    BY <1>2, <2>1
  <2>3. (c - 1) \div 2 \in Nat /\ (c - 1) \div 2 <= c - 1
    BY <1>2
  <2> QED
    BY <1>1, <1>2, <2>2, <2>3
<1>4. PICK g : g = ColumnProducts(a, a, k, lo)
  OBVIOUS
<1>5. /\ SumBelow(Row(a, a, len, k), len) = SumBelow(g, c)
      /\ \A i \in 0 .. c - 1 : /\ lo + i + 1 \in 1 .. len /\ k - lo - i + 1 \in 1 .. len
                               /\ g[i] = a[lo + i + 1] * a[k - lo - i + 1]
                               /\ g[i] \in Nat /\ g[i] + 2 * W <= W * W + 1
  BY <1>1, <1>4, ColumnIsRow
<1>6. ASSUME NEW i \in 0 .. c - 1
      PROVE  g[c - 1 - i] = g[i]
  <2>1. c - 1 - i \in 0 .. c - 1 /\ lo + (c - 1 - i) + 1 = k - lo - i + 1 /\ k - lo - (c - 1 - i) + 1 = lo + i + 1
    BY <1>1, <1>2
  <2>2. PICK x, y : x = a[lo + i + 1] /\ y = a[k - lo - i + 1]
    OBVIOUS
  <2>3. x \in Nat /\ y \in Nat
    BY <1>5, <2>2, WordsAre
  <2>4. g[i] = x * y /\ g[c - 1 - i] = y * x
    BY <1>5, <2>1, <2>2
  <2> QED
    BY <2>3, <2>4
<1>7. PICK e : e = [i \in 0 .. d - 1 |-> IF i < c - 1 - i THEN 2 * g[i] ELSE g[i]]
  OBVIOUS
<1>8. ASSUME NEW i \in 0 .. d - 1
      PROVE  e[i] = (IF i < c - 1 - i THEN 2 * g[i] ELSE g[i]) /\ e[i] \in Nat /\ i \in 0 .. c - 1
  <2>1. i \in 0 .. c - 1
    BY <1>2, <1>3
  <2>2. e[i] = IF i < c - 1 - i THEN 2 * g[i] ELSE g[i]
    BY <1>7
  <2>3. PICK x \in Nat : x = g[i]
    BY <1>5, <2>1
  <2>4. 2 * x \in Nat
    OBVIOUS
  <2> QED
    BY <2>1, <2>2, <2>3, <2>4
<1>9. SumBelow(e, d) = SumBelow(g, c)
  <2>1. \A i \in 0 .. c - 1 : g[i] \in Nat /\ g[c - 1 - i] = g[i]
    BY <1>5, <1>6
  <2> QED
    BY <1>2, <1>3, <1>8, <2>1, MirroredSum
<1>10. PICK f \in [0 .. d -> Triples] : SquareColumnRun(f, a, k, lo, d, t)
  <2>1. \A i \in 0 .. d - 1 : lo + i + 1 \in 1 .. len /\ k - lo - i + 1 \in 1 .. len
    BY <1>5, <1>8
  <2> QED
    BY <1>2, <1>3, <2>1, SquareColumnLoop
<1>11. SquareColumn(a, len, k, t) = f[d] /\ f[0] = t
  BY <1>1, <1>10 DEF SquareColumn, SquareColumnRun
<1>12. PICK w, m : w = W /\ m = W * W
  OBVIOUS
<1>13. w \in Nat /\ w > 1 /\ m = w * w /\ m \in Nat /\ c + 1 <= w
  <2>1. w \in Nat /\ w > 1 /\ m = w * w
    BY <1>12, WordIs
  <2>2. m \in Nat
    BY <2>1
  <2>3. c + 1 <= w
    BY <1>2, <1>12, <2>1
  <2> QED
    BY <2>1, <2>2, <2>3
<1>14. SumBelow(g, c) \in Nat /\ SumBelow(g, c) <= c * m
  <2>1. \A i \in 0 .. c - 1 : g[i] \in Nat /\ g[i] <= m
    BY <1>5, <1>12, <1>13
  <2> QED
    BY <1>2, <1>13, <2>1, SumBelowTimes
<1>15. Value(t) \in Nat /\ Value(t) + SumBelow(e, d) < W * (W * W)
  <2>1. Value(t) \in Nat /\ Value(t) < m
    BY <1>12, ValueIs
  <2>2. (c + 1) * m <= w * m
    BY <1>2, <1>13, c + 1 \in Nat, LessByFactor
  <2>3. (c + 1) * m = c * m + m /\ c * m \in Nat /\ w * m \in Nat
    BY <1>2, <1>13
  <2>4. Value(t) + SumBelow(g, c) < w * m
    BY <1>13, <1>14, <2>1, <2>2, <2>3
  <2> QED
    BY <1>9, <1>12, <2>1, <2>4
<1>16. ASSUME NEW i \in 0 .. d - 1, Value(f[i]) + e[i] < W * (W * W)
       PROVE  Value(f[i + 1]) = Value(f[i]) + e[i]
  <2>1. i + 1 \in 1 .. d /\ (i + 1) - 1 = i /\ i \in 0 .. d
    BY <1>3
  <2>2. PICK x \in Int, y \in Int : x = lo + i /\ y = k - lo - i
    BY <1>2
  <2>3. x + 1 \in 1 .. len /\ y + 1 \in 1 .. len /\ g[i] = a[x + 1] * a[y + 1]
    BY <1>5, <1>8, <2>2
  <2>4. x < y <=> i < c - 1 - i
    <3>1. i \in Int /\ lo \in Int /\ k \in Int /\ c \in Int
      BY <1>2
    <3>2. c = k - 2 * lo + 1
      BY <1>1
    <3> HIDE <1>1
    <3> QED
      BY <2>2, <3>1, <3>2
  <2>5. e[i] = IF x < y THEN 2 * (a[x + 1] * a[y + 1]) ELSE a[x + 1] * a[y + 1]
    BY <1>8, <2>3, <2>4
  <2>6. f[i + 1] = SquareAdd(a, f[i], x, y)
    BY <1>10, <2>1, <2>2 DEF SquareColumnRun
  <2>7. f[i] \in Triples
    BY <1>10, <2>1
  <2> QED
    BY <1>16, <2>3, <2>5, <2>6, <2>7, SquareAddIs
<1>17. Value(f[d]) = Value(f[0]) + SumBelow(e, d)
  <2>1. \A i \in 0 .. d - 1 : e[i] \in Nat
    BY <1>8
  <2>2. Value(f[0]) + SumBelow(e, d) < W * (W * W)
    BY <1>11, <1>15
  <2> QED
    BY <1>3, <1>10, <1>16, <2>1, <2>2, Accumulates
<1>18. f[d] \in Triples
  BY <1>3, <1>10, d \in 0 .. d
<1> QED
  BY <1>5, <1>9, <1>11, <1>17, <1>18

SquareRun(s, a, len) ==
    /\ s[0] = SquareColumn(a, len, 0, <<0, 0, 0>>)
    /\ \A k \in 1 .. 2 * len - 2 : s[k] = SquareColumn(a, len, k, Moved(s[k - 1]))
    /\ ecdsa_vli_square(a) = WordsOf(s, len)

\* The recursion over the columns of the square.
LEMMA SquareLoop ==
  ASSUME NEW len \in Nat, len > 0, len < W, NEW a, a \in Vli(len)
  PROVE  \E f \in [0 .. 2 * len - 2 -> Triples] : SquareRun(f, a, len)
<1>1. Len(a) = len
  BY WordsAre
<1> DEFINE next(i, v) == SquareColumn(a, Len(a), i, Moved(v))
           S == Triples
           start == SquareColumn(a, Len(a), 0, <<0, 0, 0>>)
           K == 2 * Len(a) - 2
           g == [q \in (1 .. K) \X S |-> next(q[1], q[2])]
           Body(c) == [i \in 0 .. K |-> IF i = 0 THEN start ELSE next(i, c[i - 1])]
           s == CHOOSE c : c = Body(c)
<1>2. K \in Nat
  BY <1>1
<1>3. start \in S
  <2>1. 0 \in 0 .. 2 * len - 2
    OBVIOUS
  <2> QED
    BY <1>1, <2>1, ZeroTriple, SquareColumnIs
<1>4. ASSUME NEW i \in 1 .. K, NEW v \in S
      PROVE  next(i, v) \in S
  <2>1. i \in 0 .. 2 * len - 2
    BY <1>1
  <2>2. Moved(v) \in Triples /\ Value(Moved(v)) < W * W
    BY MovedIs
  <2>3. SquareColumn(a, len, i, Moved(v)) \in Triples
    BY <2>1, <2>2, SquareColumnIs
  <2> QED
    BY <1>1, <2>3
<1>5. ecdsa_vli_square(a) = WordsOf(s, Len(a))
  BY DEF ecdsa_vli_square, Columns, WordsOf, Array, SquareColumn, SquareColumnAfter, SquareAdd, Moved
<1>6. g \in [(1 .. K) \X S -> S] /\ \A i \in 1 .. K, v \in S : g[<<i, v>>] = next(i, v)
  BY <1>4
<1> HIDE DEF g, next, S, start, K
<1>7. PICK h \in [0 .. K -> S] : Stepwise(h, K, start, g)
  BY <1>2, <1>3, <1>6, Recursion, Zenon
<1>8. ASSUME NEW i \in 1 .. K
      PROVE  h[i] = next(i, h[i - 1])
  <2>1. i - 1 \in 0 .. K
    BY <1>2
  <2>2. h[i - 1] \in S
    BY <2>1
  <2>3. g[<<i, h[i - 1]>>] = next(i, h[i - 1])
    BY <1>6, <2>2, Zenon
  <2>4. h[i] = g[<<i, h[i - 1]>>]
    BY <1>7, Zenon DEF Stepwise
  <2> QED
    BY <2>3, <2>4, Zenon
<1>9. h = Body(h)
  <2>1. h[0] = start
    BY <1>7 DEF Stepwise
  <2> QED
    BY <1>2, <1>8, <2>1
<1>10. s = Body(s)
  BY <1>9
<1> HIDE DEF s
<1>11. s[0] = start /\ \A i \in 1 .. K : s[i] = next(i, s[i - 1])
  <2>1. 0 \in 0 .. K /\ \A i \in 1 .. K : i \in 0 .. K /\ i # 0
    BY <1>2
  <2> QED
    BY <1>10, <2>1
<1> DEFINE T == {i \in 0 .. K : s[i] \in S}
<1>12. 0 \in T
  BY <1>2, <1>3, <1>11
<1>13. ASSUME NEW i \in 0 .. K - 1, i \in T
       PROVE  i + 1 \in T
  <2>1. i + 1 \in 1 .. K /\ i + 1 \in 0 .. K /\ (i + 1) - 1 = i
    BY <1>2
  <2>2. s[i + 1] = next(i + 1, s[i]) /\ s[i] \in S
    BY <1>11, <1>13, <2>1
  <2>3. g[<<i + 1, s[i]>>] = next(i + 1, s[i]) /\ g[<<i + 1, s[i]>>] \in S
    BY <1>6, <2>1, <2>2
  <2> QED
    BY <2>1, <2>2, <2>3
<1> HIDE DEF T
<1>14. \A i \in 0 .. K : i \in T
  BY <1>2, <1>12, <1>13, UpToInduction
<1>15. s[0] = start /\ (\A i \in 1 .. K : s[i] = next(i, s[i - 1])) /\ \A i \in 0 .. K : s[i] \in S
  BY <1>11, <1>14 DEF T
<1>16. K = 2 * len - 2 /\ S = Triples /\ start = SquareColumn(a, len, 0, <<0, 0, 0>>)
  BY <1>1 DEF K, S, start
<1>17. ASSUME NEW i, NEW v
       PROVE  next(i, v) = SquareColumn(a, len, i, Moved(v))
  BY <1>1 DEF next
<1>18. s \in [0 .. 2 * len - 2 -> Triples]
  <2>1. s \in [0 .. K -> S]
    BY <1>10, <1>15
  <2> QED
    BY <1>16, <2>1
<1>19. SquareRun(s, a, len)
  <2>1. \A k \in 1 .. 2 * len - 2 : s[k] = next(k, s[k - 1])
    BY <1>15, <1>16
  <2>2. \A k \in 1 .. 2 * len - 2 : s[k] = SquareColumn(a, len, k, Moved(s[k - 1]))
    BY <1>17, <2>1
  <2> QED
    BY <1>1, <1>15, <1>16, <1>5, <2>2 DEF SquareRun
<1> QED
  BY <1>18, <1>19

\* ecdsa_vli_square squares.
LEMMA SquareIs ==
  ASSUME NEW len \in Nat, len > 0, len < W, NEW a, a \in Vli(len), NEW o, o = ecdsa_vli_square(a)
  PROVE  o \in Vli(2 * len) /\ Number(o) = Number(a) * Number(a)
<1>1. PICK f \in [0 .. 2 * len - 2 -> Triples] : SquareRun(f, a, len)
  BY SquareLoop
<1>2. PICK n \in Nat : n = 2 * len - 2
  BY 2 * len - 2 \in Nat
<1>3. PICK e : e = [k \in 0 .. n |-> SumBelow(Row(a, a, len, k), len)]
  OBVIOUS
<1>4. ASSUME NEW k \in 0 .. n
      PROVE  e[k] = SumBelow(Row(a, a, len, k), len) /\ e[k] \in Nat
  <2>1. e[k] = SumBelow(Row(a, a, len, k), len)
    BY <1>3
  <2>2. \A i \in 0 .. len - 1 : Row(a, a, len, k)[i] \in Nat
    BY <1>2, k \in Nat, DiagonalIs DEF Row
  <2>3. \A i \in 0 .. len : SumBelow(Row(a, a, len, k), i) \in Nat
    BY <2>2, SumGrows
  <2> QED
    BY <2>1, <2>3
<1>5. Accumulators(f, e, n)
  <2>1. Value(f[0]) = e[0]
    <3>1. f[0] = SquareColumn(a, len, 0, <<0, 0, 0>>)
      BY <1>1 DEF SquareRun
    <3>2. 0 \in 0 .. 2 * len - 2 /\ 0 \in 0 .. n
      BY <1>2
    <3>3. Value(f[0]) = 0 + SumBelow(Row(a, a, len, 0), len)
      BY <3>1, <3>2, ZeroTriple, SquareColumnIs
    <3> QED
      BY <1>4, <3>2, <3>3
  <2>2. ASSUME NEW k \in 1 .. n
        PROVE  Value(f[k]) = f[k - 1][2] + f[k - 1][3] * W + e[k]
    <3>1. k \in 0 .. 2 * len - 2 /\ k \in 0 .. n /\ k - 1 \in 0 .. 2 * len - 2 /\ k \in 1 .. 2 * len - 2
      BY <1>2
    <3>2. f[k] = SquareColumn(a, len, k, Moved(f[k - 1]))
      BY <1>1, <3>1 DEF SquareRun
    <3>3. PICK t : t = f[k - 1]
      OBVIOUS
    <3>4. t \in Triples
      BY <1>1, <3>1, <3>3
    <3>5. Moved(t) \in Triples /\ Value(Moved(t)) = t[2] + t[3] * W /\ Value(Moved(t)) < W * W
      BY <3>4, MovedIs
    <3>6. Value(f[k]) = Value(Moved(t)) + SumBelow(Row(a, a, len, k), len)
      BY <3>1, <3>2, <3>3, <3>5, SquareColumnIs
    <3> QED
      BY <1>4, <3>1, <3>3, <3>5, <3>6
  <2> QED
    BY <2>1, <2>2 DEF Accumulators
<1>6. o \in Vli(2 * len) /\ WordsLeft(o, f, n)
  BY <1>1, <1>2, WordsOfIs DEF SquareRun
<1>7. PICK g : g = [k \in 0 .. n |-> e[k] * Place(k)]
  OBVIOUS
<1>8. SumBelow(g, 2 * len - 1) = Number(a) * Number(a)
  <2>1. g = [k \in 0 .. 2 * len - 2 |-> SumBelow(Row(a, a, len, k), len) * Place(k)]
    BY <1>2, <1>4, <1>7
  <2> QED
    BY <2>1, ColumnsMakeProduct
<1>9. Number(a) * Number(a) < Place(2 * len)
  <2>1. PICK x, y, p : x = Number(a) /\ y = Number(a) /\ p = Place(len)
    OBVIOUS
  <2>2. x \in Nat /\ x < p /\ y \in Nat /\ y < p /\ p \in Nat
    BY <2>1, NumberIs, PlaceIs
  <2>3. x * y + 2 * p <= p * p + 1 /\ x * y \in Nat
    BY <2>2, ProductBelow
  <2>4. Place(2 * len) = p * p
    <3>1. 2 * len = len + len /\ W \in Int
      BY WordIs
    <3> QED
      BY <2>1, <3>1, PowerPlus DEF Place
  <2>5. p * p \in Nat
    BY <2>2
  <2>6. x * y < p * p
    BY <2>2, <2>3, <2>5
  <2> QED
    BY <2>1, <2>4, <2>6
<1>10. Number(o) = SumBelow(g, 2 * len - 1)
  <2>1. \A k \in 0 .. 2 * len - 2 : e[k] \in Nat
    BY <1>2, <1>4
  <2>2. Accumulators(f, e, 2 * len - 2) /\ WordsLeft(o, f, 2 * len - 2)
    BY <1>2, <1>5, <1>6
  <2>3. g = [k \in 0 .. 2 * len - 2 |-> e[k] * Place(k)]
    BY <1>2, <1>7
  <2>4. SumBelow(g, 2 * len - 1) < Place(2 * len)
    BY <1>8, <1>9
  <2> QED
    BY <1>1, <1>6, <2>1, <2>2, <2>3, <2>4, TriplesMake
<1> QED
  BY <1>6, <1>8, <1>10

-----------------------------------------------------------------------------
(* The inverse: what the loop keeps.                                        *)

\* An array is even when its lowest word is.
LEMMA EvenIs ==
  ASSUME NEW len \in Nat, len > 0, NEW a, a \in Vli(len)
  PROVE  Even(a) <=> Number(a) % 2 = 0
<1> DEFINE T == {k \in 0 .. len - 1 : \E q \in Nat : Lowest(a, k + 1) = a[1] + 2 * q}
<1>1. PICK h \in Nat : W = 2 * h
  BY WordIs
<1>2. 0 \in T
  <2>1. Lowest(a, 0 + 1) = Lowest(a, 0) + a[0 + 1] * Place(0)
    BY 0 \in 0 .. len - 1, LowestIs
  <2>2. Lowest(a, 0) = 0 /\ Place(0) = 1 /\ a[1] \in Nat
    BY 1 \in 1 .. len, LowestIs, PlaceIs, WordsAre
  <2>3. Lowest(a, 0 + 1) = a[1] + 2 * 0
    BY <2>1, <2>2
  <2> QED
    BY <2>3, 0 \in 0 .. len - 1
<1>3. ASSUME NEW k \in 0 .. (len - 1) - 1, k \in T
      PROVE  k + 1 \in T
  <2>1. PICK q \in Nat : Lowest(a, k + 1) = a[1] + 2 * q
    BY <1>3
  <2>2. k \in Nat /\ k + 1 \in 0 .. len - 1 /\ (k + 1) + 1 \in 1 .. len
    OBVIOUS
  <2>3. Lowest(a, (k + 1) + 1) = Lowest(a, k + 1) + a[(k + 1) + 1] * Place(k + 1)
    BY <2>2, LowestIs
  <2>4. PICK p \in Nat : Place(k) = p
    BY <2>2, PlaceIs
  <2>5. PICK w \in Nat : a[(k + 1) + 1] = w
    BY <2>2, WordsAre
  <2>6. Place(k + 1) = (2 * h) * p
    BY <1>1, <2>2, <2>4, PlaceIs
  <2>7. w * ((2 * h) * p) = 2 * (w * (h * p)) /\ w * (h * p) \in Nat
    OBVIOUS
  <2>8. a[1] \in Nat
    BY 1 \in 1 .. len, WordsAre
  <2>9. PICK r \in Nat : r = w * (h * p)
    BY <2>7
  <2>10. Lowest(a, (k + 1) + 1) = (a[1] + 2 * q) + 2 * r
    BY <2>1, <2>3, <2>5, <2>6, <2>7, <2>9
  <2>11. Lowest(a, (k + 1) + 1) = a[1] + 2 * (q + r) /\ q + r \in Nat
    BY <2>8, <2>10
  <2> QED
    BY <2>2, <2>11
<1>4. len - 1 \in Nat
  OBVIOUS
<1> HIDE DEF T
<1>5. \A k \in 0 .. len - 1 : k \in T
  BY <1>2, <1>3, <1>4, UpToInduction
<1>6. len - 1 \in T /\ (len - 1) + 1 = len
  BY <1>5
<1>7. PICK q \in Nat : Lowest(a, len) = a[1] + 2 * q
  BY <1>6 DEF T
<1>8. Number(a) = a[1] + 2 * q /\ a[1] \in Nat
  BY <1>7, 1 \in 1 .. len, LowestIs, WordsAre
<1> QED
  BY <1>8 DEF Even

\* The sum over the lowest words only depends on them.
LEMMA SameLowest ==
  ASSUME NEW len \in Nat, NEW a, a \in Vli(len), NEW b, b \in Vli(len),
         NEW k \in 0 .. len, \A i \in 1 .. k : a[i] = b[i]
  PROVE  Lowest(a, k) = Lowest(b, k)
<1>1. PICK c : c = SubSeq(a, 1, k)
  OBVIOUS
<1>2. PICK d : d = SubSeq(b, 1, k)
  OBVIOUS
<1>3. c \in Vli(k) /\ (\A i \in 1 .. k : c[i] = a[i]) /\ Number(c) = Lowest(a, k)
  <2>1. SubSeq(a, 1, k) \in Vli(k) /\ (\A i \in 1 .. k : SubSeq(a, 1, k)[i] = a[i]) /\ Number(SubSeq(a, 1, k)) = Lowest(a, k)
    BY PrefixIs
  <2> QED
    BY <1>1, <2>1, Zenon
<1>4. d \in Vli(k) /\ (\A i \in 1 .. k : d[i] = b[i]) /\ Number(d) = Lowest(b, k)
  <2>1. SubSeq(b, 1, k) \in Vli(k) /\ (\A i \in 1 .. k : SubSeq(b, 1, k)[i] = b[i]) /\ Number(SubSeq(b, 1, k)) = Lowest(b, k)
    BY PrefixIs
  <2> QED
    BY <1>2, <2>1, Zenon
<1>5. c = d
  <2>1. PICK S : S = 1 .. k
    OBVIOUS
  <2>2. c \in [S -> 0 .. W - 1] /\ d \in [S -> 0 .. W - 1]
    BY <1>3, <1>4, <2>1 DEF Vli
  <2>3. \A i \in S : c[i] = d[i]
    BY <1>3, <1>4, <2>1
  <2> QED
    BY <2>2, <2>3
<1> QED
  BY <1>3, <1>4, <1>5

\* vli_modInv_update halves modulo an odd number.
LEMMA UpdateIs ==
  ASSUME NEW len \in Nat, len > 0, NEW uv, uv \in Vli(len), NEW mod, mod \in Vli(len),
         Number(uv) < Number(mod), Number(mod) % 2 = 1, NEW r, r = vli_modInv_update(uv, mod)
  PROVE  /\ r \in Vli(len) /\ Number(r) < Number(mod)
         /\ 2 * Number(r) = Number(uv) \/ 2 * Number(r) = Number(uv) + Number(mod)
<1>1. PICK sum : sum = IF Even(uv) THEN [out |-> uv, carry |-> 0] ELSE ecdsa_vli_add(uv, mod)
  OBVIOUS
<1>2. PICK u \in Nat, m \in Nat, p \in Nat : u = Number(uv) /\ m = Number(mod) /\ p = Place(len - 1)
  BY len - 1 \in Nat, NumberIs, PlaceIs
<1>3. PICK h \in Nat : h = W \div 2 /\ W = 2 * h /\ h > 0
  BY WordIs
<1>4. Place(len) = 2 * (h * p) /\ h * p \in Nat
  <2>1. len - 1 \in Nat /\ (len - 1) + 1 = len
    OBVIOUS
  <2>2. Place(len) = W * p
    BY <1>2, <2>1, PlaceIs
  <2> QED
    BY <1>3, <2>2
<1>5. PICK hp \in Nat : hp = h * p
  BY <1>4
<1>6. u < m /\ m % 2 = 1
  BY <1>2
<1>7. /\ sum.out \in Vli(len) /\ sum.carry \in {0, 1}
      /\ \E t \in Nat : Number(sum.out) + sum.carry * (2 * hp) = t /\ t % 2 = 0 /\ (t = u \/ t = u + m)
  <2>1. CASE Even(uv)
    <3>1. sum.out = uv /\ sum.carry = 0
      BY <1>1, <2>1
    <3>2. u % 2 = 0
      BY <1>2, <2>1, EvenIs
    <3>3. Number(sum.out) + sum.carry * (2 * hp) = u
      BY <1>2, <3>1
    <3> QED
      BY <3>1, <3>2, <3>3
  <2>2. CASE ~Even(uv)
    <3>1. sum = ecdsa_vli_add(uv, mod)
      BY <1>1, <2>2
    <3>2. sum.out \in Vli(len) /\ sum.carry \in {0, 1} /\ Number(sum.out) + sum.carry * Place(len) = u + m
      BY <1>2, <3>1, AddIs
    <3>3. u % 2 # 0
      BY <1>2, <2>2, EvenIs
    <3>4. (u + m) % 2 = 0 /\ u + m \in Nat
      BY <1>6, <3>3
    <3> QED
      BY <1>4, <1>5, <3>2, <3>4
  <2> QED
    BY <2>1, <2>2
<1>8. PICK t \in Nat : Number(sum.out) + sum.carry * (2 * hp) = t /\ t % 2 = 0 /\ (t = u \/ t = u + m)
  BY <1>7
<1>9. PICK s \in Nat, c \in {0, 1} : s = Number(sum.out) /\ c = sum.carry
  BY <1>7, NumberIs
<1>10. PICK o : o = ecdsa_vli_rshift1(sum.out)
  OBVIOUS
<1>11. o \in Vli(len) /\ Number(o) = s \div 2
  BY <1>7, <1>9, <1>10, HalfIs
<1>12. 2 * (s \div 2 + c * hp) = t
  <2>1. s + c * (2 * hp) = t /\ t % 2 = 0
    BY <1>8, <1>9
  <2>2. CASE c = 0
    <3>1. s = t
      BY <2>1, <2>2
    <3> QED
      BY <2>1, <2>2, <3>1
  <2>3. CASE c = 1
    <3>1. s + 2 * hp = t
      BY <2>1, <2>3
    <3>2. s % 2 = 0
      BY <2>1, <3>1
    <3>3. 2 * (s \div 2) = s
      BY <3>2
    <3> QED
      BY <2>3, <3>1, <3>3
  <2> QED
    BY <2>2, <2>3
<1>13. r = [o EXCEPT ![len] = @ + c * h]
  BY <1>1, <1>3, <1>9, <1>10, WordsAre DEF vli_modInv_update
<1>14. o[len] \in Nat /\ o[len] < h
  <2>1. sum.out[len] \in Nat /\ sum.out[len] < W
    BY <1>7, len \in 1 .. len, WordsAre
  <2>2. o[len] = sum.out[len] \div 2 + 0
    BY <1>7, <1>10, len \in 1 .. len, WordsAre DEF ecdsa_vli_rshift1
  <2> QED
    BY <1>3, <2>1, <2>2
<1>15. r \in Vli(len) /\ r[len] = o[len] + c * h /\ \A i \in 1 .. len - 1 : r[i] = o[i]
  <2>1. o \in [1 .. len -> 0 .. W - 1]
    BY <1>11 DEF Vli
  <2>2. o[len] + c * h \in 0 .. W - 1
    BY <1>3, <1>9, <1>14
  <2> QED
    BY <1>13, <2>1, <2>2 DEF Vli
<1>16. Number(r) = Number(o) + c * hp
  <2>1. Number(r) = Lowest(r, len - 1) + r[len] * p /\ Number(o) = Lowest(o, len - 1) + o[len] * p
    <3>1. len - 1 \in 0 .. len - 1 /\ (len - 1) + 1 = len
      OBVIOUS
    <3> QED
      BY <1>2, <1>11, <1>15, <3>1, LowestIs
  <2>2. Lowest(r, len - 1) = Lowest(o, len - 1) /\ Lowest(o, len - 1) \in Int
    <3>1. PICK k \in 0 .. len : k = len - 1
      OBVIOUS
    <3>2. Lowest(r, k) = Lowest(o, k)
      BY <1>11, <1>15, <3>1, SameLowest
    <3> QED
      BY <1>11, <3>1, <3>2, LowestIs
  <2>3. PICK x \in Nat : x = o[len]
    BY <1>14
  <2>4. (x + c * h) * p = x * p + c * (h * p)
    BY <1>9
  <2>5. x * p \in Int /\ c * hp \in Int
    BY <1>9
  <2> QED
    BY <1>5, <1>15, <2>1, <2>2, <2>3, <2>4, <2>5
<1>17. 2 * Number(r) = t /\ Number(r) \in Nat
  BY <1>11, <1>12, <1>15, <1>16, NumberIs
<1> QED
  BY <1>2, <1>6, <1>8, <1>15, <1>17

Congruent(p, q, m) == \E k \in Int : p = q + k * m

\* The difference of two numbers below mod, halved modulo mod.
LEMMA ModHalvedIs ==
  ASSUME NEW len \in Nat, len > 0, NEW x, x \in Vli(len), NEW y, y \in Vli(len), NEW mod, mod \in Vli(len),
         Number(x) < Number(mod), Number(y) < Number(mod), Number(mod) % 2 = 1,
         NEW r, r = ModHalvedDifference(x, y, mod)
  PROVE  /\ r \in Vli(len) /\ Number(r) < Number(mod)
         /\ Congruent(2 * Number(r), Number(x) - Number(y), Number(mod))
<1>1. PICK u \in Nat, v \in Nat, m \in Nat, p \in Nat :
         u = Number(x) /\ v = Number(y) /\ m = Number(mod) /\ p = Place(len) /\ m < p
  BY NumberIs, PlaceIs
<1>2. u < m /\ v < m /\ m % 2 = 1
  BY <1>1
<1>3. PICK big : big = IF ecdsa_vli_cmp_unsafe(x, y) < 0 THEN ecdsa_vli_add(x, mod).out ELSE x
  OBVIOUS
<1>4. PICK d : d = ecdsa_vli_sub(big, y)
  OBVIOUS
<1>5. r = vli_modInv_update(d.out, mod)
  BY <1>3, <1>4 DEF ModHalvedDifference
<1>6. \E k \in {0, 1} : d.out \in Vli(len) /\ Number(d.out) = u - v + k * m /\ Number(d.out) < m
  <2>1. CASE u < v
    <3>1. ecdsa_vli_cmp_unsafe(x, y) = -1
      BY <1>1, <2>1, UnsafeIs
    <3>2. PICK s : s = ecdsa_vli_add(x, mod)
      OBVIOUS
    <3>3. big = s.out
      BY <1>3, <3>1, <3>2
    <3>4. s.out \in Vli(len) /\ s.carry \in {0, 1} /\ Number(s.out) + s.carry * p = u + m
      BY <1>1, <3>2, AddIs
    <3>5. d.out \in Vli(len) /\ d.carry \in {0, 1} /\ Number(d.out) - d.carry * p = Number(s.out) - v
      BY <1>1, <1>4, <3>3, <3>4, SubIs
    <3>6. Number(d.out) \in Nat /\ Number(d.out) < p /\ Number(s.out) \in Nat
      BY <1>1, <3>4, <3>5, NumberIs
    <3>7. Number(d.out) = u - v + m
      BY <1>1, <1>2, <2>1, <3>4, <3>5, <3>6
    <3>8. Number(d.out) = u - v + 1 * m /\ Number(d.out) < m
      BY <1>2, <2>1, <3>7
    <3> QED
      BY <3>5, <3>8
  <2>2. CASE ~(u < v)
    <3>1. ~(ecdsa_vli_cmp_unsafe(x, y) < 0)
      BY <1>1, <2>2, UnsafeIs
    <3>2. big = x
      BY <1>3, <3>1
    <3>3. d.out \in Vli(len) /\ d.carry \in {0, 1} /\ Number(d.out) - d.carry * p = u - v
      BY <1>1, <1>4, <3>2, SubIs
    <3>4. Number(d.out) \in Nat /\ Number(d.out) < p
      BY <1>1, <3>3, NumberIs
    <3>5. Number(d.out) = u - v
      BY <1>1, <1>2, <2>2, <3>3, <3>4
    <3>6. Number(d.out) = u - v + 0 * m /\ Number(d.out) < m
      BY <1>2, <2>2, <3>5
    <3> QED
      BY <3>3, <3>6
  <2> QED
    BY <2>1, <2>2
<1>7. PICK k \in {0, 1} : d.out \in Vli(len) /\ Number(d.out) = u - v + k * m /\ Number(d.out) < m
  BY <1>6
<1>8. /\ r \in Vli(len) /\ Number(r) < m
      /\ 2 * Number(r) = Number(d.out) \/ 2 * Number(r) = Number(d.out) + m
  <2>1. Number(d.out) < Number(mod) /\ Number(mod) % 2 = 1 /\ d.out \in Vli(len)
    BY <1>1, <1>7
  <2>2. /\ r \in Vli(len) /\ Number(r) < Number(mod)
        /\ 2 * Number(r) = Number(d.out) \/ 2 * Number(r) = Number(d.out) + Number(mod)
    BY <1>5, <2>1, UpdateIs
  <2> QED
    BY <1>1, <2>2
<1>9. 2 * Number(r) = u - v + k * m \/ 2 * Number(r) = u - v + (k + 1) * m
  BY <1>7, <1>8
<1> QED
  <2>1. Congruent(2 * Number(r), u - v, m)
    BY <1>9, k \in Int, k + 1 \in Int DEF Congruent
  <2> QED
    BY <1>1, <1>8, <2>1

\* A larger array minus a smaller one, halved.
LEMMA HalvedDifferenceIs ==
  ASSUME NEW len \in Nat, NEW x, x \in Vli(len), NEW y, y \in Vli(len), Number(y) <= Number(x),
         NEW r, r = HalvedDifference(x, y)
  PROVE  r \in Vli(len) /\ Number(r) = (Number(x) - Number(y)) \div 2
<1>1. PICK d : d = ecdsa_vli_sub(x, y)
  OBVIOUS
<1>2. PICK u \in Nat, v \in Nat, p \in Nat : u = Number(x) /\ v = Number(y) /\ p = Place(len) /\ u < p
  BY NumberIs, PlaceIs
<1>3. d.out \in Vli(len) /\ d.carry \in {0, 1} /\ Number(d.out) - d.carry * p = u - v
  BY <1>1, <1>2, SubIs
<1>4. Number(d.out) \in Nat /\ Number(d.out) < p
  BY <1>2, <1>3, NumberIs
<1>5. Number(d.out) = u - v
  BY <1>2, <1>3, <1>4
<1> QED
  BY <1>1, <1>2, <1>3, <1>5, HalfIs DEF HalvedDifference

\* What the loop of ecdsa_vli_modInv keeps, of the numbers a, b, u, v: x times u is
\* a and x times v is b modulo m, and no factor of a and b is lost or gained.
Coprime(p, q) ==
    \A d \in Nat : (\E i \in Nat : p = d * i) /\ (\E j \in Nat : q = d * j) => d = 1

Kept(a, b, u, v, x, m) ==
    /\ a > 0 /\ b > 0 /\ u < m /\ v < m /\ (a % 2 = 1 \/ b % 2 = 1)
    /\ Congruent(a, u * x, m) /\ Congruent(b, v * x, m) /\ Coprime(a, b)

\* What is congruent after doubling is congruent, modulo an odd number.
LEMMA HalfCongruent ==
  ASSUME NEW p \in Int, NEW q \in Int, NEW k \in Int, NEW m \in Nat, m % 2 = 1, 2 * p = 2 * q + k * m
  PROVE  Congruent(p, q, m)
<1>1. PICK h \in Nat : m = 2 * h + 1
  BY m \div 2 \in Nat
<1>2. PICK e \in Int : e = k * h
  OBVIOUS
<1>3. k * m = 2 * (k * h) + k
  BY <1>1
<1>4. 2 * p = 2 * q + (2 * e + k)
  BY <1>2, <1>3
<1>5. PICK j \in Int : j = p - q - e
  OBVIOUS
<1>6. k = 2 * j
  BY <1>4, <1>5
<1>7. (2 * j) * m = 2 * (j * m) /\ j * m \in Int
  OBVIOUS
<1>8. 2 * p = 2 * q + 2 * (j * m)
  BY <1>6, <1>7
<1>9. p = q + j * m
  BY <1>7, <1>8
<1> QED
  BY <1>9 DEF Congruent

\* The two sides are alike.
LEMMA KeptSwaps ==
  ASSUME NEW a \in Nat, NEW b \in Nat, NEW u \in Nat, NEW v \in Nat, NEW x \in Nat, NEW m \in Nat,
         Kept(a, b, u, v, x, m)
  PROVE  Kept(b, a, v, u, x, m)
BY DEF Kept, Coprime

\* Halving a, or a minus b, keeps it when u follows.
LEMMA KeptHalves ==
  ASSUME NEW a \in Nat, NEW b \in Nat, NEW u \in Nat, NEW v \in Nat, NEW x \in Nat, NEW m \in Nat,
         Kept(a, b, u, v, x, m), m % 2 = 1, b % 2 = 1, NEW less \in {0, 1},
         NEW c \in Nat, c > 0, 2 * c = a - less * b,
         NEW w \in Nat, w < m, Congruent(2 * w, u - less * v, m)
  PROVE  Kept(c, b, w, v, x, m) /\ 2 * (c * b) <= a * b
<1>1. a > 0 /\ b > 0 /\ u < m /\ v < m /\ Congruent(a, u * x, m) /\ Congruent(b, v * x, m) /\ Coprime(a, b)
  BY DEF Kept
<1>2. PICK i \in Int : a = u * x + i * m
  BY <1>1 DEF Congruent
<1>3. PICK j \in Int : b = v * x + j * m
  BY <1>1 DEF Congruent
<1>4. PICK k \in Int : 2 * w = u - less * v + k * m
  BY DEF Congruent
<1>5. Congruent(c, w * x, m)
  <2>1. PICK s \in Int : s = u - less * v
    OBVIOUS
  <2>2. 2 * c = s * x + (i - less * j) * m
    <3>1. CASE less = 0
      <4>1. s = u /\ 2 * c = a /\ i - less * j = i
        BY <2>1, <3>1
      <4> QED
        BY <1>2, <4>1
    <3>2. CASE less = 1
      <4>1. s = u - v /\ 2 * c = a - b /\ i - less * j = i - j
        BY <2>1, <3>2
      <4>2. (u - v) * x = u * x - v * x /\ (i - j) * m = i * m - j * m
        OBVIOUS
      <4>3. u * x \in Int /\ v * x \in Int /\ i * m \in Int /\ j * m \in Int
        OBVIOUS
      <4> QED
        BY <1>2, <1>3, <4>1, <4>2, <4>3
    <3> QED
      BY <3>1, <3>2
  <2>3. PICK e \in Int : e = i - less * j
    OBVIOUS
  <2>4. 2 * w = s + k * m
    BY <1>4, <2>1
  <2>5. 2 * (w * x) = (2 * w) * x
    OBVIOUS
  <2>6. (s + k * m) * x = s * x + (k * x) * m
    OBVIOUS
  <2>7. (e - k * x) * m = e * m - (k * x) * m
    OBVIOUS
  <2>8. s * x \in Int /\ (k * x) * m \in Int /\ e * m \in Int /\ w * x \in Int /\ e - k * x \in Int /\ k * x \in Int
    OBVIOUS
  <2>9. 2 * c = 2 * (w * x) + (e - k * x) * m
    BY <2>2, <2>3, <2>4, <2>5, <2>6, <2>7, <2>8
  <2>10. PICK d \in Int : d = e - k * x
    BY <2>8
  <2>11. 2 * c = 2 * (w * x) + d * m
    BY <2>9, <2>10
  <2> QED
    BY <2>8, <2>11, HalfCongruent
<1>6. Coprime(c, b)
  <2> SUFFICES ASSUME NEW d \in Nat, NEW f \in Nat, c = d * f, NEW g \in Nat, b = d * g
               PROVE  d = 1
    BY DEF Coprime
  <2>1. PICK h \in Nat : h = 2 * f + less * g
    BY 2 * f + less * g \in Nat
  <2>2. a = d * h
    <3>1. CASE less = 0
      <4>1. a = 2 * c /\ h = 2 * f
        BY <2>1, <3>1
      <4>2. 2 * (d * f) = d * (2 * f)
        OBVIOUS
      <4> QED
        BY <4>1, <4>2
    <3>2. CASE less = 1
      <4>1. a = 2 * c + b /\ h = 2 * f + g
        BY <2>1, <3>2
      <4>2. 2 * (d * f) + d * g = d * (2 * f + g)
        OBVIOUS
      <4> QED
        BY <4>1, <4>2
    <3> QED
      BY <3>1, <3>2
  <2> QED
    BY <1>1, <2>2 DEF Coprime
<1>7. 2 * (c * b) <= a * b
  <2>1. 2 * c <= a /\ 2 * c \in Nat
    BY <1>1
  <2>2. (2 * c) * b <= a * b
    BY <2>1, LessByFactor
  <2>3. (2 * c) * b = 2 * (c * b)
    OBVIOUS
  <2> QED
    BY <2>2, <2>3
<1> QED
  BY <1>1, <1>5, <1>6, <1>7 DEF Kept

\* Where a is b, both are 1 and u is the inverse of x.
LEMMA KeptEnds ==
  ASSUME NEW a \in Nat, NEW u \in Nat, NEW v \in Nat, NEW x \in Nat, NEW m \in Nat, m > 1,
         Kept(a, a, u, v, x, m)
  PROVE  (u * x) % m = 1
<1>1. Coprime(a, a) /\ Congruent(a, u * x, m)
  BY DEF Kept
<1>2. a = a * 1
  OBVIOUS
<1>3. a = 1
  BY <1>1, <1>2 DEF Coprime
<1>4. PICK k \in Int : 1 = u * x + k * m
  BY <1>1, <1>3 DEF Congruent
<1>5. PICK y \in Int : y = u * x
  OBVIOUS
<1>6. y = m * (-k) + 1
  <2>1. m * (-k) = -(k * m) /\ k * m \in Int
    OBVIOUS
  <2> QED
    BY <1>4, <1>5, <2>1
<1>7. y % m = 1
  <2>1. PICK q \in Int : q = -k
    BY -k \in Int
  <2>2. y = m * q + 1 /\ 1 \in Int /\ 0 <= 1 /\ 1 < m /\ m > 0
    BY <1>6, <2>1
  <2> QED
    BY <2>2, QuotientIs, Zenon
<1> QED
  BY <1>5, <1>7

\* At the start a is x, b the prime m, u is 1 and v is 0.
LEMMA KeptStarts ==
  ASSUME NEW x \in Nat, x > 0, NEW m \in Nat, x < m, m % 2 = 1, \A d \in 2 .. m - 1 : m % d # 0
  PROVE  Kept(x, m, 1, 0, x, m)
<1>1. Congruent(x, 1 * x, m)
  <2>1. x = 1 * x + 0 * m
    OBVIOUS
  <2> QED
    BY <2>1 DEF Congruent
<1>2. Congruent(m, 0 * x, m)
  <2>1. m = 0 * x + 1 * m
    OBVIOUS
  <2> QED
    BY <2>1 DEF Congruent
<1>3. Coprime(x, m)
  <2> SUFFICES ASSUME NEW d \in Nat, NEW f \in Nat, x = d * f, NEW g \in Nat, m = d * g
               PROVE  d = 1
    BY DEF Coprime
  <2>1. d > 0 /\ f > 0
    <3>1. 0 * f = 0 /\ d * 0 = 0
      OBVIOUS
    <3> QED
      BY <3>1
  <2>2. d <= x
    <3>1. d * 1 <= d * f
      BY <2>1, LessByFactor
    <3> QED
      BY <3>1
  <2>3. m % d = 0
    <3>1. d * g \in Int
      OBVIOUS
    <3>2. m = d * g + 0 /\ 0 \in Int /\ 0 <= 0 /\ 0 < d /\ g \in Int /\ m \in Int
      BY <2>1, <3>1
    <3> QED
      BY <2>1, <3>2, QuotientIs, Zenon
  <2>4. d \in 2 .. m - 1 \/ d = 1
    BY <2>1, <2>2
  <2> QED
    BY <2>3, <2>4, Zenon
<1>4. m > 1
  OBVIOUS
<1> QED
  BY <1>1, <1>2, <1>3, <1>4 DEF Kept

\* Different arrays stand for different numbers.
LEMMA SameNumber ==
  ASSUME NEW len \in Nat, NEW a, a \in Vli(len), NEW b, b \in Vli(len), Number(a) = Number(b)
  PROVE  a = b
<1>1. ecdsa_vli_cmp_unsafe(a, b) = 0
  BY UnsafeIs, NumberIs
<1>2. DOMAIN a = 1 .. len /\ DOMAIN b = 1 .. len
  BY WordsAre
<1>3. {i \in DOMAIN a : a[i] # b[i]} = {}
  <2>1. PICK differ : differ = {i \in DOMAIN a : a[i] # b[i]}
    OBVIOUS
  <2>2. 0 = IF differ = {} THEN 0 ELSE IF a[Max(differ)] > b[Max(differ)] THEN 1 ELSE -1
    BY <1>1, <2>1 DEF ecdsa_vli_cmp_unsafe
  <2>3. ASSUME differ # {}
        PROVE  FALSE
    BY <2>2, <2>3
  <2> QED
    BY <2>1, <2>3
<1>4. \A i \in 1 .. len : a[i] = b[i]
  BY <1>2, <1>3
<1>5. PICK S : S = 1 .. len
  OBVIOUS
<1>6. a \in [S -> 0 .. W - 1] /\ b \in [S -> 0 .. W - 1] /\ \A i \in S : a[i] = b[i]
  BY <1>4, <1>5 DEF Vli
<1> QED
  BY <1>6

\* The states of the loop, and a round that halves the product of a and b.
InvStates(len, x, m) ==
    {s \in [a : Vli(len), b : Vli(len), u : Vli(len), v : Vli(len)] :
        Kept(Number(s.a), Number(s.b), Number(s.u), Number(s.v), x, m)}

InvShrinks(t, r, len, x, m) ==
    r \in InvStates(len, x, m) /\ 2 * (Number(r.a) * Number(r.b)) <= Number(t.a) * Number(t.b)

\* A round that halves a.
LEMMA InvSideA ==
  ASSUME NEW len \in Nat, len > 0, NEW mod, mod \in Vli(len), Number(mod) % 2 = 1, NEW x \in Nat,
         NEW t \in InvStates(len, x, Number(mod)), NEW less \in {0, 1},
         NEW c, c \in Vli(len), Number(c) > 0, 2 * Number(c) = Number(t.a) - less * Number(t.b),
         NEW w, w \in Vli(len), Number(w) < Number(mod), Number(t.b) % 2 = 1,
         Congruent(2 * Number(w), Number(t.u) - less * Number(t.v), Number(mod))
  PROVE  InvShrinks(t, [t EXCEPT !.a = c, !.u = w], len, x, Number(mod))
<1>1. PICK r : r = [t EXCEPT !.a = c, !.u = w]
  OBVIOUS
<1>2. /\ t \in [a : Vli(len), b : Vli(len), u : Vli(len), v : Vli(len)]
      /\ Kept(Number(t.a), Number(t.b), Number(t.u), Number(t.v), x, Number(mod))
  BY DEF InvStates
<1>3. r.a = c /\ r.u = w /\ r.b = t.b /\ r.v = t.v /\ r \in [a : Vli(len), b : Vli(len), u : Vli(len), v : Vli(len)]
  BY <1>1, <1>2
<1>4. PICK a \in Nat, b \in Nat, u \in Nat, v \in Nat, m \in Nat :
         a = Number(t.a) /\ b = Number(t.b) /\ u = Number(t.u) /\ v = Number(t.v) /\ m = Number(mod)
  BY <1>2, NumberIs
<1>5. PICK d \in Nat, z \in Nat : d = Number(c) /\ z = Number(w)
  BY NumberIs
<1>6. Kept(a, b, u, v, x, m)
  BY <1>2, <1>4
<1>7. Congruent(2 * z, u - less * v, m)
  BY <1>4, <1>5
<1>8. d > 0 /\ 2 * d = a - less * b /\ z < m /\ b % 2 = 1 /\ m % 2 = 1
  BY <1>4, <1>5
<1>9. Kept(d, b, z, v, x, m) /\ 2 * (d * b) <= a * b
  BY <1>6, <1>7, <1>8, KeptHalves
<1>10. Kept(Number(r.a), Number(r.b), Number(r.u), Number(r.v), x, Number(mod))
  BY <1>3, <1>4, <1>5, <1>9
<1>11. 2 * (Number(r.a) * Number(r.b)) <= Number(t.a) * Number(t.b)
  BY <1>3, <1>4, <1>5, <1>9
<1> QED
  BY <1>1, <1>3, <1>10, <1>11 DEF InvShrinks, InvStates

\* A round that halves b.
LEMMA InvSideB ==
  ASSUME NEW len \in Nat, len > 0, NEW mod, mod \in Vli(len), Number(mod) % 2 = 1, NEW x \in Nat,
         NEW t \in InvStates(len, x, Number(mod)), NEW less \in {0, 1},
         NEW c, c \in Vli(len), Number(c) > 0, 2 * Number(c) = Number(t.b) - less * Number(t.a),
         NEW w, w \in Vli(len), Number(w) < Number(mod), Number(t.a) % 2 = 1,
         Congruent(2 * Number(w), Number(t.v) - less * Number(t.u), Number(mod))
  PROVE  InvShrinks(t, [t EXCEPT !.b = c, !.v = w], len, x, Number(mod))
<1>1. PICK r : r = [t EXCEPT !.b = c, !.v = w]
  OBVIOUS
<1>2. /\ t \in [a : Vli(len), b : Vli(len), u : Vli(len), v : Vli(len)]
      /\ Kept(Number(t.a), Number(t.b), Number(t.u), Number(t.v), x, Number(mod))
  BY DEF InvStates
<1>3. r.b = c /\ r.v = w /\ r.a = t.a /\ r.u = t.u /\ r \in [a : Vli(len), b : Vli(len), u : Vli(len), v : Vli(len)]
  BY <1>1, <1>2
<1>4. PICK a \in Nat, b \in Nat, u \in Nat, v \in Nat, m \in Nat :
         a = Number(t.b) /\ b = Number(t.a) /\ u = Number(t.v) /\ v = Number(t.u) /\ m = Number(mod)
  BY <1>2, NumberIs
<1>5. PICK d \in Nat, z \in Nat : d = Number(c) /\ z = Number(w)
  BY NumberIs
<1>6. Kept(a, b, u, v, x, m)
  BY <1>2, <1>4, KeptSwaps
<1>7. Congruent(2 * z, u - less * v, m)
  BY <1>4, <1>5
<1>8. d > 0 /\ 2 * d = a - less * b /\ z < m /\ b % 2 = 1 /\ m % 2 = 1
  BY <1>4, <1>5
<1>9. Kept(d, b, z, v, x, m) /\ 2 * (d * b) <= a * b
  BY <1>6, <1>7, <1>8, KeptHalves
<1>10. Kept(Number(r.a), Number(r.b), Number(r.u), Number(r.v), x, Number(mod))
  <2>1. Kept(b, d, v, z, x, m)
    BY <1>9, KeptSwaps
  <2> QED
    BY <1>3, <1>4, <1>5, <2>1
<1>11. 2 * (Number(r.a) * Number(r.b)) <= Number(t.a) * Number(t.b)
  <2>1. d * b = b * d /\ a * b = b * a
    OBVIOUS
  <2> QED
    BY <1>3, <1>4, <1>5, <1>9, <2>1
<1> QED
  BY <1>1, <1>3, <1>10, <1>11 DEF InvShrinks, InvStates

\* A round halves one of them, or ends.
LEMMA InvRoundIs ==
  ASSUME NEW len \in Nat, len > 0, NEW mod, mod \in Vli(len), Number(mod) % 2 = 1, NEW x \in Nat,
         NEW t \in InvStates(len, x, Number(mod))
  PROVE  IF t.a = t.b THEN InvRound(t, mod) = t ELSE InvShrinks(t, InvRound(t, mod), len, x, Number(mod))
<1>1. PICK r : r = InvRound(t, mod)
  OBVIOUS
<1>2. t.a \in Vli(len) /\ t.b \in Vli(len) /\ t.u \in Vli(len) /\ t.v \in Vli(len)
  BY DEF InvStates
<1>3. PICK a \in Nat, b \in Nat, u \in Nat, v \in Nat, m \in Nat :
         a = Number(t.a) /\ b = Number(t.b) /\ u = Number(t.u) /\ v = Number(t.v) /\ m = Number(mod)
  BY <1>2, NumberIs
<1>4. a > 0 /\ b > 0 /\ u < m /\ v < m /\ (a % 2 = 1 \/ b % 2 = 1) /\ m % 2 = 1
  BY <1>3 DEF InvStates, Kept
<1>5. (Even(t.a) <=> a % 2 = 0) /\ (Even(t.b) <=> b % 2 = 0)
  BY <1>2, <1>3, EvenIs
<1>6. CASE t.a = t.b
  BY <1>6 DEF InvRound
<1>7. ASSUME t.a # t.b, Even(t.a)
      PROVE  InvShrinks(t, r, len, x, Number(mod))
  <2>1. PICK c : c = ecdsa_vli_rshift1(t.a)
    OBVIOUS
  <2>2. PICK w : w = vli_modInv_update(t.u, mod)
    OBVIOUS
  <2>3. r = [t EXCEPT !.a = c, !.u = w]
    BY <1>1, <1>7, <2>1, <2>2 DEF InvRound
  <2>4. c \in Vli(len) /\ Number(c) = a \div 2
    BY <1>2, <1>3, <2>1, HalfIs
  <2>5. a % 2 = 0 /\ b % 2 = 1
    BY <1>4, <1>5, <1>7
  <2>6. 2 * Number(c) = a - 0 * b /\ Number(c) > 0
    BY <1>4, <2>4, <2>5
  <2>7. /\ w \in Vli(len) /\ Number(w) < Number(mod)
        /\ 2 * Number(w) = u \/ 2 * Number(w) = u + m
    <3>1. Number(t.u) < Number(mod)
      BY <1>3, <1>4
    <3>2. /\ w \in Vli(len) /\ Number(w) < Number(mod)
          /\ 2 * Number(w) = Number(t.u) \/ 2 * Number(w) = Number(t.u) + Number(mod)
      BY <1>2, <2>2, <3>1, UpdateIs
    <3> QED
      BY <1>3, <3>2
  <2>8. Congruent(2 * Number(w), u - 0 * v, m)
    <3>1. u = u - 0 * v + 0 * m /\ u + m = u - 0 * v + 1 * m
      OBVIOUS
    <3>2. 2 * Number(w) = u - 0 * v + 0 * m \/ 2 * Number(w) = u - 0 * v + 1 * m
      BY <2>7, <3>1
    <3> QED
      BY <3>2, 0 \in Int, 1 \in Int, Zenon DEF Congruent
  <2>9. 2 * Number(c) = Number(t.a) - 0 * Number(t.b) /\ Number(t.b) % 2 = 1
    BY <1>3, <2>5, <2>6
  <2>10. Congruent(2 * Number(w), Number(t.u) - 0 * Number(t.v), Number(mod))
    BY <1>3, <2>8
  <2> QED
    BY <2>3, <2>4, <2>6, <2>7, <2>9, <2>10, InvSideA
<1>8. ASSUME t.a # t.b, ~Even(t.a), Even(t.b)
      PROVE  InvShrinks(t, r, len, x, Number(mod))
  <2>1. PICK c : c = ecdsa_vli_rshift1(t.b)
    OBVIOUS
  <2>2. PICK w : w = vli_modInv_update(t.v, mod)
    OBVIOUS
  <2>3. r = [t EXCEPT !.b = c, !.v = w]
    BY <1>1, <1>8, <2>1, <2>2 DEF InvRound
  <2>4. c \in Vli(len) /\ Number(c) = b \div 2
    BY <1>2, <1>3, <2>1, HalfIs
  <2>5. b % 2 = 0 /\ a % 2 = 1
    BY <1>4, <1>5, <1>8
  <2>6. 2 * Number(c) = b - 0 * a /\ Number(c) > 0
    BY <1>4, <2>4, <2>5
  <2>7. /\ w \in Vli(len) /\ Number(w) < Number(mod)
        /\ 2 * Number(w) = v \/ 2 * Number(w) = v + m
    <3>1. Number(t.v) < Number(mod)
      BY <1>3, <1>4
    <3>2. /\ w \in Vli(len) /\ Number(w) < Number(mod)
          /\ 2 * Number(w) = Number(t.v) \/ 2 * Number(w) = Number(t.v) + Number(mod)
      BY <1>2, <2>2, <3>1, UpdateIs
    <3> QED
      BY <1>3, <3>2
  <2>8. Congruent(2 * Number(w), v - 0 * u, m)
    <3>1. v = v - 0 * u + 0 * m /\ v + m = v - 0 * u + 1 * m
      OBVIOUS
    <3>2. 2 * Number(w) = v - 0 * u + 0 * m \/ 2 * Number(w) = v - 0 * u + 1 * m
      BY <2>7, <3>1
    <3> QED
      BY <3>2, 0 \in Int, 1 \in Int, Zenon DEF Congruent
  <2>9. 2 * Number(c) = Number(t.b) - 0 * Number(t.a) /\ Number(t.a) % 2 = 1
    BY <1>3, <2>5, <2>6
  <2>10. Congruent(2 * Number(w), Number(t.v) - 0 * Number(t.u), Number(mod))
    BY <1>3, <2>8
  <2> QED
    BY <2>3, <2>4, <2>6, <2>7, <2>9, <2>10, InvSideB
<1>9. ASSUME t.a # t.b, ~Even(t.a), ~Even(t.b), ecdsa_vli_cmp_unsafe(t.a, t.b) > 0
      PROVE  InvShrinks(t, r, len, x, Number(mod))
  <2>1. PICK c : c = HalvedDifference(t.a, t.b)
    OBVIOUS
  <2>2. PICK w : w = ModHalvedDifference(t.u, t.v, mod)
    OBVIOUS
  <2>3. r = [t EXCEPT !.a = c, !.u = w]
    BY <1>1, <1>9, <2>1, <2>2 DEF InvRound
  <2>4. a > b
    <3>1. ecdsa_vli_cmp_unsafe(t.a, t.b) = IF a > b THEN 1 ELSE IF a < b THEN -1 ELSE 0
      BY <1>2, <1>3, UnsafeIs
    <3>2. a # b
      BY <1>2, <1>3, <1>9, SameNumber
    <3> QED
      BY <1>9, <3>1, <3>2
  <2>5. c \in Vli(len) /\ Number(c) = (a - b) \div 2
    BY <1>2, <1>3, <2>1, <2>4, HalvedDifferenceIs
  <2>6. a % 2 = 1 /\ b % 2 = 1
    BY <1>4, <1>5, <1>9
  <2>7. 2 * Number(c) = a - 1 * b /\ Number(c) > 0
    BY <2>4, <2>5, <2>6
  <2>8. /\ w \in Vli(len) /\ Number(w) < Number(mod)
        /\ Congruent(2 * Number(w), Number(t.u) - Number(t.v), Number(mod))
    <3>1. Number(t.u) < Number(mod) /\ Number(t.v) < Number(mod)
      BY <1>3, <1>4
    <3> QED
      BY <1>2, <2>2, <3>1, ModHalvedIs
  <2>9. 2 * Number(c) = Number(t.a) - 1 * Number(t.b) /\ Number(t.b) % 2 = 1
    BY <1>3, <2>6, <2>7
  <2>10. Number(t.v) = 1 * Number(t.v)
    BY <1>3
  <2>11. Congruent(2 * Number(w), Number(t.u) - 1 * Number(t.v), Number(mod))
    BY <2>8, <2>10
  <2> QED
    BY <2>3, <2>5, <2>7, <2>8, <2>9, <2>11, InvSideA
<1>10. ASSUME t.a # t.b, ~Even(t.a), ~Even(t.b), ~(ecdsa_vli_cmp_unsafe(t.a, t.b) > 0)
      PROVE  InvShrinks(t, r, len, x, Number(mod))
  <2>1. PICK c : c = HalvedDifference(t.b, t.a)
    OBVIOUS
  <2>2. PICK w : w = ModHalvedDifference(t.v, t.u, mod)
    OBVIOUS
  <2>3. r = [t EXCEPT !.b = c, !.v = w]
    BY <1>1, <1>10, <2>1, <2>2 DEF InvRound
  <2>4. b > a
    <3>1. ecdsa_vli_cmp_unsafe(t.a, t.b) = IF a > b THEN 1 ELSE IF a < b THEN -1 ELSE 0
      BY <1>2, <1>3, UnsafeIs
    <3>2. a # b
      BY <1>2, <1>3, <1>10, SameNumber
    <3> QED
      BY <1>10, <3>1, <3>2
  <2>5. c \in Vli(len) /\ Number(c) = (b - a) \div 2
    BY <1>2, <1>3, <2>1, <2>4, HalvedDifferenceIs
  <2>6. b % 2 = 1 /\ a % 2 = 1
    BY <1>4, <1>5, <1>10
  <2>7. 2 * Number(c) = b - 1 * a /\ Number(c) > 0
    BY <2>4, <2>5, <2>6
  <2>8. /\ w \in Vli(len) /\ Number(w) < Number(mod)
        /\ Congruent(2 * Number(w), Number(t.v) - Number(t.u), Number(mod))
    <3>1. Number(t.v) < Number(mod) /\ Number(t.u) < Number(mod)
      BY <1>3, <1>4
    <3> QED
      BY <1>2, <2>2, <3>1, ModHalvedIs
  <2>9. 2 * Number(c) = Number(t.b) - 1 * Number(t.a) /\ Number(t.a) % 2 = 1
    BY <1>3, <2>6, <2>7
  <2>10. Number(t.u) = 1 * Number(t.u)
    BY <1>3
  <2>11. Congruent(2 * Number(w), Number(t.v) - 1 * Number(t.u), Number(mod))
    BY <2>8, <2>10
  <2> QED
    BY <2>3, <2>5, <2>7, <2>8, <2>9, <2>11, InvSideB
<1> QED
  BY <1>1, <1>6, <1>7, <1>8, <1>9, <1>10

\* The loop of ecdsa_vli_modInv, round after round.
InvAfter(rounds, t, mod) == After(rounds, t, LAMBDA s, i : InvRound(s, mod))

InvRun(f, rounds, t, mod) ==
    /\ f[0] = t /\ \A i \in 1 .. rounds : f[i] = InvRound(f[i - 1], mod)
    /\ InvAfter(rounds, t, mod) = f[rounds]

\* The recursion of the loop.
LEMMA InvLoop ==
  ASSUME NEW len \in Nat, len > 0, NEW mod, mod \in Vli(len), Number(mod) % 2 = 1, NEW x \in Nat,
         NEW t \in InvStates(len, x, Number(mod)), NEW rounds \in Nat
  PROVE  \E f \in [0 .. rounds -> InvStates(len, x, Number(mod))] : InvRun(f, rounds, t, mod)
<1> DEFINE next(i, v) == InvRound(v, mod)
           S == InvStates(len, x, Number(mod))
           start == t
           K == rounds
           g == [q \in (1 .. K) \X S |-> next(q[1], q[2])]
           Body(c) == [i \in 0 .. K |-> IF i = 0 THEN start ELSE next(i, c[i - 1])]
           s == CHOOSE c : c = Body(c)
<1>1. K \in Nat
  OBVIOUS
<1>2. start \in S
  OBVIOUS
<1>3. ASSUME NEW i \in 1 .. K, NEW v \in S
      PROVE  next(i, v) \in S
  BY InvRoundIs DEF InvShrinks
<1>4. InvAfter(rounds, t, mod) = s[K]
  BY DEF InvAfter, After
<1>5. g \in [(1 .. K) \X S -> S] /\ \A i \in 1 .. K, v \in S : g[<<i, v>>] = next(i, v)
  BY <1>3
<1> HIDE DEF g, next, S, start, K
<1>6. PICK h \in [0 .. K -> S] : Stepwise(h, K, start, g)
  BY <1>1, <1>2, <1>5, Recursion, Zenon
<1>7. ASSUME NEW i \in 1 .. K
      PROVE  h[i] = next(i, h[i - 1])
  <2>1. i - 1 \in 0 .. K
    BY <1>1
  <2>2. h[i - 1] \in S
    BY <2>1
  <2>3. g[<<i, h[i - 1]>>] = next(i, h[i - 1])
    BY <1>5, <2>2, Zenon
  <2>4. h[i] = g[<<i, h[i - 1]>>]
    BY <1>6, Zenon DEF Stepwise
  <2> QED
    BY <2>3, <2>4, Zenon
<1>8. h = Body(h)
  <2>1. h[0] = start
    BY <1>6 DEF Stepwise
  <2> QED
    BY <1>1, <1>7, <2>1
<1>9. s = Body(s)
  BY <1>8
<1> HIDE DEF s
<1>10. s[0] = start /\ \A i \in 1 .. K : s[i] = next(i, s[i - 1])
  <2>1. 0 \in 0 .. K /\ \A i \in 1 .. K : i \in 0 .. K /\ i # 0
    BY <1>1
  <2> QED
    BY <1>9, <2>1
<1> DEFINE T == {i \in 0 .. K : s[i] \in S}
<1>11. 0 \in T
  BY <1>1, <1>2, <1>10
<1>12. ASSUME NEW i \in 0 .. K - 1, i \in T
       PROVE  i + 1 \in T
  <2>1. i + 1 \in 1 .. K /\ i + 1 \in 0 .. K /\ (i + 1) - 1 = i
    BY <1>1
  <2>2. s[i + 1] = next(i + 1, s[i]) /\ s[i] \in S
    BY <1>10, <1>12, <2>1
  <2>3. g[<<i + 1, s[i]>>] = next(i + 1, s[i]) /\ g[<<i + 1, s[i]>>] \in S
    BY <1>5, <2>1, <2>2
  <2> QED
    BY <2>1, <2>2, <2>3
<1> HIDE DEF T
<1>13. \A i \in 0 .. K : i \in T
  BY <1>1, <1>11, <1>12, UpToInduction
<1>14. s[0] = start /\ (\A i \in 1 .. K : s[i] = next(i, s[i - 1])) /\ \A i \in 0 .. K : s[i] \in S
  BY <1>10, <1>13 DEF T
<1>15. s \in [0 .. rounds -> InvStates(len, x, Number(mod))]
  BY <1>9, <1>14 DEF K, S
<1> QED
  BY <1>4, <1>14, <1>15 DEF K, start, next, InvRun

\* Each round halves the product of a and b, so the rounds suffice to make them equal.
LEMMA InvEnds ==
  ASSUME NEW len \in Nat, len > 0, NEW mod, mod \in Vli(len), Number(mod) % 2 = 1, NEW x \in Nat,
         NEW t \in InvStates(len, x, Number(mod)), NEW rounds \in Nat,
         Number(t.a) * Number(t.b) < Power(2, rounds)
  PROVE  /\ InvAfter(rounds, t, mod) \in InvStates(len, x, Number(mod))
         /\ InvAfter(rounds, t, mod).a = InvAfter(rounds, t, mod).b
<1>1. PICK S : S = InvStates(len, x, Number(mod))
  OBVIOUS
<1>2. PICK f \in [0 .. rounds -> S] : InvRun(f, rounds, t, mod)
  BY <1>1, InvLoop
<1>3. \A s \in S : Number(s.a) * Number(s.b) \in Nat /\ Number(s.a) * Number(s.b) > 0
  <2> SUFFICES ASSUME NEW s \in S
               PROVE  Number(s.a) * Number(s.b) \in Nat /\ Number(s.a) * Number(s.b) > 0
    OBVIOUS
  <2>1. s.a \in Vli(len) /\ s.b \in Vli(len) /\ Kept(Number(s.a), Number(s.b), Number(s.u), Number(s.v), x, Number(mod))
    BY <1>1 DEF InvStates
  <2>2. PICK a \in Nat, b \in Nat : a = Number(s.a) /\ b = Number(s.b)
    BY <2>1, NumberIs
  <2>3. a > 0 /\ b > 0
    BY <2>1, <2>2 DEF Kept
  <2>4. a * b \in Nat /\ a * b > 0
    BY <2>3
  <2> QED
    BY <2>2, <2>4
<1>4. PICK e \in Nat : e = Number(t.a) * Number(t.b)
  BY <1>1, <1>3
<1> DEFINE T == {i \in 0 .. rounds :
                   f[i].a = f[i].b \/ (Number(f[i].a) * Number(f[i].b)) * Power(2, i) <= e}
<1>5. 0 \in T
  <2>1. f[0] = t /\ Power(2, 0) = 1 /\ 0 \in 0 .. rounds
    BY <1>2, PowerStep DEF InvRun
  <2>2. (Number(f[0].a) * Number(f[0].b)) * Power(2, 0) = e
    BY <1>4, <2>1
  <2> QED
    BY <2>1, <2>2
<1>6. ASSUME NEW i \in 0 .. rounds - 1, i \in T
      PROVE  i + 1 \in T
  <2>1. i + 1 \in 1 .. rounds /\ i + 1 \in 0 .. rounds /\ (i + 1) - 1 = i /\ i \in 0 .. rounds /\ i \in Nat
    OBVIOUS
  <2>2. f[i + 1] = InvRound(f[i], mod) /\ f[i] \in S /\ f[i + 1] \in S
    BY <1>2, <2>1 DEF InvRun
  <2>3. CASE f[i].a = f[i].b
    <3>1. f[i + 1] = f[i]
      BY <1>1, <2>2, <2>3, InvRoundIs
    <3> QED
      BY <2>1, <2>3, <3>1
  <2>4. CASE f[i].a # f[i].b
    <3>1. InvShrinks(f[i], f[i + 1], len, x, Number(mod))
      BY <1>1, <2>2, <2>4, InvRoundIs
    <3>2. PICK y \in Nat : y = Number(f[i].a) * Number(f[i].b)
      BY <1>3, <2>2
    <3>3. PICK z \in Nat : z = Number(f[i + 1].a) * Number(f[i + 1].b)
      BY <1>3, <2>2
    <3>4. 2 * z <= y
      BY <3>1, <3>2, <3>3 DEF InvShrinks
    <3>5. PICK p \in Nat : p = Power(2, i)
      BY <2>1, 2 \in Nat, 2 > 0, PowerPositive
    <3>6. Power(2, i + 1) = 2 * p
      BY <2>1, <3>5, PowerStep
    <3>7. y * p <= e
      BY <1>6, <2>4, <3>2, <3>5
    <3>8. (2 * z) * p <= y * p
      BY <3>4, 2 * z \in Nat, LessByFactor
    <3>9. z * (2 * p) = (2 * z) * p /\ y * p \in Nat /\ (2 * z) * p \in Nat
      OBVIOUS
    <3>10. z * Power(2, i + 1) <= e
      BY <3>6, <3>7, <3>8, <3>9
    <3> QED
      BY <2>1, <3>3, <3>10
  <2> QED
    BY <2>3, <2>4
<1> HIDE DEF T
<1>7. \A i \in 0 .. rounds : i \in T
  BY <1>5, <1>6, UpToInduction
<1>8. rounds \in T /\ rounds \in 0 .. rounds
  BY <1>7
<1>9. f[rounds].a = f[rounds].b
  <2>1. SUFFICES ASSUME (Number(f[rounds].a) * Number(f[rounds].b)) * Power(2, rounds) <= e
                 PROVE  FALSE
    BY <1>8 DEF T
  <2>2. PICK y \in Nat : y = Number(f[rounds].a) * Number(f[rounds].b) /\ y > 0
    BY <1>2, <1>3, <1>8
  <2>3. PICK p \in Nat : p = Power(2, rounds)
    BY 2 \in Nat, 2 > 0, PowerPositive
  <2>4. 1 * p <= y * p
    BY <2>2, LessByFactor
  <2>5. e < p
    BY <1>4, <2>3
  <2>6. y * p <= e /\ y * p \in Nat
    BY <2>1, <2>2, <2>3
  <2> QED
    BY <2>4, <2>5, <2>6
<1>10. InvAfter(rounds, t, mod) = f[rounds] /\ f[rounds] \in S
  BY <1>2, <1>8 DEF InvRun
<1> QED
  BY <1>1, <1>9, <1>10

\* ecdsa_vli_modInv ends with the inverse modulo a prime.
LEMMA InvIs ==
  ASSUME NEW len \in Nat, len > 0, NEW mod, mod \in Vli(len), NEW a, a \in Vli(len), Number(a) < Number(mod),
         Number(mod) % 2 = 1, \A d \in 2 .. Number(mod) - 1 : Number(mod) % d # 0,
         NEW r, r = ecdsa_vli_modInv(a, mod)
  PROVE  r.ended /\ r.out \in Vli(len) /\ (Number(r.out) * Number(a)) % Number(mod) = Bit(Number(a) # 0)
<1>1. PICK x \in Nat, m \in Nat, p \in Nat : x = Number(a) /\ m = Number(mod) /\ p = Place(len) /\ x < p /\ m < p
  BY NumberIs, PlaceIs
<1>2. x < m /\ m % 2 = 1
  BY <1>1
<1>3. Len(mod) = len
  BY WordsAre
<1>4. PICK start : start = [a |-> a, b |-> mod, u |-> Words(1, len), v |-> Words(0, len)]
  OBVIOUS
<1>5. PICK end : end = InvAfter(InvRounds(len), start, mod)
  OBVIOUS
<1>6. r = IF ecdsa_vli_isZero(a) THEN [out |-> a, ended |-> TRUE] ELSE [out |-> end.u, ended |-> end.a = end.b]
  BY <1>3, <1>4, <1>5 DEF ecdsa_vli_modInv, InvAfter
<1>7. CASE x = 0
  <2>1. r.out = a /\ r.ended
    <3>1. ecdsa_vli_isZero(a)
      BY <1>1, <1>7, ZeroIs
    <3>2. r = [out |-> a, ended |-> TRUE]
      BY <1>6, <3>1, Zenon
    <3>3. r.ended = TRUE /\ r.out = a
      BY <3>2
    <3> QED
      BY <3>3, Zenon
  <2>2. (0 * 0) % m = 0
    <3>1. 0 = m * 0 + 0 /\ 0 * 0 = 0
      OBVIOUS
    <3> QED
      BY <1>2, <3>1, QuotientIs
  <2> QED
    BY <1>1, <1>7, <2>1, <2>2 DEF Bit
<1>8. CASE x # 0
  <2>1. r.out = end.u /\ (end.a = end.b => r.ended)
    <3>1. ~ecdsa_vli_isZero(a)
      BY <1>1, <1>8, ZeroIs
    <3>2. r = [out |-> end.u, ended |-> end.a = end.b]
      BY <1>6, <3>1, Zenon
    <3>3. r.ended = (end.a = end.b) /\ r.out = end.u
      BY <3>2
    <3> QED
      BY <3>3, Zenon
  <2>2. Words(1, len) \in Vli(len) /\ Number(Words(1, len)) = 1 /\ Words(0, len) \in Vli(len) /\ Number(Words(0, len)) = 0
    <3>1. 0 < p /\ 1 < p
      BY <1>1, <1>2, <1>8
    <3>2. Words(1, len) \in Vli(len) /\ Number(Words(1, len)) = 1
      BY <1>1, <3>1, 1 \in Nat, WordsMake
    <3>3. Words(0, len) \in Vli(len) /\ Number(Words(0, len)) = 0
      BY <1>1, <3>1, 0 \in Nat, WordsMake
    <3> QED
      BY <3>2, <3>3
  <2>3. Kept(x, m, 1, 0, x, m)
    <3>1. x > 0 /\ x < m /\ m % 2 = 1
      BY <1>2, <1>8
    <3>2. \A d \in 2 .. m - 1 : m % d # 0
      BY <1>1
    <3> QED
      BY <3>1, <3>2, KeptStarts, Zenon
  <2>4. start \in InvStates(len, x, Number(mod)) /\ start.a = a /\ start.b = mod
    <3>1. /\ start \in [a : Vli(len), b : Vli(len), u : Vli(len), v : Vli(len)]
          /\ start.a = a /\ start.b = mod /\ start.u = Words(1, len) /\ start.v = Words(0, len)
      BY <1>4, <2>2
    <3>2. Kept(Number(start.a), Number(start.b), Number(start.u), Number(start.v), x, Number(mod))
      BY <1>1, <2>2, <2>3, <3>1
    <3> QED
      BY <3>1, <3>2 DEF InvStates
  <2>5. InvRounds(len) \in Nat /\ x * m < Power(2, InvRounds(len))
    <3>1. PICK l \in Nat : l = len * WordBits /\ p = Power(2, l)
      BY <1>1, PlacePower
    <3>2. InvRounds(len) = l + l
      BY <3>1, WordIs DEF InvRounds
    <3>3. Power(2, l + l) = p * p
      BY <3>1, 2 \in Int, PowerPlus
    <3>4. x * m \in Nat /\ x * m + 2 * p <= p * p + 1
      BY <1>1, ProductBelow, Zenon
    <3>5. x * m < p * p
      BY <1>1, <1>2, <3>4
    <3> QED
      BY <3>2, <3>3, <3>5
  <2>6. Number(start.a) * Number(start.b) < Power(2, InvRounds(len))
    BY <1>1, <2>4, <2>5
  <2>7. end \in InvStates(len, x, Number(mod)) /\ end.a = end.b
    BY <1>5, <2>4, <2>5, <2>6, InvEnds
  <2>8. /\ end.a \in Vli(len) /\ end.u \in Vli(len) /\ end.v \in Vli(len)
        /\ Kept(Number(end.a), Number(end.b), Number(end.u), Number(end.v), x, m)
    BY <1>1, <2>7 DEF InvStates
  <2>9. Number(end.a) \in Nat /\ Number(end.u) \in Nat /\ Number(end.v) \in Nat
    BY <2>8, NumberIs
  <2>10. (Number(end.u) * x) % m = 1
    <3>1. PICK c \in Nat, u \in Nat, v \in Nat : c = Number(end.a) /\ u = Number(end.u) /\ v = Number(end.v)
      BY <2>9
    <3>2. Kept(c, c, u, v, x, m) /\ m > 1
      BY <1>2, <1>8, <2>7, <2>8, <3>1
    <3>3. (u * x) % m = 1
      BY <3>2, KeptEnds
    <3> QED
      BY <3>1, <3>3
  <2> QED
    BY <1>1, <1>8, <2>1, <2>7, <2>8, <2>10 DEF Bit
<1> QED
  BY <1>7, <1>8

-----------------------------------------------------------------------------
(* The reduction for secp256r1: rows are added and taken off exactly, and   *)
(* the corrections end below the prime.                                     *)

Accs(len) == [v : Vli(len), c : Int]

AccValue(t, len) == Number(t.v) + t.c * Place(len)

\* Adding a row is exact, with the carry above the words.
LEMMA PlusIs ==
  ASSUME NEW len \in Nat, NEW t \in Accs(len), NEW row, row \in Vli(len)
  PROVE  Plus(t, row) \in Accs(len) /\ AccValue(Plus(t, row), len) = AccValue(t, len) + Number(row)
<1>1. t.v \in Vli(len) /\ t.c \in Int
  BY DEF Accs
<1>2. PICK s : s = ecdsa_vli_add(t.v, row)
  OBVIOUS
<1>3. PICK p \in Nat : p = Place(len)
  BY PlaceIs
<1>4. s.out \in Vli(len) /\ s.carry \in {0, 1} /\ Number(s.out) + s.carry * p = Number(t.v) + Number(row)
  BY <1>1, <1>2, <1>3, AddIs
<1>5. PICK x \in Nat, y \in Nat, z \in Nat : x = Number(t.v) /\ y = Number(row) /\ z = Number(s.out)
  BY <1>1, <1>4, NumberIs
<1>6. PICK c \in Int, e \in {0, 1} : c = t.c /\ e = s.carry
  BY <1>1, <1>4
<1>7. Plus(t, row) = [v |-> s.out, c |-> c + e]
  BY <1>2, <1>6 DEF Plus
<1>8. Plus(t, row) \in Accs(len) /\ Plus(t, row).v = s.out /\ Plus(t, row).c = c + e
  BY <1>4, <1>7 DEF Accs
<1>9. AccValue(Plus(t, row), len) = z + (c + e) * p
  BY <1>3, <1>5, <1>8 DEF AccValue
<1>10. z + e * p = x + y
  BY <1>4, <1>5, <1>6
<1>11. (c + e) * p = c * p + e * p /\ c * p \in Int /\ e * p \in Int
  BY <1>6
<1>12. AccValue(t, len) = x + c * p
  BY <1>3, <1>5, <1>6 DEF AccValue
<1> QED
  BY <1>5, <1>8, <1>9, <1>10, <1>11, <1>12

\* So is taking one off, with the borrow.
LEMMA MinusIs ==
  ASSUME NEW len \in Nat, NEW t \in Accs(len), NEW row, row \in Vli(len)
  PROVE  Minus(t, row) \in Accs(len) /\ AccValue(Minus(t, row), len) = AccValue(t, len) - Number(row)
<1>1. t.v \in Vli(len) /\ t.c \in Int
  BY DEF Accs
<1>2. PICK s : s = ecdsa_vli_sub(t.v, row)
  OBVIOUS
<1>3. PICK p \in Nat : p = Place(len)
  BY PlaceIs
<1>4. s.out \in Vli(len) /\ s.carry \in {0, 1} /\ Number(s.out) - s.carry * p = Number(t.v) - Number(row)
  BY <1>1, <1>2, <1>3, SubIs
<1>5. PICK x \in Nat, y \in Nat, z \in Nat : x = Number(t.v) /\ y = Number(row) /\ z = Number(s.out)
  BY <1>1, <1>4, NumberIs
<1>6. PICK c \in Int, e \in {0, 1} : c = t.c /\ e = s.carry
  BY <1>1, <1>4
<1>7. Minus(t, row) = [v |-> s.out, c |-> c - e]
  BY <1>2, <1>6 DEF Minus
<1>8. Minus(t, row) \in Accs(len) /\ Minus(t, row).v = s.out /\ Minus(t, row).c = c - e
  BY <1>4, <1>7 DEF Accs
<1>9. AccValue(Minus(t, row), len) = z + (c - e) * p
  BY <1>3, <1>5, <1>8 DEF AccValue
<1>10. z - e * p = x - y
  BY <1>4, <1>5, <1>6
<1>11. (c - e) * p = c * p - e * p /\ c * p \in Int /\ e * p \in Int
  BY <1>6
<1>12. AccValue(t, len) = x + c * p
  BY <1>3, <1>5, <1>6 DEF AccValue
<1> QED
  BY <1>5, <1>8, <1>9, <1>10, <1>11, <1>12

\* So is adding one twice.
LEMMA PlusTwiceIs ==
  ASSUME NEW len \in Nat, NEW t \in Accs(len), NEW row, row \in Vli(len)
  PROVE  PlusTwice(t, row) \in Accs(len) /\ AccValue(PlusTwice(t, row), len) = AccValue(t, len) + 2 * Number(row)
<1>1. t.v \in Vli(len) /\ t.c \in Int
  BY DEF Accs
<1>2. PICK s : s = ecdsa_vli_add(row, row)
  OBVIOUS
<1>3. PICK p \in Nat : p = Place(len)
  BY PlaceIs
<1>4. s.out \in Vli(len) /\ s.carry \in {0, 1} /\ Number(s.out) + s.carry * p = Number(row) + Number(row)
  BY <1>2, <1>3, AddIs
<1>5. PICK x \in Nat, y \in Nat, z \in Nat : x = Number(t.v) /\ y = Number(row) /\ z = Number(s.out)
  BY <1>1, <1>4, NumberIs
<1>6. PICK c \in Int, e \in {0, 1} : c = t.c /\ e = s.carry
  BY <1>1, <1>4
<1>7. PICK u : u = [t EXCEPT !.c = @ + s.carry]
  OBVIOUS
<1>8. u \in Accs(len) /\ u.v = t.v /\ u.c = c + e
  <2>1. c + e \in Int
    BY <1>6
  <2> QED
    BY <1>6, <1>7, <2>1 DEF Accs
<1>9. PlusTwice(t, row) = Plus(u, s.out)
  BY <1>2, <1>7 DEF PlusTwice
<1>10. PlusTwice(t, row) \in Accs(len) /\ AccValue(PlusTwice(t, row), len) = AccValue(u, len) + z
  BY <1>4, <1>5, <1>8, <1>9, PlusIs
<1>11. AccValue(u, len) = x + (c + e) * p /\ AccValue(t, len) = x + c * p
  BY <1>3, <1>5, <1>6, <1>8 DEF AccValue
<1>12. (c + e) * p = c * p + e * p /\ c * p \in Int /\ e * p \in Int
  BY <1>6
<1>13. z + e * p = y + y
  BY <1>4, <1>5, <1>6
<1> QED
  BY <1>5, <1>10, <1>11, <1>12, <1>13

\* The carry above the words tells the sign, and a value below p is the words'.
LEMMA AccIs ==
  ASSUME NEW len \in Nat, NEW t \in Accs(len)
  PROVE  /\ t.v \in Vli(len) /\ t.c \in Int /\ AccValue(t, len) \in Int
         /\ t.c < 0 <=> AccValue(t, len) < 0
         /\ t.c > 0 <=> AccValue(t, len) >= Place(len)
         /\ t.c = 0 => AccValue(t, len) = Number(t.v)
<1>1. t.v \in Vli(len) /\ t.c \in Int
  BY DEF Accs
<1>2. PICK x \in Nat, p \in Nat : x = Number(t.v) /\ p = Place(len) /\ x < p
  BY <1>1, NumberIs, PlaceIs
<1>3. PICK c \in Int : c = t.c
  BY <1>1
<1>4. AccValue(t, len) = x + c * p /\ c * p \in Int
  BY <1>2, <1>3 DEF AccValue
<1>5. CASE c < 0
  <2>1. c * p = -((-c) * p) /\ -c \in Nat /\ 1 <= -c /\ (-c) * p \in Nat
    BY <1>5
  <2>2. 1 * p <= (-c) * p
    BY <2>1, 1 \in Nat, LessByFactor
  <2>3. c * p <= -p
    BY <2>1, <2>2
  <2> QED
    BY <1>1, <1>2, <1>3, <1>4, <1>5, <2>3
<1>6. CASE c = 0
  <2>1. c * p = 0
    BY <1>6
  <2>2. AccValue(t, len) = x /\ t.c = 0
    BY <1>3, <1>4, <1>6, <2>1
  <2>3. ~(t.c < 0) /\ ~(t.c > 0) /\ ~(x < 0) /\ ~(x >= p)
    BY <1>2, <2>2
  <2> QED
    BY <1>1, <1>2, <2>2, <2>3
<1>7. CASE c > 0
  <2>1. 1 * p <= c * p
    BY <1>7, c \in Nat, 1 \in Nat, LessByFactor
  <2> QED
    BY <1>1, <1>2, <1>3, <1>4, <1>7, <2>1
<1> QED
  BY <1>5, <1>6, <1>7

Corrects(t, p, up) == IF up THEN CorrectUp(t, p) ELSE CorrectDown(t, p)

\* A correction moves the value by p towards 0 .. p - 1.
LEMMA CorrectsIs ==
  ASSUME NEW len \in Nat, NEW t \in Accs(len), NEW p, p \in Vli(len), NEW up \in BOOLEAN
  PROVE  /\ Corrects(t, p, up) \in Accs(len)
         /\ up => AccValue(Corrects(t, p, up), len)
                   = IF AccValue(t, len) < 0 THEN AccValue(t, len) + Number(p) ELSE AccValue(t, len)
         /\ ~up /\ AccValue(t, len) >= 0 =>
               AccValue(Corrects(t, p, up), len)
               = IF AccValue(t, len) >= Number(p) THEN AccValue(t, len) - Number(p) ELSE AccValue(t, len)
<1>1. PICK a \in Int, m \in Nat : a = AccValue(t, len) /\ m = Number(p) /\ m < Place(len)
  BY AccIs, NumberIs
<1>2. t.v \in Vli(len) /\ t.c \in Int /\ (t.c < 0 <=> a < 0) /\ (t.c > 0 <=> a >= Place(len)) /\ (t.c = 0 => a = Number(t.v))
  BY <1>1, AccIs
<1>3. Plus(t, p) \in Accs(len) /\ AccValue(Plus(t, p), len) = a + m
  BY <1>1, PlusIs
<1>4. Minus(t, p) \in Accs(len) /\ AccValue(Minus(t, p), len) = a - m
  BY <1>1, MinusIs
<1>5. CASE up
  <2>1. Corrects(t, p, up) = IF a < 0 THEN Plus(t, p) ELSE t
    BY <1>2, <1>5 DEF Corrects, CorrectUp
  <2>2. CASE a < 0
    <3>1. Corrects(t, p, up) = Plus(t, p)
      BY <2>1, <2>2
    <3> QED
      BY <1>1, <1>3, <1>5, <2>2, <3>1
  <2>3. CASE ~(a < 0)
    <3>1. Corrects(t, p, up) = t
      BY <2>1, <2>3
    <3> QED
      BY <1>1, <1>5, <2>3, <3>1
  <2> QED
    BY <2>2, <2>3
<1>6. CASE ~up
  <2>1. PICK past \in BOOLEAN : past <=> t.c # 0 \/ ecdsa_vli_cmp_unsafe(p, t.v) # 1
    BY Zenon
  <2>2. Corrects(t, p, up) = IF past THEN Minus(t, p) ELSE t
    BY <1>6, <2>1, Zenon DEF Corrects, CorrectDown
  <2>3. a >= 0 => (past <=> a >= m)
    <3>1. ecdsa_vli_cmp_unsafe(p, t.v) # 1 <=> ~(m > Number(t.v))
      BY <1>1, <1>2, UnsafeIs
    <3>2. Place(len) \in Nat /\ Number(t.v) \in Nat
      BY <1>2, PlaceIs, NumberIs
    <3> QED
      BY <1>1, <1>2, <2>1, <3>1, <3>2
  <2>4. CASE past
    <3>1. Corrects(t, p, up) = Minus(t, p)
      BY <2>2, <2>4
    <3> QED
      BY <1>1, <1>4, <1>6, <2>3, <2>4, <3>1
  <2>5. CASE ~past
    <3>1. Corrects(t, p, up) = t
      BY <2>2, <2>5
    <3> QED
      BY <1>1, <1>6, <2>3, <2>5, <3>1
  <2> QED
    BY <2>4, <2>5
<1> QED
  BY <1>5, <1>6

CorrectedRun(f, acc, p, up) ==
    /\ f[0] = acc /\ \A i \in 1 .. 8 : f[i] = Corrects(f[i - 1], p, up)
    /\ Corrected(acc, p) = f[8].v

\* The recursion of the closing loop.
LEMMA CorrectedLoop ==
  ASSUME NEW len \in Nat, NEW acc \in Accs(len), NEW p, p \in Vli(len), NEW up \in BOOLEAN, up <=> acc.c < 0
  PROVE  \E f \in [0 .. 8 -> Accs(len)] : CorrectedRun(f, acc, p, up)
<1> DEFINE next(i, v) == IF acc.c < 0 THEN CorrectUp(v, p) ELSE CorrectDown(v, p)
           S == Accs(len)
           start == acc
           K == MaxCorrections
           g == [q \in (1 .. K) \X S |-> next(q[1], q[2])]
           Body(c) == [i \in 0 .. K |-> IF i = 0 THEN start ELSE next(i, c[i - 1])]
           s == CHOOSE c : c = Body(c)
<1>1. K \in Nat
  BY DEF MaxCorrections
<1>2. start \in S
  OBVIOUS
<1>3. ASSUME NEW i, NEW v
      PROVE  next(i, v) = Corrects(v, p, up)
  <2>1. CASE up
    BY <2>1, Zenon DEF Corrects
  <2>2. CASE ~up
    BY <2>2, Zenon DEF Corrects
  <2> QED
    BY <2>1, <2>2
<1>4. Corrected(acc, p) = s[K].v
  BY DEF Corrected, After
<1> HIDE DEF next
<1>5. ASSUME NEW i \in 1 .. K, NEW v \in S
      PROVE  next(i, v) \in S
  BY <1>3, CorrectsIs
<1>6. g \in [(1 .. K) \X S -> S] /\ \A i \in 1 .. K, v \in S : g[<<i, v>>] = next(i, v)
  BY <1>5
<1> HIDE DEF g, next, S, start, K
<1>7. PICK h \in [0 .. K -> S] : Stepwise(h, K, start, g)
  BY <1>1, <1>2, <1>6, Recursion, Zenon
<1>8. ASSUME NEW i \in 1 .. K
      PROVE  h[i] = next(i, h[i - 1])
  <2>1. i - 1 \in 0 .. K
    BY <1>1
  <2>2. h[i - 1] \in S
    BY <2>1
  <2>3. g[<<i, h[i - 1]>>] = next(i, h[i - 1])
    BY <1>6, <2>2, Zenon
  <2>4. h[i] = g[<<i, h[i - 1]>>]
    BY <1>7, Zenon DEF Stepwise
  <2> QED
    BY <2>3, <2>4, Zenon
<1>9. h = Body(h)
  <2>1. h[0] = start
    BY <1>7 DEF Stepwise
  <2> QED
    BY <1>1, <1>8, <2>1
<1>10. s = Body(s)
  BY <1>9
<1> HIDE DEF s
<1>11. s[0] = start /\ \A i \in 1 .. K : s[i] = next(i, s[i - 1])
  <2>1. 0 \in 0 .. K /\ \A i \in 1 .. K : i \in 0 .. K /\ i # 0
    BY <1>1
  <2> QED
    BY <1>10, <2>1
<1> DEFINE T == {i \in 0 .. K : s[i] \in S}
<1>12. 0 \in T
  BY <1>1, <1>2, <1>11
<1>13. ASSUME NEW i \in 0 .. K - 1, i \in T
       PROVE  i + 1 \in T
  <2>1. i + 1 \in 1 .. K /\ i + 1 \in 0 .. K /\ (i + 1) - 1 = i
    BY <1>1
  <2>2. s[i + 1] = next(i + 1, s[i]) /\ s[i] \in S
    BY <1>11, <1>13, <2>1
  <2>3. g[<<i + 1, s[i]>>] = next(i + 1, s[i]) /\ g[<<i + 1, s[i]>>] \in S
    BY <1>6, <2>1, <2>2
  <2> QED
    BY <2>1, <2>2, <2>3
<1> HIDE DEF T
<1>14. \A i \in 0 .. K : i \in T
  BY <1>1, <1>12, <1>13, UpToInduction
<1>15. s[0] = start /\ (\A i \in 1 .. K : s[i] = next(i, s[i - 1])) /\ \A i \in 0 .. K : s[i] \in S
  BY <1>11, <1>14 DEF T
<1>16. s \in [0 .. 8 -> Accs(len)]
  BY <1>10, <1>15 DEF K, S, MaxCorrections
<1>17. \A i \in 1 .. 8 : s[i] = Corrects(s[i - 1], p, up)
  BY <1>15, <1>3 DEF K, MaxCorrections
<1>18. K = 8 /\ s[0] = acc
  BY <1>15 DEF K, MaxCorrections, start
<1>19. CorrectedRun(s, acc, p, up)
  BY <1>4, <1>17, <1>18 DEF CorrectedRun
<1> QED
  BY <1>16, <1>19

\* Eight corrections bring a value within eight multiples of p, or nine, to its remainder.
LEMMA CorrectedIs ==
  ASSUME NEW len \in Nat, NEW acc \in Accs(len), NEW p, p \in Vli(len),
         AccValue(acc, len) >= -(8 * Number(p)), AccValue(acc, len) < 9 * Number(p), NEW o, o = Corrected(acc, p)
  PROVE  o \in Vli(len) /\ Number(o) = AccValue(acc, len) % Number(p)
<1>1. PICK up \in BOOLEAN : up <=> acc.c < 0
  BY Zenon
<1>2. PICK f \in [0 .. 8 -> Accs(len)] : CorrectedRun(f, acc, p, up)
  BY <1>1, CorrectedLoop
<1>3. PICK a \in Int, m \in Nat : a = AccValue(acc, len) /\ m = Number(p) /\ m < Place(len) /\ a >= -(8 * m) /\ a < 9 * m
  BY AccIs, NumberIs
<1>4. up <=> a < 0
  BY <1>1, <1>3, AccIs
<1>5. PICK g : g = [i \in 0 .. 8 |-> AccValue(f[i], len)]
  OBVIOUS
<1>6. g \in [0 .. 8 -> Int] /\ g[0] = a
  <2>1. \A i \in 0 .. 8 : AccValue(f[i], len) \in Int
    BY <1>2, AccIs
  <2>2. f[0] = acc /\ 0 \in 0 .. 8
    BY <1>2 DEF CorrectedRun
  <2> QED
    BY <1>3, <1>5, <2>1, <2>2
<1>7. ASSUME NEW i \in 0 .. 7
      PROVE  /\ up => g[i + 1] = IF g[i] < 0 THEN g[i] + m ELSE g[i]
             /\ ~up /\ g[i] >= 0 => g[i + 1] = IF g[i] >= m THEN g[i] - m ELSE g[i]
  <2>1. i + 1 \in 1 .. 8 /\ i + 1 \in 0 .. 8 /\ (i + 1) - 1 = i /\ i \in 0 .. 8
    OBVIOUS
  <2>2. f[i + 1] = Corrects(f[i], p, up) /\ f[i] \in Accs(len)
    BY <1>2, <2>1 DEF CorrectedRun
  <2>3. g[i] = AccValue(f[i], len) /\ g[i + 1] = AccValue(Corrects(f[i], p, up), len)
    BY <1>5, <2>1, <2>2
  <2> QED
    BY <1>3, <2>2, <2>3, CorrectsIs
<1>8. \E k \in Int : g[8] = a + k * m /\ 0 <= g[8] /\ g[8] < m
  <2> DEFINE T == {i \in 0 .. 8 :
                     /\ Congruent(g[i], a, m)
                     /\ up => g[i] < m /\ g[i] >= -((8 - i) * m)
                     /\ ~up => g[i] >= 0 /\ g[i] < (9 - i) * m}
  <2>1. 0 \in T
    <3>1. Congruent(a, a, m)
      <4>1. a = a + 0 * m
        OBVIOUS
      <4> QED
        BY <4>1 DEF Congruent
    <3>2. 8 - 0 = 8 /\ 9 - 0 = 9 /\ 0 \in 0 .. 8
      OBVIOUS
    <3> QED
      BY <1>3, <1>4, <1>6, <3>1, <3>2
  <2>2. ASSUME NEW i \in 0 .. 8 - 1, i \in T
        PROVE  i + 1 \in T
    <3>1. i \in 0 .. 7 /\ i + 1 \in 0 .. 8 /\ i \in Int
      OBVIOUS
    <3>2. PICK v \in Int, w \in Int : v = g[i] /\ w = g[i + 1]
      BY <1>6, <3>1
    <3>3. PICK e \in Int : e = (8 - i) * m
      BY <3>1
    <3>4. (8 - (i + 1)) * m = e - m /\ (9 - i) * m = e + m /\ (9 - (i + 1)) * m = e
      BY <3>1, <3>3
    <3>5. Congruent(v, a, m)
      BY <2>2, <3>2
    <3>6. PICK k \in Int : v = a + k * m
      BY <3>5 DEF Congruent
    <3>7. Congruent(v, a, m) /\ Congruent(v + m, a, m) /\ Congruent(v - m, a, m)
      <4>1. (k + 1) * m = k * m + m /\ (k - 1) * m = k * m - m /\ k * m \in Int
        OBVIOUS
      <4>2. v + m = a + (k + 1) * m /\ v - m = a + (k - 1) * m
        BY <3>6, <4>1
      <4> QED
        BY <3>5, <4>2, k + 1 \in Int, k - 1 \in Int DEF Congruent
    <3>8. CASE up
      <4>1. w = IF v < 0 THEN v + m ELSE v
        BY <1>7, <3>1, <3>2, <3>8
      <4>2. v < m /\ v >= -e
        BY <2>2, <3>2, <3>3, <3>8
      <4>3. w < m /\ w >= -(e - m) /\ Congruent(w, a, m)
        <5>1. CASE v < 0
          BY <3>7, <4>1, <4>2, <5>1
        <5>2. CASE ~(v < 0)
          <6>1. w = v
            BY <4>1, <5>2
          <6>2. e - m >= 0
            <7>1. 7 - i \in Nat /\ (8 - (i + 1)) * m = (7 - i) * m
              BY <3>1
            <7>2. (7 - i) * m \in Nat
              BY <7>1
            <7> QED
              BY <3>4, <7>1, <7>2
          <6> QED
            BY <3>7, <4>2, <5>2, <6>1, <6>2
        <5> QED
          BY <5>1, <5>2
      <4> QED
        BY <3>1, <3>2, <3>4, <3>8, <4>3
    <3>9. CASE ~up
      <4>1. v >= 0 /\ v < e + m
        BY <2>2, <3>2, <3>4, <3>9
      <4>2. w = IF v >= m THEN v - m ELSE v
        BY <1>7, <3>1, <3>2, <3>9, <4>1
      <4>3. w >= 0 /\ w < e /\ Congruent(w, a, m)
        <5>1. CASE v >= m
          BY <3>7, <4>1, <4>2, <5>1
        <5>2. CASE ~(v >= m)
          <6>1. w = v
            BY <4>2, <5>2
          <6>2. e >= m
            <7>1. 8 - i \in Nat /\ 1 <= 8 - i
              BY <3>1
            <7>2. 1 * m <= (8 - i) * m
              BY <7>1, 1 \in Nat, LessByFactor
            <7> QED
              BY <3>3, <7>2
          <6> QED
            BY <3>7, <4>1, <5>2, <6>1, <6>2
        <5> QED
          BY <5>1, <5>2
      <4> QED
        BY <3>1, <3>2, <3>4, <3>9, <4>3
    <3> QED
      BY <3>8, <3>9
  <2> HIDE DEF T
  <2>3. \A i \in 0 .. 8 : i \in T
    BY <2>1, <2>2, 8 \in Nat, UpToInduction
  <2>4. 8 \in T
    BY <2>3
  <2>5. /\ Congruent(g[8], a, m)
        /\ up => g[8] < m /\ g[8] >= -((8 - 8) * m)
        /\ ~up => g[8] >= 0 /\ g[8] < (9 - 8) * m
    BY <2>4 DEF T
  <2>6. (8 - 8) * m = 0 /\ (9 - 8) * m = m
    OBVIOUS
  <2>7. 0 <= g[8] /\ g[8] < m
    BY <1>6, <2>5, <2>6, 8 \in 0 .. 8
  <2> QED
    BY <2>5, <2>7 DEF Congruent
<1>9. PICK k \in Int : g[8] = a + k * m /\ 0 <= g[8] /\ g[8] < m
  BY <1>8
<1>10. f[8] \in Accs(len) /\ o = f[8].v /\ g[8] = AccValue(f[8], len) /\ g[8] \in Int
  BY <1>2, <1>5, <1>6, 8 \in 0 .. 8 DEF CorrectedRun
<1>11. o \in Vli(len) /\ Number(o) = g[8]
  <2>1. f[8].v \in Vli(len) /\ f[8].c \in Int /\ ~(f[8].c < 0) /\ ~(f[8].c > 0)
    BY <1>3, <1>9, <1>10, AccIs, PlaceIs
  <2>2. f[8].c = 0
    BY <2>1
  <2> QED
    BY <1>10, <2>1, <2>2, AccIs
<1>12. a % m = g[8]
  <2>1. PICK r \in Int : r = g[8]
    BY <1>10
  <2>2. PICK q \in Int : q = -k
    BY -k \in Int
  <2>3. m * q = -(k * m) /\ k * m \in Int
    BY <2>2
  <2>4. a = m * q + r /\ 0 <= r /\ r < m /\ m > 0
    BY <1>9, <2>1, <2>3
  <2>5. a % m = r
    BY <2>4, QuotientIs, Zenon
  <2> QED
    BY <2>1, <2>5
<1> QED
  BY <1>3, <1>11, <1>12

\* What Reduced adds up, and that it reduces it.
RowsTotal(low, doubled, added, removed) ==
    Number(low) + 2 * Number(doubled[1]) + 2 * Number(doubled[2]) + Number(added[1]) + Number(added[2])
        - Number(removed[1]) - Number(removed[2]) - Number(removed[3]) - Number(removed[4])

RowsFit(doubled, added, removed, len) ==
    /\ doubled[1] \in Vli(len) /\ doubled[2] \in Vli(len) /\ added[1] \in Vli(len) /\ added[2] \in Vli(len)
    /\ removed[1] \in Vli(len) /\ removed[2] \in Vli(len) /\ removed[3] \in Vli(len) /\ removed[4] \in Vli(len)

PrimeFits(p, len) ==
    p \in Vli(len) /\ 4 * (Place(len) - 1) <= 8 * Number(p) /\ 7 * (Place(len) - 1) < 9 * Number(p)

\* What comes out is the remainder of what was added up.
LEMMA ReducedIs ==
  ASSUME NEW len \in Nat, NEW size \in Nat, len <= size, NEW product, product \in Vli(size), NEW p,
         NEW doubled, NEW added, NEW removed, RowsFit(doubled, added, removed, len), PrimeFits(p, len),
         NEW o, o = Reduced(product, p, doubled, added, removed)
  PROVE  /\ o \in Vli(len)
         /\ Number(o) = RowsTotal(SubSeq(product, 1, len), doubled, added, removed) % Number(p)
<1> USE DEF RowsFit, PrimeFits
<1>1. PICK low : low = SubSeq(product, 1, len)
  OBVIOUS
<1>2. low \in Vli(len) /\ Len(p) = len
  <2>1. len \in 0 .. size
    OBVIOUS
  <2>2. low \in Vli(len)
    BY <1>1, <2>1, PrefixIs, Zenon
  <2> QED
    BY <2>2, WordsAre
<1>3. PICK t0 : t0 = [v |-> low, c |-> 0]
  OBVIOUS
<1>4. t0 \in Accs(len) /\ AccValue(t0, len) = Number(low)
  <2>1. t0 \in Accs(len) /\ t0.v = low /\ t0.c = 0
    BY <1>2, <1>3, 0 \in Int DEF Accs
  <2>2. AccValue(t0, len) = Number(low)
    BY <2>1, AccIs
  <2> QED
    BY <2>1, <2>2
<1>5. PICK t1 : t1 = PlusTwice(t0, doubled[1])
  OBVIOUS
<1>6. t1 \in Accs(len) /\ AccValue(t1, len) = AccValue(t0, len) + 2 * Number(doubled[1])
  BY <1>4, <1>5, PlusTwiceIs
<1>7. PICK t2 : t2 = PlusTwice(t1, doubled[2])
  OBVIOUS
<1>8. t2 \in Accs(len) /\ AccValue(t2, len) = AccValue(t1, len) + 2 * Number(doubled[2])
  BY <1>6, <1>7, PlusTwiceIs
<1>9. PICK t3 : t3 = Plus(t2, added[1])
  OBVIOUS
<1>10. t3 \in Accs(len) /\ AccValue(t3, len) = AccValue(t2, len) + Number(added[1])
  BY <1>8, <1>9, PlusIs
<1>11. PICK t4 : t4 = Plus(t3, added[2])
  OBVIOUS
<1>12. t4 \in Accs(len) /\ AccValue(t4, len) = AccValue(t3, len) + Number(added[2])
  BY <1>10, <1>11, PlusIs
<1>13. PICK t5 : t5 = Minus(t4, removed[1])
  OBVIOUS
<1>14. t5 \in Accs(len) /\ AccValue(t5, len) = AccValue(t4, len) - Number(removed[1])
  BY <1>12, <1>13, MinusIs
<1>15. PICK t6 : t6 = Minus(t5, removed[2])
  OBVIOUS
<1>16. t6 \in Accs(len) /\ AccValue(t6, len) = AccValue(t5, len) - Number(removed[2])
  BY <1>14, <1>15, MinusIs
<1>17. PICK t7 : t7 = Minus(t6, removed[3])
  OBVIOUS
<1>18. t7 \in Accs(len) /\ AccValue(t7, len) = AccValue(t6, len) - Number(removed[3])
  BY <1>16, <1>17, MinusIs
<1>19. PICK t8 : t8 = Minus(t7, removed[4])
  OBVIOUS
<1>20. t8 \in Accs(len) /\ AccValue(t8, len) = AccValue(t7, len) - Number(removed[4])
  BY <1>18, <1>19, MinusIs
<1>21. o = Corrected(t8, p)
  BY <1>1, <1>2, <1>3, <1>5, <1>7, <1>9, <1>11, <1>13, <1>15, <1>17, <1>19 DEF Reduced
<1>22. PICK total : total = AccValue(t8, len)
  OBVIOUS
<1>23. PICK q \in Nat : q = Place(len) /\ \A a : a \in Vli(len) => Number(a) \in Nat /\ Number(a) < q
  BY PlaceIs, NumberIs
<1>24. PICK x0 \in Nat, x1 \in Nat, x2 \in Nat, x3 \in Nat, x4 \in Nat, x5 \in Nat, x6 \in Nat, x7 \in Nat, x8 \in Nat :
         x0 = Number(low) /\ x1 = Number(doubled[1]) /\ x2 = Number(doubled[2]) /\ x3 = Number(added[1]) /\ x4 = Number(added[2]) /\ x5 = Number(removed[1]) /\ x6 = Number(removed[2]) /\ x7 = Number(removed[3]) /\ x8 = Number(removed[4])
  BY <1>2, <1>23
<1>25. x0 <= q - 1 /\ x1 <= q - 1 /\ x2 <= q - 1 /\ x3 <= q - 1 /\ x4 <= q - 1 /\ x5 <= q - 1 /\ x6 <= q - 1 /\ x7 <= q - 1 /\ x8 <= q - 1
  <2>1. x0 < q /\ x1 < q /\ x2 < q /\ x3 < q /\ x4 < q /\ x5 < q /\ x6 < q /\ x7 < q /\ x8 < q
    BY <1>2, <1>23, <1>24
  <2> QED
    BY <2>1
<1>26. total = x0 + 2 * x1 + 2 * x2 + x3 + x4 - x5 - x6 - x7 - x8
  BY <1>22, <1>24, <1>4, <1>6, <1>8, <1>10, <1>12, <1>14, <1>16, <1>18, <1>20
<1>27. total = RowsTotal(low, doubled, added, removed)
  BY <1>24, <1>26 DEF RowsTotal
<1>28. total >= -(8 * Number(p)) /\ total < 9 * Number(p)
  <2>1. PICK m \in Nat : m = Number(p) /\ 4 * (q - 1) <= 8 * m /\ 7 * (q - 1) < 9 * m
    BY <1>23, NumberIs
  <2>2. total >= -(4 * (q - 1)) /\ total <= 7 * (q - 1)
    BY <1>25, <1>26
  <2>3. total \in Int
    BY <1>26
  <2>4. total >= -(8 * m) /\ total < 9 * m
    BY <2>1, <2>2, <2>3
  <2> QED
    BY <2>1, <2>4
<1>29. o \in Vli(len) /\ Number(o) = total % Number(p)
  BY <1>20, <1>21, <1>22, <1>28, CorrectedIs
<1> QED
  BY <1>1, <1>27, <1>29

\* The prime is just below its eight digits: 4/8 and 7/9 of them are less.
LEMMA PrimeBounds ==
  ASSUME NEW b \in Nat, b > 1
  PROVE  /\ PrimeOf(b) \in Nat /\ PrimeOf(b) > 0 /\ PrimeOf(b) < Power(b, 8)
         /\ 4 * (Power(b, 8) - 1) <= 8 * PrimeOf(b) /\ 7 * (Power(b, 8) - 1) < 9 * PrimeOf(b)
<1>1. PICK q \in Nat, c \in Nat : q = Power(b, 6) /\ c = Power(b, 3) /\ c > 0
  BY b > 0, 3 \in Nat, 6 \in Nat, PowerPositive
<1>2. q = c * c
  <2>1. Power(b, 3 + 3) = Power(b, 3) * Power(b, 3) /\ 3 + 3 = 6
    BY 3 \in Nat, b \in Int, PowerPlus
  <2> QED
    BY <1>1, <2>1
<1>3. Power(b, 7) = b * q /\ Power(b, 8) = b * (b * q)
  <2>1. Power(b, 6 + 1) = b * Power(b, 6) /\ Power(b, 7 + 1) = b * Power(b, 7) /\ 6 + 1 = 7 /\ 7 + 1 = 8
    BY 6 \in Nat, 7 \in Nat, b \in Int, PowerStep
  <2> QED
    BY <1>1, <2>1
<1>4. PICK e \in Nat, f \in Nat : e = b * q /\ f = b * e
  BY b * q \in Nat, b * (b * q) \in Nat
<1>5. PrimeOf(b) = f - e + q + c - 1 /\ Power(b, 8) = f
  BY <1>1, <1>3, <1>4 DEF PrimeOf
<1>6. c <= q /\ q > 0
  <2>1. c * 1 <= c * c
    BY <1>1, 1 \in Nat, LessByFactor
  <2> QED
    BY <1>1, <1>2, <2>1
<1>7. 2 * q <= e /\ 2 * e <= f
  <2>1. 2 * q <= b * q /\ 2 * e <= b * e
    BY 2 \in Nat, 2 <= b, LessByFactor
  <2> QED
    BY <1>4, <2>1
<1>8. 4 * (f - 1) <= 8 * (f - e + q + c - 1)
  BY <1>1, <1>6, <1>7
<1>9. 7 * (f - 1) < 9 * (f - e + q + c - 1)
  <2>1. CASE b = 2
    <3>1. Power(2, 0) = 1 /\ Power(2, 0 + 1) = 2 * Power(2, 0) /\ Power(2, 1 + 1) = 2 * Power(2, 1) /\ Power(2, 2 + 1) = 2 * Power(2, 2)
      BY 0 \in Nat, 1 \in Nat, 2 \in Nat, 2 \in Int, PowerStep
    <3>2. c = 8
      BY <1>1, <2>1, <3>1
    <3>3. q = 64 /\ e = 128 /\ f = 256
      BY <1>2, <1>4, <2>1, <3>2
    <3> QED
      BY <3>2, <3>3
  <2>2. CASE b # 2
    <3>1. PICK d \in Nat : b = d + 3
      BY <2>2, b - 3 \in Nat
    <3>2. PICK g \in Nat : g = d * q
      BY d * q \in Nat
    <3>3. e = g + 3 * q
      BY <1>4, <3>1, <3>2
    <3>4. PICK h \in Nat : h = d * g
      BY d * g \in Nat
    <3>5. d * (3 * q) = 3 * (d * q)
      OBVIOUS
    <3>6. f = h + 3 * g + 3 * e
      <4>1. (d + 3) * e = d * e + 3 * e /\ d * (g + 3 * q) = d * g + d * (3 * q)
        BY <3>3
      <4> QED
        BY <1>4, <3>1, <3>2, <3>3, <3>4, <3>5, <4>1
    <3> QED
      BY <1>1, <3>3, <3>6
  <2> QED
    BY <2>1, <2>2
<1>10. f - e + q + c - 1 \in Nat /\ f - e + q + c - 1 > 0 /\ f - e + q + c - 1 < f
  BY <1>1, <1>6, <1>7
<1> QED
  BY <1>5, <1>8, <1>9, <1>10

\* The powers from the eighth on, modulo the prime: the columns of the rows.
LEMMA PowersModulo ==
  ASSUME NEW b \in Nat, b > 1
  PROVE  /\ Congruent(Power(b, 8), Power(b, 0) - Power(b, 3) - Power(b, 6) + Power(b, 7), PrimeOf(b))
         /\ Congruent(Power(b, 9), Power(b, 0) + Power(b, 1) - Power(b, 3) - Power(b, 4) - Power(b, 6), PrimeOf(b))
         /\ Congruent(Power(b, 10), Power(b, 1) + Power(b, 2) - Power(b, 4) - Power(b, 5) - Power(b, 7), PrimeOf(b))
         /\ Congruent(Power(b, 11), 0 - Power(b, 0) + Power(b, 2) + 2 * Power(b, 3) - Power(b, 5) - Power(b, 7), PrimeOf(b))
         /\ Congruent(Power(b, 12), 0 - Power(b, 0) - Power(b, 1) + 2 * Power(b, 3) + 2 * Power(b, 4) - Power(b, 7), PrimeOf(b))
         /\ Congruent(Power(b, 13), 0 - Power(b, 0) - Power(b, 1) - Power(b, 2) + Power(b, 3) + 2 * Power(b, 4) + 2 * Power(b, 5) + Power(b, 6) - Power(b, 7), PrimeOf(b))
         /\ Congruent(Power(b, 14), 0 - Power(b, 0) - Power(b, 1) - Power(b, 2) + Power(b, 4) + 2 * Power(b, 5) + 3 * Power(b, 6), PrimeOf(b))
         /\ Congruent(Power(b, 15), 0 - Power(b, 1) - Power(b, 2) - Power(b, 3) + Power(b, 5) + 2 * Power(b, 6) + 3 * Power(b, 7), PrimeOf(b))
<1>1. \A i \in Nat, j \in Nat : Power(b, i) \in Int /\ Power(b, i) * Power(b, j) = Power(b, i + j)
  BY b \in Int, PowerPlus, PowerStep
<1>2. PICK p0 \in Int, p1 \in Int, p2 \in Int, p3 \in Int, p4 \in Int, p5 \in Int, p6 \in Int, p7 \in Int, p8 \in Int, p9 \in Int, p10 \in Int, p11 \in Int, p12 \in Int, p13 \in Int, p14 \in Int, p15 \in Int :
         p0 = Power(b, 0) /\ p1 = Power(b, 1) /\ p2 = Power(b, 2) /\ p3 = Power(b, 3) /\ p4 = Power(b, 4) /\ p5 = Power(b, 5) /\ p6 = Power(b, 6) /\ p7 = Power(b, 7) /\ p8 = Power(b, 8) /\ p9 = Power(b, 9) /\ p10 = Power(b, 10) /\ p11 = Power(b, 11) /\ p12 = Power(b, 12) /\ p13 = Power(b, 13) /\ p14 = Power(b, 14) /\ p15 = Power(b, 15)
  BY <1>1, 0 \in Nat, 1 \in Nat, 2 \in Nat, 3 \in Nat, 4 \in Nat, 5 \in Nat, 6 \in Nat, 7 \in Nat, 8 \in Nat, 9 \in Nat, 10 \in Nat, 11 \in Nat, 12 \in Nat, 13 \in Nat, 14 \in Nat, 15 \in Nat
<1>3. PICK p \in Int : p = PrimeOf(b) /\ p = p8 - p7 + p6 + p3 - 1
  <2>1. PrimeOf(b) = p8 - p7 + p6 + p3 - 1
    BY <1>2 DEF PrimeOf
  <2>2. p8 - p7 + p6 + p3 - 1 \in Int
    BY <1>2
  <2> QED
    BY <2>1, <2>2
<1>4. p0 = 1
  BY <1>2, b \in Int, PowerStep
<1>5. p * p0 = p8 - p7 + p6 + p3 - p0
  <2>1. p8 * p0 = p8 /\ p7 * p0 = p7 /\ p6 * p0 = p6 /\ p3 * p0 = p3
    <3>1. 8 + 0 = 8 /\ 7 + 0 = 7 /\ 6 + 0 = 6 /\ 3 + 0 = 3
      OBVIOUS
    <3>2. /\ Power(b, 8) * Power(b, 0) = Power(b, 8 + 0) /\ Power(b, 7) * Power(b, 0) = Power(b, 7 + 0)
          /\ Power(b, 6) * Power(b, 0) = Power(b, 6 + 0) /\ Power(b, 3) * Power(b, 0) = Power(b, 3 + 0)
      BY <1>1, 0 \in Nat, 3 \in Nat, 6 \in Nat, 7 \in Nat, 8 \in Nat, Zenon
    <3> QED
      BY <1>2, <3>1, <3>2
  <2>2. (p8 - p7 + p6 + p3 - 1) * p0 = p8 * p0 - p7 * p0 + p6 * p0 + p3 * p0 - p0
    OBVIOUS
  <2> QED
    BY <1>3, <2>1, <2>2
<1>6. p * p1 = p9 - p8 + p7 + p4 - p1
  <2>1. p8 * p1 = p9 /\ p7 * p1 = p8 /\ p6 * p1 = p7 /\ p3 * p1 = p4
    <3>1. 8 + 1 = 9 /\ 7 + 1 = 8 /\ 6 + 1 = 7 /\ 3 + 1 = 4
      OBVIOUS
    <3>2. /\ Power(b, 8) * Power(b, 1) = Power(b, 8 + 1) /\ Power(b, 7) * Power(b, 1) = Power(b, 7 + 1)
          /\ Power(b, 6) * Power(b, 1) = Power(b, 6 + 1) /\ Power(b, 3) * Power(b, 1) = Power(b, 3 + 1)
      BY <1>1, 1 \in Nat, 3 \in Nat, 6 \in Nat, 7 \in Nat, 8 \in Nat, Zenon
    <3> QED
      BY <1>2, <3>1, <3>2
  <2>2. (p8 - p7 + p6 + p3 - 1) * p1 = p8 * p1 - p7 * p1 + p6 * p1 + p3 * p1 - p1
    OBVIOUS
  <2> QED
    BY <1>3, <2>1, <2>2
<1>7. p * p2 = p10 - p9 + p8 + p5 - p2
  <2>1. p8 * p2 = p10 /\ p7 * p2 = p9 /\ p6 * p2 = p8 /\ p3 * p2 = p5
    <3>1. 8 + 2 = 10 /\ 7 + 2 = 9 /\ 6 + 2 = 8 /\ 3 + 2 = 5
      OBVIOUS
    <3>2. /\ Power(b, 8) * Power(b, 2) = Power(b, 8 + 2) /\ Power(b, 7) * Power(b, 2) = Power(b, 7 + 2)
          /\ Power(b, 6) * Power(b, 2) = Power(b, 6 + 2) /\ Power(b, 3) * Power(b, 2) = Power(b, 3 + 2)
      BY <1>1, 2 \in Nat, 3 \in Nat, 6 \in Nat, 7 \in Nat, 8 \in Nat, Zenon
    <3> QED
      BY <1>2, <3>1, <3>2
  <2>2. (p8 - p7 + p6 + p3 - 1) * p2 = p8 * p2 - p7 * p2 + p6 * p2 + p3 * p2 - p2
    OBVIOUS
  <2> QED
    BY <1>3, <2>1, <2>2
<1>8. p * p3 = p11 - p10 + p9 + p6 - p3
  <2>1. p8 * p3 = p11 /\ p7 * p3 = p10 /\ p6 * p3 = p9 /\ p3 * p3 = p6
    <3>1. 8 + 3 = 11 /\ 7 + 3 = 10 /\ 6 + 3 = 9 /\ 3 + 3 = 6
      OBVIOUS
    <3>2. /\ Power(b, 8) * Power(b, 3) = Power(b, 8 + 3) /\ Power(b, 7) * Power(b, 3) = Power(b, 7 + 3)
          /\ Power(b, 6) * Power(b, 3) = Power(b, 6 + 3) /\ Power(b, 3) * Power(b, 3) = Power(b, 3 + 3)
      BY <1>1, 3 \in Nat, 3 \in Nat, 6 \in Nat, 7 \in Nat, 8 \in Nat, Zenon
    <3> QED
      BY <1>2, <3>1, <3>2
  <2>2. (p8 - p7 + p6 + p3 - 1) * p3 = p8 * p3 - p7 * p3 + p6 * p3 + p3 * p3 - p3
    OBVIOUS
  <2> QED
    BY <1>3, <2>1, <2>2
<1>9. p * p4 = p12 - p11 + p10 + p7 - p4
  <2>1. p8 * p4 = p12 /\ p7 * p4 = p11 /\ p6 * p4 = p10 /\ p3 * p4 = p7
    <3>1. 8 + 4 = 12 /\ 7 + 4 = 11 /\ 6 + 4 = 10 /\ 3 + 4 = 7
      OBVIOUS
    <3>2. /\ Power(b, 8) * Power(b, 4) = Power(b, 8 + 4) /\ Power(b, 7) * Power(b, 4) = Power(b, 7 + 4)
          /\ Power(b, 6) * Power(b, 4) = Power(b, 6 + 4) /\ Power(b, 3) * Power(b, 4) = Power(b, 3 + 4)
      BY <1>1, 4 \in Nat, 3 \in Nat, 6 \in Nat, 7 \in Nat, 8 \in Nat, Zenon
    <3> QED
      BY <1>2, <3>1, <3>2
  <2>2. (p8 - p7 + p6 + p3 - 1) * p4 = p8 * p4 - p7 * p4 + p6 * p4 + p3 * p4 - p4
    OBVIOUS
  <2> QED
    BY <1>3, <2>1, <2>2
<1>10. p * p5 = p13 - p12 + p11 + p8 - p5
  <2>1. p8 * p5 = p13 /\ p7 * p5 = p12 /\ p6 * p5 = p11 /\ p3 * p5 = p8
    <3>1. 8 + 5 = 13 /\ 7 + 5 = 12 /\ 6 + 5 = 11 /\ 3 + 5 = 8
      OBVIOUS
    <3>2. /\ Power(b, 8) * Power(b, 5) = Power(b, 8 + 5) /\ Power(b, 7) * Power(b, 5) = Power(b, 7 + 5)
          /\ Power(b, 6) * Power(b, 5) = Power(b, 6 + 5) /\ Power(b, 3) * Power(b, 5) = Power(b, 3 + 5)
      BY <1>1, 5 \in Nat, 3 \in Nat, 6 \in Nat, 7 \in Nat, 8 \in Nat, Zenon
    <3> QED
      BY <1>2, <3>1, <3>2
  <2>2. (p8 - p7 + p6 + p3 - 1) * p5 = p8 * p5 - p7 * p5 + p6 * p5 + p3 * p5 - p5
    OBVIOUS
  <2> QED
    BY <1>3, <2>1, <2>2
<1>11. p * p6 = p14 - p13 + p12 + p9 - p6
  <2>1. p8 * p6 = p14 /\ p7 * p6 = p13 /\ p6 * p6 = p12 /\ p3 * p6 = p9
    <3>1. 8 + 6 = 14 /\ 7 + 6 = 13 /\ 6 + 6 = 12 /\ 3 + 6 = 9
      OBVIOUS
    <3>2. /\ Power(b, 8) * Power(b, 6) = Power(b, 8 + 6) /\ Power(b, 7) * Power(b, 6) = Power(b, 7 + 6)
          /\ Power(b, 6) * Power(b, 6) = Power(b, 6 + 6) /\ Power(b, 3) * Power(b, 6) = Power(b, 3 + 6)
      BY <1>1, 6 \in Nat, 3 \in Nat, 6 \in Nat, 7 \in Nat, 8 \in Nat, Zenon
    <3> QED
      BY <1>2, <3>1, <3>2
  <2>2. (p8 - p7 + p6 + p3 - 1) * p6 = p8 * p6 - p7 * p6 + p6 * p6 + p3 * p6 - p6
    OBVIOUS
  <2> QED
    BY <1>3, <2>1, <2>2
<1>12. p * p7 = p15 - p14 + p13 + p10 - p7
  <2>1. p8 * p7 = p15 /\ p7 * p7 = p14 /\ p6 * p7 = p13 /\ p3 * p7 = p10
    <3>1. 8 + 7 = 15 /\ 7 + 7 = 14 /\ 6 + 7 = 13 /\ 3 + 7 = 10
      OBVIOUS
    <3>2. /\ Power(b, 8) * Power(b, 7) = Power(b, 8 + 7) /\ Power(b, 7) * Power(b, 7) = Power(b, 7 + 7)
          /\ Power(b, 6) * Power(b, 7) = Power(b, 6 + 7) /\ Power(b, 3) * Power(b, 7) = Power(b, 3 + 7)
      BY <1>1, 7 \in Nat, 3 \in Nat, 6 \in Nat, 7 \in Nat, 8 \in Nat, Zenon
    <3> QED
      BY <1>2, <3>1, <3>2
  <2>2. (p8 - p7 + p6 + p3 - 1) * p7 = p8 * p7 - p7 * p7 + p6 * p7 + p3 * p7 - p7
    OBVIOUS
  <2> QED
    BY <1>3, <2>1, <2>2
<1>13. Congruent(p8, p0 - p3 - p6 + p7, p)
  <2>1. PICK k \in Int : k = p0
    BY <1>2
  <2>2. k * p = p * p0
    BY <2>1
  <2>3. p8 = (p0 - p3 - p6 + p7) + k * p
    BY <1>4, <1>5, <2>2
  <2> QED
    BY <2>3 DEF Congruent
<1>14. Congruent(p9, p0 + p1 - p3 - p4 - p6, p)
  <2>1. PICK k \in Int : k = p0 + p1
    OBVIOUS
  <2>2. k * p = p * p0 + p * p1
    BY <2>1
  <2>3. p9 = (p0 + p1 - p3 - p4 - p6) + k * p
    BY <1>4, <1>5, <1>6, <2>2
  <2> QED
    BY <2>3 DEF Congruent
<1>15. Congruent(p10, p1 + p2 - p4 - p5 - p7, p)
  <2>1. PICK k \in Int : k = p1 + p2
    OBVIOUS
  <2>2. k * p = p * p1 + p * p2
    BY <2>1
  <2>3. p10 = (p1 + p2 - p4 - p5 - p7) + k * p
    BY <1>4, <1>6, <1>7, <2>2
  <2> QED
    BY <2>3 DEF Congruent
<1>16. Congruent(p11, 0 - p0 + p2 + 2 * p3 - p5 - p7, p)
  <2>1. PICK k \in Int : k = 0 - p0 + p2 + p3
    OBVIOUS
  <2>2. k * p = 0 - p * p0 + p * p2 + p * p3
    BY <2>1
  <2>3. p11 = (0 - p0 + p2 + 2 * p3 - p5 - p7) + k * p
    BY <1>4, <1>5, <1>7, <1>8, <2>2
  <2> QED
    BY <2>3 DEF Congruent
<1>17. Congruent(p12, 0 - p0 - p1 + 2 * p3 + 2 * p4 - p7, p)
  <2>1. PICK k \in Int : k = 0 - p0 - p1 + p3 + p4
    OBVIOUS
  <2>2. k * p = 0 - p * p0 - p * p1 + p * p3 + p * p4
    BY <2>1
  <2>3. p12 = (0 - p0 - p1 + 2 * p3 + 2 * p4 - p7) + k * p
    BY <1>4, <1>5, <1>6, <1>8, <1>9, <2>2
  <2> QED
    BY <2>3 DEF Congruent
<1>18. Congruent(p13, 0 - p0 - p1 - p2 + p3 + 2 * p4 + 2 * p5 + p6 - p7, p)
  <2>1. PICK k \in Int : k = 0 - p0 - p1 - p2 + p4 + p5
    OBVIOUS
  <2>2. k * p = 0 - p * p0 - p * p1 - p * p2 + p * p4 + p * p5
    BY <2>1
  <2>3. p13 = (0 - p0 - p1 - p2 + p3 + 2 * p4 + 2 * p5 + p6 - p7) + k * p
    BY <1>4, <1>5, <1>6, <1>7, <1>9, <1>10, <2>2
  <2> QED
    BY <2>3 DEF Congruent
<1>19. Congruent(p14, 0 - p0 - p1 - p2 + p4 + 2 * p5 + 3 * p6, p)
  <2>1. PICK k \in Int : k = 0 - p0 - p1 - p2 - p3 + p5 + p6
    OBVIOUS
  <2>2. k * p = 0 - p * p0 - p * p1 - p * p2 - p * p3 + p * p5 + p * p6
    BY <2>1
  <2>3. p14 = (0 - p0 - p1 - p2 + p4 + 2 * p5 + 3 * p6) + k * p
    BY <1>4, <1>5, <1>6, <1>7, <1>8, <1>10, <1>11, <2>2
  <2> QED
    BY <2>3 DEF Congruent
<1>20. Congruent(p15, 0 - p1 - p2 - p3 + p5 + 2 * p6 + 3 * p7, p)
  <2>1. PICK k \in Int : k = 0 - p1 - p2 - p3 - p4 + p6 + p7
    OBVIOUS
  <2>2. k * p = 0 - p * p1 - p * p2 - p * p3 - p * p4 + p * p6 + p * p7
    BY <2>1
  <2>3. p15 = (0 - p1 - p2 - p3 + p5 + 2 * p6 + 3 * p7) + k * p
    BY <1>4, <1>6, <1>7, <1>8, <1>9, <1>11, <1>12, <2>2
  <2> QED
    BY <2>3 DEF Congruent
<1> QED
  BY <1>2, <1>3, <1>13, <1>14, <1>15, <1>16, <1>17, <1>18, <1>19, <1>20

\* Eight digits, lowest first, and the rows of digits of vli_mmod_fast_secp256r1.
Digits(b, d) ==
    d[1] + d[2] * Power(b, 1) + d[3] * Power(b, 2) + d[4] * Power(b, 3)
        + d[5] * Power(b, 4) + d[6] * Power(b, 5) + d[7] * Power(b, 6) + d[8] * Power(b, 7)

DigitRows(c) ==
    <<<<0, 0, 0, c[11], c[12], c[13], c[14], c[15]>>,
      <<0, 0, 0, c[12], c[13], c[14], c[15], 0>>,
      <<c[8], c[9], c[10], 0, 0, 0, c[14], c[15]>>,
      <<c[9], c[10], c[11], c[13], c[14], c[15], c[13], c[8]>>,
      <<c[11], c[12], c[13], 0, 0, 0, c[8], c[10]>>,
      <<c[12], c[13], c[14], c[15], 0, 0, c[9], c[11]>>,
      <<c[13], c[14], c[15], c[8], c[9], c[10], 0, c[12]>>,
      <<c[14], c[15], 0, c[9], c[10], c[11], 0, c[13]>>>>

DigitTotal(b, c) ==
    LET d == DigitRows(c)
    IN  2 * Digits(b, d[1]) + 2 * Digits(b, d[2]) + Digits(b, d[3]) + Digits(b, d[4])
            - Digits(b, d[5]) - Digits(b, d[6]) - Digits(b, d[7]) - Digits(b, d[8])

HighDigits(b, c) ==
    c[8] * Power(b, 8) + c[9] * Power(b, 9) + c[10] * Power(b, 10) + c[11] * Power(b, 11)
        + c[12] * Power(b, 12) + c[13] * Power(b, 13) + c[14] * Power(b, 14) + c[15] * Power(b, 15)

\* The rows are the digits above the eighth, modulo the prime.
LEMMA RowsModulo ==
  ASSUME NEW b \in Nat, b > 1, NEW c, \A i \in 8 .. 15 : c[i] \in Int
  PROVE  Congruent(HighDigits(b, c), DigitTotal(b, c), PrimeOf(b)) /\ DigitTotal(b, c) \in Int
<1>1. \A i \in Nat : Power(b, i) \in Int
  BY b \in Int, PowerStep
<1>2. PICK p0 \in Int, p1 \in Int, p2 \in Int, p3 \in Int, p4 \in Int, p5 \in Int, p6 \in Int, p7 \in Int, p8 \in Int, p9 \in Int, p10 \in Int, p11 \in Int, p12 \in Int, p13 \in Int, p14 \in Int, p15 \in Int :
         p0 = Power(b, 0) /\ p1 = Power(b, 1) /\ p2 = Power(b, 2) /\ p3 = Power(b, 3) /\ p4 = Power(b, 4) /\ p5 = Power(b, 5) /\ p6 = Power(b, 6) /\ p7 = Power(b, 7) /\ p8 = Power(b, 8) /\ p9 = Power(b, 9) /\ p10 = Power(b, 10) /\ p11 = Power(b, 11) /\ p12 = Power(b, 12) /\ p13 = Power(b, 13) /\ p14 = Power(b, 14) /\ p15 = Power(b, 15)
  BY <1>1, 0 \in Nat, 1 \in Nat, 2 \in Nat, 3 \in Nat, 4 \in Nat, 5 \in Nat, 6 \in Nat, 7 \in Nat, 8 \in Nat, 9 \in Nat, 10 \in Nat, 11 \in Nat, 12 \in Nat, 13 \in Nat, 14 \in Nat, 15 \in Nat
<1>3. PICK y8 \in Int, y9 \in Int, y10 \in Int, y11 \in Int, y12 \in Int, y13 \in Int, y14 \in Int, y15 \in Int :
         y8 = c[8] /\ y9 = c[9] /\ y10 = c[10] /\ y11 = c[11] /\ y12 = c[12] /\ y13 = c[13] /\ y14 = c[14] /\ y15 = c[15]
  BY 8 \in 8 .. 15, 9 \in 8 .. 15, 10 \in 8 .. 15, 11 \in 8 .. 15, 12 \in 8 .. 15, 13 \in 8 .. 15, 14 \in 8 .. 15, 15 \in 8 .. 15
<1>4. PICK p \in Int : p = PrimeOf(b)
  BY PrimeBounds
<1>5. p0 = 1
  BY <1>2, b \in Int, PowerStep
<1>6. PICK k8 \in Int : p8 = (p0 - p3 - p6 + p7) + k8 * p
  <2>1. Congruent(p8, p0 - p3 - p6 + p7, p)
    BY <1>2, <1>4, PowersModulo
  <2> QED
    BY <2>1 DEF Congruent
<1>7. PICK k9 \in Int : p9 = (p0 + p1 - p3 - p4 - p6) + k9 * p
  <2>1. Congruent(p9, p0 + p1 - p3 - p4 - p6, p)
    BY <1>2, <1>4, PowersModulo
  <2> QED
    BY <2>1 DEF Congruent
<1>8. PICK k10 \in Int : p10 = (p1 + p2 - p4 - p5 - p7) + k10 * p
  <2>1. Congruent(p10, p1 + p2 - p4 - p5 - p7, p)
    BY <1>2, <1>4, PowersModulo
  <2> QED
    BY <2>1 DEF Congruent
<1>9. PICK k11 \in Int : p11 = (0 - p0 + p2 + 2 * p3 - p5 - p7) + k11 * p
  <2>1. Congruent(p11, 0 - p0 + p2 + 2 * p3 - p5 - p7, p)
    BY <1>2, <1>4, PowersModulo
  <2> QED
    BY <2>1 DEF Congruent
<1>10. PICK k12 \in Int : p12 = (0 - p0 - p1 + 2 * p3 + 2 * p4 - p7) + k12 * p
  <2>1. Congruent(p12, 0 - p0 - p1 + 2 * p3 + 2 * p4 - p7, p)
    BY <1>2, <1>4, PowersModulo
  <2> QED
    BY <2>1 DEF Congruent
<1>11. PICK k13 \in Int : p13 = (0 - p0 - p1 - p2 + p3 + 2 * p4 + 2 * p5 + p6 - p7) + k13 * p
  <2>1. Congruent(p13, 0 - p0 - p1 - p2 + p3 + 2 * p4 + 2 * p5 + p6 - p7, p)
    BY <1>2, <1>4, PowersModulo
  <2> QED
    BY <2>1 DEF Congruent
<1>12. PICK k14 \in Int : p14 = (0 - p0 - p1 - p2 + p4 + 2 * p5 + 3 * p6) + k14 * p
  <2>1. Congruent(p14, 0 - p0 - p1 - p2 + p4 + 2 * p5 + 3 * p6, p)
    BY <1>2, <1>4, PowersModulo
  <2> QED
    BY <2>1 DEF Congruent
<1>13. PICK k15 \in Int : p15 = (0 - p1 - p2 - p3 + p5 + 2 * p6 + 3 * p7) + k15 * p
  <2>1. Congruent(p15, 0 - p1 - p2 - p3 + p5 + 2 * p6 + 3 * p7, p)
    BY <1>2, <1>4, PowersModulo
  <2> QED
    BY <2>1 DEF Congruent
<1>14. PICK s1 \in Int : s1 = Digits(b, DigitRows(c)[1]) /\ s1 = y11 * p3 + y12 * p4 + y13 * p5 + y14 * p6 + y15 * p7
  <2>1. Digits(b, <<0, 0, 0, y11, y12, y13, y14, y15>>) = y11 * p3 + y12 * p4 + y13 * p5 + y14 * p6 + y15 * p7
    BY <1>2, SMT DEF Digits
  <2>2. DigitRows(c)[1] = <<0, 0, 0, y11, y12, y13, y14, y15>>
    BY <1>3 DEF DigitRows
  <2>3. y11 * p3 + y12 * p4 + y13 * p5 + y14 * p6 + y15 * p7 \in Int
    OBVIOUS
  <2> QED
    BY <2>1, <2>2, <2>3
<1>15. PICK s2 \in Int : s2 = Digits(b, DigitRows(c)[2]) /\ s2 = y12 * p3 + y13 * p4 + y14 * p5 + y15 * p6
  <2>1. Digits(b, <<0, 0, 0, y12, y13, y14, y15, 0>>) = y12 * p3 + y13 * p4 + y14 * p5 + y15 * p6
    BY <1>2, SMT DEF Digits
  <2>2. DigitRows(c)[2] = <<0, 0, 0, y12, y13, y14, y15, 0>>
    BY <1>3 DEF DigitRows
  <2>3. y12 * p3 + y13 * p4 + y14 * p5 + y15 * p6 \in Int
    OBVIOUS
  <2> QED
    BY <2>1, <2>2, <2>3
<1>16. PICK s3 \in Int : s3 = Digits(b, DigitRows(c)[3]) /\ s3 = y8 + y9 * p1 + y10 * p2 + y14 * p6 + y15 * p7
  <2>1. Digits(b, <<y8, y9, y10, 0, 0, 0, y14, y15>>) = y8 + y9 * p1 + y10 * p2 + y14 * p6 + y15 * p7
    BY <1>2, SMT DEF Digits
  <2>2. DigitRows(c)[3] = <<y8, y9, y10, 0, 0, 0, y14, y15>>
    BY <1>3 DEF DigitRows
  <2>3. y8 + y9 * p1 + y10 * p2 + y14 * p6 + y15 * p7 \in Int
    OBVIOUS
  <2> QED
    BY <2>1, <2>2, <2>3
<1>17. PICK s4 \in Int : s4 = Digits(b, DigitRows(c)[4]) /\ s4 = y9 + y10 * p1 + y11 * p2 + y13 * p3 + y14 * p4 + y15 * p5 + y13 * p6 + y8 * p7
  <2>1. Digits(b, <<y9, y10, y11, y13, y14, y15, y13, y8>>) = y9 + y10 * p1 + y11 * p2 + y13 * p3 + y14 * p4 + y15 * p5 + y13 * p6 + y8 * p7
    BY <1>2, SMT DEF Digits
  <2>2. DigitRows(c)[4] = <<y9, y10, y11, y13, y14, y15, y13, y8>>
    BY <1>3 DEF DigitRows
  <2>3. y9 + y10 * p1 + y11 * p2 + y13 * p3 + y14 * p4 + y15 * p5 + y13 * p6 + y8 * p7 \in Int
    OBVIOUS
  <2> QED
    BY <2>1, <2>2, <2>3
<1>18. PICK d1 \in Int : d1 = Digits(b, DigitRows(c)[5]) /\ d1 = y11 + y12 * p1 + y13 * p2 + y8 * p6 + y10 * p7
  <2>1. Digits(b, <<y11, y12, y13, 0, 0, 0, y8, y10>>) = y11 + y12 * p1 + y13 * p2 + y8 * p6 + y10 * p7
    BY <1>2, SMT DEF Digits
  <2>2. DigitRows(c)[5] = <<y11, y12, y13, 0, 0, 0, y8, y10>>
    BY <1>3 DEF DigitRows
  <2>3. y11 + y12 * p1 + y13 * p2 + y8 * p6 + y10 * p7 \in Int
    OBVIOUS
  <2> QED
    BY <2>1, <2>2, <2>3
<1>19. PICK d2 \in Int : d2 = Digits(b, DigitRows(c)[6]) /\ d2 = y12 + y13 * p1 + y14 * p2 + y15 * p3 + y9 * p6 + y11 * p7
  <2>1. Digits(b, <<y12, y13, y14, y15, 0, 0, y9, y11>>) = y12 + y13 * p1 + y14 * p2 + y15 * p3 + y9 * p6 + y11 * p7
    BY <1>2, SMT DEF Digits
  <2>2. DigitRows(c)[6] = <<y12, y13, y14, y15, 0, 0, y9, y11>>
    BY <1>3 DEF DigitRows
  <2>3. y12 + y13 * p1 + y14 * p2 + y15 * p3 + y9 * p6 + y11 * p7 \in Int
    OBVIOUS
  <2> QED
    BY <2>1, <2>2, <2>3
<1>20. PICK d3 \in Int : d3 = Digits(b, DigitRows(c)[7]) /\ d3 = y13 + y14 * p1 + y15 * p2 + y8 * p3 + y9 * p4 + y10 * p5 + y12 * p7
  <2>1. Digits(b, <<y13, y14, y15, y8, y9, y10, 0, y12>>) = y13 + y14 * p1 + y15 * p2 + y8 * p3 + y9 * p4 + y10 * p5 + y12 * p7
    BY <1>2, SMT DEF Digits
  <2>2. DigitRows(c)[7] = <<y13, y14, y15, y8, y9, y10, 0, y12>>
    BY <1>3 DEF DigitRows
  <2>3. y13 + y14 * p1 + y15 * p2 + y8 * p3 + y9 * p4 + y10 * p5 + y12 * p7 \in Int
    OBVIOUS
  <2> QED
    BY <2>1, <2>2, <2>3
<1>21. PICK d4 \in Int : d4 = Digits(b, DigitRows(c)[8]) /\ d4 = y14 + y15 * p1 + y9 * p3 + y10 * p4 + y11 * p5 + y13 * p7
  <2>1. Digits(b, <<y14, y15, 0, y9, y10, y11, 0, y13>>) = y14 + y15 * p1 + y9 * p3 + y10 * p4 + y11 * p5 + y13 * p7
    BY <1>2, SMT DEF Digits
  <2>2. DigitRows(c)[8] = <<y14, y15, 0, y9, y10, y11, 0, y13>>
    BY <1>3 DEF DigitRows
  <2>3. y14 + y15 * p1 + y9 * p3 + y10 * p4 + y11 * p5 + y13 * p7 \in Int
    OBVIOUS
  <2> QED
    BY <2>1, <2>2, <2>3
<1>22. DigitTotal(b, c) = 2 * s1 + 2 * s2 + s3 + s4 - d1 - d2 - d3 - d4
  BY <1>14, <1>15, <1>16, <1>17, <1>18, <1>19, <1>20, <1>21 DEF DigitTotal
<1>23. HighDigits(b, c) = y8 * p8 + y9 * p9 + y10 * p10 + y11 * p11 + y12 * p12 + y13 * p13 + y14 * p14 + y15 * p15
  BY <1>2, <1>3 DEF HighDigits
<1>24. y8 * p8 = (y8 * p0 - y8 * p3 - y8 * p6 + y8 * p7) + (y8 * k8) * p
  <2>1. y8 * ((p0 - p3 - p6 + p7) + k8 * p) = (y8 * p0 - y8 * p3 - y8 * p6 + y8 * p7) + (y8 * k8) * p
    OBVIOUS
  <2> QED
    BY <1>6, <2>1
<1>25. y9 * p9 = (y9 * p0 + y9 * p1 - y9 * p3 - y9 * p4 - y9 * p6) + (y9 * k9) * p
  <2>1. y9 * ((p0 + p1 - p3 - p4 - p6) + k9 * p) = (y9 * p0 + y9 * p1 - y9 * p3 - y9 * p4 - y9 * p6) + (y9 * k9) * p
    OBVIOUS
  <2> QED
    BY <1>7, <2>1
<1>26. y10 * p10 = (y10 * p1 + y10 * p2 - y10 * p4 - y10 * p5 - y10 * p7) + (y10 * k10) * p
  <2>1. y10 * ((p1 + p2 - p4 - p5 - p7) + k10 * p) = (y10 * p1 + y10 * p2 - y10 * p4 - y10 * p5 - y10 * p7) + (y10 * k10) * p
    OBVIOUS
  <2> QED
    BY <1>8, <2>1
<1>27. y11 * p11 = (0 - y11 * p0 + y11 * p2 + 2 * y11 * p3 - y11 * p5 - y11 * p7) + (y11 * k11) * p
  <2>1. y11 * ((0 - p0 + p2 + 2 * p3 - p5 - p7) + k11 * p) = (0 - y11 * p0 + y11 * p2 + 2 * y11 * p3 - y11 * p5 - y11 * p7) + (y11 * k11) * p
    OBVIOUS
  <2> QED
    BY <1>9, <2>1
<1>28. y12 * p12 = (0 - y12 * p0 - y12 * p1 + 2 * y12 * p3 + 2 * y12 * p4 - y12 * p7) + (y12 * k12) * p
  <2>1. y12 * ((0 - p0 - p1 + 2 * p3 + 2 * p4 - p7) + k12 * p) = (0 - y12 * p0 - y12 * p1 + 2 * y12 * p3 + 2 * y12 * p4 - y12 * p7) + (y12 * k12) * p
    OBVIOUS
  <2> QED
    BY <1>10, <2>1
<1>29. y13 * p13 = (0 - y13 * p0 - y13 * p1 - y13 * p2 + y13 * p3 + 2 * y13 * p4 + 2 * y13 * p5 + y13 * p6 - y13 * p7) + (y13 * k13) * p
  <2>1. y13 * ((0 - p0 - p1 - p2 + p3 + 2 * p4 + 2 * p5 + p6 - p7) + k13 * p) = (0 - y13 * p0 - y13 * p1 - y13 * p2 + y13 * p3 + 2 * y13 * p4 + 2 * y13 * p5 + y13 * p6 - y13 * p7) + (y13 * k13) * p
    OBVIOUS
  <2> QED
    BY <1>11, <2>1
<1>30. y14 * p14 = (0 - y14 * p0 - y14 * p1 - y14 * p2 + y14 * p4 + 2 * y14 * p5 + 3 * y14 * p6) + (y14 * k14) * p
  <2>1. y14 * ((0 - p0 - p1 - p2 + p4 + 2 * p5 + 3 * p6) + k14 * p) = (0 - y14 * p0 - y14 * p1 - y14 * p2 + y14 * p4 + 2 * y14 * p5 + 3 * y14 * p6) + (y14 * k14) * p
    OBVIOUS
  <2> QED
    BY <1>12, <2>1
<1>31. y15 * p15 = (0 - y15 * p1 - y15 * p2 - y15 * p3 + y15 * p5 + 2 * y15 * p6 + 3 * y15 * p7) + (y15 * k15) * p
  <2>1. y15 * ((0 - p1 - p2 - p3 + p5 + 2 * p6 + 3 * p7) + k15 * p) = (0 - y15 * p1 - y15 * p2 - y15 * p3 + y15 * p5 + 2 * y15 * p6 + 3 * y15 * p7) + (y15 * k15) * p
    OBVIOUS
  <2> QED
    BY <1>13, <2>1
<1>32. PICK k \in Int : k = y8 * k8 + y9 * k9 + y10 * k10 + y11 * k11 + y12 * k12 + y13 * k13 + y14 * k14 + y15 * k15
  OBVIOUS
<1>33. k * p = (y8 * k8) * p + (y9 * k9) * p + (y10 * k10) * p + (y11 * k11) * p + (y12 * k12) * p + (y13 * k13) * p + (y14 * k14) * p + (y15 * k15) * p
  BY <1>32
<1>34. 2 * s1 + 2 * s2 + s3 + s4 - d1 - d2 - d3 - d4 = (y8 * p0 - y8 * p3 - y8 * p6 + y8 * p7) + (y9 * p0 + y9 * p1 - y9 * p3 - y9 * p4 - y9 * p6) + (y10 * p1 + y10 * p2 - y10 * p4 - y10 * p5 - y10 * p7) + (0 - y11 * p0 + y11 * p2 + 2 * y11 * p3 - y11 * p5 - y11 * p7) + (0 - y12 * p0 - y12 * p1 + 2 * y12 * p3 + 2 * y12 * p4 - y12 * p7) + (0 - y13 * p0 - y13 * p1 - y13 * p2 + y13 * p3 + 2 * y13 * p4 + 2 * y13 * p5 + y13 * p6 - y13 * p7) + (0 - y14 * p0 - y14 * p1 - y14 * p2 + y14 * p4 + 2 * y14 * p5 + 3 * y14 * p6) + (0 - y15 * p1 - y15 * p2 - y15 * p3 + y15 * p5 + 2 * y15 * p6 + 3 * y15 * p7)
  BY <1>5, <1>14, <1>15, <1>16, <1>17, <1>18, <1>19, <1>20, <1>21
<1>35. HighDigits(b, c) = DigitTotal(b, c) + k * p
  <2>1. PICK a8 \in Int, a9 \in Int, a10 \in Int, a11 \in Int, a12 \in Int, a13 \in Int, a14 \in Int, a15 \in Int :
           a8 = y8 * p0 - y8 * p3 - y8 * p6 + y8 * p7 /\ a9 = y9 * p0 + y9 * p1 - y9 * p3 - y9 * p4 - y9 * p6 /\ a10 = y10 * p1 + y10 * p2 - y10 * p4 - y10 * p5 - y10 * p7 /\ a11 = 0 - y11 * p0 + y11 * p2 + 2 * y11 * p3 - y11 * p5 - y11 * p7 /\ a12 = 0 - y12 * p0 - y12 * p1 + 2 * y12 * p3 + 2 * y12 * p4 - y12 * p7 /\ a13 = 0 - y13 * p0 - y13 * p1 - y13 * p2 + y13 * p3 + 2 * y13 * p4 + 2 * y13 * p5 + y13 * p6 - y13 * p7 /\ a14 = 0 - y14 * p0 - y14 * p1 - y14 * p2 + y14 * p4 + 2 * y14 * p5 + 3 * y14 * p6 /\ a15 = 0 - y15 * p1 - y15 * p2 - y15 * p3 + y15 * p5 + 2 * y15 * p6 + 3 * y15 * p7
    OBVIOUS
  <2>2. PICK e8 \in Int, e9 \in Int, e10 \in Int, e11 \in Int, e12 \in Int, e13 \in Int, e14 \in Int, e15 \in Int :
           e8 = (y8 * k8) * p /\ e9 = (y9 * k9) * p /\ e10 = (y10 * k10) * p /\ e11 = (y11 * k11) * p /\ e12 = (y12 * k12) * p /\ e13 = (y13 * k13) * p /\ e14 = (y14 * k14) * p /\ e15 = (y15 * k15) * p
    OBVIOUS
  <2>3. y8 * p8 = a8 + e8 /\ y9 * p9 = a9 + e9 /\ y10 * p10 = a10 + e10 /\ y11 * p11 = a11 + e11 /\ y12 * p12 = a12 + e12 /\ y13 * p13 = a13 + e13 /\ y14 * p14 = a14 + e14 /\ y15 * p15 = a15 + e15
    BY <1>24, <1>25, <1>26, <1>27, <1>28, <1>29, <1>30, <1>31, <2>1, <2>2
  <2>4. DigitTotal(b, c) = a8 + a9 + a10 + a11 + a12 + a13 + a14 + a15
    BY <1>22, <1>34, <2>1
  <2>5. k * p = e8 + e9 + e10 + e11 + e12 + e13 + e14 + e15
    BY <1>33, <2>2
  <2> QED
    BY <1>23, <2>3, <2>4, <2>5
<1>36. DigitTotal(b, c) \in Int
  BY <1>22
<1> QED
  BY <1>4, <1>35, <1>36 DEF Congruent

\* Congruent numbers have the same remainder.
LEMMA SameRemainder ==
  ASSUME NEW x \in Int, NEW y \in Int, NEW m \in Nat, m > 0, Congruent(x, y, m)
  PROVE  x % m = y % m
<1>1. PICK k \in Int : x = y + k * m
  BY DEF Congruent
<1>2. PICK q \in Int, r \in Int : y = m * q + r /\ 0 <= r /\ r < m /\ y % m = r
  BY QuotientRest
<1>3. PICK e \in Int : e = q + k
  BY q + k \in Int
<1>4. m * e = m * q + k * m /\ m * q \in Int /\ k * m \in Int
  BY <1>3
<1>5. x = m * e + r
  BY <1>1, <1>2, <1>4
<1>6. x % m = r
  BY <1>2, <1>5, QuotientIs, Zenon
<1> QED
  BY <1>2, <1>6

\* Numbers of eight words, and of sixteen, digit by digit.
LEMMA LowDigits ==
  ASSUME NEW size \in Nat, size >= 8, NEW a, a \in Vli(size)
  PROVE  Lowest(a, 8) = Digits(W, a) /\ Lowest(a, 8) \in Int
<1>1. \A k \in 0 .. 7 : Lowest(a, k + 1) = Lowest(a, k) + a[k + 1] * Power(W, k) /\ a[k + 1] \in Int /\ Power(W, k) \in Int
  <2> SUFFICES ASSUME NEW k \in 0 .. 7
               PROVE  Lowest(a, k + 1) = Lowest(a, k) + a[k + 1] * Power(W, k) /\ a[k + 1] \in Int /\ Power(W, k) \in Int
    OBVIOUS
  <2>1. k \in 0 .. size - 1 /\ k + 1 \in 1 .. size /\ k \in Nat
    OBVIOUS
  <2>2. Lowest(a, k + 1) = Lowest(a, k) + a[k + 1] * Place(k)
    BY <2>1, LowestIs
  <2>3. a[k + 1] \in Nat /\ Place(k) \in Nat
    BY <2>1, WordsAre, PlaceIs
  <2> QED
    BY <2>2, <2>3 DEF Place
<1>2. Lowest(a, 0) = 0 /\ Power(W, 0) = 1
  BY LowestIs, PlaceIs DEF Place
<1>3. Lowest(a, 1) = Lowest(a, 0) + a[1] * Power(W, 0) /\ a[1] \in Int /\ Power(W, 0) \in Int
  <2>1. 0 \in 0 .. 7 /\ 0 + 1 = 1
    OBVIOUS
  <2> QED
    BY <1>1, <2>1, Zenon
<1>4. Lowest(a, 2) = Lowest(a, 1) + a[2] * Power(W, 1) /\ a[2] \in Int /\ Power(W, 1) \in Int
  <2>1. 1 \in 0 .. 7 /\ 1 + 1 = 2
    OBVIOUS
  <2> QED
    BY <1>1, <2>1, Zenon
<1>5. Lowest(a, 3) = Lowest(a, 2) + a[3] * Power(W, 2) /\ a[3] \in Int /\ Power(W, 2) \in Int
  <2>1. 2 \in 0 .. 7 /\ 2 + 1 = 3
    OBVIOUS
  <2> QED
    BY <1>1, <2>1, Zenon
<1>6. Lowest(a, 4) = Lowest(a, 3) + a[4] * Power(W, 3) /\ a[4] \in Int /\ Power(W, 3) \in Int
  <2>1. 3 \in 0 .. 7 /\ 3 + 1 = 4
    OBVIOUS
  <2> QED
    BY <1>1, <2>1, Zenon
<1>7. Lowest(a, 5) = Lowest(a, 4) + a[5] * Power(W, 4) /\ a[5] \in Int /\ Power(W, 4) \in Int
  <2>1. 4 \in 0 .. 7 /\ 4 + 1 = 5
    OBVIOUS
  <2> QED
    BY <1>1, <2>1, Zenon
<1>8. Lowest(a, 6) = Lowest(a, 5) + a[6] * Power(W, 5) /\ a[6] \in Int /\ Power(W, 5) \in Int
  <2>1. 5 \in 0 .. 7 /\ 5 + 1 = 6
    OBVIOUS
  <2> QED
    BY <1>1, <2>1, Zenon
<1>9. Lowest(a, 7) = Lowest(a, 6) + a[7] * Power(W, 6) /\ a[7] \in Int /\ Power(W, 6) \in Int
  <2>1. 6 \in 0 .. 7 /\ 6 + 1 = 7
    OBVIOUS
  <2> QED
    BY <1>1, <2>1, Zenon
<1>10. Lowest(a, 8) = Lowest(a, 7) + a[8] * Power(W, 7) /\ a[8] \in Int /\ Power(W, 7) \in Int
  <2>1. 7 \in 0 .. 7 /\ 7 + 1 = 8
    OBVIOUS
  <2> QED
    BY <1>1, <2>1, Zenon
<1>11. Lowest(a, 1) = a[1]
  BY <1>2, <1>3
<1> QED
  BY <1>4, <1>5, <1>6, <1>7, <1>8, <1>9, <1>10, <1>3, <1>11 DEF Digits

\* Eight words are eight digits.
LEMMA NumberEight ==
  ASSUME NEW a, a \in Vli(8)
  PROVE  Number(a) = Digits(W, a)
<1>1. Lowest(a, 8) = Digits(W, a)
  BY 8 \in Nat, 8 >= 8, LowDigits
<1>2. Number(a) = Lowest(a, 8)
  BY 8 \in Nat, LowestIs
<1> QED
  BY <1>1, <1>2

\* Sixteen words are the lowest eight and eight high digits.
LEMMA NumberSixteen ==
  ASSUME NEW a, a \in Vli(16), NEW c, c = [i \in 8 .. 15 |-> a[i + 1]]
  PROVE  Number(a) = Lowest(a, 8) + HighDigits(W, c) /\ Lowest(a, 8) \in Int
<1>1. \A k \in 8 .. 15 : Lowest(a, k + 1) = Lowest(a, k) + c[k] * Power(W, k) /\ c[k] \in Int /\ Power(W, k) \in Int
  <2> SUFFICES ASSUME NEW k \in 8 .. 15
               PROVE  Lowest(a, k + 1) = Lowest(a, k) + c[k] * Power(W, k) /\ c[k] \in Int /\ Power(W, k) \in Int
    OBVIOUS
  <2>1. k \in 0 .. 16 - 1 /\ k + 1 \in 1 .. 16 /\ k \in Nat /\ 16 \in Nat
    OBVIOUS
  <2>2. Lowest(a, k + 1) = Lowest(a, k) + a[k + 1] * Place(k)
    BY <2>1, LowestIs
  <2>3. a[k + 1] \in Nat /\ Place(k) \in Nat
    BY <2>1, WordsAre, PlaceIs
  <2> QED
    BY <2>2, <2>3 DEF Place
<1>2. Number(a) = Lowest(a, 16) /\ Lowest(a, 8) \in Int
  BY 16 \in Nat, 8 \in 0 .. 16, LowestIs
<1>3. Lowest(a, 9) = Lowest(a, 8) + c[8] * Power(W, 8) /\ c[8] \in Int /\ Power(W, 8) \in Int
  <2>1. 8 \in 8 .. 15 /\ 8 + 1 = 9
    OBVIOUS
  <2> QED
    BY <1>1, <2>1, Zenon
<1>4. Lowest(a, 10) = Lowest(a, 9) + c[9] * Power(W, 9) /\ c[9] \in Int /\ Power(W, 9) \in Int
  <2>1. 9 \in 8 .. 15 /\ 9 + 1 = 10
    OBVIOUS
  <2> QED
    BY <1>1, <2>1, Zenon
<1>5. Lowest(a, 11) = Lowest(a, 10) + c[10] * Power(W, 10) /\ c[10] \in Int /\ Power(W, 10) \in Int
  <2>1. 10 \in 8 .. 15 /\ 10 + 1 = 11
    OBVIOUS
  <2> QED
    BY <1>1, <2>1, Zenon
<1>6. Lowest(a, 12) = Lowest(a, 11) + c[11] * Power(W, 11) /\ c[11] \in Int /\ Power(W, 11) \in Int
  <2>1. 11 \in 8 .. 15 /\ 11 + 1 = 12
    OBVIOUS
  <2> QED
    BY <1>1, <2>1, Zenon
<1>7. Lowest(a, 13) = Lowest(a, 12) + c[12] * Power(W, 12) /\ c[12] \in Int /\ Power(W, 12) \in Int
  <2>1. 12 \in 8 .. 15 /\ 12 + 1 = 13
    OBVIOUS
  <2> QED
    BY <1>1, <2>1, Zenon
<1>8. Lowest(a, 14) = Lowest(a, 13) + c[13] * Power(W, 13) /\ c[13] \in Int /\ Power(W, 13) \in Int
  <2>1. 13 \in 8 .. 15 /\ 13 + 1 = 14
    OBVIOUS
  <2> QED
    BY <1>1, <2>1, Zenon
<1>9. Lowest(a, 15) = Lowest(a, 14) + c[14] * Power(W, 14) /\ c[14] \in Int /\ Power(W, 14) \in Int
  <2>1. 14 \in 8 .. 15 /\ 14 + 1 = 15
    OBVIOUS
  <2> QED
    BY <1>1, <2>1, Zenon
<1>10. Lowest(a, 16) = Lowest(a, 15) + c[15] * Power(W, 15) /\ c[15] \in Int /\ Power(W, 15) \in Int
  <2>1. 15 \in 8 .. 15 /\ 15 + 1 = 16
    OBVIOUS
  <2> QED
    BY <1>1, <2>1, Zenon
<1> QED
  BY <1>2, <1>3, <1>4, <1>5, <1>6, <1>7, <1>8, <1>9, <1>10 DEF HighDigits

\* A row picks words of the product.
PickedRow(product, row) == Array(8, LAMBDA i : IF row[i] = None THEN 0 ELSE product[row[i] + 1])

\* The rows of Rows4.
LEMMA RowsPicked ==
  ASSUME NEW product, NEW rows, NEW r \in DOMAIN rows
  PROVE  Rows4(product, rows)[r] = PickedRow(product, rows[r])
BY DEF Rows4, PickedRow

\* Its words are words of the product, or 0.
LEMMA PickedRowIs ==
  ASSUME NEW product, product \in Vli(16), NEW row, \A i \in 1 .. 8 : row[i] \in 8 .. 16, NEW o, o = PickedRow(product, row)
  PROVE  o \in Vli(8) /\ \A i \in 1 .. 8 : o[i] = IF row[i] = None THEN 0 ELSE product[row[i] + 1]
<1> DEFINE f == [i \in 1 .. 8 |-> IF row[i] = None THEN 0 ELSE product[row[i] + 1]]
<1>1. f \in [1 .. 8 -> 0 .. W - 1]
  <2> SUFFICES ASSUME NEW i \in 1 .. 8
               PROVE  (IF row[i] = None THEN 0 ELSE product[row[i] + 1]) \in 0 .. W - 1
    OBVIOUS
  <2>1. CASE row[i] = None
    BY <2>1, WordIs
  <2>2. CASE row[i] # None
    <3>1. row[i] + 1 \in 1 .. 16
      BY <2>2 DEF None
    <3>2. product[row[i] + 1] \in 0 .. W - 1
      BY <3>1, 16 \in Nat, WordsAre
    <3> QED
      BY <2>2, <3>2
  <2> QED
    BY <2>1, <2>2
<1>2. o = SubSeq(f, 1, 8)
  BY DEF PickedRow, Array
<1>3. \A i \in 1 .. 8 : f[i] = IF row[i] = None THEN 0 ELSE product[row[i] + 1]
  OBVIOUS
<1> HIDE DEF f
<1>4. f \in Seq(0 .. W - 1) /\ Len(f) = 8
  BY <1>1, 8 \in Nat, FunctionIsSeq
<1>5. o = f
  BY <1>2, <1>4, SubSeqFull
<1> QED
  BY <1>1, <1>3, <1>5 DEF Vli

\* The reduction for words of 32 bits.
LEMMA Fast32Is ==
  ASSUME NEW product, product \in Vli(16), NEW p, p \in Vli(8), Number(p) = PrimeOf(W),
         NEW o, o = vli_mmod_fast_secp256r1_32(product, p)
  PROVE  o \in Vli(8) /\ Number(o) = Number(product) % PrimeOf(W)
<1>1. PICK c : c = [i \in 8 .. 15 |-> product[i + 1]]
  OBVIOUS
<1>2. PICK low : low = SubSeq(product, 1, 8)
  OBVIOUS
<1>3. PICK doubled, added, removed :
         doubled = Rows4(product, Doubled4) /\ added = Rows4(product, Added4) /\ removed = Rows4(product, Removed4)
  OBVIOUS
<1>4. o = Reduced(product, p, doubled, added, removed)
  BY <1>3 DEF vli_mmod_fast_secp256r1_32
<1>5. \A i \in 8 .. 15 : c[i] = product[i + 1] /\ c[i] \in Int
  <2> SUFFICES ASSUME NEW i \in 8 .. 15
               PROVE  c[i] = product[i + 1] /\ c[i] \in Int
    OBVIOUS
  <2>1. i + 1 \in 1 .. 16
    OBVIOUS
  <2> QED
    BY <1>1, <2>1, 16 \in Nat, WordsAre
<1>6. PICK d : d = DigitRows(c)
  OBVIOUS
<1>7. doubled[1] \in Vli(8) /\ Number(doubled[1]) = Digits(W, d[1])
  <2>1. PICK row : row = <<None, None, None, 11, 12, 13, 14, 15>>
    OBVIOUS
  <2>2. doubled[1] = PickedRow(product, row)
    <3>1. 1 \in DOMAIN Doubled4 /\ Doubled4[1] = row
      BY <2>1 DEF Doubled4
    <3> QED
      BY <1>3, <3>1, RowsPicked
  <2>3. \A i \in 1 .. 8 : row[i] \in 8 .. 16
    BY <2>1 DEF None
  <2>4. PICK e : e = doubled[1]
    OBVIOUS
  <2>5. e \in Vli(8) /\ \A i \in 1 .. 8 : e[i] = IF row[i] = None THEN 0 ELSE product[row[i] + 1]
    BY <2>2, <2>3, <2>4, PickedRowIs
  <2>6. e[1] = 0
    BY <2>1, <2>5, 1 \in 1 .. 8
  <2>7. e[2] = 0
    BY <2>1, <2>5, 2 \in 1 .. 8
  <2>8. e[3] = 0
    BY <2>1, <2>5, 3 \in 1 .. 8
  <2>9. e[4] = c[11]
    <3>1. row[4] = 11 /\ 11 # None /\ 4 \in 1 .. 8 /\ 11 + 1 = 12 /\ 11 \in 8 .. 15
      BY <2>1 DEF None
    <3> QED
      BY <1>5, <2>5, <3>1
  <2>10. e[5] = c[12]
    <3>1. row[5] = 12 /\ 12 # None /\ 5 \in 1 .. 8 /\ 12 + 1 = 13 /\ 12 \in 8 .. 15
      BY <2>1 DEF None
    <3> QED
      BY <1>5, <2>5, <3>1
  <2>11. e[6] = c[13]
    <3>1. row[6] = 13 /\ 13 # None /\ 6 \in 1 .. 8 /\ 13 + 1 = 14 /\ 13 \in 8 .. 15
      BY <2>1 DEF None
    <3> QED
      BY <1>5, <2>5, <3>1
  <2>12. e[7] = c[14]
    <3>1. row[7] = 14 /\ 14 # None /\ 7 \in 1 .. 8 /\ 14 + 1 = 15 /\ 14 \in 8 .. 15
      BY <2>1 DEF None
    <3> QED
      BY <1>5, <2>5, <3>1
  <2>13. e[8] = c[15]
    <3>1. row[8] = 15 /\ 15 # None /\ 8 \in 1 .. 8 /\ 15 + 1 = 16 /\ 15 \in 8 .. 15
      BY <2>1 DEF None
    <3> QED
      BY <1>5, <2>5, <3>1
  <2>14. d[1] = <<0, 0, 0, c[11], c[12], c[13], c[14], c[15]>>
    BY <1>6 DEF DigitRows
  <2>15. Digits(W, e) = Digits(W, d[1])
    BY <2>6, <2>7, <2>8, <2>9, <2>10, <2>11, <2>12, <2>13, <2>14 DEF Digits
  <2> QED
    BY <2>4, <2>5, <2>15, NumberEight
<1>8. doubled[2] \in Vli(8) /\ Number(doubled[2]) = Digits(W, d[2])
  <2>1. PICK row : row = <<None, None, None, 12, 13, 14, 15, None>>
    OBVIOUS
  <2>2. doubled[2] = PickedRow(product, row)
    <3>1. 2 \in DOMAIN Doubled4 /\ Doubled4[2] = row
      BY <2>1 DEF Doubled4
    <3> QED
      BY <1>3, <3>1, RowsPicked
  <2>3. \A i \in 1 .. 8 : row[i] \in 8 .. 16
    BY <2>1 DEF None
  <2>4. PICK e : e = doubled[2]
    OBVIOUS
  <2>5. e \in Vli(8) /\ \A i \in 1 .. 8 : e[i] = IF row[i] = None THEN 0 ELSE product[row[i] + 1]
    BY <2>2, <2>3, <2>4, PickedRowIs
  <2>6. e[1] = 0
    BY <2>1, <2>5, 1 \in 1 .. 8
  <2>7. e[2] = 0
    BY <2>1, <2>5, 2 \in 1 .. 8
  <2>8. e[3] = 0
    BY <2>1, <2>5, 3 \in 1 .. 8
  <2>9. e[4] = c[12]
    <3>1. row[4] = 12 /\ 12 # None /\ 4 \in 1 .. 8 /\ 12 + 1 = 13 /\ 12 \in 8 .. 15
      BY <2>1 DEF None
    <3> QED
      BY <1>5, <2>5, <3>1
  <2>10. e[5] = c[13]
    <3>1. row[5] = 13 /\ 13 # None /\ 5 \in 1 .. 8 /\ 13 + 1 = 14 /\ 13 \in 8 .. 15
      BY <2>1 DEF None
    <3> QED
      BY <1>5, <2>5, <3>1
  <2>11. e[6] = c[14]
    <3>1. row[6] = 14 /\ 14 # None /\ 6 \in 1 .. 8 /\ 14 + 1 = 15 /\ 14 \in 8 .. 15
      BY <2>1 DEF None
    <3> QED
      BY <1>5, <2>5, <3>1
  <2>12. e[7] = c[15]
    <3>1. row[7] = 15 /\ 15 # None /\ 7 \in 1 .. 8 /\ 15 + 1 = 16 /\ 15 \in 8 .. 15
      BY <2>1 DEF None
    <3> QED
      BY <1>5, <2>5, <3>1
  <2>13. e[8] = 0
    BY <2>1, <2>5, 8 \in 1 .. 8
  <2>14. d[2] = <<0, 0, 0, c[12], c[13], c[14], c[15], 0>>
    BY <1>6 DEF DigitRows
  <2>15. Digits(W, e) = Digits(W, d[2])
    BY <2>6, <2>7, <2>8, <2>9, <2>10, <2>11, <2>12, <2>13, <2>14 DEF Digits
  <2> QED
    BY <2>4, <2>5, <2>15, NumberEight
<1>9. added[1] \in Vli(8) /\ Number(added[1]) = Digits(W, d[3])
  <2>1. PICK row : row = <<8, 9, 10, None, None, None, 14, 15>>
    OBVIOUS
  <2>2. added[1] = PickedRow(product, row)
    <3>1. 1 \in DOMAIN Added4 /\ Added4[1] = row
      BY <2>1 DEF Added4
    <3> QED
      BY <1>3, <3>1, RowsPicked
  <2>3. \A i \in 1 .. 8 : row[i] \in 8 .. 16
    BY <2>1 DEF None
  <2>4. PICK e : e = added[1]
    OBVIOUS
  <2>5. e \in Vli(8) /\ \A i \in 1 .. 8 : e[i] = IF row[i] = None THEN 0 ELSE product[row[i] + 1]
    BY <2>2, <2>3, <2>4, PickedRowIs
  <2>6. e[1] = c[8]
    <3>1. row[1] = 8 /\ 8 # None /\ 1 \in 1 .. 8 /\ 8 + 1 = 9 /\ 8 \in 8 .. 15
      BY <2>1 DEF None
    <3> QED
      BY <1>5, <2>5, <3>1
  <2>7. e[2] = c[9]
    <3>1. row[2] = 9 /\ 9 # None /\ 2 \in 1 .. 8 /\ 9 + 1 = 10 /\ 9 \in 8 .. 15
      BY <2>1 DEF None
    <3> QED
      BY <1>5, <2>5, <3>1
  <2>8. e[3] = c[10]
    <3>1. row[3] = 10 /\ 10 # None /\ 3 \in 1 .. 8 /\ 10 + 1 = 11 /\ 10 \in 8 .. 15
      BY <2>1 DEF None
    <3> QED
      BY <1>5, <2>5, <3>1
  <2>9. e[4] = 0
    BY <2>1, <2>5, 4 \in 1 .. 8
  <2>10. e[5] = 0
    BY <2>1, <2>5, 5 \in 1 .. 8
  <2>11. e[6] = 0
    BY <2>1, <2>5, 6 \in 1 .. 8
  <2>12. e[7] = c[14]
    <3>1. row[7] = 14 /\ 14 # None /\ 7 \in 1 .. 8 /\ 14 + 1 = 15 /\ 14 \in 8 .. 15
      BY <2>1 DEF None
    <3> QED
      BY <1>5, <2>5, <3>1
  <2>13. e[8] = c[15]
    <3>1. row[8] = 15 /\ 15 # None /\ 8 \in 1 .. 8 /\ 15 + 1 = 16 /\ 15 \in 8 .. 15
      BY <2>1 DEF None
    <3> QED
      BY <1>5, <2>5, <3>1
  <2>14. d[3] = <<c[8], c[9], c[10], 0, 0, 0, c[14], c[15]>>
    BY <1>6 DEF DigitRows
  <2>15. Digits(W, e) = Digits(W, d[3])
    BY <2>6, <2>7, <2>8, <2>9, <2>10, <2>11, <2>12, <2>13, <2>14 DEF Digits
  <2> QED
    BY <2>4, <2>5, <2>15, NumberEight
<1>10. added[2] \in Vli(8) /\ Number(added[2]) = Digits(W, d[4])
  <2>1. PICK row : row = <<9, 10, 11, 13, 14, 15, 13, 8>>
    OBVIOUS
  <2>2. added[2] = PickedRow(product, row)
    <3>1. 2 \in DOMAIN Added4 /\ Added4[2] = row
      BY <2>1 DEF Added4
    <3> QED
      BY <1>3, <3>1, RowsPicked
  <2>3. \A i \in 1 .. 8 : row[i] \in 8 .. 16
    BY <2>1 DEF None
  <2>4. PICK e : e = added[2]
    OBVIOUS
  <2>5. e \in Vli(8) /\ \A i \in 1 .. 8 : e[i] = IF row[i] = None THEN 0 ELSE product[row[i] + 1]
    BY <2>2, <2>3, <2>4, PickedRowIs
  <2>6. e[1] = c[9]
    <3>1. row[1] = 9 /\ 9 # None /\ 1 \in 1 .. 8 /\ 9 + 1 = 10 /\ 9 \in 8 .. 15
      BY <2>1 DEF None
    <3> QED
      BY <1>5, <2>5, <3>1
  <2>7. e[2] = c[10]
    <3>1. row[2] = 10 /\ 10 # None /\ 2 \in 1 .. 8 /\ 10 + 1 = 11 /\ 10 \in 8 .. 15
      BY <2>1 DEF None
    <3> QED
      BY <1>5, <2>5, <3>1
  <2>8. e[3] = c[11]
    <3>1. row[3] = 11 /\ 11 # None /\ 3 \in 1 .. 8 /\ 11 + 1 = 12 /\ 11 \in 8 .. 15
      BY <2>1 DEF None
    <3> QED
      BY <1>5, <2>5, <3>1
  <2>9. e[4] = c[13]
    <3>1. row[4] = 13 /\ 13 # None /\ 4 \in 1 .. 8 /\ 13 + 1 = 14 /\ 13 \in 8 .. 15
      BY <2>1 DEF None
    <3> QED
      BY <1>5, <2>5, <3>1
  <2>10. e[5] = c[14]
    <3>1. row[5] = 14 /\ 14 # None /\ 5 \in 1 .. 8 /\ 14 + 1 = 15 /\ 14 \in 8 .. 15
      BY <2>1 DEF None
    <3> QED
      BY <1>5, <2>5, <3>1
  <2>11. e[6] = c[15]
    <3>1. row[6] = 15 /\ 15 # None /\ 6 \in 1 .. 8 /\ 15 + 1 = 16 /\ 15 \in 8 .. 15
      BY <2>1 DEF None
    <3> QED
      BY <1>5, <2>5, <3>1
  <2>12. e[7] = c[13]
    <3>1. row[7] = 13 /\ 13 # None /\ 7 \in 1 .. 8 /\ 13 + 1 = 14 /\ 13 \in 8 .. 15
      BY <2>1 DEF None
    <3> QED
      BY <1>5, <2>5, <3>1
  <2>13. e[8] = c[8]
    <3>1. row[8] = 8 /\ 8 # None /\ 8 \in 1 .. 8 /\ 8 + 1 = 9 /\ 8 \in 8 .. 15
      BY <2>1 DEF None
    <3> QED
      BY <1>5, <2>5, <3>1
  <2>14. d[4] = <<c[9], c[10], c[11], c[13], c[14], c[15], c[13], c[8]>>
    BY <1>6 DEF DigitRows
  <2>15. Digits(W, e) = Digits(W, d[4])
    BY <2>6, <2>7, <2>8, <2>9, <2>10, <2>11, <2>12, <2>13, <2>14 DEF Digits
  <2> QED
    BY <2>4, <2>5, <2>15, NumberEight
<1>11. removed[1] \in Vli(8) /\ Number(removed[1]) = Digits(W, d[5])
  <2>1. PICK row : row = <<11, 12, 13, None, None, None, 8, 10>>
    OBVIOUS
  <2>2. removed[1] = PickedRow(product, row)
    <3>1. 1 \in DOMAIN Removed4 /\ Removed4[1] = row
      BY <2>1 DEF Removed4
    <3> QED
      BY <1>3, <3>1, RowsPicked
  <2>3. \A i \in 1 .. 8 : row[i] \in 8 .. 16
    BY <2>1 DEF None
  <2>4. PICK e : e = removed[1]
    OBVIOUS
  <2>5. e \in Vli(8) /\ \A i \in 1 .. 8 : e[i] = IF row[i] = None THEN 0 ELSE product[row[i] + 1]
    BY <2>2, <2>3, <2>4, PickedRowIs
  <2>6. e[1] = c[11]
    <3>1. row[1] = 11 /\ 11 # None /\ 1 \in 1 .. 8 /\ 11 + 1 = 12 /\ 11 \in 8 .. 15
      BY <2>1 DEF None
    <3> QED
      BY <1>5, <2>5, <3>1
  <2>7. e[2] = c[12]
    <3>1. row[2] = 12 /\ 12 # None /\ 2 \in 1 .. 8 /\ 12 + 1 = 13 /\ 12 \in 8 .. 15
      BY <2>1 DEF None
    <3> QED
      BY <1>5, <2>5, <3>1
  <2>8. e[3] = c[13]
    <3>1. row[3] = 13 /\ 13 # None /\ 3 \in 1 .. 8 /\ 13 + 1 = 14 /\ 13 \in 8 .. 15
      BY <2>1 DEF None
    <3> QED
      BY <1>5, <2>5, <3>1
  <2>9. e[4] = 0
    BY <2>1, <2>5, 4 \in 1 .. 8
  <2>10. e[5] = 0
    BY <2>1, <2>5, 5 \in 1 .. 8
  <2>11. e[6] = 0
    BY <2>1, <2>5, 6 \in 1 .. 8
  <2>12. e[7] = c[8]
    <3>1. row[7] = 8 /\ 8 # None /\ 7 \in 1 .. 8 /\ 8 + 1 = 9 /\ 8 \in 8 .. 15
      BY <2>1 DEF None
    <3> QED
      BY <1>5, <2>5, <3>1
  <2>13. e[8] = c[10]
    <3>1. row[8] = 10 /\ 10 # None /\ 8 \in 1 .. 8 /\ 10 + 1 = 11 /\ 10 \in 8 .. 15
      BY <2>1 DEF None
    <3> QED
      BY <1>5, <2>5, <3>1
  <2>14. d[5] = <<c[11], c[12], c[13], 0, 0, 0, c[8], c[10]>>
    BY <1>6 DEF DigitRows
  <2>15. Digits(W, e) = Digits(W, d[5])
    BY <2>6, <2>7, <2>8, <2>9, <2>10, <2>11, <2>12, <2>13, <2>14 DEF Digits
  <2> QED
    BY <2>4, <2>5, <2>15, NumberEight
<1>12. removed[2] \in Vli(8) /\ Number(removed[2]) = Digits(W, d[6])
  <2>1. PICK row : row = <<12, 13, 14, 15, None, None, 9, 11>>
    OBVIOUS
  <2>2. removed[2] = PickedRow(product, row)
    <3>1. 2 \in DOMAIN Removed4 /\ Removed4[2] = row
      BY <2>1 DEF Removed4
    <3> QED
      BY <1>3, <3>1, RowsPicked
  <2>3. \A i \in 1 .. 8 : row[i] \in 8 .. 16
    BY <2>1 DEF None
  <2>4. PICK e : e = removed[2]
    OBVIOUS
  <2>5. e \in Vli(8) /\ \A i \in 1 .. 8 : e[i] = IF row[i] = None THEN 0 ELSE product[row[i] + 1]
    BY <2>2, <2>3, <2>4, PickedRowIs
  <2>6. e[1] = c[12]
    <3>1. row[1] = 12 /\ 12 # None /\ 1 \in 1 .. 8 /\ 12 + 1 = 13 /\ 12 \in 8 .. 15
      BY <2>1 DEF None
    <3> QED
      BY <1>5, <2>5, <3>1
  <2>7. e[2] = c[13]
    <3>1. row[2] = 13 /\ 13 # None /\ 2 \in 1 .. 8 /\ 13 + 1 = 14 /\ 13 \in 8 .. 15
      BY <2>1 DEF None
    <3> QED
      BY <1>5, <2>5, <3>1
  <2>8. e[3] = c[14]
    <3>1. row[3] = 14 /\ 14 # None /\ 3 \in 1 .. 8 /\ 14 + 1 = 15 /\ 14 \in 8 .. 15
      BY <2>1 DEF None
    <3> QED
      BY <1>5, <2>5, <3>1
  <2>9. e[4] = c[15]
    <3>1. row[4] = 15 /\ 15 # None /\ 4 \in 1 .. 8 /\ 15 + 1 = 16 /\ 15 \in 8 .. 15
      BY <2>1 DEF None
    <3> QED
      BY <1>5, <2>5, <3>1
  <2>10. e[5] = 0
    BY <2>1, <2>5, 5 \in 1 .. 8
  <2>11. e[6] = 0
    BY <2>1, <2>5, 6 \in 1 .. 8
  <2>12. e[7] = c[9]
    <3>1. row[7] = 9 /\ 9 # None /\ 7 \in 1 .. 8 /\ 9 + 1 = 10 /\ 9 \in 8 .. 15
      BY <2>1 DEF None
    <3> QED
      BY <1>5, <2>5, <3>1
  <2>13. e[8] = c[11]
    <3>1. row[8] = 11 /\ 11 # None /\ 8 \in 1 .. 8 /\ 11 + 1 = 12 /\ 11 \in 8 .. 15
      BY <2>1 DEF None
    <3> QED
      BY <1>5, <2>5, <3>1
  <2>14. d[6] = <<c[12], c[13], c[14], c[15], 0, 0, c[9], c[11]>>
    BY <1>6 DEF DigitRows
  <2>15. Digits(W, e) = Digits(W, d[6])
    BY <2>6, <2>7, <2>8, <2>9, <2>10, <2>11, <2>12, <2>13, <2>14 DEF Digits
  <2> QED
    BY <2>4, <2>5, <2>15, NumberEight
<1>13. removed[3] \in Vli(8) /\ Number(removed[3]) = Digits(W, d[7])
  <2>1. PICK row : row = <<13, 14, 15, 8, 9, 10, None, 12>>
    OBVIOUS
  <2>2. removed[3] = PickedRow(product, row)
    <3>1. 3 \in DOMAIN Removed4 /\ Removed4[3] = row
      BY <2>1 DEF Removed4
    <3> QED
      BY <1>3, <3>1, RowsPicked
  <2>3. \A i \in 1 .. 8 : row[i] \in 8 .. 16
    BY <2>1 DEF None
  <2>4. PICK e : e = removed[3]
    OBVIOUS
  <2>5. e \in Vli(8) /\ \A i \in 1 .. 8 : e[i] = IF row[i] = None THEN 0 ELSE product[row[i] + 1]
    BY <2>2, <2>3, <2>4, PickedRowIs
  <2>6. e[1] = c[13]
    <3>1. row[1] = 13 /\ 13 # None /\ 1 \in 1 .. 8 /\ 13 + 1 = 14 /\ 13 \in 8 .. 15
      BY <2>1 DEF None
    <3> QED
      BY <1>5, <2>5, <3>1
  <2>7. e[2] = c[14]
    <3>1. row[2] = 14 /\ 14 # None /\ 2 \in 1 .. 8 /\ 14 + 1 = 15 /\ 14 \in 8 .. 15
      BY <2>1 DEF None
    <3> QED
      BY <1>5, <2>5, <3>1
  <2>8. e[3] = c[15]
    <3>1. row[3] = 15 /\ 15 # None /\ 3 \in 1 .. 8 /\ 15 + 1 = 16 /\ 15 \in 8 .. 15
      BY <2>1 DEF None
    <3> QED
      BY <1>5, <2>5, <3>1
  <2>9. e[4] = c[8]
    <3>1. row[4] = 8 /\ 8 # None /\ 4 \in 1 .. 8 /\ 8 + 1 = 9 /\ 8 \in 8 .. 15
      BY <2>1 DEF None
    <3> QED
      BY <1>5, <2>5, <3>1
  <2>10. e[5] = c[9]
    <3>1. row[5] = 9 /\ 9 # None /\ 5 \in 1 .. 8 /\ 9 + 1 = 10 /\ 9 \in 8 .. 15
      BY <2>1 DEF None
    <3> QED
      BY <1>5, <2>5, <3>1
  <2>11. e[6] = c[10]
    <3>1. row[6] = 10 /\ 10 # None /\ 6 \in 1 .. 8 /\ 10 + 1 = 11 /\ 10 \in 8 .. 15
      BY <2>1 DEF None
    <3> QED
      BY <1>5, <2>5, <3>1
  <2>12. e[7] = 0
    BY <2>1, <2>5, 7 \in 1 .. 8
  <2>13. e[8] = c[12]
    <3>1. row[8] = 12 /\ 12 # None /\ 8 \in 1 .. 8 /\ 12 + 1 = 13 /\ 12 \in 8 .. 15
      BY <2>1 DEF None
    <3> QED
      BY <1>5, <2>5, <3>1
  <2>14. d[7] = <<c[13], c[14], c[15], c[8], c[9], c[10], 0, c[12]>>
    BY <1>6 DEF DigitRows
  <2>15. Digits(W, e) = Digits(W, d[7])
    BY <2>6, <2>7, <2>8, <2>9, <2>10, <2>11, <2>12, <2>13, <2>14 DEF Digits
  <2> QED
    BY <2>4, <2>5, <2>15, NumberEight
<1>14. removed[4] \in Vli(8) /\ Number(removed[4]) = Digits(W, d[8])
  <2>1. PICK row : row = <<14, 15, None, 9, 10, 11, None, 13>>
    OBVIOUS
  <2>2. removed[4] = PickedRow(product, row)
    <3>1. 4 \in DOMAIN Removed4 /\ Removed4[4] = row
      BY <2>1 DEF Removed4
    <3> QED
      BY <1>3, <3>1, RowsPicked
  <2>3. \A i \in 1 .. 8 : row[i] \in 8 .. 16
    BY <2>1 DEF None
  <2>4. PICK e : e = removed[4]
    OBVIOUS
  <2>5. e \in Vli(8) /\ \A i \in 1 .. 8 : e[i] = IF row[i] = None THEN 0 ELSE product[row[i] + 1]
    BY <2>2, <2>3, <2>4, PickedRowIs
  <2>6. e[1] = c[14]
    <3>1. row[1] = 14 /\ 14 # None /\ 1 \in 1 .. 8 /\ 14 + 1 = 15 /\ 14 \in 8 .. 15
      BY <2>1 DEF None
    <3> QED
      BY <1>5, <2>5, <3>1
  <2>7. e[2] = c[15]
    <3>1. row[2] = 15 /\ 15 # None /\ 2 \in 1 .. 8 /\ 15 + 1 = 16 /\ 15 \in 8 .. 15
      BY <2>1 DEF None
    <3> QED
      BY <1>5, <2>5, <3>1
  <2>8. e[3] = 0
    BY <2>1, <2>5, 3 \in 1 .. 8
  <2>9. e[4] = c[9]
    <3>1. row[4] = 9 /\ 9 # None /\ 4 \in 1 .. 8 /\ 9 + 1 = 10 /\ 9 \in 8 .. 15
      BY <2>1 DEF None
    <3> QED
      BY <1>5, <2>5, <3>1
  <2>10. e[5] = c[10]
    <3>1. row[5] = 10 /\ 10 # None /\ 5 \in 1 .. 8 /\ 10 + 1 = 11 /\ 10 \in 8 .. 15
      BY <2>1 DEF None
    <3> QED
      BY <1>5, <2>5, <3>1
  <2>11. e[6] = c[11]
    <3>1. row[6] = 11 /\ 11 # None /\ 6 \in 1 .. 8 /\ 11 + 1 = 12 /\ 11 \in 8 .. 15
      BY <2>1 DEF None
    <3> QED
      BY <1>5, <2>5, <3>1
  <2>12. e[7] = 0
    BY <2>1, <2>5, 7 \in 1 .. 8
  <2>13. e[8] = c[13]
    <3>1. row[8] = 13 /\ 13 # None /\ 8 \in 1 .. 8 /\ 13 + 1 = 14 /\ 13 \in 8 .. 15
      BY <2>1 DEF None
    <3> QED
      BY <1>5, <2>5, <3>1
  <2>14. d[8] = <<c[14], c[15], 0, c[9], c[10], c[11], 0, c[13]>>
    BY <1>6 DEF DigitRows
  <2>15. Digits(W, e) = Digits(W, d[8])
    BY <2>6, <2>7, <2>8, <2>9, <2>10, <2>11, <2>12, <2>13, <2>14 DEF Digits
  <2> QED
    BY <2>4, <2>5, <2>15, NumberEight
<1>15. Number(product) = Lowest(product, 8) + HighDigits(W, c) /\ Number(low) = Lowest(product, 8) /\ Number(low) \in Int
  <2>1. Number(product) = Lowest(product, 8) + HighDigits(W, c) /\ Lowest(product, 8) \in Int
    BY <1>1, NumberSixteen
  <2>2. Number(low) = Lowest(product, 8)
    <3>1. PICK size \in Nat : \E k \in 0 .. size : size = 16 /\ k = 8
      BY 16 \in Nat, 8 \in 0 .. 16
    <3>2. PICK k \in 0 .. size : size = 16 /\ k = 8
      BY <3>1
    <3>3. product \in Vli(size) /\ low = SubSeq(product, 1, k)
      BY <1>2, <3>2
    <3>4. Number(low) = Lowest(product, k)
      BY <3>3, PrefixIs
    <3> QED
      BY <3>2, <3>4
  <2> QED
    BY <2>1, <2>2
<1>16. W \in Nat /\ W > 1 /\ Place(8) = Power(W, 8)
  BY WordIs DEF Place
<1>17. PICK m \in Nat : m = PrimeOf(W) /\ m > 0
  BY <1>16, PrimeBounds
<1>18. 4 * (Place(8) - 1) <= 8 * Number(p) /\ 7 * (Place(8) - 1) < 9 * Number(p)
  BY <1>16, PrimeBounds
<1>19. PICK total : total = RowsTotal(low, doubled, added, removed)
  OBVIOUS
<1>20. o \in Vli(8) /\ Number(o) = total % m
  <2>1. PICK len \in Nat, size \in Nat : len = 8 /\ size = 16
    BY 8 \in Nat, 16 \in Nat
  <2>2. RowsFit(doubled, added, removed, len) /\ PrimeFits(p, len)
    BY <1>18, <1>7, <1>8, <1>9, <1>10, <1>11, <1>12, <1>13, <1>14, <2>1 DEF RowsFit, PrimeFits
  <2>3. len <= size /\ product \in Vli(size)
    BY <2>1
  <2>4. o \in Vli(len) /\ Number(o) = RowsTotal(SubSeq(product, 1, len), doubled, added, removed) % Number(p)
    BY <1>4, <2>2, <2>3, ReducedIs
  <2> QED
    BY <1>2, <1>17, <1>19, <2>1, <2>4
<1>21. Congruent(HighDigits(W, c), DigitTotal(W, c), m) /\ DigitTotal(W, c) \in Int
  BY <1>5, <1>16, <1>17, RowsModulo
<1>22. total = Number(low) + DigitTotal(W, c)
  <2>1. PICK x1, x2, x3, x4, x5, x6, x7, x8 : x1 = Digits(W, d[1]) /\ x2 = Digits(W, d[2]) /\ x3 = Digits(W, d[3]) /\ x4 = Digits(W, d[4]) /\ x5 = Digits(W, d[5]) /\ x6 = Digits(W, d[6]) /\ x7 = Digits(W, d[7]) /\ x8 = Digits(W, d[8])
    OBVIOUS
  <2>2. x1 \in Int /\ x2 \in Int /\ x3 \in Int /\ x4 \in Int /\ x5 \in Int /\ x6 \in Int /\ x7 \in Int /\ x8 \in Int
    <3>1. \A a : a \in Vli(8) => Number(a) \in Int
      BY 8 \in Nat, NumberIs
    <3> QED
      BY <1>7, <1>8, <1>9, <1>10, <1>11, <1>12, <1>13, <1>14, <2>1, <3>1
  <2>3. total = Number(low) + 2 * x1 + 2 * x2 + x3 + x4 - x5 - x6 - x7 - x8
    BY <1>19, <1>7, <1>8, <1>9, <1>10, <1>11, <1>12, <1>13, <1>14, <2>1 DEF RowsTotal
  <2>4. DigitTotal(W, c) = 2 * x1 + 2 * x2 + x3 + x4 - x5 - x6 - x7 - x8
    BY <1>6, <2>1 DEF DigitTotal
  <2> QED
    BY <1>15, <2>2, <2>3, <2>4
<1>23. Congruent(Number(product), total, m) /\ total \in Int /\ Number(product) \in Int
  <2>1. PICK k \in Int : HighDigits(W, c) = DigitTotal(W, c) + k * m
    BY <1>21 DEF Congruent
  <2>2. k * m \in Int
    OBVIOUS
  <2>3. Number(product) = total + k * m
    BY <1>15, <1>21, <1>22, <2>1, <2>2
  <2>4. total \in Int
    BY <1>15, <1>21, <1>22
  <2> QED
    BY <2>2, <2>3, <2>4 DEF Congruent
<1>24. Number(product) % m = total % m
  BY <1>17, <1>23, SameRemainder
<1> QED
  BY <1>17, <1>20, <1>24

\* The two halves of a word.
LEMMA HalvesOf ==
  ASSUME WordBits % 2 = 0, NEW w \in Nat, w < W
  PROVE  \E lo \in Nat, hi \in Nat :
            /\ lo < HalfW /\ hi < HalfW /\ w = lo + hi * HalfW
            /\ LowHalf(w) = lo /\ HighHalf(w) = hi * HalfW /\ Shr(w) = hi /\ Shl(w) = lo * HalfW
<1>1. PICK h \in Nat : h = HalfW /\ W = h * h /\ h > 1
  BY HalfWordIs
<1>2. PICK lo \in Nat, hi \in Nat : lo = w % h /\ hi = w \div h /\ w = lo + hi * h /\ lo < h
  <2>1. w = h * (w \div h) + (w % h) /\ w % h \in 0 .. h - 1 /\ w \div h \in Int
    BY <1>1, QuotientRest
  <2>2. w \div h \in Nat
    BY <1>1
  <2> QED
    BY <2>1, <2>2
<1>3. hi < h
  <2>1. hi * h < h * h
    BY <1>1, <1>2
  <2> QED
    BY <2>1, FactorLess
<1>4. (w * h) % W = lo * h
  <2>1. PICK x \in Int, r \in Int, d \in Nat : x = w * h /\ r = lo * h /\ d = W
    BY <1>1
  <2>2. (lo + hi * h) * h = (h * h) * hi + lo * h
    OBVIOUS
  <2>3. x = d * hi + r
    BY <1>1, <1>2, <2>1, <2>2
  <2>4. 0 <= r /\ r < d /\ d > 0
    <3>1. lo * h \in Nat /\ (lo + 1) * h <= h * h /\ (lo + 1) * h = lo * h + h
      BY <1>2, lo + 1 \in Nat, LessByFactor
    <3> QED
      BY <1>1, <2>1, <3>1
  <2>5. x % d = r
    BY <2>3, <2>4, hi \in Int, QuotientIs, Zenon
  <2> QED
    BY <2>1, <2>5
<1>5. LowHalf(w) = lo /\ Shr(w) = hi /\ Shl(w) = lo * h
  BY <1>1, <1>2, <1>4 DEF LowHalf, Shr, Shl
<1>6. HighHalf(w) = hi * h
  <2>1. HighHalf(w) = w - lo /\ hi * h \in Int
    BY <1>1, <1>2 DEF HighHalf
  <2> QED
    BY <1>2, <2>1
<1> QED
  BY <1>1, <1>2, <1>3, <1>5, <1>6

\* Four words made of eight halves.
PairsOf(e) ==
    <<e[1] + e[2] * HalfW, e[3] + e[4] * HalfW, e[5] + e[6] * HalfW, e[7] + e[8] * HalfW>>

HalfDigits(e) == \A i \in 1 .. 8 : e[i] \in Nat /\ e[i] < HalfW

\* They stand for the number of the eight digits.
LEMMA PairsAre ==
  ASSUME WordBits % 2 = 0, NEW e, HalfDigits(e), NEW a, a = PairsOf(e)
  PROVE  a \in Vli(4) /\ Number(a) = Digits(HalfW, e)
<1>1. PICK h \in Nat : h = HalfW /\ W = h * h /\ h > 1
  BY HalfWordIs
<1>2. ASSUME NEW x \in Nat, x < h, NEW y \in Nat, y < h
      PROVE  x + y * h \in Nat /\ x + y * h < h * h
  <2>1. (y + 1) * h <= h * h /\ (y + 1) * h = y * h + h /\ y * h \in Nat
    BY <1>2, y + 1 \in Nat, LessByFactor
  <2> QED
    BY <1>2, <2>1
<1>3. PICK x1 \in Nat, x2 \in Nat, x3 \in Nat, x4 \in Nat, x5 \in Nat, x6 \in Nat, x7 \in Nat, x8 \in Nat :
         /\ x1 = e[1] /\ x2 = e[2] /\ x3 = e[3] /\ x4 = e[4] /\ x5 = e[5] /\ x6 = e[6] /\ x7 = e[7] /\ x8 = e[8]
         /\ x1 < h /\ x2 < h /\ x3 < h /\ x4 < h /\ x5 < h /\ x6 < h /\ x7 < h /\ x8 < h
  BY <1>1, 1 \in 1 .. 8, 2 \in 1 .. 8, 3 \in 1 .. 8, 4 \in 1 .. 8, 5 \in 1 .. 8, 6 \in 1 .. 8, 7 \in 1 .. 8, 8 \in 1 .. 8 DEF HalfDigits
<1>4. PICK w1 \in Nat, w2 \in Nat, w3 \in Nat, w4 \in Nat :
         /\ w1 = x1 + x2 * h /\ w2 = x3 + x4 * h /\ w3 = x5 + x6 * h /\ w4 = x7 + x8 * h
         /\ w1 < W /\ w2 < W /\ w3 < W /\ w4 < W
  <2>1. x1 + x2 * h \in Nat /\ x1 + x2 * h < h * h
    BY <1>2, <1>3
  <2>2. x3 + x4 * h \in Nat /\ x3 + x4 * h < h * h
    BY <1>2, <1>3
  <2>3. x5 + x6 * h \in Nat /\ x5 + x6 * h < h * h
    BY <1>2, <1>3
  <2>4. x7 + x8 * h \in Nat /\ x7 + x8 * h < h * h
    BY <1>2, <1>3
  <2> QED
    BY <1>1, <2>1, <2>2, <2>3, <2>4
<1>5. a = <<w1, w2, w3, w4>>
  BY <1>1, <1>3, <1>4 DEF PairsOf
<1>6. a \in Vli(4)
  <2>1. w1 \in 0 .. W - 1 /\ w2 \in 0 .. W - 1 /\ w3 \in 0 .. W - 1 /\ w4 \in 0 .. W - 1
    BY <1>4, WordIs
  <2> QED
    BY <1>5, <2>1 DEF Vli
<1>7. PICK q2 \in Nat, q4 \in Nat, q6 \in Nat : q2 = Power(h, 2) /\ q4 = Power(h, 4) /\ q6 = Power(h, 6)
  BY <1>1, h > 0, 2 \in Nat, 4 \in Nat, 6 \in Nat, PowerPositive
<1>8. /\ Power(h, 1) = h /\ Power(h, 3) = h * q2 /\ Power(h, 5) = h * q4 /\ Power(h, 7) = h * q6
      /\ q2 = W /\ q4 = W * q2 /\ q6 = W * q4
  <2>1. /\ Power(h, 0) = 1 /\ Power(h, 0 + 1) = h * Power(h, 0) /\ Power(h, 1 + 1) = h * Power(h, 1)
        /\ Power(h, 2 + 1) = h * Power(h, 2) /\ Power(h, 3 + 1) = h * Power(h, 3) /\ Power(h, 4 + 1) = h * Power(h, 4)
        /\ Power(h, 5 + 1) = h * Power(h, 5) /\ Power(h, 6 + 1) = h * Power(h, 6)
    BY h \in Int, 0 \in Nat, 1 \in Nat, 2 \in Nat, 3 \in Nat, 4 \in Nat, 5 \in Nat, 6 \in Nat, PowerStep
  <2>2. /\ Power(h, 1) = h * 1 /\ q2 = h * Power(h, 1) /\ Power(h, 3) = h * q2 /\ q4 = h * Power(h, 3)
        /\ Power(h, 5) = h * q4 /\ q6 = h * Power(h, 5) /\ Power(h, 7) = h * q6
    <3>1. 0 + 1 = 1 /\ 1 + 1 = 2 /\ 2 + 1 = 3 /\ 3 + 1 = 4 /\ 4 + 1 = 5 /\ 5 + 1 = 6 /\ 6 + 1 = 7
      OBVIOUS
    <3> QED
      BY <1>7, <2>1, <3>1
  <2>3. h * 1 = h /\ (h * h) * q2 = h * (h * q2) /\ (h * h) * q4 = h * (h * q4)
    OBVIOUS
  <2> QED
    BY <1>1, <2>2, <2>3
<1>9. Number(a) = w1 + w2 * q2 + w3 * q4 + w4 * q6
  <2>1. Place(0) = 1 /\ Place(0 + 1) = W * Place(0) /\ Place(1 + 1) = W * Place(1) /\ Place(2 + 1) = W * Place(2)
    BY 0 \in Nat, 1 \in Nat, 2 \in Nat, PlaceIs
  <2>2. Place(0) = 1 /\ Place(1) = q2 /\ Place(2) = q4 /\ Place(3) = q6
    <3>1. 0 + 1 = 1 /\ 1 + 1 = 2 /\ 2 + 1 = 3 /\ W * 1 = W
      BY WordIs
    <3> QED
      BY <1>8, <2>1, <3>1
  <2>3. /\ Lowest(a, 0) = 0 /\ Number(a) = Lowest(a, 4)
        /\ \A k \in 0 .. 4 - 1 : Lowest(a, k + 1) = Lowest(a, k) + a[k + 1] * Place(k)
    BY <1>6, 4 \in Nat, LowestIs
  <2>4. /\ Lowest(a, 0 + 1) = Lowest(a, 0) + a[0 + 1] * Place(0) /\ Lowest(a, 1 + 1) = Lowest(a, 1) + a[1 + 1] * Place(1)
        /\ Lowest(a, 2 + 1) = Lowest(a, 2) + a[2 + 1] * Place(2) /\ Lowest(a, 3 + 1) = Lowest(a, 3) + a[3 + 1] * Place(3)
    BY <2>3, 0 \in 0 .. 4 - 1, 1 \in 0 .. 4 - 1, 2 \in 0 .. 4 - 1, 3 \in 0 .. 4 - 1
  <2>5. /\ Lowest(a, 1) = Lowest(a, 0) + w1 * Place(0) /\ Lowest(a, 2) = Lowest(a, 1) + w2 * Place(1)
        /\ Lowest(a, 3) = Lowest(a, 2) + w3 * Place(2) /\ Lowest(a, 4) = Lowest(a, 3) + w4 * Place(3)
    BY <1>5, <2>4
  <2> QED
    BY <2>2, <2>3, <2>5
<1>10. Digits(HalfW, e) = x1 + x2 * h + x3 * q2 + x4 * (h * q2) + x5 * q4 + x6 * (h * q4) + x7 * q6 + x8 * (h * q6)
  BY <1>1, <1>3, <1>7, <1>8 DEF Digits
<1>11. /\ (x3 + x4 * h) * q2 = x3 * q2 + x4 * (h * q2) /\ (x5 + x6 * h) * q4 = x5 * q4 + x6 * (h * q4)
       /\ (x7 + x8 * h) * q6 = x7 * q6 + x8 * (h * q6)
  OBVIOUS
<1> QED
  BY <1>4, <1>6, <1>9, <1>10, <1>11

\* The place of a word is two places of half words.
LEMMA PlaceHalves ==
  ASSUME WordBits % 2 = 0, NEW k \in Nat, NEW j \in Nat, Place(k) = Power(HalfW, j)
  PROVE  Place(k + 1) = Power(HalfW, j + 2) /\ Power(HalfW, j + 1) = HalfW * Place(k) /\ Place(k) \in Nat
<1>1. PICK h \in Nat : h = HalfW /\ W = h * h /\ h > 1
  BY HalfWordIs
<1>2. PICK x \in Nat : x = Place(k) /\ Place(k + 1) = W * x
  BY PlaceIs
<1>3. Power(h, j + 1) = h * x /\ Power(h, (j + 1) + 1) = h * Power(h, j + 1)
  BY <1>1, <1>2, h \in Int, j + 1 \in Nat, PowerStep
<1>4. (j + 1) + 1 = j + 2 /\ h * (h * x) = (h * h) * x
  OBVIOUS
<1> QED
  BY <1>1, <1>2, <1>3, <1>4

\* Four words have the place of eight halves.
LEMMA FourPlaces ==
  ASSUME WordBits % 2 = 0
  PROVE  Place(4) = Power(HalfW, 8)
<1>1. Place(0) = 1 /\ Power(HalfW, 0) = 1
  <2>1. HalfW \in Int
    BY HalfWordIs
  <2> QED
    BY <2>1, PlaceIs, PowerStep
<1>2. Place(1) = Power(HalfW, 2)
  <2>1. 0 \in Nat /\ 0 \in Nat /\ 0 + 1 = 1 /\ 0 + 2 = 2
    OBVIOUS
  <2> QED
    BY <1>1, <2>1, PlaceHalves
<1>3. Place(2) = Power(HalfW, 4)
  <2>1. 1 \in Nat /\ 2 \in Nat /\ 1 + 1 = 2 /\ 2 + 2 = 4
    OBVIOUS
  <2> QED
    BY <1>2, <2>1, PlaceHalves
<1>4. Place(3) = Power(HalfW, 6)
  <2>1. 2 \in Nat /\ 4 \in Nat /\ 2 + 1 = 3 /\ 4 + 2 = 6
    OBVIOUS
  <2> QED
    BY <1>3, <2>1, PlaceHalves
<1>5. Place(4) = Power(HalfW, 8)
  <2>1. 3 \in Nat /\ 6 \in Nat /\ 3 + 1 = 4 /\ 6 + 2 = 8
    OBVIOUS
  <2> QED
    BY <1>4, <2>1, PlaceHalves
<1> QED
  BY <1>5

\* The digits c of the upper half of a product of eight words.
HighHalves(product, c) ==
    /\ \A i \in 8 .. 15 : c[i] \in Nat /\ c[i] < HalfW
    /\ product[5] = c[8] + c[9] * HalfW /\ product[6] = c[10] + c[11] * HalfW
    /\ product[7] = c[12] + c[13] * HalfW /\ product[8] = c[14] + c[15] * HalfW

\* Eight words are the lowest four and eight high digits of half a word.
LEMMA NumberHalves ==
  ASSUME WordBits % 2 = 0, NEW product, product \in Vli(8), NEW c, HighHalves(product, c)
  PROVE  Number(product) = Lowest(product, 4) + HighDigits(HalfW, c) /\ Lowest(product, 4) \in Int
<1>1. PICK h \in Nat : h = HalfW /\ W = h * h /\ h > 1
  BY HalfWordIs
<1>2. Place(4) = Power(h, 8)
  BY <1>1, FourPlaces
<1>3. Place(5) = Power(h, 10) /\ Power(h, 9) = h * Place(4) /\ Place(4) \in Nat
  <2>1. 4 \in Nat /\ 8 \in Nat /\ 4 + 1 = 5 /\ 8 + 2 = 10 /\ 8 + 1 = 9
    OBVIOUS
  <2> QED
    BY <1>1, <1>2, <2>1, PlaceHalves
<1>4. Place(6) = Power(h, 12) /\ Power(h, 11) = h * Place(5) /\ Place(5) \in Nat
  <2>1. 5 \in Nat /\ 10 \in Nat /\ 5 + 1 = 6 /\ 10 + 2 = 12 /\ 10 + 1 = 11
    OBVIOUS
  <2> QED
    BY <1>1, <1>3, <2>1, PlaceHalves
<1>5. Place(7) = Power(h, 14) /\ Power(h, 13) = h * Place(6) /\ Place(6) \in Nat
  <2>1. 6 \in Nat /\ 12 \in Nat /\ 6 + 1 = 7 /\ 12 + 2 = 14 /\ 12 + 1 = 13
    OBVIOUS
  <2> QED
    BY <1>1, <1>4, <2>1, PlaceHalves
<1>6. Place(8) = Power(h, 16) /\ Power(h, 15) = h * Place(7) /\ Place(7) \in Nat
  <2>1. 7 \in Nat /\ 14 \in Nat /\ 7 + 1 = 8 /\ 14 + 2 = 16 /\ 14 + 1 = 15
    OBVIOUS
  <2> QED
    BY <1>1, <1>5, <2>1, PlaceHalves
<1>7. PICK y8 \in Nat, y9 \in Nat, y10 \in Nat, y11 \in Nat, y12 \in Nat, y13 \in Nat, y14 \in Nat, y15 \in Nat :
         y8 = c[8] /\ y9 = c[9] /\ y10 = c[10] /\ y11 = c[11] /\ y12 = c[12] /\ y13 = c[13] /\ y14 = c[14] /\ y15 = c[15]
  <2>1. \A i \in 8 .. 15 : c[i] \in Nat
    BY DEF HighHalves
  <2> QED
    BY <2>1, 8 \in 8 .. 15, 9 \in 8 .. 15, 10 \in 8 .. 15, 11 \in 8 .. 15, 12 \in 8 .. 15, 13 \in 8 .. 15, 14 \in 8 .. 15, 15 \in 8 .. 15
<1>8. PICK p4 \in Nat, p5 \in Nat, p6 \in Nat, p7 \in Nat :
         p4 = Place(4) /\ p5 = Place(5) /\ p6 = Place(6) /\ p7 = Place(7)
  BY <1>3, <1>4, <1>5, <1>6
<1>9. Number(product) = Lowest(product, 4) + (y8 + y9 * h) * p4 + (y10 + y11 * h) * p5 + (y12 + y13 * h) * p6 + (y14 + y15 * h) * p7
  <2>1. /\ Number(product) = Lowest(product, 8) /\ Lowest(product, 4) \in Int
        /\ \A k \in 0 .. 8 - 1 : Lowest(product, k + 1) = Lowest(product, k) + product[k + 1] * Place(k)
    BY 8 \in Nat, 4 \in 0 .. 8, LowestIs
  <2>2. Lowest(product, 5) = Lowest(product, 4) + (y8 + y9 * h) * p4
    <3>1. 4 \in 0 .. 8 - 1 /\ 4 + 1 = 5
      OBVIOUS
    <3>2. Lowest(product, 5) = Lowest(product, 4) + product[5] * Place(4)
      BY <2>1, <3>1, Zenon
    <3>3. product[5] = y8 + y9 * h
      BY <1>1, <1>7 DEF HighHalves
    <3> QED
      BY <1>8, <3>2, <3>3
  <2>3. Lowest(product, 6) = Lowest(product, 5) + (y10 + y11 * h) * p5
    <3>1. 5 \in 0 .. 8 - 1 /\ 5 + 1 = 6
      OBVIOUS
    <3>2. Lowest(product, 6) = Lowest(product, 5) + product[6] * Place(5)
      BY <2>1, <3>1, Zenon
    <3>3. product[6] = y10 + y11 * h
      BY <1>1, <1>7 DEF HighHalves
    <3> QED
      BY <1>8, <3>2, <3>3
  <2>4. Lowest(product, 7) = Lowest(product, 6) + (y12 + y13 * h) * p6
    <3>1. 6 \in 0 .. 8 - 1 /\ 6 + 1 = 7
      OBVIOUS
    <3>2. Lowest(product, 7) = Lowest(product, 6) + product[7] * Place(6)
      BY <2>1, <3>1, Zenon
    <3>3. product[7] = y12 + y13 * h
      BY <1>1, <1>7 DEF HighHalves
    <3> QED
      BY <1>8, <3>2, <3>3
  <2>5. Lowest(product, 8) = Lowest(product, 7) + (y14 + y15 * h) * p7
    <3>1. 7 \in 0 .. 8 - 1 /\ 7 + 1 = 8
      OBVIOUS
    <3>2. Lowest(product, 8) = Lowest(product, 7) + product[8] * Place(7)
      BY <2>1, <3>1, Zenon
    <3>3. product[8] = y14 + y15 * h
      BY <1>1, <1>7 DEF HighHalves
    <3> QED
      BY <1>8, <3>2, <3>3
  <2> QED
    BY <2>1, <2>2, <2>3, <2>4, <2>5
<1>10. HighDigits(HalfW, c) = y8 * p4 + y9 * (h * p4) + y10 * p5 + y11 * (h * p5) + y12 * p6 + y13 * (h * p6) + y14 * p7 + y15 * (h * p7)
  BY <1>1, <1>2, <1>3, <1>4, <1>5, <1>6, <1>7, <1>8 DEF HighDigits
<1>11. (y8 + y9 * h) * p4 = y8 * p4 + y9 * (h * p4) /\ (y10 + y11 * h) * p5 = y10 * p5 + y11 * (h * p5) /\ (y12 + y13 * h) * p6 = y12 * p6 + y13 * (h * p6) /\ (y14 + y15 * h) * p7 = y14 * p7 + y15 * (h * p7)
  OBVIOUS
<1>12. Lowest(product, 4) \in Int
  BY 8 \in Nat, 4 \in 0 .. 8, LowestIs
<1> QED
  BY <1>9, <1>10, <1>11, <1>12

\* The reduction for words of 64 bits.
LEMMA Fast64Is ==
  ASSUME WordBits % 2 = 0, NEW product, product \in Vli(8), NEW p, p \in Vli(4), Number(p) = PrimeOf(HalfW),
         NEW o, o = vli_mmod_fast_secp256r1_64(product, p)
  PROVE  o \in Vli(4) /\ Number(o) = Number(product) % PrimeOf(HalfW)
<1>1. PICK h \in Nat : h = HalfW /\ W = h * h /\ h > 1
  BY HalfWordIs
<1>2. PICK q : q = SubSeq(product, 5, 8)
  OBVIOUS
<1>3. q[1] = product[5] /\ q[2] = product[6] /\ q[3] = product[7] /\ q[4] = product[8]
  <2>1. product \in Seq(0 .. W - 1) /\ Len(product) = 8
    BY 8 \in Nat, FunctionIsSeq DEF Vli
  <2> QED
    BY <1>2, <2>1
<1>4. PICK y8 \in Nat, y9 \in Nat :
         /\ y8 < h /\ y9 < h /\ q[1] = y8 + y9 * h
         /\ LowHalf(q[1]) = y8 /\ HighHalf(q[1]) = y9 * h /\ Shr(q[1]) = y9 /\ Shl(q[1]) = y8 * h
  <2>1. q[1] \in Nat /\ q[1] < W
    BY <1>3, 8 \in Nat, 5 \in 1 .. 8, WordsAre, WordIs
  <2> QED
    BY <1>1, <2>1, HalvesOf
<1>5. PICK y10 \in Nat, y11 \in Nat :
         /\ y10 < h /\ y11 < h /\ q[2] = y10 + y11 * h
         /\ LowHalf(q[2]) = y10 /\ HighHalf(q[2]) = y11 * h /\ Shr(q[2]) = y11 /\ Shl(q[2]) = y10 * h
  <2>1. q[2] \in Nat /\ q[2] < W
    BY <1>3, 8 \in Nat, 6 \in 1 .. 8, WordsAre, WordIs
  <2> QED
    BY <1>1, <2>1, HalvesOf
<1>6. PICK y12 \in Nat, y13 \in Nat :
         /\ y12 < h /\ y13 < h /\ q[3] = y12 + y13 * h
         /\ LowHalf(q[3]) = y12 /\ HighHalf(q[3]) = y13 * h /\ Shr(q[3]) = y13 /\ Shl(q[3]) = y12 * h
  <2>1. q[3] \in Nat /\ q[3] < W
    BY <1>3, 8 \in Nat, 7 \in 1 .. 8, WordsAre, WordIs
  <2> QED
    BY <1>1, <2>1, HalvesOf
<1>7. PICK y14 \in Nat, y15 \in Nat :
         /\ y14 < h /\ y15 < h /\ q[4] = y14 + y15 * h
         /\ LowHalf(q[4]) = y14 /\ HighHalf(q[4]) = y15 * h /\ Shr(q[4]) = y15 /\ Shl(q[4]) = y14 * h
  <2>1. q[4] \in Nat /\ q[4] < W
    BY <1>3, 8 \in Nat, 8 \in 1 .. 8, WordsAre, WordIs
  <2> QED
    BY <1>1, <2>1, HalvesOf
<1>8. PICK c : c[8] = y8 /\ c[9] = y9 /\ c[10] = y10 /\ c[11] = y11 /\ c[12] = y12 /\ c[13] = y13 /\ c[14] = y14 /\ c[15] = y15
  <2>1. PICK c : c = [i \in 8 .. 15 |-> <<y8, y9, y10, y11, y12, y13, y14, y15>>[i - 7]]
    OBVIOUS
  <2>2. c[8] = y8 /\ c[9] = y9 /\ c[10] = y10 /\ c[11] = y11 /\ c[12] = y12 /\ c[13] = y13 /\ c[14] = y14 /\ c[15] = y15
    BY <2>1
  <2> QED
    BY <2>2
<1>9. HighHalves(product, c)
  <2>1. \A i \in 8 .. 15 : c[i] \in Nat /\ c[i] < h
    <3> SUFFICES ASSUME NEW i \in 8 .. 15
                 PROVE  c[i] \in Nat /\ c[i] < h
      OBVIOUS
    <3>1. i = 8 \/ i = 9 \/ i = 10 \/ i = 11 \/ i = 12 \/ i = 13 \/ i = 14 \/ i = 15
      OBVIOUS
    <3> QED
      BY <1>4, <1>5, <1>6, <1>7, <1>8, <3>1
  <2> QED
    BY <1>1, <1>3, <1>4, <1>5, <1>6, <1>7, <1>8, <2>1 DEF HighHalves
<1>10. PICK d : d = DigitRows(c)
  OBVIOUS
<1>11. PICK doubled, added, removed : doubled = Doubled8(q) /\ added = Added8(q) /\ removed = Removed8(q)
  OBVIOUS
<1>12. o = Reduced(product, p, doubled, added, removed)
  BY <1>2, <1>11 DEF vli_mmod_fast_secp256r1_64
<1>13. doubled[1] \in Vli(4) /\ Number(doubled[1]) = Digits(HalfW, d[1])
  <2>1. PICK e : e = <<0, 0, 0, y11, y12, y13, y14, y15>>
    OBVIOUS
  <2>2. d[1] = e
    BY <1>8, <1>10, <2>1 DEF DigitRows
  <2>3. HalfDigits(e)
    <3>1. e[1] = 0 /\ e[2] = 0 /\ e[3] = 0 /\ e[4] = y11 /\ e[5] = y12 /\ e[6] = y13 /\ e[7] = y14 /\ e[8] = y15
      BY <2>1
    <3>2. \A i \in 1 .. 8 : i = 1 \/ i = 2 \/ i = 3 \/ i = 4 \/ i = 5 \/ i = 6 \/ i = 7 \/ i = 8
      OBVIOUS
    <3>3. e[1] \in Nat /\ e[1] < h /\ e[2] \in Nat /\ e[2] < h /\ e[3] \in Nat /\ e[3] < h /\ e[4] \in Nat /\ e[4] < h /\ e[5] \in Nat /\ e[5] < h /\ e[6] \in Nat /\ e[6] < h /\ e[7] \in Nat /\ e[7] < h /\ e[8] \in Nat /\ e[8] < h
      BY <1>1, <1>4, <1>5, <1>6, <1>7, <3>1
    <3> QED
      BY <1>1, <3>2, <3>3 DEF HalfDigits
  <2>4. doubled[1] = <<0, y11 * h, y12 + y13 * h, y14 + y15 * h>>
    BY <1>4, <1>5, <1>6, <1>7, <1>11 DEF Doubled8
  <2>5. PairsOf(e) = <<0, y11 * h, y12 + y13 * h, y14 + y15 * h>>
    <3>1. PairsOf(e) = <<0 + 0 * h, 0 + y11 * h, y12 + y13 * h, y14 + y15 * h>>
      BY <1>1, <2>1 DEF PairsOf
    <3>2. 0 * h = 0
      OBVIOUS
    <3>3. 0 + 0 * h = 0 /\ 0 + y11 * h = y11 * h /\ y12 + y13 * h = y12 + y13 * h /\ y14 + y15 * h = y14 + y15 * h
      BY <3>2
    <3> QED
      BY <3>1, <3>3
  <2>6. doubled[1] = PairsOf(e)
    BY <2>4, <2>5
  <2> QED
    BY <2>2, <2>3, <2>6, PairsAre
<1>14. doubled[2] \in Vli(4) /\ Number(doubled[2]) = Digits(HalfW, d[2])
  <2>1. PICK e : e = <<0, 0, 0, y12, y13, y14, y15, 0>>
    OBVIOUS
  <2>2. d[2] = e
    BY <1>8, <1>10, <2>1 DEF DigitRows
  <2>3. HalfDigits(e)
    <3>1. e[1] = 0 /\ e[2] = 0 /\ e[3] = 0 /\ e[4] = y12 /\ e[5] = y13 /\ e[6] = y14 /\ e[7] = y15 /\ e[8] = 0
      BY <2>1
    <3>2. \A i \in 1 .. 8 : i = 1 \/ i = 2 \/ i = 3 \/ i = 4 \/ i = 5 \/ i = 6 \/ i = 7 \/ i = 8
      OBVIOUS
    <3>3. e[1] \in Nat /\ e[1] < h /\ e[2] \in Nat /\ e[2] < h /\ e[3] \in Nat /\ e[3] < h /\ e[4] \in Nat /\ e[4] < h /\ e[5] \in Nat /\ e[5] < h /\ e[6] \in Nat /\ e[6] < h /\ e[7] \in Nat /\ e[7] < h /\ e[8] \in Nat /\ e[8] < h
      BY <1>1, <1>4, <1>5, <1>6, <1>7, <3>1
    <3> QED
      BY <1>1, <3>2, <3>3 DEF HalfDigits
  <2>4. doubled[2] = <<0, y12 * h, y13 + y14 * h, y15>>
    BY <1>4, <1>5, <1>6, <1>7, <1>11 DEF Doubled8
  <2>5. PairsOf(e) = <<0, y12 * h, y13 + y14 * h, y15>>
    <3>1. PairsOf(e) = <<0 + 0 * h, 0 + y12 * h, y13 + y14 * h, y15 + 0 * h>>
      BY <1>1, <2>1 DEF PairsOf
    <3>2. 0 * h = 0
      OBVIOUS
    <3>3. 0 + 0 * h = 0 /\ 0 + y12 * h = y12 * h /\ y13 + y14 * h = y13 + y14 * h /\ y15 + 0 * h = y15
      BY <3>2
    <3> QED
      BY <3>1, <3>3
  <2>6. doubled[2] = PairsOf(e)
    BY <2>4, <2>5
  <2> QED
    BY <2>2, <2>3, <2>6, PairsAre
<1>15. added[1] \in Vli(4) /\ Number(added[1]) = Digits(HalfW, d[3])
  <2>1. PICK e : e = <<y8, y9, y10, 0, 0, 0, y14, y15>>
    OBVIOUS
  <2>2. d[3] = e
    BY <1>8, <1>10, <2>1 DEF DigitRows
  <2>3. HalfDigits(e)
    <3>1. e[1] = y8 /\ e[2] = y9 /\ e[3] = y10 /\ e[4] = 0 /\ e[5] = 0 /\ e[6] = 0 /\ e[7] = y14 /\ e[8] = y15
      BY <2>1
    <3>2. \A i \in 1 .. 8 : i = 1 \/ i = 2 \/ i = 3 \/ i = 4 \/ i = 5 \/ i = 6 \/ i = 7 \/ i = 8
      OBVIOUS
    <3>3. e[1] \in Nat /\ e[1] < h /\ e[2] \in Nat /\ e[2] < h /\ e[3] \in Nat /\ e[3] < h /\ e[4] \in Nat /\ e[4] < h /\ e[5] \in Nat /\ e[5] < h /\ e[6] \in Nat /\ e[6] < h /\ e[7] \in Nat /\ e[7] < h /\ e[8] \in Nat /\ e[8] < h
      BY <1>1, <1>4, <1>5, <1>6, <1>7, <3>1
    <3> QED
      BY <1>1, <3>2, <3>3 DEF HalfDigits
  <2>4. added[1] = <<y8 + y9 * h, y10, 0, y14 + y15 * h>>
    BY <1>4, <1>5, <1>6, <1>7, <1>11 DEF Added8
  <2>5. PairsOf(e) = <<y8 + y9 * h, y10, 0, y14 + y15 * h>>
    <3>1. PairsOf(e) = <<y8 + y9 * h, y10 + 0 * h, 0 + 0 * h, y14 + y15 * h>>
      BY <1>1, <2>1 DEF PairsOf
    <3>2. 0 * h = 0
      OBVIOUS
    <3>3. y8 + y9 * h = y8 + y9 * h /\ y10 + 0 * h = y10 /\ 0 + 0 * h = 0 /\ y14 + y15 * h = y14 + y15 * h
      BY <3>2
    <3> QED
      BY <3>1, <3>3
  <2>6. added[1] = PairsOf(e)
    BY <2>4, <2>5
  <2> QED
    BY <2>2, <2>3, <2>6, PairsAre
<1>16. added[2] \in Vli(4) /\ Number(added[2]) = Digits(HalfW, d[4])
  <2>1. PICK e : e = <<y9, y10, y11, y13, y14, y15, y13, y8>>
    OBVIOUS
  <2>2. d[4] = e
    BY <1>8, <1>10, <2>1 DEF DigitRows
  <2>3. HalfDigits(e)
    <3>1. e[1] = y9 /\ e[2] = y10 /\ e[3] = y11 /\ e[4] = y13 /\ e[5] = y14 /\ e[6] = y15 /\ e[7] = y13 /\ e[8] = y8
      BY <2>1
    <3>2. \A i \in 1 .. 8 : i = 1 \/ i = 2 \/ i = 3 \/ i = 4 \/ i = 5 \/ i = 6 \/ i = 7 \/ i = 8
      OBVIOUS
    <3>3. e[1] \in Nat /\ e[1] < h /\ e[2] \in Nat /\ e[2] < h /\ e[3] \in Nat /\ e[3] < h /\ e[4] \in Nat /\ e[4] < h /\ e[5] \in Nat /\ e[5] < h /\ e[6] \in Nat /\ e[6] < h /\ e[7] \in Nat /\ e[7] < h /\ e[8] \in Nat /\ e[8] < h
      BY <1>1, <1>4, <1>5, <1>6, <1>7, <3>1
    <3> QED
      BY <1>1, <3>2, <3>3 DEF HalfDigits
  <2>4. added[2] = <<y9 + y10 * h, y11 + y13 * h, y14 + y15 * h, y13 + y8 * h>>
    BY <1>4, <1>5, <1>6, <1>7, <1>11 DEF Added8
  <2>5. PairsOf(e) = <<y9 + y10 * h, y11 + y13 * h, y14 + y15 * h, y13 + y8 * h>>
    <3>1. PairsOf(e) = <<y9 + y10 * h, y11 + y13 * h, y14 + y15 * h, y13 + y8 * h>>
      BY <1>1, <2>1 DEF PairsOf
    <3>2. 0 * h = 0
      OBVIOUS
    <3>3. y9 + y10 * h = y9 + y10 * h /\ y11 + y13 * h = y11 + y13 * h /\ y14 + y15 * h = y14 + y15 * h /\ y13 + y8 * h = y13 + y8 * h
      BY <3>2
    <3> QED
      BY <3>1, <3>3
  <2>6. added[2] = PairsOf(e)
    BY <2>4, <2>5
  <2> QED
    BY <2>2, <2>3, <2>6, PairsAre
<1>17. removed[1] \in Vli(4) /\ Number(removed[1]) = Digits(HalfW, d[5])
  <2>1. PICK e : e = <<y11, y12, y13, 0, 0, 0, y8, y10>>
    OBVIOUS
  <2>2. d[5] = e
    BY <1>8, <1>10, <2>1 DEF DigitRows
  <2>3. HalfDigits(e)
    <3>1. e[1] = y11 /\ e[2] = y12 /\ e[3] = y13 /\ e[4] = 0 /\ e[5] = 0 /\ e[6] = 0 /\ e[7] = y8 /\ e[8] = y10
      BY <2>1
    <3>2. \A i \in 1 .. 8 : i = 1 \/ i = 2 \/ i = 3 \/ i = 4 \/ i = 5 \/ i = 6 \/ i = 7 \/ i = 8
      OBVIOUS
    <3>3. e[1] \in Nat /\ e[1] < h /\ e[2] \in Nat /\ e[2] < h /\ e[3] \in Nat /\ e[3] < h /\ e[4] \in Nat /\ e[4] < h /\ e[5] \in Nat /\ e[5] < h /\ e[6] \in Nat /\ e[6] < h /\ e[7] \in Nat /\ e[7] < h /\ e[8] \in Nat /\ e[8] < h
      BY <1>1, <1>4, <1>5, <1>6, <1>7, <3>1
    <3> QED
      BY <1>1, <3>2, <3>3 DEF HalfDigits
  <2>4. removed[1] = <<y11 + y12 * h, y13, 0, y8 + y10 * h>>
    BY <1>4, <1>5, <1>6, <1>7, <1>11 DEF Removed8
  <2>5. PairsOf(e) = <<y11 + y12 * h, y13, 0, y8 + y10 * h>>
    <3>1. PairsOf(e) = <<y11 + y12 * h, y13 + 0 * h, 0 + 0 * h, y8 + y10 * h>>
      BY <1>1, <2>1 DEF PairsOf
    <3>2. 0 * h = 0
      OBVIOUS
    <3>3. y11 + y12 * h = y11 + y12 * h /\ y13 + 0 * h = y13 /\ 0 + 0 * h = 0 /\ y8 + y10 * h = y8 + y10 * h
      BY <3>2
    <3> QED
      BY <3>1, <3>3
  <2>6. removed[1] = PairsOf(e)
    BY <2>4, <2>5
  <2> QED
    BY <2>2, <2>3, <2>6, PairsAre
<1>18. removed[2] \in Vli(4) /\ Number(removed[2]) = Digits(HalfW, d[6])
  <2>1. PICK e : e = <<y12, y13, y14, y15, 0, 0, y9, y11>>
    OBVIOUS
  <2>2. d[6] = e
    BY <1>8, <1>10, <2>1 DEF DigitRows
  <2>3. HalfDigits(e)
    <3>1. e[1] = y12 /\ e[2] = y13 /\ e[3] = y14 /\ e[4] = y15 /\ e[5] = 0 /\ e[6] = 0 /\ e[7] = y9 /\ e[8] = y11
      BY <2>1
    <3>2. \A i \in 1 .. 8 : i = 1 \/ i = 2 \/ i = 3 \/ i = 4 \/ i = 5 \/ i = 6 \/ i = 7 \/ i = 8
      OBVIOUS
    <3>3. e[1] \in Nat /\ e[1] < h /\ e[2] \in Nat /\ e[2] < h /\ e[3] \in Nat /\ e[3] < h /\ e[4] \in Nat /\ e[4] < h /\ e[5] \in Nat /\ e[5] < h /\ e[6] \in Nat /\ e[6] < h /\ e[7] \in Nat /\ e[7] < h /\ e[8] \in Nat /\ e[8] < h
      BY <1>1, <1>4, <1>5, <1>6, <1>7, <3>1
    <3> QED
      BY <1>1, <3>2, <3>3 DEF HalfDigits
  <2>4. removed[2] = <<y12 + y13 * h, y14 + y15 * h, 0, y9 + y11 * h>>
    BY <1>4, <1>5, <1>6, <1>7, <1>11 DEF Removed8
  <2>5. PairsOf(e) = <<y12 + y13 * h, y14 + y15 * h, 0, y9 + y11 * h>>
    <3>1. PairsOf(e) = <<y12 + y13 * h, y14 + y15 * h, 0 + 0 * h, y9 + y11 * h>>
      BY <1>1, <2>1 DEF PairsOf
    <3>2. 0 * h = 0
      OBVIOUS
    <3>3. y12 + y13 * h = y12 + y13 * h /\ y14 + y15 * h = y14 + y15 * h /\ 0 + 0 * h = 0 /\ y9 + y11 * h = y9 + y11 * h
      BY <3>2
    <3> QED
      BY <3>1, <3>3
  <2>6. removed[2] = PairsOf(e)
    BY <2>4, <2>5
  <2> QED
    BY <2>2, <2>3, <2>6, PairsAre
<1>19. removed[3] \in Vli(4) /\ Number(removed[3]) = Digits(HalfW, d[7])
  <2>1. PICK e : e = <<y13, y14, y15, y8, y9, y10, 0, y12>>
    OBVIOUS
  <2>2. d[7] = e
    BY <1>8, <1>10, <2>1 DEF DigitRows
  <2>3. HalfDigits(e)
    <3>1. e[1] = y13 /\ e[2] = y14 /\ e[3] = y15 /\ e[4] = y8 /\ e[5] = y9 /\ e[6] = y10 /\ e[7] = 0 /\ e[8] = y12
      BY <2>1
    <3>2. \A i \in 1 .. 8 : i = 1 \/ i = 2 \/ i = 3 \/ i = 4 \/ i = 5 \/ i = 6 \/ i = 7 \/ i = 8
      OBVIOUS
    <3>3. e[1] \in Nat /\ e[1] < h /\ e[2] \in Nat /\ e[2] < h /\ e[3] \in Nat /\ e[3] < h /\ e[4] \in Nat /\ e[4] < h /\ e[5] \in Nat /\ e[5] < h /\ e[6] \in Nat /\ e[6] < h /\ e[7] \in Nat /\ e[7] < h /\ e[8] \in Nat /\ e[8] < h
      BY <1>1, <1>4, <1>5, <1>6, <1>7, <3>1
    <3> QED
      BY <1>1, <3>2, <3>3 DEF HalfDigits
  <2>4. removed[3] = <<y13 + y14 * h, y15 + y8 * h, y9 + y10 * h, y12 * h>>
    BY <1>4, <1>5, <1>6, <1>7, <1>11 DEF Removed8
  <2>5. PairsOf(e) = <<y13 + y14 * h, y15 + y8 * h, y9 + y10 * h, y12 * h>>
    <3>1. PairsOf(e) = <<y13 + y14 * h, y15 + y8 * h, y9 + y10 * h, 0 + y12 * h>>
      BY <1>1, <2>1 DEF PairsOf
    <3>2. 0 * h = 0
      OBVIOUS
    <3>3. y13 + y14 * h = y13 + y14 * h /\ y15 + y8 * h = y15 + y8 * h /\ y9 + y10 * h = y9 + y10 * h /\ 0 + y12 * h = y12 * h
      BY <3>2
    <3> QED
      BY <3>1, <3>3
  <2>6. removed[3] = PairsOf(e)
    BY <2>4, <2>5
  <2> QED
    BY <2>2, <2>3, <2>6, PairsAre
<1>20. removed[4] \in Vli(4) /\ Number(removed[4]) = Digits(HalfW, d[8])
  <2>1. PICK e : e = <<y14, y15, 0, y9, y10, y11, 0, y13>>
    OBVIOUS
  <2>2. d[8] = e
    BY <1>8, <1>10, <2>1 DEF DigitRows
  <2>3. HalfDigits(e)
    <3>1. e[1] = y14 /\ e[2] = y15 /\ e[3] = 0 /\ e[4] = y9 /\ e[5] = y10 /\ e[6] = y11 /\ e[7] = 0 /\ e[8] = y13
      BY <2>1
    <3>2. \A i \in 1 .. 8 : i = 1 \/ i = 2 \/ i = 3 \/ i = 4 \/ i = 5 \/ i = 6 \/ i = 7 \/ i = 8
      OBVIOUS
    <3>3. e[1] \in Nat /\ e[1] < h /\ e[2] \in Nat /\ e[2] < h /\ e[3] \in Nat /\ e[3] < h /\ e[4] \in Nat /\ e[4] < h /\ e[5] \in Nat /\ e[5] < h /\ e[6] \in Nat /\ e[6] < h /\ e[7] \in Nat /\ e[7] < h /\ e[8] \in Nat /\ e[8] < h
      BY <1>1, <1>4, <1>5, <1>6, <1>7, <3>1
    <3> QED
      BY <1>1, <3>2, <3>3 DEF HalfDigits
  <2>4. removed[4] = <<y14 + y15 * h, y9 * h, y10 + y11 * h, y13 * h>>
    BY <1>4, <1>5, <1>6, <1>7, <1>11 DEF Removed8
  <2>5. PairsOf(e) = <<y14 + y15 * h, y9 * h, y10 + y11 * h, y13 * h>>
    <3>1. PairsOf(e) = <<y14 + y15 * h, 0 + y9 * h, y10 + y11 * h, 0 + y13 * h>>
      BY <1>1, <2>1 DEF PairsOf
    <3>2. 0 * h = 0
      OBVIOUS
    <3>3. y14 + y15 * h = y14 + y15 * h /\ 0 + y9 * h = y9 * h /\ y10 + y11 * h = y10 + y11 * h /\ 0 + y13 * h = y13 * h
      BY <3>2
    <3> QED
      BY <3>1, <3>3
  <2>6. removed[4] = PairsOf(e)
    BY <2>4, <2>5
  <2> QED
    BY <2>2, <2>3, <2>6, PairsAre
<1>21. PICK low : low = SubSeq(product, 1, 4)
  OBVIOUS
<1>22. Number(product) = Lowest(product, 4) + HighDigits(HalfW, c) /\ Number(low) = Lowest(product, 4) /\ Number(low) \in Int
  <2>1. Number(product) = Lowest(product, 4) + HighDigits(HalfW, c) /\ Lowest(product, 4) \in Int
    BY <1>9, NumberHalves
  <2>2. Number(low) = Lowest(product, 4)
    <3>1. PICK size \in Nat : \E k \in 0 .. size : size = 8 /\ k = 4
      BY 8 \in Nat, 4 \in 0 .. 8
    <3>2. PICK k \in 0 .. size : size = 8 /\ k = 4
      BY <3>1
    <3>3. product \in Vli(size) /\ low = SubSeq(product, 1, k)
      BY <1>21, <3>2
    <3>4. Number(low) = Lowest(product, k)
      BY <3>3, PrefixIs
    <3> QED
      BY <3>2, <3>4
  <2> QED
    BY <2>1, <2>2
<1>23. Place(4) = Power(HalfW, 8)
  BY FourPlaces
<1>24. PICK m \in Nat : m = PrimeOf(HalfW) /\ m > 0
  BY <1>1, PrimeBounds
<1>25. 4 * (Place(4) - 1) <= 8 * Number(p) /\ 7 * (Place(4) - 1) < 9 * Number(p)
  BY <1>1, <1>23, PrimeBounds
<1>26. PICK total : total = RowsTotal(low, doubled, added, removed)
  OBVIOUS
<1>27. o \in Vli(4) /\ Number(o) = total % m
  <2>1. PICK len \in Nat, size \in Nat : len = 4 /\ size = 8
    BY 4 \in Nat, 8 \in Nat
  <2>2. RowsFit(doubled, added, removed, len) /\ PrimeFits(p, len)
    BY <1>25, <1>13, <1>14, <1>15, <1>16, <1>17, <1>18, <1>19, <1>20, <2>1 DEF RowsFit, PrimeFits
  <2>3. len <= size /\ product \in Vli(size)
    BY <2>1
  <2>4. o \in Vli(len) /\ Number(o) = RowsTotal(SubSeq(product, 1, len), doubled, added, removed) % Number(p)
    BY <1>12, <2>2, <2>3, ReducedIs
  <2> QED
    BY <1>21, <1>24, <1>26, <2>1, <2>4
<1>28. Congruent(HighDigits(HalfW, c), DigitTotal(HalfW, c), m) /\ DigitTotal(HalfW, c) \in Int
  <2>1. \A i \in 8 .. 15 : c[i] \in Int
    BY <1>9 DEF HighHalves
  <2> QED
    BY <1>1, <1>24, <2>1, RowsModulo
<1>29. total = Number(low) + DigitTotal(HalfW, c)
  <2>1. PICK x1, x2, x3, x4, x5, x6, x7, x8 : x1 = Digits(HalfW, d[1]) /\ x2 = Digits(HalfW, d[2]) /\ x3 = Digits(HalfW, d[3]) /\ x4 = Digits(HalfW, d[4]) /\ x5 = Digits(HalfW, d[5]) /\ x6 = Digits(HalfW, d[6]) /\ x7 = Digits(HalfW, d[7]) /\ x8 = Digits(HalfW, d[8])
    OBVIOUS
  <2>2. x1 \in Int /\ x2 \in Int /\ x3 \in Int /\ x4 \in Int /\ x5 \in Int /\ x6 \in Int /\ x7 \in Int /\ x8 \in Int
    <3>1. \A a : a \in Vli(4) => Number(a) \in Int
      BY 4 \in Nat, NumberIs
    <3> QED
      BY <1>13, <1>14, <1>15, <1>16, <1>17, <1>18, <1>19, <1>20, <2>1, <3>1
  <2>3. total = Number(low) + 2 * x1 + 2 * x2 + x3 + x4 - x5 - x6 - x7 - x8
    BY <1>26, <1>13, <1>14, <1>15, <1>16, <1>17, <1>18, <1>19, <1>20, <2>1 DEF RowsTotal
  <2>4. DigitTotal(HalfW, c) = 2 * x1 + 2 * x2 + x3 + x4 - x5 - x6 - x7 - x8
    BY <1>10, <2>1 DEF DigitTotal
  <2> QED
    BY <1>22, <2>2, <2>3, <2>4
<1>30. Congruent(Number(product), total, m) /\ total \in Int /\ Number(product) \in Int
  <2>1. PICK k \in Int : HighDigits(HalfW, c) = DigitTotal(HalfW, c) + k * m
    BY <1>28 DEF Congruent
  <2>2. k * m \in Int
    OBVIOUS
  <2>3. Number(product) = total + k * m
    BY <1>22, <1>28, <1>29, <2>1, <2>2
  <2>4. total \in Int
    BY <1>22, <1>28, <1>29
  <2> QED
    BY <2>2, <2>3, <2>4 DEF Congruent
<1>31. Number(product) % m = total % m
  BY <1>24, <1>30, SameRemainder
<1> QED
  BY <1>24, <1>27, <1>31

\* A product of two numbers of k words fits 2k words.
LEMMA ProductFits ==
  ASSUME NEW k \in Nat, NEW x \in Nat, x \div Power(W, k) < Power(W, k)
  PROVE  x < Place(k + k)
<1>1. PICK q \in Nat : q = Power(W, k) /\ q > 0
  BY PlaceIs DEF Place
<1>2. Place(k + k) = q * q
  BY <1>1, WordIs, W \in Int, PowerPlus DEF Place
<1>3. PICK e \in Int, r \in Int : x = q * e + r /\ r < q /\ e = x \div q
  <2>1. x = q * (x \div q) + (x % q) /\ x % q \in 0 .. q - 1 /\ x \div q \in Int
    BY <1>1, QuotientRest
  <2> QED
    BY <2>1
<1>4. q * e <= q * (q - 1)
  <2>1. e <= q - 1 /\ q - 1 \in Int
    BY <1>1, <1>3
  <2>2. q * e <= q * (q - 1)
    BY <2>1
  <2> QED
    BY <2>2
<1>5. q * (q - 1) = q * q - q /\ q * q \in Int /\ q * e \in Int
  OBVIOUS
<1> QED
  BY <1>2, <1>3, <1>4, <1>5

-----------------------------------------------------------------------------
(* The calls, kind by kind.                                                 *)

\* Sums, differences, comparisons, shifts and bit counts.
LEMMA SumsAre ==
  ASSUME NEW x, NEW y, x \in Vli(NumWords), y \in Vli(NumWords), Sums(x, y)
  PROVE  vli'.f = "sums" /\ SumsExact'
<1>1. /\ vli'.f = "sums" /\ vli'.x = x /\ vli'.y = y /\ vli'.sum = ecdsa_vli_add(x, y) /\ vli'.diff = ecdsa_vli_sub(x, y)
      /\ vli'.cmp = ecdsa_vli_cmp(x, y) /\ vli'.unsafe = ecdsa_vli_cmp_unsafe(x, y)
      /\ vli'.bits = ecdsa_vli_numBits(x) /\ vli'.half = ecdsa_vli_rshift1(x)
  BY DEF Sums
<1>2. PICK len \in Nat : len = NumWords
  BY VliCallsAssumption
<1>3. PICK sum, diff, half, bits : sum = vli'.sum /\ diff = vli'.diff /\ half = vli'.half /\ bits = vli'.bits
  OBVIOUS
<1>4. Number(sum.out) + sum.carry * Place(len) = Number(x) + Number(y)
  BY <1>1, <1>2, <1>3, AddIs
<1>5. Number(diff.out) - diff.carry * Place(len) = Number(x) - Number(y)
  BY <1>1, <1>2, <1>3, SubIs
<1>6. vli'.cmp = (IF Number(x) > Number(y) THEN 1 ELSE IF Number(x) < Number(y) THEN -1 ELSE 0)
  BY <1>1, <1>2, CmpIs
<1>7. vli'.unsafe = vli'.cmp
  <2>1. vli'.unsafe = (IF Number(x) > Number(y) THEN 1 ELSE IF Number(x) < Number(y) THEN -1 ELSE 0)
    BY <1>1, <1>2, UnsafeIs
  <2> QED
    BY <1>6, <2>1
<1>8. Number(half) = Number(x) \div 2
  BY <1>1, <1>2, <1>3, HalfIs
<1>9. Power(2, bits) > Number(x) /\ (Number(x) > 0 => Power(2, bits - 1) <= Number(x))
  BY <1>1, <1>2, <1>3, BitsAre
<1> QED
  BY <1>1, <1>2, <1>3, <1>4, <1>5, <1>6, <1>7, <1>8, <1>9 DEF SumsExact, Place

\* The accumulation of a product, in both builds.
LEMMA MulAddsAre ==
  ASSUME NEW a \in 0 .. W - 1, NEW b \in 0 .. W - 1, NEW r \in [1 .. 3 -> 0 .. W - 1], r[3] < W - 1, MulAdd(a, b, r)
  PROVE  vli'.f = "muladd" /\ MulAddExact'
<1>1. /\ vli'.f = "muladd" /\ vli'.a = a /\ vli'.b = b /\ vli'.r = r /\ vli'.wide = muladd(a, b, r)
      /\ vli'.halves = muladd_halves(a, b, r)
  BY DEF MulAdd
<1>2. r \in Triples /\ a \in Nat /\ a < W /\ b \in Nat /\ b < W
  BY WordIs DEF Triples
<1>3. vli'.halves = vli'.wide
  BY <1>1, <1>2, VliCallsAssumption, HalvesAre
<1>4. PICK w \in Nat, x \in Nat, y \in Nat, z \in Nat :
         w = W /\ x = r[1] /\ y = r[2] /\ z = r[3] /\ x <= w - 1 /\ y <= w - 1 /\ z <= w - 2 /\ w > 1
  <2>1. /\ r[1] \in Nat /\ r[1] < W /\ r[2] \in Nat /\ r[2] < W /\ r[3] \in Nat /\ r[3] < W - 1
        /\ W \in Nat /\ W > 1
    BY <1>2, ValueIs, WordIs
  <2> QED
    BY <2>1
<1>5. Value(r) = x + y * w + z * (w * w)
  BY <1>4 DEF Value
<1>6. Value(r) + a * b < W * (W * W)
  <2>1. y * w <= (w - 1) * w /\ z * (w * w) <= (w - 2) * (w * w)
    <3>1. w * w \in Nat /\ w - 1 \in Nat /\ w - 2 \in Nat
      BY <1>4
    <3> QED
      BY <1>4, <3>1, LessByFactor
  <2>2. a * b <= (w - 1) * (w - 1)
    <3>1. a * b <= (w - 1) * b /\ b * (w - 1) <= (w - 1) * (w - 1)
      BY <1>2, <1>4, w - 1 \in Nat, a <= w - 1, b <= w - 1, LessByFactor
    <3> QED
      BY <1>2, <1>4, <3>1
  <2>3. (w - 1) * w = w * w - w /\ (w - 1) * (w - 1) = w * w - 2 * w + 1 /\ (w - 2) * (w * w) = w * (w * w) - 2 * (w * w)
    OBVIOUS
  <2>4. PICK s \in Int, c \in Int, u \in Int, v \in Int, t \in Int :
           s = w * w /\ c = w * (w * w) /\ u = y * w /\ v = z * (w * w) /\ t = a * b
    BY <1>2, <1>4
  <2>5. u <= s - w /\ v <= c - 2 * s /\ t <= s - 2 * w + 1
    BY <2>1, <2>2, <2>3, <2>4
  <2>6. x + u + v + t < c
    BY <1>4, <2>5
  <2> QED
    BY <1>4, <1>5, <2>4, <2>6
<1>7. Value(vli'.wide) = Value(r) + a * b
  BY <1>1, <1>2, <1>6, MulAddIs
<1>8. Value(vli'.wide) = vli'.wide[1] + vli'.wide[2] * W + vli'.wide[3] * (W * W)
  BY DEF Value
<1>9. Value(r) + a * b = a * b + r[1] + r[2] * W + r[3] * (W * W)
  <2>1. PICK u \in Int, v \in Int, t \in Int : u = y * w /\ v = z * (w * w) /\ t = a * b
    BY <1>2, <1>4
  <2>2. (x + u + v) + t = t + x + u + v
    OBVIOUS
  <2> QED
    BY <1>4, <1>5, <2>1, <2>2
<1> QED
  BY <1>1, <1>3, <1>7, <1>8, <1>9 DEF MulAddExact

\* Products and squares.
LEMMA MultsAre ==
  ASSUME NEW x, NEW y, x \in Vli(NumWords), y \in Vli(NumWords), Mults(x, y)
  PROVE  vli'.f = "mults" /\ MultsExact'
<1>1. /\ vli'.f = "mults" /\ vli'.x = x /\ vli'.y = y /\ vli'.product = ecdsa_vli_mult(x, y)
      /\ vli'.square = ecdsa_vli_square(x)
  BY DEF Mults
<1>2. PICK len \in Nat : len = NumWords /\ len > 0 /\ len < W
  BY VliCallsAssumption
<1>3. Number(vli'.product) = Number(x) * Number(y)
  BY <1>1, <1>2, MultIs
<1>4. Number(vli'.square) = Number(x) * Number(x)
  BY <1>1, <1>2, SquareIs
<1> QED
  BY <1>1, <1>3, <1>4 DEF MultsExact

\* A modulus and a number below it, as words.
LEMMA ModulusFits ==
  ASSUME NEW m \in Moduli, NEW x \in 0 .. m - 1, NEW len \in Nat, len = NumWords, NEW a, a = Words(x, len)
  PROVE  a \in Vli(len) /\ Number(a) = x /\ m \in Nat /\ m > 0 /\ m < Place(len) /\ x \in Nat
<1>1. PICK q \in Nat : q = Place(len) /\ q = Power(W, NumWords)
  BY PlaceIs DEF Place
<1>2. NumWords - 1 \in Nat
  BY VliCallsAssumption
<1>3. PICK low \in Nat : low = Power(W, NumWords - 1)
  BY <1>2, PlaceIs DEF Place
<1>4. m \in low .. q - 1
  BY <1>1, <1>3, VliCallsAssumption
<1>5. x \in Nat /\ x < q /\ m \in Nat /\ m < q /\ m > 0
  BY <1>4
<1>6. a \in Vli(len) /\ (x < Place(len) => Number(a) = x)
  BY <1>5, WordsMake, Zenon
<1> QED
  BY <1>1, <1>5, <1>6, Zenon

\* A modulus, as words.
LEMMA ModulusIs ==
  ASSUME NEW m \in Moduli, NEW len \in Nat, len = NumWords, NEW mod, mod = Words(m, len)
  PROVE  mod \in Vli(len) /\ Number(mod) = m /\ m \in Nat
<1>1. PICK q \in Nat : q = Place(len) /\ q = Power(W, NumWords)
  BY PlaceIs DEF Place
<1>2. NumWords - 1 \in Nat
  BY VliCallsAssumption
<1>3. PICK low \in Nat : low = Power(W, NumWords - 1)
  BY <1>2, PlaceIs DEF Place
<1>4. m \in low .. q - 1
  BY <1>1, <1>3, VliCallsAssumption
<1>5. m \in Nat /\ m < q
  BY <1>4
<1>6. mod \in Vli(len) /\ (m < Place(len) => Number(mod) = m)
  BY <1>5, WordsMake, Zenon
<1> QED
  BY <1>1, <1>5, <1>6, Zenon

\* Arithmetic modulo a number.
LEMMA ModularsAre ==
  ASSUME NEW m \in Moduli, NEW x \in 0 .. m - 1, NEW y \in 0 .. m - 1, Modular(x, y, m)
  PROVE  vli'.f = "modular" /\ ModularExact'
<1>1. PICK len \in Nat : len = NumWords /\ len > 0 /\ len < W
  BY VliCallsAssumption
<1>2. PICK a, b, mod : a = Words(x, len) /\ b = Words(y, len) /\ mod = Words(m, len)
  OBVIOUS
<1>3. /\ vli'.f = "modular" /\ vli'.x = x /\ vli'.y = y /\ vli'.m = m /\ vli'.sum = ecdsa_vli_modAdd(a, b, mod)
      /\ vli'.diff = ecdsa_vli_modSub(a, b, mod) /\ vli'.product = ecdsa_vli_modMult(a, b, mod)
      /\ vli'.square = ecdsa_vli_modSquare(a, mod)
  BY <1>1, <1>2 DEF Modular
<1>4. a \in Vli(len) /\ Number(a) = x /\ m \in Nat /\ m > 0 /\ x \in Nat
  BY <1>1, <1>2, ModulusFits
<1>5. b \in Vli(len) /\ Number(b) = y /\ y \in Nat
  BY <1>1, <1>2, ModulusFits
<1>6. mod \in Vli(len) /\ Number(mod) = m
  BY <1>1, <1>2, ModulusIs
<1>7. Number(a) < Number(mod) /\ Number(b) < Number(mod)
  BY <1>4, <1>5, <1>6
<1>8. Number(vli'.sum) = (x + y) % m
  <2>1. Number(vli'.sum) = (Number(a) + Number(b)) % Number(mod)
    BY <1>3, <1>4, <1>5, <1>6, <1>7, ModAddIs
  <2> QED
    BY <1>4, <1>5, <1>6, <2>1
<1>9. Number(vli'.diff) = (x - y) % m
  <2>1. Number(vli'.diff) = (Number(a) - Number(b)) % Number(mod)
    BY <1>3, <1>4, <1>5, <1>6, <1>7, ModSubIs
  <2> QED
    BY <1>4, <1>5, <1>6, <2>1
<1>10. Number(vli'.product) = (x * y) % m
  <2>1. PICK w : w = ecdsa_vli_mult(a, b)
    OBVIOUS
  <2>2. w \in Vli(2 * len) /\ Number(w) = Number(a) * Number(b)
    BY <1>1, <1>4, <1>5, <2>1, MultIs
  <2>3. vli'.product = ecdsa_vli_mmod(w, mod)
    BY <1>3, <2>1 DEF ecdsa_vli_modMult
  <2>4. Number(vli'.product) = Number(w) % Number(mod)
    BY <1>4, <1>6, <2>2, <2>3, Number(mod) > 0, MmodIs
  <2> QED
    BY <1>4, <1>5, <1>6, <2>2, <2>4
<1>11. Number(vli'.square) = (x * x) % m
  <2>1. PICK w : w = ecdsa_vli_square(a)
    OBVIOUS
  <2>2. w \in Vli(2 * len) /\ Number(w) = Number(a) * Number(a)
    BY <1>1, <1>4, <2>1, SquareIs
  <2>3. vli'.square = ecdsa_vli_mmod(w, mod)
    BY <1>3, <2>1 DEF ecdsa_vli_modSquare
  <2>4. Number(vli'.square) = Number(w) % Number(mod)
    BY <1>4, <1>6, <2>2, <2>3, Number(mod) > 0, MmodIs
  <2> QED
    BY <1>4, <1>6, <2>2, <2>4
<1> QED
  BY <1>3, <1>8, <1>9, <1>10, <1>11 DEF ModularExact

\* Inverses.
LEMMA InvertsAre ==
  ASSUME NEW m \in Moduli, NEW x \in 0 .. m - 1, Invert(x, m)
  PROVE  vli'.f = "invert" /\ InverseExact'
<1>1. PICK len \in Nat : len = NumWords /\ len > 0
  BY VliCallsAssumption
<1>2. PICK a, mod : a = Words(x, len) /\ mod = Words(m, len)
  OBVIOUS
<1>3. vli'.f = "invert" /\ vli'.x = x /\ vli'.m = m /\ vli'.inv = ecdsa_vli_modInv(a, mod)
  BY <1>1, <1>2 DEF Invert
<1>4. a \in Vli(len) /\ Number(a) = x /\ m \in Nat /\ x \in Nat
  BY <1>1, <1>2, ModulusFits
<1>5. mod \in Vli(len) /\ Number(mod) = m
  BY <1>1, <1>2, ModulusIs
<1>6. Number(a) < Number(mod) /\ Number(mod) % 2 = 1 /\ \A d \in 2 .. Number(mod) - 1 : Number(mod) % d # 0
  BY <1>4, <1>5, VliCallsAssumption
<1>7. PICK r : r = vli'.inv
  OBVIOUS
<1>8. r.ended /\ (Number(r.out) * Number(a)) % Number(mod) = Bit(Number(a) # 0)
  BY <1>1, <1>3, <1>4, <1>5, <1>6, <1>7, InvIs
<1>9. vli'.inv.ended
  BY <1>7, <1>8, Zenon
<1>10. (Number(vli'.inv.out) * x) % m = Bit(x # 0)
  BY <1>4, <1>5, <1>7, <1>8
<1>11. vli'.f = "invert" => vli'.inv.ended /\ (Number(vli'.inv.out) * vli'.x) % vli'.m = Bit(vli'.x # 0)
  BY <1>3, <1>9, <1>10, Zenon
<1> QED
  BY <1>3, <1>11, Zenon DEF InverseExact

\* The reduction for words of 32 bits.
LEMMA ReducesAre32 ==
  ASSUME NEW x \in Products32, Reduce32(x)
  PROVE  vli'.f = "reduce32" /\ FastReductionExact'
<1>1. PICK product, p : product = Words(x, 16) /\ p = Words(PrimeOf(W), 8)
  OBVIOUS
<1>2. vli'.f = "reduce32" /\ vli'.x = x /\ vli'.out = vli_mmod_fast_secp256r1_32(product, p)
  BY <1>1 DEF Reduce32
<1>3. product \in Vli(16) /\ Number(product) = x
  <2>1. x \in Nat /\ x < Place(8 + 8)
    BY 8 \in Nat, VliCallsAssumption, ProductFits
  <2>2. x < Place(16)
    BY <2>1
  <2> QED
    BY <1>1, <2>1, <2>2, 16 \in Nat, WordsMake
<1>4. p \in Vli(8) /\ Number(p) = PrimeOf(W)
  <2>1. PrimeOf(W) \in Nat /\ PrimeOf(W) < Place(8)
    BY WordIs, PrimeBounds DEF Place
  <2> QED
    BY <1>1, <2>1, 8 \in Nat, WordsMake
<1>5. Number(vli'.out) = x % PrimeOf(W)
  BY <1>2, <1>3, <1>4, Fast32Is
<1> QED
  BY <1>2, <1>5 DEF FastReductionExact

\* The reduction for words of 64 bits.
LEMMA ReducesAre64 ==
  ASSUME NEW x \in Products64, Reduce64(x)
  PROVE  vli'.f = "reduce64" /\ FastReductionExact'
<1>1. PICK product, p : product = Words(x, 8) /\ p = Words(PrimeOf(HalfW), 4)
  OBVIOUS
<1>2. vli'.f = "reduce64" /\ vli'.x = x /\ vli'.out = vli_mmod_fast_secp256r1_64(product, p)
  BY <1>1 DEF Reduce64
<1>3. WordBits % 2 = 0 /\ HalfW \in Nat /\ HalfW > 1
  BY VliCallsAssumption, HalfWordIs
<1>4. product \in Vli(8) /\ Number(product) = x
  <2>1. x \in Nat /\ x < Place(4 + 4)
    BY 4 \in Nat, VliCallsAssumption, ProductFits
  <2>2. x < Place(8)
    BY <2>1
  <2> QED
    BY <1>1, <2>1, <2>2, 8 \in Nat, WordsMake
<1>5. p \in Vli(4) /\ Number(p) = PrimeOf(HalfW)
  <2>1. PrimeOf(HalfW) \in Nat /\ PrimeOf(HalfW) < Place(4)
    BY <1>3, FourPlaces, PrimeBounds
  <2> QED
    BY <1>1, <2>1, 4 \in Nat, WordsMake
<1>6. Number(vli'.out) = x % PrimeOf(HalfW)
  BY <1>2, <1>3, <1>4, <1>5, Fast64Is
<1> QED
  BY <1>2, <1>6 DEF FastReductionExact

\* The state holds one call, and the other parts speak of other calls.
LEMMA OneCall ==
  /\ vli'.f = "sums" /\ SumsExact' => WordArithmeticExact'
  /\ vli'.f = "muladd" /\ MulAddExact' => WordArithmeticExact'
  /\ vli'.f = "mults" /\ MultsExact' => WordArithmeticExact'
  /\ vli'.f = "modular" /\ ModularExact' => WordArithmeticExact'
  /\ vli'.f = "invert" /\ InverseExact' => WordArithmeticExact'
  /\ vli'.f \in {"reduce32", "reduce64"} /\ FastReductionExact' => WordArithmeticExact'
<1>1. /\ vli'.f # "sums" => SumsExact'
      /\ vli'.f # "muladd" => MulAddExact'
      /\ vli'.f # "mults" => MultsExact'
      /\ vli'.f # "modular" => ModularExact'
      /\ vli'.f # "invert" => InverseExact'
      /\ vli'.f \notin {"reduce32", "reduce64"} => FastReductionExact'
  BY DEF SumsExact, MulAddExact, MultsExact, ModularExact, InverseExact, FastReductionExact
<1> QED
  BY <1>1 DEF WordArithmeticExact

\* Every function of the word arithmetic agrees with the integers, for every
\* even word size, number of words, odd prime modulus and product: the carries
\* of the sums, the three-word accumulator of the products, the shifts and
\* subtractions of ecdsa_vli_mmod, the binary inversion, which ends, and the
\* rows of vli_mmod_fast_secp256r1 in both word sizes.
THEOREM WordArithmeticHolds == VliSpec => []WordArithmeticExact
<1>1. VliInit => WordArithmeticExact
  <2> SUFFICES ASSUME VliInit
               PROVE  WordArithmeticExact
    OBVIOUS
  <2>1. vli.f = "none"
    BY DEF VliInit
  <2> QED
    BY <2>1 DEF WordArithmeticExact, SumsExact, MulAddExact, MultsExact, ModularExact, InverseExact, FastReductionExact
<1>2. WordArithmeticExact /\ [VliNext]_vli => WordArithmeticExact'
  <2> SUFFICES ASSUME WordArithmeticExact, [VliNext]_vli
               PROVE  WordArithmeticExact'
    OBVIOUS
  <2>1. ASSUME NEW x \in Vli(NumWords), NEW y \in Vli(NumWords), Sums(x, y)
        PROVE  WordArithmeticExact'
    BY <2>1, SumsAre, OneCall
  <2>2. ASSUME NEW x \in Vli(NumWords), NEW y \in Vli(NumWords), Mults(x, y)
        PROVE  WordArithmeticExact'
    BY <2>2, MultsAre, OneCall
  <2>3. ASSUME NEW a \in 0 .. W - 1, NEW b \in 0 .. W - 1, NEW r \in [1 .. 3 -> 0 .. W - 1], r[3] < W - 1, MulAdd(a, b, r)
        PROVE  WordArithmeticExact'
    BY <2>3, MulAddsAre, OneCall
  <2>4. ASSUME NEW m \in Moduli, NEW x \in 0 .. m - 1, Invert(x, m)
        PROVE  WordArithmeticExact'
    BY <2>4, InvertsAre, OneCall
  <2>5. ASSUME NEW m \in Moduli, NEW x \in 0 .. m - 1, NEW y \in 0 .. m - 1, Modular(x, y, m)
        PROVE  WordArithmeticExact'
    BY <2>5, ModularsAre, OneCall
  <2>6. ASSUME NEW x \in Products32, Reduce32(x)
        PROVE  WordArithmeticExact'
    BY <2>6, ReducesAre32, OneCall
  <2>7. ASSUME NEW x \in Products64, Reduce64(x)
        PROVE  WordArithmeticExact'
    BY <2>7, ReducesAre64, OneCall
  <2>8. CASE UNCHANGED vli
    BY <2>8 DEF WordArithmeticExact, SumsExact, MulAddExact, MultsExact, ModularExact, InverseExact, FastReductionExact
  <2> QED
    BY <2>1, <2>2, <2>3, <2>4, <2>5, <2>6, <2>7, <2>8 DEF VliNext
<1> QED
  BY <1>1, <1>2, PTL DEF VliSpec

-----------------------------------------------------------------------------
(* Remainders modulo curve_n.                                               *)

n == curve_n

LEMMA OrderIs == n \in Nat /\ n > 1
BY GroupAssumption DEF n

\* Adding a multiple does not change the remainder.
LEMMA RestOfSum ==
  ASSUME NEW q \in Int, NEW r \in Int
  PROVE  (n * q + r) % n = r % n
<1> USE OrderIs
<1> DEFINE a == r \div n
           b == r % n
<1>1. a \in Int /\ b \in 0 .. n - 1 /\ r = n * a + b
  BY QuotientRest
<1> HIDE DEF a, b
<1> DEFINE v == n * q + r
           c == q + a
<1>2. v = n * c + b /\ v \in Int /\ c \in Int
  BY <1>1
<1> HIDE DEF v, c
<1>3. v % n = b
  BY <1>1, <1>2, QuotientIs
<1> QED
  BY <1>3 DEF b, v

\* A factor may be reduced first.
LEMMA RestOfProduct ==
  ASSUME NEW x \in Int, NEW y \in Int
  PROVE  ((x % n) * y) % n = (x * y) % n
<1> USE OrderIs
<1> DEFINE a == x \div n
           b == x % n
<1>1. a \in Int /\ b \in 0 .. n - 1 /\ x = n * a + b
  BY QuotientRest
<1> HIDE DEF a, b
<1>2. x * y = n * (a * y) + b * y
  BY <1>1
<1>3. a * y \in Int /\ b * y \in Int
  BY <1>1
<1>4. (n * (a * y) + b * y) % n = (b * y) % n
  BY <1>3, RestOfSum
<1> QED
  BY <1>2, <1>4 DEF b

\* So may a summand.
LEMMA RestOfSummand ==
  ASSUME NEW x \in Int, NEW y \in Int
  PROVE  (x + (y % n)) % n = (x + y) % n
<1> USE OrderIs
<1> DEFINE a == y \div n
           b == y % n
<1>1. a \in Int /\ b \in 0 .. n - 1 /\ y = n * a + b
  BY QuotientRest
<1> HIDE DEF a, b
<1>2. x + y = n * a + (x + b) /\ x + b \in Int
  BY <1>1
<1>3. (n * a + (x + b)) % n = (x + b) % n
  BY <1>1, <1>2, RestOfSum
<1> QED
  BY <1>2, <1>3 DEF b

\* The inverse modulo n.
LEMMA InvNIs ==
  ASSUME NEW v \in 1 .. n - 1
  PROVE  InvN(v) \in 0 .. n - 1 /\ (v * InvN(v)) % n = 1
<1> USE OrderIs
<1> DEFINE I(w) == CHOOSE i \in Range0(n) : (w * i) % n = (IF w = n THEN 0 ELSE 1)
           F == [w \in 1 .. n |-> I(w)]
           S == {I(w) : w \in 1 .. n}
<1>1. I(v) \in 0 .. n - 1 /\ (v * I(v)) % n = 1
  <2>1. v # n
    OBVIOUS
  <2>2. \E i \in Range0(n) : (v * i) % n = 1
    BY GroupAssumption DEF n
  <2> QED
    BY <2>1, <2>2 DEF Range0
<1>2. F[v] = I(v)
  OBVIOUS
<1>3. F \in Seq(S) /\ InversesN = SubSeq(F, 1, n)
  <2>1. F \in [1 .. n -> S]
    OBVIOUS
  <2>2. F \in Seq(S)
    BY <2>1, SeqDef, ZenonT(60)
  <2> QED
    BY <2>2 DEF InversesN, Inverses, n
<1> HIDE DEF F, S, I
<1>4. Len(F) = n
  <2>1. DOMAIN F = 1 .. n
    BY DEF F
  <2>2. Len(F) \in Nat /\ DOMAIN F = 1 .. Len(F)
    BY <1>3, LenProperties
  <2> DEFINE l == Len(F)
  <2> HIDE DEF l
  <2>3. l \in Nat /\ 1 .. l = 1 .. n
    BY <2>1, <2>2 DEF l
  <2>4. n \in 1 .. n /\ (l > 0 => l \in 1 .. l)
    BY <2>3
  <2>5. n <= l /\ l <= n
    BY <2>3, <2>4
  <2> QED
    BY <2>3, <2>5 DEF l
<1>5. SubSeq(F, 1, n)[v] = F[v]
  BY <1>3, <1>4, SubSeqProperties
<1>6. v % n = v
  <2>1. v = n * 0 + v
    OBVIOUS
  <2> QED
    BY <2>1, QuotientIs
<1>7. InvN(v) = InversesN[v]
  BY <1>6 DEF InvN, n
<1> QED
  BY <1>1, <1>2, <1>3, <1>5, <1>7

\* A product of two numbers that are not zero is not zero.
LEMMA NoZeroDivisors ==
  ASSUME NEW a \in 1 .. n - 1, NEW b \in 1 .. n - 1
  PROVE  (a * b) % n \in 1 .. n - 1
<1> USE OrderIs
<1>1. PICK i \in 0 .. n - 1 : (a * i) % n = 1
  BY InvNIs
<1>2. a * b \in Int /\ a * i \in Int /\ i * b \in Int
  BY <1>1
<1>3. (a * b) % n \in 0 .. n - 1
  BY <1>2, QuotientRest
<1>4. ASSUME (a * b) % n = 0
      PROVE  FALSE
  <2> DEFINE x == a * b
             y == a * i
  <2>1. x \in Int /\ y \in Int /\ i \in Int /\ b \in Int /\ x % n = 0 /\ y % n = 1 /\ y * b = x * i
    BY <1>1, <1>2, <1>4
  <2> HIDE DEF x, y
  <2>2. ((x % n) * i) % n = (x * i) % n
    BY <1>1, <2>1, RestOfProduct
  <2>3. ((y % n) * b) % n = (y * b) % n
    BY <2>1, RestOfProduct
  <2>4. 0 * i = 0 /\ 1 * b = b /\ 0 % n = 0
    BY <1>1
  <2>5. b % n = 0
    BY <2>1, <2>2, <2>3, <2>4
  <2>6. b = n * 0 + b
    OBVIOUS
  <2>7. b % n = b
    BY <2>6, QuotientIs
  <2> QED
    BY <2>5, <2>7
<1> QED
  BY <1>3, <1>4

\* The blinding number cancels out.
LEMMA SignedIs ==
  ASSUME NEW d \in Int, NEW e \in Int, NEW r \in Int, NEW v \in 1 .. n - 1, NEW b \in 1 .. n - 1
  PROVE  (Signed(d, e, r, v, b) * v) % n = (e + r * d) % n
<1> USE OrderIs
<1> DEFINE vb == v * b
           w == vb % n
           i == InvN(w)
           ib == i * b
           inv == ib % n
           rd == r * d
           x == e + (rd % n)
           xi == x * inv
           wi == w * i
<1>1. Signed(d, e, r, v, b) = xi % n
  BY DEF Signed, n
<1>2. w \in 1 .. n - 1 /\ vb \in Int /\ rd \in Int /\ v \in Int /\ b \in Int /\ vb = v * b
  BY NoZeroDivisors
<1> HIDE DEF w
<1>3. i \in 0 .. n - 1 /\ wi % n = 1 /\ wi = w * i
  BY <1>2, InvNIs
<1> HIDE DEF i, wi
<1>4. ib \in Int /\ ib = i * b /\ wi \in Int
  BY <1>2, <1>3
<1> HIDE DEF ib, vb
<1>5. inv \in Int
  BY <1>4, QuotientRest
<1>6. x \in Int
  <2>1. rd % n \in Int
    BY <1>2, QuotientRest
  <2> QED
    BY <2>1
<1> HIDE DEF x
<1>7. xi \in Int /\ xi = x * inv
  BY <1>5, <1>6
<1> HIDE DEF xi
<1>8. ((xi % n) * v) % n = (xi * v) % n
  BY <1>2, <1>7, RestOfProduct
<1> DEFINE xv == x * v
<1>9. xv \in Int /\ xv = x * v /\ xi * v = inv * xv
  BY <1>2, <1>5, <1>6, <1>7
<1> HIDE DEF xv
<1>10. (inv * xv) % n = (ib * xv) % n
  BY <1>4, <1>9, RestOfProduct
<1> DEFINE ix == i * x
<1>11. ix \in Int /\ ix = i * x /\ ib * xv = vb * ix
  <2> HIDE DEF inv
  <2>1. i \in Int
    BY <1>3
  <2> QED
    BY <1>2, <1>4, <1>6, <1>9, <2>1
<1> HIDE DEF ix
<1>12. (w * ix) % n = (vb * ix) % n
  BY <1>2, <1>11, RestOfProduct DEF w
<1>13. w * ix = wi * x
  <2>1. w \in Int /\ i \in Int
    BY <1>2, <1>3
  <2> QED
    BY <1>3, <1>6, <1>11, <2>1
<1>14. ((wi % n) * x) % n = (wi * x) % n
  BY <1>4, <1>6, RestOfProduct
<1>15. 1 * x = x
  BY <1>6
<1>16. x % n = (e + rd) % n
  BY <1>2, RestOfSummand DEF x
<1> HIDE DEF inv, rd
<1>17. ((xi % n) * v) % n = (vb * ix) % n
  BY <1>8, <1>9, <1>10, <1>11
<1>18. (vb * ix) % n = x % n
  BY <1>3, <1>12, <1>13, <1>14, <1>15
<1> QED
  BY <1>1, <1>16, <1>17, <1>18 DEF rd

-----------------------------------------------------------------------------
(* The invariant.                                                           *)

\* The ladder multiplies the base point by all but three scalars, for which
\* it gives the zero point.
LadderRight ==
    \A d \in 1 .. curve_n - 1 :
        ecdsa_point_mult(curve_G, d) = IF d \in {1, curve_n - 2, curve_n - 1} THEN ZeroPoint ELSE Times(d)

\* A call asks for a random integer for as long as it runs; a client that
\* stores its key has signed nothing, and one that signs has a key and no
\* signature yet.
CallsInOrder ==
    /\ running \in {"none", "store", "verify"} => want = "none"
    /\ running = "store" => key # NoKey /\ nonce.k = 0
    /\ nonce.k = 0 => sig = NoSig
    /\ want \in {"k", "blind"} => sig = NoSig /\ key # NoKey
    /\ want = "private" => sig = NoSig
    /\ sig # NoSig => key # NoKey

\* The k that waits for its blinding number, and what is signed.
NonceRight ==
    /\ hash \in Int
    /\ want = "blind" => nonce.k \in 1 .. curve_n - 1 /\ nonce.r = Times(nonce.k)[1] /\ nonce.r # 0

EcdsaInv == CallsInOrder /\ NonceRight /\ MadeKeysRight /\ SignatureOfLastK /\ PublicHasPrivate

LEMMA InitInv == EcdsaInit => EcdsaInv
BY DEF EcdsaInit, EcdsaInv, CallsInOrder, NonceRight, MadeKeysRight, SignatureOfLastK, PublicHasPrivate, NoSig

\* The next round of a loop, or its end.
LEMMA AgainIs ==
  ASSUME NEW integer, Again(integer)
  PROVE  \/ want' = integer /\ running' = running
         \/ want' = "none" /\ running' = "none"
BY DEF Again, Ask, Return

LEMMA TimesIs ==
  ASSUME NEW k \in 1 .. curve_n - 1
  PROVE  Times(k)[1] \in Int /\ ecdsa_valid_point(Times(k))
<1>1. Times(k) \in Range0(curve_p) \X Range0(curve_p) /\ ecdsa_valid_point(Times(k))
  BY GroupAssumption
<1> QED
  BY <1>1 DEF Range0

\* A step that leaves keys, signatures and files alone keeps what is said of
\* them.
LEMMA Untouched ==
  ASSUME EcdsaInv, UNCHANGED <<key, hash, nonce, sig, files>>
  PROVE  /\ MadeKeysRight' /\ SignatureOfLastK' /\ PublicHasPrivate' /\ (hash \in Int)'
         /\ (nonce.k = 0 => sig = NoSig)' /\ (sig # NoSig => key # NoKey)'
BY DEF EcdsaInv, CallsInOrder, NonceRight, MadeKeysRight, SignatureOfLastK, PublicHasPrivate

LEMMA NextInv ==
  ASSUME LadderRight, EcdsaInv, [EcdsaNext]_ecdsaVars
  PROVE  EcdsaInv'
<1> USE DEF call, signing, sharing, store
<1>1. CallsInOrder /\ NonceRight /\ MadeKeysRight /\ SignatureOfLastK /\ PublicHasPrivate
  BY DEF EcdsaInv
\* Accepted integers, but for Z, are private keys or nonces.
<1>a. ASSUME NEW v \in Draws, Accepted(v), want # "Z"
      PROVE  v \in 1 .. curve_n - 1
  BY <1>a, DrawsAssumption, GroupAssumption DEF Accepted, Top
<1>2. CASE ecdsa_make_key
  <2>1. key = NoKey /\ want' = "private" /\ running' = "make_key" /\ UNCHANGED <<key, hash, nonce, sig, files>>
    BY <1>2 DEF ecdsa_make_key, Call
  <2>2. CallsInOrder' /\ NonceRight'
    BY <1>1, <2>1, Untouched DEF CallsInOrder, NonceRight
  <2> QED
    BY <2>1, <2>2, Untouched DEF EcdsaInv
<1>3. CASE ecdsa_sign
  <2>1. /\ key # NoKey /\ nonce.k = 0 /\ want' = "k" /\ running' = "sign"
        /\ UNCHANGED <<key, nonce, sig, files>>
    BY <1>3 DEF ecdsa_sign, Call, Made
  <2>2. hash' \in Int
    <3>1. PICK e \in Hashes \cup {key.Q[1]} : hash' = e
      BY <1>3 DEF ecdsa_sign
    <3>2. key.d \in 1 .. curve_n - 1 /\ key.Q = Times(key.d)
      BY <1>1, <2>1, GroupAssumption DEF MadeKeysRight
    <3> QED
      BY <3>1, <3>2, TimesIs, DrawsAssumption
  <2>3. sig = NoSig
    BY <1>1, <2>1 DEF CallsInOrder
  <2>4. CallsInOrder' /\ NonceRight' /\ SignatureOfLastK'
    BY <1>1, <2>1, <2>2, <2>3 DEF CallsInOrder, NonceRight, SignatureOfLastK
  <2>5. MadeKeysRight' /\ PublicHasPrivate'
    BY <1>1, <2>1 DEF MadeKeysRight, PublicHasPrivate
  <2> QED
    BY <2>4, <2>5 DEF EcdsaInv
<1>4. CASE ecdsa_shared_secret
  <2>1. want' = "Z" /\ running' = "shared_secret" /\ UNCHANGED <<key, hash, nonce, sig, files>>
    BY <1>4 DEF ecdsa_shared_secret, Call
  <2>2. CallsInOrder' /\ NonceRight'
    BY <1>1, <2>1, Untouched DEF CallsInOrder, NonceRight
  <2> QED
    BY <2>1, <2>2, Untouched DEF EcdsaInv
<1>5. CASE Redraw
  <2>1. UNCHANGED <<want, running, key, hash, nonce, sig, files>>
    BY <1>5 DEF Redraw
  <2>2. CallsInOrder' /\ NonceRight'
    BY <1>1, <2>1 DEF CallsInOrder, NonceRight
  <2> QED
    BY <2>1, <2>2, Untouched DEF EcdsaInv
<1>6. CASE NoRandom
  <2>1. UNCHANGED <<key, hash, nonce, sig, files>>
    BY <1>6 DEF NoRandom
  <2>2. \/ want = "blind" /\ want' = "k" /\ running' = running
        \/ want' = "none" /\ running' = "none"
    BY <1>6, AgainIs DEF NoRandom, Return
  <2>3. want # "none"
    BY <1>6 DEF NoRandom
  <2>4. CallsInOrder' /\ NonceRight'
    BY <1>1, <2>1, <2>2, <2>3 DEF CallsInOrder, NonceRight
  <2> QED
    BY <2>1, <2>4, Untouched DEF EcdsaInv
<1>7. CASE DrawnPrivate
  <2>1. want = "private" /\ UNCHANGED <<hash, nonce, sig, files>>
    BY <1>7 DEF DrawnPrivate
  <2>2. sig = NoSig /\ running \notin {"none", "store", "verify"}
    BY <1>1, <2>1 DEF CallsInOrder
  <2>3. PICK d \in Draws :
          /\ Accepted(d)
          /\ LET Q == EccPoint_compute_public_key(d)
             IN  IF Q = ZeroPoint THEN Again("private") /\ UNCHANGED key
                                  ELSE Return(1) /\ key' = [d |-> d, Q |-> Q]
    BY <1>7 DEF DrawnPrivate
  <2>4. \/ want' = "private" /\ running' = running
        \/ want' = "none" /\ running' = "none"
    BY <2>3, AgainIs DEF Return
  <2>5. MadeKeysRight'
    <3> DEFINE Q == EccPoint_compute_public_key(d)
    <3>1. CASE Q = ZeroPoint
      BY <1>1, <2>3, <3>1 DEF MadeKeysRight
    <3>2. CASE Q # ZeroPoint
      <4>1. key'.d = d /\ key'.Q = Q
        BY <2>3, <3>2
      <4>2. d \in 1 .. curve_n - 1
        BY <1>a, <2>1, <2>3
      <4>3. d \notin {1, curve_n - 2, curve_n - 1} /\ Q = Times(d)
        BY <3>2, <4>2 DEF LadderRight, EccPoint_compute_public_key
      <4>4. d \in 2 .. curve_n - 3
        BY <4>2, <4>3, GroupAssumption
      <4> QED
        BY <4>1, <4>2, <4>3, <4>4, TimesIs DEF MadeKeysRight
    <3> QED
      BY <3>1, <3>2
  <2>6. CallsInOrder' /\ NonceRight' /\ SignatureOfLastK' /\ PublicHasPrivate'
    BY <1>1, <2>1, <2>2, <2>4 DEF CallsInOrder, NonceRight, SignatureOfLastK, PublicHasPrivate
  <2> QED
    BY <2>5, <2>6 DEF EcdsaInv
<1>8. CASE DrawnK
  <2>1. want = "k" /\ UNCHANGED <<key, hash, sig, files>>
    BY <1>8 DEF DrawnK
  <2>2. sig = NoSig /\ key # NoKey /\ running \notin {"none", "store", "verify"}
    BY <1>1, <2>1 DEF CallsInOrder
  <2>3. PICK v \in Draws :
          /\ Accepted(v)
          /\ nonce' = [k |-> v, r |-> ecdsa_point_mult(curve_G, v)[1]]
          /\ IF ecdsa_point_mult(curve_G, v)[1] = 0 THEN Again("k") ELSE Ask("blind") /\ UNCHANGED tries
    BY <1>8 DEF DrawnK
  <2>4. v \in 1 .. curve_n - 1
    BY <1>a, <2>1, <2>3
  <2>5. nonce'.k = v /\ nonce'.r = ecdsa_point_mult(curve_G, v)[1]
    BY <2>3
  <2>6. \/ want' = "k" /\ running' = running
        \/ want' = "none" /\ running' = "none"
        \/ nonce'.r # 0 /\ want' = "blind" /\ running' = running
    BY <2>3, <2>5, AgainIs DEF Ask
  <2>7. nonce'.r # 0 => nonce'.r = Times(v)[1]
    BY <2>4, <2>5 DEF LadderRight, ZeroPoint
  <2>8. NonceRight'
    BY <1>1, <2>1, <2>4, <2>5, <2>6, <2>7 DEF NonceRight
  <2>9. CallsInOrder'
    BY <1>1, <2>1, <2>2, <2>6 DEF CallsInOrder
  <2>10. MadeKeysRight' /\ SignatureOfLastK' /\ PublicHasPrivate'
    BY <1>1, <2>1, <2>2 DEF MadeKeysRight, SignatureOfLastK, PublicHasPrivate
  <2> QED
    BY <2>8, <2>9, <2>10 DEF EcdsaInv
<1>9. CASE DrawnBlind
  <2>1. want = "blind" /\ want' = "none" /\ running' = "none" /\ UNCHANGED <<key, hash, nonce, files>>
    BY <1>9 DEF DrawnBlind, Return
  <2>2. key # NoKey /\ nonce.k \in 1 .. curve_n - 1 /\ nonce.r = Times(nonce.k)[1] /\ nonce.r # 0 /\ hash \in Int
    BY <1>1, <2>1 DEF CallsInOrder, NonceRight
  <2>3. PICK b \in Draws : /\ Accepted(b)
                           /\ sig' = [r |-> nonce.r, s |-> Signed(key.d, hash, nonce.r, nonce.k, b)]
    BY <1>9 DEF DrawnBlind
  <2>4. b \in 1 .. curve_n - 1
    BY <1>a, <2>1, <2>3
  <2>5. key.d \in Int /\ nonce.r \in Int
    BY <1>1, <2>2, TimesIs DEF MadeKeysRight
  <2>6. (Signed(key.d, hash, nonce.r, nonce.k, b) * nonce.k) % curve_n = (hash + nonce.r * key.d) % curve_n
    BY <2>2, <2>4, <2>5, SignedIs, ZenonT(60) DEF n
  <2>7. sig'.r = nonce.r /\ sig'.s = Signed(key.d, hash, nonce.r, nonce.k, b)
    BY <2>3
  <2>8. SignatureOfLastK'
    BY <2>1, <2>2, <2>6, <2>7 DEF SignatureOfLastK
  <2>9. CallsInOrder' /\ NonceRight'
    BY <1>1, <2>1, <2>2 DEF CallsInOrder, NonceRight
  <2>10. MadeKeysRight' /\ PublicHasPrivate'
    BY <1>1, <2>1 DEF MadeKeysRight, PublicHasPrivate
  <2> QED
    BY <2>8, <2>9, <2>10 DEF EcdsaInv
<1>10. CASE DrawnZ
  <2>1. want' = "none" /\ running' = "none" /\ UNCHANGED <<key, hash, nonce, sig, files>>
    BY <1>10 DEF DrawnZ, Return
  <2>2. CallsInOrder' /\ NonceRight'
    BY <1>1, <2>1 DEF CallsInOrder, NonceRight
  <2> QED
    BY <2>1, <2>2, Untouched DEF EcdsaInv
<1>11. CASE VerifySigned
  <2>1. running = "none" /\ running' = "verify" /\ UNCHANGED <<want, key, hash, nonce, sig, files>>
    BY <1>11 DEF VerifySigned
  <2>2. CallsInOrder' /\ NonceRight'
    BY <1>1, <2>1 DEF CallsInOrder, NonceRight
  <2> QED
    BY <2>1, <2>2, Untouched DEF EcdsaInv
<1>12. CASE io_store_key
  <2>1. /\ running = "none" /\ key # NoKey /\ nonce.k = 0 /\ running' = "store"
        /\ UNCHANGED <<want, key, hash, nonce, sig, files>>
    BY <1>12 DEF io_store_key
  <2>2. CallsInOrder' /\ NonceRight'
    BY <1>1, <2>1 DEF CallsInOrder, NonceRight
  <2> QED
    BY <2>1, <2>2, Untouched DEF EcdsaInv
<1>13. CASE StoreFile
  <2>1. running = "store" /\ files' = WriteFile /\ UNCHANGED <<running, want, key, hash, nonce, sig>>
    BY <1>13 DEF StoreFile
  <2>2. key.Q = Times(key.d)
    BY <1>1, <2>1 DEF CallsInOrder, MadeKeysRight
  <2>3. Private.kind = "private" /\ Private.Q = key.Q /\ Private.d = key.d /\ Public.kind = "public" /\ Public.Q = key.Q
    BY DEF Private, Public
  <2>4. \/ Private \in files /\ files' = files \cup {Public}
        \/ files' = files \cup {Private}
    BY <2>1 DEF WriteFile
  <2> HIDE DEF call, signing, sharing, store
  <2>5. PublicHasPrivate'
    <3> SUFFICES ASSUME NEW f \in files', f.kind = "public"
                 PROVE  \E g \in files' : g.kind = "private" /\ g.Q = f.Q /\ Times(g.d) = f.Q
      BY DEF PublicHasPrivate
    <3>1. files \subseteq files'
      BY <2>4
    <3>2. CASE f \in files
      BY <1>1, <3>1, <3>2 DEF PublicHasPrivate
    <3>3. CASE f \notin files
      <4>1. f = Public /\ Private \in files
        BY <2>3, <2>4, <3>3
      <4> QED
        BY <2>2, <2>3, <3>1, <4>1
    <3> QED
      BY <3>2, <3>3
  <2>6. CallsInOrder' /\ NonceRight' /\ MadeKeysRight' /\ SignatureOfLastK'
    BY <1>1, <2>1 DEF CallsInOrder, NonceRight, MadeKeysRight, SignatureOfLastK
  <2> QED
    BY <2>5, <2>6 DEF EcdsaInv
<1>14. CASE ClientEnds
  <2>1. /\ running = "store" /\ running' = "none" /\ key' = NoKey
        /\ UNCHANGED <<want, hash, nonce, sig, files>>
    BY <1>14 DEF ClientEnds
  <2>2. want = "none" /\ sig = NoSig
    BY <1>1, <2>1 DEF CallsInOrder
  <2>3. CallsInOrder' /\ NonceRight' /\ MadeKeysRight' /\ SignatureOfLastK' /\ PublicHasPrivate'
    BY <1>1, <2>1, <2>2 DEF CallsInOrder, NonceRight, MadeKeysRight, SignatureOfLastK, PublicHasPrivate
  <2> QED
    BY <2>3 DEF EcdsaInv
<1>15. CASE Pure \/ UNCHANGED ecdsaVars
  <2>1. UNCHANGED <<running, want, key, hash, nonce, sig, files>>
    BY <1>15 DEF Pure, ecdsaVars
  <2>2. CallsInOrder' /\ NonceRight'
    BY <1>1, <2>1 DEF CallsInOrder, NonceRight
  <2> QED
    BY <2>1, <2>2, Untouched DEF EcdsaInv
<1> QED
  BY <1>2, <1>3, <1>4, <1>5, <1>6, <1>7, <1>8, <1>9, <1>10, <1>11, <1>12, <1>13, <1>14, <1>15 DEF EcdsaNext, Drawn

LEMMA InvAlways == LadderRight /\ EcdsaSpec => []EcdsaInv
<1>1. LadderRight /\ EcdsaInit => EcdsaInv
  BY InitInv
<1>2. LadderRight /\ EcdsaInv /\ [EcdsaNext]_ecdsaVars => EcdsaInv'
  BY NextInv
<1>3. LadderRight => []LadderRight
  OBVIOUS
<1> QED
  BY <1>1, <1>2, <1>3, PTL DEF EcdsaSpec

(* However the client dies while io_store_key writes, a public key on disk  *)
(* has its private key beside it.                                           *)
THEOREM PublicAlwaysHasPrivate == LadderRight /\ EcdsaSpec => []PublicHasPrivate
<1>1. EcdsaInv => PublicHasPrivate
  BY DEF EcdsaInv
<1> QED
  BY <1>1, InvAlways, PTL

(* A key pair that ecdsa_make_key hands out belongs together and has a      *)
(* private key that later products can be computed with, whatever numbers   *)
(* were drawn before it.                                                    *)
THEOREM KeysAlwaysRight == LadderRight /\ EcdsaSpec => []MadeKeysRight
<1>1. EcdsaInv => MadeKeysRight
  BY DEF EcdsaInv
<1> QED
  BY <1>1, InvAlways, PTL

(* A signature of ecdsa_sign satisfies the equation of ECDSA for the last k *)
(* that was drawn, whatever blinding number was drawn after it and however  *)
(* often either was drawn again.                                            *)
THEOREM SignaturesAlwaysRight == LadderRight /\ EcdsaSpec => []SignatureOfLastK
<1>1. EcdsaInv => SignatureOfLastK
  BY DEF EcdsaInv
<1> QED
  BY <1>1, InvAlways, PTL
=============================================================================
