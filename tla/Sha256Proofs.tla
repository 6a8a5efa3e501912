---------------------------- MODULE Sha256Proofs ----------------------------
(***************************************************************************)
(* Sha256 digests the padded message, for every size of block and word,    *)
(* every message and whatever the context held before.                     *)
(***************************************************************************)
EXTENDS Sha256, TLAPS

(* Facts about the sizes.                                                  *)
LEMMA Sizes ==
    /\ Block \in Nat /\ LenWord \in Nat /\ LenWord > 0 /\ Block > 2 * LenWord
    /\ Modulus \in Nat /\ Modulus >= 256 /\ Modulus > 8 * Block
    /\ LenPos \in Nat /\ LenPos > 0 /\ LenPos + 2 * LenWord = Block
    /\ \A k \in 0 .. LenWord : 256 ^ k \in Nat /\ 256 ^ k > 0
BY StreamAssumption, PowersAssumption DEF Modulus, LenPos

(* Division with remainder, for a divisor that is not a literal.           *)
LEMMA DivMod ==
    ASSUME NEW n \in Nat, n > 0, NEW x \in Int
    PROVE  \E q \in Int, r \in 0 .. n - 1 :
             x \div n = q /\ x % n = r /\ x = q * n + r
<1>1. x \div n \in Int BY SMT
<1>2. x % n = x - n * (x \div n) BY SMT
<1>3. n * (x \div n) <= x /\ x < n * (x \div n) + n BY SMT
<1> DEFINE q == x \div n
           r == x % n
<1>4. q \in Int /\ r = x - n * q /\ n * q <= x /\ x < n * q + n
  BY <1>1, <1>2, <1>3
<1>5. x \div n = q /\ x % n = r OBVIOUS
<1> HIDE DEF q, r
<1>6. r \in 0 .. n - 1 /\ x = q * n + r BY <1>4, SMT
<1> QED BY <1>4, <1>5, <1>6, Zenon

(* Division with remainder is unique.                                      *)
LEMMA DivModUnique ==
    ASSUME NEW n \in Nat, n > 0, NEW q \in Int, NEW r \in 0 .. n - 1
    PROVE  /\ (q * n + r) % n = r
           /\ (q * n + r) \div n = q
<1> DEFINE x == q * n + r
<1>1. x \in Int BY SMT
<1> HIDE DEF x
<1>2. PICK p \in Int, s \in 0 .. n - 1 : x \div n = p /\ x % n = s /\ x = p * n + s
  BY <1>1, DivMod
<1>3. p * n + s = q * n + r BY <1>2 DEF x
<1> DEFINE k == q - p
<1>4. k \in Int /\ k * n = s - r
  <2>1. k * n = q * n - p * n BY SMT
  <2> QED BY <1>3, <2>1, SMT
<1>5. k < 1
  <2> SUFFICES ASSUME k >= 1 PROVE FALSE BY <1>4, SMT
  <2>1. k * n >= n BY <1>4, SMT
  <2> QED BY <1>4, <2>1, SMT
<1>6. k > -1
  <2> SUFFICES ASSUME k <= -1 PROVE FALSE BY <1>4, SMT
  <2>1. k * n <= -n BY <1>4, SMT
  <2> QED BY <1>4, <2>1, SMT
<1>7. p = q /\ s = r BY <1>4, <1>5, <1>6, SMT
<1> QED BY <1>2, <1>7, Zenon DEF x

(* DBL_INT_ADD adds: the carry goes from the low word to the high one.     *)
LEMMA AddCarries ==
    ASSUME NEW bits \in Nat, NEW c \in Nat, c < Modulus
    PROVE  DBL_INT_ADD(LengthWords(bits), c) = LengthWords(bits + c)
<1> DEFINE m == Modulus
<1>0. m \in Nat /\ m > 0 /\ c < m BY Sizes
<1> HIDE DEF m
<1>1. PICK q \in Int, lo \in 0 .. m - 1 : bits \div m = q /\ bits % m = lo /\ bits = q * m + lo
  BY <1>0, DivMod
<1>n. LengthWords(bits)[0] = lo /\ LengthWords(bits)[1] = q % m
  BY <1>1 DEF LengthWords, m
<1>2. /\ q % m \in 0 .. m - 1
      /\ ((q % m) + 1) % m = (q + 1) % m
  <2>1. PICK p \in Int, hi \in 0 .. m - 1 : q \div m = p /\ q % m = hi /\ q = p * m + hi
    BY <1>0, <1>1, DivMod
  <2>2. CASE hi + 1 < m
    <3>1. (0 * m + (hi + 1)) % m = hi + 1
      BY <1>0, <2>1, <2>2, DivModUnique
    <3>2. (p * m + (hi + 1)) % m = hi + 1
      BY <1>0, <2>1, <2>2, DivModUnique
    <3>3. 0 * m + (hi + 1) = hi + 1 BY <1>0, <2>1, SMT
    <3>4. p * m + (hi + 1) = q + 1 BY <1>0, <2>1, SMT
    <3> QED BY <2>1, <3>1, <3>2, <3>3, <3>4
  <2>3. CASE hi + 1 = m
    <3>1. (1 * m + 0) % m = 0
      BY <1>0, DivModUnique
    <3>2. ((p + 1) * m + 0) % m = 0
      BY <1>0, <2>1, DivModUnique
    <3>3. 1 * m + 0 = hi + 1 BY <1>0, <2>1, <2>3, SMT
    <3>4. (p + 1) * m + 0 = q + 1 BY <1>0, <2>1, <2>3, SMT
    <3> QED BY <2>1, <3>1, <3>2, <3>3, <3>4
  <2> QED BY <1>0, <2>1, <2>2, <2>3
<1>3. CASE lo + c < m
  <2>1. (q * m + (lo + c)) % m = lo + c /\ (q * m + (lo + c)) \div m = q
    BY <1>0, <1>1, <1>3, DivModUnique
  <2>2. (0 * m + (lo + c)) % m = lo + c
    BY <1>0, <1>1, <1>3, DivModUnique
  <2>3. q * m + (lo + c) = bits + c /\ 0 * m + (lo + c) = lo + c
    BY <1>0, <1>1, SMT
  <2>4. ~(lo > (m - 1) - c) BY <1>0, <1>1, <1>3, SMT
  <2>5. (lo + c) % m = (bits + c) % m BY <2>1, <2>2, <2>3
  <2>6. q = (bits + c) \div m BY <2>1, <2>3
  <2> QED BY <1>n, <2>4, <2>5, <2>6 DEF DBL_INT_ADD, LengthWords, m
<1>4. CASE lo + c >= m
  <2>1. ((q + 1) * m + (lo + c - m)) % m = lo + c - m
     /\ ((q + 1) * m + (lo + c - m)) \div m = q + 1
    BY <1>0, <1>1, <1>4, DivModUnique
  <2>2. (1 * m + (lo + c - m)) % m = lo + c - m
    BY <1>0, <1>1, <1>4, DivModUnique
  <2>3. (q + 1) * m + (lo + c - m) = bits + c /\ 1 * m + (lo + c - m) = lo + c
    BY <1>0, <1>1, SMT
  <2>4. lo > (m - 1) - c BY <1>0, <1>1, <1>4, SMT
  <2>5. (lo + c) % m = (bits + c) % m BY <2>1, <2>2, <2>3
  <2>6. ((q % m) + 1) % m = ((bits + c) \div m) % m BY <1>2, <2>1, <2>3
  <2> QED BY <1>n, <2>4, <2>5, <2>6 DEF DBL_INT_ADD, LengthWords, m
<1> QED BY <1>0, <1>1, <1>3, <1>4

(* The number of zeros in the padding of a message of `blocks' whole       *)
(* blocks and `rest' further bytes.                                        *)
LEMMA ZerosOf ==
    ASSUME NEW blocks \in Nat, NEW rest \in 0 .. Block - 1
    PROVE  Zeros(blocks * Block + rest) =
             IF rest < LenPos THEN LenPos - 1 - rest ELSE Block + LenPos - 1 - rest
<1>1. CASE rest < LenPos
  <2> DEFINE q == -blocks
             r == LenPos - 1 - rest
  <2>0. q \in Int /\ r \in 0 .. Block - 1 /\ Block \in Nat /\ Block > 0 BY <1>1, Sizes
  <2>1. (q * Block + r) % Block = r
    <3> HIDE DEF q, r
    <3> QED BY <2>0, DivModUnique
  <2>2. (-blocks) * Block + (LenPos - 1 - rest) = LenPos - 1 - (blocks * Block + rest)
    BY Sizes, SMT
  <2> QED BY <1>1, <2>1, <2>2 DEF Zeros
<1>2. CASE rest >= LenPos
  <2> DEFINE q == -blocks - 1
             r == Block + LenPos - 1 - rest
  <2>0. q \in Int /\ r \in 0 .. Block - 1 /\ Block \in Nat /\ Block > 0 BY <1>2, Sizes
  <2>1. (q * Block + r) % Block = r
    <3> HIDE DEF q, r
    <3> QED BY <2>0, DivModUnique
  <2>2. (-blocks - 1) * Block + (Block + LenPos - 1 - rest) = LenPos - 1 - (blocks * Block + rest)
    BY Sizes, SMT
  <2> QED BY <1>2, Sizes, <2>1, <2>2 DEF Zeros
<1> QED BY <1>1, <1>2, Sizes
-----------------------------------------------------------------------------
(* The inductive invariant.  TypeOK and NothingLost are not enough: the    *)
(* padding is right only because `fed' is a whole number of blocks.        *)
WholeBlocks == stage = "open" => \E n \in Nat : Len(fed) = n * Block

IInv == TypeOK /\ NothingLost /\ WholeBlocks /\ DigestOfPaddedMessage

LEMMA LengthByteType ==
    ASSUME NEW words \in [{0, 1} -> 0 .. Modulus - 1], NEW j \in LenPos .. Block - 1
    PROVE  LengthByte(words, j) \in Byte
<1> DEFINE back == (Block - 1) - j
<1>1. back \in 0 .. 2 * LenWord - 1 BY Sizes
<1>2. ASSUME NEW w \in Nat, NEW d \in Nat, d > 0 PROVE (w \div d) % 256 \in 0 .. 255
  <2>1. w \div d \in Int BY <1>2, DivMod
  <2> QED BY <2>1, SMT
<1>3. words[0] \in Nat /\ words[1] \in Nat BY Sizes
<1>4. CASE back < LenWord
  <2>1. 256 ^ back \in Nat /\ 256 ^ back > 0 BY <1>1, <1>4, Sizes
  <2>2. (words[0] \div 256 ^ back) % 256 \in 0 .. 255 BY <1>2, <1>3, <2>1
  <2> QED BY <1>4, <2>2 DEF LengthByte, Byte
<1>5. CASE ~(back < LenWord)
  <2>1. 256 ^ (back - LenWord) \in Nat /\ 256 ^ (back - LenWord) > 0 BY <1>1, <1>5, Sizes
  <2>2. (words[1] \div 256 ^ (back - LenWord)) % 256 \in 0 .. 255 BY <1>2, <1>3, <2>1
  <2> QED BY <1>5, <2>2 DEF LengthByte, Byte
<1> QED BY <1>4, <1>5

LEMMA AddType ==
    ASSUME NEW words \in [{0, 1} -> 0 .. Modulus - 1], NEW c \in Nat
    PROVE  DBL_INT_ADD(words, c) \in [{0, 1} -> 0 .. Modulus - 1]
<1>1. Modulus \in Nat /\ Modulus > 0 BY Sizes
<1>2. (words[0] + c) % Modulus \in 0 .. Modulus - 1 BY <1>1, DivMod
<1>3. (words[1] + 1) % Modulus \in 0 .. Modulus - 1 BY <1>1, DivMod
<1> QED BY <1>2, <1>3 DEF DBL_INT_ADD

(* Concatenation, element by element.                                      *)
LEMMA Concat ==
    ASSUME NEW s \in Seq(Byte), NEW t \in Seq(Byte)
    PROVE  /\ s \o t \in Seq(Byte)
           /\ Len(s \o t) = Len(s) + Len(t)
           /\ \A i \in 1 .. Len(s) : (s \o t)[i] = s[i]
           /\ \A i \in 1 .. Len(t) : (s \o t)[Len(s) + i] = t[i]
<1>1. s \o t \in Seq(Byte) OBVIOUS
<1>2. Len(s \o t) = Len(s) + Len(t) OBVIOUS
<1>3. \A i \in 1 .. Len(s) : (s \o t)[i] = s[i] OBVIOUS
<1>4. \A i \in 1 .. Len(t) : (s \o t)[Len(s) + i] = t[i] OBVIOUS
<1> QED BY <1>1, <1>2, <1>3, <1>4

(* Sequences of one length that agree everywhere are equal.                *)
LEMMA SameElements ==
    ASSUME NEW s \in Seq(Byte), NEW t \in Seq(Byte), Len(s) = Len(t),
           \A i \in 1 .. Len(s) : s[i] = t[i]
    PROVE  s = t
OBVIOUS

(* Transform appends one block.                                            *)
LEMMA TransformAppends ==
    ASSUME NEW s \in Seq(Byte), NEW b \in [0 .. Block - 1 -> Byte]
    PROVE  /\ Transform(s, b) \in Seq(Byte)
           /\ Len(Transform(s, b)) = Len(s) + Block
           /\ \A i \in 1 .. Len(s) : Transform(s, b)[i] = s[i]
           /\ \A i \in 1 .. Block : Transform(s, b)[Len(s) + i] = b[i - 1]
<1>1. Bytes(b) \in Seq(Byte) /\ Len(Bytes(b)) = Block
  BY Sizes DEF Bytes
<1>2. \A i \in 1 .. Block : Bytes(b)[i] = b[i - 1]
  BY DEF Bytes
<1> DEFINE t == Bytes(b)
<1>3. Transform(s, b) = s \o t BY DEF Transform
<1>4. t \in Seq(Byte) /\ Len(t) = Block /\ Len(s) \in Nat BY <1>1
<1> HIDE DEF t
<1>5. /\ s \o t \in Seq(Byte) /\ Len(s \o t) = Len(s) + Block
      /\ \A i \in 1 .. Len(s) : (s \o t)[i] = s[i]
      /\ \A i \in 1 .. Block : (s \o t)[Len(s) + i] = t[i]
  BY <1>4, Concat
<1> QED BY <1>2, <1>3, <1>5 DEF t

LEMMA Initially == Init => IInv
<1> SUFFICES ASSUME Init PROVE IInv OBVIOUS
<1>1. Stale \subseteq 0 .. 255 BY StreamAssumption DEF Byte
<1>2. bitlen \in [{0, 1} -> 0 .. Modulus - 1]
  <2>1. Stale \subseteq 0 .. Modulus - 1 BY <1>1, Sizes
  <2> QED BY <2>1 DEF Init
<1>3. data \in [0 .. Block - 1 -> Byte] /\ datalen \in Byte BY <1>1 DEF Init, Byte
<1>4. fed \in Seq(Byte) /\ message \in Messages \cup {<< >>} /\ pos \in 0 .. Len(message)
  BY DEF Init
<1>5. datalen \in Nat BY <1>3 DEF Byte
<1>6. TypeOK BY <1>2, <1>3, <1>4, <1>5 DEF Init, TypeOK
<1> QED BY <1>6 DEF Init, IInv, NothingLost, WholeBlocks, DigestOfPaddedMessage

LEMMA InitStep ==
    ASSUME IInv, NEW m \in Messages, sha256_init(m)
    PROVE  IInv'
<1> USE DEF sha256_init
<1>0. TypeOK BY DEF IInv
<1>1. m \in Seq(Byte) BY StreamAssumption
<1>2. LengthWords(0) = [w \in {0, 1} |-> 0]
  <2>1. Modulus \in Nat /\ Modulus > 0 BY Sizes
  <2>2. (0 * Modulus + 0) % Modulus = 0 /\ (0 * Modulus + 0) \div Modulus = 0
    BY <2>1, DivModUnique
  <2>3. 0 * Modulus + 0 = 0 BY <2>1
  <2>4. 0 % Modulus = 0 /\ (0 \div Modulus) % Modulus = 0 BY <2>2, <2>3
  <2> QED BY <2>4 DEF LengthWords
<1>3. TypeOK' BY <1>0, <1>1, Sizes DEF TypeOK, Byte
<1>4. NothingLost'
  <2>1. SubSeq(m, 1, 0) = << >> BY <1>1
  <2>2. << >> \o [i \in 1 .. 0 |-> data[i - 1]] = << >> OBVIOUS
  <2>3. 8 * Len(<< >>) = 0 OBVIOUS
  <2> QED BY <1>2, <2>1, <2>2, <2>3 DEF NothingLost
<1>5. WholeBlocks'
  <2>1. Len(<< >>) = 0 * Block BY Sizes
  <2> QED BY <2>1 DEF WholeBlocks
<1> QED BY <1>3, <1>4, <1>5 DEF IInv, DigestOfPaddedMessage

LEMMA UpdateStep ==
    ASSUME IInv, sha256_update
    PROVE  IInv'
<1> DEFINE kept == [i \in 1 .. datalen |-> data[i - 1]]
           m == message
<1>a. /\ stage = "open" /\ stage' = stage /\ message' = message
      /\ pos < Len(message) /\ pos' = pos + 1
      /\ data' = [data EXCEPT ![datalen] = message[pos + 1]]
  BY DEF sha256_update
<1>b. datalen + 1 # Block => fed' = fed /\ bitlen' = bitlen /\ datalen' = datalen + 1
  BY DEF sha256_update
<1>c. datalen + 1 = Block =>
        /\ fed' = Transform(fed, data') /\ datalen' = 0
        /\ bitlen' = DBL_INT_ADD(bitlen, 8 * Block)
  BY DEF sha256_update
<1>0. TypeOK /\ NothingLost /\ WholeBlocks BY DEF IInv
<1>1. /\ m \in Seq(Byte) /\ pos \in 0 .. Len(m) - 1 /\ Len(m) \in Nat
      /\ datalen \in 0 .. Block - 1 /\ fed \in Seq(Byte) /\ Len(fed) \in Nat
      /\ data \in [0 .. Block - 1 -> Byte] /\ Block \in Nat /\ Block > 0
  BY <1>0, <1>a, StreamAssumption, Sizes DEF TypeOK, Byte
<1>2. m[pos + 1] \in Byte BY <1>1
<1>3. data' \in [0 .. Block - 1 -> Byte] BY <1>a, <1>1, <1>2
<1>4. /\ SubSeq(m, 1, pos) = fed \o kept
      /\ bitlen = LengthWords(8 * Len(fed))
  BY <1>0, <1>a DEF NothingLost
<1>5. kept \in Seq(Byte) /\ Len(kept) = datalen BY <1>1
<1>6. /\ pos = Len(fed) + datalen
      /\ \A i \in 1 .. Len(fed) : m[i] = fed[i]
      /\ \A i \in 1 .. datalen : m[Len(fed) + i] = data[i - 1]
  <2>1. Len(SubSeq(m, 1, pos)) = pos BY <1>1
  <2>2. \A i \in 1 .. pos : SubSeq(m, 1, pos)[i] = m[i] BY <1>1
  <2>3. \A i \in 1 .. datalen : kept[i] = data[i - 1] OBVIOUS
  <2> HIDE DEF kept, m
  <2>4. /\ Len(fed \o kept) = Len(fed) + datalen
        /\ \A i \in 1 .. Len(fed) : (fed \o kept)[i] = fed[i]
        /\ \A i \in 1 .. datalen : (fed \o kept)[Len(fed) + i] = kept[i]
    BY <1>1, <1>5, Concat
  <2>5. pos = Len(fed) + datalen BY <1>4, <2>1, <2>4
  <2>6. ASSUME NEW i \in 1 .. Len(fed) PROVE m[i] = fed[i]
    <3>1. i \in 1 .. pos BY <1>1, <2>5
    <3> QED BY <1>4, <2>2, <2>4, <3>1
  <2>7. ASSUME NEW i \in 1 .. datalen PROVE m[Len(fed) + i] = data[i - 1]
    <3>1. Len(fed) + i \in 1 .. pos BY <1>1, <2>5
    <3> QED BY <1>4, <2>2, <2>3, <2>4, <3>1
  <2> QED BY <2>5, <2>6, <2>7
<1>7. CASE datalen + 1 # Block
  <2>1. fed' = fed /\ bitlen' = bitlen /\ datalen' = datalen + 1 BY <1>b, <1>7
  <2>2. TypeOK'
    <3>1. datalen' \in Nat /\ datalen' < Block
      BY <1>1, <1>7, <2>1
    <3>2. pos' \in 0 .. Len(message') BY <1>a, <1>1
    <3> QED BY <1>0, <1>a, <1>3, <2>1, <3>1, <3>2 DEF TypeOK
  <2> DEFINE more == [i \in 1 .. datalen' |-> data'[i - 1]]
  <2>3. SubSeq(m, 1, pos + 1) = fed \o more
    <3>0. ASSUME NEW i \in 1 .. datalen + 1 PROVE data'[i - 1] \in Byte
      BY <1>1, <1>3, <1>7
    <3>1. more \in Seq(Byte) /\ Len(more) = datalen + 1
      BY <1>1, <2>1, <3>0
    <3>2. \A i \in 1 .. datalen + 1 : more[i] = m[Len(fed) + i]
      BY <1>a, <1>1, <1>6, <1>7, <2>1
    <3> HIDE DEF more, m
    <3>3. /\ fed \o more \in Seq(Byte)
          /\ Len(fed \o more) = pos + 1
          /\ \A i \in 1 .. Len(fed) : (fed \o more)[i] = m[i]
          /\ \A i \in 1 .. datalen + 1 : (fed \o more)[Len(fed) + i] = m[Len(fed) + i]
      <4>1. /\ fed \o more \in Seq(Byte)
            /\ Len(fed \o more) = Len(fed) + Len(more)
            /\ \A i \in 1 .. Len(fed) : (fed \o more)[i] = fed[i]
            /\ \A i \in 1 .. Len(more) : (fed \o more)[Len(fed) + i] = more[i]
        BY <1>1, <3>1, Concat
      <4>2. Len(fed \o more) = pos + 1 BY <1>1, <1>6, <3>1, <4>1
      <4> QED BY <1>6, <3>1, <3>2, <4>1, <4>2
    <3>4. ASSUME NEW i \in 1 .. pos + 1 PROVE (fed \o more)[i] = m[i]
      <4>1. CASE i <= Len(fed) BY <1>1, <3>3, <4>1
      <4>2. CASE ~(i <= Len(fed))
        <5> DEFINE k == i - Len(fed)
        <5>1. k \in 1 .. datalen + 1 /\ i = Len(fed) + k BY <1>1, <1>6, <4>2
        <5> HIDE DEF k
        <5> QED BY <3>3, <5>1
      <4> QED BY <4>1, <4>2, Zenon
    <3>5. /\ SubSeq(m, 1, pos + 1) \in Seq(Byte)
          /\ Len(SubSeq(m, 1, pos + 1)) = pos + 1
          /\ \A i \in 1 .. pos + 1 : SubSeq(m, 1, pos + 1)[i] = m[i]
      BY <1>1
    <3> QED BY <3>3, <3>4, <3>5
  <2>4. NothingLost' BY <1>a, <1>4, <2>1, <2>3 DEF NothingLost
  <2>5. WholeBlocks' BY <1>0, <1>a, <2>1 DEF WholeBlocks
  <2> QED BY <2>2, <2>4, <2>5, <1>a DEF IInv, DigestOfPaddedMessage
<1>8. CASE datalen + 1 = Block
  <2>1. fed' = Transform(fed, data') /\ datalen' = 0 /\ bitlen' = DBL_INT_ADD(bitlen, 8 * Block)
    BY <1>c, <1>8
  <2>2. /\ fed' \in Seq(Byte)
        /\ Len(fed') = Len(fed) + Block
        /\ \A i \in 1 .. Len(fed) : fed'[i] = fed[i]
        /\ \A i \in 1 .. Block : fed'[Len(fed) + i] = data'[i - 1]
    BY <1>1, <1>3, <2>1, TransformAppends
  <2>3. bitlen' \in [{0, 1} -> 0 .. Modulus - 1]
    BY <1>0, <1>1, <2>1, AddType DEF TypeOK
  <2>4. TypeOK' BY <1>0, <1>a, <1>1, <1>3, <2>1, <2>2, <2>3 DEF TypeOK
  <2>5. bitlen' = LengthWords(8 * Len(fed'))
    <3>1. 8 * Len(fed) \in Nat /\ 8 * Block \in Nat /\ 8 * Block < Modulus
      BY <1>1, Sizes
    <3>2. bitlen' = LengthWords(8 * Len(fed) + 8 * Block)
      BY <1>4, <2>1, <3>1, AddCarries
    <3>3. 8 * Len(fed) + 8 * Block = 8 * Len(fed') BY <1>1, <2>2
    <3> QED BY <3>2, <3>3
  <2>6. SubSeq(m, 1, pos + 1) = fed'
    <3>1. pos + 1 = Len(fed) + Block BY <1>1, <1>6, <1>8
    <3>2. \A i \in 1 .. Block : data'[i - 1] = m[Len(fed) + i]
      BY <1>a, <1>1, <1>6, <1>8
    <3> HIDE DEF m
    <3>3. ASSUME NEW i \in 1 .. pos + 1 PROVE fed'[i] = m[i]
      <4>1. CASE i <= Len(fed) BY <1>1, <1>6, <2>2, <4>1
      <4>2. CASE ~(i <= Len(fed))
        <5> DEFINE k == i - Len(fed)
        <5>1. k \in 1 .. Block /\ i = Len(fed) + k BY <1>1, <3>1, <4>2
        <5> HIDE DEF k
        <5> QED BY <2>2, <3>2, <5>1
      <4> QED BY <4>1, <4>2, Zenon
    <3>4. /\ SubSeq(m, 1, pos + 1) \in Seq(Byte)
          /\ Len(SubSeq(m, 1, pos + 1)) = pos + 1
          /\ \A i \in 1 .. pos + 1 : SubSeq(m, 1, pos + 1)[i] = m[i]
      BY <1>1
    <3> QED BY <2>2, <3>1, <3>3, <3>4
  <2>7. fed' \o [i \in 1 .. datalen' |-> data'[i - 1]] = fed'
    <3>1. [i \in 1 .. datalen' |-> data'[i - 1]] = << >> BY <2>1
    <3>2. ASSUME NEW t \in Seq(Byte) PROVE t \o << >> = t OBVIOUS
    <3> QED BY <2>2, <3>1, <3>2
  <2>8. NothingLost' BY <1>a, <2>5, <2>6, <2>7 DEF NothingLost
  <2>9. WholeBlocks'
    <3>1. PICK n \in Nat : Len(fed) = n * Block BY <1>0, <1>a DEF WholeBlocks
    <3>2. Len(fed') = (n + 1) * Block BY <1>1, <2>2, <3>1
    <3> QED BY <3>2 DEF WholeBlocks
  <2> QED BY <2>4, <2>8, <2>9, <1>a DEF IInv, DigestOfPaddedMessage
<1> QED BY <1>7, <1>8

(* The padded message, element by element.                                 *)
LEMMA PaddedElements ==
    ASSUME NEW m \in Seq(Byte), Zeros(Len(m)) \in Nat
    PROVE  LET n == Len(m)
               z == Zeros(Len(m))
           IN  /\ Padded(m) \in Seq(Byte)
               /\ Len(Padded(m)) = n + 1 + z + 2 * LenWord
               /\ \A i \in 1 .. n : Padded(m)[i] = m[i]
               /\ Padded(m)[n + 1] = 128
               /\ \A i \in 1 .. z : Padded(m)[n + 1 + i] = 0
               /\ \A i \in 1 .. 2 * LenWord :
                     Padded(m)[n + 1 + z + i] = LengthByte(LengthWords(8 * n), LenPos + i - 1)
<1> DEFINE n == Len(m)
           z == Zeros(n)
           w == LengthWords(8 * n)
           zs == [i \in 1 .. z |-> 0]
           ls == [i \in 1 .. 2 * LenWord |-> LengthByte(w, LenPos + i - 1)]
           s1 == m \o <<128>>
           s2 == s1 \o zs
<1>0. n \in Nat /\ z \in Nat OBVIOUS
<1>1. w \in [{0, 1} -> 0 .. Modulus - 1]
  <2>1. Modulus \in Nat /\ Modulus > 0 /\ 8 * n \in Int BY Sizes
  <2>2. PICK q \in Int, t \in 0 .. Modulus - 1 : (8 * n) \div Modulus = q /\ (8 * n) % Modulus = t
    BY <2>1, DivMod
  <2>3. q % Modulus \in 0 .. Modulus - 1 BY <2>1, DivMod
  <2> QED BY <2>2, <2>3 DEF LengthWords
<1>2. zs \in Seq(Byte) /\ Len(zs) = z BY <1>0 DEF Byte
<1>3. ls \in Seq(Byte) /\ Len(ls) = 2 * LenWord
  <2>1. ASSUME NEW i \in 1 .. 2 * LenWord PROVE LengthByte(w, LenPos + i - 1) \in Byte
    <3>1. LenPos + i - 1 \in LenPos .. Block - 1 BY Sizes
    <3> QED BY <1>1, <3>1, LengthByteType
  <2> QED BY <2>1, Sizes
<1>4. <<128>> \in Seq(Byte) /\ Len(<<128>>) = 1 /\ <<128>>[1] = 128 BY DEF Byte
<1>5. /\ s1 \in Seq(Byte) /\ Len(s1) = n + 1
      /\ \A i \in 1 .. n : s1[i] = m[i]
      /\ \A i \in 1 .. 1 : s1[n + i] = <<128>>[i]
  BY <1>4, Concat
<1>6. s1[n + 1] = 128 BY <1>4, <1>5
<1>7. ASSUME NEW i \in 1 .. z PROVE zs[i] = 0 OBVIOUS
<1>8. ASSUME NEW i \in 1 .. 2 * LenWord PROVE ls[i] = LengthByte(w, LenPos + i - 1) OBVIOUS
<1>9. Padded(m) = s2 \o ls BY DEF Padded
<1> HIDE DEF zs, ls, s1
<1>10. /\ s2 \in Seq(Byte) /\ Len(s2) = n + 1 + z
       /\ \A i \in 1 .. n + 1 : s2[i] = s1[i]
       /\ \A i \in 1 .. z : s2[n + 1 + i] = zs[i]
  <2>1. /\ s2 \in Seq(Byte) /\ Len(s2) = Len(s1) + Len(zs)
        /\ \A i \in 1 .. Len(s1) : s2[i] = s1[i]
        /\ \A i \in 1 .. Len(zs) : s2[Len(s1) + i] = zs[i]
    BY <1>2, <1>5, Concat
  <2> HIDE DEF s2, n, z
  <2> QED BY <1>0, <1>2, <1>5, <2>1
<1> HIDE DEF s2, n, z
<1>11. /\ s2 \o ls \in Seq(Byte) /\ Len(s2 \o ls) = n + 1 + z + 2 * LenWord
       /\ \A i \in 1 .. n + 1 + z : (s2 \o ls)[i] = s2[i]
       /\ \A i \in 1 .. 2 * LenWord : (s2 \o ls)[n + 1 + z + i] = ls[i]
  <2>1. /\ s2 \o ls \in Seq(Byte) /\ Len(s2 \o ls) = Len(s2) + Len(ls)
        /\ \A i \in 1 .. Len(s2) : (s2 \o ls)[i] = s2[i]
        /\ \A i \in 1 .. Len(ls) : (s2 \o ls)[Len(s2) + i] = ls[i]
    BY <1>3, <1>10, Concat
  <2> DEFINE t == s2 \o ls
  <2> HIDE DEF t
  <2>2. /\ t \in Seq(Byte) /\ Len(t) = n + 1 + z + 2 * LenWord
        /\ \A i \in 1 .. n + 1 + z : t[i] = s2[i]
        /\ \A i \in 1 .. 2 * LenWord : t[n + 1 + z + i] = ls[i]
    BY <1>3, <1>10, <2>1 DEF t
  <2> QED BY <2>2 DEF t
<1>12. \A i \in 1 .. n : Padded(m)[i] = m[i]
  BY <1>0, <1>5, <1>9, <1>10, <1>11
<1>13. Padded(m)[n + 1] = 128
  BY <1>0, <1>6, <1>9, <1>10, <1>11
<1>14. \A i \in 1 .. z : Padded(m)[n + 1 + i] = 0
  <2>1. ASSUME NEW i \in 1 .. z PROVE (s2 \o ls)[n + 1 + i] = zs[i]
    <3>1. n + 1 + i \in 1 .. n + 1 + z BY <1>0
    <3>2. (s2 \o ls)[n + 1 + i] = s2[n + 1 + i] BY <1>11, <3>1
    <3> QED BY <1>10, <3>2
  <2> QED BY <1>7, <1>9, <2>1
<1>15. \A i \in 1 .. 2 * LenWord : Padded(m)[n + 1 + z + i] = LengthByte(w, LenPos + i - 1)
  BY <1>8, <1>9, <1>11
<1> QED BY <1>9, <1>11, <1>12, <1>13, <1>14, <1>15 DEF n, z

(* Finalising: the transformed bytes are compared with the padded message  *)
(* part by part, in the two cases sha256_final distinguishes.              *)
LEMMA FinalStep ==
    ASSUME IInv, sha256_final
    PROVE  IInv'
<1> DEFINE m == message
           n == Len(message)
           d == datalen
           f == Len(fed)
           z == Zeros(Len(message))
           w == LengthWords(8 * Len(message))
           p == Padded(message)
<1>0. TypeOK /\ NothingLost /\ WholeBlocks BY DEF IInv
<1>a. /\ stage = "open" /\ stage' = "done" /\ message' = message /\ pos' = pos
      /\ pos = n /\ datalen' = datalen
      /\ bitlen' = DBL_INT_ADD(bitlen, datalen * 8)
      /\ data' = WithLength(Padding.buffer, bitlen')
      /\ fed' = Transform(Padding.stream, data')
  BY DEF sha256_final
<1>1. /\ m \in Seq(Byte) /\ n \in Nat /\ d \in 0 .. Block - 1
      /\ fed \in Seq(Byte) /\ f \in Nat
      /\ data \in [0 .. Block - 1 -> Byte] /\ Block \in Nat /\ Block > 0
  <2>0. message \in Messages \cup {<< >>} /\ << >> \in Seq(Byte) /\ Messages \subseteq Seq(Byte)
    BY <1>0, StreamAssumption DEF TypeOK
  <2>1. m \in Seq(Byte) BY <2>0, Zenon
  <2>2. d \in 0 .. Block - 1 BY <1>0, <1>a, Sizes DEF TypeOK
  <2> QED BY <1>0, <2>1, <2>2, Sizes DEF TypeOK
<1>2. /\ n = f + d
      /\ \A i \in 1 .. f : m[i] = fed[i]
      /\ \A i \in 1 .. d : m[f + i] = data[i - 1]
  <2> DEFINE kept == [i \in 1 .. d |-> data[i - 1]]
  <2>1. SubSeq(m, 1, n) = fed \o kept BY <1>0, <1>a DEF NothingLost
  <2>2. SubSeq(m, 1, n) = m BY <1>1
  <2>3. kept \in Seq(Byte) /\ Len(kept) = d BY <1>1
  <2>4. \A i \in 1 .. d : kept[i] = data[i - 1] OBVIOUS
  <2> HIDE DEF kept
  <2>5. /\ Len(fed \o kept) = f + Len(kept)
        /\ \A i \in 1 .. f : (fed \o kept)[i] = fed[i]
        /\ \A i \in 1 .. Len(kept) : (fed \o kept)[f + i] = kept[i]
    BY <1>1, <2>3, Concat
  <2>6. m = fed \o kept BY <2>1, <2>2
  <2> HIDE DEF m
  <2>7. /\ \A i \in 1 .. f : m[i] = fed[i]
        /\ \A i \in 1 .. d : m[f + i] = data[i - 1]
    BY <2>3, <2>4, <2>5, <2>6
  <2>8. n = f + d BY <2>3, <2>5, <2>6 DEF m
  <2> QED BY <2>7, <2>8
<1>3. bitlen' = w
  <2>1. bitlen = LengthWords(8 * f) BY <1>0, <1>a DEF NothingLost
  <2>2. 8 * f \in Nat /\ d * 8 \in Nat /\ d * 8 < Modulus BY <1>1, Sizes
  <2>3. bitlen' = LengthWords(8 * f + d * 8) BY <1>a, <2>1, <2>2, AddCarries
  <2>4. 8 * f + d * 8 = 8 * n BY <1>1, <1>2
  <2> QED BY <2>3, <2>4
<1>4. bitlen' \in [{0, 1} -> 0 .. Modulus - 1]
  BY <1>0, <1>1, <1>a, AddType DEF TypeOK
<1>5. z = IF d < LenPos THEN LenPos - 1 - d ELSE Block + LenPos - 1 - d
  <2>1. PICK q \in Nat : f = q * Block BY <1>0, <1>a DEF WholeBlocks
  <2>2. n = q * Block + d BY <1>2, <2>1
  <2> QED BY <1>1, <2>2, ZerosOf
<1>6. z \in Nat BY <1>1, <1>5, Sizes
<1>7. /\ p \in Seq(Byte) /\ Len(p) = n + 1 + z + 2 * LenWord
      /\ \A i \in 1 .. n : p[i] = m[i]
      /\ p[n + 1] = 128
      /\ \A i \in 1 .. z : p[n + 1 + i] = 0
      /\ \A i \in 1 .. 2 * LenWord : p[n + 1 + z + i] = LengthByte(w, LenPos + i - 1)
  BY <1>1, <1>6, PaddedElements
<1>8. \A j \in LenPos .. Block - 1 : LengthByte(w, j) \in Byte
  BY <1>3, <1>4, LengthByteType
<1>9. ASSUME NEW u \in Nat
      PROVE  /\ PadTo(u) \in [0 .. Block - 1 -> Byte]
             /\ \A i \in 0 .. d - 1 : PadTo(u)[i] = data[i]
             /\ PadTo(u)[d] = 128
             /\ \A i \in 0 .. Block - 1 : d < i /\ i < u => PadTo(u)[i] = 0
  <2>1. PadTo(u) \in [0 .. Block - 1 -> Byte] BY <1>1 DEF PadTo, Byte
  <2>2. ASSUME NEW i \in 0 .. Block - 1
        PROVE  PadTo(u)[i] = IF i = d THEN 128 ELSE IF d < i /\ i < u THEN 0 ELSE data[i]
    BY DEF PadTo
  <2> HIDE DEF d
  <2> QED BY <1>1, <2>1, <2>2
<1> DEFINE b == Padding.buffer
           t == Padding.stream
<1>10. ASSUME b \in [0 .. Block - 1 -> Byte]
       PROVE  /\ data' \in [0 .. Block - 1 -> Byte]
              /\ \A i \in 0 .. LenPos - 1 : data'[i] = b[i]
              /\ \A i \in LenPos .. Block - 1 : data'[i] = LengthByte(w, i)
  <2>1. data' = WithLength(b, w) BY <1>a, <1>3
  <2> HIDE DEF b, w
  <2> QED BY <1>1, <1>8, <1>10, <2>1, Sizes DEF WithLength
<1>11. ASSUME d < LenPos
       PROVE  data' \in [0 .. Block - 1 -> Byte] /\ fed' \in Seq(Byte) /\ fed' = p
  <2>1. b = PadTo(LenPos) /\ t = fed BY <1>11 DEF Padding
  <2>2. /\ b \in [0 .. Block - 1 -> Byte]
        /\ \A i \in 0 .. d - 1 : b[i] = data[i]
        /\ b[d] = 128
        /\ \A i \in 0 .. Block - 1 : d < i /\ i < LenPos => b[i] = 0
    BY <1>9, <2>1, Sizes
  <2>3. /\ data' \in [0 .. Block - 1 -> Byte]
        /\ \A i \in 0 .. LenPos - 1 : data'[i] = b[i]
        /\ \A i \in LenPos .. Block - 1 : data'[i] = LengthByte(w, i)
    BY <1>10, <2>2
  <2>4. /\ fed' \in Seq(Byte) /\ Len(fed') = f + Block
        /\ \A i \in 1 .. f : fed'[i] = fed[i]
        /\ \A i \in 1 .. Block : fed'[f + i] = data'[i - 1]
    <3>1. fed' = Transform(fed, data') BY <1>a, <2>1
    <3>2. fed \in Seq(Byte) /\ data' \in [0 .. Block - 1 -> Byte] BY <1>1, <2>3
    <3>3. /\ Transform(fed, data') \in Seq(Byte)
          /\ Len(Transform(fed, data')) = Len(fed) + Block
          /\ \A i \in 1 .. Len(fed) : Transform(fed, data')[i] = fed[i]
          /\ \A i \in 1 .. Block : Transform(fed, data')[Len(fed) + i] = data'[i - 1]
      BY <3>2, TransformAppends, Zenon
    <3> QED BY <3>1, <3>3, Zenon
  <2> HIDE DEF m, n, d, f, z, w, p, b, t
  <2>a. /\ n \in Nat /\ f \in Nat /\ d \in Nat /\ d < Block /\ n = f + d
        /\ Block \in Nat /\ LenWord \in Nat /\ LenPos \in Nat /\ LenWord > 0 /\ LenPos > 0
        /\ LenPos + 2 * LenWord = Block
        /\ d < LenPos /\ z = LenPos - 1 - d
    BY <1>1, <1>2, <1>5, <1>11, Sizes
  <2>5. Len(fed') = Len(p)
    <3>1. Len(fed') = f + Block /\ Len(p) = n + 1 + z + 2 * LenWord BY <1>7, <2>4
    <3> QED BY <2>a, <3>1
  <2>6. ASSUME NEW i \in 1 .. Len(p) PROVE fed'[i] = p[i]
    <3>0. i \in 1 .. f + Block BY <2>4, <2>5
    <3>1. CASE i \in 1 .. f BY <1>1, <1>2, <1>7, <2>4, <3>1
    <3>2. CASE i \in f + 1 .. f + d
      <4> DEFINE k == i - f
      <4>1. i = f + k /\ k \in 1 .. d /\ k \in 1 .. Block /\ k - 1 \in 0 .. d - 1
         /\ k - 1 \in 0 .. LenPos - 1 /\ i \in 1 .. n
        BY <2>a, <3>2
      <4> HIDE DEF k
      <4>2. fed'[i] = data'[k - 1] BY <2>4, <4>1
      <4>3. data'[k - 1] = data[k - 1] BY <2>2, <2>3, <4>1
      <4>4. p[i] = data[k - 1] BY <1>2, <1>7, <4>1
      <4> QED BY <4>2, <4>3, <4>4
    <3>3. CASE i = f + d + 1
      <4>1. d + 1 \in 1 .. Block /\ (d + 1) - 1 = d /\ d \in 0 .. LenPos - 1 /\ i = n + 1 /\ i = f + (d + 1)
        BY <2>a, <3>3
      <4>2. fed'[i] = data'[d] BY <2>4, <4>1
      <4>3. data'[d] = 128 BY <2>2, <2>3, <4>1
      <4> QED BY <1>7, <4>1, <4>2, <4>3
    <3>4. CASE i \in f + d + 2 .. f + LenPos
      <4> DEFINE k == i - f
                 h == i - (n + 1)
      <4>1. i = f + k /\ k \in 1 .. Block /\ k - 1 \in 0 .. LenPos - 1 /\ d < k - 1 /\ k - 1 < LenPos
         /\ k - 1 \in 0 .. Block - 1 /\ h \in 1 .. z /\ i = n + 1 + h
        BY <2>a, <3>4
      <4> HIDE DEF k, h
      <4>2. fed'[i] = data'[k - 1] BY <2>4, <4>1
      <4>3. data'[k - 1] = 0 BY <2>2, <2>3, <4>1
      <4>4. p[i] = 0 BY <1>7, <4>1
      <4> QED BY <4>2, <4>3, <4>4
    <3>5. CASE i \in f + LenPos + 1 .. f + Block
      <4> DEFINE k == i - f
                 h == i - (n + 1 + z)
      <4>1. i = f + k /\ k \in 1 .. Block /\ k - 1 \in LenPos .. Block - 1
         /\ h \in 1 .. 2 * LenWord /\ i = n + 1 + z + h /\ LenPos + h - 1 = k - 1
        BY <2>a, <3>5
      <4> HIDE DEF k, h
      <4>2. fed'[i] = data'[k - 1] BY <2>4, <4>1
      <4>3. data'[k - 1] = LengthByte(w, k - 1) BY <2>3, <4>1
      <4>4. p[i] = LengthByte(w, LenPos + h - 1) BY <1>7, <4>1
      <4> QED BY <4>1, <4>2, <4>3, <4>4
    <3>6. \/ i \in 1 .. f \/ i \in f + 1 .. f + d \/ i = f + d + 1
          \/ i \in f + d + 2 .. f + LenPos \/ i \in f + LenPos + 1 .. f + Block
      BY <1>1, <1>11, <3>0, Sizes
    <3> QED BY <3>1, <3>2, <3>3, <3>4, <3>5, <3>6, Zenon
  <2>7. fed' = p BY <1>7, <2>4, <2>5, <2>6, SameElements
  <2> QED BY <2>3, <2>4, <2>7
<1>12. ASSUME ~(d < LenPos)
       PROVE  data' \in [0 .. Block - 1 -> Byte] /\ fed' \in Seq(Byte) /\ fed' = p
  <2> DEFINE c == PadTo(Block)
  <2>1. /\ b = [i \in 0 .. Block - 1 |-> IF i < LenPos THEN 0 ELSE c[i]]
        /\ t = Transform(fed, c)
    BY <1>12 DEF Padding
  <2>2. /\ c \in [0 .. Block - 1 -> Byte]
        /\ \A i \in 0 .. d - 1 : c[i] = data[i]
        /\ c[d] = 128
        /\ \A i \in 0 .. Block - 1 : d < i => c[i] = 0
    BY <1>1, <1>9
  <2> HIDE DEF c, b, t
  <2>3. /\ b \in [0 .. Block - 1 -> Byte]
        /\ \A i \in 0 .. LenPos - 1 : b[i] = 0
    <3>1. 0 \in Byte BY DEF Byte
    <3>2. b \in [0 .. Block - 1 -> Byte] BY <2>1, <2>2, <3>1
    <3>3. ASSUME NEW i \in 0 .. LenPos - 1 PROVE b[i] = 0
      <4>1. i \in 0 .. Block - 1 /\ i < LenPos BY Sizes
      <4> QED BY <2>1, <4>1
    <3> QED BY <3>2, <3>3
  <2>4. /\ data' \in [0 .. Block - 1 -> Byte]
        /\ \A i \in 0 .. LenPos - 1 : data'[i] = b[i]
        /\ \A i \in LenPos .. Block - 1 : data'[i] = LengthByte(w, i)
    BY <1>10, <2>3
  <2>5. /\ t \in Seq(Byte) /\ Len(t) = f + Block
        /\ \A i \in 1 .. f : t[i] = fed[i]
        /\ \A i \in 1 .. Block : t[f + i] = c[i - 1]
    <3>1. fed \in Seq(Byte) /\ c \in [0 .. Block - 1 -> Byte] BY <1>1, <2>2
    <3>2. /\ Transform(fed, c) \in Seq(Byte)
          /\ Len(Transform(fed, c)) = Len(fed) + Block
          /\ \A i \in 1 .. Len(fed) : Transform(fed, c)[i] = fed[i]
          /\ \A i \in 1 .. Block : Transform(fed, c)[Len(fed) + i] = c[i - 1]
      BY <3>1, TransformAppends, Zenon
    <3> QED BY <2>1, <3>2, Zenon
  <2>6. /\ fed' \in Seq(Byte) /\ Len(fed') = Len(t) + Block
        /\ \A i \in 1 .. Len(t) : fed'[i] = t[i]
        /\ \A i \in 1 .. Block : fed'[Len(t) + i] = data'[i - 1]
    <3>1. fed' = Transform(t, data') BY <1>a DEF t
    <3>2. /\ Transform(t, data') \in Seq(Byte)
          /\ Len(Transform(t, data')) = Len(t) + Block
          /\ \A i \in 1 .. Len(t) : Transform(t, data')[i] = t[i]
          /\ \A i \in 1 .. Block : Transform(t, data')[Len(t) + i] = data'[i - 1]
      BY <2>4, <2>5, TransformAppends, Zenon
    <3> QED BY <3>1, <3>2, Zenon
  <2> HIDE DEF m, n, d, f, z, w, p
  <2>a. /\ n \in Nat /\ f \in Nat /\ d \in Nat /\ d < Block /\ n = f + d
        /\ Block \in Nat /\ LenWord \in Nat /\ LenPos \in Nat /\ LenWord > 0 /\ LenPos > 0
        /\ LenPos + 2 * LenWord = Block
        /\ Len(t) = f + Block /\ ~(d < LenPos) /\ z = Block + LenPos - 1 - d
    BY <1>1, <1>2, <1>5, <1>12, <2>5, Sizes
  <2>7. Len(fed') = Len(p) /\ Len(p) = f + 2 * Block
    <3>1. Len(fed') = f + Block + Block /\ Len(p) = n + 1 + z + 2 * LenWord
      BY <1>7, <2>5, <2>6
    <3> QED BY <2>a, <3>1
  <2>8. ASSUME NEW i \in 1 .. Len(p) PROVE fed'[i] = p[i]
    <3>0. i \in 1 .. f + 2 * Block BY <2>7
    <3>1. CASE i \in 1 .. f
      <4>1. i \in 1 .. Len(t) /\ i \in 1 .. n BY <2>a, <3>1
      <4> QED BY <1>2, <1>7, <2>5, <2>6, <3>1, <4>1
    <3>2. CASE i \in f + 1 .. f + d
      <4> DEFINE k == i - f
      <4>1. i = f + k /\ k \in 1 .. d /\ k \in 1 .. Block /\ k - 1 \in 0 .. d - 1
         /\ i \in 1 .. Len(t) /\ i \in 1 .. n
        BY <2>a, <3>2
      <4> HIDE DEF k
      <4>2. fed'[i] = c[k - 1] BY <2>5, <2>6, <4>1
      <4>3. c[k - 1] = data[k - 1] BY <2>2, <4>1
      <4>4. p[i] = data[k - 1] BY <1>2, <1>7, <4>1
      <4> QED BY <4>2, <4>3, <4>4
    <3>3. CASE i = f + d + 1
      <4>1. d + 1 \in 1 .. Block /\ (d + 1) - 1 = d /\ i = n + 1 /\ i = f + (d + 1) /\ i \in 1 .. Len(t)
        BY <2>a, <3>3
      <4>2. fed'[i] = c[d] BY <2>5, <2>6, <4>1
      <4> QED BY <1>7, <2>2, <4>1, <4>2
    <3>4. CASE i \in f + d + 2 .. f + Block
      <4> DEFINE k == i - f
                 h == i - (n + 1)
      <4>1. i = f + k /\ k \in 1 .. Block /\ d < k - 1 /\ k - 1 \in 0 .. Block - 1
         /\ h \in 1 .. z /\ i = n + 1 + h /\ i \in 1 .. Len(t)
        BY <2>a, <3>4
      <4> HIDE DEF k, h
      <4>2. fed'[i] = c[k - 1] BY <2>5, <2>6, <4>1
      <4>3. c[k - 1] = 0 BY <2>2, <4>1
      <4>4. p[i] = 0 BY <1>7, <4>1
      <4> QED BY <4>2, <4>3, <4>4
    <3>5. CASE i \in f + Block + 1 .. f + Block + LenPos
      <4> DEFINE k == i - Len(t)
                 h == i - (n + 1)
      <4>1. i = Len(t) + k /\ k \in 1 .. Block /\ k - 1 \in 0 .. LenPos - 1
         /\ h \in 1 .. z /\ i = n + 1 + h
        BY <2>a, <3>5
      <4> HIDE DEF k, h
      <4>2. fed'[i] = data'[k - 1] BY <2>6, <4>1
      <4>3. data'[k - 1] = 0 BY <2>3, <2>4, <4>1
      <4>4. p[i] = 0 BY <1>7, <4>1
      <4> QED BY <4>2, <4>3, <4>4
    <3>6. CASE i \in f + Block + LenPos + 1 .. f + 2 * Block
      <4> DEFINE k == i - Len(t)
                 h == i - (n + 1 + z)
      <4>1. i = Len(t) + k /\ k \in 1 .. Block /\ k - 1 \in LenPos .. Block - 1
         /\ h \in 1 .. 2 * LenWord /\ i = n + 1 + z + h /\ LenPos + h - 1 = k - 1
        BY <2>a, <3>6
      <4> HIDE DEF k, h
      <4>2. fed'[i] = data'[k - 1] BY <2>6, <4>1
      <4>3. data'[k - 1] = LengthByte(w, k - 1) BY <2>4, <4>1
      <4>4. p[i] = LengthByte(w, LenPos + h - 1) BY <1>7, <4>1
      <4> QED BY <4>1, <4>2, <4>3, <4>4
    <3>7. \/ i \in 1 .. f \/ i \in f + 1 .. f + d \/ i = f + d + 1
          \/ i \in f + d + 2 .. f + Block \/ i \in f + Block + 1 .. f + Block + LenPos
          \/ i \in f + Block + LenPos + 1 .. f + 2 * Block
      BY <2>a, <3>0
    <3> QED BY <3>1, <3>2, <3>3, <3>4, <3>5, <3>6, <3>7, Zenon
  <2>9. fed' = p BY <1>7, <2>6, <2>7, <2>8, SameElements
  <2> QED BY <2>4, <2>6, <2>9
<1>13. data' \in [0 .. Block - 1 -> Byte] /\ fed' \in Seq(Byte) /\ fed' = p
  BY <1>11, <1>12, Zenon
<1>14. TypeOK' BY <1>0, <1>a, <1>4, <1>13 DEF TypeOK
<1> QED BY <1>a, <1>13, <1>14 DEF IInv, NothingLost, WholeBlocks, DigestOfPaddedMessage

(* The invariant is inductive.                                             *)
LEMMA Invariance == Spec => []IInv
<1>1. IInv /\ [Next]_vars => IInv'
  <2> SUFFICES ASSUME IInv, [Next]_vars PROVE IInv' OBVIOUS
  <2>1. ASSUME NEW m \in Messages, sha256_init(m) PROVE IInv' BY <2>1, InitStep
  <2>2. CASE sha256_update BY <2>2, UpdateStep
  <2>3. CASE sha256_final BY <2>3, FinalStep
  <2>4. CASE UNCHANGED vars
    BY <2>4 DEF vars, IInv, TypeOK, NothingLost, WholeBlocks, DigestOfPaddedMessage
  <2> QED BY <2>1, <2>2, <2>3, <2>4 DEF Next
<1> QED BY Initially, <1>1, PTL DEF Spec

(* The context stays well-formed; datalen stays inside the buffer between  *)
(* sha256_init and sha256_final.                                           *)
THEOREM TypeCorrect == Spec => []TypeOK
<1>1. IInv => TypeOK BY DEF IInv
<1> QED BY Invariance, <1>1, PTL

(* sha256_update loses and repeats no byte and counts every bit.           *)
THEOREM NothingIsLost == Spec => []NothingLost
<1>1. IInv => NothingLost BY DEF IInv
<1> QED BY Invariance, <1>1, PTL

(* The digest is that of the padded message, for every message, buffer     *)
(* size and word size, and whatever an earlier use left in the context     *)
(* (sha256_init, sha256_update, sha256_final).                             *)
THEOREM DigestCorrect == Spec => []DigestOfPaddedMessage
<1>1. IInv => DigestOfPaddedMessage BY DEF IInv
<1> QED BY Invariance, <1>1, PTL
=============================================================================
