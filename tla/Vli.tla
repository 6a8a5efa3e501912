-------------------------------- MODULE Vli --------------------------------
(***************************************************************************)
(* The multi-word integers of lib/src/ecdsa.c ("vli"): arrays of machine   *)
(* words, least significant word first, here sequences (word i of the      *)
(* code is element i + 1).  A word has WordBits bits and wraps, so carries *)
(* are found the way the code finds them, by comparing a wrapped sum with  *)
(* an operand.                                                             *)
(***************************************************************************)
EXTENDS Integers, SequencesExt, Sums

CONSTANT WordBits   \* bits of a word, ecdsa_WORD_BITS

ASSUME VliAssumption == WordBits \in Nat \ {0}

W == Power(2, WordBits)
HalfW == Power(2, WordBits \div 2)

Vli(n) == [1 .. n -> 0 .. W - 1]
Array(n, word(_)) == SubSeq([i \in 1 .. n |-> word(i)], 1, n)

\* The number an array stands for, and the array of n words for a number.
Number(a) == SumBelow([i \in 0 .. Len(a) - 1 |-> a[i + 1] * Power(W, i)], Len(a))
Words(v, n) == Array(n, LAMBDA i : (v \div Power(W, i - 1)) % W)

Bit(b) == IF b THEN 1 ELSE 0

ecdsa_vli_isZero(a) == \A i \in DOMAIN a : a[i] = 0

ecdsa_vli_testBit(a, bit) == (a[bit \div WordBits + 1] \div 2 ^ (bit % WordBits)) % 2 = 1

vli_numDigits(a) ==
    LET used == {i \in DOMAIN a : a[i] # 0} IN IF used = {} THEN 0 ELSE Max(used)

ecdsa_vli_numBits(a) ==
    LET digits == vli_numDigits(a)
    IN  IF digits = 0 THEN 0
        ELSE (digits - 1) * WordBits
                + Min({i \in 1 .. WordBits : a[digits] \div Power(2, i) = 0})

ecdsa_vli_cmp_unsafe(a, b) ==
    LET differ == {i \in DOMAIN a : a[i] # b[i]}
    IN  IF differ = {} THEN 0 ELSE IF a[Max(differ)] > b[Max(differ)] THEN 1 ELSE -1

\* The lowest bit of a word becomes the highest of the word below.
ecdsa_vli_rshift1(a) ==
    LET down(i) == IF i < Len(a) THEN (a[i + 1] % 2) * (W \div 2) ELSE 0
    IN  [i \in 1 .. Len(a) |-> a[i] \div 2 + down(i)]

\* What is carried, or borrowed, above the first i words: a wrapped sum below
\* the left word, or a difference above it; one equal to it keeps the carry
\* that came in.
Carries(a, b) ==
    LET c[i \in 0 .. Len(a)] ==
            IF i = 0 THEN 0
            ELSE LET sum == (a[i] + b[i] + c[i - 1]) % W
                 IN  IF sum # a[i] THEN Bit(sum < a[i]) ELSE c[i - 1]
    IN  c
Borrows(a, b) ==
    LET c[i \in 0 .. Len(a)] ==
            IF i = 0 THEN 0
            ELSE LET diff == (a[i] - b[i] - c[i - 1]) % W
                 IN  IF diff # a[i] THEN Bit(diff > a[i]) ELSE c[i - 1]
    IN  c

ecdsa_vli_add(a, b) ==
    LET c == Carries(a, b)
    IN  [out |-> [i \in 1 .. Len(a) |-> (a[i] + b[i] + c[i - 1]) % W], carry |-> c[Len(a)]]

ecdsa_vli_sub(a, b) ==
    LET c == Borrows(a, b)
    IN  [out |-> [i \in 1 .. Len(a) |-> (a[i] - b[i] - c[i - 1]) % W], carry |-> c[Len(a)]]

ecdsa_vli_cmp(a, b) ==
    LET diff == ecdsa_vli_sub(a, b)
    IN  Bit(~ecdsa_vli_isZero(diff.out)) - 2 * diff.carry

-----------------------------------------------------------------------------
(* Products.  r is the triple of accumulator words r0, r1, r2.              *)

AddToLow(r, p, more) ==
    LET r01 == (r[2] * W + r[1] + p) % (W * W)
    IN  <<r01 % W, r01 \div W, (r[3] + more + Bit(r01 < p)) % W>>

\* The build with a double word (SUPPORTS_INT128, or words of 32 bits or less).
muladd(x, y, r) == AddToLow(r, x * y, 0)

\* The build without one: four products of half words.
muladd_halves(x, y, r) ==
    LET lo(v) == v % HalfW
        hi(v) == v \div HalfW
        i0 == lo(x) * lo(y)
        i1 == lo(x) * hi(y)
        i2 == (hi(x) * lo(y) + hi(i0) + i1) % W
        i3 == hi(x) * hi(y) + (IF i2 < i1 THEN HalfW ELSE 0)
        p0 == (lo(i0) + i2 * HalfW) % W
        p1 == i3 + hi(i2)
        r0 == (r[1] + p0) % W
        r1 == (r[2] + p1 + Bit(r0 < p0)) % W
    IN  <<r0, r1, (r[3] + Bit(r1 < p1 \/ (r1 = p1 /\ r0 < p0))) % W>>

mul2add(x, y, r) == AddToLow(r, (2 * (x * y)) % (W * W), (2 * (x * y)) \div (W * W))

\* Column k sums the products of words whose indices, from 0, add up to k;
\* the triple moves down by one word from a column to the next, and the last
\* word is what it holds after the last column.
Columns(n, column(_, _)) ==
    LET r[k \in 0 .. 2 * n - 2] ==
            IF k = 0 THEN column(0, <<0, 0, 0>>)
            ELSE LET s == r[k - 1] IN column(k, <<s[2], s[3], 0>>)
    IN  Array(2 * n, LAMBDA i : IF i < 2 * n THEN r[i - 1][1] ELSE r[2 * n - 2][2])

LowestIndex(k, n) == IF k < n THEN 0 ELSE k + 1 - n

ecdsa_vli_mult(a, b) ==
    LET n == Len(a)
        column(k, r) ==
            LET lo == LowestIndex(k, n)
            IN  After(k - 2 * lo + 1, r, LAMBDA s, i : muladd(a[lo + i + 1], b[k - lo - i + 1], s))
    IN  Columns(n, column)

ecdsa_vli_square(a) ==
    LET n == Len(a)
        add(s, i, j) == IF i < j THEN mul2add(a[i + 1], a[j + 1], s) ELSE muladd(a[i + 1], a[j + 1], s)
        column(k, r) ==
            LET lo == LowestIndex(k, n)
            IN  After(k \div 2 - lo + 1, r, LAMBDA s, i : add(s, lo + i, k - lo - i))
    IN  Columns(n, column)

-----------------------------------------------------------------------------
(* Arithmetic modulo a number.                                              *)

ecdsa_vli_modAdd(a, b, mod) ==
    LET sum == ecdsa_vli_add(a, b)
    IN  IF sum.carry = 1 \/ ecdsa_vli_cmp_unsafe(mod, sum.out) # 1
        THEN ecdsa_vli_sub(sum.out, mod).out ELSE sum.out

ecdsa_vli_modSub(a, b, mod) ==
    LET diff == ecdsa_vli_sub(a, b)
    IN  IF diff.carry = 1 THEN ecdsa_vli_add(diff.out, mod).out ELSE diff.out

\* mod_multiple, m, is mod shifted to the top of the product's words; it moves
\* down bit by bit and is subtracted wherever that does not borrow.
MmodRound(s) ==
    LET diff == ecdsa_vli_sub(s.v, s.m)
    IN  [v |-> IF diff.carry = 1 THEN s.v ELSE diff.out, m |-> ecdsa_vli_rshift1(s.m)]
SubtractMultiples(product, mod, shift, times) ==
    LET n == Len(mod)
        start == [v |-> product, m |-> Words(Number(mod) * Power(2, shift), 2 * n)]
    IN  SubSeq(After(times, start, LAMBDA s, i : MmodRound(s)).v, 1, n)

Shift(mod) == 2 * Len(mod) * WordBits - ecdsa_vli_numBits(mod)

ecdsa_vli_mmod(product, mod) == SubtractMultiples(product, mod, Shift(mod), Shift(mod) + 1)

ecdsa_vli_modMult(a, b, mod) == ecdsa_vli_mmod(ecdsa_vli_mult(a, b), mod)
ecdsa_vli_modSquare(a, mod) == ecdsa_vli_mmod(ecdsa_vli_square(a), mod)

Even(a) == a[1] % 2 = 0

\* (mutation) the carry of the addition is dropped
vli_modInv_update_no_carry(uv, mod) ==
    ecdsa_vli_rshift1(IF Even(uv) THEN uv ELSE ecdsa_vli_add(uv, mod).out)

\* Halving modulo mod; the carry of the addition comes back as the top bit.
vli_modInv_update(uv, mod) ==
    LET sum == IF Even(uv) THEN [out |-> uv, carry |-> 0] ELSE ecdsa_vli_add(uv, mod)
    IN  [ecdsa_vli_rshift1(sum.out) EXCEPT ![Len(uv)] = @ + sum.carry * (W \div 2)]

\* The difference halved, modulo mod.
ModHalvedDifference(x, y, mod) ==
    LET big == IF ecdsa_vli_cmp_unsafe(x, y) < 0 THEN ecdsa_vli_add(x, mod).out ELSE x
    IN  vli_modInv_update(ecdsa_vli_sub(big, y).out, mod)

HalvedDifference(x, y) == ecdsa_vli_rshift1(ecdsa_vli_sub(x, y).out)

\* One round of the loop of ecdsa_vli_modInv.
InvRound(s, mod) ==
    IF s.a = s.b THEN s
    ELSE IF Even(s.a)
         THEN [s EXCEPT !.a = ecdsa_vli_rshift1(@), !.u = vli_modInv_update(@, mod)]
    ELSE IF Even(s.b)
         THEN [s EXCEPT !.b = ecdsa_vli_rshift1(@), !.v = vli_modInv_update(@, mod)]
    ELSE IF ecdsa_vli_cmp_unsafe(s.a, s.b) > 0
         THEN [s EXCEPT !.a = HalvedDifference(@, s.b), !.u = ModHalvedDifference(@, s.v, mod)]
         ELSE [s EXCEPT !.b = HalvedDifference(@, s.a), !.v = ModHalvedDifference(@, s.u, mod)]

\* The loop ends when a = b; InvRounds bounds how often it may go round.
InvRounds(n) == 2 * n * WordBits
ecdsa_vli_modInv(x, mod) ==
    LET n == Len(mod)
        start == [a |-> x, b |-> mod, u |-> Words(1, n), v |-> Words(0, n)]
        end == After(InvRounds(n), start, LAMBDA s, i : InvRound(s, mod))
    IN  IF ecdsa_vli_isZero(x) THEN [out |-> x, ended |-> TRUE]
                               ELSE [out |-> end.u, ended |-> end.a = end.b]

-----------------------------------------------------------------------------
(* The reduction modulo the prime of secp256r1, p = B^8 - B^7 + B^6 + B^3   *)
(* - 1 with B = 2^32: a sum of rows, each made of words of the product.     *)
(* A row lists, from the lowest word up, indices from 0 into the product,   *)
(* and None for a word that is 0; the rows are the same for every B.        *)

None == 16

\* From words of 32 bits: s1, s2 (both doubled), s3, s4 added, d1 .. d4 taken off.
Doubled4 == <<<<None, None, None, 11, 12, 13, 14, 15>>,
              <<None, None, None, 12, 13, 14, 15, None>>>>
Added4 == <<<<8, 9, 10, None, None, None, 14, 15>>,
            <<9, 10, 11, 13, 14, 15, 13, 8>>>>
Removed4 == <<<<11, 12, 13, None, None, None, 8, 10>>,
              <<12, 13, 14, 15, None, None, 9, 11>>,
              <<13, 14, 15, 8, 9, 10, None, 12>>,
              <<14, 15, None, 9, 10, 11, None, 13>>>>

Rows4(product, rows) ==
    [r \in DOMAIN rows |->
        Array(8, LAMBDA i : IF rows[r][i] = None THEN 0 ELSE product[rows[r][i] + 1])]

\* From words of 64 bits, by masks and shifts of half a word.
\* q holds the upper half of the product: q[1] is product[4].
HighHalf(w) == w - (w % HalfW)               \* w & 0xffffffff00000000
LowHalf(w) == w % HalfW                      \* w & 0xffffffff
Shr(w) == w \div HalfW                       \* w >> 32
Shl(w) == (w * HalfW) % W                    \* w << 32

Doubled8(q) == <<<<0, HighHalf(q[2]), q[3], q[4]>>,
                 <<0, Shl(q[3]), Shr(q[3]) + Shl(q[4]), Shr(q[4])>>>>
Added8(q) == <<<<q[1], LowHalf(q[2]), 0, q[4]>>,
               <<Shr(q[1]) + Shl(q[2]), Shr(q[2]) + HighHalf(q[3]), q[4], Shr(q[3]) + Shl(q[1])>>>>
Removed8(q) == <<<<Shr(q[2]) + Shl(q[3]), Shr(q[3]), 0, LowHalf(q[1]) + Shl(q[2])>>,
                 <<q[3], q[4], 0, Shr(q[1]) + HighHalf(q[2])>>,
                 <<Shr(q[3]) + Shl(q[4]), Shr(q[4]) + Shl(q[1]), Shr(q[1]) + Shl(q[2]), Shl(q[3])>>,
                 <<q[4], HighHalf(q[1]), q[2], HighHalf(q[3])>>>>

\* The result and the carry above its words.
Plus(acc, row) ==
    LET r == ecdsa_vli_add(acc.v, row) IN [v |-> r.out, c |-> acc.c + r.carry]
Minus(acc, row) ==
    LET r == ecdsa_vli_sub(acc.v, row) IN [v |-> r.out, c |-> acc.c - r.carry]
PlusTwice(acc, row) ==
    LET t == ecdsa_vli_add(row, row) IN Plus([acc EXCEPT !.c = @ + t.carry], t.out)

\* The closing loops: p is added while the carry is negative, or else taken
\* off while there is a carry or the result is not below p.
MaxCorrections == 8
CorrectUp(t, p) == IF t.c < 0 THEN Plus(t, p) ELSE t
CorrectDown(t, p) == IF t.c # 0 \/ ecdsa_vli_cmp_unsafe(p, t.v) # 1 THEN Minus(t, p) ELSE t
Corrected(acc, p) ==
    After(MaxCorrections, acc,
          LAMBDA t, i : IF acc.c < 0 THEN CorrectUp(t, p) ELSE CorrectDown(t, p)).v

Reduced(product, p, doubled, added, removed) ==
    LET low == [v |-> SubSeq(product, 1, Len(p)), c |-> 0]
        twice == PlusTwice(PlusTwice(low, doubled[1]), doubled[2])
        plus == Plus(Plus(twice, added[1]), added[2])
        minus == Minus(Minus(Minus(Minus(plus, removed[1]), removed[2]), removed[3]), removed[4])
    IN  Corrected(minus, p)

vli_mmod_fast_secp256r1_32(product, p) ==
    Reduced(product, p, Rows4(product, Doubled4), Rows4(product, Added4), Rows4(product, Removed4))

vli_mmod_fast_secp256r1_64(product, p) ==
    LET q == SubSeq(product, 5, 8)
    IN  Reduced(product, p, Doubled8(q), Added8(q), Removed8(q))
=============================================================================
