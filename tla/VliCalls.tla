------------------------------ MODULE VliCalls ------------------------------
(***************************************************************************)
(* Calls of the vli functions on every operand of a few words, and what    *)
(* they compute compared with integer arithmetic.  The two versions of the *)
(* reduction for secp256r1 are called with the formula of its prime, with  *)
(* a word, or half of one, in the place of 2^32: with words of 32 or 64    *)
(* bits it is the prime itself, with half words of one bit it is 199.      *)
(***************************************************************************)
EXTENDS Vli

CONSTANTS
    NumWords,     \* words of an operand
    Moduli,       \* prime moduli with NumWords words
    Products32,   \* what the reduction for words of 32 bits is called with
    Products64    \* what the one for words of 64 bits is called with

ASSUME VliCallsAssumption ==
    /\ WordBits % 2 = 0
    /\ NumWords \in Nat \ {0} /\ NumWords < W
    /\ Moduli \subseteq Power(W, NumWords - 1) .. Power(W, NumWords) - 1
    /\ \A m \in Moduli : m % 2 = 1 /\ \A d \in 2 .. m - 1 : m % d # 0
    /\ \A x \in Products32 : x \in Nat /\ x \div Power(W, 8) < Power(W, 8)
    /\ \A x \in Products64 : x \in Nat /\ x \div Power(W, 4) < Power(W, 4)

VARIABLE vli   \* the call: function, operands and results

\* The prime of secp256r1, with b in the place of 2^32.
PrimeOf(b) == Power(b, 8) - Power(b, 7) + Power(b, 6) + Power(b, 3) - 1

VliInit == vli = [f |-> "none"]

Sums(x, y) ==
    vli' = [f |-> "sums", x |-> x, y |-> y, sum |-> ecdsa_vli_add(x, y),
            diff |-> ecdsa_vli_sub(x, y), cmp |-> ecdsa_vli_cmp(x, y),
            unsafe |-> ecdsa_vli_cmp_unsafe(x, y), bits |-> ecdsa_vli_numBits(x),
            half |-> ecdsa_vli_rshift1(x)]

MulAdd(a, b, r) ==
    vli' = [f |-> "muladd", a |-> a, b |-> b, r |-> r,
            wide |-> muladd(a, b, r), halves |-> muladd_halves(a, b, r)]

Mults(x, y) ==
    vli' = [f |-> "mults", x |-> x, y |-> y,
            product |-> ecdsa_vli_mult(x, y), square |-> ecdsa_vli_square(x)]

Modular(x, y, m) ==
    LET a == Words(x, NumWords)
        b == Words(y, NumWords)
        mod == Words(m, NumWords)
    IN  vli' = [f |-> "modular", x |-> x, y |-> y, m |-> m,
                sum |-> ecdsa_vli_modAdd(a, b, mod), diff |-> ecdsa_vli_modSub(a, b, mod),
                product |-> ecdsa_vli_modMult(a, b, mod), square |-> ecdsa_vli_modSquare(a, mod)]

Invert(x, m) ==
    vli' = [f |-> "invert", x |-> x, m |-> m,
            inv |-> ecdsa_vli_modInv(Words(x, NumWords), Words(m, NumWords))]

Reduce32(x) ==
    vli' = [f |-> "reduce32", x |-> x,
            out |-> vli_mmod_fast_secp256r1_32(Words(x, 16), Words(PrimeOf(W), 8))]

Reduce64(x) ==
    vli' = [f |-> "reduce64", x |-> x,
            out |-> vli_mmod_fast_secp256r1_64(Words(x, 8), Words(PrimeOf(HalfW), 4))]

VliNext ==
    /\ vli.f = "none"
    /\ \/ \E x, y \in Vli(NumWords) : Sums(x, y) \/ Mults(x, y)
       \/ \E a, b \in 0 .. W - 1, r \in [1 .. 3 -> 0 .. W - 1] : r[3] < W - 1 /\ MulAdd(a, b, r)
       \/ \E m \in Moduli : \E x \in 0 .. m - 1 : Invert(x, m) \/ \E y \in 0 .. m - 1 : Modular(x, y, m)
       \/ \E x \in Products32 : Reduce32(x)
       \/ \E x \in Products64 : Reduce64(x)

VliSpec == VliInit /\ [][VliNext]_vli

-----------------------------------------------------------------------------
(* Sums, differences, comparisons, bit counts and shifts are exact, with   *)
(* the carry or borrow of a whole number, whatever words of ones or zeros  *)
(* a carry has to run through.                                             *)
SumsExact ==
    vli.f = "sums" =>
        LET x == Number(vli.x)
            y == Number(vli.y)
            all == Power(W, NumWords)
        IN  /\ Number(vli.sum.out) + vli.sum.carry * all = x + y
            /\ Number(vli.diff.out) - vli.diff.carry * all = x - y
            /\ vli.cmp = (IF x > y THEN 1 ELSE IF x < y THEN -1 ELSE 0)
            /\ vli.unsafe = vli.cmp
            /\ Number(vli.half) = x \div 2
            /\ Power(2, vli.bits) > x /\ (x > 0 => Power(2, vli.bits - 1) <= x)

(* The accumulation of a product is exact in the three words, and the      *)
(* build without double words computes the same.                           *)
MulAddExact ==
    vli.f = "muladd" =>
        /\ vli.wide[1] + vli.wide[2] * W + vli.wide[3] * (W * W)
            = vli.a * vli.b + vli.r[1] + vli.r[2] * W + vli.r[3] * (W * W)
        /\ vli.halves = vli.wide

(* Products are exact, and squaring with each mixed product doubled agrees *)
(* with multiplying.                                                       *)
MultsExact ==
    vli.f = "mults" =>
        /\ Number(vli.product) = Number(vli.x) * Number(vli.y)
        /\ Number(vli.square) = Number(vli.x) * Number(vli.x)

(* Below a modulus that fills its words, sums, differences and products    *)
(* are reduced completely.                                                 *)
ModularExact ==
    vli.f = "modular" =>
        /\ Number(vli.sum) = (vli.x + vli.y) % vli.m
        /\ Number(vli.diff) = (vli.x - vli.y) % vli.m
        /\ Number(vli.product) = (vli.x * vli.y) % vli.m
        /\ Number(vli.square) = (vli.x * vli.x) % vli.m

(* The inversion ends, after at most two rounds per bit, with the inverse; *)
(* zero has the "inverse" zero.                                            *)
InverseExact ==
    vli.f = "invert" =>
        /\ vli.inv.ended
        /\ (Number(vli.inv.out) * vli.x) % vli.m = Bit(vli.x # 0)

(* The rows of words that replace the division by the prime of secp256r1   *)
(* give the remainder, in both word sizes, and a few corrections suffice.  *)
FastReductionExact ==
    /\ vli.f = "reduce32" => Number(vli.out) = vli.x % PrimeOf(W)
    /\ vli.f = "reduce64" => Number(vli.out) = vli.x % PrimeOf(HalfW)

(* The word arithmetic of ecdsa.c is exact: every function agrees with the *)
(* integers on operands of every carry and borrow pattern.                 *)
WordArithmeticExact ==
    SumsExact /\ MulAddExact /\ MultsExact /\ ModularExact /\ InverseExact /\ FastReductionExact
=============================================================================
