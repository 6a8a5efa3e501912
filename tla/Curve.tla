------------------------------- MODULE Curve -------------------------------
(***************************************************************************)
(* Points of the curve y^2 = x^3 - 3x + b over the integers modulo curve_p *)
(* as lib/src/ecdsa.c computes with them.  Coordinates are integers below  *)
(* curve_p: that the word arithmetic under them is exact is the subject of *)
(* module Vli.  A point is a pair, and <<0, 0>> is what the code takes for *)
(* the point at infinity; R0 and R1 of the ladder share a Z coordinate     *)
(* that is computed only at the end.                                       *)
(***************************************************************************)
EXTENDS Integers, SequencesExt

CONSTANTS
    curve_p,    \* the field's prime
    curve_n,    \* the order of curve_G, a prime
    curve_b,
    curve_G,    \* the base point
    num_n_bits  \* bits of curve_n; both primes fill their words

ASSUME CurveAssumption ==
    /\ curve_p % 4 = 3
    /\ {curve_p, curve_n} \subseteq 2 ^ (num_n_bits - 1) .. 2 ^ num_n_bits - 1

Range0(m) == 0 .. m - 1
Upto(m) == [i \in 1 .. m |-> i]

\* ecdsa_vli_modInv: the inverse, and zero for zero.
Inverses(m) ==
    SubSeq([v \in 1 .. m |-> CHOOSE i \in Range0(m) : (v * i) % m = (IF v = m THEN 0 ELSE 1)], 1, m)
InversesP == Inverses(curve_p)
InversesN == Inverses(curve_n)
InvP(v) == IF v = 0 THEN 0 ELSE InversesP[v]
InvN(v) == IF v % curve_n = 0 THEN 0 ELSE InversesN[v % curve_n]

TestBit(v, i) == (v \div 2 ^ i) % 2 = 1
NumBits(v) == IF v = 0 THEN 0 ELSE CHOOSE i \in 1 .. 2 * num_n_bits : 2 ^ (i - 1) <= v /\ v < 2 ^ i

ZeroPoint == <<0, 0>>

-----------------------------------------------------------------------------
(* The formulas, in the order of the code's assignments.                    *)

double_jacobian_default(pt, Z1) ==
    LET A == (pt[1] * pt[2] ^ 2) % curve_p
        Y4 == pt[2] ^ 4 % curve_p
        Z2 == Z1 ^ 2 % curve_p
        t == (3 * ((pt[1] + Z2) * (pt[1] - Z2))) % curve_p
        B == IF TestBit(t, 0) THEN (t + curve_p) \div 2 ELSE t \div 2
        x3 == (B ^ 2 - 2 * A) % curve_p
    IN  IF Z1 = 0 THEN [pt |-> pt, z |-> Z1]
        ELSE [pt |-> <<x3, (B * (A - x3) - Y4) % curve_p>>, z |-> (pt[2] * Z1) % curve_p]

x_side_default(x) == ((x ^ 2 - 3) * x + curve_b) % curve_p

\* a ^ ((p + 1) / 4), by the bits of p + 1 from the top down to bit 2.
mod_sqrt_default(a) ==
    LET top == NumBits(curve_p + 1) - 1
        step(r, j) == LET i == top + 1 - j
                          sq == r ^ 2 % curve_p
                      IN  IF TestBit(curve_p + 1, i) THEN (sq * a) % curve_p ELSE sq
    IN  FoldLeft(step, 1, Upto(top - 1))

apply_z(pt, z) == <<(pt[1] * z ^ 2) % curve_p, (pt[2] * (z ^ 3 % curve_p)) % curve_p>>

\* P, Q with one Z: P' (P with the new Z) and P + Q.
XYcZ_add(P, Q) ==
    LET A == (Q[1] - P[1]) ^ 2 % curve_p
        B == (P[1] * A) % curve_p
        C == (Q[1] * A) % curve_p
        dy == Q[2] - P[2]
        x3 == (dy ^ 2 - B - C) % curve_p
        E == (P[2] * (C - B)) % curve_p
    IN  [first |-> <<B, E>>, second |-> <<x3, (dy * (B - x3) - E) % curve_p>>]

\* P, Q with one Z: P - Q and P + Q.
XYcZ_addC(P, Q) ==
    LET sum == XYcZ_add(P, Q)
        A == (Q[1] - P[1]) ^ 2 % curve_p
        B == (P[1] * A) % curve_p
        C == (Q[1] * A) % curve_p
        sy == Q[2] + P[2]
        x3 == (sy ^ 2 - B - C) % curve_p
    IN  [first |-> <<x3, (sy * (x3 - B) - P[2] * (C - B)) % curve_p>>, second |-> sum.second]

\* The pair R0 = P', R1 = 2P.
XYcZ_initial_double(P, Z) ==
    LET twice == double_jacobian_default(apply_z(P, Z), Z)
    IN  [R1 |-> twice.pt, R0 |-> apply_z(P, twice.z)]

\* The difference and the sum of the two, starting from the one nb selects,
\* and then the sum of these two.
AddC(R, bit) == IF bit THEN XYcZ_addC(R.R1, R.R0) ELSE XYcZ_addC(R.R0, R.R1)
AddBack(c) == XYcZ_add(c.second, c.first)
Renamed(a, bit) ==
    IF bit THEN [R0 |-> a.first, R1 |-> a.second] ELSE [R1 |-> a.first, R0 |-> a.second]

\* One bit of the ladder: the sum goes to the point nb selects and the other
\* is doubled by adding the two.
Ladder(R, bit) == Renamed(AddBack(AddC(R, bit)), bit)

\* 1/Z from the x coordinates of the last difference and sum.
LastZ(P, c, bit) ==
    LET dx == IF bit THEN c.first[1] - c.second[1] ELSE c.second[1] - c.first[1]
    IN  (InvP((((dx * c.first[2]) % curve_p) * P[1]) % curve_p) * P[2] * c.first[1]) % curve_p

LastBit(P, c, bit) == apply_z(Renamed(AddBack(c), bit).R0, LastZ(P, c, bit))

\* The scalar's bits below num_n_bits; the bit above them is taken as set.
EccPoint_mult(P, scalar, Z) ==
    LET R == FoldLeft(LAMBDA r, j : Ladder(r, TestBit(scalar, num_n_bits - j)),
                      XYcZ_initial_double(P, Z), Upto(num_n_bits - 1))
    IN  LastBit(P, AddC(R, TestBit(scalar, 0)), TestBit(scalar, 0))

\* (mutation) the scalar is used as it is
regularized_never(k) == k

\* k + n, or k + 2n when that has no carry: either has num_n_bits + 1 bits.
regularized(k) ==
    LET words == 2 ^ num_n_bits
        k0 == k + curve_n
    IN  IF k0 >= words THEN k0 % words ELSE (k0 + curve_n) % words

ecdsa_point_mult(P, k) == EccPoint_mult(P, regularized(k), 1)

ecdsa_compress(Q) == <<2 + (Q[2] % 2), Q[1]>>

ecdsa_decompress(c) ==
    LET y == mod_sqrt_default(x_side_default(c[2]))
    IN  <<c[2], IF y % 2 # c[1] % 2 THEN curve_p - y ELSE y>>

ecdsa_valid_point(Q) ==
    /\ Q # ZeroPoint
    /\ Q[1] < curve_p /\ Q[2] < curve_p
    /\ Q[2] ^ 2 % curve_p = x_side_default(Q[1])

-----------------------------------------------------------------------------
(* The reference: the group law in affine coordinates.                      *)

Infinity == <<"infinity">>
Neg(P) == <<P[1], (0 - P[2]) % curve_p>>

Slope(P, Q) ==
    IF P = Q THEN (3 * (P[1] ^ 2 - 1) * InvP((2 * P[2]) % curve_p)) % curve_p
             ELSE ((Q[2] - P[2]) * InvP((Q[1] - P[1]) % curve_p)) % curve_p

GroupAdd(P, Q) ==
    IF P = Infinity THEN Q
    ELSE IF Q = Infinity THEN P
    ELSE IF P[1] = Q[1] /\ P # Q THEN Infinity
    ELSE LET m == Slope(P, Q)
             x3 == (m ^ 2 - P[1] - Q[1]) % curve_p
         IN  <<x3, (m * (P[1] - x3) - P[2]) % curve_p>>

\* Element k + 1 is k times curve_G; every point is one of them.
Multiples ==
    FoldLeft(LAMBDA s, i : Append(s, GroupAdd(s[i], curve_G)), <<Infinity>>, Upto(curve_n - 1))
Times(k) == Multiples[(k % curve_n) + 1]
Points == {Times(k) : k \in 1 .. curve_n - 1}

\* curve_n is a prime and the order of curve_G on the curve.
ASSUME GroupAssumption ==
    /\ curve_n \in Nat /\ curve_n > 1
    /\ \A v \in 1 .. curve_n - 1 : \E i \in Range0(curve_n) : (v * i) % curve_n = 1
    /\ \A k \in 1 .. curve_n - 1 : /\ Times(k) \in Range0(curve_p) \X Range0(curve_p)
                                  /\ ecdsa_valid_point(Times(k))
=============================================================================
