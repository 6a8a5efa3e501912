------------------------------- MODULE BigNum -------------------------------
(***************************************************************************)
(* lib/src/bignum.c: unsigned numbers as arrays of bytes, least            *)
(* significant byte first.  A bignum_t of size n is a function on          *)
(* 0 .. n - 1; the functions of bignum.c are operators from the bytes they *)
(* read to the bytes they write.                                           *)
(*                                                                         *)
(* Base stands for the 256 values of a byte and Word for the four bytes of *)
(* a uint32_t; the accumulators of big_add and big_mult never come near    *)
(* 2^32 and are plain integers, the 16-bit one of big_div does overflow.   *)
(***************************************************************************)
EXTENDS FiniteSetsExt, Sums

CONSTANTS Base, Word

ASSUME BigNumAssumption == Base \in Nat /\ Base > 2 /\ Word \in Nat /\ Word > 0

BigNum(size) == [0 .. size - 1 -> 0 .. Base - 1]
Size(a) == Cardinality(DOMAIN a)

(* The number an array stands for.                                         *)
Place(i) == Power(Base, i)
Value(a) == SumBelow([i \in DOMAIN a |-> a[i] * Place(i)], Size(a))

big_uitobig(src, size) ==
    [i \in 0 .. size - 1 |-> IF i < Word THEN (src \div Place(i)) % Base ELSE 0]

big_bigtoui(a) == Value([i \in 0 .. Word - 1 |-> a[i]])

(* The loop stops in front of index 0 and then returns the index, which is *)
(* 0: the length of a number of one byte is that of zero.                  *)
big_length(a) ==
    LET used == {i \in DOMAIN a : i > 0 /\ a[i] # 0}
    IN  IF used = {} THEN 0 ELSE Max(used) + 1

(* The byte at index 0 is not looked at.                                   *)
big_comp(a, b) ==
    LET differ == {i \in DOMAIN a : i > 0 /\ a[i] # b[i]}
    IN  IF differ = {} THEN 0
        ELSE IF a[Max(differ)] < b[Max(differ)] THEN -1 ELSE 1

(* t[i] is the accumulator after index i when column[i] is added there and *)
(* what is above a byte is carried to the next index.                      *)
Carried(column, n) ==
    LET t[i \in 0 .. n - 1] == (IF i = 0 THEN 0 ELSE t[i - 1] \div Base) + column[i] IN t

\* (mutation) no carry into the second loop
AddIntoWithoutCarry(a, b) ==
    LET blen == big_length(b)
        count == Min({big_length(a), blen})
        t == Carried([i \in DOMAIN b |-> (IF i < count THEN a[i] ELSE 0) + b[i]], blen)
    IN  [i \in DOMAIN b |-> IF count > 0 /\ i < count THEN t[i] % Base ELSE b[i]]

(* big_add's two loops, for a not above b.  The carry of the last byte of  *)
(* b's length is dropped; the second loop's stop at t = 0 changes no byte. *)
AddInto(a, b) ==
    LET blen == big_length(b)
        count == Min({big_length(a), blen})
        t == Carried([i \in DOMAIN b |-> (IF i < count THEN a[i] ELSE 0) + b[i]], blen)
    IN  [i \in DOMAIN b |-> IF count > 0 /\ i < blen THEN t[i] % Base ELSE b[i]]

(* What b, and with swapped operands a, hold when big_add returns.         *)
big_add(a, b) ==
    IF big_comp(a, b) > 0
    THEN [a |-> AddInto(b, a), b |-> AddInto(b, a)]
    ELSE [a |-> a, b |-> AddInto(a, b)]

(* One column of the long multiplication: the products that index i        *)
(* collects.  blen - 1 is unsigned, so with a length of 0 it is larger     *)
(* than every index.                                                       *)
Column(a, b, i) ==
    LET alen == big_length(a)
        blen == big_length(b)
        i2 == IF blen = 0 \/ i < blen - 1 THEN i ELSE blen - 1
        i1 == i - i2
        count2 == Min({alen - i1, i2 + 1})
    IN  SumBelow([j \in 0 .. count2 - 1 |-> a[i1 + j] * b[i2 - j]], count2)

(* The bytes big_mult computes, index 0 upwards; it writes all of them,    *)
(* also the ones res has no room for.                                      *)
Product(a, b) ==
    LET count1 == big_length(a) + big_length(b)
        t == Carried([i \in 0 .. count1 - 1 |-> Column(a, b, i)], count1)
    IN  [i \in 0 .. count1 - 1 |-> t[i] % Base]

big_mult(a, b, size) ==
    LET p == Product(a, b)
    IN  [i \in 0 .. size - 1 |-> IF i \in DOMAIN p THEN p[i] ELSE 0]

(* big_div from the highest byte down: temp[k] is the 16-bit remainder     *)
(* with the byte shifted in that is the k-th from the top.                 *)
DivDigit(temp, d) == (temp \div d) % Base

Temps(a, d) ==
    LET top == Size(a) - 1
        temp[k \in 0 .. top] ==
            IF k = 0 THEN a[top]
            ELSE LET above == temp[k - 1]
                     rest == (above - DivDigit(above, d) * d) % (Base * Base)
                 IN  ((rest * Base) % (Base * Base)) + a[top - k]
    IN  temp

big_div(a, d) == [i \in DOMAIN a |-> DivDigit(Temps(a, d)[Size(a) - 1 - i], d)]

(* A target is a byte and its place, counted from 1.  The other bytes of   *)
(* the bignum stay as they are.  The place has to be one of the array's:   *)
(* the code writes to any other just the same (Retarget!Overrun).          *)
target_to_btarget(target, btarget) ==
    [i \in DOMAIN btarget |-> IF i = target[2] - 1 THEN target[1] ELSE btarget[i]]

(* The loop stops at the highest byte that is 0, not at the highest that   *)
(* is not; without one it writes nothing.                                  *)
btarget_to_target(btarget, target) ==
    LET zero == {i \in DOMAIN btarget : i > 0 /\ btarget[i] = 0}
    IN  IF zero = {} THEN target
        ELSE <<btarget[Max(zero)], Max(zero) + 1>>
=============================================================================
