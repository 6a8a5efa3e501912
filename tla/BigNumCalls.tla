----------------------------- MODULE BigNumCalls -----------------------------
(***************************************************************************)
(* Calls of the functions of bignum.c on two arrays big_x and big_y and a  *)
(* result big_res, and what they compute compared with integer arithmetic. *)
(***************************************************************************)
EXTENDS BigNum

CONSTANTS
    Width,      \* bytes in big_x and big_y; the result has twice as many
    Divisors    \* arguments of big_div

\* big_uitobig writes Word bytes, whatever the array's size is.
ASSUME CallsAssumption ==
    /\ Width \in Nat \ {0} /\ Word <= 2 * Width
    /\ Divisors \subseteq Nat \ {0}

VARIABLES
    big_x, big_y,       \* the arrays
    big_res,            \* the result array
    returned,           \* the number returned
    big_x0, big_y0,     \* history: the arrays before the call
    called              \* history: the function called and its integer argument

callsVars == <<big_x, big_y, big_res, returned, big_x0, big_y0, called>>

CallsInit ==
    /\ big_x \in BigNum(Width) /\ big_y \in BigNum(Width)
    /\ big_res = big_uitobig(0, 2 * Width)
    /\ returned = 0
    /\ big_x0 = big_x /\ big_y0 = big_y
    /\ called = <<"none", 0>>

Idle == called[1] = "none"

Add ==
    /\ Idle
    /\ LET sum == big_add(big_x, big_y) IN big_x' = sum.a /\ big_y' = sum.b
    /\ called' = <<"add", 0>>
    /\ UNCHANGED <<big_res, returned, big_x0, big_y0>>

Mult ==
    /\ Idle
    /\ big_res' = big_mult(big_x, big_y, 2 * Width)
    /\ called' = <<"mult", 0>>
    /\ UNCHANGED <<big_x, big_y, returned, big_x0, big_y0>>

Div(d) ==
    /\ Idle
    /\ big_res' = [i \in 0 .. 2 * Width - 1 |-> IF i < Width THEN big_div(big_x, d)[i] ELSE 0]
    /\ called' = <<"div", d>>
    /\ UNCHANGED <<big_x, big_y, returned, big_x0, big_y0>>

Comp ==
    /\ Idle
    /\ returned' = big_comp(big_x, big_y)
    /\ called' = <<"comp", 0>>
    /\ UNCHANGED <<big_x, big_y, big_res, big_x0, big_y0>>

(* big_uitobig and back, as chain_compute_next_target and the tests use    *)
(* them, on a number that fits a uint32_t.                                 *)
Convert ==
    /\ Idle
    /\ Value(big_x) < Place(Word)
    /\ big_res' = big_uitobig(Value(big_x), 2 * Width)
    /\ returned' = big_bigtoui(big_res')
    /\ called' = <<"convert", 0>>
    /\ UNCHANGED <<big_x, big_y, big_x0, big_y0>>

CallsNext == Add \/ Mult \/ (\E d \in Divisors : Div(d)) \/ Comp \/ Convert

CallsSpec == CallsInit /\ [][CallsNext]_callsVars

-----------------------------------------------------------------------------
Called(f) == called[1] = f

(* big_add is right exactly when its shorter operand has at least two      *)
(* bytes, or is zero, and the sum has no more bytes than the longer one:   *)
(* a carry out of the longer operand and an operand of one byte are        *)
(* dropped.  It is right within these limits whatever the carries inside.  *)
AddExactWithinLength ==
    Called("add") =>
        LET swapped == big_comp(big_x0, big_y0) > 0
            short == IF swapped THEN big_y0 ELSE big_x0
            long == IF swapped THEN big_x0 ELSE big_y0
            sum == Value(big_x0) + Value(big_y0)
            within == IF big_length(short) = 0 THEN Value(short) = 0
                                               ELSE sum < Place(big_length(long))
        IN  /\ (Value(big_y) = sum) <=> within
            /\ swapped => big_x = big_y
            /\ ~swapped => big_x = big_x0

(* big_mult, given room for the product, is right exactly when both        *)
(* operands have at least two bytes, or the product needs no byte beyond   *)
(* the length of the longer one.                                           *)
MultExactFromTwoBytes ==
    Called("mult") =>
        LET alen == big_length(big_x0)
            blen == big_length(big_y0)
            exact == Value(big_x0) * Value(big_y0)
            within == \/ alen > 0 /\ blen > 0
                      \/ alen = 0 /\ exact = 0
                      \/ blen = 0 /\ exact < Place(alen)
        IN  (Value(big_res) = exact) <=> within

(* big_div by a number that fits a byte, or by 256, is exact whatever the  *)
(* remainders on the way: the 16-bit remainder cannot overflow.            *)
DivExactUpToBase ==
    Called("div") /\ called[2] <= Base => Value(big_res) = Value(big_x0) \div called[2]

(* big_comp never contradicts the order of the numbers, and calls numbers  *)
(* equal only if at most their lowest bytes differ.                        *)
CompSound ==
    Called("comp") =>
        /\ returned > 0 => Value(big_x) > Value(big_y)
        /\ returned < 0 => Value(big_x) < Value(big_y)
        /\ returned = 0 => Value(big_x) \div Base = Value(big_y) \div Base

(* big_uitobig followed by big_bigtoui returns the number.                 *)
ConvertRoundTrip ==
    Called("convert") => returned = Value(big_x0) /\ Value(big_res) = Value(big_x0)

(* bignum.c agrees with the integers within these limits.                  *)
ArithmeticExact ==
    /\ AddExactWithinLength /\ MultExactFromTwoBytes /\ DivExactUpToBase
    /\ CompSound /\ ConvertRoundTrip
=============================================================================
