---------------------------- MODULE MCArithmetic ----------------------------
(***************************************************************************)
(* One instance for what the library computes with: a behaviour works on   *)
(* big numbers (MCNumbers), on a SHA-256 context, or on ecdsa.c, where it  *)
(* makes one call of the word arithmetic or runs the programs that make    *)
(* keys and signatures.                                                    *)
(*                                                                         *)
(* A SHA-256 block has 8 bytes whose last two are the length: a length     *)
(* word is one byte, so it overflows after 32 bytes of message.  The curve *)
(* is secp256r1's equation over its prime with 2 in the place of 2^32:     *)
(* 199, with a group of prime order 193 below it.                          *)
(***************************************************************************)
EXTENDS MCNumbers, Sha256, Ecdsa, VliCalls

CONSTANT MaxLen     \* longest message

\* Every length up to MaxLen, in two fillings: bytes that tell their place, and
\* bytes that look like padding.
MCMessages ==
    {[i \in 1 .. n |-> i] : n \in 0 .. MaxLen}
        \cup {[i \in 1 .. n |-> 128] : n \in 1 .. MaxLen}

MCG == <<4, 142>>
Factors == {0, 1, 2, 3, 50, 64, 100, 127, 128, 150, 170, 192, 196, 197, 198}
MCProducts64 == {a * b : a, b \in Factors}
WideFactors == {0, 1, 3, 255, 256, 4095, 16383, 16384, 21845, 30000, 40961, 43690, 46340}
MCProducts32 == {a * b : a, b \in WideFactors}

shaVars == vars
signVars == <<ecdsaVars, vli>>
arithmeticVars == <<numbersVars, shaVars, signVars>>

\* A context nobody uses.
NoStream ==
    /\ data = [i \in 0 .. Block - 1 |-> 0] /\ datalen = 0 /\ bitlen = [w \in {0, 1} |-> 0]
    /\ fed = << >> /\ message = << >> /\ pos = 0
    /\ stage = "not used"

NoNumbers == NoRetarget /\ NoCall

ArithmeticInit ==
    /\ EcdsaInit /\ VliInit
    /\ \/ NumbersInit /\ NoStream
       \/ Init /\ NoNumbers
       \/ NoNumbers /\ NoStream

OnEcdsa == phase = "not called" /\ called[1] = "not called" /\ stage = "not used"

ArithmeticNext ==
    \/ NumbersNext /\ UNCHANGED <<shaVars, signVars>>
    \/ Next /\ UNCHANGED <<numbersVars, signVars>>
    \/ OnEcdsa /\ vli.f = "none" /\ EcdsaNext /\ UNCHANGED <<numbersVars, shaVars, vli>>
    \/ OnEcdsa /\ Fresh /\ VliNext /\ UNCHANGED <<numbersVars, shaVars, ecdsaVars>>

\* The random number generator answers or fails.
ArithmeticSpec ==
    /\ ArithmeticInit /\ [][ArithmeticNext]_arithmeticVars
    /\ WF_arithmeticVars(OnEcdsa /\ Drawn /\ UNCHANGED <<numbersVars, shaVars, vli>>)
=============================================================================
