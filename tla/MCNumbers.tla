------------------------------ MODULE MCNumbers ------------------------------
(***************************************************************************)
(* One instance for the two machines built on bignum.c: a behaviour makes  *)
(* one call of a function of bignum.c, or one of                           *)
(* chain_compute_next_target, from every start.                            *)
(***************************************************************************)
EXTENDS BigNumCalls, Retarget

MCHashes == {[i \in 0 .. HashSize - 1 |-> 0],
             [i \in 0 .. HashSize - 1 |-> i % Base],
             [i \in 0 .. HashSize - 1 |-> 1]}
MCTargets == {1, Base - 1} \X (0 .. HashSize)
MCGarbage == {<<0, 0>>, <<Base - 1, 1>>}

numbersVars == <<callsVars, retargetVars>>

NoRetarget ==
    /\ height = 0 /\ time = 0 /\ earlier = 0 /\ diff = 0
    /\ target = CHOOSE t \in Targets : TRUE
    /\ hash_buffer = CHOOSE h \in EarlierHashes : TRUE
    /\ next_target = [g \in Garbage |-> g]
    /\ phase = "not called"

NoCall ==
    /\ big_x = big_uitobig(0, Width) /\ big_y = big_x /\ big_x0 = big_x /\ big_y0 = big_x
    /\ big_res = big_uitobig(0, 2 * Width)
    /\ returned = 0
    /\ called = <<"not called", 0>>

NumbersInit == \/ CallsInit /\ NoRetarget
               \/ RetargetInit /\ NoCall

NumbersNext == \/ CallsNext /\ UNCHANGED retargetVars
               \/ RetargetNext /\ UNCHANGED callsVars

NumbersSpec == NumbersInit /\ [][NumbersNext]_numbersVars
=============================================================================
