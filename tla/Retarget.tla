------------------------------ MODULE Retarget ------------------------------
(***************************************************************************)
(* chain_compute_next_target (lib/src/chain.c): the target that follows a  *)
(* block.  The computation works on three arrays of the size of a hash,    *)
(* the first of which still holds the hash of the block one interval ago.  *)
(* The next target is kept for every content of the caller's variable      *)
(* before the call, so that a branch that writes nothing shows.            *)
(* io_block_at_height, which finds the earlier block, is not in the        *)
(* repository.                                                             *)
(***************************************************************************)
EXTENDS BigNum

CONSTANTS
    HashSize,       \* bytes in a hash: 32
    Interval,       \* CHAIN_RECALC_INTERVAL
    HalfWeek,       \* SECONDS_IN_HALF_WEEK
    EightWeeks,     \* SECONDS_IN_8_WEEKS
    MaxHeight,      \* bound on heights
    EarlierHashes,  \* hashes the earlier block may have
    Targets,        \* targets the block may have
    Garbage         \* what next_target may hold before the call

UInt == Place(Word)     \* values of a uint32_t

\* The bounds are numbers of a uint32_t.
ASSUME RetargetAssumption ==
    HalfWeek \in Nat /\ EightWeeks \in Nat /\ HalfWeek <= EightWeeks /\ EightWeeks < UInt

VARIABLES
    height, target, time,   \* header_b
    earlier,                \* header_a.time
    hash_buffer,            \* hash_buffer_1 after io_block_at_height
    next_target,            \* the caller's two bytes, by what they held before
    diff,                   \* the seconds the computation used
    phase                   \* "not called", "call", "kept", "computed", "overrun", "not due"

inputs == <<height, target, time, earlier, hash_buffer>>
retargetVars == <<inputs, next_target, diff, phase>>

RetargetInit ==
    /\ height \in 0 .. MaxHeight
    /\ target \in Targets
    /\ time \in 0 .. UInt - 1 /\ earlier \in 0 .. UInt - 1
    /\ hash_buffer \in EarlierHashes
    /\ next_target = [g \in Garbage |-> g]
    /\ diff = 0
    /\ phase = "call"

(* Mutation: no lower bound.                                               *)
ClampedAbove(later, sooner) ==
    LET d == (later - sooner) % UInt
    IN  IF d > EightWeeks THEN EightWeeks ELSE d

(* header_b->time - header_a.time in 32 bits, held between the bounds.     *)
Clamped(later, sooner) ==
    LET d == (later - sooner) % UInt
    IN  IF d > EightWeeks THEN EightWeeks
        ELSE IF d < HalfWeek THEN HalfWeek ELSE d

(* height < CHAIN_RECALC_INTERVAL                                          *)
Keep ==
    /\ phase = "call"
    /\ height < Interval
    /\ next_target' = [g \in Garbage |-> target]
    /\ phase' = "kept"
    /\ UNCHANGED <<inputs, diff>>

(* height % CHAIN_RECALC_INTERVAL = 0: the target times the seconds, by 2. *)
Due ==
    /\ phase = "call"
    /\ height >= Interval
    /\ height % Interval = 0
    /\ diff' = Clamped(time, earlier)
    /\ UNCHANGED inputs

(* The target's place is one of the array's, and so is every byte of the   *)
(* product.                                                                *)
WithinArrays(seconds) ==
    /\ target[2] \in 1 .. HashSize
    /\ big_length(target_to_btarget(target, hash_buffer)) + big_length(big_uitobig(seconds, HashSize)) <= HashSize

Recompute ==
    /\ Due
    /\ WithinArrays(diff')
    /\ LET bignum1 == target_to_btarget(target, hash_buffer)
           bignum2 == big_uitobig(diff', HashSize)
           bignum3 == big_mult(bignum1, bignum2, HashSize)
           quotient == big_div(bignum3, 2)
       IN  next_target' = [g \in Garbage |-> btarget_to_target(quotient, next_target[g])]
    /\ phase' = "computed"

(* Bytes are written in front of or behind an array.  free() ends the      *)
(* process for it, or the call returns bytes nothing is known of: the      *)
(* behaviour is not followed any further.                                  *)
Overrun ==
    /\ Due
    /\ ~WithinArrays(diff')
    /\ phase' = "overrun"
    /\ UNCHANGED next_target

(* Any other height: nothing is written.                                   *)
NotDue ==
    /\ phase = "call"
    /\ height >= Interval
    /\ height % Interval # 0
    /\ phase' = "not due"
    /\ UNCHANGED <<inputs, next_target, diff>>

RetargetNext == Keep \/ Recompute \/ Overrun \/ NotDue

RetargetSpec == RetargetInit /\ [][RetargetNext]_retargetVars

-----------------------------------------------------------------------------
(* The seconds between two retargetings enter the computation within the   *)
(* bounds, also when the difference of the two times wraps around: a block *)
(* that is older than the one an interval below it counts as the slowest   *)
(* possible interval, unless it is so much older that the difference comes *)
(* round to a small number.                                                *)
SecondsBounded ==
    phase \in {"computed", "overrun"} =>
        /\ diff \in HalfWeek .. EightWeeks
        /\ time - earlier \in HalfWeek .. EightWeeks => diff = time - earlier
        /\ time >= earlier /\ time - earlier < HalfWeek => diff = HalfWeek
        /\ time < earlier /\ earlier - time < UInt - EightWeeks => diff = EightWeeks

(* README.md, "Block validation (chain)": the target that follows a block  *)
(* is a function of that block and of the one an interval before it.  So   *)
(* between two retargetings it is not what the caller's two bytes happened *)
(* to hold.                                                                *)
NextTargetIsDefined ==
    phase = "not due" => \A g, h \in Garbage : next_target[g] = next_target[h]
=============================================================================
