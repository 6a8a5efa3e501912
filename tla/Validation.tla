---------------------------- MODULE Validation ----------------------------
(***************************************************************************)
(* validation.c: what a block or a transaction is refused for.  A verdict  *)
(* is "ok", the name of an error, "fatal" where the process ends itself,   *)
(* or "undefined" where the code reads memory that holds nothing of its    *)
(* own.  The chain below a block is the sequence of its ancestors, from    *)
(* its predecessor down to the last one that is stored, each with the      *)
(* height its header claims.  What the code declares and nobody defines    *)
(* (the surplus of a transaction, the output an input refers to) is part   *)
(* of the transaction or the input here.                                   *)
(***************************************************************************)
EXTENDS Records

CONSTANTS
    MINING_REWARD,
    Recalc,         \* CHAIN_RECALC_INTERVAL
    BigSize,        \* size from which a transaction has to pay
    Version         \* __VERSION

ASSUME ValidationAssumption == {MINING_REWARD, Recalc, BigSize} \subseteq Nat

\* A function that makes several checks returns at the first that fails.
FirstError(verdicts) ==
    LET errors == {i \in DOMAIN verdicts : verdicts[i] # "ok"}
    IN  IF errors = {} THEN "ok" ELSE verdicts[Min(errors)]

-----------------------------------------------------------------------------
(* validate_tx_input_chain: the two loops over the inputs of a block.  The  *)
(* inner one is bounded by the inputs of transaction i, not t.              *)

\* The index at which the inner loop ends; behind the last transaction it
\* reads the next pointer to find out.
InnerBound(txs) ==
    Min({i \in 1 .. Len(txs) + 1 : i = Len(txs) + 1 \/ in_count(txs[i]) < i})

LastInner(txs) == IF InnerBound(txs) > Len(txs) THEN InnerBound(txs) ELSE InnerBound(txs) - 1

\* What the loops look at, input i of transaction t being <<t, i>>, and its order.
Visits(txs) == (DOMAIN txs) \X (1 .. LastInner(txs))
NotAfter(v, w) == v[1] < w[1] \/ (v[1] = w[1] /\ v[2] <= w[2])

SameOutput(a, b) == a.out_index = b.out_index /\ a.ref_tx = b.ref_tx

\* Whether the loops count more than limit inputs that spend what input spends
\* before they come to a place outside of the arrays.
CountSpends(txs, input, limit) ==
    LET outside == {v \in Visits(txs) : v[2] > Len(txs) \/ v[2] > in_count(txs[v[1]])}
        spends == {v \in Visits(txs) \ outside : SameOutput(txs[v[1]].ins[v[2]], input)}
        excess == {v \in spends : /\ Cardinality({w \in spends : NotAfter(w, v)}) > limit
                                  /\ \A u \in outside : ~NotAfter(u, v)}
    IN  IF excess # {} THEN "doublespend" ELSE IF outside # {} THEN "undefined" ELSE "ok"

\* (mutation) the walk stops one block earlier
Walked_short(height, chain) ==
    IF height \in {1, 2} THEN 0
    ELSE Min({j \in DOMAIN chain : chain[j].height \in {1, 2}} \cup {Len(chain) + 1})

\* How many ancestors the walk looks at.  It ends when the height below is 0,
\* by the header it came from, which nobody checked: below a height of 0 it
\* is 2^32 - 1 and the walk goes on.
Walked(height, chain) ==
    IF height = 1 THEN 0
    ELSE Min({j \in DOMAIN chain : chain[j].height = 1} \cup {Len(chain) + 1})

\* Every transaction of a block that is loaded again is its first one.
Loaded(txs) == [t \in DOMAIN txs |-> txs[1]]

validate_tx_input_chain(input, parent, chain) ==
    LET own == CountSpends(parent.txs, input, 1)
        seen(j) == IF j > Len(chain) THEN "undefined"    \* no block: NULL is dereferenced
                                    ELSE CountSpends(Loaded(chain[j].txs), input, 0)
    IN  IF own # "ok" THEN own
        ELSE FirstError([j \in 1 .. Walked(parent.header.height, chain) |-> seen(j)])

-----------------------------------------------------------------------------
SumOf(s, f(_)) == SumBelow([i \in 0 .. Len(s) - 1 |-> f(s[i + 1])], Len(s))
Amounts(outs) == SumOf(outs, LAMBDA o : o.amount)
Inputs(ins) == SumOf(ins, LAMBDA i : i.amount)

\* (mutation) the amount of the first output only
OutputSum_once(outs) == IF outs = <<>> THEN 0 ELSE outs[1].amount

\* The first output's amount, once for every output.
OutputSum(outs) == SumOf(outs, LAMBDA o : outs[1].amount)

\* index counts from 0, as in the code.
validate_tx_chain(tx, index, parent, chain) ==
    IF index = 0 /\ in_count(tx) = 0
    THEN IF Amounts(tx.outs) > SumOf(parent.txs, LAMBDA t : t.surplus) + MINING_REWARD
         THEN "bad coinbase" ELSE "ok"
    ELSE IF in_count(tx) = 0 THEN "bad in_count"
    ELSE IF OutputSum(tx.outs) > Inputs(tx.ins) THEN "overspend"
    ELSE FirstError([i \in DOMAIN tx.ins |-> validate_tx_input_chain(tx.ins[i], parent, chain)])

-----------------------------------------------------------------------------
\* What is verified: as many bytes as a hash has, from the start of what
\* should have been hashed.
SignedBytes(tx) ==
    LET b == tx_generate_signable_hash(tx) IN SubSeq(b, 1, Min({HashSize, Len(b)}))

\* A signature is, for its key, the bytes it was made for.
validate_tx_input_pseudo(input, tx) ==
    IF input.sig = SignedBytes(tx) THEN "ok" ELSE "bad sig"

validate_tx_pseudo(tx) ==
    IF tx_compute_size(tx) > BigSize /\ tx.surplus < tx.required THEN "bad surplus"
    ELSE FirstError([i \in DOMAIN tx.ins |-> validate_tx_input_pseudo(tx.ins[i], tx)])

\* The target as a number, g being what the array held in the bytes that
\* target_to_btarget does not write.  Numbers leave out the lowest byte, at
\* which big_comp does not look.
Btarget(target, g) == target + g

\* hashes tells whether block_compute_hash is the one that computes a hash or
\* the one in the repository, which ends the process.  root is the root of
\* the header, true_root the one of the transactions.
validate_block_pseudo(b, hashes, g) ==
    IF ~hashes THEN "fatal"
    ELSE IF Btarget(b.target, g) > b.hash THEN "bad hash"
    ELSE IF b.version # Version THEN "bad version"
    ELSE IF b.txs = <<>> THEN "undefined"     \* the root of no transactions
    ELSE IF b.root # b.true_root THEN "bad root"
    ELSE FirstError([i \in DOMAIN b.txs |-> validate_tx_pseudo(b.txs[i])])

\* Two arrays are compared by their addresses.
TargetKept(b, prev) == FALSE

\* (mutation) a block as old as its predecessor is let through
validate_block_chain_same_time(b, prev, hashes) ==
    IF b.height = 0
    THEN {IF ~hashes THEN "fatal" ELSE IF b.hash = b.first THEN "ok" ELSE "bad height"}
    ELSE IF ~prev.stored THEN {"undefined"}
    ELSE IF b.time < prev.time THEN {"bad time"}
    ELSE {"ok", "bad target"}

\* The verdicts that are possible: from the first retargeting on, two
\* buffers of which a byte or two were written are compared in full.  The
\* heights of the two blocks and the block's transactions are not looked at.
validate_block_chain(b, prev, hashes) ==
    IF b.height = 0
    THEN {IF ~hashes THEN "fatal" ELSE IF b.hash = b.first THEN "ok" ELSE "bad height"}
    ELSE IF ~prev.stored THEN {"undefined"}
    ELSE IF b.time <= prev.time THEN {"bad time"}
    ELSE IF b.height < Recalc THEN {IF TargetKept(b, prev) THEN "ok" ELSE "bad target"}
    ELSE {"ok", "bad target"}
=============================================================================
