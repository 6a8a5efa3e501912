---------------------------- MODULE RecordProofs ----------------------------
(***************************************************************************)
(* Records for any number of transactions, inputs, outputs, leaves and     *)
(* ancestors: what follows from a block or a transaction being accepted,   *)
(* and from an input being refused as a double spend; what look-ups find,  *)
(* the root of a Merkle tree, and what is read back from bytes.            *)
(***************************************************************************)
EXTENDS RecordCalls, SumProofs, SequenceTheorems, FiniteSetTheorems

-----------------------------------------------------------------------------
(* Sequences and least elements.                                            *)

\* A function on 1 .. k is a sequence of length k.
LEMMA FunctionIsSeq ==
  ASSUME NEW S, NEW k \in Nat, NEW f, f \in [1 .. k -> S]
  PROVE  f \in Seq(S) /\ Len(f) = k /\ DOMAIN f = 1 .. k
<1>1. f \in Seq(S) /\ DOMAIN f = 1 .. k
  BY SeqDef
<1>2. Len(f) \in Nat /\ 1 .. Len(f) = 1 .. k
  BY <1>1, LenProperties
<1> DEFINE l == Len(f)
<1> HIDE DEF l
<1>3. l \in Nat /\ 1 .. l = 1 .. k
  BY <1>2 DEF l
<1>4. CASE l > k
  <2>1. l \in 1 .. l /\ ~(l \in 1 .. k)
    BY <1>3, <1>4
  <2> QED
    BY <1>3, <2>1
<1>5. CASE l < k
  <2>1. k \in 1 .. k /\ ~(k \in 1 .. l)
    BY <1>3, <1>5
  <2> QED
    BY <1>3, <2>1
<1>6. l = k
  BY <1>3, <1>4, <1>5
<1> QED
  BY <1>1, <1>6 DEF l

LEMMA UpToIs ==
  ASSUME NEW S, NEW n \in Nat, NEW f \in UpTo(S, n)
  PROVE  f \in Seq(S) /\ Len(f) \in 0 .. n /\ DOMAIN f = 1 .. Len(f) /\ \A i \in DOMAIN f : f[i] \in S
<1>1. PICK k \in 0 .. n : f \in [1 .. k -> S]
  BY DEF UpTo
<1>2. f \in Seq(S) /\ Len(f) = k /\ DOMAIN f = 1 .. k
  BY <1>1, FunctionIsSeq
<1> QED
  BY <1>1, <1>2

\* A set of natural numbers that is not empty has a least element.
LEMMA MinIs ==
  ASSUME NEW S, S \subseteq Nat, S # {}
  PROVE  Min(S) \in S /\ \A j \in S : Min(S) <= j
<1> DEFINE HasMin == \E m \in S : \A j \in S : m <= j
           T == {n \in Nat : \A j \in S : n <= j}
<1>1. HasMin
  <2> SUFFICES ASSUME ~HasMin
               PROVE  FALSE
    OBVIOUS
  <2>1. 0 \in T
    OBVIOUS
  <2>2. ASSUME NEW n \in Nat, n \in T
        PROVE  n + 1 \in T
    <3>1. n \notin S
      BY <2>2
    <3>2. \A j \in S : n <= j /\ n # j /\ j \in Nat
      BY <2>2, <3>1
    <3> QED
      BY <3>2
  <2> HIDE DEF T
  <2>3. \A n \in Nat : n \in T
    BY <2>1, <2>2, SetInduction
  <2>4. PICK j \in S : j \in Nat
    OBVIOUS
  <2>5. j + 1 \in T
    BY <2>3, <2>4
  <2> QED
    BY <2>4, <2>5 DEF T
<1> QED
  BY <1>1 DEF Min

-----------------------------------------------------------------------------
(* The first check that fails.                                              *)

LEMMA FirstErrorIs ==
  ASSUME NEW v, DOMAIN v \subseteq Nat
  PROVE  \/ FirstError(v) = "ok" /\ \A i \in DOMAIN v : v[i] = "ok"
         \/ \E i \in DOMAIN v : /\ v[i] # "ok" /\ FirstError(v) = v[i]
                                /\ \A j \in DOMAIN v : j < i => v[j] = "ok"
<1> DEFINE errors == {i \in DOMAIN v : v[i] # "ok"}
<1>1. FirstError(v) = IF errors = {} THEN "ok" ELSE v[Min(errors)]
  BY DEF FirstError
<1>2. errors \subseteq Nat /\ \A i \in DOMAIN v : v[i] # "ok" => i \in errors
  OBVIOUS
<1>3. \A i \in errors : i \in DOMAIN v /\ v[i] # "ok"
  OBVIOUS
<1> HIDE DEF errors
<1>4. CASE errors = {}
  BY <1>1, <1>2, <1>4
<1>5. CASE errors # {}
  <2> DEFINE i == Min(errors)
  <2>1. i \in errors /\ \A j \in errors : i <= j
    BY <1>2, <1>5, MinIs
  <2>2. i \in DOMAIN v /\ v[i] # "ok" /\ FirstError(v) = v[i]
    BY <1>1, <1>3, <1>5, <2>1
  <2>3. \A j \in DOMAIN v : j < i => v[j] = "ok"
    <3> HIDE DEF i
    <3> SUFFICES ASSUME NEW j \in DOMAIN v, j < i, v[j] # "ok"
                 PROVE  FALSE
      OBVIOUS
    <3>1. j \in errors /\ i \in Nat /\ j \in Nat
      BY <1>2, <2>1
    <3>2. i <= j
      BY <2>1, <3>1
    <3> QED
      BY <3>1, <3>2
  <2> QED
    BY <2>2, <2>3
<1> QED
  BY <1>4, <1>5

-----------------------------------------------------------------------------
(* The calls.                                                               *)

\* What a step that is not about validation leaves in rc.
OtherCalls == {"convert", "tx", "block", "merkle", "list", "load"}

LEMMA CallIs ==
  ASSUME NEW f, NEW a, NEW r, Call(f, a, r)
  PROVE  rc'.f = f /\ rc'.args = a /\ rc'.result = r
BY DEF Call

\* What the arguments of the checks of a block have in common.
Judgeable(b) ==
    /\ b.hash \in Nat /\ b.target \in Nat /\ b.height \in Nat
    /\ DOMAIN b.txs \subseteq Nat
    /\ \A t \in DOMAIN b.txs : /\ DOMAIN b.txs[t].ins \subseteq Nat
                               /\ b.txs[t].surplus \in Nat /\ b.txs[t].required \in Nat

\* Which call a step makes.
LEMMA StepIs ==
  ASSUME RecordsNext
  PROVE  \/ rc'.f = "convert" /\ Converting
         \/ rc'.f = "tx" /\ StoringTx
         \/ rc'.f = "block" /\ StoringBlock
         \/ rc'.f = "merkle" /\ Hashing
         \/ rc'.f = "list" /\ Listing
         \/ rc'.f = "load" /\ LookingUp
         \/ rc'.f = "spend" /\ Spending
         \/ rc'.f = "pay" /\ Paying
         \/ rc'.f = "judge" /\ Judging
<1>1. Converting => rc'.f = "convert"
  BY CallIs DEF Converting, Convert
<1>2. StoringTx => rc'.f = "tx"
  BY CallIs DEF StoringTx, StoreTx
<1>3. StoringBlock => rc'.f = "block"
  BY CallIs DEF StoringBlock, StoreBlock
<1>5. Hashing => rc'.f = "merkle"
  BY CallIs DEF Hashing, Root
<1>6. Listing => rc'.f = "list"
  BY CallIs DEF Listing, Lists
<1>7. LookingUp => rc'.f = "load"
  BY CallIs DEF LookingUp, Lookup
<1>8. Spending => rc'.f = "spend"
  BY CallIs DEF Spending, Spend
<1>9. Paying => rc'.f = "pay"
  BY CallIs DEF Paying, Pay
<1>10. Judging => rc'.f = "judge"
  BY CallIs DEF Judging, Judge
<1> QED
  BY <1>1, <1>2, <1>3, <1>5, <1>6, <1>7, <1>8, <1>9, <1>10 DEF RecordsNext

LEMMA NextIs ==
  ASSUME RecordsNext
  PROVE  rc'.f \in OtherCalls \/ Spending \/ Paying \/ Judging
BY StepIs DEF OtherCalls

\* The sizes and bounds are natural numbers.
LEMMA SizesAre ==
  /\ HashSize \in Nat /\ HashSize > 2 /\ KeySize \in Nat \ {0} /\ SigSize \in Nat \ {0} /\ Wrap \in Nat \ {0}
  /\ MaxItems \in Nat \ {0} /\ MaxItems < 65536 /\ MaxTxs \in Nat \ {0}
  /\ MaxLeaves \in Nat \ {0} /\ MaxHeight \in Nat \ {0}
BY RecordsAssumption DEF US, Shorts

LEMMA JudgingIs ==
  ASSUME Judging
  PROVE  \E b, prev, hashes : Judgeable(b) /\ b.time \in Nat /\ prev.time \in Nat /\ Judge(b, prev, hashes)
<1>1. PICK hash \in 0 .. 2, target \in 1 .. 2, root, time \in 0 .. 1, stored, hashes \in BOOLEAN,
           version \in {Version, Version + 1}, height, below \in 0 .. Recalc + 1,
           txs \in UpTo(JudgedTxs, MaxTxs) :
          Judge([target |-> target, hash |-> hash, version |-> version, root |-> root, true_root |-> 0,
                 txs |-> txs, height |-> height, time |-> time, first |-> 1],
                [stored |-> stored, time |-> 0, target |-> 1, height |-> below], hashes)
  BY DEF Judging
<1> DEFINE b == [target |-> target, hash |-> hash, version |-> version, root |-> root, true_root |-> 0,
                 txs |-> txs, height |-> height, time |-> time, first |-> 1]
           prev == [stored |-> stored, time |-> 0, target |-> 1, height |-> below]
<1>2. \A tx \in JudgedTxs : DOMAIN tx.ins \subseteq Nat /\ tx.surplus \in Nat /\ tx.required \in Nat
  <2>1. ASSUME NEW signed \in BOOLEAN, NEW surplus \in 0 .. 1
        PROVE  LET tx == Judged(signed, surplus)
               IN  DOMAIN tx.ins \subseteq Nat /\ tx.surplus \in Nat /\ tx.required \in Nat
    BY DEF Judged
  <2>2. DOMAIN Coinbase.ins \subseteq Nat /\ Coinbase.surplus \in Nat /\ Coinbase.required \in Nat
    BY DEF Coinbase
  <2> QED
    BY <2>1, <2>2 DEF JudgedTxs
<1>3. Len(txs) \in Nat /\ DOMAIN txs = 1 .. Len(txs) /\ \A t \in DOMAIN txs : txs[t] \in JudgedTxs
  BY <1>1, SizesAre, UpToIs
<1>4. DOMAIN txs \subseteq Nat
  BY <1>3
<1>5. b.hash \in Nat /\ b.target \in Nat /\ b.height \in Nat /\ b.txs = txs /\ b.time \in Nat /\ prev.time \in Nat
  BY <1>1, ValidationAssumption
<1>6. Judge(b, prev, hashes)
  BY <1>1
<1> HIDE DEF b, prev
<1>7. Judgeable(b)
  BY <1>2, <1>3, <1>4, <1>5 DEF Judgeable
<1> QED
  BY <1>5, <1>6, <1>7

-----------------------------------------------------------------------------
(* Blocks.                                                                  *)

\* What validate_block_pseudo lets pass, for any number of transactions and
\* inputs.
LEMMA PseudoOk ==
  ASSUME NEW b, Judgeable(b), NEW hashes, NEW g \in Nat,
         validate_block_pseudo(b, hashes, g) = "ok"
  PROVE  /\ b.version = Version
         /\ b.root = b.true_root
         /\ \A t \in DOMAIN b.txs :
              /\ \A i \in DOMAIN b.txs[t].ins : b.txs[t].ins[i].sig = SignedBytes(b.txs[t])
              /\ tx_compute_size(b.txs[t]) > BigSize => b.txs[t].surplus >= b.txs[t].required
<1> DEFINE v == [i \in DOMAIN b.txs |-> validate_tx_pseudo(b.txs[i])]
<1>1. b.version = Version /\ b.root = b.true_root /\ FirstError(v) = "ok"
  BY DEF validate_block_pseudo
<1>3. DOMAIN v = DOMAIN b.txs /\ \A i \in DOMAIN b.txs : v[i] = validate_tx_pseudo(b.txs[i])
  OBVIOUS
<1>4. DOMAIN v \subseteq Nat
  BY <1>3 DEF Judgeable
<1> HIDE DEF v
<1>5. \A i \in DOMAIN v : v[i] = "ok"
  BY <1>1, <1>4, FirstErrorIs
<1>6. ASSUME NEW t \in DOMAIN b.txs
      PROVE  /\ \A i \in DOMAIN b.txs[t].ins : b.txs[t].ins[i].sig = SignedBytes(b.txs[t])
             /\ tx_compute_size(b.txs[t]) > BigSize => b.txs[t].surplus >= b.txs[t].required
  <2> DEFINE tx == b.txs[t]
             w == [i \in DOMAIN tx.ins |-> validate_tx_input_pseudo(tx.ins[i], tx)]
  <2>1. validate_tx_pseudo(tx) = "ok"
    BY <1>3, <1>5
  <2>2. DOMAIN tx.ins \subseteq Nat /\ tx.surplus \in Nat /\ tx.required \in Nat
    BY DEF Judgeable
  <2>3. DOMAIN w = DOMAIN tx.ins /\ \A i \in DOMAIN tx.ins : w[i] = validate_tx_input_pseudo(tx.ins[i], tx)
    OBVIOUS
  <2> HIDE DEF tx
  <2>4. ~(tx_compute_size(tx) > BigSize /\ tx.surplus < tx.required) /\ FirstError(w) = "ok"
    BY <2>1 DEF validate_tx_pseudo
  <2> HIDE DEF w
  <2>5. \A i \in DOMAIN w : w[i] = "ok"
    BY <2>2, <2>3, <2>4, FirstErrorIs
  <2>6. \A i \in DOMAIN tx.ins : tx.ins[i].sig = SignedBytes(tx)
    BY <2>3, <2>5 DEF validate_tx_input_pseudo
  <2>7. tx_compute_size(tx) > BigSize => tx.surplus >= tx.required
    BY <2>2, <2>4
  <2> QED
    BY <2>6, <2>7 DEF tx
<1> QED
  BY <1>1, <1>6

\* What validate_block_chain can let pass.
LEMMA ChainOk ==
  ASSUME NEW b, Judgeable(b), b.time \in Nat, NEW prev, prev.time \in Nat, NEW hashes,
         "ok" \in validate_block_chain(b, prev, hashes)
  PROVE  b.height > 0 => b.time > prev.time
BY DEF validate_block_chain, Judgeable

(* A block that validation.c's checks accept has this client's version and  *)
(* the root of its transactions, every one of them signed and, if large,    *)
(* paid for, and is later than its predecessor unless it is the first.      *)
THEOREM BlocksAccepted == RecordsSpec => []AcceptedBlock
<1>1. RecordsInit => AcceptedBlock
  BY DEF RecordsInit, AcceptedBlock, Accepted
<1>2. AcceptedBlock /\ [RecordsNext]_rc => AcceptedBlock'
  <2> SUFFICES ASSUME AcceptedBlock, [RecordsNext]_rc
               PROVE  AcceptedBlock'
    OBVIOUS
  <2>1. CASE rc'.f \in OtherCalls
    BY <2>1 DEF OtherCalls, AcceptedBlock, Accepted
  <2>2. CASE Spending
    <3>1. rc'.f = "spend"
      BY <2>2, CallIs DEF Spending, Spend
    <3> QED
      BY <3>1 DEF AcceptedBlock, Accepted
  <2>3. CASE Paying
    <3>1. rc'.f = "pay"
      BY <2>3, CallIs DEF Paying, Pay
    <3> QED
      BY <3>1 DEF AcceptedBlock, Accepted
  <2>4. CASE Judging
    <3>1. PICK b, prev, hashes : Judgeable(b) /\ b.time \in Nat /\ prev.time \in Nat /\ Judge(b, prev, hashes)
      BY <2>4, JudgingIs
    <3>2. PICK v \in validate_block_chain(b, prev, hashes), g \in {0, 2} :
            Call("judge", [block |-> b, prev |-> prev],
                 [pseudo |-> validate_block_pseudo(b, hashes, g), chain |-> v])
      BY <3>1 DEF Judge
    <3>3. /\ rc'.args.block = b /\ rc'.args.prev = prev
          /\ rc'.result.pseudo = validate_block_pseudo(b, hashes, g) /\ rc'.result.chain = v
      BY <3>2, CallIs
    <3>4. CASE rc'.result = [pseudo |-> "ok", chain |-> "ok"]
      <4>1. validate_block_pseudo(b, hashes, g) = "ok" /\ v = "ok" /\ g \in Nat
        BY <3>2, <3>3, <3>4
      <4>2. b.height > 0 => b.time > prev.time
        BY <3>1, <3>2, <4>1, ChainOk
      <4>3. /\ b.version = Version
            /\ b.root = b.true_root
            /\ \A t \in DOMAIN b.txs :
                 /\ \A i \in DOMAIN b.txs[t].ins : b.txs[t].ins[i].sig = SignedBytes(b.txs[t])
                 /\ tx_compute_size(b.txs[t]) > BigSize => b.txs[t].surplus >= b.txs[t].required
        BY <3>1, <4>1, PseudoOk
      <4> QED
        BY <3>3, <4>2, <4>3 DEF AcceptedBlock
    <3> QED
      BY <3>4 DEF AcceptedBlock, Accepted
  <2>5. CASE UNCHANGED rc
    BY <2>5 DEF AcceptedBlock, Accepted
  <2> QED
    BY <2>1, <2>2, <2>3, <2>4, <2>5, NextIs
<1> QED
  BY <1>1, <1>2, PTL DEF RecordsSpec

-----------------------------------------------------------------------------
(* Amounts.                                                                 *)

LEMMA SomeSpentIs == SomeSpent \in Spent
BY DEF SomeSpent, Spent

\* A list of outputs.
Outputs(outs) == /\ Len(outs) \in Nat /\ DOMAIN outs = 1 .. Len(outs)
                 /\ \A o \in DOMAIN outs : outs[o].amount \in Nat

\* Counting the largest output once for every output covers them all.
LEMMA FirstOutputCovers ==
  ASSUME NEW outs, Outputs(outs), \A o \in DOMAIN outs : outs[o].amount <= outs[1].amount
  PROVE  Amounts(outs) \in Int /\ OutputSum(outs) \in Int /\ Amounts(outs) <= OutputSum(outs)
<1> DEFINE n == Len(outs)
           f == [i \in 0 .. n - 1 |-> outs[i + 1].amount]
           g == [i \in 0 .. n - 1 |-> outs[1].amount]
<1>1. Amounts(outs) = SumBelow(f, n) /\ OutputSum(outs) = SumBelow(g, n)
  BY DEF Amounts, OutputSum, SumOf
<1>2. n \in Nat /\ \A i \in 0 .. n - 1 : i + 1 \in DOMAIN outs /\ 1 \in DOMAIN outs
  BY DEF Outputs
<1>3. \A i \in 0 .. n - 1 : f[i] \in Int /\ g[i] \in Int /\ f[i] <= g[i]
  BY <1>2 DEF Outputs
<1> HIDE DEF n, f, g
<1>4. Summands(f, n) /\ Summands(g, n)
  BY <1>3 DEF Summands
<1>5. \A k \in 0 .. n : SumBelow(f, k) <= SumBelow(g, k)
  BY <1>2, <1>3, <1>4, SumAtMost
<1>6. \A k \in 0 .. n : SumBelow(f, k) \in Int /\ SumBelow(g, k) \in Int
  BY <1>2, <1>4, SumInt
<1>7. n \in 0 .. n
  BY <1>2
<1> QED
  BY <1>1, <1>5, <1>6, <1>7

\* The amounts of inputs have a sum.
LEMMA InputsInt ==
  ASSUME NEW ins, Len(ins) \in Nat, DOMAIN ins = 1 .. Len(ins), \A i \in DOMAIN ins : ins[i].amount \in Nat
  PROVE  Inputs(ins) \in Int
<1> DEFINE n == Len(ins)
           f == [i \in 0 .. n - 1 |-> ins[i + 1].amount]
<1>1. Inputs(ins) = SumBelow(f, n)
  BY DEF Inputs, SumOf
<1>2. \A i \in 0 .. n - 1 : i + 1 \in DOMAIN ins
  OBVIOUS
<1>3. \A i \in 0 .. n - 1 : f[i] \in Int
  BY <1>2
<1>4. n \in Nat /\ n \in 0 .. n
  OBVIOUS
<1> HIDE DEF n, f
<1>5. Summands(f, n)
  BY <1>3 DEF Summands
<1> QED
  BY <1>1, <1>4, <1>5, SumInt

(* Transactions that are judged for their amounts.                          *)
LEMMA PayOk ==
  ASSUME NEW tx, NEW index \in {0, 1}, NEW parent, NEW chain,
         Outputs(tx.outs), \A o \in DOMAIN tx.outs : tx.outs[o].amount <= tx.outs[1].amount,
         Len(tx.ins) \in Nat, DOMAIN tx.ins = 1 .. Len(tx.ins), \A i \in DOMAIN tx.ins : tx.ins[i].amount \in Nat,
         Len(tx.ins) # 0, validate_tx_chain(tx, index, parent, chain) = "ok"
  PROVE  Amounts(tx.outs) <= Inputs(tx.ins)
<1>1. Amounts(tx.outs) \in Int /\ OutputSum(tx.outs) \in Int /\ Amounts(tx.outs) <= OutputSum(tx.outs)
  BY FirstOutputCovers
<1>2. Inputs(tx.ins) \in Int
  BY InputsInt
<1>3. ~(OutputSum(tx.outs) > Inputs(tx.ins))
  BY DEF validate_tx_chain, in_count
<1> QED
  BY <1>1, <1>2, <1>3

(* A transaction with inputs whose first output is its largest and that     *)
(* validate_tx_chain accepts spends at most its inputs.                     *)
THEOREM SpendsCovered == RecordsSpec => []SpendCovered
<1>1. RecordsInit => SpendCovered
  BY DEF RecordsInit, SpendCovered
<1>2. SpendCovered /\ [RecordsNext]_rc => SpendCovered'
  <2> SUFFICES ASSUME SpendCovered, [RecordsNext]_rc
               PROVE  SpendCovered'
    OBVIOUS
  <2>1. CASE rc'.f \in OtherCalls
    BY <2>1 DEF OtherCalls, SpendCovered
  <2>2. CASE Spending
    <3>1. rc'.f = "spend"
      BY <2>2, CallIs DEF Spending, Spend
    <3> QED
      BY <3>1 DEF SpendCovered
  <2>3. CASE Paying
    <3>1. PICK ins \in 0 .. MaxItems, amounts \in UpTo(0 .. 12, MaxItems), index \in {0, 1} :
            Pay(ins, amounts, index)
      BY <2>3 DEF Paying
    <3>2. MaxItems \in Nat /\ ins \in Nat
      BY <3>1, SizesAre
    <3> DEFINE in(i) == [SomeSpent EXCEPT !.out_index = i + 1]
               tx == [ins |-> [i \in 1 .. ins |-> in(i)],
                      outs |-> [o \in DOMAIN amounts |-> [amount |-> amounts[o]]], surplus |-> 2]
               other == Spender(<<SomeSpent>>)
               parent == [header |-> [height |-> 1], txs |-> IF index = 0 THEN <<tx, other>> ELSE <<other, tx>>]
               verdict == validate_tx_chain(tx, index, parent, <<>>)
    <3>3. Call("pay", [tx |-> tx, index |-> index], verdict)
      BY <3>1 DEF Pay
    <3>4. rc'.args.tx = tx /\ rc'.result = verdict
      <4> HIDE DEF tx, verdict
      <4> QED
        BY <3>3, CallIs
    <3>5. \A i : in(i).amount = 5
      BY SomeSpentIs DEF Spent
    <3>6. Len(tx.ins) = ins /\ DOMAIN tx.ins = 1 .. ins /\ \A i \in DOMAIN tx.ins : tx.ins[i].amount \in Nat
      <4> HIDE DEF in
      <4>1. tx.ins \in [1 .. ins -> {in(i) : i \in 1 .. ins}]
        OBVIOUS
      <4>2. Len(tx.ins) = ins /\ DOMAIN tx.ins = 1 .. ins
        BY <3>2, <4>1, FunctionIsSeq
      <4> QED
        BY <3>5, <4>2
    <3>7. Outputs(tx.outs)
      <4>1. /\ Len(amounts) \in Nat /\ DOMAIN amounts = 1 .. Len(amounts)
            /\ \A o \in DOMAIN amounts : amounts[o] \in 0 .. 12
        BY <3>2, UpToIs
      <4> DEFINE outs == [o \in DOMAIN amounts |-> [amount |-> amounts[o]]]
      <4>2. DOMAIN outs = DOMAIN amounts /\ \A o \in DOMAIN amounts : outs[o].amount = amounts[o]
        OBVIOUS
      <4>3. outs \in [1 .. Len(amounts) -> {[amount |-> amounts[o]] : o \in DOMAIN amounts}]
        BY <4>1
      <4>4. Len(outs) = Len(amounts)
        <5> HIDE DEF outs
        <5> QED
          BY <4>1, <4>3, FunctionIsSeq
      <4>5. tx.outs = outs
        OBVIOUS
      <4> HIDE DEF outs, tx
      <4> QED
        BY <4>1, <4>2, <4>4, <4>5 DEF Outputs
    <3>9. tx.ins = <<>> <=> Len(tx.ins) = 0
      <4>1. tx.ins \in Seq({in(i) : i \in 1 .. ins})
        <5> HIDE DEF in
        <5>1. tx.ins \in [1 .. ins -> {in(i) : i \in 1 .. ins}]
          OBVIOUS
        <5> QED
          BY <3>2, <5>1, FunctionIsSeq
      <4> HIDE DEF tx, in
      <4> QED
        BY <4>1, EmptySeq
    <3> HIDE DEF tx, other, parent, verdict
    <3>10. CASE /\ verdict = "ok" /\ Len(tx.ins) # 0
                /\ \A o \in DOMAIN tx.outs : tx.outs[o].amount <= tx.outs[1].amount
      <4>1. Amounts(tx.outs) <= Inputs(tx.ins)
        BY <3>1, <3>2, <3>6, <3>7, <3>10, PayOk DEF verdict
      <4> QED
        BY <3>4, <3>9, <4>1 DEF SpendCovered
    <3> QED
      BY <3>4, <3>9, <3>10 DEF SpendCovered
  <2>4. CASE Judging
    <3>1. rc'.f = "judge"
      BY <2>4, JudgingIs, CallIs DEF Judge
    <3> QED
      BY <3>1 DEF SpendCovered
  <2>5. CASE UNCHANGED rc
    BY <2>5 DEF SpendCovered
  <2> QED
    BY <2>1, <2>2, <2>3, <2>4, <2>5, NextIs
<1> QED
  BY <1>1, <1>2, PTL DEF RecordsSpec

-----------------------------------------------------------------------------
(* Double spends.                                                           *)

\* Transactions that spend what Spent has, at most MaxItems outputs each.
SpendBlock(txs) ==
    /\ Len(txs) \in Nat /\ DOMAIN txs = 1 .. Len(txs)
    /\ \A t \in DOMAIN txs : /\ Len(txs[t].ins) \in 0 .. MaxItems
                             /\ \A i \in 1 .. Len(txs[t].ins) : txs[t].ins[i] \in Spent

\* The records of Spent agree in their amount.
LEMMA SameIsEqual ==
  ASSUME NEW a \in Spent, NEW b \in Spent, SameOutput(a, b)
  PROVE  a = b
BY DEF Spent, SameOutput

LEMMA SpenderIs ==
  ASSUME NEW ins \in UpTo(Spent, MaxItems)
  PROVE  /\ Len(Spender(ins).ins) \in 0 .. MaxItems
         /\ \A i \in 1 .. Len(Spender(ins).ins) : Spender(ins).ins[i] \in Spent
<1>1. MaxItems \in Nat
  BY SizesAre
<1>2. Spender(ins).ins = ins
  BY DEF Spender
<1>3. Len(ins) \in 0 .. MaxItems /\ DOMAIN ins = 1 .. Len(ins) /\ \A i \in DOMAIN ins : ins[i] \in Spent
  BY <1>1, UpToIs
<1> QED
  BY <1>2, <1>3

LEMMA SpendersIs ==
  ASSUME NEW txs \in UpTo(Spenders, MaxTxs)
  PROVE  SpendBlock(txs)
<1>1. MaxTxs \in Nat
  BY SizesAre
<1>2. Len(txs) \in Nat /\ DOMAIN txs = 1 .. Len(txs) /\ \A t \in DOMAIN txs : txs[t] \in Spenders
  BY <1>1, UpToIs
<1>3. \A s \in Spenders : Len(s.ins) \in 0 .. MaxItems /\ \A i \in 1 .. Len(s.ins) : s.ins[i] \in Spent
  BY SpenderIs DEF Spenders
<1> QED
  BY <1>2, <1>3 DEF SpendBlock

\* A block of two transactions with one input each.
Pair(x, a, b) == /\ Len(x) = 2 /\ DOMAIN x = 1 .. 2
                 /\ Len(x[1].ins) = 1 /\ x[1].ins[1] = a
                 /\ Len(x[2].ins) = 1 /\ x[2].ins[1] = b

LEMMA OneInputIs ==
  ASSUME NEW x \in OneInput
  PROVE  \E a, b \in Spent : Pair(x, a, b)
<1>1. PICK a, b \in Spent : x = <<Spender(<<a>>), Spender(<<b>>)>>
  BY DEF OneInput
<1>2. Pair(x, a, b)
  BY <1>1 DEF Pair, Spender
<1> QED
  BY <1>2

LEMMA PairIs ==
  ASSUME NEW x, NEW a \in Spent, NEW b \in Spent, Pair(x, a, b)
  PROVE  SpendBlock(x)
<1>1. MaxItems \in Nat /\ MaxItems > 0
  BY SizesAre
<1>2. Len(x) \in Nat /\ DOMAIN x = 1 .. Len(x)
  BY DEF Pair
<1>3. ASSUME NEW t \in DOMAIN x
      PROVE  Len(x[t].ins) \in 0 .. MaxItems /\ \A i \in 1 .. Len(x[t].ins) : x[t].ins[i] \in Spent
  <2>1. t = 1 \/ t = 2
    BY DEF Pair
  <2>2. Len(x[t].ins) = 1 /\ x[t].ins[1] \in Spent
    BY <2>1 DEF Pair
  <2>3. \A i \in 1 .. 1 : i = 1
    OBVIOUS
  <2>4. Len(x[t].ins) \in 0 .. MaxItems
    BY <1>1, <2>2
  <2> QED
    BY <2>2, <2>3, <2>4
<1> QED
  BY <1>2, <1>3 DEF SpendBlock

LEMMA AncestorIs ==
  ASSUME NEW anc \in Ancestors
  PROVE  SpendBlock(anc.txs) /\ anc.height \in Nat
<1> DEFINE c == anc.txs
<1>0. anc.height \in Nat /\ c \in OneInput \cup {<<>>} \cup {<<t>> : t \in Spenders}
  BY DEF Ancestors
<1> SUFFICES SpendBlock(c)
  BY <1>0
<1> HIDE DEF c
<1>1. CASE c \in OneInput
  BY <1>1, OneInputIs, PairIs
<1>2. CASE c = <<>>
  BY <1>2 DEF SpendBlock
<1>3. CASE \E t \in Spenders : c = <<t>>
  <2>1. PICK ins \in UpTo(Spent, MaxItems) : c = <<Spender(ins)>>
    BY <1>3 DEF Spenders
  <2>2. Len(c) = 1 /\ DOMAIN c = 1 .. 1 /\ c[1] = Spender(ins)
    BY <2>1
  <2>3. \A i \in 1 .. 1 : i = 1
    OBVIOUS
  <2> QED
    BY <2>2, <2>3, SpenderIs DEF SpendBlock
<1> QED
  BY <1>0, <1>1, <1>2, <1>3

\* The sets CountSpends is made of.
Outside(txs) == {v \in Visits(txs) : v[2] > Len(txs) \/ v[2] > in_count(txs[v[1]])}
Hits(txs, input) == {v \in Visits(txs) \ Outside(txs) : SameOutput(txs[v[1]].ins[v[2]], input)}
Until(txs, input, v) == {w \in Hits(txs, input) : NotAfter(w, v)}
Excess(txs, input, limit) == {v \in Hits(txs, input) : /\ Cardinality(Until(txs, input, v)) > limit
                                                       /\ \A u \in Outside(txs) : ~NotAfter(u, v)}

LEMMA CountSpendsIs ==
  ASSUME NEW txs, NEW input, NEW limit
  PROVE  CountSpends(txs, input, limit) =
            IF Excess(txs, input, limit) # {} THEN "doublespend"
            ELSE IF Outside(txs) # {} THEN "undefined" ELSE "ok"
BY DEF CountSpends, Excess, Until, Hits, Outside

LEMMA SpendsFinite ==
  ASSUME NEW txs, SpendBlock(txs)
  PROVE  IsFiniteSet(Spends(txs)) /\ Cardinality(Spends(txs)) \in Nat
<1> DEFINE S == DOMAIN txs
           T == 1 .. MaxItems
<1>1. MaxItems \in Nat
  BY SizesAre
<1>2. IsFiniteSet(S) /\ IsFiniteSet(T)
  BY <1>1, FS_Interval DEF SpendBlock
<1>3. Spends(txs) \subseteq S \X T
  BY DEF Spends
<1> HIDE DEF S, T
<1>4. IsFiniteSet(S \X T)
  BY <1>2, FS_Product
<1>5. IsFiniteSet(Spends(txs))
  BY <1>3, <1>4, FS_Subset
<1> QED
  BY <1>5, FS_CardinalityType

\* What the loops count spends the output.
LEMMA HitsSpend ==
  ASSUME NEW txs, SpendBlock(txs)
  PROVE  Hits(txs, SomeSpent) \subseteq Spends(txs)
<1> SUFFICES ASSUME NEW v \in Hits(txs, SomeSpent)
             PROVE  v \in Spends(txs)
  OBVIOUS
<1>1. MaxItems \in Nat
  BY SizesAre
<1>2. /\ v \in (DOMAIN txs) \X (1 .. LastInner(txs)) /\ v \notin Outside(txs)
      /\ SameOutput(txs[v[1]].ins[v[2]], SomeSpent)
  BY DEF Hits, Visits
<1>3. v = <<v[1], v[2]>> /\ v[1] \in DOMAIN txs /\ v[2] \in 1 .. LastInner(txs)
  BY <1>2
<1>4. v[2] \in Int /\ v[2] >= 1
  BY <1>3
<1>5. ~(v[2] > in_count(txs[v[1]]))
  BY <1>2 DEF Outside, Visits
<1>6. /\ Len(txs[v[1]].ins) \in 0 .. MaxItems
      /\ \A i \in 1 .. Len(txs[v[1]].ins) : txs[v[1]].ins[i] \in Spent
  BY <1>3 DEF SpendBlock
<1>7. v[2] \in 1 .. Len(txs[v[1]].ins) /\ v[2] \in 1 .. MaxItems
  BY <1>1, <1>4, <1>5, <1>6 DEF in_count
<1>8. txs[v[1]].ins[v[2]] = SomeSpent
  BY <1>2, <1>6, <1>7, SameIsEqual, SomeSpentIs
<1>9. v \in (DOMAIN txs) \X (1 .. MaxItems) /\ v[2] <= in_count(txs[v[1]])
  BY <1>3, <1>6, <1>7 DEF in_count
<1> QED
  BY <1>8, <1>9 DEF Spends

\* More than limit spends are counted only where there are that many,
\* wherever the loops go.
LEMMA ExcessCounted ==
  ASSUME NEW txs, SpendBlock(txs), NEW limit \in Nat, CountSpends(txs, SomeSpent, limit) = "doublespend"
  PROVE  Cardinality(Spends(txs)) > limit
<1>1. PICK v : v \in Excess(txs, SomeSpent, limit)
  BY CountSpendsIs
<1>2. Cardinality(Until(txs, SomeSpent, v)) > limit
  BY <1>1 DEF Excess
<1>3. Until(txs, SomeSpent, v) \subseteq Spends(txs)
  BY HitsSpend DEF Until
<1>4. /\ IsFiniteSet(Until(txs, SomeSpent, v))
      /\ Cardinality(Until(txs, SomeSpent, v)) <= Cardinality(Spends(txs))
  BY <1>3, SpendsFinite, FS_Subset
<1>5. Cardinality(Until(txs, SomeSpent, v)) \in Nat
  BY <1>4, FS_CardinalityType
<1> QED
  BY <1>2, <1>4, <1>5, SpendsFinite

\* What a block that is loaded again spends, its first transaction spends.
LEMMA LoadedSpends ==
  ASSUME NEW c, SpendBlock(c)
  PROVE  /\ SpendBlock(Loaded(c))
         /\ \A v \in Spends(Loaded(c)) : <<1, v[2]>> \in Spends(c)
<1>1. DOMAIN Loaded(c) = DOMAIN c /\ \A t \in DOMAIN c : Loaded(c)[t] = c[1]
  BY DEF Loaded
<1>2. Len(c) \in Nat /\ DOMAIN c = 1 .. Len(c)
  BY DEF SpendBlock
<1>3. \A t \in DOMAIN c : 1 \in DOMAIN c
  BY <1>2
<1>4. Len(Loaded(c)) = Len(c)
  <2>1. Loaded(c) \in [1 .. Len(c) -> {c[1]}]
    BY <1>2 DEF Loaded
  <2> QED
    BY <1>2, <2>1, FunctionIsSeq
<1>5. SpendBlock(Loaded(c))
  BY <1>1, <1>2, <1>3, <1>4 DEF SpendBlock
<1>6. ASSUME NEW v \in Spends(Loaded(c))
      PROVE  <<1, v[2]>> \in Spends(c)
  <2>1. /\ v \in (DOMAIN Loaded(c)) \X (1 .. MaxItems)
        /\ v[2] <= in_count(Loaded(c)[v[1]]) /\ Loaded(c)[v[1]].ins[v[2]] = SomeSpent
    BY DEF Spends
  <2>2. v[1] \in DOMAIN c /\ v[2] \in 1 .. MaxItems /\ 1 \in DOMAIN c /\ Loaded(c)[v[1]] = c[1]
    BY <1>1, <1>3, <2>1
  <2> DEFINE w == <<1, v[2]>>
  <2>3. w[1] = 1 /\ w[2] = v[2] /\ w \in (DOMAIN c) \X (1 .. MaxItems)
    BY <2>2
  <2> HIDE DEF w
  <2>4. w[2] <= in_count(c[w[1]]) /\ c[w[1]].ins[w[2]] = SomeSpent
    BY <2>1, <2>2, <2>3
  <2> QED
    BY <2>3, <2>4 DEF Spends, w
<1> QED
  BY <1>5, <1>6

\* The loops over two transactions with one input each look at both inputs
\* and at nothing else.
LEMMA PairVisits ==
  ASSUME NEW x, NEW a \in Spent, NEW b \in Spent, Pair(x, a, b)
  PROVE  /\ LastInner(x) = 1 /\ Outside(x) = {}
         /\ Hits(x, SomeSpent) = Spends(x)
<1> DEFINE B == {i \in 1 .. Len(x) + 1 : i = Len(x) + 1 \/ in_count(x[i]) < i}
<1>1. Len(x) = 2 /\ in_count(x[1]) = 1 /\ in_count(x[2]) = 1
  BY DEF Pair, in_count
<1>2. B \subseteq Nat /\ 2 \in B /\ ~(1 \in B)
  BY <1>1
<1>3. \A i \in B : i \in 1 .. 3
  BY <1>1
<1>4. InnerBound(x) = Min(B)
  BY DEF InnerBound
<1> HIDE DEF B
<1>5. Min(B) \in B /\ Min(B) <= 2
  BY <1>2, MinIs
<1>6. Min(B) = 2
  <2>1. Min(B) \in 1 .. 3 /\ Min(B) # 1
    BY <1>2, <1>3, <1>5
  <2> QED
    BY <1>5, <2>1
<1>7. LastInner(x) = 1
  BY <1>1, <1>4, <1>6 DEF LastInner
<1>8. ASSUME NEW v \in Visits(x)
      PROVE  v[1] \in DOMAIN x /\ v[2] = 1 /\ v = <<v[1], 1>> /\ in_count(x[v[1]]) = 1
  <2>1. v \in (1 .. 2) \X (1 .. 1)
    BY <1>7 DEF Visits, Pair
  <2>2. v = <<v[1], v[2]>> /\ v[1] \in 1 .. 2 /\ v[2] = 1
    BY <2>1
  <2>3. v[1] = 1 \/ v[1] = 2
    BY <2>2
  <2> QED
    BY <1>1, <2>2, <2>3 DEF Pair
<1>9. Outside(x) = {}
  <2> SUFFICES ASSUME NEW v \in Visits(x), v[2] > Len(x) \/ v[2] > in_count(x[v[1]])
               PROVE  FALSE
    BY DEF Outside
  <2>1. v[2] = 1 /\ in_count(x[v[1]]) = 1
    BY <1>8
  <2> QED
    BY <1>1, <2>1
<1>10. SpendBlock(x)
  BY PairIs
<1>11. Hits(x, SomeSpent) \subseteq Spends(x)
  BY <1>10, HitsSpend
<1>12. ASSUME NEW v \in Spends(x)
       PROVE  v \in Hits(x, SomeSpent)
  <2>1. /\ v \in (DOMAIN x) \X (1 .. MaxItems)
        /\ v[2] <= in_count(x[v[1]]) /\ x[v[1]].ins[v[2]] = SomeSpent
    BY DEF Spends
  <2>2. v = <<v[1], v[2]>> /\ v[1] \in 1 .. 2 /\ v[2] \in 1 .. MaxItems
    BY <2>1 DEF Pair
  <2>3. in_count(x[v[1]]) = 1
    <3>1. v[1] = 1 \/ v[1] = 2
      BY <2>2
    <3> QED
      BY <1>1, <3>1
  <2>4. v[2] \in 1 .. 1
    BY <2>1, <2>2, <2>3
  <2>5. v \in Visits(x)
    BY <1>7, <2>2, <2>4 DEF Visits, Pair
  <2>6. SameOutput(x[v[1]].ins[v[2]], SomeSpent)
    BY <2>1 DEF SameOutput
  <2> QED
    BY <1>9, <2>5, <2>6 DEF Hits
<1> QED
  BY <1>7, <1>9, <1>11, <1>12

\* There the loops count exactly.
LEMMA PairCounts ==
  ASSUME NEW x, NEW a \in Spent, NEW b \in Spent, Pair(x, a, b), NEW limit \in Nat
  PROVE  CountSpends(x, SomeSpent, limit) =
            IF Cardinality(Spends(x)) > limit THEN "doublespend" ELSE "ok"
<1>1. SpendBlock(x)
  BY PairIs
<1>2. Outside(x) = {} /\ Hits(x, SomeSpent) = Spends(x)
  BY PairVisits
<1>3. CountSpends(x, SomeSpent, limit) = IF Excess(x, SomeSpent, limit) # {} THEN "doublespend" ELSE "ok"
  BY <1>2, CountSpendsIs
<1>4. ASSUME Cardinality(Spends(x)) > limit
      PROVE  Excess(x, SomeSpent, limit) # {}
  <2>1. Spends(x) # {}
    BY <1>4, FS_EmptySet
  <2>2. \A v \in Spends(x) : v = <<1, 1>> \/ v = <<2, 1>>
    <3> SUFFICES ASSUME NEW v \in Spends(x)
                 PROVE  v = <<1, 1>> \/ v = <<2, 1>>
      OBVIOUS
    <3>1. v \in Visits(x)
      BY <1>2 DEF Hits
    <3>2. v \in (1 .. 2) \X (1 .. 1)
      BY <3>1, PairVisits DEF Visits, Pair
    <3> QED
      BY <3>2
  <2>3. PICK v \in Spends(x) : \A w \in Spends(x) : NotAfter(w, v)
    <3>1. CASE <<2, 1>> \in Spends(x)
      <4>1. NotAfter(<<1, 1>>, <<2, 1>>) /\ NotAfter(<<2, 1>>, <<2, 1>>)
        BY DEF NotAfter
      <4> QED
        BY <2>2, <3>1, <4>1
    <3>2. CASE <<2, 1>> \notin Spends(x)
      <4>1. NotAfter(<<1, 1>>, <<1, 1>>)
        BY DEF NotAfter
      <4>2. <<1, 1>> \in Spends(x) /\ \A w \in Spends(x) : w = <<1, 1>>
        BY <2>1, <2>2, <3>2
      <4> QED
        BY <4>1, <4>2
    <3> QED
      BY <3>1, <3>2
  <2>4. Until(x, SomeSpent, v) = Spends(x)
    BY <1>2, <2>3 DEF Until
  <2>5. v \in Excess(x, SomeSpent, limit)
    BY <1>2, <1>4, <2>3, <2>4 DEF Excess
  <2> QED
    BY <2>5
<1>5. ASSUME Excess(x, SomeSpent, limit) # {}
      PROVE  Cardinality(Spends(x)) > limit
  <2>1. CountSpends(x, SomeSpent, limit) = "doublespend"
    BY <1>3, <1>5
  <2> QED
    BY <1>1, <2>1, ExcessCounted
<1> QED
  BY <1>3, <1>4, <1>5

\* A block of the kind, loaded again, is one of the kind, and spends the
\* output if its first transaction does.
LEMMA PairLoaded ==
  ASSUME NEW x \in OneInput
  PROVE  CountSpends(Loaded(x), SomeSpent, 0) = IF Spends(<<x[1]>>) # {} THEN "doublespend" ELSE "ok"
<1>1. PICK a, b \in Spent : Pair(x, a, b)
  BY OneInputIs
<1>2. DOMAIN Loaded(x) = 1 .. 2 /\ \A t \in 1 .. 2 : Loaded(x)[t] = x[1]
  BY <1>1 DEF Loaded, Pair
<1>3. Len(Loaded(x)) = 2
  <2>1. Loaded(x) \in [1 .. 2 -> {x[1]}]
    BY <1>1 DEF Loaded, Pair
  <2> QED
    BY <2>1, FunctionIsSeq
<1>4. Pair(Loaded(x), a, a)
  BY <1>1, <1>2, <1>3 DEF Pair
<1>5. CountSpends(Loaded(x), SomeSpent, 0) =
        IF Cardinality(Spends(Loaded(x))) > 0 THEN "doublespend" ELSE "ok"
  BY <1>1, <1>4, PairCounts
<1>6. IsFiniteSet(Spends(Loaded(x))) /\ Cardinality(Spends(Loaded(x))) \in Nat
  BY <1>1, <1>4, PairIs, SpendsFinite
<1>7. Cardinality(Spends(Loaded(x))) > 0 <=> Spends(Loaded(x)) # {}
  BY <1>6, FS_EmptySet
<1>8. DOMAIN <<x[1]>> = 1 .. 1 /\ <<x[1]>>[1] = x[1]
  OBVIOUS
<1>9. ASSUME NEW v \in Spends(Loaded(x))
      PROVE  <<1, v[2]>> \in Spends(<<x[1]>>)
  <2> DEFINE w == <<1, v[2]>>
  <2>1. /\ v \in (1 .. 2) \X (1 .. MaxItems)
        /\ v[2] <= in_count(Loaded(x)[v[1]]) /\ Loaded(x)[v[1]].ins[v[2]] = SomeSpent
    BY <1>2 DEF Spends
  <2>2. v[1] \in 1 .. 2 /\ v[2] \in 1 .. MaxItems /\ Loaded(x)[v[1]] = x[1]
    BY <1>2, <2>1
  <2>3. w[1] = 1 /\ w[2] = v[2] /\ w \in (1 .. 1) \X (1 .. MaxItems)
    BY <2>2
  <2> HIDE DEF w
  <2> QED
    BY <1>8, <2>1, <2>2, <2>3 DEF Spends, w
<1>10. ASSUME NEW v \in Spends(<<x[1]>>)
       PROVE  v \in Spends(Loaded(x))
  <2>1. /\ v \in (1 .. 1) \X (1 .. MaxItems)
        /\ v[2] <= in_count(<<x[1]>>[v[1]]) /\ <<x[1]>>[v[1]].ins[v[2]] = SomeSpent
    BY <1>8 DEF Spends
  <2>2. v[1] = 1 /\ v \in (1 .. 2) \X (1 .. MaxItems)
    BY <2>1
  <2>3. <<x[1]>>[v[1]] = Loaded(x)[v[1]]
    BY <1>2, <1>8, <2>2
  <2> QED
    BY <1>2, <2>1, <2>2, <2>3 DEF Spends
<1>11. Spends(Loaded(x)) # {} <=> Spends(<<x[1]>>) # {}
  BY <1>9, <1>10
<1> QED
  BY <1>5, <1>7, <1>11

\* The walk over the ancestors, with a verdict for each.
Seen(chain, j) ==
    IF j > Len(chain) THEN "undefined" ELSE CountSpends(Loaded(chain[j].txs), SomeSpent, 0)
Walk(height, chain) == [j \in 1 .. Walked(height, chain) |-> Seen(chain, j)]

\* A chain of ancestors.
AncestorChain(chain) ==
    /\ Len(chain) \in Nat /\ DOMAIN chain = 1 .. Len(chain)
    /\ \A j \in DOMAIN chain : SpendBlock(chain[j].txs) /\ chain[j].height \in Nat

\* It stops behind the first ancestor that claims the height 1, or where no
\* block is stored.
LEMMA WalkedIs ==
  ASSUME NEW height \in Nat, NEW chain, AncestorChain(chain)
  PROVE  /\ Walked(height, chain) \in Nat
         /\ height # 1 => \/ Walked(height, chain) = Len(chain) + 1
                          \/ /\ Walked(height, chain) \in DOMAIN chain
                             /\ chain[Walked(height, chain)].height = 1
<1> DEFINE S == {j \in DOMAIN chain : chain[j].height = 1} \cup {Len(chain) + 1}
<1>1. S \subseteq Nat /\ S # {} /\ Len(chain) + 1 \in Nat
  BY DEF AncestorChain
<1>2. \A j \in S : j = Len(chain) + 1 \/ (j \in DOMAIN chain /\ chain[j].height = 1)
  OBVIOUS
<1>3. Walked(height, chain) = IF height = 1 THEN 0 ELSE Min(S)
  BY DEF Walked
<1> HIDE DEF S
<1>4. PICK m : m = Min(S) /\ m \in S
  BY <1>1, MinIs
<1>5. m \in Nat /\ (m = Len(chain) + 1 \/ (m \in DOMAIN chain /\ chain[m].height = 1))
  BY <1>1, <1>2, <1>4
<1>6. CASE height = 1
  BY <1>3, <1>6
<1>7. CASE height # 1
  <2>1. Walked(height, chain) = m
    BY <1>3, <1>4, <1>7
  <2> QED
    BY <1>5, <2>1
<1> QED
  BY <1>6, <1>7

LEMMA WalkIs ==
  ASSUME NEW height \in Nat, NEW chain, AncestorChain(chain)
  PROVE  /\ DOMAIN Walk(height, chain) = 1 .. Walked(height, chain)
         /\ DOMAIN Walk(height, chain) \subseteq Nat
         /\ \A j \in DOMAIN Walk(height, chain) : Walk(height, chain)[j] = Seen(chain, j)
<1>1. Walked(height, chain) \in Nat
  BY WalkedIs
<1> QED
  BY <1>1 DEF Walk

LEMMA InputChainIs ==
  ASSUME NEW txs, NEW height, NEW chain
  PROVE  LET own == CountSpends(txs, SomeSpent, 1)
         IN  validate_tx_input_chain(SomeSpent, [header |-> [height |-> height], txs |-> txs], chain)
                = IF own # "ok" THEN own ELSE FirstError(Walk(height, chain))
BY DEF validate_tx_input_chain, Walk, Seen

\* What is refused as a double spend is one.
LEMMA RefusedIsDouble ==
  ASSUME NEW txs, SpendBlock(txs), NEW height \in Nat, NEW chain, AncestorChain(chain),
         NEW own, own = CountSpends(txs, SomeSpent, 1),
         "doublespend" = IF own # "ok" THEN own ELSE FirstError(Walk(height, chain))
  PROVE  Cardinality(Spends(txs)) > 1 \/ \E j \in DOMAIN chain : Spends(chain[j].txs) # {}
<1> DEFINE W == Walk(height, chain)
<1>1. CASE own # "ok"
  BY <1>1, ExcessCounted
<1>2. CASE own = "ok"
  <2>1. FirstError(W) = "doublespend"
    BY <1>2
  <2>2. DOMAIN W \subseteq Nat /\ DOMAIN W = 1 .. Walked(height, chain) /\ Walked(height, chain) \in Nat
    BY WalkIs, WalkedIs
  <2>3. PICK j \in DOMAIN W : W[j] = "doublespend"
    BY <2>1, <2>2, FirstErrorIs
  <2> DEFINE c == chain[j].txs
  <2>4. Seen(chain, j) = "doublespend" /\ j \in 1 .. Walked(height, chain)
    BY <2>2, <2>3, WalkIs
  <2>5. j \in DOMAIN chain /\ CountSpends(Loaded(c), SomeSpent, 0) = "doublespend"
    BY <2>2, <2>4 DEF Seen, AncestorChain
  <2>6. SpendBlock(c) /\ SpendBlock(Loaded(c))
    BY <2>5, LoadedSpends DEF AncestorChain
  <2> HIDE DEF c
  <2>7. Cardinality(Spends(Loaded(c))) > 0
    BY <2>5, <2>6, ExcessCounted
  <2>8. PICK v : v \in Spends(Loaded(c))
    <3>1. IsFiniteSet(Spends(Loaded(c))) /\ Cardinality(Spends(Loaded(c))) \in Nat
      BY <2>6, SpendsFinite
    <3>2. Spends(Loaded(c)) # {}
      BY <2>7, <3>1, FS_EmptySet
    <3> QED
      BY <3>2
  <2>9. <<1, v[2]>> \in Spends(c)
    BY <2>6, <2>8, LoadedSpends
  <2> QED
    BY <2>5, <2>9 DEF c
<1> QED
  BY <1>1, <1>2

\* Where blocks have two transactions with one input each and heights count
\* up, what the block or the first transaction of an ancestor spends is
\* refused: the walk comes to it before a block is missing.
LEMMA PairsRefused ==
  ASSUME NEW txs \in OneInput, NEW height \in Nat, NEW chain, AncestorChain(chain),
         \A j \in DOMAIN chain : chain[j].txs \in OneInput /\ chain[j].height = height - j,
         NEW own, own = CountSpends(txs, SomeSpent, 1),
         \/ Cardinality(Spends(txs)) > 1
         \/ \E j \in DOMAIN chain : chain[j].height > 0 /\ Spends(<<chain[j].txs[1]>>) # {}
  PROVE  (IF own # "ok" THEN own ELSE FirstError(Walk(height, chain))) = "doublespend"
<1> DEFINE W == Walk(height, chain)
<1>1. own = IF Cardinality(Spends(txs)) > 1 THEN "doublespend" ELSE "ok"
  BY OneInputIs, PairCounts
<1>2. CASE Cardinality(Spends(txs)) > 1
  BY <1>1, <1>2
<1>3. CASE ~(Cardinality(Spends(txs)) > 1)
  <2>1. PICK j \in DOMAIN chain : chain[j].height > 0 /\ Spends(<<chain[j].txs[1]>>) # {}
    BY <1>3
  <2>2. /\ \A k \in DOMAIN chain : chain[k].height = height - k
        /\ DOMAIN chain = 1 .. Len(chain) /\ Len(chain) \in Nat /\ j \in Nat
    BY DEF AncestorChain
  <2>3. height # 1
    BY <2>1, <2>2
  <2>4. j <= Walked(height, chain) /\ Walked(height, chain) \in Nat
    <3> DEFINE w == Walked(height, chain)
    <3>1. w \in Nat /\ (w = Len(chain) + 1 \/ (w \in DOMAIN chain /\ chain[w].height = 1))
      BY <2>3, WalkedIs
    <3> HIDE DEF w
    <3>2. CASE w = Len(chain) + 1
      BY <2>2, <3>2 DEF w
    <3>3. CASE w \in DOMAIN chain /\ chain[w].height = 1
      <4>1. height - w = 1 /\ height - j > 0 /\ w \in Nat
        BY <2>1, <2>2, <3>1, <3>3
      <4> QED
        BY <2>2, <4>1 DEF w
    <3> QED
      BY <3>1, <3>2, <3>3
  <2>5. \A k \in DOMAIN chain :
          Seen(chain, k) = IF Spends(<<chain[k].txs[1]>>) # {} THEN "doublespend" ELSE "ok"
    <3> SUFFICES ASSUME NEW k \in DOMAIN chain
                 PROVE  Seen(chain, k) = IF Spends(<<chain[k].txs[1]>>) # {} THEN "doublespend" ELSE "ok"
      OBVIOUS
    <3>1. ~(k > Len(chain)) /\ chain[k].txs \in OneInput
      BY <2>2
    <3> QED
      BY <3>1, PairLoaded DEF Seen
  <2>6. /\ DOMAIN W = 1 .. Walked(height, chain) /\ DOMAIN W \subseteq Nat
        /\ \A k \in DOMAIN W : W[k] = Seen(chain, k)
    BY WalkIs
  <2> HIDE DEF W
  <2>7. j \in DOMAIN W /\ W[j] = "doublespend"
    BY <2>1, <2>2, <2>4, <2>5, <2>6
  <2>8. PICK i \in DOMAIN W : W[i] # "ok" /\ FirstError(W) = W[i] /\ \A k \in DOMAIN W : k < i => W[k] = "ok"
    BY <2>6, <2>7, FirstErrorIs
  <2>9. i <= j
    BY <2>6, <2>7, <2>8
  <2>10. i \in DOMAIN chain
    BY <2>2, <2>6, <2>9
  <2>11. W[i] = "doublespend"
    BY <2>5, <2>6, <2>8, <2>10
  <2> QED
    BY <1>1, <1>3, <2>8, <2>11 DEF W
<1> QED
  BY <1>2, <1>3

(* An input that validate_tx_input_chain refuses as a double spend is spent *)
(* twice by the block or by an ancestor, however the loops' bounds are      *)
(* taken, whatever heights the headers claim and wherever the chain breaks  *)
(* off; where blocks have two transactions with one input each and heights  *)
(* count up, it refuses what the block spends twice and what the first      *)
(* transaction of an ancestor above the first block spends.                 *)
THEOREM DoubleSpendsJudged == RecordsSpec => []DoubleSpends
<1> USE DEF DoubleSpends
<1>1. RecordsInit => DoubleSpends
  BY DEF RecordsInit, DoubleSpendSound, DoubleSpendFound
<1>2. DoubleSpends /\ [RecordsNext]_rc => DoubleSpends'
  <2> SUFFICES ASSUME DoubleSpends, [RecordsNext]_rc
               PROVE  DoubleSpends'
    OBVIOUS
  <2>1. ASSUME rc'.f # "spend"
        PROVE  DoubleSpends'
    BY <2>1 DEF DoubleSpendSound, DoubleSpendFound
  <2>2. CASE rc'.f \in OtherCalls
    BY <2>1, <2>2 DEF OtherCalls
  <2>3. CASE Spending
    <3>1. PICK chain \in UpTo(Ancestors, MaxHeight - 1), height \in 0 .. MaxHeight, txs \in UpTo(Spenders, MaxTxs) :
            Spend(txs, height, chain)
      BY <2>3 DEF Spending
    <3>2. MaxHeight - 1 \in Nat
      BY SizesAre
    <3>3. Len(chain) \in Nat /\ DOMAIN chain = 1 .. Len(chain) /\ \A h \in DOMAIN chain : chain[h] \in Ancestors
      BY <3>1, <3>2, UpToIs
    <3>4. AncestorChain(chain) /\ height \in Nat
      BY <3>3, AncestorIs DEF AncestorChain
    <3>5. SpendBlock(txs)
      BY <3>1, SpendersIs
    <3> DEFINE own == CountSpends(txs, SomeSpent, 1)
               verdict == IF own # "ok" THEN own ELSE FirstError(Walk(height, chain))
    <3>6. Call("spend", [txs |-> txs, height |-> height, chain |-> chain], verdict)
      BY <3>1, InputChainIs DEF Spend
    <3>7. rc'.args.txs = txs /\ rc'.args.height = height /\ rc'.args.chain = chain /\ rc'.result = verdict
      <4> HIDE DEF verdict
      <4> QED
        BY <3>6, CallIs
    <3>8. ASSUME verdict = "doublespend"
          PROVE  Cardinality(Spends(txs)) > 1 \/ \E j \in DOMAIN chain : Spends(chain[j].txs) # {}
      <4> HIDE DEF own
      <4>1. own = CountSpends(txs, SomeSpent, 1)
        BY DEF own
      <4> QED
        BY <3>4, <3>5, <3>8, <4>1, RefusedIsDouble
    <3>9. ASSUME txs \in OneInput, \A j \in DOMAIN chain : chain[j].txs \in OneInput,
                 \A j \in DOMAIN chain : chain[j].height = height - j,
                 \/ Cardinality(Spends(txs)) > 1
                 \/ \E j \in DOMAIN chain : chain[j].height > 0 /\ Spends(<<chain[j].txs[1]>>) # {}
          PROVE  verdict = "doublespend"
      <4> HIDE DEF own
      <4>1. own = CountSpends(txs, SomeSpent, 1)
        BY DEF own
      <4> QED
        BY <3>4, <3>9, <4>1, PairsRefused
    <3> HIDE DEF verdict
    <3>10. DoubleSpendSound'
      BY <3>7, <3>8 DEF DoubleSpendSound
    <3>11. DoubleSpendFound'
      BY <3>7, <3>9 DEF DoubleSpendFound, Counted
    <3> QED
      BY <3>10, <3>11
  <2>4. CASE Paying
    <3>1. rc'.f = "pay"
      BY <2>4, CallIs DEF Paying, Pay
    <3> QED
      BY <2>1, <3>1
  <2>5. CASE Judging
    <3>1. rc'.f = "judge"
      BY <2>5, JudgingIs, CallIs DEF Judge
    <3> QED
      BY <2>1, <3>1
  <2>6. CASE UNCHANGED rc
    BY <2>6 DEF DoubleSpendSound, DoubleSpendFound
  <2> QED
    BY <2>2, <2>3, <2>4, <2>5, <2>6, NextIs
<1> QED
  BY <1>1, <1>2, PTL DEF RecordsSpec

-----------------------------------------------------------------------------
(* Parts of a sequence, and bytes in a buffer.                              *)

\* p lies in w behind the first pos elements.
At(w, pos, p) == pos + Len(p) <= Len(w) /\ \A i \in 1 .. Len(p) : w[pos + i] = p[i]

LEMMA AtSelf ==
  ASSUME NEW w \in Seq(Int)
  PROVE  At(w, 0, w)
BY DEF At

\* What is appended lies at the end, and what was there stays.
LEMMA Appended ==
  ASSUME NEW w \in Seq(Int), NEW p \in Seq(Int)
  PROVE  /\ w \o p \in Seq(Int) /\ Len(w \o p) = Len(w) + Len(p)
         /\ At(w \o p, Len(w), p)
         /\ \A q \in Seq(Int), pos \in Nat : At(w, pos, q) => At(w \o p, pos, q)
<1>1. /\ w \o p \in Seq(Int) /\ Len(w \o p) = Len(w) + Len(p) /\ Len(w) \in Nat /\ Len(p) \in Nat
      /\ \A i \in 1 .. Len(w) + Len(p) : (w \o p)[i] = IF i <= Len(w) THEN w[i] ELSE p[i - Len(w)]
  BY ConcatProperties, LenProperties
<1> DEFINE v == w \o p
           m == Len(w)
           n == Len(p)
<1> HIDE DEF v, m, n
<1>2. /\ m \in Nat /\ n \in Nat /\ Len(v) = m + n
      /\ \A i \in 1 .. m + n : v[i] = IF i <= m THEN w[i] ELSE p[i - m]
  BY <1>1 DEF v, m, n
<1>3. At(v, m, p)
  <2>1. \A i \in 1 .. n : v[m + i] = p[i]
    <3> TAKE i \in 1 .. n
    <3>1. m + i \in 1 .. m + n /\ ~(m + i <= m) /\ (m + i) - m = i
      BY <1>2
    <3> QED
      BY <1>2, <3>1
  <2> QED
    BY <1>2, <2>1 DEF At, n
<1>4. ASSUME NEW q \in Seq(Int), NEW pos \in Nat, At(w, pos, q)
      PROVE  At(v, pos, q)
  <2>1. Len(q) \in Nat /\ pos + Len(q) <= m /\ \A i \in 1 .. Len(q) : w[pos + i] = q[i]
    BY <1>4, LenProperties DEF At, m
  <2>2. \A i \in 1 .. Len(q) : v[pos + i] = q[i]
    <3> TAKE i \in 1 .. Len(q)
    <3>1. pos + i \in 1 .. m + n /\ pos + i <= m
      BY <1>2, <2>1
    <3> QED
      BY <1>2, <2>1, <3>1
  <2> QED
    BY <1>2, <2>1, <2>2 DEF At
<1> QED
  BY <1>1, <1>3, <1>4 DEF v, m

\* The bytes p lie in the buffer from position pos on.
Lies(buf, pos, p) == \A i \in 1 .. Len(p) : (pos + i) - 1 \in DOMAIN buf /\ buf[(pos + i) - 1] = p[i]

LEMMA PutIs ==
  ASSUME NEW buf, NEW pos \in Nat, NEW p \in Seq(Int)
  PROVE  /\ DOMAIN Put(buf, pos, p) = DOMAIN buf \cup (pos .. (pos + Len(p)) - 1)
         /\ Lies(Put(buf, pos, p), pos, p)
         /\ \A j \in DOMAIN buf : j \in DOMAIN Put(buf, pos, p)
         /\ \A j \in DOMAIN buf : j \in Int /\ (j < pos \/ j >= pos + Len(p)) => Put(buf, pos, p)[j] = buf[j]
<1>1. Len(p) \in Nat
  BY LenProperties
<1>2. ASSUME NEW i \in 1 .. Len(p)
      PROVE  Put(buf, pos, p)[(pos + i) - 1] = p[i]
  <2> DEFINE j == (pos + i) - 1
  <2>1. j \in Int /\ j >= pos /\ j < pos + Len(p) /\ (j - pos) + 1 = i /\ j \in pos .. (pos + Len(p)) - 1
    BY <1>1
  <2> HIDE DEF j
  <2>2. Put(buf, pos, p)[j] = p[(j - pos) + 1]
    BY <2>1 DEF Put
  <2> QED
    BY <2>1, <2>2 DEF j
<1>3. ASSUME NEW j \in DOMAIN buf, j \in Int, j < pos \/ j >= pos + Len(p)
      PROVE  Put(buf, pos, p)[j] = buf[j]
  BY <1>1, <1>3 DEF Put
<1>4. DOMAIN Put(buf, pos, p) = DOMAIN buf \cup (pos .. (pos + Len(p)) - 1)
  BY <1>1 DEF Put
<1>5. \A i \in 1 .. Len(p) : (pos + i) - 1 \in pos .. (pos + Len(p)) - 1
  BY <1>1
<1>6. \A i \in 1 .. Len(p) : (pos + i) - 1 \in DOMAIN Put(buf, pos, p)
  BY <1>4, <1>5
<1>7. \A j \in DOMAIN buf : j \in DOMAIN Put(buf, pos, p)
  BY <1>4
<1>8. Lies(Put(buf, pos, p), pos, p)
  BY <1>2, <1>6 DEF Lies
<1> QED
  BY <1>3, <1>4, <1>7, <1>8

LEMMA LiesWithin ==
  ASSUME NEW buf, NEW pos \in Nat, NEW w \in Seq(Int), Lies(buf, pos, w),
         NEW k \in Nat, NEW p \in Seq(Int), At(w, k, p)
  PROVE  Lies(buf, pos + k, p)
<1>1. Len(p) \in Nat /\ Len(w) \in Nat /\ k + Len(p) <= Len(w)
  BY LenProperties DEF At
<1>2. ASSUME NEW i \in 1 .. Len(p)
      PROVE  ((pos + k) + i) - 1 \in DOMAIN buf /\ buf[((pos + k) + i) - 1] = p[i]
  <2>1. k + i \in 1 .. Len(w) /\ ((pos + k) + i) - 1 = (pos + (k + i)) - 1
    BY <1>1
  <2>2. (pos + (k + i)) - 1 \in DOMAIN buf /\ buf[(pos + (k + i)) - 1] = w[k + i] /\ w[k + i] = p[i]
    BY <2>1 DEF Lies, At
  <2> QED
    BY <2>1, <2>2
<1> QED
  BY <1>2 DEF Lies

LEMMA GetLies ==
  ASSUME NEW buf, NEW pos \in Nat, NEW p \in Seq(Int), Lies(buf, pos, p), NEW n, n = Len(p), NEW g
  PROVE  Get(buf, pos, n, g) = p
<1>1. Len(p) \in Nat /\ DOMAIN p = 1 .. Len(p) /\ p = [i \in 1 .. Len(p) |-> p[i]]
  BY LenProperties
<1>2. \A i \in 1 .. Len(p) : (IF pos + i - 1 \in DOMAIN buf THEN buf[pos + i - 1] ELSE g) = p[i]
  BY DEF Lies
<1>3. Get(buf, pos, Len(p), g) = [i \in 1 .. Len(p) |-> p[i]]
  BY <1>2 DEF Get
<1> QED
  BY <1>1, <1>3

-----------------------------------------------------------------------------
(* Integers of two and of four bytes.                                       *)

LEMMA SmallPowers ==
  ASSUME NEW b \in Nat
  PROVE  Power(b, 0) = 1 /\ Power(b, 1) = b /\ Power(b, 2) = b * b /\ Power(b, 3) = b * (b * b)
<1>1. Power(b, 0) = 1 /\ \A n \in Nat : Power(b, n + 1) = b * Power(b, n)
  BY PowerStep
<1>2. Power(b, 0 + 1) = b * Power(b, 0) /\ Power(b, 1 + 1) = b * Power(b, 1) /\ Power(b, 2 + 1) = b * Power(b, 2)
  BY <1>1
<1>3. 0 + 1 = 1 /\ 1 + 1 = 2 /\ 2 + 1 = 3
  OBVIOUS
<1>4. Power(b, 1) = b
  BY <1>1, <1>2, <1>3
<1>5. Power(b, 2) = b * b
  BY <1>2, <1>3, <1>4
<1> QED
  BY <1>1, <1>2, <1>3, <1>4, <1>5

LEMMA Powers256 == Power(256, 0) = 1 /\ Power(256, 1) = 256 /\ Power(256, 2) = (256 * 256) /\ Power(256, 3) = (256 * (256 * 256))
BY SmallPowers

\* The bytes of v are u.
Two(u, v) == u \in Seq(Int) /\ Len(u) = 2 /\ u[1] = (v \div 256) % 256 /\ u[2] = v % 256
Four(u, v) ==
    /\ u \in Seq(Int) /\ Len(u) = 4
    /\ u[1] = (v \div (256 * (256 * 256))) % 256 /\ u[2] = (v \div (256 * 256)) % 256
    /\ u[3] = (v \div 256) % 256 /\ u[4] = v % 256

LEMMA utob2 ==
  ASSUME NEW v \in Nat
  PROVE  Two(utob(v, US), v)
<1> DEFINE u == utob(v, US)
           e == [i \in 1 .. 2 |-> (v \div Power(256, 2 - i)) % 256]
<1>1. e[1] = (v \div Power(256, 1)) % 256 /\ e[2] = (v \div Power(256, 0)) % 256
  BY 1 \in 1 .. 2, 2 \in 1 .. 2, 2 - 1 = 1, 2 - 2 = 0
<1>2. e[1] = (v \div 256) % 256 /\ e[2] = v % 256
  BY <1>1, Powers256, v \div 1 = v
<1>3. e[1] \in Int /\ e[2] \in Int
  BY <1>2
<1>4. \A i \in 1 .. 2 : i = 1 \/ i = 2
  OBVIOUS
<1>5. e \in [1 .. 2 -> Int]
  <2>1. DOMAIN e = 1 .. 2 /\ \A i \in 1 .. 2 : e[i] \in Int
    BY <1>3, <1>4
  <2>2. e = [i \in 1 .. 2 |-> e[i]]
    OBVIOUS
  <2> HIDE DEF e
  <2> QED
    BY <2>1, <2>2
<1>6. u = e
  BY DEF utob, US
<1> HIDE DEF e
<1>7. e \in Seq(Int) /\ Len(e) = 2
  BY <1>5, FunctionIsSeq
<1> QED
  BY <1>2, <1>6, <1>7 DEF Two

LEMMA utob4 ==
  ASSUME NEW v \in Nat
  PROVE  Four(utob(v, UI), v)
<1> DEFINE u == utob(v, UI)
           e == [i \in 1 .. 4 |-> (v \div Power(256, 4 - i)) % 256]
<1>1. /\ e[1] = (v \div Power(256, 3)) % 256 /\ e[2] = (v \div Power(256, 2)) % 256
      /\ e[3] = (v \div Power(256, 1)) % 256 /\ e[4] = (v \div Power(256, 0)) % 256
  BY 1 \in 1 .. 4, 2 \in 1 .. 4, 3 \in 1 .. 4, 4 \in 1 .. 4, 4 - 1 = 3, 4 - 2 = 2, 4 - 3 = 1, 4 - 4 = 0
<1>2. /\ e[1] = (v \div (256 * (256 * 256))) % 256 /\ e[2] = (v \div (256 * 256)) % 256
      /\ e[3] = (v \div 256) % 256 /\ e[4] = v % 256
  BY <1>1, Powers256, v \div 1 = v
<1>3. e[1] \in Int /\ e[2] \in Int /\ e[3] \in Int /\ e[4] \in Int
  BY <1>2
<1>4. \A i \in 1 .. 4 : i = 1 \/ i = 2 \/ i = 3 \/ i = 4
  OBVIOUS
<1>5. e \in [1 .. 4 -> Int]
  <2>1. DOMAIN e = 1 .. 4 /\ \A i \in 1 .. 4 : e[i] \in Int
    BY <1>3, <1>4
  <2>2. e = [i \in 1 .. 4 |-> e[i]]
    OBVIOUS
  <2> HIDE DEF e
  <2> QED
    BY <2>1, <2>2
<1>6. u = e
  BY DEF utob, UI
<1> HIDE DEF e
<1>7. e \in Seq(Int) /\ Len(e) = 4
  BY <1>5, FunctionIsSeq
<1> QED
  BY <1>2, <1>6, <1>7 DEF Four

LEMMA btou2 ==
  ASSUME NEW b \in Seq(Int), Len(b) = 2
  PROVE  btou(b) = 256 * b[1] + b[2]
<1> DEFINE f == [i \in 0 .. 1 |-> b[2 - i] * Power(256, i)]
<1>1. btou(b) = SumBelow(f, 2)
  BY 2 - 1 = 1 DEF btou
<1>2. b[1] \in Int /\ b[2] \in Int
  BY ElementOfSeq
<1>3. f[0] = b[2] /\ f[1] = b[1] * 256
  <2>1. f[0] = b[2] * Power(256, 0) /\ f[1] = b[1] * Power(256, 1)
    BY 0 \in 0 .. 1, 1 \in 0 .. 1, 2 - 0 = 2, 2 - 1 = 1
  <2> QED
    BY <1>2, <2>1, Powers256
<1> HIDE DEF f
<1>4. Summands(f, 2) /\ Summands(f, 1)
  <2>1. \A i \in 0 .. 1 : i = 0 \/ i = 1
    OBVIOUS
  <2>2. 2 - 1 = 1 /\ 1 - 1 = 0 /\ \A i \in 0 .. 0 : i = 0
    OBVIOUS
  <2> QED
    BY <1>2, <1>3, <2>1, <2>2 DEF Summands
<1>5. SumBelow(f, 0) = 0 /\ SumBelow(f, 1) = SumBelow(f, 0) + f[0] /\ SumBelow(f, 2) = SumBelow(f, 1) + f[1]
  <2>1. \A n \in Nat : Summands(f, n + 1) => SumBelow(f, n + 1) = SumBelow(f, n) + f[n]
    BY SumStep
  <2>2. 0 + 1 = 1 /\ 1 + 1 = 2
    OBVIOUS
  <2> QED
    BY <1>4, <2>1, <2>2, SumStep
<1> QED
  BY <1>1, <1>2, <1>3, <1>5

LEMMA btou4 ==
  ASSUME NEW b \in Seq(Int), Len(b) = 4
  PROVE  btou(b) = (256 * (256 * 256)) * b[1] + (256 * 256) * b[2] + 256 * b[3] + b[4]
<1> DEFINE f == [i \in 0 .. 3 |-> b[4 - i] * Power(256, i)]
<1>1. btou(b) = SumBelow(f, 4)
  BY 4 - 1 = 3 DEF btou
<1>2. b[1] \in Int /\ b[2] \in Int /\ b[3] \in Int /\ b[4] \in Int
  BY ElementOfSeq
<1>3. f[0] = b[4] /\ f[1] = b[3] * 256 /\ f[2] = b[2] * (256 * 256) /\ f[3] = b[1] * (256 * (256 * 256))
  <2>1. /\ f[0] = b[4] * Power(256, 0) /\ f[1] = b[3] * Power(256, 1)
        /\ f[2] = b[2] * Power(256, 2) /\ f[3] = b[1] * Power(256, 3)
    BY 0 \in 0 .. 3, 1 \in 0 .. 3, 2 \in 0 .. 3, 3 \in 0 .. 3, 4 - 0 = 4, 4 - 1 = 3, 4 - 2 = 2, 4 - 3 = 1
  <2> QED
    BY <1>2, <2>1, Powers256
<1> HIDE DEF f
<1>4. Summands(f, 4) /\ Summands(f, 3) /\ Summands(f, 2) /\ Summands(f, 1)
  <2>1. \A i \in 0 .. 3 : i = 0 \/ i = 1 \/ i = 2 \/ i = 3
    OBVIOUS
  <2>2. \A i \in 0 .. 3 : f[i] \in Int
    BY <1>2, <1>3, <2>1
  <2> QED
    BY <2>2 DEF Summands
<1>5. /\ SumBelow(f, 0) = 0 /\ SumBelow(f, 1) = SumBelow(f, 0) + f[0] /\ SumBelow(f, 2) = SumBelow(f, 1) + f[1]
      /\ SumBelow(f, 3) = SumBelow(f, 2) + f[2] /\ SumBelow(f, 4) = SumBelow(f, 3) + f[3]
  <2>1. \A n \in Nat : Summands(f, n + 1) => SumBelow(f, n + 1) = SumBelow(f, n) + f[n]
    BY SumStep
  <2>2. 0 + 1 = 1 /\ 1 + 1 = 2 /\ 2 + 1 = 3 /\ 3 + 1 = 4
    OBVIOUS
  <2> QED
    BY <1>4, <2>1, <2>2, SumStep
<1> QED
  BY <1>1, <1>2, <1>3, <1>5

\* The digits of a number below 256 to the fourth.
LEMMA Digits ==
  ASSUME NEW v \in Nat, v < 256 * (256 * (256 * 256))
  PROVE  (256 * (256 * 256)) * ((v \div (256 * (256 * 256))) % 256) + (256 * 256) * ((v \div (256 * 256)) % 256)
            + 256 * ((v \div 256) % 256) + (v % 256) = v
<1>1. PICK a \in Int, r0 \in 0 .. 255 : v = 256 * a + r0
  BY v = 256 * (v \div 256) + (v % 256), v \div 256 \in Int, v % 256 \in 0 .. 255
<1>2. PICK b \in Int, r1 \in 0 .. 255 : a = 256 * b + r1
  BY a = 256 * (a \div 256) + (a % 256), a \div 256 \in Int, a % 256 \in 0 .. 255
<1>3. PICK c \in Int, r2 \in 0 .. 255 : b = 256 * c + r2
  BY b = 256 * (b \div 256) + (b % 256), b \div 256 \in Int, b % 256 \in 0 .. 255
<1>4. v % 256 = r0 /\ v \div 256 = a
  BY <1>1
<1>5. a % 256 = r1
  BY <1>2
<1>6. v \div (256 * 256) = b /\ b % 256 = r2
  BY <1>1, <1>2, <1>3
<1>7. v \div (256 * (256 * 256)) = c
  BY <1>1, <1>2, <1>3
<1>8. 0 <= c /\ c < 256 /\ c % 256 = c
  BY <1>1, <1>2, <1>3
<1> QED
  BY <1>1, <1>2, <1>3, <1>4, <1>5, <1>6, <1>7, <1>8

\* What utob writes, btou reads.
LEMMA IntLies ==
  ASSUME NEW buf, NEW pos \in Nat, NEW v \in Nat, NEW g
  PROVE  /\ v < 256 * 256 /\ Lies(buf, pos, utob(v, US)) => GetInt(buf, pos, US, g) = v
         /\ v < 256 * (256 * (256 * 256)) /\ Lies(buf, pos, utob(v, UI)) => GetInt(buf, pos, UI, g) = v
<1>1. ASSUME v < 256 * 256, Lies(buf, pos, utob(v, US))
      PROVE  GetInt(buf, pos, US, g) = v
  <2>1. PICK u, k : u = utob(v, US) /\ Two(u, v) /\ k = Len(u)
    BY utob2
  <2>2. Lies(buf, pos, u) /\ u \in Seq(Int) /\ k = Len(u)
    BY <1>1, <2>1 DEF Two
  <2>3. Get(buf, pos, k, g) = u
    BY <2>2, GetLies
  <2>4. k = 2 /\ u[1] = (v \div 256) % 256 /\ u[2] = v % 256
    BY <2>1 DEF Two
  <2>5. btou(u) = 256 * u[1] + u[2]
    BY <2>2, <2>4, btou2
  <2>6. 256 * u[1] + u[2] = v
    BY <1>1, <2>4
  <2> QED
    BY <2>3, <2>5, <2>6, <2>4 DEF GetInt, US
<1>2. ASSUME v < 256 * (256 * (256 * 256)), Lies(buf, pos, utob(v, UI))
      PROVE  GetInt(buf, pos, UI, g) = v
  <2>1. PICK u, k : u = utob(v, UI) /\ Four(u, v) /\ k = Len(u)
    BY utob4
  <2>2. Lies(buf, pos, u) /\ u \in Seq(Int) /\ k = Len(u)
    BY <1>2, <2>1 DEF Four
  <2>3. Get(buf, pos, k, g) = u
    BY <2>2, GetLies
  <2>4. k = 4
    BY <2>1 DEF Four
  <2>5. btou(u) = (256 * (256 * 256)) * u[1] + (256 * 256) * u[2] + 256 * u[3] + u[4]
    BY <2>2, <2>4, btou4, ZenonT(60)
  <2>6. /\ u[1] = (v \div (256 * (256 * 256))) % 256 /\ u[2] = (v \div (256 * 256)) % 256
        /\ u[3] = (v \div 256) % 256 /\ u[4] = v % 256
    BY <2>1 DEF Four
  <2>7. btou(u) = v
    BY <1>2, <2>5, <2>6, Digits
  <2> QED
    BY <2>3, <2>7, <2>4 DEF GetInt, UI
<1> QED
  BY <1>1, <1>2

-----------------------------------------------------------------------------
(* Parts joined one behind the other.                                       *)

\* n parts, each of them a sequence.
Parts(parts, n) == Len(parts) = n /\ \A i \in 1 .. n : parts[i] \in Seq(Int)

\* The recursive definition has the value it describes.
LEMMA JoinedDef ==
  ASSUME NEW parts, NEW n \in Nat, Parts(parts, n)
  PROVE  /\ Joined(parts)[0] = <<>>
         /\ \A i \in 1 .. n : Joined(parts)[i] = Joined(parts)[i - 1] \o parts[i]
         /\ \A i \in 0 .. n : Joined(parts)[i] \in Seq(Int)
<1> DEFINE S == Seq(Int)
           g == [p \in (1 .. n) \X S |-> p[2] \o parts[p[1]]]
           Body(s) == [i \in 0 .. n |-> IF i = 0 THEN <<>> ELSE s[i - 1] \o parts[i]]
           s == Joined(parts)
           none == <<>>
<1>1. \A i \in 1 .. n, v \in S : g[<<i, v>>] = v \o parts[i] /\ v \o parts[i] \in S
  BY ConcatProperties DEF Parts
<1>2. g \in [(1 .. n) \X S -> S]
  BY <1>1
<1>3. none \in S
  OBVIOUS
<1> HIDE DEF g, S, none
<1>4. PICK h \in [0 .. n -> S] : Stepwise(h, n, none, g)
  BY <1>2, <1>3, Recursion
<1>5. ASSUME NEW i \in 1 .. n
      PROVE  h[i] = h[i - 1] \o parts[i]
  <2>1. i - 1 \in 0 .. n
    OBVIOUS
  <2>2. h[i - 1] \in S
    BY <2>1
  <2>3. g[<<i, h[i - 1]>>] = h[i - 1] \o parts[i]
    BY <1>1, <2>2, Zenon
  <2>4. h[i] = g[<<i, h[i - 1]>>]
    BY <1>4, Zenon DEF Stepwise
  <2> QED
    BY <2>3, <2>4, Zenon
<1>6. h = Body(h)
  <2>1. h[0] = <<>>
    BY <1>4 DEF Stepwise, none
  <2>2. h = [i \in 0 .. n |-> h[i]]
    BY <1>4
  <2>3. \A i \in 0 .. n : i # 0 => i \in 1 .. n
    OBVIOUS
  <2>4. \A i \in 0 .. n : h[i] = IF i = 0 THEN <<>> ELSE h[i - 1] \o parts[i]
    BY <1>5, <2>1, <2>3
  <2> QED
    BY <2>2, <2>4
<1>7. s = CHOOSE t : t = Body(t)
  BY DEF Joined, Parts
<1>8. s = Body(s)
  BY <1>6, <1>7
<1> HIDE DEF s
<1>9. s[0] = <<>>
  BY <1>8
<1>10. ASSUME NEW i \in 1 .. n
       PROVE  s[i] = s[i - 1] \o parts[i]
  <2>1. i \in 0 .. n /\ i # 0
    OBVIOUS
  <2> QED
    BY <1>8, <2>1
<1>11. \A i \in 0 .. n : s[i] \in S
  <2> DEFINE T == {i \in 0 .. n : s[i] \in S}
  <2>1. 0 \in T
    BY <1>3, <1>9 DEF none
  <2>2. ASSUME NEW i \in 0 .. n - 1, i \in T
        PROVE  i + 1 \in T
    <3>1. i + 1 \in 1 .. n /\ i + 1 \in 0 .. n /\ (i + 1) - 1 = i /\ s[i] \in S
      BY <2>2
    <3>2. s[i + 1] = s[i] \o parts[i + 1]
      BY <1>10, <3>1
    <3>3. s[i] \o parts[i + 1] \in S
      BY <1>1, <3>1
    <3> QED
      BY <3>1, <3>2, <3>3
  <2> HIDE DEF T
  <2>3. \A i \in 0 .. n : i \in T
    BY <2>1, <2>2, UpToInduction
  <2> QED
    BY <2>3 DEF T
<1> QED
  BY <1>9, <1>10, <1>11 DEF s, S

\* Parts of the same length lie at its multiples.
Spaced(w, parts, k, L) ==
  w \in Seq(Int) /\ Len(w) = k * L /\ \A i \in 1 .. k : At(w, (i - 1) * L, parts[i])

LEMMA ConcatFixed ==
  ASSUME NEW parts, NEW n \in Nat, Parts(parts, n), NEW L \in Nat, \A i \in 1 .. n : Len(parts[i]) = L
  PROVE  Spaced(Concat(parts), parts, n, L)
<1> DEFINE s == Joined(parts)
           T == {k \in 0 .. n : Spaced(s[k], parts, k, L)}
<1>1. /\ s[0] = <<>> /\ \A i \in 1 .. n : s[i] = s[i - 1] \o parts[i]
      /\ \A i \in 0 .. n : s[i] \in Seq(Int)
  BY JoinedDef
<1> HIDE DEF s
<1>2. 0 \in T
  <2>1. s[0] \in Seq(Int) /\ Len(s[0]) = 0 /\ 0 * L = 0 /\ \A i \in 1 .. 0 : FALSE
    BY <1>1
  <2> QED
    BY <2>1 DEF Spaced
<1>3. ASSUME NEW k \in 0 .. n - 1, k \in T
      PROVE  k + 1 \in T
  <2> DEFINE w == s[k]
             p == parts[k + 1]
             m == k * L
  <2>1. k + 1 \in 1 .. n /\ k + 1 \in 0 .. n /\ (k + 1) - 1 = k /\ k \in Nat
    OBVIOUS
  <2>2. w \in Seq(Int) /\ Len(w) = m /\ \A i \in 1 .. k : At(w, (i - 1) * L, parts[i])
    BY <1>3 DEF Spaced
  <2>3. p \in Seq(Int) /\ Len(p) = L /\ s[k + 1] = w \o p
    BY <1>1, <2>1 DEF Parts
  <2>4. m \in Nat /\ (k + 1) * L = m + L
    OBVIOUS
  <2> HIDE DEF w, p, m
  <2>5. /\ w \o p \in Seq(Int) /\ Len(w \o p) = m + L /\ At(w \o p, m, p)
        /\ \A q \in Seq(Int), pos \in Nat : At(w, pos, q) => At(w \o p, pos, q)
    BY <2>2, <2>3, Appended
  <2>6. ASSUME NEW i \in 1 .. k + 1
        PROVE  At(w \o p, (i - 1) * L, parts[i])
    <3>1. CASE i = k + 1
      BY <2>1, <2>5, <3>1 DEF m, p
    <3>2. CASE i # k + 1
      <4>1. i \in 1 .. k /\ i \in 1 .. n /\ i - 1 \in Nat
        BY <3>2
      <4>2. (i - 1) * L \in Nat
        BY <4>1
      <4>3. parts[i] \in Seq(Int) /\ At(w, (i - 1) * L, parts[i])
        BY <2>2, <4>1 DEF Parts
      <4> QED
        BY <2>5, <4>2, <4>3
    <3> QED
      BY <3>1, <3>2
  <2>7. Spaced(s[k + 1], parts, k + 1, L)
    BY <2>3, <2>4, <2>5, <2>6 DEF Spaced
  <2> QED
    BY <2>1, <2>7
<1> HIDE DEF T
<1>4. n \in T
  <2>1. \A k \in 0 .. n : k \in T
    BY <1>2, <1>3, UpToInduction
  <2> QED
    BY <2>1
<1> QED
  BY <1>4 DEF T, s, Concat, Parts

\* The first part lies at the start.
LEMMA ConcatFirst ==
  ASSUME NEW parts, NEW n \in Nat, Parts(parts, n)
  PROVE  Concat(parts) \in Seq(Int) /\ (n > 0 => At(Concat(parts), 0, parts[1]))
<1> DEFINE s == Joined(parts)
           T == {k \in 0 .. n : k > 0 => At(s[k], 0, parts[1])}
<1>1. /\ s[0] = <<>> /\ \A i \in 1 .. n : s[i] = s[i - 1] \o parts[i]
      /\ \A i \in 0 .. n : s[i] \in Seq(Int)
  BY JoinedDef
<1> HIDE DEF s
<1>2. 0 \in T
  OBVIOUS
<1>3. ASSUME NEW k \in 0 .. n - 1, k \in T
      PROVE  k + 1 \in T
  <2> DEFINE w == s[k]
             p == parts[k + 1]
  <2>1. k + 1 \in 1 .. n /\ k + 1 \in 0 .. n /\ (k + 1) - 1 = k /\ k \in 0 .. n /\ 1 \in 1 .. n
    OBVIOUS
  <2>2. w \in Seq(Int) /\ p \in Seq(Int) /\ s[k + 1] = w \o p /\ parts[1] \in Seq(Int)
    BY <1>1, <2>1 DEF Parts
  <2>3. CASE k = 0
    <3>1. Len(w) = 0 /\ p = parts[1]
      BY <1>1, <2>3
    <3> HIDE DEF w, p
    <3>2. At(w \o p, 0, p)
      BY <2>2, <3>1, Appended
    <3> QED
      BY <2>1, <2>2, <3>1, <3>2
  <2>4. CASE k # 0
    <3>1. At(w, 0, parts[1])
      BY <1>3, <2>4
    <3> HIDE DEF w, p
    <3>2. At(w \o p, 0, parts[1])
      BY <2>2, <3>1, Appended
    <3> QED
      BY <2>1, <2>2, <3>2
  <2> QED
    BY <2>3, <2>4
<1> HIDE DEF T
<1>4. n \in T
  <2>1. \A k \in 0 .. n : k \in T
    BY <1>2, <1>3, UpToInduction
  <2> QED
    BY <2>1
<1>5. n \in 0 .. n /\ Concat(parts) = s[n]
  BY DEF Concat, Parts, s
<1> QED
  BY <1>1, <1>4, <1>5 DEF T

-----------------------------------------------------------------------------
(* Lists of hashes.                                                         *)

\* The least element is the one below which there is none.
LEMMA MinUnique ==
  ASSUME NEW S, S \subseteq Nat, NEW x \in S, \A y \in S : x <= y
  PROVE  Min(S) = x
<1>1. Min(S) \in S /\ \A y \in S : Min(S) <= y
  BY MinIs
<1> DEFINE m == Min(S)
<1> HIDE DEF m
<1>2. m \in Nat /\ x \in Nat /\ m <= x /\ x <= m
  BY <1>1 DEF m
<1> QED
  BY <1>2 DEF m

\* The hash that lies at the i-th place is read there.
LEMMA HashAtIs ==
  ASSUME NEW file \in Seq(Int), NEW h \in Seq(Int), Len(h) = HashSize, NEW i \in Nat, At(file, i * HashSize, h)
  PROVE  HashAt(file, i) = h /\ (i + 1) * HashSize <= Len(file)
<1> DEFINE p == i * HashSize
           q == (i + 1) * HashSize
           s == SubSeq(file, p + 1, q)
<1>1. p \in Nat /\ q \in Nat /\ q = p + HashSize /\ HashSize \in Nat
  BY SizesAre
<1>2. /\ p + HashSize <= Len(file) /\ Len(file) \in Nat
      /\ \A j \in 1 .. HashSize : file[p + j] = h[j]
  BY LenProperties DEF At
<1> HIDE DEF p, q
<1>3. \A j \in p + 1 .. q : file[j] \in Int
  <2> TAKE j \in p + 1 .. q
  <2>1. j \in 1 .. Len(file)
    BY <1>1, <1>2
  <2> QED
    BY <2>1, ElementOfSeq
<1>4. p + 1 \in Int /\ q \in Int
  BY <1>1
<1>5. /\ s \in Seq(Int) /\ Len(s) = IF p + 1 <= q THEN q - (p + 1) + 1 ELSE 0
      /\ \A j \in 1 .. q - (p + 1) + 1 : s[j] = file[(p + 1) + j - 1]
  BY <1>3, <1>4, SubSeqProperties
<1>6. q - (p + 1) + 1 = HashSize /\ (~(p + 1 <= q) => HashSize = 0)
  BY <1>1
<1>7. Len(s) = HashSize
  BY <1>5, <1>6
<1>8. ASSUME NEW j \in 1 .. HashSize
      PROVE  s[j] = h[j]
  <2>1. (p + 1) + j - 1 = p + j
    BY <1>1
  <2> QED
    BY <1>2, <1>5, <1>6, <2>1
<1> HIDE DEF s
<1>9. s = h
  BY <1>5, <1>7, <1>8, SeqEqual
<1> QED
  BY <1>1, <1>2, <1>9 DEF s, p, q, HashAt

\* A hash, as a sequence.
LEMMA KeepIs ==
  ASSUME NEW h \in Keep
  PROVE  h \in Seq(Int) /\ Len(h) = HashSize /\ DOMAIN h = 1 .. HashSize
<1>1. h \in [1 .. HashSize -> Bytes] /\ HashSize \in Nat
  BY RecordsAssumption, SizesAre
<1>2. h \in [1 .. HashSize -> Int]
  <2>1. \A b \in Bytes : b \in Int
    BY DEF Bytes
  <2> QED
    BY <1>1, <2>1
<1> QED
  BY <1>1, <1>2, FunctionIsSeq

\* n hashes.
HashList(hashes, n) ==
  Len(hashes) = n /\ DOMAIN hashes = 1 .. n /\ \A i \in 1 .. n : hashes[i] \in Seq(Int) /\ Len(hashes[i]) = HashSize

\* A file of n hashes and one more.
ListFile(file, hashes, n, hash) ==
  /\ n \in Nat /\ HashList(hashes, n) /\ hash \in Seq(Int) /\ Len(hash) = HashSize
  /\ file = Concat(hashes) \o hash

LEMMA FileIs ==
  ASSUME NEW file, NEW hashes, NEW n, NEW hash, ListFile(file, hashes, n, hash)
  PROVE  /\ file \in Seq(Int) /\ Len(file) \div HashSize = n + 1
         /\ \A i \in 0 .. n - 1 : HashAt(file, i) = hashes[i + 1] /\ (i + 1) * HashSize <= Len(file)
         /\ HashAt(file, n) = hash /\ (n + 1) * HashSize <= Len(file)
<1> USE DEF ListFile
<1> DEFINE H == HashSize
           w == Concat(hashes)
<1>1. H \in Nat /\ H > 2
  BY SizesAre
<1>2. Spaced(w, hashes, n, H)
  <2>1. Parts(hashes, n) /\ \A i \in 1 .. n : Len(hashes[i]) = H
    BY DEF HashList, Parts
  <2> QED
    BY <1>1, <2>1, ConcatFixed
<1> HIDE DEF H, w
<1>3. w \in Seq(Int) /\ Len(w) = n * H /\ \A i \in 1 .. n : At(w, (i - 1) * H, hashes[i])
  BY <1>2 DEF Spaced
<1>4. /\ w \o hash \in Seq(Int) /\ Len(w \o hash) = Len(w) + Len(hash) /\ At(w \o hash, Len(w), hash)
      /\ \A q \in Seq(Int), pos \in Nat : At(w, pos, q) => At(w \o hash, pos, q)
  BY <1>3, Appended
<1>5. file = w \o hash
  BY DEF w
<1>6. file \in Seq(Int) /\ Len(file) = n * H + H
  BY <1>3, <1>4, <1>5 DEF H
<1>7. Len(file) \div H = n + 1
  <2>1. n * H + H = H * (n + 1) + 0
    BY <1>1
  <2> DEFINE v == Len(file)
  <2>2. v = H * (n + 1) + 0 /\ v \in Int
    BY <1>6, <2>1, LenProperties
  <2> HIDE DEF v
  <2>3. PICK q \in Int, r \in Int : q = n + 1 /\ r = 0
    OBVIOUS
  <2>4. v = H * q + r /\ H > 0 /\ 0 <= r /\ r < H
    BY <1>1, <2>2, <2>3
  <2>5. v \div H = q
    BY <1>1, <2>2, <2>3, <2>4, QuotientIs
  <2> QED
    BY <2>3, <2>5 DEF v
<1>8. ASSUME NEW i \in 0 .. n - 1
      PROVE  HashAt(file, i) = hashes[i + 1] /\ (i + 1) * H <= Len(file)
  <2>1. i + 1 \in 1 .. n /\ (i + 1) - 1 = i /\ i \in Nat
    OBVIOUS
  <2>2. i * H \in Nat
    BY <1>1, <2>1
  <2>3. hashes[i + 1] \in Seq(Int) /\ Len(hashes[i + 1]) = H
    BY <2>1 DEF HashList, H
  <2>4. At(w, i * H, hashes[i + 1])
    BY <1>3, <2>1
  <2>5. At(file, i * H, hashes[i + 1])
    BY <1>4, <1>5, <2>2, <2>3, <2>4
  <2> QED
    BY <1>6, <2>1, <2>3, <2>5, HashAtIs DEF H
<1>9. HashAt(file, n) = hash /\ (n + 1) * H <= Len(file)
  <2>1. At(file, n * H, hash)
    BY <1>3, <1>4, <1>5
  <2> QED
    BY <1>6, <2>1, HashAtIs DEF H
<1> QED
  BY <1>6, <1>7, <1>8, <1>9 DEF H

\* What a search finds: the least place at which the hash is read.
LEMMA IndexIs ==
  ASSUME NEW hash, NEW file, NEW x \in Nat, x < Len(file) \div HashSize, Len(file) \div HashSize \in Int,
         HashAt(file, x) = hash, \A j \in 0 .. x - 1 : HashAt(file, j) # hash
  PROVE  intern_hashlist_getindex(hash, file) = x
<1> DEFINE found == {i \in 0 .. Len(file) \div HashSize - 1 : HashAt(file, i) = hash}
<1>1. x \in found /\ found \subseteq Nat
  OBVIOUS
<1>2. ASSUME NEW y \in found
      PROVE  x <= y
  <2>1. y \in Nat /\ HashAt(file, y) = hash
    OBVIOUS
  <2>2. CASE y < x
    <3>1. y \in 0 .. x - 1
      BY <2>1, <2>2
    <3> QED
      BY <2>1, <3>1
  <2> QED
    BY <2>1, <2>2
<1> HIDE DEF found
<1>3. Min(found) = x /\ found # {}
  BY <1>1, <1>2, MinUnique
<1> QED
  BY <1>3 DEF intern_hashlist_getindex, found

LEMMA NotFound ==
  ASSUME NEW hash, NEW file, \A j \in 0 .. Len(file) \div HashSize - 1 : HashAt(file, j) # hash
  PROVE  intern_hashlist_getindex(hash, file) = -1
<1> DEFINE found == {i \in 0 .. Len(file) \div HashSize - 1 : HashAt(file, i) = hash}
<1>1. found = {}
  OBVIOUS
<1> QED
  BY <1>1 DEF intern_hashlist_getindex

\* The first place of a hash that is added behind n others.
FirstPlace(hashes, n, hash) == Min({i \in DOMAIN hashes : hashes[i] = hash} \cup {n + 1}) - 1

LEMMA ListedIs ==
  ASSUME NEW file, NEW hashes, NEW n, NEW hash, ListFile(file, hashes, n, hash)
  PROVE  /\ FirstPlace(hashes, n, hash) \in Nat
         /\ intern_hashlist_getindex(hash, file) = FirstPlace(hashes, n, hash)
         /\ intern_hashlist_get(FirstPlace(hashes, n, hash), <<>>, file) = hash
<1> DEFINE places == {i \in DOMAIN hashes : hashes[i] = hash}
           S == places \cup {n + 1}
           m == Min(S)
           x == m - 1
<1>1. /\ file \in Seq(Int) /\ Len(file) \div HashSize = n + 1
      /\ \A i \in 0 .. n - 1 : HashAt(file, i) = hashes[i + 1] /\ (i + 1) * HashSize <= Len(file)
      /\ HashAt(file, n) = hash /\ (n + 1) * HashSize <= Len(file)
  BY FileIs
<1>2. n \in Nat /\ HashList(hashes, n)
  BY DEF ListFile
<1>3. \A i \in 1 .. n : hashes[i] = hash <=> i \in places
  BY <1>2 DEF HashList
<1>4. places \subseteq 1 .. n
  BY <1>2 DEF HashList
<1>5. S \subseteq Nat /\ S # {}
  BY <1>2, <1>4
<1> HIDE DEF S
<1>6. m \in S /\ \A z \in S : m <= z
  BY <1>5, MinIs
<1> HIDE DEF m
<1>7. /\ m \in 1 .. n + 1 /\ (m \in places \/ m = n + 1)
      /\ \A z \in places : m <= z
  BY <1>2, <1>4, <1>6 DEF S
<1>8. x \in Nat /\ x < n + 1 /\ x + 1 = m
  BY <1>2, <1>7
<1>9. HashAt(file, x) = hash /\ (x + 1) * HashSize <= Len(file)
  <2>1. CASE m \in places
    <3>1. x \in 0 .. n - 1 /\ hashes[x + 1] = hash
      BY <1>2, <1>3, <1>4, <1>8, <2>1
    <3> QED
      BY <1>1, <3>1
  <2>2. CASE m \notin places
    <3>1. m = n + 1 /\ x = n
      BY <1>2, <1>7, <1>8, <2>2
    <3> QED
      BY <1>1, <3>1
  <2> QED
    BY <2>1, <2>2
<1>10. ASSUME NEW j \in 0 .. x - 1
       PROVE  HashAt(file, j) # hash
  <2>1. j \in 0 .. n - 1 /\ j + 1 \in 1 .. n /\ j + 1 < m
    BY <1>2, <1>7, <1>8
  <2>2. j + 1 \notin places
    BY <1>7, <2>1
  <2> QED
    BY <1>1, <1>3, <2>1, <2>2
<1>11. intern_hashlist_getindex(hash, file) = x
  <2> HIDE DEF x
  <2>1. x < Len(file) \div HashSize /\ Len(file) \div HashSize \in Int
    BY <1>2, <1>1, <1>8
  <2> QED
    BY <1>8, <1>9, <1>10, <2>1, IndexIs
<1>12. intern_hashlist_get(x, <<>>, file) = hash
  BY <1>9 DEF intern_hashlist_get
<1> QED
  BY <1>8, <1>11, <1>12 DEF m, S, FirstPlace

LEMMA ListingRight ==
  ASSUME Listing
  PROVE  ListFinds'
<1>1. PICK hashes \in UpTo(Keep, MaxTxs), hash \in Keep : Lists(hashes, hash)
  BY DEF Listing
<1> DEFINE n == Len(hashes)
           file == Concat(hashes) \o hash
           index == intern_hashlist_getindex(hash, file)
           x == FirstPlace(hashes, n, hash)
<1>2. MaxTxs \in Nat
  BY SizesAre
<1>3. n \in Nat /\ DOMAIN hashes = 1 .. n /\ \A i \in 1 .. n : hashes[i] \in Keep
  BY <1>1, <1>2, UpToIs
<1>4. HashList(hashes, n)
  BY <1>3, KeepIs DEF HashList
<1>5. hash \in Seq(Int) /\ Len(hash) = HashSize
  BY <1>1, KeepIs
<1>6. x \in Nat /\ index = x /\ intern_hashlist_get(x, <<>>, file) = hash
  <2>1. ListFile(file, hashes, n, hash)
    BY <1>1, <1>3, <1>4, <1>5 DEF ListFile
  <2> HIDE DEF n, file
  <2> QED
    BY <2>1, ListedIs
<1>7. /\ rc'.args = [hashes |-> hashes, hash |-> hash]
      /\ rc'.result = [index |-> index, back |-> IF index < 0 THEN <<>> ELSE intern_hashlist_get(index, <<>>, file)]
  BY <1>1, CallIs DEF Lists, intern_hashlist_add
<1> HIDE DEF file, index, x
<1>8. rc'.args.hashes = hashes /\ rc'.args.hash = hash
  BY <1>7
<1>9. /\ rc'.result.index = index
      /\ rc'.result.back = IF index < 0 THEN <<>> ELSE intern_hashlist_get(index, <<>>, file)
  BY <1>7
<1>10. rc'.result.index = x /\ rc'.result.back = hash
  BY <1>6, <1>9
<1> QED
  BY <1>8, <1>10 DEF ListFinds, x, n, FirstPlace

-----------------------------------------------------------------------------
(* The format of transactions.                                              *)

\* Three parts behind w.
Behind(x, w, a, b, c) ==
  /\ x \in Seq(Int) /\ Len(x) = ((Len(w) + Len(a)) + Len(b)) + Len(c)
  /\ At(x, 0, w) /\ At(x, Len(w), a) /\ At(x, Len(w) + Len(a), b) /\ At(x, (Len(w) + Len(a)) + Len(b), c)

LEMMA ThreeBehind ==
  ASSUME NEW w \in Seq(Int), NEW a \in Seq(Int), NEW b \in Seq(Int), NEW c \in Seq(Int)
  PROVE  Behind(((w \o a) \o b) \o c, w, a, b, c)
<1>1. Len(w) \in Nat /\ Len(a) \in Nat /\ Len(b) \in Nat /\ Len(c) \in Nat
  BY LenProperties
<1>2. PICK u : u = w \o a
  OBVIOUS
<1>3. u \in Seq(Int) /\ Len(u) = Len(w) + Len(a) /\ At(u, 0, w) /\ At(u, Len(w), a)
  <2>1. At(w, 0, w) /\ 0 \in Nat
    BY AtSelf
  <2> QED
    BY <1>2, <2>1, Appended
<1>4. PICK v : v = u \o b
  OBVIOUS
<1>5. v \in Seq(Int) /\ Len(v) = Len(u) + Len(b) /\ At(v, 0, w) /\ At(v, Len(w), a) /\ At(v, Len(u), b)
  <2>1. /\ u \o b \in Seq(Int) /\ Len(u \o b) = Len(u) + Len(b) /\ At(u \o b, Len(u), b)
        /\ \A q \in Seq(Int), pos \in Nat : At(u, pos, q) => At(u \o b, pos, q)
    BY <1>3, Appended
  <2> QED
    BY <1>1, <1>3, <1>4, <2>1
<1>6. PICK x : x = v \o c
  OBVIOUS
<1>7. /\ x \in Seq(Int) /\ Len(x) = Len(v) + Len(c)
      /\ At(x, 0, w) /\ At(x, Len(w), a) /\ At(x, Len(u), b) /\ At(x, Len(v), c)
  <2>1. /\ v \o c \in Seq(Int) /\ Len(v \o c) = Len(v) + Len(c) /\ At(v \o c, Len(v), c)
        /\ \A q \in Seq(Int), pos \in Nat : At(v, pos, q) => At(v \o c, pos, q)
    BY <1>5, Appended
  <2> QED
    BY <1>1, <1>3, <1>5, <1>6, <2>1
<1>8. Behind(x, w, a, b, c)
  BY <1>3, <1>5, <1>7 DEF Behind
<1> QED
  BY <1>2, <1>4, <1>6, <1>8

\* A string of n bytes.
String(s, n) == s \in Seq(Int) /\ Len(s) = n

LEMMA utobIs ==
  ASSUME NEW v \in Nat
  PROVE  String(utob(v, US), 2) /\ String(utob(v, UI), 4)
BY utob2, utob4 DEF Two, Four, String

\* An input, an output and a transaction that have the widths of their fields.
SoundIn(in) ==
  /\ in = [out_index |-> in.out_index, ref_tx |-> in.ref_tx, pubkey |-> in.pubkey, sig |-> in.sig]
  /\ in.out_index \in Nat /\ in.out_index < 256 * 256
  /\ String(in.ref_tx, HashSize) /\ String(in.pubkey, KeySize) /\ String(in.sig, SigSize)
SoundOut(out) ==
  /\ out = [out_addr |-> out.out_addr, amount |-> out.amount]
  /\ out.amount \in Nat /\ out.amount < 256 * (256 * (256 * 256))
  /\ String(out.out_addr, HashSize)
SoundTx(tx) ==
  /\ tx = [version |-> tx.version, lock_time |-> tx.lock_time, ins |-> tx.ins, outs |-> tx.outs]
  /\ tx.version \in Nat /\ tx.version < 256 * 256
  /\ tx.lock_time \in Nat /\ tx.lock_time < 256 * (256 * (256 * 256))
  /\ Len(tx.ins) \in Nat /\ Len(tx.ins) < 256 * 256 /\ tx.ins = [i \in 1 .. Len(tx.ins) |-> tx.ins[i]]
  /\ \A i \in 1 .. Len(tx.ins) : SoundIn(tx.ins[i])
  /\ Len(tx.outs) \in Nat /\ Len(tx.outs) < 256 * 256 /\ tx.outs = [i \in 1 .. Len(tx.outs) |-> tx.outs[i]]
  /\ \A i \in 1 .. Len(tx.outs) : SoundOut(tx.outs[i])

InBytes(in) == utob(in.out_index, US) \o in.ref_tx \o in.pubkey \o in.sig
OutBytes(out) == out.out_addr \o utob(out.amount, UI)

LEMMA InIs ==
  ASSUME NEW in, SoundIn(in)
  PROVE  /\ String(InBytes(in), SIZE_TX_INPUT)
         /\ At(InBytes(in), 0, utob(in.out_index, US)) /\ At(InBytes(in), US, in.ref_tx)
         /\ At(InBytes(in), US + HashSize, in.pubkey) /\ At(InBytes(in), US + HashSize + KeySize, in.sig)
<1>1. PICK u : u = utob(in.out_index, US) /\ u \in Seq(Int) /\ Len(u) = 2
  BY utobIs DEF SoundIn, String
<1>2. Behind(((u \o in.ref_tx) \o in.pubkey) \o in.sig, u, in.ref_tx, in.pubkey, in.sig)
  BY <1>1, ThreeBehind DEF SoundIn, String
<1>3. PICK x : x = InBytes(in) /\ Behind(x, u, in.ref_tx, in.pubkey, in.sig)
  BY <1>1, <1>2 DEF InBytes
<1>4. Len(in.ref_tx) = HashSize /\ Len(in.pubkey) = KeySize /\ Len(in.sig) = SigSize
  BY DEF SoundIn, String
<1> QED
  BY <1>1, <1>3, <1>4 DEF Behind, String, SIZE_TX_INPUT, US

LEMMA OutIs ==
  ASSUME NEW out, SoundOut(out)
  PROVE  /\ String(OutBytes(out), SIZE_TX_OUTPUT)
         /\ At(OutBytes(out), 0, out.out_addr) /\ At(OutBytes(out), HashSize, utob(out.amount, UI))
<1>1. PICK u : u = utob(out.amount, UI) /\ u \in Seq(Int) /\ Len(u) = 4
  BY utobIs DEF SoundOut, String
<1>2. out.out_addr \in Seq(Int) /\ Len(out.out_addr) = HashSize /\ At(out.out_addr, 0, out.out_addr) /\ 0 \in Nat
  BY AtSelf DEF SoundOut, String
<1> DEFINE a == out.out_addr
<1> HIDE DEF a
<1>3. /\ a \o u \in Seq(Int) /\ Len(a \o u) = Len(a) + Len(u)
      /\ At(a \o u, Len(a), u)
      /\ \A q \in Seq(Int), pos \in Nat : At(a, pos, q) => At(a \o u, pos, q)
  BY <1>1, <1>2, Appended DEF a
<1> QED
  BY <1>1, <1>2, <1>3 DEF String, SIZE_TX_OUTPUT, UI, OutBytes, a

\* What lies in the buffer as an input is read as that input.
LEMMA InLies ==
  ASSUME NEW buf, NEW at \in Nat, NEW in, SoundIn(in), Lies(buf, at, InBytes(in)), NEW g
  PROVE  tx_input_deserialize(buf, at, g) = in
<1>1. HashSize \in Nat /\ KeySize \in Nat /\ SigSize \in Nat
  BY SizesAre
<1>2. PICK x, u : x = InBytes(in) /\ u = utob(in.out_index, US)
  OBVIOUS
<1>3. x \in Seq(Int) /\ u \in Seq(Int) /\ in.ref_tx \in Seq(Int) /\ in.pubkey \in Seq(Int) /\ in.sig \in Seq(Int)
  BY <1>2, InIs, utobIs DEF SoundIn, String
<1>4. /\ At(x, 0, u) /\ At(x, 2, in.ref_tx) /\ At(x, 2 + HashSize, in.pubkey)
      /\ At(x, 2 + HashSize + KeySize, in.sig)
  BY <1>2, InIs DEF US
<1>5. Lies(buf, at, x)
  BY <1>2
<1>6. 0 \in Nat /\ 2 \in Nat /\ 2 + HashSize \in Nat /\ 2 + HashSize + KeySize \in Nat
  BY <1>1
<1>7. /\ Lies(buf, at + 0, u) /\ Lies(buf, at + 2, in.ref_tx) /\ Lies(buf, at + (2 + HashSize), in.pubkey)
      /\ Lies(buf, at + (2 + HashSize + KeySize), in.sig)
  BY <1>3, <1>4, <1>5, <1>6, LiesWithin
<1>8. /\ at + 0 = at /\ at + (2 + HashSize) = at + 2 + HashSize
      /\ at + (2 + HashSize + KeySize) = at + 2 + HashSize + KeySize
      /\ at + 2 \in Nat /\ at + 2 + HashSize \in Nat /\ at + 2 + HashSize + KeySize \in Nat
  BY <1>1
<1>9. /\ Lies(buf, at, u) /\ Lies(buf, at + 2, in.ref_tx) /\ Lies(buf, at + 2 + HashSize, in.pubkey)
      /\ Lies(buf, at + 2 + HashSize + KeySize, in.sig)
  BY <1>7, <1>8
<1>10. GetInt(buf, at, US, g) = in.out_index
  BY <1>2, <1>9, IntLies DEF SoundIn
<1>11. Len(in.ref_tx) = HashSize /\ Len(in.pubkey) = KeySize /\ Len(in.sig) = SigSize
  BY DEF SoundIn, String
<1>12. /\ Get(buf, at + 2, HashSize, g) = in.ref_tx
       /\ Get(buf, at + 2 + HashSize, KeySize, g) = in.pubkey
       /\ Get(buf, at + 2 + HashSize + KeySize, SigSize, g) = in.sig
  BY <1>3, <1>8, <1>9, <1>11, GetLies, SMTT(60)
<1>13. tx_input_deserialize(buf, at, g) =
         [out_index |-> in.out_index, ref_tx |-> in.ref_tx, pubkey |-> in.pubkey, sig |-> in.sig]
  BY <1>10, <1>12 DEF tx_input_deserialize, US
<1> QED
  BY <1>13 DEF SoundIn

LEMMA OutLies ==
  ASSUME NEW buf, NEW at \in Nat, NEW out, SoundOut(out), Lies(buf, at, OutBytes(out)), NEW g
  PROVE  tx_output_deserialize(buf, at, g) = out
<1>1. HashSize \in Nat
  BY SizesAre
<1>2. PICK x, u : x = OutBytes(out) /\ u = utob(out.amount, UI)
  OBVIOUS
<1>3. x \in Seq(Int) /\ u \in Seq(Int) /\ out.out_addr \in Seq(Int)
  BY <1>2, OutIs, utobIs DEF SoundOut, String
<1>4. At(x, 0, out.out_addr) /\ At(x, HashSize, u) /\ Lies(buf, at, x)
  BY <1>2, OutIs
<1>5. Lies(buf, at + 0, out.out_addr) /\ Lies(buf, at + HashSize, u)
  BY <1>1, <1>3, <1>4, 0 \in Nat, LiesWithin
<1>6. at + 0 = at /\ at + HashSize \in Nat
  BY <1>1
<1>7. GetInt(buf, at + HashSize, UI, g) = out.amount
  BY <1>2, <1>5, <1>6, IntLies DEF SoundOut
<1>8. Len(out.out_addr) = HashSize
  BY DEF SoundOut, String
<1>9. Get(buf, at, HashSize, g) = out.out_addr
  BY <1>3, <1>5, <1>6, <1>8, GetLies
<1>10. tx_output_deserialize(buf, at, g) = [out_addr |-> out.out_addr, amount |-> out.amount]
  BY <1>7, <1>9 DEF tx_output_deserialize
<1> QED
  BY <1>10 DEF SoundOut

LEMMA HeaderIs ==
  ASSUME NEW tx, SoundTx(tx)
  PROVE  /\ String(tx_header_serialize(tx), SIZE_TX_HEADER)
         /\ At(tx_header_serialize(tx), 0, utob(tx.version, US))
         /\ At(tx_header_serialize(tx), 2, utob(Len(tx.ins), US))
         /\ At(tx_header_serialize(tx), 4, utob(Len(tx.outs), US))
         /\ At(tx_header_serialize(tx), 6, utob(tx.lock_time, UI))
<1>1. tx.version \in Nat /\ Len(tx.ins) \in Nat /\ Len(tx.outs) \in Nat /\ tx.lock_time \in Nat
  BY DEF SoundTx
<1>2. PICK w, a, b, c : /\ w = utob(tx.version, US) /\ a = utob(Len(tx.ins), US)
                        /\ b = utob(Len(tx.outs), US) /\ c = utob(tx.lock_time, UI)
  OBVIOUS
<1>3. String(w, 2) /\ String(a, 2) /\ String(b, 2) /\ String(c, 4)
  BY <1>1, <1>2, utobIs
<1>4. /\ w \in Seq(Int) /\ a \in Seq(Int) /\ b \in Seq(Int) /\ c \in Seq(Int)
      /\ Len(w) = 2 /\ Len(a) = 2 /\ Len(b) = 2 /\ Len(c) = 4
  BY <1>3 DEF String
<1>5. PICK x : x = ((w \o a) \o b) \o c /\ Behind(x, w, a, b, c)
  BY <1>4, ThreeBehind
<1>6. x = tx_header_serialize(tx)
  BY <1>2, <1>5 DEF tx_header_serialize, in_count, out_count
<1>7. x \in Seq(Int) /\ Len(x) = 10 /\ At(x, 0, w) /\ At(x, 2, a) /\ At(x, 4, b) /\ At(x, 6, c)
  BY <1>4, <1>5 DEF Behind
<1>8. SIZE_TX_HEADER = 10
  BY DEF SIZE_TX_HEADER, US, UI
<1> QED
  BY <1>2, <1>6, <1>7, <1>8 DEF String

\* What is read of a header that lies in the buffer.
LEMMA HeaderLies ==
  ASSUME NEW buf, NEW at \in Nat, NEW tx, SoundTx(tx), Lies(buf, at, tx_header_serialize(tx)), NEW g
  PROVE  /\ GetInt(buf, at, US, g) = tx.version /\ GetInt(buf, at + US, US, g) = Len(tx.ins)
         /\ GetInt(buf, at + 2 * US, US, g) = Len(tx.outs) /\ GetInt(buf, at + 3 * US, UI, g) = tx.lock_time
<1>1. /\ tx.version \in Nat /\ Len(tx.ins) \in Nat /\ Len(tx.outs) \in Nat /\ tx.lock_time \in Nat
      /\ tx.version < 256 * 256 /\ Len(tx.ins) < 256 * 256 /\ Len(tx.outs) < 256 * 256
      /\ tx.lock_time < 256 * (256 * (256 * 256))
  BY DEF SoundTx
<1>2. PICK x, w, a, b, c :
        /\ x = tx_header_serialize(tx) /\ w = utob(tx.version, US) /\ a = utob(Len(tx.ins), US)
        /\ b = utob(Len(tx.outs), US) /\ c = utob(tx.lock_time, UI)
  OBVIOUS
<1>3. x \in Seq(Int) /\ w \in Seq(Int) /\ a \in Seq(Int) /\ b \in Seq(Int) /\ c \in Seq(Int)
  BY <1>1, <1>2, HeaderIs, utobIs DEF String
<1>4. At(x, 0, w) /\ At(x, 2, a) /\ At(x, 4, b) /\ At(x, 6, c) /\ Lies(buf, at, x)
  BY <1>2, HeaderIs
<1>5. 0 \in Nat /\ 2 \in Nat /\ 4 \in Nat /\ 6 \in Nat
  OBVIOUS
<1>6. Lies(buf, at + 0, w) /\ Lies(buf, at + 2, a) /\ Lies(buf, at + 4, b) /\ Lies(buf, at + 6, c)
  BY <1>3, <1>4, <1>5, LiesWithin
<1>7. at + 0 = at /\ at + 2 \in Nat /\ at + 4 \in Nat /\ at + 6 \in Nat
  OBVIOUS
<1>8. /\ GetInt(buf, at, US, g) = tx.version /\ GetInt(buf, at + 2, US, g) = Len(tx.ins)
      /\ GetInt(buf, at + 4, US, g) = Len(tx.outs)
  <2>1. GetInt(buf, at, US, g) = tx.version
    <3>1. tx.version \in Nat /\ tx.version < 256 * 256 /\ Lies(buf, at, utob(tx.version, US)) /\ at \in Nat
      BY <1>1, <1>2, <1>6, <1>7
    <3> QED
      BY <3>1, IntLies
  <2>2. GetInt(buf, at + 2, US, g) = Len(tx.ins)
    <3>1. Len(tx.ins) \in Nat /\ Len(tx.ins) < 256 * 256 /\ Lies(buf, at + 2, utob(Len(tx.ins), US)) /\ at + 2 \in Nat
      BY <1>1, <1>2, <1>6, <1>7
    <3> QED
      BY <3>1, IntLies
  <2>3. GetInt(buf, at + 4, US, g) = Len(tx.outs)
    <3>1. Len(tx.outs) \in Nat /\ Len(tx.outs) < 256 * 256 /\ Lies(buf, at + 4, utob(Len(tx.outs), US)) /\ at + 4 \in Nat
      BY <1>1, <1>2, <1>6, <1>7
    <3> QED
      BY <3>1, IntLies
  <2> QED
    BY <2>1, <2>2, <2>3
<1>9. GetInt(buf, at + 6, UI, g) = tx.lock_time
  BY <1>1, <1>2, <1>6, <1>7, IntLies
<1>10. 2 * US = 4 /\ 3 * US = 6 /\ US = 2
  BY DEF US
<1> QED
  BY <1>8, <1>9, <1>10

\* The fields of a transaction lie where they belong.
TxLies(buf, at, tx) ==
  /\ SoundTx(tx) /\ Lies(buf, at, tx_header_serialize(tx))
  /\ \A i \in 1 .. Len(tx.ins) : Lies(buf, at + SIZE_TX_HEADER + (i - 1) * SIZE_TX_INPUT, InBytes(tx.ins[i]))
  /\ \A i \in 1 .. Len(tx.outs) :
        Lies(buf, at + SIZE_TX_HEADER + Len(tx.ins) * SIZE_TX_INPUT + (i - 1) * SIZE_TX_OUTPUT, OutBytes(tx.outs[i]))

LEMMA TxSizes ==
  /\ SIZE_TX_HEADER \in Nat /\ SIZE_TX_HEADER = 10
  /\ SIZE_TX_INPUT \in Nat /\ SIZE_TX_INPUT > 4 /\ SIZE_TX_OUTPUT \in Nat /\ SIZE_TX_OUTPUT > 4
BY SizesAre DEF SIZE_TX_HEADER, SIZE_TX_INPUT, SIZE_TX_OUTPUT, US, UI

LEMMA TxRead ==
  ASSUME NEW buf, NEW at \in Nat, NEW tx, TxLies(buf, at, tx), NEW g
  PROVE  /\ m_tx_deserialize(buf, at, g) = tx
         /\ tx_raw_compute_size(buf, at, g) = tx_compute_size(tx)
<1> DEFINE ins == Len(tx.ins)
           outs == Len(tx.outs)
           body == at + SIZE_TX_HEADER
<1>1. SoundTx(tx) /\ ins \in Nat /\ outs \in Nat
  BY DEF TxLies, SoundTx
<1>2. /\ GetInt(buf, at, US, g) = tx.version /\ GetInt(buf, at + US, US, g) = ins
      /\ GetInt(buf, at + 2 * US, US, g) = outs /\ GetInt(buf, at + 3 * US, UI, g) = tx.lock_time
  BY HeaderLies DEF TxLies
<1>3. body \in Nat
  BY TxSizes
<1>4. ASSUME NEW i \in 1 .. ins
      PROVE  tx_input_deserialize(buf, body + (i - 1) * SIZE_TX_INPUT, g) = tx.ins[i]
  <2>1. i - 1 \in Nat
    BY <1>1
  <2>2. (i - 1) * SIZE_TX_INPUT \in Nat
    BY <2>1, TxSizes
  <2>3. body + (i - 1) * SIZE_TX_INPUT \in Nat
    BY <1>3, <2>2
  <2>4. SoundIn(tx.ins[i]) /\ Lies(buf, body + (i - 1) * SIZE_TX_INPUT, InBytes(tx.ins[i]))
    BY <1>1 DEF TxLies, SoundTx
  <2> QED
    BY <2>3, <2>4, InLies
<1>5. ASSUME NEW i \in 1 .. outs
      PROVE  tx_output_deserialize(buf, body + ins * SIZE_TX_INPUT + (i - 1) * SIZE_TX_OUTPUT, g) = tx.outs[i]
  <2>1. i - 1 \in Nat
    BY <1>1
  <2>2. (i - 1) * SIZE_TX_OUTPUT \in Nat /\ ins * SIZE_TX_INPUT \in Nat
    BY <1>1, <2>1, TxSizes
  <2>3. body + ins * SIZE_TX_INPUT + (i - 1) * SIZE_TX_OUTPUT \in Nat
    BY <1>3, <2>2
  <2>4. /\ SoundOut(tx.outs[i])
        /\ Lies(buf, body + ins * SIZE_TX_INPUT + (i - 1) * SIZE_TX_OUTPUT, OutBytes(tx.outs[i]))
    BY <1>1 DEF TxLies, SoundTx
  <2> QED
    BY <2>3, <2>4, OutLies
<1>6. /\ [i \in 1 .. ins |-> tx_input_deserialize(buf, body + (i - 1) * SIZE_TX_INPUT, g)] = tx.ins
      /\ [i \in 1 .. outs |-> tx_output_deserialize(buf, body + ins * SIZE_TX_INPUT + (i - 1) * SIZE_TX_OUTPUT, g)]
            = tx.outs
  BY <1>1, <1>4, <1>5 DEF SoundTx
<1>7. m_tx_deserialize(buf, at, g)
        = [version |-> tx.version, lock_time |-> tx.lock_time, ins |-> tx.ins, outs |-> tx.outs]
  BY <1>2, <1>6 DEF m_tx_deserialize
<1>8. tx_raw_compute_size(buf, at, g) = tx_compute_size(tx)
  <2>1. PICK a \in Nat, b \in Nat, k \in Nat : a = SIZE_TX_INPUT /\ b = SIZE_TX_OUTPUT /\ k = SIZE_TX_HEADER
    BY TxSizes
  <2> HIDE DEF ins, outs
  <2>2. a * ins + b * outs + k = k + ins * a + outs * b
    BY <1>1
  <2> QED
    BY <1>2, <2>1, <2>2 DEF tx_raw_compute_size, tx_compute_size, in_count, out_count, ins, outs
<1> QED
  BY <1>1, <1>7, <1>8 DEF SoundTx

\* The bytes of the tables.
LEMMA WireTxIs ==
  ASSUME NEW tx, SoundTx(tx)
  PROVE  String(WireTx(tx), tx_compute_size(tx))
         /\ \A buf : \A at \in Nat : Lies(buf, at, WireTx(tx)) => TxLies(buf, at, tx)
<1> DEFINE n == Len(tx.ins)
           m == Len(tx.outs)
           h == tx_header_serialize(tx)
           insParts == [i \in DOMAIN tx.ins |-> utob(tx.ins[i].out_index, US) \o tx.ins[i].ref_tx
                                                \o tx.ins[i].pubkey \o tx.ins[i].sig]
           outsParts == [i \in DOMAIN tx.outs |-> tx.outs[i].out_addr \o utob(tx.outs[i].amount, UI)]
           c == Concat(insParts)
           d == Concat(outsParts)
<1>1. /\ n \in Nat /\ DOMAIN tx.ins = 1 .. n /\ \A i \in 1 .. n : SoundIn(tx.ins[i])
      /\ m \in Nat /\ DOMAIN tx.outs = 1 .. m /\ \A i \in 1 .. m : SoundOut(tx.outs[i])
  BY DEF SoundTx
<1>2. Spaced(c, insParts, n, SIZE_TX_INPUT) /\ \A i \in 1 .. n : insParts[i] = InBytes(tx.ins[i])
  <2>1. \A i \in 1 .. n : insParts[i] = InBytes(tx.ins[i]) /\ insParts[i] \in Seq(Int) /\ Len(insParts[i]) = SIZE_TX_INPUT
    <3> TAKE i \in 1 .. n
    <3>1. insParts[i] = InBytes(tx.ins[i])
      BY <1>1 DEF InBytes
    <3> QED
      BY <1>1, <3>1, InIs DEF String
  <2>2. Len(insParts) = n
    BY <1>1
  <2>3. Parts(insParts, n)
    BY <2>1, <2>2 DEF Parts
  <2> HIDE DEF insParts, n
  <2> QED
    BY <1>1, <2>1, <2>3, TxSizes, ConcatFixed
<1>3. Spaced(d, outsParts, m, SIZE_TX_OUTPUT) /\ \A i \in 1 .. m : outsParts[i] = OutBytes(tx.outs[i])
  <2>1. \A i \in 1 .. m : outsParts[i] = OutBytes(tx.outs[i]) /\ outsParts[i] \in Seq(Int) /\ Len(outsParts[i]) = SIZE_TX_OUTPUT
    <3> TAKE i \in 1 .. m
    <3>1. outsParts[i] = OutBytes(tx.outs[i])
      BY <1>1 DEF OutBytes
    <3> QED
      BY <1>1, <3>1, OutIs DEF String
  <2>2. Len(outsParts) = m
    BY <1>1
  <2>3. Parts(outsParts, m)
    BY <2>1, <2>2 DEF Parts
  <2> HIDE DEF outsParts, m
  <2> QED
    BY <1>1, <2>1, <2>3, TxSizes, ConcatFixed
<1>4. h \in Seq(Int) /\ Len(h) = SIZE_TX_HEADER /\ At(h, 0, h)
  BY HeaderIs, AtSelf DEF String
<1>5. WireTx(tx) = (h \o c) \o d
  BY DEF WireTx, tx_header_serialize, in_count, out_count
<1> HIDE DEF h, c, d, n, m, insParts, outsParts
<1>6. /\ c \in Seq(Int) /\ Len(c) = n * SIZE_TX_INPUT /\ d \in Seq(Int) /\ Len(d) = m * SIZE_TX_OUTPUT
      /\ \A i \in 1 .. n : At(c, (i - 1) * SIZE_TX_INPUT, InBytes(tx.ins[i]))
      /\ \A i \in 1 .. m : At(d, (i - 1) * SIZE_TX_OUTPUT, OutBytes(tx.outs[i]))
  BY <1>2, <1>3 DEF Spaced
<1> DEFINE u == h \o c
           x == u \o d
<1>7. u \in Seq(Int) /\ Len(u) = Len(h) + Len(c) /\ At(u, 0, h) /\ At(u, Len(h), c)
  <2>1. 0 \in Nat
    OBVIOUS
  <2> QED
    BY <1>4, <1>6, <2>1, Appended
<1> HIDE DEF u
<1>8. x \in Seq(Int) /\ Len(x) = Len(u) + Len(d) /\ At(x, 0, h) /\ At(x, Len(h), c) /\ At(x, Len(u), d)
  <2>1. /\ x \in Seq(Int) /\ Len(x) = Len(u) + Len(d) /\ At(x, Len(u), d)
        /\ \A q \in Seq(Int), pos \in Nat : At(u, pos, q) => At(x, pos, q)
    BY <1>6, <1>7, Appended
  <2>2. 0 \in Nat /\ Len(h) \in Nat
    BY <1>4, LenProperties
  <2> QED
    BY <1>4, <1>6, <1>7, <2>1, <2>2
<1> DEFINE k == SIZE_TX_HEADER
           p == n * SIZE_TX_INPUT
<1>9. k \in Nat /\ p \in Nat /\ k + p \in Nat
  BY <1>1, TxSizes
<1>10. Len(u) = k + p /\ Len(h) = k /\ Len(x) = (k + p) + m * SIZE_TX_OUTPUT
  BY <1>4, <1>6, <1>7, <1>8
<1>11. String(x, tx_compute_size(tx))
  BY <1>8, <1>10 DEF String, tx_compute_size, in_count, out_count, n, m
<1> HIDE DEF k, x
<1>12. ASSUME NEW buf, NEW at \in Nat, Lies(buf, at, x)
       PROVE  TxLies(buf, at, tx)
  <2>1. Lies(buf, at, h) /\ Lies(buf, at + k, c) /\ Lies(buf, at + (k + p), d)
    <3> HIDE DEF p
    <3>1. 0 \in Nat /\ at + 0 = at
      OBVIOUS
    <3>2. Lies(buf, at + 0, h)
      BY <1>4, <1>8, <1>12, <3>1, LiesWithin
    <3>3. Lies(buf, at + k, c)
      BY <1>6, <1>8, <1>9, <1>10, <1>12, LiesWithin
    <3>4. Lies(buf, at + (k + p), d)
      BY <1>6, <1>8, <1>9, <1>10, <1>12, LiesWithin
    <3> QED
      BY <3>1, <3>2, <3>3, <3>4
  <2>2. ASSUME NEW i \in 1 .. n
        PROVE  Lies(buf, at + k + (i - 1) * SIZE_TX_INPUT, InBytes(tx.ins[i]))
    <3>1. i - 1 \in Nat
      BY <1>1
    <3>2. (i - 1) * SIZE_TX_INPUT \in Nat /\ at + k \in Nat
      BY <1>9, <3>1, TxSizes
    <3>3. InBytes(tx.ins[i]) \in Seq(Int)
      BY <1>1, InIs DEF String
    <3> QED
      BY <1>6, <2>1, <3>2, <3>3, LiesWithin
  <2>3. ASSUME NEW i \in 1 .. m
        PROVE  Lies(buf, at + k + p + (i - 1) * SIZE_TX_OUTPUT, OutBytes(tx.outs[i]))
    <3>1. i - 1 \in Nat
      BY <1>1
    <3>2. (i - 1) * SIZE_TX_OUTPUT \in Nat /\ at + (k + p) \in Nat
      BY <1>9, <3>1, TxSizes
    <3>3. OutBytes(tx.outs[i]) \in Seq(Int)
      BY <1>1, OutIs DEF String
    <3>4. Lies(buf, (at + (k + p)) + (i - 1) * SIZE_TX_OUTPUT, OutBytes(tx.outs[i]))
      <4> HIDE DEF p
      <4> QED
        BY <1>6, <2>1, <3>2, <3>3, LiesWithin
    <3>5. at + (k + p) = at + k + p
      BY <1>9
    <3> QED
      BY <3>4, <3>5
  <2> QED
    BY <2>1, <2>2, <2>3 DEF TxLies, n, m, h, k
<1> QED
  BY <1>5, <1>11, <1>12 DEF x, u

-----------------------------------------------------------------------------
(* The format of blocks.                                                    *)

LEMMA HeaderHas ==
  /\ Header = [version |-> Header.version, time |-> Header.time, height |-> Header.height,
               prev_hash |-> Header.prev_hash, merkle_root |-> Header.merkle_root,
               target |-> Header.target, nonce |-> Header.nonce]
  /\ Header.version \in Nat /\ Header.version < 256 * 256
  /\ Header.time \in Nat /\ Header.time < 256 * (256 * (256 * 256))
  /\ Header.height \in Nat /\ Header.height < 256 * (256 * (256 * 256))
  /\ Header.nonce \in Nat /\ Header.nonce < 256 * (256 * (256 * 256))
  /\ String(Header.prev_hash, HashSize) /\ String(Header.merkle_root, HashSize) /\ String(Header.target, 2)
<1>1. /\ Header.version = 1 /\ Header.time = 65538 /\ Header.height = 3 /\ Header.nonce = 8
      /\ Header.prev_hash = [i \in 1 .. HashSize |-> 4] /\ Header.merkle_root = [i \in 1 .. HashSize |-> 5]
      /\ Header.target = <<6, 7>>
  BY SMT DEF Header
<1>2. String(Header.prev_hash, HashSize) /\ String(Header.merkle_root, HashSize)
  <2>1. HashSize \in Nat
    BY SizesAre
  <2>2. [i \in 1 .. HashSize |-> 4] \in [1 .. HashSize -> Int] /\ [i \in 1 .. HashSize |-> 5] \in [1 .. HashSize -> Int]
    OBVIOUS
  <2>3. PICK p, q : p = Header.prev_hash /\ q = Header.merkle_root
                    /\ p \in [1 .. HashSize -> Int] /\ q \in [1 .. HashSize -> Int]
    BY <1>1, <2>2
  <2>4. p \in Seq(Int) /\ Len(p) = HashSize /\ q \in Seq(Int) /\ Len(q) = HashSize
    BY <2>1, <2>3, FunctionIsSeq
  <2> QED
    BY <2>3, <2>4 DEF String
<1>3. String(Header.target, 2)
  BY <1>1 DEF String
<1>4. Header.time \in Nat /\ Header.time < 256 * (256 * (256 * 256))
  BY <1>1, SMT
<1>5. /\ Header.height \in Nat /\ Header.height < 256 * (256 * (256 * 256))
      /\ Header.nonce \in Nat /\ Header.nonce < 256 * (256 * (256 * 256))
      /\ Header.version \in Nat /\ Header.version < 256 * 256
  BY <1>1, SMT
<1>6. Header = [version |-> Header.version, time |-> Header.time, height |-> Header.height,
               prev_hash |-> Header.prev_hash, merkle_root |-> Header.merkle_root,
               target |-> Header.target, nonce |-> Header.nonce]
  BY SMT DEF Header
<1> QED
  BY <1>2, <1>3, <1>4, <1>5, <1>6

\* The fields of the header and the number of transactions lie where they belong.
HeadLies(buf, n) ==
  /\ Lies(buf, 0, utob(Header.version, US)) /\ Lies(buf, 2, utob(Header.time, UI))
  /\ Lies(buf, 6, utob(Header.height, UI)) /\ Lies(buf, 10, Header.prev_hash)
  /\ Lies(buf, 10 + HashSize, Header.merkle_root) /\ Lies(buf, 10 + 2 * HashSize, Header.target)
  /\ Lies(buf, 12 + 2 * HashSize, utob(Header.nonce, UI)) /\ Lies(buf, 16 + 2 * HashSize, utob(n, UI))

LEMMA HeadBytes ==
  ASSUME NEW n \in Nat
  PROVE  /\ String(block_header_serialize(Header, n), SIZE_BLOCK_HEADER)
         /\ \A buf : Lies(buf, 0, block_header_serialize(Header, n)) => HeadLies(buf, n)
<1>1. HashSize \in Nat
  BY SizesAre
<1> DEFINE H == HashSize
<1>2. PICK v, t, h, p, m, r, o, c :
        /\ v = utob(Header.version, US) /\ t = utob(Header.time, UI) /\ h = utob(Header.height, UI)
        /\ p = Header.prev_hash /\ m = Header.merkle_root /\ r = Header.target /\ o = utob(Header.nonce, UI)
        /\ c = utob(n, UI)
  OBVIOUS
<1>3. String(v, 2) /\ String(t, 4) /\ String(h, 4) /\ String(o, 4) /\ String(c, 4)
  BY <1>2, HeaderHas, utobIs
<1>4. String(p, H) /\ String(m, H) /\ String(r, 2)
  BY <1>2, HeaderHas
<1>5. /\ v \in Seq(Int) /\ t \in Seq(Int) /\ h \in Seq(Int) /\ p \in Seq(Int)
      /\ m \in Seq(Int) /\ r \in Seq(Int) /\ o \in Seq(Int) /\ c \in Seq(Int)
      /\ Len(v) = 2 /\ Len(t) = 4 /\ Len(h) = 4 /\ Len(p) = H /\ Len(m) = H /\ Len(r) = 2 /\ Len(o) = 4 /\ Len(c) = 4
  BY <1>3, <1>4 DEF String
<1>6. PICK x : x = ((v \o t) \o h) \o p /\ Behind(x, v, t, h, p)
  BY <1>5, ThreeBehind
<1>7. x \in Seq(Int) /\ Len(x) = 10 + H /\ At(x, 0, v) /\ At(x, 2, t) /\ At(x, 6, h) /\ At(x, 10, p)
  BY <1>1, <1>5, <1>6 DEF Behind
<1>8. PICK y : y = ((x \o m) \o r) \o o /\ Behind(y, x, m, r, o)
  BY <1>5, <1>7, ThreeBehind
<1>9. /\ (10 + H) + H = 10 + 2 * H /\ (10 + 2 * H) + 2 = 12 + 2 * H /\ (12 + 2 * H) + 4 = 16 + 2 * H
      /\ 10 + H \in Nat /\ 10 + 2 * H \in Nat /\ 12 + 2 * H \in Nat /\ 16 + 2 * H \in Nat
      /\ (16 + 2 * H) + 4 = 20 + 2 * H
  BY <1>1
<1> HIDE DEF H
<1>10. /\ y \in Seq(Int) /\ Len(y) = 16 + 2 * H /\ At(y, 0, x)
       /\ At(y, 10 + H, m) /\ At(y, 10 + 2 * H, r) /\ At(y, 12 + 2 * H, o)
  BY <1>5, <1>7, <1>8, <1>9 DEF Behind
<1>11. PICK z : z = y \o c
  OBVIOUS
<1>12. z \in Seq(Int) /\ Len(z) = 20 + 2 * H /\ At(z, 0, y) /\ At(z, 16 + 2 * H, c)
  <2>1. At(y, 0, y) /\ 0 \in Nat
    BY <1>10, AtSelf
  <2>2. z \in Seq(Int) /\ Len(z) = Len(y) + Len(c) /\ At(z, 0, y) /\ At(z, Len(y), c)
    BY <1>5, <1>10, <1>11, <2>1, Appended
  <2> QED
    BY <1>5, <1>9, <1>10, <2>2
<1>13. z = block_header_serialize(Header, n)
  BY <1>2, <1>6, <1>8, <1>11 DEF block_header_serialize
<1>14. SIZE_BLOCK_HEADER = 20 + 2 * H
  BY <1>1 DEF SIZE_BLOCK_HEADER, US, UI, H
<1>15. ASSUME NEW buf, Lies(buf, 0, z)
       PROVE  HeadLies(buf, n)
  <2>1. 0 \in Nat /\ 2 \in Nat /\ 6 \in Nat /\ 10 \in Nat /\ 0 + 0 = 0 /\ 0 + 2 = 2 /\ 0 + 6 = 6 /\ 0 + 10 = 10
    OBVIOUS
  <2>2. /\ 0 + (10 + H) = 10 + H /\ 0 + (10 + 2 * H) = 10 + 2 * H /\ 0 + (12 + 2 * H) = 12 + 2 * H
        /\ 0 + (16 + 2 * H) = 16 + 2 * H
    BY <1>9
  <2>3. Lies(buf, 0 + 0, y) /\ Lies(buf, 0 + (16 + 2 * H), c)
    BY <1>5, <1>9, <1>10, <1>12, <1>15, <2>1, LiesWithin
  <2>4. Lies(buf, 0, y)
    BY <2>1, <2>3
  <2>5. Lies(buf, 0 + 0, x) /\ Lies(buf, 0 + (10 + H), m)
    BY <1>5, <1>7, <1>9, <1>10, <2>1, <2>4, LiesWithin
  <2>6. Lies(buf, 0 + (10 + 2 * H), r) /\ Lies(buf, 0 + (12 + 2 * H), o)
    BY <1>5, <1>9, <1>10, <2>1, <2>4, LiesWithin
  <2>7. Lies(buf, 0, x)
    BY <2>1, <2>5
  <2>8. Lies(buf, 0 + 0, v) /\ Lies(buf, 0 + 2, t) /\ Lies(buf, 0 + 6, h) /\ Lies(buf, 0 + 10, p)
    BY <1>5, <1>7, <2>1, <2>7, LiesWithin
  <2> QED
    BY <1>2, <2>1, <2>2, <2>3, <2>5, <2>6, <2>8 DEF HeadLies, H
<1> QED
  BY <1>12, <1>13, <1>14, <1>15 DEF String

LEMMA HeadRead ==
  ASSUME NEW buf, NEW n \in Nat, n < 256 * (256 * (256 * 256)), HeadLies(buf, n), NEW g
  PROVE  block_header_deserialize(buf, g) = Header /\ GetInt(buf, POS_TX_COUNT, UI, g) = n
<1>1. HashSize \in Nat
  BY SizesAre
<1> DEFINE H == HashSize
<1>2. /\ 0 \in Nat /\ 2 \in Nat /\ 6 \in Nat /\ 10 \in Nat /\ 10 + H \in Nat /\ 10 + 2 * H \in Nat
      /\ 12 + 2 * H \in Nat /\ 16 + 2 * H \in Nat
  BY <1>1
<1>3. /\ Header.prev_hash \in Seq(Int) /\ Len(Header.prev_hash) = H
      /\ Header.merkle_root \in Seq(Int) /\ Len(Header.merkle_root) = H
      /\ Header.target \in Seq(Int) /\ Len(Header.target) = 2
  BY HeaderHas DEF String
<1>4. GetInt(buf, 0, US, g) = Header.version
  <2>1. Header.version \in Nat /\ Header.version < 256 * 256 /\ Lies(buf, 0, utob(Header.version, US))
    BY HeaderHas DEF HeadLies
  <2> QED
    BY <1>2, <2>1, IntLies
<1>5. GetInt(buf, 2, UI, g) = Header.time
  <2>1. Header.time \in Nat /\ Header.time < 256 * (256 * (256 * 256)) /\ Lies(buf, 2, utob(Header.time, UI))
    BY HeaderHas DEF HeadLies
  <2> QED
    BY <1>2, <2>1, IntLies
<1>6. GetInt(buf, 6, UI, g) = Header.height
  <2>1. Header.height \in Nat /\ Header.height < 256 * (256 * (256 * 256)) /\ Lies(buf, 6, utob(Header.height, UI))
    BY HeaderHas DEF HeadLies
  <2> QED
    BY <1>2, <2>1, IntLies
<1>7. GetInt(buf, 12 + 2 * H, UI, g) = Header.nonce
  <2>1. Header.nonce \in Nat /\ Header.nonce < 256 * (256 * (256 * 256)) /\ Lies(buf, 12 + 2 * H, utob(Header.nonce, UI))
    BY HeaderHas DEF HeadLies
  <2> QED
    BY <1>2, <2>1, IntLies
<1>8. GetInt(buf, 16 + 2 * H, UI, g) = n
  <2>1. Lies(buf, 16 + 2 * H, utob(n, UI))
    BY DEF HeadLies
  <2> QED
    BY <1>2, <2>1, IntLies
<1>9. /\ Get(buf, 10, H, g) = Header.prev_hash /\ Get(buf, 10 + H, H, g) = Header.merkle_root
      /\ Get(buf, 10 + 2 * H, 2, g) = Header.target
  <2>1. /\ Lies(buf, 10, Header.prev_hash) /\ Lies(buf, 10 + H, Header.merkle_root)
        /\ Lies(buf, 10 + 2 * H, Header.target)
    BY DEF HeadLies
  <2> HIDE DEF H
  <2>2. PICK p, m, r : p = Header.prev_hash /\ m = Header.merkle_root /\ r = Header.target
    OBVIOUS
  <2>3. p \in Seq(Int) /\ Len(p) = H /\ m \in Seq(Int) /\ Len(m) = H /\ r \in Seq(Int) /\ Len(r) = 2
    BY <1>3, <2>2
  <2>4. Get(buf, 10, H, g) = p
    BY <1>2, <2>1, <2>2, <2>3, GetLies
  <2>5. Get(buf, 10 + H, H, g) = m
    BY <1>2, <2>1, <2>2, <2>3, GetLies
  <2>6. Get(buf, 10 + 2 * H, 2, g) = r
    <3>1. r \in Seq(Int) /\ Len(r) = 2
      BY <2>3
    <3>2. PICK pos \in Nat : pos = 10 + 2 * H
      BY <1>2
    <3>3. Lies(buf, pos, r)
      BY <2>1, <2>2, <3>2
    <3>4. \A k : k = Len(r) => Get(buf, pos, k, g) = r
      <4>1. r \in Seq(Int)
        BY <3>1
      <4> QED
        BY <3>3, <4>1, GetLies
    <3> QED
      BY <3>1, <3>2, <3>4
  <2> QED
    BY <2>2, <2>4, <2>5, <2>6
<1>10. /\ US + UI = 6 /\ US + 2 * UI = 10 /\ US = 2 /\ (US + 2 * UI) + HashSize = 10 + H
       /\ (US + 2 * UI) + 2 * HashSize = 10 + 2 * H /\ (10 + 2 * H) + 2 = 12 + 2 * H
       /\ POS_TX_COUNT = 16 + 2 * H
  BY <1>1 DEF US, UI, POS_TX_COUNT, SIZE_BLOCK_HEADER
<1> HIDE DEF H
<1>11. block_header_deserialize(buf, g) =
         [version |-> Header.version, time |-> Header.time, height |-> Header.height,
          prev_hash |-> Header.prev_hash, merkle_root |-> Header.merkle_root,
          target |-> Header.target, nonce |-> Header.nonce]
  BY <1>4, <1>5, <1>6, <1>7, <1>9, <1>10 DEF block_header_deserialize, H
<1> QED
  BY <1>8, <1>10, <1>11, HeaderHas

\* n transactions.
TxList(txs, n) ==
  /\ n \in Nat /\ n < 256 * (256 * (256 * 256))
  /\ Len(txs) = n /\ DOMAIN txs = 1 .. n /\ \A t \in 1 .. n : SoundTx(txs[t])

LEMMA WireIs ==
  ASSUME NEW txs, NEW n, TxList(txs, n), NEW b, b.header = Header, b.txs = txs
  PROVE  /\ HeadLies(Wire(b), n)
         /\ n > 0 => Lies(Wire(b), SIZE_BLOCK_HEADER, WireTx(txs[1]))
<1> DEFINE parts == [t \in DOMAIN txs |-> WireTx(txs[t])]
           h == block_header_serialize(Header, n)
           c == Concat(parts)
           w == h \o c
<1>1. n \in Nat /\ Len(txs) = n /\ DOMAIN txs = 1 .. n /\ \A t \in 1 .. n : SoundTx(txs[t])
  BY DEF TxList
<1>2. c \in Seq(Int) /\ (n > 0 => At(c, 0, WireTx(txs[1])))
  <2>1. \A t \in 1 .. n : parts[t] = WireTx(txs[t]) /\ parts[t] \in Seq(Int)
    BY <1>1, WireTxIs DEF String
  <2>2. Len(parts) = n
    BY <1>1
  <2>3. Parts(parts, n)
    BY <2>1, <2>2 DEF Parts
  <2>4. n > 0 => 1 \in 1 .. n
    BY <1>1
  <2> HIDE DEF parts
  <2> QED
    BY <1>1, <2>1, <2>3, <2>4, ConcatFirst
<1>3. h \in Seq(Int) /\ Len(h) = SIZE_BLOCK_HEADER /\ At(h, 0, h) /\ 0 \in Nat
  BY <1>1, HeadBytes, AtSelf DEF String
<1>4. Wire(b) = Put(Empty, 0, w)
  BY <1>1 DEF Wire, block_header_serialize
<1> HIDE DEF h, c
<1>5. w \in Seq(Int) /\ At(w, 0, h) /\ At(w, Len(h), c)
  BY <1>2, <1>3, Appended
<1> HIDE DEF w
<1>6. Lies(Wire(b), 0, w)
  BY <1>3, <1>4, <1>5, PutIs
<1>7. SIZE_BLOCK_HEADER \in Nat
  BY SizesAre DEF SIZE_BLOCK_HEADER, US, UI
<1>8. Lies(Wire(b), 0 + 0, h) /\ Lies(Wire(b), 0 + SIZE_BLOCK_HEADER, c)
  BY <1>2, <1>3, <1>5, <1>6, <1>7, LiesWithin
<1>9. 0 + 0 = 0 /\ 0 + SIZE_BLOCK_HEADER = SIZE_BLOCK_HEADER /\ SIZE_BLOCK_HEADER + 0 = SIZE_BLOCK_HEADER
  BY <1>7
<1>10. HeadLies(Wire(b), n)
  BY <1>1, <1>8, <1>9, HeadBytes DEF h
<1>11. ASSUME n > 0
       PROVE  Lies(Wire(b), SIZE_BLOCK_HEADER, WireTx(txs[1]))
  <2>1. SoundTx(txs[1])
    BY <1>1, <1>11
  <2>2. WireTx(txs[1]) \in Seq(Int)
    BY <2>1, WireTxIs DEF String
  <2>3. Lies(Wire(b), SIZE_BLOCK_HEADER + 0, WireTx(txs[1]))
    BY <1>2, <1>3, <1>7, <1>8, <1>9, <1>11, <2>2, LiesWithin
  <2> QED
    BY <1>9, <2>3
<1> QED
  BY <1>10, <1>11

-----------------------------------------------------------------------------
(* The transactions that are handled have the widths of their fields.       *)

LEMMA ShortsIs == Shorts = 256 * 256
BY SMT DEF Shorts

LEMMA IntsAre ==
  ASSUME NEW v \in Ints
  PROVE  v \in Nat /\ v < 256 * 256
BY RecordsAssumption, ShortsIs

\* A number whose upper half is one of a uint16_t is one of a uint32_t.
LEMMA UpperHalf ==
  ASSUME NEW v \in Nat, v \div Shorts < Shorts
  PROVE  v < 256 * (256 * (256 * 256))
BY SMT DEF Shorts

LEMMA ValuesAre ==
  ASSUME NEW v \in Values
  PROVE  v \in Nat /\ v < 256 * (256 * (256 * 256))
BY RecordsAssumption, UpperHalf

LEMMA InsSound ==
  ASSUME NEW in \in Ins
  PROVE  SoundIn(in)
<1>1. PICK v \in Ints, h \in Keep :
        in = [out_index |-> v, ref_tx |-> h, pubkey |-> [i \in 1 .. KeySize |-> 7], sig |-> [i \in 1 .. SigSize |-> 9]]
  BY DEF Ins
<1>2. PICK p, q : p = [i \in 1 .. KeySize |-> 7] /\ q = [i \in 1 .. SigSize |-> 9]
  OBVIOUS
<1>3. String(p, KeySize) /\ String(q, SigSize)
  <2>1. KeySize \in Nat /\ SigSize \in Nat
    BY SizesAre
  <2>2. p \in [1 .. KeySize -> Int] /\ q \in [1 .. SigSize -> Int]
    BY <1>2
  <2>3. p \in Seq(Int) /\ Len(p) = KeySize /\ q \in Seq(Int) /\ Len(q) = SigSize
    BY <2>1, <2>2, FunctionIsSeq
  <2> QED
    BY <2>3 DEF String
<1>4. String(h, HashSize)
  BY KeepIs DEF String
<1>5. in = [out_index |-> v, ref_tx |-> h, pubkey |-> p, sig |-> q]
  BY <1>1, <1>2
<1>6. in.out_index = v /\ in.ref_tx = h /\ in.pubkey = p /\ in.sig = q
  BY <1>5
<1>7. v \in Nat /\ v < 256 * 256
  BY IntsAre
<1> QED
  BY <1>3, <1>4, <1>5, <1>6, <1>7 DEF SoundIn

LEMMA OutsSound ==
  ASSUME NEW out \in Outs
  PROVE  SoundOut(out)
<1>1. PICK v \in Values, h \in Keep : out = [out_addr |-> h, amount |-> v]
  BY DEF Outs
<1>2. out.out_addr = h /\ out.amount = v
  BY <1>1
<1>3. String(h, HashSize)
  BY KeepIs DEF String
<1>4. v \in Nat /\ v < 256 * (256 * (256 * 256))
  BY ValuesAre
<1> QED
  BY <1>1, <1>2, <1>3, <1>4 DEF SoundOut

LEMMA OnesIn == OneIn \in Ins /\ OneOut \in Outs
<1>1. PICK v \in Ints, u \in Values, h \in Keep : TRUE
  BY RecordsAssumption
<1>2. \E in : in \in Ins
  <2> DEFINE made(w, k) == [out_index |-> w, ref_tx |-> k, pubkey |-> [i \in 1 .. KeySize |-> 7],
                            sig |-> [i \in 1 .. SigSize |-> 9]]
  <2>1. Ins = {made(w, k) : w \in Ints, k \in Keep}
    BY DEF Ins
  <2> HIDE DEF made
  <2>2. made(v, h) \in Ins
    BY <2>1
  <2> QED
    BY <2>2
<1>3. [out_addr |-> h, amount |-> u] \in Outs
  BY DEF Outs
<1> QED
  BY <1>2, <1>3 DEF OneIn, OneOut

\* A list of inputs or of outputs.
Items(s, S) ==
  Len(s) \in Nat /\ Len(s) < 256 * 256 /\ s = [i \in 1 .. Len(s) |-> s[i]] /\ \A i \in 1 .. Len(s) : s[i] \in S

LEMMA TxSound ==
  ASSUME NEW ins, Items(ins, Ins), NEW outs, Items(outs, Outs), NEW l \in Nat, l < 256 * (256 * (256 * 256)),
         NEW tx, tx = [version |-> 1, lock_time |-> l, ins |-> ins, outs |-> outs]
  PROVE  SoundTx(tx)
<1>1. tx.version = 1 /\ tx.lock_time = l /\ tx.ins = ins /\ tx.outs = outs
  OBVIOUS
<1>2. 1 \in Nat /\ 1 < 256 * 256
  OBVIOUS
<1>3. /\ Len(ins) \in Nat /\ Len(ins) < 256 * 256 /\ ins = [i \in 1 .. Len(ins) |-> ins[i]]
      /\ \A i \in 1 .. Len(ins) : SoundIn(ins[i])
  BY InsSound DEF Items
<1>4. /\ Len(outs) \in Nat /\ Len(outs) < 256 * 256 /\ outs = [i \in 1 .. Len(outs) |-> outs[i]]
      /\ \A i \in 1 .. Len(outs) : SoundOut(outs[i])
  BY OutsSound DEF Items
<1> QED
  BY <1>1, <1>2, <1>3, <1>4 DEF SoundTx

LEMMA ItemsUpTo ==
  ASSUME NEW S, NEW n \in Nat, n <= MaxItems, NEW s \in UpTo(S, n)
  PROVE  Items(s, S) /\ Len(s) <= n /\ DOMAIN s = 1 .. Len(s)
<1>1. PICK k \in 0 .. n : s \in [1 .. k -> S]
  BY DEF UpTo
<1>2. Len(s) = k
  BY <1>1
<1>3. MaxItems \in Nat /\ MaxItems < 256 * 256
  BY RecordsAssumption, SizesAre, ShortsIs
<1>4. k \in Nat /\ k < 256 * 256 /\ k <= n
  BY <1>3
<1>5. s = [i \in 1 .. k |-> s[i]] /\ DOMAIN s = 1 .. k /\ \A i \in 1 .. k : s[i] \in S
  BY <1>1
<1> QED
  BY <1>2, <1>4, <1>5 DEF Items

\* Every transaction that is stored.
LEMMA TxsAre ==
  ASSUME NEW tx \in Txs
  PROVE  /\ \E ins \in UpTo(Ins, MaxItems), outs \in UpTo(Outs, MaxItems) : tx = Tx(ins, outs)
         /\ SoundTx(tx) /\ Len(tx.ins) <= MaxItems /\ Len(tx.outs) <= MaxItems
         /\ DOMAIN tx.ins = 1 .. Len(tx.ins) /\ DOMAIN tx.outs = 1 .. Len(tx.outs)
         /\ \A i \in 1 .. Len(tx.ins) : tx.ins[i] \in Ins
         /\ \A i \in 1 .. Len(tx.outs) : tx.outs[i] \in Outs
<1>1. MaxItems \in Nat /\ 1 <= MaxItems
  BY SizesAre
<1>2. ASSUME NEW s \in UpTo({OneIn}, 1)
      PROVE  s \in UpTo(Ins, MaxItems)
  <2>1. PICK k \in 0 .. 1 : s \in [1 .. k -> {OneIn}]
    BY DEF UpTo
  <2>2. k \in 0 .. MaxItems /\ s \in [1 .. k -> Ins]
    BY <1>1, <2>1, OnesIn
  <2> QED
    BY <2>2 DEF UpTo
<1>3. ASSUME NEW s \in UpTo({OneOut}, MaxItems)
      PROVE  s \in UpTo(Outs, MaxItems)
  <2>1. PICK k \in 0 .. MaxItems : s \in [1 .. k -> {OneOut}]
    BY DEF UpTo
  <2>2. s \in [1 .. k -> Outs]
    BY <2>1, OnesIn
  <2> QED
    BY <2>2 DEF UpTo
<1>4. PICK ins \in UpTo(Ins, MaxItems), outs \in UpTo(Outs, MaxItems) : tx = Tx(ins, outs)
  <2>1. CASE tx \in {Tx(a, b) : a \in UpTo(Ins, MaxItems), b \in UpTo({OneOut}, MaxItems)}
    <3>1. PICK a \in UpTo(Ins, MaxItems), b \in UpTo({OneOut}, MaxItems) : tx = Tx(a, b)
      BY <2>1
    <3> QED
      BY <1>3, <3>1
  <2>2. CASE tx \in {Tx(a, b) : a \in UpTo({OneIn}, 1), b \in UpTo(Outs, MaxItems)}
    <3>1. PICK a \in UpTo({OneIn}, 1), b \in UpTo(Outs, MaxItems) : tx = Tx(a, b)
      BY <2>2
    <3> QED
      BY <1>2, <3>1
  <2> QED
    BY <2>1, <2>2 DEF Txs
<1>5. /\ Items(ins, Ins) /\ Len(ins) <= MaxItems /\ DOMAIN ins = 1 .. Len(ins)
      /\ Items(outs, Outs) /\ Len(outs) <= MaxItems /\ DOMAIN outs = 1 .. Len(outs)
  BY <1>1, ItemsUpTo
<1>6. 258 \in Nat /\ 258 < 256 * (256 * (256 * 256))
  BY SMT
<1>7. PICK l \in Nat : l = 258 /\ l < 256 * (256 * (256 * 256))
  BY <1>6
<1>8. tx = [version |-> 1, lock_time |-> l, ins |-> ins, outs |-> outs]
  BY <1>4, <1>7 DEF Tx
<1>9. SoundTx(tx)
  BY <1>5, <1>7, <1>8, TxSound
<1>10. tx.ins = ins /\ tx.outs = outs
  BY <1>8
<1> QED
  BY <1>4, <1>5, <1>9, <1>10 DEF Items

\* The transactions that are looked up.
LEMMA NumberIs ==
  ASSUME NEW j \in 1 .. 2, NEW t \in 1 .. MaxTxs + 1
  PROVE  /\ Number(j, t) \in Nat
         /\ \A k \in 1 .. 2, i \in 1 .. MaxTxs + 1 : Number(k, i) = Number(j, t) => k = j /\ i = t
<1>1. MaxTxs \in Nat
  BY SizesAre
<1>2. \A k \in 1 .. 2 : k = 1 \/ k = 2
  OBVIOUS
<1>3. \A i : Number(1, i) = (MaxTxs + 2) + i /\ Number(2, i) = 2 * (MaxTxs + 2) + i
  BY <1>1 DEF Number
<1>4. Number(j, t) \in Nat
  BY <1>1, <1>2, <1>3
<1>5. ASSUME NEW k \in 1 .. 2, NEW i \in 1 .. MaxTxs + 1, Number(k, i) = Number(j, t)
      PROVE  k = j /\ i = t
  <2>1. k \in {1, 2} /\ j \in {1, 2}
    BY <1>2
  <2> QED
    BY <1>1, <1>3, <1>5, <2>1
<1> QED
  BY <1>4, <1>5

LEMMA NumberedIs ==
  ASSUME NEW j \in 1 .. 2, NEW t \in 1 .. MaxTxs + 1
  PROVE  /\ NumberedHash(j, t) \in Seq(Int) /\ Len(NumberedHash(j, t)) = HashSize
         /\ NumberedHash(j, t)[1] = Number(j, t)
<1>1. PICK l \in Nat : l = Number(j, t)
  BY NumberIs
<1>2. HashSize \in Nat /\ 1 \in 1 .. HashSize
  BY SizesAre
<1>3. PICK h : h = NumberedHash(j, t) /\ h \in [1 .. HashSize -> Int] /\ h[1] = l
  <2>1. NumberedHash(j, t) = [x \in 1 .. HashSize |-> l]
    BY <1>1 DEF NumberedHash
  <2>2. [x \in 1 .. HashSize |-> l] \in [1 .. HashSize -> Int] /\ [x \in 1 .. HashSize |-> l][1] = l
    BY <1>2
  <2> QED
    BY <2>1, <2>2
<1>4. h \in Seq(Int) /\ Len(h) = HashSize
  BY <1>2, <1>3, FunctionIsSeq
<1> QED
  BY <1>1, <1>3, <1>4

-----------------------------------------------------------------------------
(* Looking up a transaction.                                                *)

\* A file of n whole hashes.
LEMMA WholeList ==
  ASSUME NEW hashes, NEW n \in Nat, HashList(hashes, n)
  PROVE  /\ Len(Concat(hashes)) \div HashSize = n
         /\ \A i \in 0 .. n - 1 : HashAt(Concat(hashes), i) = hashes[i + 1]
<1> DEFINE H == HashSize
           w == Concat(hashes)
<1>1. H \in Nat /\ H > 2
  BY SizesAre
<1>2. Parts(hashes, n) /\ \A i \in 1 .. n : Len(hashes[i]) = H
  BY DEF HashList, Parts
<1>3. Spaced(w, hashes, n, H)
  BY <1>1, <1>2, ConcatFixed
<1> HIDE DEF w
<1>4. w \in Seq(Int) /\ Len(w) = n * H /\ \A i \in 1 .. n : At(w, (i - 1) * H, hashes[i])
  BY <1>3 DEF Spaced
<1>5. Len(w) \div H = n
  <2>1. PICK v \in Int : v = n * H
    BY <1>1
  <2> HIDE DEF H
  <2>2. v = H * n + 0 /\ H > 0 /\ 0 < H /\ 0 \in Int /\ 0 <= 0 /\ n \in Int /\ H \in Int
    BY <1>1, <2>1
  <2>3. v \div H = n
    BY <2>2, QuotientIs
  <2> QED
    BY <1>4, <2>1, <2>3
<1>6. ASSUME NEW i \in 0 .. n - 1
      PROVE  HashAt(w, i) = hashes[i + 1]
  <2>1. i + 1 \in 1 .. n /\ (i + 1) - 1 = i /\ i \in Nat
    OBVIOUS
  <2>2. hashes[i + 1] \in Seq(Int) /\ Len(hashes[i + 1]) = HashSize
    BY <2>1 DEF HashList
  <2>3. At(w, i * HashSize, hashes[i + 1])
    BY <1>4, <2>1
  <2> QED
    BY <1>4, <2>1, <2>2, <2>3, HashAtIs
<1> QED
  BY <1>5, <1>6 DEF w, H

\* The list of the j-th block has the transaction only if it is the block's.
LEMMA ListOf ==
  ASSUME NEW j \in 1 .. 2, NEW c \in 1 .. MaxTxs, NEW k \in 1 .. 2, NEW i \in 1 .. MaxTxs + 1,
         NEW file, file = Concat([t \in 1 .. c |-> NumberedHash(j, t)])
  PROVE  intern_hashlist_getindex(NumberedHash(k, i), file) = IF j = k /\ i <= c THEN i - 1 ELSE -1
<1> DEFINE hashes == [t \in 1 .. c |-> NumberedHash(j, t)]
           hash == NumberedHash(k, i)
<1>1. MaxTxs \in Nat /\ c \in Nat /\ i \in Nat /\ \A t \in 1 .. c : t \in 1 .. MaxTxs + 1
  BY SizesAre
<1>2. HashList(hashes, c)
  <2>1. Len(hashes) = c /\ DOMAIN hashes = 1 .. c
    BY <1>1
  <2> QED
    BY <1>1, <2>1, NumberedIs DEF HashList
<1>3. \A t \in 1 .. c : hashes[t] = NumberedHash(j, t)
  OBVIOUS
<1>4. ASSUME NEW t \in 1 .. c
      PROVE  hashes[t] = hash <=> j = k /\ t = i
  <2>1. t \in 1 .. MaxTxs + 1
    BY <1>1
  <2>2. hashes[t][1] = Number(j, t) /\ hash[1] = Number(k, i)
    BY <1>3, <2>1, NumberedIs
  <2>3. ASSUME hashes[t] = hash
        PROVE  j = k /\ t = i
    <3>1. Number(k, i) = Number(j, t)
      BY <2>2, <2>3
    <3> QED
      BY <2>1, <3>1, NumberIs
  <2>4. j = k /\ t = i => hashes[t] = hash
    BY <1>3
  <2> QED
    BY <2>3, <2>4
<1> HIDE DEF hashes, hash
<1>5. Len(file) \div HashSize = c /\ \A x \in 0 .. c - 1 : HashAt(file, x) = hashes[x + 1]
  BY <1>1, <1>2, WholeList DEF hashes
<1>6. ASSUME NEW x \in 0 .. c - 1
      PROVE  HashAt(file, x) = hash <=> j = k /\ x + 1 = i
  <2>1. x + 1 \in 1 .. c
    BY <1>1
  <2> QED
    BY <1>4, <1>5, <2>1
<1>7. CASE j = k /\ i <= c
  <2>1. PICK y \in Nat : y = i - 1
    BY <1>1
  <2>2. y \in 0 .. c - 1 /\ y + 1 = i /\ y < c
    BY <1>1, <1>7, <2>1
  <2>3. HashAt(file, y) = hash
    BY <1>6, <1>7, <2>2
  <2>4. \A x \in 0 .. y - 1 : HashAt(file, x) # hash
    <3> TAKE x \in 0 .. y - 1
    <3>1. x \in 0 .. c - 1 /\ x + 1 # i
      BY <1>1, <2>2
    <3> QED
      BY <1>6, <3>1
  <2>5. y < Len(file) \div HashSize /\ Len(file) \div HashSize \in Int
    BY <1>1, <1>5, <2>2
  <2>6. intern_hashlist_getindex(hash, file) = y
    BY <2>3, <2>4, <2>5, IndexIs
  <2> QED
    BY <1>7, <2>1, <2>6 DEF hash
<1>8. CASE ~(j = k /\ i <= c)
  <2>1. \A x \in 0 .. c - 1 : HashAt(file, x) # hash
    <3> TAKE x \in 0 .. c - 1
    <3>1. ~(j = k /\ x + 1 = i)
      BY <1>1, <1>8
    <3> QED
      BY <1>6, <3>1
  <2>2. \A x \in 0 .. Len(file) \div HashSize - 1 : HashAt(file, x) # hash
    BY <1>5, <2>1
  <2>3. intern_hashlist_getindex(hash, file) = -1
    BY <2>2, NotFound
  <2> QED
    BY <1>8, <2>3 DEF hash
<1> QED
  BY <1>7, <1>8

\* What is stored and asked for.
Asked(names, counts, k, i) ==
  /\ \E a \in Keep, b \in Keep : a # b /\ names = <<a, b>>
  /\ counts \in [1 .. 2 -> 1 .. MaxTxs] /\ k \in 1 .. 2 /\ i \in 1 .. MaxTxs + 1
IndexOf(names, counts) ==
  [j \in DOMAIN names |-> [block |-> names[j], file |-> Concat([t \in 1 .. counts[j] |-> NumberedHash(j, t)])]]
StoredOf(names, counts) ==
  [h \in Range(names) |-> Wire(NumberedBlock(counts, CHOOSE j \in DOMAIN names : names[j] = h))]

LEMMA AskedPlace ==
  ASSUME NEW names, NEW counts, NEW k, NEW i, Asked(names, counts, k, i), NEW j \in 1 .. 2,
         NEW file, file = IndexOf(names, counts)[j].file
  PROVE  intern_hashlist_getindex(NumberedHash(k, i), file) = IF j = k /\ i <= counts[j] THEN i - 1 ELSE -1
<1>1. /\ DOMAIN names = 1 .. 2
      /\ counts \in [1 .. 2 -> 1 .. MaxTxs] /\ k \in 1 .. 2 /\ i \in 1 .. MaxTxs + 1
  BY DEF Asked
<1>2. PICK c \in 1 .. MaxTxs : c = counts[j]
  BY <1>1
<1>3. PICK f : f = Concat([t \in 1 .. c |-> NumberedHash(j, t)])
  OBVIOUS
<1>4. IndexOf(names, counts)[j] = [block |-> names[j], file |-> f]
  BY <1>1, <1>2, <1>3 DEF IndexOf
<1>5. file = f
  BY <1>4
<1>6. intern_hashlist_getindex(NumberedHash(k, i), f) = IF j = k /\ i <= c THEN i - 1 ELSE -1
  BY <1>1, <1>3, ListOf
<1> QED
  BY <1>2, <1>5, <1>6

LEMMA AskedIs ==
  ASSUME NEW names, NEW counts, NEW k, NEW i, Asked(names, counts, k, i)
  PROVE  /\ DOMAIN IndexOf(names, counts) = 1 .. 2
         /\ \A j \in 1 .. 2 : IndexOf(names, counts)[j].block = names[j]
<1>1. DOMAIN names = 1 .. 2
  BY DEF Asked
<1> QED
  BY <1>1 DEF IndexOf

\* The block the index names.
LEMMA BlockFound ==
  ASSUME NEW names, NEW counts, NEW k, NEW i, Asked(names, counts, k, i),
         NEW index, index = IndexOf(names, counts), NEW hash, hash = NumberedHash(k, i)
  PROVE  io_block_of_tx(hash, index) =
            IF i <= counts[k] THEN [pos |-> i - 1, block |-> SubSeq(btoascii(names[k]), 1, HashSize)]
                              ELSE [pos |-> -1]
<1> DEFINE listed == {x \in DOMAIN index : intern_hashlist_getindex(hash, index[x].file) >= 0}
<1>1. /\ k \in 1 .. 2 /\ i \in Nat /\ i >= 1 /\ counts[k] \in Nat
  <2>1. MaxTxs \in Nat /\ counts \in [1 .. 2 -> 1 .. MaxTxs] /\ k \in 1 .. 2 /\ i \in 1 .. MaxTxs + 1
    BY SizesAre DEF Asked
  <2> QED
    BY <2>1
<1>2. /\ DOMAIN index = 1 .. 2
      /\ \A j \in 1 .. 2 : /\ index[j].block = names[j]
                           /\ intern_hashlist_getindex(hash, index[j].file)
                                = IF j = k /\ i <= counts[j] THEN i - 1 ELSE -1
  <2>1. DOMAIN index = 1 .. 2
    BY AskedIs
  <2>2. ASSUME NEW j \in 1 .. 2
        PROVE  index[j].block = names[j]
    BY AskedIs
  <2>3. ASSUME NEW j \in 1 .. 2
        PROVE  intern_hashlist_getindex(hash, index[j].file) = IF j = k /\ i <= counts[j] THEN i - 1 ELSE -1
    BY AskedPlace
  <2> QED
    BY <2>1, <2>2, <2>3
<1>3. CASE i <= counts[k]
  <2>1. \A j \in 1 .. 2 : j \in listed <=> j = k
    <3> TAKE j \in 1 .. 2
    <3>1. CASE j = k
      BY <1>1, <1>2, <1>3, <3>1
    <3>2. CASE j # k
      BY <1>2, <3>2
    <3> QED
      BY <3>1, <3>2
  <2>2. listed = {k}
    BY <1>1, <1>2, <2>1
  <2>3. Min({k}) = k
    <3>1. {k} \subseteq Nat /\ k \in {k} /\ \A y \in {k} : k <= y
      BY <1>1
    <3> QED
      BY <3>1, MinUnique
  <2>4. intern_hashlist_getindex(hash, index[k].file) = i - 1 /\ index[k].block = names[k]
    BY <1>1, <1>2, <1>3
  <2>5. Min(listed) = k /\ listed # {}
    BY <2>2, <2>3
  <2> HIDE DEF listed
  <2>6. io_block_of_tx(hash, index) = [pos |-> i - 1, block |-> SubSeq(btoascii(names[k]), 1, HashSize)]
    BY <2>4, <2>5 DEF io_block_of_tx, listed, HashOfName
  <2> QED
    BY <1>3, <2>6
<1>4. CASE ~(i <= counts[k])
  <2>1. \A j \in 1 .. 2 : j \notin listed
    <3> TAKE j \in 1 .. 2
    <3>1. ~(j = k /\ i <= counts[j])
      BY <1>4
    <3> QED
      BY <1>2, <3>1
  <2>2. listed = {}
    BY <1>2, <2>1
  <2>3. io_block_of_tx(hash, index) = [pos |-> -1]
    BY <2>2 DEF io_block_of_tx
  <2> QED
    BY <1>4, <2>3
<1> QED
  BY <1>3, <1>4

\* A transaction that is listed is not answered with NULL, whatever is
\* copied, and the process may not live to answer.
LEMMA LoadIs ==
  ASSUME NEW names, NEW counts, NEW k, NEW i, Asked(names, counts, k, i), NEW stored, NEW room,
         NEW r, r = m_io_load_tx(NumberedHash(k, i), IndexOf(names, counts), stored, room, 0)
  PROVE  r.end = "null" <=> ~(i <= counts[k])
<1> DEFINE found == io_block_of_tx(NumberedHash(k, i), IndexOf(names, counts))
           h == SubSeq(btoascii(names[k]), 1, HashSize)
           copied == io_load_nth_tx_raw(found.block, found.pos, stored, room, 0)
           loaded == io_load_tx_raw(NumberedHash(k, i), IndexOf(names, counts), stored, room, 0)
<1>1. loaded = IF found.pos < 0 THEN [end |-> "false"]
               ELSE IF copied.end = "false" THEN [end |-> "undefined"] ELSE copied
  BY DEF io_load_tx_raw
<1>2. r = IF loaded.end = "true"
          THEN [end |-> "tx", tx |-> m_tx_deserialize(Put(Empty, 0, loaded.raw), 0, 0)]
          ELSE IF loaded.end = "false" THEN [end |-> "null"] ELSE loaded
  BY DEF m_io_load_tx
<1>3. found = IF i <= counts[k] THEN [pos |-> i - 1, block |-> h] ELSE [pos |-> -1]
  BY BlockFound
<1>4. i \in Nat /\ i >= 1
  BY SizesAre DEF Asked
<1>5. copied.end \in {"killed", "false", "fatal", "undefined", "true"}
  BY DEF io_load_nth_tx_raw
<1> HIDE DEF found, loaded, copied, h
<1>6. CASE ~(i <= counts[k])
  <2>1. found.pos = -1
    BY <1>3, <1>6
  <2>2. loaded = [end |-> "false"]
    BY <1>1, <2>1
  <2>3. r = [end |-> "null"]
    BY <1>2, <2>2
  <2> QED
    BY <1>6, <2>3
<1>7. CASE i <= counts[k]
  <2>1. ~(found.pos < 0)
    <3>1. found = [pos |-> i - 1, block |-> h]
      BY <1>3, <1>7
    <3>2. found.pos = i - 1
      BY <3>1
    <3> QED
      BY <1>4, <3>2
  <2>2. loaded = IF copied.end = "false" THEN [end |-> "undefined"] ELSE copied
    BY <1>1, <2>1
  <2>3. loaded.end \in {"killed", "fatal", "undefined", "true"}
    <3>1. CASE copied.end = "false"
      BY <2>2, <3>1
    <3>2. CASE copied.end # "false"
      BY <1>5, <2>2, <3>2
    <3> QED
      BY <3>1, <3>2
  <2>4. CASE loaded.end = "true"
    <3>1. r.end = "tx"
      BY <1>2, <2>4
    <3> QED
      BY <1>7, <3>1
  <2>5. CASE loaded.end # "true"
    <3>1. r = loaded
      BY <1>2, <2>3, <2>5
    <3> QED
      BY <1>7, <2>3, <3>1
  <2> QED
    BY <2>4, <2>5
<1> QED
  BY <1>6, <1>7

LEMMA LookingUpRight ==
  ASSUME LookingUp
  PROVE  NullIfUnknown'
<1>1. PICK a \in Keep, b \in Keep, counts \in [1 .. 2 -> 1 .. MaxTxs], k \in 1 .. 2, i \in 1 .. MaxTxs + 1,
           room \in BOOLEAN : a # b /\ Lookup(<<a, b>>, counts, k, i, room)
  BY DEF LookingUp
<1>2. PICK names : names = <<a, b>>
  OBVIOUS
<1>3. Asked(names, counts, k, i)
  BY <1>1, <1>2 DEF Asked
<1> DEFINE r == m_io_load_tx(NumberedHash(k, i), IndexOf(names, counts), StoredOf(names, counts), room, 0)
<1>4. /\ rc'.args = [names |-> names, counts |-> counts, k |-> k, i |-> i, room |-> room]
      /\ rc'.result = r
  <2>1. Lookup(names, counts, k, i, room)
    BY <1>1, <1>2
  <2>2. Call("load", [names |-> names, counts |-> counts, k |-> k, i |-> i, room |-> room], r)
    BY <2>1 DEF Lookup, IndexOf, StoredOf
  <2> HIDE DEF r
  <2> QED
    BY <2>2, CallIs
<1>5. r.end = "null" <=> ~(i <= counts[k])
  BY <1>3, LoadIs
<1> HIDE DEF r
<1>6. rc'.args.counts = counts /\ rc'.args.k = k /\ rc'.args.i = i
  BY <1>4
<1> QED
  BY <1>4, <1>5, <1>6 DEF NullIfUnknown, Known

-----------------------------------------------------------------------------
(* The root of a Merkle tree.                                               *)

\* n pointers and the spare one point to n + 1 different places.
Shape(s, n) ==
  /\ DOMAIN s.mem = 1 .. n + 1
  /\ s.ptrs \in [1 .. n -> 1 .. n + 1] /\ s.buffer \in 1 .. n + 1
  /\ \A i \in 1 .. n : s.ptrs[i] # s.buffer
  /\ \A i, j \in 1 .. n : s.ptrs[i] = s.ptrs[j] => i = j

Node(s, i) == s.mem[s.ptrs[i]]

LEMMA CombineIs ==
  ASSUME NEW n \in Nat, NEW s, Shape(s, n), NEW i \in 1 .. n, NEW j \in 1 .. n, NEW k \in 1 .. n,
         NEW t, t = Combine(s, i, j, k)
  PROVE  /\ Shape(t, n) /\ Node(t, k) = <<Node(s, i), Node(s, j)>>
         /\ \A x \in 1 .. n : x # k => Node(t, x) = Node(s, x)
<1>1. PICK e : e = <<Node(s, i), Node(s, j)>>
  OBVIOUS
<1>2. t = [mem |-> [s.mem EXCEPT ![s.buffer] = e], ptrs |-> [s.ptrs EXCEPT ![k] = s.buffer], buffer |-> s.ptrs[k]]
  BY <1>1 DEF Combine, Node
<1>3. t.mem = [s.mem EXCEPT ![s.buffer] = e] /\ t.ptrs = [s.ptrs EXCEPT ![k] = s.buffer] /\ t.buffer = s.ptrs[k]
  BY <1>2
<1>4. /\ t.ptrs \in [1 .. n -> 1 .. n + 1] /\ t.buffer \in 1 .. n + 1 /\ DOMAIN t.mem = 1 .. n + 1
      /\ t.ptrs[k] = s.buffer /\ \A x \in 1 .. n : x # k => t.ptrs[x] = s.ptrs[x]
  BY <1>3 DEF Shape
<1>5. t.mem[s.buffer] = e /\ \A p \in 1 .. n + 1 : p # s.buffer => t.mem[p] = s.mem[p]
  BY <1>3 DEF Shape
<1>6. \A x \in 1 .. n : t.ptrs[x] # t.buffer
  <2> TAKE x \in 1 .. n
  <2>1. CASE x = k
    BY <1>3, <1>4, <2>1 DEF Shape
  <2>2. CASE x # k
    BY <1>3, <1>4, <2>2 DEF Shape
  <2> QED
    BY <2>1, <2>2
<1>7. ASSUME NEW x \in 1 .. n, NEW y \in 1 .. n, t.ptrs[x] = t.ptrs[y]
      PROVE  x = y
  BY <1>4, <1>7 DEF Shape
<1>8. Shape(t, n)
  BY <1>4, <1>6, <1>7 DEF Shape
<1>9. Node(t, k) = e
  BY <1>4, <1>5 DEF Node
<1>10. ASSUME NEW x \in 1 .. n, x # k
       PROVE  Node(t, x) = Node(s, x)
  BY <1>4, <1>5, <1>10 DEF Node, Shape
<1> QED
  BY <1>1, <1>8, <1>9, <1>10

\* The recursive definition has the value it describes.
LEMMA PairedDef ==
  ASSUME NEW s, NEW n \in Nat, s.leaves \div 2 = n
  PROVE  /\ Paired(s)[0] = [mem |-> s.mem, ptrs |-> s.ptrs, buffer |-> s.buffer]
         /\ \A k \in 1 .. n : Paired(s)[k] = Combine(Paired(s)[k - 1], 2 * k - 1, 2 * k, k)
<1> DEFINE base == [mem |-> s.mem, ptrs |-> s.ptrs, buffer |-> s.buffer]
           Step(v, k) == Combine(v, 2 * k - 1, 2 * k, k)
           Body(f, m) == [k \in 0 .. m |-> IF k = 0 THEN base ELSE Step(f[k - 1], k)]
           D == {m \in 0 .. n : \E f : f = Body(f, m)}
           r == Paired(s)
<1>1. r = CHOOSE f : f = Body(f, n)
  BY DEF Paired
<1> HIDE DEF base, Step, r
<1>2. 0 \in D
  <2>1. \A k \in 0 .. 0 : k = 0
    OBVIOUS
  <2>2. PICK f : f = [k \in 0 .. 0 |-> base]
    OBVIOUS
  <2>3. f = Body(f, 0)
    BY <2>1, <2>2
  <2> QED
    BY <2>3
<1>3. ASSUME NEW m \in 0 .. n - 1, m \in D
      PROVE  m + 1 \in D
  <2>1. PICK f : f = Body(f, m)
    BY <1>3
  <2> DEFINE h == [k \in 0 .. m + 1 |-> IF k <= m THEN f[k] ELSE Step(f[m], m + 1)]
  <2>2. ASSUME NEW k \in 0 .. m + 1
        PROVE  h[k] = IF k = 0 THEN base ELSE Step(h[k - 1], k)
    <3>1. CASE k = 0
      <4>1. h[0] = f[0] /\ 0 \in 0 .. m
        OBVIOUS
      <4>2. f[0] = base
        BY <2>1, <4>1
      <4> QED
        BY <3>1, <4>1, <4>2
    <3>2. CASE k # 0 /\ k <= m
      <4>1. k \in 0 .. m /\ k - 1 \in 0 .. m + 1 /\ k - 1 <= m
        BY <3>2
      <4>2. h[k] = f[k] /\ h[k - 1] = f[k - 1]
        BY <3>2, <4>1
      <4>3. f[k] = Step(f[k - 1], k)
        BY <2>1, <3>2, <4>1
      <4> QED
        BY <3>2, <4>2, <4>3
    <3>3. CASE k = m + 1
      <4>1. h[m + 1] = Step(f[m], m + 1) /\ h[m] = f[m] /\ (m + 1) - 1 = m /\ m + 1 # 0
        OBVIOUS
      <4> QED
        BY <3>3, <4>1
    <3> QED
      BY <3>1, <3>2, <3>3
  <2>3. h = [k \in 0 .. m + 1 |-> h[k]]
    OBVIOUS
  <2> HIDE DEF h
  <2>4. h = Body(h, m + 1)
    BY <2>2, <2>3
  <2>5. m + 1 \in 0 .. n
    OBVIOUS
  <2> QED
    BY <2>4, <2>5
<1>4. \E f : f = Body(f, n)
  <2> HIDE DEF D
  <2>1. \A m \in 0 .. n : m \in D
    BY <1>2, <1>3, UpToInduction
  <2>2. n \in D
    BY <2>1
  <2> QED
    BY <2>2 DEF D
<1>5. r = Body(r, n)
  BY <1>1, <1>4
<1>6. r[0] = base
  BY <1>5
<1>7. ASSUME NEW k \in 1 .. n
      PROVE  r[k] = Step(r[k - 1], k)
  <2>1. k \in 0 .. n /\ k # 0
    OBVIOUS
  <2> QED
    BY <1>5, <2>1
<1> QED
  BY <1>6, <1>7 DEF base, Step, r

\* After k pairs, the first k nodes are the pairs and the others what they were.
Halfway(v, s, k, n) ==
  /\ Shape(v, n)
  /\ \A x \in 1 .. k : Node(v, x) = <<Node(s, 2 * x - 1), Node(s, 2 * x)>>
  /\ \A x \in k + 1 .. n : Node(v, x) = Node(s, x)

LEMMA PairedIs ==
  ASSUME NEW n \in Nat, NEW s, Shape(s, n), NEW l \in 1 .. n, s.leaves = l, NEW p \in Nat, p = l \div 2
  PROVE  Halfway(Paired(s)[p], s, p, n)
<1> DEFINE r == Paired(s)
           T == {k \in 0 .. p : Halfway(r[k], s, k, n)}
<1>1. /\ r[0] = [mem |-> s.mem, ptrs |-> s.ptrs, buffer |-> s.buffer]
      /\ \A k \in 1 .. p : r[k] = Combine(r[k - 1], 2 * k - 1, 2 * k, k)
  BY PairedDef
<1>2. 2 * p <= n
  OBVIOUS
<1> HIDE DEF r
<1>3. 0 \in T
  <2>1. r[0].mem = s.mem /\ r[0].ptrs = s.ptrs /\ r[0].buffer = s.buffer
    BY <1>1
  <2>2. Shape(r[0], n) /\ \A x : Node(r[0], x) = Node(s, x)
    BY <2>1 DEF Shape, Node
  <2>3. \A x \in 1 .. 0 : FALSE
    OBVIOUS
  <2> QED
    BY <2>2, <2>3 DEF Halfway
<1>4. ASSUME NEW k \in 0 .. p - 1, k \in T
      PROVE  k + 1 \in T
  <2> DEFINE q == k + 1
             i == 2 * q - 1
             j == 2 * q
             v == r[k]
             w == r[k + 1]
  <2>1. /\ q \in 1 .. p /\ q - 1 = k /\ q \in 1 .. n /\ i \in 1 .. n /\ j \in 1 .. n
        /\ i \in k + 1 .. n /\ j \in k + 1 .. n /\ q \in 0 .. p
    BY <1>2
  <2>2. w = Combine(v, i, j, q)
    BY <1>1, <2>1
  <2>3. /\ Shape(v, n) /\ \A x \in 1 .. k : Node(v, x) = <<Node(s, 2 * x - 1), Node(s, 2 * x)>>
        /\ \A x \in k + 1 .. n : Node(v, x) = Node(s, x)
    BY <1>4 DEF Halfway
  <2> HIDE DEF v, w, q, i, j
  <2>4. /\ Shape(w, n) /\ Node(w, q) = <<Node(v, i), Node(v, j)>>
        /\ \A x \in 1 .. n : x # q => Node(w, x) = Node(v, x)
    BY <2>1, <2>2, <2>3, CombineIs
  <2>5. Node(w, q) = <<Node(s, 2 * q - 1), Node(s, 2 * q)>>
    BY <2>1, <2>3, <2>4 DEF i, j
  <2>6. ASSUME NEW x \in 1 .. q
        PROVE  Node(w, x) = <<Node(s, 2 * x - 1), Node(s, 2 * x)>>
    <3>1. CASE x = q
      BY <2>5, <3>1
    <3>2. CASE x # q
      <4>1. x \in 1 .. k /\ x \in 1 .. n
        BY <1>2, <3>2 DEF q
      <4> QED
        BY <2>3, <2>4, <3>2, <4>1
    <3> QED
      BY <3>1, <3>2
  <2>7. ASSUME NEW x \in q + 1 .. n
        PROVE  Node(w, x) = Node(s, x)
    <3>1. x \in 1 .. n /\ x # q /\ x \in k + 1 .. n
      BY DEF q
    <3> QED
      BY <2>3, <2>4, <3>1
  <2> QED
    BY <2>1, <2>4, <2>6, <2>7 DEF q, w, Halfway
<1> HIDE DEF T
<1>5. \A k \in 0 .. p : k \in T
  BY <1>3, <1>4, UpToInduction
<1>6. p \in T
  BY <1>5
<1> QED
  BY <1>6 DEF T, r

\* A level up: half as many nodes, each the pair of two, or of one with itself.
LEMMA LevelIs ==
  ASSUME NEW n \in Nat, NEW s, Shape(s, n), NEW l \in 2 .. n, s.leaves = l, NEW t, t = Level(s)
  PROVE  /\ Shape(t, n) /\ t.leaves = (l + 1) \div 2
         /\ \A x \in 1 .. (l + 1) \div 2 :
               Node(t, x) = <<Node(s, 2 * x - 1), IF 2 * x <= l THEN Node(s, 2 * x) ELSE Node(s, 2 * x - 1)>>
<1>1. PICK p \in Nat : p = l \div 2
  OBVIOUS
<1>2. PICK v : v = Paired(s)[p]
  OBVIOUS
<1>3. l \in 1 .. n /\ 2 * p <= l /\ l <= 2 * p + 1 /\ p >= 1
  BY <1>1
<1>4. /\ Shape(v, n)
      /\ \A x \in 1 .. p : Node(v, x) = <<Node(s, 2 * x - 1), Node(s, 2 * x)>>
      /\ \A x \in p + 1 .. n : Node(v, x) = Node(s, x)
  BY <1>1, <1>2, <1>3, PairedIs DEF Halfway
<1> DEFINE all == IF l % 2 = 0 THEN v ELSE Combine(v, l, l, p + 1)
<1>5. t = [mem |-> all.mem, ptrs |-> all.ptrs, buffer |-> all.buffer, leaves |-> p + (l % 2)]
  BY <1>1, <1>2 DEF Level
<1>6. t.mem = all.mem /\ t.ptrs = all.ptrs /\ t.buffer = all.buffer /\ t.leaves = p + (l % 2)
  <2> HIDE DEF all
  <2> QED
    BY <1>5
<1>7. (\A x : Node(t, x) = Node(all, x)) /\ (Shape(all, n) => Shape(t, n))
  <2> HIDE DEF all
  <2> QED
    BY <1>6 DEF Node, Shape
<1>8. CASE l % 2 = 0
  <2>1. l = 2 * p /\ (l + 1) \div 2 = p
    BY <1>1, <1>8
  <2>2. all = v /\ t.leaves = p
    BY <1>6, <1>8
  <2>3. \A x \in 1 .. p : 2 * x <= l
    BY <2>1
  <2> HIDE DEF all
  <2> QED
    BY <1>4, <1>7, <2>1, <2>2, <2>3
<1>9. CASE l % 2 # 0
  <2>1. l = 2 * p + 1 /\ (l + 1) \div 2 = p + 1 /\ l % 2 = 1
    BY <1>1, <1>9
  <2>2. PICK q : q = p + 1 /\ q \in 1 .. n /\ l \in q .. n /\ l \in 1 .. n
    BY <1>3, <2>1
  <2>3. PICK w : w = all /\ w = Combine(v, l, l, q)
    BY <1>9, <2>2
  <2>4. /\ Shape(w, n) /\ Node(w, q) = <<Node(v, l), Node(v, l)>>
        /\ \A x \in 1 .. n : x # q => Node(w, x) = Node(v, x)
    BY <1>4, <2>2, <2>3, CombineIs
  <2>5. ASSUME NEW x \in 1 .. q
        PROVE  Node(w, x) = <<Node(s, 2 * x - 1), IF 2 * x <= l THEN Node(s, 2 * x) ELSE Node(s, 2 * x - 1)>>
    <3>1. CASE x = q
      <4>1. 2 * x - 1 = l /\ ~(2 * x <= l)
        BY <2>1, <2>2, <3>1
      <4>2. Node(v, l) = Node(s, l)
        BY <1>4, <2>2
      <4> QED
        BY <2>4, <3>1, <4>1, <4>2
    <3>2. CASE x # q
      <4>1. x \in 1 .. p /\ x \in 1 .. n /\ 2 * x <= l
        BY <1>3, <2>1, <2>2, <3>2
      <4> QED
        BY <1>4, <2>4, <3>2, <4>1
    <3> QED
      BY <3>1, <3>2
  <2>6. t.leaves = q
    BY <1>6, <2>1, <2>2
  <2> HIDE DEF all
  <2> QED
    BY <1>7, <2>1, <2>2, <2>3, <2>4, <2>5, <2>6
<1> QED
  BY <1>8, <1>9

LEMMA LevelsDef ==
  ASSUME NEW leaves, NEW n \in Nat, Len(leaves) = n
  PROVE  /\ Levels(leaves)[0] = [mem |-> Append(leaves, "spare"), ptrs |-> SubSeq([k \in 1 .. n |-> k], 1, n),
                                 buffer |-> n + 1, leaves |-> n]
         /\ \A i \in 1 .. n : Levels(leaves)[i] = IF Levels(leaves)[i - 1].leaves > 1 THEN Level(Levels(leaves)[i - 1])
                                                   ELSE Levels(leaves)[i - 1]
<1> DEFINE base == [mem |-> Append(leaves, "spare"), ptrs |-> SubSeq([k \in 1 .. n |-> k], 1, n),
                    buffer |-> n + 1, leaves |-> n]
           Step(v, k) == IF v.leaves > 1 THEN Level(v) ELSE v
           Body(f, m) == [k \in 0 .. m |-> IF k = 0 THEN base ELSE Step(f[k - 1], k)]
           D == {m \in 0 .. n : \E f : f = Body(f, m)}
           r == Levels(leaves)
<1>1. r = CHOOSE f : f = Body(f, n)
  BY DEF Levels
<1> HIDE DEF base, Step, r
<1>2. 0 \in D
  <2>1. \A k \in 0 .. 0 : k = 0
    OBVIOUS
  <2>2. PICK f : f = [k \in 0 .. 0 |-> base]
    OBVIOUS
  <2>3. f = Body(f, 0)
    BY <2>1, <2>2
  <2> QED
    BY <2>3
<1>3. ASSUME NEW m \in 0 .. n - 1, m \in D
      PROVE  m + 1 \in D
  <2>1. PICK f : f = Body(f, m)
    BY <1>3
  <2> DEFINE h == [k \in 0 .. m + 1 |-> IF k <= m THEN f[k] ELSE Step(f[m], m + 1)]
  <2>2. ASSUME NEW k \in 0 .. m + 1
        PROVE  h[k] = IF k = 0 THEN base ELSE Step(h[k - 1], k)
    <3>1. CASE k = 0
      <4>1. h[0] = f[0] /\ 0 \in 0 .. m
        OBVIOUS
      <4>2. f[0] = base
        BY <2>1, <4>1
      <4> QED
        BY <3>1, <4>1, <4>2
    <3>2. CASE k # 0 /\ k <= m
      <4>1. k \in 0 .. m /\ k - 1 \in 0 .. m + 1 /\ k - 1 <= m
        BY <3>2
      <4>2. h[k] = f[k] /\ h[k - 1] = f[k - 1]
        BY <3>2, <4>1
      <4>3. f[k] = Step(f[k - 1], k)
        BY <2>1, <3>2, <4>1
      <4> QED
        BY <3>2, <4>2, <4>3
    <3>3. CASE k = m + 1
      <4>1. h[m + 1] = Step(f[m], m + 1) /\ h[m] = f[m] /\ (m + 1) - 1 = m /\ m + 1 # 0
        OBVIOUS
      <4> QED
        BY <3>3, <4>1
    <3> QED
      BY <3>1, <3>2, <3>3
  <2>3. h = [k \in 0 .. m + 1 |-> h[k]]
    OBVIOUS
  <2> HIDE DEF h
  <2>4. h = Body(h, m + 1)
    BY <2>2, <2>3
  <2>5. m + 1 \in 0 .. n
    OBVIOUS
  <2> QED
    BY <2>4, <2>5
<1>4. \E f : f = Body(f, n)
  <2> HIDE DEF D
  <2>1. \A m \in 0 .. n : m \in D
    BY <1>2, <1>3, UpToInduction
  <2>2. n \in D
    BY <2>1
  <2> QED
    BY <2>2 DEF D
<1>5. r = Body(r, n)
  BY <1>1, <1>4
<1>6. r[0] = base
  BY <1>5
<1>7. ASSUME NEW k \in 1 .. n
      PROVE  r[k] = Step(r[k - 1], k)
  <2>1. k \in 0 .. n /\ k # 0
    OBVIOUS
  <2> QED
    BY <1>5, <2>1
<1> QED
  BY <1>6, <1>7 DEF base, Step, r

LEMMA TreeDef ==
  ASSUME NEW n \in Nat
  PROVE  /\ Tree(n)[0] = [k \in 1 .. n |-> k]
         /\ \A i \in 1 .. n : Tree(n)[i] = IF Len(Tree(n)[i - 1]) = 1 THEN Tree(n)[i - 1] ELSE Above(Tree(n)[i - 1])
<1> DEFINE base == [k \in 1 .. n |-> k]
           Step(v, k) == IF Len(v) = 1 THEN v ELSE Above(v)
           Body(f, m) == [k \in 0 .. m |-> IF k = 0 THEN base ELSE Step(f[k - 1], k)]
           D == {m \in 0 .. n : \E f : f = Body(f, m)}
           r == Tree(n)
<1>1. r = CHOOSE f : f = Body(f, n)
  BY DEF Tree
<1> HIDE DEF base, Step, r
<1>2. 0 \in D
  <2>1. \A k \in 0 .. 0 : k = 0
    OBVIOUS
  <2>2. PICK f : f = [k \in 0 .. 0 |-> base]
    OBVIOUS
  <2>3. f = Body(f, 0)
    BY <2>1, <2>2
  <2> QED
    BY <2>3
<1>3. ASSUME NEW m \in 0 .. n - 1, m \in D
      PROVE  m + 1 \in D
  <2>1. PICK f : f = Body(f, m)
    BY <1>3
  <2> DEFINE h == [k \in 0 .. m + 1 |-> IF k <= m THEN f[k] ELSE Step(f[m], m + 1)]
  <2>2. ASSUME NEW k \in 0 .. m + 1
        PROVE  h[k] = IF k = 0 THEN base ELSE Step(h[k - 1], k)
    <3>1. CASE k = 0
      <4>1. h[0] = f[0] /\ 0 \in 0 .. m
        OBVIOUS
      <4>2. f[0] = base
        BY <2>1, <4>1
      <4> QED
        BY <3>1, <4>1, <4>2
    <3>2. CASE k # 0 /\ k <= m
      <4>1. k \in 0 .. m /\ k - 1 \in 0 .. m + 1 /\ k - 1 <= m
        BY <3>2
      <4>2. h[k] = f[k] /\ h[k - 1] = f[k - 1]
        BY <3>2, <4>1
      <4>3. f[k] = Step(f[k - 1], k)
        BY <2>1, <3>2, <4>1
      <4> QED
        BY <3>2, <4>2, <4>3
    <3>3. CASE k = m + 1
      <4>1. h[m + 1] = Step(f[m], m + 1) /\ h[m] = f[m] /\ (m + 1) - 1 = m /\ m + 1 # 0
        OBVIOUS
      <4> QED
        BY <3>3, <4>1
    <3> QED
      BY <3>1, <3>2, <3>3
  <2>3. h = [k \in 0 .. m + 1 |-> h[k]]
    OBVIOUS
  <2> HIDE DEF h
  <2>4. h = Body(h, m + 1)
    BY <2>2, <2>3
  <2>5. m + 1 \in 0 .. n
    OBVIOUS
  <2> QED
    BY <2>4, <2>5
<1>4. \E f : f = Body(f, n)
  <2> HIDE DEF D
  <2>1. \A m \in 0 .. n : m \in D
    BY <1>2, <1>3, UpToInduction
  <2>2. n \in D
    BY <2>1
  <2> QED
    BY <2>2 DEF D
<1>5. r = Body(r, n)
  BY <1>1, <1>4
<1>6. r[0] = base
  BY <1>5
<1>7. ASSUME NEW k \in 1 .. n
      PROVE  r[k] = Step(r[k - 1], k)
  <2>1. k \in 0 .. n /\ k # 0
    OBVIOUS
  <2> QED
    BY <1>5, <2>1
<1> QED
  BY <1>6, <1>7 DEF base, Step, r

\* The nodes behind the pointers are those of the level, of l nodes, of the tree.
Holds(s, level, l, n) ==
  /\ Shape(s, n) /\ l \in 1 .. n /\ s.leaves = l /\ level = [x \in 1 .. l |-> Node(s, x)]

LEMMA HoldsStep ==
  ASSUME NEW n \in Nat, NEW s, NEW level, NEW l, Holds(s, level, l, n),
         NEW t, t = IF s.leaves > 1 THEN Level(s) ELSE s,
         NEW up, up = IF Len(level) = 1 THEN level ELSE Above(level)
  PROVE  \E m : Holds(t, up, m, n) /\ (m < l \/ m = 1)
<1>1. Shape(s, n) /\ l \in 1 .. n /\ s.leaves = l /\ level = [x \in 1 .. l |-> Node(s, x)]
  BY DEF Holds
<1>2. Len(level) = l /\ \A x \in 1 .. l : level[x] = Node(s, x)
  BY <1>1
<1>3. CASE l = 1
  <2>1. t = s /\ up = level
    BY <1>1, <1>2, <1>3
  <2> QED
    BY <1>3, <2>1
<1>4. CASE l # 1
  <2>1. l \in 2 .. n /\ l > 1
    BY <1>1, <1>4
  <2>2. t = Level(s) /\ up = Above(level)
    BY <1>1, <1>2, <1>4, <2>1
  <2>3. PICK m \in Nat : m = (l + 1) \div 2 /\ m \in 1 .. n /\ m < l /\ 2 * m <= l + 1
    BY <2>1
  <2>4. /\ Shape(t, n) /\ t.leaves = m
        /\ \A x \in 1 .. m :
              Node(t, x) = <<Node(s, 2 * x - 1), IF 2 * x <= l THEN Node(s, 2 * x) ELSE Node(s, 2 * x - 1)>>
    BY <1>1, <2>1, <2>2, <2>3, LevelIs
  <2>5. up = [x \in 1 .. m |-> <<level[2 * x - 1], IF 2 * x <= l THEN level[2 * x] ELSE level[2 * x - 1]>>]
    BY <1>2, <2>2, <2>3 DEF Above
  <2>6. ASSUME NEW x \in 1 .. m
        PROVE  <<level[2 * x - 1], IF 2 * x <= l THEN level[2 * x] ELSE level[2 * x - 1]>> = Node(t, x)
    <3>1. 2 * x - 1 \in 1 .. l /\ (2 * x <= l => 2 * x \in 1 .. l)
      BY <2>1, <2>3
    <3>2. level[2 * x - 1] = Node(s, 2 * x - 1) /\ (2 * x <= l => level[2 * x] = Node(s, 2 * x))
      BY <1>2, <3>1
    <3> QED
      BY <2>4, <3>2
  <2>7. up = [x \in 1 .. m |-> Node(t, x)]
    BY <2>5, <2>6
  <2>8. Holds(t, up, m, n)
    BY <2>3, <2>4, <2>7 DEF Holds
  <2> QED
    BY <2>3, <2>8
<1> QED
  BY <1>3, <1>4

LEMMA HashingRight ==
  ASSUME Hashing
  PROVE  MerkleRight'
<1>1. PICK n \in 1 .. MaxLeaves : Root(n)
  BY DEF Hashing
<1>2. n \in Nat /\ n >= 1
  BY SizesAre
<1>3. PICK leaves : leaves = [i \in 1 .. n |-> i]
  OBVIOUS
<1>4. Len(leaves) = n
  BY <1>2, <1>3
<1> DEFINE s == Levels(leaves)
           u == Tree(n)
           T == {i \in 0 .. n : \E l : Holds(s[i], u[i], l, n) /\ (l <= n - i \/ l = 1)}
<1>5. /\ s[0] = [mem |-> Append(leaves, "spare"), ptrs |-> SubSeq([k \in 1 .. n |-> k], 1, n),
                 buffer |-> n + 1, leaves |-> n]
      /\ \A i \in 1 .. n : s[i] = IF s[i - 1].leaves > 1 THEN Level(s[i - 1]) ELSE s[i - 1]
  BY <1>2, <1>4, LevelsDef
<1>6. u[0] = [k \in 1 .. n |-> k] /\ \A i \in 1 .. n : u[i] = IF Len(u[i - 1]) = 1 THEN u[i - 1] ELSE Above(u[i - 1])
  BY <1>2, TreeDef
<1> HIDE DEF s, u
<1>7. Holds(s[0], u[0], n, n)
  <2> DEFINE S == Int \cup {"spare"}
             mem == Append(leaves, "spare")
             ptrs == SubSeq([k \in 1 .. n |-> k], 1, n)
  <2>1. leaves \in Seq(S)
    <3>1. leaves \in [1 .. n -> S]
      BY <1>2, <1>3
    <3> HIDE DEF S
    <3> QED
      BY <1>2, <3>1, FunctionIsSeq
  <2>2. "spare" \in S
    OBVIOUS
  <2> HIDE DEF S
  <2>3. /\ mem \in Seq(S) /\ Len(mem) = n + 1
        /\ \A x \in 1 .. n : mem[x] = leaves[x]
    BY <1>4, <2>1, <2>2, AppendProperties
  <2>4. DOMAIN mem = 1 .. n + 1 /\ \A x \in 1 .. n : mem[x] = x
    BY <1>3, <2>3, LenProperties
  <2>5. ptrs = [k \in 1 .. n |-> k]
    <3> DEFINE f == [k \in 1 .. n |-> k]
    <3>1. f \in [1 .. n -> Nat]
      BY <1>2
    <3>2. f \in Seq(Nat) /\ Len(f) = n
      BY <1>2, <3>1, FunctionIsSeq
    <3> HIDE DEF f
    <3>3. 1 \in Int /\ n \in Int /\ n - 1 + 1 = n /\ \A i \in 1 .. n : 1 + i - 1 = i
      BY <1>2
    <3>4. \A i \in 1 .. n : f[i] \in Nat
      BY <3>1
    <3>5. /\ SubSeq(f, 1, n) \in Seq(Nat) /\ Len(SubSeq(f, 1, n)) = (IF 1 <= n THEN n - 1 + 1 ELSE 0)
          /\ \A i \in 1 .. n - 1 + 1 : SubSeq(f, 1, n)[i] = f[1 + i - 1]
      BY <3>3, <3>4, SubSeqProperties
    <3>6. Len(SubSeq(f, 1, n)) = n /\ \A i \in 1 .. n : SubSeq(f, 1, n)[i] = f[i]
      BY <1>2, <3>3, <3>5
    <3>7. SubSeq(f, 1, n) = f
      BY <3>2, <3>5, <3>6, SeqEqual
    <3> QED
      BY <3>7 DEF f
  <2> HIDE DEF mem, ptrs
  <2>6. s[0].mem = mem /\ s[0].ptrs = ptrs /\ s[0].buffer = n + 1 /\ s[0].leaves = n
    BY <1>5 DEF mem, ptrs
  <2>7. Shape(s[0], n)
    BY <1>2, <2>4, <2>5, <2>6 DEF Shape
  <2>8. \A x \in 1 .. n : Node(s[0], x) = x
    BY <2>4, <2>5, <2>6 DEF Node
  <2>9. u[0] = [x \in 1 .. n |-> Node(s[0], x)]
    BY <1>6, <2>8
  <2> QED
    BY <1>2, <2>6, <2>7, <2>9 DEF Holds
<1>8. 0 \in T
  <2>1. n <= n - 0
    BY <1>2
  <2> QED
    BY <1>2, <1>7, <2>1
<1>9. ASSUME NEW i \in 0 .. n - 1, i \in T
      PROVE  i + 1 \in T
  <2>1. i + 1 \in 1 .. n /\ i + 1 \in 0 .. n /\ (i + 1) - 1 = i
    BY <1>2
  <2>2. PICK l : Holds(s[i], u[i], l, n) /\ (l <= n - i \/ l = 1)
    BY <1>9
  <2>3. PICK v, w, t, up : v = s[i] /\ w = u[i] /\ t = s[i + 1] /\ up = u[i + 1]
    OBVIOUS
  <2>4. t = (IF v.leaves > 1 THEN Level(v) ELSE v) /\ up = (IF Len(w) = 1 THEN w ELSE Above(w))
    BY <1>5, <1>6, <2>1, <2>3
  <2>5. Holds(v, w, l, n)
    BY <2>2, <2>3
  <2>6. PICK m : Holds(t, up, m, n) /\ (m < l \/ m = 1)
    BY <1>2, <2>4, <2>5, HoldsStep
  <2>7. m \in Nat /\ l \in Nat /\ m >= 1
    BY <1>2, <2>5, <2>6 DEF Holds
  <2>8. m <= n - (i + 1) \/ m = 1
    BY <1>2, <2>2, <2>6, <2>7
  <2> QED
    BY <2>1, <2>3, <2>6, <2>8
<1> HIDE DEF T
<1>10. n \in T
  <2>1. \A i \in 0 .. n : i \in T
    BY <1>2, <1>8, <1>9, UpToInduction
  <2> QED
    BY <1>2, <2>1
<1>11. PICK e, top : e = s[n] /\ top = u[n] /\ Holds(e, top, 1, n)
  <2>1. PICK l : Holds(s[n], u[n], l, n) /\ (l <= n - n \/ l = 1)
    BY <1>10 DEF T
  <2>2. l = 1
    BY <1>2, <2>1 DEF Holds
  <2> QED
    BY <2>1, <2>2
<1>12. /\ top = [x \in 1 .. 1 |-> Node(e, x)] /\ e.ptrs \in [1 .. n -> 1 .. n + 1] /\ e.buffer \in 1 .. n + 1
       /\ \A i \in 1 .. n : e.ptrs[i] # e.buffer
       /\ \A i, j \in 1 .. n : e.ptrs[i] = e.ptrs[j] => i = j
  BY <1>11 DEF Holds, Shape
<1>13. top = <<Node(e, 1)>>
  <2>1. PICK z : z = Node(e, 1)
    OBVIOUS
  <2>2. \A x \in 1 .. 1 : x = 1
    OBVIOUS
  <2>3. top = [x \in 1 .. 1 |-> z]
    BY <1>12, <2>1, <2>2
  <2>4. <<z>> = [x \in 1 .. 1 |-> z]
    OBVIOUS
  <2> QED
    BY <2>1, <2>3, <2>4
<1>14. IsInjective(Append(e.ptrs, e.buffer))
  <2>1. PICK p, b : p = e.ptrs /\ b = e.buffer
    OBVIOUS
  <2>2. p \in Seq(1 .. n + 1) /\ Len(p) = n
    BY <1>2, <1>12, <2>1, FunctionIsSeq
  <2>3. PICK f : f = Append(p, b)
    OBVIOUS
  <2>4. f \in Seq(1 .. n + 1) /\ Len(f) = n + 1 /\ f[n + 1] = b /\ \A i \in 1 .. n : f[i] = p[i]
    BY <1>12, <2>1, <2>2, <2>3, AppendProperties
  <2>5. DOMAIN f = 1 .. n + 1
    BY <2>4, LenProperties
  <2>6. ASSUME NEW i \in 1 .. n + 1, NEW j \in 1 .. n + 1, f[i] = f[j]
        PROVE  i = j
    <3>1. (i \in 1 .. n \/ i = n + 1) /\ (j \in 1 .. n \/ j = n + 1)
      BY <1>2
    <3> QED
      BY <1>12, <2>1, <2>4, <2>6, <3>1
  <2> QED
    BY <2>1, <2>3, <2>5, <2>6 DEF IsInjective
<1>15. compute_merkle_root(leaves) = [root |-> Node(e, 1), freed |-> Append(e.ptrs, e.buffer)]
  BY <1>4, <1>11 DEF compute_merkle_root, s, Node
<1>16. rc'.args = n /\ rc'.result = compute_merkle_root(leaves)
  BY <1>1, <1>3, CallIs DEF Root
<1>17. rc'.result.root = Node(e, 1) /\ rc'.result.freed = Append(e.ptrs, e.buffer)
  BY <1>15, <1>16
<1>18. Tree(n)[n] = <<Node(e, 1)>>
  BY <1>11, <1>13 DEF u
<1> QED
  BY <1>14, <1>16, <1>17, <1>18 DEF MerkleRight

-----------------------------------------------------------------------------
(* Conversions.                                                             *)

LEMMA BytesAre ==
  ASSUME NEW x \in Bytes
  PROVE  x \in Int /\ 0 <= x /\ x < 256
BY SMT DEF Bytes

Halves(x, low, high) == low = x % 16 /\ high = x \div 16

LEMMA Nibbles ==
  ASSUME NEW x \in Bytes, NEW low, NEW high, Halves(x, low, high)
  PROVE  low \in 0 .. 15 /\ high \in 0 .. 15 /\ low # 255 /\ ((high * 16) % 256) + low = x
<1>1. x \in Int /\ 0 <= x /\ x < 256
  BY BytesAre
<1>2. low \in 0 .. 15
  BY <1>1 DEF Halves
<1>3. high \in 0 .. 15
  BY <1>1 DEF Halves
<1>4. ((high * 16) % 256) + low = x
  BY <1>1 DEF Halves
<1> QED
  BY <1>2, <1>3, <1>4

LEMMA TwoDigits ==
  ASSUME NEW p \in Bytes, NEW q \in Bytes, NEW v \in Nat, v = 256 * p + q, NEW u, Two(u, v)
  PROVE  u \in Seq(Int) /\ Len(u) = 2 /\ u[1] = p /\ u[2] = q
<1>1. p \in Int /\ 0 <= p /\ p < 256 /\ q \in Int /\ 0 <= q /\ q < 256
  BY BytesAre
<1>2. v \div 256 = p
  BY <1>1
<1>3. v % 256 = q
  BY <1>1
<1>4. p % 256 = p
  BY <1>1
<1> QED
  BY <1>2, <1>3, <1>4 DEF Two

LEMMA HexBack ==
  ASSUME NEW n \in Nat, NEW d \in Seq(Bytes), Len(d) = n
  PROVE  asciitob(btoascii(d), n) = d
<1> DEFINE s == btoascii(d)
<1>1. \A x \in 0 .. 15 : hexc_to_nibble(nibble_to_hexc(x)) = x
  BY SMT DEF hexc_to_nibble, nibble_to_hexc
<1>2. ASSUME NEW i \in 1 .. n
      PROVE  (LET low == hexc_to_nibble(s[2 * i])
              IN  IF low = 255 THEN low ELSE ((hexc_to_nibble(s[2 * i - 1]) * 16) % 256) + low) = d[i]
  <2>1. d[i] \in Bytes
    BY ElementOfSeq
  <2>2. /\ 2 * i \in 1 .. 2 * n /\ 2 * i - 1 \in 1 .. 2 * n /\ (2 * i) % 2 = 0 /\ (2 * i - 1) % 2 = 1
        /\ (2 * i) \div 2 = i /\ ((2 * i - 1) + 1) \div 2 = i
    BY SMT
  <2>3. PICK low, high : low = d[i] % 16 /\ high = d[i] \div 16 /\ Halves(d[i], low, high)
    BY DEF Halves
  <2>4. s[2 * i] = nibble_to_hexc(low) /\ s[2 * i - 1] = nibble_to_hexc(high)
    BY <2>2, <2>3 DEF btoascii
  <2>5. low \in 0 .. 15 /\ high \in 0 .. 15 /\ low # 255 /\ ((high * 16) % 256) + low = d[i]
    <3>1. PICK x \in Bytes : x = d[i]
      BY <2>1
    <3>2. Halves(x, low, high)
      BY <2>3, <3>1
    <3>3. low \in 0 .. 15 /\ high \in 0 .. 15 /\ low # 255 /\ ((high * 16) % 256) + low = x
      BY <3>2, Nibbles
    <3> QED
      BY <3>1, <3>3
  <2> HIDE DEF s
  <2>6. hexc_to_nibble(s[2 * i]) = low /\ hexc_to_nibble(s[2 * i - 1]) = high
    BY <1>1, <2>4, <2>5
  <2> QED
    BY <2>5, <2>6
<1>3. asciitob(s, n) = [i \in 1 .. n |-> d[i]]
  BY <1>2 DEF asciitob
<1>4. d = [i \in 1 .. n |-> d[i]]
  BY LenProperties
<1> QED
  BY <1>3, <1>4

LEMMA SwappedBack ==
  ASSUME NEW S, NEW d \in Seq(S)
  PROVE  /\ swap_bo(swap_bo(d)) = d
         /\ swap_bo(d) \in Seq(S) /\ Len(swap_bo(d)) = Len(d)
         /\ \A i \in 1 .. Len(d) : swap_bo(d)[i] = d[(Len(d) - i) + 1]
<1> DEFINE n == Len(d)
           r == swap_bo(d)
<1>1. n \in Nat /\ d = [i \in 1 .. n |-> d[i]] /\ \A i \in 1 .. n : d[i] \in S
  BY LenProperties, ElementOfSeq
<1>2. r = [i \in 1 .. n |-> d[(n - i) + 1]]
  BY DEF swap_bo, Reverse
<1>3. \A i \in 1 .. n : (n - i) + 1 \in 1 .. n /\ (n - ((n - i) + 1)) + 1 = i
  BY <1>1
<1>4. r \in [1 .. n -> S]
  BY <1>1, <1>2, <1>3
<1> HIDE DEF n, r
<1>5. r \in Seq(S) /\ Len(r) = n
  BY <1>1, <1>4, FunctionIsSeq
<1>6. \A i \in 1 .. n : r[i] = d[(n - i) + 1]
  BY <1>2
<1>7. swap_bo(r) = [i \in 1 .. n |-> r[(n - i) + 1]]
  BY <1>5 DEF swap_bo, Reverse
<1>8. ASSUME NEW i \in 1 .. n
      PROVE  r[(n - i) + 1] = d[i]
  <2>1. (n - i) + 1 \in 1 .. n /\ (n - ((n - i) + 1)) + 1 = i
    BY <1>3
  <2>2. r[(n - i) + 1] = d[(n - ((n - i) + 1)) + 1]
    BY <1>6, <2>1
  <2> QED
    BY <2>1, <2>2
<1>9. swap_bo(r) = d
  BY <1>1, <1>7, <1>8
<1> QED
  BY <1>5, <1>6, <1>9 DEF n, r

\* The first m elements.
LEMMA FirstOf ==
  ASSUME NEW S, NEW d \in Seq(S), NEW m \in Nat, m <= Len(d)
  PROVE  /\ SubSeq(d, 1, m) \in Seq(S) /\ Len(SubSeq(d, 1, m)) = m
         /\ \A i \in 1 .. m : SubSeq(d, 1, m)[i] = d[i]
<1>1. Len(d) \in Nat /\ \A i \in 1 .. m : i \in 1 .. Len(d)
  BY LenProperties
<1>2. \A i \in 1 .. m : d[i] \in S
  BY <1>1, ElementOfSeq
<1>3. 1 \in Int /\ m \in Int
  OBVIOUS
<1>4. PICK t : t = SubSeq(d, 1, m)
  OBVIOUS
<1>5. /\ t \in Seq(S) /\ Len(t) = (IF 1 <= m THEN m - 1 + 1 ELSE 0)
      /\ \A i \in 1 .. m - 1 + 1 : t[i] = d[1 + i - 1]
  BY <1>2, <1>3, <1>4, SubSeqProperties
<1>6. m - 1 + 1 = m /\ (~(1 <= m) => m = 0) /\ \A i \in 1 .. m : 1 + i - 1 = i
  OBVIOUS
<1> QED
  BY <1>4, <1>5, <1>6

LEMMA IntBack ==
  ASSUME NEW d \in Seq(Bytes), Len(d) >= 2
  PROVE  utob(btou(SubSeq(d, 1, US)), US) = SubSeq(d, 1, US)
<1>1. PICK b : b = SubSeq(d, 1, US)
  OBVIOUS
<1>2. b \in Seq(Bytes) /\ Len(b) = 2
  <2>1. 2 \in Nat /\ 2 <= Len(d)
    BY LenProperties
  <2> QED
    BY <1>1, <2>1, FirstOf DEF US
<1>3. b[1] \in Bytes /\ b[2] \in Bytes
  <2>1. 1 \in 1 .. Len(b) /\ 2 \in 1 .. Len(b)
    BY <1>2
  <2> QED
    BY <1>2, <2>1, ElementOfSeq
<1>4. b \in Seq(Int)
  <2>1. b \in [1 .. 2 -> Bytes]
    BY <1>2, LenProperties
  <2>2. b \in [1 .. 2 -> Int]
    BY <2>1, BytesAre
  <2> QED
    BY <2>2, 2 \in Nat, FunctionIsSeq
<1>5. btou(b) = 256 * b[1] + b[2]
  BY <1>2, <1>4, btou2
<1>6. PICK v \in Nat : v = 256 * b[1] + b[2]
  <2>1. b[1] \in Int /\ 0 <= b[1] /\ b[2] \in Int /\ 0 <= b[2]
    BY <1>3, BytesAre
  <2> QED
    BY <2>1
<1>7. PICK u : u = utob(v, US) /\ Two(u, v)
  BY utob2
<1>8. u \in Seq(Int) /\ Len(u) = 2 /\ u[1] = b[1] /\ u[2] = b[2]
  <2>1. PICK p \in Bytes, q \in Bytes : p = b[1] /\ q = b[2]
    BY <1>3
  <2>2. v = 256 * p + q
    BY <1>6, <2>1
  <2>3. u \in Seq(Int) /\ Len(u) = 2 /\ u[1] = p /\ u[2] = q
    BY <1>7, <2>1, <2>2, TwoDigits
  <2> QED
    BY <2>1, <2>3
<1>9. \A i \in 1 .. 2 : u[i] = b[i]
  <2>1. \A i \in 1 .. 2 : i = 1 \/ i = 2
    OBVIOUS
  <2> QED
    BY <1>8, <2>1
<1>10. u = b
  BY <1>2, <1>4, <1>8, <1>9, SeqEqual
<1> QED
  BY <1>1, <1>5, <1>6, <1>7, <1>10

LEMMA ConvertingRight ==
  ASSUME Converting
  PROVE  ConversionsRoundTrip'
<1>1. PICK d \in Data : Convert(d)
  BY DEF Converting
<1>2. PICK n : n = Len(d) /\ n \in Nat /\ d \in Seq(Bytes) /\ n >= 2
  BY RecordsAssumption, LenProperties DEF US
<1>3. PICK r : r = [hex |-> asciitob(btoascii(d), Len(d)), int |-> utob(btou(SubSeq(d, 1, US)), US),
                    swapped |-> swap_bo(swap_bo(d))]
  OBVIOUS
<1>4. rc'.f = "convert" /\ rc'.args = d /\ rc'.result = r
  BY <1>1, <1>3, CallIs DEF Convert
<1>5. r.hex = d
  BY <1>2, <1>3, HexBack
<1>6. r.int = SubSeq(d, 1, US)
  BY <1>2, <1>3, IntBack
<1>7. r.swapped = d
  BY <1>2, <1>3, SwappedBack
<1> QED
  BY <1>4, <1>5, <1>6, <1>7, Zenon DEF ConversionsRoundTrip

-----------------------------------------------------------------------------
(* What a block is read back as.                                            *)

LEMMA ShapesAre == Shapes \subseteq Txs
<1> SUFFICES ASSUME NEW tx \in Shapes
             PROVE  tx \in Txs
  OBVIOUS
<1>1. PICK ins \in UpTo({OneIn}, MaxItems), outs \in UpTo({OneOut}, MaxItems) : tx = Tx(ins, outs)
  BY DEF Shapes
<1>2. ins \in UpTo(Ins, MaxItems)
  <2>1. PICK k \in 0 .. MaxItems : ins \in [1 .. k -> {OneIn}]
    BY DEF UpTo
  <2>2. ins \in [1 .. k -> Ins]
    BY <2>1, OnesIn
  <2> QED
    BY <2>2 DEF UpTo
<1> QED
  BY <1>1, <1>2 DEF Txs

\* The n transactions of a block that is stored.
Stored(txs, n) ==
  /\ TxList(txs, n)
  /\ \A t \in 1 .. n : Len(txs[t].ins) <= MaxItems /\ Len(txs[t].outs) <= MaxItems

LEMMA BlocksAre ==
  ASSUME NEW b \in Blocks
  PROVE  \E txs, n : b = [header |-> Header, txs |-> txs] /\ Stored(txs, n)
<1>1. PICK txs \in UpTo(Shapes, MaxTxs) : b = [header |-> Header, txs |-> txs]
  BY DEF Blocks
<1>2. MaxTxs \in Nat /\ MaxTxs < 256 * (256 * (256 * 256))
  BY RecordsAssumption, SizesAre, UpperHalf
<1>3. PICK n : n = Len(txs) /\ n \in 0 .. MaxTxs /\ DOMAIN txs = 1 .. n /\ \A t \in 1 .. n : txs[t] \in Shapes
  BY <1>2, UpToIs
<1>4. n \in Nat /\ n < 256 * (256 * (256 * 256))
  BY <1>2, <1>3
<1>5. \A t \in 1 .. n : SoundTx(txs[t]) /\ Len(txs[t].ins) <= MaxItems /\ Len(txs[t].outs) <= MaxItems
  BY <1>3, ShapesAre, TxsAre
<1>6. Stored(txs, n)
  BY <1>3, <1>4, <1>5 DEF Stored, TxList
<1> QED
  BY <1>1, <1>6

LEMMA FirstRead ==
  ASSUME NEW txs, NEW n, Stored(txs, n), NEW b, b.header = Header, b.txs = txs
  PROVE  LET back == m_block_deserialize(Wire(b), 0)
         IN  /\ back.header = Header /\ Len(back.txs) = n
             /\ back.txs # <<>> => back.txs[1] = txs[1]
<1>1. /\ TxList(txs, n) /\ n \in Nat /\ n < 256 * (256 * (256 * 256)) /\ DOMAIN txs = 1 .. n
      /\ \A t \in 1 .. n : SoundTx(txs[t])
  BY DEF Stored, TxList
<1>2. PICK buf : buf = Wire(b)
  OBVIOUS
<1>3. HeadLies(buf, n) /\ (n > 0 => Lies(buf, SIZE_BLOCK_HEADER, WireTx(txs[1])))
  BY <1>1, <1>2, WireIs
<1>4. block_header_deserialize(buf, 0) = Header /\ GetInt(buf, POS_TX_COUNT, UI, 0) = n
  BY <1>1, <1>3, HeadRead
<1>5. ASSUME NEW i \in 1 .. n
      PROVE  m_tx_deserialize(buf, SIZE_BLOCK_HEADER, 0) = txs[1]
  <2>1. n > 0 /\ 1 \in 1 .. n
    BY <1>1
  <2>2. PICK tx : tx = txs[1] /\ SoundTx(tx)
    BY <1>1, <2>1
  <2>3. SIZE_BLOCK_HEADER \in Nat
    BY SizesAre DEF SIZE_BLOCK_HEADER, US, UI
  <2>4. \A bf : \A at \in Nat : Lies(bf, at, WireTx(tx)) => TxLies(bf, at, tx)
    BY <2>2, WireTxIs
  <2>5. TxLies(buf, SIZE_BLOCK_HEADER, tx)
    BY <1>3, <2>1, <2>2, <2>3, <2>4
  <2> QED
    BY <2>2, <2>3, <2>5, TxRead
<1>6. PICK s : s = [i \in 1 .. n |-> m_tx_deserialize(buf, SIZE_BLOCK_HEADER, 0)]
  OBVIOUS
<1>7. Len(s) = n /\ (s # <<>> => s[1] = txs[1])
  <2>1. CASE n = 0
    BY <1>6, <2>1
  <2>2. CASE n # 0
    <3>1. 1 \in 1 .. n
      BY <1>1, <2>2
    <3>2. Len(s) = n /\ s[1] = m_tx_deserialize(buf, SIZE_BLOCK_HEADER, 0)
      BY <1>1, <1>6, <3>1
    <3> QED
      BY <1>5, <3>1, <3>2
  <2> QED
    BY <2>1, <2>2
<1>8. PICK back : back = m_block_deserialize(buf, 0) /\ back = [header |-> Header, txs |-> s]
  BY <1>4, <1>6 DEF m_block_deserialize
<1>9. back.header = Header /\ back.txs = s
  BY <1>8
<1> QED
  BY <1>2, <1>7, <1>8, <1>9

-----------------------------------------------------------------------------
(* What is written into a buffer.                                           *)

\* What lies below p stays.
Kept(old, new, p) == \A j \in DOMAIN old : j \in Int /\ j < p => j \in DOMAIN new /\ new[j] = old[j]

LEMMA KeptOn ==
  ASSUME NEW a, NEW b, NEW c, NEW p, Kept(a, b, p), Kept(b, c, p)
  PROVE  Kept(a, c, p)
BY DEF Kept

LEMMA KeptBelow ==
  ASSUME NEW a, NEW b, NEW p \in Int, NEW q \in Int, q <= p, Kept(a, b, p)
  PROVE  Kept(a, b, q)
<1> SUFFICES ASSUME NEW j \in DOMAIN a, j \in Int, j < q
             PROVE  j \in DOMAIN b /\ b[j] = a[j]
  BY DEF Kept
<1>1. j < p
  OBVIOUS
<1> QED
  BY <1>1 DEF Kept

LEMMA PutKeeps ==
  ASSUME NEW buf, NEW pos \in Nat, NEW q \in Seq(Int), NEW p \in Int, p <= pos
  PROVE  Kept(buf, Put(buf, pos, q), p)
<1>1. PICK new : new = Put(buf, pos, q)
  OBVIOUS
<1>2. /\ \A j \in DOMAIN buf : j \in DOMAIN new
      /\ \A j \in DOMAIN buf : j \in Int /\ (j < pos \/ j >= pos + Len(q)) => new[j] = buf[j]
  BY <1>1, PutIs
<1>3. \A j \in Int : j < p => j < pos
  OBVIOUS
<1> QED
  BY <1>1, <1>2, <1>3 DEF Kept

LEMMA LiesStill ==
  ASSUME NEW a, NEW b, NEW p \in Int, Kept(a, b, p), NEW pos \in Nat, NEW q \in Seq(Int), Lies(a, pos, q),
         pos + Len(q) <= p
  PROVE  Lies(b, pos, q)
<1> SUFFICES ASSUME NEW i \in 1 .. Len(q)
             PROVE  (pos + i) - 1 \in DOMAIN b /\ b[(pos + i) - 1] = q[i]
  BY DEF Lies
<1>1. Len(q) \in Nat
  BY LenProperties
<1>2. (pos + i) - 1 \in Int /\ (pos + i) - 1 < p
  BY <1>1
<1>3. (pos + i) - 1 \in DOMAIN a /\ a[(pos + i) - 1] = q[i]
  BY DEF Lies
<1> QED
  BY <1>2, <1>3 DEF Kept

LEMMA WrittenDef ==
  ASSUME NEW tx, NEW buf, NEW at, NEW n \in Nat, n = in_count(tx) + out_count(tx)
  PROVE  /\ Written(tx, buf, at)[0] = Put(buf, at, tx_header_serialize(tx))
         /\ \A k \in 1 .. n : Written(tx, buf, at)[k] =
                Put(Written(tx, buf, at)[k - 1], at + ItemPosition(k, in_count(tx)), Item(tx, k))
<1> DEFINE base == Put(buf, at, tx_header_serialize(tx))
           Step(v, k) == Put(v, at + ItemPosition(k, in_count(tx)), Item(tx, k))
           Body(f, m) == [k \in 0 .. m |-> IF k = 0 THEN base ELSE Step(f[k - 1], k)]
           D == {m \in 0 .. n : \E f : f = Body(f, m)}
           r == Written(tx, buf, at)
<1>1. r = CHOOSE f : f = Body(f, n)
  BY DEF Written
<1> HIDE DEF base, Step, r
<1>2. 0 \in D
  <2>1. \A k \in 0 .. 0 : k = 0
    OBVIOUS
  <2>2. PICK f : f = [k \in 0 .. 0 |-> base]
    OBVIOUS
  <2>3. f = Body(f, 0)
    BY <2>1, <2>2
  <2> QED
    BY <2>3
<1>3. ASSUME NEW m \in 0 .. n - 1, m \in D
      PROVE  m + 1 \in D
  <2>1. PICK f : f = Body(f, m)
    BY <1>3
  <2> DEFINE h == [k \in 0 .. m + 1 |-> IF k <= m THEN f[k] ELSE Step(f[m], m + 1)]
  <2>2. ASSUME NEW k \in 0 .. m + 1
        PROVE  h[k] = IF k = 0 THEN base ELSE Step(h[k - 1], k)
    <3>1. CASE k = 0
      <4>1. h[0] = f[0] /\ 0 \in 0 .. m
        OBVIOUS
      <4>2. f[0] = base
        BY <2>1, <4>1
      <4> QED
        BY <3>1, <4>1, <4>2
    <3>2. CASE k # 0 /\ k <= m
      <4>1. k \in 0 .. m /\ k - 1 \in 0 .. m + 1 /\ k - 1 <= m
        BY <3>2
      <4>2. h[k] = f[k] /\ h[k - 1] = f[k - 1]
        BY <3>2, <4>1
      <4>3. f[k] = Step(f[k - 1], k)
        BY <2>1, <3>2, <4>1
      <4> QED
        BY <3>2, <4>2, <4>3
    <3>3. CASE k = m + 1
      <4>1. h[m + 1] = Step(f[m], m + 1) /\ h[m] = f[m] /\ (m + 1) - 1 = m /\ m + 1 # 0
        OBVIOUS
      <4> QED
        BY <3>3, <4>1
    <3> QED
      BY <3>1, <3>2, <3>3
  <2>3. h = [k \in 0 .. m + 1 |-> h[k]]
    OBVIOUS
  <2> HIDE DEF h
  <2>4. h = Body(h, m + 1)
    BY <2>2, <2>3
  <2>5. m + 1 \in 0 .. n
    OBVIOUS
  <2> QED
    BY <2>4, <2>5
<1>4. \E f : f = Body(f, n)
  <2> HIDE DEF D
  <2>1. \A m \in 0 .. n : m \in D
    BY <1>2, <1>3, UpToInduction
  <2>2. n \in D
    BY <2>1
  <2> QED
    BY <2>2 DEF D
<1>5. r = Body(r, n)
  BY <1>1, <1>4
<1>6. r[0] = base
  BY <1>5
<1>7. ASSUME NEW k \in 1 .. n
      PROVE  r[k] = Step(r[k - 1], k)
  <2>1. k \in 0 .. n /\ k # 0
    OBVIOUS
  <2> QED
    BY <1>5, <2>1
<1> QED
  BY <1>6, <1>7 DEF base, Step, r

LEMMA FilledDef ==
  ASSUME NEW block, NEW n \in Nat, n = Len(block.txs)
  PROVE  /\ Filled(block)[0] = Put(Empty, 0, block_header_serialize(block.header, n))
         /\ \A k \in 1 .. n : Filled(block)[k] = tx_serialize(block.txs[k], Filled(block)[k - 1], Cursor(block.txs, k - 1))
<1> DEFINE base == Put(Empty, 0, block_header_serialize(block.header, n))
           Step(v, k) == tx_serialize(block.txs[k], v, Cursor(block.txs, k - 1))
           Body(f, m) == [k \in 0 .. m |-> IF k = 0 THEN base ELSE Step(f[k - 1], k)]
           D == {m \in 0 .. n : \E f : f = Body(f, m)}
           r == Filled(block)
<1>1. r = CHOOSE f : f = Body(f, n)
  BY DEF Filled
<1> HIDE DEF base, Step, r
<1>2. 0 \in D
  <2>1. \A k \in 0 .. 0 : k = 0
    OBVIOUS
  <2>2. PICK f : f = [k \in 0 .. 0 |-> base]
    OBVIOUS
  <2>3. f = Body(f, 0)
    BY <2>1, <2>2
  <2> QED
    BY <2>3
<1>3. ASSUME NEW m \in 0 .. n - 1, m \in D
      PROVE  m + 1 \in D
  <2>1. PICK f : f = Body(f, m)
    BY <1>3
  <2> DEFINE h == [k \in 0 .. m + 1 |-> IF k <= m THEN f[k] ELSE Step(f[m], m + 1)]
  <2>2. ASSUME NEW k \in 0 .. m + 1
        PROVE  h[k] = IF k = 0 THEN base ELSE Step(h[k - 1], k)
    <3>1. CASE k = 0
      <4>1. h[0] = f[0] /\ 0 \in 0 .. m
        OBVIOUS
      <4>2. f[0] = base
        BY <2>1, <4>1
      <4> QED
        BY <3>1, <4>1, <4>2
    <3>2. CASE k # 0 /\ k <= m
      <4>1. k \in 0 .. m /\ k - 1 \in 0 .. m + 1 /\ k - 1 <= m
        BY <3>2
      <4>2. h[k] = f[k] /\ h[k - 1] = f[k - 1]
        BY <3>2, <4>1
      <4>3. f[k] = Step(f[k - 1], k)
        BY <2>1, <3>2, <4>1
      <4> QED
        BY <3>2, <4>2, <4>3
    <3>3. CASE k = m + 1
      <4>1. h[m + 1] = Step(f[m], m + 1) /\ h[m] = f[m] /\ (m + 1) - 1 = m /\ m + 1 # 0
        OBVIOUS
      <4> QED
        BY <3>3, <4>1
    <3> QED
      BY <3>1, <3>2, <3>3
  <2>3. h = [k \in 0 .. m + 1 |-> h[k]]
    OBVIOUS
  <2> HIDE DEF h
  <2>4. h = Body(h, m + 1)
    BY <2>2, <2>3
  <2>5. m + 1 \in 0 .. n
    OBVIOUS
  <2> QED
    BY <2>4, <2>5
<1>4. \E f : f = Body(f, n)
  <2> HIDE DEF D
  <2>1. \A m \in 0 .. n : m \in D
    BY <1>2, <1>3, UpToInduction
  <2>2. n \in D
    BY <2>1
  <2> QED
    BY <2>2 DEF D
<1>5. r = Body(r, n)
  BY <1>1, <1>4
<1>6. r[0] = base
  BY <1>5
<1>7. ASSUME NEW k \in 1 .. n
      PROVE  r[k] = Step(r[k - 1], k)
  <2>1. k \in 0 .. n /\ k # 0
    OBVIOUS
  <2> QED
    BY <1>5, <2>1
<1> QED
  BY <1>6, <1>7 DEF base, Step, r

\* The cursor of block_raw_compute_size.
RawCursor(buf, g, n) ==
  CHOOSE f : f = [i \in 0 .. n |-> IF i = 0 THEN SIZE_BLOCK_HEADER
                                   ELSE f[i - 1] + tx_raw_compute_size(buf, f[i - 1], g)]

LEMMA RawCursorDef ==
  ASSUME NEW buf, NEW g, NEW n \in Nat
  PROVE  /\ RawCursor(buf, g, n)[0] = SIZE_BLOCK_HEADER
         /\ \A k \in 1 .. n : RawCursor(buf, g, n)[k] =
                RawCursor(buf, g, n)[k - 1] + tx_raw_compute_size(buf, RawCursor(buf, g, n)[k - 1], g)
<1> DEFINE base == SIZE_BLOCK_HEADER
           Step(v, k) == v + tx_raw_compute_size(buf, v, g)
           Body(f, m) == [k \in 0 .. m |-> IF k = 0 THEN base ELSE Step(f[k - 1], k)]
           D == {m \in 0 .. n : \E f : f = Body(f, m)}
           r == RawCursor(buf, g, n)
<1>1. r = CHOOSE f : f = Body(f, n)
  BY DEF RawCursor
<1> HIDE DEF base, Step, r
<1>2. 0 \in D
  <2>1. \A k \in 0 .. 0 : k = 0
    OBVIOUS
  <2>2. PICK f : f = [k \in 0 .. 0 |-> base]
    OBVIOUS
  <2>3. f = Body(f, 0)
    BY <2>1, <2>2
  <2> QED
    BY <2>3
<1>3. ASSUME NEW m \in 0 .. n - 1, m \in D
      PROVE  m + 1 \in D
  <2>1. PICK f : f = Body(f, m)
    BY <1>3
  <2> DEFINE h == [k \in 0 .. m + 1 |-> IF k <= m THEN f[k] ELSE Step(f[m], m + 1)]
  <2>2. ASSUME NEW k \in 0 .. m + 1
        PROVE  h[k] = IF k = 0 THEN base ELSE Step(h[k - 1], k)
    <3>1. CASE k = 0
      <4>1. h[0] = f[0] /\ 0 \in 0 .. m
        OBVIOUS
      <4>2. f[0] = base
        BY <2>1, <4>1
      <4> QED
        BY <3>1, <4>1, <4>2
    <3>2. CASE k # 0 /\ k <= m
      <4>1. k \in 0 .. m /\ k - 1 \in 0 .. m + 1 /\ k - 1 <= m
        BY <3>2
      <4>2. h[k] = f[k] /\ h[k - 1] = f[k - 1]
        BY <3>2, <4>1
      <4>3. f[k] = Step(f[k - 1], k)
        BY <2>1, <3>2, <4>1
      <4> QED
        BY <3>2, <4>2, <4>3
    <3>3. CASE k = m + 1
      <4>1. h[m + 1] = Step(f[m], m + 1) /\ h[m] = f[m] /\ (m + 1) - 1 = m /\ m + 1 # 0
        OBVIOUS
      <4> QED
        BY <3>3, <4>1
    <3> QED
      BY <3>1, <3>2, <3>3
  <2>3. h = [k \in 0 .. m + 1 |-> h[k]]
    OBVIOUS
  <2> HIDE DEF h
  <2>4. h = Body(h, m + 1)
    BY <2>2, <2>3
  <2>5. m + 1 \in 0 .. n
    OBVIOUS
  <2> QED
    BY <2>4, <2>5
<1>4. \E f : f = Body(f, n)
  <2> HIDE DEF D
  <2>1. \A m \in 0 .. n : m \in D
    BY <1>2, <1>3, UpToInduction
  <2>2. n \in D
    BY <2>1
  <2> QED
    BY <2>2 DEF D
<1>5. r = Body(r, n)
  BY <1>1, <1>4
<1>6. r[0] = base
  BY <1>5
<1>7. ASSUME NEW k \in 1 .. n
      PROVE  r[k] = Step(r[k - 1], k)
  <2>1. k \in 0 .. n /\ k # 0
    OBVIOUS
  <2> QED
    BY <1>5, <2>1
<1> QED
  BY <1>6, <1>7 DEF base, Step, r

-----------------------------------------------------------------------------
(* Where items are written.                                                 *)

LEMMA PositionIs ==
  ASSUME NEW ins \in Nat, NEW i \in Nat, i > 0
  PROVE  ItemPosition(i, ins) \in Nat
<1>1. /\ SIZE_TX_INPUT \in Nat /\ SIZE_TX_INPUT > 0 /\ SIZE_TX_OUTPUT \in Nat /\ SIZE_TX_OUTPUT > 0
      /\ SIZE_TX_HEADER = 10 /\ Wrap \in Nat /\ Wrap > 0
  BY TxSizes, SizesAre
<1>2. \A m \in Nat : Power(SIZE_TX_INPUT, m) \in Nat /\ Power(SIZE_TX_OUTPUT, m) \in Nat
  BY <1>1, PowerPositive
<1>3. PICK f \in Nat : Moved(i, ins) = 10 * f
  <2>1. CASE i <= ins
    <3>1. i - 1 \in Nat
      OBVIOUS
    <3>2. PICK x \in Nat : x = Power(SIZE_TX_INPUT, i - 1)
      BY <1>2, <3>1
    <3> QED
      BY <1>1, <2>1, <3>2 DEF Moved
  <2>2. CASE ~(i <= ins)
    <3>1. i - ins - 1 \in Nat
      BY <2>2
    <3>2. PICK x \in Nat, y \in Nat : x = Power(SIZE_TX_INPUT, ins) /\ y = Power(SIZE_TX_OUTPUT, i - ins - 1)
      BY <1>2, <3>1
    <3>3. x * y \in Nat
      OBVIOUS
    <3> QED
      BY <1>1, <2>2, <3>2, <3>3 DEF Moved
  <2> QED
    BY <2>1, <2>2
<1>4. PICK m \in Nat : m = Moved(i, ins)
  BY <1>3
<1>5. m % Wrap \in Nat
  BY <1>1
<1> QED
  BY <1>4, <1>5 DEF ItemPosition

-----------------------------------------------------------------------------
(* The headers of a serialised block.                                       *)

\* The structs' memory has the size of what is written.
LEMMA MemoryIs ==
  ASSUME NEW v \in Nat
  PROVE  String(HostOrder(v, US), 2) /\ String(HostOrder(v, UI), 4)
<1>1. ASSUME NEW a, a \in Seq(Int)
      PROVE  swap_bo(a) \in Seq(Int) /\ Len(swap_bo(a)) = Len(a)
  BY <1>1, SwappedBack
<1> QED
  BY <1>1, utobIs DEF HostOrder, String

LEMMA InMemoryIs ==
  ASSUME NEW in, SoundIn(in)
  PROVE  String(InputMemory(in), SIZE_TX_INPUT)
<1>1. PICK u : u = HostOrder(in.out_index, US) /\ u \in Seq(Int) /\ Len(u) = 2
  BY MemoryIs DEF SoundIn, String
<1>2. Behind(((u \o in.ref_tx) \o in.pubkey) \o in.sig, u, in.ref_tx, in.pubkey, in.sig)
  BY <1>1, ThreeBehind DEF SoundIn, String
<1>3. InputMemory(in) = ((u \o in.ref_tx) \o in.pubkey) \o in.sig
  BY <1>1 DEF InputMemory
<1>4. HashSize \in Nat /\ KeySize \in Nat /\ SigSize \in Nat
  BY SizesAre
<1> QED
  BY <1>1, <1>2, <1>3, <1>4 DEF Behind, String, SoundIn, SIZE_TX_INPUT, US

LEMMA OutMemoryIs ==
  ASSUME NEW out, SoundOut(out)
  PROVE  String(OutputMemory(out), SIZE_TX_OUTPUT)
<1>1. PICK u : u = HostOrder(out.amount, UI) /\ u \in Seq(Int) /\ Len(u) = 4
  BY MemoryIs DEF SoundOut, String
<1>2. out.out_addr \in Seq(Int) /\ Len(out.out_addr) = HashSize
  BY DEF SoundOut, String
<1>3. PICK w : w = out.out_addr \o u
  OBVIOUS
<1>4. w \in Seq(Int) /\ Len(w) = HashSize + 4
  BY <1>1, <1>2, <1>3, Appended
<1> QED
  BY <1>1, <1>3, <1>4 DEF OutputMemory, String, SIZE_TX_OUTPUT, UI

\* The k-th of the items of a transaction.
BoundedTx(tx) == SoundTx(tx) /\ Len(tx.ins) <= MaxItems /\ Len(tx.outs) <= MaxItems

LEMMA ItemIs ==
  ASSUME NEW tx, BoundedTx(tx), NEW k \in 1 .. Len(tx.ins) + Len(tx.outs)
  PROVE  String(Item(tx, k), IF k <= Len(tx.ins) THEN SIZE_TX_INPUT ELSE SIZE_TX_OUTPUT)
<1>1. /\ Len(tx.ins) \in Nat /\ Len(tx.outs) \in Nat /\ \A i \in 1 .. Len(tx.ins) : SoundIn(tx.ins[i])
      /\ \A i \in 1 .. Len(tx.outs) : SoundOut(tx.outs[i])
  BY DEF BoundedTx, SoundTx
<1>2. CASE k <= Len(tx.ins)
  <2>1. k \in 1 .. Len(tx.ins)
    BY <1>1, <1>2
  <2> QED
    BY <1>1, <1>2, <2>1, InMemoryIs DEF Item, in_count
<1>3. CASE ~(k <= Len(tx.ins))
  <2>1. k - Len(tx.ins) \in 1 .. Len(tx.outs)
    <3>1. PICK m \in Nat, o \in Nat : m = Len(tx.ins) /\ o = Len(tx.outs)
      BY <1>1
    <3>2. k \in 1 .. m + o /\ ~(k <= m)
      BY <1>3, <3>1
    <3>3. k - m \in 1 .. o
      BY <3>2
    <3> QED
      BY <3>1, <3>3
  <2> QED
    BY <1>1, <1>3, <2>1, OutMemoryIs DEF Item, in_count
<1> QED
  BY <1>2, <1>3

\* The header of a transaction lies where it begins, and what was before it stays.
LEMMA HeaderWritten ==
  ASSUME NEW tx, BoundedTx(tx), HeaderSpared(tx), NEW buf, NEW at \in Nat
  PROVE  Lies(tx_serialize(tx, buf, at), at, tx_header_serialize(tx)) /\ Kept(buf, tx_serialize(tx, buf, at), at)
<1>1. PICK m, o, n : m = Len(tx.ins) /\ o = Len(tx.outs) /\ n = m + o
  OBVIOUS
<1>2. /\ SoundTx(tx) /\ m \in Nat /\ o \in Nat /\ n \in Nat /\ m <= MaxItems /\ o <= MaxItems
      /\ n = in_count(tx) + out_count(tx) /\ m = in_count(tx)
  BY <1>1 DEF BoundedTx, SoundTx, in_count, out_count
<1>3. PICK h : h = tx_header_serialize(tx) /\ h \in Seq(Int) /\ Len(h) = 10
  BY <1>2, HeaderIs, TxSizes DEF String
<1>4. PICK w : w = Written(tx, buf, at)
  OBVIOUS
<1>5. w[0] = Put(buf, at, h) /\ \A k \in 1 .. n : w[k] = Put(w[k - 1], at + ItemPosition(k, m), Item(tx, k))
  BY <1>2, <1>3, <1>4, WrittenDef
<1> DEFINE T == {k \in 0 .. n : Kept(w[0], w[k], at + 10)}
<1>6. 0 \in T
  BY <1>2 DEF Kept
<1>7. ASSUME NEW k \in 0 .. n - 1, k \in T
      PROVE  k + 1 \in T
  <2>1. k + 1 \in 1 .. n /\ (k + 1) - 1 = k /\ k + 1 \in 0 .. n /\ k + 1 \in 1 .. m + o
    BY <1>1, <1>2
  <2>2. PICK p, q : p = at + ItemPosition(k + 1, m) /\ q = Item(tx, k + 1)
    OBVIOUS
  <2>3. p \in Nat /\ at + 10 <= p
    <3>1. ItemPosition(k + 1, m) \in Nat
      BY <1>2, <2>1, k + 1 \in Nat, k + 1 > 0, PositionIs
    <3>2. ItemPosition(k + 1, m) >= 10
      BY <1>2, <2>1, TxSizes DEF HeaderSpared
    <3> QED
      BY <2>2, <3>1, <3>2
  <2>4. q \in Seq(Int)
    BY <1>1, <2>1, <2>2, ItemIs DEF String
  <2>5. w[k + 1] = Put(w[k], p, q)
    BY <1>5, <2>1, <2>2
  <2>6. Kept(w[k], Put(w[k], p, q), at + 10)
    BY <2>3, <2>4, at + 10 \in Int, PutKeeps
  <2>7. Kept(w[0], w[k], at + 10)
    BY <1>7
  <2>8. Kept(w[0], w[k + 1], at + 10)
    BY <2>5, <2>6, <2>7, KeptOn
  <2> QED
    BY <2>1, <2>8
<1>8. Kept(w[0], w[n], at + 10)
  <2> HIDE DEF T
  <2>1. \A k \in 0 .. n : k \in T
    BY <1>2, <1>6, <1>7, UpToInduction
  <2>2. n \in T
    BY <1>2, <2>1
  <2> QED
    BY <2>2 DEF T
<1>9. w[n] = tx_serialize(tx, buf, at)
  BY <1>2, <1>4 DEF tx_serialize
<1>10. Lies(w[0], at, h)
  BY <1>3, <1>5, PutIs
<1>11. Lies(w[n], at, h)
  BY <1>3, <1>8, <1>10, at + 10 \in Int, at + 10 <= at + 10, LiesStill
<1>12. Kept(buf, w[0], at)
  BY <1>3, <1>5, at <= at, at \in Int, PutKeeps
<1>13. Kept(w[0], w[n], at)
  BY <1>8, at \in Int, at + 10 \in Int, at <= at + 10, KeptBelow
<1>14. Kept(buf, w[n], at)
  BY <1>12, <1>13, KeptOn
<1> QED
  BY <1>3, <1>9, <1>11, <1>14

LEMMA TxSizeIs ==
  ASSUME NEW tx, SoundTx(tx)
  PROVE  tx_compute_size(tx) \in Nat /\ tx_compute_size(tx) >= 10
<1>1. PICK m \in Nat, o \in Nat : m = Len(tx.ins) /\ o = Len(tx.outs)
  BY DEF SoundTx
<1>2. PICK I \in Nat, O \in Nat : I = SIZE_TX_INPUT /\ O = SIZE_TX_OUTPUT
  BY TxSizes
<1>3. m * I \in Nat /\ o * O \in Nat
  OBVIOUS
<1>4. tx_compute_size(tx) = 10 + m * I + o * O
  BY <1>1, <1>2, TxSizes DEF tx_compute_size, in_count, out_count
<1> QED
  BY <1>3, <1>4

\* Each transaction begins where the one before it ends.
LEMMA CursorIs ==
  ASSUME NEW txs, NEW n, TxList(txs, n)
  PROVE  /\ Cursor(txs, 0) = SIZE_BLOCK_HEADER
         /\ \A t \in 0 .. n : Cursor(txs, t) \in Int
         /\ \A t \in 1 .. n : Cursor(txs, t) = Cursor(txs, t - 1) + tx_compute_size(txs[t])
<1> DEFINE f == [i \in 0 .. n - 1 |-> tx_compute_size(txs[i + 1])]
<1>1. n \in Nat /\ \A t \in 1 .. n : tx_compute_size(txs[t]) \in Int
  BY TxSizeIs DEF TxList
<1>2. \A i \in 0 .. n - 1 : f[i] = tx_compute_size(txs[i + 1]) /\ f[i] \in Int
  <2> TAKE i \in 0 .. n - 1
  <2>1. i + 1 \in 1 .. n
    BY <1>1
  <2> QED
    BY <1>1, <2>1
<1>3. SIZE_BLOCK_HEADER \in Nat
  BY SizesAre DEF SIZE_BLOCK_HEADER, US, UI
<1> HIDE DEF f
<1>4. Summands(f, n)
  BY <1>2 DEF Summands
<1>5. ASSUME NEW t \in 0 .. n
      PROVE  Cursor(txs, t) = SIZE_BLOCK_HEADER + SumBelow(f, t)
  <2>1. PICK g : g = [i \in 0 .. t - 1 |-> tx_compute_size(txs[i + 1])]
    OBVIOUS
  <2>2. \A i \in 0 .. t - 1 : i \in 0 .. n - 1
    BY <1>1
  <2>3. \A i \in 0 .. t - 1 : g[i] = f[i] /\ g[i] \in Int
    BY <1>2, <2>1, <2>2
  <2>4. t \in Nat /\ Summands(g, t) /\ t \in 0 .. t
    BY <1>1, <2>3 DEF Summands
  <2>5. \A k \in 0 .. t : SumBelow(g, k) = SumBelow(f, k)
    BY <2>3, <2>4, SumSame
  <2>6. SumBelow(g, t) = SumBelow(f, t)
    BY <2>4, <2>5
  <2> QED
    BY <2>1, <2>6 DEF Cursor
<1>6. \A t \in 0 .. n : SumBelow(f, t) \in Int
  BY <1>1, <1>4, SumInt
<1>7. Cursor(txs, 0) = SIZE_BLOCK_HEADER
  BY <1>1, <1>3, <1>5, SumStep
<1>8. \A t \in 0 .. n : Cursor(txs, t) \in Int
  BY <1>3, <1>5, <1>6
<1>9. ASSUME NEW t \in 1 .. n
      PROVE  Cursor(txs, t) = Cursor(txs, t - 1) + tx_compute_size(txs[t])
  <2>1. PICK k \in 0 .. n - 1 : k = t - 1 /\ k + 1 = t
    BY <1>1, t - 1 \in 0 .. n - 1
  <2>2. SumBelow(f, k) \in Int /\ f[k] \in Int /\ SumBelow(f, k + 1) = SumBelow(f, k) + f[k]
    BY <1>1, <1>4, SumNext
  <2>3. f[k] = tx_compute_size(txs[t])
    BY <1>2, <2>1
  <2>4. k \in 0 .. n /\ t \in 0 .. n
    BY <1>1
  <2>5. Cursor(txs, k) = SIZE_BLOCK_HEADER + SumBelow(f, k) /\ Cursor(txs, t) = SIZE_BLOCK_HEADER + SumBelow(f, t)
    BY <1>5, <2>4
  <2>6. PICK x \in Int : x = SumBelow(f, k)
    BY <2>2
  <2> QED
    BY <1>3, <2>1, <2>2, <2>3, <2>5, <2>6
<1> QED
  BY <1>7, <1>8, <1>9

\* The cursors only grow.
LEMMA CursorGrows ==
  ASSUME NEW txs, NEW n, TxList(txs, n)
  PROVE  \A t \in 0 .. n : \A s \in 0 .. t : Cursor(txs, s) \in Nat /\ Cursor(txs, s) >= SIZE_BLOCK_HEADER
                                              /\ Cursor(txs, s) <= Cursor(txs, t)
<1> DEFINE c(t) == Cursor(txs, t)
           P(t) == \A s \in 0 .. t : c(s) \in Nat /\ c(s) >= SIZE_BLOCK_HEADER /\ c(s) <= c(t)
           T == {t \in 0 .. n : P(t)}
<1>1. n \in Nat /\ SIZE_BLOCK_HEADER \in Nat
  BY SizesAre DEF TxList, SIZE_BLOCK_HEADER, US, UI
<1>2. c(0) = SIZE_BLOCK_HEADER /\ \A t \in 0 .. n : c(t) \in Int
  BY CursorIs
<1>3. ASSUME NEW t \in 0 .. n - 1
      PROVE  c(t + 1) >= c(t) + 10
  <2>1. t + 1 \in 1 .. n /\ (t + 1) - 1 = t /\ t \in 0 .. n /\ t + 1 \in 0 .. n
    BY <1>1
  <2>2. c(t + 1) = c(t) + tx_compute_size(txs[t + 1])
    BY <2>1, CursorIs
  <2>3. tx_compute_size(txs[t + 1]) \in Nat /\ tx_compute_size(txs[t + 1]) >= 10
    BY <2>1, TxSizeIs DEF TxList
  <2> QED
    BY <1>2, <2>1, <2>2, <2>3
<1> HIDE DEF c
<1>4. 0 \in T
  BY <1>1, <1>2
<1>5. ASSUME NEW t \in 0 .. n - 1, t \in T
      PROVE  t + 1 \in T
  <2>1. t \in 0 .. n /\ t + 1 \in 0 .. n /\ t \in 0 .. t
    BY <1>1
  <2>2. c(t) \in Int /\ c(t + 1) \in Int /\ c(t + 1) >= c(t) /\ c(t) >= SIZE_BLOCK_HEADER
    BY <1>2, <1>3, <1>5, <2>1
  <2>3. ASSUME NEW s \in 0 .. t + 1
        PROVE  c(s) \in Nat /\ c(s) >= SIZE_BLOCK_HEADER /\ c(s) <= c(t + 1)
    <3>1. CASE s = t + 1
      BY <1>1, <2>2, <3>1
    <3>2. CASE s # t + 1
      <4>1. s \in 0 .. t
        BY <3>2
      <4>2. c(s) \in Nat /\ c(s) >= SIZE_BLOCK_HEADER /\ c(s) <= c(t)
        BY <1>5, <4>1
      <4> QED
        BY <2>2, <4>2
    <3> QED
      BY <3>1, <3>2
  <2> QED
    BY <2>1, <2>3
<1> HIDE DEF T
<1>6. \A t \in 0 .. n : t \in T
  BY <1>1, <1>4, <1>5, UpToInduction
<1> QED
  BY <1>6 DEF T, c

\* After t transactions the header of the block and theirs lie where they belong.
Headed(buf, txs, n, t) ==
  /\ Lies(buf, 0, block_header_serialize(Header, n))
  /\ \A s \in 1 .. t : Lies(buf, Cursor(txs, s - 1), tx_header_serialize(txs[s]))

LEMMA HeadersStay ==
  ASSUME NEW txs, NEW n, Stored(txs, n), \A t \in 1 .. n : HeaderSpared(txs[t]), NEW b, b.header = Header, b.txs = txs
  PROVE  Headed(block_serialize(b), txs, n, n)
<1>1. /\ TxList(txs, n) /\ n \in Nat /\ n = Len(b.txs) /\ n = Len(txs) /\ \A t \in 1 .. n : BoundedTx(txs[t])
  BY DEF Stored, TxList, BoundedTx
<1>2. PICK w : w = Filled(b)
  OBVIOUS
<1>3. PICK h : h = block_header_serialize(Header, n) /\ h \in Seq(Int) /\ Len(h) = SIZE_BLOCK_HEADER
  BY <1>1, HeadBytes DEF String
<1>4. w[0] = Put(Empty, 0, h) /\ \A k \in 1 .. n : w[k] = tx_serialize(txs[k], w[k - 1], Cursor(txs, k - 1))
  BY <1>1, <1>2, <1>3, FilledDef
<1>5. SIZE_BLOCK_HEADER \in Nat
  BY SizesAre DEF SIZE_BLOCK_HEADER, US, UI
<1>6. \A t \in 0 .. n : \A s \in 0 .. t : Cursor(txs, s) \in Nat /\ Cursor(txs, s) >= SIZE_BLOCK_HEADER
                                          /\ Cursor(txs, s) <= Cursor(txs, t)
  BY <1>1, CursorGrows
<1> DEFINE T == {t \in 0 .. n : Headed(w[t], txs, n, t)}
<1>7. 0 \in T
  <2>1. Lies(w[0], 0, h)
    BY <1>3, <1>4, 0 \in Nat, PutIs
  <2>2. \A s \in 1 .. 0 : FALSE
    OBVIOUS
  <2> QED
    BY <1>1, <1>3, <2>1, <2>2 DEF Headed
<1>8. ASSUME NEW k \in 0 .. n - 1, k \in T
      PROVE  k + 1 \in T
  <2>1. k + 1 \in 1 .. n /\ (k + 1) - 1 = k /\ k + 1 \in 0 .. n /\ k \in 0 .. n /\ k \in 0 .. k
    BY <1>1
  <2>2. PICK c : c = Cursor(txs, k)
    OBVIOUS
  <2>3. c \in Nat /\ c >= SIZE_BLOCK_HEADER
    BY <1>6, <2>1, <2>2
  <2>4. w[k + 1] = tx_serialize(txs[k + 1], w[k], c)
    BY <1>4, <2>1, <2>2
  <2>5. Lies(w[k + 1], c, tx_header_serialize(txs[k + 1])) /\ Kept(w[k], w[k + 1], c)
    <3>1. BoundedTx(txs[k + 1]) /\ HeaderSpared(txs[k + 1])
      BY <1>1, <2>1
    <3> QED
      BY <2>3, <2>4, <3>1, HeaderWritten
  <2>6. Headed(w[k], txs, n, k)
    BY <1>8
  <2>7. Lies(w[k + 1], 0, h)
    <3>1. Lies(w[k], 0, h) /\ 0 \in Nat /\ c \in Int /\ 0 + Len(h) <= c
      BY <1>3, <1>5, <2>3, <2>6 DEF Headed
    <3> QED
      BY <1>3, <2>5, <3>1, LiesStill
  <2>8. ASSUME NEW s \in 1 .. k + 1
        PROVE  Lies(w[k + 1], Cursor(txs, s - 1), tx_header_serialize(txs[s]))
    <3>1. CASE s = k + 1
      BY <2>1, <2>2, <2>5, <3>1
    <3>2. CASE s # k + 1
      <4>1. s \in 1 .. k /\ s \in 1 .. n /\ s - 1 \in 0 .. s /\ s \in 0 .. k /\ s \in 0 .. n
        BY <1>1, <3>2
      <4>2. PICK q, x : q = tx_header_serialize(txs[s]) /\ x = Cursor(txs, s - 1)
        OBVIOUS
      <4>3. q \in Seq(Int) /\ Len(q) = 10
        <5>1. SoundTx(txs[s])
          BY <1>1, <4>1 DEF TxList
        <5> QED
          BY <4>2, <5>1, HeaderIs, TxSizes DEF String
      <4>4. Lies(w[k], x, q)
        BY <2>6, <4>1, <4>2 DEF Headed
      <4>5. x \in Nat /\ Cursor(txs, s) \in Nat /\ Cursor(txs, s) <= c
        BY <1>6, <2>1, <2>2, <4>1, <4>2
      <4>6. x + 10 <= Cursor(txs, s)
        <5>1. Cursor(txs, s) = x + tx_compute_size(txs[s])
          BY <1>1, <4>1, <4>2, CursorIs
        <5>2. tx_compute_size(txs[s]) \in Nat /\ tx_compute_size(txs[s]) >= 10
          BY <1>1, <4>1, TxSizeIs DEF TxList
        <5> QED
          BY <4>5, <5>1, <5>2
      <4>7. x + Len(q) <= c /\ c \in Int
        BY <2>3, <4>3, <4>5, <4>6
      <4>8. Lies(w[k + 1], x, q)
        BY <2>5, <4>3, <4>4, <4>5, <4>7, LiesStill
      <4> QED
        BY <4>2, <4>8
    <3> QED
      BY <3>1, <3>2
  <2> QED
    BY <1>3, <2>1, <2>7, <2>8 DEF Headed
<1>9. Headed(w[n], txs, n, n)
  <2> HIDE DEF T
  <2>1. \A k \in 0 .. n : k \in T
    BY <1>1, <1>7, <1>8, UpToInduction
  <2>2. n \in T
    BY <1>1, <2>1
  <2> QED
    BY <2>2 DEF T
<1> QED
  BY <1>1, <1>2, <1>9 DEF block_serialize

LEMMA RawSizeIs ==
  ASSUME NEW txs, NEW n, Stored(txs, n), NEW buf, Headed(buf, txs, n, n), NEW g
  PROVE  block_raw_compute_size(buf, g) = Cursor(txs, n)
<1>1. TxList(txs, n) /\ n \in Nat /\ n < 256 * (256 * (256 * 256)) /\ \A t \in 1 .. n : SoundTx(txs[t])
  BY DEF Stored, TxList
<1>2. GetInt(buf, POS_TX_COUNT, UI, g) = n
  <2>1. Lies(buf, 0, block_header_serialize(Header, n))
    BY DEF Headed
  <2>2. HeadLies(buf, n)
    BY <1>1, <2>1, HeadBytes
  <2> QED
    BY <1>1, <2>2, HeadRead
<1>3. block_raw_compute_size(buf, g) = RawCursor(buf, g, n)[n]
  BY <1>2 DEF block_raw_compute_size, RawCursor
<1>4. PICK r : r = RawCursor(buf, g, n)
  OBVIOUS
<1>5. r[0] = SIZE_BLOCK_HEADER /\ \A k \in 1 .. n : r[k] = r[k - 1] + tx_raw_compute_size(buf, r[k - 1], g)
  BY <1>1, <1>4, RawCursorDef
<1> DEFINE T == {k \in 0 .. n : r[k] = Cursor(txs, k)}
<1>6. 0 \in T
  BY <1>1, <1>5, CursorIs
<1>7. ASSUME NEW k \in 0 .. n - 1, k \in T
      PROVE  k + 1 \in T
  <2>1. k + 1 \in 1 .. n /\ (k + 1) - 1 = k /\ k + 1 \in 0 .. n /\ k \in 0 .. n /\ k \in 0 .. k
    BY <1>1
  <2>2. PICK c, tx : c = Cursor(txs, k) /\ tx = txs[k + 1]
    OBVIOUS
  <2>3. c \in Nat
    BY <1>1, <2>1, <2>2, CursorGrows
  <2>4. SoundTx(tx) /\ Lies(buf, c, tx_header_serialize(tx))
    BY <1>1, <2>1, <2>2 DEF Headed
  <2>5. GetInt(buf, c + US, US, g) = Len(tx.ins) /\ GetInt(buf, c + 2 * US, US, g) = Len(tx.outs)
    BY <2>3, <2>4, HeaderLies
  <2>6. tx_raw_compute_size(buf, c, g) = tx_compute_size(tx)
    <3>1. PICK m \in Nat, o \in Nat, I \in Nat, O \in Nat :
            m = Len(tx.ins) /\ o = Len(tx.outs) /\ I = SIZE_TX_INPUT /\ O = SIZE_TX_OUTPUT
      BY <2>4, TxSizes DEF SoundTx
    <3>2. tx_raw_compute_size(buf, c, g) = I * m + O * o + 10
      BY <2>5, <3>1, TxSizes DEF tx_raw_compute_size
    <3>3. tx_compute_size(tx) = 10 + m * I + o * O
      BY <3>1, TxSizes DEF tx_compute_size, in_count, out_count
    <3>4. I * m + O * o + 10 = 10 + m * I + o * O
      OBVIOUS
    <3> QED
      BY <3>2, <3>3, <3>4
  <2>7. r[k + 1] = c + tx_compute_size(tx)
    BY <1>5, <1>7, <2>1, <2>2, <2>6
  <2>8. Cursor(txs, k + 1) = c + tx_compute_size(tx)
    BY <1>1, <2>1, <2>2, CursorIs
  <2> QED
    BY <2>1, <2>7, <2>8
<1>8. r[n] = Cursor(txs, n)
  <2> HIDE DEF T
  <2>1. \A k \in 0 .. n : k \in T
    BY <1>1, <1>6, <1>7, UpToInduction
  <2>2. n \in T
    BY <1>1, <2>1
  <2> QED
    BY <2>2 DEF T
<1> QED
  BY <1>3, <1>4, <1>8

LEMMA StoringBlockRight ==
  ASSUME StoringBlock
  PROVE  RawSizeRight' /\ BlockReads'
<1>1. PICK b \in Blocks : StoreBlock(b)
  BY DEF StoringBlock
<1>2. PICK txs, n : b = [header |-> Header, txs |-> txs] /\ Stored(txs, n)
  BY BlocksAre
<1>3. b.header = Header /\ b.txs = txs /\ n = Len(txs)
  BY <1>2 DEF Stored, TxList
<1>4. PICK buf : buf = block_serialize(b)
  OBVIOUS
<1>5. PICK r : r = [raw_size |-> {block_raw_compute_size(buf, g) : g \in Garbage},
                    size |-> block_compute_size(b), back |-> m_block_deserialize(Wire(b), 0)]
  OBVIOUS
<1>6. rc'.f = "block" /\ rc'.args = b /\ rc'.result = r
  BY <1>1, <1>4, <1>5, CallIs DEF StoreBlock
<1>7. PICK back : /\ back = r.back /\ back.header = Header /\ Len(back.txs) = Len(txs)
                  /\ back.txs # <<>> => back.txs[1] = txs[1]
  <2>1. PICK back : back = m_block_deserialize(Wire(b), 0)
    OBVIOUS
  <2>2. back.header = Header /\ Len(back.txs) = n /\ (back.txs # <<>> => back.txs[1] = txs[1])
    BY <1>2, <1>3, <2>1, FirstRead
  <2>3. back = r.back
    BY <1>5, <2>1
  <2> QED
    BY <1>3, <2>2, <2>3
<1>8. ASSUME \A t \in DOMAIN txs : HeaderSpared(txs[t])
      PROVE  r.raw_size = {r.size}
  <2>1. DOMAIN txs = 1 .. n
    BY <1>2 DEF Stored, TxList
  <2>2. Headed(buf, txs, n, n)
    BY <1>2, <1>3, <1>4, <1>8, <2>1, HeadersStay
  <2>3. \A g : block_raw_compute_size(buf, g) = Cursor(txs, n)
    BY <1>2, <2>2, RawSizeIs
  <2>4. r.size = Cursor(txs, n)
    BY <1>3, <1>5 DEF block_compute_size
  <2>5. 0 \in Garbage
    BY DEF Garbage
  <2>6. {block_raw_compute_size(buf, g) : g \in Garbage} = {Cursor(txs, n)}
    BY <2>3, <2>5
  <2> QED
    BY <1>5, <2>4, <2>6
<1>9. RawSizeRight'
  BY <1>3, <1>6, <1>8, Zenon DEF RawSizeRight
<1>10. BlockReads'
  BY <1>3, <1>6, <1>7, Zenon DEF BlockReads
<1> QED
  BY <1>9, <1>10

-----------------------------------------------------------------------------
(* A transaction that is read back.                                         *)

LEMMA StoringTxRight ==
  ASSUME StoringTx
  PROVE  TxReads'
<1>1. PICK tx \in Txs : StoreTx(tx)
  BY DEF StoringTx
<1>2. SoundTx(tx)
  BY TxsAre
<1>3. PICK w, buf : w = WireTx(tx) /\ buf = Put(Empty, 0, w)
  OBVIOUS
<1>4. w \in Seq(Int) /\ \A bf : \A at \in Nat : Lies(bf, at, w) => TxLies(bf, at, tx)
  BY <1>2, <1>3, WireTxIs DEF String
<1>5. Lies(buf, 0, w)
  BY <1>3, <1>4, 0 \in Nat, PutIs
<1>6. TxLies(buf, 0, tx)
  BY <1>4, <1>5, 0 \in Nat
<1>7. \A g : m_tx_deserialize(buf, 0, g) = tx
  BY <1>6, 0 \in Nat, TxRead
<1>8. PICK r : r = [back |-> {m_tx_deserialize(buf, 0, g) : g \in Garbage}]
  OBVIOUS
<1>9. rc'.args = tx /\ rc'.result = r
  BY <1>1, <1>3, <1>8, CallIs DEF StoreTx
<1>10. 0 \in Garbage
  BY DEF Garbage
<1>11. {m_tx_deserialize(buf, 0, g) : g \in Garbage} = {tx}
  BY <1>7, <1>10
<1>12. r.back = {tx}
  BY <1>8, <1>11
<1> QED
  BY <1>9, <1>12, Zenon DEF TxReads

-----------------------------------------------------------------------------
(* The theorems.                                                            *)

(* A hash added to a list is found at its first place and read back, and    *)
(* m_io_load_tx gives NULL exactly for a transaction no stored block has,   *)
(* for lists and blocks of any length.                                      *)
THEOREM LookupsFind == RecordsSpec => []LookupsRight
<1>1. RecordsInit => LookupsRight
  BY DEF RecordsInit, LookupsRight, ListFinds, NullIfUnknown
<1>2. LookupsRight /\ [RecordsNext]_rc => LookupsRight'
  <2> SUFFICES ASSUME LookupsRight, [RecordsNext]_rc
               PROVE  LookupsRight'
    OBVIOUS
  <2>1. CASE UNCHANGED rc
    BY <2>1 DEF LookupsRight, ListFinds, NullIfUnknown, Known
  <2>2. CASE RecordsNext
    <3>1. ListFinds'
      <4>1. CASE Listing
        BY <4>1, ListingRight
      <4>2. CASE rc'.f # "list"
        BY <4>2 DEF ListFinds
      <4> QED
        BY <2>2, <4>1, <4>2, StepIs
    <3>2. NullIfUnknown'
      <4>1. CASE LookingUp
        BY <4>1, LookingUpRight
      <4>2. CASE rc'.f # "load"
        BY <4>2 DEF NullIfUnknown
      <4> QED
        BY <2>2, <4>1, <4>2, StepIs
    <3> QED
      BY <3>1, <3>2 DEF LookupsRight
  <2> QED
    BY <2>1, <2>2
<1> QED
  BY <1>1, <1>2, PTL DEF RecordsSpec

(* compute_merkle_root computes the root of the tree and frees each buffer  *)
(* once, for every number of leaves.                                        *)
THEOREM RootsRight == RecordsSpec => []MerkleRight
<1>1. RecordsInit => MerkleRight
  BY DEF RecordsInit, MerkleRight
<1>2. MerkleRight /\ [RecordsNext]_rc => MerkleRight'
  <2> SUFFICES ASSUME MerkleRight, [RecordsNext]_rc
               PROVE  MerkleRight'
    OBVIOUS
  <2>1. CASE UNCHANGED rc
    BY <2>1 DEF MerkleRight
  <2>2. CASE RecordsNext
    <3>1. CASE Hashing
      BY <3>1, HashingRight
    <3>2. CASE rc'.f # "merkle"
      BY <3>2 DEF MerkleRight
    <3> QED
      BY <2>2, <3>1, <3>2, StepIs
  <2> QED
    BY <2>1, <2>2
<1> QED
  BY <1>1, <1>2, PTL DEF RecordsSpec

(* Hex, byte order and integers come back as they were, for byte strings of *)
(* any length from two on; transactions and the first one of a block are    *)
(* read back from well-formed bytes, for 32-bit amounts and counts; and     *)
(* block_raw_compute_size finds the size of a serialised block of any shape *)
(* of which no position wraps around onto a header.                         *)
THEOREM RecordsReadBack == RecordsSpec => []ReadBack
<1>1. RecordsInit => ReadBack
  BY DEF RecordsInit, ReadBack, ConversionsRoundTrip, TxReads, RawSizeRight, BlockReads
<1>2. ReadBack /\ [RecordsNext]_rc => ReadBack'
  <2> SUFFICES ASSUME ReadBack, [RecordsNext]_rc
               PROVE  ReadBack'
    OBVIOUS
  <2>1. CASE UNCHANGED rc
    BY <2>1 DEF ReadBack, ConversionsRoundTrip, TxReads, RawSizeRight, BlockReads
  <2>2. CASE RecordsNext
    <3>1. ConversionsRoundTrip'
      <4>1. CASE Converting
        BY <4>1, ConvertingRight
      <4>2. CASE rc'.f # "convert"
        BY <4>2 DEF ConversionsRoundTrip
      <4> QED
        BY <2>2, <4>1, <4>2, StepIs
    <3>2. TxReads'
      <4>1. CASE StoringTx
        BY <4>1, StoringTxRight
      <4>2. CASE rc'.f # "tx"
        BY <4>2 DEF TxReads
      <4> QED
        BY <2>2, <4>1, <4>2, StepIs
    <3>3. RawSizeRight' /\ BlockReads'
      <4>1. CASE StoringBlock
        BY <4>1, StoringBlockRight
      <4>2. CASE rc'.f # "block"
        BY <4>2 DEF RawSizeRight, BlockReads
      <4> QED
        BY <2>2, <4>1, <4>2, StepIs
    <3> QED
      BY <3>1, <3>2, <3>3 DEF ReadBack
  <2> QED
    BY <2>1, <2>2
<1> QED
  BY <1>1, <1>2, PTL DEF RecordsSpec
=============================================================================
