---------------------------- MODULE RecordCalls ----------------------------
(***************************************************************************)
(* Calls of the functions on records, each on every value of a small set,  *)
(* and what they return compared with what the format or the rules say.    *)
(***************************************************************************)
EXTENDS Loading, Validation

CONSTANTS
    Data,           \* byte strings to convert
    Ints,           \* values of an out_index
    Values,         \* values of an amount
    Keep,           \* hashes: of blocks, of transactions, of what is spent
    MaxItems,       \* inputs, and outputs, of a transaction
    MaxTxs,         \* transactions of a block
    MaxLeaves,      \* leaves of a Merkle tree
    MaxHeight       \* height of a block that is validated

ASSUME RecordsAssumption ==
    /\ {HashSize, KeySize, SigSize, Wrap, MaxItems, MaxTxs, MaxLeaves, MaxHeight} \subseteq Nat \ {0}
    /\ HashSize > US /\ MaxItems < Shorts /\ MaxTxs \div Shorts < Shorts
    /\ Ints # {} /\ \A v \in Ints : v \in Nat /\ v < Shorts
    /\ Values # {} /\ \A v \in Values : v \in Nat /\ v \div Shorts < Shorts
    /\ Keep # {} /\ \A h \in Keep : h \in [1 .. HashSize -> Bytes]
    /\ \A d \in Data : d \in Seq(Bytes) /\ Len(d) >= US

VARIABLE rc   \* the call: function, arguments and results

Call(f, args, result) == rc' = [f |-> f, args |-> args, result |-> result]

UpTo(S, n) == UNION {[1 .. k -> S] : k \in 0 .. n}

Garbage == {0, 127}   \* what memory that was not written can hold

-----------------------------------------------------------------------------
(* Arguments.                                                               *)

Ins == {[out_index |-> v, ref_tx |-> h, pubkey |-> [i \in 1 .. KeySize |-> 7],
         sig |-> [i \in 1 .. SigSize |-> 9]] : v \in Ints, h \in Keep}
Outs == {[out_addr |-> h, amount |-> v] : v \in Values, h \in Keep}
OneIn == CHOOSE in \in Ins : TRUE
OneOut == CHOOSE out \in Outs : TRUE
Tx(ins, outs) == [version |-> 1, lock_time |-> 258, ins |-> ins, outs |-> outs]
Txs == {Tx(ins, outs) : ins \in UpTo(Ins, MaxItems), outs \in UpTo({OneOut}, MaxItems)}
        \cup {Tx(ins, outs) : ins \in UpTo({OneIn}, 1), outs \in UpTo(Outs, MaxItems)}
Shapes == {Tx(ins, outs) : ins \in UpTo({OneIn}, MaxItems), outs \in UpTo({OneOut}, MaxItems)}

Header == [version |-> 1, time |-> 65538, height |-> 3, prev_hash |-> [i \in 1 .. HashSize |-> 4],
           merkle_root |-> [i \in 1 .. HashSize |-> 5], target |-> <<6, 7>>, nonce |-> 8]
Blocks == {[header |-> Header, txs |-> txs] : txs \in UpTo(Shapes, MaxTxs)}

\* The bytes at the positions of transactions.h and blocks.h, integers as
\* the functions for single inputs and outputs write them.
WireTx(tx) ==
    utob(tx.version, US) \o utob(Len(tx.ins), US) \o utob(Len(tx.outs), US) \o utob(tx.lock_time, UI)
        \o Concat([i \in DOMAIN tx.ins |-> utob(tx.ins[i].out_index, US) \o tx.ins[i].ref_tx
                                                \o tx.ins[i].pubkey \o tx.ins[i].sig])
        \o Concat([i \in DOMAIN tx.outs |-> tx.outs[i].out_addr \o utob(tx.outs[i].amount, UI)])
Wire(b) ==
    Put(Empty, 0, utob(b.header.version, US) \o utob(b.header.time, UI) \o utob(b.header.height, UI)
                    \o b.header.prev_hash \o b.header.merkle_root \o b.header.target
                    \o utob(b.header.nonce, UI) \o utob(Len(b.txs), UI)
                    \o Concat([t \in DOMAIN b.txs |-> WireTx(b.txs[t])]))

-----------------------------------------------------------------------------
(* Calls.                                                                   *)

\* As in test_util.
Convert(d) ==
    Call("convert", d,
         [hex |-> asciitob(btoascii(d), Len(d)), int |-> utob(btou(SubSeq(d, 1, US)), US),
          swapped |-> swap_bo(swap_bo(d))])

StoreTx(tx) ==
    Call("tx", tx, [back |-> {m_tx_deserialize(Put(Empty, 0, WireTx(tx)), 0, g) : g \in Garbage}])

StoreBlock(b) ==
    LET buf == block_serialize(b)
    IN  Call("block", b,
             [raw_size |-> {block_raw_compute_size(buf, g) : g \in Garbage},
              size |-> block_compute_size(b), back |-> m_block_deserialize(Wire(b), 0)])

Root(n) == Call("merkle", n, compute_merkle_root([i \in 1 .. n |-> i]))

\* A list of hashes to which a hash is added.
Lists(hashes, hash) ==
    LET file == intern_hashlist_add(hash, Concat(hashes))
        index == intern_hashlist_getindex(hash, file)
    IN  Call("list", [hashes |-> hashes, hash |-> hash],
             [index |-> index, back |-> IF index < 0 THEN <<>> ELSE intern_hashlist_get(index, <<>>, file)])

\* Blocks with the given hashes and numbers of transactions; the lock_time
\* tells the transactions apart, and is every byte of their hashes.
Number(k, i) == (MaxTxs + 2) * k + i
Numbered(k, i) == [Tx(<<OneIn>>, <<OneOut>>) EXCEPT !.lock_time = Number(k, i)]
NumberedHash(k, i) == [j \in 1 .. HashSize |-> Number(k, i)]
NumberedBlock(counts, j) == [header |-> Header, txs |-> [t \in 1 .. counts[j] |-> Numbered(j, t)]]
Lookup(names, counts, k, i, room) ==
    LET index == [j \in DOMAIN names |->
                    [block |-> names[j], file |-> Concat([t \in 1 .. counts[j] |-> NumberedHash(j, t)])]]
        stored == [h \in Range(names) |-> Wire(NumberedBlock(counts, CHOOSE j \in DOMAIN names : names[j] = h))]
    IN  Call("load", [names |-> names, counts |-> counts, k |-> k, i |-> i, room |-> room],
             m_io_load_tx(NumberedHash(k, i), index, stored, room, 0))

\* What a transaction spends: amounts are those of the outputs it refers to.
Spent == {[out_index |-> v, ref_tx |-> h, amount |-> 5] : v \in {0, 1}, h \in {CHOOSE h \in Keep : TRUE}}
SomeSpent == CHOOSE in \in Spent : TRUE
Spender(ins) == [ins |-> ins, outs |-> <<>>, surplus |-> 1]
Spenders == {Spender(ins) : ins \in UpTo(Spent, MaxItems)}
OneInput == {<<Spender(<<a>>), Spender(<<b>>)>> : a, b \in Spent}

\* Nobody checked the heights.
Ancestors ==
    {[height |-> h, txs |-> txs] :
        h \in 0 .. MaxHeight - 1, txs \in OneInput \cup {<<>>} \cup {<<t>> : t \in Spenders}}

Spend(txs, height, chain) ==
    LET parent == [header |-> [height |-> height], txs |-> txs]
    IN  Call("spend", [txs |-> txs, height |-> height, chain |-> chain],
             validate_tx_input_chain(SomeSpent, parent, chain))

\* The transaction's inputs are new: only its amounts can be refused.
Pay(ins, amounts, index) ==
    LET tx == [ins |-> [i \in 1 .. ins |-> [SomeSpent EXCEPT !.out_index = i + 1]],
               outs |-> [o \in DOMAIN amounts |-> [amount |-> amounts[o]]], surplus |-> 2]
        other == Spender(<<SomeSpent>>)
        parent == [header |-> [height |-> 1], txs |-> IF index = 0 THEN <<tx, other>> ELSE <<other, tx>>]
    IN  Call("pay", [tx |-> tx, index |-> index], validate_tx_chain(tx, index, parent, <<>>))

\* Transactions that are signed or not, and that pay for their size or not.
\* They spend an output of amount 5 twice and pay more than 10.
Judged(signed, surplus) ==
    LET outs == <<[OneOut EXCEPT !.amount = 0], [OneOut EXCEPT !.amount = 11]>>
        sig == IF signed THEN SignedBytes(Tx(<<OneIn, OneIn>>, outs)) ELSE <<0>>
        in == [out_index |-> OneIn.out_index, ref_tx |-> OneIn.ref_tx, pubkey |-> OneIn.pubkey,
               sig |-> sig, amount |-> 5]
    IN  [version |-> 1, lock_time |-> 258, ins |-> <<in, in>>, outs |-> outs,
         surplus |-> surplus, required |-> 1]

Coinbase ==
    [version |-> 1, lock_time |-> 258, ins |-> <<>>, surplus |-> 1, required |-> 0,
     outs |-> <<[OneOut EXCEPT !.amount = MINING_REWARD + 2]>>]

JudgedTxs == {Judged(signed, surplus) : signed \in BOOLEAN, surplus \in 0 .. 1} \cup {Coinbase}

Judge(b, prev, hashes) ==
    \E v \in validate_block_chain(b, prev, hashes), g \in {0, 2} :
        Call("judge", [block |-> b, prev |-> prev],
             [pseudo |-> validate_block_pseudo(b, hashes, g), chain |-> v])

Spending ==
    \E chain \in UpTo(Ancestors, MaxHeight - 1), height \in 0 .. MaxHeight, txs \in UpTo(Spenders, MaxTxs) :
        Spend(txs, height, chain)

Paying == \E ins \in 0 .. MaxItems, amounts \in UpTo(0 .. 12, MaxItems), index \in {0, 1} : Pay(ins, amounts, index)

Judging ==
    \E hash \in 0 .. 2, target \in 1 .. 2, root, time \in 0 .. 1, stored, hashes \in BOOLEAN,
       version \in {Version, Version + 1}, height, below \in 0 .. Recalc + 1,
       txs \in UpTo(JudgedTxs, MaxTxs) :
        Judge([target |-> target, hash |-> hash, version |-> version, root |-> root, true_root |-> 0,
               txs |-> txs, height |-> height, time |-> time, first |-> 1],
              [stored |-> stored, time |-> 0, target |-> 1, height |-> below], hashes)

Converting == \E d \in Data : Convert(d)

StoringTx == \E tx \in Txs : StoreTx(tx)

StoringBlock == \E b \in Blocks : StoreBlock(b)

Hashing == \E n \in 1 .. MaxLeaves : Root(n)

Listing == \E hashes \in UpTo(Keep, MaxTxs), hash \in Keep : Lists(hashes, hash)

LookingUp ==
    \E j, k \in Keep, counts \in [1 .. 2 -> 1 .. MaxTxs], n \in 1 .. 2, i \in 1 .. MaxTxs + 1, room \in BOOLEAN :
        j # k /\ Lookup(<<j, k>>, counts, n, i, room)

RecordsInit == rc = [f |-> "none"]

RecordsNext ==
    /\ rc.f = "none"
    /\ \/ Converting \/ StoringTx \/ StoringBlock \/ Hashing \/ Listing \/ LookingUp
       \/ Spending \/ Paying \/ Judging

RecordsSpec == RecordsInit /\ [][RecordsNext]_rc

-----------------------------------------------------------------------------
(* Properties of what is converted and stored.                              *)

(* Hex, integers and byte order come back as they were (util.c).            *)
ConversionsRoundTrip ==
    rc.f = "convert" =>
        /\ rc.result.hex = rc.args
        /\ rc.result.int = SubSeq(rc.args, 1, US)
        /\ rc.result.swapped = rc.args

(* m_tx_deserialize reads well-formed bytes back as the transaction they    *)
(* are of, whatever lies in the memory behind them.                         *)
TxReads == rc.f = "tx" => rc.result.back = {rc.args}

\* No position of an item wraps around onto the header.
HeaderSpared(tx) ==
    \A i \in 1 .. in_count(tx) + out_count(tx) : ItemPosition(i, in_count(tx)) >= SIZE_TX_HEADER

(* Although tx_serialize writes into the transactions behind, every header  *)
(* survives unless a position wraps around onto it: block_raw_compute_size  *)
(* walks over a serialised block to the size block_compute_size computes,   *)
(* which is how much io_save_block_raw writes to the disk.                  *)
RawSizeRight ==
    rc.f = "block" /\ (\A t \in DOMAIN rc.args.txs : HeaderSpared(rc.args.txs[t])) =>
        rc.result.raw_size = {rc.result.size}

(* m_block_deserialize reads the header, the number of transactions and the *)
(* first one of well-formed bytes.                                          *)
BlockReads ==
    rc.f = "block" =>
        LET back == rc.result.back
        IN  /\ back.header = rc.args.header
            /\ Len(back.txs) = Len(rc.args.txs)
            /\ back.txs # <<>> => back.txs[1] = rc.args.txs[1]

(* What is converted, laid out in a buffer or walked over as a raw block is *)
(* read back as these four say.                                             *)
ReadBack == ConversionsRoundTrip /\ TxReads /\ RawSizeRight /\ BlockReads

-----------------------------------------------------------------------------
(* Properties of what is hashed.                                            *)

\* The levels of the tree over n leaves, the last node of an odd one being
\* paired with itself.
Above(s) ==
    [k \in 1 .. (Len(s) + 1) \div 2 |-> <<s[2 * k - 1], IF 2 * k <= Len(s) THEN s[2 * k] ELSE s[2 * k - 1]>>]
Tree(n) ==
    LET level[i \in 0 .. n] ==
            IF i = 0 THEN [k \in 1 .. n |-> k]
            ELSE IF Len(level[i - 1]) = 1 THEN level[i - 1] ELSE Above(level[i - 1])
    IN  level

(* compute_merkle_root, which exchanges pointers as it goes up the tree,    *)
(* frees every buffer once and ends with the one node at the top.           *)
MerkleRight ==
    rc.f = "merkle" =>
        /\ IsInjective(rc.result.freed)
        /\ Tree(rc.args)[rc.args] = <<rc.result.root>>

-----------------------------------------------------------------------------
(* Properties of looking up.                                                *)

(* A hash that is added to a list is found, at its first place, and read    *)
(* back from there.                                                         *)
ListFinds ==
    rc.f = "list" =>
        LET places == {i \in DOMAIN rc.args.hashes : rc.args.hashes[i] = rc.args.hash}
        IN  /\ rc.result.index = Min(places \cup {Len(rc.args.hashes) + 1}) - 1
            /\ rc.result.back = rc.args.hash

\* The transaction that is looked up is in a stored block.
Known(a) == a.i <= a.counts[a.k]

(* m_io_load_tx gives NULL exactly for a transaction no stored block has.   *)
NullIfUnknown == rc.f = "load" => (rc.result.end = "null" <=> ~Known(rc.args))

(* What was stored is found, and what was not is not.                       *)
LookupsRight == ListFinds /\ NullIfUnknown

-----------------------------------------------------------------------------
(* Properties of what validation accepts.                                   *)

\* The inputs that spend the output in question.
Spends(txs) == {v \in (DOMAIN txs) \X (1 .. MaxItems) :
                    v[2] <= in_count(txs[v[1]]) /\ txs[v[1]].ins[v[2]] = SomeSpent}

(* An input is refused as a double spend only if the block spends its       *)
(* output twice or an ancestor spends it, whichever way the loops' bound is *)
(* taken from the wrong transaction and wherever unchecked heights lead.    *)
DoubleSpendSound ==
    rc.f = "spend" /\ rc.result = "doublespend" =>
        \/ Cardinality(Spends(rc.args.txs)) > 1
        \/ \E j \in DOMAIN rc.args.chain : Spends(rc.args.chain[j].txs) # {}

\* The heights count up.
Counted(a) == \A j \in DOMAIN a.chain : a.chain[j].height = a.height - j

(* In blocks of two transactions with one input each, on heights that count *)
(* up, a double spend within the block is found, and so is one in the first *)
(* transaction of an ancestor above the first block.                        *)
DoubleSpendFound ==
    rc.f = "spend" =>
        LET a == rc.args
            pairs == a.txs \in OneInput /\ \A j \in DOMAIN a.chain : a.chain[j].txs \in OneInput
            spent == \/ Cardinality(Spends(a.txs)) > 1
                     \/ \E j \in DOMAIN a.chain :
                            a.chain[j].height > 0 /\ Spends(<<a.chain[j].txs[1]>>) # {}
        IN  Counted(a) /\ pairs /\ spent => rc.result = "doublespend"

(* What is refused as a double spend is one, and which ones are found.      *)
DoubleSpends == DoubleSpendSound /\ DoubleSpendFound

(* A transaction with inputs whose first output is its largest and that is  *)
(* not refused creates no money: validate_tx_chain adds the first output's  *)
(* amount once for every output.                                            *)
SpendCovered ==
    rc.f = "pay" /\ rc.result = "ok" =>
        LET tx == rc.args.tx
        IN  tx.ins # <<>> /\ (\A o \in DOMAIN tx.outs : tx.outs[o].amount <= tx.outs[1].amount)
              => Amounts(tx.outs) <= Inputs(tx.ins)

Accepted == rc.f = "judge" /\ rc.result = [pseudo |-> "ok", chain |-> "ok"]

(* A block both checks accept has this client's version and the root of its *)
(* transactions, all signed and the large ones paid for, and is later than  *)
(* its predecessor unless it is the first.                                  *)
AcceptedBlock ==
    Accepted =>
        LET b == rc.args.block
        IN  /\ b.version = Version
            /\ b.root = b.true_root
            /\ \A t \in DOMAIN b.txs :
                /\ \A i \in DOMAIN b.txs[t].ins : b.txs[t].ins[i].sig = SignedBytes(b.txs[t])
                /\ tx_compute_size(b.txs[t]) > BigSize => b.txs[t].surplus >= b.txs[t].required
            /\ b.height > 0 => b.time > rc.args.prev.time

-----------------------------------------------------------------------------
(* What the repository's documents say of records and blocks, and the code  *)
(* does not do.  The two properties ask only that one of the rules be kept. *)

\* testing/src/main.c decodes what it has encoded and prints it again.
Base64Back(d) == base64_decode(base64_encode(d), Len(d)) = d

\* The layout of transactions.h: the inputs behind the header, the outputs
\* behind the inputs, and nothing else.
TxLayout(tx) == DOMAIN tx_serialize(tx, Empty, 0) = 0 .. tx_compute_size(tx) - 1

\* testing/src/main.c loads what it has serialised, to compare the structs.
TxBack(tx) == m_tx_deserialize(tx_serialize(tx, Empty, 0), 0, 0) = tx

\* transactions.h: a block contains a variable number of transactions.
BlockWhole(b) == m_block_deserialize(Wire(b), 0) = b

\* The README has the whole transaction signed but for the signatures.
WholeSigned(tx, other) ==
    LET unsigned(t) == [t EXCEPT !.ins = [i \in DOMAIN t.ins |-> [t.ins[i] EXCEPT !.sig = <<>>]]]
    IN  SignedBytes(tx) = SignedBytes(other) => unsigned(tx) = unsigned(other)

(* A transaction of a block of two is stored and looked up, with room on    *)
(* the stack: it is loaded, as storage.md has an index for, or one of the   *)
(* rules of format is kept by it, its block or the other transaction.       *)
OneFormatRuleKept ==
    rc.f = "load" =>
        LET a == rc.args
            b == NumberedBlock(a.counts, a.k)
            tx == Numbered(a.k, a.i)
        IN  a.room /\ Known(a) /\ Len(b.txs) = 2 =>
                \/ rc.result = [end |-> "tx", tx |-> tx]
                \/ Base64Back(tx.ins[1].pubkey)
                \/ TxLayout(tx)
                \/ TxBack(tx)
                \/ BlockWhole(b)
                \/ WholeSigned(b.txs[1], b.txs[2])

\* validate_tx_chain accepts the transactions of b, prev having none.
TxsAccepted(b, prev) ==
    \A t \in DOMAIN b.txs :
        validate_tx_chain(b.txs[t], t - 1, [header |-> [height |-> b.height], txs |-> b.txs],
                          <<[height |-> prev.height, txs |-> <<>>]>>) = "ok"

\* The inputs of a block, input i of transaction t being <<t, i>>.
InputsOf(txs) == {v \in (DOMAIN txs) \X (1 .. MaxItems) : v[2] \in DOMAIN txs[v[1]].ins}

\* No output is spent twice in the block.
SpentOnce(txs) ==
    \A v, w \in InputsOf(txs) : SameOutput(txs[v[1]].ins[v[2]], txs[w[1]].ins[w[2]]) => v = w

\* A transaction that is not a coinbase has inputs that cover its outputs.
NoOverspend(txs) == \A t \in DOMAIN txs : txs[t].ins # <<>> => Amounts(txs[t].outs) <= Inputs(txs[t].ins)

\* A coinbase takes at most the reward and the surplus of the others.
CoinbaseWithin(txs) ==
    txs[1].ins = <<>> => Amounts(txs[1].outs) <= MINING_REWARD + SumOf(Tail(txs), LAMBDA t : t.surplus)

(* An accepted block whose transactions are accepted too keeps one of the   *)
(* README's rules: its hash is at most its target, its height is one above  *)
(* its predecessor's, its coinbase takes no more than it may, no other      *)
(* transaction pays more than it has, and no output is spent twice in it.   *)
OneBlockRuleKept ==
    Accepted =>
        LET b == rc.args.block
            prev == rc.args.prev
        IN  b.height > 0 /\ TxsAccepted(b, prev) =>
                \/ b.hash <= b.target
                \/ b.height = prev.height + 1
                \/ CoinbaseWithin(b.txs)
                \/ NoOverspend(b.txs)
                \/ SpentOnce(b.txs)
=============================================================================
