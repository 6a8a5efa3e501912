------------------------------ MODULE Records ------------------------------
(***************************************************************************)
(* Transactions and blocks as bytes: util.c, blocks.c and transactions.c.  *)
(* Bytes and integers have their real width; hashes, keys and signatures   *)
(* are shorter.  A buffer maps the positions that were written to bytes,   *)
(* and a position that was not reads as the byte g.  The structs of inputs *)
(* and outputs have no padding and keep their integers in the host's order,*)
(* least significant byte first.                                           *)
(***************************************************************************)
EXTENDS Integers, SequencesExt, Sums

CONSTANTS
    HashSize,   \* SIZE_SHA256
    KeySize,    \* SIZE_TX_INPUT_PUBKEY
    SigSize,    \* SIZE_TX_INPUT_SIG
    Wrap        \* 2^32, where the position of an item wraps around

Bytes == 0 .. 255
US == 2     \* bytes of a uint16_t
UI == 4     \* bytes of a uint32_t
Shorts == 65536     \* how many values a uint16_t has

\* One part behind the other.
Joined(parts) ==
    LET s[i \in 0 .. Len(parts)] == IF i = 0 THEN <<>> ELSE s[i - 1] \o parts[i] IN s
Concat(parts) == Joined(parts)[Len(parts)]

-----------------------------------------------------------------------------
(* util.c                                                                   *)

\* ustob and uitob, btous and btoui: most significant byte first.
utob(v, width) == [i \in 1 .. width |-> (v \div Power(256, width - i)) % 256]
btou(bytes) == SumBelow([i \in 0 .. Len(bytes) - 1 |-> bytes[Len(bytes) - i] * Power(256, i)], Len(bytes))

swap_bo(arr) == Reverse(arr)
HostOrder(v, width) == swap_bo(utob(v, width))

\* The codes of the characters; 255 for one that is no digit.
nibble_to_hexc(n) == IF n < 10 THEN 48 + n ELSE 87 + n
hexc_to_nibble(c) ==
    IF c \in 48 .. 57 THEN c - 48
    ELSE IF c \in 97 .. 102 THEN c - 87
    ELSE IF c \in 65 .. 70 THEN c - 55
    ELSE 255

btoascii(bytes) ==
    [j \in 1 .. 2 * Len(bytes) |->
        nibble_to_hexc(IF j % 2 = 1 THEN bytes[(j + 1) \div 2] \div 16 ELSE bytes[j \div 2] % 16)]

\* The first nibble shifted, or-ed with the second.
asciitob(string, n) ==
    [i \in 1 .. n |->
        LET low == hexc_to_nibble(string[2 * i])
        IN  IF low = 255 THEN low ELSE ((hexc_to_nibble(string[2 * i - 1]) * 16) % 256) + low]

Pad == 64   \* '='; the other characters stand for their sextets

base64_encoded_size(n) == 4 * ((n + 2) \div 3)

\* Three bytes, or what is left, to four sextets, the last ones overwritten by '='.
base64_encode(data) ==
    LET n == Len(data)
        octet(i) == IF i <= n THEN data[i] ELSE 0
        triple(i) == octet(i) * 65536 + octet(i + 1) * 256 + octet(i + 2)
        sextet(j) == (triple(3 * ((j - 1) \div 4) + 1) \div Power(64, 3 - ((j - 1) % 4))) % 64
        size == base64_encoded_size(n)
        pads == (3 - (n % 3)) % 3
    IN  [j \in 1 .. size |-> IF j > size - pads THEN Pad ELSE sextet(j)]

\* The bytes it writes.  It takes away from n once more what the padding stands for.
base64_decode(ascii, n) ==
    LET size == base64_encoded_size(n)
        left == n - Cardinality({j \in {size - 1, size} : j > 0 /\ ascii[j] = Pad})
        sextet(j) == IF ascii[j] = Pad THEN 0 ELSE ascii[j]
        group(i) == 4 * ((i - 1) \div 3)
        triple(i) == sextet(group(i) + 1) * 262144 + sextet(group(i) + 2) * 4096
                        + sextet(group(i) + 3) * 64 + sextet(group(i) + 4)
    IN  [i \in 1 .. left |-> (triple(i) \div Power(256, 2 - ((i - 1) % 3))) % 256]

-----------------------------------------------------------------------------
(* Buffers.                                                                 *)

Put(buf, pos, bytes) ==
    [i \in DOMAIN buf \cup pos .. pos + Len(bytes) - 1 |->
        IF i >= pos /\ i < pos + Len(bytes) THEN bytes[i - pos + 1] ELSE buf[i]]
Get(buf, pos, size, g) ==
    [i \in 1 .. size |-> IF pos + i - 1 \in DOMAIN buf THEN buf[pos + i - 1] ELSE g]
GetInt(buf, pos, width, g) == btou(Get(buf, pos, width, g))

Empty == [i \in {} |-> 0]

-----------------------------------------------------------------------------
(* transactions.c.  Fields lie one behind the other, in this order.         *)

SIZE_TX_HEADER == 3 * US + UI
SIZE_TX_INPUT == US + HashSize + KeySize + SigSize
SIZE_TX_OUTPUT == HashSize + UI

in_count(tx) == Len(tx.ins)
out_count(tx) == Len(tx.outs)

tx_header_serialize(tx) ==
    utob(tx.version, US) \o utob(in_count(tx), US) \o utob(out_count(tx), US) \o utob(tx.lock_time, UI)

tx_output_serialize(out) == out.out_addr \o utob(out.amount, UI)

\* The structs' memory, which tx_serialize copies.
InputMemory(in) == HostOrder(in.out_index, US) \o in.ref_tx \o in.pubkey \o in.sig
OutputMemory(out) == out.out_addr \o HostOrder(out.amount, UI)

\* How far the i-th item goes: the position is multiplied by the size of each before it.
Moved(i, ins) ==
    SIZE_TX_HEADER * (IF i <= ins THEN Power(SIZE_TX_INPUT, i - 1)
                                  ELSE Power(SIZE_TX_INPUT, ins) * Power(SIZE_TX_OUTPUT, i - ins - 1))

\* Where the i-th item goes.
ItemPosition(i, ins) == Moved(i, ins) % Wrap

\* The inputs, then the outputs.
Item(tx, i) == IF i <= in_count(tx) THEN InputMemory(tx.ins[i]) ELSE OutputMemory(tx.outs[i - in_count(tx)])

\* The buffer after the header and each item.
Written(tx, buf, at) ==
    LET b[i \in 0 .. in_count(tx) + out_count(tx)] ==
            IF i = 0 THEN Put(buf, at, tx_header_serialize(tx))
                     ELSE Put(b[i - 1], at + ItemPosition(i, in_count(tx)), Item(tx, i))
    IN  b
tx_serialize(tx, buf, at) == Written(tx, buf, at)[in_count(tx) + out_count(tx)]

tx_input_deserialize(buf, at, g) ==
    [out_index |-> GetInt(buf, at, US, g),
     ref_tx |-> Get(buf, at + US, HashSize, g),
     pubkey |-> Get(buf, at + US + HashSize, KeySize, g),
     sig |-> Get(buf, at + US + HashSize + KeySize, SigSize, g)]

tx_output_deserialize(buf, at, g) ==
    [out_addr |-> Get(buf, at, HashSize, g), amount |-> GetInt(buf, at + HashSize, UI, g)]

m_tx_deserialize(buf, at, g) ==
    LET ins == GetInt(buf, at + US, US, g)
        outs == GetInt(buf, at + 2 * US, US, g)
        body == at + SIZE_TX_HEADER
    IN  [version |-> GetInt(buf, at, US, g),
         lock_time |-> GetInt(buf, at + 3 * US, UI, g),
         ins |-> [i \in 1 .. ins |-> tx_input_deserialize(buf, body + (i - 1) * SIZE_TX_INPUT, g)],
         outs |-> [i \in 1 .. outs |->
            tx_output_deserialize(buf, body + ins * SIZE_TX_INPUT + (i - 1) * SIZE_TX_OUTPUT, g)]]

tx_compute_size(tx) ==
    SIZE_TX_HEADER + in_count(tx) * SIZE_TX_INPUT + out_count(tx) * SIZE_TX_OUTPUT

\* (mutation) the counts are exchanged
tx_raw_compute_size_exchanged(buf, at, g) ==
    SIZE_TX_INPUT * GetInt(buf, at + 2 * US, US, g) + SIZE_TX_OUTPUT * GetInt(buf, at + US, US, g)
        + SIZE_TX_HEADER

tx_raw_compute_size(buf, at, g) ==
    SIZE_TX_INPUT * GetInt(buf, at + US, US, g) + SIZE_TX_OUTPUT * GetInt(buf, at + 2 * US, US, g)
        + SIZE_TX_HEADER

tx_compute_size_signable_hash(tx) == tx_compute_size(tx) - in_count(tx) * SigSize

\* The inputs are written over the header, then the first output, out_count
\* times; with few of them the header's end shows.
tx_generate_signable_hash(tx) ==
    LET body == Concat([i \in DOMAIN tx.ins |->
                    utob(tx.ins[i].out_index, US) \o tx.ins[i].ref_tx \o tx.ins[i].pubkey])
                \o Concat([i \in DOMAIN tx.outs |-> tx_output_serialize(tx.outs[1])])
        buf == Put(Put(Empty, 0, tx_header_serialize(tx)), 0, body)
    IN  Get(buf, 0, tx_compute_size_signable_hash(tx), 0)

-----------------------------------------------------------------------------
(* compute_merkle_root: the leaves' hashes stay in place and pointers to    *)
(* them and to one spare buffer are exchanged.  mem holds the hashes, ptrs  *)
(* the pointers; a hash is the pair it was computed from.                   *)

\* (mutation) the buffer the node had before is not taken over
Combine_lost(s, i, j, k) ==
    [mem |-> [s.mem EXCEPT ![s.buffer] = <<s.mem[s.ptrs[i]], s.mem[s.ptrs[j]]>>],
     ptrs |-> [s.ptrs EXCEPT ![k] = s.buffer],
     buffer |-> s.buffer]

\* The hash of the nodes i and j goes to node k.
Combine(s, i, j, k) ==
    [mem |-> [s.mem EXCEPT ![s.buffer] = <<s.mem[s.ptrs[i]], s.mem[s.ptrs[j]]>>],
     ptrs |-> [s.ptrs EXCEPT ![k] = s.buffer],
     buffer |-> s.ptrs[k]]

\* After each of the first pairs of a level.
Paired(s) ==
    LET t[k \in 0 .. s.leaves \div 2] ==
            IF k = 0 THEN [mem |-> s.mem, ptrs |-> s.ptrs, buffer |-> s.buffer]
                     ELSE Combine(t[k - 1], 2 * k - 1, 2 * k, k)
    IN  t

\* The last node of an odd level is combined with itself.
Level(s) ==
    LET pairs == s.leaves \div 2
        paired == Paired(s)[pairs]
        all == IF s.leaves % 2 = 0 THEN paired ELSE Combine(paired, s.leaves, s.leaves, pairs + 1)
    IN  [mem |-> all.mem, ptrs |-> all.ptrs, buffer |-> all.buffer, leaves |-> pairs + (s.leaves % 2)]

\* Level upon level, as long as there is more than one node.
Levels(leaves) ==
    LET n == Len(leaves)
        s[i \in 0 .. n] ==
            IF i = 0 THEN [mem |-> Append(leaves, "spare"), ptrs |-> SubSeq([k \in 1 .. n |-> k], 1, n),
                           buffer |-> n + 1, leaves |-> n]
            ELSE IF s[i - 1].leaves > 1 THEN Level(s[i - 1]) ELSE s[i - 1]
    IN  s

compute_merkle_root(leaves) ==
    LET end == Levels(leaves)[Len(leaves)]
    IN  [root |-> end.mem[end.ptrs[1]], freed |-> Append(end.ptrs, end.buffer)]

-----------------------------------------------------------------------------
(* blocks.c                                                                 *)

SIZE_BLOCK_HEADER == 2 * US + 4 * UI + 2 * HashSize
POS_TX_COUNT == SIZE_BLOCK_HEADER - UI

block_header_serialize(h, count) ==
    utob(h.version, US) \o utob(h.time, UI) \o utob(h.height, UI) \o h.prev_hash \o h.merkle_root
        \o h.target \o utob(h.nonce, UI) \o utob(count, UI)

block_header_deserialize(buf, g) ==
    LET hashes == US + 2 * UI
        target == hashes + 2 * HashSize
    IN  [version |-> GetInt(buf, 0, US, g), time |-> GetInt(buf, US, UI, g),
         height |-> GetInt(buf, US + UI, UI, g),
         prev_hash |-> Get(buf, hashes, HashSize, g),
         merkle_root |-> Get(buf, hashes + HashSize, HashSize, g),
         target |-> Get(buf, target, 2, g), nonce |-> GetInt(buf, target + 2, UI, g)]

\* Where each transaction begins, and where the last one ends.
Cursor(txs, t) == SIZE_BLOCK_HEADER + SumBelow([i \in 0 .. t - 1 |-> tx_compute_size(txs[i + 1])], t)

\* The buffer after the header and each transaction.
Filled(block) ==
    LET b[t \in 0 .. Len(block.txs)] ==
            IF t = 0 THEN Put(Empty, 0, block_header_serialize(block.header, Len(block.txs)))
                     ELSE tx_serialize(block.txs[t], b[t - 1], Cursor(block.txs, t - 1))
    IN  b
block_serialize(block) == Filled(block)[Len(block.txs)]

\* The cursor stays at the first transaction.
m_block_deserialize(buf, g) ==
    [header |-> block_header_deserialize(buf, g),
     txs |-> [i \in 1 .. GetInt(buf, POS_TX_COUNT, UI, g) |->
                m_tx_deserialize(buf, SIZE_BLOCK_HEADER, g)]]

block_compute_size(block) == Cursor(block.txs, Len(block.txs))

block_raw_compute_size(buf, g) ==
    LET count == GetInt(buf, POS_TX_COUNT, UI, g)
        cursor[i \in 0 .. count] ==
            IF i = 0 THEN SIZE_BLOCK_HEADER
                     ELSE cursor[i - 1] + tx_raw_compute_size(buf, cursor[i - 1], g)
    IN  cursor[count]
=============================================================================
