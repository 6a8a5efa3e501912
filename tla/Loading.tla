------------------------------ MODULE Loading ------------------------------
(***************************************************************************)
(* Looking up a transaction by its hash (io.c): the lists of hashes, the   *)
(* search through the transaction index and the copy out of the block.  A  *)
(* file is the sequence of its bytes; the index is the sequence of its     *)
(* files in the order of the directory, each with the hash it is named     *)
(* after in hex; blocks maps the hashes of the stored blocks to their raw  *)
(* bytes.                                                                  *)
(***************************************************************************)
EXTENDS Records

-----------------------------------------------------------------------------
(* Lists of hashes.  A file can end in a part of a hash.                    *)

HashAt(file, i) == SubSeq(file, i * HashSize + 1, (i + 1) * HashSize)

\* (mutation) the last hash is not compared
intern_hashlist_getindex_short(hash, file) ==
    LET found == {i \in 0 .. Len(file) \div HashSize - 2 : HashAt(file, i) = hash}
    IN  IF found = {} THEN -1 ELSE Min(found)

\* The first position, or -1.
intern_hashlist_getindex(hash, file) ==
    LET found == {i \in 0 .. Len(file) \div HashSize - 1 : HashAt(file, i) = hash}
    IN  IF found = {} THEN -1 ELSE Min(found)

\* dst is left as it was when the file ends before.
intern_hashlist_get(height, dst, file) ==
    IF Len(file) >= (height + 1) * HashSize THEN HashAt(file, height) ELSE dst

intern_hashlist_add(hash, file) == file \o hash

-----------------------------------------------------------------------------
\* The first characters of the name are taken for the hash.
HashOfName(name) == SubSeq(name, 1, HashSize)

\* The position and the block, of the first file that lists the transaction.
io_block_of_tx(hash, index) ==
    LET listed == {k \in DOMAIN index : intern_hashlist_getindex(hash, index[k].file) >= 0}
        k == Min(listed)
    IN  IF listed = {} THEN [pos |-> -1]
        ELSE [pos |-> intern_hashlist_getindex(hash, index[k].file),
              block |-> HashOfName(btoascii(index[k].block))]

\* The bytes of transaction n; "false" without the block.  The block is read
\* into an array on the stack: without room for the largest block there, the
\* process is killed at once.  The loop that should skip n transactions does
\* not count: it goes on behind the block.
io_load_nth_tx_raw(hash, n, blocks, room, g) ==
    IF ~room THEN [end |-> "killed"]
    ELSE IF hash \notin DOMAIN blocks THEN [end |-> "false"]
    ELSE LET buf == blocks[hash]
         IN  IF n >= GetInt(buf, POS_TX_COUNT, UI, g) THEN [end |-> "fatal"]
             ELSE IF n > 0 THEN [end |-> "undefined"]
             ELSE [end |-> "true", raw |-> Get(buf, SIZE_BLOCK_HEADER,
                                               tx_raw_compute_size(buf, SIZE_BLOCK_HEADER, g), g)]

\* A missing block is not noticed: what is in dst then was never written.
io_load_tx_raw(hash, index, blocks, room, g) ==
    LET found == io_block_of_tx(hash, index)
        copied == io_load_nth_tx_raw(found.block, found.pos, blocks, room, g)
    IN  IF found.pos < 0 THEN [end |-> "false"]
        ELSE IF copied.end = "false" THEN [end |-> "undefined"] ELSE copied

\* The transaction, or NULL.
m_io_load_tx(hash, index, blocks, room, g) ==
    LET loaded == io_load_tx_raw(hash, index, blocks, room, g)
    IN  IF loaded.end = "true"
        THEN [end |-> "tx", tx |-> m_tx_deserialize(Put(Empty, 0, loaded.raw), 0, g)]
        ELSE IF loaded.end = "false" THEN [end |-> "null"] ELSE loaded
=============================================================================
