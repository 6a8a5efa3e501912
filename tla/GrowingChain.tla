---------------------------- MODULE GrowingChain ----------------------------
(***************************************************************************)
(* What the block store of libfreecoin promises to its users: the blocks   *)
(* that count start as the provisioned chain, or as none in a directory    *)
(* that was just made, and afterwards they only become more, one block at  *)
(* a time and each on top of one that counts already.  ChainStore, the     *)
(* file-by-file model of io.c and chain.c, is shown to implement it.       *)
(***************************************************************************)
CONSTANTS
    Blocks,   \* block hashes
    Prev,     \* Prev[b]: the prev_hash field of b's header
    Base      \* the blocks of a provisioned data directory

VARIABLE enchained   \* the blocks that count

Provisioned == enchained \in {{}, Base}

Enchain(block) ==
    /\ Prev[block] \in enchained
    /\ block \in Blocks \ enchained
    /\ enchained' = {block} \cup enchained

Grow == \E block \in Blocks : Enchain(block)

Growth == Provisioned /\ [][Grow]_enchained
=============================================================================
