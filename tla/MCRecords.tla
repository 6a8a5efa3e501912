----------------------------- MODULE MCRecords -----------------------------
(***************************************************************************)
(* Records of short hashes, keys and signatures.  A block whose hash is    *)
(* three times the character '3' is named after itself; one that starts    *)
(* with the byte 0x34 is looked for under the hash of the next.            *)
(***************************************************************************)
EXTENDS RecordCalls

MCData == UNION {[1 .. n -> {0, 171, 255}] : n \in 2 .. 5}
MCKeep == {<<51, 51, 51>>, <<52, 48, 0>>, <<51, 52, 51>>}
=============================================================================
