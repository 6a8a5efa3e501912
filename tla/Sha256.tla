------------------------------- MODULE Sha256 -------------------------------
(***************************************************************************)
(* The streaming part of lib/src/sha256.c: one crypt_sha256_ctx that its   *)
(* caller initialises, feeds byte by byte and finalises, again and again.  *)
(*                                                                         *)
(* sha256_transform is abstracted to what the stream can influence: it     *)
(* reads the 64 bytes of the buffer, and its result depends on the bytes   *)
(* it has read so far and on nothing else.  So the compression state is    *)
(* `fed', the bytes transformed since sha256_init, and two contexts agree  *)
(* on the digest if they agree on `fed'.                                   *)
(*                                                                         *)
(* The sizes are parameters: the code has Block = 64, LenWord = 4.         *)
(***************************************************************************)
EXTENDS Integers, Sequences

CONSTANTS
    Block,      \* bytes in ctx->data
    LenWord,    \* bytes in a word of ctx->bitlen
    Messages,   \* the messages that are hashed
    Stale       \* byte values a context that malloc returned may hold

Byte == 0 .. 255

\* Values of a word (uint32_t in the code).
Modulus == 256 ^ LenWord

\* Where the length starts in the last block: 56 in the code.
LenPos == Block - 2 * LenWord

ASSUME StreamAssumption ==
    /\ Block \in Nat /\ LenWord \in Nat \ {0}
    /\ Block > 2 * LenWord
    /\ Modulus > 8 * Block /\ Modulus >= 256
    /\ Messages \subseteq Seq(Byte)
    /\ Stale \subseteq Byte

(* Arithmetic the proofs need: the powers of 256 that index the bytes of a *)
(* word are positive.                                                      *)
ASSUME PowersAssumption == \A k \in 0 .. LenWord : 256 ^ k \in Nat \ {0}

VARIABLES
    data,       \* ctx->data; nothing ever clears all of it
    datalen,    \* ctx->datalen
    bitlen,     \* ctx->bitlen, the low word first
    fed,        \* bytes given to sha256_transform since sha256_init
    message,    \* the message the caller hashes
    pos,        \* how many of its bytes sha256_update has taken
    stage       \* "new", "open" (initialised), "done" (finalised)

vars == <<data, datalen, bitlen, fed, message, pos, stage>>

Init ==
    /\ data \in [0 .. Block - 1 -> Stale]
    /\ datalen \in Stale
    /\ bitlen \in [{0, 1} -> Stale]
    /\ fed = << >>
    /\ message = << >>
    /\ pos = 0
    /\ stage = "new"

-----------------------------------------------------------------------------
(* The bytes of the buffer in order.                                       *)
Bytes(buffer) == [i \in 1 .. Block |-> buffer[i - 1]]

(* sha256_transform(ctx, ctx->data)                                        *)
Transform(stream, buffer) == stream \o Bytes(buffer)

(* DBL_INT_ADD: two words as one number, c added to it.  The comparison    *)
(* comes before the addition, which wraps around.                          *)
DBL_INT_ADD(words, c) ==
    [w \in {0, 1} |->
        IF w = 0
        THEN (words[0] + c) % Modulus
        ELSE IF words[0] > (Modulus - 1) - c
             THEN (words[1] + 1) % Modulus
             ELSE words[1]]

(* sha256_init leaves the buffer as it is.                                 *)
sha256_init(m) ==
    /\ stage \in {"new", "done"}
    /\ datalen' = 0
    /\ bitlen' = [w \in {0, 1} |-> 0]
    /\ fed' = << >>
    /\ message' = m
    /\ pos' = 0
    /\ stage' = "open"
    /\ UNCHANGED data

\* (mutation) the length is not counted
sha256_update_keeps_length ==
    /\ stage = "open"
    /\ pos < Len(message)
    /\ pos' = pos + 1
    /\ data' = [data EXCEPT ![datalen] = message[pos + 1]]
    /\ IF datalen + 1 = Block
       THEN /\ fed' = Transform(fed, data')
            /\ datalen' = 0
       ELSE /\ datalen' = datalen + 1
            /\ UNCHANGED fed
    /\ UNCHANGED <<bitlen, message, stage>>

(* One iteration of sha256_update's loop.                                  *)
sha256_update ==
    /\ stage = "open"
    /\ pos < Len(message)
    /\ pos' = pos + 1
    /\ data' = [data EXCEPT ![datalen] = message[pos + 1]]
    /\ IF datalen + 1 = Block
       THEN /\ fed' = Transform(fed, data')
            /\ bitlen' = DBL_INT_ADD(bitlen, 8 * Block)
            /\ datalen' = 0
       ELSE /\ datalen' = datalen + 1
            /\ UNCHANGED <<fed, bitlen>>
    /\ UNCHANGED <<message, stage>>

(* The byte at index j of the length, the last j being the lowest byte of  *)
(* the low word.                                                           *)
LengthByte(words, j) ==
    LET back == (Block - 1) - j
    IN  IF back < LenWord
        THEN (words[0] \div 256 ^ back) % 256
        ELSE (words[1] \div 256 ^ (back - LenWord)) % 256

(* data[datalen] = 0x80, and zeros up to index `upto'.                     *)
PadTo(upto) ==
    [i \in 0 .. Block - 1 |->
        IF i = datalen THEN 128
        ELSE IF datalen < i /\ i < upto THEN 0 ELSE data[i]]

(* The last block: what the padding left, with the length in its place.    *)
WithLength(buffer, words) ==
    [i \in 0 .. Block - 1 |->
        IF i < LenPos THEN buffer[i] ELSE LengthByte(words, i)]

(* Mutation: 56 bytes are taken to leave room for the padding byte.        *)
PaddingOffByOne ==
    IF datalen <= LenPos
    THEN [buffer |-> PadTo(LenPos), stream |-> fed]
    ELSE [buffer |-> [i \in 0 .. Block - 1 |-> IF i < LenPos THEN 0 ELSE PadTo(Block)[i]],
          stream |-> Transform(fed, PadTo(Block))]

(* sha256_final: the padding fits in front of the length, or it takes a    *)
(* block of its own and the next one starts with memset(ctx->data, 0, 56). *)
Padding ==
    IF datalen < LenPos
    THEN [buffer |-> PadTo(LenPos), stream |-> fed]
    ELSE [buffer |-> [i \in 0 .. Block - 1 |-> IF i < LenPos THEN 0 ELSE PadTo(Block)[i]],
          stream |-> Transform(fed, PadTo(Block))]

sha256_final ==
    /\ stage = "open"
    /\ pos = Len(message)
    /\ bitlen' = DBL_INT_ADD(bitlen, datalen * 8)
    /\ data' = WithLength(Padding.buffer, bitlen')
    /\ fed' = Transform(Padding.stream, data')
    /\ stage' = "done"
    /\ UNCHANGED <<datalen, message, pos>>

Next ==
    \/ \E m \in Messages : sha256_init(m)
    \/ sha256_update
    \/ sha256_final

Spec == Init /\ [][Next]_vars

-----------------------------------------------------------------------------
(* Reference: the padding of FIPS 180-4, section 5.1.1, from the message   *)
(* alone: the message, the byte 0x80, as few zeros as fill up a block, and *)
(* the length of the message in bits, big-endian in two words.             *)

Zeros(n) == (LenPos - 1 - n) % Block

LengthWords(bits) ==
    [w \in {0, 1} |-> IF w = 0 THEN bits % Modulus
                               ELSE (bits \div Modulus) % Modulus]

Padded(m) ==
    m \o <<128>>
      \o [i \in 1 .. Zeros(Len(m)) |-> 0]
      \o [i \in 1 .. 2 * LenWord |-> LengthByte(LengthWords(8 * Len(m)), LenPos + i - 1)]

(* Type invariant of the context: an initialised one never has a full      *)
(* buffer between two steps.                                               *)
TypeOK ==
    /\ data \in [0 .. Block - 1 -> Byte]
    /\ datalen \in Nat
    /\ stage # "new" => datalen < Block
    /\ bitlen \in [{0, 1} -> 0 .. Modulus - 1]
    /\ fed \in Seq(Byte)
    /\ message \in Messages \cup {<< >>}
    /\ pos \in 0 .. Len(message)
    /\ stage \in {"new", "open", "done"}

(* A digest is computed from the padded message and from nothing else:     *)
(* not one byte is lost or repeated at the end of a block, no stale byte   *)
(* of an earlier message gets into the padding, the padding takes a second *)
(* block exactly when it must, and the length is carried over from the low *)
(* word into the high one (sha256_update, sha256_final, DBL_INT_ADD).      *)
DigestOfPaddedMessage ==
    stage = "done" => fed = Padded(message)

(* While a message is absorbed every byte sha256_update has taken is in    *)
(* exactly one place: transformed, or in the first datalen bytes of the    *)
(* buffer; and bitlen counts the transformed ones.                         *)
NothingLost ==
    stage = "open" =>
        /\ SubSeq(message, 1, pos) = fed \o [i \in 1 .. datalen |-> data[i - 1]]
        /\ bitlen = LengthWords(8 * Len(fed))
=============================================================================
