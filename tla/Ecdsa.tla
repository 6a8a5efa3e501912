------------------------------- MODULE Ecdsa -------------------------------
(***************************************************************************)
(* Keys and signatures: lib/src/ecdsa.c from ecdsa_generate_random_int to  *)
(* ecdsa_verify, and its callers crypt_keygen and crypt_test (secrets.c)   *)
(* and io_store_key (io.c).  A step is one answer of the random number     *)
(* generator, with the computation up to the next one, or one write of     *)
(* io_store_key.  The generator may answer anything of Draws or fail, and  *)
(* the process may die between the writes.                                 *)
(***************************************************************************)
EXTENDS Curve

CONSTANTS
    MAX_TRIES,  \* ecdsa_RNG_MAX_TRIES: of a random integer, of a key, of a signature
    Draws,      \* what the generator may answer
    Hashes,     \* message hashes, as numbers below 2^num_n_bits
    MaxRuns     \* bound on the runs of the client

ASSUME DrawsAssumption == Draws \subseteq Nat /\ Hashes \subseteq Nat /\ MAX_TRIES \in Nat

VARIABLES
    running,    \* the function that runs: "none", "make_key", "sign", "shared_secret", "store", "verify"
    want,       \* the random integer it waits for: "none", "private", "k", "blind", "Z"
    draws,      \* tries of ecdsa_generate_random_int
    tries,      \* tries of the key or signature
    ret,        \* what the last call returned
    key,        \* the key pair made last: [d, Q]
    hash,       \* what is signed
    nonce,      \* of ecdsa_sign_with_k: [k, r], r the x coordinate of kG
    sig,        \* the signature, [r, s]
    peer,       \* of ecdsa_shared_secret: the other's private key
    Z,          \* the random Z coordinate it starts from
    secret,     \* its result
    files,      \* DIR_KEYS: the files that are complete, by public key
    runs,       \* runs of the client that have stored, or tried to store, a key
    pure        \* a call of a function that asks for nothing: operands and result

call == <<running, want, draws, tries, ret>>
signing == <<hash, nonce, sig>>
sharing == <<peer, Z, secret>>
store == <<files, runs, pure>>
ecdsaVars == <<call, key, signing, sharing, store>>

NoKey == [d |-> 0, Q |-> ZeroPoint]
NoSig == [r |-> 0, s |-> 0]

EcdsaInit ==
    /\ running = "none" /\ want = "none" /\ draws = 0 /\ tries = 0 /\ ret = 0
    /\ key = NoKey
    /\ hash = 0 /\ nonce = [k |-> 0, r |-> 0] /\ sig = NoSig
    /\ peer = 0 /\ Z = 0 /\ secret = ZeroPoint
    /\ files = {} /\ runs = 0
    /\ pure = [f |-> "none"]

-----------------------------------------------------------------------------
(* Calls and returns.                                                       *)

Call(f, integer) ==
    /\ running = "none"
    /\ running' = f /\ want' = integer /\ draws' = 0 /\ tries' = 0 /\ ret' = 0

\* The function asks for another random integer.
Ask(integer) == want' = integer /\ draws' = 0 /\ UNCHANGED <<running, ret>>

Return(value) ==
    running' = "none" /\ want' = "none" /\ draws' = 0 /\ tries' = 0 /\ ret' = value

\* (mutation) the try is not counted
AgainUncounted(integer) == Ask(integer) /\ UNCHANGED tries

\* The next round of the caller's own loop, or its end.
Again(integer) ==
    IF tries + 1 < MAX_TRIES THEN Ask(integer) /\ tries' = tries + 1 ELSE Return(0)

Top == IF want = "Z" THEN curve_p ELSE curve_n

\* ecdsa_generate_random_int returns 1.
Accepted(v) == v # 0 /\ v < Top

\* It tries again.
Redraw ==
    /\ want # "none"
    /\ \E v \in Draws : ~Accepted(v)
    /\ draws + 1 < MAX_TRIES
    /\ draws' = draws + 1
    /\ UNCHANGED <<running, want, tries, ret, key, signing, sharing, store>>

\* It returns 0: the generator failed, or gave no fit integer too often.  A
\* signature that lacks its blinding number starts again with another k.
NoRandom ==
    /\ want # "none"
    /\ IF want = "blind" THEN Again("k") ELSE Return(0)
    /\ UNCHANGED <<key, signing, sharing, store>>

-----------------------------------------------------------------------------
(* Keys.                                                                    *)

\* 0 when the product is the zero point.
EccPoint_compute_public_key(d) == ecdsa_point_mult(curve_G, d)

ecdsa_compute_public_key(d) ==
    IF d = 0 \/ d >= curve_n THEN ZeroPoint ELSE EccPoint_compute_public_key(d)

ecdsa_make_key ==
    /\ key = NoKey /\ pure.f = "none"
    /\ Call("make_key", "private")
    /\ UNCHANGED <<key, signing, sharing, store>>

DrawnPrivate ==
    /\ want = "private"
    /\ \E d \in {v \in Draws : Accepted(v)} :
        LET Q == EccPoint_compute_public_key(d)
        IN  IF Q = ZeroPoint THEN Again("private") /\ UNCHANGED key
                             ELSE Return(1) /\ key' = [d |-> d, Q |-> Q]
    /\ UNCHANGED <<signing, sharing, store>>

\* A program that has made its key; it goes on to sign or to share one secret.
Made == key # NoKey /\ nonce.k = 0 /\ peer = 0 /\ runs = 0

-----------------------------------------------------------------------------
(* Signing.  crypt_test signs the first half of its public key.             *)

ecdsa_sign ==
    /\ Made
    /\ Call("sign", "k")
    /\ \E e \in Hashes \cup {key.Q[1]} : hash' = e
    /\ UNCHANGED <<key, nonce, sig, sharing, store>>

\* The first half of ecdsa_sign_with_k: r is the x coordinate of kG, not
\* reduced modulo n; zero leads to another k.
DrawnK ==
    /\ want = "k"
    /\ \E v \in {w \in Draws : Accepted(w)} :
        LET r == ecdsa_point_mult(curve_G, v)[1]
        IN  /\ nonce' = [k |-> v, r |-> r]
            /\ IF r = 0 THEN Again("k") ELSE Ask("blind") /\ UNCHANGED tries
    /\ UNCHANGED <<key, hash, sig, sharing, store>>

\* (mutation) the inverse is not multiplied by the blinding number again
SignedBlinded(d, e, r, v, blind) ==
    LET inverse == InvN((v * blind) % curve_n)
    IN  ((e + ((r * d) % curve_n)) * inverse) % curve_n

\* s = (e + r d) / k, with k multiplied by the blinding number before it is
\* inverted and its inverse after.
Signed(d, e, r, v, blind) ==
    LET inverse == (InvN((v * blind) % curve_n) * blind) % curve_n
    IN  ((e + ((r * d) % curve_n)) * inverse) % curve_n

DrawnBlind ==
    /\ want = "blind"
    /\ \E b \in {v \in Draws : Accepted(v)} :
        sig' = [r |-> nonce.r, s |-> Signed(key.d, hash, nonce.r, nonce.k, b)]
    /\ Return(1)
    /\ UNCHANGED <<key, hash, nonce, sharing, store>>

-----------------------------------------------------------------------------
(* ecdsa_verify: Shamir's trick, one doubling per bit and one addition per  *)
(* pair of bits that are not both zero.                                     *)

Points4(Q) ==
    LET sum == XYcZ_add(curve_G, Q)
    IN  <<curve_G, Q, apply_z(sum.second, InvP((Q[1] - curve_G[1]) % curve_p))>>
Bits(u1, u2, i) == (IF TestBit(u1, i) THEN 1 ELSE 0) + (IF TestBit(u2, i) THEN 2 ELSE 0)

\* (mutation) the doubled Z is not multiplied by the difference of the points
ShamirStepOldZ(points, u1, u2, s, i) ==
    LET twice == double_jacobian_default(s.pt, s.z)
        index == Bits(u1, u2, i)
        t == apply_z(points[index], twice.z)
    IN  IF index = 0 THEN twice ELSE [pt |-> XYcZ_add(t, twice.pt).second, z |-> twice.z]

ShamirStep(points, u1, u2, s, i) ==
    LET twice == double_jacobian_default(s.pt, s.z)
        index == Bits(u1, u2, i)
        t == apply_z(points[index], twice.z)
        tz == twice.pt[1] - t[1]
    IN  IF index = 0 THEN twice
        ELSE [pt |-> XYcZ_add(t, twice.pt).second, z |-> (twice.z * tz) % curve_p]

Shamir(points, u1, u2, bits) ==
    FoldLeft(LAMBDA acc, j : ShamirStep(points, u1, u2, acc, bits - 1 - j),
             [pt |-> points[Bits(u1, u2, bits - 1)], z |-> 1], Upto(bits - 1))

\* v = x1 (mod n), by one subtraction.
ModN(rx) == IF rx >= curve_n THEN rx - curve_n ELSE rx
XmodN(R) == ModN(apply_z(R.pt, InvP(R.z))[1])

ecdsa_verify(Q, e, r, s) ==
    LET u1 == (e * InvN(s)) % curve_n
        u2 == (r * InvN(s)) % curve_n
    IN  /\ r # 0 /\ s # 0
        /\ r < curve_n /\ s < curve_n
        /\ r = XmodN(Shamir(Points4(Q), u1, u2, Max({NumBits(u1), NumBits(u2)})))

\* crypt_test verifies what it signed.
VerifySigned ==
    /\ running = "none" /\ ret = 1 /\ sig # NoSig
    /\ running' = "verify"
    /\ ret' = IF ecdsa_verify(key.Q, hash, sig.r, sig.s) THEN 1 ELSE 0
    /\ UNCHANGED <<want, draws, tries, key, signing, sharing, store>>

-----------------------------------------------------------------------------
(* ecdsa_shared_secret: the other's public key times the private key, with  *)
(* a random Z coordinate to start from.                                     *)

ecdsa_shared_secret ==
    /\ Made
    /\ Call("shared_secret", "Z")
    /\ peer' \in {d \in Draws : ecdsa_compute_public_key(d) # ZeroPoint}
    /\ UNCHANGED <<key, signing, Z, secret, store>>

DrawnZ ==
    /\ want = "Z"
    /\ Z' \in {v \in Draws : Accepted(v)}
    /\ secret' = EccPoint_mult(ecdsa_compute_public_key(peer), regularized(key.d), Z')
    /\ Return(IF secret' = ZeroPoint THEN 0 ELSE 1)
    /\ UNCHANGED <<key, signing, peer, store>>

-----------------------------------------------------------------------------
(* crypt_keygen and io_store_key: one file at a time.  A key pair is drawn  *)
(* from a space large enough for it to be new.                              *)

io_store_key ==
    /\ running = "none" /\ ret = 1 /\ key # NoKey /\ nonce.k = 0 /\ peer = 0
    /\ runs < MaxRuns
    /\ \A f \in files : f.Q # key.Q
    /\ running' = "store" /\ runs' = runs + 1
    /\ UNCHANGED <<want, draws, tries, ret, key, signing, sharing, files, pure>>

Private == [Q |-> key.Q, kind |-> "private", d |-> key.d]
Public == [Q |-> key.Q, kind |-> "public", d |-> 0]

\* (mutation) the public key is written first
WriteFileSwapped == IF Public \in files THEN files \cup {Private} ELSE files \cup {Public}

WriteFile == IF Private \in files THEN files \cup {Public} ELSE files \cup {Private}

\* fopen, fwrite and fclose of the private key, then of the public key.
StoreFile ==
    /\ running = "store"
    /\ {Private, Public} \ files # {}
    /\ files' = WriteFile
    /\ UNCHANGED <<call, key, signing, sharing, runs, pure>>

\* The client ends, after its last write or by dying before it.
ClientEnds ==
    /\ running = "store"
    /\ running' = "none" /\ ret' = 0 /\ key' = NoKey
    /\ UNCHANGED <<want, draws, tries, signing, sharing, store>>

Drawn == Redraw \/ NoRandom \/ DrawnPrivate \/ DrawnK \/ DrawnBlind \/ DrawnZ

-----------------------------------------------------------------------------
(* Calls that ask for nothing, on operands of any origin.                   *)

Fresh == running = "none" /\ key = NoKey /\ runs = 0 /\ pure.f = "none"

PointMult ==
    \E j \in Draws, v \in Range0(curve_n) :
        /\ 0 < j /\ j < curve_n
        /\ pure' = [f |-> "mult", j |-> j, v |-> v, out |-> ecdsa_point_mult(Times(j), v)]

Compress ==
    \E Q \in Points :
        pure' = [f |-> "compress", Q |-> Q, valid |-> ecdsa_valid_point(Q),
                 out |-> ecdsa_decompress(ecdsa_compress(Q))]

\* Against a public key from ecdsa_compute_public_key.
Verify ==
    \E d \in Draws, e \in Hashes, s \in Hashes, r \in Range0(2 ^ num_n_bits) :
        LET Q == ecdsa_compute_public_key(d)
        IN  /\ Q # ZeroPoint
            /\ pure' = [f |-> "verify", d |-> d, e |-> e, r |-> r, s |-> s,
                        out |-> ecdsa_verify(Q, e, r, s)]

Pure == Fresh /\ (PointMult \/ Compress \/ Verify) /\ UNCHANGED <<call, key, signing, sharing, files, runs>>

EcdsaNext ==
    \/ ecdsa_make_key \/ ecdsa_sign \/ ecdsa_shared_secret
    \/ Drawn
    \/ VerifySigned
    \/ io_store_key \/ StoreFile \/ ClientEnds
    \/ Pure

EcdsaSpec == EcdsaInit /\ [][EcdsaNext]_ecdsaVars

\* The generator answers, or fails, every time.
EcdsaFairness == WF_ecdsaVars(Drawn)

-----------------------------------------------------------------------------
(* The ladder is right for every scalar from 2 to n - 3 and every point    *)
(* whose x coordinate is not zero; for the other ones it gives the zero    *)
(* point, which every caller rejects, and never a wrong point.             *)
MultRightOrZero ==
    pure.f = "mult" =>
        pure.out = IF Times(pure.j)[1] = 0 \/ pure.v \in {0, 1, curve_n - 2, curve_n - 1}
                   THEN ZeroPoint ELSE Times(pure.j * pure.v)

(* Every point of the curve is valid and comes back from its compressed    *)
(* form, the parity choosing the root.                                     *)
CompressionRoundTrip ==
    pure.f = "compress" => pure.valid /\ pure.out = pure.Q

(* Ladder and compression agree with the group law on every point and      *)
(* scalar, but for the zero point that callers reject.                     *)
CurveRight == MultRightOrZero /\ CompressionRoundTrip

\* Two points that Shamir's trick has to add are equal or opposite, or the
\* sum so far is infinity: Z becomes zero and stays so.
Exceptional(d, u1, u2) ==
    \E i \in 0 .. num_n_bits - 1 :
        LET sofar == 2 * (u1 \div 2 ^ (i + 1) + d * (u2 \div 2 ^ (i + 1)))
            added == ((u1 \div 2 ^ i) % 2) + d * ((u2 \div 2 ^ i) % 2)
        IN  /\ u1 >= 2 ^ (i + 1) \/ u2 >= 2 ^ (i + 1)
            /\ \/ sofar % curve_n = 0
               \/ Bits(u1, u2, i) # 0 /\ (sofar - added) % curve_n = 0
               \/ Bits(u1, u2, i) # 0 /\ (sofar + added) % curve_n = 0

\* What a signature has to satisfy.
Valid(d, e, r, s) ==
    /\ 0 < r /\ r < curve_n /\ 0 < s /\ s < curve_n
    /\ LET R == Times((e + r * d) * InvN(s)) IN R # Infinity /\ R[1] % curve_n = r

NotExceptional(d, e, r, s) == ~Exceptional(d, (e * InvN(s)) % curve_n, (r * InvN(s)) % curve_n)

(* For every key that ecdsa_compute_public_key gives, ecdsa_verify accepts *)
(* valid signatures only, whatever r, s and hash, numbers above n          *)
(* included, and rejects a valid one only when its Z coordinate vanishes   *)
(* on the way.                                                             *)
VerifyExact ==
    pure.f = "verify" =>
        pure.out = (Valid(pure.d, pure.e, pure.r, pure.s)
                        /\ NotExceptional(pure.d, pure.e, pure.r, pure.s))

(* A key pair that is handed out belongs together, and its private key is  *)
(* one that every later product can be computed with.                      *)
MadeKeysRight ==
    key # NoKey => /\ key.d \in 2 .. curve_n - 3
                   /\ key.Q = Times(key.d)
                   /\ ecdsa_valid_point(key.Q)

(* Whatever blinding number was drawn and however often k was drawn again, *)
(* the signature is that of the last k.                                    *)
SignatureOfLastK ==
    sig # NoSig =>
        /\ sig.r = Times(nonce.k)[1] /\ sig.r # 0
        /\ (sig.s * nonce.k) % curve_n = (hash + sig.r * key.d) % curve_n

(* crypt_test's check of its own signature succeeds unless r was not       *)
(* reduced modulo n, s is zero, or verification meets the zero Z.          *)
OwnSignatureVerifies ==
    running = "verify" =>
        (ret = 1) = (sig.r < curve_n /\ sig.s # 0 /\ NotExceptional(key.d, hash, sig.r, sig.s))

(* Both sides of ecdsa_shared_secret get the same point, whatever Z either *)
(* drew, or, for a public key with x coordinate zero, the refusal.         *)
SecretsAgree ==
    Z # 0 => secret = IF Times(peer)[1] = 0 THEN ZeroPoint ELSE Times(key.d * peer)

(* Keys, signatures and shared secrets are those of the group law, through *)
(* every sequence of unfit random numbers, failures and new tries.         *)
MadeRight == MadeKeysRight /\ SignatureOfLastK /\ OwnSignatureVerifies /\ SecretsAgree

(* However the client dies, a public key on disk has its private key       *)
(* beside it.                                                              *)
PublicHasPrivate ==
    \A f \in files : f.kind = "public" =>
        \E g \in files : g.kind = "private" /\ g.Q = f.Q /\ Times(g.d) = f.Q

(* Every call that needs random integers returns, although both loops      *)
(* start over after an unfit integer.                                      *)
CallsReturn == want # "none" ~> want = "none"
=============================================================================
