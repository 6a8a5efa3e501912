CONSTANTS
    \* Digits of four values; numbers of three digits, hashes of four, times of
    \* two; intervals of three blocks, bounds far enough from the wrap.
    Base = 4
    Word = 2
    Width = 3
    Divisors = {1, 2, 3, 4, 5, 7}
    HashSize = 4
    Interval = 3
    HalfWeek = 2
    EightWeeks = 8
    MaxHeight = 4
    EarlierHashes <- MCHashes
    Targets <- MCTargets
    Garbage <- MCGarbage
    \* Two one-byte length words: 40 bytes of message carry over into the high one.
    Block = 8
    LenWord = 1
    MaxLen = 40
    Messages <- MCMessages
    Stale = {0, 255}
    \* The scaled curve; two tries per loop.  97 is a key and a k whose point has
    \* x = 0, 118 a k whose point has x >= n, 0, 1, 192 and 194 are unfit for one
    \* use or another; operands of three words of two bits.
    curve_p = 199
    curve_n = 193
    curve_b = 13
    curve_G <- MCG
    num_n_bits = 8
    MAX_TRIES = 2
    Draws = {0, 1, 57, 97, 118, 190, 192, 194}
    Hashes = {7, 42, 200}
    MaxRuns = 2
    WordBits = 2
    NumWords = 3
    Moduli = {31, 61}
    Products32 <- MCProducts32
    Products64 <- MCProducts64
SPECIFICATION ArithmeticSpec
CHECK_DEADLOCK FALSE
INVARIANTS
    ArithmeticExact
    SecondsBounded
    NothingLost
    DigestOfPaddedMessage
    WordArithmeticExact
    CurveRight
    VerifyExact
    MadeRight
    PublicHasPrivate
PROPERTIES
    CallsReturn
