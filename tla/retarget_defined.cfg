\* Digits of four values; numbers of three digits, hashes of four, times of
\* two; intervals of three blocks, bounds far enough from the wrap.
CONSTANTS
    Base = 4
    Word = 2
    Width = 3
    Divisors = {1, 2, 3, 4, 5, 7}
    HashSize = 4
    Interval = 3
    HalfWeek = 2
    EightWeeks = 8
    MaxHeight = 4
    EarlierHashes <- MCHashes
    Targets <- MCTargets
    Garbage <- MCGarbage
SPECIFICATION NumbersSpec
CHECK_DEADLOCK FALSE
INVARIANTS
    NextTargetIsDefined
