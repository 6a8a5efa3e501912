\* Bytes of real width in short hashes, keys and signatures;
\* 16909060 has four different bytes.
CONSTANTS
    HashSize = 3
    KeySize = 2
    SigSize = 1
    Wrap = 2048
    MINING_REWARD = 2
    Recalc = 2
    BigSize = 20
    Version = 1
    Data <- MCData
    Ints = {1, 257}
    Values = {7, 16909060}
    Keep <- MCKeep
    MaxItems = 2
    MaxTxs = 2
    MaxLeaves = 9
    MaxHeight = 3
SPECIFICATION RecordsSpec
CHECK_DEADLOCK FALSE
INVARIANTS
    ReadBack
    MerkleRight
    LookupsRight
    DoubleSpends
    SpendCovered
    AcceptedBlock
