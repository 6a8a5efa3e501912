\* One process on the two provisioned chains with wrong height fields.
SPECIFICATION Spec
CONSTANTS
    g = g
    a = a
    b = b
    c = c
    p1 = p1
    p2 = p2
    NoHash = NoHash
    Blocks = {g, a, b, c}
    Procs = {p1}
    Prev <- OddPrev
    Height <- OddHeight
    InitHeads = {g, c}
    Builds = {TRUE}
    MaxCrashes = 0
INVARIANTS
    OneHeadRuleKept
