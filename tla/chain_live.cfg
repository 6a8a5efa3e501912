\* A chain without forks, two processes, one of which may die once.
SPECIFICATION FairSpec
CONSTANTS
    g = g
    a = a
    b = b
    c = c
    p1 = p1
    p2 = p2
    NoHash = NoHash
    Blocks = {g, a, b}
    Procs = {p1, p2}
    Prev <- LinePrev
    Height <- LineHeight
    InitHeads = {g}
    Builds = {TRUE}
    MaxCrashes = 1
INVARIANTS
    DeadHeadsPerDeath
PROPERTIES
    SaveEnds
    LinearChainEnchained
    Heals
