SPECIFICATION Spec
CONSTANTS
    g = g
    a = a
    b = b
    c = c
    p1 = p1
    p2 = p2
    NoHash = NoHash
    Blocks = {g, a, b, c}
    Procs = {p1, p2}
    Prev <- ForkPrev
    Height <- ForkHeight
    InitHeads = {g}
    Builds = {TRUE}
    MaxCrashes = 0
SYMMETRY Processes
INVARIANTS
    TypeOK
    NoDeadHeads
    HeadHeights
    BlocksComplete
PROPERTIES
    ImplementsGrowth
