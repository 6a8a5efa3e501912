\* Two provisioned chains, wrong height fields, and deaths of processes.
SPECIFICATION Spec
CONSTANTS
    g = g
    a = a
    b = b
    c = c
    p1 = p1
    p2 = p2
    NoHash = NoHash
    Blocks = {g, a, b, c}
    Procs = {p1, p2}
    Prev <- OddPrev
    Height <- OddHeight
    InitHeads = {g, c}
    Builds = {TRUE, FALSE}
    MaxCrashes = 1
SYMMETRY Processes
PROPERTIES
    NothingUnchained
