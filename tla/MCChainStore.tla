---------------------------- MODULE MCChainStore ----------------------------
(* Small instances of ChainStore.                                           *)
EXTENDS ChainStore, TLC

CONSTANTS g, a, b, c, p1, p2   \* block hashes and processes

\* A fork: g <- a <- b and g <- c.
ForkPrev == (g :> NoHash) @@ (a :> g) @@ (b :> a) @@ (c :> g)
ForkHeight == (g :> 0) @@ (a :> 1) @@ (b :> 2) @@ (c :> 1)

\* Two provisioned chains, g and c.  On g, a block a that says it is of height
\* 0, and on it a block b that says it is of height 1.
OddPrev == (g :> NoHash) @@ (a :> g) @@ (b :> a) @@ (c :> NoHash)
OddHeight == (g :> 0) @@ (a :> 0) @@ (b :> 1) @@ (c :> 0)

\* A chain without forks: g <- a <- b.
LinePrev == (g :> NoHash) @@ (a :> g) @@ (b :> a)
LineHeight == (g :> 0) @@ (a :> 1) @@ (b :> 2)

Processes == Permutations(Procs)
=============================================================================
